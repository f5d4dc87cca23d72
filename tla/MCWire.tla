-------------------------------- MODULE MCWire --------------------------------
(* A small instance of Wire for TLC.                                       *)
EXTENDS Wire

MCMessages == {<<1, 2>>}
MCReplies == {<<>>, <<3, 4>>}
===============================================================================
