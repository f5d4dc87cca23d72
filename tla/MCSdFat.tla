-------------------------------- MODULE MCSdFat --------------------------------
(* Programs for the TLC instance of SdFat.                                 *)
EXTENDS SdFat

RW == {"READ", "WRITE", "CREAT"}

MCPrograms ==
  [writer |->
     [calls |-> 5, faults |-> {}, power |-> FALSE,
      ops |-> {"open", "createContiguous", "write", "read", "peek", "seek", "truncate", "sync",
               "close", "remove"},
      paths |-> {<<"a">>, <<"b">>}, sizes |-> {0, 1, 7},
      flags |-> {RW, RW \cup {"APPEND", "SYNC"}, {"READ", "WRITE", "TRUNC", "AT_END"}}],
   keeper |->
     [calls |-> 4, faults |-> {}, power |-> FALSE,
      ops |-> {"open", "close", "exists", "removePath", "truncatePath", "mkdir", "rmdir",
               "rmRfStar", "list", "openParent", "rename"},
      paths |-> {<<"d">>, <<"d", "e">>, <<"d", "a">>, <<"e">>}, sizes |-> {0, 1},
      flags |-> {RW}],
   unlucky |->
     [calls |-> 4, faults |-> 0 .. 12, power |-> TRUE,
      ops |-> {"open", "write", "sync", "close", "truncate"},
      paths |-> {<<"a">>, <<"b">>}, sizes |-> {1, 7},
      flags |-> {RW}],
   mover |->
     [calls |-> 2, faults |-> {}, power |-> FALSE, ops |-> {"list", "rename"},
      paths |-> {<<"d">>, <<"e">>}, sizes |-> {}, flags |-> {}],
   reader |->
     [calls |-> 5, faults |-> {}, power |-> FALSE,
      ops |-> {"open", "write", "read", "seek"},
      paths |-> {<<"a">>}, sizes |-> {0, 1, 4, 7}, flags |-> {RW}],
   stray |->
     [calls |-> 4, faults |-> {}, power |-> FALSE,
      ops |-> {"open", "createContiguous", "write", "close", "rename", "exists"},
      paths |-> {<<"d">>, <<"e">>, <<"d", "e">>}, sizes |-> {1, 6}, flags |-> {RW}]]

Made(x, p, data) == close(write(open(x, p, RW), data))

\* The writer finds a file a in two parts; the keeper a directory d whose
\* cluster is full but for one entry; the unlucky one the files a and b;
\* the mover a directory d with a file, and no free cluster; the reader a file of
\* three blocks; the stray one the files d and e.
MCPrepare(kind, x) ==
  CASE kind = "writer"  -> LET y == Made(Made(x, <<"a">>, <<1>>), <<"c">>, <<2>>)
                           IN  close(write(open(y, <<"a">>, RW \cup {"APPEND"}),
                                       <<1, 2, 1, 2, 1, 2>>))
    [] kind = "keeper"  -> LET y == On(mkdir(x, <<"d">>, FALSE), Closed)
                           IN  Made(Made(Made(y, <<"d", "a">>, <<1>>), <<"d", "b">>, <<>>),
                                    <<"d", "c">>, <<>>)
    [] kind = "mover"   -> LET y == On(mkdir(x, <<"d">>, FALSE), Closed)
                           IN  Made(Made(y, <<"d", "a">>, <<1>>), <<"c">>, <<1, 2, 1, 2, 1, 2, 1>>)
    [] kind = "unlucky" -> Made(Made(x, <<"a">>, <<1, 2, 1, 2>>), <<"b">>, <<2>>)
    [] kind = "reader"  -> Made(x, <<"a">>, <<1, 2, 1, 2, 1, 2, 1>>)
    [] kind = "stray"   -> Made(Made(x, <<"d">>, <<>>), <<"e">>, <<1>>)
===============================================================================
