--------------------------- MODULE MegaMasterProofs ---------------------------
(***************************************************************************)
(* Theorems about MegaMaster, for any number of inputs, any people and     *)
(* lists, any period of millis() and any results of the wire.              *)
(***************************************************************************)
EXTENDS MegaMaster, TLAPS

(* The constants states are built from.                                    *)
LEMMA ConstantTypes ==
  /\ 1 \in Inputs
  /\ AllClear \in Flags /\ AllClear \in [Inputs -> Time]
  /\ NobodyResponded \in [Inputs -> Nat]
  /\ NoText \in SMS
  /\ 0 \in Time
  /\ \A t \in Time : (t + 1) % ClockMod \in Time
  BY NumInputsAssumption, MasterAssumption
  DEF Inputs, AllClear, Flags, Bit, Time, NobodyResponded, NoOne, NoText, SMS, Sender

(* Cleared memory is typed: the case of Init, and of Reset.                *)
LEMMA RamClearedTyped ==
  RamCleared /\ pin \in [Inputs -> {LOW, HIGH}] /\ saved \in Flags /\ resets \in 0 .. MaxResets
    => TypeOK
<1> SUFFICES ASSUME RamCleared, pin \in [Inputs -> {LOW, HIGH}], saved \in Flags,
                    resets \in 0 .. MaxResets
             PROVE  TypeOK
  OBVIOUS
<1>1. MonTypeOK
  BY ConstantTypes DEF RamCleared, MonCleared, MonTypeOK, Flags, Bit, LOW, HIGH
<1>2. contacts \in Seq(Person) /\ disabledHours \in Hours /\ wireResponseCode \in WireCodes
  BY MasterAssumption DEF RamCleared
<1>3. /\ pc \in Labels /\ inCell \in BOOLEAN /\ caller \in Sites \cup {"diag"}
      /\ gotSMS \in BOOLEAN /\ calling \in BOOLEAN /\ wireFailureResponse \in BOOLEAN
  BY DEF RamCleared, Labels
<1>4. /\ input \in Inputs /\ whoResponded \in [Inputs -> Nat]
      /\ lastNotificationTime \in [Inputs -> Time]
      /\ lastSMS \in SMS /\ lastI2CFailNotification \in Time /\ now \in Time
  BY ConstantTypes DEF RamCleared
<1>5. /\ alarmStatus \in Bit /\ contactId \in Nat /\ responded \in Nat
      /\ callee \in Nat \ {0}
  BY DEF RamCleared, Bit, NoOne
<1> QED
  BY <1>1, <1>2, <1>3, <1>4, <1>5 DEF TypeOK

(* The next input, and a notification, keep their variables typed.         *)
LEMMA NextTyped ==
  ASSUME input \in Inputs PROVE AfterInput \in Labels /\ (NextInput => input' \in Inputs)
  BY NumInputsAssumption DEF Inputs, AfterInput, NextInput, Labels

LEMMA NotifyTyped ==
  ASSUME TypeOK, NEW site \in Sites, notifyContactsAlarmState(site)
  PROVE  /\ pc' \in Labels /\ inCell' \in BOOLEAN
         /\ caller' \in Sites \cup {"diag"} /\ responded' \in Nat
         /\ callee' \in Nat \ {0}
  BY DEF TypeOK, notifyContactsAlarmState, CallCell, Labels

(* Every step keeps the state typed.                                       *)
LEMMA TypeStep == TypeOK /\ [Next]_vars => TypeOK'
<1> SUFFICES ASSUME TypeOK, [Next]_vars PROVE TypeOK'
  OBVIOUS
<1> USE DEF TypeOK, MonTypeOK, data, alarmVars, monVars, modeVars, smsVars,
            callVars, alertVars, worldVars, Goto, At
<1>1. CASE Boot
  BY <1>1, MasterAssumption DEF Boot, slaveGetSavedAlarmState, Labels, Flags
<1>2. CASE Top
  BY <1>2 DEF Top, CallCell, Labels
<1>3. CASE ModemReturns
  BY <1>3 DEF ModemReturns
<1>4. CASE TimePasses
  BY <1>4, ConstantTypes DEF TimePasses
<1>5. CASE NoSMS
  BY <1>5 DEF NoSMS, Labels
<1>6. CASE ClaimAlarm
  BY <1>6 DEF ClaimAlarm, slaveSetAlarmResponse, notifyContactsAlarmResponse, notifyContactsSMS, CallCell, Labels
<1>7. CASE NothingToClaim
  <2>1. PICK j \in DOMAIN contacts : contactId' = j
    BY <1>7 DEF NothingToClaim
  <2>2. contactId' \in Nat
    BY <2>1
  <2> QED
    BY <1>7, <2>2 DEF NothingToClaim, Labels
<1>8. CASE UntrustedSMS
  BY <1>8 DEF UntrustedSMS, Labels
<1>9. CASE AnswerI2C
  BY <1>9 DEF AnswerI2C, notifyContactsSMS, CallCell, Labels
<1>10. CASE DropSMS
  BY <1>10, ConstantTypes DEF DropSMS, CallCell, Labels
<1>11. CASE Diagnostics
  BY <1>11, ConstantTypes DEF Diagnostics, notifyContactsSMS, CallCell, Labels
<1>12. CASE Poll
  BY <1>12 DEF Poll, slaveGetContactsFileChanged, Labels
<1>13. CASE loadAndValidateContacts
  BY <1>13, MasterAssumption DEF loadAndValidateContacts, Labels
<1>14. CASE DisableHours
  BY <1>14 DEF DisableHours, slaveGetAlarmDisabledHours, notifyContactsSMS, CallCell, Labels, Bit
<1>15. CASE FwdSMS2Serial
  BY <1>15 DEF FwdSMS2Serial, CallCell, Labels
<1>16. CASE SampleInputs
  <2>1. justPressed' \in Flags /\ justReleased' \in Flags
    BY <1>16 DEF SampleInputs, Sample, Flags, Bit
  <2>2. pressed' \in Flags
    <3>1. ASSUME NEW i \in Inputs
          PROVE  1 - pin[i] \in Bit /\ pressed[i] \in Bit
      <4>1. (pin[i] = 0 \/ pin[i] = 1) /\ pressed[i] \in Bit
        BY DEF LOW, HIGH, Flags
      <4> QED
        BY ONLY <4>1 DEF Bit
    <3> QED
      BY <1>16, <3>1 DEF SampleInputs, Sample, Flags
  <2>3. previousState' \in [Inputs -> {LOW, HIGH}] /\ pin' = pin
    BY <1>16 DEF SampleInputs, Sample
  <2> QED
    BY <1>16, <2>1, <2>2, <2>3 DEF SampleInputs, Labels
<1>17. CASE TooEarly
  BY <1>17 DEF TooEarly, Labels
<1>18. CASE StillDisabled
  BY <1>18 DEF StillDisabled, Labels
<1>19. CASE AutoEnable
  BY <1>19 DEF AutoEnable, notifyContactsSMS, CallCell, Labels, Bit
<1>20. CASE NewAlarm
  <2>1. saved' \in Flags
    BY <1>20 DEF NewAlarm, slaveSetAlarm, SlaveStores, Flags, Bit
  <2>2. /\ pc' \in Labels /\ inCell' \in BOOLEAN /\ caller' \in Sites \cup {"diag"}
        /\ responded' \in Nat /\ callee' \in Nat \ {0}
    BY <1>20, NotifyTyped DEF NewAlarm, Labels, Sites
  <2> QED
    BY <1>20, <2>1, <2>2 DEF NewAlarm
<1>21. CASE NewAlarmDone
  BY <1>21 DEF NewAlarmDone, Labels, Flags, Bit
<1>22. CASE ClearedAlarm
  <2>1. saved' \in Flags
    BY <1>22 DEF ClearedAlarm, slaveClearAlarm, SlaveStores, Flags, Bit
  <2>2. /\ pc' \in Labels /\ inCell' \in BOOLEAN /\ caller' \in Sites \cup {"diag"}
        /\ responded' \in Nat /\ callee' \in Nat \ {0}
    BY <1>22, NotifyTyped DEF ClearedAlarm, Labels, Sites
  <2> QED
    BY <1>22, <2>1, <2>2 DEF ClearedAlarm
<1>23. CASE ClearedAlarmDone
  BY <1>23 DEF ClearedAlarmDone, Labels, Flags, Bit, NoOne
<1>24. CASE OngoingAlarm
  <2>1. /\ pc' \in Labels /\ inCell' \in BOOLEAN /\ caller' \in Sites \cup {"diag"}
        /\ responded' \in Nat /\ callee' \in Nat \ {0} /\ input' \in Inputs
    BY <1>24, NotifyTyped, NextTyped DEF OngoingAlarm, Labels, Sites
  <2> QED
    BY <1>24, <2>1 DEF OngoingAlarm
<1>25. CASE OngoingAlarmDone
  BY <1>25 DEF OngoingAlarmDone, Labels
<1>26. CASE RestartAlarm
  <2>1. input' \in Inputs /\ pc' \in Labels /\ inCell' \in BOOLEAN
    BY <1>26, NextTyped
    DEF RestartAlarm, notifyContactsAlarmResponse, notifyContactsSMS, CallCell
  <2>2. justPressed' \in Flags
    BY <1>26 DEF RestartAlarm, Flags, Bit
  <2>3. whoResponded' \in [Inputs -> Nat]
    BY <1>26 DEF RestartAlarm, NoOne
  <2> QED
    BY <1>26, <2>1, <2>2, <2>3 DEF RestartAlarm
<1>27. CASE Dial
  BY <1>27 DEF Dial, ShouldCall, CallCell, Labels
<1>28. CASE Settle
  <2>1. callee' \in Nat \ {0} /\ responded' \in Nat
    BY <1>28 DEF Settle, NoOne
  <2> QED
    BY <1>28, <2>1 DEF Settle, Labels
<1>29. CASE DialedAll
  <2>1. callee' \in Nat \ {0} /\ responded' \in Nat
    BY <1>29 DEF DialedAll, NoOne
  <2> QED
    BY <1>29, <2>1 DEF DialedAll, Labels
<1>30. ASSUME NEW i \in Inputs, MoveSwitch(i) PROVE TypeOK'
  BY <1>30 DEF MoveSwitch, Flip, LOW, HIGH
<1>31. ASSUME NEW from \in Sender, NEW body \in Bodies, ReceiveSMS(from, body)
      PROVE  TypeOK'
  BY <1>31, MasterAssumption DEF ReceiveSMS, SMS
<1>32. CASE Reset
  <2>1. RamCleared'
    BY <1>32 DEF Reset, RamCleared, MonCleared, MonClearedNext
  <2>2. (pin \in [Inputs -> {LOW, HIGH}] /\ saved \in Flags /\ resets \in 0 .. MaxResets)'
    BY <1>32, MasterAssumption DEF Reset
  <2> HIDE DEF TypeOK
  <2> QED
    BY <2>1, <2>2, RamClearedTyped, PTL
<1>33. CASE UNCHANGED vars
  BY <1>33 DEF vars
<1> QED
  BY <1>1, <1>2, <1>3, <1>4, <1>5, <1>6, <1>7, <1>8, <1>9, <1>10, <1>11, <1>12, <1>13, <1>14, <1>15, <1>16, <1>17, <1>18, <1>19, <1>20, <1>21, <1>22, <1>23, <1>24, <1>25, <1>26, <1>27, <1>28, <1>29, <1>30, <1>31, <1>32, <1>33 DEF Next, Step, World

(* Type correctness of MegaMaster.                                         *)
THEOREM TypeCorrect == Spec => []TypeOK
<1>1. Init => TypeOK
  BY RamClearedTyped, MasterAssumption DEF Init
<1> QED
  BY <1>1, TypeStep, PTL DEF Spec

(* Every step preserves the inductive invariant.                           *)
LEMMA InvStep == IInv /\ [Next]_vars => IInv'
<1> SUFFICES ASSUME IInv, [Next]_vars PROVE IInv'
  OBVIOUS
<1>0. TypeOK /\ TypeOK'
  BY TypeStep DEF IInv
<1>t. /\ caller \in Sites \cup {"diag"} /\ input \in Inputs
      /\ whoResponded \in [Inputs -> Nat]
      /\ pressed \in [Inputs -> {0, 1}] /\ justPressed \in [Inputs -> {0, 1}]
      /\ justReleased \in [Inputs -> {0, 1}] /\ saved \in [Inputs -> {0, 1}]
      /\ pin \in [Inputs -> {0, 1}] /\ previousState \in [Inputs -> {0, 1}]
      /\ alarmStatus \in {0, 1} /\ callee \in Nat \ {0} /\ inCell \in BOOLEAN
      /\ NUMINPUTS \in Nat \ {0}
      /\ \A i \in Inputs : i \in Nat /\ 1 <= i /\ i <= NUMINPUTS
  BY NumInputsAssumption DEF IInv, TypeOK, MonTypeOK, Flags, Bit, LOW, HIGH, Inputs
<1> USE DEF IInv, EdgesAgree, ResponderOnlyWhileAlarmed, DisabledMeansQuiet,
            PhoneRingsOnlyForOpenAlarm, CallerFits, BootIsClear, OngoingIsOn,
            ReleaseAhead, PollIsQuiet, CopyIsFresh, RingingSettles, SlaveBehind,
            Frame, ScanFrames, Sites, NewAhead, ClearAhead, NoOne,
            data, alarmVars, monVars, modeVars, smsVars,
            callVars, alertVars, worldVars, Goto, At, CallCell,
            notifyContactsSMS, notifyContactsAlarmResponse,
            MonCleared
<1>1. CASE Boot
  BY <1>0, <1>1 DEF Boot, slaveGetSavedAlarmState, MonCleared, AllClear, NobodyResponded
<1>2. CASE Top
  BY <1>0, <1>2 DEF Top
<1>3. CASE ModemReturns
  BY <1>0, <1>3 DEF ModemReturns
<1>4. CASE TimePasses
  BY <1>0, <1>4 DEF TimePasses
<1>5. CASE NoSMS
  <2>1. EdgesAgree' /\ ResponderOnlyWhileAlarmed' /\ DisabledMeansQuiet'
    BY <1>0, <1>t, <1>5 DEF NoSMS
  <2>2. PhoneRingsOnlyForOpenAlarm' /\ CopyIsFresh' /\ RingingSettles'
    BY <1>0, <1>t, <1>5 DEF NoSMS
  <2>3. CallerFits' /\ BootIsClear' /\ OngoingIsOn' /\ PollIsQuiet'
    BY <1>0, <1>t, <1>5 DEF NoSMS
  <2>4. ReleaseAhead'
    BY <1>0, <1>t, <1>5 DEF NoSMS
  <2>5. SlaveBehind'
    BY <1>0, <1>t, <1>5 DEF NoSMS
  <2> QED
    BY <1>0, <2>1, <2>2, <2>3, <2>4, <2>5
<1>6. CASE ClaimAlarm
  BY <1>0, <1>6 DEF ClaimAlarm, slaveSetAlarmResponse, Claimable
<1>7. CASE NothingToClaim
  BY <1>0, <1>7 DEF NothingToClaim
<1>8. CASE UntrustedSMS
  BY <1>0, <1>8 DEF UntrustedSMS
<1>9. CASE AnswerI2C
  BY <1>0, <1>9 DEF AnswerI2C
<1>10. CASE DropSMS
  <2>1. EdgesAgree' /\ ResponderOnlyWhileAlarmed' /\ DisabledMeansQuiet'
    BY <1>0, <1>t, <1>10 DEF DropSMS
  <2>2. PhoneRingsOnlyForOpenAlarm' /\ CopyIsFresh' /\ RingingSettles'
    BY <1>0, <1>t, <1>10 DEF DropSMS
  <2>3. CallerFits' /\ BootIsClear' /\ OngoingIsOn' /\ PollIsQuiet'
    BY <1>0, <1>t, <1>10 DEF DropSMS
  <2>4. ReleaseAhead'
    BY <1>0, <1>t, <1>10 DEF DropSMS
  <2>5. SlaveBehind'
    BY <1>0, <1>t, <1>10 DEF DropSMS
  <2> QED
    BY <1>0, <2>1, <2>2, <2>3, <2>4, <2>5
<1>11. CASE Diagnostics
  BY <1>0, <1>11 DEF Diagnostics
<1>12. CASE Poll
  <2>1. EdgesAgree' /\ ResponderOnlyWhileAlarmed' /\ DisabledMeansQuiet'
    BY <1>0, <1>t, <1>12 DEF Poll, slaveGetContactsFileChanged, inAlarmState
  <2>2. PhoneRingsOnlyForOpenAlarm' /\ CopyIsFresh' /\ RingingSettles'
    BY <1>0, <1>t, <1>12 DEF Poll, slaveGetContactsFileChanged, inAlarmState
  <2>3. CallerFits' /\ BootIsClear' /\ OngoingIsOn' /\ PollIsQuiet'
    BY <1>0, <1>t, <1>12 DEF Poll, slaveGetContactsFileChanged, inAlarmState
  <2>4. ReleaseAhead'
    BY <1>0, <1>t, <1>12 DEF Poll, slaveGetContactsFileChanged, inAlarmState
  <2>5. SlaveBehind'
    BY <1>0, <1>t, <1>12 DEF Poll, slaveGetContactsFileChanged, inAlarmState
  <2> QED
    BY <1>0, <2>1, <2>2, <2>3, <2>4, <2>5
<1>13. CASE loadAndValidateContacts
  BY <1>0, <1>13 DEF loadAndValidateContacts
<1>14. CASE DisableHours
  BY <1>0, <1>14 DEF DisableHours, slaveGetAlarmDisabledHours
<1>15. CASE FwdSMS2Serial
  BY <1>0, <1>15 DEF FwdSMS2Serial
<1>16. CASE SampleInputs
  <2>1. EdgesAgree' /\ ResponderOnlyWhileAlarmed' /\ DisabledMeansQuiet'
    BY <1>0, <1>t, <1>16 DEF SampleInputs, Sample, Agrees, PressEdge, ReleaseEdge, LOW, HIGH
  <2>2. PhoneRingsOnlyForOpenAlarm' /\ CopyIsFresh' /\ RingingSettles'
    BY <1>0, <1>t, <1>16 DEF SampleInputs, Sample, Agrees, PressEdge, ReleaseEdge, LOW, HIGH
  <2>3. CallerFits' /\ BootIsClear' /\ OngoingIsOn' /\ PollIsQuiet'
    BY <1>0, <1>t, <1>16 DEF SampleInputs, Sample, Agrees, PressEdge, ReleaseEdge, LOW, HIGH
  <2>4. ReleaseAhead'
    BY <1>0, <1>t, <1>16 DEF SampleInputs, Sample, Agrees, PressEdge, ReleaseEdge, LOW, HIGH
  <2>5. SlaveBehind'
    BY <1>0, <1>t, <1>16 DEF SampleInputs, Sample, Agrees, PressEdge, ReleaseEdge, LOW, HIGH
  <2> QED
    BY <1>0, <2>1, <2>2, <2>3, <2>4, <2>5
<1>17. CASE TooEarly
  BY <1>0, <1>17 DEF TooEarly
<1>18. CASE StillDisabled
  BY <1>0, <1>18 DEF StillDisabled
<1>19. CASE AutoEnable
  BY <1>0, <1>19 DEF AutoEnable
<1>20. CASE NewAlarm
  <2>1. EdgesAgree' /\ ResponderOnlyWhileAlarmed' /\ DisabledMeansQuiet'
    BY <1>0, <1>t, <1>20 DEF NewAlarm, notifyContactsAlarmState, slaveSetAlarm, SlaveStores
  <2>2. PhoneRingsOnlyForOpenAlarm' /\ CopyIsFresh' /\ RingingSettles'
    BY <1>0, <1>t, <1>20 DEF NewAlarm, notifyContactsAlarmState, slaveSetAlarm, SlaveStores
  <2>3. CallerFits' /\ BootIsClear' /\ OngoingIsOn' /\ PollIsQuiet'
    BY <1>0, <1>t, <1>20 DEF NewAlarm, notifyContactsAlarmState, slaveSetAlarm, SlaveStores
  <2>4. ReleaseAhead'
    BY <1>0, <1>t, <1>20 DEF NewAlarm, notifyContactsAlarmState, slaveSetAlarm, SlaveStores
  <2>5. SlaveBehind'
    BY <1>0, <1>t, <1>20 DEF NewAlarm, notifyContactsAlarmState, slaveSetAlarm, SlaveStores
  <2> QED
    BY <1>0, <2>1, <2>2, <2>3, <2>4, <2>5
<1>21. CASE NewAlarmDone
  <2>1. EdgesAgree' /\ ResponderOnlyWhileAlarmed' /\ DisabledMeansQuiet'
    BY <1>0, <1>t, <1>21 DEF NewAlarmDone
  <2>2. PhoneRingsOnlyForOpenAlarm' /\ CopyIsFresh' /\ RingingSettles'
    BY <1>0, <1>t, <1>21 DEF NewAlarmDone
  <2>3. CallerFits' /\ BootIsClear' /\ OngoingIsOn' /\ PollIsQuiet'
    BY <1>0, <1>t, <1>21 DEF NewAlarmDone
  <2>4. ReleaseAhead'
    BY <1>0, <1>t, <1>21 DEF NewAlarmDone
  <2>5. SlaveBehind'
    BY <1>0, <1>t, <1>21 DEF NewAlarmDone
  <2> QED
    BY <1>0, <2>1, <2>2, <2>3, <2>4, <2>5
<1>22. CASE ClearedAlarm
  <2>1. EdgesAgree' /\ ResponderOnlyWhileAlarmed' /\ DisabledMeansQuiet'
    BY <1>0, <1>t, <1>22 DEF ClearedAlarm, notifyContactsAlarmState, slaveClearAlarm, SlaveStores
  <2>2. PhoneRingsOnlyForOpenAlarm' /\ CopyIsFresh' /\ RingingSettles'
    BY <1>0, <1>t, <1>22 DEF ClearedAlarm, notifyContactsAlarmState, slaveClearAlarm, SlaveStores
  <2>3. CallerFits' /\ BootIsClear' /\ OngoingIsOn' /\ PollIsQuiet'
    BY <1>0, <1>t, <1>22 DEF ClearedAlarm, notifyContactsAlarmState, slaveClearAlarm, SlaveStores
  <2>4. ReleaseAhead'
    BY <1>0, <1>t, <1>22 DEF ClearedAlarm, notifyContactsAlarmState, slaveClearAlarm, SlaveStores
  <2>5. SlaveBehind'
    BY <1>0, <1>t, <1>22 DEF ClearedAlarm, notifyContactsAlarmState, slaveClearAlarm, SlaveStores
  <2> QED
    BY <1>0, <2>1, <2>2, <2>3, <2>4, <2>5
<1>23. CASE ClearedAlarmDone
  <2>1. EdgesAgree' /\ ResponderOnlyWhileAlarmed' /\ DisabledMeansQuiet'
    BY <1>0, <1>t, <1>23 DEF ClearedAlarmDone
  <2>2. PhoneRingsOnlyForOpenAlarm' /\ CopyIsFresh' /\ RingingSettles'
    BY <1>0, <1>t, <1>23 DEF ClearedAlarmDone
  <2>3. CallerFits' /\ BootIsClear' /\ OngoingIsOn' /\ PollIsQuiet'
    BY <1>0, <1>t, <1>23 DEF ClearedAlarmDone
  <2>4. ReleaseAhead'
    BY <1>0, <1>t, <1>23 DEF ClearedAlarmDone
  <2>5. SlaveBehind'
    BY <1>0, <1>t, <1>23 DEF ClearedAlarmDone
  <2> QED
    BY <1>0, <2>1, <2>2, <2>3, <2>4, <2>5
<1>24. CASE OngoingAlarm
  <2>1. EdgesAgree' /\ ResponderOnlyWhileAlarmed' /\ DisabledMeansQuiet'
    BY <1>0, <1>t, <1>24 DEF OngoingAlarm, notifyContactsAlarmState, NextInput, AfterInput
  <2>2. PhoneRingsOnlyForOpenAlarm' /\ CopyIsFresh' /\ RingingSettles'
    BY <1>0, <1>t, <1>24 DEF OngoingAlarm, notifyContactsAlarmState, NextInput, AfterInput
  <2>3. CallerFits' /\ BootIsClear' /\ OngoingIsOn' /\ PollIsQuiet'
    BY <1>0, <1>t, <1>24 DEF OngoingAlarm, notifyContactsAlarmState, NextInput, AfterInput
  <2>4. ReleaseAhead'
    BY <1>0, <1>t, <1>24 DEF OngoingAlarm, notifyContactsAlarmState, NextInput, AfterInput
  <2>5. SlaveBehind'
    BY <1>0, <1>t, <1>24 DEF OngoingAlarm, notifyContactsAlarmState, NextInput, AfterInput
  <2> QED
    BY <1>0, <2>1, <2>2, <2>3, <2>4, <2>5
<1>25. CASE OngoingAlarmDone
  BY <1>0, <1>25 DEF OngoingAlarmDone
<1>26. CASE RestartAlarm
  <2>1. EdgesAgree' /\ ResponderOnlyWhileAlarmed' /\ DisabledMeansQuiet'
    BY <1>0, <1>t, <1>26 DEF RestartAlarm, NextInput, AfterInput
  <2>2. PhoneRingsOnlyForOpenAlarm' /\ CopyIsFresh' /\ RingingSettles'
    BY <1>0, <1>t, <1>26 DEF RestartAlarm, NextInput, AfterInput
  <2>3. CallerFits' /\ BootIsClear' /\ OngoingIsOn' /\ PollIsQuiet'
    BY <1>0, <1>t, <1>26 DEF RestartAlarm, NextInput, AfterInput
  <2>4. ReleaseAhead'
    BY <1>0, <1>t, <1>26 DEF RestartAlarm, NextInput, AfterInput
  <2>5. SlaveBehind'
    BY <1>0, <1>t, <1>26 DEF RestartAlarm, NextInput, AfterInput
  <2> QED
    BY <1>0, <2>1, <2>2, <2>3, <2>4, <2>5
<1>27. CASE Dial
  <2>1. EdgesAgree' /\ ResponderOnlyWhileAlarmed' /\ DisabledMeansQuiet'
    BY <1>0, <1>t, <1>27 DEF Dial, ShouldCall
  <2>2. PhoneRingsOnlyForOpenAlarm' /\ CopyIsFresh' /\ RingingSettles'
    BY <1>0, <1>t, <1>27 DEF Dial, ShouldCall
  <2>3. CallerFits' /\ BootIsClear' /\ OngoingIsOn' /\ PollIsQuiet'
    BY <1>0, <1>t, <1>27 DEF Dial, ShouldCall
  <2>4. ReleaseAhead'
    BY <1>0, <1>t, <1>27 DEF Dial, ShouldCall
  <2>5. SlaveBehind'
    BY <1>0, <1>t, <1>27 DEF Dial, ShouldCall
  <2> QED
    BY <1>0, <2>1, <2>2, <2>3, <2>4, <2>5
<1>28. CASE Settle
  BY <1>0, <1>28 DEF Settle
<1>29. CASE DialedAll
  BY <1>0, <1>29 DEF DialedAll
<1>30. ASSUME NEW i \in Inputs, MoveSwitch(i) PROVE IInv'
  BY <1>0, <1>30 DEF MoveSwitch, Flip
<1>31. ASSUME NEW from \in Sender, NEW body \in Bodies, ReceiveSMS(from, body)
      PROVE  IInv'
  BY <1>0, <1>31 DEF ReceiveSMS
<1>32. CASE Reset
  BY <1>0, <1>32, ConstantTypes DEF Reset, MonClearedNext, MonCleared, AllClear, NobodyResponded
<1>33. CASE UNCHANGED vars
  BY <1>0, <1>33 DEF vars
<1> QED
  BY <1>1, <1>2, <1>3, <1>4, <1>5, <1>6, <1>7, <1>8, <1>9, <1>10, <1>11, <1>12, <1>13, <1>14, <1>15, <1>16, <1>17, <1>18, <1>19, <1>20, <1>21, <1>22, <1>23, <1>24, <1>25, <1>26, <1>27, <1>28, <1>29, <1>30, <1>31, <1>32, <1>33 DEF Next, Step, World

THEOREM Invariant == Spec => []IInv
<1>1. Init => IInv
  <2> SUFFICES ASSUME Init PROVE IInv
    OBVIOUS
  <2>1. TypeOK
    BY RamClearedTyped, MasterAssumption DEF Init
  <2> QED
    BY <2>1 DEF Init, RamCleared, MonCleared, AllClear, NobodyResponded, IInv,
      EdgesAgree, ResponderOnlyWhileAlarmed, DisabledMeansQuiet,
      PhoneRingsOnlyForOpenAlarm, CallerFits, BootIsClear, OngoingIsOn,
      ReleaseAhead, PollIsQuiet, CopyIsFresh, RingingSettles, SlaveBehind,
      Frame, ScanFrames, Sites
<1> QED
  BY <1>1, InvStep, PTL DEF Spec

(* checkInputs and the restart never leave an input both new and cleared.  *)
THEOREM EdgesAgreeCorrect == Spec => []EdgesAgree
  BY Invariant, PTL DEF IInv

(* Nobody is responsible for an alarm that is over.                        *)
THEOREM ResponderCorrect == Spec => []ResponderOnlyWhileAlarmed
  BY Invariant, PTL DEF IInv

(* The alarm is disabled only while nothing is on or waits to be handled.  *)
THEOREM DisabledCorrect == Spec => []DisabledMeansQuiet
  BY Invariant, PTL DEF IInv

(* A phone rings only for an alarm that is on and unclaimed.               *)
THEOREM RingingCorrect == Spec => []PhoneRingsOnlyForOpenAlarm
  BY Invariant, PTL DEF IInv

(* With a reliable wire the slave lags behind an edge that waits, no more. *)
THEOREM MirrorCorrect == Spec => []SlaveMirrorsAlarms
<1>1. IInv => SlaveMirrorsAlarms
  BY DEF IInv, SlaveBehind, SlaveMirrorsAlarms
<1> QED
  BY <1>1, Invariant, PTL

(* The list an owner is an index of is not replaced.                       *)
THEOREM ListHeldCorrect == Spec => ListHeldWhileAnswered
<1> DEFINE Held == contacts' # contacts /\ pc' # "boot" =>
                     \A i \in Inputs : whoResponded[i] = NoOne
<1>1. ASSUME IInv, [Next]_vars PROVE Held
  <2>1. CASE Boot
    BY <1>1, <2>1 DEF Boot, At, IInv, BootIsClear, NobodyResponded
  <2>2. CASE loadAndValidateContacts
    BY <1>1, <2>2 DEF loadAndValidateContacts, At, IInv, PollIsQuiet, ResponderOnlyWhileAlarmed
  <2>3. CASE Reset
    BY <2>3 DEF Reset
  <2>4. CASE contacts' = contacts
    BY <2>4
  <2>5. contacts' = contacts \/ Boot \/ loadAndValidateContacts \/ Reset
    <3> USE DEF data, alarmVars, modeVars
    <3>1. CASE Step
      BY <3>1 DEF Step, Top, ModemReturns, TimePasses, NoSMS, ClaimAlarm, NothingToClaim,
        UntrustedSMS, AnswerI2C, DropSMS, Diagnostics, Poll, DisableHours, FwdSMS2Serial,
        SampleInputs, TooEarly, StillDisabled, AutoEnable, NewAlarm, NewAlarmDone,
        ClearedAlarm, ClearedAlarmDone, OngoingAlarm, OngoingAlarmDone, RestartAlarm,
        Dial, Settle, DialedAll
    <3>2. CASE World
      BY <3>2 DEF World, MoveSwitch, ReceiveSMS
    <3> QED
      BY <1>1, <3>1, <3>2 DEF Next, vars
  <2> QED
    BY <2>1, <2>2, <2>3, <2>4, <2>5
<1>2. IInv /\ [Next]_vars => [Held]_vars
  BY <1>1
<1> QED
  BY <1>2, Invariant, PTL DEF Spec, ListHeldWhileAnswered

-------------------------------------------------------------------------------
(* MegaMaster implements AlarmLifecycle.                                   *)

LEMMA LifeInit == Init => Life!Init
  BY MasterAssumption
  DEF Init, RamCleared, MonCleared, AllClear, NobodyResponded, Owner, Flags, Bit,
      Life!Init, Life!Off, Life!Unowned

\* What the life cycle sees of a state.
LEMMA Stutter ==
  ASSUME (pc # "boot") <=> (pc' # "boot"),
         UNCHANGED <<alarmStatus, pressed, whoResponded, contacts, saved>>
  PROVE  UNCHANGED Life!lifeVars
<1>1. \A i \in Inputs : Owner(i)' = Owner(i)
  BY DEF Owner
<1> QED
  BY <1>1 DEF Life!lifeVars

\* While nothing is on or waits to be handled nobody is responsible.
LEMMA QuietInputs ==
  ASSUME IInv, \A i \in Inputs : pressed[i] = 0 /\ justReleased[i] = 0
  PROVE  /\ Life!Quiet
         /\ whoResponded' = whoResponded => \A i \in Inputs : Owner(i)' = Owner(i)
<1>1. pressed = [i \in Inputs |-> 0]
  BY DEF IInv, TypeOK, MonTypeOK, Flags
<1>2. \A i \in Inputs : whoResponded[i] = NoOne
  BY DEF IInv, ResponderOnlyWhileAlarmed
<1> QED
  BY <1>1, <1>2 DEF Owner, Life!Quiet, Life!Off, Life!Unowned

(* Every step is a step of the life cycle, or leaves it alone.             *)
LEMMA LifeStep == IInv /\ [Next]_vars => [Life!Next]_(Life!lifeVars)
<1> SUFFICES ASSUME IInv, [Next]_vars PROVE Life!Next \/ UNCHANGED Life!lifeVars
  OBVIOUS
<1> USE DEF data, alarmVars, monVars, modeVars, worldVars, Goto, At, CallCell,
            notifyContactsSMS, notifyContactsAlarmResponse
<1>t. /\ input \in Inputs /\ caller \in Sites \cup {"diag"} /\ pc \in Labels
      /\ contacts \in Seq(Person) /\ alarmStatus \in {0, 1}
      /\ pressed \in [Inputs -> {0, 1}] /\ justPressed \in [Inputs -> {0, 1}]
      /\ justReleased \in [Inputs -> {0, 1}] /\ saved \in [Inputs -> {0, 1}]
      /\ whoResponded \in [Inputs -> Nat] /\ TypeOK'
  BY TypeStep DEF IInv, TypeOK, MonTypeOK, Flags, Bit
<1>o. \A i \in Inputs : whoResponded[i] # NoOne => contacts[whoResponded[i]] \in Person
  BY <1>t DEF IInv, ResponderOnlyWhileAlarmed
<1>1. CASE Boot
  <2>1. \A i \in Inputs : Owner(i) = Stranger /\ Owner(i)' = Stranger
    BY <1>1 DEF Boot, IInv, BootIsClear, NobodyResponded, Owner
  <2>2. Life!Recover
    BY <1>1, <2>1 DEF Boot, slaveGetSavedAlarmState, Life!Recover
  <2> QED
    BY <2>2 DEF Life!Next
<1>2. CASE ClaimAlarm
  <2>1. PICK j \in DOMAIN contacts, i \in Inputs :
          /\ Claimable(i) /\ \A k \in 1 .. i - 1 : ~Claimable(k)
          /\ whoResponded' = [whoResponded EXCEPT ![i] = j]
    BY <1>2 DEF ClaimAlarm
  <2>2. \A k \in Inputs : Claimable(k) <=> Life!Open(k)
    BY <1>t, <1>o, MasterAssumption
    DEF Claimable, Life!Open, Owner, IInv, EdgesAgree
  <2>3. /\ Life!Open(i) /\ \A k \in Inputs : k < i => ~Life!Open(k)
    BY <2>1, <2>2 DEF Inputs
  <2>4. UNCHANGED <<pressed, alarmStatus, contacts, saved>> /\ pc # "boot" /\ pc' # "boot"
    BY <1>2 DEF ClaimAlarm
  <2>5. j # NoOne
    BY <1>t, <2>1 DEF NoOne
  <2>6. [k \in Inputs |-> Owner(k)]' = [[k \in Inputs |-> Owner(k)] EXCEPT ![i] = contacts[j]]
    BY <1>t, <2>1, <2>4, <2>5 DEF Owner
  <2>7. Life!Answer(i, j)
    BY <2>1, <2>3, <2>4, <2>6 DEF Life!Answer
  <2> QED
    BY <2>1, <2>7 DEF Life!Next
<1>3. CASE loadAndValidateContacts
  <2>1. \A i \in Inputs : pressed[i] = 0 /\ justReleased[i] = 0
    BY <1>3 DEF loadAndValidateContacts, IInv, PollIsQuiet
  <2>2. \A i \in Inputs : Owner(i)' = Owner(i)
    BY <1>3, <2>1, QuietInputs DEF loadAndValidateContacts
  <2>3. Life!Load
    BY <1>3, <2>1, <2>2, QuietInputs DEF loadAndValidateContacts, Life!Load
  <2> QED
    BY <2>3 DEF Life!Next
<1>4. CASE DisableHours
  <2>1. \A i \in Inputs : pressed[i] = 0 /\ justReleased[i] = 0
    BY <1>4 DEF DisableHours, IInv, PollIsQuiet
  <2>2. \A i \in Inputs : Owner(i)' = Owner(i)
    BY <1>4 DEF DisableHours, Owner
  <2>3. Life!Quiet
    BY <2>1, QuietInputs
  <2>4. CASE alarmStatus' = 0
    BY <1>4, <2>2, <2>3, <2>4 DEF DisableHours, Life!Disable, Life!Next
  <2>5. CASE alarmStatus' = 1
    BY <1>4, <2>2, <2>5 DEF DisableHours, Life!Enable, Life!Next
  <2> QED
    BY <1>t, <1>4, <2>4, <2>5 DEF DisableHours
<1>5. CASE SampleInputs
  <2>1. \A i \in Inputs : pressed[i] = 0 => whoResponded[i] = NoOne
    BY <1>t, <1>5 DEF SampleInputs, IInv, ResponderOnlyWhileAlarmed, ReleaseAhead,
      ClearAhead, Frame, ScanFrames, Sites
  <2>2. pressed' \in [Inputs -> {0, 1}]
    BY <1>t DEF TypeOK, MonTypeOK, Flags, Bit
  <2>3. ASSUME NEW i \in Inputs, pressed'[i] > pressed[i] PROVE Owner(i) = Stranger
    <3>1. pressed[i] \in {0, 1} /\ pressed'[i] \in {0, 1}
      BY <1>t, <2>2
    <3>2. pressed[i] = 0
      BY ONLY <2>3, <3>1
    <3> QED
      BY <2>1, <3>2 DEF Owner
  <2>4. \A i \in Inputs : Owner(i)' = Owner(i)
    BY <1>5 DEF SampleInputs, Owner
  <2>5. Life!Sense
    BY <1>5, <2>2, <2>3, <2>4 DEF SampleInputs, Life!Sense
  <2> QED
    BY <2>5 DEF Life!Next
<1>6. CASE AutoEnable
  <2>1. \A i \in Inputs : Owner(i)' = Owner(i)
    BY <1>6 DEF AutoEnable, Owner
  <2> QED
    BY <1>6, <2>1 DEF AutoEnable, Life!Enable, Life!Next
<1>7. CASE NewAlarm
  <2>1. UNCHANGED <<alarmStatus, pressed, whoResponded, contacts>> /\ pc # "boot" /\ pc' # "boot"
    BY <1>7 DEF NewAlarm, notifyContactsAlarmState
  <2>2. \A i \in Inputs : Owner(i)' = Owner(i)
    BY <2>1 DEF Owner
  <2>3. CASE saved' = saved
    BY <2>1, <2>3, Stutter
  <2>4. CASE saved' = [saved EXCEPT ![input] = 1] /\ justPressed[input] = 1
    <3>1. pressed[input] = 1
      BY <1>t, <2>4 DEF IInv, EdgesAgree
    <3>2. Life!Tell(input)
      BY <2>1, <2>2, <2>4, <3>1 DEF Life!Tell
    <3> QED
      BY <1>t, <3>2 DEF Life!Next
  <2> QED
    BY <1>7, <2>3, <2>4 DEF NewAlarm, slaveSetAlarm, SlaveStores
<1>8. CASE ClearedAlarm
  <2>1. UNCHANGED <<alarmStatus, pressed, whoResponded, contacts>> /\ pc # "boot" /\ pc' # "boot"
    BY <1>8 DEF ClearedAlarm, notifyContactsAlarmState
  <2>2. \A i \in Inputs : Owner(i)' = Owner(i)
    BY <2>1 DEF Owner
  <2>3. CASE saved' = saved
    BY <2>1, <2>3, Stutter
  <2>4. CASE saved' = [saved EXCEPT ![input] = 0] /\ justReleased[input] = 1
    <3>1. pressed[input] = 0
      BY <1>t, <2>4 DEF IInv, EdgesAgree
    <3>2. Life!Tell(input)
      BY <2>1, <2>2, <2>4, <3>1 DEF Life!Tell
    <3> QED
      BY <1>t, <3>2 DEF Life!Next
  <2> QED
    BY <1>8, <2>3, <2>4 DEF ClearedAlarm, slaveClearAlarm, SlaveStores
<1>9. CASE ClearedAlarmDone
  <2>1. UNCHANGED <<alarmStatus, pressed, contacts, saved>> /\ pc # "boot" /\ pc' # "boot"
    BY <1>9 DEF ClearedAlarmDone, AfterInput
  <2>2. CASE whoResponded' = whoResponded
    BY <2>1, <2>2, Stutter
  <2>3. CASE whoResponded' # whoResponded
    <3>1. whoResponded' = [whoResponded EXCEPT ![input] = NoOne]
      BY <1>9, <2>3 DEF ClearedAlarmDone
    <3>2. whoResponded[input] # NoOne
      BY <1>t, <2>3, <3>1
    <3>3. Owner(input) # Stranger
      BY <1>t, <1>o, <3>2, MasterAssumption DEF Owner
    <3>4. [k \in Inputs |-> Owner(k)]' = [[k \in Inputs |-> Owner(k)] EXCEPT ![input] = Stranger]
      BY <1>t, <2>1, <3>1 DEF Owner
    <3>5. Life!Relieve(input)
      BY <1>t, <2>1, <3>3, <3>4 DEF Life!Relieve
    <3> QED
      BY <1>t, <3>5 DEF Life!Next
  <2> QED
    BY <2>2, <2>3
<1>10. CASE RestartAlarm
  <2>1. UNCHANGED <<alarmStatus, pressed, contacts, saved>> /\ pc # "boot" /\ pc' # "boot"
    BY <1>10 DEF RestartAlarm, AfterInput
  <2>2. CASE whoResponded' = whoResponded
    BY <2>1, <2>2, Stutter
  <2>3. CASE whoResponded' # whoResponded
    <3>1. whoResponded' = [whoResponded EXCEPT ![input] = NoOne]
      BY <1>10, <2>3 DEF RestartAlarm
    <3>2. whoResponded[input] # NoOne
      BY <1>t, <2>3, <3>1
    <3>3. Owner(input) # Stranger
      BY <1>t, <1>o, <3>2, MasterAssumption DEF Owner
    <3>4. [k \in Inputs |-> Owner(k)]' = [[k \in Inputs |-> Owner(k)] EXCEPT ![input] = Stranger]
      BY <1>t, <2>1, <3>1 DEF Owner
    <3>5. Life!Relieve(input)
      BY <1>t, <2>1, <3>3, <3>4 DEF Life!Relieve
    <3> QED
      BY <1>t, <3>5 DEF Life!Next
  <2> QED
    BY <2>2, <2>3
<1>11. CASE Reset
  <2>1. \A i \in Inputs : Owner(i)' = Stranger
    BY <1>11 DEF Reset, NobodyResponded, Owner
  <2>2. Life!Crash
    BY <1>11, <2>1 DEF Reset, MonClearedNext, AllClear, Life!Crash, Life!Off, Life!Unowned
  <2> QED
    BY <2>2 DEF Life!Next
<1>12. ASSUME \/ Top \/ ModemReturns \/ TimePasses \/ NoSMS \/ NothingToClaim
              \/ UntrustedSMS \/ AnswerI2C \/ DropSMS \/ Diagnostics \/ Poll
              \/ FwdSMS2Serial \/ TooEarly \/ StillDisabled \/ NewAlarmDone
              \/ OngoingAlarm \/ OngoingAlarmDone \/ Dial \/ Settle \/ DialedAll
              \/ (\E i \in Inputs : MoveSwitch(i))
              \/ (\E from \in Sender, body \in Bodies : ReceiveSMS(from, body))
              \/ UNCHANGED vars
       PROVE  UNCHANGED Life!lifeVars
  <2>1. UNCHANGED <<alarmStatus, pressed, whoResponded, contacts, saved>>
    BY <1>12 DEF Top, ModemReturns, TimePasses, NoSMS, NothingToClaim, UntrustedSMS,
      AnswerI2C, DropSMS, Diagnostics, Poll, FwdSMS2Serial, TooEarly, StillDisabled,
      NewAlarmDone, OngoingAlarm, OngoingAlarmDone, Dial, Settle, DialedAll, MoveSwitch,
      Flip, ReceiveSMS, vars
  <2>2. (pc # "boot") <=> (pc' # "boot")
    BY <1>t, <1>12 DEF Top, ModemReturns, TimePasses, NoSMS, NothingToClaim, UntrustedSMS,
      AnswerI2C, DropSMS, Diagnostics, Poll, FwdSMS2Serial, TooEarly, StillDisabled,
      NewAlarmDone, OngoingAlarm, OngoingAlarmDone, Dial, Settle, DialedAll, MoveSwitch,
      ReceiveSMS, vars, notifyContactsAlarmState, AfterInput, Sites
  <2> QED
    BY <2>1, <2>2, Stutter
<1> QED
  BY <1>1, <1>2, <1>3, <1>4, <1>5, <1>6, <1>7, <1>8, <1>9, <1>10, <1>11, <1>12
  DEF Next, Step, World

(* The loop implements the life cycle of an alarm.                         *)
THEOREM LifecycleCorrect == Spec => ImplementsLifecycle
  BY LifeInit, LifeStep, Invariant, PTL DEF Spec, ImplementsLifecycle, Life!Spec
===============================================================================
