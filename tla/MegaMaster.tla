------------------------------ MODULE MegaMaster ------------------------------
(***************************************************************************)
(* MegaMaster.cpp: setup() and loop() of the Mega, with the handlers they  *)
(* call: checkIncomingSMS (GSMFunctions.cpp), notifyContactsAlarmState     *)
(* (ContactManagementFunctions.cpp), checkI2CProblems                      *)
(* (DiagnosticFunctions.cpp), checkInputs (module Monitoring) and the      *)
(* slave requests (SlaveCommunicationFunctions.cpp).                       *)
(*                                                                         *)
(* The program has one thread.  Between two of its steps the world acts:   *)
(* a switch moves, a text message arrives while the program is inside a    *)
(* call on the modem (that is where onReceiveSMS runs), the board resets.  *)
(* pc is the place in the code where the program is, or, while inCell,     *)
(* where it goes on when the modem call it is blocked in returns.          *)
(***************************************************************************)
EXTENDS Monitoring, Sequences

CONSTANTS
  Person,               \* people with a phone number the list may hold
  Stranger,             \* a sender who is in no contact list
  GroupOf,              \* contact group (1, 2 or 3) of each person
  LoadResults,          \* contact lists a transfer may yield; <<>> if it failed
  Bodies,               \* texts received, as the set of keywords they contain
  RequiresResponse,     \* inputs whose alarm someone must answer
  NotificationInterval, \* time between two reminders, per input
  AlCallRestartTime,
  I2C_FAIL_NOTIFICATION_PERIOD,
  ClockMod,             \* millis() counts modulo this (2^32 ms in the code)
  WireCodes,            \* results of endTransmission; {0} when I2C is reliable
  Hours,                \* values of the slave's "disable for" reply
  MaxResets             \* bound on the number of resets

NoOne    == 0                         \* whoResponded = -1 in the code
Keywords == {"BIRLOFF", "IKNOW"}
Sender   == Person \cup {Stranger}
SMS      == [from : Sender, body : SUBSET Keywords]
Time     == 0 .. ClockMod - 1

ASSUME MasterAssumption ==
  /\ Stranger \notin Person
  /\ GroupOf \in [Person -> 1 .. 3]
  /\ LoadResults \subseteq Seq(Person)
  /\ Bodies \subseteq SUBSET Keywords
  /\ RequiresResponse \subseteq Inputs
  /\ ClockMod \in Nat \ {0}
  /\ NotificationInterval \in [Inputs -> Nat]
  /\ AlCallRestartTime \in Nat
  /\ I2C_FAIL_NOTIFICATION_PERIOD \in Nat
  /\ WireCodes \subseteq Nat /\ 0 \in WireCodes
  /\ Hours \subseteq 0 .. 255 /\ 0 \in Hours
  /\ MaxResets \in Nat

VARIABLES
  pc, inCell,
  caller,        \* where checkIncomingSMS and the notification return to
  input,         \* index of the loop over the inputs
  whoResponded, lastNotificationTime,     \* fields of inputs[i]
  alarmStatus, disabledHours,
  contacts,      \* the numContacts valid entries of the contacts array
  gotSMS, lastSMS,
  contactId,     \* local of checkIncomingSMS
  responded, callee, calling,  \* locals of notifyContactsAlarmState: Responded,
                               \* its loop index, and whether a phone is ringing
  wireResponseCode, wireFailureResponse, lastI2CFailNotification,
  now,           \* millis()
  saved,         \* the alarm state kept by the slave, over resets of the Mega
  resets         \* resets so far

modeVars   == <<alarmStatus, disabledHours, contacts>>
alarmVars  == <<monVars, whoResponded, lastNotificationTime, modeVars>>
smsVars    == <<gotSMS, lastSMS, contactId>>
callVars   == <<caller, responded, callee, calling>>
alertVars  == <<wireFailureResponse, lastI2CFailNotification>>
worldVars  == <<now, saved, resets>>
data       == <<alarmVars, input, smsVars, callVars, wireResponseCode,
                alertVars, worldVars>>
vars       == <<pc, inCell, data>>

Sites == {"newDone", "clearedDone", "ongoingDone"}
Labels == Sites \cup {"boot", "top", "sms", "iknow", "drop", "diag", "poll",
                      "load", "hours", "fwd", "inputs", "new", "cleared",
                      "ongoing", "restart", "dial", "settle"}

TypeOK ==
  /\ MonTypeOK
  /\ pc \in Labels /\ inCell \in BOOLEAN
  /\ caller \in Sites \cup {"diag"}
  /\ input \in Inputs
  /\ whoResponded \in [Inputs -> Nat]
  /\ lastNotificationTime \in [Inputs -> Time]
  /\ alarmStatus \in Bit /\ disabledHours \in Hours
  /\ contacts \in Seq(Person)
  /\ gotSMS \in BOOLEAN /\ lastSMS \in SMS /\ contactId \in Nat
  /\ responded \in Nat /\ callee \in Nat \ {0} /\ calling \in BOOLEAN
  /\ wireResponseCode \in WireCodes /\ wireFailureResponse \in BOOLEAN
  /\ lastI2CFailNotification \in Time
  /\ now \in Time
  /\ saved \in Flags
  /\ resets \in 0 .. MaxResets

\* TimeResponded is initialised and never assigned again.
TimeResponded == 0

\* Unsigned subtraction of two readings of millis().
Since(t) == (now - t) % ClockMod

\* The program is at l, not blocked in the modem library.
At(l) == pc = l /\ ~inCell
Goto(l) == pc' = l /\ inCell' = FALSE
\* Call the modem (send messages, dial, read a line) and go on at l.
CallCell(l) == pc' = l /\ inCell' = TRUE

\* Text a group, or groups 1 and 2: the modem is busy once per contact.
notifyContactsSMS(l)           == CallCell(l)
notifyContactsAlarmResponse(l) == notifyContactsSMS(l)

NextInput  == input' = IF input < NUMINPUTS THEN input + 1 ELSE 1
AfterInput == IF input < NUMINPUTS THEN "new" ELSE "top"

\* An I2C write may be lost when the wire is not reliable.
WireReliable == WireCodes = {0}
SlaveStores(i, v) ==
  \/ saved' = [saved EXCEPT ![i] = v]
  \/ ~WireReliable /\ UNCHANGED saved

\* Mutant: COMM_TYPE_SETALARM is sent when the alarm clears.
slaveClearAlarmAsSet(i) == SlaveStores(i, 1)
slaveSetAlarm(i)   == SlaveStores(i, 1)
slaveClearAlarm(i) == SlaveStores(i, 0)

\* Only these requests leave a code, and each overwrites the one before.
slaveSetAlarmResponse       == wireResponseCode' \in WireCodes
slaveGetContactsFileChanged == wireResponseCode' \in WireCodes
slaveGetAlarmDisabledHours  == wireResponseCode' \in WireCodes
slaveGetSavedAlarmState ==
  /\ pressed' = saved \/ (~WireReliable /\ UNCHANGED pressed)
  /\ wireResponseCode' \in WireCodes

NobodyResponded == [i \in Inputs |-> NoOne]
NoText == [from |-> Stranger, body |-> {}]

(* Zeroed and initialised static memory, before setup().                   *)
RamCleared ==
  /\ MonCleared
  /\ pc = "boot" /\ inCell = FALSE /\ caller = "diag" /\ input = 1
  /\ whoResponded = NobodyResponded /\ lastNotificationTime = AllClear
  /\ alarmStatus = 1 /\ disabledHours = 0 /\ contacts = <<>>
  /\ gotSMS = FALSE /\ lastSMS = NoText /\ contactId = 0
  /\ responded = NoOne /\ callee = 1 /\ calling = FALSE
  /\ wireResponseCode = 0 /\ wireFailureResponse = FALSE
  /\ lastI2CFailNotification = 0 /\ now = 0

Init ==
  /\ RamCleared
  /\ pin \in [Inputs -> {LOW, HIGH}]
  /\ saved \in Flags
  /\ resets = 0

-------------------------------------------------------------------------------
(* The world                                                               *)

MoveSwitch(i) ==
  /\ At("inputs")        \* the pins are read nowhere else
  /\ Flip(i)
  /\ UNCHANGED <<pc, inCell, whoResponded, lastNotificationTime, modeVars,
                 input, smsVars, callVars, wireResponseCode, alertVars,
                 worldVars>>

(* onReceiveSMS: the library calls it while the program is in a modem call. *)
ReceiveSMS(from, body) ==
  /\ inCell
  /\ gotSMS' = TRUE
  /\ lastSMS' = [from |-> from, body |-> body]
  /\ UNCHANGED <<pc, inCell, alarmVars, input, contactId, callVars,
                 wireResponseCode, alertVars, worldVars>>

(* The watchdog, HardwareReset, resetFunc or a power cut: memory is lost.  *)
Reset ==
  /\ resets < MaxResets
  /\ resets' = resets + 1
  /\ MonClearedNext
  /\ pc' = "boot" /\ inCell' = FALSE /\ caller' = "diag" /\ input' = 1
  /\ whoResponded' = NobodyResponded /\ lastNotificationTime' = AllClear
  /\ alarmStatus' = 1 /\ disabledHours' = 0 /\ contacts' = <<>>
  /\ gotSMS' = FALSE /\ lastSMS' = NoText /\ contactId' = 0
  /\ responded' = NoOne /\ callee' = 1 /\ calling' = FALSE
  /\ wireResponseCode' = 0 /\ wireFailureResponse' = FALSE
  /\ lastI2CFailNotification' = 0 /\ now' = 0
  /\ UNCHANGED <<pin, saved>>

-------------------------------------------------------------------------------
(* setup(), and the parts of loop() before the inputs are handled          *)

(* The contacts, the alarms that were on before a reset, and the modem.    *)
Boot ==
  /\ At("boot")
  /\ Goto("top")
  /\ contacts' \in LoadResults
  /\ slaveGetSavedAlarmState
  /\ UNCHANGED <<pin, justPressed, justReleased, previousState, input,
                 whoResponded, lastNotificationTime, alarmStatus,
                 disabledHours, smsVars, callVars, alertVars, worldVars>>

(* cell.ReadLine() before checkIncomingSMS.                                *)
Top ==
  /\ At("top")
  /\ CallCell("sms")
  /\ UNCHANGED data

(* A modem call returns.                                                   *)
ModemReturns ==
  /\ inCell
  /\ Goto(pc)
  /\ UNCHANGED data

(* Time moves on once a pass, and while a phone rings.                     *)
TimePasses ==
  /\ inCell /\ (calling \/ pc = "sms")
  /\ Goto(pc)
  /\ now' = (now + 1) % ClockMod
  /\ UNCHANGED <<alarmVars, input, smsVars, callVars, wireResponseCode,
                 alertVars, saved, resets>>

Trusted(j) == j \in DOMAIN contacts /\ contacts[j] = lastSMS.from
\* isInContactList returns the first contact that has the sender's number.
isInContactList(j) == Trusted(j) /\ \A k \in 1 .. j - 1 : ~Trusted(k)

\* Mutants: the state of the input, or its responder, is not looked at.
ClaimableWhenOff(i) == i \in RequiresResponse /\ whoResponded[i] = NoOne
ClaimableTwice(i)   == i \in RequiresResponse /\ (pressed[i] = 1 \/ justPressed[i] = 1)
Claimable(i) ==
  /\ i \in RequiresResponse
  /\ whoResponded[i] = NoOne
  /\ pressed[i] = 1 \/ justPressed[i] = 1

(* checkIncomingSMS with nothing received.                                 *)
NoSMS ==
  /\ At("sms") /\ ~gotSMS
  /\ Goto(caller)
  /\ caller' = "diag"
  /\ UNCHANGED <<alarmVars, input, smsVars, responded, callee, calling,
                 wireResponseCode, alertVars, worldVars>>

(* The sender is in the list and the text claims the first open alarm.     *)
ClaimAlarm ==
  /\ At("sms") /\ gotSMS
  /\ "BIRLOFF" \in lastSMS.body
  /\ \E j \in DOMAIN contacts, i \in Inputs :
       /\ isInContactList(j)
       /\ Claimable(i) /\ \A k \in 1 .. i - 1 : ~Claimable(k)
       /\ contactId' = j
       /\ whoResponded' = [whoResponded EXCEPT ![i] = j]
  /\ slaveSetAlarmResponse
  /\ notifyContactsAlarmResponse("iknow")
  /\ UNCHANGED <<monVars, lastNotificationTime, modeVars, input, gotSMS,
                 lastSMS, callVars, alertVars, worldVars>>

(* The sender is in the list but there is no alarm to claim.               *)
NothingToClaim ==
  /\ At("sms") /\ gotSMS
  /\ \E j \in DOMAIN contacts : isInContactList(j) /\ contactId' = j
  /\ "BIRLOFF" \notin lastSMS.body \/ \A i \in Inputs : ~Claimable(i)
  /\ Goto("iknow")
  /\ UNCHANGED <<alarmVars, input, gotSMS, lastSMS, callVars, wireResponseCode,
                 alertVars, worldVars>>

UntrustedSMS ==
  /\ At("sms") /\ gotSMS
  /\ \A j \in DOMAIN contacts : ~Trusted(j)
  /\ Goto("drop")
  /\ UNCHANGED data

(* The second half of checkIncomingSMS reads lastSMS again.                *)
AnswerI2C ==
  /\ At("iknow")
  /\ IF wireResponseCode # 0 /\ "IKNOW" \in lastSMS.body
       THEN wireFailureResponse' = TRUE /\ notifyContactsSMS("drop")
       ELSE UNCHANGED wireFailureResponse /\ Goto("drop")
  /\ UNCHANGED <<alarmVars, input, smsVars, callVars, wireResponseCode,
                 lastI2CFailNotification, worldVars>>

(* The flag is reset, then DeleteAllSMS and ReadLine talk to the modem.     *)
(* contactId goes out of scope; lastSMS is not read again before the next   *)
(* message overwrites it, so both get one value here, which keeps the state *)
(* space small.                                                             *)
DropSMS ==
  /\ At("drop")
  /\ gotSMS' = FALSE /\ lastSMS' = NoText /\ contactId' = 0
  /\ CallCell(caller)
  /\ caller' = "diag"
  /\ UNCHANGED <<alarmVars, input, responded, callee, calling,
                 wireResponseCode, alertVars, worldVars>>

(* checkGSMProblems may restart the modem, which reads lines from it;      *)
(* checkI2CProblems raises or calls off the I2C alert.                     *)
Diagnostics ==
  LET failed  == wireResponseCode # 0
      alert   == /\ failed /\ ~wireFailureResponse
                 /\ \/ Since(lastI2CFailNotification)
                         > I2C_FAIL_NOTIFICATION_PERIOD
                    \/ lastI2CFailNotification = 0
      callOff == ~failed /\ lastI2CFailNotification # 0
  IN
  /\ At("diag")
  /\ \/ alert /\ notifyContactsSMS("poll") /\ lastI2CFailNotification' = now
     \/ callOff /\ notifyContactsSMS("poll") /\ lastI2CFailNotification' = 0
     \/ /\ ~alert /\ ~callOff
        /\ Goto("poll") \/ CallCell("poll")
        /\ UNCHANGED lastI2CFailNotification
  /\ UNCHANGED <<alarmVars, input, smsVars, callVars, wireResponseCode,
                 wireFailureResponse, worldVars>>

(* The 15 second event: due or not, but an empty list forces it.  The      *)
(* slave is spoken to only while no input is in alarm; the list is loaded  *)
(* when the slave says it changed, or when there is none.                  *)
Poll ==
  /\ At("poll")
  /\ \/ contacts # <<>> /\ Goto("inputs") /\ UNCHANGED wireResponseCode
     \/ inAlarmState /\ Goto("fwd") /\ UNCHANGED wireResponseCode
     \/ /\ ~inAlarmState
        /\ Goto("load") \/ (contacts # <<>> /\ Goto("hours"))
        /\ slaveGetContactsFileChanged
  /\ UNCHANGED <<alarmVars, input, smsVars, callVars, alertVars, worldVars>>

loadAndValidateContacts ==
  /\ At("load")
  /\ contacts' \in LoadResults
  /\ wireResponseCode' \in WireCodes
  /\ Goto("hours")
  /\ UNCHANGED <<monVars, whoResponded, lastNotificationTime, alarmStatus,
                 disabledHours, input, smsVars, callVars, alertVars, worldVars>>

(* A failed read is a reply of 0 hours.                                    *)
DisableHours ==
  /\ At("hours")
  /\ slaveGetAlarmDisabledHours
  /\ \E hours \in Hours :
       /\ disabledHours' = hours
       /\ \/ hours = disabledHours /\ UNCHANGED alarmStatus /\ Goto("fwd")
          \/ /\ hours # disabledHours /\ hours = 0
             /\ alarmStatus' = 1 /\ Goto("fwd")
          \/ /\ hours # disabledHours /\ hours > 0
             /\ alarmStatus' = 0 /\ notifyContactsSMS("fwd")
  /\ UNCHANGED <<monVars, whoResponded, lastNotificationTime, contacts, input,
                 smsVars, callVars, alertVars, worldVars>>

FwdSMS2Serial ==
  /\ At("fwd")
  /\ CallCell("inputs")
  /\ UNCHANGED data

(* checkInputs: sample the pins, or return at once because DEBOUNCE ms     *)
(* have not passed.                                                        *)
SampleInputs ==
  /\ At("inputs") /\ alarmStatus = 1
  /\ Sample
  /\ Goto("new")
  /\ UNCHANGED <<whoResponded, lastNotificationTime, modeVars, input, smsVars,
                 callVars, wireResponseCode, alertVars, worldVars>>

TooEarly ==
  /\ At("inputs") /\ alarmStatus = 1
  /\ Goto("new")
  /\ UNCHANGED data

(* While disabled the pins are not read.  The period is over at some pass. *)
StillDisabled ==
  /\ At("inputs") /\ alarmStatus = 0
  /\ Goto("new")
  /\ UNCHANGED data

AutoEnable ==
  /\ At("inputs") /\ alarmStatus = 0
  /\ alarmStatus' = 1
  /\ notifyContactsSMS("new")           \* "automatically enabled"
  /\ UNCHANGED <<monVars, whoResponded, lastNotificationTime, disabledHours,
                 contacts, input, smsVars, callVars, wireResponseCode,
                 alertVars, worldVars>>

-------------------------------------------------------------------------------
(* The loop over the inputs                                                *)

(* notifyContactsAlarmState(input): remember who had responded, text       *)
(* groups 1 and 2, then go through the contacts; return to site.           *)
notifyContactsAlarmState(site) ==
  /\ responded' = whoResponded[input]
  /\ callee' = 1
  /\ caller' = site
  /\ CallCell("dial")

NewAlarm ==
  /\ At("new")
  /\ \/ /\ justPressed[input] = 1
        /\ slaveSetAlarm(input)
        /\ notifyContactsAlarmState("newDone")
     \/ /\ justPressed[input] = 0
        /\ Goto("cleared")
        /\ UNCHANGED <<saved, responded, callee, caller>>
  /\ UNCHANGED <<alarmVars, input, smsVars, calling, wireResponseCode,
                 alertVars, now, resets>>

NewAlarmDone ==
  /\ At("newDone")
  /\ lastNotificationTime' = [lastNotificationTime EXCEPT ![input] = now]
  /\ justPressed' = [justPressed EXCEPT ![input] = 0]
  /\ Goto("cleared")
  /\ UNCHANGED <<pin, pressed, justReleased, previousState, whoResponded,
                 modeVars, input, smsVars, callVars, wireResponseCode,
                 alertVars, worldVars>>

ClearedAlarm ==
  /\ At("cleared")
  /\ \/ /\ justReleased[input] = 1
        /\ slaveClearAlarm(input)
        /\ notifyContactsAlarmState("clearedDone")
     \/ /\ justReleased[input] = 0
        /\ Goto("ongoing")
        /\ UNCHANGED <<saved, responded, callee, caller>>
  /\ UNCHANGED <<alarmVars, input, smsVars, calling, wireResponseCode,
                 alertVars, now, resets>>

ClearedAlarmDone ==
  /\ At("clearedDone")
  /\ lastNotificationTime' = [lastNotificationTime EXCEPT ![input] = now]
  /\ whoResponded' = [whoResponded EXCEPT ![input] = NoOne]
  /\ justReleased' = [justReleased EXCEPT ![input] = 0]
  /\ Goto("ongoing")
  /\ UNCHANGED <<pin, pressed, justPressed, previousState, modeVars, input,
                 smsVars, callVars, wireResponseCode, alertVars, worldVars>>

\* Mutant: the deadline is compared without unsigned subtraction.
ReminderDueUnlessWrapped ==
  /\ whoResponded[input] = NoOne
  /\ now >= lastNotificationTime[input] + NotificationInterval[input]

ReminderDue ==
  /\ whoResponded[input] = NoOne
  /\ Since(lastNotificationTime[input]) >= NotificationInterval[input]

(* Remind the contacts while no one has responded.                         *)
OngoingAlarm ==
  /\ At("ongoing")
  /\ \/ /\ pressed[input] = 0
        /\ NextInput /\ Goto(AfterInput)
        /\ UNCHANGED <<responded, callee, caller>>
     \/ /\ pressed[input] = 1 /\ ~ReminderDue
        /\ Goto("restart")
        /\ UNCHANGED <<input, responded, callee, caller>>
     \/ /\ pressed[input] = 1 /\ ReminderDue
        /\ notifyContactsAlarmState("ongoingDone")
        /\ UNCHANGED input
  /\ UNCHANGED <<alarmVars, smsVars, calling, wireResponseCode, alertVars,
                 worldVars>>

OngoingAlarmDone ==
  /\ At("ongoingDone")
  /\ lastNotificationTime' = [lastNotificationTime EXCEPT ![input] = now]
  /\ Goto("restart")
  /\ UNCHANGED <<monVars, whoResponded, modeVars, input, smsVars, callVars,
                 wireResponseCode, alertVars, worldVars>>

(* The update of July 2014: announce, mark the alarm new and clear         *)
(* whoResponded.  The announcement's modem call comes last here; nothing   *)
(* that happens in it reads what the other two statements write.           *)
RestartAlarm ==
  LET due == Since(TimeResponded) >= AlCallRestartTime /\ justPressed[input] = 0
  IN
  /\ At("restart")
  /\ NextInput
  /\ \/ /\ due
        /\ justPressed' = [justPressed EXCEPT ![input] = 1]
        /\ whoResponded' = [whoResponded EXCEPT ![input] = NoOne]
        /\ notifyContactsAlarmResponse(AfterInput)
     \/ /\ ~due
        /\ UNCHANGED <<justPressed, whoResponded>>
        /\ Goto(AfterInput)
  /\ UNCHANGED <<pin, pressed, justReleased, previousState,
                 lastNotificationTime, modeVars, smsVars, callVars,
                 wireResponseCode, alertVars, worldVars>>

\* Mutant: Responded is not looked at.
ShouldCallAnyway ==
  /\ GroupOf[contacts[callee]] = 1
  /\ pressed[input] = 1
  /\ input \in RequiresResponse

\* Only group 1 is phoned, and only while the alarm is on and, as far as the
\* notification knows, unanswered.
ShouldCall ==
  /\ GroupOf[contacts[callee]] = 1
  /\ responded = NoOne
  /\ pressed[input] = 1
  /\ input \in RequiresResponse

(* The next contact: let the phone ring, or only pause.                    *)
Dial ==
  /\ At("dial")
  /\ callee <= Len(contacts)
  /\ calling' = ShouldCall
  /\ CallCell("settle")
  /\ UNCHANGED <<alarmVars, input, smsVars, caller, responded, callee,
                 wireResponseCode, alertVars, worldVars>>

(* Hang up; a message received since the notification began ends the calls. *)
Settle ==
  /\ At("settle")
  /\ calling' = FALSE
  /\ IF gotSMS
       THEN Goto("sms") /\ callee' = 1 /\ responded' = NoOne
       ELSE Goto("dial") /\ callee' = callee + 1 /\ UNCHANGED responded
  /\ UNCHANGED <<alarmVars, input, smsVars, caller, wireResponseCode,
                 alertVars, worldVars>>

(* Every contact has been gone through.                                    *)
DialedAll ==
  /\ At("dial")
  /\ callee > Len(contacts)
  /\ callee' = 1 /\ responded' = NoOne
  /\ Goto("sms")
  /\ UNCHANGED <<alarmVars, input, smsVars, caller, calling, wireResponseCode,
                 alertVars, worldVars>>

-------------------------------------------------------------------------------
Step ==
  \/ Boot \/ Top \/ ModemReturns \/ TimePasses
  \/ NoSMS \/ ClaimAlarm \/ NothingToClaim \/ UntrustedSMS
  \/ AnswerI2C \/ DropSMS
  \/ Diagnostics \/ Poll \/ loadAndValidateContacts \/ DisableHours
  \/ FwdSMS2Serial
  \/ SampleInputs \/ TooEarly \/ StillDisabled \/ AutoEnable
  \/ NewAlarm \/ NewAlarmDone \/ ClearedAlarm \/ ClearedAlarmDone
  \/ OngoingAlarm \/ OngoingAlarmDone \/ RestartAlarm
  \/ Dial \/ Settle \/ DialedAll

World ==
  \/ \E i \in Inputs : MoveSwitch(i)
  \/ \E from \in Sender, body \in Bodies : ReceiveSMS(from, body)
  \/ Reset

Next == Step \/ World

Spec == Init /\ [][Next]_vars

(* The processor keeps executing, because modem and I2C calls return;      *)
(* millis() advances, so that a pass comes at which DEBOUNCE ms have       *)
(* passed, reminders fall due and a disabled period ends.                  *)
Fairness ==
  /\ WF_vars(Step)
  /\ SF_vars(SampleInputs)
  /\ SF_vars(TimePasses)
  /\ SF_vars(AutoEnable)

FairSpec == Spec /\ Fairness

-------------------------------------------------------------------------------
(* Safety.                                                                 *)

(* A set edge flag agrees with the debounced state: checkInputs and the    *)
(* restart of July 2014 never leave an input both new and cleared.         *)
EdgesAgree ==
  \A i \in Inputs :
    /\ justPressed[i] = 1 => pressed[i] = 1 /\ justReleased[i] = 0
    /\ justReleased[i] = 1 => pressed[i] = 0

(* Someone is recorded as responsible (whoResponded) only for an alarm     *)
(* that asks for it and is on or still being called off, and the record is *)
(* an index of the list in force.                                          *)
ResponderOnlyWhileAlarmed ==
  \A i \in Inputs : whoResponded[i] # NoOne =>
    /\ i \in RequiresResponse
    /\ pressed[i] = 1 \/ justReleased[i] = 1
    /\ whoResponded[i] \in DOMAIN contacts

(* The alarm is disabled only when nothing is on or waits to be handled:   *)
(* nothing is silenced half way (loop() polls the slave for the disable    *)
(* hours only outside inAlarmState).                                       *)
DisabledMeansQuiet ==
  alarmStatus = 0 =>
    \A i \in Inputs : pressed[i] = 0 /\ justPressed[i] = 0 /\ justReleased[i] = 0

(* A phone of notifyContactsAlarmState rings only for an alarm that is on  *)
(* and that nobody has claimed, in a list that has not changed meanwhile,  *)
(* although the code decides from a copy of whoResponded made before the   *)
(* texts were sent.                                                        *)
PhoneRingsOnlyForOpenAlarm ==
  calling => /\ pressed[input] = 1 /\ whoResponded[input] = NoOne
             /\ callee \in DOMAIN contacts /\ GroupOf[contacts[callee]] = 1

(* With a reliable wire the slave's copy differs from pressed only for an  *)
(* input whose edge is still to be handled in this pass, so that setup()   *)
(* restores after a reset what had been handled before it.                 *)
SlaveMirrorsAlarms ==
  WireReliable /\ pc # "boot" =>
    \A i \in Inputs :
      saved[i] = pressed[i] \/ justPressed[i] = 1 \/ justReleased[i] = 1

(* The contact list is not replaced while whoResponded holds an index into *)
(* it; a reset clears both.                                                *)
ListHeldWhileAnswered ==
  [][contacts' # contacts /\ pc' # "boot" =>
       \A i \in Inputs : whoResponded[i] = NoOne]_vars

\* Who has taken responsibility for alarm i, as a person.
Owner(i) == IF whoResponded[i] = NoOne THEN Stranger ELSE contacts[whoResponded[i]]

Life == INSTANCE AlarmLifecycle WITH
          up <- pc # "boot", enabled <- (alarmStatus = 1), on <- pressed,
          owner <- [i \in Inputs |-> Owner(i)], list <- contacts,
          known <- saved, Nobody <- Stranger, Lists <- LoadResults,
          Reliable <- WireReliable

(* The loop, its flags, its copies and its blocking calls implement the    *)
(* life cycle of an alarm: a contact answers only for the first open       *)
(* alarm, stays responsible until the alarm is called off or restarted,    *)
(* and a crash loses no more than what the slave had not been told.        *)
ImplementsLifecycle == Life!Spec

-------------------------------------------------------------------------------
(* The inductive invariant the safety properties follow from.              *)

\* The place in loop() the program is at, or returns to from a notification
\* or from checkIncomingSMS.
Frame == IF pc \in {"dial", "settle", "sms", "iknow", "drop"} THEN caller ELSE pc

ScanFrames == Sites \cup {"new", "cleared", "ongoing", "restart"}

\* Input i is still to come in this pass: its step for new alarms, or for
\* cleared ones, has not been taken.
NewAhead(i) ==
  \/ Frame = "new" /\ i >= input
  \/ Frame \in ScanFrames /\ i > input
ClearAhead(i) ==
  \/ Frame \in {"new", "newDone", "cleared"} /\ i >= input
  \/ Frame \in ScanFrames /\ i > input

\* caller is where a notification returns to; "diag" when there is none.
CallerFits ==
  /\ pc \in {"dial", "settle"} => caller \in Sites
  /\ pc \notin {"dial", "settle", "sms", "iknow", "drop"} => caller = "diag"
  /\ Frame \notin ScanFrames => input = 1

\* setup() starts from cleared memory.
BootIsClear ==
  pc = "boot" =>
    /\ MonCleared /\ inCell = FALSE /\ contacts = <<>>
    /\ whoResponded = NobodyResponded /\ alarmStatus = 1 /\ calling = FALSE

\* The last third of the loop body is for alarms that are on.
OngoingIsOn == Frame \in {"ongoingDone", "restart"} => pressed[input] = 1

\* justReleased is set only until the loop has handled it.
ReleaseAhead ==
  \A i \in Inputs : justReleased[i] = 1 => ClearAhead(i) \/ (Frame = "clearedDone" /\ i = input)

\* The slave is asked for contacts and hours only while nothing is going on.
PollIsQuiet ==
  pc \in {"load", "hours"} =>
    \A i \in Inputs : pressed[i] = 0 /\ justPressed[i] = 0 /\ justReleased[i] = 0

\* The copy of whoResponded a notification works with is not stale.
CopyIsFresh == pc \in {"dial", "settle"} => responded = whoResponded[input]

RingingSettles == calling => pc = "settle"

\* The slave is behind only for an edge the loop has not come to.
SlaveBehind ==
  WireReliable /\ pc # "boot" =>
    \A i \in Inputs : saved[i] # pressed[i] =>
      \/ pressed[i] = 1 /\ justPressed[i] = 1 /\ NewAhead(i)
      \/ pressed[i] = 0 /\ justReleased[i] = 1 /\ ClearAhead(i)

IInv ==
  /\ TypeOK /\ EdgesAgree /\ ResponderOnlyWhileAlarmed /\ DisabledMeansQuiet
  /\ PhoneRingsOnlyForOpenAlarm
  /\ CallerFits /\ BootIsClear /\ OngoingIsOn /\ ReleaseAhead /\ PollIsQuiet
  /\ CopyIsFresh /\ RingingSettles /\ SlaveBehind

-------------------------------------------------------------------------------
(* Liveness, under Fairness.                                               *)

\* The contacts are being told that alarm i is on.
Telling(i) == pc = "dial" /\ input = i /\ pressed[i] = 1 /\ contacts # <<>>

(* A switch that stays closed is reported again and again unless someone   *)
(* claims it again and again, provided the slave does not keep disabling   *)
(* the alarm for good.                                                     *)
ClosedSwitchIsReported ==
  \A i \in Inputs :
    <>[](pin[i] = LOW) /\ []<>(pc = "inputs" /\ alarmStatus = 1) =>
      []<>Telling(i) \/ []<>(whoResponded[i] # NoOne)

(* An alarm the program knows of is eventually over, for the program and   *)
(* the slave, when the switch opens for good.                              *)
OpenSwitchIsCleared ==
  \A i \in Inputs :
    <>[](pin[i] = HIGH) =>
      <>[](pressed[i] = 0 /\ saved[i] = 0 /\ whoResponded[i] = NoOne)
===============================================================================
