# Alarm3: verification project

Alarm3 is the firmware of a laboratory alarm on an Arduino Mega. It watches
switch inputs, tells a list of people by text message and telephone when a
switch closes, lets one of them take responsibility by replying `BIRLOFF`, and
reports when the switch opens again. A second Arduino with an Ethernet shield,
the *slave*, keeps the contact list, a web page and the alarm state over resets;
it is reached over I2C. The repository also keeps the libraries the two boards
use (`src/libold/`): the two wire bus, the SD card with its FAT file system and
the tone generator. This directory holds TLA+ modules of firmware and libraries,
the TLC configurations that check them and TLAPS proofs. Paths such as
`src/src/MegaMaster.cpp` name the files of the repository; a bare file name in a
table is one under `src/src/` or `src/libold/`.

## 1. Inventory

| Component | Source | State it keeps | Operations |
| --- | --- | --- | --- |
| Main loop | `MegaMaster.cpp` | `inputs[]`, `alarmStatus`, `disabledHours`, `alarmDisabledTime`, `lastContactsCheck`, `TimeResponded` | `setup`, `loop` |
| Monitoring | `MonitoringFunctions.cpp` | `pressed`, `justPressed`, `justReleased`, `previousState`, `lastTime` | `checkInputs`, `inAlarmState` |
| SMS and modem | `GSMFunctions.cpp` | `gotSMS`, `lastSMS`, `smsSender`, `cellStatus`, `numTimeouts` | `onReceiveSMS` (callback), `checkIncomingSMS`, `trySendSMS`, `activeDelay`, `bootGSMShield` |
| Contacts | `ContactManagementFunctions.cpp` | `contacts`, `numContacts` | `loadAndValidateContacts`, `isInContactList`, `notifyContactsAlarmState`, `notifyContactsAlarmResponse`, `notifyContactsSMS` |
| Slave communication | `SlaveCommunicationFunctions.cpp` | `wireResponseCode` | one function per I2C request |
| Diagnostics | `DiagnosticFunctions.cpp` | `doneSoftReset`, `wireFailureResponse`, `lastI2CFailNotification` | `checkGSMProblems`, `doIncrementalReset`, `checkI2CProblems` |
| Watchdog | `WatchdogFunctions.cpp` | `watchdogSeconds` | `SetupWatchdog`, `ResetWatchdog`, `HardwareReset`, the timer interrupt |
| CRC32 | `CRC32.cpp` | - | `crc_update` |
| Sounds | `Sounds.cpp` | - | tones |
| Slave, modem library | not in the repository | saved alarm state, contact file; incoming texts | replies; callback |
| Wire library | `WSWire.cpp`, `twi.c` | `twi_state`, `twi_error`, the buffers and their indices | `endTransmission`, `requestFrom`, the interrupt of master and slave, `twi_tout` |
| SD card driver | `Sd2Card.cpp` | `m_type`, chip select, the card's mode | `begin`, block reads and writes, sequences of them, `erase`, `readCSD` |
| SPI transport | `SdSpi*.cpp` | - | bytes to and from a register |
| FAT volume and files | `SdVolume.cpp`, `SdBaseFile.cpp`, `SdFat.cpp` | the block cache, `m_allocSearchStart`, the file objects | `init`, `open`, `read`, `write`, `seekSet`, `truncate`, `sync`, `close`, `remove`, `rename`, `mkdir`, `rmdir`, `rmRfStar`, `createContiguous` |
| File streams | `SdStream.cpp`, `istream.cpp`, `ostream.cpp` | place, state bits, `writeError`, format settings | `open`, extraction, insertion, `seekg`, `setw`, `printField`, `fgets` |
| Directory entries | `SdBaseFile.cpp`, `SdBaseFilePrint.cpp` | names and dates of entries | `make83Name`, `timestamp`, `sync`, `ls` |
| Formatter sketch | `SdFormatter.ino` | the layout of a volume | erase, format, quick format |
| Tone library | `Tone.cpp` | toggle counts, pins, timers | `begin`, `play`, `stop`, the timer interrupts |
| Memory streams, helpers, example sketches | rest of `libold/SdFat` | - | - |

**Interaction.** One thread runs `loop()`. It reaches everything else by calls
and by global variables. Two things happen behind its back: the timer interrupt
of the watchdog, and `onReceiveSMS`, which the modem library calls whenever the
program is inside one of its functions (`ReadLine`, `SendSMS`, `Call`, ...). As
the program spends minutes inside them while it texts and phones, most of what
it read before such a call may be old when the call returns. Both boards run
the wire library: the master's program waits in a polling loop for its interrupt,
the slave's program runs inside its own. A board with the card runs one thread
that goes through streams, files, volume, cache and driver, each by calls of the
one below. Tones and the watchdog are interrupts against a program that writes
their counters in more than one instruction.

**Hard behaviour.** Texts that arrive in the middle of a notification and are
handled there (`notifyContactsAlarmState` calls `checkIncomingSMS`); copies and
indices used after a blocking call; resets at any point, with state restored
from the slave; I2C writes and transfers that fail; a clock that wraps; edge
flags that are cleared by the next sample. In the libraries: a time-out that lets
the program go on while the hardware does too; a card that fails, is pulled or
loses power between two writes; one cached block for the FAT, directories and
files; numbers at the limit of their type. `PROJECT.json` lists each hazard at
its line with the properties that would catch it.

**What makes the components correct.** Monitoring: an edge is reported once,
after two agreeing samples, and sampling never stops. Alarms: one owner at most,
a member of the list in force, only while the alarm is on; nothing is silenced
half way; a closed switch is reported for as long as nobody answers; an opened
one is cleared here and in the slave. SMS: a message is acted on once and for
the sender it came from. Modem: after a fault the modem or the board is
restarted and the loop goes on. Contacts: a list is complete or empty. Watchdog:
a loop that is stuck is reset, one that is not is left alone. Wire: a call returns,
success means the other side has it, and nothing is stored beyond a buffer. Card:
only what was asked is written, and success means done. Volume: chains that end,
do not cross and belong to a file; what was synced survives. Streams: what is read
is what was written. Tones: as long and as high as asked, and silent afterwards.

## 2. Modules

| Module | What it is |
| --- | --- |
| `Monitoring` | the switch inputs and their status arrays (`checkInputs`, `inAlarmState`) |
| `MegaMaster` | `setup()` and `loop()` with the SMS, notification, diagnostic and slave handlers; properties; inductive invariant |
| `AlarmLifecycle` | abstract: what the firmware promises about an alarm |
| `MegaMasterClaims` | claims of comments and messages that the code does not keep |
| `MCMegaMaster` | constants of the TLC instances |
| `MegaMasterProofs` | theorems about `MegaMaster` with TLAPS proofs |
| `ModemRecovery` | `checkGSMProblems`, `doIncrementalReset`, `bootGSMShield`, `trySendSMS`, `numTimeouts`, the watchdog |
| `ModemRecoveryProofs` | its type correctness and the bound of `numTimeouts` |
| `ContactTransfer` | `slaveGetContacts` and `loadAndValidateContacts` over a lossy wire, byte by byte |
| `MCContactTransfer` | files and a checksum for TLC |
| `ContactTransferProofs` | an accepted list is complete |
| `Watchdog` | the interrupt of timer 1 and the two writes of `ResetWatchdog` |
| `Wire` | `WSWire.cpp` and `twi.c` on both boards, with the hardware between them |
| `MCWire` | a message and answers for TLC |
| `WireProofs` | the driver is fit for the next call and what it can store beyond its buffer; success means heard, a read is the answer, messages are whole |
| `Tone` | `Tone.cpp`: `play` and `stop` write by write, against the interrupts |
| `BoardTimersProofs` | the board is never reset early; tones have the length, pitch and timer they were asked for |
| `MCBoardTimers` | a sketch with `Tone` or with `Watchdog` |
| `Sd2Card` | the driver of the card, poll by poll, and the card |
| `Sd2CardProofs` | the driver is fit, success means done, only what is asked is written |
| `BlockCache` | the block cache of `SdVolume` with the write to both FATs |
| `SdVolume` | extends it: the FAT, the search for free clusters, chains |
| `SdBaseFile` | extends it: files and directories |
| `SdFat` | extends it: a program that uses a volume, call by call, with failures |
| `FileSystem` | abstract: what the file library promises a program |
| `MCSdFat` | the programs for TLC |
| `Formatter` | the sketch that formats a card, and `SdVolume::init` that mounts it |
| `FormatterProofs` | a formatted card mounts, for every card |
| `SdStream` → `IStream` → `OStream` | a file as a stream of characters; extraction; insertion |
| `Streams` | extends them: a program that writes and reads a text |
| `StreamsProofs` | what is read is the text of the file, what is put is there, no file loses what its mode protects |
| `DirEntries` | names, dates and listings |
| `MCSdTools` | cards, texts, values and directories for TLC; one of the three modules above runs |

### `MegaMaster` and the code

`pc` is the place in the code. While the program is inside the modem library
`inCell` is TRUE and `pc` is where it goes on. `caller` is the place a
notification, and `checkIncomingSMS` inside it, returns to. Inputs and contacts
are numbered from 1, so 0 (`NoOne`) stands for the code's `-1`. `contacts` is
the sequence of the `numContacts` valid entries.

| Action | Code |
| --- | --- |
| `Boot` | `setup()` from the wait for the slave to its end |
| `Top` | start of `loop()`, `cell.ReadLine()` |
| `NoSMS`, `UntrustedSMS`, `NothingToClaim`, `ClaimAlarm`, `AnswerI2C`, `DropSMS` | the paths through `checkIncomingSMS`; `ClaimAlarm` blocks in the announcement, `AnswerI2C` reads `lastSMS` again after it |
| `Diagnostics` | `checkGSMProblems` (a modem call, or a reset) and `checkI2CProblems` |
| `Poll`, `loadAndValidateContacts`, `DisableHours`, `FwdSMS2Serial` | the 15 second event |
| `SampleInputs`, `TooEarly` | `checkInputs` past, or at, its early return |
| `StillDisabled`, `AutoEnable` | the other branch of the test of `alarmStatus` |
| `NewAlarm`, `NewAlarmDone`, `ClearedAlarm`, `ClearedAlarmDone`, `OngoingAlarm`, `OngoingAlarmDone`, `RestartAlarm` | the loop over the inputs; a notification splits a branch in two |
| `Dial`, `Settle`, `DialedAll` | `notifyContactsAlarmState` after the texts |
| `ModemReturns`, `TimePasses` | a modem call returns, with or without `millis()` moving on |
| `MoveSwitch`, `ReceiveSMS`, `Reset` | the world; `ReceiveSMS` is `onReceiveSMS` |

Choices. The text of a message is the set of keywords it contains. The people
who receive texts are not recorded: a round of texts is one blocked call during
which any number of messages may arrive. The 15 second timer, the DEBOUNCE
timer and the end of the disabled period are free choices, so that the safety
results hold for any timing; `millis()` counts passes and ringing, modulo
`ClockMod`. With `WireCodes = {0}` the wire is reliable; otherwise a write to
the slave may be lost, a read may fail and any code may be left in
`wireResponseCode`. A reset may come between any two steps and loses everything
but the pins and the slave's memory. After `DropSMS`, `lastSMS` and `contactId`
are given one value: the code does not read them again before they are written.

Two readings of the source had to be chosen, as the tree does not link as it
is: `extern` declarations of the header are followed by `static` definitions,
which is taken to mean one copy of each variable; and the modem object `cell`
is declared `extern` but defined only inside `setup()`, which is taken to mean
one object on which the callback is registered.

### `AlarmLifecycle`

Alarms go on and off while the system is up and enabled; a member of the list
may own the first open alarm; nobody gets an alarm back that goes off while he
is its owner before he has been relieved; the list changes and the system is
disabled only while nothing is on and nobody owns anything; after a crash the
alarms are those the slave knew. `MegaMaster` maps `on` to `pressed`, `owner` to
the contact `whoResponded` is an index of, `known` to the slave's copy, `up` to
being out of `setup()`.

### `ModemRecovery`

`MegaMaster` takes the recovery of the modem for a blocked call or a reset; this
module opens it. `pc` walks through `setup()`, the wait of `bootGSMShield`
(which goes on at `back`), `checkIncomingSMS`, the three tests of
`checkGSMProblems` and the rest of the pass. A test that resets the shield goes
on with the next test, as the code does. `status` and `errorCode` are what the
modem library reports, any value at any moment until `well`; `status` 0 stands
for all codes no test looks for, 1 also for 10. `MaxOps` bounds the modem
operations of a pass (texts, calls, transfers), each of which may add to
`numTimeouts`; the check while a phone rings is one of them. `Tick` is the
interrupt of the watchdog. When the modem is well only the wait for it takes
seconds: no other call is taken to last 90 s.

### `ContactTransfer`

The two functions are one loop over replies of `Chunk` bytes. `digest` holds the
bytes that were hashed and `ends[k]` the place where contact `k` ends, so that a
contact is a slice of `digest` and `numContacts` is `Len(ends)`. Requests may be
lost (the slave then goes on where it was), replies may be cut short or lost,
the file may be edited at any moment, the checksum may not come. CRC32 is a
constant operator of which only this is assumed: it tells two contents apart,
and is 0 for none. A byte is `NL`, `Chr` or `High`: one of 0x80 and more is negative in the
Mega's `char`, so that `c > 0` keeps it out of the checksum the Mega computes and not
of the slave's. `Loadable` says which files can be loaded at all: none with such a byte,
and none that has neither a newline nor a full line, which is hashed, accepted and
stored as no contact. Every other file, and each change from one to another, is in the
run. The fields of a contact are not modelled.

### `Wire`

`pc` is the place of the master's program: before its claim of the driver, in the
stretch between the claim and the request for a START, or in the polling loop.
`Interrupt` is one run of the master's interrupt for what the hardware says in `int`,
`SlaveInterrupt` one of the slave's; `onReceiveService` is the slave's program, which
runs inside it, after the hardware has been released. `bus` and the hardware's flags
move by `Bus`: addresses, bytes, acknowledgements, lost arbitration, noise, a slave that
stretches the clock for as long as it likes. `StopWaits` is `twi_tout`: the program
calls `twi_init` and returns while the hardware goes on. `clean` is a history variable:
the call found bus and slave at rest. `SlaveReset` takes the slave back to power on in
the middle of anything. The master's buffer of the model has one byte more than the
code's: what is stored there is stored behind the end of `twi_masterBuffer`, and that
byte is taken to be none of the driver's variables.

### `Sd2Card`

`drv` is the driver, `card` the card, `store` what it holds, `call` the call the
program waits for. The driver's steps are those of the code between two polls; a
poll that brings nothing takes one unit of `millis()`, which wraps. The card may be
busy, refuse a command or a block, send an error token, disturb a transfer, fall
silent or lose its power. `call.trouble` records two things the driver cannot see:
`"late"`, a card busy for longer than `cardCommand` waits, whose result it ignores,
and `"garbled"`, a block disturbed in a build without check sums.

A card that accepts a block begins to program it and answers at once; the call returns
on that answer, as `CHECK_PROGRAMMING` is 0 (`Sd2Card.cpp:501`). `job` is what the card
programs, or has programmed last for this call: the blocks from one number to another,
and their data. `fate` is `"busy"` until the card is free again, when the blocks hold
the data (`"done"`) or anything (`"failed"`); a card that falls silent or loses its
power ends its job in one of the two ways as well. Nobody asks which. So
`SuccessMeansDone` says of a write that the card has a job for just that block with just
that data, and that the block holds it unless the programming goes on or has failed: the
most that the driver finds out. An erase is waited for, and its job is over when it
returns. A difference of clock readings is a 16 bit one, as on the AVR boards of this
system; where an `int` has 32 bits, `(uint16_t)millis() - t0` is negative after a wrap
(`Sd2Card.cpp:475`).

### The file library

`BlockCache`, `SdVolume` and `SdBaseFile` translate functions of the library into
operators on a record `x` of everything these functions read or write: the card, the
cached block and its bits, the search start, the file object, and `ok`, which is
FALSE once the code has gone to its label `fail`. `x.left` counts card operations
until one fails, and each operator leaves `x` as the code leaves its variables when
that happens: a call that fails in the middle leaves what it has written. `SdFat` is
the thread: one action for each call, a failure of the card at any operation of it,
and a loss of power, which keeps the card and forgets the rest. A block of the FAT is
a function, a directory block its entries, a data block its bytes. `tree`,
what the program finds on the volume (`TreeOf`), is computed by walking the directories.
The functions are written with `Then` (go on unless the code has gone to `fail`) and
`After` (go on in any case), so that each state between two statements has a name.

A path may lead through a plain file, as `open` does not ask whether the parent is a
directory (`SdBaseFile.cpp:627`; only `mkdir` does, line 452). The bytes of the file are
then taken for entries, `AsEntries`: of each the first byte says whether it is in use,
and no bytes of the programs spell a name that is asked for. An entry made there lies in
the bytes of the file (`AsBytes`), or in a cluster that its size does not count. The
call that makes it is part of every property; after it (`"astray"` in `torn`) the
program makes no further call, as what the volume then means is a matter of bytes. The
part of a last block that lies behind the end of a file is taken to be zeros.

A read of two blocks and more goes to the card with one command, past the cache, and the
test that should flush the cache before it is the wrong way round
(`SdBaseFile.cpp:1124`). `Unwritten` is what only the cache has, by path and place;
`FileSystem` lets such a read, and no other, deliver something else for these bytes.
What the driver reports as written is taken to be on the card: that its programming may fail
is a matter of `Sd2Card`. A read that fails leaves the buffer as it was: without check sums and
with the SPI of these boards nothing fails after the transfer of a block (`SdVolume.cpp:223`).

`FileSystem` knows neither blocks nor clusters: a tree of paths with their bytes, what
each object stands for, how many clusters are free, and what each call may answer.
It says what the library does when it goes wrong, too: after a failure only the
files a call names may have changed.

### Streams, entries, formatter

A file is its bytes, the modes it was opened in and the places that cannot be read; a
stream is its place, its state bits and `writeError`. `IStream` and `OStream` follow the
code character by character; numbers have `Width` bits where the code has 32. A loop of
the code calls `getch` until a character ends it. `Reads(f, s)` numbers the calls from a
stream on, and `Until` is the first of them that ends the loop: `Given` is then what the
loop has read, and the place it puts back is where one of the calls was. An end of line
is one call, of two bytes. `Streams` keeps, besides the file, what the program has put
and got. `DirEntries` has names in 8.3 form, the three dates of an entry and the
recursive `ls`. `Formatter` has the tables of the sketch in full, with the sizes of real
cards, and the four blocks that decide how the card mounts; a write that fails in a step
of several blocks leaves some of them written.

The place a stream returns to is taken to be reached: `getch` ignores the result of its
`seekCur(-1)` (`SdStream.cpp:39`), which can fail only if a block of the FAT that has
been read on the way to this byte cannot be read again. What cannot be read is the same
throughout a run. A file of a card that takes no more writes may be refused at any
`open`, as the cache may hold a block that has to be written first; one that would have
to be truncated is always refused.

### `Tone` and `Watchdog`

The four byte toggle count of a tone is written byte by byte, with the interrupt of
a timer that still sounds between any two writes of `play` and `stop`. The watchdog's
counter has two bytes written in two instructions; `pending` is a match of the
timer whose interrupt has not run yet, `since` a history variable.

## 3. Runs

| Run | Instance | What it shows |
| --- | --- | --- |
| `master_safety` | 2 inputs, a list of 2 or of 1 contacts that changes, 1 reset, reliable wire, disable periods | all safety properties and the refinement under every interleaving of texts, switches and a reset |
| `master_faulty` | 1 input, transfers that fail, wire codes {0, 2}, 1 reset | owners, disabled periods, list and life cycle under I2C faults, with texts for alarms and for I2C |
| `master_liveness` | 1 input, 1 reset, fairness | `ClosedSwitchIsReported`, `OpenSwitchIsCleared` |
| `modem_recovery` | 2 operations in each half of a pass, watchdog of 3, faults of any kind, fairness | `numTimeouts` is bounded; every wait ends; a failed modem makes the board restart; one that works again is recovered from for good and passes texts on |
| `contact_transfer` | 2 contacts of 3 bytes, replies of 2, files with a long line, an unterminated line alone, full or last, and bytes of 0x80 and more, fairness | an accepted list is the file cut at its newlines; every transfer ends; a list of a file that can be loaded is loaded once the wire works |
| `wire` | a message of 2 bytes, requests of 1, 3 and 4 with a buffer of 4, no answer or one of 2 bytes, 2 polls, fairness | `DriverIsFit`: no call finds the driver busy and no store is beyond the buffer, but for one after a request of a full buffer that was given up; a write that succeeds was heard and a read that succeeds is the answer; the slave takes no part of a message for one; every call returns |
| `fat` | FAT16 of 4 clusters of 2 blocks of 3 bytes, 2 objects; a program that writes, one that reads several blocks behind its own writes, one that keeps directories, one that takes plain files for directories, one that renames on a full volume, one on a card that fails at its 1st to 13th operation or loses power | `VolumeIsSound`: chains, free clusters, both FATs and open objects fit after every call; `SyncedSurvives`, `OthersKept`; the refinement of `FileSystem` |
| `card` | 2 blocks of 2 bytes, numbers 1 and 2, a clock that wraps at 4, fairness | the bus is released and the type is right; success means done, as far as the driver asks; only what was asked is programmed; every call returns |
| `board_timers` | 2 tones on 2 pins and 3 timers, bytes of 2 values; a watchdog of 5 with bytes of 8, fairness | tones are as long and as high as asked, leave the pin low and keep to their timer, and end; a hung loop is reset and no other is |
| `sd_tools` | cards of 512 KB to 700 GB; texts, values and fields with numbers of 4 and 12 bits; names of 2+1 characters, two files, trees of directories | a formatted card mounts as an empty volume; texts, numbers, names and dates are read back as they were written; a file open for reading is never changed |
| `claim_restart`, `claim_trusted` | 1 input, or `master_safety`'s instance | each finds the behaviour that breaks one claim (section 5) |

Where the properties of a component are one conjunction (`DriverIsFit`,
`VolumeIsSound`, `TonesAreRight`, `FormatIsRight`, `TextIsTheFile`,
`NumbersAreTheirText`, `EntriesAreKept`), the conjuncts are named and commented in
its module. Type invariants are either part of these or proved (section 4).

**Bounds.** Two inputs are the least for which the scan of the inputs, the
first-open-alarm rule and a claim handled during another input's notification
are distinct; three add no new pair. The list has one contact who is phoned and
one who is not, the latter first, so that the index of a machine and of a
contact differ. `ClockMod` 2 or 3 makes the clock wrap all the time, with
reminder, restart and I2C periods of 1. One reset reaches a restored state and
everything after it; the state before the reset is any reachable one.

In `modem_recovery` two operations let the count step over its limit by a failed
text and a timeout; a watchdog of 3 ticks is longer than a wait that succeeds.
In `contact_transfer` two contacts are enough to run one into the other or to
lose one; three bytes make a line of one, two and too many characters; replies
of two bytes split lines; five replies are two more than a transfer needs.

In `wire` three bytes asked for and a buffer of four are the least in which a first, a
middle and a last byte, and one too many, are distinct; four bytes are the full buffer,
which is what the firmware asks for; two polls let the time-out come before, between and
after any events. In `fat` four clusters make a volume that fills up after two files,
two entries of the FAT per block more than one FAT block, so that the cache moves
between them, and a directory of one block grows to a second; writes of 0, 1 and 7 bytes
end inside a block, at its end and in the next cluster; the reader's 7 bytes are two
whole blocks and a byte, of which any one may be the cached one. No call of the unlucky
program makes more than thirteen card operations, and a failure is followed by a working
or a dead card. `card` has a clock that wraps during each wait, and two blocks whose
numbers are such that a byte address taken for the number of a block is that of the
other; an SD1 card refuses to erase any of their ranges, the other two erase one or
both. In `board_timers` bytes of two values make a count of 16 that carries through all
four. In `sd_tools` the cards lie on both sides of every limit of the sketch's tables;
`ERASE_SIZE` is four times the sketch's, which makes the chain of erasures shorter;
values lie at and beyond the limits of their types, and names are one character too long
for each part. `MaxOps`, `MaxCalls` and the `calls` of `MCPrograms` end the programs;
they are the least that lets an object be opened, changed, and met by another.

**Fairness.** In `MegaMaster`, `WF(Step)`: the processor executes and modem and I2C calls
return (where they do not, the watchdog resets the board, which `Reset`
covers). `SF(SampleInputs)`: `millis()` advances, so a pass comes at which
DEBOUNCE ms are over; the early return cannot be taken for ever.
`SF(TimePasses)`: time passes. `SF(AutoEnable)`: a disabled period ends.
Nothing is assumed of the switches, the senders of texts or resets, which are
bounded by `MaxResets`.

In `ModemRecovery`, `WF(Step)`, `WF(Top)` and `WF(Tick)`: the program runs, a pass
ends and the timer interrupts; `SF(FifteenSecondEvent)`: the event comes every
15 seconds; `WF(Registers)`: a modem that works finds its network. In
`ContactTransfer` `WF(Step)`. In `Wire`, `WF(Program \/ Interrupt \/ StopWaits)`, the
master's processor alone: neither the slave nor the hardware need ever move. In
`Sd2Card`, `WF(Driver)`: the card need not. In `Tone` the program goes on and a
timer that runs matches; in `Watchdog` timer 1 matches and its interrupt
runs. That the modem or the wire works in the end is no
fairness but the premise of the properties that need it.

**Deadlock** is checked in every run but `fat` and `sd_tools`, whose programs end; the
loop of the firmware never does.

## 4. Proofs

`MegaMasterProofs` proves, for any number of inputs, any people, lists, clock
period, intervals, wire codes, hours and number of resets (assumptions
`NumInputsAssumption`, `MasterAssumption`): `TypeCorrect`, `Invariant`, each
safety invariant of `master_safety`, the action property
`ListHeldWhileAnswered`, and `LifecycleCorrect`, that `MegaMaster` implements
`AlarmLifecycle`.

None of the safety properties is inductive. `IInv` adds what the code relies on
without saying so. `Frame` is the place in `loop()` the program is at or will
return to; `CallerFits` ties `caller` to `pc`; `OngoingIsOn` says the last third
of the loop body is for alarms that are on; `ReleaseAhead` that `justReleased`
is set only for inputs whose turn is still to come, so that a sample never
meets an owner whose alarm is off; `PollIsQuiet` that nothing is on while the
slave is asked; `CopyIsFresh` that the copy a notification works with equals
`whoResponded` until the calls are over, as texts are handled after them;
`SlaveBehind` that the slave differs only where an edge is ahead of the scan.
`InvStep` proves preservation action by action; `LifeStep` maps each action to a
step of the life cycle.

`ModemRecoveryProofs` proves type correctness and `TimeoutsBounded` for any
`MaxOps` and timeout. `CountFits` says what each place of a pass may have added
since the last check; the soft reset raises `Base` once, after which the next
check that finds too many resets the board and the count with it.

`ContactTransferProofs` proves type correctness, `ContactsInOrder` and
`ListIsComplete` for any files, reply and buffer sizes. `CutAtLines` is the heart:
the buffer never overflows, every newline received ends a contact, and a contact
that ends elsewhere filled the buffer without one. In a file with no line over
`LineMax` the second kind cannot occur. `TotalFits` bounds the contents, which
the checksum must tell apart, from the count of bytes.

`BoardTimersProofs` proves `NoEarlyReset` for any time-out that fits in a byte. With
`WatchdogInv` the high byte is always 0 and the low byte is the time since it was
last written, so that an interrupt between the two writes sees one of two counts
and never a mixture; that is why the two instructions do no harm.

`WireProofs` proves `DriverIsFit` for messages, answers, requests and buffers of any size.
The invariant counts what a transaction that the program has given up can still store.
`twi_init` sets the hardware to acknowledge, so that the slave sends one byte more than
was asked (`Limit`), and the byte after it is refused; `FirstBytes` says that the one
event that fits between the claim of the driver and the request for a START moves at
most one byte. So nothing is stored beyond the buffer below a full buffer, and after
a request for a full one, as `slaveGetContacts` makes them
(`SlaveCommunicationFunctions.cpp:116,209`), at most one byte, and that only once the program
has given the request up and before its next call (`GivenUpWhenFull`).

The other theorems of `WireProofs`, `SuccessMeansHeard`, `ReadIsTheAnswer` and
`MessageIsWhole`, have an invariant of their own. `BytesInv` is about calls that
found the bus and the slave at rest (`clean`), from the START to the next call, a
time-out in between included. Master and slave learn of a byte from interrupts of
their own, in any order; `HeardFits`, `SlaveHears` and `AnswerFits` say how far each of the
three places where a message lies (the master's buffer up to its index, the bytes
acknowledged or sent, the slave's buffer) may be ahead of the other two, and
`Addressing` that a call makes one START and one address, which says who sends.

`Sd2CardProofs` proves `DriverIsFit`, `SuccessMeansDone` and `OnlyWhatIsWritten` for any
number of blocks, numbers of tries, time-outs and width of the clock (`CardAssumption`:
a time-out fits in the clock). `SuccessMeansDone` is a fact about the end of a call; the
first invariant, `IInv`, follows the call from command to command and rests on one
argument. A card that was not busy when a command came has taken it, and what the
command asks has been done, or has said nothing, and then the driver reads 255 and
fails. The one way to a response that is none is a card busy for longer than
`cardCommand` waits. It deceives no call that goes on to wait for a token or for an
answer to its data, as a card that took no command gives neither, and an erase begins
with such a wait; only `writeStart` believes it, so that just `writeData` is excepted
(`OnTime`). The second invariant, `Remembers`, is about the card: the job stays what a
call made it until the next call makes another, and a job that is done is in its blocks;
only data that is sent, or an erase command, begins one. Of a sequence of blocks the
invariant keeps that the driver's next block is the card's.

It also proves `TonesAreRight` for any pins, frequencies, durations, clocks and width of
a byte (`ToneAssumption`: no timer is listed twice, timer 0 comes last). `Counts` says
that a count is the number of toggles still due once `play` has written its bytes, or
that an interrupt came between two of them and it is `spoilt`; `Tuned` that the
prescaler and the compare register fit the frequency before the interrupt is enabled;
`Owners` that a timer serves the one `Tone` that took it.

`FormatterProofs` proves `FormatIsRight` for every register CSD of a card of up to 1 TB, and
units up to 1024 and 8192 blocks (`FormatterAssumption`). Beyond 1 TB the sketch's 32
bit sums come near their limit, and an SDHC card smaller than four units, which the
standard does not know, would let `dataStart` pass its end; both are excluded because the
model counts in whole numbers. That the widths do not matter below is part of what is
proved: the loop over `dataStart` ends within the card, as the last unit has room for
the layout that starts there (`LayoutExists`, by well-foundedness of the candidates), and
`reservedSectors` fits in 16 bits, as one unit less would not have been enough
(`ReservedFits`). `AcceptedFits` gives the inequalities of a volume that passes the
checks, `MountedIs` that `SdVolume::init` computes the same layout from the boot sector,
`ChsSays` that cylinder, head and sector are the digits of the block number. The invariant
`FormatInv` says what has been written when the sketch comes to each step, and that a
card that was refused, or for which a write failed, has no other record than that of an
accepted volume.

`StreamsProofs` proves `TextIsTheFile` and `FileIsKept` for any texts of characters, settings,
modes, widths, delimiters, buffers and number of statements, in any order
(`ProgramsAssumption` gives the constants their types; a program of insertions separates its
items by a blank or an end of line, and fields by a comma or an end of line, as in the
actions). The invariant is `StreamsInv`. A place in a text file can be one at which no text
begins, between the CR and the LF of an end of line; `AtStart` says that the stream is
never left there, by an extraction or by the place it puts back, unless the LF is in a block
that cannot be read. From there `CharStep` shows that one call of `getch` takes the next
character of the text, `CharsTaken` that n calls take n, and one lemma for each
extraction which of the calls it leaves the stream at. For insertions `EncodedIs` shows
that what is written after the end of a file is read as what was put, also after a CR.
`FieldsKept` says that the fields in a row lie one behind the other and hold the digits of
their values, whose text `FmtNumIs` reads back; `fgets` stops at the first delimiter, which
is the one the field was written with. `FlagsFit` ties the flags of an open file to its mode
(`OpenFlagsAre`), which is all that `FileIsKept` needs: `seekg` and `seekp` do not matter, as
`write` obeys the flags. The recursions of the model are functions of a number; that they have
the values their definitions name follows from one lemma, `Recursion`, which gets
induction from the well-foundedness of finite sets of numbers.

The type correctness of `MegaMaster`, `ModemRecovery`, `ContactTransfer` and `Streams`, and
`ContactsInOrder`, are proved and therefore no longer part of a run.

Only model-checked, and why:

- The liveness properties (`CallsReturn`, `TonesEnd`, `HungLoopsReset`, those of
  `MegaMaster`, `ModemRecovery` and `ContactTransfer`): they rest on fairness and
  `ENABLED`, which the prover does not reason about. The violations of section 5 are
  counterexamples.
- `NumbersAreTheirText`. A number that is read, and one that is written and read back,
  are compared with the value of their digits. `StreamsProofs` has that for the fields
  of a file; for each base, fill, prefix and limit, and for doubles, it is a calculation
  with powers that the provers do not do.
- `EntriesAreKept` (names, dates, `ls`): the listing is a recursion over a tree of
  directories, and its module declares `RECURSIVE` operators, in whose presence the SMT
  backend is not available.
- `VolumeIsSound`, `SyncedSurvives`, `OthersKept` and the refinement of `FileSystem`.
  The parts of `VolumeIsSound` cannot be proved one at a time: the library does not
  check an entry of the FAT against the size of the volume before it uses it, so that
  even which block a write goes to, and with it that the two FATs agree, depends on
  sound chains; and chains are walked, and directories removed, by recursion.

## 5. Claims the code does not keep

| Property | Claim | What the code does |
| --- | --- | --- |
| `RestartOnlyAfterResponse` | `MegaMaster.cpp:322` "If someone has responded but it has been over the allotted time" | `TimeResponded` is never set: any alarm is restarted after two minutes of uptime |
| `ActsOnTrustedMessage` | `GSMFunctions.cpp:98` | the text is read again after a blocking announcement |

Not checked as claims, but visible in the code and, where it says so, in the models:

- Alarms. The announcement of a claim names the contact with the machine's number
  (`ContactManagementFunctions.cpp:205`). `justPressed` set by the restart
  (`MegaMaster.cpp:332`, "start from scratch") is cleared by the next sample. A reset
  between `slaveClearAlarm` and its text loses the text. A disabled period lasts an hour
  longer than asked (`MegaMaster.cpp:258`). `previousState` is LOW at boot, so that the
  first sample of a closed switch counts as the second (`MonitoringFunctions.cpp:43`).
- Texts. A second text of one modem call replaces the first (`GSMFunctions.cpp:175`).
- Diagnostics. `wireFailureResponse` is never reset (`DiagnosticFunctions.cpp:84`), and
  0 in `lastI2CFailNotification` is also a reading of the clock. A second
  `bootGSMShield` does not wait, as `cellStatus` keeps the 4 of the first ("ensure that
  the cell reboots properly", `:44`). `numTimeouts` survives the soft reset, so that the
  hard reset comes without a recurrence (`:57`).
- Contacts. Bytes are bounded, contacts are not: short lines overrun the array. An empty
  file is refused like a failed read. The retry of a failed transfer ("on the next
  loop", `ContactManagementFunctions.cpp:39`) waits until no alarm is on. A last line
  without a newline is hashed but not stored, though "all contacts will be stored"
  (`SlaveCommunicationFunctions.cpp:169,228`): a file of one such line is accepted as a
  list of nobody, for ever. A file with a byte of 0x80 or more is never accepted
  (`:216`). `Loadable` leaves out just these files.
- Wire. "ensure data will fit into buffer" (`twi.c:114`): a time-out at the last byte of
  a full buffer is followed by a store behind it (`:392`, `:403`). `GivenUpWhenFull` is
  that state.
- Card. `writeBlock` returns true before the block is programmed and never learns of a
  failure (`Sd2Card.cpp:488`, `:501`); `writeStart`, and so `writeData` (`:525`),
  believes a card that is busy for too long (`:122`). `SuccessMeansDone` and
  `OnlyWhatIsWritten` name both.
- Files (`SdFat`, with `FileSystem` weakened to allow it). `rename` of a directory on a
  full volume loses it (`SdBaseFile.cpp:1383`, met by the mover program); `mkdir` on a
  full volume leaves a file of that name. A read of several blocks of which one but the
  first is cached and dirty returns old bytes ("flush cache if a block is in the cache",
  `SdBaseFile.cpp:1126`, met by the reader program). A file is opened, and created, in a
  plain file ("Reasons for failure include ... dirFile is not a directory",
  `SdBaseFile.cpp:576`, met by the keeper and the stray program). Two objects on one
  file do not see each other's changes.
- Streams. `setw` loses a character of a text that just fits. A zero with an exponent of
  64 or more, `0e64`, is extracted without an error and is not a number: "check for
  overflow" (`istream.cpp:195`) is never true of a zero, and `pow10` is infinite by
  then. `NumbersAreTheirText` says when this happens. `writeError` outlives the error.
- Formatter. A card that fails between the boot sector and the end of the clearing
  mounts with its old entries; `FormatIsRight` is about formats that report success.
- Tones. `2 * frequency` is computed in 16 bits.

## 6. Plan

Done: 1 `Monitoring`, 2 `MegaMaster`, 3 `AlarmLifecycle` and the refinement, 4
`ModemRecovery`, 5 `ContactTransfer`, with the proofs of their safety; 6 `Watchdog` with
its proof; 7 `Wire` with its proofs; 8 `Sd2Card` with its proof; 9 `BlockCache`,
`SdVolume`, `SdBaseFile`, `SdFat` and the refinement of `FileSystem`; 10 `Tone` and 11
`Formatter`, with their proofs; `Streams` with its proofs, `DirEntries`.

Next, in this order:

12. Theorems about the volume: `VolumeIsSound` as one invariant, with where the cache, the FAT
    and the objects are inside each call, after the chains of `SdVolume` have been
    rewritten without recursion, as those of the streams have been.
13. `Debounce` and `DisablePeriod`: the clocks `MegaMaster` leaves free, with
    their width and wrap-around, and proofs that they implement its free choices.
14. An abstract specification of recovery (`ModemRecovery` as one retried
    operation), of the contact list (a register that is read whole or empty) and of the wire
    (a call that is heard, refused or lost), with the refinements.
15. `Crc32`: `crc_update` against the bitwise definition.

## 7. Not modelled

- Sounds, `freeRam` and the Serial log keep no state; the wording of messages is left
  out; `notifyContactsAlarmStillNotAddressed` is called by nothing. `crc_update` is a
  table look-up; the modules compare the bytes it digests.
- The slave's sketch and the modem library are not in the repository and are modelled
  by what the code in `src/` sees of them.
- The SPI transport moves bytes; `Sd2Card` has one step for each that decides something.
- FAT12 and the root directory of FAT32 are left out of the volume: their other
  differences are the width of an entry. Of the builds, the one that moves several blocks
  at a time (`USE_MULTI_BLOCK_SD_IO`) and has one cache is modelled, not
  `USE_SEPARATE_FAT_CACHE`.
- Streams in memory, the serial stream, `DigitalPin.h`, and the example sketches other
  than the formatter have no state that another part reads.
- Boards of `Tone` with timers other than the three of one type.
