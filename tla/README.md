# A verification model of module_ethercat

`module_ethercat` is a robotkernel module that drives one EtherCAT bus through
libethercat. The robot kernel asks it for a state (boot, init, preop, safeop,
op) from its own thread; trigger devices call it cyclically from theirs to send
and receive frames; services (CANopen, FoE, SERCOS, memory inspection,
key-value) serve clients; and the bus library calls back when a process data
group or a distributed clock frame has arrived. This directory holds TLA+
modules of the parts of it where the order of steps matters, TLC
configurations, and TLAPS proofs.

All line numbers refer to `src/src/`.

## The system

| part | state it keeps | operations | interacts with |
|---|---|---|---|
| master state machine (`master.cpp` 340-1037) | module state, error flag, open device, triggers, own devices | `set_state`, `state_transition`, `open`, `tick`, `send_trigger`, `recv_trigger` | slaves (calls), triggers (callbacks), robot kernel registry, libethercat |
| slave transitions (`slave.cpp` 605-979) | service devices, process data, command flags | `pre_state_transition`, `post_state_transition`, `add_init_cmds` | registry, libethercat |
| bus scan (`master.cpp` 448-645, `group.cpp`) | slave list, groups, sync manager settings | `open` | everything indexed by slave number |
| distributed clock (`master.cpp` 255-311, 833-907, `master.h` 90-135) | timer interval and band, averaging window, convergence counter, cycle times of slaves | start, stop, `recv_dc` | trigger rate, slaves' start, libethercat's controller |
| process data of a slave (`slave.cpp` 798-966, 1110-1125) | buffer, provider or consumer, inspection | creation, removal, `pdin_handler`, `pdout_handler` | state thread against trigger threads |
| stream device (`hw_stream.c`) | receive thread, run flag, two frame buffers | open, close, receive, send | stream of the robot kernel; master, which opens it and polls |
| CANopen service (`slave_canopen_protocol.cpp`) | none of its own; EEPROM contents, the slave's dictionary, objects, emergencies | list, descriptions, read, write, emergencies, `get_pdo_description` | clients, `post_state_transition` |
| memory inspection (`slave_memory_inspection.cpp`) | none of its own; the slave's registers and EEPROM | read, write | clients |
| file and SERCOS services (`slave_file_protocol.cpp`, `slave.cpp` 981-1108) | none of their own; files and identity numbers | read, write | clients |
| start-up commands (`slave.cpp` 605-680) | `already_added` per command, the commands a bus knows | `add_init_cmds`, reset in `pre_state_transition` | libethercat |
| group trigger, key-value, configuration, GUI | see `PROJECT.json` | | |

What is hard here: one switch that falls through nine cases, twice more in
every slave; a device that is closed under running callbacks; flags and lists
that outlive the bus they describe; handles and buffers that two threads share
without a lock; a call that waits for callbacks to make something true; faults
that leave half of a step done; transfers in several accesses while the slave
changes and other clients are served. `PROJECT.json` lists these hazards line by
line.

What makes each part correct:

* master: what it reports is where the bus is; callbacks reach only an open
  device; devices of a state exist in that state; calls return.
* slaves: the way down undoes the way up; every opened bus gets its commands.
* scan: only a configured bus runs; slave numbers used by callbacks exist.
* clock: the rate stays in its band, does not drift over restarts, offsets are
  corrected on evidence of a whole window, slaves run with the cycle of the bus.
* process data: no null handle, nothing half made or left over, frames served.
* stream device: one receive thread per open device and none after, frames
  handed on as read and sent as filled, close returns.
* services: values have the described size; a description covers the image; what
  a client gets is what the slave had during the call; only what a client asked
  for is written.

## Modules

* `SlaveTransition.tla`: the two switches of a slave as sets of (from, to)
  pairs per block. A block runs for the pairs whose label lies at or above it
  and whose break lies below. Used by `Master` and `ProcessData`.
* `Master.tla`: the state thread walks the cases of `set_state`; `block` is the
  case, `step` the position in it (`begin`, `pre`, `bus`, `post`, `finish`,
  `mark`). `Entry`, `Rung`, `Breaks` and `Below` are the labels, the states
  handed to `state_transition`, the breaks and the fall-through. Triggers are
  threads with an entering and a leaving step. `from` is `this->state` on every
  rung, as in the code.
* `StateLadder.tla`: the abstract promise of `set_state` - one rung at a time
  towards the wanted state, which is reported only when reached. `Master`
  implements it (`ImplementsLadder`: `reported` is `state`, `want` is `target`
  during a call).
* `BusScan.tla`: what `open()` makes of a bus that may change between openings.
  `stage` is how far an opening got: it may be refused, throw behind `ec_open`, or
  be accepted and its start fail behind it. `state` then stays init with the bus
  open, and the next start opens it once more, over the cyclic trigger that
  `running` remembers.
* `MovingAverage.tla`, `DcSync.tla`: the averaging template as operators on a
  record, and on it the clock: starts and stops of trigger and slaves, clock
  callbacks. A slave's cycle time is taken from the member that holds the rate,
  which the start sets before the slaves look at it. `window` has the samples
  since the last correction, `completed` the window a correction was just made
  for.
* `ProcessData.tla`: one slave, statement by statement. `todo` is the list of
  statements the state thread still has to execute; each handler checks, loads
  and uses its handle in three steps. The handler of the inputs is called by the
  bus library for a frame, so a switch of the bus can wait for it; the handler of
  the outputs is called by `tick` and `send_trigger` themselves, in any state, and
  nothing waits for it.
* `HwStream.tla`: the state thread with `open()` and `close()` of the device and
  the master's `ec_open` behind it, the receive threads (`test` the flag, `read`,
  `process`), and two trigger callbacks: `Trigger`, which fills and sends a frame
  and may read one, and `Poller`, the `recv_trigger`, which only reads and is never
  released. `OpenAgain` opens the device over itself behind a start that failed.
  `recv_frame` and `send_frame` are shared; `mine` and `filled` remember what a
  thread read and what the library put in.
* `Totals.tla`: sums over sequences, by a recursive function. The window of the
  clock, the bits of a mapping and the fields of an answer are sums.
* `Canopen.tla`: the dictionary from the EEPROM, walked by a client, and
  `get_pdo_description`, one entry per step. `members` are the described
  members with their keys, `stored` the bits collected so far; offsets are totals
  of the bits before. The key of an entry of whole bytes is the name of its object
  or, for padding, its sub index (`EntryKey`).
* `Decoders.tla`: how the answers of a slave are taken apart: the fields of an
  element description and the elements of an identity number. Every step of the
  two cascades adds a place (field, start, length) in the answer; next to them
  stands a definition of where the slave puts the fields (`LayoutOf`). A list has
  its length in bytes in front of it, as the example of `README.wiki:94` has it.
* `SlaveServices.tla`: clients in threads of their own; each access of the bus
  library is a step. `offset` is the position of a transfer in chunks, or the
  length of a list that is read again. `seen` is a history variable: what the
  slave has held since the call began. A mailbox transfer throws (`LibraryFails`),
  or, for a file, may fail without a message and return (`FailSilently`).
* `MasterProofs.tla`, `BusScanProofs.tla`, `DcSyncProofs.tla`,
  `ProcessDataProofs.tla`, `HwStreamProofs.tla`, `CanopenProofs.tla`,
  `SlaveServicesProofs.tla`, `TotalsProofs.tla`: theorems, see below.
* `MC*.tla`: constants for TLC.

`Master` has `open()` and a slave's transition as single steps; `BusScan` and
`ProcessData` refine those two steps with the detail they hide. `Master` also
has "the clock converged" as one action, of which `DcSync` has the counting, and
the device as open or closed, of which `HwStream` has the threads.

### Decisions about code outside `src/`

* robotkernel: the error flag is kept apart from the state, and the transition
  is selected by the state alone; between requests the kernel may clear the
  flag (`clears`, chosen once at the beginning). `release()` of a trigger takes
  the lock its callbacks run under. A process data buffer accepts its provider
  (consumer) only. The registry is a set: adding and removing are guarded by
  handles in the code. A stream read comes back with a frame, without one, or not
  at all.
* libethercat: closing a bus forgets its start-up commands. `ec_set_state`
  reaches the state or, with the fault `al`, leaves the bus where it is. Below
  SAFEOP nothing is exchanged, and the switch down returns when the library's last
  callback is over (`Quiescent`); this says nothing of `pdout_handler`, which the
  library does not call. The clock controller may ask for any
  correction of a small set. An access of a register is one datagram; a mailbox
  transfer is complete or an error, a file transfer perhaps one without a message;
  access to one slave is serialised. The description of a CoE entry may not be
  readable.

Transitions over several slaves are one step in `Master`: the loop runs in one
thread and callbacks see the difference only in a slave's process data, which
`ProcessData` has statement by statement. The faults `pre` and `post` are
exceptions in the blocks that can throw, the start of receiving measurements.

## Runs

| run | what it asks | bounds |
|---|---|---|
| `master` | all properties of the state machine without faults, liveness and the refinement | two slaves, one with every mailbox and both directions, one without mailbox; both triggers; clock |
| `master_all_faults` | what holds on every error path, boot included, errors cleared or not | as above, plus slaves that refuse a state |
| `busscan` | starts on changing buses, failed ones and re-opened buses included | up to 3 slaves, 2 types, 2 configured (one with type, one with settings), 2 groups |
| `dcsync` | starts and stops of trigger and slaves and clock callbacks in any order, both ways to adjust | band 5 %, window of 3, 4 corrections, 4 differences, override or not, divisor 2, slave cycle times given or not |
| `processdata` | both handlers between any two statements | both directions, three identities each |
| `stream` | open, close, receive, send and poll in any order, the device opened twice behind a failed start | two receive threads, two frames, one in the stream at a time (`MaxLine`), one datagram, one opening of an open device (`MaxReopens`) |
| `canopen` | every walk of a dictionary, every description | two PDOs of two entries; two slots of three entries of 4, 8 or 12 bits, named or padding |
| `services` | two clients of one slave that changes, loses datagrams, refuses and fails silently | memories of 4 bytes in chunks of 2; lists of 1 to 4 entries with room for 2; one change or failure; one kind of work at a time; decoding by one client |

Why these bounds are enough: slaves do not act on each other, so two with
different equipment exercise every combination of guards; a bus of three has a
configured slave, an unnamed one in front of and behind the end of a shorter
bus; a window of three wraps and is reset half full; a creation needs two
identities, and a third is all a handler can still hold; a thread left over needs
one identity beside the running one, and an overwritten frame one frame read and
one on its way; 4+12 and 12+12 bits fill bytes, 4 and 12 alone do not,
and one object name is enough for two members of one key. A transfer
of three bytes in chunks of two has a full and a short access, and one change of
the slave falls between them. Memory, EEPROM, calls and decoding share no state,
so clients of `services` do one kind of work per behaviour (`work`); a decoder
works on the answer alone.

`CHECK_DEADLOCK FALSE` is set for the fault run of `Master`, where after a
failed start-up the call waits for a clock that nothing drives, and for
`canopen`, whose calls end.

Statements of the repository the code does not keep, each shown by a run that
must be violated:

* `boot_closed` - boot requested from preop, safeop or op returns boot with the
  bus closed (`master.cpp:781`; comment "re-/open ethercat device").
* `recv_trigger_kept` - the receive trigger still calls into the closed device
  (`master.cpp:770`, `1032`).
* `soe_commands_once` - SERCOS start-up commands are installed on the first
  start only (`slave.cpp:681`; `README.wiki:87`).
* `reopen_refused` - a second start may be refused for a slave that nobody
  configured (`slave.cpp:242`, `master.cpp:469`; `README.wiki:54`).

Three more were met that have no run of their own; the models reach all of them,
and the properties except them by name (next section): a bus that `open()` calls
fatal is worked with where the start before left the trigger acquired
(`master.cpp:511`, `812`); popping an emergency message where there is none returns
normally (`slave_canopen_protocol.cpp:498`, comment at `slave.h:200`); the length
in bytes of a list of SERCOS values is taken for a count (`slave.cpp:1027`,
`README.wiki:94`).

### Properties that hold only within named limits

* `ReportedIsReached`, `OpensClosedDevice`, `DevicesOfState` and `OutputsBound`
  are checked without faults. With `al` the reported state is not the bus's, since
  the result of `ec_set_state` is dropped (`master.cpp:697`); with `post` a slave
  runs OP with part of its process data (`slave.cpp:907`); with `open` an open
  device is opened again. What holds with some faults is in the theorems below.
* `CoeCommandsInstalled` is about commands that have data. A command given as a
  value whose description cannot be read, or that converts to no bytes, is left out
  of the start without an error (`slave.cpp:610-626`); no comment or document
  promises otherwise, so no property does.
* No property says that a later start waits for its own clock: `diff_converged` is
  never cleared (`master.cpp:298`).
* `TickOnOpenDevice` excepts a kernel that clears errors together with requests
  for boot: a start that failed leaves the trigger acquired, and the way to boot
  closes the device under it.
* The invariants of `BusScan` are about a bus that `open()` accepted. Over one it
  refused the callback may run as well, when a start before it acquired the trigger
  and failed: groups that were not cut down then meet what may be a shorter bus.
* `IntervalOfTrigger` and `SlaveCycleIsBusCycle` need `EarlyCallback = FALSE`: no
  clock callback between acquiring the trigger (830) and setting the start timer
  (848). `PeriodInBand` does not keep the period from being 0 where the band starts
  there (268), and sees neither the rate a divided trigger is left with (269) nor
  the sign of the differences that count as converged (291).
* `NeverNull` and `RefusedInCallsOnly` are about the inputs. `pdout_handler` reads
  its handle twice as well, `tick()` calls it without a lock
  (`master.cpp:982-988`), and a call preempted behind the check can find the device
  removed: this race is in the model and not excluded by anything in the code.
* `WholeWhenIdle`, `NeverNull` and `RefusedInCallsOnly` are checked for every
  request except init to op and preop to op, each of which creates process data
  twice and leaves an inspection of the first buffer registered (`slave.cpp:900`).
* `ReceiverOwned` and `FrameKept` hold until `open()` finds the device open. A start
  that failed behind an opened device leaves it open (`master.cpp:452`, `812`), and
  the next one adds a second thread on the same buffer. `FrameKept` also excepts
  callbacks that poll beside the receive thread.
* `CloseReturns` says that a closing master gets its device closed, or the thread
  it waits for sits in its read for ever: only the stream could end that one.
* `MembersInPlace`: where the mapping gives two entries one key (an object mapped
  twice, padding of one sub index in two PDOs) the second member replaces the first,
  and nothing is said of them; offsets are compared for mappings whose bit entries
  fill whole bytes, since in others the description rounds up and later members
  move.
* `SizeAsDescribed` excepts a device without a name, which is described with
  seven bytes and read with none.
* `MemoryTransferred` excepts lost datagrams, which the service does not report.
  It and `OnlyAskedWritten` are about EEPROM addresses that mean the same in both
  directions: a read halves the address, a write does not
  (`slave_memory_inspection.cpp`).
* `IdnDecoded` excepts a read of the minimum or the maximum alone, which ends in
  the member of the other one, and requests for the value or a limit where it is a
  list of values of more than a byte: the decoder reads beyond its end there.
* `AnswerOfSlave` lets a read that brings no bytes, of an object or a file, leave
  the caller's value, an emergency message the caller reuses grow, and one stay where
  the queue is empty. Of a file
  transfer that fails without a message it says nothing: the service drops the
  result and returns (`slave_file_protocol.cpp:59-79`, `104-118`).

### Fairness

`EveryCallReturns` is checked under `ConvergingSpec`: the state thread is
scheduled (strong fairness, since `release()` waits for a lock that callbacks
take again and again, and the kernel's locks do not starve), callbacks return
(weak fairness), and the clock converges in the end. The last one is an
assumption about the controller and the hardware: without it the loop at
`master.cpp:911` does not end, and with the fault `al` nothing makes it end.
`ExchangeServed` is checked under `LiveSpec` of `ProcessData`: the same for the
state thread, which waits for the input handler before a switch down; handlers
return, and frames keep arriving while the bus exchanges them. It says that every
call ends and that a bus left in SAFEOP or OP is served. `CloseReturns` and
`FramesTaken` are checked under `LiveSpec` of `HwStream`: the state thread runs
(strong fairness: the trigger callback may hold it off at `release()`), the receive
threads go round their loop, a read takes a frame that is there, and a started
callback goes on. No fairness is put on a read without a frame, on frames that
arrive or on requests.
All other properties need no fairness.

## Proofs

All of them are for every value of the constants that the named assumptions
allow, where TLC has the instances above. Each module names one assumption about
its constants (`MasterAssumption`, `DcSyncAssumption`, `ServicesAssumption` and
`RequestsAssumption`, ...): their types, and what the configuration guarantees.
TLC evaluates these in the runs. What a theorem assumes beyond them stands in its
`ASSUME`. Every invariant and action property a passing run checks is the
statement of a theorem; liveness is not.

| theorem | property | assumed beyond the module's assumption |
|---|---|---|
| `TypeCorrect`, `TickSafe`, `BootLeavesServices` | `TypeOK`, `TickOnOpenDevice`, `BootServicesOnly` | nothing |
| `ReportedReached`, `DeviceUsedWhenOpen` | `ReportedIsReached`, `OpensClosedDevice` | no boot, no faults |
| `LadderImplemented` | `ImplementsLadder` | no boot, no refused bus state |
| `DevicesMatchState`, `CoeCommandsReachBus` | `DevicesOfState`, `CoeCommandsInstalled` | no boot; errors cleared only where no slave throws (`Calm`) |
| `OutputsNeedDevices` | `OutputsBound` | the same, faults `open` and `pre` only |
| `GroupSlavesExist`, `SameGroups`, `ConfiguredBusRuns`, `ListIsBus`, `UserSettingsReach` | the invariants of `BusScan` | nothing |
| `BandKept`, `ConvergenceCounted`, `SumIsOfWindow`, `CorrectionFromWindow` | `PeriodInBand`, `ConvergedByCallbacks`, `WindowSummed`, `CorrectionJustified` | nothing |
| `CycleOfTrigger`, `SlavesFollow` | `IntervalOfTrigger`, `SlaveCycleIsBusCycle` | no callback before the start timer is set |
| `MadeAndRemovedWhole` | `WholeWhenIdle` | no request that creates twice |
| `HandlesNotNull`, `RefusalsDuringCalls` | `NeverNull`, `RefusedInCallsOnly` | the same, and `Quiescent` |
| `OneReceiver`, `FrameUntouched`, `NothingLeftOver` | `ReceiverOwned`, `FrameKept`, `SentWhole` | nothing; what the first two except stands in the properties |
| `SizesDescribed`, `CoversImage`, `PlacedInImage` | `SizeAsDescribed`, `ImageCovered`, `MembersInPlace` | nothing |
| `BytesArrive`, `MemoryChangedByWriters`, `AnswersAreHeld`, `DescriptionsDecoded`, `IdnsDecoded` | `MemoryTransferred`, `OnlyAskedWritten`, `AnswerOfSlave`, `DescriptionDecoded`, `IdnDecoded` | nothing |

The assumptions are the limits above: without them the code does not keep the
property.

### `MasterProofs.tla`, for every set of slaves with any equipment

* `TickSafe`: `TickOnOpenDevice` is not inductive, it says nothing of the
  trigger. `TriggerInv` adds that the callback runs only with the trigger
  acquired, that the trigger is acquired only with the device open, and that
  `deinit` gives it back before it goes on. One case closes the device without
  giving the trigger back, `leave_boot`. Either boot is never requested
  (`CyclicRequests`: which requests a case can be entered with), or errors are
  never cleared, and then the trigger is never acquired in boot:
  `BootRequests` says that a call from boot throws nothing, and that INIT has
  the trigger only behind a start that failed, whose error keeps the module out
  of boot for good. `TickInv` is the conjunction; its three parts hold under
  three conditions on `clears` and `Requests`.
* `ReportedReached`, `DeviceUsedWhenOpen`: from `LadderInv`.
  Its part `PositionInv` says, for each case and position, where the bus is
  (`BusBefore`, `Rung`) and whether the device is open; `UpwardRequests` which
  targets a case can have. `EntryPosition` and `AfterPosition` show that a label,
  and a fall-through, enter a case with the bus where the case expects it. These
  are facts about the switch alone.
* `LadderImplemented`: the initial states map to initial states, and each step to
  a rung, a report, a failure or a stutter, also with slaves that throw and a
  device that does not open. `HeightInv` compares the bus with the height of the
  case on the ladder, which is what makes a rung lead towards the wanted state
  also behind a start that failed half way.
* `DevicesMatchState`, `CoeCommandsReachBus`, `OutputsNeedDevices`: `Level` is the
  state whose devices are registered at each position, `OriginInv` which state a
  call can have started from in each case (needed because every rung compares
  with the state before the call). `DevsInv` says that without error every
  device is that of the level, and that an error that can be cleared has left
  none; `CoeInv` that a set `already_added` flag means a command the open bus
  knows; `OpInv` where the state thread can be while the bus is in OP.
* `BootLeavesServices`: `BootInv` is the weaker upper bound on the devices that
  survives the paths through boot.

### `BusScanProofs.tla`, for any bus size, types, configuration and grouping

From the invariant `IInv`, the conjunction of `Shape` (the list has the shape of a
bus), `ConfigurationKept` (entries of configured slaves are never lost), `Scanned`
(on an accepted bus the list, the groups and the assignment are those of the slaves
scanned last) and `SettingsApplied`. `OpenMatches` is the one long step; failed,
closed and re-opened buses keep the configuration part only.

### `DcSyncProofs.tla`, for every period, deviation, divisor and window

* `BandKept`: from `BandInv`, which adds that limits and timer are set together;
  clamping stays in the band even from a sum that wrapped.
* `CycleOfTrigger` and `SlavesFollow`: `CycleInv` says that no callback changes
  the period before the first start has fixed the interval, `SlaveInv` that
  slaves without a cycle time are given the interval.
* `ConvergenceCounted`: from `CountInv`: the counter gains at most ten for each
  callback below the margin.
* `SumIsOfWindow` and `CorrectionFromWindow`: `RingInv` relates the ring buffer to
  the sequence of samples (the i-th sample of the window stands `count - i + 1`
  places behind the position), so that the value subtracted from the running sum
  is the one that falls out of the window. A corrected average beyond the threshold
  needs a sample beyond it in the window that was completed.

### `ProcessDataProofs.tla`, for any directions, identities and requests

The state thread's future is the sequence `todo`, so the proofs are about what a
sequence of statements still leads to.

* `HandlesNotNull`: `NullInv` says that the handle of the inputs is cleared below
  SAFEOP only, where the switch has waited for the library's callback, and that the
  handler past its check has a handle. That the device is still there needs
  `HeldInv` below and that nothing is created twice.
* `MadeAndRemovedWhole`: each direction is at one of the stages between "gone" and
  "whole" (`InStage` says what is set and registered in each), and the statements
  that remain lead from the stage it is in to that of the target (`Leads`). Each
  statement moves one direction one stage, and takes one statement away.
  It needs nothing of the handlers.
* `RefusalsDuringCalls`: both, and `HeldInv`: the handler of the inputs, once it has
  loaded a handle, has the one that is there. `InputsInv` is the conjunction.

### `HwStreamProofs.tla`, for any number of threads, frames and datagrams

* `OneReceiver`, from `OwnerInv`: which threads may exist for each position of
  the state thread, as long as no `open()` has found the device open.
  `FrameUntouched` adds `FrameInv` on top of it.
  `NothingLeftOver` is inductive with the types.

### `TotalsProofs.tla` and `CanopenProofs.tla`, for sequences of any length

The library's induction theorems take an operator as a parameter and cannot be
used. Totals and offsets are therefore proved by the least counterexample
(`LeastElement`, from the well-foundedness of the naturals): the recursion
equation of `Running`, the total of a sequence that is extended at its end or
shortened at its front, and its bounds.

* `SizesDescribed`: an action property that follows from the type of the
  contents.
* `CoversImage`: `GenInv` has the types and the position of the generator,
  `CoverInv` says that what is described and what is collected together reach the
  place in the image where the generator is. Rounding only adds.
* `PlacedInImage`: `NamesInv` counts the combined members, `KeysInv` says from which
  entries, already passed, the keys of the others come, `PlaceInv` has equality
  instead of coverage, for mappings whose bits fill bytes: there is nothing to
  round. It is stated over parameters (`PlaceOf`), as a fact about the
  generator's variables before and after a step.

### `SlaveServicesProofs.tla`, for any number of clients and any sizes

* `BytesArrive`, `MemoryChangedByWriters`, `AnswersAreHeld`: from `ServiceInv`. For
  each client `ClientInv` says that what the slave has now is among what it has
  `seen` since the call began, that the bytes read so far were seen at their
  addresses, that the bytes written so far were seen there, and that the variable
  of a call not yet answered has the caller's contents. A step of another client or of the slave
  only adds to `seen`.
* `DescriptionsDecoded` and `IdnsDecoded`: `Decoded` says that a returned value is
  what the cascade makes of the answer; the rest are lemmas about the cascades.
  `CompleteDecoded` and `DecodedWithin` follow the description field by field:
  the place of a field is the total of the sizes before it, in an answer that has
  them all, and an answer that ends early is not read beyond its end.
  `HeaderFound`, `ElementTaken`, `IdnPlaced` and `IdnFits` do the same for the
  elements of an identity number, for every attribute the caller passes in: each
  element moves the decoder by the bytes it has, unless it is a list of values of
  more than a byte.

### Model-checked only

* Liveness, which needs ENABLED: `EveryCallReturns`, `ExchangeServed`,
  `CloseReturns`, `FramesTaken`.
* The four statements that do not hold; their runs are counterexamples.
* What the assumptions of the theorems exclude holds in part (after requests for
  boot, for example, the reported state is often the bus's). No property claims
  it, and no run checks it.

## Not modelled

The key-value service (copies of register values under string keys); parsing and
writing of the configuration, whose result enters as constants; the mailbox half
of `get_object_description` and `sercos_write_idn`, which hand one call to
libethercat; the bytes a start-up command's value is converted to; rates of groups and
`do_trigger` of a group, with the rate that `master.cpp:899` reads from a member
a local variable hides (834); EoE and the tun device; logging; the GUI. Group
numbers other than 0..n-1, which leave null entries in the array of groups
(`master.cpp:516`), are outside `BusScan`.

## Plan

1. Done: the master state machine with its slaves and the ladder it implements,
   the scan, the clock with the slaves' cycle times, process data, the stream
   device, the services, and the theorems above.
2. The start-up commands one by one: their order and their bytes (`slave.cpp`
   605-650).
3. Rates and `do_trigger` of groups; group numbers as the configuration has them.
4. Proofs: `Master`'s step `open()` as an abstraction of `BusScan`, and its
   transition of a slave as one of `ProcessData`; "the clock converges" as one of
   `DcSync`.

## Running

    tlc -config MCMaster.cfg MCMaster
    tlapm MasterProofs.tla

Definitions whose names extend that of another one and whose comment begins
with "Mutant:" are faulty versions of it. `PROJECT.json` says which property
notices each of them; no specification uses them.
