---------------------------- MODULE MasterProofs ----------------------------
(***************************************************************************)
(* Proofs about Master, for every set of slaves, every configuration and,  *)
(* where nothing else is said, every combination of faults.                *)
(***************************************************************************)
EXTENDS Master, Naturals, TLAPS

-----------------------------------------------------------------------------
(* Type correctness.                                                       *)

LEMMA RungType ==
    ASSUME NEW b \in Blocks
    PROVE  Rung[b] \in ModuleState
BY DEF Blocks, Rung, ModuleState

LEMMA EntryType ==
    ASSUME NEW from, NEW to
    PROVE  Entry(from, to) \in Blocks \union {"return"}
BY DEF Entry, Blocks

LEMMA AfterType ==
    ASSUME NEW b \in Blocks
    PROVE  After(b) \in Blocks \union {"return"}
BY DEF After, Breaks, Below, Blocks

(* A slave's handlers register only devices of its own and hand over only  *)
(* configured kinds of command.                                            *)
LEMMA PostTransitionType ==
    ASSUME NEW d \in SUBSET SlaveDevs, NEW from, NEW to,
           NEW mailbox \in SUBSET MailboxDevs, NEW pd \in SUBSET ProcessDataDevs
    PROVE  /\ PostTransition(d, from, to, mailbox, pd) \in SUBSET SlaveDevs
           /\ PostTransitionThrown(d, from, to, mailbox, pd) \in SUBSET SlaveDevs
<1>1. Added(from, to, mailbox, pd) \in SUBSET SlaveDevs
  BY DEF Added, SlaveDevs, ServiceDevs, EepromDevs, MailboxDevs
<1> QED
  BY <1>1 DEF PostTransition, PostTransitionThrown

(* What add_init_cmds does to the slaves of one transition. *)
LEMMA PreEffect ==
    ASSUME TypeOK, TransitionPre
    PROVE  \E handed \in [Slaves -> SUBSET CmdKinds] :
             /\ data' \in [Slaves -> SUBSET CmdKinds]
             /\ added' = [s \in Slaves |->
                    PreFlags(added[s], state, Rung[block]) \union handed[s]]
             /\ cmds' = [s \in Slaves |-> cmds[s] \union handed[s]]
             /\ ~StartsReceiving(state, Rung[block]) =>
                    data' = data /\ \A s \in Slaves : handed[s] = {}
             /\ StartsReceiving(state, Rung[block]) /\ ~err' =>
                    \A s \in Slaves : handed[s] =
                        data'[s] \ PreFlags(added[s], state, Rung[block])
<1> DEFINE starts   == StartsReceiving(state, Rung[block])
           flags(s) == PreFlags(added[s], state, Rung[block])
<1> PICK Failed \in SUBSET Slaves, Partly \in SUBSET Slaves,
         Described \in SUBSET Slaves :
      LET ready(s)  == IF s \notin Failed THEN data'[s]
                       ELSE IF s \in Partly THEN data[s] \intersect CoeKinds
                       ELSE {}
          handed(s) == IF starts THEN NewCmds(ready(s), flags(s)) ELSE {}
      IN  /\ err' = (err \/ Failed # {})
          /\ data' = [s \in Slaves |->
                 WithData(InitCmds[s], data[s], starts /\ s \in Described)]
          /\ added' = [s \in Slaves |-> flags(s) \union handed(s)]
          /\ cmds' = [s \in Slaves |-> cmds[s] \union handed(s)]
  BY DEF TransitionPre
<1> DEFINE ready(s) == IF s \notin Failed THEN data'[s]
                       ELSE IF s \in Partly THEN data[s] \intersect CoeKinds
                       ELSE {}
           handed == [s \in Slaves |->
                         IF starts THEN NewCmds(ready(s), flags(s)) ELSE {}]
<1>1. data' \in [Slaves -> SUBSET CmdKinds]
  BY MasterAssumption DEF TypeOK, WithData
<1>2. \A s \in Slaves : ready(s) \in SUBSET CmdKinds
  BY <1>1 DEF TypeOK
<1> HIDE DEF ready
<1>3. handed \in [Slaves -> SUBSET CmdKinds]
  BY <1>2 DEF NewCmds
<1>4. ~starts => data' = data /\ \A s \in Slaves : handed[s] = {}
  BY DEF TypeOK, WithData
<1>5. starts /\ ~err' => \A s \in Slaves : handed[s] = data'[s] \ flags(s)
  BY DEF NewCmds, ready
<1>6. /\ added' = [s \in Slaves |-> flags(s) \union handed[s]]
      /\ cmds' = [s \in Slaves |-> cmds[s] \union handed[s]]
  BY DEF ready
<1> HIDE DEF handed
<1> WITNESS handed \in [Slaves -> SUBSET CmdKinds]
<1> QED
  BY <1>1, <1>4, <1>5, <1>6

LEMMA TypeInit == ASSUME Init PROVE TypeOK
BY MasterAssumption DEF Init, TypeOK, ModuleState, CmdKinds, CoeKinds

LEMMA TypeStep == ASSUME TypeOK, [Next]_vars PROVE TypeOK'
<1> USE MasterAssumption DEF TypeOK
<1>1. CASE UNCHANGED vars
  BY <1>1 DEF vars, control, device, slaves, triggers, threads, world
<1>2. ASSUME NEW to \in Requests, Call(to) PROVE TypeOK'
  BY <1>2, EntryType DEF Call, device, slaves, triggers, threads, world
<1>3. CASE Return
  BY <1>3 DEF Return, Reported, device, slaves, triggers, threads, world
<1>4. CASE ClearError
  BY <1>4 DEF ClearError, control, device, slaves, triggers, threads, world
<1>5. CASE BeginPlain \/ BeginDeinit
  BY <1>5 DEF BeginPlain, BeginDeinit, At, GotoStep, Release, device, slaves,
              triggers, threads, world
<1>6. CASE BeginStopRecv \/ BeginStartRecv
  BY <1>6 DEF BeginStopRecv, BeginStartRecv, At, GotoStep, MasterDevs, device,
              slaves, triggers, threads, world
<1>7. CASE OpenSucceeds
  <2>1. cmds' \in [Slaves -> SUBSET CmdKinds]
    BY <1>7 DEF OpenSucceeds, FreshBus
  <2> QED
    BY <1>7, <2>1 DEF OpenSucceeds, FreshBus, GotoStep, MasterDevs, ModuleState,
                      triggers, threads, world
<1>8. CASE OpenFails \/ OpenBootFails
  <2>1. cmds' \in [Slaves -> SUBSET CmdKinds]
    BY <1>8 DEF OpenFails, OpenBootFails, OpenAborted, FreshBus
  <2>2. /\ hw' \in BOOLEAN /\ ec_opened' \in BOOLEAN
        /\ bus' \in ModuleState
    BY <1>8 DEF OpenFails, OpenBootFails, OpenAborted, FreshBus, device,
                ModuleState, world
  <2> QED
    BY <1>8, <2>1, <2>2 DEF OpenFails, OpenBootFails, At, GotoStep, triggers,
                            threads, world
<1>9. CASE TransitionPre
  <2>1. PICK handed \in [Slaves -> SUBSET CmdKinds] :
          /\ data' \in [Slaves -> SUBSET CmdKinds]
          /\ added' = [s \in Slaves |->
                 PreFlags(added[s], state, Rung[block]) \union handed[s]]
          /\ cmds' = [s \in Slaves |-> cmds[s] \union handed[s]]
    BY <1>9, PreEffect
  <2>2. added' \in [Slaves -> SUBSET CmdKinds]
    BY <2>1 DEF PreFlags
  <2>3. cmds' \in [Slaves -> SUBSET CmdKinds]
    BY <2>1
  <2>4. err' \in BOOLEAN
    BY <1>9 DEF TransitionPre
  <2> QED
    BY <1>9, <2>1, <2>2, <2>3, <2>4 DEF TransitionPre, GotoStep, device, triggers,
                                       threads, world
<1>10. CASE SetBus
  BY <1>10, RungType DEF SetBus, SwitchBus, GotoStep, device, slaves, triggers,
                         threads, world
<1>11. CASE SkipOnError
  BY <1>11 DEF SkipOnError, GotoStep, device, slaves, triggers, threads, world
<1>12. CASE TransitionPost
  <2> PICK Failed \in SUBSET Slaves, made \in SUBSET ProcessDataDevs :
        LET rung == Rung[block]
        IN  /\ err' = (err \/ Failed # {})
            /\ devs' = [s \in Slaves |->
                 IF s \in Failed
                 THEN PostTransitionThrown(devs[s], state, rung, Mailbox[s], made)
                 ELSE PostTransition(devs[s], state, rung, Mailbox[s],
                                     ProcessData[s])]
    BY <1>12 DEF TransitionPost
  <2>1. devs' \in [Slaves -> SUBSET SlaveDevs]
    BY PostTransitionType
  <2> QED
    BY <1>12, <2>1 DEF TransitionPost, GotoStep, device, triggers, threads, world
<1>13. CASE FinishPlain \/ MarkClosed
  BY <1>13, AfterType DEF FinishPlain, MarkClosed, EnterBlock, Blocks, device,
                          slaves, triggers, threads, world
<1>14. CASE CloseDevice
  BY <1>14 DEF CloseDevice, Close, GotoStep, slaves, triggers, threads, world
<1>15. CASE FinishOpen
  BY <1>15, AfterType DEF FinishOpen, Acquire, At, EnterBlock, Blocks, device,
                          slaves, threads, world
<1>16. CASE FinishStartRecv
  BY <1>16, AfterType DEF FinishStartRecv, At, EnterBlock, Blocks, MasterDevs,
                          device, slaves, triggers, threads, world
<1>17. CASE TickEnter \/ TickExit \/ RecvEnter \/ RecvExit
  BY <1>17 DEF TickEnter, TickExit, RecvEnter, RecvExit, control, device, slaves,
               triggers, world
<1>18. CASE ClockConverges
  BY <1>18 DEF ClockConverges, control, device, slaves, triggers, threads
<1> QED
  BY <1>1, <1>2, <1>3, <1>4, <1>5, <1>6, <1>7, <1>8, <1>9, <1>10, <1>11, <1>12,
     <1>13, <1>14, <1>15, <1>16, <1>17, <1>18 DEF Next, StateThread

(* Every variable keeps its type in every behaviour, whatever fails: no    *)
(* path through the switch of set_state (master.cpp:722-974) leaves it.    *)
THEOREM TypeCorrect == Spec => []TypeOK
<1>1. Init => TypeOK
  BY TypeInit
<1>2. TypeOK /\ [Next]_vars => TypeOK'
  BY TypeStep
<1> QED
  BY <1>1, <1>2, PTL DEF Spec

-----------------------------------------------------------------------------
(* The cyclic callback and the network device.                             *)

(* Without requests for boot a call that reaches deinit wants INIT, so the *)
(* case below deinit, which opens the device again, is never entered with  *)
(* the trigger in a state of its own.                                      *)
CyclicRequests ==
    /\ state # "boot" /\ target # "boot"
    /\ block \notin {"open_boot", "leave_boot"}
    /\ block = "stop_recv" => target \in {"preop", "init"}
    /\ block = "stop_send" => target \in {"safeop", "preop", "init"}
    /\ block = "deinit" => target = "init"

(* The callback runs only while the trigger is acquired, the trigger is    *)
(* acquired only while the device is open, and deinit gives it back first. *)
TriggerInv ==
    /\ tick = "in" => trg
    /\ trg => hw /\ ec_opened
    /\ block = "deinit" /\ step # "begin" => ~trg
    /\ block = "open" /\ step # "begin" /\ ~err => hw /\ ec_opened

(* With requests for boot, and a kernel that leaves errors as they are: a  *)
(* call from boot throws nothing and closes the device without a trigger,  *)
(* and INIT has the trigger only behind a start that failed.  The error of *)
(* that start stays, and with it INIT: this device is never closed as one  *)
(* opened for boot.                                                        *)
BootRequests ==
    /\ block = "stop_send" => target # "op"
    /\ block = "stop_recv" => target \in {"preop", "init", "boot"}
    /\ block = "deinit" => target \in {"init", "boot"}
    /\ block \in {"open", "start_recv", "start_send"} =>
           target \in {"preop", "safeop", "op"}
    /\ block = "leave_boot" => state = "boot"
    /\ state = "boot" =>
           ~err /\ ~trg /\ block \in {"idle", "return", "leave_boot"}
    /\ block = "open_boot" /\ ~err => ~trg
    /\ block = "idle" /\ ~err /\ state = "init" => ~trg
    /\ block = "return" /\ ~err /\ target \in {"init", "boot"} => ~trg

(* Under either restriction on the requests the trigger is safe. *)
TickInv ==
    /\ TypeOK
    /\ "boot" \notin Requests => CyclicRequests
    /\ ~clears => BootRequests
    /\ ~(clears /\ "boot" \in Requests) => TriggerInv

LEMMA CyclicStep ==
    ASSUME TypeOK, CyclicRequests, [Next]_vars, "boot" \notin Requests
    PROVE  CyclicRequests'
<1> USE DEF CyclicRequests
<1>1. CASE UNCHANGED vars
  BY <1>1 DEF vars, control
<1>2. ASSUME NEW to \in Requests, Call(to) PROVE CyclicRequests'
  <2>1. to \in ModuleState \ {"boot"} /\ state \in ModuleState \ {"boot"}
    BY <1>2, MasterAssumption DEF TypeOK
  <2>2. state' = state /\ target' = to /\ block' = Entry(state, to)
    BY <1>2 DEF Call
  <2> QED
    BY <2>1, <2>2 DEF Entry, ModuleState
<1>3. CASE Return
  BY <1>3 DEF Return, Reported
<1>4. CASE \/ ClearError \/ TickEnter \/ TickExit \/ RecvEnter \/ RecvExit
           \/ ClockConverges
  BY <1>4 DEF ClearError, TickEnter, TickExit, RecvEnter, RecvExit,
              ClockConverges, control
<1>5. CASE \/ BeginPlain \/ BeginStopRecv \/ BeginDeinit \/ BeginStartRecv
           \/ OpenSucceeds \/ OpenFails \/ TransitionPre \/ SetBus
           \/ SkipOnError \/ TransitionPost \/ CloseDevice
  BY <1>5 DEF BeginPlain, BeginStopRecv, BeginDeinit, BeginStartRecv,
              OpenSucceeds, OpenFails, TransitionPre, SetBus, SkipOnError,
              TransitionPost, CloseDevice, GotoStep
<1>6. CASE OpenBootFails
  BY <1>6 DEF OpenBootFails, At
<1>7. CASE FinishPlain \/ MarkClosed \/ FinishOpen \/ FinishStartRecv
  <2>1. /\ block' = After(block) /\ state' = state /\ target' = target
        /\ block \in {"stop_send", "stop_recv", "start_send", "deinit", "open",
                      "start_recv"}
    BY <1>7 DEF FinishPlain, MarkClosed, FinishOpen, FinishStartRecv, EnterBlock,
                At
  <2> QED
    BY <2>1 DEF After, Breaks, Below, TypeOK, ModuleState
<1> QED
  BY <1>1, <1>2, <1>3, <1>4, <1>5, <1>6, <1>7 DEF Next, StateThread

(* The kernel's choice to clear errors is made once. *)
LEMMA ClearsKept ==
    ASSUME [Next]_vars PROVE clears' = clears
BY DEF Next, StateThread, Call, Return, ClearError, BeginPlain, BeginStopRecv,
       BeginDeinit, BeginStartRecv, OpenSucceeds, OpenFails, OpenBootFails,
       TransitionPre, SetBus, SkipOnError, TransitionPost, FinishPlain,
       CloseDevice, MarkClosed, FinishOpen, FinishStartRecv, TickEnter, TickExit,
       RecvEnter, RecvExit, ClockConverges, vars, world

LEMMA BootRequestsStep ==
    ASSUME TypeOK, BootRequests, TriggerInv, [Next]_vars, ~clears
    PROVE  BootRequests'
<1> USE DEF BootRequests
<1>0. block = "deinit" /\ step = "mark" => ~trg
  BY DEF TriggerInv
<1>1. CASE UNCHANGED vars
  BY <1>1 DEF vars, control, triggers
<1>2. ASSUME NEW to \in Requests, Call(to) PROVE BootRequests'
  <2>1. to \in ModuleState /\ state \in ModuleState /\ block = "idle"
    BY <1>2, MasterAssumption DEF TypeOK, Call
  <2>2. /\ state' = state /\ target' = to /\ block' = Entry(state, to)
        /\ err' = err /\ trg' = trg
    BY <1>2 DEF Call, triggers
  <2> QED
    BY <2>1, <2>2 DEF Entry, ModuleState
<1>3. CASE Return
  BY <1>3 DEF Return, Reported, triggers
<1>4. CASE ClearError
  BY <1>4 DEF ClearError
<1>5. CASE TickEnter \/ TickExit \/ RecvEnter \/ RecvExit \/ ClockConverges
  BY <1>5 DEF TickEnter, TickExit, RecvEnter, RecvExit, ClockConverges, control,
              triggers
<1>6. CASE \/ BeginPlain \/ BeginStopRecv \/ BeginStartRecv \/ OpenSucceeds
           \/ SetBus \/ SkipOnError \/ CloseDevice
  BY <1>6 DEF BeginPlain, BeginStopRecv, BeginStartRecv, OpenSucceeds, SetBus,
              SkipOnError, CloseDevice, GotoStep, triggers
<1>7. CASE BeginDeinit
  BY <1>7 DEF BeginDeinit, Release, At, GotoStep
<1>8. CASE OpenFails
  BY <1>8 DEF OpenFails, At, GotoStep, triggers
<1>9. CASE OpenBootFails
  BY <1>9 DEF OpenBootFails, At, triggers
<1>10. CASE TransitionPre \/ TransitionPost
  <2>1. /\ block' = block /\ target' = target /\ state' = state /\ trg' = trg
        /\ block \in Blocks /\ (err => err')
    BY <1>10 DEF TransitionPre, TransitionPost, GotoStep, triggers, TypeOK
  <2>2. ~StartsReceiving(state, Rung[block]) => (err' <=> err)
    BY <1>10 DEF TransitionPre, TransitionPost, TypeOK
  <2>3. ~StartsReceiving("boot", "init")
    BY DEF StartsReceiving
  <2>4. state = "boot" => Rung[block] = "init"
    BY <2>1 DEF Rung, Blocks
  <2> QED
    BY <2>1, <2>2, <2>3, <2>4 DEF Blocks
<1>11. CASE FinishPlain \/ FinishStartRecv
  <2>1. /\ block' = After(block) /\ state' = state /\ target' = target
        /\ err' = err /\ trg' = trg
        /\ block \in {"stop_send", "stop_recv", "open_boot", "start_send",
                      "start_recv"}
    BY <1>11 DEF FinishPlain, FinishStartRecv, EnterBlock, At, triggers
  <2> QED
    BY <2>1 DEF After, Breaks, Below, TypeOK, ModuleState
<1>12. CASE MarkClosed
  <2>1. /\ block' = After(block) /\ state' = state /\ target' = target
        /\ err' = err /\ trg' = trg /\ block \in {"deinit", "leave_boot"}
        /\ step = "mark"
    BY <1>12 DEF MarkClosed, EnterBlock, triggers
  <2> QED
    BY <2>1, <1>0 DEF After, Breaks, Below, TypeOK, ModuleState
<1>13. CASE FinishOpen
  <2>1. /\ block' = After("open") /\ state' = state /\ target' = target
        /\ err' = err /\ block = "open"
    BY <1>13 DEF FinishOpen, EnterBlock, At
  <2> QED
    BY <2>1 DEF After, Breaks, Below
<1> QED
  BY <1>1, <1>2, <1>3, <1>4, <1>5, <1>6, <1>7, <1>8, <1>9, <1>10, <1>11, <1>12,
     <1>13 DEF Next, StateThread

LEMMA TriggerStep ==
    ASSUME TypeOK, TriggerInv, block = "leave_boot" => ~trg, [Next]_vars
    PROVE  TriggerInv'
<1> USE DEF TriggerInv
<1>1. CASE UNCHANGED vars
  BY <1>1 DEF vars, control, device, triggers, threads
<1>2. ASSUME NEW to \in Requests, Call(to) PROVE TriggerInv'
  BY <1>2 DEF Call, device, triggers, threads
<1>3. CASE Return \/ ClearError
  BY <1>3 DEF Return, ClearError, control, device, triggers, threads
<1>4. CASE BeginPlain \/ BeginStopRecv \/ BeginStartRecv
  BY <1>4 DEF BeginPlain, BeginStopRecv, BeginStartRecv, At, GotoStep, device,
              triggers, threads
<1>5. CASE BeginDeinit
  BY <1>5 DEF BeginDeinit, Release, At, GotoStep, device, threads
<1>6. CASE OpenSucceeds
  BY <1>6 DEF OpenSucceeds, FreshBus, GotoStep, triggers, threads
<1>7. CASE OpenFails
  BY <1>7 DEF OpenFails, OpenAborted, FreshBus, At, GotoStep, device, triggers,
              threads
<1>8. CASE OpenBootFails
  BY <1>8 DEF OpenBootFails, OpenAborted, FreshBus, At, device, triggers, threads
<1>9. CASE TransitionPre \/ SetBus \/ SkipOnError \/ TransitionPost
  <2>1. /\ step' # "begin" /\ step # "begin" /\ block' = block
        /\ UNCHANGED <<hw, ec_opened, trg, tick>> /\ (err => err')
    BY <1>9 DEF TransitionPre, SetBus, SkipOnError, TransitionPost, GotoStep,
                device, triggers, threads, TypeOK
  <2> QED
    BY <2>1
<1>10. CASE FinishPlain \/ FinishStartRecv
  BY <1>10 DEF FinishPlain, FinishStartRecv, EnterBlock, device, triggers, threads
<1>11. CASE CloseDevice
  BY <1>11 DEF CloseDevice, Close, GotoStep, triggers, threads
<1>12. CASE MarkClosed
  BY <1>12 DEF MarkClosed, EnterBlock, triggers, threads
<1>13. CASE FinishOpen
  BY <1>13 DEF FinishOpen, Acquire, At, EnterBlock, device, threads
<1>14. CASE TickEnter \/ TickExit \/ RecvEnter \/ RecvExit \/ ClockConverges
  BY <1>14 DEF TickEnter, TickExit, RecvEnter, RecvExit, ClockConverges, control,
               device, triggers, threads
<1> QED
  BY <1>1, <1>2, <1>3, <1>4, <1>5, <1>6, <1>7, <1>8, <1>9, <1>10, <1>11, <1>12,
     <1>13, <1>14 DEF Next, StateThread

(* With any combination of faults, whether or not the kernel clears errors *)
(* and whatever it requests (except, as the property says, boot together   *)
(* with cleared errors), the cyclic callback (master.cpp:977-1030) never    *)
(* runs into a closed network device.                                      *)
THEOREM TickSafe == Spec => []TickOnOpenDevice
<1>1. Init => TickInv
  BY TypeInit DEF Init, TickInv, CyclicRequests, BootRequests, TriggerInv
<1>2. ASSUME TickInv, [Next]_vars PROVE TickInv'
  <2> USE <1>2 DEF TickInv
  <2>1. TypeOK /\ TypeOK' /\ clears' = clears
    BY TypeStep, ClearsKept
  <2>2. "boot" \notin Requests => CyclicRequests'
    BY <2>1, CyclicStep
  <2>3. CASE clears /\ "boot" \in Requests
    BY <2>1, <2>2, <2>3
  <2>4. CASE ~(clears /\ "boot" \in Requests)
    <3>1. TriggerInv
      BY <2>4
    <3>2. block = "leave_boot" => ~trg
      BY <2>4 DEF CyclicRequests, BootRequests
    <3>3. TriggerInv'
      BY <2>1, <3>1, <3>2, TriggerStep
    <3>4. ~clears => BootRequests'
      BY <2>1, <3>1, BootRequestsStep
    <3> QED
      BY <2>1, <2>2, <3>3, <3>4
  <2> QED
    BY <2>3, <2>4
<1>3. TickInv => TickOnOpenDevice
  BY DEF TickInv, TriggerInv, TickOnOpenDevice
<1> QED
  BY <1>1, <1>2, <1>3, PTL DEF Spec

-----------------------------------------------------------------------------
(* Calls that nothing disturbs: where the bus and the network device are   *)
(* at each position of the state thread, without faults and without boot.  *)

(* The bus state a case finds when it is entered. *)
BusBefore ==
    [stop_send |-> "op", stop_recv |-> "safeop", deinit |-> "preop",
     open |-> "init", start_recv |-> "preop", start_send |-> "safeop"]

UpwardRequests ==
    /\ block = "open" => target \in {"preop", "safeop", "op"}
    /\ block = "start_recv" => target \in {"safeop", "op"}
    /\ block = "start_send" => target = "op"

PositionInv ==
    /\ ~err
    /\ block = "idle" =>
         /\ bus = state
         /\ hw <=> (state # "init")
         /\ ec_opened <=> (state # "init")
    /\ block = "return" =>
         /\ bus = target
         /\ hw <=> (target # "init")
         /\ ec_opened <=> (target # "init")
    /\ block \in Blocks =>
         /\ step \in {"begin", "pre", "bus"} => bus = BusBefore[block]
         /\ step \in {"post", "finish", "mark"} => bus = Rung[block]
         /\ hw <=> ~(At("open", "begin") \/ At("deinit", "mark"))
         /\ ec_opened <=> ~At("open", "begin")

LadderInv == TypeOK /\ CyclicRequests /\ UpwardRequests /\ PositionInv

(* The case a call enters finds the bus in the state it expects. *)
LEMMA EntryPosition ==
    ASSUME NEW from \in ModuleState \ {"boot"}, NEW to \in ModuleState \ {"boot"}
    PROVE  LET b == Entry(from, to)
           IN  \/ b = "return" /\ from = to
               \/ /\ b \in Blocks \ {"open_boot", "leave_boot"}
                  /\ from = BusBefore[b]
                  /\ (from = "init") <=> (b = "open")
                  /\ b = "open" => to \in {"preop", "safeop", "op"}
                  /\ b = "start_recv" => to \in {"safeop", "op"}
                  /\ b = "start_send" => to = "op"
BY DEF Entry, BusBefore, ModuleState, Blocks

(* The case below finds the bus where the case above left it; a break is   *)
(* taken exactly where the bus is in the target.                           *)
LEMMA AfterPosition ==
    ASSUME TypeOK, CyclicRequests, UpwardRequests, ~err, block \in Blocks
    PROVE  LET b == After(block)
           IN  \/ b = "return" /\ target = Rung[block]
               \/ /\ b \in Blocks \ {"open", "open_boot", "leave_boot"}
                  /\ block # "deinit"
                  /\ Rung[block] = BusBefore[b]
                  /\ b = "start_recv" => target \in {"safeop", "op"}
                  /\ b = "start_send" => target = "op"
BY DEF After, Breaks, Below, Rung, BusBefore, TypeOK, CyclicRequests,
       UpwardRequests, Blocks, ModuleState

LEMMA LadderInit == ASSUME Init PROVE LadderInv
BY TypeInit DEF Init, LadderInv, CyclicRequests, UpwardRequests, PositionInv,
                Blocks

LEMMA LadderStep ==
    ASSUME LadderInv, [Next]_vars, Faults = {}, "boot" \notin Requests
    PROVE  LadderInv'
<1>1. TypeOK' /\ CyclicRequests'
  BY TypeStep, CyclicStep DEF LadderInv
<1> USE DEF LadderInv, UpwardRequests, PositionInv, At
<1> SUFFICES UpwardRequests' /\ PositionInv'
  BY <1>1
<1>2. CASE UNCHANGED vars
  BY <1>2 DEF vars, control, device
<1>3. ASSUME NEW to \in Requests, Call(to) PROVE UpwardRequests' /\ PositionInv'
  <2>1. to \in ModuleState \ {"boot"} /\ state \in ModuleState \ {"boot"}
    BY MasterAssumption DEF TypeOK, CyclicRequests
  <2>2. /\ block = "idle" /\ step' = "begin" /\ target' = to
        /\ block' = Entry(state, to)
        /\ UNCHANGED <<state, err, bus, hw, ec_opened>>
    BY <1>3 DEF Call, device
  <2>3. CASE Entry(state, to) = "return" /\ state = to
    BY <2>2, <2>3 DEF Blocks
  <2>4. CASE Entry(state, to) # "return"
    <3> DEFINE b == Entry(state, to)
    <3>1. /\ b \in Blocks \ {"open_boot", "leave_boot"}
          /\ state = BusBefore[b] /\ ((state = "init") <=> (b = "open"))
          /\ b = "open" => to \in {"preop", "safeop", "op"}
          /\ b = "start_recv" => to \in {"safeop", "op"}
          /\ b = "start_send" => to = "op"
      BY <2>1, <2>4, EntryPosition
    <3> HIDE DEF b
    <3>2. block' = b
      BY <2>2 DEF b
    <3> QED
      BY <2>2, <3>1, <3>2 DEF Blocks
  <2> QED
    BY <2>1, <2>3, <2>4, EntryPosition DEF Blocks
<1>4. CASE Return
  BY <1>4 DEF Return, Reported, Blocks, device
<1>5. CASE ClearError
  BY <1>5 DEF ClearError
<1>6. CASE \/ TickEnter \/ TickExit \/ RecvEnter \/ RecvExit \/ ClockConverges
  BY <1>6 DEF TickEnter, TickExit, RecvEnter, RecvExit, ClockConverges, control,
              device
<1>7. CASE BeginPlain \/ BeginStopRecv \/ BeginDeinit \/ BeginStartRecv
  <2>1. /\ block \in Blocks \ {"open"} /\ block' = block /\ step = "begin"
        /\ step' = "pre" /\ UNCHANGED <<err, bus, hw, ec_opened, target>>
    BY <1>7 DEF BeginPlain, BeginStopRecv, BeginDeinit, BeginStartRecv, GotoStep,
                Blocks, device
  <2> QED
    BY <2>1 DEF Blocks
<1>8. CASE OpenSucceeds
  <2>1. /\ block = "open" /\ block' = block /\ step' = "pre"
        /\ hw' /\ ec_opened' /\ bus' = "init"
        /\ UNCHANGED <<err, target>>
    BY <1>8 DEF OpenSucceeds, FreshBus, GotoStep, CyclicRequests
  <2> QED
    BY <2>1 DEF BusBefore, Blocks
<1>9. CASE OpenFails \/ OpenBootFails
  BY <1>9 DEF OpenFails, OpenBootFails
<1>10. CASE TransitionPre
  <2>1. ~err'
    BY <1>10 DEF TransitionPre
  <2>2. /\ block \in Blocks /\ block' = block /\ step = "pre" /\ step' = "bus"
        /\ UNCHANGED <<bus, hw, ec_opened, target>>
    BY <1>10 DEF TransitionPre, GotoStep, device
  <2> QED
    BY <2>1, <2>2 DEF Blocks
<1>11. CASE SetBus
  <2>1. /\ block \in Blocks /\ block' = block /\ step = "bus" /\ step' = "post"
        /\ bus' = Rung[block] /\ UNCHANGED <<err, hw, ec_opened, target>>
    BY <1>11 DEF SetBus, SwitchBus, GotoStep, device
  <2> QED
    BY <2>1 DEF Blocks
<1>12. CASE SkipOnError
  BY <1>12 DEF SkipOnError
<1>13. CASE TransitionPost
  <2>1. ~err'
    BY <1>13 DEF TransitionPost
  <2>2. /\ block \in Blocks /\ block' = block /\ step = "post"
        /\ step' = "finish" /\ UNCHANGED <<bus, hw, ec_opened, target>>
    BY <1>13 DEF TransitionPost, GotoStep, device
  <2> QED
    BY <2>1, <2>2 DEF Blocks
<1>14. CASE CloseDevice
  <2>1. /\ block = "deinit" /\ block' = block /\ step = "finish"
        /\ step' = "mark" /\ ~hw'
        /\ UNCHANGED <<err, bus, ec_opened, target>>
    BY <1>14 DEF CloseDevice, Close, GotoStep, CyclicRequests
  <2> QED
    BY <2>1 DEF Blocks
<1>15. CASE MarkClosed
  <2>1. /\ At("deinit", "mark") /\ block' = After("deinit") /\ step' = "begin"
        /\ ~ec_opened' /\ UNCHANGED <<err, bus, hw, target>>
    BY <1>15 DEF MarkClosed, EnterBlock, CyclicRequests
  <2>2. After("deinit") = "return" /\ target = "init" /\ Rung["deinit"] = "init"
    BY <2>1 DEF After, Breaks, CyclicRequests, Rung
  <2> QED
    BY <2>1, <2>2 DEF Blocks
<1>16. CASE FinishPlain \/ FinishOpen \/ FinishStartRecv
  <2>1. /\ block \in Blocks \ {"deinit"} /\ step = "finish" /\ step' = "begin"
        /\ block' = After(block) /\ UNCHANGED <<err, bus, hw, ec_opened, target>>
    BY <1>16 DEF FinishPlain, FinishOpen, FinishStartRecv, EnterBlock, Blocks,
                 device
  <2>2. hw /\ ec_opened /\ bus = Rung[block]
    BY <2>1
  <2>3. CASE After(block) = "return" /\ target = Rung[block]
    <3>1. Rung[block] # "init"
      BY <2>1 DEF Rung, Blocks, CyclicRequests
    <3> QED
      BY <2>1, <2>2, <2>3, <3>1 DEF Blocks
  <2>4. CASE After(block) # "return"
    <3> DEFINE b == After(block)
    <3>1. /\ b \in Blocks \ {"open", "open_boot", "leave_boot"}
          /\ Rung[block] = BusBefore[b]
          /\ b = "start_recv" => target \in {"safeop", "op"}
          /\ b = "start_send" => target = "op"
      BY <2>1, <2>4, AfterPosition
    <3> HIDE DEF b
    <3>2. block' = b
      BY <2>1 DEF b
    <3> QED
      BY <2>1, <2>2, <3>1, <3>2 DEF Blocks
  <2> QED
    BY <2>1, <2>3, <2>4, AfterPosition DEF Blocks
<1> QED
  BY <1>2, <1>3, <1>4, <1>5, <1>6, <1>7, <1>8, <1>9, <1>10, <1>11, <1>12, <1>13,
     <1>14, <1>15, <1>16 DEF Next, StateThread

LEMMA LadderInvariant ==
    ASSUME Faults = {}, "boot" \notin Requests
    PROVE  Spec => []LadderInv
<1>1. LadderInv /\ [Next]_vars => LadderInv'
  BY LadderStep
<1> QED
  BY <1>1, LadderInit, PTL DEF Spec

(* Between two undisturbed calls the bus is in the reported state and the  *)
(* device is open exactly outside INIT (master.cpp:722-974).               *)
THEOREM ReportedReached ==
    ASSUME Faults = {}, "boot" \notin Requests
    PROVE  Spec => []ReportedIsReached
<1>1. LadderInv => ReportedIsReached
  BY DEF LadderInv, TypeOK, PositionInv, ReportedIsReached, Idle
<1> QED
  BY <1>1, LadderInvariant, PTL

(* Undisturbed calls never open an open device and never switch the bus    *)
(* with the device closed (master.cpp:340-655, 694-696).                   *)
THEOREM DeviceUsedWhenOpen ==
    ASSUME Faults = {}, "boot" \notin Requests
    PROVE  Spec => []OpensClosedDevice
<1>1. LadderInv => OpensClosedDevice
  BY DEF LadderInv, PositionInv, CyclicRequests, OpensClosedDevice, At, Blocks
<1> QED
  BY <1>1, LadderInvariant, PTL

-----------------------------------------------------------------------------
(* set_state implements StateLadder: without boot, with slaves that go     *)
(* where they are sent, and with opening, start-up commands and the making *)
(* of process data that may fail at any time.                              *)

Upward == {"open", "start_recv", "start_send"}

HeightOf == Ladder!Height

(* Where the bus is at each position of the state thread, when calls may   *)
(* have failed before: nowhere below the reported state, and at least      *)
(* where the case expects it.  An error stops the bus for the rest of the  *)
(* call, and only the cases of the way up can flag one.                    *)
HeightInv ==
    /\ state \in Ladder!States /\ target \in Ladder!States
    /\ bus \in Ladder!States
    /\ err => Faults # {} /\ HeightOf[bus] >= HeightOf[state]
    /\ block = "idle" => HeightOf[bus] >= HeightOf[state]
    /\ block = "return" /\ ~err =>
         \/ bus = target
         \/ target = state /\ HeightOf[bus] >= HeightOf[state]
    /\ block \in Upward => HeightOf[bus] >= HeightOf[state]
    /\ block = "stop_send" => state = "op"
    /\ block = "open" => state = "init"
    /\ block = "start_recv" => state \in {"init", "preop"}
    /\ block = "start_send" => state # "op"
    /\ block \in Blocks /\ ~err =>
         /\ step \in {"pre", "bus"} \/ (step = "begin" /\ block # "open") =>
              HeightOf[bus] >= HeightOf[BusBefore[block]]
         /\ block = "open" /\ step \in {"pre", "bus"} => bus = "init"
         /\ step \in {"post", "finish", "mark"} => bus = Rung[block]

LEMMA HeightInit == ASSUME Init PROVE UpwardRequests /\ HeightInv
BY DEF Init, UpwardRequests, HeightInv, HeightOf, Upward, Blocks,
       Ladder!Height, Ladder!States

(* After an error the call goes further down or comes back. *)
LEMMA AfterError ==
    ASSUME CyclicRequests, err, block \in Blocks
    PROVE  After(block) \in {"return", "stop_recv", "deinit"}
BY DEF After, Breaks, Below, CyclicRequests, Blocks

(* The rungs in numbers: the case expects the bus on the rung next to the  *)
(* one it goes to.                                                         *)
LEMMA NextRung ==
    ASSUME NEW b \in Blocks \ {"open_boot", "leave_boot"}
    PROVE  /\ {BusBefore[b], Rung[b]} \subseteq Ladder!States
           /\ b \in Upward => HeightOf[Rung[b]] = HeightOf[BusBefore[b]] + 1
           /\ b \notin Upward => HeightOf[BusBefore[b]] = HeightOf[Rung[b]] + 1
           /\ StartsReceiving(state, Rung[b]) => b \in {"start_recv", "start_send"}
                                                  \/ b = "stop_send"
BY DEF BusBefore, Rung, HeightOf, Upward, Blocks, Ladder!Height, Ladder!States,
       StartsReceiving

LEMMA HeightStep ==
    ASSUME TypeOK, CyclicRequests, UpwardRequests, HeightInv, [Next]_vars,
           "boot" \notin Requests, "al" \notin Faults
    PROVE  UpwardRequests' /\ HeightInv'
<1> DEFINE S == Ladder!States
           H == HeightOf
<1> USE DEF UpwardRequests, HeightInv, At
<1>0. /\ S = {"init", "preop", "safeop", "op"}
      /\ H["init"] = 1 /\ H["preop"] = 2 /\ H["safeop"] = 3 /\ H["op"] = 4
      /\ \A s \in S : H[s] \in 1..4
  BY DEF HeightOf, Ladder!States, Ladder!Height
<1> HIDE DEF S, H
<1>1. CASE UNCHANGED vars
  BY <1>1 DEF vars, control, H, S
<1>2. ASSUME NEW to \in Requests, Call(to) PROVE UpwardRequests' /\ HeightInv'
  <2>1. to \in S /\ to \in ModuleState \ {"boot"} /\ state \in ModuleState \ {"boot"}
    BY MasterAssumption, <1>0 DEF TypeOK, CyclicRequests, ModuleState
  <2>2. /\ block = "idle" /\ step' = "begin" /\ target' = to
        /\ block' = Entry(state, to) /\ UNCHANGED <<state, err, bus>>
    BY <1>2 DEF Call
  <2>3. H[bus] >= H[state]
    BY <2>2 DEF H
  <2>4. CASE Entry(state, to) = "return" /\ state = to
    BY <2>1, <2>2, <2>3, <2>4 DEF Upward, Blocks, H, S
  <2>5. CASE Entry(state, to) # "return"
    <3> DEFINE b == Entry(state, to)
    <3>1. /\ b \in Blocks \ {"open_boot", "leave_boot"}
          /\ state = BusBefore[b] /\ ((state = "init") <=> (b = "open"))
          /\ b = "open" => to \in {"preop", "safeop", "op"}
          /\ b = "start_recv" => to \in {"safeop", "op"}
          /\ b = "start_send" => to = "op"
      BY <2>1, <2>5, EntryPosition
    <3> HIDE DEF b
    <3>2. block' = b
      BY <2>2 DEF b
    <3>3. /\ b = "start_recv" => state \in {"init", "preop"}
          /\ b = "start_send" => state # "op"
          /\ b = "stop_send" => state = "op"
      BY <3>1 DEF BusBefore
    <3> QED
      BY <2>1, <2>2, <2>3, <3>1, <3>2, <3>3 DEF Blocks, H, S
  <2>6. Entry(state, to) = "return" => state = to
    BY <2>1, EntryPosition DEF Blocks
  <2> QED
    BY <2>4, <2>5, <2>6
<1>3. CASE Return
  <2>1. /\ block' = "idle" /\ block = "return" /\ UNCHANGED <<target, err, bus>>
        /\ state' = IF err THEN state ELSE target
    BY <1>3 DEF Return, Reported
  <2>2. H[bus'] >= H[state']
    BY <2>1, <1>0 DEF H, S
  <2> QED
    BY <2>1, <2>2 DEF Upward, Blocks, H, S
<1>4. CASE ClearError
  BY <1>4 DEF ClearError, control, Upward, Blocks
<1>5. CASE \/ TickEnter \/ TickExit \/ RecvEnter \/ RecvExit \/ ClockConverges
  BY <1>5 DEF TickEnter, TickExit, RecvEnter, RecvExit, ClockConverges, control
<1>6. CASE BeginPlain \/ BeginStopRecv \/ BeginDeinit \/ BeginStartRecv
  <2>1. /\ block \in Blocks \ {"open"} /\ block' = block /\ step = "begin"
        /\ step' = "pre" /\ UNCHANGED <<err, bus, state, target>>
    BY <1>6 DEF BeginPlain, BeginStopRecv, BeginDeinit, BeginStartRecv, GotoStep,
                Blocks
  <2> QED
    BY <2>1 DEF Blocks
<1>7. CASE OpenSucceeds \/ OpenFails
  <2>1. /\ block = "open" /\ block' = block /\ step' = "pre"
        /\ UNCHANGED <<state, target>>
        /\ \/ bus' = "init" /\ err' = err
           \/ bus' \in {"init", bus} /\ err' = TRUE
        /\ err' # err => "open" \in Faults
    BY <1>7 DEF OpenSucceeds, OpenFails, OpenAborted, FreshBus, GotoStep, At,
                CyclicRequests
  <2>2. /\ state = "init" /\ bus' \in S /\ H[bus'] >= H[state']
        /\ H[bus'] >= 1
    BY <2>1, <1>0 DEF S
  <2>3. BusBefore["open"] = "init"
    BY DEF BusBefore
  <2>4. err' => Faults # {}
    BY <2>1
  <2>5. ~err' => bus' = "init"
    BY <2>1
  <2> QED
    BY <2>1, <2>2, <2>3, <2>4, <2>5, <1>0 DEF Blocks, H, S
<1>8. CASE OpenBootFails
  BY <1>8 DEF OpenBootFails, CyclicRequests
<1>9. CASE TransitionPre \/ TransitionPost
  <2>1. /\ block \in Blocks /\ block' = block /\ UNCHANGED <<bus, state, target>>
        /\ \/ step = "pre" /\ step' = "bus"
           \/ step = "post" /\ step' = "finish"
        /\ err => err'
    BY <1>9 DEF TransitionPre, TransitionPost, GotoStep, TypeOK
  <2>2. err' # err => Faults # {} /\ StartsReceiving(state, Rung[block])
    BY <1>9 DEF TransitionPre, TransitionPost, TypeOK
  <2>3. err' # err => H[bus] >= H[state]
    <3>1. CASE block \in Upward
      BY <3>1 DEF H
    <3>2. CASE block \notin Upward
      BY <2>1, <2>2, <3>2 DEF StartsReceiving, Rung, Upward, Blocks,
                              CyclicRequests
    <3> QED
      BY <3>1, <3>2
  <2> QED
    BY <2>1, <2>2, <2>3 DEF Blocks, H
<1>10. CASE SetBus
  <2>1. /\ block \in Blocks \ {"open_boot", "leave_boot"} /\ block' = block
        /\ step = "bus" /\ step' = "post" /\ ~err /\ bus' = Rung[block]
        /\ UNCHANGED <<err, state, target>>
    BY <1>10 DEF SetBus, SwitchBus, GotoStep, CyclicRequests
  <2>2. bus' \in S /\ (block \in Upward => H[bus'] >= H[state'])
    <3>1. bus' \in S
      BY <2>1, NextRung DEF S
    <3>2. CASE block = "open"
      BY <2>1, <3>1, <3>2, <1>0
    <3>3. CASE block \in {"start_recv", "start_send"}
      BY <2>1, <3>3, <1>0 DEF Rung, S
    <3> QED
      BY <3>1, <3>2, <3>3 DEF Upward
  <2> QED
    BY <2>1, <2>2 DEF Blocks, H, S
<1>11. CASE SkipOnError
  BY <1>11 DEF SkipOnError, GotoStep, Blocks
<1>12. CASE CloseDevice
  <2>1. /\ block \in Blocks /\ block' = block /\ step = "finish"
        /\ step' = "mark" /\ UNCHANGED <<err, bus, state, target>>
    BY <1>12 DEF CloseDevice, GotoStep, Blocks
  <2> QED
    BY <2>1 DEF Blocks
<1>13. CASE FinishPlain \/ MarkClosed \/ FinishOpen \/ FinishStartRecv
  <2>1. /\ block \in Blocks /\ step \in {"finish", "mark"} /\ step' = "begin"
        /\ block' = After(block) /\ UNCHANGED <<err, bus, state, target>>
    BY <1>13 DEF FinishPlain, MarkClosed, FinishOpen, FinishStartRecv,
                 EnterBlock, Blocks
  <2>2. CASE err
    <3>1. block' \in {"return", "stop_recv", "deinit"}
      BY <2>1, <2>2, AfterError
    <3> QED
      BY <2>1, <2>2, <3>1 DEF Upward, Blocks
  <2>3. CASE ~err
    <3>1. bus = Rung[block]
      BY <2>1, <2>3
    <3>2. CASE After(block) = "return" /\ target = Rung[block]
      BY <2>1, <2>3, <3>1, <3>2 DEF Upward, Blocks
    <3>3. CASE After(block) # "return"
      <4> DEFINE b == After(block)
      <4>1. /\ b \in Blocks \ {"open", "open_boot", "leave_boot"}
            /\ Rung[block] = BusBefore[b]
            /\ b = "start_recv" => target \in {"safeop", "op"}
            /\ b = "start_send" => target = "op"
        BY <2>1, <2>3, <3>3, AfterPosition
      <4>2. b \in Upward => block \in Upward
        BY <2>1, <3>3 DEF After, Below, Upward, Breaks, CyclicRequests, Blocks
      <4>3. /\ b = "start_recv" => state \in {"init", "preop"}
            /\ b = "start_send" => state # "op"
            /\ b # "stop_send"
        BY <2>1, <3>3 DEF After, Below, Breaks, Blocks
      <4> HIDE DEF b
      <4>4. block' = b
        BY <2>1 DEF b
      <4>5. H[bus] >= H[BusBefore[b]]
        BY <3>1, <4>1, <1>0 DEF S
      <4> QED
        BY <2>1, <2>3, <3>1, <4>1, <4>2, <4>3, <4>4, <4>5 DEF Blocks, Upward, H
    <3>4. After(block) = "return" => target = Rung[block]
      BY <2>1, <2>3, AfterPosition DEF Blocks
    <3> QED
      BY <3>2, <3>3, <3>4
  <2> QED
    BY <2>2, <2>3
<1> QED
  BY <1>1, <1>2, <1>3, <1>4, <1>5, <1>6, <1>7, <1>8, <1>9, <1>10, <1>11, <1>12,
     <1>13 DEF Next, StateThread

-----------------------------------------------------------------------------
(* The steps of Master as steps of the ladder.                             *)

(* The call that the ladder sees. *)
Want == IF Idle THEN "none" ELSE target

(* Every step of the state thread that leaves the bus alone and does not   *)
(* end the call is no step of the ladder.                                  *)
LEMMA Stutter ==
    ASSUME UNCHANGED <<bus, state, target>>, (block' = "idle") <=> (block = "idle")
    PROVE  UNCHANGED Ladder!ladderVars
BY DEF Ladder!ladderVars, Idle

(* The bus goes one rung, or falls back after a failed call. *)
LEMMA SetBusStep ==
    ASSUME TypeOK, CyclicRequests, UpwardRequests, HeightInv, SetBus,
           "al" \notin Faults, Faults = {} => PositionInv
    PROVE  [Ladder!LadderNext]_Ladder!ladderVars
<1> DEFINE H == HeightOf
           S == Ladder!States
<1>0. /\ S = {"init", "preop", "safeop", "op"}
      /\ H["init"] = 1 /\ H["preop"] = 2 /\ H["safeop"] = 3 /\ H["op"] = 4
  BY DEF HeightOf, Ladder!States, Ladder!Height
<1>1. /\ block \in Blocks \ {"open_boot", "leave_boot"} /\ block' = block
      /\ step = "bus" /\ ~err /\ bus' = Rung[block]
      /\ UNCHANGED <<state, target>>
  BY DEF SetBus, SwitchBus, GotoStep, CyclicRequests
<1>2. /\ bus \in S /\ bus' \in S /\ target \in S
      /\ H[bus] >= H[BusBefore[block]]
      /\ block = "open" => bus = "init"
  BY <1>1, NextRung DEF HeightInv
<1>3. /\ Want = target /\ Want' = target /\ target # "none"
      /\ UNCHANGED state
  BY <1>1, <1>2, <1>0 DEF Want, Idle, Blocks
<1>4. CASE bus' = bus
  BY <1>1, <1>4, Stutter DEF Blocks
<1>5. CASE bus = BusBefore[block] /\ block \in Upward
  <2>1. H[bus'] = H[bus] + 1 /\ H[bus] < H[target]
    BY <1>1, <1>5, <1>0 DEF Upward, UpwardRequests, Rung, BusBefore
  <2>2. bus' = Ladder!Rungs[H[bus] + 1]
    BY <2>1, <1>2, <1>0 DEF Ladder!Rungs
  <2> QED
    BY <1>3, <2>1, <2>2 DEF Ladder!LadderNext, Ladder!Climb, Want, HeightOf
<1>6. CASE bus = BusBefore[block] /\ block \notin Upward
  <2>1. H[bus'] = H[bus] - 1 /\ H[bus] > H[target]
    BY <1>1, <1>6, <1>0 DEF Upward, CyclicRequests, Rung, BusBefore, Blocks
  <2>2. bus' = Ladder!Rungs[H[bus] - 1]
    BY <2>1, <1>2, <1>0 DEF Ladder!Rungs
  <2> QED
    BY <1>3, <2>1, <2>2 DEF Ladder!LadderNext, Ladder!Descend, Want, HeightOf
<1>7. CASE bus # BusBefore[block] /\ bus' # bus
  <2>1. Faults # {}
    BY <1>1, <1>7 DEF PositionInv
  <2>2. H[bus'] < H[bus]
    BY <1>1, <1>2, <1>7, <1>0 DEF Rung, BusBefore, Blocks
  <2> QED
    BY <1>2, <1>3, <2>1, <2>2 DEF Ladder!LadderNext, Ladder!FallBack, Want,
       HeightOf
<1> QED
  BY <1>4, <1>5, <1>6, <1>7

LEMMA LadderSimulation ==
    ASSUME TypeOK, CyclicRequests, UpwardRequests, HeightInv, [Next]_vars,
           "boot" \notin Requests, "al" \notin Faults,
           Faults = {} => PositionInv
    PROVE  [Ladder!LadderNext]_Ladder!ladderVars
<1>1. ASSUME NEW to \in Requests, Call(to)
      PROVE  [Ladder!LadderNext]_Ladder!ladderVars
  <2>1. to \in Ladder!States
    BY MasterAssumption DEF ModuleState, Ladder!States, Ladder!Height
  <2>2. block = "idle" /\ block' # "idle" /\ target' = to
        /\ UNCHANGED <<bus, state>>
    BY <1>1, EntryType DEF Call, Blocks
  <2> QED
    BY <2>1, <2>2 DEF Ladder!LadderNext, Ladder!Request, Idle
<1>2. CASE Return
  <2>1. /\ block = "return" /\ block' = "idle" /\ UNCHANGED <<bus, target>>
        /\ state' = IF err THEN state ELSE target
        /\ target \in {"init", "preop", "safeop", "op"}
    BY <1>2 DEF Return, Reported, HeightInv, Ladder!States, Ladder!Height
  <2>2. CASE ~err /\ bus = target
    BY <2>1, <2>2 DEF Ladder!LadderNext, Ladder!Reach, Idle
  <2>3. CASE Faults # {} /\ state' = state
    BY <2>1, <2>3 DEF Ladder!LadderNext, Ladder!Fail, Idle
  <2>4. Faults = {} => ~err /\ bus = target
    BY <2>1 DEF PositionInv
  <2> QED
    BY <2>1, <2>2, <2>3, <2>4 DEF HeightInv
<1>3. CASE SetBus
  BY <1>3, SetBusStep
<1>4. CASE OpenSucceeds \/ OpenFails
  <2>1. /\ block = "open" /\ block' = block /\ step = "begin"
        /\ UNCHANGED <<state, target>>
        /\ bus' \in {"init", bus}
        /\ target \in {"preop", "safeop", "op"}
        /\ bus \in {"init", "preop", "safeop", "op"}
    BY <1>4 DEF OpenSucceeds, OpenFails, OpenAborted, FreshBus, GotoStep, At,
                CyclicRequests, UpwardRequests, HeightInv, Ladder!States,
                Ladder!Height
  <2>2. CASE bus' = bus
    BY <2>1, <2>2, Stutter
  <2>3. CASE bus' # bus
    <3>1. Faults # {}
      BY <2>1, <2>3 DEF PositionInv, BusBefore, Blocks
    <3>2. bus' \in {s \in Ladder!States : Ladder!Height[s] < Ladder!Height[bus]}
      BY <2>1, <2>3 DEF Ladder!States, Ladder!Height
    <3> QED
      BY <2>1, <3>1, <3>2 DEF Ladder!LadderNext, Ladder!FallBack, Idle
  <2> QED
    BY <2>2, <2>3
<1>5. CASE OpenBootFails
  BY <1>5 DEF OpenBootFails, CyclicRequests, At
<1>6. CASE \/ BeginPlain \/ BeginStopRecv \/ BeginDeinit \/ BeginStartRecv
           \/ TransitionPre \/ SkipOnError \/ TransitionPost \/ CloseDevice
  <2>1. /\ block # "idle" /\ block' = block /\ UNCHANGED <<bus, state, target>>
    BY <1>6 DEF BeginPlain, BeginStopRecv, BeginDeinit, BeginStartRecv, At,
         TransitionPre, SkipOnError, TransitionPost, CloseDevice, GotoStep,
         Blocks
  <2> QED
    BY <2>1, Stutter
<1>7. CASE FinishPlain \/ MarkClosed \/ FinishOpen \/ FinishStartRecv
  <2>1. /\ block \in Blocks /\ block' = After(block)
        /\ UNCHANGED <<bus, state, target>>
    BY <1>7 DEF FinishPlain, MarkClosed, FinishOpen, FinishStartRecv, EnterBlock,
                At, Blocks
  <2>2. block # "idle" /\ block' # "idle"
    BY <2>1, AfterType DEF Blocks
  <2> QED
    BY <2>1, <2>2, Stutter
<1>8. CASE \/ ClearError \/ TickEnter \/ TickExit \/ RecvEnter \/ RecvExit
           \/ ClockConverges \/ UNCHANGED vars
  <2>1. UNCHANGED <<block, bus, state, target>>
    BY <1>8 DEF ClearError, TickEnter, TickExit, RecvEnter, RecvExit,
         ClockConverges, vars, control
  <2> QED
    BY <2>1, Stutter
<1> QED
  BY <1>1, <1>2, <1>3, <1>4, <1>5, <1>6, <1>7, <1>8 DEF Next, StateThread

(* set_state keeps the promise of StateLadder for every set of slaves,     *)
(* whichever openings, start-up commands and creations of process data     *)
(* fail and whether or not the kernel clears errors (master.cpp:722-974).  *)
THEOREM LadderImplemented ==
    ASSUME "boot" \notin Requests, "al" \notin Faults
    PROVE  Spec => ImplementsLadder
<1> DEFINE Inv == /\ TypeOK /\ CyclicRequests /\ UpwardRequests /\ HeightInv
                  /\ Faults = {} => PositionInv
<1>1. Init => Inv /\ Ladder!LadderInit
  <2>1. Init => Inv
    BY TypeInit, LadderInit, HeightInit DEF LadderInv
  <2>2. Init => Ladder!LadderInit
    BY DEF Init, Ladder!LadderInit, Idle
  <2> QED
    BY <2>1, <2>2
<1>2. Inv /\ [Next]_vars => Inv'
  <2> SUFFICES ASSUME Inv, [Next]_vars PROVE Inv'
    OBVIOUS
  <2>1. TypeOK' /\ CyclicRequests' /\ UpwardRequests' /\ HeightInv'
    BY TypeStep, CyclicStep, HeightStep
  <2>2. Faults = {} => PositionInv'
    BY LadderStep DEF LadderInv
  <2> QED
    BY <2>1, <2>2
<1>3. Inv /\ [Next]_vars => [Ladder!LadderNext]_Ladder!ladderVars
  BY LadderSimulation
<1> QED
  BY <1>1, <1>2, <1>3, PTL DEF Spec, ImplementsLadder, Ladder!LadderSpec

-----------------------------------------------------------------------------
(* The devices, commands and triggers that belong to a state: the          *)
(* fall-through of set_state and of the slaves' handlers leaves them as the *)
(* reported state has them, for every set of slaves.                       *)

(* Where a call without error comes from.                                  *)

(* The state of the slaves' devices a case starts with. *)
LevelBefore ==
    [stop_send |-> "op", stop_recv |-> "safeop", deinit |-> "preop",
     open_boot |-> "init", leave_boot |-> "boot", open |-> "init",
     start_recv |-> "preop", start_send |-> "safeop"]

(* The state whose devices the slaves have: a case changes them in the     *)
(* last part of its state_transition.                                      *)
Level ==
    CASE block = "idle"   -> state
      [] block = "return" -> target
      [] OTHER -> IF step \in {"begin", "pre", "bus", "post"}
                  THEN LevelBefore[block] ELSE Rung[block]

(* The states a call may have found, and what it may want, in each case.   *)
(* Without error, because after one the cases of the boot state are        *)
(* entered from above.                                                     *)
OriginInv == ~err =>
    /\ block = "stop_send" => state = "op"
    /\ block = "stop_recv" => state \in {"safeop", "op"}
    /\ block = "deinit" => state \in {"preop", "safeop", "op"}
    /\ block = "open_boot" => state = "init" /\ target = "boot"
    /\ block = "leave_boot" => state = "boot"
    /\ block = "open" => state = "init"
    /\ block = "start_recv" => state \in {"init", "preop"}
    /\ block = "start_send" => state \in {"init", "preop", "safeop"}
    /\ UpwardRequests

(* If errors are cleared, only the bus itself fails: no slave's handler    *)
(* gives up half way.                                                      *)
Calm == clears => Faults \subseteq {"open", "al"}

(* The master's own devices at each position of the state thread. *)
MasterDevsAt ==
    CASE block = "idle"       -> MasterDevsOf(state)
      [] block = "return"     -> MasterDevsOf(target)
      [] block = "stop_recv"  -> IF step = "begin" THEN MasterDevs
                                 ELSE {"canopen"}
      [] block = "deinit"     -> IF step = "mark" THEN {} ELSE {"canopen"}
      [] block = "open"       -> IF step = "begin" THEN {} ELSE {"canopen"}
      [] block = "start_recv" -> IF step = "begin" THEN {"canopen"}
                                 ELSE {"canopen", "recv_error"}
      [] OTHER                -> MasterDevs

(* Whether the send trigger has been acquired. *)
Acquired ==
    Level \in {"preop", "safeop", "op"} /\ block \notin {"deinit", "open"}

(* An error that can be cleared has left nothing of its start behind. *)
Failed ==
    /\ block \in {"idle", "return", "open"} /\ state = "init"
    /\ step # "post"

(* Without error every device is that of the position; an error that can   *)
(* be cleared has left none.                                               *)
DevsInv == Calm =>
    /\ ~err => /\ \A s \in Slaves : devs[s] = DevsOf(s, Level)
               /\ masterDevs = MasterDevsAt
               /\ Acquired => trg
    /\ err /\ clears => /\ Failed /\ masterDevs = {}
                        /\ \A s \in Slaves : devs[s] = {}

(* The already_added flags of CoE commands are cleared before the bus that *)
(* knows the commands is closed.                                           *)
Forgotten == Level = "init" \/ (block = "deinit" /\ step \in {"bus", "post"})

(* From the first part of start_recv on those with data are there. *)
Installed ==
    \/ Level \in {"safeop", "op"}
    \/ block = "start_recv" /\ step \in {"bus", "post"}

(* A set flag means that the bus that is open knows the command. *)
CoeOf(s) ==
    /\ ~err => /\ \A k \in CoeKinds \intersect added[s] :
                      ~Forgotten /\ k \in cmds[s]
               /\ Installed => data[s] \intersect CoeKinds \subseteq cmds[s]
    /\ err /\ clears => added[s] \intersect CoeKinds = {}

CoeInv == Calm => \A s \in Slaves : CoeOf(s)

(* The bus is in OP between the last rung of the way up and the first of   *)
(* the way down, and nowhere else.                                         *)
OpInv == bus = "op" =>
        /\ ~err
        /\ \/ block = "idle" /\ state = "op"
           \/ block = "return" /\ target = "op"
           \/ block = "stop_send" /\ step \in {"begin", "pre", "bus"}
           \/ block = "start_send" /\ step \in {"post", "finish", "mark"}

(* The most a slave may have registered in each state. *)
Allowed(l) ==
    CASE l = "init"  -> {}
      [] l = "boot"  -> EepromDevs \union {"mbx_foe"}
      [] l = "preop" -> ServiceDevs
      [] OTHER       -> SlaveDevs

(* Weaker than DevsInv, and true on the paths through BOOT as well. *)
BootInv == ~clears /\ ~err => \A s \in Slaves : devs[s] \subseteq Allowed(Level)

-----------------------------------------------------------------------------
(* How a step of the master moves the state thread.                        *)

Elsewhere ==
    /\ UNCHANGED <<state, target, block, step>>
    /\ err' = err \/ block = "idle"

Inside ==
    /\ block \in Blocks /\ UNCHANGED <<state, target, block>>
    /\ err => err'

Onward ==
    /\ block \in Blocks /\ step \in {"finish", "mark"}
    /\ block' = After(block) /\ step' = "begin"
    /\ UNCHANGED <<state, target, err>>

LEMMA StepKinds ==
    ASSUME TypeOK, [Next]_vars
    PROVE  \/ \E to \in Requests : Call(to)
           \/ Return \/ OpenBootFails \/ Elsewhere \/ Inside \/ Onward
<1>1. CASE \/ ClearError \/ TickEnter \/ TickExit \/ RecvEnter \/ RecvExit
           \/ ClockConverges \/ UNCHANGED vars
  BY <1>1 DEF Elsewhere, ClearError, TickEnter, TickExit, RecvEnter, RecvExit,
              ClockConverges, vars, control
<1>2. CASE \/ BeginPlain \/ BeginStopRecv \/ BeginDeinit \/ BeginStartRecv
           \/ OpenSucceeds \/ OpenFails
  BY <1>2 DEF Inside, BeginPlain, BeginStopRecv, BeginDeinit, BeginStartRecv,
              OpenSucceeds, OpenFails, At, GotoStep, Blocks, TypeOK
<1>3. CASE TransitionPre \/ SetBus \/ SkipOnError \/ TransitionPost \/ CloseDevice
  BY <1>3 DEF Inside, TransitionPre, SetBus, SkipOnError, TransitionPost,
              CloseDevice, GotoStep, Blocks, TypeOK
<1>4. CASE FinishPlain \/ MarkClosed \/ FinishOpen \/ FinishStartRecv
  BY <1>4 DEF Onward, FinishPlain, MarkClosed, FinishOpen, FinishStartRecv, At,
              EnterBlock, Blocks
<1> QED
  BY <1>1, <1>2, <1>3, <1>4 DEF Next, StateThread

(* The case that a call enters. *)
LEMMA EntryOrigin ==
    ASSUME NEW from \in ModuleState, NEW to \in ModuleState
    PROVE  LET b == Entry(from, to)
           IN  \/ b = "return" /\ from = to
               \/ /\ b \in Blocks
                  /\ from = LevelBefore[b]
                  /\ b = "open_boot" => to = "boot"
                  /\ b = "open" => to \in {"preop", "safeop", "op"}
                  /\ b = "start_recv" => to \in {"safeop", "op"}
                  /\ b = "start_send" => to = "op"
BY DEF Entry, LevelBefore, ModuleState, Blocks

(* The case, or the return, that follows a case without error. *)
LEMMA AfterOrigin ==
    ASSUME TypeOK, OriginInv, ~err, block \in Blocks
    PROVE  \/ block = "stop_send" /\ After(block) = "return" /\ target = "safeop"
           \/ block = "stop_send" /\ After(block) = "stop_recv"
           \/ block = "stop_recv" /\ After(block) = "return" /\ target = "preop"
           \/ block = "stop_recv" /\ After(block) = "deinit"
           \/ block \in {"deinit", "leave_boot"} /\ After(block) = "return"
           \/ block = "open_boot" /\ After(block) = "return" /\ target = "boot"
           \/ block = "open" /\ After(block) = "return" /\ target = "preop"
           \/ /\ block = "open" /\ After(block) = "start_recv"
              /\ target \in {"safeop", "op"}
           \/ block = "start_recv" /\ After(block) = "return" /\ target = "safeop"
           \/ block = "start_recv" /\ After(block) = "start_send" /\ target = "op"
           \/ block = "start_send" /\ After(block) = "return" /\ target = "op"
BY DEF After, Breaks, Below, TypeOK, OriginInv, UpwardRequests, Blocks, ModuleState

LEMMA OriginStep ==
    ASSUME TypeOK, OriginInv, [Next]_vars
    PROVE  OriginInv'
<1> USE DEF OriginInv, UpwardRequests
<1>1. ASSUME NEW to \in Requests, Call(to) PROVE OriginInv'
  <2>1. to \in ModuleState /\ state \in ModuleState
    BY MasterAssumption DEF TypeOK
  <2>2. target' = to /\ block' = Entry(state, to) /\ UNCHANGED <<state, err>>
    BY <1>1 DEF Call
  <2> DEFINE b == Entry(state, to)
  <2>3. \/ b = "return"
        \/ /\ b \in Blocks
           /\ state = LevelBefore[b]
           /\ b = "open_boot" => to = "boot"
           /\ b = "open" => to \in {"preop", "safeop", "op"}
           /\ b = "start_recv" => to \in {"safeop", "op"}
           /\ b = "start_send" => to = "op"
    BY <2>1, EntryOrigin
  <2> HIDE DEF b
  <2>4. block' = b
    BY <2>2 DEF b
  <2> QED
    BY <2>2, <2>3, <2>4 DEF LevelBefore, Blocks
<1>2. CASE Return \/ OpenBootFails
  BY <1>2 DEF Return, OpenBootFails
<1>3. CASE Elsewhere \/ Inside
  BY <1>3 DEF Elsewhere, Inside
<1>4. CASE Onward
  BY <1>4, AfterOrigin DEF Onward
<1> QED
  BY <1>1, <1>2, <1>3, <1>4, StepKinds

-----------------------------------------------------------------------------
(* What one slave's handlers make of its devices on each case.             *)

(* The states a call without error may have found in a case. *)
Origins(b) ==
    CASE b = "stop_send"  -> {"op"}
      [] b = "stop_recv"  -> {"safeop", "op"}
      [] b = "deinit"     -> {"preop", "safeop", "op"}
      [] b = "leave_boot" -> {"boot"}
      [] b \in {"open", "open_boot"} -> {"init"}
      [] b = "start_recv" -> {"init", "preop"}
      [] OTHER            -> {"init", "preop", "safeop"}

LEMMA OriginOfCall ==
    ASSUME OriginInv, ~err, block \in Blocks
    PROVE  state \in Origins(block)
BY DEF OriginInv, Origins, Blocks

(* On the way up and down between INIT and OP the handlers turn the        *)
(* devices of one state into exactly those of the next, although they are  *)
(* told the state before the call and not the one they are in.             *)
LEMMA PostLevel ==
    ASSUME NEW b \in Blocks \ {"open_boot", "leave_boot"},
           NEW from \in Origins(b), NEW s \in Slaves
    PROVE  PostTransition(DevsOf(s, LevelBefore[b]), from, Rung[b],
                          Mailbox[s], ProcessData[s]) = DevsOf(s, Rung[b])
<1> USE DEF PostTransition, Removed, Added, StopsReceiving, Deinitialises,
            LeavesBoot, EntersBoot, Initialises, StartsReceiving, DevsOf,
            LevelBefore, Rung, Origins
<1>1. /\ Mailbox[s] \subseteq MailboxDevs /\ ProcessData[s] \subseteq ProcessDataDevs
  BY MasterAssumption
<1>2. CASE b \in {"stop_send", "open", "start_send"}
  BY <1>2
<1>3. CASE b = "stop_recv"
  BY <1>1, <1>3 DEF EepromDevs, MailboxDevs, ProcessDataDevs
<1>4. CASE b = "deinit"
  BY <1>1, <1>4 DEF EepromDevs, MailboxDevs, ProcessDataDevs, ServiceDevs
<1>5. CASE b = "start_recv"
  BY <1>5
<1> QED BY <1>2, <1>3, <1>4, <1>5 DEF Blocks

LEMMA PostAllowed ==
    ASSUME NEW b \in Blocks, NEW from \in Origins(b), NEW s \in Slaves,
           NEW d \in SUBSET Allowed(LevelBefore[b])
    PROVE  PostTransition(d, from, Rung[b], Mailbox[s], ProcessData[s])
               \subseteq Allowed(Rung[b])
<1> USE DEF PostTransition, Removed, Added, StopsReceiving, Deinitialises,
            LeavesBoot, EntersBoot, Initialises, StartsReceiving,
            LevelBefore, Rung, Origins, Allowed
<1>1. /\ Mailbox[s] \subseteq MailboxDevs /\ ProcessData[s] \subseteq ProcessDataDevs
  BY MasterAssumption
<1>2. CASE b \in {"stop_send", "start_recv", "start_send"}
  BY <1>1, <1>2 DEF SlaveDevs, ServiceDevs
<1>3. CASE b = "stop_recv"
  BY <1>1, <1>3 DEF SlaveDevs
<1>4. CASE b = "deinit"
  BY <1>4
<1>5. CASE b \in {"open_boot", "leave_boot"}
  BY <1>5
<1>6. CASE b = "open"
  BY <1>1, <1>6 DEF ServiceDevs
<1> QED BY <1>2, <1>3, <1>4, <1>5, <1>6 DEF Blocks

-----------------------------------------------------------------------------
(* The devices of the reported state.                                      *)

(* Whether the kernel clears errors is fixed for a behaviour. *)
LEMMA ClearsConstant == ASSUME [Next]_vars PROVE UNCHANGED clears
BY DEF Next, StateThread, vars, world, Call, Return, ClearError, BeginPlain,
       BeginStopRecv, BeginDeinit, BeginStartRecv, OpenSucceeds, OpenFails,
       OpenBootFails, TransitionPre, SetBus, SkipOnError, TransitionPost,
       FinishPlain, CloseDevice, MarkClosed, FinishOpen, FinishStartRecv,
       TickEnter, TickExit, RecvEnter, RecvExit, ClockConverges

LEMMA DevsStep ==
    ASSUME TypeOK, CyclicRequests, OriginInv, DevsInv, [Next]_vars,
           "boot" \notin Requests
    PROVE  DevsInv'
<1> SUFFICES ASSUME Calm PROVE DevsInv'
  BY ClearsConstant DEF DevsInv, Calm
<1>1. ASSUME NEW to \in Requests, Call(to) PROVE DevsInv'
  <2>1. /\ to \in ModuleState /\ state \in ModuleState
        /\ to # "boot" /\ state # "boot"
    BY MasterAssumption DEF TypeOK, CyclicRequests
  <2>2. /\ target' = to /\ block' = Entry(state, to) /\ step' = "begin"
        /\ block = "idle"
        /\ UNCHANGED <<state, err, devs, masterDevs, trg, clears>>
    BY <1>1 DEF Call, slaves, triggers, world
  <2>3. \/ block' = "return" /\ state = to
        \/ /\ block' \in Blocks \ {"open_boot", "leave_boot"}
           /\ state = LevelBefore[block']
    BY <2>1, <2>2, EntryOrigin DEF LevelBefore
  <2>4. state = "init" => block' \in {"return", "open"}
    BY <2>1, <2>2 DEF Entry, ModuleState
  <2>5. Level = state /\ Level' = state
    BY <2>2, <2>3 DEF Level, Blocks
  <2>6. MasterDevsAt' = MasterDevsAt
    BY <2>1, <2>2, <2>3 DEF MasterDevsAt, MasterDevsOf, LevelBefore, Blocks, ModuleState
  <2> QED
    BY <2>2, <2>3, <2>4, <2>5, <2>6 DEF DevsInv, Calm, Acquired, Failed
<1>2. CASE Return
  BY <1>2 DEF Return, DevsInv, Calm, Failed, Acquired, Level, MasterDevsAt, Reported,
              slaves, triggers, world
<1>3. CASE ClearError
  BY <1>3 DEF ClearError, DevsInv, Calm, Failed, Acquired, Level, MasterDevsAt, control,
              DevsOf, MasterDevsOf, slaves, triggers
<1>4. CASE OpenBootFails
  BY <1>4 DEF OpenBootFails, CyclicRequests, At
<1>5. CASE \/ TickEnter \/ TickExit \/ RecvEnter \/ RecvExit \/ ClockConverges
           \/ UNCHANGED vars
  BY <1>5 DEF TickEnter, TickExit, RecvEnter, RecvExit, ClockConverges, vars, control,
              slaves, triggers, world, DevsInv, Calm, Failed, Acquired, Level, MasterDevsAt
<1>6. CASE BeginPlain \/ BeginDeinit
  BY <1>6 DEF BeginPlain, BeginDeinit, Release, CyclicRequests, At, GotoStep, slaves,
              triggers, world, DevsInv, Calm, Failed, Acquired, Level, MasterDevsAt
<1>7. CASE BeginStopRecv \/ BeginStartRecv
  BY <1>7 DEF BeginStopRecv, BeginStartRecv, At, GotoStep, slaves,
              triggers, world, DevsInv, Calm, Failed, Acquired, Level, MasterDevsAt, MasterDevs
<1>8. CASE OpenSucceeds \/ OpenFails
  <2>1. /\ At("open", "begin") /\ block' = block /\ step' = "pre"
        /\ UNCHANGED <<state, target, devs, trg, clears>>
    BY <1>8 DEF OpenSucceeds, OpenFails, CyclicRequests, At, GotoStep, triggers, world
  <2>2. Level = "init" /\ Level' = "init"
    BY <2>1 DEF Level, LevelBefore, At
  <2>3. ASSUME ~err \/ clears
        PROVE  state = "init" /\ masterDevs = {} /\ \A s \in Slaves : devs[s] = {}
    <3>1. CASE ~err
      <4>1. state = "init" /\ masterDevs = MasterDevsAt
            /\ \A s \in Slaves : devs[s] = DevsOf(s, "init")
        BY <2>1, <2>2, <3>1 DEF DevsInv, OriginInv, At
      <4> QED BY <2>1, <4>1 DEF MasterDevsAt, At, DevsOf
    <3>2. CASE err
      BY <2>3, <3>2 DEF DevsInv, Failed
    <3> QED BY <3>1, <3>2
  <2>4. CASE OpenSucceeds
    BY <2>1, <2>2, <2>3, <2>4 DEF OpenSucceeds, At, DevsInv, Failed, Acquired,
                                  MasterDevsAt, DevsOf
  <2>5. CASE OpenFails
    BY <2>1, <2>2, <2>3, <2>5 DEF OpenFails, At, DevsInv, Failed
  <2> QED BY <1>8, <2>4, <2>5
<1>9. CASE SetBus \/ SkipOnError
  BY <1>9 DEF SetBus, SkipOnError, At, GotoStep, slaves,
              triggers, world, DevsInv, Calm, Failed, Acquired, Level, MasterDevsAt
<1>10. CASE TransitionPre
  BY <1>10 DEF TransitionPre, GotoStep, slaves,
              triggers, world, DevsInv, Calm, Failed, Acquired, Level, MasterDevsAt
<1>11. CASE TransitionPost
  <2>1. /\ block \in Blocks \ {"open_boot", "leave_boot"} /\ block' = block
        /\ step = "post" /\ step' = "finish"
        /\ UNCHANGED <<state, target, masterDevs, trg, clears>>
    BY <1>11 DEF TransitionPost, GotoStep, CyclicRequests, triggers, world
  <2>2. err => err'
    BY <1>11 DEF TransitionPost
  <2>3. ASSUME ~err' PROVE \A s \in Slaves : devs'[s] = DevsOf(s, Level')
    <3>1. ~err
      BY <2>2, <2>3
    <3>2. /\ Level = LevelBefore[block] /\ Level' = Rung[block]
      BY <2>1 DEF Level, Blocks
    <3>3. state \in Origins(block)
      BY <2>1, <3>1, OriginOfCall
    <3>4. TAKE s \in Slaves
    <3>5. devs'[s] = PostTransition(devs[s], state, Rung[block], Mailbox[s],
                                    ProcessData[s])
      BY <1>11, <2>3 DEF TransitionPost
    <3>6. devs[s] = DevsOf(s, LevelBefore[block])
      BY <3>1, <3>2 DEF DevsInv
    <3> QED
      BY <2>1, <3>2, <3>3, <3>5, <3>6, PostLevel
  <2>4. ASSUME err', clears PROVE err
    BY <1>11, <2>4, MasterAssumption DEF TransitionPost, Calm
  <2>5. MasterDevsAt' = MasterDevsAt
    BY <2>1 DEF MasterDevsAt
  <2>6. Acquired' => Acquired
    BY <2>1 DEF Acquired, Level, LevelBefore, Rung, Blocks
  <2>7. CASE err
    BY <1>11, <2>1, <2>2, <2>7 DEF DevsInv, Failed, TransitionPost, Blocks
  <2> QED
    BY <2>1, <2>2, <2>3, <2>4, <2>5, <2>6, <2>7 DEF DevsInv
<1>12. CASE CloseDevice
  BY <1>12 DEF CloseDevice, CyclicRequests, GotoStep, slaves,
              triggers, world, DevsInv, Calm, Failed, Acquired, Level, MasterDevsAt
<1>13. CASE FinishPlain \/ MarkClosed \/ FinishOpen \/ FinishStartRecv
  <2>1. /\ block \in Blocks \ {"open_boot", "leave_boot"}
        /\ step \in {"finish", "mark"}
        /\ block = "deinit" => step = "mark"
        /\ block' = After(block) /\ step' = "begin"
        /\ UNCHANGED <<state, target, err, devs, clears>>
    BY <1>13 DEF FinishPlain, MarkClosed, FinishOpen, FinishStartRecv, At,
                 EnterBlock, CyclicRequests, Blocks, slaves, world
  <2>2. CASE ~err
    <3>1. Level = Rung[block] /\ Level' = Rung[block]
      BY <2>1, <2>2, AfterOrigin DEF Level, LevelBefore, Rung, Blocks, CyclicRequests
    <3>2. masterDevs = MasterDevsAt /\ (Acquired => trg)
      BY <2>2 DEF DevsInv
    <3> SUFFICES masterDevs' = MasterDevsAt' /\ (Acquired' => trg')
      BY <2>1, <2>2, <3>1 DEF DevsInv
    <3>3. CASE block \in {"stop_send", "stop_recv", "start_send"}
      <4>1. UNCHANGED <<masterDevs, trg>>
        BY <1>13, <3>3 DEF FinishPlain, MarkClosed, FinishOpen, FinishStartRecv, At,
                           triggers
      <4>2. MasterDevsAt' = MasterDevsAt
        BY <2>1, <2>2, <3>3, AfterOrigin DEF MasterDevsAt, MasterDevsOf
      <4> QED BY <2>1, <3>1, <3>2, <3>3, <4>1, <4>2 DEF Acquired
    <3>4. CASE block = "deinit"
      BY <1>13, <2>1, <2>2, <3>1, <3>2, <3>4, AfterOrigin
         DEF MarkClosed, FinishPlain, FinishOpen, FinishStartRecv, At, Acquired,
             Rung, MasterDevsAt, MasterDevsOf, CyclicRequests
    <3>5. CASE block = "open"
      BY <1>13, <2>1, <2>2, <3>1, <3>2, <3>5, AfterOrigin
         DEF MarkClosed, FinishPlain, FinishOpen, FinishStartRecv, At, Acquire,
             Acquired, MasterDevsAt, MasterDevsOf
    <3>6. CASE block = "start_recv"
      <4>1. /\ masterDevs' = masterDevs \union {"dc_inputs", "dc_sync"}
            /\ UNCHANGED trg
        BY <1>13, <2>2, <3>6 DEF FinishPlain, MarkClosed, FinishOpen,
                                 FinishStartRecv, At, triggers
      <4>2. masterDevs' = MasterDevs
        BY <2>1, <3>2, <3>6, <4>1 DEF MasterDevsAt, MasterDevs
      <4>3. MasterDevsAt' = MasterDevs
        BY <2>1, <2>2, <3>6, AfterOrigin DEF MasterDevsAt, MasterDevsOf
      <4> QED BY <3>1, <3>2, <3>6, <4>1, <4>2, <4>3 DEF Acquired, Rung
    <3> QED BY <2>1, <3>3, <3>4, <3>5, <3>6 DEF Blocks
  <2>3. CASE err /\ clears
    <3>1. block = "open" /\ After(block) = "return"
      BY <2>1, <2>3 DEF DevsInv, Failed, After, Breaks, Blocks
    <3>2. masterDevs' = masterDevs
      BY <1>13, <3>1 DEF FinishPlain, MarkClosed, FinishOpen, FinishStartRecv, At
    <3> QED BY <2>1, <2>3, <3>1, <3>2 DEF DevsInv, Failed
  <2> QED BY <2>1, <2>2, <2>3 DEF DevsInv
<1> QED
  BY <1>1, <1>2, <1>3, <1>4, <1>5, <1>6, <1>7, <1>8, <1>9, <1>10, <1>11, <1>12,
     <1>13 DEF Next, StateThread

-----------------------------------------------------------------------------
(* The start-up commands the open bus knows.                               *)

LEMMA CoeStep ==
    ASSUME TypeOK, CyclicRequests, OriginInv, DevsInv, CoeInv, [Next]_vars,
           "boot" \notin Requests
    PROVE  CoeInv'
<1> SUFFICES ASSUME Calm PROVE CoeInv'
  BY ClearsConstant DEF CoeInv, Calm
<1> SUFFICES ASSUME NEW s \in Slaves PROVE CoeOf(s)'
  BY DEF CoeInv
<1> USE DEF CoeOf
<1> UNCHANGED clears
  BY ClearsConstant
<1>0. CoeOf(s)
  BY DEF CoeInv
<1>1. ASSUME UNCHANGED <<added, data, cmds, err>>,
             ~err => (Forgotten' => Forgotten) /\ (Installed' => Installed)
      PROVE  CoeOf(s)'
  BY <1>0, <1>1
<1>2. ASSUME NEW to \in Requests, Call(to) PROVE CoeOf(s)'
  <2>1. /\ to \in ModuleState /\ state \in ModuleState
        /\ to # "boot" /\ state # "boot"
    BY MasterAssumption DEF TypeOK, CyclicRequests
  <2>2. /\ target' = to /\ block' = Entry(state, to) /\ step' = "begin"
        /\ block = "idle" /\ UNCHANGED <<state, err, added, data, cmds>>
    BY <1>2 DEF Call, slaves
  <2>3. \/ block' = "return" /\ state = to
        \/ block' \in Blocks /\ state = LevelBefore[block']
    BY <2>1, <2>2, EntryOrigin
  <2>4. Level = state /\ Level' = state
    BY <2>2, <2>3 DEF Level, Blocks
  <2> QED BY <1>1, <2>2, <2>4 DEF Forgotten, Installed
<1>3. CASE Return
  BY <1>1, <1>3 DEF Return, Reported, Forgotten, Installed, Level, slaves
<1>4. CASE ClearError
  <2>1. /\ clears /\ err /\ ~err' /\ UNCHANGED <<state, block, step, added, data, cmds>>
    BY <1>4 DEF ClearError, control, slaves
  <2>2. Level' = "init" /\ ~Installed'
    BY <1>4, <2>1 DEF ClearError, DevsInv, Failed, Level, Installed
  <2> QED BY <1>0, <2>1, <2>2
<1>5. CASE OpenBootFails
  BY <1>5 DEF OpenBootFails, CyclicRequests, At
<1>6. CASE \/ TickEnter \/ TickExit \/ RecvEnter \/ RecvExit \/ ClockConverges
           \/ UNCHANGED vars
  BY <1>1, <1>6 DEF TickEnter, TickExit, RecvEnter, RecvExit, ClockConverges, vars,
                    control, slaves, Forgotten, Installed, Level
<1>7. CASE BeginPlain \/ BeginDeinit \/ BeginStopRecv \/ BeginStartRecv
  BY <1>1, <1>7 DEF BeginPlain, BeginDeinit, BeginStopRecv, BeginStartRecv, At,
                    GotoStep, slaves, Forgotten, Installed, Level
<1>8. CASE OpenSucceeds \/ OpenFails
  <2>1. /\ At("open", "begin") /\ block' = block /\ step' = "pre"
        /\ UNCHANGED <<state, target, added, data>>
    BY <1>8 DEF OpenSucceeds, OpenFails, CyclicRequests, At, GotoStep
  <2>2. Level = "init" /\ Forgotten /\ ~Installed'
    BY <2>1 DEF Level, LevelBefore, Forgotten, Installed, At
  <2> QED BY <1>0, <1>8, <2>1, <2>2 DEF OpenSucceeds, OpenFails
<1>9. CASE TransitionPre
  <2>1. /\ block \in Blocks /\ step = "pre" /\ block' = block /\ step' = "bus"
        /\ UNCHANGED <<state, target>>
    BY <1>9 DEF TransitionPre, GotoStep
  <2>2. err => err'
    BY <1>9 DEF TransitionPre
  <2> DEFINE flags == PreFlags(added[s], state, Rung[block])
  <2>3. flags \subseteq added[s]
    BY DEF PreFlags
  <2>4. CASE ~err'
    <3>1. ~err /\ state \in Origins(block)
      BY <2>1, <2>2, <2>4, OriginOfCall
    <3>2. IF StartsReceiving(state, Rung[block])
          THEN /\ added'[s] = flags \union data'[s]
               /\ cmds'[s] = cmds[s] \union (data'[s] \ flags)
          ELSE /\ added'[s] = flags /\ cmds'[s] = cmds[s]
               /\ data'[s] = data[s]
      <4>1. PICK handed \in [Slaves -> SUBSET CmdKinds] :
              /\ added' = [t \in Slaves |->
                     PreFlags(added[t], state, Rung[block]) \union handed[t]]
              /\ cmds' = [t \in Slaves |-> cmds[t] \union handed[t]]
              /\ ~StartsReceiving(state, Rung[block]) =>
                     data' = data /\ \A t \in Slaves : handed[t] = {}
              /\ StartsReceiving(state, Rung[block]) =>
                     \A t \in Slaves : handed[t] =
                         data'[t] \ PreFlags(added[t], state, Rung[block])
        BY <1>9, <2>4, PreEffect
      <4>2. /\ added'[s] = flags \union handed[s]
            /\ cmds'[s] = cmds[s] \union handed[s]
        BY <4>1
      <4>3. CASE StartsReceiving(state, Rung[block])
        BY <4>1, <4>2, <4>3
      <4>4. CASE ~StartsReceiving(state, Rung[block])
        BY <4>1, <4>2, <4>4
      <4> QED BY <4>3, <4>4
    <3>3. Level' = Level
      BY <2>1 DEF Level
    <3>4. CASE StartsReceiving(state, Rung[block])
      <4>1. block \in {"start_recv", "start_send"}
        BY <2>1, <3>1, <3>4 DEF StartsReceiving, Rung, Origins, Blocks
      <4>2. ~Forgotten'
        BY <2>1, <4>1 DEF Forgotten, Level, LevelBefore
      <4> QED BY <1>0, <2>3, <2>4, <3>1, <3>2, <3>4, <4>2
    <3>5. CASE ~StartsReceiving(state, Rung[block])
      <4>1. block # "start_recv"
        BY <2>1, <3>1, <3>5 DEF StartsReceiving, Rung, Origins
      <4>2. Installed' => Installed
        BY <2>1, <4>1 DEF Installed, Level
      <4>3. CASE block = "deinit"
        <5>1. flags \intersect CoeKinds = {}
          BY <3>1, <4>3 DEF PreFlags, ForgetsCoe, Rung, Origins
        <5> QED BY <1>0, <2>4, <3>1, <3>2, <3>5, <4>2, <5>1
      <4>4. CASE block # "deinit"
        <5>1. Forgotten' => Forgotten
          BY <2>1, <4>4 DEF Forgotten, Level
        <5> QED BY <1>0, <2>3, <2>4, <3>1, <3>2, <3>5, <4>2, <5>1
      <4> QED BY <4>3, <4>4
    <3> QED BY <3>4, <3>5
  <2>5. CASE err' /\ clears
    <3>1. err /\ block = "open" /\ state = "init"
      BY <1>9, <2>1, <2>5, MasterAssumption DEF TransitionPre, Calm, DevsInv, Failed, Blocks
    <3>2. ~StartsReceiving(state, Rung[block])
      BY <3>1 DEF StartsReceiving, Rung
    <3>3. added'[s] = flags
      <4> PICK handed \in [Slaves -> SUBSET CmdKinds] :
              /\ added' = [t \in Slaves |->
                     PreFlags(added[t], state, Rung[block]) \union handed[t]]
              /\ \A t \in Slaves : handed[t] = {}
        BY <1>9, <3>2, PreEffect
      <4> QED OBVIOUS
    <3> QED BY <1>0, <2>3, <2>5, <3>1, <3>3
  <2> QED BY <2>4, <2>5
<1>10. CASE TransitionPost
  <2>1. /\ block \in Blocks /\ step = "post" /\ block' = block /\ step' = "finish"
        /\ UNCHANGED <<state, target, added, data, cmds>>
    BY <1>10 DEF TransitionPost, GotoStep
  <2>2. err => err'
    BY <1>10 DEF TransitionPost
  <2>3. err' /\ clears => err
    BY <1>10, MasterAssumption DEF TransitionPost, Calm
  <2>4. (Forgotten' => Forgotten) /\ (Installed' => Installed)
    BY <2>1 DEF Forgotten, Installed, Level, LevelBefore, Rung, Blocks,
                 CyclicRequests
  <2> QED BY <1>0, <2>1, <2>2, <2>3, <2>4
<1>11. CASE SetBus \/ SkipOnError \/ CloseDevice
  <2>1. UNCHANGED <<state, target, block, added, data, cmds, err>>
    BY <1>11 DEF SetBus, SkipOnError, CloseDevice, GotoStep, slaves
  <2>2. ~err => (Forgotten' => Forgotten) /\ (Installed' => Installed)
    BY <1>11, <2>1 DEF SetBus, SkipOnError, CloseDevice, GotoStep, Forgotten, Installed,
                 Level
  <2> QED BY <1>1, <2>1, <2>2
<1>12. CASE FinishPlain \/ MarkClosed \/ FinishOpen \/ FinishStartRecv
  <2>1. /\ block \in Blocks \ {"open_boot", "leave_boot"}
        /\ step \in {"finish", "mark"}
        /\ block' = After(block) /\ step' = "begin"
        /\ UNCHANGED <<state, target, err, added, data, cmds>>
    BY <1>12 DEF FinishPlain, MarkClosed, FinishOpen, FinishStartRecv, At,
                 EnterBlock, CyclicRequests, Blocks, slaves
  <2>2. ASSUME ~err PROVE Level = Rung[block] /\ Level' = Rung[block]
    BY <2>1, <2>2, AfterOrigin DEF Level, LevelBefore, Rung, Blocks, CyclicRequests
  <2>3. ~err => (Forgotten' => Forgotten) /\ (Installed' => Installed)
    BY <2>1, <2>2 DEF Forgotten, Installed
  <2> QED BY <1>1, <2>1, <2>3
<1> QED
  BY <1>2, <1>3, <1>4, <1>5, <1>6, <1>7, <1>8, <1>9, <1>10, <1>11, <1>12
     DEF Next, StateThread

-----------------------------------------------------------------------------
(* The bus in OP.                                                          *)

LEMMA OpStep ==
    ASSUME TypeOK, CyclicRequests, OriginInv, OpInv, [Next]_vars,
           "boot" \notin Requests, Faults \subseteq {"open", "pre"}
    PROVE  OpInv'
<1> USE DEF OpInv
<1>1. ASSUME NEW to \in Requests, Call(to) PROVE OpInv'
  BY <1>1 DEF Call, Entry
<1>2. CASE Return \/ ClearError
  BY <1>2 DEF Return, Reported, ClearError, control
<1>3. CASE OpenSucceeds \/ OpenFails \/ OpenBootFails
  BY <1>3 DEF OpenSucceeds, OpenFails, OpenBootFails, OpenAborted, FreshBus, At,
              GotoStep, CyclicRequests
<1>4. CASE \/ TickEnter \/ TickExit \/ RecvEnter \/ RecvExit \/ ClockConverges
           \/ UNCHANGED vars
  BY <1>4 DEF TickEnter, TickExit, RecvEnter, RecvExit, ClockConverges, vars, control
<1>5. CASE BeginPlain \/ BeginDeinit \/ BeginStopRecv \/ BeginStartRecv
  BY <1>5 DEF BeginPlain, BeginDeinit, BeginStopRecv, BeginStartRecv, At, GotoStep
<1>6. CASE TransitionPre
  <2>1. /\ block \in Blocks /\ step = "pre" /\ step' = "bus"
        /\ UNCHANGED <<bus, state, target, block>>
    BY <1>6 DEF TransitionPre, GotoStep
  <2>2. ASSUME bus = "op" PROVE ~err /\ state = "op"
    BY <2>1, <2>2 DEF OriginInv, Blocks
  <2>3. ASSUME bus = "op" PROVE ~StartsReceiving(state, Rung[block])
    BY <2>2, <2>3 DEF StartsReceiving
  <2>4. ASSUME bus = "op" PROVE ~err'
    BY <1>6, <2>2, <2>3, <2>4 DEF TransitionPre
  <2> QED BY <2>1, <2>4
<1>7. CASE SetBus
  BY <1>7 DEF SetBus, SwitchBus, GotoStep, Rung, Blocks
<1>8. CASE SkipOnError \/ CloseDevice
  BY <1>8 DEF SkipOnError, CloseDevice, GotoStep
<1>9. CASE TransitionPost
  BY <1>9 DEF TransitionPost, GotoStep
<1>10. CASE FinishPlain \/ MarkClosed \/ FinishOpen \/ FinishStartRecv
  <2>1. /\ block \in Blocks /\ block' = After(block) /\ step' = "begin"
        /\ step \in {"finish", "mark"}
        /\ UNCHANGED <<state, target, err, bus>>
    BY <1>10 DEF FinishPlain, MarkClosed, FinishOpen, FinishStartRecv, At,
                 EnterBlock, Blocks
  <2>2. ASSUME ~err, block = "start_send"
        PROVE  After(block) = "return" /\ target = "op"
    BY <2>1, <2>2, AfterOrigin
  <2> QED BY <2>1, <2>2 DEF Blocks
<1> QED
  BY <1>1, <1>2, <1>3, <1>4, <1>5, <1>6, <1>7, <1>8, <1>9, <1>10 DEF Next, StateThread

-----------------------------------------------------------------------------
(* The services of INIT and BOOT.                                          *)

LEMMA BootStep ==
    ASSUME TypeOK, OriginInv, BootInv, [Next]_vars
    PROVE  BootInv'
<1> SUFFICES ASSUME ~clears, ~err', NEW s \in Slaves
             PROVE  devs'[s] \subseteq Allowed(Level')
  BY ClearsConstant DEF BootInv
<1>1. ~err
  BY DEF Next, StateThread, vars, Call, Return, ClearError, BeginPlain,
         BeginStopRecv, BeginDeinit, BeginStartRecv, OpenSucceeds, OpenFails,
         OpenBootFails, TransitionPre, SetBus, SkipOnError, TransitionPost,
         FinishPlain, CloseDevice, MarkClosed, FinishOpen, FinishStartRecv,
         TickEnter, TickExit, RecvEnter, RecvExit, ClockConverges
<1>2. devs[s] \subseteq Allowed(Level)
  BY <1>1 DEF BootInv
<1>3. ASSUME UNCHANGED devs, Level' = Level PROVE devs'[s] \subseteq Allowed(Level')
  BY <1>2, <1>3
<1>4. ASSUME NEW to \in Requests, Call(to) PROVE devs'[s] \subseteq Allowed(Level')
  <2>1. to \in ModuleState /\ state \in ModuleState
    BY MasterAssumption DEF TypeOK
  <2>2. /\ target' = to /\ block' = Entry(state, to) /\ step' = "begin"
        /\ block = "idle" /\ UNCHANGED <<state, devs>>
    BY <1>4 DEF Call, slaves
  <2>3. \/ block' = "return" /\ state = to
        \/ block' \in Blocks /\ state = LevelBefore[block']
    BY <2>1, <2>2, EntryOrigin
  <2>4. Level = state /\ Level' = state
    BY <2>2, <2>3 DEF Level, Blocks
  <2> QED BY <1>3, <2>2, <2>4
<1>5. CASE Return
  BY <1>1, <1>3, <1>5 DEF Return, Reported, Level, slaves
<1>6. CASE OpenBootFails
  BY <1>1, <1>3, <1>6 DEF OpenBootFails, OriginInv, Level, LevelBefore, At
<1>7. CASE \/ ClearError \/ TickEnter \/ TickExit \/ RecvEnter \/ RecvExit
           \/ ClockConverges \/ UNCHANGED vars
  BY <1>3, <1>7 DEF ClearError, TickEnter, TickExit, RecvEnter, RecvExit,
                    ClockConverges, vars, control, slaves, Level
<1>8. CASE BeginPlain \/ BeginDeinit \/ BeginStopRecv \/ BeginStartRecv
  BY <1>3, <1>8 DEF BeginPlain, BeginDeinit, BeginStopRecv, BeginStartRecv, At,
                    GotoStep, slaves, Level
<1>9. CASE OpenSucceeds \/ OpenFails \/ TransitionPre
  BY <1>3, <1>9 DEF OpenSucceeds, OpenFails, TransitionPre, At, GotoStep, Level
<1>10. CASE SetBus \/ SkipOnError \/ CloseDevice
  BY <1>1, <1>3, <1>10 DEF SetBus, SkipOnError, CloseDevice, GotoStep, slaves, Level
<1>11. CASE TransitionPost
  <2>1. /\ block \in Blocks /\ step = "post" /\ block' = block /\ step' = "finish"
        /\ UNCHANGED <<state, target>>
    BY <1>11 DEF TransitionPost, GotoStep
  <2>2. devs'[s] = PostTransition(devs[s], state, Rung[block], Mailbox[s],
                                  ProcessData[s])
    BY <1>11 DEF TransitionPost
  <2>3. Level = LevelBefore[block] /\ Level' = Rung[block]
    BY <2>1 DEF Level, Blocks
  <2>4. state \in Origins(block)
    BY <1>1, <2>1, OriginOfCall
  <2> QED BY <1>2, <2>1, <2>2, <2>3, <2>4, PostAllowed
<1>12. CASE FinishPlain \/ MarkClosed \/ FinishOpen \/ FinishStartRecv
  <2>1. /\ block \in Blocks /\ step \in {"finish", "mark"}
        /\ block' = After(block) /\ step' = "begin"
        /\ UNCHANGED <<state, target, devs>>
    BY <1>12 DEF FinishPlain, MarkClosed, FinishOpen, FinishStartRecv, At,
                 EnterBlock, Blocks, slaves
  <2>2. Level = Rung[block]
    BY <2>1 DEF Level, Blocks
  <2>3. CASE block \in {"deinit", "leave_boot"}
    BY <1>2, <2>1, <2>2, <2>3 DEF Rung, Allowed
  <2>4. CASE block \notin {"deinit", "leave_boot"}
    <3>1. Level' = Rung[block]
      BY <1>1, <2>1, <2>4, AfterOrigin DEF Level, LevelBefore, Rung, Blocks
    <3> QED BY <1>3, <2>1, <2>2, <3>1
  <2> QED BY <2>3, <2>4
<1> QED
  BY <1>4, <1>5, <1>6, <1>7, <1>8, <1>9, <1>10, <1>11, <1>12 DEF Next, StateThread

-----------------------------------------------------------------------------
(* The theorems.                                                           *)

DeviceInv == TypeOK /\ CyclicRequests /\ OriginInv /\ DevsInv /\ CoeInv

LEMMA DeviceInvariant ==
    ASSUME "boot" \notin Requests
    PROVE  Spec => []DeviceInv
<1>1. Init => DeviceInv
  BY TypeInit DEF Init, DeviceInv, CyclicRequests, OriginInv, UpwardRequests, DevsInv,
                  CoeInv, CoeOf, Level, Forgotten, Installed, Acquired, MasterDevsAt,
                  MasterDevsOf, DevsOf
<1>2. DeviceInv /\ [Next]_vars => DeviceInv'
  BY TypeStep, CyclicStep, OriginStep, DevsStep, CoeStep DEF DeviceInv
<1> QED
  BY <1>1, <1>2, PTL DEF Spec

(* As long as boot is not requested, the devices registered between two    *)
(* calls without error are those of the reported state (slave.cpp:772-979, *)
(* master.cpp:739-967), for every slave, configuration and fault.  If the  *)
(* robot kernel clears errors this needs that only the opening of the bus  *)
(* and the bus's state change fail: a start that failed in a slave leaves  *)
(* devices behind that no later call removes.                              *)
THEOREM DevicesMatchState ==
    ASSUME "boot" \notin Requests
    PROVE  Spec => [](Calm => DevicesOfState)
<1>1. DeviceInv => (Calm => DevicesOfState)
  BY DEF DeviceInv, DevsInv, DevicesOfState, Idle, Level, MasterDevsAt
<1> QED
  BY <1>1, DeviceInvariant, PTL

(* Under the same assumptions every CoE start-up command that has data is  *)
(* known to the open bus when a state with process data is reported: the   *)
(* already_added flags (slave.cpp:607-655, 679-686) are cleared before the *)
(* bus that got the commands is closed.  Commands whose value was not      *)
(* converted are left out without a word, and the theorem with them.       *)
THEOREM CoeCommandsReachBus ==
    ASSUME "boot" \notin Requests
    PROVE  Spec => [](Calm => CoeCommandsInstalled)
<1>1. DeviceInv => (Calm => CoeCommandsInstalled)
  BY DEF DeviceInv, CoeInv, CoeOf, CoeCommandsInstalled, Idle, Level, Installed
<1> QED
  BY <1>1, DeviceInvariant, PTL

(* The bus is in OP only with the trigger acquired and every process data  *)
(* device registered (master.cpp:884-967), when the opening of the bus may *)
(* fail and, if errors are not cleared, the start of a slave as well.      *)
THEOREM OutputsNeedDevices ==
    ASSUME "boot" \notin Requests, Faults \subseteq {"open", "pre"}
    PROVE  Spec => [](Calm => OutputsBound)
<1>1. DeviceInv /\ OpInv /\ [Next]_vars => OpInv'
  BY OpStep DEF DeviceInv
<1>2. Init => OpInv
  BY DEF Init, OpInv
<1>3. ASSUME DeviceInv, OpInv, Calm, bus = "op"
      PROVE  trg /\ \A s \in Slaves : ProcessData[s] \subseteq devs[s]
  <2>1. Level \in {"safeop", "op"} /\ block \notin {"deinit", "open"}
    BY <1>3 DEF OpInv, Level, LevelBefore, Rung
  <2>2. /\ trg
        /\ \A s \in Slaves : devs[s] = DevsOf(s, Level)
    BY <1>3, <2>1 DEF OpInv, DeviceInv, DevsInv, Acquired
  <2> QED BY <2>1, <2>2 DEF DevsOf
<1>4. DeviceInv /\ OpInv => (Calm => OutputsBound)
  BY <1>3 DEF OutputsBound
<1> QED
  BY <1>1, <1>2, <1>4, DeviceInvariant, PTL DEF Spec

(* Without cleared errors INIT leaves no device of a slave and BOOT only   *)
(* the services without a mailbox protocol other than FoE                  *)
(* (slave.cpp:846-869), with every fault and whatever is requested.        *)
THEOREM BootLeavesServices == Spec => []BootServicesOnly
<1> DEFINE I == TypeOK /\ OriginInv /\ BootInv
<1>1. Init => I
  BY TypeInit DEF Init, OriginInv, UpwardRequests, BootInv
<1>2. I /\ [Next]_vars => I'
  BY TypeStep, OriginStep, BootStep
<1>3. I => BootServicesOnly
  BY DEF BootInv, BootServicesOnly, Idle, Level, Allowed
<1> QED
  BY <1>1, <1>2, <1>3, PTL DEF Spec

=============================================================================
