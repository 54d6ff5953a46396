------------------------------- MODULE Master -------------------------------
(***************************************************************************)
(* The state machine of one EtherCAT master: master::set_state with        *)
(* master::open and master::state_transition, run by the thread of the     *)
(* robot kernel that requests states, next to the trigger threads that     *)
(* call tick (or send_trigger and recv_trigger) and to the distributed     *)
(* clock callback.                                                         *)
(*                                                                         *)
(* set_state is one switch whose cases fall through.  `block' names the    *)
(* case the state thread is in, `step' how far it is inside the case: the  *)
(* statements before state_transition ("begin"), the three parts of        *)
(* state_transition ("pre", "bus", "post") and the statements after it     *)
(* ("finish", "mark").                                                     *)
(***************************************************************************)
EXTENDS SlaveTransition

CONSTANTS
    Slaves,         \* slaves the configuration names
    Mailbox,        \* mailbox services each slave supports
    ProcessData,    \* process data directions each slave has
    InitCmds,       \* kinds of start-up command configured for each slave
    Requests,       \* states the robot kernel asks for
    Faults,         \* what may fail: "open", "pre", "post", "al"
    SplitTrigger,   \* a separate receive trigger is configured
    HaveDc          \* a slave has a distributed clock, the mode is ref_clock

ASSUME MasterAssumption ==
    /\ Mailbox \in [Slaves -> SUBSET MailboxDevs]
    /\ ProcessData \in [Slaves -> SUBSET ProcessDataDevs]
    /\ InitCmds \in [Slaves -> SUBSET CmdKinds]
    /\ Requests \subseteq ModuleState
    /\ Faults \subseteq {"open", "pre", "post", "al"}
    /\ {SplitTrigger, HaveDc} \subseteq BOOLEAN

VARIABLES
    state,          \* this->state without its error bit: what is reported
    err,            \* is_error()
    target,         \* parameter of the set_state call in progress
    block,          \* case of the switch the state thread is in, or "idle"
    step,           \* position inside the case
    bus,            \* application layer state of the slaves
    hw,             \* the network device is open
    ec_opened,      \* master::ec_opened
    devs,           \* devices each slave has registered
    added,          \* kinds of command whose already_added flags are set
    data,           \* kinds of command that have data
    cmds,           \* kinds of command the open bus knows for each slave
    masterDevs,     \* devices the master itself has registered
    trg,            \* the send trigger is acquired
    recvTrg,        \* the receive trigger is acquired
    tick,           \* thread of the send trigger: "idle" or in the callback
    recv,           \* thread of the receive trigger, the same
    converged,      \* dc_sync.diff_converged
    clears          \* whether the error flag is cleared between requests

control  == <<target, block, step>>
device   == <<hw, ec_opened>>
slaves   == <<devs, added, data, cmds>>
triggers == <<trg, recvTrg>>
threads  == <<tick, recv>>
world    == <<converged, clears>>
vars     == <<state, err, control, bus, device, slaves, masterDevs, triggers,
              threads, world>>

Blocks == {"stop_send", "stop_recv", "deinit", "open_boot", "leave_boot",
           "open", "start_recv", "start_send"}

MasterDevs == {"canopen", "recv_error", "dc_inputs", "dc_sync"}

TypeOK ==
    /\ state \in ModuleState /\ target \in ModuleState /\ bus \in ModuleState
    /\ err \in BOOLEAN
    /\ block \in Blocks \union {"idle", "return"}
    /\ step \in {"begin", "pre", "bus", "post", "finish", "mark"}
    /\ hw \in BOOLEAN /\ ec_opened \in BOOLEAN
    /\ devs \in [Slaves -> SUBSET SlaveDevs]
    /\ added \in [Slaves -> SUBSET CmdKinds]
    /\ data \in [Slaves -> SUBSET CmdKinds]
    /\ cmds \in [Slaves -> SUBSET CmdKinds]
    /\ masterDevs \in SUBSET MasterDevs
    /\ trg \in BOOLEAN /\ recvTrg \in BOOLEAN
    /\ tick \in {"idle", "in"} /\ recv \in {"idle", "in"}
    /\ {converged, clears} \subseteq BOOLEAN

Init ==
    /\ state = "init" /\ err = FALSE /\ target = "init"
    /\ block = "idle" /\ step = "begin"
    /\ bus = "init" /\ hw = FALSE /\ ec_opened = FALSE
    /\ devs = [s \in Slaves |-> {}]
    /\ added = [s \in Slaves |-> {}] /\ cmds = [s \in Slaves |-> {}]
    /\ data = [s \in Slaves |-> InitCmds[s] \ {"coe_value"}]
    /\ masterDevs = {} /\ trg = FALSE /\ recvTrg = FALSE
    /\ tick = "idle" /\ recv = "idle"
    /\ converged = FALSE /\ clears \in BOOLEAN

-----------------------------------------------------------------------------
(* The switch of set_state.                                                *)

(* The case that GEN_STATE(from, to) selects; "return" where it breaks     *)
(* at once.                                                                *)
Entry(from, to) ==
    CASE from = "op" /\ to # "op"                            -> "stop_send"
      [] from = "safeop" /\ to \in {"preop", "init", "boot"} -> "stop_recv"
      [] from = "preop" /\ to \in {"init", "boot"}           -> "deinit"
      [] from = "init" /\ to = "boot"                        -> "open_boot"
      [] from = "boot" /\ to # "boot"                        -> "leave_boot"
      [] from = "init" /\ to \in {"preop", "safeop", "op"}   -> "open"
      [] from = "preop" /\ to \in {"safeop", "op"}           -> "start_recv"
      [] from = "safeop" /\ to = "op"                        -> "start_send"
      [] OTHER                                               -> "return"

(* Mutant: start_recv and start_send are swapped. *)
RungSwapped ==
    [stop_send |-> "safeop", stop_recv |-> "preop", deinit |-> "init",
     open_boot |-> "boot", leave_boot |-> "init", open |-> "preop",
     start_recv |-> "op", start_send |-> "safeop"]

(* Mutant: the conversion to bus states has no line for op. *)
RungIncomplete ==
    [stop_send |-> "safeop", stop_recv |-> "preop", deinit |-> "init",
     open_boot |-> "boot", leave_boot |-> "init", open |-> "preop",
     start_recv |-> "safeop", start_send |-> "none"]

(* The state each case hands to state_transition. *)
Rung ==
    [stop_send |-> "safeop", stop_recv |-> "preop", deinit |-> "init",
     open_boot |-> "boot", leave_boot |-> "init", open |-> "preop",
     start_recv |-> "safeop", start_send |-> "op"]

(* The case below, which is entered unless the break is taken. *)
Below ==
    [stop_send |-> "stop_recv", stop_recv |-> "deinit", deinit |-> "open_boot",
     leave_boot |-> "open", open |-> "start_recv", start_recv |-> "start_send"]

(* Mutant: start_recv does not stop at a request for safeop. *)
BreaksTooLate(b) ==
    \/ b = "stop_send" /\ target = "safeop"
    \/ b \in {"stop_recv", "open"} /\ target = "preop"
    \/ b \in {"deinit", "leave_boot"} /\ (~err \/ target = "init")
    \/ b \in {"open", "start_recv"} /\ err
    \/ b \in {"open_boot", "start_send"}

(* The conditions of the breaks at the end of the cases. *)
Breaks(b) ==
    \/ b \in {"stop_send", "start_recv"} /\ target = "safeop"
    \/ b \in {"stop_recv", "open"} /\ target = "preop"
    \/ b \in {"deinit", "leave_boot"} /\ (~err \/ target = "init")
    \/ b \in {"open", "start_recv"} /\ err
    \/ b \in {"open_boot", "start_send"}

After(b) == IF Breaks(b) THEN "return" ELSE Below[b]

At(b, s) == block = b /\ step = s

GotoStep(s) == step' = s /\ UNCHANGED <<block, target>>

EnterBlock(b) == block' = b /\ step' = "begin" /\ UNCHANGED target

-----------------------------------------------------------------------------
(* set_state: the call and the return.                                     *)

Call(to) ==
    /\ block = "idle"
    /\ target' = to /\ block' = Entry(state, to) /\ step' = "begin"
    /\ UNCHANGED <<state, err, bus, device, slaves, masterDevs, triggers,
                   threads, world>>

Reported == IF err THEN state ELSE target

Return ==
    /\ block = "return"
    /\ state' = Reported
    /\ block' = "idle" /\ UNCHANGED <<target, step>>
    /\ UNCHANGED <<err, bus, device, slaves, masterDevs, triggers, threads, world>>

(* The robot kernel acknowledges an error between two requests. *)
ClearError ==
    /\ clears /\ block = "idle" /\ err
    /\ err' = FALSE
    /\ UNCHANGED <<state, control, bus, device, slaves, masterDevs, triggers,
                   threads, world>>

-----------------------------------------------------------------------------
(* The statements of each case before its state_transition.                *)

(* These cases start with their state_transition. *)
BeginPlain ==
    /\ block \in {"stop_send", "leave_boot", "start_send"} /\ step = "begin"
    /\ GotoStep("pre")
    /\ UNCHANGED <<state, err, bus, device, slaves, masterDevs, triggers,
                   threads, world>>

BeginStopRecv ==
    /\ At("stop_recv", "begin") /\ GotoStep("pre")
    /\ masterDevs' = masterDevs \ {"dc_sync", "dc_inputs", "recv_error"}
    /\ UNCHANGED <<state, err, bus, device, slaves, triggers, threads, world>>

(* Mutant: release() does not wait for a running callback. *)
ReleaseNoWait == trg' = FALSE /\ UNCHANGED recvTrg

(* trg->release() unregisters the callback under the lock the trigger      *)
(* holds while it runs its callbacks.  recv_trg is left as it is: the else *)
(* branch that names it is taken only without a send trigger.              *)
Release == tick = "idle" /\ trg' = FALSE /\ UNCHANGED recvTrg

BeginDeinit ==
    /\ At("deinit", "begin") /\ GotoStep("pre")
    /\ Release
    /\ UNCHANGED <<state, err, bus, device, slaves, masterDevs, threads, world>>

BeginStartRecv ==
    /\ At("start_recv", "begin") /\ GotoStep("pre")
    /\ masterDevs' = masterDevs \union {"recv_error"}
    /\ UNCHANGED <<state, err, bus, device, slaves, triggers, threads, world>>

-----------------------------------------------------------------------------
(* master::open.                                                           *)

(* A freshly opened bus is in INIT and knows no start-up command. *)
FreshBus ==
    /\ hw' = TRUE /\ ec_opened' = TRUE
    /\ bus' = "init" /\ cmds' = [s \in Slaves |-> {}]

OpenSucceeds ==
    /\ block \in {"open", "open_boot"} /\ step = "begin"
    /\ FreshBus
    /\ masterDevs' = IF block = "open" /\ ~err
                     THEN masterDevs \union {"canopen"} ELSE masterDevs
    /\ GotoStep("pre")
    /\ UNCHANGED <<state, err, devs, added, data, triggers, threads, world>>

(* How far open() got when it threw: no network device (nothing changed),  *)
(* ec_open failed with the device open, or the slaves found are not the    *)
(* configured ones with the bus already open.                              *)
OpenAborted ==
    \/ UNCHANGED <<device, bus, cmds>>
    \/ hw' = TRUE /\ UNCHANGED <<ec_opened, bus, cmds>>
    \/ FreshBus

(* The exception flags an error and the case goes on. *)
OpenFails ==
    /\ At("open", "begin") /\ "open" \in Faults
    /\ OpenAborted
    /\ err' = TRUE /\ GotoStep("pre")
    /\ UNCHANGED <<state, devs, added, data, masterDevs, triggers, threads, world>>

(* On the way to boot set_state returns init at once: no error is flagged, *)
(* this->state keeps its value.                                            *)
OpenBootFails ==
    /\ At("open_boot", "begin") /\ "open" \in Faults
    /\ OpenAborted
    /\ block' = "idle" /\ UNCHANGED <<target, step>>
    /\ UNCHANGED <<state, err, devs, added, data, masterDevs, triggers, threads,
                   world>>

-----------------------------------------------------------------------------
(* master::state_transition: pre on every slave, the bus, post on every    *)
(* slave.  `from' is this->state, the state before the call, on every rung.*)

(* The slaves in Failed throw in add_init_cmds, where a value cannot be    *)
(* converted: those in Partly after their commands with data, the others   *)
(* before.  The descriptions of the slaves in Described can be read.       *)
TransitionPre ==
    /\ block \in Blocks /\ step = "pre" /\ GotoStep("bus")
    /\ \E Failed, Partly, Described \in SUBSET Slaves :
         LET rung      == Rung[block]
             starts    == StartsReceiving(state, rung)
             flags(s)  == PreFlags(added[s], state, rung)
             ready(s)  == IF s \notin Failed THEN data'[s]
                          ELSE IF s \in Partly THEN data[s] \intersect CoeKinds
                          ELSE {}
             handed(s) == IF starts THEN NewCmds(ready(s), flags(s)) ELSE {}
         IN  /\ Failed # {} => "pre" \in Faults /\ starts
             /\ Partly \subseteq Failed /\ Described \intersect Failed = {}
             /\ \A s \in Failed : "coe_value" \in InitCmds[s] \ data[s]
             /\ err' = (err \/ Failed # {})
             /\ data' = [s \in Slaves |->
                    WithData(InitCmds[s], data[s], starts /\ s \in Described)]
             /\ added' = [s \in Slaves |-> flags(s) \union handed(s)]
             /\ cmds' = [s \in Slaves |-> cmds[s] \union handed(s)]
    /\ UNCHANGED <<state, bus, device, devs, masterDevs, triggers, threads, world>>

(* ec_set_state; what it returns is not looked at. *)
SwitchBus == bus' = Rung[block] \/ ("al" \in Faults /\ UNCHANGED bus)

SetBus ==
    /\ block \in Blocks /\ step = "bus" /\ ~err /\ GotoStep("post")
    /\ SwitchBus
    /\ UNCHANGED <<state, err, device, slaves, masterDevs, triggers, threads, world>>

SkipOnError ==
    /\ block \in Blocks /\ step = "bus" /\ err /\ GotoStep("finish")
    /\ UNCHANGED <<state, err, bus, device, slaves, masterDevs, triggers,
                   threads, world>>

TransitionPost ==
    /\ block \in Blocks /\ step = "post" /\ GotoStep("finish")
    /\ \E Failed \in SUBSET Slaves, made \in SUBSET ProcessDataDevs :
         LET rung == Rung[block]
         IN  /\ Failed # {} => "post" \in Faults /\ StartsReceiving(state, rung)
             /\ \A s \in Failed : made \subseteq ProcessData[s]
                                  /\ made # ProcessData[s]
             /\ err' = (err \/ Failed # {})
             /\ devs' = [s \in Slaves |->
                  IF s \in Failed
                  THEN PostTransitionThrown(devs[s], state, rung, Mailbox[s], made)
                  ELSE PostTransition(devs[s], state, rung, Mailbox[s],
                                      ProcessData[s])]
    /\ UNCHANGED <<state, bus, device, added, data, cmds, masterDevs, triggers,
                   threads, world>>

-----------------------------------------------------------------------------
(* The statements of each case after its state_transition.                 *)

FinishPlain ==
    /\ block \in {"stop_send", "stop_recv", "open_boot", "start_send"}
    /\ step = "finish" /\ EnterBlock(After(block))
    /\ UNCHANGED <<state, err, bus, device, slaves, masterDevs, triggers,
                   threads, world>>

(* Mutant: the device is closed only on the way from op. *)
CloseFromOp == hw' = (hw /\ state # "op")

Close == hw' = FALSE

(* ec_close, after deinit also the master's CoE service is removed ... *)
CloseDevice ==
    /\ block \in {"deinit", "leave_boot"} /\ step = "finish" /\ GotoStep("mark")
    /\ Close
    /\ masterDevs' = IF block = "deinit" THEN masterDevs \ {"canopen"}
                     ELSE masterDevs
    /\ UNCHANGED <<state, err, bus, ec_opened, slaves, triggers, threads, world>>

(* ... and only then ec_opened is cleared. *)
MarkClosed ==
    /\ block \in {"deinit", "leave_boot"} /\ step = "mark"
    /\ ec_opened' = FALSE /\ EnterBlock(After(block))
    /\ UNCHANGED <<state, err, bus, hw, slaves, masterDevs, triggers, threads, world>>

(* Mutant: only the receive trigger is acquired. *)
AcquireNoSend == recvTrg' = (recvTrg \/ ~err) /\ UNCHANGED trg

Acquire == trg' = (trg \/ ~err) /\ recvTrg' = (recvTrg \/ (~err /\ SplitTrigger))

FinishOpen ==
    /\ At("open", "finish") /\ EnterBlock(After("open"))
    /\ Acquire
    /\ UNCHANGED <<state, err, bus, device, slaves, masterDevs, threads, world>>

(* The loop that waits for the distributed clock has no other exit. *)
ClockReady == HaveDc => converged

FinishStartRecv ==
    /\ At("start_recv", "finish") /\ EnterBlock(After("start_recv"))
    /\ ~err => ClockReady
    /\ masterDevs' = IF err THEN masterDevs
                     ELSE masterDevs \union {"dc_inputs", "dc_sync"}
    /\ UNCHANGED <<state, err, bus, device, slaves, triggers, threads, world>>

-----------------------------------------------------------------------------
(* The trigger threads and the distributed clock callback.                 *)

(* tick() and send_trigger() return at once while the bus is not open. *)
TickEnter ==
    /\ trg /\ tick = "idle" /\ ec_opened /\ tick' = "in"
    /\ UNCHANGED <<state, err, control, bus, device, slaves, masterDevs,
                   triggers, recv, world>>

TickExit ==
    /\ tick = "in" /\ tick' = "idle"
    /\ UNCHANGED <<state, err, control, bus, device, slaves, masterDevs,
                   triggers, recv, world>>

(* recv_trigger() does not look at ec_opened. *)
RecvEnter ==
    /\ recvTrg /\ recv = "idle" /\ recv' = "in"
    /\ UNCHANGED <<state, err, control, bus, device, slaves, masterDevs,
                   triggers, tick, world>>

RecvExit ==
    /\ recv = "in" /\ recv' = "idle"
    /\ UNCHANGED <<state, err, control, bus, device, slaves, masterDevs,
                   triggers, tick, world>>

(* recv_dc with a difference inside the margin, often enough to pass       *)
(* diff_converge_cycles.  Callbacks with other differences change nothing  *)
(* that is modelled here.                                                  *)
ClockConverges ==
    /\ HaveDc /\ hw /\ trg /\ ec_opened
    /\ converged' = TRUE
    /\ UNCHANGED <<state, err, control, bus, device, slaves, masterDevs,
                   triggers, threads, clears>>

-----------------------------------------------------------------------------

StateThread ==
    \/ Return \/ BeginPlain \/ BeginStopRecv \/ BeginDeinit \/ BeginStartRecv
    \/ OpenSucceeds \/ OpenFails \/ OpenBootFails
    \/ TransitionPre \/ SetBus \/ SkipOnError \/ TransitionPost
    \/ FinishPlain \/ CloseDevice \/ MarkClosed \/ FinishOpen \/ FinishStartRecv

Next ==
    \/ \E to \in Requests : Call(to)
    \/ StateThread \/ ClearError
    \/ TickEnter \/ TickExit \/ RecvEnter \/ RecvExit \/ ClockConverges

Spec == Init /\ [][Next]_vars

(* The state thread is scheduled, callbacks return, and the lock of the    *)
(* trigger is free between two of its periods often enough to be taken.    *)
ThreadFairness ==
    /\ SF_vars(StateThread) /\ WF_vars(TickExit) /\ WF_vars(RecvExit)

LiveSpec == Spec /\ ThreadFairness

(* The controller keeps the reference clock inside its margin in the end.  *)
ConvergingSpec == LiveSpec /\ WF_vars(ClockConverges)

-----------------------------------------------------------------------------
(* Properties.                                                             *)

Idle == block = "idle"

(* What is registered in each state, whichever calls led there.            *)
DevsOf(s, st) ==
    CASE st = "boot"  -> EepromDevs \union {"mbx_foe"}
      [] st = "init"  -> {}
      [] st = "preop" -> EepromDevs \union {"key_value"} \union Mailbox[s]
      [] OTHER        -> EepromDevs \union {"key_value"} \union Mailbox[s]
                         \union ProcessData[s]

MasterDevsOf(st) ==
    CASE st \in {"boot", "init"} -> {}
      [] st = "preop"            -> {"canopen"}
      [] OTHER                   -> MasterDevs

(* Between two calls without error the slaves are in the reported state    *)
(* and the network device is open exactly outside INIT (set_state,         *)
(* master.cpp:722-974): the fall-through of the switch leaves no path that *)
(* skips a rung, the opening or the closing.                               *)
ReportedIsReached ==
    Idle /\ ~err => /\ bus = state
                    /\ hw = ec_opened
                    /\ ec_opened <=> (state # "init")

(* The devices registered between two calls without error are those of     *)
(* the reported state, on whatever path it was reached: every handler of   *)
(* the way down undoes what the way up did (slave.cpp:772-979).            *)
DevicesOfState ==
    Idle /\ ~err => /\ masterDevs = MasterDevsOf(state)
                    /\ \A s \in Slaves : devs[s] = DevsOf(s, state)

(* open() is called on a closed network device only, and the bus is        *)
(* switched or closed only while it is open (master.cpp:340-655).          *)
OpensClosedDevice ==
    /\ block \in {"open", "open_boot"} /\ step = "begin" => ~hw
    /\ block \in Blocks /\ step = "bus" /\ ~err => hw

(* The cyclic callback is never inside the bus library while the network   *)
(* device is closed (master.cpp:977-1030 against 767-778): the trigger is  *)
(* acquired after opening and released before closing.  The exception is a *)
(* failed start whose error is cleared and which goes on to boot: the way  *)
(* back from boot closes the bus and releases nothing.                     *)
TickOnOpenDevice == tick = "in" => hw \/ (clears /\ "boot" \in Requests)

(* A state with process data is reported only if every CoE start-up        *)
(* command that has data was handed to the bus that is now open, although  *)
(* the flags that record it, and the data, outlive the bus                 *)
(* (slave.cpp:607-637, 679-686).  Of a command without data nothing is     *)
(* promised: it is left out silently.                                      *)
CoeCommandsInstalled ==
    Idle /\ ~err /\ state \in {"safeop", "op"} =>
        \A s \in Slaves : data[s] \intersect CoeKinds \subseteq cmds[s]

(* The slaves run outputs only while every process data device exists and  *)
(* the cyclic trigger is acquired: nothing that fails on the way up lets   *)
(* the bus go on to OP.                                                    *)
OutputsBound ==
    bus = "op" =>
        trg /\ \A s \in Slaves : ProcessData[s] \subseteq devs[s]

(* The boot state leaves nothing but the services that need no mailbox     *)
(* protocol other than FoE, and INIT leaves nothing, whatever state the    *)
(* slaves came from (slave.cpp:846-869), unless the error of a call that   *)
(* failed half way has been cleared.                                       *)
BootServicesOnly ==
    Idle /\ ~err /\ ~clears => \A s \in Slaves :
        /\ state = "boot" => devs[s] \subseteq EepromDevs \union {"mbx_foe"}
        /\ state = "init" => devs[s] = {}

(* Every call of set_state comes back (master.cpp:722-974). *)
EveryCallReturns == ~Idle ~> Idle

(* set_state implements the promise of StateLadder: the bus moves one rung *)
(* at a time towards the target, and the target is reported only with the  *)
(* bus in it (master.cpp:722-974).                                         *)
Ladder == INSTANCE StateLadder WITH
    MayFail <- Faults # {},
    reported <- state,
    want <- IF Idle THEN "none" ELSE target

ImplementsLadder == Ladder!LadderSpec

-----------------------------------------------------------------------------
(* Statements of the sources' comments and documents that the code does    *)
(* not keep; each is refuted by a run of its own.                          *)

(* Leaving boot, and every state other than INIT, has the device open:     *)
(* "re-/open ethercat device" (master.cpp:799).                            *)
OpenedOutsideInit == Idle /\ ~err /\ state # "init" => ec_opened

(* "deinit devices" (master.cpp:769): with the bus closed no trigger calls *)
(* into it, the receive trigger included.                                  *)
RecvOnOpenDevice == recv = "in" => hw

(* Start-up commands "via SoE" and "via CoE" are sent on the way to SAFEOP *)
(* (README.wiki): all of them, on every start.                             *)
AllCommandsInstalled ==
    Idle /\ ~err /\ state \in {"safeop", "op"} =>
        \A s \in Slaves : InitCmds[s] \subseteq cmds[s]

=============================================================================
