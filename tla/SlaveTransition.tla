-------------------------- MODULE SlaveTransition --------------------------
(***************************************************************************)
(* What one slave does when the master steps it from one module state to   *)
(* another: the two fall-through switches of slave.cpp,                    *)
(* pre_state_transition and post_state_transition.  A switch that falls    *)
(* through is a set of (from, to) pairs for each of its blocks: a block    *)
(* runs for the pairs whose label lies at or above it and whose break lies *)
(* below it.  Each predicate below is such a set of pairs.                 *)
(***************************************************************************)

ModuleState == {"boot", "init", "preop", "safeop", "op"}

(* Devices a slave registers with the robot kernel.  "pdin" and "pdout"    *)
(* each stand for the buffer, its provider or consumer and its inspection. *)
EepromDevs      == {"eeprom_mi", "memory_mi", "eeprom_coe"}
MailboxDevs     == {"mbx_foe", "mbx_coe", "mbx_soe"}
ProcessDataDevs == {"pdin", "pdout"}
ServiceDevs     == EepromDevs \union MailboxDevs \union {"key_value"}
SlaveDevs       == ServiceDevs \union ProcessDataDevs

(* Start-up commands: CoE commands configured with their data, CoE commands *)
(* configured with a value that is converted when they are handed over the *)
(* first time, and SoE commands, which have their data as well.            *)
CoeKinds == {"coe_data", "coe_value"}
CmdKinds == CoeKinds \union {"soe"}

-----------------------------------------------------------------------------
(* The blocks of the switches, as sets of transitions.                     *)

(* "stop receiving measurements" *)
StopsReceiving(from, to) ==
    from \in {"op", "safeop"} /\ to \in {"preop", "init", "boot"}

(* Mutant: the label safeop_2_init is missing from the deinit fall-through. *)
DeinitialisesFromOpOrPreop(from, to) ==
    from \in {"op", "preop"} /\ to \in {"init", "boot"}

(* "deinit devices" *)
Deinitialises(from, to) ==
    from \in {"op", "safeop", "preop"} /\ to \in {"init", "boot"}

LeavesBoot(from, to) == from = "boot" /\ to # "boot"

EntersBoot(from, to) == from # "boot" /\ to = "boot"

(* "initial devices": reached from init and boot, and by preop_2_preop. *)
Initialises(from, to) ==
    \/ from \in {"init", "boot"} /\ to \in {"preop", "safeop", "op"}
    \/ from = "preop" /\ to = "preop"

(* "start receiving measurements" / "sending init commands for safeop" *)
StartsReceiving(from, to) ==
    from \in {"boot", "init", "preop"} /\ to \in {"safeop", "op"}

(* The loop that clears already_added of the CoE commands stands between   *)
(* the labels preop_2_init and preop_2_boot: a direct step from preop to   *)
(* boot jumps past it.                                                     *)
ForgetsCoe(from, to) ==
    \/ from \in {"op", "safeop"} /\ to \in {"init", "boot"}
    \/ from = "preop" /\ to = "init"

-----------------------------------------------------------------------------
(* post_state_transition: the devices registered after it.  Every          *)
(* remove is guarded by the handle, every add of a service by its absence, *)
(* so the registry behaves as a set.                                       *)

Removed(from, to) ==
    (IF StopsReceiving(from, to) THEN ProcessDataDevs ELSE {})
    \union (IF Deinitialises(from, to) THEN ServiceDevs ELSE {})
    \union (IF LeavesBoot(from, to) THEN EepromDevs \union {"mbx_foe"} ELSE {})

(* Mutant: process data is created by the step from init only. *)
AddedFromInitOnly(from, to, mailbox, pd) ==
    (IF EntersBoot(from, to) THEN EepromDevs \union {"mbx_foe"} ELSE {})
    \union (IF Initialises(from, to)
            THEN EepromDevs \union {"key_value"} \union mailbox ELSE {})
    \union (IF StartsReceiving(from, to) /\ from = "init" THEN pd ELSE {})

Added(from, to, mailbox, pd) ==
    (IF EntersBoot(from, to) THEN EepromDevs \union {"mbx_foe"} ELSE {})
    \union (IF Initialises(from, to)
            THEN EepromDevs \union {"key_value"} \union mailbox ELSE {})
    \union (IF StartsReceiving(from, to) THEN pd ELSE {})

PostTransition(devs, from, to, mailbox, pd) ==
    (devs \ Removed(from, to)) \union Added(from, to, mailbox, pd)

(* An exception while a process data device is created ends the handler:   *)
(* the services are there, of the process data only the first `made'.      *)
PostTransitionThrown(devs, from, to, mailbox, made) ==
    (devs \ (Removed(from, to) \union ProcessDataDevs))
    \union Added(from, to, mailbox, made)

-----------------------------------------------------------------------------
(* pre_state_transition: which start-up commands are marked already_added, *)
(* which have data, and which ones add_init_cmds hands over to the bus     *)
(* library.                                                                *)

(* Mutant: the flags of the CoE commands are never cleared. *)
PreFlagsKept(added, from, to) == added

PreFlags(added, from, to) ==
    IF ForgetsCoe(from, to) THEN added \ CoeKinds ELSE added

(* A value is converted with the description of its entry and kept; where  *)
(* the description cannot be read, or the conversion yields nothing, the   *)
(* command stays without data, and nothing reports it.                     *)
WithData(configured, data, described) ==
    IF described THEN data \union (configured \intersect {"coe_value"}) ELSE data

(* Handed over are the commands that have data and are not already added.  *)
NewCmds(data, flags) == data \ flags

=============================================================================
