------------------------------ MODULE BusScan ------------------------------
(***************************************************************************)
(* What master::open makes of the slaves it finds, over any number of      *)
(* starts on a bus whose slaves are exchanged, added and removed while it  *)
(* is closed.  open() compares the bus with the slaves it knows, creates   *)
(* the unnamed ones, cuts the process data groups down to the slaves that  *)
(* are there and completes the sync manager settings; all of that outlives *)
(* the bus.  Master.tla has the same handler as one step of the state      *)
(* machine, without the slaves.                                            *)
(***************************************************************************)
EXTENDS Naturals, Sequences, FiniteSets

CONSTANTS
    MaxSlaves,      \* longest bus
    Kinds,          \* device types: identity and settings in the EEPROM
    Any,            \* no vendor and product are expected
    Configured,     \* slaves the configuration names
    Expected,       \* their expected vendor and product, or Any
    UserSm,         \* those with sync manager settings of their own
    GroupCfg        \* the slaves of each process data group

Positions == 0 .. MaxSlaves - 1
GroupNrs  == 1 .. Len(GroupCfg)

ASSUME BusScanAssumption ==
    /\ MaxSlaves \in Nat /\ Any \notin Kinds /\ {"user", "none"} \cap Kinds = {}
    /\ Configured \subseteq Positions /\ UserSm \subseteq Configured
    /\ Expected \in [Configured -> Kinds \union {Any}]
    /\ GroupCfg \in Seq(SUBSET Positions)
    /\ \A g, h \in GroupNrs : g # h => GroupCfg[g] \cap GroupCfg[h] = {}

VARIABLES
    wire,       \* the slaves connected, in order
    scanned,    \* the slaves the last open() found: ec.slaves
    state,      \* this->state; "up" is preop, safeop or op
    stage,      \* how far open() and the start behind it got with this bus
    running,    \* the cyclic trigger is acquired
    known,      \* indices in _slave_info
    expected,   \* slave::expected_vendor and expected_product
    smMap,      \* slave::_sm_map: "user", what some EEPROM said, or "none"
    groups,     \* group::_slaves
    assigned,   \* ec.slaves[].assigned_pd_group, 0 where there is none
    busSm       \* ec.slaves[].sm

config == <<known, expected, smMap, groups>>
found  == <<scanned, assigned, busSm>>
vars   == <<wire, found, state, stage, running, config>>

Buses == UNION {[1 .. n -> Kinds] : n \in 0 .. MaxSlaves}

(* The code numbers slaves from 0 on (and groups, here from 1 on). *)
Found(bus) == 0 .. Len(bus) - 1
Kind(bus, p) == bus[p + 1]

(* The stages of a bus: closed (ec_opened is cleared), scanned by ec_open,  *)
(* refused because ec_open or the switch to INIT failed ("thrown") or the  *)
(* slaves are not the configured ones ("mismatch"), accepted by open()     *)
(* ("matched"), and with its trigger acquired and its settings applied     *)
(* ("started").                                                            *)
Stages == {"closed", "scanned", "thrown", "mismatch", "matched", "started"}
States == {"init", "boot", "up"}

TypeOK ==
    /\ wire \in Buses /\ scanned \in Buses
    /\ state \in States /\ stage \in Stages /\ running \in BOOLEAN
    /\ known \subseteq Positions
    /\ expected \in [Positions -> Kinds \union {Any}]
    /\ smMap \in [Positions -> Kinds \union {"user", "none"}]
    /\ groups \in [GroupNrs -> SUBSET Positions]
    /\ assigned \in [Positions -> 0 .. Len(GroupCfg)]
    /\ busSm \in [Positions -> Kinds \union {"user", "none"}]

Init ==
    /\ wire \in Buses /\ scanned = << >>
    /\ state = "init" /\ stage = "closed" /\ running = FALSE
    /\ known = Configured
    /\ expected = [p \in Positions |-> IF p \in Configured THEN Expected[p]
                                       ELSE Any]
    /\ smMap = [p \in Positions |-> IF p \in UserSm THEN "user" ELSE "none"]
    /\ groups = GroupCfg
    /\ assigned = [p \in Positions |-> 0]
    /\ busSm = [p \in Positions |-> "none"]

(* Slaves are exchanged while the bus is closed or running: the master     *)
(* sees it at the next open().                                             *)
Rewire ==
    /\ wire' \in Buses
    /\ UNCHANGED <<found, state, stage, running, config>>

-----------------------------------------------------------------------------
(* master::open.  It runs in state init, behind ec_close where an error is *)
(* flagged, and over a bus that is open already: a start that failed       *)
(* behind an earlier open() has left state init, the bus open and, if it   *)
(* came that far, the trigger acquired.  The cyclic callback is then free  *)
(* to run between any two of its steps.                                    *)

MayOpen == state = "init" \/ stage = "closed"

(* What ec_open makes of the first n slaves; nothing stays from earlier. *)
Scan(n) ==
    /\ scanned' = SubSeq(wire, 1, n)
    /\ busSm' = [p \in Positions |-> IF p \in 0 .. n - 1 THEN Kind(wire, p)
                                     ELSE "none"]
    /\ assigned' = [p \in Positions |-> 0]

BeginOpen ==
    /\ MayOpen /\ Scan(Len(wire)) /\ stage' = "scanned"
    /\ UNCHANGED <<wire, state, running, config>>

(* ec_open fails on a bus that is open and is still marked so.  (On a      *)
(* closed one it changes nothing: ec_opened stays cleared.)                *)
ScanFails ==
    /\ MayOpen /\ stage # "closed" /\ stage' = "thrown"
    /\ \E n \in 0 .. Len(wire) : Scan(n)
    /\ UNCHANGED <<wire, state, running, config>>

(* Mutant: slaves that are not on the bus are passed over. *)
MismatchIfFound(bus) ==
    \E p \in known \cap Found(bus) : expected[p] \notin {Any, Kind(bus, p)}

(* Mutant: the identity of the slaves is not compared. *)
MismatchCountOnly(bus) == \E p \in known : p \notin Found(bus)

(* The loop that sets `abort': a known slave is missing or not the         *)
(* expected one.                                                           *)
Mismatch(bus) ==
    \E p \in known : p \notin Found(bus)
                     \/ expected[p] \notin {Any, Kind(bus, p)}

(* Mutant: a slave one behind the end of the bus stays in its group. *)
ConnectedOffByOne(list, bus) == {p \in list : p <= Len(bus)}

(* remove_if on the slaves of a group. *)
Connected(list, bus) == {p \in list : p < Len(bus)}

(* Mutant: slaves are assigned without a look at the length of the bus. *)
AssignUncut(p) ==
    LET gs == {g \in GroupNrs : p \in groups[g]}
    IN  IF gs = {} THEN 0 ELSE CHOOSE g \in gs : \A h \in gs : h <= g

(* The groups are visited in order, the last one that lists the slave wins. *)
Assign(p) ==
    LET gs == {g \in GroupNrs : p \in Connected(groups[g], scanned)}
    IN  IF gs = {} THEN 0 ELSE CHOOSE g \in gs : \A h \in gs : h <= g

(* Slaves on the bus that have no entry yet get an empty one. *)
Created == Found(scanned) \ known

(* Mutant: settings in the EEPROM replace those of the configuration. *)
SmFilledOver(p) ==
    IF p \in Found(scanned) THEN Kind(scanned, p) ELSE smMap[p]

(* Settings that are not in the map yet are taken from the EEPROM. *)
SmFilled(p) ==
    IF p \in Found(scanned) /\ smMap[p] = "none" THEN Kind(scanned, p)
    ELSE smMap[p]

(* The constructor of an empty slave does not set expected_vendor and      *)
(* expected_product: they hold whatever the memory held.                   *)
CreateSlaves ==
    /\ known' = known \union Created
    /\ \E garbage \in [Created -> Kinds \union {Any}] :
         expected' = [p \in Positions |-> IF p \in Created THEN garbage[p]
                                          ELSE expected[p]]

OpenMatches ==
    /\ stage = "scanned" /\ ~Mismatch(scanned)
    /\ stage' = "matched"
    /\ groups' = [g \in GroupNrs |-> Connected(groups[g], scanned)]
    /\ assigned' = [p \in Positions |-> Assign(p)]
    /\ CreateSlaves
    /\ smMap' = [p \in Positions |-> SmFilled(p)]
    /\ UNCHANGED <<wire, scanned, busSm, state, running>>

(* The bus refused INIT, or is not the configured one: open() throws with  *)
(* the bus open.                                                           *)
OpenThrows ==
    /\ stage = "scanned"
    /\ stage' \in {"thrown"} \union (IF Mismatch(scanned) THEN {"mismatch"} ELSE {})
    /\ UNCHANGED <<wire, found, state, running, config>>

-----------------------------------------------------------------------------
(* What set_state does behind open().                                      *)

(* The trigger is acquired and the sync manager settings are applied: in a *)
(* call that came from init, with no error flagged.                        *)
StartCyclic ==
    /\ state = "init" /\ stage = "matched"
    /\ stage' = "started" /\ running' = TRUE
    /\ busSm' = [p \in Positions |-> IF p \in Found(scanned) /\ smMap[p] # "none"
                                     THEN smMap[p] ELSE busSm[p]]
    /\ UNCHANGED <<wire, scanned, assigned, state, config>>

(* A call ends without error.  One that ends with an error, a failed start *)
(* among them, leaves state init as it is.                                 *)
Reach ==
    /\ state = "init"
    /\ \/ stage = "started" /\ state' = "up"
       \/ stage = "matched" /\ state' = "boot"
    /\ UNCHANGED <<wire, found, stage, running, config>>

(* On the way down from process data or its preparation the trigger is     *)
(* released first; the way back from boot releases nothing.  The state     *)
(* reported afterwards is the requested one, or with an error the old one. *)
Close ==
    /\ state \in {"boot", "up"}
    /\ running' = (running /\ state = "boot")
    /\ stage' = "closed" /\ state' \in States
    /\ UNCHANGED <<wire, found, config>>

Next ==
    \/ Rewire \/ BeginOpen \/ ScanFails \/ OpenMatches \/ OpenThrows
    \/ StartCyclic \/ Reach \/ Close

Spec == Init /\ [][Next]_vars

-----------------------------------------------------------------------------
(* Properties.                                                             *)

(* The cyclic callback works with a bus that open() has accepted, after    *)
(* this start or a failed one before it.  Over a re-opened bus that open() *)
(* has refused it runs as well, since nobody stops it ("fatal: config      *)
(* mismatch!", master.cpp:511); nothing is said of that one.               *)
Served == running /\ stage \in {"matched", "started"}

(* The cyclic callback looks every slave of every group up in _slave_info  *)
(* and in ec.slaves without asking whether it is there                     *)
(* (master.cpp:983-990): on an accepted bus it always is, however the bus  *)
(* shrank and however many starts failed before.                           *)
CyclicSlavesExist ==
    Served => \A g \in GroupNrs : groups[g] \subseteq known \cap Found(scanned)

(* The master calls the output handler of a slave for exactly the group in *)
(* which the bus exchanges it (master.cpp:518-550).                        *)
GroupsAgree ==
    Served => \A g \in GroupNrs : groups[g] = {p \in Positions : assigned[p] = g}

(* An accepted bus has every slave the configuration names, and each is    *)
(* the expected device (master.cpp:464-512).                               *)
RunsAsConfigured ==
    Served => \A p \in Configured :
        p \in Found(scanned) /\ Expected[p] \in {Any, Kind(scanned, p)}

(* The master then knows exactly the slaves on the bus, so the loops over  *)
(* ec.slave_cnt that use _slave_info unchecked (master.cpp:854-879) meet   *)
(* no missing slave.                                                       *)
KnownIsBus == Served => known = Found(scanned)

(* Configured sync manager settings reach the bus on every start, the      *)
(* values the EEPROM suggests never replace them (master.cpp:625-635).     *)
UserSmApplied ==
    running /\ stage = "started" => \A p \in UserSm : busSm[p] = "user"

-----------------------------------------------------------------------------
(* Statements of the documentation that the code does not keep.            *)

(* Slaves missing in the configuration are configured automatically        *)
(* (README.wiki:54): a bus with every configured slave in its place is     *)
(* never refused.                                                          *)
UnnamedNeverRefused ==
    stage = "mismatch" =>
        \E p \in Configured : p \notin Found(scanned)
                              \/ Expected[p] \notin {Any, Kind(scanned, p)}

=============================================================================
