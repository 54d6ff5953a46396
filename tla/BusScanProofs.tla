---------------------------- MODULE BusScanProofs ----------------------------
(***************************************************************************)
(* What an accepted bus promises to the cyclic callbacks, for every length *)
(* of the bus, every configuration, every exchange of slaves and every     *)
(* sequence of starts, failed ones and those over an open bus included.    *)
(* The promises are made by open() and used long after it: the invariant   *)
(* `Scanned' carries them from one to the other.                           *)
(***************************************************************************)
EXTENDS BusScan, SequenceTheorems, TLAPS

(* The state's shape, as far as the arguments need it. *)
Shape ==
    /\ wire \in Buses /\ scanned \in Buses
    /\ groups \in [GroupNrs -> SUBSET Positions]
    /\ expected \in [Positions -> Kinds \union {Any}]
    /\ smMap \in [Positions -> Kinds \union {"user", "none"}]

(* The configuration outlives every start. *)
ConfigurationKept ==
    /\ Configured \subseteq known
    /\ \A p \in Configured : expected[p] = Expected[p]
    /\ \A p \in UserSm : smMap[p] = "user"
    /\ \A g \in GroupNrs : groups[g] \subseteq GroupCfg[g]

(* An open() that did not throw has compared and completed everything. *)
Accepted == stage \in {"matched", "started"}

Scanned ==
    Accepted =>
        /\ known = Found(scanned)
        /\ \A g \in GroupNrs : groups[g] \subseteq Found(scanned)
        /\ \A g \in GroupNrs : groups[g] = {p \in Positions : assigned[p] = g}
        /\ \A p \in Configured : Expected[p] \in {Any, Kind(scanned, p)}

SettingsApplied == stage = "started" => \A p \in UserSm : busSm[p] = "user"

IInv == Shape /\ ConfigurationKept /\ Scanned /\ SettingsApplied

-----------------------------------------------------------------------------
(* A bus is a sequence of devices. *)
LEMMA BusLength == ASSUME NEW bus \in Buses PROVE Len(bus) \in Nat
<1>1. PICK n \in 0 .. MaxSlaves : bus \in [1 .. n -> Kinds]
  BY DEF Buses
<1>2. n \in Nat /\ bus \in Seq(Kinds)
  BY <1>1, BusScanAssumption
<1> QED BY <1>2

(* Of groups that share no slave, the one that lists a slave gets it. *)
LEMMA OneGroup ==
    ASSUME NEW p \in Positions, NEW gs \in SUBSET GroupNrs, gs # {},
           \A g, h \in gs : g = h
    PROVE  \A g \in gs : (CHOOSE k \in gs : \A h \in gs : h <= k) = g
<1>1. gs \subseteq Nat
  BY BusScanAssumption DEF GroupNrs
<1>2. \E k \in gs : \A h \in gs : h <= k
  <2>1. PICK k \in gs : TRUE
    OBVIOUS
  <2>2. \A h \in gs : h = k
    BY <2>1
  <2>3. k <= k
    BY <1>1, <2>1
  <2> QED BY <2>1, <2>2, <2>3
<1>3. (CHOOSE k \in gs : \A h \in gs : h <= k) \in gs
  BY <1>2
<1> QED BY <1>3

LEMMA InitInv == Init => IInv
<1> SUFFICES ASSUME Init PROVE IInv
  OBVIOUS
<1> USE DEF Init
<1>1. GroupCfg \in [GroupNrs -> SUBSET Positions]
  BY BusScanAssumption DEF GroupNrs
<1>2. Shape
  <2>1. << >> \in Buses
    <3>1. 0 \in 0 .. MaxSlaves /\ << >> \in [1 .. 0 -> Kinds]
      BY BusScanAssumption
    <3> QED BY <3>1 DEF Buses
  <2> QED BY <1>1, <2>1, BusScanAssumption DEF Shape
<1>3. ConfigurationKept
  BY BusScanAssumption DEF ConfigurationKept
<1> QED BY <1>2, <1>3 DEF IInv, Scanned, SettingsApplied, Accepted

(* open() accepts the bus. *)
LEMMA AcceptedInv == IInv /\ OpenMatches => IInv'
<1> SUFFICES ASSUME IInv, OpenMatches PROVE IInv'
  OBVIOUS
<1> USE DEF IInv, OpenMatches
<1>0. Len(scanned) \in Nat
  BY BusLength DEF Shape
<1>1. \A g \in GroupNrs : groups'[g] = Connected(groups[g], scanned)
  OBVIOUS
<1>2. Shape'
  <2>1. groups' \in [GroupNrs -> SUBSET Positions]
    BY DEF Shape, Connected
  <2>2. expected' \in [Positions -> Kinds \union {Any}]
    <3>1. PICK garbage \in [Created -> Kinds \union {Any}] :
            expected' = [p \in Positions |-> IF p \in Created THEN garbage[p]
                                             ELSE expected[p]]
      BY DEF CreateSlaves
    <3> QED BY <3>1 DEF Shape
  <2>3. smMap' \in [Positions -> Kinds \union {"user", "none"}]
    <3>1. \A p \in Found(scanned) : Kind(scanned, p) \in Kinds
      <4>1. PICK n \in 0 .. MaxSlaves : scanned \in [1 .. n -> Kinds]
        BY DEF Shape, Buses
      <4>2. n \in Nat /\ Len(scanned) = n
        BY <4>1, BusScanAssumption
      <4> QED BY <4>1, <4>2 DEF Found, Kind
    <3>2. \A p \in Positions : SmFilled(p) \in Kinds \union {"user", "none"}
      BY <3>1 DEF SmFilled, Shape
    <3> QED BY <3>2
  <2> QED BY <2>1, <2>2, <2>3 DEF Shape
<1>3. ConfigurationKept'
  <2>1. Configured \subseteq known'
    BY DEF CreateSlaves, ConfigurationKept
  <2>2. \A p \in Configured : expected'[p] = Expected[p]
    BY BusScanAssumption DEF CreateSlaves, Created, ConfigurationKept
  <2>3. \A p \in UserSm : smMap'[p] = "user"
    BY BusScanAssumption DEF SmFilled, ConfigurationKept
  <2>4. \A g \in GroupNrs : groups'[g] \subseteq GroupCfg[g]
    BY <1>1 DEF Connected, ConfigurationKept
  <2> QED BY <2>1, <2>2, <2>3, <2>4 DEF ConfigurationKept
<1>4. Scanned'
  <2>1. scanned' = scanned
    OBVIOUS
  <2>2. known' = Found(scanned)
    BY DEF CreateSlaves, Created, Mismatch
  <2>3. \A g \in GroupNrs : groups'[g] \subseteq Found(scanned)
    BY <1>0, <1>1 DEF Connected, Found, Shape, Positions
  <2>4. \A g \in GroupNrs : groups'[g] = {p \in Positions : assigned'[p] = g}
    <3> SUFFICES ASSUME NEW g \in GroupNrs, NEW p \in Positions
                 PROVE  p \in groups'[g] <=> assigned'[p] = g
      BY <1>2 DEF Shape
    <3> DEFINE gs == {h \in GroupNrs : p \in Connected(groups[h], scanned)}
    <3>1. \A h, k \in gs : h = k
      BY BusScanAssumption DEF ConfigurationKept, Connected
    <3>2. assigned'[p] = IF gs = {} THEN 0
                         ELSE CHOOSE k \in gs : \A h \in gs : h <= k
      BY DEF Assign
    <3>3. p \in groups'[g] <=> g \in gs
      BY <1>1
    <3>4. g # 0
      BY DEF GroupNrs
    <3>5. CASE gs = {}
      BY <3>2, <3>3, <3>4, <3>5
    <3>6. CASE gs # {}
      <4>1. \A h \in gs : (CHOOSE k \in gs : \A i \in gs : i <= k) = h
        BY <3>1, <3>6, OneGroup
      <4>2. \A h \in gs : assigned'[p] = h
        BY <3>2, <3>6, <4>1
      <4> QED BY <3>3, <3>6, <4>2
    <3> QED BY <3>5, <3>6
  <2>5. \A p \in Configured : Expected[p] \in {Any, Kind(scanned, p)}
    BY DEF ConfigurationKept, Mismatch
  <2> QED BY <2>1, <2>2, <2>3, <2>4, <2>5 DEF Scanned
<1>5. SettingsApplied'
  BY DEF SettingsApplied
<1> QED BY <1>2, <1>3, <1>4, <1>5

(* What ec_open finds is a bus. *)
LEMMA ScanType ==
    ASSUME wire \in Buses, NEW n \in 0 .. Len(wire), Scan(n)
    PROVE  scanned' \in Buses
<1>1. PICK k \in 0 .. MaxSlaves : wire \in [1 .. k -> Kinds]
  BY DEF Buses
<1>2. k \in Nat /\ wire \in Seq(Kinds) /\ Len(wire) = k
  BY <1>1, BusScanAssumption
<1>3. n \in 0 .. MaxSlaves
  BY <1>2, BusScanAssumption
<1>4. SubSeq(wire, 1, n) \in Seq(Kinds) /\ Len(SubSeq(wire, 1, n)) = n
  <2>1. n \in Int /\ 1 \in Int /\ n \in Nat /\ \A i \in 1 .. n : wire[i] \in Kinds
    BY <1>1, <1>2, <1>3
  <2>2. /\ SubSeq(wire, 1, n) \in Seq(Kinds)
        /\ Len(SubSeq(wire, 1, n)) = IF 1 <= n THEN n - 1 + 1 ELSE 0
    BY <2>1, SubSeqProperties
  <2> QED BY <2>1, <2>2
<1>5. SubSeq(wire, 1, n) \in [1 .. n -> Kinds]
  <2>1. PICK t : t = SubSeq(wire, 1, n)
    OBVIOUS
  <2>2. t \in Seq(Kinds) /\ Len(t) = n
    BY <1>4, <2>1
  <2>3. t \in [1 .. n -> Kinds]
    BY <2>2
  <2> QED BY <2>1, <2>3
<1> QED BY <1>3, <1>5 DEF Scan, Buses

(* The other actions. *)
LEMMA NextInv == IInv /\ [Next]_vars => IInv'
<1> SUFFICES ASSUME IInv, [Next]_vars PROVE IInv'
  OBVIOUS
<1> USE DEF IInv
<1>1. CASE OpenMatches
  BY <1>1, AcceptedInv
<1>2. CASE Rewire
  BY <1>2 DEF Rewire, config, found, Shape, ConfigurationKept, Scanned,
              SettingsApplied, Accepted
<1>3. CASE BeginOpen \/ ScanFails
  <2>1. /\ UNCHANGED <<wire, config>> /\ stage' \in {"scanned", "thrown"}
        /\ \E n \in 0 .. Len(wire) : Scan(n)
    <3>1. Len(wire) \in 0 .. Len(wire)
      BY BusLength DEF Shape
    <3> QED BY <1>3, <3>1 DEF BeginOpen, ScanFails
  <2>2. scanned' \in Buses
    BY <2>1, ScanType DEF Shape
  <2> QED BY <2>1, <2>2 DEF config, Shape, ConfigurationKept, Scanned,
                            SettingsApplied, Accepted
<1>4. CASE OpenThrows
  BY <1>4 DEF OpenThrows, config, found, Shape, ConfigurationKept, Scanned,
              SettingsApplied, Accepted
<1>5. CASE StartCyclic
  <2>1. Shape' /\ ConfigurationKept' /\ Scanned'
    BY <1>5 DEF StartCyclic, config, Shape, ConfigurationKept, Scanned, Accepted
  <2>2. \A p \in UserSm : busSm'[p] = "user"
    BY <1>5, BusScanAssumption
       DEF StartCyclic, Scanned, Accepted, ConfigurationKept
  <2> QED BY <2>1, <2>2 DEF SettingsApplied
<1>6. CASE Reach
  BY <1>6 DEF Reach, config, found, Shape, ConfigurationKept, Scanned,
              SettingsApplied, Accepted
<1>7. CASE Close
  BY <1>7 DEF Close, config, found, Shape, ConfigurationKept, Scanned,
              SettingsApplied, Accepted
<1>8. CASE UNCHANGED vars
  BY <1>8 DEF vars, config, found, Shape, ConfigurationKept, Scanned,
              SettingsApplied, Accepted
<1> QED BY <1>1, <1>2, <1>3, <1>4, <1>5, <1>6, <1>7, <1>8 DEF Next

LEMMA Invariant == Spec => []IInv
BY InitInv, NextInv, PTL DEF Spec

(* The cyclic callbacks look up every slave of every group unchecked: on a *)
(* bus that open() has accepted it is there (master.cpp:983-990), behind   *)
(* failed starts and re-opened buses as well.                              *)
THEOREM GroupSlavesExist == Spec => []CyclicSlavesExist
<1>1. IInv => CyclicSlavesExist
  BY DEF IInv, Scanned, Accepted, Served, CyclicSlavesExist
<1> QED BY <1>1, Invariant, PTL

(* A slave is served by its master in the group in which the bus exchanges *)
(* it (master.cpp:518-550).                                                *)
THEOREM SameGroups == Spec => []GroupsAgree
<1>1. IInv => GroupsAgree
  BY DEF IInv, Scanned, Accepted, Served, GroupsAgree
<1> QED BY <1>1, Invariant, PTL

(* A bus that is accepted and served has the configured slaves             *)
(* (master.cpp:464-512).                                                   *)
THEOREM ConfiguredBusRuns == Spec => []RunsAsConfigured
<1>1. IInv => RunsAsConfigured
  BY DEF IInv, ConfigurationKept, Scanned, Accepted, Served, RunsAsConfigured
<1> QED BY <1>1, Invariant, PTL

(* The slave list is the bus while it is served (master.cpp:854-879).      *)
THEOREM ListIsBus == Spec => []KnownIsBus
<1>1. IInv => KnownIsBus
  BY DEF IInv, Scanned, Accepted, Served, KnownIsBus
<1> QED BY <1>1, Invariant, PTL

(* Configured sync manager settings reach the bus (master.cpp:625-635).    *)
THEOREM UserSettingsReach == Spec => []UserSmApplied
<1>1. IInv => UserSmApplied
  BY DEF IInv, SettingsApplied, UserSmApplied
<1> QED BY <1>1, Invariant, PTL

=============================================================================
