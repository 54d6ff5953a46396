--------------------------- MODULE CanopenProofs ----------------------------
(***************************************************************************)
(* Proofs about the dictionary of the EEPROM and about                     *)
(* get_pdo_description, for contents and mappings of any length.           *)
(***************************************************************************)
EXTENDS Canopen, TotalsProofs

Contents ==
    /\ type = "eeprom" => eeprom \in Eeproms
    /\ mapping \in Seq(Slot)

LEMMA ContentsKept == Spec => []Contents
<1>1. Init => Contents
  <2>1. << >> \in Seq(Slot)
    OBVIOUS
  <2> QED BY <2>1, CanopenAssumption DEF Init, Contents
<1>2. Contents /\ [Next]_vars => Contents'
  BY DEF Contents, Next, WalkElement, DescribeEntry, EndPdo, Finish, Abort, vars,
         contents
<1> QED BY <1>1, <1>2, PTL DEF Spec

-----------------------------------------------------------------------------
(* The dictionary.                                                         *)

LEMMA WholeBytes ==
    ASSUME NEW n \in Nat
    PROVE  /\ Bytes(8 * n) = n /\ Bytes(7 * 8) = 7 /\ Bytes(8) = 1 /\ Bytes(32) = 4
           /\ Bytes(n) \in Nat /\ n <= Bytes(n) * 8
           /\ (Bytes(n) * 8) % 8 = 0
           /\ n % 8 = 0 => Bytes(n) * 8 = n
<1>1. Bytes(8 * n) = n /\ Bytes(7 * 8) = 7 /\ Bytes(8) = 1 /\ Bytes(32) = 4
  BY DEF Bytes
<1>2. Bytes(n) \in Nat /\ n <= Bytes(n) * 8
  BY DEF Bytes
<1>3. (Bytes(n) * 8) % 8 = 0
  BY DEF Bytes
<1>4. n % 8 = 0 => Bytes(n) * 8 = n
  BY DEF Bytes
<1> QED BY <1>1, <1>2, <1>3, <1>4

(* A value is as long as the description of its element said, for every    *)
(* EEPROM (slave_canopen_protocol.cpp:210-291, 374-430).                   *)
THEOREM SizesDescribed == Spec => SizeAsDescribed
<1> DEFINE Step == indices' # indices \/ sub' # sub =>
              \/ value' = Bytes(bits')
              \/ Head(indices) = DeviceName /\ eeprom.name = 0
<1>1. Contents /\ [Next]_vars => [Step]_vars
  <2> SUFFICES ASSUME Contents, Next, indices' # indices \/ sub' # sub
               PROVE  \/ value' = Bytes(bits')
                      \/ Head(indices) = DeviceName /\ eeprom.name = 0
    OBVIOUS
  <2>1. WalkElement
    BY DEF Next, DescribeEntry, EndPdo, Finish, Abort, client
  <2> DEFINE i == Head(indices)
             p == Pdos(eeprom)[Min(Answering(eeprom, i, sub))]
  <2>2. eeprom.name \in Nat
    BY <2>1, CanopenAssumption DEF WalkElement, Contents
  <2>3. bits' = ElementBits(eeprom, i, sub) /\ value' = Read(eeprom, i, sub)
    BY <2>1 DEF WalkElement
  <2>4. CASE i = DeviceName
    BY <2>2, <2>3, <2>4, WholeBytes DEF ElementBits, Read, ElementBytes
  <2>5. CASE i # DeviceName /\ i = p.index
    BY <2>2, <2>3, <2>5, WholeBytes DEF ElementBits, Read, ElementBytes
  <2>6. CASE i # DeviceName /\ i # p.index
    BY <2>3, <2>6 DEF ElementBits, Read, ElementBytes
  <2> QED BY <2>4, <2>5, <2>6
<1> QED BY <1>1, ContentsKept, PTL DEF Spec, SizeAsDescribed

-----------------------------------------------------------------------------
(* How far get_pdo_description has come in the image: the bits of the      *)
(* slots before p and of the entries before e.                             *)

At(m, p, e) ==
    Running(SlotBits(m))[p - 1]
      + (IF p <= Len(m) /\ m[p].used THEN Running(m[p].entries)[e - 1] ELSE 0)

LEMMA EntrySums ==
    ASSUME NEW w \in Seq(Nat)
    PROVE  /\ Len(w) \in Nat /\ Total(w) \in Int /\ Total(w) = Running(w)[Len(w)]
           /\ Running(w)[0] = 0
           /\ \A i \in 0 .. Len(w) : Running(w)[i] \in Int
           /\ \A i \in 1 .. Len(w) : Running(w)[i] = Running(w)[i - 1] + w[i]
<1>1. w \in Seq(Int) /\ Len(w) \in Nat
  OBVIOUS
<1>2. Sums(w, Running(w))
  BY <1>1, RunningSums
<1>3. Len(w) \in 0 .. Len(w)
  BY <1>1
<1>4. \A i \in 0 .. Len(w) : Running(w)[i] \in Int
  BY <1>2 DEF Sums
<1>5. /\ Running(w)[0] = 0
      /\ \A i \in 1 .. Len(w) : Running(w)[i] = Running(w)[i - 1] + w[i]
  BY <1>2 DEF Sums
<1> QED BY <1>1, <1>3, <1>4, <1>5 DEF Total

LEMMA SlotEntries ==
    ASSUME NEW m \in Seq(Slot), NEW p \in 1 .. Len(m)
    PROVE  m[p] \in Slot /\ m[p].entries \in Seq(Nat)
<1>1. m[p] \in Slot
  OBVIOUS
<1> QED BY <1>1 DEF Slot

LEMMA KeyTyped ==
    ASSUME NEW m \in Seq(Slot), NEW p \in 1 .. Len(m), NEW e \in 1 .. Len(m[p].entries)
    PROVE  EntryKey(m, <<p, e>>) \in Name \union Nat
<1>1. m[p].names \in Seq(Name) /\ Len(m[p].names) = Len(m[p].entries) /\ e \in Nat
  BY SlotEntries DEF Slot
<1>2. m[p].names[e] \in Name
  BY <1>1
<1> QED BY <1>1, <1>2 DEF EntryKey

LEMMA SlotSums ==
    ASSUME NEW m \in Seq(Slot)
    PROVE  LET f == Running(SlotBits(m))
           IN  /\ Len(m) \in Nat /\ f[0] = 0 /\ ImageBits(m) = f[Len(m)]
               /\ \A p \in 0 .. Len(m) : f[p] \in Int
               /\ \A p \in 1 .. Len(m) :
                    f[p] = f[p - 1] + (IF m[p].used THEN Total(m[p].entries) ELSE 0)
<1> DEFINE w == SlotBits(m)
<1>1. Len(m) \in Nat /\ DOMAIN m = 1 .. Len(m) /\ \A k \in 1 .. Len(m) : m[k] \in Slot
  OBVIOUS
<1>2. \A k \in 1 .. Len(m) :
        /\ w[k] = IF m[k].used THEN Total(m[k].entries) ELSE 0
        /\ w[k] \in Int
  <2> SUFFICES ASSUME NEW k \in 1 .. Len(m)
               PROVE  /\ w[k] = IF m[k].used THEN Total(m[k].entries) ELSE 0
                      /\ w[k] \in Int
    OBVIOUS
  <2>1. w[k] = IF m[k].used THEN Total(m[k].entries) ELSE 0
    BY <1>1 DEF SlotBits
  <2>2. m[k].entries \in Seq(Nat)
    BY SlotEntries
  <2>3. Total(m[k].entries) \in Int
    BY <2>2, EntrySums
  <2> QED BY <2>1, <2>3
<1>3. w \in Seq(Int) /\ Len(w) = Len(m)
  <2>1. DOMAIN w = 1 .. Len(m) /\ w = [k \in 1 .. Len(m) |-> w[k]]
    BY <1>1 DEF SlotBits
  <2> HIDE DEF w
  <2> QED BY <1>1, <1>2, <2>1
<1> HIDE DEF w
<1>4. Sums(w, Running(w))
  BY <1>3, RunningSums
<1> QED BY <1>1, <1>2, <1>3, <1>4 DEF Sums, ImageBits, Total, w

LEMMA ImageNat == ASSUME NEW m \in Seq(Slot) PROVE ImageBits(m) \in Nat
<1> DEFINE w == SlotBits(m)
<1>1. Len(m) \in Nat /\ DOMAIN m = 1 .. Len(m)
  OBVIOUS
<1>2. ASSUME NEW k \in 1 .. Len(m) PROVE w[k] \in Nat
  <2>1. Total(m[k].entries) \in Nat
    BY SlotEntries, TotalNat
  <2>2. w[k] = IF m[k].used THEN Total(m[k].entries) ELSE 0
    BY <1>1 DEF SlotBits
  <2> QED BY <2>1, <2>2
<1>3. DOMAIN w = 1 .. Len(m) /\ w = [k \in 1 .. Len(m) |-> w[k]]
  BY <1>1 DEF SlotBits
<1> HIDE DEF w
<1>4. w \in Seq(Nat)
  BY <1>1, <1>2, <1>3
<1> QED BY <1>4, TotalNat DEF ImageBits, w

LEMMA AtStart == ASSUME NEW m \in Seq(Slot) PROVE At(m, 1, 1) = 0
<1>1. Len(m) \in Nat /\ (1 <= Len(m) => m[1].entries \in Seq(Nat))
  BY SlotEntries
<1>2. 1 <= Len(m) => Running(m[1].entries)[0] = 0
  BY <1>1, EntrySums
<1> QED BY <1>2, SlotSums DEF At

LEMMA AtEntry ==
    ASSUME NEW m \in Seq(Slot), NEW p \in 1 .. Len(m), m[p].used,
           NEW e \in 1 .. Len(m[p].entries)
    PROVE  /\ At(m, p, e) = EntryOffset(m, <<p, e>>)
           /\ At(m, p, e) \in Int
           /\ At(m, p, e + 1) = At(m, p, e) + m[p].entries[e]
           /\ m[p].entries[e] \in Nat
<1> DEFINE w == m[p].entries
<1>1. w \in Seq(Nat) /\ Len(m) \in Nat /\ p - 1 \in 0 .. Len(m) /\ p <= Len(m)
  BY SlotEntries
<1>2. w[e] \in Nat
  BY <1>1
<1>3. /\ At(m, p, e) = Running(SlotBits(m))[p - 1] + Running(w)[e - 1]
      /\ At(m, p, e + 1) = Running(SlotBits(m))[p - 1] + Running(w)[(e + 1) - 1]
      /\ EntryOffset(m, <<p, e>>) = Running(SlotBits(m))[p - 1] + Running(w)[e - 1]
  BY <1>1 DEF At, EntryOffset
<1>4. (e + 1) - 1 = e /\ e - 1 \in 0 .. Len(w)
  BY <1>1
<1> HIDE DEF w
<1>5. Running(w)[e] = Running(w)[e - 1] + w[e] /\ Running(w)[e - 1] \in Int
  BY <1>1, <1>4, EntrySums DEF w
<1>6. Running(SlotBits(m))[p - 1] \in Int
  BY <1>1, SlotSums
<1> QED BY <1>2, <1>3, <1>4, <1>5, <1>6 DEF w

LEMMA AtSlotEnd ==
    ASSUME NEW m \in Seq(Slot), NEW p \in 1 .. Len(m), NEW e,
           m[p].used => e = Len(m[p].entries) + 1
    PROVE  /\ At(m, p + 1, 1) = At(m, p, e) /\ At(m, p, e) \in Int
           /\ At(m, p, e) = Running(SlotBits(m))[p]
<1>1. /\ Len(m) \in Nat /\ p - 1 \in 0 .. Len(m) /\ p \in 0 .. Len(m)
      /\ p <= Len(m) /\ (p + 1) - 1 = p
  OBVIOUS
<1>2. Running(SlotBits(m))[p] = At(m, p, e) /\ Running(SlotBits(m))[p] \in Int
  <2>1. m[p].entries \in Seq(Nat)
    BY SlotEntries
  <2>2. m[p].used => e - 1 = Len(m[p].entries)
    BY <2>1
  <2>3. m[p].used => Running(m[p].entries)[e - 1] = Total(m[p].entries)
    BY <2>2 DEF Total
  <2>4. /\ Running(SlotBits(m))[p] = Running(SlotBits(m))[p - 1]
               + (IF m[p].used THEN Total(m[p].entries) ELSE 0)
        /\ Running(SlotBits(m))[p] \in Int
    BY <1>1, SlotSums
  <2> QED BY <1>1, <2>3, <2>4 DEF At
<1>3. p + 1 <= Len(m) => m[p + 1].entries \in Seq(Nat)
  BY <1>1, SlotEntries
<1>4. p + 1 <= Len(m) => Running(m[p + 1].entries)[1 - 1] = 0
  BY <1>3, EntrySums
<1>5. At(m, p + 1, 1) = Running(SlotBits(m))[p]
  BY <1>1, <1>2, <1>4 DEF At
<1> QED BY <1>2, <1>5

LEMMA AtEnd ==
    ASSUME NEW m \in Seq(Slot), NEW e
    PROVE  At(m, Len(m) + 1, e) = ImageBits(m) /\ ImageBits(m) \in Int
<1>1. Len(m) \in Nat
  OBVIOUS
<1>2. ~(Len(m) + 1 <= Len(m)) /\ (Len(m) + 1) - 1 = Len(m) /\ Len(m) \in 0 .. Len(m)
  BY <1>1
<1>3. Running(SlotBits(m))[Len(m)] \in Int /\ ImageBits(m) = Running(SlotBits(m))[Len(m)]
  BY <1>2, SlotSums
<1> QED BY <1>2, <1>3 DEF At

-----------------------------------------------------------------------------
(* The members described so far.                                           *)

LEMMA MembersAppend ==
    ASSUME NEW ms \in Seq(Member), NEW x \in Member
    PROVE  /\ BitsOf(ms) \in Seq(Nat) /\ Append(ms, x) \in Seq(Member)
           /\ Total(BitsOf(ms)) \in Int
           /\ Total(BitsOf(Append(ms, x))) = Total(BitsOf(ms)) + x.bits
           /\ x.combined # 0 => MemberOffsets(Append(ms, x)) = MemberOffsets(ms)
           /\ x.combined = 0 => MemberOffsets(Append(ms, x))
                                  = MemberOffsets(ms) \union {Total(BitsOf(ms))}
<1> DEFINE b == BitsOf(ms)
           t == Append(ms, x)
<1>1. /\ Len(ms) \in Nat /\ DOMAIN ms = 1 .. Len(ms)
      /\ \A k \in 1 .. Len(ms) : ms[k] \in Member
  OBVIOUS
<1>2. /\ t \in Seq(Member) /\ Len(t) = Len(ms) + 1 /\ DOMAIN t = 1 .. Len(ms) + 1
      /\ t[Len(ms) + 1] = x /\ \A k \in 1 .. Len(ms) : t[k] = ms[k]
  OBVIOUS
<1>3. x.bits \in Nat /\ \A k \in 1 .. Len(ms) : ms[k].bits \in Nat
  BY <1>1 DEF Member
<1>4. b \in Seq(Nat) /\ Len(b) = Len(ms)
  BY <1>1, <1>3 DEF BitsOf
<1>5. b \in Seq(Int) /\ x.bits \in Int
  BY <1>3, <1>4
<1> HIDE DEF t
<1>6. BitsOf(t) = Append(b, x.bits)
  <2>1. DOMAIN BitsOf(t) = 1 .. Len(ms) + 1 /\ DOMAIN b = 1 .. Len(ms)
    BY <1>1, <1>2 DEF BitsOf
  <2>2. \A k \in 1 .. Len(ms) : BitsOf(t)[k] = b[k]
    BY <1>1, <1>2 DEF BitsOf
  <2>3. BitsOf(t)[Len(ms) + 1] = x.bits
    BY <1>1, <1>2 DEF BitsOf
  <2>4. BitsOf(t) = [k \in 1 .. Len(ms) + 1 |-> BitsOf(t)[k]]
    BY <2>1 DEF BitsOf
  <2> HIDE DEF b
  <2>5. /\ Append(b, x.bits) = [k \in 1 .. Len(ms) + 1 |-> Append(b, x.bits)[k]]
        /\ \A k \in 1 .. Len(ms) : Append(b, x.bits)[k] = b[k]
        /\ Append(b, x.bits)[Len(ms) + 1] = x.bits
    BY <1>1, <1>4, <1>5
  <2>6. \A k \in 1 .. Len(ms) + 1 : BitsOf(t)[k] = Append(b, x.bits)[k]
    <3> SUFFICES ASSUME NEW k \in 1 .. Len(ms) + 1
                 PROVE  BitsOf(t)[k] = Append(b, x.bits)[k]
      OBVIOUS
    <3>1. k \in 1 .. Len(ms) \/ k = Len(ms) + 1
      BY <1>1
    <3> QED BY <2>2, <2>3, <2>5, <3>1
  <2> QED BY <2>4, <2>5, <2>6, Zenon
<1> HIDE DEF b
<1>7. Total(b) \in Int /\ Total(BitsOf(t)) = Total(b) + x.bits
  BY <1>5, <1>6, TotalAppend
<1>8. \A i \in 0 .. Len(ms) : Running(BitsOf(t))[i] = Running(b)[i]
  BY <1>4, <1>5, <1>6, RunningAppend
<1>9. \A n \in 1 .. Len(ms) + 1 : Running(BitsOf(t))[n - 1] = Running(b)[n - 1]
  BY <1>1, <1>8
<1>10. Running(b)[(Len(ms) + 1) - 1] = Total(b)
  BY <1>1, <1>4 DEF Total
<1> DEFINE Own == {k \in 1 .. Len(ms) : ms[k].combined = 0}
<1>11. /\ MemberOffsets(ms) = {Running(b)[n - 1] : n \in Own}
       /\ MemberOffsets(t) = {Running(b)[n - 1] :
                                n \in {k \in 1 .. Len(ms) + 1 : t[k].combined = 0}}
  BY <1>1, <1>2, <1>9 DEF MemberOffsets, b
<1>12. {k \in 1 .. Len(ms) + 1 : t[k].combined = 0}
         = Own \union (IF x.combined = 0 THEN {Len(ms) + 1} ELSE {})
  BY <1>1, <1>2
<1>13. x.combined # 0 => MemberOffsets(t) = MemberOffsets(ms)
  BY <1>11, <1>12
<1>14. x.combined = 0 => MemberOffsets(t) = MemberOffsets(ms) \union {Total(b)}
  <2> HIDE DEF Own
  <2> QED BY <1>10, <1>11, <1>12
<1> QED BY <1>2, <1>4, <1>7, <1>13, <1>14 DEF b, t

-----------------------------------------------------------------------------
(* The generator walks the image: where it is, the types of what it keeps, *)
(* and that bits are only stored inside of a slot.                         *)

GenInv ==
    /\ mapping \in Seq(Slot)
    /\ pdo \in 1 .. Len(mapping) + 1 /\ entry \in Nat \ {0}
    /\ pdo <= Len(mapping) /\ mapping[pdo].used => entry <= Len(mapping[pdo].entries) + 1
    /\ stored \in Nat /\ combined \in Nat /\ members \in Seq(Member)
    /\ stored # 0 => pdo <= Len(mapping)

Here == At(mapping, pdo, entry)

Described == Total(BitsOf(members))

LEMMA FlushedAdds ==
    ASSUME GenInv
    PROVE  /\ Flushed \in Seq(Member) /\ Counted \in Nat /\ Described \in Int
           /\ BitsOf(members) \in Seq(Nat)
           /\ Total(BitsOf(Flushed)) = Described + Bytes(stored) * 8
           /\ MemberOffsets(Flushed) = MemberOffsets(members)
<1>1. members \in Seq(Member) /\ stored \in Nat /\ combined \in Nat
  BY DEF GenInv
<1>2. Bytes(stored) * 8 \in Nat /\ (stored = 0 => Bytes(stored) * 8 = 0)
  <2>1. Bytes(stored) \in Nat /\ (stored % 8 = 0 => Bytes(stored) * 8 = stored)
    BY <1>1, WholeBytes
  <2>2. stored = 0 => stored % 8 = 0
    OBVIOUS
  <2> QED BY <2>1, <2>2
<1> DEFINE x == [combined |-> combined + 1, key |-> NoName, bits |-> Bytes(stored) * 8]
<1>3. x \in Member /\ x.combined # 0 /\ x.bits = Bytes(stored) * 8 /\ Counted \in Nat
  BY <1>1, <1>2 DEF Member, Name, Counted
<1>4. Flushed = IF stored = 0 THEN members ELSE Append(members, x)
  BY DEF Flushed
<1> HIDE DEF x
<1>5. /\ Append(members, x) \in Seq(Member) /\ Total(BitsOf(members)) \in Int
      /\ BitsOf(members) \in Seq(Nat)
      /\ Total(BitsOf(Append(members, x))) = Total(BitsOf(members)) + x.bits
      /\ MemberOffsets(Append(members, x)) = MemberOffsets(members)
  BY <1>1, <1>3, MembersAppend
<1>6. CASE stored = 0
  BY <1>1, <1>2, <1>3, <1>4, <1>5, <1>6 DEF Described
<1>7. CASE stored # 0
  BY <1>3, <1>4, <1>5, <1>7 DEF Described
<1> QED BY <1>6, <1>7

(* An entry of whole bytes is added behind what is flushed. *)
LEMMA OwnAdds ==
    ASSUME GenInv, NEW n \in Nat, NEW y \in Name \union Nat
    PROVE  LET ms == Append(Flushed, [combined |-> 0, bits |-> n, key |-> y])
           IN  /\ ms \in Seq(Member)
               /\ Total(BitsOf(ms)) = Described + Bytes(stored) * 8 + n
               /\ MemberOffsets(ms) = MemberOffsets(members)
                                        \union {Described + Bytes(stored) * 8}
<1> DEFINE x == [combined |-> 0, bits |-> n, key |-> y]
<1>1. x \in Member /\ x.combined = 0 /\ x.bits = n
  BY DEF Member
<1> HIDE DEF x
<1>2. Flushed \in Seq(Member)
  BY FlushedAdds
<1>3. /\ Append(Flushed, x) \in Seq(Member)
      /\ Total(BitsOf(Append(Flushed, x))) = Total(BitsOf(Flushed)) + x.bits
      /\ MemberOffsets(Append(Flushed, x)) = MemberOffsets(Flushed) \union {Total(BitsOf(Flushed))}
  BY <1>1, <1>2, MembersAppend
<1> QED BY <1>1, <1>3, FlushedAdds DEF x

(* An entry moves the generator by its bits, the end of a slot not at all. *)
LEMMA EntryMoves ==
    ASSUME GenInv, DescribeEntry
    PROVE  LET n == mapping[pdo].entries[entry]
           IN  /\ pdo \in 1 .. Len(mapping) /\ mapping[pdo].used
               /\ entry \in 1 .. Len(mapping[pdo].entries)
               /\ n \in Nat /\ Here \in Int /\ Here' = Here + n
               /\ Here = EntryOffset(mapping, <<pdo, entry>>)
               /\ EntryKey(mapping, <<pdo, entry>>) \in Name \union Nat
               /\ mapping' = mapping /\ result = "running" /\ result' = "running"
               /\ pdo' = pdo /\ entry' = entry + 1
<1>1. /\ pdo \in 1 .. Len(mapping) /\ mapping[pdo].used
      /\ entry \in 1 .. Len(mapping[pdo].entries) /\ mapping \in Seq(Slot)
  <2>1. /\ mapping \in Seq(Slot) /\ pdo \in 1 .. Len(mapping) + 1 /\ entry \in Nat \ {0}
        /\ pdo <= Len(mapping) /\ mapping[pdo].used
        /\ entry <= Len(mapping[pdo].entries) /\ Len(mapping) \in Nat
    BY DEF GenInv, DescribeEntry, InPdo
  <2>2. pdo \in 1 .. Len(mapping)
    BY <2>1
  <2>3. Len(mapping[pdo].entries) \in Nat
    BY <2>1, <2>2, SlotEntries
  <2> QED BY <2>1, <2>2, <2>3
<1>2. /\ mapping' = mapping /\ result = "running" /\ result' = "running"
      /\ pdo' = pdo /\ entry' = entry + 1
  BY DEF DescribeEntry, InPdo, contents
<1>3. EntryKey(mapping, <<pdo, entry>>) \in Name \union Nat
  BY <1>1, KeyTyped
<1> QED BY <1>1, <1>2, <1>3, AtEntry DEF Here

LEMMA SlotMoves ==
    ASSUME GenInv, EndPdo
    PROVE  /\ pdo \in 1 .. Len(mapping)
           /\ mapping[pdo].used => entry = Len(mapping[pdo].entries) + 1
           /\ Here \in Int /\ Here' = Here /\ Here = Running(SlotBits(mapping))[pdo]
           /\ mapping' = mapping /\ result = "running" /\ result' = "running"
           /\ pdo' = pdo + 1 /\ entry' = 1
<1>1. /\ mapping \in Seq(Slot) /\ pdo \in 1 .. Len(mapping)
      /\ mapping[pdo].used => entry = Len(mapping[pdo].entries) + 1
  <2>1. /\ mapping \in Seq(Slot) /\ pdo \in 1 .. Len(mapping) + 1 /\ entry \in Nat \ {0}
        /\ pdo <= Len(mapping) /\ Len(mapping) \in Nat
        /\ mapping[pdo].used => /\ ~(entry <= Len(mapping[pdo].entries))
                                /\ entry <= Len(mapping[pdo].entries) + 1
    BY DEF GenInv, EndPdo, InPdo
  <2>2. pdo \in 1 .. Len(mapping)
    BY <2>1
  <2>3. Len(mapping[pdo].entries) \in Nat
    BY <2>1, <2>2, SlotEntries
  <2> QED BY <2>1, <2>2, <2>3
<1>2. /\ mapping' = mapping /\ result = "running" /\ result' = "running"
      /\ pdo' = pdo + 1 /\ entry' = 1
  BY DEF EndPdo, contents
<1> QED BY <1>1, <1>2, AtSlotEnd DEF Here

LEMMA GenInit == Init => GenInv
<1>2. << >> \in Seq(Slot) /\ << >> \in Seq(Member)
  OBVIOUS
<1> SUFFICES ASSUME Init PROVE GenInv
  OBVIOUS
<1>3. mapping \in Seq(Slot)
  BY <1>2, CanopenAssumption DEF Init
<1>4. \A k \in 1 .. Len(mapping) : Len(mapping[k].entries) \in Nat
  BY <1>3, SlotEntries
<1>5. Len(mapping) \in Nat
  BY <1>3
<1> QED BY <1>2, <1>3, <1>4, <1>5 DEF Init, GenInv

LEMMA GenStep == GenInv /\ [Next]_vars => GenInv'
<1> SUFFICES ASSUME GenInv, [Next]_vars PROVE GenInv'
  OBVIOUS
<1>1. CASE DescribeEntry
  <2> DEFINE n == mapping[pdo].entries[entry]
             y == EntryKey(mapping, <<pdo, entry>>)
             ms == Append(Flushed, [combined |-> 0, bits |-> n, key |-> y])
  <2>1. \/ members' = ms /\ combined' = Counted /\ stored' = 0
        \/ stored' = stored + n /\ UNCHANGED <<members, combined>>
    BY <1>1 DEF DescribeEntry
  <2>2. /\ n \in Nat /\ pdo \in 1 .. Len(mapping) /\ mapping[pdo].used
        /\ entry \in 1 .. Len(mapping[pdo].entries) /\ pdo' = pdo /\ entry' = entry + 1
        /\ mapping' = mapping /\ y \in Name \union Nat
    BY <1>1, EntryMoves
  <2> HIDE DEF n, y
  <2>3. ms \in Seq(Member) /\ Counted \in Nat
    BY <2>2, OwnAdds, FlushedAdds
  <2> HIDE DEF ms
  <2>4. /\ members' \in Seq(Member) /\ combined' \in Nat /\ stored' \in Nat
    BY <2>1, <2>2, <2>3 DEF GenInv
  <2>5. /\ mapping \in Seq(Slot) /\ Len(mapping) \in Nat
        /\ Len(mapping[pdo].entries) \in Nat
    BY <2>2, SlotEntries DEF GenInv
  <2>6. /\ pdo' \in 1 .. Len(mapping) + 1 /\ entry' \in Nat \ {0} /\ pdo' <= Len(mapping)
        /\ entry' <= Len(mapping[pdo].entries) + 1
    BY <2>2, <2>5
  <2> QED BY <2>2, <2>4, <2>5, <2>6 DEF GenInv
<1>2. CASE EndPdo
  <2>1. members' = Flushed /\ combined' = Counted /\ stored' = 0
    BY <1>2 DEF EndPdo
  <2>2. members' \in Seq(Member) /\ combined' \in Nat /\ stored' \in Nat
    BY <2>1, FlushedAdds
  <2>3. /\ pdo \in 1 .. Len(mapping) /\ pdo' = pdo + 1 /\ entry' = 1 /\ mapping' = mapping
    BY <1>2, SlotMoves
  <2>4. /\ mapping \in Seq(Slot) /\ Len(mapping) \in Nat
        /\ \A k \in 1 .. Len(mapping) : Len(mapping[k].entries) \in Nat
    BY SlotEntries DEF GenInv
  <2>5. /\ pdo' \in 1 .. Len(mapping) + 1
        /\ pdo' <= Len(mapping) => entry' <= Len(mapping[pdo'].entries) + 1
    BY <2>3, <2>4
  <2> QED BY <2>1, <2>2, <2>3, <2>4, <2>5 DEF GenInv
<1>3. CASE WalkElement \/ Finish \/ UNCHANGED vars
  BY <1>3 DEF WalkElement, Finish, vars, contents, generator, GenInv
<1>4. CASE Abort
  <2>1. [combined |-> 0, key |-> NoName, bits |-> 8 * Bytes(ImageBits(mapping))] \in Member
    <3>1. ImageBits(mapping) \in Nat
      BY ImageNat DEF GenInv
    <3>2. Bytes(ImageBits(mapping)) \in Nat
      BY <3>1, WholeBytes
    <3>3. 8 * Bytes(ImageBits(mapping)) \in Nat
      BY <3>2
    <3> QED BY <3>3 DEF Member, Name
  <2> QED BY <1>4, <2>1 DEF Abort, contents, GenInv
<1> QED BY <1>1, <1>2, <1>3, <1>4 DEF Next

-----------------------------------------------------------------------------
(* What is described and stored covers the image up to here.               *)

CoverInv ==
    /\ result = "running" => Described + stored >= Here
    /\ ImageCovered

LEMMA CoverInit == Init => CoverInv
<1> SUFFICES ASSUME Init PROVE CoverInv
  OBVIOUS
<1>1. Described = 0
  <2>1. BitsOf(members) = << >>
    BY DEF Init, BitsOf
  <2> QED BY <2>1, TotalEmpty DEF Described
<1>2. Here = 0
  <2>1. mapping \in Seq(Slot) /\ pdo = 1 /\ entry = 1
    BY GenInit DEF Init, GenInv
  <2> QED BY <2>1, AtStart DEF Here
<1> QED BY <1>1, <1>2 DEF Init, CoverInv, ImageCovered

LEMMA CoverStep == GenInv /\ CoverInv /\ [Next]_vars => CoverInv'
<1> SUFFICES ASSUME GenInv, CoverInv, [Next]_vars PROVE CoverInv'
  OBVIOUS
<1>1. stored \in Nat /\ stored <= Bytes(stored) * 8 /\ Bytes(stored) * 8 \in Nat
  <2>1. stored \in Nat
    BY DEF GenInv
  <2>2. Bytes(stored) \in Nat /\ stored <= Bytes(stored) * 8
    BY <2>1, WholeBytes
  <2> QED BY <2>1, <2>2
<1>2. Described \in Int
  BY FlushedAdds
<1>3. CASE DescribeEntry
  <2> DEFINE n == mapping[pdo].entries[entry]
             y == EntryKey(mapping, <<pdo, entry>>)
             own == [combined |-> 0, bits |-> n, key |-> y]
  <2>1. /\ n \in Nat /\ Here \in Int /\ Here' = Here + n /\ y \in Name \union Nat
        /\ result = "running" /\ result' = "running"
    BY <1>3, EntryMoves
  <2>2. \/ members' = Append(Flushed, own) /\ stored' = 0
        \/ members' = members /\ stored' = stored + n
    BY <1>3 DEF DescribeEntry
  <2> HIDE DEF n, y
  <2>3. Described + stored >= Here
    BY <2>1 DEF CoverInv
  <2>4. CASE members' = members /\ stored' = stored + n
    <3>1. Described' = Described
      BY <2>4 DEF Described, BitsOf
    <3>2. Described + (stored + n) >= Here + n
      BY <1>1, <1>2, <2>1, <2>3
    <3> QED BY <2>1, <2>4, <3>1, <3>2 DEF CoverInv, ImageCovered
  <2>5. CASE members' = Append(Flushed, own) /\ stored' = 0
    <3>1. Described' = Described + Bytes(stored) * 8 + n
      BY <2>1, <2>5, OwnAdds DEF Described, BitsOf
    <3>2. Described + Bytes(stored) * 8 + n + 0 >= Here + n
      BY <1>1, <1>2, <2>1, <2>3
    <3> QED BY <2>1, <2>5, <3>1, <3>2 DEF CoverInv, ImageCovered
  <2> QED BY <2>2, <2>4, <2>5
<1>4. CASE EndPdo
  <2>1. Here \in Int /\ Here' = Here /\ result = "running" /\ result' = "running"
    BY <1>4, SlotMoves
  <2>2. members' = Flushed /\ stored' = 0
    BY <1>4 DEF EndPdo
  <2>3. Described' = Described + Bytes(stored) * 8
    BY <2>2, FlushedAdds DEF Described, BitsOf
  <2>4. Described + stored >= Here
    BY <2>1 DEF CoverInv
  <2>5. Described + Bytes(stored) * 8 + 0 >= Here
    BY <1>1, <1>2, <2>1, <2>4
  <2> QED BY <2>1, <2>2, <2>3, <2>5 DEF CoverInv, ImageCovered
<1>5. CASE Finish
  <2>1. /\ result = "running" /\ result' = "described" /\ pdo > Len(mapping)
        /\ mapping' = mapping /\ members' = members
    BY <1>5 DEF Finish, contents
  <2>2. stored = 0 /\ pdo = Len(mapping) + 1 /\ mapping \in Seq(Slot)
    BY <2>1 DEF GenInv
  <2>3. Here = ImageBits(mapping) /\ ImageBits(mapping) \in Int
    BY <2>2, AtEnd DEF Here
  <2>4. Described >= ImageBits(mapping)
    BY <1>2, <2>1, <2>2, <2>3 DEF CoverInv
  <2>5. Described' = Described /\ ImageBits(mapping)' = ImageBits(mapping)
    BY <2>1 DEF Described, BitsOf, ImageBits, SlotBits
  <2> QED BY <2>1, <2>4, <2>5 DEF CoverInv, ImageCovered, Described
<1>6. CASE Abort
  <2> DEFINE x == [combined |-> 0, key |-> NoName, bits |-> 8 * Bytes(ImageBits(mapping))]
  <2>1. result' = "raw" /\ members' = <<x>> /\ mapping' = mapping
    BY <1>6 DEF Abort, contents
  <2>2. ImageBits(mapping) \in Nat
    BY ImageNat DEF GenInv
  <2>3. Bytes(ImageBits(mapping)) \in Nat /\ ImageBits(mapping) <= Bytes(ImageBits(mapping)) * 8
    BY <2>2, WholeBytes
  <2>4. x \in Member /\ x.bits = 8 * Bytes(ImageBits(mapping)) /\ x.bits >= ImageBits(mapping)
        /\ x.bits \in Nat
    BY <2>2, <2>3 DEF Member, Name
  <2> HIDE DEF x
  <2>5. PICK ms \in Seq(Member) : Append(ms, x) = <<x>> /\ Total(BitsOf(ms)) = 0
    <3>1. << >> \in Seq(Member) /\ Append(<< >>, x) = <<x>> /\ BitsOf(<< >>) = << >>
      BY DEF BitsOf
    <3> QED BY <3>1, TotalEmpty
  <2>6. Total(BitsOf(<<x>>)) = x.bits
    <3>1. Total(BitsOf(Append(ms, x))) = Total(BitsOf(ms)) + x.bits
      BY <2>4, MembersAppend
    <3> QED BY <2>4, <2>5, <3>1
  <2>7. Described' = x.bits
    <3>1. Described' = Total(BitsOf(members'))
      BY DEF Described, BitsOf
    <3> QED BY <2>1, <2>6, <3>1
  <2>8. ImageBits(mapping)' = ImageBits(mapping)
    BY <2>1 DEF ImageBits, SlotBits
  <2> QED BY <2>1, <2>4, <2>7, <2>8 DEF CoverInv, ImageCovered, Described
<1>7. CASE WalkElement \/ UNCHANGED vars
  <2>1. /\ UNCHANGED <<mapping, result, members, stored, pdo, entry>>
    BY <1>7 DEF WalkElement, vars, contents, generator
  <2> QED BY <2>1 DEF CoverInv, ImageCovered, Described, Here, At, BitsOf, ImageBits, SlotBits
<1> QED BY <1>3, <1>4, <1>5, <1>6, <1>7 DEF Next

(* The described buffer is never shorter than the image it is filled from, *)
(* for every mapping and wherever reading it is aborted                    *)
(* (slave_canopen_protocol.cpp:581-724, slave.cpp:907-926).                *)
THEOREM CoversImage == Spec => []ImageCovered
<1>1. CoverInv => ImageCovered
  BY DEF CoverInv
<1> QED BY <1>1, GenInit, GenStep, CoverInit, CoverStep, PTL DEF Spec

-----------------------------------------------------------------------------
(* Names: a combined member is named by a number no other member has.      *)

NamesOf(ms, c) ==
    /\ \A k \in DOMAIN ms : ms[k].combined <= c
    /\ \A k, n \in DOMAIN ms :
         k # n /\ ms[k].combined # 0 => ms[k].combined # ms[n].combined

LEMMA NamesAppend ==
    ASSUME NEW ms \in Seq(Member), NEW c \in Nat, NamesOf(ms, c), NEW x \in Member,
           NEW d \in Nat, x.combined = 0 => d = c,
           x.combined # 0 => x.combined = c + 1 /\ d = c + 1
    PROVE  NamesOf(Append(ms, x), d)
<1> DEFINE t == Append(ms, x)
<1>1. /\ Len(ms) \in Nat /\ DOMAIN ms = 1 .. Len(ms) /\ DOMAIN t = 1 .. Len(ms) + 1
      /\ t[Len(ms) + 1] = x /\ \A k \in 1 .. Len(ms) : t[k] = ms[k]
      /\ \A k \in 1 .. Len(ms) : ms[k] \in Member
  OBVIOUS
<1> HIDE DEF t
<1>2. \A k \in 1 .. Len(ms) : ms[k].combined \in Nat /\ ms[k].combined <= c
  BY <1>1 DEF Member, NamesOf
<1>3. \A k \in DOMAIN t : k \in 1 .. Len(ms) \/ k = Len(ms) + 1
  BY <1>1
<1>4. ASSUME NEW k \in DOMAIN t PROVE t[k].combined <= d
  BY <1>1, <1>2, <1>3
<1>5. ASSUME NEW k \in DOMAIN t, NEW n \in DOMAIN t, k # n, t[k].combined # 0
      PROVE  t[k].combined # t[n].combined
  <2>1. CASE k \in 1 .. Len(ms) /\ n \in 1 .. Len(ms)
    BY <1>1, <1>5, <2>1 DEF NamesOf
  <2>2. CASE k = Len(ms) + 1 /\ n \in 1 .. Len(ms)
    BY <1>1, <1>2, <1>5, <2>2
  <2>3. CASE k \in 1 .. Len(ms) /\ n = Len(ms) + 1
    BY <1>1, <1>2, <1>5, <2>3
  <2> QED BY <1>3, <1>5, <2>1, <2>2, <2>3
<1> QED BY <1>4, <1>5 DEF NamesOf, t

NamesInv == result # "raw" => NamesOf(members, combined)

LEMMA FlushedNames == GenInv /\ NamesInv /\ result # "raw" => NamesOf(Flushed, Counted)
<1> SUFFICES ASSUME GenInv, NamesOf(members, combined) PROVE NamesOf(Flushed, Counted)
  BY DEF NamesInv
<1> DEFINE x == [combined |-> combined + 1, key |-> NoName, bits |-> Bytes(stored) * 8]
<1>1. members \in Seq(Member) /\ combined \in Nat /\ combined + 1 \in Nat
  BY DEF GenInv
<1>2. x \in Member /\ x.combined = combined + 1
  <2>1. stored \in Nat
    BY DEF GenInv
  <2>2. Bytes(stored) \in Nat
    BY <2>1, WholeBytes
  <2>3. Bytes(stored) * 8 \in Nat
    BY <2>2
  <2> QED BY <1>1, <2>3 DEF Member, Name
<1>3. /\ Flushed = IF stored = 0 THEN members ELSE Append(members, x)
      /\ Counted = IF stored = 0 THEN combined ELSE combined + 1
  BY DEF Flushed, Counted
<1> HIDE DEF x
<1>4. NamesOf(Append(members, x), combined + 1)
  BY <1>1, <1>2, NamesAppend
<1> QED BY <1>3, <1>4

LEMMA NamesStep == GenInv /\ NamesInv /\ [Next]_vars => NamesInv'
<1> SUFFICES ASSUME GenInv, NamesInv, [Next]_vars PROVE NamesInv'
  OBVIOUS
<1>1. CASE DescribeEntry
  <2> DEFINE n == mapping[pdo].entries[entry]
             y == EntryKey(mapping, <<pdo, entry>>)
             x == [combined |-> 0, bits |-> n, key |-> y]
  <2>1. \/ members' = Append(Flushed, x) /\ combined' = Counted
        \/ UNCHANGED <<members, combined>>
    BY <1>1 DEF DescribeEntry
  <2>2. n \in Nat /\ result = "running" /\ y \in Name \union Nat
    BY <1>1, EntryMoves
  <2> HIDE DEF n, y
  <2>3. x \in Member /\ x.combined = 0
    BY <2>2 DEF Member
  <2> HIDE DEF x
  <2>4. NamesOf(Flushed, Counted) /\ Flushed \in Seq(Member) /\ Counted \in Nat
    BY <2>2, FlushedNames, FlushedAdds
  <2>5. NamesOf(Append(Flushed, x), Counted)
    <3>1. PICK f \in Seq(Member), c \in Nat : f = Flushed /\ c = Counted /\ NamesOf(f, c)
      BY <2>4
    <3>2. NamesOf(Append(f, x), c)
      BY <2>3, <3>1, NamesAppend
    <3> QED BY <3>1, <3>2
  <2> QED BY <2>1, <2>2, <2>5 DEF NamesInv
<1>2. CASE EndPdo
  <2>1. members' = Flushed /\ combined' = Counted /\ result = "running"
    BY <1>2 DEF EndPdo
  <2> QED BY <2>1, FlushedNames DEF NamesInv
<1>3. CASE WalkElement \/ Finish \/ UNCHANGED vars
  BY <1>3 DEF WalkElement, Finish, vars, generator, NamesInv
<1>4. CASE Abort
  BY <1>4 DEF Abort, NamesInv
<1> QED BY <1>1, <1>2, <1>3, <1>4 DEF Next

-----------------------------------------------------------------------------
(* Offsets: the entries of whole bytes the generator has passed.           *)

Passed(m, p, e) ==
    {q \in WholeEntries(m) : q[1] < p \/ (q[1] = p /\ q[2] < e)}

Offsets(m, s) == {EntryOffset(m, q) : q \in s}

LEMMA WholeEntry ==
    ASSUME NEW m \in Seq(Slot)
    PROVE  \A q : q \in WholeEntries(m) <=>
              \E k \in 1 .. Len(m) : \E n \in 1 .. Len(m[k].entries) :
                 q = <<k, n>> /\ m[k].used /\ m[k].entries[n] % 8 = 0
<1>1. DOMAIN m = 1 .. Len(m)
  OBVIOUS
<1>2. \A k \in 1 .. Len(m) : DOMAIN m[k].entries = 1 .. Len(m[k].entries)
  <2> SUFFICES ASSUME NEW k \in 1 .. Len(m)
               PROVE  DOMAIN m[k].entries = 1 .. Len(m[k].entries)
    OBVIOUS
  <2>1. m[k].entries \in Seq(Nat)
    BY SlotEntries
  <2> QED BY <2>1
<1> DEFINE Of(k) == {<<k, n>> : n \in {j \in DOMAIN m[k].entries : m[k].entries[j] % 8 = 0}}
<1>3. WholeEntries(m) = UNION {Of(k) : k \in {j \in 1 .. Len(m) : m[j].used}}
  BY <1>1 DEF WholeEntries
<1>4. ASSUME NEW q, NEW k \in 1 .. Len(m)
      PROVE  q \in Of(k) <=> \E n \in 1 .. Len(m[k].entries) :
                                q = <<k, n>> /\ m[k].entries[n] % 8 = 0
  BY <1>2
<1> HIDE DEF Of
<1>5. ASSUME NEW q
      PROVE  q \in WholeEntries(m) <=> \E k \in 1 .. Len(m) : m[k].used /\ q \in Of(k)
  BY <1>3
<1> QED BY <1>4, <1>5

LEMMA InPassed ==
    ASSUME NEW m, NEW p, NEW e, NEW q
    PROVE  q \in Passed(m, p, e) <=>
              q \in WholeEntries(m) /\ (q[1] < p \/ (q[1] = p /\ q[2] < e))
BY DEF Passed

LEMMA PassedEntry ==
    ASSUME NEW m \in Seq(Slot), NEW p \in 1 .. Len(m), m[p].used,
           NEW e \in 1 .. Len(m[p].entries)
    PROVE  Passed(m, p, e + 1) = Passed(m, p, e) \union
              (IF m[p].entries[e] % 8 = 0 THEN {<<p, e>>} ELSE {})
<1>1. Len(m) \in Nat /\ \A k \in 1 .. Len(m) : Len(m[k].entries) \in Nat
  BY SlotEntries
<1>2. m[p].entries[e] % 8 = 0 => <<p, e>> \in WholeEntries(m)
  BY WholeEntry
<1>3. ASSUME NEW q \in WholeEntries(m)
      PROVE  /\ q[2] < e + 1 <=> q[2] < e \/ q[2] = e
             /\ q = <<q[1], q[2]>>
             /\ q[1] = p /\ q[2] = e => m[p].entries[e] % 8 = 0
  <2>1. PICK k \in 1 .. Len(m) : \E n \in 1 .. Len(m[k].entries) :
                 q = <<k, n>> /\ m[k].used /\ m[k].entries[n] % 8 = 0
    BY WholeEntry
  <2>2. PICK n \in 1 .. Len(m[k].entries) : q = <<k, n>> /\ m[k].entries[n] % 8 = 0
    BY <2>1
  <2>3. n \in Nat /\ e \in Nat
    BY <1>1
  <2> QED BY <2>2, <2>3
<1>4. e < e + 1 /\ ~(p < p)
  BY <1>1
<1>5. <<p, e>>[1] = p /\ <<p, e>>[2] = e
  OBVIOUS
<1>6. ASSUME NEW q
      PROVE  q \in Passed(m, p, e + 1) <=>
               q \in Passed(m, p, e) \/ (m[p].entries[e] % 8 = 0 /\ q = <<p, e>>)
  <2>1. CASE q \in WholeEntries(m)
    <3>1. q = <<p, e>> <=> q[1] = p /\ q[2] = e
      BY <1>3, <1>5, <2>1
    <3>2. m[p].entries[e] % 8 = 0 /\ q = <<p, e>> <=> q[1] = p /\ q[2] = e
      BY <1>3, <2>1, <3>1
    <3>3. q[2] < e + 1 <=> q[2] < e \/ q[2] = e
      BY <1>3, <2>1
    <3>4. q \in Passed(m, p, e + 1) <=> q[1] < p \/ (q[1] = p /\ q[2] < e + 1)
      BY <2>1, InPassed
    <3>5. q \in Passed(m, p, e) <=> q[1] < p \/ (q[1] = p /\ q[2] < e)
      BY <2>1, InPassed
    <3> QED BY ONLY <3>2, <3>3, <3>4, <3>5
  <2>2. CASE q \notin WholeEntries(m)
    BY <1>2, <2>2, InPassed
  <2> QED BY <2>1, <2>2
<1>7. CASE m[p].entries[e] % 8 = 0
  <2>1. Passed(m, p, e + 1) = Passed(m, p, e) \union {<<p, e>>}
    BY <1>6, <1>7
  <2> QED BY <1>7, <2>1
<1>8. CASE m[p].entries[e] % 8 # 0
  <2>1. Passed(m, p, e + 1) = Passed(m, p, e)
    BY <1>6, <1>8
  <2> QED BY <1>8, <2>1
<1> QED BY <1>7, <1>8

LEMMA PassedSlot ==
    ASSUME NEW m \in Seq(Slot), NEW p \in 1 .. Len(m), NEW e,
           m[p].used => e = Len(m[p].entries) + 1
    PROVE  Passed(m, p + 1, 1) = Passed(m, p, e)
<1>1. Len(m) \in Nat /\ \A k \in 1 .. Len(m) : Len(m[k].entries) \in Nat
  BY SlotEntries
<1>2. ASSUME NEW q \in WholeEntries(m)
      PROVE  q[1] < p + 1 \/ (q[1] = p + 1 /\ q[2] < 1) <=> q[1] < p \/ (q[1] = p /\ q[2] < e)
  <2>1. PICK k \in 1 .. Len(m) : \E n \in 1 .. Len(m[k].entries) :
                 q = <<k, n>> /\ m[k].used /\ m[k].entries[n] % 8 = 0
    BY WholeEntry
  <2>2. PICK n \in 1 .. Len(m[k].entries) : q = <<k, n>>
    BY <2>1
  <2>3. /\ q[1] = k /\ q[2] = n /\ n \in Nat /\ k \in Nat /\ p \in Nat /\ 1 <= n
        /\ n <= Len(m[k].entries) /\ Len(m[k].entries) \in Nat
    BY <1>1, <2>2
  <2>4. k = p => n < e
    BY <2>1, <2>3
  <2>5. k < p + 1 <=> k < p \/ k = p
    BY <2>3
  <2>6. ~(n < 1)
    BY <2>3
  <2>7. k < p + 1 \/ (k = p + 1 /\ n < 1) <=> k < p \/ (k = p /\ n < e)
    BY ONLY <2>4, <2>5, <2>6
  <2> QED BY ONLY <2>3, <2>7
<1>3. ASSUME NEW q PROVE q \in Passed(m, p + 1, 1) <=> q \in Passed(m, p, e)
  BY <1>2, InPassed
<1> QED BY <1>3

LEMMA PassedEnds ==
    ASSUME NEW m \in Seq(Slot), NEW e
    PROVE  Passed(m, 1, 1) = {} /\ Passed(m, Len(m) + 1, e) = WholeEntries(m)
<1>1. Len(m) \in Nat /\ \A k \in 1 .. Len(m) : Len(m[k].entries) \in Nat
  BY SlotEntries
<1>2. ASSUME NEW q \in WholeEntries(m)
      PROVE  q[1] < Len(m) + 1 /\ ~(q[1] < 1 \/ (q[1] = 1 /\ q[2] < 1))
  <2>1. PICK k \in 1 .. Len(m) : \E n \in 1 .. Len(m[k].entries) : q = <<k, n>>
    BY WholeEntry
  <2>2. PICK n \in 1 .. Len(m[k].entries) : q = <<k, n>>
    BY <2>1
  <2> QED BY <1>1, <2>2
<1>3. ASSUME NEW q
      PROVE  q \notin Passed(m, 1, 1) /\ (q \in Passed(m, Len(m) + 1, e) <=> q \in WholeEntries(m))
  BY <1>2, InPassed
<1> QED BY <1>3

LEMMA OffsetsUnion ==
    ASSUME NEW m, NEW s, NEW q
    PROVE  Offsets(m, s \union {q}) = Offsets(m, s) \union {EntryOffset(m, q)}
BY DEF Offsets

(* What is stored fills whole bytes wherever the image does. *)
LEMMA Aligned ==
    ASSUME NEW d \in Int, NEW s \in Nat, d % 8 = 0, (d + s) % 8 = 0
    PROVE  Bytes(s) * 8 = s
<1>1. s % 8 = 0
  OBVIOUS
<1> QED BY <1>1, WholeBytes

LEMMA AlignedSum ==
    ASSUME NEW d \in Int, NEW n \in Nat, d % 8 = 0, n % 8 = 0
    PROVE  (d + n) % 8 = 0
OBVIOUS

(* In a mapping whose bit entries fill whole bytes the description is as   *)
(* long as the part of the image the generator has passed, and the members *)
(* of their own are where the image has the entries.                       *)
PlaceOf(map, ms, s, here, passed, r) ==
    ByteAligned(map) =>
        /\ r = "running" =>
             /\ Total(BitsOf(ms)) + s = here
             /\ Total(BitsOf(ms)) % 8 = 0
             /\ MemberOffsets(ms) = Offsets(map, passed)
        /\ r = "described" => MemberOffsets(ms) = Offsets(map, WholeEntries(map))

PlaceInv == PlaceOf(mapping, members, stored, Here, Passed(mapping, pdo, entry), result)

LEMMA PlacePrimed ==
    PlaceInv' = PlaceOf(mapping', members', stored', Here', Passed(mapping', pdo', entry'), result')
BY DEF PlaceInv

LEMMA PlaceNow ==
    ASSUME PlaceInv, ByteAligned(mapping), result = "running"
    PROVE  /\ Described + stored = Here
           /\ Described % 8 = 0
           /\ MemberOffsets(members) = Offsets(mapping, Passed(mapping, pdo, entry))
BY DEF PlaceInv, PlaceOf, Described

LEMMA PlaceInit == Init => PlaceInv
<1> SUFFICES ASSUME Init PROVE PlaceInv
  OBVIOUS
<1>1. members = << >> /\ stored = 0 /\ pdo = 1 /\ entry = 1 /\ result = "running"
  BY DEF Init
<1>2. mapping \in Seq(Slot)
  BY GenInit DEF GenInv
<1>3. Described = 0
  <2>1. BitsOf(members) = << >>
    BY <1>1 DEF BitsOf
  <2> QED BY <2>1, TotalEmpty DEF Described
<1>4. Here = 0
  BY <1>1, <1>2, AtStart DEF Here
<1>5. Passed(mapping, pdo, entry) = {}
  BY <1>1, <1>2, PassedEnds
<1>6. MemberOffsets(members) = {}
  BY <1>1 DEF MemberOffsets
<1> QED BY <1>1, <1>3, <1>4, <1>5, <1>6 DEF PlaceInv, PlaceOf, Offsets, Described

LEMMA EntryPlaced ==
    ASSUME GenInv, PlaceInv, DescribeEntry PROVE PlaceInv'
<1> DEFINE n == mapping[pdo].entries[entry]
           passed == Passed(mapping, pdo, entry)
           y == EntryKey(mapping, <<pdo, entry>>)
           own == Append(Flushed, [combined |-> 0, bits |-> n, key |-> y])
<1>1. /\ pdo \in 1 .. Len(mapping) /\ mapping[pdo].used
      /\ entry \in 1 .. Len(mapping[pdo].entries)
      /\ n \in Nat /\ Here \in Int /\ Here' = Here + n
      /\ Here = EntryOffset(mapping, <<pdo, entry>>) /\ y \in Name \union Nat
      /\ mapping' = mapping /\ result = "running" /\ result' = "running"
      /\ pdo' = pdo /\ entry' = entry + 1
  BY EntryMoves
<1>2. mapping \in Seq(Slot) /\ stored \in Nat /\ Described \in Int
  BY FlushedAdds DEF GenInv
<1>3. Passed(mapping', pdo', entry')
        = passed \union (IF n % 8 = 0 THEN {<<pdo, entry>>} ELSE {})
  BY <1>1, <1>2, PassedEntry
<1>4. IF n % 8 = 0 THEN members' = own /\ stored' = 0
                   ELSE members' = members /\ stored' = stored + n
  BY DEF DescribeEntry, FillsBytes
<1>5. n % 8 = 0 => <<pdo, entry>> \in WholeEntries(mapping)
  BY <1>1, <1>2, WholeEntry
<1>6. /\ own \in Seq(Member)
      /\ Total(BitsOf(own)) = Described + Bytes(stored) * 8 + n
      /\ MemberOffsets(own) = MemberOffsets(members) \union {Described + Bytes(stored) * 8}
  BY <1>1, OwnAdds
<1> HIDE DEF n, y, own
<1> SUFFICES ASSUME ByteAligned(mapping)
             PROVE  /\ Total(BitsOf(members')) + stored' = Here + n
                    /\ Total(BitsOf(members')) % 8 = 0
                    /\ MemberOffsets(members') = Offsets(mapping, Passed(mapping', pdo', entry'))
  BY <1>1, PlacePrimed DEF PlaceOf
<1>7. /\ Described + stored = Here /\ Described % 8 = 0
      /\ MemberOffsets(members) = Offsets(mapping, passed)
  BY <1>1, PlaceNow
<1>8. Described = Total(BitsOf(members))
  BY DEF Described
<1>9. CASE n % 8 = 0
  <2>1. Here % 8 = 0
    BY <1>1, <1>5, <1>9 DEF ByteAligned
  <2>2. Bytes(stored) * 8 = stored
    BY <1>2, <1>7, <2>1, Aligned
  <2>3. Total(BitsOf(members')) = Here + n /\ stored' = 0 /\ members' = own
    BY <1>1, <1>2, <1>4, <1>6, <1>7, <1>9, <2>2
  <2>4. (Here + n) % 8 = 0
    BY <1>1, <1>9, <2>1, AlignedSum
  <2>5. MemberOffsets(members') = Offsets(mapping, passed) \union {Here}
    BY <1>6, <1>7, <2>2, <2>3
  <2>6. Passed(mapping', pdo', entry') = passed \union {<<pdo, entry>>}
    BY <1>3, <1>9
  <2>7. Offsets(mapping, Passed(mapping', pdo', entry')) = Offsets(mapping, passed) \union {Here}
    BY <1>1, <2>6, OffsetsUnion
  <2>8. Total(BitsOf(members')) + stored' = Here + n
    BY ONLY <1>1, <2>3
  <2>9. Total(BitsOf(members')) % 8 = 0
    BY ONLY <2>3, <2>4
  <2>10. MemberOffsets(members') = Offsets(mapping, Passed(mapping', pdo', entry'))
    BY ONLY <2>5, <2>7
  <2> QED BY ONLY <2>8, <2>9, <2>10
<1>10. CASE n % 8 # 0
  <2>1. members' = members /\ stored' = stored + n
    BY <1>4, <1>10
  <2>2. Total(BitsOf(members')) = Described
    BY <1>8, <2>1
  <2>3. Passed(mapping', pdo', entry') = passed
    BY <1>3, <1>10
  <2>4. Described + (stored + n) = Here + n
    BY <1>1, <1>2, <1>7
  <2> QED BY <1>7, <2>1, <2>2, <2>3, <2>4
<1> QED BY <1>9, <1>10

LEMMA SlotPlaced ==
    ASSUME GenInv, PlaceInv, EndPdo PROVE PlaceInv'
<1>1. /\ pdo \in 1 .. Len(mapping)
      /\ mapping[pdo].used => entry = Len(mapping[pdo].entries) + 1
      /\ Here \in Int /\ Here' = Here /\ Here = Running(SlotBits(mapping))[pdo]
      /\ mapping' = mapping /\ result = "running" /\ result' = "running"
      /\ pdo' = pdo + 1 /\ entry' = 1
  BY SlotMoves
<1>2. mapping \in Seq(Slot) /\ stored \in Nat /\ Described \in Int
  BY FlushedAdds DEF GenInv
<1>3. Passed(mapping', pdo', entry') = Passed(mapping, pdo, entry)
  BY <1>1, <1>2, PassedSlot
<1>4. members' = Flushed /\ stored' = 0
  BY DEF EndPdo
<1> SUFFICES ASSUME ByteAligned(mapping)
             PROVE  /\ Total(BitsOf(members')) + stored' = Here
                    /\ Total(BitsOf(members')) % 8 = 0
                    /\ MemberOffsets(members') = Offsets(mapping, Passed(mapping', pdo', entry'))
  BY <1>1, PlacePrimed DEF PlaceOf
<1>5. /\ Described + stored = Here /\ Described % 8 = 0
      /\ MemberOffsets(members) = Offsets(mapping, Passed(mapping, pdo, entry))
  BY <1>1, PlaceNow
<1>6. Here % 8 = 0
  <2>1. pdo \in DOMAIN mapping
    BY <1>1, <1>2
  <2> QED BY <1>1, <2>1 DEF ByteAligned
<1>7. Bytes(stored) * 8 = stored
  BY <1>2, <1>5, <1>6, Aligned
<1>9. Total(BitsOf(Flushed)) = Described + Bytes(stored) * 8
      /\ MemberOffsets(Flushed) = MemberOffsets(members)
  BY FlushedAdds
<1>10. Total(BitsOf(members')) = Here
  BY <1>2, <1>4, <1>5, <1>7, <1>9
<1> QED BY <1>1, <1>3, <1>4, <1>5, <1>6, <1>9, <1>10

LEMMA PlaceStep == GenInv /\ PlaceInv /\ [Next]_vars => PlaceInv'
<1> SUFFICES ASSUME GenInv, PlaceInv, [Next]_vars PROVE PlaceInv'
  OBVIOUS
<1>1. CASE Finish
  <2>1. /\ result = "running" /\ result' = "described" /\ pdo > Len(mapping)
        /\ mapping' = mapping /\ members' = members
    BY <1>1 DEF Finish, contents
  <2>2. pdo = Len(mapping) + 1 /\ mapping \in Seq(Slot)
    BY <2>1 DEF GenInv
  <2>3. Passed(mapping, pdo, entry) = WholeEntries(mapping)
    BY ONLY <2>2, PassedEnds
  <2>4. ByteAligned(mapping) => MemberOffsets(members) = Offsets(mapping, WholeEntries(mapping))
    BY <2>1, <2>3, PlaceNow
  <2> QED BY ONLY <2>1, <2>4, PlacePrimed DEF PlaceOf
<1>2. CASE Abort
  BY <1>2, PlacePrimed DEF Abort, PlaceOf
<1>3. CASE WalkElement \/ UNCHANGED vars
  <2>1. UNCHANGED <<mapping, result, members, stored, pdo, entry>>
    BY <1>3 DEF WalkElement, vars, contents, generator
  <2>2. Here' = Here
    BY <2>1 DEF Here, At
  <2> QED BY <2>1, <2>2, PlacePrimed DEF PlaceInv
<1> QED BY <1>1, <1>2, <1>3, EntryPlaced, SlotPlaced DEF Next

-----------------------------------------------------------------------------
(* Keys: an entry of its own has the key of an entry the generator has     *)
(* passed, and the entry it comes to next is not one of those.             *)

KeyFrom(map, ms, passed) ==
    \A k \in DOMAIN ms : ms[k].combined = 0 => \E q \in passed : ms[k].key = EntryKey(map, q)

DifferentKeys(ms) ==
    \A k, n \in DOMAIN ms :
        k # n /\ ms[k].combined = 0 /\ ms[n].combined = 0 => ms[k].key # ms[n].key

KeysInv ==
    DistinctKeys(mapping) /\ result # "raw" =>
        KeyFrom(mapping, members, Passed(mapping, pdo, entry)) /\ DifferentKeys(members)

(* A combined member disturbs neither. *)
LEMMA KeysCombined ==
    ASSUME NEW ms \in Seq(Member), NEW x \in Member, x.combined # 0,
           NEW m, NEW passed, KeyFrom(m, ms, passed), DifferentKeys(ms)
    PROVE  KeyFrom(m, Append(ms, x), passed) /\ DifferentKeys(Append(ms, x))
<1> DEFINE t == Append(ms, x)
<1>1. /\ Len(ms) \in Nat /\ DOMAIN ms = 1 .. Len(ms) /\ DOMAIN t = 1 .. Len(ms) + 1
      /\ t[Len(ms) + 1] = x /\ \A k \in 1 .. Len(ms) : t[k] = ms[k]
  OBVIOUS
<1> HIDE DEF t
<1>2. \A k \in DOMAIN t : t[k].combined = 0 => k \in DOMAIN ms /\ t[k] = ms[k]
  BY <1>1
<1> QED BY <1>2 DEF KeyFrom, DifferentKeys, t

(* An entry not passed yet brings a key of its own. *)
LEMMA KeysOwn ==
    ASSUME NEW ms \in Seq(Member), NEW x \in Member, x.combined = 0,
           NEW m, NEW passed, KeyFrom(m, ms, passed), DifferentKeys(ms),
           NEW q, x.key = EntryKey(m, q), \A r \in passed : EntryKey(m, r) # EntryKey(m, q)
    PROVE  KeyFrom(m, Append(ms, x), passed \union {q}) /\ DifferentKeys(Append(ms, x))
<1> DEFINE t == Append(ms, x)
<1>1. /\ Len(ms) \in Nat /\ DOMAIN ms = 1 .. Len(ms) /\ DOMAIN t = 1 .. Len(ms) + 1
      /\ t[Len(ms) + 1] = x /\ \A k \in 1 .. Len(ms) : t[k] = ms[k]
  OBVIOUS
<1> HIDE DEF t
<1>2. \A k \in DOMAIN t : (k \in DOMAIN ms /\ t[k] = ms[k]) \/ (k = Len(ms) + 1 /\ t[k] = x)
  BY <1>1
<1>3. \A k \in DOMAIN ms : ms[k].combined = 0 => ms[k].key # x.key
  BY DEF KeyFrom
<1>4. KeyFrom(m, t, passed \union {q})
  BY <1>2 DEF KeyFrom
<1>5. DifferentKeys(t)
  BY <1>2, <1>3 DEF DifferentKeys
<1> QED BY <1>4, <1>5 DEF t

LEMMA FlushedKeys ==
    ASSUME GenInv, NEW m, NEW passed, KeyFrom(m, members, passed), DifferentKeys(members)
    PROVE  KeyFrom(m, Flushed, passed) /\ DifferentKeys(Flushed)
<1> DEFINE x == [combined |-> combined + 1, key |-> NoName, bits |-> Bytes(stored) * 8]
<1>1. members \in Seq(Member) /\ x \in Member /\ x.combined # 0
  <2>1. stored \in Nat /\ combined \in Nat /\ members \in Seq(Member)
    BY DEF GenInv
  <2>2. Bytes(stored) \in Nat
    BY <2>1, WholeBytes
  <2>3. Bytes(stored) * 8 \in Nat /\ combined + 1 \in Nat /\ combined + 1 # 0
    BY <2>1, <2>2
  <2> QED BY <2>1, <2>3 DEF Member, Name
<1>2. Flushed = IF stored = 0 THEN members ELSE Append(members, x)
  BY DEF Flushed
<1> HIDE DEF x
<1>3. KeyFrom(m, Append(members, x), passed) /\ DifferentKeys(Append(members, x))
  BY <1>1, KeysCombined
<1> QED BY <1>2, <1>3

LEMMA KeysStep == GenInv /\ KeysInv /\ [Next]_vars => KeysInv'
<1> SUFFICES ASSUME GenInv, KeysInv, [Next]_vars,
                    DistinctKeys(mapping)', result' # "raw"
             PROVE  /\ KeyFrom(mapping', members', Passed(mapping', pdo', entry'))
                    /\ DifferentKeys(members')
  BY DEF KeysInv
<1>1. mapping \in Seq(Slot)
  BY DEF GenInv
<1>2. mapping' = mapping /\ DistinctKeys(mapping)
  <2>1. mapping' = mapping
    BY DEF Next, WalkElement, DescribeEntry, EndPdo, Finish, Abort, vars, contents
  <2> QED BY <2>1 DEF DistinctKeys, WholeEntries, EntryKey
<1> DEFINE passed == Passed(mapping, pdo, entry)
<1>3. result # "raw" => KeyFrom(mapping, members, passed) /\ DifferentKeys(members)
  BY <1>2 DEF KeysInv
<1>4. CASE DescribeEntry
  <2> DEFINE n == mapping[pdo].entries[entry]
             q == <<pdo, entry>>
             x == [combined |-> 0, bits |-> n, key |-> EntryKey(mapping, q)]
  <2>1. /\ pdo \in 1 .. Len(mapping) /\ mapping[pdo].used
        /\ entry \in 1 .. Len(mapping[pdo].entries) /\ n \in Nat
        /\ EntryKey(mapping, q) \in Name \union Nat
        /\ result = "running" /\ pdo' = pdo /\ entry' = entry + 1
    BY <1>4, EntryMoves
  <2>2. Passed(mapping, pdo, entry + 1) = passed \union (IF n % 8 = 0 THEN {q} ELSE {})
    BY <1>1, <2>1, PassedEntry
  <2>3. IF n % 8 = 0 THEN members' = Append(Flushed, x) ELSE members' = members
    BY <1>4 DEF DescribeEntry, FillsBytes
  <2>4. n % 8 = 0 => q \in WholeEntries(mapping)
    BY <1>1, <2>1, WholeEntry
  <2>5. \A r \in passed : r \in WholeEntries(mapping) /\ r # q
    <3> SUFFICES ASSUME NEW r \in passed PROVE r \in WholeEntries(mapping) /\ r # q
      OBVIOUS
    <3>1. r \in WholeEntries(mapping) /\ (r[1] < pdo \/ (r[1] = pdo /\ r[2] < entry))
      BY InPassed
    <3>2. q[1] = pdo /\ q[2] = entry /\ ~(pdo < pdo) /\ ~(entry < entry)
      BY <2>1
    <3> QED BY <3>1, <3>2
  <2>6. x \in Member /\ x.combined = 0 /\ x.key = EntryKey(mapping, q)
    BY <2>1 DEF Member
  <2>7. /\ Flushed \in Seq(Member) /\ KeyFrom(mapping, Flushed, passed)
        /\ DifferentKeys(Flushed)
    BY <1>3, <2>1, FlushedAdds, FlushedKeys
  <2> HIDE DEF n, q, x, passed
  <2>8. CASE n % 8 = 0
    <3>1. \A r \in passed : EntryKey(mapping, r) # EntryKey(mapping, q)
      BY <1>2, <2>4, <2>5, <2>8 DEF DistinctKeys
    <3>2. /\ KeyFrom(mapping, Append(Flushed, x), passed \union {q})
          /\ DifferentKeys(Append(Flushed, x))
      BY <2>6, <2>7, <3>1, KeysOwn
    <3> QED BY <1>2, <2>1, <2>2, <2>3, <2>8, <3>2
  <2>9. CASE n % 8 # 0
    BY <1>2, <1>3, <2>1, <2>2, <2>3, <2>9
  <2> QED BY <2>8, <2>9
<1>5. CASE EndPdo
  <2>1. members' = Flushed
    BY <1>5 DEF EndPdo
  <2>2. result = "running" /\ Passed(mapping, pdo', entry') = passed
    BY <1>1, <1>5, SlotMoves, PassedSlot
  <2> QED BY <1>2, <1>3, <2>1, <2>2, FlushedKeys
<1>6. CASE WalkElement \/ Finish \/ UNCHANGED vars
  <2>1. UNCHANGED <<members, pdo, entry>> /\ result # "raw"
    BY <1>6 DEF WalkElement, Finish, vars, generator
  <2> QED BY <1>2, <1>3, <2>1
<1>7. CASE Abort
  BY <1>7 DEF Abort
<1> QED BY <1>4, <1>5, <1>6, <1>7 DEF Next

LEMMA KeysDiffer ==
    KeysInv /\ result = "described" => (DistinctKeys(mapping) => OwnKeysDiffer)
BY DEF KeysInv, DifferentKeys, OwnKeysDiffer

(* Combined members never share a key, entries of their own only where the *)
(* mapping gives two of them one; and where the bit entries of a mapping   *)
(* fill whole bytes, every entry of its own is at its offset in the image, *)
(* for mappings of any length (slave_canopen_protocol.cpp:654-718).        *)
THEOREM PlacedInImage == Spec => []MembersInPlace
<1>1. Init => NamesInv
  BY DEF Init, NamesInv, NamesOf
<1>2. Init => KeysInv
  BY DEF Init, KeysInv, KeyFrom, DifferentKeys
<1>3. NamesInv /\ PlaceInv /\ KeysInv => MembersInPlace
  <2>1. NamesInv /\ result = "described" => CombinedNamesDiffer
    BY DEF NamesInv, NamesOf, CombinedNamesDiffer
  <2>2. PlaceInv /\ result = "described" => (ByteAligned(mapping) =>
            MemberOffsets(members) = {EntryOffset(mapping, p) : p \in WholeEntries(mapping)})
    BY DEF PlaceInv, PlaceOf, Offsets
  <2> QED BY <2>1, <2>2, KeysDiffer DEF MembersInPlace
<1> QED BY <1>1, <1>2, <1>3, GenInit, GenStep, NamesStep, KeysStep, PlaceInit, PlaceStep,
           PTL DEF Spec

=============================================================================
