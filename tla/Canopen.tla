------------------------------ MODULE Canopen ------------------------------
(***************************************************************************)
(* slave::canopen, the object dictionary of one slave as clients see it.   *)
(* Of type "eeprom" it answers from the EEPROM contents read when the bus  *)
(* was opened; of type "mailbox" it asks the slave, and                    *)
(* get_pdo_description reads the mapping of one direction that way, to     *)
(* describe the process data buffer.                                       *)
(*                                                                         *)
(* Sizes are in bits where the code counts bits. Access rights and values  *)
(* are left out, and of the names all but those of mapped entries, which   *)
(* are keys of the described buffer.                                       *)
(***************************************************************************)
EXTENDS Totals, SequencesExt, FiniteSetsExt

CONSTANTS
    Eeproms,    \* EEPROM contents: records of the bytes of the device name (0:
                \* none), txpdos and rxpdos, sequences of PDOs; a PDO is an
                \* index and entries, an entry an index and bits
    Mappings,   \* mapped PDOs of a direction: whether the slot is used, and
                \* the bits and the name of each entry
    ObjectNames, NoName   \* names the slave gives its objects, and none: padding,
                          \* or a name that is empty, not printable or not readable

Name == ObjectNames \union {NoName}

Slot == {s \in [used : BOOLEAN, entries : Seq(Nat), names : Seq(Name)] :
           Len(s.names) = Len(s.entries)}

ASSUME CanopenAssumption ==
    /\ \A e \in Eeproms : e.name \in Nat
    /\ Mappings \subseteq Seq(Slot)

VARIABLES
    type,       \* of the service
    eeprom,     \* contents of the EEPROM
    mapping,    \* what the slave's mapping objects say
    indices,    \* client: indices of the list still to be walked
    sub,        \* client: sub index to ask for
    bits,       \* client: bit_length of the last element description
    value,      \* client: bytes of the last value read
    pdo,        \* get_pdo_description: i
    entry,      \* get_pdo_description: entry_sub_idx
    stored,     \* get_pdo_description: stored_bits
    combined,   \* get_pdo_description: combined_cnt
    members,    \* get_pdo_description: the members emitted
    result      \* "running", "described" or "raw"

contents  == <<type, eeprom, mapping>>
client    == <<indices, sub, bits, value>>
generator == <<pdo, entry, stored, combined, members, result>>
vars      == <<contents, client, generator>>

(* Each service only looks at the contents of its own type. *)
NoEeprom == [name |-> 0, txpdos |-> << >>, rxpdos |-> << >>]

(* A member of the described buffer: the number of a combined one, whose   *)
(* key is made of it, or 0 and the key of an entry of its own.             *)
Member == [combined : Nat, key : Name \union Nat, bits : Nat]

TypeOK ==
    /\ type \in {"eeprom", "mailbox"}
    /\ eeprom \in Eeproms \union {NoEeprom} /\ mapping \in Mappings \union {<< >>}
    /\ indices \in Seq(Nat \ {0}) /\ sub \in Nat /\ bits \in Nat /\ value \in Nat
    /\ pdo \in 1 .. Len(mapping) + 1 /\ entry \in Nat \ {0}
    /\ stored \in Nat /\ combined \in Nat /\ members \in Seq(Member)
    /\ result \in {"running", "described", "raw"}

Bytes(n) == (n + 7) \div 8

-----------------------------------------------------------------------------
(* The dictionary of the EEPROM.                                           *)

DeviceName == 4104      \* 0x1008

Pdos(e) == e.txpdos \o e.rxpdos

Maps(p, i) == \E n \in DOMAIN p.entries : p.entries[n].index = i

(* get_object_dictionary_list: padding has index 0 and is not listed. *)
DictionaryList(e) ==
    <<DeviceName>> \o FlattenSeq([k \in DOMAIN Pdos(e) |->
        LET mapped == SelectSeq(Pdos(e)[k].entries, LAMBDA n : n.index # 0)
        IN  <<Pdos(e)[k].index>> \o [n \in DOMAIN mapped |-> mapped[n].index]])

(* get_object_description: max_subindices of the first PDO that has the    *)
(* index or maps it.                                                       *)
MaxSubindices(e, i) ==
    LET holders == {k \in DOMAIN Pdos(e) : Pdos(e)[k].index = i \/ Maps(Pdos(e)[k], i)}
        p       == Pdos(e)[Min(holders)]
    IN  IF i = DeviceName \/ p.index # i THEN 0 ELSE Len(p.entries)

(* The PDOs that answer for an element: the one of that index when it has  *)
(* the sub index, and the ones that map it.                                *)
Answering(e, i, s) ==
    {k \in DOMAIN Pdos(e) :
        IF Pdos(e)[k].index = i THEN s <= Len(Pdos(e)[k].entries)
        ELSE Maps(Pdos(e)[k], i)}

(* bit_len of the first entry of a PDO that maps the index. *)
MappedBits(p, i) ==
    p.entries[Min({n \in DOMAIN p.entries : p.entries[n].index = i})].bits

(* get_element_description: bit_length. *)
ElementBits(e, i, s) ==
    LET p == Pdos(e)[Min(Answering(e, i, s))]
    IN  CASE i = DeviceName  -> IF e.name = 0 THEN 7 * 8 ELSE 8 * e.name
          [] i = p.index     -> IF s = 0 THEN 8 ELSE 32
          [] OTHER           -> MappedBits(p, i)

(* Mutant: a value is cut to whole bytes. *)
ElementBytesCut(e, i, s) ==
    LET p == Pdos(e)[Min(Answering(e, i, s))]
    IN  CASE i = DeviceName  -> e.name
          [] i = p.index     -> IF s = 0 THEN 1 ELSE 4
          [] OTHER           -> MappedBits(p, i) \div 8

(* read_element: the size of the value. *)
ElementBytes(e, i, s) ==
    LET p == Pdos(e)[Min(Answering(e, i, s))]
    IN  CASE i = DeviceName  -> e.name
          [] i = p.index     -> IF s = 0 THEN 1 ELSE 4
          [] OTHER           -> Bytes(MappedBits(p, i))

(* read_element fills nothing in for a device without a name: the client's *)
(* buffer keeps what it held.                                              *)
Read(e, i, s) == IF i = DeviceName /\ e.name = 0 THEN value ELSE ElementBytes(e, i, s)

(* A client describes and reads every element of every listed index. *)
WalkElement ==
    /\ type = "eeprom" /\ indices # << >>
    /\ LET i    == Head(indices)
           last == sub = MaxSubindices(eeprom, i)
       IN  /\ bits' = ElementBits(eeprom, i, sub)
           /\ value' = Read(eeprom, i, sub)
           /\ sub' = IF last THEN 0 ELSE sub + 1
           /\ indices' = IF last THEN Tail(indices) ELSE indices
    /\ UNCHANGED <<contents, generator>>

-----------------------------------------------------------------------------
(* get_pdo_description.                                                    *)

(* Mutant: the bits are cut to whole bytes. *)
FlushedCut ==
    IF stored = 0 THEN members
    ELSE Append(members, [combined |-> combined + 1, key |-> NoName,
                          bits |-> (stored \div 8) * 8])

(* What is stored becomes one member of whole bytes. *)
Flushed ==
    IF stored = 0 THEN members
    ELSE Append(members, [combined |-> combined + 1, key |-> NoName,
                          bits |-> Bytes(stored) * 8])

Counted == IF stored = 0 THEN combined ELSE combined + 1

(* Mutant: every entry of a byte or more is taken for whole bytes. *)
FillsBytesIfLarge(n) == n >= 8

FillsBytes(n) == n % 8 = 0

InPdo ==
    /\ type = "mailbox" /\ result = "running" /\ pdo <= Len(mapping)
    /\ mapping[pdo].used /\ entry <= Len(mapping[pdo].entries)

(* The key of an entry of whole bytes: its name, or "padding_" and its sub *)
(* index in its PDO.                                                       *)
EntryKey(map, p) ==
    IF map[p[1]].names[p[2]] = NoName THEN p[2] ELSE map[p[1]].names[p[2]]

DescribeEntry ==
    /\ InPdo
    /\ LET n == mapping[pdo].entries[entry]
       IN  IF FillsBytes(n)
           THEN /\ members' = Append(Flushed, [combined |-> 0, bits |-> n,
                                               key |-> EntryKey(mapping, <<pdo, entry>>)])
                /\ combined' = Counted /\ stored' = 0
           ELSE stored' = stored + n /\ UNCHANGED <<members, combined>>
    /\ entry' = entry + 1
    /\ UNCHANGED <<contents, client, pdo, result>>

(* The end of a mapped PDO, or a slot that is not used. *)
EndPdo ==
    /\ type = "mailbox" /\ result = "running" /\ pdo <= Len(mapping) /\ ~InPdo
    /\ members' = Flushed /\ combined' = Counted /\ stored' = 0
    /\ pdo' = pdo + 1 /\ entry' = 1
    /\ UNCHANGED <<contents, client, result>>

Finish ==
    /\ type = "mailbox" /\ result = "running" /\ pdo > Len(mapping)
    /\ result' = "described"
    /\ UNCHANGED <<contents, client, pdo, entry, stored, combined, members>>

SlotBits(map) ==
    [k \in DOMAIN map |-> IF map[k].used THEN Total(map[k].entries) ELSE 0]

ImageBits(map) == Total(SlotBits(map))

(* A read is aborted: post_state_transition catches the exception and      *)
(* describes the buffer as an array of its bytes.                          *)
Abort ==
    /\ type = "mailbox" /\ result = "running" /\ (pdo <= Len(mapping) \/ pdo = 1)
    /\ result' = "raw"
    /\ members' = <<[combined |-> 0, key |-> NoName,
                     bits |-> 8 * Bytes(ImageBits(mapping))]>>
    /\ UNCHANGED <<contents, client, pdo, entry, stored, combined>>

-----------------------------------------------------------------------------
Init ==
    /\ \/ /\ type = "eeprom" /\ eeprom \in Eeproms /\ mapping = << >>
          /\ indices = DictionaryList(eeprom)
       \/ /\ type = "mailbox" /\ eeprom = NoEeprom /\ mapping \in Mappings
          /\ indices = << >>
    /\ sub = 0 /\ bits = 0 /\ value = 0
    /\ pdo = 1 /\ entry = 1 /\ stored = 0 /\ combined = 0
    /\ members = << >> /\ result = "running"

Next == WalkElement \/ DescribeEntry \/ EndPdo \/ Finish \/ Abort

Spec == Init /\ [][Next]_vars

-----------------------------------------------------------------------------
(* Properties.                                                             *)

(* A value read is as long as its description said                         *)
(* (slave_canopen_protocol.cpp:210-291 against 374-430), for every element *)
(* of every listed index; a device without a name is the exception.        *)
SizeAsDescribed ==
    [][indices' # indices \/ sub' # sub =>
         \/ value' = Bytes(bits')
         \/ Head(indices) = DeviceName /\ eeprom.name = 0]_vars

BitsOf(ms) == [k \in DOMAIN ms |-> ms[k].bits]

(* The described buffer is never shorter than the image it is filled from  *)
(* (slave_canopen_protocol.cpp:581-724, slave.cpp:907-926).                *)
ImageCovered == result # "running" => Total(BitsOf(members)) >= ImageBits(mapping)

(* The entries of whole bytes, each as its slot and its place there, their *)
(* offsets in the image, and the offsets of the members of their own.      *)
WholeEntries(map) ==
    UNION {{<<k, n>> : n \in {j \in DOMAIN map[k].entries : map[k].entries[j] % 8 = 0}}
             : k \in {j \in DOMAIN map : map[j].used}}

EntryOffset(map, p) == Running(SlotBits(map))[p[1] - 1] + Running(map[p[1]].entries)[p[2] - 1]

MemberOffsets(ms) ==
    {Running(BitsOf(ms))[n - 1] : n \in {k \in DOMAIN ms : ms[k].combined = 0}}

ByteAligned(map) ==
    /\ \A k \in DOMAIN map : Running(SlotBits(map))[k] % 8 = 0
    /\ \A p \in WholeEntries(map) : EntryOffset(map, p) % 8 = 0

(* Combined members of all PDOs have names of their own: the description   *)
(* is a map.                                                               *)
CombinedNamesDiffer ==
    \A k, n \in DOMAIN members :
        k # n /\ members[k].combined # 0 => members[k].combined # members[n].combined

(* Two entries of whole bytes have one key when they have one object name, *)
(* or when both are padding of one sub index, in two PDOs.                 *)
DistinctKeys(map) ==
    \A p, q \in WholeEntries(map) : p # q => EntryKey(map, p) # EntryKey(map, q)

OwnKeysDiffer ==
    \A k, n \in DOMAIN members :
        k # n /\ members[k].combined = 0 /\ members[n].combined = 0 =>
            members[k].key # members[n].key

(* Combined members never share a key, entries of their own only where the *)
(* mapping itself gives two of them one; and where the bit entries fill    *)
(* whole bytes, every entry of its own is described at the offset the bus  *)
(* puts it (slave_canopen_protocol.cpp:654-718).                           *)
MembersInPlace ==
    result = "described" =>
        /\ CombinedNamesDiffer
        /\ DistinctKeys(mapping) => OwnKeysDiffer
        /\ ByteAligned(mapping) =>
             MemberOffsets(members) = {EntryOffset(mapping, p) : p \in WholeEntries(mapping)}

=============================================================================
