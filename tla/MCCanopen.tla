------------------------------ MODULE MCCanopen -----------------------------
(***************************************************************************)
(* Contents for TLC: a transmit and a receive PDO of up to two entries     *)
(* that may map the same object with different sizes, or padding; and      *)
(* mappings of up to two slots with up to three entries, of sizes that     *)
(* fill bytes together, alone or not at all; an entry that is alone may    *)
(* have a name, the same one in two places.                                *)
(***************************************************************************)
EXTENDS Canopen

CONSTANTS EntryBits, MappedSizes

Entries == UNION {[1 .. n -> [index : {0, 24576, 28672}, bits : EntryBits]] : n \in 0 .. 2}

SmallEeproms ==
    {[name |-> name, txpdos |-> <<[index |-> 6656, entries |-> tx]>>,
                     rxpdos |-> <<[index |-> 5632, entries |-> rx]>>]
       : name \in {0, 3}, tx \in Entries, rx \in Entries}

Mapped == {<<n, NoName>> : n \in MappedSizes} \union {<<8, x>> : x \in ObjectNames}

Slots == {[used |-> TRUE, entries |-> [k \in DOMAIN e |-> e[k][1]],
                          names |-> [k \in DOMAIN e |-> e[k][2]]]
             : e \in UNION {[1 .. n -> Mapped] : n \in 0 .. 3}}
         \union {[used |-> FALSE, entries |-> << >>, names |-> << >>]}

SmallMappings == UNION {[1 .. n -> Slots] : n \in 0 .. 2}

=============================================================================
