-------------------------- MODULE MCSlaveServices ---------------------------
(***************************************************************************)
(* Two clients.  Memories of four bytes and chunks of two: requests of one *)
(* to three bytes take one access or two, the second one short.  Lists of  *)
(* one to four entries where two fit at the first try.                     *)
(***************************************************************************)
EXTENDS SlaveServices

Bits == {0, 1}

SmallLists == {<<0>>, <<0, 1>>, <<1, 0, 1>>, <<0, 0, 1, 1>>}

Empty == [a \in Addresses |-> 0]

SmallSlaves == {s \in [memory : {Empty}, eeprom : {Empty}, list : SmallLists,
                       object : {0}, file : {0}, emergencies : {<<0>>}] : Len(s.list) \in {2, 3}}

Reads == {r \in [op : {"read_memory"}, type : Memories, address : {0, 1, 2}, len : {2, 3}]
            : r.address + r.len = IF r.address = 0 THEN 3 ELSE Size}

Writes == {r \in [op : {"write_memory"}, type : Memories, address : {0, 1},
                  data : {<<1>>, <<0, 1, 1>>}]
             : r.address + Len(r.data) <= Size}

Calls == [op : {"list", "element", "file"}]
         \union [op : {"put_file", "put_element"}, data : {1}]
         \union [op : {"emergency"}, data : {<<1>>}]

Descriptions == [info : SUBSET {"unit", "default", "min", "max"}, bits : {0, 12},
                 name : {0, 3}]

DataLengths == {[fix |-> TRUE, size |-> 2], [fix |-> FALSE, size |-> 1],
                [fix |-> FALSE, size |-> 4]}

Idns == [name : {2}, unit : {0, 1}, length : DataLengths, count : {0, 2}]

Decodings ==
    [op : {"describe"}, desc : Descriptions]
    \union [op : {"idn"}, idn : Idns, attr : DataLengths,
            elements : SUBSET {"name", "unit", "min", "max", "data"}]

MCRequests == [memory |-> {r \in Reads \union Writes : r.type = "memory"},
               eeprom |-> {r \in Reads \union Writes : r.type = "eeprom"},
               calls  |-> Calls,
               decode |-> Decodings]

(* A decoder works on the answer alone: one client is enough. *)
MCAskers == [w \in DOMAIN MCRequests |->
                IF w = "decode" THEN {CHOOSE c \in Clients : TRUE} ELSE Clients]

=============================================================================
