---------------------------- MODULE SlaveServices ----------------------------
(***************************************************************************)
(* The services of one slave that ask the slave itself: memory inspection, *)
(* the mailbox half of the CANopen service, FoE and SERCOS.  Clients call  *)
(* from threads of their own; each access of the bus library is one step,  *)
(* and between two accesses of a call other clients are served and the     *)
(* slave changes on its own.                                               *)
(***************************************************************************)
EXTENDS Decoders, FiniteSets

CONSTANTS
    Clients,
    Size,           \* bytes of each memory
    Chunk,          \* bytes of one access of the registers: 100
    Values,         \* contents of a byte, of an object and of a file
    Lists,          \* object dictionary lists the slave may have
    ListBuffer,     \* entries the first try has room for: COE_DATA_MAXLEN / 2
    MaxEvents,      \* bound: changes of the slave and accesses that fail
    Slaves,         \* slaves to begin with
    Requests,       \* what clients ask for: one set for each kind of work
    Askers          \* bound: the clients that do each kind of work
CONSTANT Nothing    \* what no slave holds

Idle == [op |-> "none"]     \* no request

ASSUME ServicesAssumption ==
    /\ {Size, Chunk} \subseteq Nat \ {0} /\ {ListBuffer, MaxEvents} \subseteq Nat
    /\ Nothing \notin Values
    /\ \A l \in Lists : l \in Seq(Values)
    /\ Askers \in [DOMAIN Requests -> SUBSET Clients]
    /\ Idle \notin UNION {Requests[w] : w \in DOMAIN Requests}

VARIABLES
    slave,      \* memory, eeprom, list, object, file and emergencies of the slave
    events,     \* how much has happened to it
    pc,         \* per client: "idle", "busy", "retry", "returned", "thrown"
    req,        \* its request
    offset,     \* position of its transfer; length of the list to be read again
    result,     \* what the caller's variable holds
    lossy,      \* an access of the call failed, and nobody was told
    seen,       \* history: what the slave has held during the call, of what it is about
    work        \* bound: the kind of work clients do; kinds share no state

call == <<pc, req, offset, result, lossy>>
vars == <<slave, events, call, seen, work>>

Addresses == 0 .. Size - 1
Memories  == {"memory", "eeprom"}

Slave == [memory : [Addresses -> Values], eeprom : [Addresses -> Values],
          list : Lists, object : Values, file : Values,
          emergencies : Seq(Values)]

(* Requests to a memory lie inside of it. *)
WellFormed(r) ==
    \/ /\ r.op = "read_memory" /\ r.type \in Memories
       /\ {r.address, r.len} \subseteq Nat /\ r.address + r.len <= Size
    \/ /\ r.op = "write_memory" /\ r.type \in Memories
       /\ r.address \in Nat /\ r.data \in Seq(Values)
       /\ r.address + Len(r.data) <= Size
    \/ r.op \in {"list", "element", "file"}
    \/ r.op = "describe" /\ r.desc \in Description
    \/ /\ r.op = "idn" /\ r.idn \in IdentityNumber /\ r.attr \in DataLength
       /\ r.elements \subseteq Elements
    \/ r.op \in {"put_element", "put_file"} /\ r.data \in Values
    \/ r.op = "emergency" /\ r.data \in Seq(Values)

ASSUME RequestsAssumption ==
    /\ Slaves \subseteq Slave
    /\ \A w \in DOMAIN Requests : \A r \in Requests[w] : WellFormed(r)

TypeOK ==
    /\ slave \in Slave /\ events \in Nat
    /\ pc \in [Clients -> {"idle", "busy", "retry", "returned", "thrown"}]
    /\ req \in [Clients -> {Idle} \union UNION {Requests[w] : w \in DOMAIN Requests}]
    /\ lossy \in [Clients -> BOOLEAN] /\ work \in DOMAIN Requests
    /\ DOMAIN offset = Clients /\ DOMAIN result = Clients /\ DOMAIN seen = Clients

(* What the caller passes in. *)
Fresh(r) == CASE r.op = "read_memory" -> [i \in 0 .. r.len - 1 |-> Nothing]
              [] r.op = "emergency"   -> r.data
              [] OTHER                -> Nothing

Init ==
    /\ slave \in Slaves
    /\ events = 0
    /\ pc = [c \in Clients |-> "idle"]
    /\ req = [c \in Clients |-> Idle]
    /\ work \in DOMAIN Requests
    /\ offset = [c \in Clients |-> 0]
    /\ result = [c \in Clients |-> Nothing]
    /\ lossy = [c \in Clients |-> FALSE]
    /\ seen = [c \in Clients |-> {}]

-----------------------------------------------------------------------------
Busy(c, op) == pc[c] = "busy" /\ req[c].op = op

Length(r) == IF r.op = "read_memory" THEN r.len ELSE Len(r.data)

(* What a request is about, as s has it: bytes at their places, or a part. *)
About(r, s) ==
    CASE r.op \in {"read_memory", "write_memory"} ->
           {<<i, s[r.type][r.address + i]>> : i \in 0 .. Length(r) - 1}
      [] r.op = "list"    -> {s.list}
      [] r.op = "element" -> {s.object}
      [] r.op = "file"    -> {s.file}
      [] r.op = "emergency" -> {s.emergencies[k] : k \in DOMAIN s.emergencies}
      [] OTHER            -> {}

Become(s) ==
    /\ slave' = s
    /\ seen' = [c \in Clients |-> IF pc[c] \in {"busy", "retry"}
                                  THEN seen[c] \union About(req[c], s) ELSE seen[c]]

Leave(c, how) == pc' = [pc EXCEPT ![c] = how]

Ask(c, r) ==
    /\ pc[c] = "idle" /\ Leave(c, "busy")
    /\ req' = [req EXCEPT ![c] = r]
    /\ offset' = [offset EXCEPT ![c] = 0]
    /\ result' = [result EXCEPT ![c] = Fresh(r)]
    /\ lossy' = [lossy EXCEPT ![c] = FALSE]
    /\ seen' = [seen EXCEPT ![c] = About(r, slave)]
    /\ UNCHANGED <<slave, events>>

(* The caller looks at what it got. *)
Done(c) ==
    /\ pc[c] \in {"returned", "thrown"} /\ Leave(c, "idle")
    /\ seen' = [seen EXCEPT ![c] = {}]
    /\ result' = [result EXCEPT ![c] = Nothing]
    /\ lossy' = [lossy EXCEPT ![c] = FALSE]
    /\ req' = [req EXCEPT ![c] = Idle]
    /\ offset' = [offset EXCEPT ![c] = 0]
    /\ UNCHANGED <<slave, events>>

(* The firmware of the slave changes something. *)
SlaveChanges ==
    /\ events < MaxEvents /\ events' = events + 1
    /\ \/ \E a \in Addresses, v \in Values : Become([slave EXCEPT !.memory[a] = v])
       \/ \E l \in Lists : Become([slave EXCEPT !.list = l])
       \/ \E v \in Values : Become([slave EXCEPT !.object = v])
       \/ \E v \in Values : Become([slave EXCEPT !.emergencies = Append(@, v)])
    /\ UNCHANGED call

(* The bus library reports an error of a mailbox transfer, for a file with *)
(* a message: the service throws.                                          *)
LibraryFails(c) ==
    /\ pc[c] \in {"busy", "retry"}
    /\ req[c].op \in {"list", "element", "put_element", "describe", "idn",
                      "file", "put_file"}
    /\ events < MaxEvents /\ events' = events + 1
    /\ Leave(c, "thrown")
    /\ UNCHANGED <<slave, req, offset, result, lossy, seen>>

-----------------------------------------------------------------------------
(* memory_inspection: the registers are read and written in chunks.        *)

(* Mutant: every access has the full size. *)
ActLenFull(r, pos) == Chunk

ActLen(r, pos) ==
    IF Length(r) - pos < Chunk THEN Length(r) - pos ELSE Chunk

(* Mutant: every chunk is read from the start of the request. *)
ChunkAddressFixed(r, pos) == r.address

ChunkAddress(r, pos) == r.address + pos

(* The loop ends behind the last chunk. *)
Advance(c) ==
    LET next == offset[c] + Chunk
    IN  /\ offset' = [offset EXCEPT ![c] = next]
        /\ IF next < Length(req[c]) THEN UNCHANGED pc ELSE Leave(c, "returned")
        /\ UNCHANGED req

InChunk(c, i) == offset[c] <= i /\ i < offset[c] + ActLen(req[c], offset[c])

ReadChunk(c) ==
    /\ Busy(c, "read_memory") /\ req[c].type = "memory"
    /\ result' = [result EXCEPT ![c] = [i \in DOMAIN result[c] |->
         IF InChunk(c, i)
         THEN slave.memory[ChunkAddress(req[c], offset[c]) + i - offset[c]]
         ELSE result[c][i]]]
    /\ Advance(c)
    /\ UNCHANGED <<slave, events, lossy, seen>>

WriteChunk(c) ==
    /\ Busy(c, "write_memory") /\ req[c].type = "memory"
    /\ LET to == ChunkAddress(req[c], offset[c])
           n  == ActLen(req[c], offset[c])
       IN  \E behind \in Values : Become([slave EXCEPT !.memory = [a \in Addresses |->
             IF to <= a /\ a < to + n
             THEN LET k == offset[c] + a - to + 1
                  IN  IF k <= Len(req[c].data) THEN req[c].data[k] ELSE behind
             ELSE slave.memory[a]]])
    /\ Advance(c)
    /\ UNCHANGED <<events, result, lossy>>

(* A datagram that no slave answers: the working counter tells, and is not *)
(* looked at.                                                              *)
LoseChunk(c) ==
    /\ pc[c] = "busy" /\ req[c].op \in {"read_memory", "write_memory"}
    /\ req[c].type = "memory"
    /\ events < MaxEvents /\ events' = events + 1
    /\ lossy' = [lossy EXCEPT ![c] = TRUE]
    /\ Advance(c)
    /\ UNCHANGED <<slave, result, seen>>

(* The EEPROM is addressed in words: a read converts the address, a write  *)
(* does not.                                                               *)
ReadEeprom(c) ==
    /\ Busy(c, "read_memory") /\ req[c].type = "eeprom"
    /\ LET first == 2 * (req[c].address \div 2)
       IN  result' = [result EXCEPT ![c] =
             [i \in DOMAIN result[c] |-> slave.eeprom[first + i]]]
    /\ Leave(c, "returned")
    /\ UNCHANGED <<slave, events, req, offset, lossy, seen>>

WriteEeprom(c) ==
    /\ Busy(c, "write_memory") /\ req[c].type = "eeprom"
    /\ LET first == 2 * req[c].address
       IN  Become([slave EXCEPT !.eeprom = [a \in Addresses |->
             IF a \in first .. first + Len(req[c].data) - 1
             THEN req[c].data[a - first + 1] ELSE slave.eeprom[a]]])
    /\ Leave(c, "returned")
    /\ UNCHANGED <<events, req, offset, result, lossy>>

-----------------------------------------------------------------------------
(* canopen, of type mailbox.                                               *)

(* get_object_dictionary_list: a list that does not fit into the buffer on *)
(* the stack is read again into one of the length the library reported.    *)
ReadList(c) ==
    /\ Busy(c, "list")
    /\ IF Len(slave.list) <= ListBuffer
       THEN /\ result' = [result EXCEPT ![c] = slave.list]
            /\ Leave(c, "returned") /\ UNCHANGED offset
       ELSE /\ offset' = [offset EXCEPT ![c] = Len(slave.list)]
            /\ Leave(c, "retry") /\ UNCHANGED result
    /\ UNCHANGED <<slave, events, req, lossy, seen>>

(* Mutant: the list keeps the length of the first answer. *)
ResizedNever(list, len) == list \o [i \in 1 .. len - Len(list) |-> Nothing]

(* "reduce size to eliminate padding": to the length of this answer. *)
Resized(list, len) == list

RetryList(c) ==
    /\ pc[c] = "retry"
    /\ IF Len(slave.list) > offset[c]
       THEN Leave(c, "thrown") /\ UNCHANGED result
       ELSE /\ result' = [result EXCEPT ![c] = Resized(slave.list, offset[c])]
            /\ Leave(c, "returned")
    /\ UNCHANGED <<slave, events, req, offset, lossy, seen>>

(* read_element: an answer without bytes leaves the caller's value alone. *)
ReadElement(c) ==
    /\ Busy(c, "element")
    /\ \/ result' = [result EXCEPT ![c] = slave.object]
       \/ UNCHANGED result
    /\ Leave(c, "returned")
    /\ UNCHANGED <<slave, events, req, offset, lossy, seen>>

WriteElement(c) ==
    /\ Busy(c, "put_element")
    /\ Become([slave EXCEPT !.object = req[c].data])
    /\ Leave(c, "returned")
    /\ UNCHANGED <<events, req, offset, result, lossy>>

(* pop_emergency_message: the bytes are appended to those the caller's     *)
(* message has; without a message it is left alone.                        *)
PopEmergency(c) ==
    /\ Busy(c, "emergency")
    /\ IF slave.emergencies = << >>
       THEN UNCHANGED <<slave, seen, result>>
       ELSE /\ result' = [result EXCEPT ![c] = Append(@, Head(slave.emergencies))]
            /\ Become([slave EXCEPT !.emergencies = Tail(@)])
    /\ Leave(c, "returned")
    /\ UNCHANGED <<events, req, offset, lossy>>

(* get_element_description; the slave sends all of it or the first bytes.  *)
DescribeElement(c) ==
    /\ Busy(c, "describe")
    /\ \E len \in 0 .. DescriptionLength(req[c].desc) :
         /\ offset' = [offset EXCEPT ![c] = len]
         /\ result' = [result EXCEPT ![c] = DecodeDescription(req[c].desc, len)]
    /\ Leave(c, "returned")
    /\ UNCHANGED <<slave, events, req, lossy, seen>>

-----------------------------------------------------------------------------
(* file_protocol and sercos.                                               *)

(* file_read: without a buffer, for an empty file, the caller's data stays. *)
ReadFile(c) ==
    /\ Busy(c, "file")
    /\ \/ result' = [result EXCEPT ![c] = slave.file]
       \/ UNCHANGED result
    /\ Leave(c, "returned")
    /\ UNCHANGED <<slave, events, req, offset, lossy, seen>>

WriteFile(c) ==
    /\ Busy(c, "put_file")
    /\ Become([slave EXCEPT !.file = req[c].data])
    /\ Leave(c, "returned")
    /\ UNCHANGED <<events, req, offset, result, lossy>>

(* ec_foe_read or ec_foe_write fails without a message, which is all the   *)
(* services look at: the call returns; a read with what the caller passed  *)
(* in or the bytes that had come, which no slave holds as its file.        *)
FailSilently(c) ==
    /\ Busy(c, "file") \/ Busy(c, "put_file")
    /\ events < MaxEvents /\ events' = events + 1
    /\ lossy' = [lossy EXCEPT ![c] = TRUE]
    /\ Leave(c, "returned")
    /\ UNCHANGED <<slave, req, offset, result, seen>>

ReadIdn(c) ==
    /\ Busy(c, "idn")
    /\ result' = [result EXCEPT ![c] =
         DecodeIdn(req[c].idn, Asked(req[c].elements), req[c].attr)]
    /\ Leave(c, "returned")
    /\ UNCHANGED <<slave, events, req, offset, lossy, seen>>

-----------------------------------------------------------------------------
Memory(c) == ReadChunk(c) \/ WriteChunk(c) \/ LoseChunk(c) \/ ReadEeprom(c) \/ WriteEeprom(c)

Mailbox(c) == \/ ReadList(c) \/ RetryList(c) \/ ReadElement(c) \/ WriteElement(c)
              \/ PopEmergency(c) \/ DescribeElement(c)
              \/ ReadFile(c) \/ WriteFile(c) \/ FailSilently(c)
              \/ ReadIdn(c) \/ LibraryFails(c)

Next ==
    /\ \/ \E c \in Clients : \/ c \in Askers[work] /\ \E r \in Requests[work] : Ask(c, r)
                             \/ Memory(c) \/ Mailbox(c) \/ Done(c)
       \/ SlaveChanges
    /\ UNCHANGED work

Spec == Init /\ [][Next]_vars

-----------------------------------------------------------------------------
(* Properties.                                                             *)

Returned(c, op) == pc[c] = "returned" /\ req[c].op = op

(* EEPROM requests whose address means the same to both directions of the  *)
(* service: even ones of a read, 0 of a write.                             *)
Plain(r) ==
    r.type = "eeprom" => IF r.op = "read_memory" THEN r.address % 2 = 0
                         ELSE r.address = 0

(* Each byte a read returns has stood at its address during the call, and *)
(* so has each byte that was written - unless a datagram was lost, which   *)
(* the service does not report (slave_memory_inspection.cpp:72-123).       *)
MemoryTransferred ==
    \A c \in Clients : LET r == req[c] IN ~lossy[c] =>
        /\ Returned(c, "read_memory") /\ Plain(r) =>
             \A i \in 0 .. r.len - 1 : <<i, result[c][i]>> \in seen[c]
        /\ Returned(c, "write_memory") /\ Plain(r) =>
             \A i \in DOMAIN r.data : <<i - 1, r.data[i]>> \in seen[c]

(* A memory changes, other than by the slave itself, only where a client   *)
(* writes and to what it writes (slave_memory_inspection.cpp:101-123).     *)
OnlyAskedWritten ==
    [][\A m \in Memories, a \in Addresses :
         slave'[m][a] # slave[m][a] /\ events' = events =>
            \E c \in Clients :
               /\ Busy(c, "write_memory") /\ req[c].type = m
               /\ Plain(req[c]) =>
                    /\ a \in req[c].address .. req[c].address + Len(req[c].data) - 1
                    /\ slave'[m][a] = req[c].data[a - req[c].address + 1]]_vars

(* A dictionary list, an object or a file that is returned is one the      *)
(* slave had during the call: never one mixed from the two tries, or       *)
(* padded (slave_canopen_protocol.cpp:85-113, 431-455,                     *)
(* slave_file_protocol.cpp:59-79).  An object or a file may be left as the *)
(* caller passed it, and of a file transfer that fails without a message   *)
(* nothing is said; an emergency message that is reused grows, and where   *)
(* none is present it stays, although the call should throw (slave.h:200). *)
AnswerOfSlave ==
    \A c \in Clients :
        /\ Returned(c, "list") => result[c] \in seen[c]
        /\ Returned(c, "element") =>
             result[c] \in {Nothing} \union seen[c]
        /\ Returned(c, "file") /\ ~lossy[c] =>
             result[c] \in {Nothing} \union seen[c]
        /\ Returned(c, "emergency") =>
             \/ result[c] = req[c].data
             \/ \E v \in seen[c] : result[c] = Append(req[c].data, v)

(* A complete description is taken apart where the slave has put its       *)
(* fields, and one that ends early is never read behind its end            *)
(* (slave_canopen_protocol.cpp:313-361).                                   *)
DescriptionDecoded ==
    \A c \in Clients : Returned(c, "describe") =>
        LET desc == req[c].desc
        IN  /\ offset[c] = DescriptionLength(desc) => result[c] = DescriptionLayout(desc)
            /\ \A p \in result[c] : p.start + p.length <= offset[c]

(* The elements of an identity number are found in the answer, whatever    *)
(* attribute the caller's structure still holds, and every element is      *)
(* copied into a vector that is large enough (slave.cpp:987-1086).  Left   *)
(* out are lists of values longer than a byte, whose length in bytes       *)
(* (README.wiki:94) the code takes for a count, and the minimum or the     *)
(* maximum alone, which ends in the member of the other one.               *)
IdnDecoded ==
    \A c \in Clients : Returned(c, "idn") =>
        LET elements == req[c].elements
        IN  /\ result[c].small = {}
            /\ ("min" \in elements <=> "max" \in elements)
                 /\ (LongList(req[c].idn) => elements \intersect Valued = {}) =>
                 result[c].fields = IdnLayout(req[c].idn, Asked(elements))

=============================================================================
