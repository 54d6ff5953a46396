------------------------- MODULE SlaveServicesProofs -------------------------
(***************************************************************************)
(* Proofs about SlaveServices, for every number of clients, size of the    *)
(* memories, size of a chunk, dictionary and set of requests: what the     *)
(* services hand to their callers is what the slave had.                   *)
(***************************************************************************)
EXTENDS SlaveServices, TotalsProofs

-----------------------------------------------------------------------------
(* The inductive invariant.                                                *)

Serving(c) == pc[c] \in {"busy", "retry"}

(* While a call is served, what the slave has is part of what it has had.  *)
Current(c) == Serving(c) => About(req[c], slave) \subseteq seen[c]

(* The caller's variable before anything has been read. *)
Untouched(c) ==
    /\ pc[c] = "retry" => req[c].op = "list"
    /\ pc[c] = "busy" /\ req[c].op \in {"element", "file", "emergency"} =>
         result[c] = Fresh(req[c])

(* A read has filled the part before the position of its transfer. *)
ReadSoFar(c) ==
    pc[c] \in {"busy", "returned"} /\ req[c].op = "read_memory" =>
        /\ offset[c] \in Nat
        /\ DOMAIN result[c] = 0 .. req[c].len - 1
        /\ req[c].type = "memory" /\ ~lossy[c] =>
             /\ pc[c] = "returned" => req[c].len <= offset[c]
             /\ \A i \in 0 .. req[c].len - 1 :
                  i < offset[c] => <<i, result[c][i]>> \in seen[c]
        /\ req[c].type = "eeprom" /\ pc[c] = "returned" /\ Plain(req[c]) =>
             \A i \in 0 .. req[c].len - 1 : <<i, result[c][i]>> \in seen[c]

(* A write has handed over the part before the position of its transfer. *)
WrittenSoFar(c) ==
    pc[c] \in {"busy", "returned"} /\ req[c].op = "write_memory" =>
        /\ offset[c] \in Nat
        /\ req[c].type = "memory" /\ ~lossy[c] =>
             /\ pc[c] = "returned" => Len(req[c].data) <= offset[c]
             /\ \A i \in 1 .. Len(req[c].data) :
                  i <= offset[c] => <<i - 1, req[c].data[i]>> \in seen[c]
        /\ req[c].type = "eeprom" /\ pc[c] = "returned" /\ Plain(req[c]) =>
             \A i \in 1 .. Len(req[c].data) : <<i - 1, req[c].data[i]>> \in seen[c]

Answer(c) ==
    /\ Returned(c, "list") => result[c] \in seen[c]
    /\ Returned(c, "element") => result[c] \in {Nothing} \union seen[c]
    /\ Returned(c, "file") /\ ~lossy[c] => result[c] \in {Nothing} \union seen[c]
    /\ Returned(c, "emergency") =>
         \/ result[c] = req[c].data
         \/ \E v \in seen[c] : result[c] = Append(req[c].data, v)

ClientInv(c) ==
    Current(c) /\ Untouched(c) /\ ReadSoFar(c) /\ WrittenSoFar(c) /\ Answer(c)

ServiceInv == TypeOK /\ \A c \in Clients : ClientInv(c)

-----------------------------------------------------------------------------
(* What a step leaves alone.                                               *)

(* The slave stays as it is, or becomes another one that is recorded. *)
Recorded ==
    \/ UNCHANGED <<slave, seen>>
    \/ Become(slave')

Apart(e) ==
    /\ pc'[e] = pc[e] /\ req'[e] = req[e] /\ offset'[e] = offset[e]
    /\ result'[e] = result[e] /\ lossy'[e] = lossy[e]

LEMMA RecordedSeen ==
    ASSUME TypeOK, Recorded, NEW e \in Clients
    PROVE  /\ DOMAIN seen' = Clients
           /\ seen[e] \subseteq seen'[e]
           /\ Serving(e) => \/ slave' = slave /\ seen'[e] = seen[e]
                            \/ seen'[e] = seen[e] \union About(req[e], slave')
BY DEF Recorded, Become, TypeOK, Serving

(* A client keeps its invariant while others are served and the slave      *)
(* changes.                                                                *)
LEMMA ApartKeeps ==
    ASSUME TypeOK, NEW e \in Clients, ClientInv(e), Apart(e),
           seen[e] \subseteq seen'[e],
           Serving(e) => \/ slave' = slave /\ seen'[e] = seen[e]
                         \/ seen'[e] = seen[e] \union About(req[e], slave')
    PROVE  ClientInv(e)'
<1> USE DEF Apart, ClientInv
<1>1. Current(e)'
  BY DEF Current, Serving
<1>2. Untouched(e)'
  BY DEF Untouched
<1>3. ReadSoFar(e)'
  BY DEF ReadSoFar, Plain
<1>4. WrittenSoFar(e)'
  BY DEF WrittenSoFar, Plain
<1>5. Answer(e)'
  BY DEF Answer, Returned
<1> QED BY <1>1, <1>2, <1>3, <1>4, <1>5

-----------------------------------------------------------------------------
(* Type correctness.                                                       *)

LEMMA RequestForms ==
    ASSUME TypeOK, NEW c \in Clients
    PROVE  /\ req[c].op = "read_memory" =>
                /\ req[c].type \in Memories /\ req[c].address \in Nat
                /\ req[c].len \in Nat /\ req[c].address + req[c].len <= Size
           /\ req[c].op = "write_memory" =>
                /\ req[c].type \in Memories /\ req[c].address \in Nat
                /\ req[c].data \in Seq(Values)
                /\ req[c].address + Len(req[c].data) <= Size
           /\ req[c].op \in {"put_element", "put_file"} => req[c].data \in Values
           /\ req[c].op = "emergency" => req[c].data \in Seq(Values)
           /\ req[c].op = "describe" => req[c].desc \in Description
           /\ req[c].op = "idn" => /\ req[c].idn \in IdentityNumber
                                  /\ req[c].attr \in DataLength
                                  /\ req[c].elements \subseteq Elements
<1>1. Idle.op = "none"
  BY DEF Idle
<1>2. CASE req[c] = Idle
  BY <1>1, <1>2
<1>3. ASSUME NEW w \in DOMAIN Requests, req[c] \in Requests[w]
      PROVE  WellFormed(req[c])
  BY <1>3, RequestsAssumption
<1>4. CASE WellFormed(req[c])
  BY <1>4 DEF WellFormed
<1> QED BY <1>2, <1>3, <1>4 DEF TypeOK

LEMMA SlaveChangesType == ASSUME TypeOK, SlaveChanges PROVE slave' \in Slave
<1>1. CASE \E a \in Addresses, v \in Values : Become([slave EXCEPT !.memory[a] = v])
  <2>1. PICK a \in Addresses, v \in Values :
          slave' = [slave EXCEPT !.memory = [slave.memory EXCEPT ![a] = v]]
    BY <1>1 DEF Become
  <2>2. [slave.memory EXCEPT ![a] = v] \in [Addresses -> Values]
    BY DEF TypeOK, Slave
  <2> QED BY <2>1, <2>2 DEF TypeOK, Slave
<1>2. CASE \E l \in Lists : Become([slave EXCEPT !.list = l])
  BY <1>2 DEF Become, TypeOK, Slave
<1>3. CASE \E v \in Values : Become([slave EXCEPT !.object = v])
  BY <1>3 DEF Become, TypeOK, Slave
<1>4. CASE \E v \in Values :
             Become([slave EXCEPT !.emergencies = Append(slave.emergencies, v)])
  <2>1. PICK v \in Values :
          slave' = [slave EXCEPT !.emergencies = Append(slave.emergencies, v)]
    BY <1>4 DEF Become
  <2>2. Append(slave.emergencies, v) \in Seq(Values)
    BY DEF TypeOK, Slave
  <2> QED BY <2>1, <2>2 DEF TypeOK, Slave
<1> QED BY <1>1, <1>2, <1>3, <1>4 DEF SlaveChanges

LEMMA WritesType ==
    ASSUME TypeOK, NEW c \in Clients, ClientInv(c),
           \/ WriteChunk(c) \/ WriteEeprom(c) \/ WriteElement(c) \/ WriteFile(c)
           \/ PopEmergency(c)
    PROVE  slave' \in Slave
<1>1. CASE WriteChunk(c)
  <2> DEFINE to == ChunkAddress(req[c], offset[c])
             n == ActLen(req[c], offset[c])
             New(behind) == [a \in Addresses |->
               IF to <= a /\ a < to + n
               THEN LET k == offset[c] + a - to + 1
                    IN  IF k <= Len(req[c].data) THEN req[c].data[k] ELSE behind
               ELSE slave.memory[a]]
  <2>1. PICK behind \in Values : slave' = [slave EXCEPT !.memory = New(behind)]
    BY <1>1 DEF WriteChunk, Become
  <2>2. New(behind) \in [Addresses -> Values]
    <3> SUFFICES ASSUME NEW a \in Addresses, to <= a, NEW k, k = offset[c] + a - to + 1,
                        k <= Len(req[c].data)
                 PROVE  req[c].data[k] \in Values
      BY DEF TypeOK, Slave
    <3>1. req[c].data \in Seq(Values) /\ req[c].address \in Nat /\ offset[c] \in Nat
      BY <1>1, RequestForms DEF WriteChunk, Busy, ClientInv, WrittenSoFar
    <3>2. k \in 1 .. Len(req[c].data)
      BY <3>1 DEF ChunkAddress, Addresses
    <3> QED BY <3>1, <3>2
  <2> HIDE DEF New
  <2> QED BY <2>1, <2>2 DEF TypeOK, Slave
<1>2. CASE WriteEeprom(c)
  <2> DEFINE first == 2 * req[c].address
             New == [a \in Addresses |->
               IF a \in first .. first + Len(req[c].data) - 1
               THEN req[c].data[a - first + 1] ELSE slave.eeprom[a]]
  <2>1. slave' = [slave EXCEPT !.eeprom = New]
    BY <1>2 DEF WriteEeprom, Become
  <2>2. New \in [Addresses -> Values]
    <3> SUFFICES ASSUME NEW a \in first .. first + Len(req[c].data) - 1
                 PROVE  req[c].data[a - first + 1] \in Values
      BY DEF TypeOK, Slave
    <3>1. req[c].data \in Seq(Values) /\ req[c].address \in Nat
      BY <1>2, RequestForms DEF WriteEeprom, Busy
    <3>2. a - first + 1 \in 1 .. Len(req[c].data)
      BY <3>1
    <3> QED BY <3>1, <3>2
  <2> HIDE DEF New
  <2> QED BY <2>1, <2>2 DEF TypeOK, Slave
<1>3. CASE WriteElement(c)
  <2>1. req[c].data \in Values /\ slave' = [slave EXCEPT !.object = req[c].data]
    BY <1>3, RequestForms DEF WriteElement, Busy, Become
  <2> QED BY <2>1 DEF TypeOK, Slave
<1>4. CASE WriteFile(c)
  <2>1. req[c].data \in Values /\ slave' = [slave EXCEPT !.file = req[c].data]
    BY <1>4, RequestForms DEF WriteFile, Busy, Become
  <2> QED BY <2>1 DEF TypeOK, Slave
<1>5. CASE PopEmergency(c)
  <2>1. CASE slave.emergencies = << >>
    BY <1>5, <2>1 DEF PopEmergency, TypeOK
  <2>2. CASE slave.emergencies # << >>
    <3>1. slave' = [slave EXCEPT !.emergencies = Tail(slave.emergencies)]
      BY <1>5, <2>2 DEF PopEmergency, Become
    <3>2. Tail(slave.emergencies) \in Seq(Values)
      BY <2>2, HeadTailProperties DEF TypeOK, Slave
    <3> QED BY <3>1, <3>2 DEF TypeOK, Slave
  <2> QED BY <2>1, <2>2
<1> QED BY <1>1, <1>2, <1>3, <1>4, <1>5

LEMMA TypeStep == ASSUME ServiceInv, [Next]_vars PROVE TypeOK'
<1> USE DEF ServiceInv
<1>1. CASE UNCHANGED vars
  BY <1>1 DEF vars, call, TypeOK
<1>2. CASE SlaveChanges /\ UNCHANGED work
  <2>1. slave' \in Slave /\ DOMAIN seen' = Clients
    BY <1>2, SlaveChangesType DEF SlaveChanges, Become
  <2> QED BY <1>2, <2>1 DEF SlaveChanges, call, TypeOK
<1>3. ASSUME NEW c \in Clients, NEW r \in Requests[work], Ask(c, r), UNCHANGED work
      PROVE  TypeOK'
  BY <1>3 DEF Ask, Leave, TypeOK
<1>4. ASSUME NEW c \in Clients, Memory(c), UNCHANGED work PROVE TypeOK'
  <2>1. slave' \in Slave /\ DOMAIN seen' = Clients
    BY <1>4, WritesType DEF Memory, ReadChunk, LoseChunk, ReadEeprom, WriteChunk,
                            WriteEeprom, Become, TypeOK
  <2>2. /\ UNCHANGED req /\ pc' \in {pc, [pc EXCEPT ![c] = "returned"]}
        /\ lossy' \in {lossy, [lossy EXCEPT ![c] = TRUE]}
        /\ events' \in {events, events + 1}
        /\ DOMAIN offset' = Clients /\ DOMAIN result' = Clients
    BY <1>4 DEF Memory, ReadChunk, LoseChunk, ReadEeprom, WriteChunk, WriteEeprom,
                Advance, Leave, TypeOK
  <2>3. pc' \in [Clients -> {"idle", "busy", "retry", "returned", "thrown"}]
    BY <2>2 DEF TypeOK
  <2>4. lossy' \in [Clients -> BOOLEAN]
    BY <2>2 DEF TypeOK
  <2>5. events' \in Nat
    BY <2>2 DEF TypeOK
  <2> QED BY <1>4, <2>1, <2>2, <2>3, <2>4, <2>5 DEF TypeOK
<1>5. ASSUME NEW c \in Clients, Mailbox(c), UNCHANGED work PROVE TypeOK'
  <2>1. slave' \in Slave /\ DOMAIN seen' = Clients
    BY <1>5, WritesType DEF Mailbox, ReadList, RetryList, ReadElement, WriteElement,
         PopEmergency, DescribeElement, ReadFile, WriteFile, FailSilently, ReadIdn,
         LibraryFails, Become, TypeOK
  <2>2. /\ UNCHANGED req /\ lossy' \in {lossy, [lossy EXCEPT ![c] = TRUE]}
        /\ \E how \in {"retry", "returned", "thrown"} : pc' = [pc EXCEPT ![c] = how]
        /\ events' \in {events, events + 1}
        /\ DOMAIN offset' = Clients /\ DOMAIN result' = Clients
    BY <1>5 DEF Mailbox, ReadList, RetryList, ReadElement, WriteElement, PopEmergency,
         DescribeElement, ReadFile, WriteFile, FailSilently, ReadIdn, LibraryFails, Leave,
         TypeOK
  <2>3. lossy' \in [Clients -> BOOLEAN]
    BY <2>2 DEF TypeOK
  <2>4. pc' \in [Clients -> {"idle", "busy", "retry", "returned", "thrown"}]
    BY <2>2 DEF TypeOK
  <2>5. events' \in Nat
    BY <2>2 DEF TypeOK
  <2> QED BY <1>5, <2>1, <2>2, <2>3, <2>4, <2>5 DEF TypeOK
<1>6. ASSUME NEW c \in Clients, Done(c), UNCHANGED work PROVE TypeOK'
  BY <1>6 DEF Done, Leave, TypeOK
<1> QED
  BY <1>1, <1>2, <1>3, <1>4, <1>5, <1>6 DEF Next

-----------------------------------------------------------------------------
(* The client that is served.                                              *)

LEMMA AskStep ==
    ASSUME TypeOK, NEW c \in Clients, NEW r \in Requests[work], Ask(c, r)
    PROVE  ClientInv(c)'
<1>1. /\ pc'[c] = "busy" /\ req'[c] = r /\ offset'[c] = 0
      /\ result'[c] = Fresh(r) /\ seen'[c] = About(r, slave) /\ slave' = slave
  BY DEF Ask, Leave, TypeOK
<1>2. r.op = "read_memory" => DOMAIN Fresh(r) = 0 .. r.len - 1
  BY DEF Fresh
<1>3. Current(c)'
  BY <1>1 DEF Current
<1>4. Untouched(c)'
  BY <1>1 DEF Untouched
<1>5. ReadSoFar(c)' /\ WrittenSoFar(c)'
  BY <1>1, <1>2 DEF ReadSoFar, WrittenSoFar
<1>6. Answer(c)'
  BY <1>1 DEF Answer, Returned
<1> QED BY <1>3, <1>4, <1>5, <1>6 DEF ClientInv

(* Nothing is said of a client that has been thrown at, or has nothing to  *)
(* ask.                                                                    *)
LEMMA LeavesStep ==
    ASSUME TypeOK, NEW c \in Clients, pc'[c] \in {"idle", "thrown"}
    PROVE  ClientInv(c)'
BY DEF ClientInv, Current, Serving, Untouched, ReadSoFar, WrittenSoFar, Answer,
       Returned

(* The end of a chunk. *)
LEMMA Chunks ==
    ASSUME TypeOK, NEW c \in Clients, offset[c] \in Nat, Length(req[c]) \in Nat,
           Advance(c)
    PROVE  /\ req' = req /\ offset'[c] = offset[c] + Chunk /\ offset'[c] \in Nat
           /\ ActLen(req[c], offset[c]) \in Int
           /\ offset[c] + ActLen(req[c], offset[c]) <= Length(req[c])
           /\ \A i \in Nat : i < Length(req[c]) /\ i < offset'[c] =>
                i < offset[c] \/ InChunk(c, i)
           /\ \/ pc' = pc
              \/ pc' = [pc EXCEPT ![c] = "returned"] /\ Length(req[c]) <= offset'[c]
<1>1. Chunk \in Nat \ {0}
  BY ServicesAssumption
<1>2. req' = req /\ offset'[c] = offset[c] + Chunk
  BY DEF Advance, TypeOK
<1>3. /\ ActLen(req[c], offset[c]) \in Int
      /\ offset[c] + ActLen(req[c], offset[c]) <= Length(req[c])
      /\ \A i \in Nat : i < Length(req[c]) /\ i < offset[c] + Chunk =>
           i < offset[c] \/ InChunk(c, i)
  BY <1>1 DEF ActLen, InChunk
<1>4. \/ pc' = pc
      \/ pc' = [pc EXCEPT ![c] = "returned"] /\ Length(req[c]) <= offset'[c]
  BY <1>1, <1>2 DEF Advance, Leave
<1> QED BY <1>1, <1>2, <1>3, <1>4

(* A call that does not transfer a memory is over. *)
LEMMA ReturnsStep ==
    ASSUME TypeOK, NEW c \in Clients, pc'[c] = "returned", req'[c] = req[c],
           req[c].op \notin {"read_memory", "write_memory"}, Answer(c)'
    PROVE  ClientInv(c)'
BY DEF ClientInv, Current, Serving, Untouched, ReadSoFar, WrittenSoFar

LEMMA ReadChunkStep ==
    ASSUME TypeOK, NEW c \in Clients, ClientInv(c), ReadChunk(c)
    PROVE  ClientInv(c)'
<1> DEFINE r == req[c]
<1>1. /\ pc[c] = "busy" /\ r.op = "read_memory" /\ r.type = "memory"
      /\ r.len \in Nat /\ r.address \in Nat
  BY RequestForms DEF ReadChunk, Busy
<1>2. /\ offset[c] \in Nat /\ DOMAIN result[c] = 0 .. r.len - 1
      /\ Length(r) = r.len /\ About(r, slave) \subseteq seen[c]
      /\ slave' = slave /\ seen' = seen /\ lossy' = lossy
  BY <1>1 DEF ClientInv, ReadSoFar, Current, Serving, Length, ReadChunk
<1>3. /\ req' = req /\ offset'[c] \in Nat
      /\ \A i \in Nat : i < r.len /\ i < offset'[c] => i < offset[c] \/ InChunk(c, i)
      /\ \/ pc' = pc
         \/ pc' = [pc EXCEPT ![c] = "returned"] /\ r.len <= offset'[c]
  BY <1>1, <1>2, Chunks DEF ReadChunk
<1>4. /\ pc'[c] \in {"busy", "returned"}
      /\ pc'[c] = "returned" => r.len <= offset'[c]
  BY <1>1, <1>3 DEF TypeOK
<1>5. /\ DOMAIN result'[c] = 0 .. r.len - 1
      /\ \A i \in 0 .. r.len - 1 :
           result'[c][i] = IF InChunk(c, i)
                           THEN slave.memory[ChunkAddress(r, offset[c]) + i - offset[c]]
                           ELSE result[c][i]
  BY <1>2 DEF ReadChunk, TypeOK
<1>6. \A i \in 0 .. r.len - 1 : <<i, slave.memory[r.address + i]>> \in seen[c]
  BY <1>1, <1>2 DEF About
<1>7. ASSUME NEW i \in 0 .. r.len - 1, i < offset'[c], ~lossy[c]
      PROVE  <<i, result'[c][i]>> \in seen[c]
  <2>1. CASE InChunk(c, i)
    <3>1. ChunkAddress(r, offset[c]) + i - offset[c] = r.address + i
      BY <1>1, <1>2 DEF ChunkAddress
    <3> QED BY <2>1, <3>1, <1>5, <1>6
  <2>2. CASE ~InChunk(c, i)
    <3>1. i < offset[c]
      BY <2>2, <1>1, <1>3, <1>7
    <3> QED BY <2>2, <3>1, <1>1, <1>5, <1>7 DEF ClientInv, ReadSoFar
  <2> QED BY <2>1, <2>2
<1>8. ReadSoFar(c)'
  BY <1>1, <1>2, <1>3, <1>4, <1>5, <1>7 DEF ReadSoFar
<1>9. Current(c)' /\ Untouched(c)' /\ WrittenSoFar(c)' /\ Answer(c)'
  BY <1>1, <1>2, <1>3, <1>4 DEF Current, Untouched, WrittenSoFar, Answer, Returned
<1> QED BY <1>8, <1>9 DEF ClientInv

(* Where the byte i of a chunk stands in the memory. *)
LEMMA PlaceInMemory ==
    ASSUME NEW address \in Nat, NEW pos \in Nat, NEW n \in Int, NEW len \in Nat,
           NEW i \in Nat, 1 <= i, i <= len, Size \in Nat, address + len <= Size,
           pos <= i - 1, i - 1 < pos + n
    PROVE  /\ address + (i - 1) \in 0 .. Size - 1
           /\ address + pos <= address + (i - 1)
           /\ address + (i - 1) < address + pos + n
           /\ pos + (address + (i - 1)) - (address + pos) + 1 = i
OBVIOUS

LEMMA WriteChunkStep ==
    ASSUME TypeOK, NEW c \in Clients, ClientInv(c), WriteChunk(c), TypeOK'
    PROVE  ClientInv(c)'
<1> DEFINE r == req[c]
           to == ChunkAddress(r, offset[c])
           n == ActLen(r, offset[c])
<1>1. /\ pc[c] = "busy" /\ r.op = "write_memory" /\ r.type = "memory"
      /\ r.data \in Seq(Values) /\ r.address \in Nat
      /\ r.address + Len(r.data) <= Size
  BY RequestForms DEF WriteChunk, Busy
<1>2. /\ offset[c] \in Nat /\ Length(r) = Len(r.data) /\ Len(r.data) \in Nat
      /\ lossy' = lossy
  BY <1>1 DEF ClientInv, WrittenSoFar, Length, WriteChunk
<1>3. /\ req' = req /\ offset'[c] \in Nat
      /\ n \in Int /\ offset[c] + n <= Len(r.data)
      /\ \A i \in Nat : i < Len(r.data) /\ i < offset'[c] => i < offset[c] \/ InChunk(c, i)
      /\ \/ pc' = pc
         \/ pc' = [pc EXCEPT ![c] = "returned"] /\ Len(r.data) <= offset'[c]
  BY <1>1, <1>2, Chunks DEF WriteChunk
<1>4. /\ pc'[c] \in {"busy", "returned"}
      /\ pc'[c] = "returned" => Len(r.data) <= offset'[c]
  BY <1>1, <1>3 DEF TypeOK
<1>5. seen'[c] = seen[c] \union About(r, slave')
  BY <1>1 DEF WriteChunk, Become
<1>6. ASSUME NEW i \in 1 .. Len(r.data), InChunk(c, i - 1)
      PROVE  <<i - 1, r.data[i]>> \in About(r, slave')
  <2> DEFINE a == r.address + (i - 1)
             New(behind) == [x \in Addresses |->
               IF to <= x /\ x < to + n
               THEN LET k == offset[c] + x - to + 1
                    IN  IF k <= Len(r.data) THEN r.data[k] ELSE behind
               ELSE slave.memory[x]]
  <2>1. PICK behind \in Values : slave' = [slave EXCEPT !.memory = New(behind)]
    BY DEF WriteChunk, Become
  <2>2. /\ a \in Addresses /\ to <= a /\ a < to + n /\ offset[c] + a - to + 1 = i
    <3>1. Size \in Nat /\ i \in Nat /\ 1 <= i /\ i <= Len(r.data)
      BY <1>2, ServicesAssumption
    <3>2. to = r.address + offset[c]
      BY DEF ChunkAddress
    <3>3. offset[c] <= i - 1 /\ i - 1 < offset[c] + n
      BY <1>6 DEF InChunk
    <3>4. /\ r.address \in Nat /\ offset[c] \in Nat /\ n \in Int /\ Len(r.data) \in Nat
          /\ r.address + Len(r.data) <= Size
      BY <1>1, <1>2, <1>3
    <3>5. /\ a \in 0 .. Size - 1
          /\ to <= a /\ a < to + n /\ offset[c] + a - to + 1 = i
      <4>1. PICK ad \in Nat, p \in Nat, k \in Int, l \in Nat :
              ad = r.address /\ p = offset[c] /\ k = n /\ l = Len(r.data)
        BY ONLY <3>4
      <4>2. to = ad + p /\ a = ad + (i - 1) /\ i <= l /\ ad + l <= Size
        BY ONLY <3>1, <3>2, <3>4, <4>1
      <4>3. p <= i - 1 /\ i - 1 < p + k
        BY ONLY <3>3, <4>1
      <4>4. /\ ad + (i - 1) \in 0 .. Size - 1
            /\ ad + p <= ad + (i - 1) /\ ad + (i - 1) < ad + p + k
            /\ p + (ad + (i - 1)) - (ad + p) + 1 = i
        BY ONLY <3>1, <4>2, <4>3, PlaceInMemory
      <4> QED BY ONLY <4>1, <4>2, <4>4
    <3> QED BY <3>5 DEF Addresses
  <2>3. New(behind)[a] = r.data[i]
    BY <2>2
  <2> HIDE DEF New
  <2>4. slave'.memory[a] = r.data[i]
    BY <2>1, <2>3 DEF TypeOK, Slave
  <2>5. i - 1 \in 0 .. Length(r) - 1
    BY <1>2
  <2> HIDE DEF a
  <2>6. a = r.address + (i - 1)
    BY DEF a
  <2> QED BY <1>1, <2>4, <2>5, <2>6 DEF About
<1>7. ASSUME NEW i \in 1 .. Len(r.data), i <= offset'[c], ~lossy[c]
      PROVE  <<i - 1, r.data[i]>> \in seen'[c]
  <2>1. CASE InChunk(c, i - 1)
    BY <2>1, <1>5, <1>6
  <2>2. CASE ~InChunk(c, i - 1)
    <3>1. i <= offset[c]
      BY <2>2, <1>2, <1>3, <1>7
    <3> QED BY <3>1, <1>1, <1>5, <1>7 DEF ClientInv, WrittenSoFar
  <2> QED BY <2>1, <2>2
<1>8. WrittenSoFar(c)'
  BY <1>1, <1>2, <1>3, <1>4, <1>7 DEF WrittenSoFar
<1>9. Current(c)' /\ Untouched(c)' /\ ReadSoFar(c)' /\ Answer(c)'
  BY <1>1, <1>3, <1>4, <1>5 DEF Current, Untouched, ReadSoFar, Answer, Returned
<1> QED BY <1>8, <1>9 DEF ClientInv

LEMMA LoseChunkStep ==
    ASSUME TypeOK, NEW c \in Clients, ClientInv(c), LoseChunk(c)
    PROVE  ClientInv(c)'
<1>1. /\ pc[c] = "busy" /\ req[c].op \in {"read_memory", "write_memory"}
      /\ req[c].type = "memory" /\ Length(req[c]) \in Nat
      /\ offset[c] \in Nat /\ slave' = slave /\ result' = result /\ seen' = seen
      /\ lossy'[c] = TRUE
  BY RequestForms DEF LoseChunk, Length, ClientInv, ReadSoFar, WrittenSoFar, TypeOK
<1>2. /\ req' = req /\ offset'[c] \in Nat
      /\ pc' = pc \/ pc' = [pc EXCEPT ![c] = "returned"]
  BY <1>1, Chunks DEF LoseChunk
<1>3. pc'[c] \in {"busy", "returned"}
  BY <1>1, <1>2 DEF TypeOK
<1>4. ReadSoFar(c)'
  BY <1>1, <1>2, <1>3 DEF ClientInv, ReadSoFar
<1>5. WrittenSoFar(c)'
  BY <1>1, <1>2, <1>3 DEF ClientInv, WrittenSoFar
<1>6. Current(c)' /\ Untouched(c)' /\ Answer(c)'
  BY <1>1, <1>2, <1>3 DEF ClientInv, Current, Serving, Untouched, Answer, Returned
<1> QED BY <1>4, <1>5, <1>6 DEF ClientInv

LEMMA ReadEepromStep ==
    ASSUME TypeOK, NEW c \in Clients, ClientInv(c), ReadEeprom(c)
    PROVE  ClientInv(c)'
<1> DEFINE r == req[c]
<1>1. /\ pc[c] = "busy" /\ r.op = "read_memory" /\ r.type = "eeprom"
      /\ r.len \in Nat /\ r.address \in Nat
      /\ pc'[c] = "returned" /\ req' = req /\ offset' = offset /\ seen' = seen
  BY RequestForms DEF ReadEeprom, Busy, Leave, TypeOK
<1>2. /\ offset[c] \in Nat /\ DOMAIN result[c] = 0 .. r.len - 1
      /\ Length(r) = r.len /\ About(r, slave) \subseteq seen[c]
  BY <1>1 DEF ClientInv, ReadSoFar, Current, Serving, Length
<1>3. /\ DOMAIN result'[c] = 0 .. r.len - 1
      /\ \A i \in 0 .. r.len - 1 :
           result'[c][i] = slave.eeprom[2 * (r.address \div 2) + i]
  BY <1>2 DEF ReadEeprom, TypeOK
<1>4. \A i \in 0 .. r.len - 1 : <<i, slave.eeprom[r.address + i]>> \in seen[c]
  BY <1>1, <1>2 DEF About
<1>5. Plain(r) => 2 * (r.address \div 2) = r.address
  BY <1>1 DEF Plain
<1>6. ReadSoFar(c)'
  BY <1>1, <1>2, <1>3, <1>4, <1>5 DEF ReadSoFar
<1>7. Current(c)' /\ Untouched(c)' /\ WrittenSoFar(c)' /\ Answer(c)'
  BY <1>1 DEF Current, Serving, Untouched, WrittenSoFar, Answer, Returned
<1> QED BY <1>6, <1>7 DEF ClientInv

LEMMA WriteEepromStep ==
    ASSUME TypeOK, NEW c \in Clients, ClientInv(c), WriteEeprom(c), TypeOK'
    PROVE  ClientInv(c)'
<1> DEFINE r == req[c]
           New == [a \in Addresses |->
             IF a \in 2 * r.address .. 2 * r.address + Len(r.data) - 1
             THEN r.data[a - 2 * r.address + 1] ELSE slave.eeprom[a]]
<1>1. /\ pc[c] = "busy" /\ r.op = "write_memory" /\ r.type = "eeprom"
      /\ r.data \in Seq(Values) /\ r.address \in Nat
      /\ r.address + Len(r.data) <= Size /\ Len(r.data) \in Nat
      /\ pc'[c] = "returned" /\ req' = req /\ offset' = offset
  BY RequestForms DEF WriteEeprom, Busy, Leave, TypeOK
<1>2. offset[c] \in Nat /\ Length(r) = Len(r.data)
  BY <1>1 DEF ClientInv, WrittenSoFar, Length
<1>3. slave' = [slave EXCEPT !.eeprom = New]
  BY DEF WriteEeprom, Become
<1>4. seen'[c] = seen[c] \union About(r, slave')
  BY <1>1 DEF WriteEeprom, Become
<1>5. ASSUME Plain(r), NEW i \in 1 .. Len(r.data)
      PROVE  <<i - 1, r.data[i]>> \in seen'[c]
  <2>1. r.address = 0
    BY <1>1, <1>5 DEF Plain
  <2>2. i - 1 \in Addresses /\ New[i - 1] = r.data[i]
    BY <1>1, <2>1, ServicesAssumption DEF Addresses
  <2> HIDE DEF New
  <2>3. slave'.eeprom[i - 1] = r.data[i]
    BY <1>3, <2>2 DEF TypeOK, Slave
  <2>4. i - 1 \in 0 .. Length(r) - 1 /\ r.address + (i - 1) = i - 1
    BY <1>2, <2>1
  <2> QED BY <1>1, <1>4, <2>3, <2>4 DEF About
<1> HIDE DEF New
<1>6. WrittenSoFar(c)'
  BY <1>1, <1>2, <1>5 DEF WrittenSoFar
<1>7. Current(c)' /\ Untouched(c)' /\ ReadSoFar(c)' /\ Answer(c)'
  BY <1>1 DEF Current, Serving, Untouched, ReadSoFar, Answer, Returned
<1> QED BY <1>6, <1>7 DEF ClientInv

LEMMA MemoryStep ==
    ASSUME TypeOK, NEW c \in Clients, ClientInv(c), Memory(c), TypeOK'
    PROVE  ClientInv(c)'
BY ReadChunkStep, WriteChunkStep, LoseChunkStep, ReadEepromStep, WriteEepromStep
   DEF Memory

(* The answers of the mailbox: each is what the slave has at this step, or *)
(* what the caller passed in.                                              *)
LEMMA MailboxStep ==
    ASSUME TypeOK, NEW c \in Clients, ClientInv(c), Mailbox(c)
    PROVE  ClientInv(c)'
<1> DEFINE r == req[c]
<1>1. CASE ReadList(c)
  <2>1. /\ pc[c] = "busy" /\ r.op = "list" /\ slave' = slave /\ seen' = seen
        /\ req' = req /\ About(r, slave) = {slave.list}
    BY <1>1 DEF ReadList, Busy, About
  <2>2. slave.list \in seen[c]
    BY <2>1 DEF ClientInv, Current, Serving
  <2>3. CASE Len(slave.list) <= ListBuffer
    <3>1. pc'[c] = "returned" /\ result'[c] = slave.list
      BY <1>1, <2>3 DEF ReadList, Leave, TypeOK
    <3>2. Answer(c)'
      BY <2>1, <2>2, <3>1 DEF Answer, Returned
    <3> QED BY <2>1, <3>1, <3>2, ReturnsStep
  <2>4. CASE ~(Len(slave.list) <= ListBuffer)
    <3>1. pc'[c] = "retry"
      BY <1>1, <2>4 DEF ReadList, Leave, TypeOK
    <3> QED BY <2>1, <2>2, <3>1 DEF ClientInv, Current, Serving, Untouched, ReadSoFar,
               WrittenSoFar, Answer, Returned
  <2> QED BY <2>3, <2>4
<1>2. CASE RetryList(c)
  <2>1. /\ pc[c] = "retry" /\ r.op = "list" /\ slave' = slave /\ seen' = seen
        /\ req' = req /\ About(r, slave) = {slave.list}
    BY <1>2 DEF RetryList, ClientInv, Untouched, About
  <2>2. CASE pc'[c] = "thrown"
    BY <2>2, LeavesStep
  <2>3. CASE pc'[c] # "thrown"
    <3>1. pc'[c] = "returned" /\ result'[c] = slave.list
      BY <1>2, <2>3 DEF RetryList, Leave, Resized, TypeOK
    <3>2. Answer(c)'
      BY <2>1, <3>1 DEF ClientInv, Current, Serving, Answer, Returned
    <3> QED BY <2>1, <3>1, <3>2, ReturnsStep
  <2> QED BY <2>2, <2>3
<1>3. CASE ReadElement(c)
  <2>1. /\ pc[c] = "busy" /\ r.op = "element" /\ slave' = slave /\ seen' = seen
        /\ req' = req /\ pc'[c] = "returned" /\ About(r, slave) = {slave.object}
        /\ result'[c] \in {result[c], slave.object} /\ Fresh(r) = Nothing
    BY <1>3 DEF ReadElement, Busy, Leave, TypeOK, About, Fresh
  <2>2. slave.object \in seen[c] /\ result[c] = Nothing
    BY <2>1 DEF ClientInv, Current, Serving, Untouched
  <2>3. Answer(c)'
    BY <2>1, <2>2 DEF Answer, Returned
  <2> QED BY <2>1, <2>3, ReturnsStep
<1>4. CASE WriteElement(c)
  <2>1. r.op = "put_element" /\ req' = req /\ pc'[c] = "returned"
    BY <1>4 DEF WriteElement, Busy, Leave, TypeOK
  <2>2. Answer(c)'
    BY <2>1 DEF Answer, Returned
  <2> QED BY <2>1, <2>2, ReturnsStep
<1>5. CASE PopEmergency(c)
  <2>1. /\ pc[c] = "busy" /\ r.op = "emergency" /\ req' = req /\ pc'[c] = "returned"
        /\ About(r, slave) = {slave.emergencies[k] : k \in DOMAIN slave.emergencies}
        /\ Fresh(r) = r.data
    BY <1>5 DEF PopEmergency, Busy, Leave, TypeOK, About, Fresh
  <2>2. result[c] = r.data /\ About(r, slave) \subseteq seen[c]
    BY <2>1 DEF ClientInv, Current, Serving, Untouched
  <2>3. CASE slave.emergencies = << >>
    <3>1. result' = result
      BY <1>5, <2>3 DEF PopEmergency
    <3>2. Answer(c)'
      BY <2>1, <2>2, <3>1 DEF Answer, Returned
    <3> QED BY <2>1, <3>2, ReturnsStep
  <2>4. CASE slave.emergencies # << >>
    <3>1. result'[c] = Append(result[c], Head(slave.emergencies))
      BY <1>5, <2>4 DEF PopEmergency, TypeOK
    <3>2. Head(slave.emergencies) \in About(r, slave)
      BY <2>1, <2>4 DEF TypeOK, Slave
    <3>3. seen[c] \subseteq seen'[c]
      BY <1>5, <2>4 DEF PopEmergency, Become
    <3>4. Answer(c)'
      BY <2>1, <2>2, <3>1, <3>2, <3>3 DEF Answer, Returned
    <3> QED BY <2>1, <3>4, ReturnsStep
  <2> QED BY <2>3, <2>4
<1>6. CASE DescribeElement(c)
  <2>1. r.op = "describe" /\ req' = req /\ pc'[c] = "returned"
    BY <1>6 DEF DescribeElement, Busy, Leave, TypeOK
  <2>2. Answer(c)'
    BY <2>1 DEF Answer, Returned
  <2> QED BY <2>1, <2>2, ReturnsStep
<1>7. CASE ReadFile(c)
  <2>1. /\ pc[c] = "busy" /\ r.op = "file" /\ slave' = slave /\ seen' = seen
        /\ req' = req /\ pc'[c] = "returned" /\ About(r, slave) = {slave.file}
        /\ Fresh(r) = Nothing
        /\ result'[c] = slave.file \/ result' = result
    BY <1>7 DEF ReadFile, Busy, Leave, TypeOK, About, Fresh
  <2>2. result[c] = Nothing /\ About(r, slave) \subseteq seen[c]
    BY <2>1 DEF ClientInv, Current, Serving, Untouched
  <2>3. Answer(c)'
    BY <2>1, <2>2 DEF Answer, Returned
  <2> QED BY <2>1, <2>3, ReturnsStep
<1>8. CASE WriteFile(c)
  <2>1. r.op = "put_file" /\ req' = req /\ pc'[c] = "returned"
    BY <1>8 DEF WriteFile, Busy, Leave, TypeOK
  <2>2. Answer(c)'
    BY <2>1 DEF Answer, Returned
  <2> QED BY <2>1, <2>2, ReturnsStep
<1>9. CASE ReadIdn(c)
  <2>1. r.op = "idn" /\ req' = req /\ pc'[c] = "returned"
    BY <1>9 DEF ReadIdn, Busy, Leave, TypeOK
  <2>2. Answer(c)'
    BY <2>1 DEF Answer, Returned
  <2> QED BY <2>1, <2>2, ReturnsStep
<1>10. CASE LibraryFails(c)
  <2>1. pc'[c] = "thrown"
    BY <1>10 DEF LibraryFails, Leave, TypeOK
  <2> QED BY <2>1, LeavesStep
<1>11. CASE FailSilently(c)
  <2>1. /\ r.op \in {"file", "put_file"} /\ req' = req /\ pc'[c] = "returned"
        /\ lossy'[c] = TRUE
    BY <1>11 DEF FailSilently, Busy, Leave, TypeOK
  <2>2. Answer(c)'
    BY <2>1 DEF Answer, Returned
  <2> QED BY <2>1, <2>2, ReturnsStep
<1> QED BY <1>1, <1>2, <1>3, <1>4, <1>5, <1>6, <1>7, <1>8, <1>9, <1>10, <1>11 DEF Mailbox

-----------------------------------------------------------------------------
(* The other clients.                                                      *)

LEMMA MemoryApart ==
    ASSUME TypeOK, NEW c \in Clients, NEW e \in Clients, e # c, Memory(c)
    PROVE  Recorded /\ Apart(e)
<1>1. CASE ReadChunk(c)
  BY <1>1 DEF ReadChunk, Advance, Leave, Recorded, Apart, TypeOK
<1>2. CASE WriteChunk(c)
  <2>1. Recorded
    BY <1>2 DEF WriteChunk, Recorded, Become
  <2> QED BY <1>2, <2>1 DEF WriteChunk, Advance, Leave, Apart, TypeOK
<1>3. CASE LoseChunk(c)
  BY <1>3 DEF LoseChunk, Advance, Leave, Recorded, Apart, TypeOK
<1>4. CASE ReadEeprom(c)
  BY <1>4 DEF ReadEeprom, Leave, Recorded, Apart, TypeOK
<1>5. CASE WriteEeprom(c)
  <2>1. Recorded
    BY <1>5 DEF WriteEeprom, Recorded, Become
  <2> QED BY <1>5, <2>1 DEF WriteEeprom, Leave, Apart, TypeOK
<1> QED BY <1>1, <1>2, <1>3, <1>4, <1>5 DEF Memory

LEMMA MailboxApart ==
    ASSUME TypeOK, NEW c \in Clients, NEW e \in Clients, e # c, Mailbox(c)
    PROVE  Recorded /\ Apart(e)
<1>1. CASE WriteElement(c) \/ WriteFile(c)
  <2>1. Recorded
    BY <1>1 DEF WriteElement, WriteFile, Recorded, Become
  <2> QED BY <1>1, <2>1 DEF WriteElement, WriteFile, Leave, Apart, TypeOK
<1>2. CASE PopEmergency(c)
  <2>1. Recorded
    BY <1>2 DEF PopEmergency, Recorded, Become
  <2> QED BY <1>2, <2>1 DEF PopEmergency, Leave, Apart, TypeOK
<1>3. CASE ReadList(c) \/ RetryList(c)
  BY <1>3 DEF ReadList, RetryList, Leave, Recorded, Apart, TypeOK
<1>4. CASE \/ ReadElement(c) \/ ReadFile(c) \/ FailSilently(c) \/ ReadIdn(c)
           \/ LibraryFails(c)
  BY <1>4 DEF ReadElement, ReadFile, FailSilently, ReadIdn, LibraryFails, Leave, Recorded,
              Apart, TypeOK
<1>5. CASE DescribeElement(c)
  BY <1>5 DEF DescribeElement, Leave, Recorded, Apart, TypeOK
<1> QED BY <1>1, <1>2, <1>3, <1>4, <1>5 DEF Mailbox

LEMMA ClientStep ==
    ASSUME ServiceInv, [Next]_vars, TypeOK', NEW e \in Clients
    PROVE  ClientInv(e)'
<1> USE DEF ServiceInv
<1>1. CASE UNCHANGED vars
  BY <1>1, ApartKeeps DEF vars, call, Apart
<1>2. CASE SlaveChanges
  <2>1. Recorded /\ Apart(e)
    BY <1>2 DEF SlaveChanges, Recorded, Become, Apart, call
  <2> QED BY <2>1, RecordedSeen, ApartKeeps
<1>3. ASSUME NEW c \in Clients, NEW r \in Requests[work], Ask(c, r)
      PROVE  ClientInv(e)'
  <2>1. CASE e = c
    BY <1>3, <2>1, AskStep
  <2>2. CASE e # c
    BY <1>3, <2>2, ApartKeeps DEF Ask, Leave, Apart, TypeOK
  <2> QED BY <2>1, <2>2
<1>4. ASSUME NEW c \in Clients, Done(c) PROVE ClientInv(e)'
  <2>1. CASE e = c
    <3>1. pc'[c] = "idle"
      BY <1>4 DEF Done, Leave, TypeOK
    <3> QED BY <2>1, <3>1, LeavesStep
  <2>2. CASE e # c
    BY <1>4, <2>2, ApartKeeps DEF Done, Leave, Apart, TypeOK
  <2> QED BY <2>1, <2>2
<1>5. ASSUME NEW c \in Clients, Memory(c) PROVE ClientInv(e)'
  <2>1. CASE e = c
    BY <1>5, <2>1, MemoryStep
  <2>2. CASE e # c
    BY <1>5, <2>2, MemoryApart, RecordedSeen, ApartKeeps
  <2> QED BY <2>1, <2>2
<1>6. ASSUME NEW c \in Clients, Mailbox(c) PROVE ClientInv(e)'
  <2>1. CASE e = c
    BY <1>6, <2>1, MailboxStep
  <2>2. CASE e # c
    BY <1>6, <2>2, MailboxApart, RecordedSeen, ApartKeeps
  <2> QED BY <2>1, <2>2
<1> QED BY <1>1, <1>2, <1>3, <1>4, <1>5, <1>6 DEF Next

(* Until somebody asks, there is nothing to say of any client. *)
LEMMA InitServices == Init => ServiceInv
<1> SUFFICES ASSUME Init PROVE ServiceInv
  OBVIOUS
<1>1. TypeOK
  BY RequestsAssumption DEF Init, TypeOK
<1>2. ASSUME NEW c \in Clients PROVE ClientInv(c)
  <2>1. pc[c] = "idle"
    BY DEF Init
  <2> QED BY <2>1 DEF ClientInv, Current, Serving, Untouched, ReadSoFar, WrittenSoFar,
             Answer, Returned
<1> QED BY <1>1, <1>2 DEF ServiceInv

LEMMA ServicesKept == Spec => []ServiceInv
<1>1. ServiceInv /\ [Next]_vars => ServiceInv'
  <2> SUFFICES ASSUME ServiceInv, [Next]_vars PROVE ServiceInv'
    OBVIOUS
  <2>1. TypeOK'
    BY TypeStep
  <2> QED BY <2>1, ClientStep DEF ServiceInv
<1> QED BY InitServices, <1>1, PTL DEF Spec

-----------------------------------------------------------------------------
(* Theorems.                                                               *)

(* Type correctness of every client and of the slave. *)
THEOREM ServicesTyped == Spec => []TypeOK
<1>1. ServiceInv => TypeOK
  BY DEF ServiceInv
<1> QED BY ServicesKept, <1>1, PTL

(* Each byte that a memory read returns has stood at its address during    *)
(* the call, and each byte of a write has got there, whatever the size of  *)
(* a chunk, the other clients and the slave do; unless a datagram was lost *)
(* (slave_memory_inspection.cpp:72-123).                                   *)
THEOREM BytesArrive == Spec => []MemoryTransferred
<1>1. ServiceInv => MemoryTransferred
  <2> SUFFICES ASSUME ServiceInv, NEW c \in Clients, ~lossy[c]
               PROVE  /\ Returned(c, "read_memory") /\ Plain(req[c]) =>
                           \A i \in 0 .. req[c].len - 1 : <<i, result[c][i]>> \in seen[c]
                      /\ Returned(c, "write_memory") /\ Plain(req[c]) =>
                           \A i \in DOMAIN req[c].data : <<i - 1, req[c].data[i]>> \in seen[c]
    BY DEF MemoryTransferred
  <2>1. TypeOK /\ ReadSoFar(c) /\ WrittenSoFar(c)
    BY DEF ServiceInv, ClientInv
  <2>2. ASSUME Returned(c, "read_memory"), Plain(req[c]), NEW i \in 0 .. req[c].len - 1
        PROVE  <<i, result[c][i]>> \in seen[c]
    <3>1. req[c].type \in {"memory", "eeprom"} /\ req[c].len \in Nat
      BY <2>1, <2>2, RequestForms DEF Returned, Memories
    <3> QED BY <2>1, <2>2, <3>1 DEF Returned, ReadSoFar
  <2>3. ASSUME Returned(c, "write_memory"), Plain(req[c]), NEW i \in DOMAIN req[c].data
        PROVE  <<i - 1, req[c].data[i]>> \in seen[c]
    <3>1. req[c].type \in {"memory", "eeprom"} /\ req[c].data \in Seq(Values)
      BY <2>1, <2>3, RequestForms DEF Returned, Memories
    <3>2. i \in 1 .. Len(req[c].data) /\ Len(req[c].data) \in Nat
      BY <2>3, <3>1
    <3> QED BY <2>1, <2>3, <3>1, <3>2 DEF Returned, WrittenSoFar
  <2> QED BY <2>2, <2>3
<1> QED BY ServicesKept, <1>1, PTL

(* A list, an object, a file or an emergency message that a client gets is *)
(* one the slave had during the call, or what the client had passed in;    *)
(* but for files whose transfer failed and nobody was told                 *)
(* (slave_canopen_protocol.cpp:85-113, slave_file_protocol.cpp:59-79).     *)
THEOREM AnswersAreHeld == Spec => []AnswerOfSlave
<1>1. ServiceInv => AnswerOfSlave
  BY DEF ServiceInv, ClientInv, Answer, AnswerOfSlave
<1> QED BY ServicesKept, <1>1, PTL

-----------------------------------------------------------------------------
(* Who changes a memory.                                                   *)

(* The client c has written to the byte a of the memory m. *)
Wrote(c, m, a) ==
    /\ Busy(c, "write_memory") /\ req[c].type = m
    /\ Plain(req[c]) =>
         /\ a \in req[c].address .. req[c].address + Len(req[c].data) - 1
         /\ slave'[m][a] = req[c].data[a - req[c].address + 1]

LEMMA MailboxKeepsMemories ==
    ASSUME TypeOK, NEW c \in Clients, Mailbox(c), NEW m \in Memories
    PROVE  slave'[m] = slave[m]
<1>1. CASE WriteElement(c)
  <2>1. slave' = [slave EXCEPT !.object = req[c].data]
    BY <1>1 DEF WriteElement, Become
  <2> QED BY <2>1 DEF TypeOK, Slave, Memories
<1>2. CASE WriteFile(c)
  <2>1. slave' = [slave EXCEPT !.file = req[c].data]
    BY <1>2 DEF WriteFile, Become
  <2> QED BY <2>1 DEF TypeOK, Slave, Memories
<1>3. CASE PopEmergency(c)
  <2>1. \/ slave' = slave
        \/ slave' = [slave EXCEPT !.emergencies = Tail(slave.emergencies)]
    BY <1>3 DEF PopEmergency, Become
  <2> QED BY <2>1 DEF TypeOK, Slave, Memories
<1>4. CASE \/ ReadList(c) \/ RetryList(c) \/ ReadElement(c) \/ DescribeElement(c)
           \/ ReadFile(c) \/ FailSilently(c) \/ ReadIdn(c) \/ LibraryFails(c)
  BY <1>4 DEF ReadList, RetryList, ReadElement, DescribeElement, ReadFile, FailSilently,
              ReadIdn, LibraryFails
<1> QED BY <1>1, <1>2, <1>3, <1>4 DEF Mailbox

(* The arithmetic of a chunk: a byte inside of it is one of the request.   *)
LEMMA ChunkInRequest ==
    ASSUME NEW address \in Nat, NEW pos \in Nat, NEW n \in Int, NEW len \in Nat,
           NEW a \in Nat, pos + n <= len, address + pos <= a, a < address + pos + n
    PROVE  /\ a \in address .. address + len - 1
           /\ pos + a - (address + pos) + 1 = a - address + 1
           /\ a - address + 1 <= len
OBVIOUS

LEMMA WriteChunkWrote ==
    ASSUME TypeOK, NEW c \in Clients, ClientInv(c), WriteChunk(c),
           NEW m \in Memories, NEW a \in Addresses, slave'[m][a] # slave[m][a]
    PROVE  Wrote(c, m, a)
<1> DEFINE r == req[c]
           to == ChunkAddress(r, offset[c])
           n == ActLen(r, offset[c])
           New(behind) == [x \in Addresses |->
             IF to <= x /\ x < to + n
             THEN LET k == offset[c] + x - to + 1
                  IN  IF k <= Len(r.data) THEN r.data[k] ELSE behind
             ELSE slave.memory[x]]
<1>1. /\ Busy(c, "write_memory") /\ r.type = "memory" /\ r.op = "write_memory"
      /\ pc[c] = "busy" /\ r.data \in Seq(Values) /\ r.address \in Nat
  BY RequestForms DEF WriteChunk, Busy
<1>2. offset[c] \in Nat /\ Length(r) = Len(r.data) /\ Len(r.data) \in Nat
  BY <1>1 DEF ClientInv, WrittenSoFar, Length
<1>3. n \in Int /\ offset[c] + n <= Len(r.data)
  BY <1>1, <1>2, Chunks DEF WriteChunk
<1>4. PICK behind \in Values : slave' = [slave EXCEPT !.memory = New(behind)]
  BY DEF WriteChunk, Become
<1>5. m = "memory" /\ New(behind)[a] # slave.memory[a] /\ slave'[m][a] = New(behind)[a]
  <2> HIDE DEF New
  <2>1. slave'.eeprom = slave.eeprom /\ slave'.memory = New(behind)
    BY <1>4 DEF TypeOK, Slave
  <2> QED BY <2>1 DEF Memories
<1>6. to <= a /\ a < to + n
  BY <1>5
<1>7. to = r.address + offset[c] /\ a \in Nat
  BY ServicesAssumption DEF ChunkAddress, Addresses
<1>8. /\ a \in r.address .. r.address + Len(r.data) - 1
      /\ offset[c] + a - to + 1 = a - r.address + 1
      /\ a - r.address + 1 <= Len(r.data)
  <2>1. PICK ad \in Nat, p \in Nat, k \in Int, l \in Nat :
          ad = r.address /\ p = offset[c] /\ k = n /\ l = Len(r.data)
    BY ONLY <1>1, <1>2, <1>3
  <2>2. a \in Nat /\ to = ad + p /\ p + k <= l
    BY ONLY <1>3, <1>7, <2>1
  <2>3. ad + p <= a /\ a < ad + p + k
    BY ONLY <1>6, <2>1, <2>2
  <2>4. /\ a \in ad .. ad + l - 1
        /\ p + a - (ad + p) + 1 = a - ad + 1 /\ a - ad + 1 <= l
    BY ONLY <2>2, <2>3, ChunkInRequest
  <2> QED BY ONLY <2>1, <2>2, <2>4
<1>9. New(behind)[a] = r.data[a - r.address + 1]
  BY <1>6, <1>8
<1> HIDE DEF New
<1> QED BY <1>1, <1>5, <1>8, <1>9 DEF Wrote

LEMMA WriteEepromWrote ==
    ASSUME TypeOK, NEW c \in Clients, WriteEeprom(c),
           NEW m \in Memories, NEW a \in Addresses, slave'[m][a] # slave[m][a]
    PROVE  Wrote(c, m, a)
<1> DEFINE r == req[c]
           New == [x \in Addresses |->
             IF x \in 2 * r.address .. 2 * r.address + Len(r.data) - 1
             THEN r.data[x - 2 * r.address + 1] ELSE slave.eeprom[x]]
<1>1. /\ Busy(c, "write_memory") /\ r.type = "eeprom" /\ r.op = "write_memory"
  BY DEF WriteEeprom, Busy
<1>2. slave' = [slave EXCEPT !.eeprom = New]
  BY DEF WriteEeprom, Become
<1>3. m = "eeprom" /\ New[a] # slave.eeprom[a] /\ slave'[m][a] = New[a]
  <2> HIDE DEF New
  <2>1. slave'.memory = slave.memory /\ slave'.eeprom = New
    BY <1>2 DEF TypeOK, Slave
  <2> QED BY <2>1 DEF Memories
<1>4. ASSUME Plain(r)
      PROVE  /\ a \in r.address .. r.address + Len(r.data) - 1
             /\ New[a] = r.data[a - r.address + 1]
  <2>1. r.address = 0
    BY <1>1, <1>4 DEF Plain
  <2> QED BY <1>3, <2>1
<1> HIDE DEF New
<1> QED BY <1>1, <1>3, <1>4 DEF Wrote

(* The services change a memory, of whatever size and in whatever chunks,  *)
(* only where a client writes, and to the byte it has asked for            *)
(* (slave_memory_inspection.cpp:101-123).                                  *)
THEOREM MemoryChangedByWriters == Spec => OnlyAskedWritten
<1> DEFINE Changes ==
      \A m \in Memories, a \in Addresses :
         slave'[m][a] # slave[m][a] /\ events' = events =>
            \E c \in Clients : Wrote(c, m, a)
<1>1. ServiceInv /\ [Next]_vars => [Changes]_vars
  <2> SUFFICES ASSUME ServiceInv, Next, NEW m \in Memories, NEW a \in Addresses,
                      slave'[m][a] # slave[m][a], events' = events
               PROVE  \E c \in Clients : Wrote(c, m, a)
    OBVIOUS
  <2>1. TypeOK
    BY DEF ServiceInv
  <2>2. CASE SlaveChanges
    BY <2>1, <2>2 DEF SlaveChanges, TypeOK
  <2>3. ASSUME NEW c \in Clients, Done(c) \/ \E r \in Requests[work] : Ask(c, r)
        PROVE  FALSE
    BY <2>3 DEF Done, Ask
  <2>4. ASSUME NEW c \in Clients, Mailbox(c) PROVE FALSE
    BY <2>1, <2>4, MailboxKeepsMemories
  <2>5. ASSUME NEW c \in Clients, Memory(c) PROVE Wrote(c, m, a)
    <3>1. ClientInv(c)
      BY DEF ServiceInv
    <3>2. CASE WriteChunk(c)
      BY <2>1, <3>1, <3>2, WriteChunkWrote
    <3>3. CASE WriteEeprom(c)
      BY <2>1, <3>3, WriteEepromWrote
    <3>4. CASE ReadChunk(c) \/ LoseChunk(c) \/ ReadEeprom(c)
      BY <3>4 DEF ReadChunk, LoseChunk, ReadEeprom
    <3> QED BY <2>5, <3>2, <3>3, <3>4 DEF Memory
  <2> QED BY <2>2, <2>3, <2>4, <2>5 DEF Next
<1>2. [][Changes]_vars => OnlyAskedWritten
  BY DEF OnlyAskedWritten, Wrote
<1> HIDE DEF Changes
<1> QED BY ServicesKept, <1>1, <1>2, PTL DEF Spec

-----------------------------------------------------------------------------
(* The description of an element.                                          *)

(* The sizes of the fields of a description, and their places: every field *)
(* begins where the one before it ends.                                    *)
CoeSums(desc, p) ==
    /\ p \in [0 .. 5 -> Nat] /\ p[0] = 0
    /\ \A k \in 1 .. 5 : p[k] = p[k - 1] + SentBytes(desc, CoeOrder[k])

LEMMA ValueRounded ==
    ASSUME NEW desc \in Description
    PROVE  (desc.bits + 7) \div 8 \in Nat /\ ValueBytes(desc) = (desc.bits + 7) \div 8
<1> DEFINE b == desc.bits
           n == (b + 7) \div 8
           Fits(x) == 8 * x \in b .. b + 7
<1>1. b \in Nat
  BY DEF Description
<1>2. n \in 0 .. b /\ Fits(n)
  BY <1>1
<1>3. ASSUME NEW x \in 0 .. b, Fits(x) PROVE x = n
  BY <1>1, <1>3
<1>4. ValueBytes(desc) = CHOOSE x \in 0 .. b : Fits(x)
  BY DEF ValueBytes
<1> HIDE DEF n, Fits
<1>5. (CHOOSE x \in 0 .. b : Fits(x)) = n
  BY <1>2, <1>3
<1> QED BY <1>2, <1>4, <1>5 DEF n

LEMMA SentBytesNat ==
    ASSUME NEW desc \in Description
    PROVE  \A k \in 1 .. 5 : SentBytes(desc, CoeOrder[k]) \in Nat
<1>1. desc.name \in Nat /\ ValueBytes(desc) \in Nat
  BY ValueRounded DEF Description
<1> QED BY <1>1 DEF SentBytes

LEMMA CoeRunning ==
    ASSUME NEW desc \in Description
    PROVE  CoeSums(desc, Running(SentSizes(desc)))
           /\ DescriptionLength(desc) = Running(SentSizes(desc))[5]
<1> DEFINE w == SentSizes(desc)
           p == Running(w)
<1>1. w \in Seq(Int) /\ Len(w) = 5 /\ \A k \in 1 .. 5 : w[k] = SentBytes(desc, CoeOrder[k]) /\ w[k] \in Nat
  BY SentBytesNat DEF SentSizes
<1> HIDE DEF w
<1>2. Sums(w, p)
  BY <1>1, RunningSums
<1> HIDE DEF p
<1>3. p \in [0 .. 5 -> Int] /\ p[0] = 0 /\ \A k \in 1 .. 5 : p[k] = p[k - 1] + w[k]
  BY <1>1, <1>2 DEF Sums
<1>4. /\ p[1] = p[0] + w[1] /\ p[2] = p[1] + w[2] /\ p[3] = p[2] + w[3]
      /\ p[4] = p[3] + w[4] /\ p[5] = p[4] + w[5]
  BY <1>3
<1>5. w[1] \in Nat /\ w[2] \in Nat /\ w[3] \in Nat /\ w[4] \in Nat /\ w[5] \in Nat
  BY <1>1
<1>6. p[0] \in Nat /\ p[1] \in Nat /\ p[2] \in Nat /\ p[3] \in Nat /\ p[4] \in Nat /\ p[5] \in Nat
  BY ONLY <1>3, <1>4, <1>5
<1>7. \A k \in 0 .. 5 : p[k] \in Nat
  BY <1>6
<1>8. CoeSums(desc, p)
  BY <1>1, <1>3, <1>7 DEF CoeSums
<1>9. DescriptionLength(desc) = p[5]
  BY <1>1 DEF DescriptionLength, Total, p, w
<1> QED BY <1>8, <1>9 DEF p, w

(* The places of the fields of a description that have been decoded. *)
CoePlaces(desc, p, n) ==
    {Place(CoeOrder[k], p[k - 1], SentBytes(desc, CoeOrder[k]))
       : k \in {i \in 1 .. n : CoeOrder[i] \in Sent(desc)}}

LEMMA FieldTaken ==
    ASSUME NEW desc \in Description, NEW p, CoeSums(desc, p), NEW k \in 1 .. 4
    PROVE  TakeField(desc, p[5], [pos |-> p[k - 1], fields |-> CoePlaces(desc, p, k - 1)], CoeOrder[k])
             = [pos |-> p[k], fields |-> CoePlaces(desc, p, k)]
<1> DEFINE f == CoeOrder[k]
           at == [pos |-> p[k - 1], fields |-> CoePlaces(desc, p, k - 1)]
<1>1. f \in Announced /\ f # "name"
  <2>1. k = 1 \/ k = 2 \/ k = 3 \/ k = 4
    OBVIOUS
  <2>2. /\ CoeOrder[1] = "unit" /\ CoeOrder[2] = "default"
        /\ CoeOrder[3] = "min" /\ CoeOrder[4] = "max"
    BY DEF CoeOrder
  <2> QED BY ONLY <2>1, <2>2, Zenon DEF Announced
<1>2. f \in desc.info <=> f \in Sent(desc)
  BY <1>1 DEF Sent
<1>3. SentBytes(desc, f) = IF f \in desc.info THEN FieldSize(desc, f) ELSE 0
  BY <1>1, <1>2, ValueRounded DEF SentBytes, FieldSize, Announced
<1>4. p[k] \in Nat /\ p[k - 1] \in Nat /\ p[5] \in Nat /\ p[k] = p[k - 1] + SentBytes(desc, f) /\ p[k] <= p[5]
  <2>1. /\ p[1] \in Nat /\ p[2] \in Nat /\ p[3] \in Nat /\ p[4] \in Nat /\ p[5] \in Nat
        /\ \A i \in 1 .. 5 : SentBytes(desc, CoeOrder[i]) \in Nat /\ p[i] = p[i - 1] + SentBytes(desc, CoeOrder[i])
    BY SentBytesNat DEF CoeSums
  <2>2. p[1] <= p[2] /\ p[2] <= p[3] /\ p[3] <= p[4] /\ p[4] <= p[5]
    BY <2>1
  <2>3. k = 1 \/ k = 2 \/ k = 3 \/ k = 4
    OBVIOUS
  <2>4. p[k] <= p[5]
    BY <2>1, <2>2, <2>3
  <2> QED BY <2>1, <2>4 DEF CoeSums
<1>5. CoePlaces(desc, p, k) = CoePlaces(desc, p, k - 1)
         \union (IF f \in Sent(desc) THEN {Place(f, p[k - 1], SentBytes(desc, f))} ELSE {})
  <2>1. {i \in 1 .. k : CoeOrder[i] \in Sent(desc)}
          = {i \in 1 .. k - 1 : CoeOrder[i] \in Sent(desc)} \union (IF f \in Sent(desc) THEN {k} ELSE {})
    OBVIOUS
  <2> QED BY <2>1 DEF CoePlaces
<1> HIDE DEF f
<1>6. CASE f \in desc.info
  <2>1. at.pos + FieldSize(desc, f) = p[k] /\ SentBytes(desc, f) = FieldSize(desc, f)
    BY <1>3, <1>4, <1>6
  <2>2. TakeField(desc, p[5], at, f) = [pos |-> p[k], fields |-> at.fields \union {Place(f, p[k - 1], FieldSize(desc, f))}]
    BY <1>4, <1>6, <2>1 DEF TakeField
  <2> QED BY <1>2, <1>5, <1>6, <2>1, <2>2 DEF f
<1>7. CASE f \notin desc.info
  <2>1. TakeField(desc, p[5], at, f) = at
    BY <1>7 DEF TakeField
  <2>2. p[k] = p[k - 1]
    BY <1>3, <1>4, <1>7
  <2> QED BY <1>2, <1>5, <1>7, <2>1, <2>2 DEF f
<1> QED BY <1>6, <1>7

(* A complete description is decoded where the slave has put its fields.   *)
LEMMA CompleteDecoded ==
    ASSUME NEW desc \in Description
    PROVE  DecodeDescription(desc, DescriptionLength(desc)) = DescriptionLayout(desc)
<1>1. PICK p : p = Running(SentSizes(desc)) /\ CoeSums(desc, p) /\ DescriptionLength(desc) = p[5]
  BY CoeRunning
<1> DEFINE D(k) == [pos |-> p[k], fields |-> CoePlaces(desc, p, k)]
<1>2. D(0) = [pos |-> 0, fields |-> {}]
  BY <1>1 DEF CoeSums, CoePlaces
<1>3. \A k \in 1 .. 4 : TakeField(desc, p[5], D(k - 1), CoeOrder[k]) = D(k)
  BY <1>1, FieldTaken
<1>4. /\ TakeField(desc, p[5], D(0), "unit") = D(1)
      /\ TakeField(desc, p[5], D(1), "default") = D(2)
      /\ TakeField(desc, p[5], D(2), "min") = D(3)
      /\ TakeField(desc, p[5], D(3), "max") = D(4)
  <2>1. /\ CoeOrder[1] = "unit" /\ CoeOrder[2] = "default"
        /\ CoeOrder[3] = "min" /\ CoeOrder[4] = "max"
    BY DEF CoeOrder
  <2>2. /\ TakeField(desc, p[5], D(1 - 1), CoeOrder[1]) = D(1)
        /\ TakeField(desc, p[5], D(2 - 1), CoeOrder[2]) = D(2)
        /\ TakeField(desc, p[5], D(3 - 1), CoeOrder[3]) = D(3)
        /\ TakeField(desc, p[5], D(4 - 1), CoeOrder[4]) = D(4)
    BY <1>3
  <2> QED BY <2>1, <2>2
<1>5. TakenFields(desc, p[5]) = D(4)
  BY ONLY <1>2, <1>4 DEF TakenFields
<1>6. CoePlaces(desc, p, 5) = DescriptionLayout(desc)
  BY <1>1 DEF CoePlaces, DescriptionLayout, LayoutOf, SentSizes, CoeOrder
<1>7. /\ p[5] \in Nat /\ p[4] \in Nat /\ p[5] = p[4] + SentBytes(desc, "name")
      /\ SentBytes(desc, "name") = desc.name /\ desc.name \in Nat
      /\ "name" \in Sent(desc) <=> desc.name > 0
  <2>1. CoeOrder[5] = "name"
    BY DEF CoeOrder
  <2>2. desc.name \in Nat /\ ("name" \in Sent(desc) <=> desc.name > 0)
    BY DEF Description, Announced, Sent
  <2>3. SentBytes(desc, "name") = desc.name
    BY <2>2 DEF SentBytes
  <2> QED BY <1>1, <2>1, <2>2, <2>3 DEF CoeSums
<1>8. CoePlaces(desc, p, 5) = CoePlaces(desc, p, 4)
        \union (IF "name" \in Sent(desc) THEN {Place("name", p[4], SentBytes(desc, "name"))} ELSE {})
  <2>1. CoeOrder[5] = "name"
    BY DEF CoeOrder
  <2>2. {i \in 1 .. 5 : CoeOrder[i] \in Sent(desc)}
          = {i \in 1 .. 4 : CoeOrder[i] \in Sent(desc)} \union (IF "name" \in Sent(desc) THEN {5} ELSE {})
    BY <2>1
  <2> QED BY <2>1, <2>2 DEF CoePlaces
<1>9. DecodeDescription(desc, p[5])
        = IF p[4] < p[5] THEN CoePlaces(desc, p, 4) \union {Place("name", p[4], p[5] - p[4])}
          ELSE CoePlaces(desc, p, 4)
  BY <1>5 DEF DecodeDescription
<1>10. p[4] < p[5] <=> "name" \in Sent(desc)
  BY <1>7
<1>11. p[5] - p[4] = SentBytes(desc, "name")
  BY <1>7
<1> QED BY <1>1, <1>6, <1>8, <1>9, <1>10, <1>11

(* No byte behind the end of a description is read, wherever it ends. *)
Within(at, len) ==
    /\ at.pos \in Nat /\ at.pos <= len
    /\ \A p \in at.fields : p.start + p.length <= len

LEMMA FieldWithin ==
    ASSUME NEW desc \in Description, NEW len \in Nat, NEW at, Within(at, len), NEW f
    PROVE  Within(TakeField(desc, len, at, f), len)
<1>1. FieldSize(desc, f) \in Nat
  BY ValueRounded DEF FieldSize
<1>2. CASE f \in desc.info /\ at.pos + FieldSize(desc, f) <= len
  <2>1. TakeField(desc, len, at, f)
          = [pos |-> at.pos + FieldSize(desc, f),
             fields |-> at.fields \union {Place(f, at.pos, FieldSize(desc, f))}]
    BY <1>2 DEF TakeField
  <2> QED BY <1>1, <1>2, <2>1 DEF Within, Place
<1>3. CASE ~(f \in desc.info /\ at.pos + FieldSize(desc, f) <= len)
  BY <1>3 DEF TakeField
<1> QED BY <1>2, <1>3

LEMMA DecodedWithin ==
    ASSUME NEW desc \in Description, NEW len \in Nat
    PROVE  \A p \in DecodeDescription(desc, len) : p.start + p.length <= len
<1> DEFINE t0 == [pos |-> 0, fields |-> {}]
           t1 == TakeField(desc, len, t0, "unit")
           t2 == TakeField(desc, len, t1, "default")
           t3 == TakeField(desc, len, t2, "min")
           t4 == TakeField(desc, len, t3, "max")
<1>1. Within(t0, len)
  BY DEF Within
<1>2. TakenFields(desc, len) = t4
  BY DEF TakenFields
<1>3. Within(t4, len)
  <2> HIDE DEF t0
  <2>1. Within(t1, len)
    BY <1>1, FieldWithin
  <2> HIDE DEF t1
  <2>2. Within(t2, len)
    BY <2>1, FieldWithin
  <2> HIDE DEF t2
  <2>3. Within(t3, len)
    BY <2>2, FieldWithin
  <2> HIDE DEF t3
  <2> QED BY <2>3, FieldWithin
<1> HIDE DEF t4
<1>4. CASE t4.pos < len
  <2>1. DecodeDescription(desc, len)
          = t4.fields \union {Place("name", t4.pos, len - t4.pos)}
    BY <1>2, <1>4 DEF DecodeDescription
  <2> QED BY <1>3, <1>4, <2>1 DEF Within, Place
<1>5. CASE ~(t4.pos < len)
  <2>1. DecodeDescription(desc, len) = t4.fields
    BY <1>2, <1>5 DEF DecodeDescription
  <2> QED BY <1>3, <2>1 DEF Within
<1> QED BY <1>4, <1>5

-----------------------------------------------------------------------------
(* The answer to a read of an identity number.                             *)

LEMMA ProductGrows ==
    ASSUME NEW a \in Nat, NEW b \in Nat, NEW n \in Nat, a <= b
    PROVE  a * n \in Nat /\ b * n \in Nat /\ a * n <= b * n
<1>1. a * n \in Nat /\ b * n \in Nat /\ (b - a) * n \in Nat
  <2>1. b - a \in Nat
    OBVIOUS
  <2> QED BY <2>1
<1>2. b * n = a * n + (b - a) * n
  OBVIOUS
<1> QED BY <1>1, <1>2

(* An answer fits into the words that are made room for, wherever the      *)
(* number of its values was read from.                                     *)
LEMMA AnswerFits ==
    ASSUME NEW length \in DataLength, NEW n \in Nat
    PROVE  /\ AnswerBytes(length, n) \in Nat
           /\ AnswerWords(length, n) \in Nat
           /\ AnswerBytes(length, n) <= 2 * AnswerWords(length, n)
<1> DEFINE w == (length.size + 1) \div 2
<1>1. length.size \in Nat /\ w \in Nat /\ 2 * w \in Nat /\ length.size <= 2 * w
  BY DEF DataLength
<1> HIDE DEF w
<1>2. /\ length.size * n \in Nat /\ (2 * w) * n \in Nat
      /\ length.size * n <= (2 * w) * n
  BY <1>1, ProductGrows
<1>3. w * n \in Nat /\ (2 * w) * n = 2 * (w * n)
  BY <1>1
<1>4. 4 + length.size * n <= 2 * (4 + w * n)
  BY <1>1, <1>2, <1>3
<1> QED BY <1>1, <1>2, <1>4 DEF AnswerBytes, AnswerWords, w

LEMMA HeaderNat ==
    ASSUME NEW idn \in IdentityNumber, NEW elements, NEW pos
    PROVE  /\ \A f : Header(idn, f) \in Nat
           /\ HeaderAt(idn, elements, pos) \in Nat
<1>1. idn.length.size * idn.count \in Nat
  <2>1. idn.length.size \in Nat \ {0} /\ idn.count \in Nat
    BY DEF IdentityNumber, DataLength
  <2> QED BY <2>1, ProductGrows
<1>2. \A f : Header(idn, f) \in Nat
  BY <1>1 DEF IdentityNumber, Header
<1> QED BY <1>2 DEF HeaderAt

(* The bytes of the fields of an answer. *)
LEMMA WireBytesNat ==
    ASSUME NEW idn \in IdentityNumber, NEW f
    PROVE  WireBytes(idn, f) \in Nat \ {0}
<1>1. /\ Header(idn, f) \in Nat /\ idn.length.size \in Nat \ {0}
  BY HeaderNat DEF IdentityNumber, DataLength
<1> QED BY <1>1 DEF WireBytes

(* Every field of an answer begins where the one before it ends. *)
IdnSums(idn, sent, p) ==
    /\ p \in [0 .. 6 -> Nat] /\ p[0] = 0
    /\ \A k \in 1 .. 6 : p[k] = p[k - 1] + WireSizes(idn, sent)[k]

LEMMA IdnRunning ==
    ASSUME NEW idn \in IdentityNumber, NEW sent
    PROVE  IdnSums(idn, sent, Running(WireSizes(idn, sent)))
<1> DEFINE w == WireSizes(idn, sent)
           p == Running(w)
<1>1. w \in Seq(Int) /\ Len(w) = 6 /\ \A k \in 1 .. 6 : w[k] \in Nat
  BY WireBytesNat DEF WireSizes
<1> HIDE DEF w
<1>2. Sums(w, p)
  BY <1>1, RunningSums
<1> HIDE DEF p
<1>3. p \in [0 .. 6 -> Int] /\ p[0] = 0 /\ \A k \in 1 .. 6 : p[k] = p[k - 1] + w[k]
  BY <1>1, <1>2 DEF Sums
<1>4. /\ p[1] = p[0] + w[1] /\ p[2] = p[1] + w[2] /\ p[3] = p[2] + w[3]
      /\ p[4] = p[3] + w[4] /\ p[5] = p[4] + w[5] /\ p[6] = p[5] + w[6]
  BY <1>3
<1>5. /\ w[1] \in Nat /\ w[2] \in Nat /\ w[3] \in Nat
      /\ w[4] \in Nat /\ w[5] \in Nat /\ w[6] \in Nat
  BY <1>1
<1>6. /\ p[0] \in Nat /\ p[1] \in Nat /\ p[2] \in Nat /\ p[3] \in Nat
      /\ p[4] \in Nat /\ p[5] \in Nat /\ p[6] \in Nat
  BY ONLY <1>3, <1>4, <1>5
<1>7. \A k \in 0 .. 6 : p[k] \in Nat
  BY <1>6
<1> QED BY <1>3, <1>7 DEF IdnSums, p, w

LEMMA IdnGrows ==
    ASSUME NEW idn \in IdentityNumber, NEW sent, NEW p, IdnSums(idn, sent, p)
    PROVE  \A i, j \in 0 .. 6 : i <= j => p[i] <= p[j]
<1>1. /\ p[0] \in Nat /\ p[1] \in Nat /\ p[2] \in Nat /\ p[3] \in Nat
      /\ p[4] \in Nat /\ p[5] \in Nat /\ p[6] \in Nat
  BY DEF IdnSums
<1>2. \A k \in 1 .. 6 : WireSizes(idn, sent)[k] \in Nat
  BY WireBytesNat DEF WireSizes
<1>3. \A k \in 1 .. 6 : p[k - 1] \in Nat /\ p[k - 1] <= p[k]
  BY <1>2 DEF IdnSums
<1>4. /\ p[0] <= p[1] /\ p[1] <= p[2] /\ p[2] <= p[3]
      /\ p[3] <= p[4] /\ p[4] <= p[5] /\ p[5] <= p[6]
  BY <1>3
<1> QED BY <1>1, <1>4

(* Where a field that was sent begins, its header is read. *)
LEMMA HeaderFound ==
    ASSUME NEW idn \in IdentityNumber, NEW sent, NEW k \in 1 .. 6, WireOrder[k] \in sent
    PROVE  LET p == Running(WireSizes(idn, sent))
           IN  HeaderAt(idn, sent, p[k - 1]) = Header(idn, WireOrder[k])
<1>1. PICK p : p = Running(WireSizes(idn, sent)) /\ IdnSums(idn, sent, p)
  BY IdnRunning
<1>2. ASSUME NEW j \in 1 .. 6, WireOrder[j] \in sent
      PROVE  p[j - 1] < p[j] /\ p[j - 1] \in Nat /\ p[j] \in Nat
  <2>1. WireSizes(idn, sent)[j] \in Nat \ {0}
    BY <1>2, WireBytesNat DEF WireSizes
  <2> QED BY <1>1, <2>1 DEF IdnSums
<1>3. ASSUME NEW j \in 1 .. 6, WireOrder[j] \in sent, p[j - 1] = p[k - 1]
      PROVE  j = k
  <2>1. p[j - 1] < p[j] /\ p[k - 1] < p[k] /\ {p[j - 1], p[j], p[k - 1], p[k]} \subseteq Nat
    BY <1>2, <1>3
  <2>2. \A a, b \in 0 .. 6 : a <= b => p[a] <= p[b]
    BY <1>1, IdnGrows
  <2>3. j <= k - 1 => p[j] <= p[k - 1]
    BY <2>2
  <2>4. k <= j - 1 => p[k] <= p[j - 1]
    BY <2>2
  <2> QED BY <1>3, <2>1, <2>3, <2>4
<1> DEFINE P(j) == Place(WireOrder[j], p[j - 1], WireSizes(idn, sent)[j])
           here == {x \in IdnLayout(idn, sent) : x.start = p[k - 1]}
<1>4. IdnLayout(idn, sent) = {P(j) : j \in {i \in 1 .. 6 : WireOrder[i] \in sent}}
  BY <1>1 DEF IdnLayout, LayoutOf, WireOrder
<1>5. \A j : P(j).start = p[j - 1] /\ P(j).field = WireOrder[j]
  BY DEF Place
<1> HIDE DEF P
<1>6. here = {P(k)}
  BY <1>3, <1>4, <1>5
<1> HIDE DEF here
<1>7. here # {} /\ (CHOOSE x \in here : TRUE) = P(k)
  BY <1>6
<1>8. HeaderAt(idn, sent, p[k - 1]) = Header(idn, (CHOOSE x \in here : TRUE).field)
  BY <1>7 DEF HeaderAt, here
<1> QED BY <1>1, <1>5, <1>7, <1>8

(* The places of the first n fields of an answer. *)
IdnPlaces(idn, sent, n) ==
    {Place(WireOrder[k], Running(WireSizes(idn, sent))[k - 1], WireSizes(idn, sent)[k])
       : k \in {i \in 1 .. n : WireOrder[i] \in sent}}

IdnAt(idn, sent, at, n) ==
    /\ at.pos = Running(WireSizes(idn, sent))[n]
    /\ at.fields = IdnPlaces(idn, sent, n)
    /\ n >= 2 => at.attr = idn.length

(* The length that an element has in front of it gives its own bytes, for  *)
(* a list if its length is the count of its values.                        *)
LEMMA BytesTaken ==
    ASSUME NEW idn \in IdentityNumber, NEW k \in 1 .. 6, NEW f \in Elements,
           Member(f) = WireOrder[k], NEW attr, k >= 3 => attr = idn.length
    PROVE  /\ (k \in 4 .. 6 => ~LongList(idn)) =>
                TakenBytes(attr, f, Header(idn, WireOrder[k])) = WireBytes(idn, WireOrder[k])
           /\ f = "attr" <=> k = 2
           /\ k = 2 => WireOrder[k] = "attr"
<1>1. /\ WireOrder[1] = "name" /\ WireOrder[2] = "attr" /\ WireOrder[3] = "unit"
      /\ WireOrder[4] = "min" /\ WireOrder[5] = "max" /\ WireOrder[6] = "data"
  BY DEF WireOrder
<1>2. /\ k = 1 => WireOrder[k] = "name" /\ f = "name"
      /\ k = 2 => WireOrder[k] = "attr" /\ f = "attr"
      /\ k = 3 => WireOrder[k] = "unit" /\ f = "unit"
      /\ k \in 4 .. 6 => WireOrder[k] \in {"min", "max", "data"} /\ f \in {"min", "max", "data"}
  BY <1>1 DEF Member, Elements
<1> DEFINE g == WireOrder[k]
           n == Header(idn, g)
<1>3. f = "attr" <=> k = 2
  BY <1>2
<1>4. CASE k = 1 \/ k = 3
  <2>1. g \in {"name", "unit"} /\ f \in {"name", "unit"}
    BY <1>2, <1>4
  <2> HIDE DEF g, n
  <2>2. TakenBytes(attr, f, n) = 4 + n
    BY <2>1 DEF TakenBytes
  <2>3. WireBytes(idn, g) = 4 + n
    BY <2>1 DEF WireBytes, Valued, n
  <2> QED BY <1>3, <1>4, <2>2, <2>3 DEF n, g
<1>5. CASE k = 2
  <2>1. g = "attr" /\ f = "attr"
    BY <1>2, <1>5
  <2> HIDE DEF g, n
  <2>2. TakenBytes(attr, f, n) = 4
    BY <2>1 DEF TakenBytes
  <2>3. WireBytes(idn, g) = 4
    BY <2>1 DEF WireBytes, Valued
  <2> QED BY <1>3, <1>5, <2>1, <2>2, <2>3 DEF n, g
<1>6. CASE k \in 4 .. 6
  <2>1. g \in {"min", "max", "data"} /\ f \in {"min", "max", "data"} /\ attr = idn.length
    BY <1>2, <1>6
  <2> HIDE DEF g, n
  <2>2. n = idn.length.size * idn.count
    BY <2>1 DEF Header, n
  <2>3. TakenBytes(attr, f, n) = AnswerBytes(idn.length, n)
    BY <2>1 DEF TakenBytes
  <2>4. WireBytes(idn, g) = IF idn.length.fix THEN idn.length.size ELSE 4 + n
    BY <2>1 DEF WireBytes, Valued, n
  <2>5. ~LongList(idn) /\ ~idn.length.fix => idn.length.size * n = n
    <3>1. PICK a, b : a = idn.length.size /\ b = idn.count /\ a \in Nat \ {0} /\ b \in Nat
      BY DEF IdentityNumber, DataLength
    <3>2. ~LongList(idn) /\ ~idn.length.fix => a = 1 \/ b = 0
      BY <3>1 DEF LongList
    <3>3. a = 1 \/ b = 0 => a * (a * b) = a * b
      BY <3>1
    <3> QED BY ONLY <2>2, <3>1, <3>2, <3>3
  <2>6. ~LongList(idn) => AnswerBytes(idn.length, n)
                            = IF idn.length.fix THEN idn.length.size ELSE 4 + n
    BY <2>5 DEF AnswerBytes
  <2> QED BY <1>3, <1>6, <2>3, <2>4, <2>6 DEF n, g
<1> QED BY <1>4, <1>5, <1>6

(* A step of the cascade takes the field of the answer it stands at, which *)
(* is the one whose member it fills.                                       *)
LEMMA ElementTaken ==
    ASSUME NEW idn \in IdentityNumber, NEW sent, "attr" \in sent, NEW k \in 1 .. 6,
           NEW f \in Elements, Member(f) = WireOrder[k],
           f \in sent <=> WireOrder[k] \in sent,
           LongList(idn) => sent \intersect Valued = {},
           NEW at, IdnAt(idn, sent, at, k - 1)
    PROVE  IdnAt(idn, sent, TakeElement(idn, sent, at, f), k)
<1>1. PICK p : p = Running(WireSizes(idn, sent)) /\ IdnSums(idn, sent, p)
  BY IdnRunning
<1> DEFINE g == WireOrder[k]
           s == WireSizes(idn, sent)[k]
           t == TakeElement(idn, sent, at, f)
<1>2. p[k] = p[k - 1] + s /\ p[k - 1] \in Nat /\ s \in Nat
  <2>1. s \in Nat
    BY WireBytesNat DEF WireSizes
  <2> QED BY <1>1, <2>1 DEF IdnSums
<1>3. s = IF g \in sent THEN WireBytes(idn, g) ELSE 0
  BY DEF WireSizes
<1>4. IdnPlaces(idn, sent, k) = IdnPlaces(idn, sent, k - 1)
        \union (IF g \in sent THEN {Place(g, p[k - 1], s)} ELSE {})
  <2>1. {i \in 1 .. k : WireOrder[i] \in sent}
          = {i \in 1 .. k - 1 : WireOrder[i] \in sent} \union (IF g \in sent THEN {k} ELSE {})
    OBVIOUS
  <2> QED BY <1>1, <2>1 DEF IdnPlaces
<1>5. at.pos = p[k - 1] /\ at.fields = IdnPlaces(idn, sent, k - 1)
      /\ (k >= 3 => at.attr = idn.length)
  BY <1>1 DEF IdnAt
<1>6. /\ f = "attr" <=> k = 2
      /\ k = 2 => g = "attr"
      /\ g \in sent => TakenBytes(at.attr, f, Header(idn, g)) = WireBytes(idn, g)
  <2>1. k \in 4 .. 6 => g \in Valued
    BY DEF WireOrder, Valued
  <2>2. g \in sent /\ k \in 4 .. 6 => ~LongList(idn)
    BY <2>1
  <2> HIDE DEF g
  <2> QED BY <1>5, <2>2, BytesTaken DEF g
<1>7. CASE g \in sent
  <2> DEFINE n == HeaderAt(idn, sent, at.pos)
             bytes == TakenBytes(at.attr, f, n)
  <2>1. n = Header(idn, g)
    BY <1>1, <1>5, <1>7, HeaderFound
  <2>2. bytes = s
    BY <1>3, <1>6, <1>7, <2>1
  <2>3. t = TakeAnswered(idn, at, f, n)
    BY <1>7 DEF TakeElement
  <2> HIDE DEF t, n
  <2>4. /\ t.pos = at.pos + bytes
        /\ t.fields = at.fields \union {Place(Member(f), at.pos, bytes)}
        /\ t.attr = IF f = "attr" THEN idn.length ELSE at.attr
    BY <2>3 DEF TakeAnswered
  <2> HIDE DEF bytes
  <2>5. t.pos = p[k]
    BY <1>2, <1>5, <2>2, <2>4
  <2>6. t.fields = IdnPlaces(idn, sent, k)
    BY <1>4, <1>5, <1>7, <2>2, <2>4
  <2>7. k >= 2 => t.attr = idn.length
    BY <1>5, <1>6, <2>4
  <2> QED BY <1>1, <2>5, <2>6, <2>7 DEF IdnAt, t
<1>8. CASE g \notin sent
  <2>1. t = at /\ s = 0
    BY <1>3, <1>8 DEF TakeElement
  <2>2. k # 2
    BY <1>6, <1>8
  <2>3. p[k] = p[k - 1] /\ (k >= 2 => k >= 3)
    BY <1>2, <2>1, <2>2
  <2> QED BY <1>1, <1>4, <1>5, <1>8, <2>1, <2>3 DEF IdnAt
<1> QED BY <1>7, <1>8

(* Whatever attribute the caller passes in, an answer without a long list  *)
(* is taken apart where the slave has put its fields.                      *)
LEMMA IdnPlaced ==
    ASSUME NEW idn \in IdentityNumber, NEW elements \in SUBSET Elements, NEW attr,
           "min" \in elements <=> "max" \in elements,
           LongList(idn) => elements \intersect Valued = {}
    PROVE  DecodeIdn(idn, Asked(elements), attr).fields = IdnLayout(idn, Asked(elements))
<1> DEFINE sent == Asked(elements)
           t0 == [pos |-> 0, attr |-> attr, fields |-> {}, small |-> {}]
           t1 == TakeElement(idn, sent, t0, "name")
           t2 == TakeElement(idn, sent, t1, "attr")
           t3 == TakeElement(idn, sent, t2, "unit")
           t4 == TakeElement(idn, sent, t3, "max")
           t5 == TakeElement(idn, sent, t4, "min")
           t6 == TakeElement(idn, sent, t5, "data")
<1>1. DecodeIdn(idn, sent, attr) = t6
  BY DEF DecodeIdn
<1>2. /\ "attr" \in sent /\ ("min" \in sent <=> "max" \in sent)
      /\ LongList(idn) => sent \intersect Valued = {}
  BY DEF Asked, Valued
<1>3. /\ Member("name") = "name" /\ Member("attr") = "attr" /\ Member("unit") = "unit"
      /\ Member("max") = "min" /\ Member("min") = "max" /\ Member("data") = "data"
  BY DEF Member
<1>4. /\ WireOrder[1] = "name" /\ WireOrder[2] = "attr" /\ WireOrder[3] = "unit"
      /\ WireOrder[4] = "min" /\ WireOrder[5] = "max" /\ WireOrder[6] = "data"
  BY DEF WireOrder
<1>5. \A x : x \in {"name", "attr", "unit", "max", "min", "data"} => x \in Elements
  BY DEF Elements
<1> HIDE DEF sent
<1>6. IdnAt(idn, sent, t0, 0)
  <2>1. Running(WireSizes(idn, sent))[0] = 0
    BY IdnRunning DEF IdnSums
  <2> QED BY <2>1 DEF IdnAt, IdnPlaces
<1> HIDE DEF t0
<1>7. IdnAt(idn, sent, t1, 1)
  <2>1. IdnAt(idn, sent, t0, 1 - 1)
    BY <1>6
  <2> QED BY <1>2, <1>3, <1>4, <1>5, <2>1, ElementTaken
<1> HIDE DEF t1
<1>8. IdnAt(idn, sent, t2, 2)
  <2>1. IdnAt(idn, sent, t1, 2 - 1)
    BY <1>7
  <2> QED BY <1>2, <1>3, <1>4, <1>5, <2>1, ElementTaken
<1> HIDE DEF t2
<1>9. IdnAt(idn, sent, t3, 3)
  <2>1. IdnAt(idn, sent, t2, 3 - 1)
    BY <1>8
  <2> QED BY <1>2, <1>3, <1>4, <1>5, <2>1, ElementTaken
<1> HIDE DEF t3
<1>10. IdnAt(idn, sent, t4, 4)
  <2>1. IdnAt(idn, sent, t3, 4 - 1)
    BY <1>9
  <2> QED BY <1>2, <1>3, <1>4, <1>5, <2>1, ElementTaken
<1> HIDE DEF t4
<1>11. IdnAt(idn, sent, t5, 5)
  <2>1. IdnAt(idn, sent, t4, 5 - 1)
    BY <1>10
  <2> QED BY <1>2, <1>3, <1>4, <1>5, <2>1, ElementTaken
<1> HIDE DEF t5
<1>12. IdnAt(idn, sent, t6, 6)
  <2>1. IdnAt(idn, sent, t5, 6 - 1)
    BY <1>11
  <2> QED BY <1>2, <1>3, <1>4, <1>5, <2>1, ElementTaken
<1> HIDE DEF t6
<1>13. IdnPlaces(idn, sent, 6) = IdnLayout(idn, sent)
  BY DEF IdnPlaces, IdnLayout, LayoutOf, WireOrder
<1> QED BY <1>1, <1>12, <1>13 DEF IdnAt, sent

(* And no vector is too small for the bytes that are copied into it.       *)
Fitting(at) == at.attr \in DataLength /\ at.small = {}

LEMMA ElementFits ==
    ASSUME NEW idn \in IdentityNumber, NEW sent, NEW at, Fitting(at), NEW f
    PROVE  Fitting(TakeElement(idn, sent, at, f))
<1> DEFINE n == HeaderAt(idn, sent, at.pos)
           t == TakeElement(idn, sent, at, f)
<1>1. n \in Nat /\ idn.length \in DataLength
  BY HeaderNat DEF IdentityNumber
<1>2. AnswerBytes(at.attr, n) \in Nat /\ AnswerWords(at.attr, n) \in Nat
      /\ AnswerBytes(at.attr, n) <= 2 * AnswerWords(at.attr, n)
  BY <1>1, AnswerFits DEF Fitting
<1> HIDE DEF n
<1>3. ~TooSmall(at.attr, f, n)
  BY <1>2 DEF TooSmall
<1>4. CASE f \notin sent
  BY <1>4 DEF TakeElement
<1>5. CASE f \in sent
  <2>1. t = TakeAnswered(idn, at, f, n)
    BY <1>5 DEF TakeElement, n
  <2> HIDE DEF t
  <2>2. /\ t.attr = IF f = "attr" THEN idn.length ELSE at.attr
        /\ t.small = at.small \union (IF TooSmall(at.attr, f, n) THEN {Member(f)} ELSE {})
    BY <2>1 DEF TakeAnswered
  <2>3. Fitting(t)
    BY <1>1, <1>3, <2>2 DEF Fitting
  <2> QED BY <2>3 DEF t
<1> QED BY <1>4, <1>5

LEMMA IdnFits ==
    ASSUME NEW idn \in IdentityNumber, NEW sent, NEW attr \in DataLength
    PROVE  DecodeIdn(idn, sent, attr).small = {}
<1> DEFINE t0 == [pos |-> 0, attr |-> attr, fields |-> {}, small |-> {}]
           t1 == TakeElement(idn, sent, t0, "name")
           t2 == TakeElement(idn, sent, t1, "attr")
           t3 == TakeElement(idn, sent, t2, "unit")
           t4 == TakeElement(idn, sent, t3, "max")
           t5 == TakeElement(idn, sent, t4, "min")
           t6 == TakeElement(idn, sent, t5, "data")
<1>1. DecodeIdn(idn, sent, attr) = t6
  BY DEF DecodeIdn
<1>2. \A x : x \in {"name", "attr", "unit", "max", "min", "data"} => x \in Elements
  BY DEF Elements
<1>3. Fitting(t0)
  BY DEF Fitting
<1> HIDE DEF t0
<1>4. Fitting(t1)
  BY <1>2, <1>3, ElementFits
<1> HIDE DEF t1
<1>5. Fitting(t2)
  BY <1>2, <1>4, ElementFits
<1> HIDE DEF t2
<1>6. Fitting(t3)
  BY <1>2, <1>5, ElementFits
<1> HIDE DEF t3
<1>7. Fitting(t4)
  BY <1>2, <1>6, ElementFits
<1> HIDE DEF t4
<1>8. Fitting(t5)
  BY <1>2, <1>7, ElementFits
<1> HIDE DEF t5
<1>9. Fitting(t6)
  BY <1>2, <1>8, ElementFits
<1> QED BY <1>1, <1>9 DEF Fitting

-----------------------------------------------------------------------------
(* What the decoders return to their callers.                              *)

(* A description or an identity number that is returned is what the        *)
(* cascades make of the answer.                                            *)
Decoded(c) ==
    /\ Returned(c, "describe") =>
         /\ offset[c] \in 0 .. DescriptionLength(req[c].desc)
         /\ result[c] = DecodeDescription(req[c].desc, offset[c])
    /\ Returned(c, "idn") =>
         result[c] = DecodeIdn(req[c].idn, Asked(req[c].elements), req[c].attr)

AllDecoded == \A c \in Clients : Decoded(c)

DecodedInv == ServiceInv /\ AllDecoded

LEMMA DecodedServed ==
    ASSUME ServiceInv, NEW c \in Clients, Memory(c) \/ Mailbox(c)
    PROVE  Decoded(c)'
<1> USE DEF ServiceInv
<1>1. CASE DescribeElement(c)
  <2>1. PICK len \in 0 .. DescriptionLength(req[c].desc) :
          /\ offset' = [offset EXCEPT ![c] = len]
          /\ result' = [result EXCEPT ![c] = DecodeDescription(req[c].desc, len)]
    BY <1>1 DEF DescribeElement
  <2>2. req[c].op = "describe" /\ req' = req
    BY <1>1 DEF DescribeElement, Busy
  <2>3. offset'[c] = len /\ result'[c] = DecodeDescription(req[c].desc, len)
    BY <2>1 DEF TypeOK
  <2> QED BY <2>2, <2>3 DEF Decoded, Returned
<1>2. CASE ReadIdn(c)
  <2>1. /\ req[c].op = "idn" /\ req' = req
        /\ result'[c] = DecodeIdn(req[c].idn, Asked(req[c].elements), req[c].attr)
    BY <1>2 DEF ReadIdn, Busy, TypeOK
  <2> QED BY <2>1 DEF Decoded, Returned
<1>3. CASE LibraryFails(c)
  <2>1. pc'[c] = "thrown"
    BY <1>3 DEF LibraryFails, Leave, TypeOK
  <2> QED BY <2>1 DEF Decoded, Returned
<1>4. CASE RetryList(c)
  <2>1. req' = req
    BY <1>4 DEF RetryList
  <2>2. req[c].op = "list"
    BY <1>4 DEF RetryList, ClientInv, Untouched
  <2> QED BY <2>1, <2>2 DEF Decoded, Returned
<1>5. CASE Memory(c) \/ ReadList(c) \/ ReadElement(c) \/ WriteElement(c)
              \/ PopEmergency(c) \/ ReadFile(c) \/ WriteFile(c) \/ FailSilently(c)
  <2>1. req' = req
    BY <1>5 DEF Memory, ReadChunk, WriteChunk, LoseChunk, Advance, ReadEeprom, WriteEeprom,
                ReadList, ReadElement, WriteElement, PopEmergency, ReadFile, WriteFile,
                FailSilently
  <2>2. req[c].op \notin {"describe", "idn"}
    BY <1>5 DEF Memory, ReadChunk, WriteChunk, LoseChunk, ReadEeprom, WriteEeprom, Busy,
                ReadList, ReadElement, WriteElement, PopEmergency, ReadFile, WriteFile,
                FailSilently
  <2> QED BY <2>1, <2>2 DEF Decoded, Returned
<1> QED BY <1>1, <1>2, <1>3, <1>4, <1>5 DEF Mailbox

LEMMA DecodedApart ==
    ASSUME NEW e \in Clients, Decoded(e), Apart(e) PROVE Decoded(e)'
BY DEF Decoded, Returned, Apart

LEMMA DecodedStep ==
    ASSUME ServiceInv, NEW e \in Clients, Decoded(e), [Next]_vars PROVE Decoded(e)'
<1> USE DEF ServiceInv
<1>1. CASE UNCHANGED vars
  BY <1>1, DecodedApart DEF vars, call, Apart
<1>2. CASE SlaveChanges
  BY <1>2, DecodedApart DEF SlaveChanges, call, Apart
<1>3. ASSUME NEW c \in Clients, Memory(c) \/ Mailbox(c) PROVE Decoded(e)'
  <2>1. CASE e = c
    BY <1>3, <2>1, DecodedServed
  <2>2. CASE e # c
    BY <1>3, <2>2, MemoryApart, MailboxApart, DecodedApart
  <2> QED BY <2>1, <2>2
<1>4. ASSUME NEW c \in Clients, NEW r \in Requests[work], Ask(c, r) PROVE Decoded(e)'
  <2>1. CASE e = c
    <3>1. pc'[c] = "busy"
      BY <1>4 DEF Ask, Leave, TypeOK
    <3> QED BY <2>1, <3>1 DEF Decoded, Returned
  <2>2. CASE e # c
    BY <1>4, <2>2, DecodedApart DEF Ask, Leave, Apart, TypeOK
  <2> QED BY <2>1, <2>2
<1>5. ASSUME NEW c \in Clients, Done(c) PROVE Decoded(e)'
  <2>1. CASE e = c
    <3>1. pc'[c] = "idle"
      BY <1>5 DEF Done, Leave, TypeOK
    <3> QED BY <2>1, <3>1 DEF Decoded, Returned
  <2>2. CASE e # c
    BY <1>5, <2>2, DecodedApart DEF Done, Leave, Apart, TypeOK
  <2> QED BY <2>1, <2>2
<1> QED BY <1>1, <1>2, <1>3, <1>4, <1>5 DEF Next

LEMMA DecodedKept == Spec => []DecodedInv
<1>1. Init => AllDecoded
  BY DEF Init, AllDecoded, Decoded, Returned
<1>2. ServiceInv /\ AllDecoded /\ [Next]_vars => AllDecoded'
  BY DecodedStep DEF AllDecoded
<1>3. ServiceInv /\ AllDecoded => DecodedInv
  BY DEF DecodedInv
<1> QED BY ServicesKept, <1>1, <1>2, <1>3, PTL DEF Spec

(* An element description is taken apart where the slave has put its       *)
(* fields, for values of any number of bits and names of any length, and a *)
(* description that ends early is not read behind its end                  *)
(* (slave_canopen_protocol.cpp:313-361).                                   *)
THEOREM DescriptionsDecoded == Spec => []DescriptionDecoded
<1>1. DecodedInv => DescriptionDecoded
  <2> SUFFICES ASSUME DecodedInv, NEW c \in Clients, Returned(c, "describe")
               PROVE  /\ offset[c] = DescriptionLength(req[c].desc) =>
                           result[c] = DescriptionLayout(req[c].desc)
                      /\ \A p \in result[c] : p.start + p.length <= offset[c]
    BY DEF DescriptionDecoded
  <2>1. PICK desc : desc = req[c].desc /\ desc \in Description
    BY RequestForms DEF DecodedInv, ServiceInv, Returned
  <2>2. offset[c] \in 0 .. DescriptionLength(desc)
        /\ result[c] = DecodeDescription(desc, offset[c])
    BY <2>1 DEF DecodedInv, AllDecoded, Decoded
  <2>3. offset[c] \in Nat
    BY <2>2
  <2> QED BY ONLY <2>1, <2>2, <2>3, CompleteDecoded, DecodedWithin
<1> QED BY DecodedKept, <1>1, PTL

(* The elements of an identity number are found in the answer, for values  *)
(* and names of any length, lists of bytes and empty ones, and whatever    *)
(* attribute the caller's structure still holds; and every element, long   *)
(* lists as well, is copied into a vector that is large enough             *)
(* (slave.cpp:987-1086).                                                   *)
THEOREM IdnsDecoded == Spec => []IdnDecoded
<1>1. DecodedInv => IdnDecoded
  <2> SUFFICES ASSUME DecodedInv, NEW c \in Clients, Returned(c, "idn")
               PROVE  /\ result[c].small = {}
                      /\ ("min" \in req[c].elements <=> "max" \in req[c].elements)
                           /\ (LongList(req[c].idn) => req[c].elements \intersect Valued = {}) =>
                           result[c].fields = IdnLayout(req[c].idn, Asked(req[c].elements))
    BY DEF IdnDecoded
  <2>1. PICK idn, elements, attr :
          /\ idn = req[c].idn /\ elements = req[c].elements /\ attr = req[c].attr
          /\ idn \in IdentityNumber /\ elements \in SUBSET Elements /\ attr \in DataLength
    BY RequestForms DEF DecodedInv, ServiceInv, Returned
  <2>2. result[c] = DecodeIdn(idn, Asked(elements), attr)
    BY <2>1 DEF DecodedInv, AllDecoded, Decoded
  <2>3. result[c].small = {}
    BY ONLY <2>1, <2>2, IdnFits
  <2>4. ("min" \in elements <=> "max" \in elements)
          /\ (LongList(idn) => elements \intersect Valued = {}) =>
          result[c].fields = IdnLayout(idn, Asked(elements))
    BY ONLY <2>1, <2>2, IdnPlaced
  <2> QED BY <2>1, <2>3, <2>4
<1> QED BY DecodedKept, <1>1, PTL

=============================================================================
