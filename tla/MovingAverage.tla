--------------------------- MODULE MovingAverage ---------------------------
(***************************************************************************)
(* The class moving_average of master.h: a ring buffer with a running sum. *)
(* An average is a record of the class's members; the ring is as long as   *)
(* the buffer it was constructed with.                                     *)
(***************************************************************************)
EXTENDS Integers

NewAverage(n) == [buffer |-> [i \in 0 .. n - 1 |-> 0], sum |-> 0, pos |-> 0,
                  count |-> 0]

Capacity(n) == n

Full(a, n) == a.count = Capacity(n)

(* Mutant: the sample that drops out stays in the sum. *)
AddSampleSumOnly(a, n, v) ==
    [buffer |-> [a.buffer EXCEPT ![a.pos] = v],
     sum    |-> a.sum + v,
     pos    |-> (a.pos + 1) % Capacity(n),
     count  |-> IF Full(a, n) THEN a.count ELSE a.count + 1]

(* add() without its result. *)
AddSample(a, n, v) ==
    [buffer |-> [a.buffer EXCEPT ![a.pos] = v],
     sum    |-> (IF Full(a, n) THEN a.sum - a.buffer[a.pos] ELSE a.sum) + v,
     pos    |-> (a.pos + 1) % Capacity(n),
     count  |-> IF Full(a, n) THEN a.count ELSE a.count + 1]

(* Integer division of C++ truncates. *)
Quotient(x, y) == IF x >= 0 THEN x \div y ELSE -((-x) \div y)

(* The result of add(). *)
Average(a) == Quotient(a.sum, a.count)

(* Mutant: the ring starts over, the running sum does not. *)
ResetKeepsSum(a) == [a EXCEPT !.pos = 0, !.count = 0]

(* The buffer keeps its samples. *)
Reset(a) == [a EXCEPT !.sum = 0, !.pos = 0, !.count = 0]

=============================================================================
