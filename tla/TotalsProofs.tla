--------------------------- MODULE TotalsProofs ----------------------------
(***************************************************************************)
(* Facts about sums of sequences, for sequences of every length.           *)
(***************************************************************************)
EXTENDS Totals, SequenceTheorems, WellFoundedInduction, TLAPS

(* Induction over a sequence is by a least counterexample.                 *)

Below == {ss \in Nat \X Nat : ss[1] < ss[2]}

LEMMA LeastElement ==
    ASSUME NEW T \in SUBSET Nat, T # {}
    PROVE  \E x \in T : \A y \in T : x <= y
<1>1. IsWellFoundedOn(Below, Nat)
  BY NatLessThanWellFounded, Zenon DEF OpToRel, Below
<1>2. PICK x \in T : \A y \in T : <<y, x>> \notin Below
  BY <1>1, WFMin, Zenon
<1>3. ASSUME NEW y \in T, y < x PROVE FALSE
  <2>1. <<y, x>> \in Below
    BY <1>3 DEF Below
  <2> QED BY <1>2, <2>1
<1> QED BY <1>3

(* p holds the sums of the first samples of w. *)
Sums(w, p) ==
    /\ p \in [0 .. Len(w) -> Int] /\ p[0] = 0
    /\ \A i \in 1 .. Len(w) : p[i] = p[i - 1] + w[i]

IsUpTo(w, g) == g = [i \in 0 .. Len(w) |-> IF i = 0 THEN 0 ELSE g[i - 1] + w[i]]

LEMMA SumsRunning ==
    ASSUME NEW w \in Seq(Int), NEW p, Sums(w, p)
    PROVE  Running(w) = p
<1>1. Running(w) = CHOOSE g : IsUpTo(w, g)
  BY DEF Running, IsUpTo
<1>2. IsUpTo(w, p)
  BY DEF Sums, IsUpTo
<1>3. PICK g : g = (CHOOSE x : IsUpTo(w, x)) /\ IsUpTo(w, g)
  BY <1>2
<1>4. Len(w) \in Nat
  OBVIOUS
<1> DEFINE T == {i \in 0 .. Len(w) : g[i] # p[i]}
<1>5. CASE T = {}
  <2>1. DOMAIN g = 0 .. Len(w) /\ \A i \in 0 .. Len(w) : g[i] = p[i]
    BY <1>3, <1>5 DEF IsUpTo
  <2> QED BY <1>1, <1>3, <2>1 DEF Sums, IsUpTo
<1>6. CASE T # {}
  <2>1. PICK i \in T : \A j \in T : i <= j
    <3>1. T \in SUBSET Nat
      BY <1>4
    <3> QED BY <1>6, <3>1, LeastElement
  <2>2. i # 0
    BY <1>3, <2>1 DEF IsUpTo, Sums
  <2>3. i \in 1 .. Len(w) /\ i - 1 \in 0 .. Len(w) /\ i - 1 \notin T
    BY <1>4, <2>1, <2>2
  <2>4. g[i] = g[i - 1] + w[i]
    BY <1>3, <2>2, <2>3 DEF IsUpTo
  <2> QED BY <2>1, <2>3, <2>4 DEF Sums
<1> QED BY <1>5, <1>6

LEMMA SumsTotal ==
    ASSUME NEW w \in Seq(Int), NEW p, Sums(w, p)
    PROVE  Total(w) = p[Len(w)]
BY SumsRunning DEF Total

LEMMA SumsAppend ==
    ASSUME NEW w \in Seq(Int), NEW p, Sums(w, p), NEW v \in Int
    PROVE  LET q == [i \in 0 .. Len(w) + 1 |-> IF i <= Len(w) THEN p[i] ELSE p[Len(w)] + v]
           IN  Sums(Append(w, v), q) /\ q[Len(w) + 1] = p[Len(w)] + v
<1> DEFINE u == Append(w, v)
           q == [i \in 0 .. Len(w) + 1 |-> IF i <= Len(w) THEN p[i] ELSE p[Len(w)] + v]
<1>1. /\ Len(w) \in Nat /\ u \in Seq(Int) /\ Len(u) = Len(w) + 1
      /\ u[Len(w) + 1] = v /\ \A i \in 1 .. Len(w) : u[i] = w[i]
  OBVIOUS
<1> HIDE DEF u
<1>2. q \in [0 .. Len(u) -> Int] /\ q[0] = 0 /\ q[Len(w) + 1] = p[Len(w)] + v
  <2>1. p[0] = 0 /\ \A i \in 0 .. Len(w) : p[i] \in Int
    BY DEF Sums
  <2>2. \A i \in 0 .. Len(w) + 1 : q[i] \in Int
    BY <1>1, <2>1
  <2>3. q[0] = 0
    BY <1>1, <2>1
  <2>4. q[Len(w) + 1] = p[Len(w)] + v
    BY <1>1
  <2> QED BY <1>1, <2>2, <2>3, <2>4
<1>3. ASSUME NEW i \in 1 .. Len(u) PROVE q[i] = q[i - 1] + u[i]
  <2>1. i - 1 \in 0 .. Len(w) /\ i \in 0 .. Len(w) + 1 /\ q[i - 1] = p[i - 1]
    BY <1>1
  <2>2. CASE i <= Len(w)
    <3>1. i \in 1 .. Len(w) /\ q[i] = p[i] /\ u[i] = w[i]
      BY <1>1, <2>2
    <3> QED BY <2>1, <3>1 DEF Sums
  <2>3. CASE i > Len(w)
    <3>1. i = Len(w) + 1 /\ i - 1 = Len(w)
      BY <1>1, <2>3
    <3>2. q[i] = p[Len(w)] + v /\ u[i] = v
      BY <1>1, <3>1
    <3> QED BY <2>1, <3>1, <3>2
  <2> QED BY <1>1, <2>2, <2>3
<1> QED BY <1>2, <1>3 DEF Sums, u

LEMMA SumsExist == ASSUME NEW w \in Seq(Int) PROVE \E p : Sums(w, p)
<1> DEFINE T == {n \in Nat : \E s \in Seq(Int) : Len(s) = n /\ ~\E p : Sums(s, p)}
<1>1. CASE T = {}
  BY <1>1
<1>2. CASE T # {}
  <2>1. PICK n \in T : \A m \in T : n <= m
    BY <1>2, LeastElement
  <2>2. PICK s \in Seq(Int) : Len(s) = n /\ ~\E p : Sums(s, p)
    BY <2>1
  <2>3. n # 0
    <3>1. Len(s) = 0 => Sums(s, [i \in 0 .. 0 |-> 0])
      BY DEF Sums
    <3> QED BY <2>2, <3>1
  <2> DEFINE f == [i \in 1 .. n - 1 |-> s[i]]
  <2>4. f \in Seq(Int) /\ Len(f) = n - 1 /\ n \in Nat /\ s[n] \in Int /\ s = Append(f, s[n])
    BY <2>1, <2>2, <2>3
  <2> HIDE DEF f
  <2>5. n - 1 \notin T
    BY <2>1, <2>3
  <2>6. PICK p : Sums(f, p)
    BY <2>3, <2>4, <2>5
  <2>7. \E q : Sums(Append(f, s[n]), q)
    BY <2>4, <2>6, SumsAppend
  <2> QED BY <2>2, <2>4, <2>7
<1> QED BY <1>1, <1>2

(* What the running sums are, and that an element at the end leaves those  *)
(* before it alone.                                                        *)
LEMMA RunningSums == ASSUME NEW w \in Seq(Int) PROVE Sums(w, Running(w))
BY SumsExist, SumsRunning

LEMMA RunningAppend ==
    ASSUME NEW w \in Seq(Int), NEW v \in Int
    PROVE  \A i \in 0 .. Len(w) : Running(Append(w, v))[i] = Running(w)[i]
<1>1. PICK p : Sums(w, p)
  BY SumsExist
<1> DEFINE q == [i \in 0 .. Len(w) + 1 |-> IF i <= Len(w) THEN p[i] ELSE p[Len(w)] + v]
<1>2. Sums(Append(w, v), q)
  BY <1>1, SumsAppend
<1>3. Running(Append(w, v)) = q /\ Running(w) = p
  <2> HIDE DEF q
  <2>1. Append(w, v) \in Seq(Int)
    OBVIOUS
  <2> QED BY <1>1, <1>2, <2>1, SumsRunning
<1>4. Len(w) \in Nat
  OBVIOUS
<1> QED BY <1>3, <1>4

LEMMA TotalEmpty == Total(<< >>) = 0
<1>1. << >> \in Seq(Int) /\ Sums(<< >>, [i \in 0 .. 0 |-> 0])
  BY DEF Sums
<1> QED BY <1>1, SumsTotal

LEMMA TotalAppend ==
    ASSUME NEW w \in Seq(Int), NEW v \in Int
    PROVE  Total(w) \in Int /\ Total(Append(w, v)) = Total(w) + v
<1>1. PICK p : Sums(w, p)
  BY SumsExist
<1>2. Total(w) = p[Len(w)] /\ Total(w) \in Int
  BY <1>1, SumsTotal DEF Sums
<1>3. PICK q : Sums(Append(w, v), q) /\ q[Len(w) + 1] = p[Len(w)] + v
  BY <1>1, SumsAppend
<1>4. Append(w, v) \in Seq(Int) /\ Len(Append(w, v)) = Len(w) + 1
  OBVIOUS
<1> QED BY <1>2, <1>3, <1>4, SumsTotal

LEMMA TotalTail ==
    ASSUME NEW w \in Seq(Int), w # << >>
    PROVE  Total(Tail(w)) = Total(w) - w[1]
<1>1. PICK p : Sums(w, p)
  BY SumsExist
<1> DEFINE t == Tail(w)
           q == [i \in 0 .. Len(w) - 1 |-> p[i + 1] - w[1]]
<1>2. /\ Len(w) \in Nat \ {0} /\ t \in Seq(Int) /\ Len(t) = Len(w) - 1
      /\ w[1] \in Int /\ \A i \in 1 .. Len(t) : t[i] = w[i + 1]
  OBVIOUS
<1> HIDE DEF t
<1>3. Sums(t, q)
  <2>1. q \in [0 .. Len(t) -> Int]
    BY <1>1, <1>2 DEF Sums
  <2>2. q[0] = 0
    <3>1. 1 \in 1 .. Len(w)
      BY <1>2
    <3>2. p[1] = p[0] + w[1]
      BY <1>1, <3>1 DEF Sums
    <3> QED BY <1>1, <1>2, <3>2 DEF Sums
  <2>3. ASSUME NEW i \in 1 .. Len(t) PROVE q[i] = q[i - 1] + t[i]
    <3>1. /\ i + 1 \in 1 .. Len(w) /\ i \in 0 .. Len(w) /\ i + 1 \in 0 .. Len(w)
          /\ (i + 1) - 1 = i /\ i - 1 \in 0 .. Len(w) - 1 /\ i \in 0 .. Len(w) - 1
      BY <1>2
    <3>2. p[i + 1] = p[i] + w[i + 1]
      BY <1>1, <3>1 DEF Sums
    <3>3. p[i] \in Int /\ p[i + 1] \in Int /\ w[i + 1] \in Int
      BY <1>1, <3>1 DEF Sums
    <3>4. q[i] = p[i + 1] - w[1] /\ q[i - 1] = p[i] - w[1]
      <4>1. q[i] = p[i + 1] - w[1]
        BY <3>1
      <4>2. q[i - 1] = p[(i - 1) + 1] - w[1]
        BY <3>1
      <4>3. (i - 1) + 1 = i
        OBVIOUS
      <4> HIDE DEF q
      <4> QED BY <4>1, <4>2, <4>3
    <3>5. t[i] = w[i + 1] /\ w[1] \in Int
      BY <1>2
    <3> HIDE DEF q
    <3> QED BY ONLY <3>2, <3>3, <3>4, <3>5
  <2> QED BY <2>1, <2>2, <2>3 DEF Sums
<1>4. Total(w) = p[Len(w)] /\ Total(t) = q[Len(t)]
  BY <1>1, <1>2, <1>3, SumsTotal
<1> QED BY <1>2, <1>4 DEF t

(* Sums of sequences of numbers between two bounds, and of naturals. *)
LEMMA BoundsAdd ==
    ASSUME NEW a \in Int, NEW s \in Int, NEW b \in Int, NEW lo \in Int, NEW v \in Int,
           NEW hi \in Int, a <= s, s <= b, lo <= v, v <= hi
    PROVE  a + lo <= s + v /\ s + v <= b + hi
OBVIOUS

LEMMA TotalBounded ==
    ASSUME NEW w \in Seq(Int), NEW lo \in Int, NEW hi \in Int,
           \A i \in 1 .. Len(w) : lo <= w[i] /\ w[i] <= hi
    PROVE  Len(w) * lo <= Total(w) /\ Total(w) <= Len(w) * hi
<1>1. PICK p : Sums(w, p)
  BY SumsExist
<1>2. Len(w) \in Nat
  OBVIOUS
<1> DEFINE T == {i \in 0 .. Len(w) : ~(i * lo <= p[i] /\ p[i] <= i * hi)}
<1>3. CASE T = {}
  <2>1. Len(w) \in 0 .. Len(w)
    BY <1>2
  <2>2. Len(w) * lo <= p[Len(w)] /\ p[Len(w)] <= Len(w) * hi
    BY <1>3, <2>1
  <2> QED BY <1>1, <2>2, SumsTotal
<1>4. CASE T # {}
  <2>1. PICK i \in T : \A j \in T : i <= j
    <3>1. T \in SUBSET Nat
      BY <1>2
    <3> QED BY <1>4, <3>1, LeastElement
  <2>2. i # 0
    BY <1>1, <2>1 DEF Sums
  <2>3. i \in 1 .. Len(w) /\ i - 1 \in 0 .. Len(w) /\ i - 1 \notin T
    BY <1>2, <2>1, <2>2
  <2>4. /\ p[i] = p[i - 1] + w[i] /\ p[i - 1] \in Int /\ w[i] \in Int
        /\ lo <= w[i] /\ w[i] <= hi
        /\ (i - 1) * lo <= p[i - 1] /\ p[i - 1] <= (i - 1) * hi
    <3>1. (i - 1) * lo <= p[i - 1] /\ p[i - 1] <= (i - 1) * hi
      BY <2>3
    <3>2. p[i] = p[i - 1] + w[i] /\ p[i - 1] \in Int
      BY <1>1, <2>3 DEF Sums
    <3>3. w[i] \in Int /\ lo <= w[i] /\ w[i] <= hi
      BY <2>3
    <3> QED BY <3>1, <3>2, <3>3
  <2>5. i * lo = (i - 1) * lo + lo /\ i * hi = (i - 1) * hi + hi
    BY <2>3
  <2>6. /\ (i - 1) * lo \in Int /\ (i - 1) * hi \in Int
    BY <2>3
  <2>7. i * lo <= p[i] /\ p[i] <= i * hi
    BY ONLY <2>4, <2>5, <2>6, lo \in Int, hi \in Int, BoundsAdd
  <2> QED BY <2>1, <2>7
<1> QED BY <1>3, <1>4

LEMMA TotalNat == ASSUME NEW w \in Seq(Nat) PROVE Total(w) \in Nat
<1>1. w \in Seq(Int) /\ Len(w) \in Nat /\ \A i \in 1 .. Len(w) : w[i] \in Nat
  OBVIOUS
<1>2. PICK p : Sums(w, p)
  BY <1>1, SumsExist
<1> DEFINE T == {i \in 0 .. Len(w) : p[i] \notin Nat}
<1>3. CASE T = {}
  <2>1. Len(w) \in 0 .. Len(w)
    BY <1>1
  <2>2. p[Len(w)] \in Nat
    BY <1>3, <2>1
  <2> QED BY <1>1, <1>2, <2>2, SumsTotal
<1>4. CASE T # {}
  <2>1. PICK i \in T : \A j \in T : i <= j
    <3>1. T \in SUBSET Nat
      BY <1>1
    <3> QED BY <1>4, <3>1, LeastElement
  <2>2. i # 0
    BY <1>2, <2>1 DEF Sums
  <2>3. i \in 1 .. Len(w) /\ i - 1 \in 0 .. Len(w) /\ i - 1 \notin T
    BY <1>1, <2>1, <2>2
  <2>4. p[i] = p[i - 1] + w[i] /\ p[i - 1] \in Nat /\ w[i] \in Nat
    BY <1>1, <1>2, <2>3 DEF Sums
  <2> QED BY <2>1, <2>4
<1> QED BY <1>3, <1>4

=============================================================================
