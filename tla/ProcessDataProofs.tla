-------------------------- MODULE ProcessDataProofs --------------------------
(***************************************************************************)
(* Proofs about ProcessData, for every set of directions and of            *)
(* identities: the inputs' handler follows no null handle, and between two *)
(* calls the process data is whole or gone.                                *)
(***************************************************************************)
EXTENDS ProcessData, SequenceTheorems, TLAPS

-----------------------------------------------------------------------------
(* Sequences of statements.                                                *)

Kind(seq, k) == seq[k][1]

NoBus(seq) == \A k \in 1 .. Len(seq) : Kind(seq, k) # "bus"

NoClear(seq) == \A k \in 1 .. Len(seq) : Kind(seq, k) # "clear"

(* The last switch of the bus before statement k takes it below SAFEOP. *)
Covered(seq, k) ==
    \E j \in 1 .. k - 1 :
        /\ Kind(seq, j) = "bus" /\ ~Exchanging(seq[j][2])
        /\ \A i \in j + 1 .. k - 1 : Kind(seq, i) # "bus"

ClearsCovered(seq) ==
    \A k \in 1 .. Len(seq) : Kind(seq, k) = "clear" => Covered(seq, k)

(* What SkipRemoval skips is there, and does not switch the bus. *)
RemovalsWhole(seq) ==
    \A k \in 1 .. Len(seq) : Kind(seq, k) = "drop" =>
        /\ k + 4 <= Len(seq)
        /\ \A i \in k .. k + 4 : Kind(seq, i) # "bus"

(* A handle is cleared only with the bus below SAFEOP, whatever part of    *)
(* the statements has been executed.                                       *)
BehindSwitch(seq, b) ==
    \A k \in 1 .. Len(seq) : Kind(seq, k) = "clear" =>
        \/ Covered(seq, k)
        \/ ~Exchanging(b) /\ \A i \in 1 .. k - 1 : Kind(seq, i) # "bus"

-----------------------------------------------------------------------------
(* The scripts.                                                            *)

LEMMA Concatenation ==
    ASSUME NEW s \in Seq(Steps), NEW t \in Seq(Steps)
    PROVE  /\ s \o t \in Seq(Steps) /\ Len(s \o t) = Len(s) + Len(t)
           /\ Len(s) \in Nat /\ Len(t) \in Nat
           /\ \A k \in 1 .. Len(s) : (s \o t)[k] = s[k]
           /\ \A k \in 1 .. Len(t) : (s \o t)[Len(s) + k] = t[k]
OBVIOUS

LEMMA Joined ==
    ASSUME NEW s \in Seq(Steps), NEW t \in Seq(Steps)
    PROVE  /\ s \o t \in Seq(Steps)
           /\ NoBus(s) /\ NoBus(t) => NoBus(s \o t)
           /\ NoClear(s) /\ NoClear(t) => NoClear(s \o t)
           /\ RemovalsWhole(s) /\ RemovalsWhole(t) => RemovalsWhole(s \o t)
           /\ ClearsCovered(s) /\ ClearsCovered(t) => ClearsCovered(s \o t)
<1> DEFINE u == s \o t
<1>1. /\ u \in Seq(Steps) /\ Len(u) = Len(s) + Len(t)
      /\ Len(s) \in Nat /\ Len(t) \in Nat
      /\ \A k \in 1 .. Len(s) : u[k] = s[k]
      /\ \A k \in 1 .. Len(t) : u[Len(s) + k] = t[k]
  BY Concatenation
<1> HIDE DEF u
<1>2. \A k \in 1 .. Len(u) :
        k \in 1 .. Len(s) \/ \E m \in 1 .. Len(t) : k = Len(s) + m
  <2> SUFFICES ASSUME NEW k \in 1 .. Len(u), k \notin 1 .. Len(s)
               PROVE  \E m \in 1 .. Len(t) : k = Len(s) + m
    OBVIOUS
  <2>1. k - Len(s) \in 1 .. Len(t) /\ k = Len(s) + (k - Len(s))
    BY <1>1
  <2> QED BY <2>1
<1>3. ASSUME NEW kind, \A k \in 1 .. Len(s) : Kind(s, k) # kind,
                        \A k \in 1 .. Len(t) : Kind(t, k) # kind
      PROVE  \A k \in 1 .. Len(u) : Kind(u, k) # kind
  <2> SUFFICES ASSUME NEW k \in 1 .. Len(u) PROVE Kind(u, k) # kind
    OBVIOUS
  <2>1. CASE k \in 1 .. Len(s)
    BY <1>1, <1>3, <2>1 DEF Kind
  <2>2. ASSUME NEW m \in 1 .. Len(t), k = Len(s) + m PROVE Kind(u, k) # kind
    BY <1>1, <1>3, <2>2 DEF Kind
  <2> QED BY <1>2, <2>1, <2>2
<1>4. /\ NoBus(s) /\ NoBus(t) => NoBus(u)
      /\ NoClear(s) /\ NoClear(t) => NoClear(u)
  BY <1>3 DEF NoBus, NoClear
<1>5. ASSUME RemovalsWhole(s), RemovalsWhole(t) PROVE RemovalsWhole(u)
  <2> SUFFICES ASSUME NEW k \in 1 .. Len(u), Kind(u, k) = "drop"
               PROVE  /\ k + 4 <= Len(u)
                      /\ \A i \in k .. k + 4 : Kind(u, i) # "bus"
    BY DEF RemovalsWhole
  <2>1. CASE k \in 1 .. Len(s)
    <3>1. k + 4 <= Len(s) /\ \A i \in k .. k + 4 : Kind(s, i) # "bus"
      BY <1>1, <1>5, <2>1 DEF RemovalsWhole, Kind
    <3>2. \A i \in k .. k + 4 : i \in 1 .. Len(s)
      BY <1>1, <2>1, <3>1
    <3>3. k + 4 <= Len(u)
      BY <1>1, <2>1, <3>1
    <3> QED BY <1>1, <3>1, <3>2, <3>3 DEF Kind
  <2>2. ASSUME NEW m \in 1 .. Len(t), k = Len(s) + m
        PROVE  /\ k + 4 <= Len(u)
               /\ \A i \in k .. k + 4 : Kind(u, i) # "bus"
    <3>1. m + 4 <= Len(t) /\ \A i \in m .. m + 4 : Kind(t, i) # "bus"
      BY <1>1, <1>5, <2>2 DEF RemovalsWhole, Kind
    <3>2. ASSUME NEW i \in k .. k + 4 PROVE Kind(u, i) # "bus"
      <4>1. i - Len(s) \in m .. m + 4 /\ i - Len(s) \in 1 .. Len(t)
        BY <1>1, <2>2, <3>1
      <4>2. u[i] = t[i - Len(s)]
        <5>1. i = Len(s) + (i - Len(s))
          BY <1>1
        <5> QED BY <1>1, <4>1, <5>1
      <4> QED BY <3>1, <4>1, <4>2 DEF Kind
    <3> QED BY <1>1, <2>2, <3>1, <3>2
  <2> QED BY <1>2, <2>1, <2>2
<1>6. ASSUME ClearsCovered(s), ClearsCovered(t) PROVE ClearsCovered(u)
  <2> SUFFICES ASSUME NEW k \in 1 .. Len(u), Kind(u, k) = "clear"
               PROVE  Covered(u, k)
    BY DEF ClearsCovered
  <2>1. CASE k \in 1 .. Len(s)
    <3>1. Covered(s, k)
      BY <1>1, <1>6, <2>1 DEF ClearsCovered, Kind
    <3>2. \A i \in 1 .. k - 1 : u[i] = s[i]
      BY <1>1, <2>1
    <3>3. PICK j \in 1 .. k - 1 :
            /\ Kind(s, j) = "bus" /\ ~Exchanging(s[j][2])
            /\ \A i \in j + 1 .. k - 1 : Kind(s, i) # "bus"
      BY <3>1 DEF Covered
    <3>4. \A i \in j + 1 .. k - 1 : i \in 1 .. k - 1
      BY <2>1
    <3> QED BY <3>2, <3>3, <3>4 DEF Covered, Kind
  <2>2. ASSUME NEW m \in 1 .. Len(t), k = Len(s) + m PROVE Covered(u, k)
    <3>1. Covered(t, m)
      BY <1>1, <1>6, <2>2 DEF ClearsCovered, Kind
    <3>2. PICK j \in 1 .. m - 1 :
            /\ Kind(t, j) = "bus" /\ ~Exchanging(t[j][2])
            /\ \A i \in j + 1 .. m - 1 : Kind(t, i) # "bus"
      BY <3>1 DEF Covered
    <3>3. Len(s) + j \in 1 .. k - 1 /\ u[Len(s) + j] = t[j]
      BY <1>1, <2>2
    <3>4. ASSUME NEW i \in (Len(s) + j) + 1 .. k - 1 PROVE Kind(u, i) # "bus"
      <4>1. /\ i - Len(s) \in j + 1 .. m - 1 /\ i - Len(s) \in 1 .. Len(t)
            /\ i = Len(s) + (i - Len(s))
        BY <1>1, <2>2
      <4>2. u[i] = t[i - Len(s)]
        BY <1>1, <4>1
      <4> QED BY <3>2, <4>1, <4>2 DEF Kind
    <3> QED BY <3>2, <3>3, <3>4 DEF Covered, Kind
  <2> QED BY <1>2, <2>1, <2>2
<1> QED BY <1>1, <1>4, <1>5, <1>6 DEF u

(* A script for one direction: it never switches the bus, removes a device *)
(* completely and clears no handle while it creates one.                   *)
LEMMA OneDirection ==
    ASSUME NEW d \in Directions
    PROVE  /\ Removal(d) \in Seq(Steps) /\ NoBus(Removal(d))
           /\ RemovalsWhole(Removal(d)) /\ Len(Removal(d)) = 5
           /\ Creation(d) \in Seq(Steps) /\ NoBus(Creation(d))
           /\ RemovalsWhole(Creation(d)) /\ NoClear(Creation(d))
<1>1. /\ Removal(d) \in Seq(Steps) /\ Len(Removal(d)) = 5
      /\ \A k \in 1 .. 5 : Kind(Removal(d), k) # "bus"
      /\ \A k \in 2 .. 5 : Kind(Removal(d), k) # "drop"
  BY DEF Removal, Steps, Statements, Kind
<1>2. /\ Creation(d) \in Seq(Steps) /\ Len(Creation(d)) = 6
      /\ \A k \in 1 .. 6 : Kind(Creation(d), k) \notin {"bus", "drop", "clear"}
  BY DEF Creation, Steps, Statements, Kind
<1>3. RemovalsWhole(Removal(d))
  BY <1>1 DEF RemovalsWhole
<1> QED BY <1>1, <1>2, <1>3 DEF NoBus, NoClear, RemovalsWhole

LEMMA Empty ==
    /\ << >> \in Seq(Steps) /\ NoBus(<< >>) /\ NoClear(<< >>)
    /\ RemovalsWhole(<< >>) /\ ClearsCovered(<< >>)
BY DEF NoBus, NoClear, RemovalsWhole, ClearsCovered

LEMMA PostScript ==
    ASSUME NEW from, NEW rung
    PROVE  LET post == Post(from, rung)
           IN  /\ post \in Seq(Steps) /\ NoBus(post) /\ RemovalsWhole(post)
               /\ ~StopsReceiving(from, rung) => NoClear(post)
<1>1. /\ ForBoth(Removal) \in Seq(Steps) /\ NoBus(ForBoth(Removal))
      /\ RemovalsWhole(ForBoth(Removal))
  BY OneDirection, Empty, Joined DEF ForBoth
<1>2. /\ ForBoth(Creation) \in Seq(Steps) /\ NoBus(ForBoth(Creation))
      /\ RemovalsWhole(ForBoth(Creation)) /\ NoClear(ForBoth(Creation))
  BY OneDirection, Empty, Joined DEF ForBoth
<1> HIDE DEF ForBoth
<1> QED
  BY <1>1, <1>2, Empty, Joined DEF Post

LEMMA TransitionScript ==
    ASSUME NEW from, NEW rung \in States
    PROVE  LET t == Transition(from, rung)
           IN  t \in Seq(Steps) /\ RemovalsWhole(t) /\ ClearsCovered(t)
<1> DEFINE bs == <<<<"bus", rung>>>>
           post == Post(from, rung)
           t == Transition(from, rung)
<1>1. bs \in Seq(Steps) /\ Len(bs) = 1 /\ bs[1] = <<"bus", rung>>
  <2>1. <<"bus", rung>> \in Steps
    BY DEF Steps
  <2> QED BY <2>1
<1>2. /\ post \in Seq(Steps) /\ NoBus(post) /\ RemovalsWhole(post)
      /\ ~StopsReceiving(from, rung) => NoClear(post)
  BY PostScript
<1> HIDE DEF bs, post
<1>0. RemovalsWhole(bs)
  BY <1>1 DEF RemovalsWhole, Kind
<1>3. t = bs \o post
  BY DEF Transition, bs, post
<1> HIDE DEF t
<1>4. t \in Seq(Steps) /\ RemovalsWhole(t)
  BY <1>0, <1>1, <1>2, <1>3, Joined
<1>5. /\ Len(t) = 1 + Len(post) /\ t[1] = <<"bus", rung>>
      /\ \A k \in 2 .. Len(t) : t[k] = post[k - 1] /\ k - 1 \in 1 .. Len(post)
  <2>1. /\ Len(t) = 1 + Len(post) /\ t[1] = <<"bus", rung>>
        /\ Len(post) \in Nat
        /\ \A m \in 1 .. Len(post) : t[1 + m] = post[m]
    <3>1. 1 \in 1 .. Len(bs)
      BY <1>1
    <3> QED BY <1>1, <1>2, <1>3, <3>1, Concatenation
  <2>2. \A k \in 2 .. Len(t) : k - 1 \in 1 .. Len(post) /\ k = 1 + (k - 1)
    BY <1>2, <2>1
  <2> QED BY <2>1, <2>2
<1>6. ASSUME NEW k \in 1 .. Len(t), Kind(t, k) = "clear" PROVE Covered(t, k)
  <2>1. k \in 2 .. Len(t)
    BY <1>5, <1>6 DEF Kind
  <2>2. StopsReceiving(from, rung)
    BY <1>2, <1>5, <1>6, <2>1 DEF NoClear, Kind
  <2>3. ~Exchanging(rung)
    BY <2>2 DEF StopsReceiving, Exchanging
  <2>4. \A i \in 2 .. k - 1 : Kind(t, i) # "bus"
    BY <1>2, <1>5, <2>1 DEF NoBus, Kind
  <2> QED BY <1>5, <2>1, <2>3, <2>4 DEF Covered, Kind
<1> QED BY <1>4, <1>6 DEF ClearsCovered, t

LEMMA PathType ==
    ASSUME NEW from \in States, NEW to \in States,
           NEW i \in DOMAIN Path(from, to)
    PROVE  Path(from, to)[i] \in States
<1>1. \A s \in States : Height(s) \in 1 .. 4
  <2> SUFFICES ASSUME NEW s \in States PROVE Height(s) \in 1 .. 4
    OBVIOUS
  <2>1. \E j \in 1 .. 4 : Rungs[j] = s
    <3>1. /\ 1 \in 1 .. 4 /\ 2 \in 1 .. 4 /\ 3 \in 1 .. 4 /\ 4 \in 1 .. 4
          /\ Rungs[1] = "init" /\ Rungs[2] = "preop"
          /\ Rungs[3] = "safeop" /\ Rungs[4] = "op"
      BY DEF Rungs
    <3> QED BY <3>1 DEF States
  <2> QED BY <2>1 DEF Height
<1>2. \A j \in 1 .. 4 : Rungs[j] \in States
  BY DEF Rungs, States
<1> DEFINE hf == Height(from)
           ht == Height(to)
<1>3. hf \in 1 .. 4 /\ ht \in 1 .. 4
  BY <1>1
<1>4. i \in 1 .. IF hf < ht THEN ht - hf ELSE hf - ht
  BY DEF Path
<1>5. Path(from, to)[i] = Rungs[IF hf < ht THEN hf + i ELSE hf - i]
  BY DEF Path
<1> HIDE DEF hf, ht
<1>6. (IF hf < ht THEN hf + i ELSE hf - i) \in 1 .. 4
  BY <1>3, <1>4
<1> QED BY <1>2, <1>5, <1>6

LEMMA ScriptSound ==
    ASSUME NEW from \in States, NEW to \in States
    PROVE  /\ Script(from, to) \in Seq(Steps)
           /\ RemovalsWhole(Script(from, to)) /\ ClearsCovered(Script(from, to))
<1> DEFINE path == Path(from, to)
           Leg(i) == IF i \in DOMAIN path THEN Transition(from, path[i])
                     ELSE << >>
<1>1. ASSUME NEW i
      PROVE  /\ Leg(i) \in Seq(Steps)
             /\ RemovalsWhole(Leg(i)) /\ ClearsCovered(Leg(i))
  <2>1. CASE i \in DOMAIN path
    <3>1. path[i] \in States
      BY <2>1, PathType
    <3> QED BY <2>1, <3>1, TransitionScript
  <2>2. CASE i \notin DOMAIN path
    BY <2>2, Empty
  <2> QED BY <2>1, <2>2
<1>2. Script(from, to) = Leg(1) \o Leg(2) \o Leg(3)
  BY DEF Script
<1> HIDE DEF Leg, path
<1>3. /\ Leg(1) \o Leg(2) \in Seq(Steps)
      /\ RemovalsWhole(Leg(1) \o Leg(2)) /\ ClearsCovered(Leg(1) \o Leg(2))
  BY <1>1, Joined
<1> QED BY <1>1, <1>2, <1>3, Joined

-----------------------------------------------------------------------------
(* What remains to be done.                                                *)

(* Statements already executed that do not switch the bus can be left out. *)
LEMMA Remaining ==
    ASSUME NEW s \in Seq(Steps), NEW b, NEW t \in Seq(Steps), NEW c,
           NEW n \in 1 .. Len(s),
           RemovalsWhole(s), BehindSwitch(s, b),
           Len(t) = Len(s) - n, \A i \in 1 .. Len(t) : t[i] = s[i + n],
           \/ c = b /\ \A i \in 1 .. n : Kind(s, i) # "bus"
           \/ n = 1 /\ Kind(s, 1) = "bus" /\ c = s[1][2]
    PROVE  RemovalsWhole(t) /\ BehindSwitch(t, c)
<1>1. /\ Len(s) \in Nat /\ n \in Nat /\ Len(t) \in Nat
      /\ \A k \in 1 .. Len(t) : k + n \in 1 .. Len(s) /\ t[k] = s[k + n]
  OBVIOUS
<1>2. RemovalsWhole(t)
  <2> SUFFICES ASSUME NEW k \in 1 .. Len(t), Kind(t, k) = "drop"
               PROVE  /\ k + 4 <= Len(t)
                      /\ \A i \in k .. k + 4 : Kind(t, i) # "bus"
    BY DEF RemovalsWhole
  <2>1. /\ (k + n) + 4 <= Len(s)
        /\ \A i \in k + n .. (k + n) + 4 : Kind(s, i) # "bus"
    BY <1>1 DEF RemovalsWhole, Kind
  <2>2. \A i \in k .. k + 4 :
          i \in 1 .. Len(t) /\ i + n \in k + n .. (k + n) + 4
    BY <1>1, <2>1
  <2> QED BY <1>1, <2>1, <2>2 DEF Kind
<1>3. ASSUME NEW k \in 1 .. Len(t), Kind(t, k) = "clear"
      PROVE  \/ Covered(t, k)
             \/ ~Exchanging(c) /\ \A i \in 1 .. k - 1 : Kind(t, i) # "bus"
  <2>1. \A i \in 1 .. k - 1 : /\ i \in 1 .. Len(t) /\ t[i] = s[i + n]
                              /\ i + n \in 1 .. (k + n) - 1
    BY <1>1
  <2>2. k + n \in 1 .. Len(s) /\ Kind(s, k + n) = "clear"
    BY <1>1, <1>3 DEF Kind
  <2>3. CASE ~Exchanging(b) /\ \A i \in 1 .. (k + n) - 1 : Kind(s, i) # "bus"
    <3>1. 1 \in 1 .. (k + n) - 1
      BY <1>1
    <3> QED BY <2>1, <2>3, <3>1 DEF Kind
  <2>4. CASE Covered(s, k + n)
    <3>1. PICK j \in 1 .. (k + n) - 1 :
            /\ Kind(s, j) = "bus" /\ ~Exchanging(s[j][2])
            /\ \A i \in j + 1 .. (k + n) - 1 : Kind(s, i) # "bus"
      BY <2>4 DEF Covered
    <3>2. CASE j <= n
      <4>1. j \in 1 .. n
        BY <3>2
      <4>2. n = 1 /\ c = s[1][2] /\ j = 1
        BY <3>1, <4>1
      <4>3. \A i \in 1 .. k - 1 : i + n \in j + 1 .. (k + n) - 1
        BY <1>1, <4>2
      <4> QED BY <2>1, <3>1, <4>2, <4>3 DEF Kind
    <3>3. CASE j > n
      <4>0. j \in Nat /\ n \in Nat /\ k \in Nat /\ j <= (k + n) - 1
        BY <1>1
      <4>1. j - n \in 1 .. k - 1 /\ (j - n) + n = j
        BY <3>3, <4>0
      <4>2. t[j - n] = s[j]
        BY <2>1, <4>1
      <4>3. \A i \in (j - n) + 1 .. k - 1 :
              i \in 1 .. k - 1 /\ i + n \in j + 1 .. (k + n) - 1
        BY <1>1, <3>3
      <4>4. \A i \in (j - n) + 1 .. k - 1 : Kind(t, i) # "bus"
        BY <2>1, <3>1, <4>3 DEF Kind
      <4> QED BY <3>1, <4>1, <4>2, <4>4 DEF Covered, Kind
    <3> QED BY <1>1, <3>2, <3>3
  <2> QED BY <2>2, <2>3, <2>4 DEF BehindSwitch
<1> QED BY <1>2, <1>3 DEF BehindSwitch

-----------------------------------------------------------------------------
(* The inductive invariant.                                                *)

(* The handler of the inputs runs only while frames are exchanged; the     *)
(* handle it has checked is still set when it reads it again.              *)
HandlerInv == \A d \in Inputs :
    /\ hpc[d] # "idle" => Exchanging(bus) /\ pd[d] # None
    /\ hpc[d] = "loaded" => hpd[d] # None
    /\ last[d] # "null"

NullInv ==
    /\ TypeOK /\ RemovalsWhole(todo) /\ BehindSwitch(todo, bus) /\ HandlerInv

LEMMA NullInit == ASSUME Init PROVE NullInv
<1>1. TypeOK
  BY DEF Init, TypeOK, States
<1> QED
  BY <1>1 DEF Inputs, Init, NullInv, HandlerInv, RemovalsWhole, BehindSwitch

LEMMA CallStep ==
    ASSUME NullInv, NEW to \in States, Call(to)
    PROVE  NullInv'
<1>1. /\ todo' \in Seq(Steps) /\ RemovalsWhole(todo') /\ ClearsCovered(todo')
  BY ScriptSound DEF Call, NullInv, TypeOK
<1>2. BehindSwitch(todo', bus')
  BY <1>1 DEF BehindSwitch, ClearsCovered
<1>3. TypeOK' /\ HandlerInv'
  BY <1>1 DEF Call, NullInv, TypeOK, HandlerInv, handles, handlers
<1> QED BY <1>1, <1>2, <1>3 DEF NullInv

(* The rest of the statements stays as it should be, whichever statement   *)
(* is taken.                                                               *)
LEMMA TakenStep ==
    ASSUME TypeOK, RemovalsWhole(todo), BehindSwitch(todo, bus), ~Idle,
           todo' = Tail(todo),
           \/ Head(todo)[1] # "bus" /\ bus' = bus
           \/ Head(todo)[1] = "bus" /\ bus' = Head(todo)[2]
    PROVE  /\ todo' \in Seq(Steps) /\ RemovalsWhole(todo')
           /\ BehindSwitch(todo', bus')
<1>1. /\ todo \in Seq(Steps) /\ todo # << >>
  BY DEF TypeOK, Idle
<1>2. /\ Tail(todo) \in Seq(Steps) /\ Len(Tail(todo)) = Len(todo) - 1
      /\ 1 \in 1 .. Len(todo) /\ Head(todo) = todo[1]
      /\ \A i \in 1 .. Len(Tail(todo)) : Tail(todo)[i] = todo[i + 1]
  BY <1>1
<1>3. \/ bus' = bus /\ \A i \in 1 .. 1 : Kind(todo, i) # "bus"
      \/ Kind(todo, 1) = "bus" /\ bus' = todo[1][2]
  BY <1>2 DEF Kind
<1> QED BY <1>1, <1>2, <1>3, Remaining

LEMMA BehindRemoval ==
    ASSUME NEW s \in Seq(Steps), NEW n \in Nat, Len(s) = n, 5 <= n
    PROVE  LET t == SubSeq(s, 6, n)
           IN  /\ t \in Seq(Steps) /\ Len(t) = n - 5
               /\ \A i \in 1 .. n - 5 : t[i] = s[i + 5]
<1>1. \A i \in 6 .. n : s[i] \in Steps
  OBVIOUS
<1>2. /\ SubSeq(s, 6, n) \in Seq(Steps)
      /\ Len(SubSeq(s, 6, n)) = IF 6 <= n THEN n - 6 + 1 ELSE 0
      /\ \A i \in 1 .. n - 6 + 1 : SubSeq(s, 6, n)[i] = s[6 + i - 1]
  BY <1>1, SubSeqProperties
<1>3. ASSUME NEW i \in 1 .. n - 5
      PROVE  i \in 1 .. n - 6 + 1 /\ 6 + i - 1 = i + 5
  OBVIOUS
<1>4. (IF 6 <= n THEN n - 6 + 1 ELSE 0) = n - 5
  OBVIOUS
<1> QED BY <1>2, <1>3, <1>4

LEMMA SkippedStep ==
    ASSUME TypeOK, RemovalsWhole(todo), BehindSwitch(todo, bus),
           NEW d \in Directions, SkipRemoval(d)
    PROVE  /\ todo' \in Seq(Steps) /\ RemovalsWhole(todo')
           /\ BehindSwitch(todo', bus')
<1>1. /\ todo \in Seq(Steps) /\ todo # << >> /\ Head(todo) = <<"drop", d>>
      /\ todo' = SubSeq(todo, 6, Len(todo)) /\ bus' = bus
  <2>1. Len(Removal(d)) + 1 = 6
    <3>1. Len(Removal(d)) = 5
      BY OneDirection, Zenon
    <3> QED BY <3>1
  <2> QED BY <2>1 DEF TypeOK, Idle, SkipRemoval
<1>2. 1 \in 1 .. Len(todo) /\ Kind(todo, 1) = "drop"
  <2>1. Len(todo) \in Nat /\ Len(todo) # 0 /\ todo[1] = <<"drop", d>>
    BY <1>1, EmptySeq
  <2> QED BY <2>1 DEF Kind
<1>3. 5 <= Len(todo) /\ \A i \in 1 .. 5 : Kind(todo, i) # "bus"
  BY <1>2 DEF RemovalsWhole
<1>4. /\ todo' \in Seq(Steps) /\ Len(todo') = Len(todo) - 5
      /\ \A i \in 1 .. Len(todo') : todo'[i] = todo[i + 5]
  <2>1. PICK n \in Nat : n = Len(todo)
    BY <1>1
  <2>2. todo' = SubSeq(todo, 6, n) /\ 5 <= n
    BY <1>1, <1>3, <2>1
  <2>3. /\ SubSeq(todo, 6, n) \in Seq(Steps) /\ Len(SubSeq(todo, 6, n)) = n - 5
        /\ \A i \in 1 .. n - 5 : SubSeq(todo, 6, n)[i] = todo[i + 5]
    BY ONLY <1>1, <2>1, <2>2, BehindRemoval
  <2> QED BY ONLY <2>1, <2>2, <2>3
<1>5. ASSUME NEW n \in 1 .. Len(todo), n = 5
      PROVE  RemovalsWhole(todo') /\ BehindSwitch(todo', bus')
  <2>1. /\ Len(todo') = Len(todo) - n
        /\ \A i \in 1 .. Len(todo') : todo'[i] = todo[i + n]
        /\ \/ bus' = bus /\ \A i \in 1 .. n : Kind(todo, i) # "bus"
           \/ n = 1 /\ Kind(todo, 1) = "bus" /\ bus' = todo[1][2]
    BY <1>1, <1>3, <1>4, <1>5
  <2>2. todo \in Seq(Steps) /\ todo' \in Seq(Steps)
    BY <1>1, <1>4
  <2> QED BY <2>1, <2>2, Remaining
<1>6. 5 \in 1 .. Len(todo)
  BY <1>1, <1>3
<1> QED BY <1>4, <1>5, <1>6

(* A handle is cleared with the bus below SAFEOP. *)
LEMMA ClearedBelow ==
    ASSUME TypeOK, BehindSwitch(todo, bus), ~Idle, Head(todo)[1] = "clear"
    PROVE  ~Exchanging(bus)
<1>1. Len(todo) \in Nat /\ Len(todo) # 0 /\ Head(todo) = todo[1]
  BY EmptySeq DEF TypeOK, Idle
<1>2. 1 \in 1 .. Len(todo) /\ Kind(todo, 1) = "clear"
  BY <1>1 DEF Kind
<1>3. ~Covered(todo, 1)
  BY DEF Covered
<1> QED BY <1>2, <1>3 DEF BehindSwitch

(* Everything the state thread does but switching the bus. *)
Device(d) ==
    \/ DropInspection(d) \/ Detach(d) \/ ForgetProvider(d) \/ Unregister(d)
    \/ Clear(d) \/ Create(d) \/ Provide(d) \/ Attach(d) \/ Register(d)
    \/ Inspect(d)

LEMMA SwitchStep ==
    ASSUME NullInv, Quiescent, SwitchBus
    PROVE  NullInv'
<1> USE DEF NullInv
<1>1. /\ ~Idle /\ Head(todo)[1] = "bus"
      /\ bus' = Head(todo)[2] /\ todo' = Tail(todo)
      /\ state' \in {state, target} /\ UNCHANGED <<target, handles, handlers>>
      /\ ~Exchanging(bus') => \A d \in Inputs : hpc[d] = "idle"
  BY DEF SwitchBus, Takes
<1>2. /\ todo' \in Seq(Steps)
      /\ RemovalsWhole(todo') /\ BehindSwitch(todo', bus')
  BY <1>1, TakenStep
<1>3. Head(todo) \in Steps
  BY <1>1 DEF TypeOK, Idle
<1>4. bus' \in States
  BY <1>1, <1>3 DEF Steps, Statements
<1>5. TypeOK' /\ HandlerInv'
  BY <1>1, <1>2, <1>4 DEF TypeOK, HandlerInv, handles, handlers
<1> QED BY <1>2, <1>5

LEMMA SkipStep ==
    ASSUME NullInv, NEW d \in Directions, SkipRemoval(d)
    PROVE  NullInv'
<1> USE DEF NullInv
<1>1. /\ todo' \in Seq(Steps)
      /\ RemovalsWhole(todo') /\ BehindSwitch(todo', bus')
  BY SkippedStep
<1>2. TypeOK' /\ HandlerInv'
  BY <1>1 DEF SkipRemoval, TypeOK, HandlerInv, handles, handlers
<1> QED BY <1>1, <1>2

LEMMA DeviceTyped ==
    ASSUME TypeOK, NEW d \in Directions, Device(d)
    PROVE  TypeOK'
<1>1. PICK kind \in Statements : Takes(<<kind, d>>) /\ UNCHANGED bus
  BY DEF Device, Statements, DropInspection, Detach, ForgetProvider, Unregister,
         Clear, Create, Provide, Attach, Register, Inspect
<1>2. /\ ~Idle /\ todo' = Tail(todo)
      /\ state' \in {state, target} /\ UNCHANGED <<target, handlers>>
  BY <1>1 DEF Takes
<1>3. todo' \in Seq(Steps)
  BY <1>2 DEF TypeOK, Idle
<1>4. pd' \in [Directions -> Ids \union {None}]
  BY DEF Device, DropInspection, Detach, ForgetProvider, Unregister, Clear,
         Create, Provide, Attach, Register, Inspect, Fresh, TypeOK
<1>5. /\ prov' \in [Directions -> Ids \union {None}]
      /\ insp' \in [Directions -> Ids \union {None}]
  BY DEF Device, DropInspection, Detach, ForgetProvider, Unregister, Clear,
         Create, Provide, Attach, Register, Inspect, Fresh, TypeOK
<1>6. attached' \in [Directions -> [Ids -> Ids \union {None}]]
  <2>1. \/ attached' = attached
        \/ \E i, v \in Ids \union {None} :
             attached' = [attached EXCEPT ![d][i] = v]
    <3>1. \/ attached' = [attached EXCEPT ![d][pd[d]] = None]
          \/ attached' = [attached EXCEPT ![d][pd[d]] = prov[d]]
          \/ \E i \in Ids : attached' = [attached EXCEPT ![d][i] = None]
          \/ attached' = attached
      <4>1. CASE Detach(d)
        BY ONLY <4>1 DEF Detach
      <4>2. CASE Attach(d)
        BY ONLY <4>2 DEF Attach
      <4>3. CASE Create(d)
        BY ONLY <4>3 DEF Create, Fresh
      <4>4. CASE DropInspection(d) \/ ForgetProvider(d) \/ Unregister(d) \/ Clear(d)
        BY ONLY <4>4 DEF DropInspection, ForgetProvider, Unregister, Clear
      <4>5. CASE Provide(d) \/ Register(d) \/ Inspect(d)
        BY ONLY <4>5 DEF Provide, Register, Inspect
      <4>6. \/ DropInspection(d) \/ ForgetProvider(d) \/ Unregister(d) \/ Clear(d)
            \/ Create(d) \/ Provide(d) \/ Register(d) \/ Inspect(d)
            \/ Detach(d) \/ Attach(d)
        BY DEF Device
      <4> QED BY ONLY <4>1, <4>2, <4>3, <4>4, <4>5, <4>6
    <3>2. pd[d] \in Ids \union {None} /\ prov[d] \in Ids \union {None}
      BY DEF TypeOK
    <3>3. None \in Ids \union {None}
      OBVIOUS
    <3> QED BY ONLY <3>1, <3>2, <3>3
  <2>2. attached \in [Directions -> [Ids -> Ids \union {None}]]
    BY DEF TypeOK
  <2> QED BY ONLY <2>1, <2>2
<1>7. registry' \subseteq Devices
  BY DEF Device, DropInspection, Detach, ForgetProvider, Unregister, Clear,
         Create, Provide, Attach, Register, Inspect, TypeOK, Devices
<1> QED
  BY <1>1, <1>2, <1>3, <1>4, <1>5, <1>6, <1>7 DEF TypeOK, handlers

LEMMA DeviceStep ==
    ASSUME NullInv, NEW d \in Directions, Device(d)
    PROVE  NullInv'
<1> USE DEF NullInv
<1>1. PICK kind \in Statements :
        /\ Takes(<<kind, d>>) /\ UNCHANGED bus
        /\ kind = "clear" => pd' = [pd EXCEPT ![d] = None]
        /\ kind = "create" => \E i \in Ids : pd' = [pd EXCEPT ![d] = i]
        /\ kind \notin {"clear", "create"} => pd' = pd
  BY DEF Device, Statements, DropInspection, Detach, ForgetProvider, Unregister,
         Clear, Create, Provide, Attach, Register, Inspect, Fresh
<1>2. /\ ~Idle /\ Head(todo) = <<kind, d>> /\ todo' = Tail(todo)
      /\ state' \in {state, target} /\ UNCHANGED <<target, handlers>>
  BY <1>1 DEF Takes
<1>3. kind # "bus"
  BY DEF Statements
<1>4. /\ todo' \in Seq(Steps)
      /\ RemovalsWhole(todo') /\ BehindSwitch(todo', bus')
  BY <1>1, <1>2, <1>3, TakenStep
<1>5. TypeOK'
  BY DeviceTyped
<1>6. ASSUME NEW e \in Inputs, hpc[e] # "idle" PROVE pd'[e] # None
  <2>1. Exchanging(bus) /\ pd[e] # None
    BY <1>6 DEF HandlerInv
  <2>2. kind # "clear"
    BY <1>2, <2>1, ClearedBelow
  <2>3. CASE kind = "create"
    <3>1. PICK i \in Ids : pd' = [pd EXCEPT ![d] = i]
      BY <1>1, <2>3
    <3>2. i # None
      BY ProcessDataAssumption DEF None
    <3> QED BY <2>1, <3>1, <3>2 DEF TypeOK, Inputs
  <2>4. CASE kind # "create"
    BY <1>1, <2>1, <2>2, <2>4
  <2> QED BY <2>3, <2>4
<1>7. HandlerInv'
  BY <1>1, <1>2, <1>6 DEF HandlerInv, handlers
<1> QED BY <1>4, <1>5, <1>7

LEMMA HandlerStep ==
    ASSUME NullInv, NEW d \in Directions, Handler(d)
    PROVE  NullInv'
<1> USE DEF NullInv
<1>1. UNCHANGED <<state, target, bus, todo, pd, prov, insp, attached, registry>>
  BY DEF Handler, HandlerCheck, HandlerLoad, HandlerAccess, stateThread, handles
<1>2. CASE HandlerCheck(d)
  BY <1>1, <1>2 DEF HandlerCheck, TypeOK, HandlerInv, Inputs
<1>3. CASE HandlerLoad(d)
  BY <1>1, <1>3 DEF HandlerLoad, TypeOK, HandlerInv, Inputs
<1>4. CASE HandlerAccess(d)
  <2>1. AccessOf(d) \in {"null", "freed", "ok", "refused"}
    BY DEF AccessOf
  <2>2. d \in Inputs => AccessOf(d) # "null"
    BY <1>4 DEF HandlerAccess, HandlerInv, AccessOf
  <2> QED BY <1>1, <1>4, <2>1, <2>2 DEF HandlerAccess, TypeOK, HandlerInv, Inputs
<1> QED BY <1>2, <1>3, <1>4 DEF Handler

LEMMA NullStep == ASSUME NullInv, Quiescent, [Next]_vars PROVE NullInv'
<1>1. CASE UNCHANGED vars
  BY <1>1 DEF vars, stateThread, handles, handlers, NullInv, TypeOK, HandlerInv
<1>2. CASE StateThread
  BY <1>2, SwitchStep, SkipStep, DeviceStep DEF StateThread, Device
<1> QED BY <1>1, <1>2, CallStep, HandlerStep DEF Next

-----------------------------------------------------------------------------
(* What the statements make of the process data of one direction.          *)

Stages == {"gone", "created", "provided", "attached", "registered", "whole",
           "dropped", "detached", "forgotten", "unregistered"}

(* Where nothing is left, a removal removes nothing. *)
Moves ==
    {<<"whole", "drop", "dropped">>, <<"dropped", "detach", "detached">>,
     <<"detached", "forget", "forgotten">>,
     <<"forgotten", "unregister", "unregistered">>,
     <<"unregistered", "clear", "gone">>,
     <<"gone", "create", "created">>, <<"created", "provide", "provided">>,
     <<"provided", "attach", "attached">>, <<"attached", "register", "registered">>,
     <<"registered", "inspect", "whole">>}
    \union {"gone"} \X {"drop", "detach", "forget", "unregister", "clear"} \X {"gone"}

Follows(q, statement, r, d) ==
    IF statement[1] = "bus" \/ statement[2] # d THEN r = q
    ELSE <<q, statement[1], r>> \in Moves

(* The statements lead direction d from stage q to stage r. *)
Leads(seq, q, r, d) ==
    \E f \in [1 .. Len(seq) + 1 -> Stages] :
        /\ f[1] = q /\ f[Len(seq) + 1] = r
        /\ \A i \in 1 .. Len(seq) : Follows(f[i], seq[i], f[i + 1], d)

(* What follows a drop is the rest of that removal. *)
Removals(seq) ==
    \A k \in 1 .. Len(seq) : seq[k][1] = "drop" =>
        /\ k + 4 <= Len(seq)
        /\ seq[k + 1] = <<"detach", seq[k][2]>>
        /\ seq[k + 2] = <<"forget", seq[k][2]>>
        /\ seq[k + 3] = <<"unregister", seq[k][2]>>
        /\ seq[k + 4] = <<"clear", seq[k][2]>>

LEMMA JoinedLeads ==
    ASSUME NEW s \in Seq(Steps), NEW t \in Seq(Steps), NEW d, NEW q, NEW m, NEW r,
           Leads(s, q, m, d), Leads(t, m, r, d)
    PROVE  Leads(s \o t, q, r, d)
<1> DEFINE u == s \o t
<1>1. /\ u \in Seq(Steps) /\ Len(u) = Len(s) + Len(t)
      /\ Len(s) \in Nat /\ Len(t) \in Nat
      /\ \A k \in 1 .. Len(s) : u[k] = s[k]
      /\ \A k \in 1 .. Len(t) : u[Len(s) + k] = t[k]
  BY Concatenation
<1>2. PICK f \in [1 .. Len(s) + 1 -> Stages] :
        /\ f[1] = q /\ f[Len(s) + 1] = m
        /\ \A i \in 1 .. Len(s) : Follows(f[i], s[i], f[i + 1], d)
  BY DEF Leads
<1>3. PICK g \in [1 .. Len(t) + 1 -> Stages] :
        /\ g[1] = m /\ g[Len(t) + 1] = r
        /\ \A i \in 1 .. Len(t) : Follows(g[i], t[i], g[i + 1], d)
  BY DEF Leads
<1> DEFINE h == [i \in 1 .. Len(u) + 1 |->
                   IF i <= Len(s) THEN f[i] ELSE g[i - Len(s)]]
<1> HIDE DEF u
<1>4. /\ h \in [1 .. Len(u) + 1 -> Stages]
      /\ \A i \in 1 .. Len(s) + 1 : h[i] = f[i]
      /\ \A i \in 1 .. Len(t) + 1 : h[Len(s) + i] = g[i]
  <2>1. ASSUME NEW i \in 1 .. Len(u) + 1
        PROVE  /\ (IF i <= Len(s) THEN f[i] ELSE g[i - Len(s)]) \in Stages
               /\ i \in 1 .. Len(s) + 1 => h[i] = f[i]
    <3>1. CASE i <= Len(s)
      <4>1. i \in 1 .. Len(s) + 1
        BY <1>1, <3>1
      <4> QED BY <3>1, <4>1
    <3>2. CASE i > Len(s)
      <4>1. i - Len(s) \in 1 .. Len(t) + 1
        BY <1>1, <3>2
      <4>2. i = Len(s) + 1 => i - Len(s) = 1
        BY <1>1
      <4>3. ~(i <= Len(s)) /\ g[i - Len(s)] \in Stages
        <5>1. ~(i <= Len(s))
          BY <1>1, <3>2
        <5>2. g[i - Len(s)] \in Stages
          BY <1>3, <4>1
        <5> QED BY <5>1, <5>2
      <4>4. h[i] = g[i - Len(s)]
        BY <4>3
      <4>5. i \in 1 .. Len(s) + 1 => i = Len(s) + 1
        BY <1>1, <3>2
      <4>6. i \in 1 .. Len(s) + 1 => h[i] = f[i]
        BY <1>2, <1>3, <4>2, <4>4, <4>5
      <4> QED BY <4>3, <4>6
    <3> QED BY <1>1, <3>1, <3>2
  <2>2. ASSUME NEW i \in 1 .. Len(t) + 1 PROVE h[Len(s) + i] = g[i]
    <3>1. /\ Len(s) + i \in 1 .. Len(u) + 1 /\ ~(Len(s) + i <= Len(s))
          /\ (Len(s) + i) - Len(s) = i
      BY <1>1
    <3> QED BY <3>1
  <2>3. \A i \in 1 .. Len(s) + 1 : i \in 1 .. Len(u) + 1
    BY <1>1
  <2> QED BY <2>1, <2>2, <2>3
<1> HIDE DEF h
<1>5. ASSUME NEW k \in 1 .. Len(u) PROVE Follows(h[k], u[k], h[k + 1], d)
  <2>1. CASE k \in 1 .. Len(s)
    <3>1. k \in 1 .. Len(s) + 1 /\ k + 1 \in 1 .. Len(s) + 1
      BY <1>1, <2>1
    <3> QED BY <1>1, <1>2, <1>4, <2>1, <3>1
  <2>2. CASE k \notin 1 .. Len(s)
    <3>1. PICK i \in Int : i = k - Len(s)
      <4>1. k - Len(s) \in Int
        BY <1>1
      <4> QED BY <4>1
    <3>2. /\ i \in 1 .. Len(t) /\ i \in 1 .. Len(t) + 1 /\ i + 1 \in 1 .. Len(t) + 1
          /\ k = Len(s) + i /\ k + 1 = Len(s) + (i + 1)
      BY <1>1, <2>2, <3>1
    <3> QED BY <1>1, <1>3, <1>4, <3>2
  <2> QED BY <2>1, <2>2
<1>6. h[1] = q /\ h[Len(u) + 1] = r
  <2>1. /\ 1 \in 1 .. Len(s) + 1 /\ Len(t) + 1 \in 1 .. Len(t) + 1
        /\ Len(u) + 1 = Len(s) + (Len(t) + 1)
    BY <1>1
  <2> QED BY <1>2, <1>3, <1>4, <2>1
<1>7. Leads(u, q, r, d)
  BY <1>4, <1>5, <1>6 DEF Leads
<1> QED BY <1>7 DEF u

LEMMA PathLeads ==
    ASSUME NEW s, NEW d, NEW n \in Nat, Len(s) = n, NEW f \in [1 .. n + 1 -> Stages],
           \A i \in 1 .. n : Follows(f[i], s[i], f[i + 1], d)
    PROVE  Leads(s, f[1], f[n + 1], d)
BY DEF Leads

LEMMA EmptyLeads == ASSUME NEW d, NEW q \in Stages PROVE Leads(<< >>, q, q, d)
<1> DEFINE f == [i \in 1 .. 0 + 1 |-> q]
<1>1. f \in [1 .. 0 + 1 -> Stages] /\ Len(<< >>) = 0
  OBVIOUS
<1>2. f[1] = q /\ f[0 + 1] = q
  OBVIOUS
<1> HIDE DEF f
<1>3. \A i \in 1 .. 0 : Follows(f[i], << >>[i], f[i + 1], d)
  OBVIOUS
<1>4. Leads(<< >>, f[1], f[0 + 1], d)
  BY <1>1, <1>3, PathLeads
<1> QED BY <1>2, <1>4

(* Removing, creating, and what is about another direction. *)
LEMMA DirectionLeads ==
    ASSUME NEW d \in Directions, NEW e \in Directions, NEW q \in Stages
    PROVE  /\ Leads(Removal(d), "whole", "gone", d)
           /\ Leads(Removal(d), "gone", "gone", d)
           /\ Leads(Creation(d), "gone", "whole", d)
           /\ e # d => Leads(Removal(e), q, q, d) /\ Leads(Creation(e), q, q, d)
<1>1. /\ Len(Removal(d)) = 5 /\ Len(Creation(d)) = 6
      /\ Len(Removal(e)) = 5 /\ Len(Creation(e)) = 6
  BY DEF Removal, Creation
<1>2. Leads(Removal(d), "whole", "gone", d)
  <2> DEFINE f == <<"whole", "dropped", "detached", "forgotten", "unregistered", "gone">>
  <2>1. f \in [1 .. 5 + 1 -> Stages]
    BY DEF Stages
  <2>2. \A i \in 1 .. 5 : Follows(f[i], Removal(d)[i], f[i + 1], d)
    BY DEF Follows, Removal, Moves
  <2>3. f[1] = "whole" /\ f[5 + 1] = "gone"
    OBVIOUS
  <2> HIDE DEF f
  <2> QED BY <1>1, <2>1, <2>2, <2>3, PathLeads
<1>3. Leads(Removal(d), "gone", "gone", d)
  <2> DEFINE f == [i \in 1 .. 5 + 1 |-> "gone"]
  <2>1. f \in [1 .. 5 + 1 -> Stages]
    BY DEF Stages
  <2>2. \A i \in 1 .. 5 : Follows(f[i], Removal(d)[i], f[i + 1], d)
    BY DEF Follows, Removal, Moves
  <2>3. f[1] = "gone" /\ f[5 + 1] = "gone"
    OBVIOUS
  <2> HIDE DEF f
  <2> QED BY <1>1, <2>1, <2>2, <2>3, PathLeads
<1>4. Leads(Creation(d), "gone", "whole", d)
  <2> DEFINE f == <<"gone", "gone", "created", "provided", "attached", "registered",
                    "whole">>
  <2>1. f \in [1 .. 6 + 1 -> Stages]
    BY DEF Stages
  <2>2. \A i \in 1 .. 6 : Follows(f[i], Creation(d)[i], f[i + 1], d)
    BY DEF Follows, Creation, Moves
  <2>3. f[1] = "gone" /\ f[6 + 1] = "whole"
    OBVIOUS
  <2> HIDE DEF f
  <2> QED BY <1>1, <2>1, <2>2, <2>3, PathLeads
<1>5. ASSUME e # d PROVE Leads(Removal(e), q, q, d) /\ Leads(Creation(e), q, q, d)
  <2> DEFINE f(n) == [i \in 1 .. n + 1 |-> q]
  <2>1. f(5) \in [1 .. 5 + 1 -> Stages] /\ f(6) \in [1 .. 6 + 1 -> Stages]
    OBVIOUS
  <2>2. \A i \in 1 .. 5 : Follows(f(5)[i], Removal(e)[i], f(5)[i + 1], d)
    BY <1>5 DEF Follows, Removal
  <2>3. \A i \in 1 .. 6 : Follows(f(6)[i], Creation(e)[i], f(6)[i + 1], d)
    BY <1>5 DEF Follows, Creation
  <2>4. /\ f(5)[1] = q /\ f(5)[5 + 1] = q /\ f(6)[1] = q /\ f(6)[6 + 1] = q
    OBVIOUS
  <2> HIDE DEF f
  <2>5. /\ Leads(Removal(e), f(5)[1], f(5)[5 + 1], d)
        /\ Leads(Creation(e), f(6)[1], f(6)[6 + 1], d)
    BY <1>1, <2>1, <2>2, <2>3, PathLeads
  <2> QED BY <2>4, <2>5
<1> QED BY <1>2, <1>3, <1>4, <1>5

(* The first statement leads somewhere, and the rest leads on from there. *)
LEMMA TailLeads ==
    ASSUME NEW s \in Seq(Steps), s # << >>, NEW d, NEW q, NEW r, Leads(s, q, r, d)
    PROVE  \E m \in Stages : Follows(q, Head(s), m, d) /\ Leads(Tail(s), m, r, d)
<1>1. /\ Len(s) \in Nat \ {0} /\ Head(s) = s[1] /\ Tail(s) \in Seq(Steps)
      /\ Len(Tail(s)) = Len(s) - 1
      /\ \A i \in 1 .. Len(s) - 1 : Tail(s)[i] = s[i + 1]
  OBVIOUS
<1>2. PICK f \in [1 .. Len(s) + 1 -> Stages] :
        /\ f[1] = q /\ f[Len(s) + 1] = r
        /\ \A i \in 1 .. Len(s) : Follows(f[i], s[i], f[i + 1], d)
  BY DEF Leads
<1>3. PICK n \in Nat : n + 1 = Len(s) /\ n = Len(s) - 1
  <2>1. Len(s) - 1 \in Nat /\ (Len(s) - 1) + 1 = Len(s)
    BY <1>1
  <2> QED BY <2>1
<1> DEFINE g == [i \in 1 .. n + 1 |-> f[i + 1]]
<1>4. g \in [1 .. n + 1 -> Stages]
  <2>1. \A i \in 1 .. n + 1 : i + 1 \in 1 .. Len(s) + 1
    BY <1>3
  <2> QED BY <1>2, <2>1
<1>5. \A i \in 1 .. n : Follows(g[i], Tail(s)[i], g[i + 1], d)
  <2>1. \A i \in 1 .. n : /\ i \in 1 .. Len(s) - 1 /\ i + 1 \in 1 .. Len(s)
                          /\ i \in 1 .. n + 1 /\ i + 1 \in 1 .. n + 1
    BY <1>3
  <2> QED BY <1>1, <1>2, <2>1
<1>6. g[1] = f[2] /\ g[n + 1] = r /\ f[2] \in Stages
  <2>1. 1 \in 1 .. n + 1 /\ n + 1 \in 1 .. n + 1 /\ 2 \in 1 .. Len(s) + 1
    BY <1>3
  <2> QED BY <1>2, <1>3, <2>1
<1> HIDE DEF g
<1>7. Len(Tail(s)) = n
  BY <1>1, <1>3
<1>8. Leads(Tail(s), f[2], r, d)
  BY <1>4, <1>5, <1>6, <1>7, PathLeads
<1>9. Follows(q, Head(s), f[2], d)
  <2>1. 1 \in 1 .. Len(s) /\ 1 + 1 = 2
    BY <1>1
  <2> QED BY <1>1, <1>2, <2>1
<1> QED BY <1>6, <1>8, <1>9

(* Where the process data is gone, a removal can be skipped; the other *)
(* direction does not notice.                                          *)
LEMMA SkippedLeads ==
    ASSUME NEW s \in Seq(Steps), NEW d \in Directions, NEW e \in Directions,
           NEW n \in Nat, Len(s) = n, 5 <= n,
           s[1] = <<"drop", d>>, s[2] = <<"detach", d>>, s[3] = <<"forget", d>>,
           s[4] = <<"unregister", d>>, s[5] = <<"clear", d>>,
           NEW q, NEW r, Leads(s, q, r, e), e = d => q = "gone"
    PROVE  Leads(SubSeq(s, 6, n), q, r, e)
<1> DEFINE t == SubSeq(s, 6, n)
<1>1. /\ t \in Seq(Steps) /\ Len(t) = n - 5
      /\ \A i \in 1 .. n - 5 : t[i] = s[i + 5]
  BY BehindRemoval
<1>2. PICK f \in [1 .. n + 1 -> Stages] :
        /\ f[1] = q /\ f[n + 1] = r
        /\ \A i \in 1 .. n : Follows(f[i], s[i], f[i + 1], e)
  BY DEF Leads
<1>3. f[6] = q
  <2>1. /\ Follows(f[1], s[1], f[2], e) /\ Follows(f[2], s[2], f[3], e)
        /\ Follows(f[3], s[3], f[4], e) /\ Follows(f[4], s[4], f[5], e)
        /\ Follows(f[5], s[5], f[6], e)
    <3>1. 1 \in 1 .. n /\ 2 \in 1 .. n /\ 3 \in 1 .. n /\ 4 \in 1 .. n /\ 5 \in 1 .. n
      OBVIOUS
    <3>2. 1 + 1 = 2 /\ 2 + 1 = 3 /\ 3 + 1 = 4 /\ 4 + 1 = 5 /\ 5 + 1 = 6
      OBVIOUS
    <3> QED BY <1>2, <3>1, <3>2
  <2>2. CASE e # d
    BY <1>2, <2>1, <2>2 DEF Follows
  <2>3. CASE e = d
    <3>1. ASSUME NEW a, NEW x \in {"drop", "detach", "forget", "unregister", "clear"},
                 Follows("gone", <<x, d>>, a, d)
          PROVE  a = "gone"
      BY <3>1 DEF Follows, Moves
    <3>2. /\ Follows(f[1], <<"drop", d>>, f[2], d)
          /\ Follows(f[2], <<"detach", d>>, f[3], d)
          /\ Follows(f[3], <<"forget", d>>, f[4], d)
          /\ Follows(f[4], <<"unregister", d>>, f[5], d)
          /\ Follows(f[5], <<"clear", d>>, f[6], d)
      BY <2>1, <2>3
    <3>3. f[1] = "gone"
      BY <1>2, <2>3
    <3>4. f[2] = "gone"
      BY <3>1, <3>2, <3>3
    <3>5. f[3] = "gone"
      BY <3>1, <3>2, <3>4
    <3>6. f[4] = "gone"
      BY <3>1, <3>2, <3>5
    <3>7. f[6] = "gone"
      <4>1. f[5] = "gone"
        BY <3>1, <3>2, <3>6
      <4> QED BY <3>1, <3>2, <4>1
    <3> QED BY <1>2, <2>3, <3>7
  <2> QED BY <2>2, <2>3
<1> HIDE DEF t
<1>4. PICK k \in Nat : k = n - 5
  OBVIOUS
<1> DEFINE g == [i \in 1 .. k + 1 |-> f[i + 5]]
<1>5. g \in [1 .. k + 1 -> Stages]
  <2>1. \A i \in 1 .. k + 1 : i + 5 \in 1 .. n + 1
    BY <1>4
  <2> QED BY <1>2, <2>1
<1>6. \A i \in 1 .. k : Follows(g[i], t[i], g[i + 1], e)
  <2>1. \A i \in 1 .. k : /\ i \in 1 .. n - 5 /\ i + 5 \in 1 .. n
                          /\ i \in 1 .. k + 1 /\ i + 1 \in 1 .. k + 1
                          /\ (i + 1) + 5 = (i + 5) + 1
    BY <1>4
  <2> QED BY <1>1, <1>2, <2>1
<1>7. g[1] = q /\ g[k + 1] = r
  <2>1. 1 \in 1 .. k + 1 /\ k + 1 \in 1 .. k + 1 /\ 1 + 5 = 6 /\ (k + 1) + 5 = n + 1
    BY <1>4
  <2> QED BY <1>2, <1>3, <2>1
<1> HIDE DEF g
<1>8. Leads(t, q, r, e)
  BY <1>1, <1>4, <1>5, <1>6, <1>7, PathLeads
<1> QED BY <1>8 DEF t

LEMMA JoinedRemovals ==
    ASSUME NEW s \in Seq(Steps), NEW t \in Seq(Steps), Removals(s), Removals(t)
    PROVE  Removals(s \o t)
<1> DEFINE u == s \o t
<1>1. /\ u \in Seq(Steps) /\ Len(u) = Len(s) + Len(t)
      /\ Len(s) \in Nat /\ Len(t) \in Nat
      /\ \A k \in 1 .. Len(s) : u[k] = s[k]
      /\ \A k \in 1 .. Len(t) : u[Len(s) + k] = t[k]
  BY Concatenation
<1> HIDE DEF u
<1>2. ASSUME NEW k \in 1 .. Len(u), u[k][1] = "drop"
      PROVE  /\ k + 4 <= Len(u)
             /\ u[k + 1] = <<"detach", u[k][2]>> /\ u[k + 2] = <<"forget", u[k][2]>>
             /\ u[k + 3] = <<"unregister", u[k][2]>> /\ u[k + 4] = <<"clear", u[k][2]>>
  <2>1. CASE k \in 1 .. Len(s)
    <3>1. k + 4 <= Len(s) /\ u[k] = s[k]
      BY <1>1, <1>2, <2>1 DEF Removals
    <3>2. /\ k + 1 \in 1 .. Len(s) /\ k + 2 \in 1 .. Len(s)
          /\ k + 3 \in 1 .. Len(s) /\ k + 4 \in 1 .. Len(s)
      BY <1>1, <2>1, <3>1
    <3>3. k + 4 <= Len(u)
      BY <1>1, <2>1, <3>1
    <3> QED BY <1>1, <1>2, <2>1, <3>1, <3>2, <3>3 DEF Removals
  <2>2. CASE k \notin 1 .. Len(s)
    <3>1. PICK i \in Int : i = k - Len(s)
      <4>1. k - Len(s) \in Int
        BY <1>1
      <4> QED BY <4>1
    <3>2. /\ i \in 1 .. Len(t) /\ k = Len(s) + i
          /\ k + 1 = Len(s) + (i + 1) /\ k + 2 = Len(s) + (i + 2)
          /\ k + 3 = Len(s) + (i + 3) /\ k + 4 = Len(s) + (i + 4)
      BY <1>1, <2>2, <3>1
    <3>3. u[k] = t[i]
      BY <1>1, <3>2
    <3>4. i + 4 <= Len(t)
      BY <1>2, <3>2, <3>3 DEF Removals
    <3>5. /\ i + 1 \in 1 .. Len(t) /\ i + 2 \in 1 .. Len(t)
          /\ i + 3 \in 1 .. Len(t) /\ i + 4 \in 1 .. Len(t)
      BY <1>1, <3>2, <3>4
    <3>6. k + 4 <= Len(u)
      BY <1>1, <3>2, <3>4
    <3>7. /\ u[k + 1] = t[i + 1] /\ u[k + 2] = t[i + 2]
          /\ u[k + 3] = t[i + 3] /\ u[k + 4] = t[i + 4]
      BY <1>1, <3>2, <3>5
    <3> QED BY <1>2, <3>2, <3>3, <3>6, <3>7 DEF Removals
  <2> QED BY <2>1, <2>2
<1>3. Removals(u)
  BY <1>2 DEF Removals
<1> QED BY <1>3 DEF u

LEMMA RestRemovals ==
    ASSUME NEW s \in Seq(Steps), NEW t \in Seq(Steps), Removals(s),
           NEW n \in Nat, Len(t) = Len(s) - n,
           \A i \in 1 .. Len(t) : t[i] = s[i + n]
    PROVE  Removals(t)
<1> SUFFICES ASSUME NEW k \in 1 .. Len(t), t[k][1] = "drop"
             PROVE  /\ k + 4 <= Len(t)
                    /\ t[k + 1] = <<"detach", t[k][2]>>
                    /\ t[k + 2] = <<"forget", t[k][2]>>
                    /\ t[k + 3] = <<"unregister", t[k][2]>>
                    /\ t[k + 4] = <<"clear", t[k][2]>>
  BY DEF Removals
<1>1. /\ Len(s) \in Nat /\ Len(t) \in Nat /\ k + n \in 1 .. Len(s)
  OBVIOUS
<1>2. t[k] = s[k + n]
  OBVIOUS
<1>3. (k + n) + 4 <= Len(s)
  BY <1>1, <1>2 DEF Removals
<1>4. /\ k + 4 <= Len(t)
      /\ k + 1 \in 1 .. Len(t) /\ k + 2 \in 1 .. Len(t)
      /\ k + 3 \in 1 .. Len(t) /\ k + 4 \in 1 .. Len(t)
      /\ (k + 1) + n = (k + n) + 1 /\ (k + 2) + n = (k + n) + 2
      /\ (k + 3) + n = (k + n) + 3 /\ (k + 4) + n = (k + n) + 4
  BY <1>1, <1>3
<1>5. /\ t[k + 1] = s[(k + n) + 1] /\ t[k + 2] = s[(k + n) + 2]
      /\ t[k + 3] = s[(k + n) + 3] /\ t[k + 4] = s[(k + n) + 4]
  BY <1>4
<1> QED BY <1>1, <1>2, <1>4, <1>5 DEF Removals

-----------------------------------------------------------------------------
(* What a call makes of the process data.                                  *)

(* The stage that goes with a state. *)
StageOf(s) == IF Exchanging(s) THEN "whole" ELSE "gone"

(* The two requests that pass SAFEOP and OP with the same from-state and   *)
(* create the process data twice (slave.cpp:900).                          *)
CreatesTwice == {<<"init", "op">>, <<"preop", "op">>}

LEMMA BothRemovals ==
    /\ ForBoth(Removal) \in Seq(Steps) /\ ForBoth(Creation) \in Seq(Steps)
    /\ Removals(ForBoth(Removal)) /\ Removals(ForBoth(Creation))
    /\ << >> \in Seq(Steps) /\ Removals(<< >>)
<1>2. << >> \in Seq(Steps) /\ Removals(<< >>)
  BY Empty DEF Removals
<1>3. ASSUME NEW e \in Directions
      PROVE  /\ Removal(e) \in Seq(Steps) /\ Removals(Removal(e))
             /\ Creation(e) \in Seq(Steps) /\ Removals(Creation(e))
  <2>1. Removal(e) \in Seq(Steps) /\ Creation(e) \in Seq(Steps)
    BY OneDirection
  <2>2. Removals(Removal(e))
    <3>1. /\ Len(Removal(e)) = 5
          /\ Removal(e)[1] = <<"drop", e>> /\ Removal(e)[2] = <<"detach", e>>
          /\ Removal(e)[3] = <<"forget", e>> /\ Removal(e)[4] = <<"unregister", e>>
          /\ Removal(e)[5] = <<"clear", e>>
      BY DEF Removal
    <3>2. \A k \in 1 .. 5 : Removal(e)[k][1] = "drop" => k = 1
      BY <3>1
    <3> QED BY <3>1, <3>2 DEF Removals
  <2>3. Removals(Creation(e))
    <3>1. Len(Creation(e)) = 6 /\ \A k \in 1 .. 6 : Creation(e)[k][1] # "drop"
      BY DEF Creation
    <3> QED BY <3>1 DEF Removals
  <2> QED BY <2>1, <2>2, <2>3
<1>4. ASSUME NEW A, NEW B, A \in Seq(Steps), B \in Seq(Steps), Removals(A), Removals(B)
      PROVE  A \o B \in Seq(Steps) /\ Removals(A \o B)
  BY <1>4, Concatenation, JoinedRemovals
<1>5. /\ ForBoth(Removal) \in Seq(Steps) /\ ForBoth(Creation) \in Seq(Steps)
      /\ Removals(ForBoth(Removal)) /\ Removals(ForBoth(Creation))
  BY <1>2, <1>3, <1>4 DEF ForBoth
<1> QED BY <1>2, <1>5

LEMMA BothLead ==
    ASSUME NEW d \in Directions
    PROVE  /\ Leads(ForBoth(Removal), "whole", "gone", d)
           /\ Leads(ForBoth(Removal), "gone", "gone", d)
           /\ Leads(ForBoth(Creation), "gone", "whole", d)
<1>1. d \in {"in", "out"} /\ "in" # "out" /\ {"whole", "gone"} \subseteq Stages
  BY ProcessDataAssumption DEF Stages
<1>2. /\ << >> \in Seq(Steps)
      /\ Leads(<< >>, "whole", "whole", d) /\ Leads(<< >>, "gone", "gone", d)
  BY <1>1, Empty, EmptyLeads
<1>3. ASSUME NEW e \in Directions
      PROVE  Removal(e) \in Seq(Steps) /\ Creation(e) \in Seq(Steps)
  BY OneDirection
<1>6. CASE d = "in"
  <2>1. /\ Leads(IF "out" \in Directions THEN Removal("out") ELSE << >>, "gone", "gone", d)
        /\ Leads(IF "out" \in Directions THEN Creation("out") ELSE << >>, "whole", "whole", d)
    BY <1>1, <1>2, <1>6, DirectionLeads
  <2>2. /\ (IF "in" \in Directions THEN Removal("in") ELSE << >>) = Removal(d)
        /\ (IF "in" \in Directions THEN Creation("in") ELSE << >>) = Creation(d)
    BY <1>6
  <2>3. /\ (IF "out" \in Directions THEN Removal("out") ELSE << >>) \in Seq(Steps)
        /\ (IF "out" \in Directions THEN Creation("out") ELSE << >>) \in Seq(Steps)
    BY <1>2, <1>3
  <2>4. /\ Leads(Removal(d), "whole", "gone", d) /\ Leads(Removal(d), "gone", "gone", d)
        /\ Leads(Creation(d), "gone", "whole", d)
    BY <1>1, DirectionLeads
  <2> QED BY <1>3, <2>1, <2>2, <2>3, <2>4, JoinedLeads DEF ForBoth
<1>7. CASE d = "out"
  <2>1. /\ Leads(IF "in" \in Directions THEN Removal("in") ELSE << >>, "gone", "gone", d)
        /\ Leads(IF "in" \in Directions THEN Removal("in") ELSE << >>, "whole", "whole", d)
        /\ Leads(IF "in" \in Directions THEN Creation("in") ELSE << >>, "gone", "gone", d)
    BY <1>1, <1>2, <1>7, DirectionLeads
  <2>2. /\ (IF "out" \in Directions THEN Removal("out") ELSE << >>) = Removal(d)
        /\ (IF "out" \in Directions THEN Creation("out") ELSE << >>) = Creation(d)
    BY <1>7
  <2>3. /\ (IF "in" \in Directions THEN Removal("in") ELSE << >>) \in Seq(Steps)
        /\ (IF "in" \in Directions THEN Creation("in") ELSE << >>) \in Seq(Steps)
    BY <1>2, <1>3
  <2>4. /\ Leads(Removal(d), "whole", "gone", d) /\ Leads(Removal(d), "gone", "gone", d)
        /\ Leads(Creation(d), "gone", "whole", d)
    BY <1>1, DirectionLeads
  <2> QED BY <1>3, <2>1, <2>2, <2>3, <2>4, JoinedLeads DEF ForBoth
<1> QED BY <1>1, <1>6, <1>7

LEMMA PostRemovals ==
    ASSUME NEW from, NEW rung
    PROVE  /\ Post(from, rung) \in Seq(Steps) /\ Removals(Post(from, rung))
           /\ StartsReceiving(from, rung) => ~StopsReceiving(from, rung)
           /\ StopsReceiving(from, rung) => Post(from, rung) = ForBoth(Removal)
           /\ StartsReceiving(from, rung) => Post(from, rung) = ForBoth(Creation)
           /\ ~StopsReceiving(from, rung) /\ ~StartsReceiving(from, rung) =>
                Post(from, rung) = << >>
<1>1. StartsReceiving(from, rung) => ~StopsReceiving(from, rung)
  BY DEF StartsReceiving, StopsReceiving
<1>2. /\ ForBoth(Removal) \o << >> = ForBoth(Removal)
      /\ << >> \o ForBoth(Creation) = ForBoth(Creation) /\ << >> \o << >> = << >>
  BY BothRemovals
<1>3. /\ StopsReceiving(from, rung) => Post(from, rung) = ForBoth(Removal)
      /\ StartsReceiving(from, rung) => Post(from, rung) = ForBoth(Creation)
      /\ ~StopsReceiving(from, rung) /\ ~StartsReceiving(from, rung) =>
           Post(from, rung) = << >>
  BY <1>1, <1>2 DEF Post
<1> QED BY <1>1, <1>3, BothRemovals

LEMMA TransitionRemovals ==
    ASSUME NEW from, NEW rung \in States
    PROVE  Transition(from, rung) \in Seq(Steps) /\ Removals(Transition(from, rung))
<1> DEFINE bs == <<<<"bus", rung>>>>
<1>1. <<"bus", rung>> \in Steps
  BY DEF Steps
<1>2. bs \in Seq(Steps) /\ Len(bs) = 1 /\ bs[1] = <<"bus", rung>>
  BY <1>1
<1>3. Removals(bs)
  BY <1>2 DEF Removals
<1>4. Transition(from, rung) = bs \o Post(from, rung)
  BY DEF Transition
<1> HIDE DEF bs
<1> QED BY <1>2, <1>3, <1>4, PostRemovals, Concatenation, JoinedRemovals

LEMMA TransitionLeads ==
    ASSUME NEW from \in States, NEW rung \in States, NEW d \in Directions,
           NEW q \in Stages
    PROVE  /\ StopsReceiving(from, rung) =>
                /\ Leads(Transition(from, rung), "whole", "gone", d)
                /\ Leads(Transition(from, rung), "gone", "gone", d)
           /\ StartsReceiving(from, rung) =>
                Leads(Transition(from, rung), "gone", "whole", d)
           /\ ~StopsReceiving(from, rung) /\ ~StartsReceiving(from, rung) =>
                Leads(Transition(from, rung), q, q, d)
<1> DEFINE bs == <<<<"bus", rung>>>>
           post == Post(from, rung)
<1>1. bs \in Seq(Steps) /\ \A p \in Stages : Leads(bs, p, p, d)
  <2>1. <<"bus", rung>> \in Steps
    BY DEF Steps
  <2>2. bs \in Seq(Steps) /\ Len(bs) = 1 /\ bs[1] = <<"bus", rung>>
    BY <2>1
  <2>3. ASSUME NEW p \in Stages PROVE Leads(bs, p, p, d)
    <3> DEFINE f == [i \in 1 .. 1 + 1 |-> p]
    <3>1. f \in [1 .. 1 + 1 -> Stages] /\ f[1] = p /\ f[1 + 1] = p
      OBVIOUS
    <3>2. \A i \in 1 .. 1 : Follows(f[i], bs[i], f[i + 1], d)
      BY <2>2 DEF Follows
    <3> HIDE DEF f, bs
    <3> QED BY <2>2, <3>1, <3>2, PathLeads
  <2> QED BY <2>2, <2>3
<1>2. Leads(<< >>, q, q, d) /\ {"whole", "gone"} \subseteq Stages
  BY EmptyLeads DEF Stages
<1>3. /\ post \in Seq(Steps)
      /\ StopsReceiving(from, rung) =>
           Leads(post, "whole", "gone", d) /\ Leads(post, "gone", "gone", d)
      /\ StartsReceiving(from, rung) => Leads(post, "gone", "whole", d)
      /\ ~StopsReceiving(from, rung) /\ ~StartsReceiving(from, rung) => Leads(post, q, q, d)
  BY <1>2, PostRemovals, BothLead
<1>4. Transition(from, rung) = bs \o post
  BY DEF Transition
<1> HIDE DEF bs, post
<1> QED BY <1>1, <1>2, <1>3, <1>4, JoinedLeads

LEMMA Heights ==
    /\ Height("init") = 1 /\ Height("preop") = 2
    /\ Height("safeop") = 3 /\ Height("op") = 4
<1>1. ASSUME NEW s, NEW n \in 1 .. 4, Rungs[n] = s PROVE Height(s) = n
  <2>1. \A i \in 1 .. 4 : Rungs[i] = s => i = n
    BY <1>1 DEF Rungs
  <2> QED BY <1>1, <2>1 DEF Height
<1>2. /\ Rungs[1] = "init" /\ Rungs[2] = "preop" /\ Rungs[3] = "safeop"
      /\ Rungs[4] = "op"
  BY DEF Rungs
<1> QED BY <1>1, <1>2

(* The rungs of the requests that go up. *)
LEMMA UpwardPaths ==
    /\ Path("init", "preop") = [i \in 1 .. 1 |-> Rungs[1 + i]]
    /\ Path("init", "safeop") = [i \in 1 .. 2 |-> Rungs[1 + i]]
    /\ Path("preop", "safeop") = [i \in 1 .. 1 |-> Rungs[2 + i]]
    /\ Path("safeop", "op") = [i \in 1 .. 1 |-> Rungs[3 + i]]
BY Heights DEF Path

(* The rungs of the requests that go down. *)
LEMMA DownwardPaths ==
    /\ Path("preop", "init") = [i \in 1 .. 1 |-> Rungs[2 - i]]
    /\ Path("safeop", "preop") = [i \in 1 .. 1 |-> Rungs[3 - i]]
    /\ Path("safeop", "init") = [i \in 1 .. 2 |-> Rungs[3 - i]]
    /\ Path("op", "safeop") = [i \in 1 .. 1 |-> Rungs[4 - i]]
    /\ Path("op", "preop") = [i \in 1 .. 2 |-> Rungs[4 - i]]
    /\ Path("op", "init") = [i \in 1 .. 3 |-> Rungs[4 - i]]
BY Heights DEF Path

(* The scripts for one, two and three rungs. *)
LEMMA OneLeg ==
    ASSUME NEW from \in States, NEW to \in States, NEW p,
           Path(from, to) = p, DOMAIN p = 1 .. 1
    PROVE  Script(from, to) = Transition(from, p[1]) \o << >> \o << >>
<1> DEFINE Leg(i) == IF i \in DOMAIN p THEN Transition(from, p[i]) ELSE << >>
<1>1. Script(from, to) = Leg(1) \o Leg(2) \o Leg(3)
  BY DEF Script
<1>2. 1 \in 1 .. 1 /\ 2 \notin 1 .. 1 /\ 3 \notin 1 .. 1
  OBVIOUS
<1> QED BY <1>1, <1>2, Zenon

LEMMA TwoLegs ==
    ASSUME NEW from \in States, NEW to \in States, NEW p,
           Path(from, to) = p, DOMAIN p = 1 .. 2
    PROVE  Script(from, to) = Transition(from, p[1]) \o Transition(from, p[2]) \o << >>
<1> DEFINE Leg(i) == IF i \in DOMAIN p THEN Transition(from, p[i]) ELSE << >>
<1>1. Script(from, to) = Leg(1) \o Leg(2) \o Leg(3)
  BY DEF Script
<1>2. 1 \in 1 .. 2 /\ 2 \in 1 .. 2 /\ 3 \notin 1 .. 2
  OBVIOUS
<1> QED BY <1>1, <1>2, Zenon

LEMMA ThreeLegs ==
    ASSUME NEW from \in States, NEW to \in States, NEW p,
           Path(from, to) = p, DOMAIN p = 1 .. 3
    PROVE  Script(from, to) = Transition(from, p[1]) \o Transition(from, p[2])
                                  \o Transition(from, p[3])
<1> DEFINE Leg(i) == IF i \in DOMAIN p THEN Transition(from, p[i]) ELSE << >>
<1>1. Script(from, to) = Leg(1) \o Leg(2) \o Leg(3)
  BY DEF Script
<1>2. 1 \in 1 .. 3 /\ 2 \in 1 .. 3 /\ 3 \in 1 .. 3
  OBVIOUS
<1> QED BY <1>1, <1>2, Zenon

LEMMA ThreeLead ==
    ASSUME NEW s \in Seq(Steps), NEW t \in Seq(Steps), NEW u \in Seq(Steps),
           NEW d, NEW q, NEW p, NEW m, NEW r,
           Leads(s, q, p, d), Leads(t, p, m, d), Leads(u, m, r, d)
    PROVE  Leads(s \o t \o u, q, r, d)
<1>1. s \o t \in Seq(Steps) /\ Leads(s \o t, q, m, d)
  BY Concatenation, JoinedLeads
<1> QED BY <1>1, JoinedLeads

(* A request that is not one of the two that create twice leads from the   *)
(* stage of one state to the stage of the other.                           *)
LEMMA ScriptLeads ==
    ASSUME NEW from \in States, NEW to \in States, from # to,
           <<from, to>> \notin CreatesTwice, NEW d \in Directions
    PROVE  Leads(Script(from, to), StageOf(from), StageOf(to), d)
<1> USE DEF StageOf, Exchanging
<1>1. /\ Rungs[1] = "init" /\ Rungs[2] = "preop" /\ Rungs[3] = "safeop"
      /\ Rungs[4] = "op" /\ {"init", "preop", "safeop", "op"} \subseteq States
  BY DEF Rungs, States
<1>2. /\ << >> \in Seq(Steps) /\ Leads(<< >>, "whole", "whole", d)
      /\ Leads(<< >>, "gone", "gone", d) /\ {"whole", "gone"} \subseteq Stages
  BY Empty, EmptyLeads DEF Stages
<1> DEFINE T(a, b) == Transition(a, b)
<1>3. ASSUME NEW a \in States, NEW b \in States
      PROVE  /\ T(a, b) \in Seq(Steps)
             /\ StopsReceiving(a, b) =>
                  Leads(T(a, b), "whole", "gone", d) /\ Leads(T(a, b), "gone", "gone", d)
             /\ StartsReceiving(a, b) => Leads(T(a, b), "gone", "whole", d)
             /\ ~StopsReceiving(a, b) /\ ~StartsReceiving(a, b) =>
                  Leads(T(a, b), "whole", "whole", d) /\ Leads(T(a, b), "gone", "gone", d)
  BY <1>2, TransitionLeads, TransitionRemovals
<1>4. /\ T("init", "preop") \in Seq(Steps) /\ T("init", "safeop") \in Seq(Steps)
      /\ T("preop", "safeop") \in Seq(Steps) /\ T("safeop", "op") \in Seq(Steps)
      /\ T("preop", "init") \in Seq(Steps) /\ T("safeop", "preop") \in Seq(Steps)
      /\ T("safeop", "init") \in Seq(Steps) /\ T("op", "safeop") \in Seq(Steps)
      /\ T("op", "preop") \in Seq(Steps) /\ T("op", "init") \in Seq(Steps)
  BY <1>1, <1>3
<1>5. /\ Leads(T("init", "preop"), "gone", "gone", d)
      /\ Leads(T("init", "safeop"), "gone", "whole", d)
      /\ Leads(T("preop", "safeop"), "gone", "whole", d)
      /\ Leads(T("safeop", "op"), "whole", "whole", d)
      /\ Leads(T("preop", "init"), "gone", "gone", d)
  BY <1>1, <1>3 DEF StopsReceiving, StartsReceiving
<1>6. /\ Leads(T("safeop", "preop"), "whole", "gone", d)
      /\ Leads(T("safeop", "init"), "gone", "gone", d)
      /\ Leads(T("op", "safeop"), "whole", "whole", d)
      /\ Leads(T("op", "preop"), "whole", "gone", d)
      /\ Leads(T("op", "init"), "gone", "gone", d)
  BY <1>1, <1>3 DEF StopsReceiving, StartsReceiving
<1> HIDE DEF T
<1>7. /\ Script("init", "preop") = T("init", "preop") \o << >> \o << >>
      /\ Script("init", "safeop") = T("init", "preop") \o T("init", "safeop") \o << >>
      /\ Script("preop", "safeop") = T("preop", "safeop") \o << >> \o << >>
      /\ Script("safeop", "op") = T("safeop", "op") \o << >> \o << >>
  <2>1. Script("init", "preop") = T("init", "preop") \o << >> \o << >>
    <3> DEFINE p == [i \in 1 .. 1 |-> Rungs[1 + i]]
    <3>1. Path("init", "preop") = p /\ DOMAIN p = 1 .. 1
      BY UpwardPaths
    <3>2. p[1] = "preop"
      BY <1>1
    <3> HIDE DEF p
    <3> QED BY <1>1, <3>1, <3>2, OneLeg DEF T
  <2>2. Script("init", "safeop") = T("init", "preop") \o T("init", "safeop") \o << >>
    <3> DEFINE p == [i \in 1 .. 2 |-> Rungs[1 + i]]
    <3>1. Path("init", "safeop") = p /\ DOMAIN p = 1 .. 2
      BY UpwardPaths
    <3>2. p[1] = "preop" /\ p[2] = "safeop"
      BY <1>1
    <3> HIDE DEF p
    <3>3. Script("init", "safeop") = Transition("init", p[1]) \o Transition("init", p[2]) \o << >>
      BY ONLY <3>1, TwoLegs, Zenon DEF States
    <3> QED BY ONLY <3>2, <3>3, Zenon DEF T
  <2>3. Script("preop", "safeop") = T("preop", "safeop") \o << >> \o << >>
    <3> DEFINE p == [i \in 1 .. 1 |-> Rungs[2 + i]]
    <3>1. Path("preop", "safeop") = p /\ DOMAIN p = 1 .. 1
      BY UpwardPaths
    <3>2. p[1] = "safeop"
      BY <1>1
    <3> HIDE DEF p
    <3> QED BY <1>1, <3>1, <3>2, OneLeg DEF T
  <2>4. Script("safeop", "op") = T("safeop", "op") \o << >> \o << >>
    <3> DEFINE p == [i \in 1 .. 1 |-> Rungs[3 + i]]
    <3>1. Path("safeop", "op") = p /\ DOMAIN p = 1 .. 1
      BY UpwardPaths
    <3>2. p[1] = "op"
      BY <1>1
    <3> HIDE DEF p
    <3> QED BY <1>1, <3>1, <3>2, OneLeg DEF T
  <2> QED BY <2>1, <2>2, <2>3, <2>4, Zenon
<1>8. /\ Script("preop", "init") = T("preop", "init") \o << >> \o << >>
      /\ Script("safeop", "preop") = T("safeop", "preop") \o << >> \o << >>
      /\ Script("safeop", "init") = T("safeop", "preop") \o T("safeop", "init") \o << >>
      /\ Script("op", "safeop") = T("op", "safeop") \o << >> \o << >>
      /\ Script("op", "preop") = T("op", "safeop") \o T("op", "preop") \o << >>
      /\ Script("op", "init") = T("op", "safeop") \o T("op", "preop") \o T("op", "init")
  <2>1. Script("preop", "init") = T("preop", "init") \o << >> \o << >>
    <3> DEFINE p == [i \in 1 .. 1 |-> Rungs[2 - i]]
    <3>1. Path("preop", "init") = p /\ DOMAIN p = 1 .. 1
      BY DownwardPaths
    <3>2. p[1] = "init"
      BY <1>1
    <3> HIDE DEF p
    <3> QED BY <1>1, <3>1, <3>2, OneLeg DEF T
  <2>2. Script("safeop", "preop") = T("safeop", "preop") \o << >> \o << >>
    <3> DEFINE p == [i \in 1 .. 1 |-> Rungs[3 - i]]
    <3>1. Path("safeop", "preop") = p /\ DOMAIN p = 1 .. 1
      BY DownwardPaths
    <3>2. p[1] = "preop"
      BY <1>1
    <3> HIDE DEF p
    <3> QED BY <1>1, <3>1, <3>2, OneLeg DEF T
  <2>3. Script("safeop", "init") = T("safeop", "preop") \o T("safeop", "init") \o << >>
    <3> DEFINE p == [i \in 1 .. 2 |-> Rungs[3 - i]]
    <3>1. Path("safeop", "init") = p /\ DOMAIN p = 1 .. 2
      BY DownwardPaths
    <3>2. p[1] = "preop" /\ p[2] = "init"
      BY <1>1
    <3> HIDE DEF p
    <3>3. Script("safeop", "init") = Transition("safeop", p[1]) \o Transition("safeop", p[2]) \o << >>
      BY ONLY <3>1, TwoLegs, Zenon DEF States
    <3> QED BY ONLY <3>2, <3>3, Zenon DEF T
  <2>4. Script("op", "safeop") = T("op", "safeop") \o << >> \o << >>
    <3> DEFINE p == [i \in 1 .. 1 |-> Rungs[4 - i]]
    <3>1. Path("op", "safeop") = p /\ DOMAIN p = 1 .. 1
      BY DownwardPaths
    <3>2. p[1] = "safeop"
      BY <1>1
    <3> HIDE DEF p
    <3> QED BY <1>1, <3>1, <3>2, OneLeg DEF T
  <2>5. Script("op", "preop") = T("op", "safeop") \o T("op", "preop") \o << >>
    <3> DEFINE p == [i \in 1 .. 2 |-> Rungs[4 - i]]
    <3>1. Path("op", "preop") = p /\ DOMAIN p = 1 .. 2
      BY DownwardPaths
    <3>2. p[1] = "safeop" /\ p[2] = "preop"
      BY <1>1
    <3> HIDE DEF p
    <3>3. Script("op", "preop") = Transition("op", p[1]) \o Transition("op", p[2]) \o << >>
      BY ONLY <3>1, TwoLegs, Zenon DEF States
    <3> QED BY ONLY <3>2, <3>3, Zenon DEF T
  <2>6. Script("op", "init") = T("op", "safeop") \o T("op", "preop") \o T("op", "init")
    <3> DEFINE p == [i \in 1 .. 3 |-> Rungs[4 - i]]
    <3>1. Path("op", "init") = p /\ DOMAIN p = 1 .. 3
      BY DownwardPaths
    <3>2. p[1] = "safeop" /\ p[2] = "preop" /\ p[3] = "init"
      BY <1>1
    <3> HIDE DEF p
    <3>3. Script("op", "init") = Transition("op", p[1]) \o Transition("op", p[2])
                                  \o Transition("op", p[3])
      BY ONLY <3>1, ThreeLegs, Zenon DEF States
    <3> QED BY ONLY <3>2, <3>3, Zenon DEF T
  <2> QED BY <2>1, <2>2, <2>3, <2>4, <2>5, <2>6, Zenon
<1>9. CASE from = "init" /\ to = "preop"
  BY <1>2, <1>4, <1>5, <1>7, <1>9, ThreeLead
<1>10. CASE from = "init" /\ to = "safeop"
  <2>1. /\ T("init", "preop") \in Seq(Steps) /\ T("init", "safeop") \in Seq(Steps)
        /\ << >> \in Seq(Steps)
        /\ Leads(T("init", "preop"), "gone", "gone", d)
        /\ Leads(T("init", "safeop"), "gone", "whole", d)
        /\ Leads(<< >>, "whole", "whole", d)
    BY <1>2, <1>4, <1>5, <1>6
  <2>2. Leads(T("init", "preop") \o T("init", "safeop") \o << >>, "gone", "whole", d)
    BY ONLY <2>1, ThreeLead
  <2> QED BY <1>7, <1>10, <2>2
<1>11. CASE from = "preop" /\ to = "safeop"
  BY <1>2, <1>4, <1>5, <1>7, <1>11, ThreeLead
<1>12. CASE from = "safeop" /\ to = "op"
  BY <1>2, <1>4, <1>5, <1>7, <1>12, ThreeLead
<1>13. CASE from = "preop" /\ to = "init"
  BY <1>2, <1>4, <1>5, <1>8, <1>13, ThreeLead
<1>14. CASE from = "safeop" /\ to = "preop"
  BY <1>2, <1>4, <1>6, <1>8, <1>14, ThreeLead
<1>15. CASE from = "safeop" /\ to = "init"
  <2>1. /\ T("safeop", "preop") \in Seq(Steps) /\ T("safeop", "init") \in Seq(Steps)
        /\ << >> \in Seq(Steps)
        /\ Leads(T("safeop", "preop"), "whole", "gone", d)
        /\ Leads(T("safeop", "init"), "gone", "gone", d)
        /\ Leads(<< >>, "gone", "gone", d)
    BY <1>2, <1>4, <1>5, <1>6
  <2>2. Leads(T("safeop", "preop") \o T("safeop", "init") \o << >>, "whole", "gone", d)
    BY ONLY <2>1, ThreeLead
  <2> QED BY <1>8, <1>15, <2>2
<1>16. CASE from = "op" /\ to = "safeop"
  BY <1>2, <1>4, <1>6, <1>8, <1>16, ThreeLead
<1>17. CASE from = "op" /\ to = "preop"
  <2>1. /\ T("op", "safeop") \in Seq(Steps) /\ T("op", "preop") \in Seq(Steps)
        /\ << >> \in Seq(Steps)
        /\ Leads(T("op", "safeop"), "whole", "whole", d)
        /\ Leads(T("op", "preop"), "whole", "gone", d)
        /\ Leads(<< >>, "gone", "gone", d)
    BY <1>2, <1>4, <1>5, <1>6
  <2>2. Leads(T("op", "safeop") \o T("op", "preop") \o << >>, "whole", "gone", d)
    BY ONLY <2>1, ThreeLead
  <2> QED BY <1>8, <1>17, <2>2
<1>18. CASE from = "op" /\ to = "init"
  <2>1. /\ T("op", "safeop") \in Seq(Steps) /\ T("op", "preop") \in Seq(Steps)
        /\ T("op", "init") \in Seq(Steps)
        /\ Leads(T("op", "safeop"), "whole", "whole", d)
        /\ Leads(T("op", "preop"), "whole", "gone", d)
        /\ Leads(T("op", "init"), "gone", "gone", d)
    BY <1>2, <1>4, <1>5, <1>6
  <2>2. Leads(T("op", "safeop") \o T("op", "preop") \o T("op", "init"), "whole", "gone", d)
    BY ONLY <2>1, ThreeLead
  <2> QED BY <1>8, <1>18, <2>2
<1> QED
  BY <1>9, <1>10, <1>11, <1>12, <1>13, <1>14, <1>15, <1>16, <1>17, <1>18
  DEF States, CreatesTwice

LEMMA ScriptRemovals ==
    ASSUME NEW from \in States, NEW to \in States
    PROVE  Removals(Script(from, to))
<1> DEFINE path == Path(from, to)
           Leg(i) == IF i \in DOMAIN path THEN Transition(from, path[i]) ELSE << >>
<1>1. ASSUME NEW i PROVE Leg(i) \in Seq(Steps) /\ Removals(Leg(i))
  <2>1. CASE i \in DOMAIN path
    <3>1. path[i] \in States
      BY <2>1, PathType
    <3> QED BY <2>1, <3>1, TransitionRemovals
  <2>2. CASE i \notin DOMAIN path
    BY <2>2, Empty DEF Removals
  <2> QED BY <2>1, <2>2
<1>2. Script(from, to) = Leg(1) \o Leg(2) \o Leg(3)
  BY DEF Script
<1> HIDE DEF Leg, path
<1>3. Leg(1) \o Leg(2) \in Seq(Steps) /\ Removals(Leg(1) \o Leg(2))
  BY <1>1, Concatenation, JoinedRemovals
<1> QED BY <1>1, <1>2, <1>3, JoinedRemovals

(* A call has something to do. *)
LEMMA ScriptNotEmpty ==
    ASSUME NEW from \in States, NEW to \in States, from # to
    PROVE  Script(from, to) # << >>
<1> DEFINE path == Path(from, to)
           Leg(i) == IF i \in DOMAIN path THEN Transition(from, path[i]) ELSE << >>
<1>1. Height(from) \in 1 .. 4 /\ Height(to) \in 1 .. 4 /\ Height(from) # Height(to)
  BY Heights DEF States
<1>2. 1 \in DOMAIN path
  BY <1>1 DEF Path
<1>3. ASSUME NEW i PROVE Leg(i) \in Seq(Steps)
  <2>1. i \in DOMAIN path => path[i] \in States
    BY PathType
  <2> QED BY <2>1, TransitionRemovals, Empty
<1>4. Len(Leg(1)) # 0
  <2>1. path[1] \in States
    BY <1>2, PathType
  <2>2. /\ <<<<"bus", path[1]>>>> \in Seq(Steps) /\ Len(<<<<"bus", path[1]>>>>) = 1
        /\ Post(from, path[1]) \in Seq(Steps)
    BY <2>1, PostScript DEF Steps
  <2>3. Leg(1) = <<<<"bus", path[1]>>>> \o Post(from, path[1])
    BY <1>2 DEF Transition
  <2> HIDE DEF path, Leg
  <2> QED BY <2>2, <2>3, Concatenation
<1>5. Script(from, to) = Leg(1) \o Leg(2) \o Leg(3)
  BY DEF Script
<1> HIDE DEF path, Leg
<1>6. /\ Leg(1) \o Leg(2) \in Seq(Steps) /\ Len(Leg(1) \o Leg(2)) # 0
  BY <1>3, <1>4, Concatenation
<1>7. Len(Script(from, to)) # 0
  BY <1>3, <1>5, <1>6, Concatenation
<1> QED BY <1>7

-----------------------------------------------------------------------------
(* The invariant: each direction is at a stage from which the rest of the  *)
(* statements leads to the stage of the wanted state.                      *)

Entries(d) == {dev \in registry : dev[2] = d}

InStage(q, d) ==
    /\ pd[d] = None <=> q = "gone"
    /\ insp[d] = IF q = "whole" THEN pd[d] ELSE None
    /\ q \in {"gone", "forgotten", "unregistered"} => prov[d] = None
    /\ q \in {"provided", "attached", "registered", "whole"} => prov[d] # None
    /\ q \in {"attached", "registered", "whole"} => attached[d][pd[d]] = prov[d]
    /\ Entries(d) =
         (IF q \in {"registered", "whole", "dropped", "detached", "forgotten"}
          THEN {<<"pd", d, pd[d]>>} ELSE {})
         \union (IF q = "whole" THEN {<<"insp", d, pd[d]>>} ELSE {})

Progress(d) ==
    \E q \in Stages : InStage(q, d) /\ Leads(todo, q, StageOf(target), d)

WholeInv ==
    /\ TypeOK /\ Removals(todo)
    /\ Idle => state = target
    /\ \A d \in Directions : Progress(d)

(* The other direction keeps its stage. *)
LEMMA OtherStage ==
    ASSUME TypeOK, NEW d \in Directions, NEW e \in Directions, e # d, Device(d),
           NEW q, InStage(q, e)
    PROVE  InStage(q, e)'
<1>1. pd'[e] = pd[e] /\ prov'[e] = prov[e] /\ insp'[e] = insp[e]
  BY DEF Device, DropInspection, Detach, ForgetProvider, Unregister, Clear, Create,
         Provide, Attach, Register, Inspect, TypeOK
<1>2. attached'[e] = attached[e]
  BY DEF Device, DropInspection, Detach, ForgetProvider, Unregister, Clear, Create,
         Provide, Attach, Register, Inspect, TypeOK
<1>3. Entries(e)' = Entries(e)
  <2>1. \/ registry' = registry
        \/ \E x : x[2] = d /\ registry' \in {registry \ {x}, registry \union {x}}
    BY DEF Device, DropInspection, Detach, ForgetProvider, Unregister, Clear, Create,
           Provide, Attach, Register, Inspect
  <2> QED BY <2>1 DEF Entries
<1> QED BY <1>1, <1>2, <1>3 DEF InStage

(* What a removal does to a direction. *)
LEMMA RemovedStage ==
    ASSUME TypeOK, NEW d \in Directions, NEW q, NEW m, InStage(q, d)
    PROVE  /\ DropInspection(d) /\ <<q, "drop", m>> \in Moves => InStage(m, d)'
           /\ Detach(d) /\ <<q, "detach", m>> \in Moves => InStage(m, d)'
           /\ ForgetProvider(d) /\ <<q, "forget", m>> \in Moves => InStage(m, d)'
           /\ Unregister(d) /\ <<q, "unregister", m>> \in Moves => InStage(m, d)'
           /\ Clear(d) /\ <<q, "clear", m>> \in Moves => InStage(m, d)'
<1>1. ASSUME DropInspection(d), <<q, "drop", m>> \in Moves PROVE InStage(m, d)'
  <2>1. /\ pd[d] # None /\ registry' = registry \ {<<"insp", d, insp[d]>>}
        /\ insp'[d] = None /\ UNCHANGED <<pd, prov, attached>>
    BY <1>1 DEF DropInspection, TypeOK
  <2>2. q = "whole" /\ m = "dropped"
    BY <1>1, <2>1 DEF Moves, InStage
  <2>3. Entries(d)' = {<<"pd", d, pd[d]>>}
    BY <2>1, <2>2 DEF InStage, Entries
  <2> QED BY <2>1, <2>2, <2>3 DEF InStage
<1>2. ASSUME Detach(d), <<q, "detach", m>> \in Moves PROVE InStage(m, d)'
  <2>1. UNCHANGED <<pd, prov, insp, registry>>
    BY <1>2 DEF Detach
  <2>2. (q = "dropped" /\ m = "detached") \/ (q = "gone" /\ m = "gone")
    BY <1>2 DEF Moves
  <2>3. Entries(d)' = Entries(d)
    BY <2>1 DEF Entries
  <2> QED BY <2>1, <2>2, <2>3 DEF InStage
<1>3. ASSUME ForgetProvider(d), <<q, "forget", m>> \in Moves PROVE InStage(m, d)'
  <2>1. prov'[d] = None /\ UNCHANGED <<pd, insp, attached, registry>>
    BY <1>3 DEF ForgetProvider, TypeOK
  <2>2. (q = "detached" /\ m = "forgotten") \/ (q = "gone" /\ m = "gone")
    BY <1>3 DEF Moves
  <2>3. Entries(d)' = Entries(d)
    BY <2>1 DEF Entries
  <2> QED BY <2>1, <2>2, <2>3 DEF InStage
<1>4. ASSUME Unregister(d), <<q, "unregister", m>> \in Moves PROVE InStage(m, d)'
  <2>1. /\ registry' = registry \ {<<"pd", d, pd[d]>>}
        /\ UNCHANGED <<pd, prov, insp, attached>>
    BY <1>4 DEF Unregister
  <2>2. (q = "forgotten" /\ m = "unregistered") \/ (q = "gone" /\ m = "gone")
    BY <1>4 DEF Moves
  <2>3. Entries(d)' = {}
    BY <2>1, <2>2 DEF InStage, Entries
  <2> QED BY <2>1, <2>2, <2>3 DEF InStage
<1>5. ASSUME Clear(d), <<q, "clear", m>> \in Moves PROVE InStage(m, d)'
  <2>1. pd'[d] = None /\ UNCHANGED <<prov, insp, attached, registry>>
    BY <1>5 DEF Clear, TypeOK
  <2>2. (q = "unregistered" \/ q = "gone") /\ m = "gone"
    BY <1>5 DEF Moves
  <2>3. Entries(d)' = {}
    BY <2>1, <2>2 DEF InStage, Entries
  <2> QED BY <2>1, <2>2, <2>3 DEF InStage
<1> QED BY <1>1, <1>2, <1>3, <1>4, <1>5

(* What a creation does to a direction. *)
LEMMA CreatedStage ==
    ASSUME TypeOK, NEW d \in Directions, NEW q, NEW m, InStage(q, d)
    PROVE  /\ Create(d) /\ <<q, "create", m>> \in Moves => InStage(m, d)'
           /\ Provide(d) /\ <<q, "provide", m>> \in Moves => InStage(m, d)'
           /\ Attach(d) /\ <<q, "attach", m>> \in Moves => InStage(m, d)'
           /\ Register(d) /\ <<q, "register", m>> \in Moves => InStage(m, d)'
           /\ Inspect(d) /\ <<q, "inspect", m>> \in Moves => InStage(m, d)'
<1>0. None \notin Ids
  BY ProcessDataAssumption DEF None
<1>1. ASSUME Create(d), <<q, "create", m>> \in Moves PROVE InStage(m, d)'
  <2>1. pd'[d] \in Ids /\ UNCHANGED <<prov, insp, registry>>
    BY <1>1 DEF Create, Fresh, TypeOK
  <2>2. q = "gone" /\ m = "created"
    BY <1>1 DEF Moves
  <2>3. Entries(d)' = {}
    BY <2>1, <2>2 DEF InStage, Entries
  <2> QED BY <1>0, <2>1, <2>2, <2>3 DEF InStage
<1>2. ASSUME Provide(d), <<q, "provide", m>> \in Moves PROVE InStage(m, d)'
  <2>1. prov'[d] \in Ids /\ UNCHANGED <<pd, insp, attached, registry>>
    BY <1>2 DEF Provide, Fresh, TypeOK
  <2>2. q = "created" /\ m = "provided"
    BY <1>2 DEF Moves
  <2>3. Entries(d)' = {}
    BY <2>1, <2>2 DEF InStage, Entries
  <2> QED BY <1>0, <2>1, <2>2, <2>3 DEF InStage
<1>3. ASSUME Attach(d), <<q, "attach", m>> \in Moves PROVE InStage(m, d)'
  <2>1. /\ attached' = [attached EXCEPT ![d][pd[d]] = prov[d]]
        /\ UNCHANGED <<pd, prov, insp, registry>>
    BY <1>3 DEF Attach
  <2>2. q = "provided" /\ m = "attached"
    BY <1>3 DEF Moves
  <2>3. attached'[d][pd[d]] = prov[d]
    <3>1. pd[d] \in Ids
      BY <2>2 DEF InStage, TypeOK
    <3> QED BY <2>1, <3>1 DEF TypeOK
  <2>4. Entries(d)' = {}
    BY <2>1, <2>2 DEF InStage, Entries
  <2> QED BY <2>1, <2>2, <2>3, <2>4 DEF InStage
<1>4. ASSUME Register(d), <<q, "register", m>> \in Moves PROVE InStage(m, d)'
  <2>1. /\ registry' = registry \union {<<"pd", d, pd[d]>>}
        /\ UNCHANGED <<pd, prov, insp, attached>>
    BY <1>4 DEF Register
  <2>2. q = "attached" /\ m = "registered"
    BY <1>4 DEF Moves
  <2>3. Entries(d)' = {<<"pd", d, pd[d]>>}
    BY <2>1, <2>2 DEF InStage, Entries
  <2> QED BY <2>1, <2>2, <2>3 DEF InStage
<1>5. ASSUME Inspect(d), <<q, "inspect", m>> \in Moves PROVE InStage(m, d)'
  <2>1. /\ registry' = registry \union {<<"insp", d, pd[d]>>}
        /\ insp'[d] = pd[d] /\ UNCHANGED <<pd, prov, attached>>
    BY <1>5 DEF Inspect, TypeOK
  <2>2. q = "registered" /\ m = "whole"
    BY <1>5 DEF Moves
  <2>3. Entries(d)' = {<<"pd", d, pd[d]>>, <<"insp", d, pd[d]>>}
    BY <2>1, <2>2 DEF InStage, Entries
  <2> QED BY <2>1, <2>2, <2>3 DEF InStage
<1> QED BY <1>1, <1>2, <1>3, <1>4, <1>5

-----------------------------------------------------------------------------
(* Its steps.                                                              *)

(* A statement moves its direction along, and no other one. *)
LEMMA StageStep ==
    ASSUME TypeOK, NEW d \in Directions, Device(d), NEW e \in Directions,
           NEW q, NEW m, InStage(q, e), Follows(q, Head(todo), m, e)
    PROVE  InStage(m, e)'
<1>1. PICK kind \in Statements : Head(todo) = <<kind, d>>
  BY DEF Device, Statements, DropInspection, Detach, ForgetProvider, Unregister,
         Clear, Create, Provide, Attach, Register, Inspect, Takes
<1>2. kind # "bus"
  BY DEF Statements
<1>3. CASE e # d
  <2>1. m = q
    BY <1>1, <1>3 DEF Follows
  <2> QED BY <1>3, <2>1, OtherStage
<1>4. CASE e = d
  <2>1. <<q, kind, m>> \in Moves
    BY <1>1, <1>2, <1>4 DEF Follows
  <2>2. \/ DropInspection(d) /\ kind = "drop"
        \/ Detach(d) /\ kind = "detach"
        \/ ForgetProvider(d) /\ kind = "forget"
        \/ Unregister(d) /\ kind = "unregister"
        \/ Clear(d) /\ kind = "clear"
        \/ Create(d) /\ kind = "create"
        \/ Provide(d) /\ kind = "provide"
        \/ Attach(d) /\ kind = "attach"
        \/ Register(d) /\ kind = "register"
        \/ Inspect(d) /\ kind = "inspect"
    BY <1>1 DEF Device, DropInspection, Detach, ForgetProvider, Unregister, Clear,
                Create, Provide, Attach, Register, Inspect, Takes
  <2> QED BY <1>4, <2>1, <2>2, RemovedStage, CreatedStage
<1> QED BY <1>3, <1>4

LEMMA WholeInit == ASSUME Init PROVE WholeInv
<1>1. TypeOK /\ todo = << >> /\ state = target /\ target = "init"
  BY NullInit DEF Init, NullInv
<1>2. ASSUME NEW d \in Directions PROVE Progress(d)
  <2>1. "gone" \in Stages /\ StageOf(target) = "gone"
    BY <1>1 DEF Stages, StageOf, Exchanging
  <2>2. Leads(todo, "gone", StageOf(target), d)
    BY <1>1, <2>1, EmptyLeads
  <2>3. InStage("gone", d)
    BY DEF Init, InStage, Entries
  <2> QED BY <2>1, <2>2, <2>3 DEF Progress
<1> QED BY <1>1, <1>2 DEF WholeInv, Removals

LEMMA IdleStage ==
    ASSUME WholeInv, Idle, NEW d \in Directions
    PROVE  InStage(StageOf(state), d)
<1>1. PICK q \in Stages : InStage(q, d) /\ Leads(todo, q, StageOf(target), d)
  BY DEF WholeInv, Progress
<1>2. todo = << >> /\ state = target
  BY DEF WholeInv, Idle
<1>3. q = StageOf(target)
  <2>1. Len(<< >>) + 1 = 1
    OBVIOUS
  <2> QED BY <1>1, <1>2, <2>1 DEF Leads
<1> QED BY <1>1, <1>2, <1>3

(* What is left alone keeps the stages. *)
LEMMA SameStage ==
    ASSUME UNCHANGED handles, NEW d, NEW q, InStage(q, d)
    PROVE  InStage(q, d)'
BY DEF handles, InStage, Entries

LEMMA CallWhole ==
    ASSUME WholeInv, Requests \intersect CreatesTwice = {},
           NEW to \in States, Call(to)
    PROVE  WholeInv'
<1>1. /\ state \in States /\ to # state /\ <<state, to>> \notin CreatesTwice
      /\ target' = to /\ todo' = Script(state, to) /\ Idle
      /\ UNCHANGED <<state, bus, handles, handlers>>
  BY DEF Call, WholeInv, TypeOK
<1>2. /\ todo' \in Seq(Steps) /\ Removals(todo')
  BY <1>1, ScriptSound, ScriptRemovals
<1>3. TypeOK'
  BY <1>1, <1>2 DEF WholeInv, TypeOK, handles, handlers
<1>4. ASSUME NEW d \in Directions PROVE Progress(d)'
  <2>1. PICK q \in Stages : q = StageOf(state)
    BY DEF StageOf, Stages
  <2>2. Leads(todo', q, StageOf(target'), d)
    BY <1>1, <2>1, ScriptLeads
  <2>3. InStage(q, d)'
    BY <1>1, <2>1, IdleStage, SameStage
  <2> QED BY <2>2, <2>3 DEF Progress
<1>5. Idle' => state' = target'
  <2>1. ASSUME todo' = << >> PROVE FALSE
    BY <1>1, <2>1, ScriptNotEmpty
  <2> QED BY <2>1 DEF Idle
<1> QED BY <1>2, <1>3, <1>4, <1>5 DEF WholeInv

(* The rest of the statements, behind the one that is taken. *)
LEMMA TakenWhole ==
    ASSUME TypeOK, Removals(todo), ~Idle, todo' = Tail(todo)
    PROVE  todo' \in Seq(Steps) /\ Removals(todo')
<1>1. todo \in Seq(Steps) /\ todo # << >>
  BY DEF TypeOK, Idle
<1>2. /\ Tail(todo) \in Seq(Steps) /\ Len(Tail(todo)) = Len(todo) - 1
      /\ \A i \in 1 .. Len(Tail(todo)) : Tail(todo)[i] = todo[i + 1]
  BY <1>1
<1> QED BY <1>1, <1>2, RestRemovals

LEMMA DeviceWhole ==
    ASSUME WholeInv, NEW d \in Directions, Device(d)
    PROVE  WholeInv'
<1>1. /\ ~Idle /\ todo' = Tail(todo) /\ target' = target
      /\ state' = IF Tail(todo) = << >> THEN target ELSE state
  BY DEF Device, DropInspection, Detach, ForgetProvider, Unregister, Clear, Create,
         Provide, Attach, Register, Inspect, Takes
<1>2. TypeOK' /\ Removals(todo')
  BY <1>1, DeviceTyped, TakenWhole DEF WholeInv
<1>3. ASSUME NEW e \in Directions PROVE Progress(e)'
  <2>1. PICK q \in Stages : InStage(q, e) /\ Leads(todo, q, StageOf(target), e)
    BY DEF WholeInv, Progress
  <2>2. PICK m \in Stages :
          Follows(q, Head(todo), m, e) /\ Leads(Tail(todo), m, StageOf(target), e)
    BY <1>1, <2>1, TailLeads DEF WholeInv, TypeOK, Idle
  <2>3. InStage(m, e)'
    BY <2>1, <2>2, StageStep DEF WholeInv
  <2> QED BY <1>1, <2>2, <2>3 DEF Progress
<1> QED BY <1>1, <1>2, <1>3 DEF WholeInv, Idle

LEMMA SwitchWhole == ASSUME WholeInv, SwitchBus PROVE WholeInv'
<1>1. /\ ~Idle /\ Head(todo)[1] = "bus" /\ bus' = Head(todo)[2]
      /\ todo' = Tail(todo) /\ UNCHANGED <<target, handles, handlers>>
      /\ state' = IF Tail(todo) = << >> THEN target ELSE state
  BY DEF SwitchBus, Takes
<1>2. todo' \in Seq(Steps) /\ Removals(todo')
  BY <1>1, TakenWhole DEF WholeInv
<1>3. bus' \in States
  <2>1. Head(todo) \in Steps
    BY <1>1 DEF WholeInv, TypeOK, Idle
  <2> QED BY <1>1, <2>1 DEF Steps, Statements
<1>4. TypeOK'
  BY <1>1, <1>2, <1>3 DEF WholeInv, TypeOK, handles, handlers
<1>5. ASSUME NEW e \in Directions PROVE Progress(e)'
  <2>1. PICK q \in Stages : InStage(q, e) /\ Leads(todo, q, StageOf(target), e)
    BY DEF WholeInv, Progress
  <2>2. PICK m \in Stages :
          Follows(q, Head(todo), m, e) /\ Leads(Tail(todo), m, StageOf(target), e)
    BY <1>1, <2>1, TailLeads DEF WholeInv, TypeOK, Idle
  <2>3. m = q
    BY <1>1, <2>2 DEF Follows
  <2>4. InStage(q, e)'
    BY <1>1, <2>1, SameStage
  <2> QED BY <1>1, <2>2, <2>3, <2>4 DEF Progress
<1> QED BY <1>1, <1>2, <1>4, <1>5 DEF WholeInv, Idle

LEMMA SkipWhole ==
    ASSUME WholeInv, NEW d \in Directions, SkipRemoval(d)
    PROVE  WholeInv'
<1>1. /\ ~Idle /\ Head(todo) = <<"drop", d>> /\ pd[d] = None
      /\ todo' = SubSeq(todo, 6, Len(todo))
      /\ state' = (IF todo' = << >> THEN target ELSE state)
      /\ UNCHANGED <<target, bus, handles, handlers>>
  <2>1. Len(Removal(d)) + 1 = 6
    BY DEF Removal
  <2> QED BY <2>1 DEF SkipRemoval
<1>2. PICK n \in Nat : n = Len(todo)
  BY DEF WholeInv, TypeOK
<1>3. /\ todo \in Seq(Steps) /\ todo[1] = <<"drop", d>> /\ 1 \in 1 .. n
  <2>1. todo \in Seq(Steps) /\ todo # << >>
    BY <1>1 DEF WholeInv, TypeOK, Idle
  <2>2. Len(todo) # 0 /\ Head(todo) = todo[1]
    BY <2>1, EmptySeq
  <2> QED BY <1>1, <1>2, <2>1, <2>2
<1>4. /\ 5 <= n /\ todo[2] = <<"detach", d>> /\ todo[3] = <<"forget", d>>
      /\ todo[4] = <<"unregister", d>> /\ todo[5] = <<"clear", d>>
  BY <1>2, <1>3 DEF WholeInv, Removals
<1>5. /\ todo' \in Seq(Steps) /\ Len(todo') = n - 5
      /\ \A i \in 1 .. n - 5 : todo'[i] = todo[i + 5]
  BY <1>1, <1>2, <1>3, <1>4, BehindRemoval
<1>6. Removals(todo')
  BY <1>2, <1>3, <1>5, RestRemovals DEF WholeInv
<1>7. TypeOK'
  BY <1>1, <1>5 DEF WholeInv, TypeOK, handles, handlers
<1>8. ASSUME NEW e \in Directions PROVE Progress(e)'
  <2>1. PICK q \in Stages : InStage(q, e) /\ Leads(todo, q, StageOf(target), e)
    BY DEF WholeInv, Progress
  <2>2. e = d => q = "gone"
    BY <1>1, <2>1 DEF InStage
  <2>3. Leads(todo', q, StageOf(target), e)
    BY <1>1, <1>2, <1>3, <1>4, <2>1, <2>2, SkippedLeads
  <2>4. InStage(q, e)'
    BY <1>1, <2>1, SameStage
  <2> QED BY <1>1, <2>3, <2>4 DEF Progress
<1> QED BY <1>1, <1>6, <1>7, <1>8 DEF WholeInv, Idle

LEMMA WholeStep ==
    ASSUME WholeInv, Requests \intersect CreatesTwice = {}, [Next]_vars
    PROVE  WholeInv'
<1>1. ASSUME NEW d \in Directions, Handler(d) PROVE WholeInv'
  <2>1. /\ UNCHANGED <<state, target, bus, todo>> /\ UNCHANGED handles
        /\ hpc' \in [Directions -> {"idle", "checked", "loaded"}]
        /\ hpd' \in [Directions -> Ids \union {None}]
        /\ last' \in [Directions -> {"none", "ok", "refused", "null", "freed"}]
    BY <1>1 DEF Handler, HandlerCheck, HandlerLoad, HandlerAccess, stateThread,
                AccessOf, WholeInv, TypeOK
  <2>2. TypeOK'
    BY <2>1 DEF WholeInv, TypeOK, handles
  <2>3. ASSUME NEW e \in Directions PROVE Progress(e)'
    BY <2>1, SameStage DEF WholeInv, Progress
  <2> QED BY <2>1, <2>2, <2>3 DEF WholeInv, Idle
<1>2. CASE UNCHANGED vars
  <2>1. UNCHANGED <<state, target, bus, todo>> /\ UNCHANGED <<handles, handlers>>
    BY <1>2 DEF vars, stateThread
  <2>2. TypeOK'
    BY <2>1 DEF WholeInv, TypeOK, handles, handlers
  <2>3. ASSUME NEW e \in Directions PROVE Progress(e)'
    BY <2>1, SameStage DEF WholeInv, Progress
  <2> QED BY <2>1, <2>2, <2>3 DEF WholeInv, Idle
<1>3. CASE StateThread
  BY <1>3, SwitchWhole, SkipWhole, DeviceWhole DEF StateThread, Device
<1> QED BY <1>1, <1>2, <1>3, CallWhole DEF Next

-----------------------------------------------------------------------------
(* Theorems about calls.                                                   *)

(* Between two calls the slave has its process data exactly in SAFEOP and  *)
(* OP, whole, and the registry lists nothing else (slave.cpp:798-819,      *)
(* 895-966), for every set of requests without the two that create twice   *)
(* (slave.cpp:900), also when a handler is still at work while the bus     *)
(* goes down.                                                              *)
THEOREM MadeAndRemovedWhole ==
    ASSUME Requests \intersect CreatesTwice = {}
    PROVE  Spec => []WholeWhenIdle
<1> DEFINE All == {<<kind, d, pd[d]>> : kind \in {"pd", "insp"}, d \in Directions}
<1>1. ASSUME WholeInv, Idle
      PROVE  /\ \A d \in Directions :
                  /\ (pd[d] # None) = Exchanging(state)
                  /\ insp[d] = pd[d]
                  /\ Exchanging(state) => prov[d] # None /\ attached[d][pd[d]] = prov[d]
                  /\ ~Exchanging(state) => prov[d] = None
             /\ registry = IF Exchanging(state) THEN All ELSE {}
  <2>1. \A d \in Directions : InStage(StageOf(state), d)
    BY <1>1, IdleStage
  <2>2. registry \subseteq Devices
    BY <1>1 DEF WholeInv, TypeOK
  <2>3. CASE Exchanging(state)
    <3>1. \A d \in Directions :
            /\ pd[d] # None /\ insp[d] = pd[d]
            /\ prov[d] # None /\ attached[d][pd[d]] = prov[d]
            /\ Entries(d) = {<<"pd", d, pd[d]>>, <<"insp", d, pd[d]>>}
      BY <2>1, <2>3 DEF StageOf, InStage
    <3>2. registry = All
      <4>1. ASSUME NEW x \in registry
            PROVE  x \in All
        <5>1. x[2] \in Directions /\ x \in Entries(x[2])
          BY <2>2 DEF Devices, Entries
        <5>2. x = <<"pd", x[2], pd[x[2]]>> \/ x = <<"insp", x[2], pd[x[2]]>>
          BY <3>1, <5>1
        <5> QED BY <5>1, <5>2
      <4>2. ASSUME NEW kind \in {"pd", "insp"}, NEW d \in Directions
            PROVE  <<kind, d, pd[d]>> \in registry
        <5>1. <<kind, d, pd[d]>> \in Entries(d)
          BY <3>1
        <5> QED BY <5>1 DEF Entries
      <4> QED BY <4>1, <4>2
    <3>3. Exchanging(state) = TRUE
      BY <2>3 DEF Exchanging
    <3>4. \A d \in Directions : (pd[d] # None) = TRUE
      BY <3>1
    <3> HIDE DEF All
    <3> QED BY <3>1, <3>2, <3>3, <3>4
  <2>4. CASE ~Exchanging(state)
    <3>1. \A d \in Directions : pd[d] = None /\ insp[d] = None /\ prov[d] = None
                                /\ Entries(d) = {}
      BY <2>1, <2>4 DEF StageOf, InStage
    <3>2. registry = {}
      BY <2>2, <3>1 DEF Devices, Entries
    <3>3. Exchanging(state) = FALSE
      BY <2>4 DEF Exchanging
    <3>4. \A d \in Directions : (pd[d] # None) = FALSE
      BY <3>1
    <3> HIDE DEF All
    <3> QED BY <3>1, <3>2, <3>3, <3>4
  <2> QED BY <2>3, <2>4
<1>2. WholeInv => WholeWhenIdle
  BY <1>1 DEF WholeWhenIdle
<1>3. WholeInv /\ [Next]_vars => WholeInv'
  BY WholeStep
<1> QED BY <1>2, <1>3, WholeInit, PTL DEF Spec

(* The handler of the inputs has the device that is there.                 *)
HeldInv == \A d \in Inputs : hpc[d] = "loaded" => hpd[d] = pd[d]

(* No statement changes the handle of the inputs' handler at work. *)
LEMMA HandleStays ==
    ASSUME NullInv, WholeInv, NEW d \in Directions, Device(d),
           NEW e \in Inputs, hpc[e] # "idle"
    PROVE  pd'[e] = pd[e]
<1>1. Exchanging(bus) /\ pd[e] # None
  BY DEF NullInv, HandlerInv
<1>2. CASE Clear(d)
  <2>1. ~Idle /\ Head(todo) = <<"clear", d>>
    BY <1>2 DEF Clear, Takes
  <2>2. ~Exchanging(bus)
    BY <2>1, ClearedBelow DEF NullInv
  <2> QED BY <1>1, <2>2
<1>3. CASE Create(d)
  <2>1. ~Idle /\ Head(todo) = <<"create", d>>
    BY <1>3 DEF Create, Takes
  <2>2. PICK q \in Stages : InStage(q, d) /\ Leads(todo, q, StageOf(target), d)
    BY DEF WholeInv, Progress
  <2>3. PICK m \in Stages : Follows(q, Head(todo), m, d)
    BY <2>1, <2>2, TailLeads DEF WholeInv, TypeOK, Idle
  <2>4. <<q, "create", m>> \in Moves
    BY <2>1, <2>3 DEF Follows
  <2>5. q = "gone"
    BY <2>4 DEF Moves
  <2>6. pd[d] = None
    BY <2>2, <2>5 DEF InStage
  <2>7. e # d
    BY <1>1, <2>6
  <2> QED BY <1>3, <2>7 DEF Create, NullInv, TypeOK, Inputs
<1>4. CASE ~Clear(d) /\ ~Create(d)
  BY <1>4 DEF Device, DropInspection, Detach, ForgetProvider, Unregister, Provide,
              Attach, Register, Inspect
<1> QED BY <1>2, <1>3, <1>4

LEMMA HeldStep ==
    ASSUME NullInv, WholeInv, HeldInv, [Next]_vars
    PROVE  HeldInv'
<1> SUFFICES ASSUME NEW e \in Inputs, hpc'[e] = "loaded"
             PROVE  hpd'[e] = pd'[e]
  BY DEF HeldInv
<1>1. ASSUME NEW d \in Directions, Device(d) PROVE hpd'[e] = pd'[e]
  <2>1. UNCHANGED <<hpc, hpd>>
    BY <1>1 DEF Device, DropInspection, Detach, ForgetProvider, Unregister, Clear,
                Create, Provide, Attach, Register, Inspect, Takes, handlers
  <2>2. pd'[e] = pd[e]
    BY <1>1, <2>1, HandleStays
  <2> QED BY <2>1, <2>2 DEF HeldInv
<1>2. ASSUME NEW d \in Directions, Handler(d) PROVE hpd'[e] = pd'[e]
  <2>1. UNCHANGED pd
    BY <1>2 DEF Handler, HandlerCheck, HandlerLoad, HandlerAccess, handles
  <2>2. \/ hpc' = [hpc EXCEPT ![d] = "checked"] /\ hpd' = hpd
        \/ hpc' = [hpc EXCEPT ![d] = "loaded"] /\ hpd' = [hpd EXCEPT ![d] = pd[d]]
        \/ hpc' = [hpc EXCEPT ![d] = "idle"] /\ hpd' = [hpd EXCEPT ![d] = None]
    BY <1>2 DEF Handler, HandlerCheck, HandlerLoad, HandlerAccess
  <2> QED BY <2>1, <2>2 DEF HeldInv, NullInv, TypeOK, Inputs
<1>3. CASE UNCHANGED <<handles, handlers>>
  BY <1>3 DEF handles, handlers, HeldInv
<1>4. \/ \E d \in Directions : Device(d) \/ Handler(d)
      \/ UNCHANGED <<handles, handlers>>
  BY DEF Next, StateThread, Device, Call, SwitchBus, SkipRemoval, Takes, vars
<1> QED BY <1>1, <1>2, <1>3, <1>4

InputsInv == NullInv /\ WholeInv /\ HeldInv

LEMMA InputsStep ==
    ASSUME Quiescent, Requests \intersect CreatesTwice = {}
    PROVE  /\ Init => InputsInv
           /\ InputsInv /\ [Next]_vars => InputsInv'
<1>1. Init => InputsInv
  BY NullInit, WholeInit DEF Init, HeldInv, InputsInv
<1>2. InputsInv /\ [Next]_vars => InputsInv'
  BY NullStep, WholeStep, HeldStep DEF InputsInv
<1> QED BY <1>1, <1>2

(* The result of the inputs' handler changes in its access alone, which    *)
(* follows the handle that is set.                                         *)
LEMMA AccessWhole ==
    ASSUME InputsInv, [Next]_vars, NEW d \in Inputs, last'[d] # last[d]
    PROVE  /\ last'[d] = AccessOf(d)
           /\ hpd[d] = pd[d] /\ pd[d] # None
<1>1. HandlerAccess(d)
  BY DEF InputsInv, NullInv, TypeOK, Next, StateThread, Call, SwitchBus, SkipRemoval,
         DropInspection, Detach, ForgetProvider, Unregister, Clear, Create,
         Provide, Attach, Register, Inspect, Takes, Handler, HandlerCheck,
         HandlerLoad, HandlerAccess, vars, handlers, Inputs
<1>2. last'[d] = AccessOf(d) /\ hpc[d] = "loaded"
  BY <1>1 DEF HandlerAccess, InputsInv, NullInv, TypeOK, Inputs
<1> QED
  BY <1>2 DEF InputsInv, NullInv, HeldInv, HandlerInv

(* The device the inputs' handler follows is never null and never gone,    *)
(* whatever states the slave is stepped between (without the two requests  *)
(* that create twice, slave.cpp:900): its handle is cleared only after the *)
(* bus has been switched below SAFEOP (master.cpp:687-698 before           *)
(* slave.cpp:798-819), and a switch that returns when the library's last   *)
(* callback is over leaves no handler between its check and its access     *)
(* (slave.cpp:1119-1125).                                                  *)
THEOREM HandlesNotNull ==
    ASSUME Quiescent, Requests \intersect CreatesTwice = {}
    PROVE  Spec => []NeverNull
<1> DEFINE I == InputsInv /\ NeverNull
<1>1. Init => I
  BY InputsStep DEF Init, NeverNull, Inputs
<1>2. I /\ [Next]_vars => I'
  <2> SUFFICES ASSUME I, [Next]_vars, NEW d \in Inputs, last'[d] # last[d]
               PROVE  last'[d] \notin {"null", "freed"}
    BY InputsStep DEF NeverNull
  <2>1. last'[d] = AccessOf(d) /\ hpd[d] = pd[d] /\ pd[d] # None
    BY AccessWhole
  <2>2. Held(d, hpd[d])
    BY <2>1 DEF Held
  <2> QED BY <2>1, <2>2 DEF AccessOf
<1> QED BY <1>1, <1>2, PTL DEF Spec

(* The inputs' device turns an exchange down only while a call is under    *)
(* way (slave.cpp:895-966 against 1119-1125): between two calls the        *)
(* handler follows the handle that is set, to a device that is attached.   *)
THEOREM RefusalsDuringCalls ==
    ASSUME Quiescent, Requests \intersect CreatesTwice = {}
    PROVE  Spec => RefusedInCallsOnly
<1>1. ASSUME InputsInv, [Next]_vars
      PROVE  [\A d \in Inputs :
                last[d] # "refused" /\ last'[d] = "refused" => ~Idle]_vars
  <2> SUFFICES ASSUME NEW d \in Inputs, last[d] # "refused", last'[d] = "refused",
                      Idle
               PROVE  FALSE
    OBVIOUS
  <2>1. AccessOf(d) = "refused" /\ hpd[d] = pd[d] /\ pd[d] # None
    BY <1>1, AccessWhole
  <2>2. PICK q : q = StageOf(state) /\ InStage(q, d)
    BY <1>1, IdleStage DEF InputsInv, Inputs
  <2>3. q = "whole"
    BY <2>1, <2>2 DEF InStage, StageOf
  <2>4. prov[d] # None /\ attached[d][pd[d]] = prov[d]
    BY <2>2, <2>3 DEF InStage
  <2>5. Held(d, hpd[d])
    BY <2>1 DEF Held
  <2> QED BY <2>1, <2>4, <2>5 DEF AccessOf
<1> QED BY <1>1, InputsStep, PTL DEF Spec, RefusedInCallsOnly

=============================================================================
