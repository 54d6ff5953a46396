------------------------------- MODULE Totals -------------------------------
(***************************************************************************)
(* Sums over sequences of numbers: the samples of a window, the bits of    *)
(* the entries of a mapping, the bytes of the fields of an answer.         *)
(***************************************************************************)
EXTENDS Integers, Sequences

(* Running(w)[i] is the sum of the first i elements of w. *)
Running(w) ==
    LET upTo[i \in 0 .. Len(w)] == IF i = 0 THEN 0 ELSE upTo[i - 1] + w[i]
    IN  upTo

Total(w) == Running(w)[Len(w)]

=============================================================================
