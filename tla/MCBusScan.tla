----------------------------- MODULE MCBusScan -----------------------------
(* Instances of BusScan: up to three slaves of two types, the first one    *)
(* with an expected type, the second with sync manager settings.           *)
EXTENDS BusScan

CONSTANTS k1, k2

TwoKinds == {k1, k2}
FirstTwo == {0, 1}
ExpectK1 == [p \in FirstTwo |-> IF p = 0 THEN k1 ELSE Any]
SecondSm == {1}
TwoGroups == <<{0, 2}, {1}>>

=============================================================================
