------------------------------ MODULE MCDcSync ------------------------------
(* Instances of DcSync: a cycle of 1000 ns made of two periods of the      *)
(* trigger, corrections inside and outside a band of five percent.         *)
EXTENDS DcSync

NoneOr900    == {-1, 900}
NoneOr700    == {0, 700}
FourCorrs    == {-2000, -100, 20, 400}
FourDiffs    == {-30, 0, 5, 40}

=============================================================================
