----------------------------- MODULE MCHwStream -----------------------------
(* Two identities for receive threads: one that runs and one that is left  *)
(* over where the device is opened twice.  Two frames: one in the buffer   *)
(* and one on the way.                                                    *)
EXTENDS HwStream, TLC

=============================================================================
