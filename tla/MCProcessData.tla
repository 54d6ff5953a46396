--------------------------- MODULE MCProcessData ---------------------------
(***************************************************************************)
(* Instances of ProcessData for TLC.  Three identities per direction are   *)
(* enough: a creation needs one for the device and one for the provider,   *)
(* the third is what a handler may still hold from before.                 *)
(***************************************************************************)
EXTENDS ProcessData

BothDirections == {"in", "out"}
InputOnly      == {"in"}

(* Without the requests that make a device in SAFEOP and another in OP:    *)
(* each of them leaves an inspection of the first device registered.       *)
OncePerCall == (States \X States) \ {<<"init", "op">>, <<"preop", "op">>}

Neighbours ==
    {<<"init", "preop">>, <<"preop", "init">>, <<"preop", "safeop">>,
     <<"safeop", "preop">>, <<"safeop", "op">>, <<"op", "safeop">>}

=============================================================================
