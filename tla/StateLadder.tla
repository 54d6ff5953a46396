---------------------------- MODULE StateLadder ----------------------------
(***************************************************************************)
(* What set_state promises to the robot kernel, without saying how: while  *)
(* a state is wanted the bus moves one rung at a time towards it, and the  *)
(* call reports the wanted state only with the bus in it.  A call that     *)
(* fails reports nothing new.                                              *)
(***************************************************************************)
EXTENDS Naturals

CONSTANT MayFail    \* calls may fail and leave the bus where it is

VARIABLES
    bus,        \* state of the slaves
    reported,   \* state the module reports
    want        \* state wanted by the call in progress, or "none"

ladderVars == <<bus, reported, want>>

Rungs == <<"init", "preop", "safeop", "op">>

Height == [init |-> 1, preop |-> 2, safeop |-> 3, op |-> 4]

States == DOMAIN Height

LadderInit == bus = "init" /\ reported = "init" /\ want = "none"

Request(s) ==
    /\ want = "none" /\ want' = s
    /\ UNCHANGED <<bus, reported>>

Climb ==
    /\ want # "none" /\ Height[bus] < Height[want]
    /\ bus' = Rungs[Height[bus] + 1]
    /\ UNCHANGED <<reported, want>>

Descend ==
    /\ want # "none" /\ Height[bus] > Height[want]
    /\ bus' = Rungs[Height[bus] - 1]
    /\ UNCHANGED <<reported, want>>

Reach ==
    /\ want # "none" /\ bus = want
    /\ reported' = want /\ want' = "none"
    /\ UNCHANGED bus

Fail ==
    /\ MayFail /\ want # "none" /\ want' = "none"
    /\ UNCHANGED <<bus, reported>>

(* A call after a failed one may find the bus above the reported state: it *)
(* takes up the climb from a lower rung again.                             *)
FallBack ==
    /\ MayFail /\ want # "none"
    /\ bus' \in {s \in States : Height[s] < Height[bus]}
    /\ UNCHANGED <<reported, want>>

LadderNext ==
    \/ \E s \in States : Request(s)
    \/ Climb \/ Descend \/ Reach \/ Fail \/ FallBack

LadderSpec == LadderInit /\ [][LadderNext]_ladderVars

=============================================================================
