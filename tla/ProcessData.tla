---------------------------- MODULE ProcessData ----------------------------
(***************************************************************************)
(* The process data devices of one slave, created and removed statement by *)
(* statement in slave::post_state_transition, while the threads that       *)
(* exchange frames call pdin_handler and pdout_handler.  Nothing locks the *)
(* handles that both sides use.  SlaveTransition has the same creation and *)
(* removal as one step.                                                    *)
(*                                                                         *)
(* `todo' is the rest of the state thread's statements: pairs of a         *)
(* statement and the direction (or the bus state) it is about.             *)
(***************************************************************************)
EXTENDS SlaveTransition, Naturals, Sequences

(* The states a slave with process data is stepped through. *)
States == {"init", "preop", "safeop", "op"}

CONSTANTS
    Directions,     \* "in" and "out", as far as the slave has them
    Ids,            \* identities of devices, providers and consumers
    Requests,       \* pairs of states the robot kernel asks to go between
    Quiescent       \* ec_set_state returns from a state below SAFEOP only
                    \* when the library's last call of cb_group is over

ASSUME ProcessDataAssumption ==
    /\ Directions \subseteq {"in", "out"} /\ Ids \subseteq Nat \ {0}
    /\ Requests \subseteq States \X States
    /\ Quiescent \in BOOLEAN

None == 0

VARIABLES
    state,      \* master::state, the `from' of every rung
    target,     \* the state wanted
    bus,        \* state of the slaves
    todo,       \* statements the state thread still has to execute
    pd,         \* the handles pdin and pdout
    prov,       \* pdin_provider and pdout_consumer
    insp,       \* pdin_inspection and pdout_inspection: the device they show
    attached,   \* what set_provider or set_consumer put into each device
    registry,   \* process data and inspections the robot kernel knows
    hpc,        \* position of the handler of each direction
    hpd,        \* the device it is about to access
    last        \* result of its last access

stateThread == <<state, target, bus, todo>>
handles     == <<pd, prov, insp, attached, registry>>
handlers    == <<hpc, hpd, last>>
vars        == <<stateThread, handles, handlers>>

Devices == {"pd", "insp"} \X Directions \X (Ids \union {None})

Statements == {"detach", "forget", "unregister", "clear", "drop", "create",
               "provide", "attach", "register", "inspect"}

Steps == {"bus"} \X States \union Statements \X Directions

TypeOK ==
    /\ state \in States /\ target \in States /\ bus \in States
    /\ todo \in Seq(Steps)
    /\ pd \in [Directions -> Ids \union {None}]
    /\ prov \in [Directions -> Ids \union {None}]
    /\ insp \in [Directions -> Ids \union {None}]
    /\ attached \in [Directions -> [Ids -> Ids \union {None}]]
    /\ registry \subseteq Devices
    /\ hpc \in [Directions -> {"idle", "checked", "loaded"}]
    /\ hpd \in [Directions -> Ids \union {None}]
    /\ last \in [Directions -> {"none", "ok", "refused", "null", "freed"}]

Init ==
    /\ state = "init" /\ target = "init" /\ bus = "init" /\ todo = << >>
    /\ pd = [d \in Directions |-> None] /\ prov = pd /\ insp = pd
    /\ attached = [d \in Directions |-> [i \in Ids |-> None]]
    /\ registry = {}
    /\ hpc = [d \in Directions |-> "idle"] /\ hpd = pd
    /\ last = [d \in Directions |-> "none"]

Idle == todo = << >>

Exchanging(b) == b \in {"safeop", "op"}

-----------------------------------------------------------------------------
(* The state thread's statements.                                          *)

Rungs == <<"init", "preop", "safeop", "op">>
Height(s) == CHOOSE i \in 1 .. 4 : Rungs[i] = s

(* Mutant: the inspection stays registered. *)
RemovalKeepsInspection(d) ==
    <<<<"detach", d>>, <<"forget", d>>, <<"unregister", d>>, <<"clear", d>>>>

(* What `stop receiving measurements' does for one direction. *)
Removal(d) ==
    <<<<"drop", d>>, <<"detach", d>>, <<"forget", d>>, <<"unregister", d>>,
      <<"clear", d>>>>

(* Mutant: the provider is made, and never set. *)
CreationNotAttached(d) ==
    <<<<"unregister", d>>, <<"create", d>>, <<"provide", d>>,
      <<"register", d>>, <<"inspect", d>>>>

(* What `start receiving measurements' does for one direction; the first   *)
(* statement only finds a device where a rung is climbed twice.            *)
Creation(d) ==
    <<<<"unregister", d>>, <<"create", d>>, <<"provide", d>>, <<"attach", d>>,
      <<"register", d>>, <<"inspect", d>>>>

(* Inputs are handled before outputs. *)
ForBoth(Script(_)) ==
    (IF "in" \in Directions THEN Script("in") ELSE << >>)
    \o (IF "out" \in Directions THEN Script("out") ELSE << >>)

Post(from, rung) ==
    (IF StopsReceiving(from, rung) THEN ForBoth(Removal) ELSE << >>)
    \o (IF StartsReceiving(from, rung) THEN ForBoth(Creation) ELSE << >>)

(* Mutant: the slaves' devices are changed before the bus is switched. *)
TransitionPostFirst(from, rung) == Post(from, rung) \o <<<<"bus", rung>>>>

(* state_transition: the bus first, then the slave's devices. *)
Transition(from, rung) == <<<<"bus", rung>>>> \o Post(from, rung)

(* The rungs of set_state from one state to another. *)
Path(from, to) ==
    LET up   == Height(from) < Height(to)
        n    == IF up THEN Height(to) - Height(from) ELSE Height(from) - Height(to)
        At(i) == Rungs[IF up THEN Height(from) + i ELSE Height(from) - i]
    IN  [i \in 1 .. n |-> At(i)]

(* The four states are three rungs apart at most. *)
Script(from, to) ==
    LET path   == Path(from, to)
        Leg(i) == IF i \in DOMAIN path THEN Transition(from, path[i]) ELSE << >>
    IN  Leg(1) \o Leg(2) \o Leg(3)

Call(to) ==
    /\ Idle /\ to # state /\ <<state, to>> \in Requests
    /\ target' = to /\ todo' = Script(state, to)
    /\ UNCHANGED <<state, bus, handles, handlers>>

(* The next statement, and what follows when it was the last: the call     *)
(* stores the state it reached.                                            *)
Takes(statement) ==
    /\ ~Idle /\ Head(todo) = statement
    /\ todo' = Tail(todo)
    /\ state' = IF Tail(todo) = << >> THEN target ELSE state
    /\ UNCHANGED <<target, handlers>>

(* Inputs are handled in the library's callback for a frame of a group.    *)
Inputs == Directions \intersect {"in"}

(* The library cannot wait for pdout_handler, which the triggers call on   *)
(* their own before they hand it anything to send.                         *)
SwitchBus ==
    /\ ~Idle /\ Head(todo)[1] = "bus"
    /\ Takes(Head(todo))
    /\ bus' = Head(todo)[2]
    /\ Quiescent /\ ~Exchanging(bus') => \A d \in Inputs : hpc[d] = "idle"
    /\ UNCHANGED handles

(* Identities nobody holds any more are free: an inspection that is        *)
(* registered keeps its device.                                            *)
InUse(d) == {pd[d], prov[d], insp[d], hpd[d]}
            \union {attached[d][i] : i \in Ids}
            \union {dev[3] : dev \in {r \in registry : r[2] = d}}

Fresh(d) == Ids \ InUse(d)

(* Where a rung goes down twice, nothing is left to remove. *)
SkipRemoval(d) ==
    /\ ~Idle /\ Head(todo) = <<"drop", d>> /\ pd[d] = None
    /\ todo' = SubSeq(todo, Len(Removal(d)) + 1, Len(todo))
    /\ state' = IF todo' = << >> THEN target ELSE state
    /\ UNCHANGED <<target, bus, handles, handlers>>

(* remove_device of the inspection, and its handle. *)
DropInspection(d) ==
    /\ Takes(<<"drop", d>>) /\ pd[d] # None
    /\ registry' = registry \ {<<"insp", d, insp[d]>>}
    /\ insp' = [insp EXCEPT ![d] = None]
    /\ UNCHANGED <<bus, pd, prov, attached>>

(* reset_provider, reset_consumer. *)
Detach(d) ==
    /\ Takes(<<"detach", d>>)
    /\ attached' = [attached EXCEPT ![d][pd[d]] = None]
    /\ UNCHANGED <<bus, pd, prov, insp, registry>>

ForgetProvider(d) ==
    /\ Takes(<<"forget", d>>)
    /\ prov' = [prov EXCEPT ![d] = None]
    /\ UNCHANGED <<bus, pd, insp, attached, registry>>

Unregister(d) ==
    /\ Takes(<<"unregister", d>>)
    /\ registry' = registry \ {<<"pd", d, pd[d]>>}
    /\ UNCHANGED <<bus, pd, prov, insp, attached>>

Clear(d) ==
    /\ Takes(<<"clear", d>>)
    /\ pd' = [pd EXCEPT ![d] = None]
    /\ UNCHANGED <<bus, prov, insp, attached, registry>>

Create(d) ==
    /\ Takes(<<"create", d>>)
    /\ \E i \in Fresh(d) :
         /\ pd' = [pd EXCEPT ![d] = i]
         /\ attached' = [attached EXCEPT ![d][i] = None]
    /\ UNCHANGED <<bus, prov, insp, registry>>

Provide(d) ==
    /\ Takes(<<"provide", d>>)
    /\ \E i \in Fresh(d) : prov' = [prov EXCEPT ![d] = i]
    /\ UNCHANGED <<bus, pd, insp, attached, registry>>

Attach(d) ==
    /\ Takes(<<"attach", d>>)
    /\ attached' = [attached EXCEPT ![d][pd[d]] = prov[d]]
    /\ UNCHANGED <<bus, pd, prov, insp, registry>>

Register(d) ==
    /\ Takes(<<"register", d>>)
    /\ registry' = registry \union {<<"pd", d, pd[d]>>}
    /\ UNCHANGED <<bus, pd, prov, insp, attached>>

Inspect(d) ==
    /\ Takes(<<"inspect", d>>)
    /\ insp' = [insp EXCEPT ![d] = pd[d]]
    /\ registry' = registry \union {<<"insp", d, pd[d]>>}
    /\ UNCHANGED <<bus, pd, prov, attached>>

StateThread ==
    \/ SwitchBus
    \/ \E d \in Directions :
         \/ SkipRemoval(d) \/ DropInspection(d) \/ Detach(d) \/ ForgetProvider(d) \/ Unregister(d)
         \/ Clear(d) \/ Create(d) \/ Provide(d) \/ Attach(d) \/ Register(d)
         \/ Inspect(d)

-----------------------------------------------------------------------------
(* The handlers: pdin_handler for each frame that comes back with inputs,  *)
(* pdout_handler in every call of tick or send_trigger, in any state of    *)
(* the bus.                                                                *)

HandlerCheck(d) ==
    /\ d \in Inputs => Exchanging(bus)
    /\ hpc[d] = "idle"
    /\ pd[d] # None /\ prov[d] # None
    /\ hpc' = [hpc EXCEPT ![d] = "checked"]
    /\ UNCHANGED <<stateThread, handles, hpd, last>>

HandlerLoad(d) ==
    /\ hpc[d] = "checked"
    /\ hpd' = [hpd EXCEPT ![d] = pd[d]]
    /\ hpc' = [hpc EXCEPT ![d] = "loaded"]
    /\ UNCHANGED <<stateThread, handles, last>>

(* A device nobody holds any more is gone: the handlers follow a reference. *)
Held(d, i) == i \in {pd[d], insp[d]} \union {r[3] : r \in {q \in registry : q[2] = d}}

(* A device is written and read by its provider and consumer only; they    *)
(* are passed by reference.                                                *)
AccessOf(d) ==
    IF hpd[d] = None THEN "null"
    ELSE IF ~Held(d, hpd[d]) THEN "freed"
    ELSE IF prov[d] # None /\ attached[d][hpd[d]] = prov[d] THEN "ok"
    ELSE "refused"

HandlerAccess(d) ==
    /\ hpc[d] = "loaded"
    /\ last' = [last EXCEPT ![d] = AccessOf(d)]
    /\ hpc' = [hpc EXCEPT ![d] = "idle"]
    /\ hpd' = [hpd EXCEPT ![d] = None]
    /\ UNCHANGED <<stateThread, handles>>

Handler(d) == HandlerCheck(d) \/ HandlerLoad(d) \/ HandlerAccess(d)

Next ==
    \/ \E to \in States : Call(to)
    \/ StateThread
    \/ \E d \in Directions : Handler(d)

Spec == Init /\ [][Next]_vars

(* Frames keep coming while the bus exchanges them, handlers return, and   *)
(* the state thread is scheduled (the switch waits for the handlers).      *)
LiveSpec == Spec /\ SF_vars(StateThread) /\ \A d \in Directions : WF_vars(Handler(d))

-----------------------------------------------------------------------------
(* Properties.                                                             *)

(* The handler of the inputs never follows a null handle, nor a device     *)
(* that is gone, although it reads the handle a second time after its      *)
(* check (slave.cpp:1119-1125): as long as the bus is quiet below SAFEOP,  *)
(* handles are only cleared behind the switch.  Nothing says so of the     *)
(* outputs: a call of pdout_handler may last until behind the switch.      *)
NeverNull == \A d \in Inputs : last[d] \notin {"null", "freed"}

(* Between two calls the slave has its process data exactly in SAFEOP and  *)
(* OP, whole - attached, registered, inspected - and nothing is left in    *)
(* the registry that no handle leads to any more (slave.cpp:798-819,       *)
(* 895-966).                                                               *)
WholeWhenIdle ==
    Idle => LET up == Exchanging(state)
            IN  /\ \A d \in Directions :
                     /\ (pd[d] # None) = up
                     /\ insp[d] = pd[d]
                     /\ up => prov[d] # None /\ attached[d][pd[d]] = prov[d]
                     /\ ~up => prov[d] = None
                /\ registry = IF up THEN {<<kind, d, pd[d]>> : kind \in {"pd", "insp"},
                                                               d \in Directions}
                              ELSE {}

(* The inputs' device turns an exchange down only while a call is under    *)
(* way, never after it (slave.cpp:895-966 against 1119-1125).              *)
RefusedInCallsOnly ==
    [][\A d \in Inputs :
         last[d] # "refused" /\ last'[d] = "refused" => ~Idle]_vars

(* Every call ends; and from some time on a bus that is left in SAFEOP or  *)
(* OP exchanges process data again and again, in every direction the slave *)
(* has, and no exchange is turned down (slave.cpp:895-966, 1110-1125).     *)
ExchangeServed ==
    /\ ~Idle ~> Idle
    /\ \A d \in Directions :
         <>[]Exchanging(state) =>
             /\ []<>(hpc[d] = "checked")
             /\ <>[](last[d] = "ok")

=============================================================================
