------------------------------ MODULE HwStream ------------------------------
(***************************************************************************)
(* The network device that sends and receives EtherCAT frames over a       *)
(* stream of the robot kernel (hw_stream.c), with the thread that opens    *)
(* and closes it, its receive threads, and the callbacks of the triggers:  *)
(* one sends a frame every period and may read one itself, and where a     *)
(* recv_trigger is configured a second one reads.                          *)
(*                                                                         *)
(* A frame is an identity; the library behind hw_process_rx_frame is its   *)
(* end.  The static buffers recv_frame and send_frame are shared by all    *)
(* threads, without a lock of their own.                                   *)
(***************************************************************************)
EXTENDS Naturals, Sequences, FiniteSets

CONSTANTS
    Receivers,      \* identities of receive threads
    Frames,         \* frames that come back from the bus
    Datagrams,      \* what the library has to send
    MaxLine,        \* bound: frames in the stream at a time
    MaxReopens      \* bound: calls of open() that find the device open

CONSTANTS
    NoThread, NoFrame,
    Trigger,        \* the thread that runs tick or send_trigger
    Poller          \* the thread that runs recv_trigger

ASSUME StreamAssumption ==
    /\ NoThread \notin Receivers \union {Trigger, Poller}
    /\ {Trigger, Poller} \intersect Receivers = {} /\ Trigger # Poller
    /\ NoFrame \notin Frames
    /\ MaxLine \in Nat /\ MaxReopens \in Nat

VARIABLES
    pollers,        \* callbacks that call hw_rx: recv_trigger does, tick and
                    \* send_trigger behind a hw_tx that was not zero
    reopens,        \* how often open() found the device still open
    boot,           \* the device was opened for boot
    dev,            \* where the state thread is with the device
    ec_opened,
    acquired,       \* callbacks whose trigger is acquired
    rxthreadrunning,
    rxthread,       \* handle of the receive thread created last
    pc,             \* what each thread is doing
    line,           \* frames in the stream, oldest first
    recv_frame,     \* content of the shared receive buffer
    mine,           \* frame each thread got from its last read
    send_frame,     \* datagrams in the shared send buffer
    filled          \* datagrams the library put there for this frame

control == <<dev, boot, ec_opened, acquired, rxthreadrunning, rxthread>>
receive == <<line, recv_frame, mine>>
send    == <<send_frame, filled>>
env     == <<pollers, reopens>>
vars    == <<env, control, pc, receive, send>>

Callbacks == {Trigger, Poller}
Readers   == Receivers \union Callbacks

Steps == {"none", "test", "read", "process", "gone", "fill", "sent"}

TypeOK ==
    /\ pollers \subseteq Callbacks /\ reopens \in 0..MaxReopens
    /\ dev \in {"closed", "creating", "created", "failed", "open", "releasing",
                "stopping", "joining"}
    /\ boot \in BOOLEAN /\ ec_opened \in BOOLEAN /\ acquired \subseteq Callbacks
    /\ rxthreadrunning \in BOOLEAN
    /\ rxthread \in Receivers \union {NoThread}
    /\ pc \in [Readers -> Steps]
    /\ line \in Seq(Frames)
    /\ recv_frame \in Frames \union {NoFrame}
    /\ mine \in [Readers -> Frames \union {NoFrame}]
    /\ send_frame \subseteq Datagrams
    /\ filled \subseteq Datagrams

Init ==
    /\ pollers \in SUBSET Callbacks /\ reopens = 0
    /\ dev = "closed" /\ boot = FALSE /\ ec_opened = FALSE /\ acquired = {}
    /\ rxthreadrunning = FALSE /\ rxthread = NoThread
    /\ pc = [t \in Readers |-> "none"]
    /\ line = <<>> /\ recv_frame = NoFrame
    /\ mine = [t \in Readers |-> NoFrame]
    /\ send_frame = {} /\ filled = {}

Goto(t, p) == pc' = [pc EXCEPT ![t] = p]

-----------------------------------------------------------------------------
(* The state thread: hw_device_stream_open and hw_device_stream_close.     *)

(* Mutant: the flag is set behind the creation of the thread. *)
StartsStopped == rxthreadrunning' = FALSE

(* The flag is set before the thread that tests it exists. *)
StartsRunning == rxthreadrunning' = TRUE

OpenDevice ==
    /\ dev' = "creating" /\ boot' \in BOOLEAN
    /\ StartsRunning
    /\ UNCHANGED <<pollers, ec_opened, acquired, rxthread, pc, receive, send>>

Open == dev = "closed" /\ OpenDevice /\ UNCHANGED reopens

(* The start before failed, in open() or behind it, and left the device    *)
(* open and the master in init: the next one opens the device once more,   *)
(* with the callbacks running where the triggers were acquired.            *)
OpenAgain ==
    /\ dev \in {"failed", "open"} /\ OpenDevice
    /\ dev = "open" => ~boot
    /\ reopens < MaxReopens /\ reopens' = reopens + 1

(* osal_task_create; the handle of a thread created before is lost. *)
CreateTask(r) ==
    /\ dev = "creating" /\ dev' = "created"
    /\ pc[r] \in {"none", "gone"} /\ Goto(r, "test")
    /\ rxthread' = r
    /\ UNCHANGED <<env, boot, ec_opened, acquired, rxthreadrunning, receive, send>>

(* ec_open and the rest of master::open. *)
Opened ==
    /\ dev = "created" /\ dev' = "open" /\ ec_opened' = TRUE
    /\ UNCHANGED <<env, boot, acquired, rxthreadrunning, rxthread, pc, receive, send>>

(* master::open throws, before ec_opened is set or behind it. *)
OpenThrows ==
    /\ dev = "created" /\ dev' = "failed"
    /\ ec_opened' \in {ec_opened, TRUE}
    /\ UNCHANGED <<env, boot, acquired, rxthreadrunning, rxthread, pc, receive, send>>

(* The start goes on in preop, without an error: the triggers are acquired. *)
Acquire ==
    /\ dev = "open" /\ ~boot
    /\ acquired' = {Trigger} \union (pollers \intersect {Poller})
    /\ UNCHANGED <<env, dev, boot, ec_opened, rxthreadrunning, rxthread, pc, receive,
                   send>>

(* The master asks for init.  From preop and above release() of the        *)
(* trigger comes first; the master in boot closes the device at once.      *)
WantClosed ==
    /\ dev = "open" /\ dev' = (IF boot THEN "stopping" ELSE "releasing")
    /\ UNCHANGED <<env, boot, ec_opened, acquired, rxthreadrunning, rxthread, pc,
                   receive, send>>

(* release() waits for the callback; recv_trigger's is never released. *)
Released ==
    /\ dev = "releasing" /\ pc[Trigger] = "none" /\ dev' = "stopping"
    /\ acquired' = acquired \ {Trigger}
    /\ UNCHANGED <<env, boot, ec_opened, rxthreadrunning, rxthread, pc, receive, send>>

(* Mutant: the thread is told to stop only after the join. *)
StopForgotten == UNCHANGED rxthreadrunning

Stop == rxthreadrunning' = FALSE

Close ==
    /\ dev = "stopping" /\ dev' = "joining"
    /\ Stop
    /\ UNCHANGED <<env, boot, ec_opened, acquired, rxthread, pc, receive, send>>

(* Mutant: close() does not wait for the thread. *)
JoinAtOnce == pc' = pc

(* osal_task_join waits for the thread of the handle, and for no other. *)
JoinReceiver == pc[rxthread] = "gone" /\ Goto(rxthread, "none")

Join ==
    /\ dev = "joining" /\ dev' = "closed" /\ ec_opened' = FALSE
    /\ JoinReceiver
    /\ UNCHANGED <<env, boot, acquired, rxthreadrunning, rxthread, receive, send>>

-----------------------------------------------------------------------------
(* Receiving: the receive threads, and hw_rx in the callbacks.             *)

TestFlag(r) ==
    /\ pc[r] = "test" /\ Goto(r, IF rxthreadrunning THEN "read" ELSE "gone")
    /\ UNCHANGED <<env, control, receive, send>>

(* What a thread does after a call of hw_device_stream_recv. *)
AfterReceive(t) == IF t \in Callbacks THEN "none" ELSE "test"

(* recv_trigger reads, whether or not the device is open. *)
Poll ==
    /\ Poller \in acquired /\ pc[Poller] = "none" /\ Goto(Poller, "read")
    /\ UNCHANGED <<env, control, receive, send>>

(* stream_read copies the next frame into recv_frame ... *)
ReadFrame(t) ==
    /\ pc[t] = "read" /\ line # <<>>
    /\ recv_frame' = Head(line) /\ line' = Tail(line)
    /\ mine' = [mine EXCEPT ![t] = Head(line)]
    /\ Goto(t, "process")
    /\ UNCHANGED <<env, control, send>>

(* Mutant: the result of stream_read is not looked at. *)
ReadUnchecked(t) ==
    /\ pc[t] = "read" /\ line = <<>>
    /\ Goto(t, "process")
    /\ UNCHANGED <<env, control, receive, send>>

(* ... or returns without one: a timeout or an error of the stream.  While *)
(* it does neither the thread is blocked.                                  *)
ReadNothing(t) ==
    /\ pc[t] = "read" /\ line = <<>>
    /\ Goto(t, AfterReceive(t))
    /\ UNCHANGED <<env, control, receive, send>>

(* hw_process_rx_frame takes what is in recv_frame now. *)
Process(t) ==
    /\ pc[t] = "process"
    /\ mine' = [mine EXCEPT ![t] = NoFrame]
    /\ Goto(t, AfterReceive(t))
    /\ UNCHANGED <<env, control, line, recv_frame, send>>

(* The bus sends a frame back. *)
Arrive(f) ==
    /\ Len(line) < MaxLine
    /\ f # recv_frame /\ \A i \in 1..Len(line) : line[i] # f
    /\ \A t \in Readers : mine[t] # f
    /\ line' = Append(line, f)
    /\ UNCHANGED <<env, control, pc, recv_frame, mine, send>>

-----------------------------------------------------------------------------
(* Sending: hw_tx in the trigger callback.  The library asks for the send  *)
(* buffer, puts datagrams behind its header and has it written, all under  *)
(* a lock.                                                                 *)

(* Mutant: the length of the frame is not reset. *)
KeepLength == UNCHANGED send_frame

ResetLength == send_frame' = {}

GetTxBuffer ==
    /\ Trigger \in acquired /\ ec_opened /\ pc[Trigger] = "none"
    /\ ResetLength
    /\ filled' = {} /\ Goto(Trigger, "fill")
    /\ UNCHANGED <<env, control, receive>>

Fill(d) ==
    /\ pc[Trigger] = "fill" /\ d \notin filled
    /\ send_frame' = send_frame \union {d} /\ filled' = filled \union {d}
    /\ UNCHANGED <<env, control, pc, receive>>

(* stream_write takes all of the frame, or reports an error; either way    *)
(* its datagrams stay in the buffer.                                       *)
Send ==
    /\ pc[Trigger] = "fill" /\ filled # {} /\ Goto(Trigger, "sent")
    /\ UNCHANGED <<env, control, receive, send>>

(* The callback returns, or reads a frame first where hw_tx was not zero. *)
AfterSend ==
    /\ pc[Trigger] = "sent"
    /\ \/ Goto(Trigger, "none")
       \/ Trigger \in pollers /\ Goto(Trigger, "read")
    /\ UNCHANGED <<env, control, receive, send>>

-----------------------------------------------------------------------------

StateThread ==
    \/ \E r \in Receivers : CreateTask(r)
    \/ Opened \/ Released \/ Close \/ Join

Receive(t) == ReadFrame(t) \/ ReadNothing(t) \/ Process(t)

SendSteps == \/ \E d \in Datagrams : Fill(d)
             \/ Send \/ AfterSend

Next ==
    \/ Open \/ OpenAgain \/ OpenThrows \/ Acquire \/ WantClosed \/ StateThread
    \/ \E r \in Receivers : TestFlag(r)
    \/ Poll \/ \E t \in Readers : Receive(t)
    \/ \E f \in Frames : Arrive(f)
    \/ GetTxBuffer \/ SendSteps

Spec == Init /\ [][Next]_vars

(* Every thread runs, and a read returns a frame that is there; nothing    *)
(* says that a read without a frame comes back.                            *)
LiveSpec ==
    /\ Spec
    /\ SF_vars(StateThread)
    /\ \A r \in Receivers : WF_vars(TestFlag(r))
    /\ \A t \in Readers : WF_vars(ReadFrame(t)) /\ WF_vars(Process(t))
    /\ WF_vars(SendSteps)

-----------------------------------------------------------------------------
(* Properties.                                                             *)

(* Outside open() and close() the only receive thread is the one of the    *)
(* handle, and a closed device has none: a thread left behind would see    *)
(* the flag of the next open() and read on (hw_stream.c:106-113, 142-150). *)
(* It holds until an open() finds the device still open behind a start     *)
(* that failed; that one leaves the thread before to run on.               *)
ReceiverOwned ==
    reopens = 0 =>
        /\ dev = "closed" => \A r \in Receivers : pc[r] = "none"
        /\ dev \in {"failed", "open", "releasing"} =>
             \A r \in Receivers : pc[r] = "none" \/ r = rxthread

(* A thread hands the library the frame that it read: nobody reads into    *)
(* recv_frame before it is processed, as long as the receive thread is the *)
(* only reader (hw_stream.c:167-180): no callback polls, and no open()     *)
(* found the device open.  Otherwise two threads overwrite each other's    *)
(* frame.                                                                  *)
FrameKept ==
    reopens = 0 /\ pollers = {} =>
        \A t \in Readers : pc[t] = "process" => recv_frame = mine[t]

(* A frame is written with the datagrams the library put into it and none  *)
(* of a frame before that could not be written (hw_stream.c:197-212).      *)
SentWhole == pc[Trigger] = "fill" => send_frame = filled

(* A closing master gets its device closed, unless the thread it waits for *)
(* stays in its read for ever: nothing but the stream ends that one        *)
(* (hw_stream.c:142-150, 175).                                             *)
Closing == dev \in {"releasing", "stopping", "joining"}

Sits == \E t \in {rxthread, Trigger} : t \in Readers /\ pc[t] = "read"

CloseReturns == Closing ~> (dev = "closed" \/ []Sits)

(* A frame from the bus is taken out of the stream while the device is     *)
(* open (hw_stream.c:117-139).                                             *)
FramesTaken == \A f \in Frames :
    (line # <<>> /\ Head(line) = f /\ dev = "open")
        ~> (dev # "open" \/ recv_frame = f)

=============================================================================
