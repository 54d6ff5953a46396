--------------------------- MODULE HwStreamProofs ---------------------------
(***************************************************************************)
(* Proofs about HwStream, for any number of threads, frames and re-opens.  *)
(***************************************************************************)
EXTENDS HwStream, TLAPS

-----------------------------------------------------------------------------
(* Type correctness.                                                       *)

LEMMA TypeInit == ASSUME Init PROVE TypeOK
<1>1. line \in Seq(Frames)
  BY DEF Init
<1>2. reopens \in 0..MaxReopens
  BY StreamAssumption DEF Init
<1> QED
  BY <1>1, <1>2 DEF Init, TypeOK, Steps

LEMMA GotoType ==
    ASSUME TypeOK, NEW t \in Readers, NEW p, Goto(t, p),
           p \in Steps
    PROVE  /\ pc' \in [Readers -> Steps]
           /\ pc'[t] = p
           /\ \A u \in Readers \ {t} : pc'[u] = pc[u]
BY DEF Goto, TypeOK

LEMMA TypeStep == ASSUME TypeOK, [Next]_vars PROVE TypeOK'
<1> USE StreamAssumption DEF TypeOK
<1>1. CASE UNCHANGED vars
  BY <1>1 DEF vars, env, control, receive, send
<1>2. CASE Open \/ OpenAgain
  <2>1. /\ OpenDevice
        /\ reopens' \in 0..MaxReopens
    BY <1>2 DEF Open, OpenAgain
  <2> QED
    BY <2>1 DEF OpenDevice, StartsRunning, receive, send
<1>3. CASE OpenThrows \/ Opened
  BY <1>3 DEF OpenThrows, Opened, env, receive, send
<1>4. CASE Acquire
  <2>1. acquired' \subseteq Callbacks
    BY <1>4 DEF Acquire, Callbacks
  <2> QED
    BY <1>4, <2>1 DEF Acquire, env, receive, send
<1>5. CASE WantClosed \/ Released \/ Close
  <2>1. /\ dev' \in {"releasing", "stopping", "joining"}
        /\ acquired' \subseteq Callbacks
        /\ rxthreadrunning' \in BOOLEAN
        /\ UNCHANGED <<env, boot, ec_opened, rxthread, pc, receive, send>>
    BY <1>5 DEF WantClosed, Released, Close, Stop
  <2> QED
    BY <2>1 DEF env, receive, send
<1>6. ASSUME NEW r \in Receivers, CreateTask(r) PROVE TypeOK'
  BY <1>6, GotoType DEF CreateTask, Readers, Steps, env, receive, send
<1>7. CASE Join
  <2>1. rxthread \in Readers => pc' \in [Readers -> Steps]
    BY <1>7, GotoType DEF Join, JoinReceiver, Steps
  <2>2. rxthread \notin Readers => pc' = pc
    BY <1>7 DEF Join, JoinReceiver, Goto
  <2> QED
    BY <1>7, <2>1, <2>2 DEF Join, env, receive, send
<1>8. ASSUME NEW r \in Receivers, TestFlag(r) PROVE TypeOK'
  BY <1>8, GotoType DEF TestFlag, Readers, Steps, env, control, receive, send
<1>9. ASSUME NEW t \in Readers, Receive(t) PROVE TypeOK'
  <2>1. AfterReceive(t) \in Steps
    BY DEF AfterReceive, Steps
  <2>2. CASE ReadFrame(t)
    <3>1. Head(line) \in Frames /\ Tail(line) \in Seq(Frames)
      BY <2>2 DEF ReadFrame
    <3>2. pc' \in [Readers -> Steps]
      BY <2>2, GotoType DEF ReadFrame, Steps
    <3> QED
      BY <2>2, <3>1, <3>2 DEF ReadFrame, env, control, send
  <2>3. CASE ReadNothing(t)
    BY <2>1, <2>3, GotoType DEF ReadNothing, env, control, receive, send
  <2>4. CASE Process(t)
    BY <2>1, <2>4, GotoType DEF Process, env, control, send
  <2> QED
    BY <1>9, <2>2, <2>3, <2>4 DEF Receive
<1>10. CASE Poll
  BY <1>10, GotoType DEF Poll, Readers, Callbacks, Steps, env, control, receive, send
<1>11. ASSUME NEW f \in Frames, Arrive(f) PROVE TypeOK'
  BY <1>11 DEF Arrive, env, control, send
<1>12. CASE GetTxBuffer
  BY <1>12, GotoType DEF GetTxBuffer, ResetLength, Readers, Callbacks, Steps, env,
                         control, receive
<1>13. ASSUME NEW d \in Datagrams, Fill(d) PROVE TypeOK'
  BY <1>13 DEF Fill, env, control, receive
<1>14. CASE Send
  BY <1>14, GotoType DEF Send, Readers, Callbacks, Steps, env, control, receive, send
<1>15. CASE AfterSend
  BY <1>15, GotoType DEF AfterSend, Readers, Callbacks, Steps, env, control, receive,
                         send
<1> QED
  BY <1>1, <1>2, <1>3, <1>4, <1>5, <1>6, <1>7, <1>8, <1>9, <1>10, <1>11, <1>12, <1>13,
     <1>14, <1>15 DEF Next, StateThread, SendSteps

-----------------------------------------------------------------------------
(* One receive thread at a time.                                           *)

(* As long as no open() found the device open: there is no receive thread  *)
(* before the task is created, and then only the one of the handle.        *)
OwnerInv ==
    reopens = 0 =>
        /\ dev \in {"closed", "creating"} => \A r \in Receivers : pc[r] = "none"
        /\ dev \notin {"closed", "creating"} =>
             /\ rxthread \in Receivers
             /\ \A r \in Receivers \ {rxthread} : pc[r] = "none"

(* A callback reads only where it is one of the pollers, and the reader    *)
(* that is about to process a frame is the last one that read.             *)
FrameInv ==
    reopens = 0 /\ pollers = {} =>
        /\ Poller \notin acquired /\ pc[Poller] = "none"
        /\ pc[Trigger] \notin {"read", "process"}
        /\ \A t \in Readers : pc[t] = "process" => recv_frame = mine[t]

StreamInv == TypeOK /\ OwnerInv /\ FrameInv /\ SentWhole

LEMMA OwnerStep ==
    ASSUME TypeOK, OwnerInv, [Next]_vars
    PROVE  OwnerInv'
<1> USE StreamAssumption DEF OwnerInv
<1> USE DEF Readers, Callbacks
<1>1. CASE UNCHANGED vars
  BY <1>1 DEF vars, env, control
<1>2. CASE Open
  BY <1>2 DEF Open, OpenDevice
<1>3. CASE OpenAgain
  BY <1>3 DEF OpenAgain, TypeOK
<1>4. CASE Opened \/ OpenThrows \/ Acquire \/ WantClosed \/ Released \/ Close
  <2>1. /\ dev \notin {"closed", "creating"} /\ dev' \notin {"closed", "creating"}
        /\ UNCHANGED <<reopens, rxthread, pc>>
    BY <1>4 DEF Opened, OpenThrows, Acquire, WantClosed, Released, Close, env
  <2> QED
    BY <2>1
<1>5. ASSUME NEW r \in Receivers, CreateTask(r) PROVE OwnerInv'
  BY <1>5, GotoType DEF CreateTask, Steps, env
<1>6. CASE Join
  <2>1. /\ dev = "joining" /\ dev' = "closed" /\ UNCHANGED reopens
        /\ Goto(rxthread, "none")
    BY <1>6 DEF Join, JoinReceiver, env
  <2>2. rxthread \in Receivers => \A r \in Receivers \ {rxthread} : pc'[r] = pc[r]
    BY <2>1, GotoType DEF Steps
  <2>3. rxthread \in Receivers => pc'[rxthread] = "none"
    BY <2>1, GotoType DEF Steps
  <2> QED
    BY <2>1, <2>2, <2>3
<1>7. ASSUME NEW r \in Receivers, TestFlag(r) PROVE OwnerInv'
  <2>1. /\ pc[r] = "test" /\ UNCHANGED <<env, control>>
        /\ \A u \in Receivers \ {r} : pc'[u] = pc[u]
    BY <1>7, GotoType DEF TestFlag, Steps
  <2> QED
    BY <2>1 DEF env, control
<1>8. ASSUME NEW t \in Readers, Receive(t) PROVE OwnerInv'
  <2>1. /\ pc[t] \in {"read", "process"} /\ UNCHANGED <<env, control>>
        /\ \A u \in Readers \ {t} : pc'[u] = pc[u]
    BY <1>8, GotoType DEF Receive, ReadFrame, ReadNothing, Process, AfterReceive,
                          Steps
  <2> QED
    BY <2>1 DEF env, control
<1>9. CASE Poll \/ GetTxBuffer \/ Send \/ AfterSend
  <2>1. /\ UNCHANGED <<env, control>>
        /\ \A u \in Receivers : pc'[u] = pc[u]
    BY <1>9, GotoType DEF Poll, GetTxBuffer, Send, AfterSend, Steps
  <2> QED
    BY <2>1 DEF env, control
<1>10. ASSUME NEW f \in Frames, Arrive(f) PROVE OwnerInv'
  BY <1>10 DEF Arrive, env, control
<1>11. ASSUME NEW d \in Datagrams, Fill(d) PROVE OwnerInv'
  BY <1>11 DEF Fill, env, control
<1> QED
  BY <1>1, <1>2, <1>3, <1>4, <1>5, <1>6, <1>7, <1>8, <1>9, <1>10, <1>11
     DEF Next, StateThread, SendSteps

LEMMA FrameStep ==
    ASSUME TypeOK, OwnerInv, FrameInv, [Next]_vars
    PROVE  FrameInv'
<1> USE StreamAssumption DEF FrameInv
<1> USE DEF Readers, Callbacks
<1>1. CASE UNCHANGED vars
  BY <1>1 DEF vars, env, control, receive
<1>2. CASE OpenAgain
  BY <1>2 DEF OpenAgain, TypeOK
<1>3. CASE Open \/ Opened \/ OpenThrows \/ WantClosed \/ Close
  <2>1. UNCHANGED <<env, acquired, pc, receive>>
    BY <1>3 DEF Open, OpenDevice, Opened, OpenThrows, WantClosed, Close, env
  <2> QED
    BY <2>1 DEF env, receive
<1>4. CASE Acquire \/ Released
  <2>1. UNCHANGED <<env, pc, receive>>
    BY <1>4 DEF Acquire, Released
  <2>2. pollers = {} /\ Poller \notin acquired => Poller \notin acquired'
    BY <1>4 DEF Acquire, Released
  <2> QED
    BY <2>1, <2>2 DEF env, receive
<1>5. ASSUME NEW r \in Receivers, CreateTask(r) \/ TestFlag(r) PROVE FrameInv'
  <2>1. /\ UNCHANGED <<env, acquired, receive>>
        /\ pc'[r] # "process"
        /\ \A u \in Readers \ {r} : pc'[u] = pc[u]
    BY <1>5, GotoType DEF CreateTask, TestFlag, Steps, control
  <2> QED
    BY <2>1 DEF env, receive
<1>6. CASE Join
  <2>1. UNCHANGED <<env, acquired, receive>> /\ Goto(rxthread, "none")
    BY <1>6 DEF Join, JoinReceiver
  <2>2. CASE rxthread \in Receivers
    <3>1. /\ pc'[rxthread] = "none"
          /\ \A u \in Readers \ {rxthread} : pc'[u] = pc[u]
      BY <2>1, <2>2, GotoType DEF Steps
    <3> QED
      BY <2>1, <2>2, <3>1 DEF env, receive
  <2>3. CASE rxthread \notin Receivers
    BY <1>6, <2>3 DEF Join, OwnerInv, env
  <2> QED
    BY <2>2, <2>3
<1>7. ASSUME NEW t \in Readers, Receive(t) PROVE FrameInv'
  <2>1. SUFFICES ASSUME reopens = 0, pollers = {} PROVE FrameInv'
    BY <1>7 DEF Receive, ReadFrame, ReadNothing, Process, env
  <2>2. /\ pc[t] \in {"read", "process"} /\ UNCHANGED <<env, control>>
        /\ \A u \in Readers \ {t} : pc'[u] = pc[u]
    BY <1>7, GotoType DEF Receive, ReadFrame, ReadNothing, Process, AfterReceive,
                          Steps
  <2>3. t \in Receivers /\ \A u \in Receivers \ {t} : pc[u] = "none"
    BY <2>1, <2>2 DEF OwnerInv
  <2>4. acquired' = acquired
    BY <2>2 DEF control
  <2>5. CASE ReadFrame(t)
    <3>1. recv_frame' = mine'[t]
      BY <2>5 DEF ReadFrame, TypeOK
    <3>2. \A u \in Readers \ {t} : pc'[u] # "process"
      BY <2>1, <2>2, <2>3
    <3> QED
      BY <2>1, <2>2, <2>3, <2>4, <3>1, <3>2
  <2>6. CASE ReadNothing(t) \/ Process(t)
    <3>1. pc'[t] = "test"
      BY <2>3, <2>6, GotoType DEF ReadNothing, Process, AfterReceive, Steps
    <3>2. \A u \in Readers : pc'[u] # "process"
      BY <2>1, <2>2, <2>3, <3>1
    <3> QED
      BY <2>1, <2>2, <2>3, <2>4, <3>2
  <2> QED
    BY <1>7, <2>5, <2>6 DEF Receive
<1>8. CASE Poll
  <2>1. UNCHANGED env /\ Poller \in acquired
    BY <1>8 DEF Poll
  <2> QED
    BY <2>1 DEF env
<1>9. ASSUME NEW f \in Frames, Arrive(f) PROVE FrameInv'
  BY <1>9 DEF Arrive, env, control
<1>10. CASE GetTxBuffer \/ Send \/ AfterSend
  <2>1. /\ UNCHANGED <<env, acquired, receive>>
        /\ \A u \in Readers \ {Trigger} : pc'[u] = pc[u]
    BY <1>10, GotoType DEF GetTxBuffer, Send, AfterSend, Steps, control
  <2>2. pollers = {} => pc'[Trigger] \notin {"read", "process"}
    BY <1>10, GotoType DEF GetTxBuffer, Send, AfterSend, Steps
  <2> QED
    BY <2>1, <2>2 DEF env, receive
<1>11. ASSUME NEW d \in Datagrams, Fill(d) PROVE FrameInv'
  BY <1>11 DEF Fill, env, control, receive
<1> QED
  BY <1>1, <1>2, <1>3, <1>4, <1>5, <1>6, <1>7, <1>8, <1>9, <1>10, <1>11
     DEF Next, StateThread, SendSteps

LEMMA SentStep ==
    ASSUME TypeOK, SentWhole, [Next]_vars
    PROVE  SentWhole'
<1> USE StreamAssumption DEF SentWhole
<1> USE DEF Readers, Callbacks
<1>1. CASE UNCHANGED vars
  BY <1>1 DEF vars, send
<1>2. CASE Open \/ OpenAgain \/ Opened \/ OpenThrows \/ Acquire \/ WantClosed
           \/ Released \/ Close
  BY <1>2 DEF Open, OpenAgain, OpenDevice, Opened, OpenThrows, Acquire, WantClosed,
              Released, Close, send
<1>3. ASSUME NEW r \in Receivers, CreateTask(r) \/ TestFlag(r) PROVE SentWhole'
  BY <1>3, GotoType DEF CreateTask, TestFlag, Steps, send
<1>4. CASE Join
  <2>1. pc'[Trigger] = pc[Trigger]
    <3>1. rxthread # Trigger
      BY DEF TypeOK
    <3> QED
      BY <1>4, <3>1 DEF Join, JoinReceiver, Goto, TypeOK
  <2> QED
    BY <1>4, <2>1 DEF Join, send
<1>5. ASSUME NEW t \in Readers, Receive(t) PROVE SentWhole'
  BY <1>5, GotoType DEF Receive, ReadFrame, ReadNothing, Process, AfterReceive,
                        Steps, send
<1>6. ASSUME NEW f \in Frames, Arrive(f) PROVE SentWhole'
  BY <1>6 DEF Arrive, send
<1>7. CASE GetTxBuffer \/ Send \/ AfterSend \/ Poll
  BY <1>7, GotoType DEF GetTxBuffer, ResetLength, Send, AfterSend, Poll, Steps, send
<1>8. ASSUME NEW d \in Datagrams, Fill(d) PROVE SentWhole'
  BY <1>8 DEF Fill
<1> QED
  BY <1>1, <1>2, <1>3, <1>4, <1>5, <1>6, <1>7, <1>8
     DEF Next, StateThread, SendSteps

LEMMA StreamInvariant == Spec => []StreamInv
<1>1. Init => StreamInv
  BY TypeInit, StreamAssumption DEF Init, StreamInv, OwnerInv, FrameInv,
     SentWhole, Readers, Callbacks
<1>2. StreamInv /\ [Next]_vars => StreamInv'
  BY TypeStep, OwnerStep, FrameStep, SentStep DEF StreamInv
<1> QED
  BY <1>1, <1>2, PTL DEF Spec

(* Opening and closing leave no receive thread behind that would read on   *)
(* with the flag of the next open(), as long as no open() finds the device *)
(* open behind a start that failed (hw_stream.c:106-113, 142-150).         *)
THEOREM OneReceiver == Spec => []ReceiverOwned
<1>1. StreamInv => ReceiverOwned
  BY DEF StreamInv, OwnerInv, ReceiverOwned
<1> QED
  BY <1>1, StreamInvariant, PTL

(* The shared receive buffer holds the frame of the thread that processes  *)
(* it, where no callback reads and no open() found the device open         *)
(* (hw_stream.c:167-180).                                                  *)
THEOREM FrameUntouched == Spec => []FrameKept
<1>1. StreamInv => FrameKept
  BY DEF StreamInv, FrameInv, FrameKept
<1> QED
  BY <1>1, StreamInvariant, PTL

(* A frame that could not be written leaves nothing in the next one        *)
(* (hw_stream.c:197-212).                                                  *)
THEOREM NothingLeftOver == Spec => []SentWhole
<1>1. StreamInv => SentWhole
  BY DEF StreamInv
<1> QED
  BY <1>1, StreamInvariant, PTL

=============================================================================
