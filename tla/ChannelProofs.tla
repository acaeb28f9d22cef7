--------------------------- MODULE ChannelProofs ---------------------------
(***************************************************************************)
(* Proofs about Channel, for any number of coroutines, any capacity and    *)
(* any set of variants.                                                    *)
(*                                                                         *)
(* 1. The ring.  Without resizing a channel that holds variants, the ring  *)
(* buffer stays coherent and the channel implements the bounded FIFO of    *)
(* ChannelFIFO.  Every step of the system leaves the ring alone, is one of *)
(* four ring operations (RingStep), or resizes it (ResizeRing).  All of    *)
(* them keep FrameInv, the types and the bounds of the indices; the ring   *)
(* operations also keep RingCoherent and are steps of the FIFO, and so is  *)
(* a resize of an empty channel.  The only facts needed about the rest of  *)
(* the state are that a call to be repeated carries a variant (CallType)   *)
(* and that an unmapped channel has no buffer (MapInv).                    *)
(*                                                                         *)
(* 2. The waiting lists and the life of the structure, with resizes of any *)
(* kind: TypeOK, WaitListsSound and NoDanglingChannel.  The lists enter    *)
(* only through their sets of members: what each list operation does to    *)
(* that set, and what each change of the scheduler's state does to the     *)
(* relation Waiting between such a set and the calls under way.            *)
(*                                                                         *)
(* 3. nr_stopped_crtns follows the set of stopped coroutines, but for the  *)
(* coroutines that are resumed twice.                                      *)
(*                                                                         *)
(* 4. Without timers, and with one capacity: no wakeup is lost.            *)
(***************************************************************************)
EXTENDS Channel, SequenceTheorems, FiniteSetTheorems, TLAPS

RingType ==
    /\ qsize \in 0 .. MaxCap /\ qcount \in 0 .. MaxCap
    /\ sendx \in 0 .. MaxCap /\ recvx \in 0 .. MaxCap
    /\ data \in [Slots -> Val \cup {None}]

CallType == call \in [Crtn -> Calls]

\* A channel that is not in the map has no buffer.
MapInv == ~mapped => qsize = 0

\* The part of RingCoherent that does not relate the indices to the counter.
RingBounds ==
    /\ qcount <= qsize
    /\ IF qsize = 0 THEN sendx = 0 /\ recvx = 0
                    ELSE sendx < qsize /\ recvx < qsize

FrameInv == RingType /\ RingBounds /\ CallType /\ MapInv

RingInv == FrameInv /\ RingCoherent

\* The ring of a channel that was just closed or freed (n = 0), opened, or
\* resized while it was empty.
Reset(n) ==
    /\ qsize' = n /\ qcount' = 0 /\ sendx' = 0 /\ recvx' = 0
    /\ data' \in [Slots -> Val \cup {None}]

RingStep ==
    \/ UNCHANGED ring
    \/ \E v \in Val : qcount < qsize /\ Enqueue(v)
    \/ qcount > 0 /\ Dequeue
    \/ Reset(0)
    \/ \E n \in 1 .. MaxCap : qcount = 0 /\ Reset(n)

ResizeRing ==
    \E n \in 1 .. MaxCap :
       n > qcount /\ (ResizeBuffered \/ qcount = 0) /\ Resize(n)

-----------------------------------------------------------------------------
\* Storing a variant in the next free slot keeps the ring coherent.
LEMMA EnqueueCoherent ==
    ASSUME RingType, RingCoherent, NEW v \in Val, qcount < qsize, Enqueue(v)
    PROVE  RingType' /\ RingCoherent'
<1> USE ChannelAssumption DEF RingType, Slots
<1>1. sendx \in Slots /\ sendx < qsize /\ recvx < qsize /\ qsize > 0
  BY DEF RingCoherent
<1>2. RingType'
  BY <1>1 DEF Enqueue, Wrap
<1>3. sendx' = SlotAt(qcount)'
  BY <1>1 DEF RingCoherent, SlotAt, Enqueue, Wrap
<1>4. ASSUME NEW k \in Slots, k < qcount'
      PROVE  data'[SlotAt(k)'] \in Val
  <2>1. SlotAt(k)' = SlotAt(k) /\ SlotAt(k) \in Slots
    BY <1>1, <1>4 DEF SlotAt, Enqueue
  <2>2. CASE k = qcount
    BY <1>1, <2>1, <2>2 DEF Enqueue, RingCoherent
  <2>3. CASE k < qcount
    <3>1. SlotAt(k) # sendx
      BY <1>1, <2>3 DEF RingCoherent, SlotAt
    <3> QED BY <1>1, <2>1, <2>3, <3>1 DEF Enqueue, RingCoherent
  <2> QED BY <1>4, <2>2, <2>3 DEF Enqueue
<1> QED BY <1>1, <1>2, <1>3, <1>4 DEF RingCoherent, Enqueue, Wrap, SlotAt

\* Handing out the oldest variant keeps the ring coherent.
LEMMA DequeueCoherent ==
    ASSUME RingType, RingCoherent, qcount > 0, Dequeue
    PROVE  RingType' /\ RingCoherent'
<1> USE ChannelAssumption DEF RingType, Slots
<1>1. sendx < qsize /\ recvx < qsize /\ qsize > 0
  BY DEF RingCoherent
<1>2. RingType'
  BY <1>1 DEF Dequeue, Wrap
<1>3. sendx' = SlotAt(qcount)'
  BY <1>1 DEF RingCoherent, SlotAt, Dequeue, Wrap
<1>4. ASSUME NEW k \in Slots, k < qcount'
      PROVE  data'[SlotAt(k)'] \in Val
  <2>1. k + 1 \in Slots /\ k + 1 < qcount
    BY <1>1, <1>4 DEF Dequeue, RingCoherent
  <2>2. SlotAt(k)' = SlotAt(k + 1)
    BY <1>1, <1>4, <2>1 DEF SlotAt, Dequeue, Wrap, RingCoherent
  <2> QED BY <2>1, <2>2 DEF RingCoherent, Dequeue
<1> QED BY <1>1, <1>2, <1>3, <1>4 DEF RingCoherent, Dequeue, Wrap, SlotAt

\* A fresh ring is coherent.
LEMMA ResetCoherent ==
    ASSUME NEW n \in 0 .. MaxCap, Reset(n)
    PROVE  RingType' /\ RingCoherent'
BY ChannelAssumption DEF Reset, RingType, RingCoherent, SlotAt, Slots

LEMMA RingStepCoherent ==
    ASSUME RingType, RingCoherent, RingStep
    PROVE  RingType' /\ RingCoherent'
<1>1. CASE UNCHANGED ring
  BY <1>1 DEF ring, RingType, RingCoherent, SlotAt
<1>2. CASE \E v \in Val : qcount < qsize /\ Enqueue(v)
  BY <1>2, EnqueueCoherent
<1>3. CASE qcount > 0 /\ Dequeue
  BY <1>3, DequeueCoherent
<1>4. CASE Reset(0)
  <2>1. 0 \in 0 .. MaxCap
    BY ChannelAssumption
  <2> QED BY <1>4, <2>1, ResetCoherent
<1>5. CASE \E n \in 1 .. MaxCap : qcount = 0 /\ Reset(n)
  <2>1. PICK n \in 1 .. MaxCap : Reset(n)
    BY <1>5
  <2>2. n \in 0 .. MaxCap
    BY ChannelAssumption
  <2> QED BY <2>1, <2>2, ResetCoherent
<1> QED BY <1>1, <1>2, <1>3, <1>4, <1>5 DEF RingStep

-----------------------------------------------------------------------------
\* The four operations that change the ring, seen from the calls that use
\* them.
LEMMA ResizeStep ==
    ASSUME RingType, NEW n \in 1 .. MaxCap, qcount = 0, Resize(n)
    PROVE  RingStep
<1>1. Reset(n)
  BY ChannelAssumption DEF Resize, Reset, RingType, Slots
<1> QED BY <1>1 DEF RingStep

LEMMA EmptyDataType == [i \in Slots |-> None] \in [Slots -> Val \cup {None}]
OBVIOUS

\* A ring operation or a resize keeps the types and the bounds.
LEMMA RingStepBounds ==
    ASSUME RingType, RingBounds, RingStep \/ ResizeRing
    PROVE  RingType' /\ RingBounds'
<1> USE ChannelAssumption DEF RingType, RingBounds, Slots
<1>1. CASE UNCHANGED ring
  BY <1>1 DEF ring
<1>2. CASE \E v \in Val : qcount < qsize /\ Enqueue(v)
  BY <1>2 DEF Enqueue, Wrap
<1>3. CASE qcount > 0 /\ Dequeue
  BY <1>3 DEF Dequeue, Wrap
<1>4. CASE Reset(0)
  BY <1>4 DEF Reset
<1>5. CASE \E n \in 1 .. MaxCap : qcount = 0 /\ Reset(n)
  BY <1>5 DEF Reset
<1>6. CASE ResizeRing
  <2>1. PICK n \in 1 .. MaxCap : n > qcount /\ Resize(n)
    BY <1>6 DEF ResizeRing
  <2>2. ASSUME NEW i \in Slots, i < qcount
        PROVE  data[SlotAt(i)] \in Val \cup {None}
    BY <2>2 DEF SlotAt
  <2>3. data' \in [Slots -> Val \cup {None}]
    BY <2>1, <2>2 DEF Resize
  <2> QED BY <2>1, <2>3 DEF Resize
<1> QED BY <1>1, <1>2, <1>3, <1>4, <1>5, <1>6 DEF RingStep

LEMMA CtrlStep ==
    ASSUME RingType, NEW n \in Caps, pcchan_ctrl(n)
    PROVE  (RingStep \/ ResizeRing) /\ UNCHANGED call
<1>1. n \in 0 .. MaxCap
  BY ChannelAssumption
<1>2. CASE n = 0 /\ refc = 0 /\ Erase /\ UNCHANGED <<lists, sched>>
  BY <1>2, EmptyDataType DEF Erase, RingStep, Reset, sched
<1>3. CASE n = 0 /\ refc > 0 /\ Close
  BY <1>3, EmptyDataType DEF Close, RingStep, Reset
<1>4. CASE n > qcount /\ (ResizeBuffered \/ qcount = 0) /\ Resize(n)
  <2>1. n \in 1 .. MaxCap
    BY <1>1, <1>4, ChannelAssumption DEF RingType
  <2>2. ResizeRing
    BY <1>4, <2>1 DEF ResizeRing
  <2> QED BY <1>4, <2>2 DEF Resize, sched
<1>5. CASE UNCHANGED <<mapped, ring, lists, sched>>
  BY <1>5 DEF RingStep, sched
<1> QED BY <1>2, <1>3, <1>4, <1>5 DEF pcchan_ctrl

LEMMA OpenStep ==
    ASSUME RingType, NEW n \in Caps, pcchan_open(n), qcount = 0
    PROVE  RingStep /\ UNCHANGED call
<1>1. n \in 1 .. MaxCap
  BY ChannelAssumption DEF pcchan_open
<1>2. Reset(n)
  BY EmptyDataType DEF pcchan_open, Reset
<1> QED BY <1>1, <1>2 DEF RingStep, pcchan_open, sched

\* The calls that a coroutine can be left to repeat.
LEMMA CallAssigned ==
    ASSUME CallType, NEW c \in Crtn, NEW k \in Calls,
           call' = [call EXCEPT ![c] = k]
    PROVE  CallType'
BY DEF CallType

LEMMA SendStep ==
    ASSUME RingType, CallType, NEW c \in Crtn, NEW v \in Val, send_getter(c, v)
    PROVE  RingStep /\ CallType'
<1>0. Idle \in Calls /\ <<"send", v>> \in Calls
  BY DEF Calls
<1>1. CASE Return(c) /\ UNCHANGED ring
  BY <1>0, <1>1, CallAssigned DEF Return, RingStep
<1>2. CASE Accept(v) /\ Return(c)
  BY <1>0, <1>2, CallAssigned DEF Return, RingStep, Accept
<1>3. CASE Again(c, <<"send", v>>) /\ UNCHANGED ring
  BY <1>0, <1>3, CallAssigned DEF Again, RingStep
<1> QED BY <1>1, <1>2, <1>3 DEF send_getter

LEMMA RecvStep ==
    ASSUME RingType, CallType, NEW c \in Crtn, recv_getter(c)
    PROVE  RingStep /\ CallType'
<1>0. Idle \in Calls /\ <<"recv">> \in Calls
  BY DEF Calls
<1>1. CASE Return(c) /\ UNCHANGED ring
  BY <1>0, <1>1, CallAssigned DEF Return, RingStep
<1>2. CASE Deliver /\ Return(c)
  BY <1>0, <1>2, CallAssigned DEF Return, RingStep, Deliver
<1>3. CASE Again(c, <<"recv">>) /\ UNCHANGED ring
  BY <1>0, <1>3, CallAssigned DEF Again, RingStep
<1> QED BY <1>1, <1>2, <1>3 DEF recv_getter

\* A repeated send carries a variant.
LEMMA SendArgument ==
    ASSUME CallType, NEW c \in Crtn, call[c][1] = "send"
    PROVE  call[c][2] \in Val
BY DEF CallType, Calls, Idle

-----------------------------------------------------------------------------
\* A step that leaves the map alone keeps MapInv, unless it gives a capacity
\* to a channel that had none.
LEMMA MapKept ==
    ASSUME MapInv, UNCHANGED mapped, qsize' = qsize \/ qsize' = 0 \/ qsize > 0
    PROVE  MapInv'
BY DEF MapInv

LEMMA SendKeepsSize ==
    ASSUME NEW c, NEW v, send_getter(c, v)
    PROVE  UNCHANGED qsize
BY DEF send_getter, Accept, Enqueue, ring

LEMMA RecvKeepsSize ==
    ASSUME NEW c, recv_getter(c)
    PROVE  UNCHANGED qsize
BY DEF recv_getter, Deliver, Dequeue, ring

LEMMA CtrlMapInv ==
    ASSUME RingType, MapInv, NEW n \in Caps, pcchan_ctrl(n), mapped
    PROVE  MapInv'
<1>1. CASE Erase
  BY <1>1 DEF Erase, MapInv
<1>2. CASE UNCHANGED mapped
  BY <1>2 DEF MapInv
<1> QED BY <1>1, <1>2 DEF pcchan_ctrl, Close, Resize

\* Every step of the system is a step of the ring, and keeps the two facts
\* about the rest of the state.
LEMMA NextStep ==
    ASSUME FrameInv, [Next]_vars
    PROVE  (RingStep \/ ResizeRing) /\ CallType' /\ MapInv'
<1> USE DEF FrameInv
<1>1. ASSUME NEW c \in Crtn, NEW v \in Val, Send(c, v)
      PROVE  (RingStep \/ ResizeRing) /\ CallType' /\ MapInv'
  BY <1>1, SendStep, SendKeepsSize, MapKept DEF Send
<1>2. ASSUME NEW c \in Crtn, Recv(c)
      PROVE  (RingStep \/ ResizeRing) /\ CallType' /\ MapInv'
  BY <1>2, RecvStep, RecvKeepsSize, MapKept DEF Recv
<1>3. ASSUME NEW c \in Crtn, RetrySend(c)
      PROVE  (RingStep \/ ResizeRing) /\ CallType' /\ MapInv'
  <2>1. call[c][2] \in Val
    BY <1>3, SendArgument DEF RetrySend
  <2> QED BY <1>3, <2>1, SendStep, SendKeepsSize, MapKept DEF RetrySend
<1>4. ASSUME NEW c \in Crtn, RetryRecv(c)
      PROVE  (RingStep \/ ResizeRing) /\ CallType' /\ MapInv'
  BY <1>4, RecvStep, RecvKeepsSize, MapKept DEF RetryRecv
<1>5. ASSUME NEW c \in Crtn, RetryTimedOut(c)
      PROVE  (RingStep \/ ResizeRing) /\ CallType' /\ MapInv'
  <2>1. Idle \in Calls
    BY DEF Calls
  <2>2. UNCHANGED <<mapped, ring>> /\ call' = [call EXCEPT ![c] = Idle]
    BY <1>5 DEF RetryTimedOut, Return
  <2> QED BY <2>1, <2>2, CallAssigned, MapKept DEF RingStep, ring
<1>6. ASSUME NEW c \in Crtn, Expire(c)
      PROVE  (RingStep \/ ResizeRing) /\ CallType' /\ MapInv'
  BY <1>6, MapKept DEF Expire, RingStep, CallType, ring
<1>7. ASSUME NEW v \in Val, Post(v)
      PROVE  (RingStep \/ ResizeRing) /\ CallType' /\ MapInv'
  BY <1>7, MapKept DEF Post, Accept, Enqueue, RingStep, CallType
<1>8. ASSUME NEW c \in Crtn, NEW n \in Caps, chan_setter(c, n)
      PROVE  (RingStep \/ ResizeRing) /\ CallType' /\ MapInv'
  <2>1. CASE mapped /\ pcchan_ctrl(n)
    BY <2>1, CtrlStep, CtrlMapInv DEF CallType
  <2>2. CASE ~mapped /\ pcchan_open(n)
    <3>1. qcount = 0
      BY <2>2 DEF MapInv, RingBounds, RingType
    <3>2. MapInv'
      BY <2>2 DEF MapInv, pcchan_open
    <3> QED BY <2>2, <3>1, <3>2, OpenStep DEF CallType
  <2> QED BY <1>8, <2>1, <2>2 DEF chan_setter
<1>9. ASSUME NEW c \in Crtn, NEW n \in Caps, cap_setter(c, n)
      PROVE  (RingStep \/ ResizeRing) /\ CallType' /\ MapInv'
  <2>1. mapped
    BY <1>9 DEF cap_setter, MapInv
  <2> QED BY <1>9, <2>1, CtrlStep, CtrlMapInv DEF cap_setter, CallType
<1>10. ASSUME NEW c \in Crtn, chan_getter(c)
       PROVE  (RingStep \/ ResizeRing) /\ CallType' /\ MapInv'
  BY <1>10, MapKept DEF chan_getter, RingStep, CallType, sched, ring
<1>11. ASSUME NEW c \in Crtn, on_release(c)
       PROVE  (RingStep \/ ResizeRing) /\ CallType' /\ MapInv'
  <2>1. CASE Erase
    BY <1>11, <2>1, EmptyDataType
       DEF on_release, Erase, RingStep, Reset, MapInv, CallType, sched
  <2>2. CASE UNCHANGED <<mapped, ring>>
    BY <1>11, <2>2, MapKept DEF on_release, RingStep, CallType, sched, ring
  <2> QED BY <1>11, <2>1, <2>2 DEF on_release
<1>12. ASSUME NEW e \in events, Dispatch(e)
       PROVE  (RingStep \/ ResizeRing) /\ CallType' /\ MapInv'
  BY <1>12, MapKept DEF Dispatch, RingStep, CallType, sched, ring
<1>13. CASE UNCHANGED vars
  BY <1>13, MapKept DEF vars, RingStep, CallType, sched, ring
<1>14. Posted \subseteq Val
  BY ChannelAssumption
<1> QED BY <1>1, <1>2, <1>3, <1>4, <1>5, <1>6, <1>7, <1>8, <1>9, <1>10, <1>11,
           <1>12, <1>13, <1>14 DEF Next, Step, Retry

LEMMA RingInvInit == Init => RingInv
<1> SUFFICES ASSUME Init PROVE RingInv
  OBVIOUS
<1>1. RingType /\ RingBounds
  BY ChannelAssumption DEF Init, RingType, RingBounds, Slots
<1>2. RingCoherent
  BY ChannelAssumption DEF Init, RingCoherent, Slots
<1>3. CallType /\ MapInv
  BY DEF Init, CallType, MapInv, Calls
<1> QED BY <1>1, <1>2, <1>3 DEF RingInv, FrameInv

LEMMA FrameInvNext ==
    ASSUME FrameInv, [Next]_vars
    PROVE  FrameInv'
<1>1. (RingStep \/ ResizeRing) /\ CallType' /\ MapInv'
  BY NextStep
<1> QED BY <1>1, RingStepBounds DEF FrameInv

\* The types and the bounds hold with resizes of any kind.
LEMMA FrameInvariant == Spec => []FrameInv
<1>1. Init => FrameInv
  BY RingInvInit DEF RingInv
<1>2. FrameInv /\ [Next]_vars => FrameInv'
  BY FrameInvNext
<1> QED BY <1>1, <1>2, PTL DEF Spec

\* Without resizes of a channel that holds variants, every step is a ring
\* operation.
LEMMA NextRingStep ==
    ASSUME ~ResizeBuffered, FrameInv, [Next]_vars
    PROVE  RingStep
BY NextStep, ResizeStep DEF FrameInv, ResizeRing

LEMMA RingInvNext ==
    ASSUME ~ResizeBuffered, RingInv, [Next]_vars
    PROVE  RingInv'
<1>1. RingStep
  BY NextRingStep DEF RingInv
<1>2. FrameInv'
  BY FrameInvNext DEF RingInv
<1> QED BY <1>1, <1>2, RingStepCoherent DEF RingInv, FrameInv

LEMMA RingInvariant ==
    ASSUME ~ResizeBuffered
    PROVE  Spec => []RingInv
<1>1. RingInv /\ [Next]_vars => RingInv'
  BY RingInvNext
<1> QED BY <1>1, RingInvInit, PTL DEF Spec

\* The ring of channel.c stays coherent in every behaviour, for any set of
\* coroutines and variants and any capacity: send_getter never overwrites a
\* variant, recv_getter never hands out an empty slot, and the assertion of
\* discard_data holds, as long as no script resizes a channel that holds
\* variants.
THEOREM RingStaysCoherent ==
    ASSUME ~ResizeBuffered
    PROVE  Spec => []RingCoherent
<1>1. RingInv => RingCoherent
  BY DEF RingInv
<1> QED BY <1>1, RingInvariant, PTL

-----------------------------------------------------------------------------
\* What the ring holds is a sequence of qcount variants.
LEMMA ContentsSeq ==
    ASSUME RingType, RingCoherent
    PROVE  Contents \in Seq(Val) /\ Len(Contents) = qcount
<1>1. \A k \in 1 .. qcount : data[SlotAt(k - 1)] \in Val
  BY ChannelAssumption DEF RingType, RingCoherent, Slots
<1>2. qcount \in Nat
  BY ChannelAssumption DEF RingType
<1> QED BY <1>1, <1>2, IsASeq DEF Contents

LEMMA ContentsSeqPrimed ==
    ASSUME RingType', RingCoherent'
    PROVE  Contents' \in Seq(Val) /\ Len(Contents') = qcount'
<1>1. \A k \in 1 .. qcount' : data'[SlotAt(k - 1)'] \in Val
  BY ChannelAssumption DEF RingType, RingCoherent, Slots
<1>2. qcount' \in Nat
  BY ChannelAssumption DEF RingType
<1> QED BY <1>1, <1>2, IsASeq DEF Contents

\* Enqueue appends to it, and Dequeue removes its head.
LEMMA EnqueuePut ==
    ASSUME RingType, RingCoherent, NEW v \in Val, qcount < qsize, Enqueue(v)
    PROVE  Fifo!Put(v)
<1> USE ChannelAssumption DEF RingType, Slots
<1>1. RingType' /\ RingCoherent'
  BY EnqueueCoherent
<1>2. /\ Contents \in Seq(Val) /\ Len(Contents) = qcount
      /\ Contents' \in Seq(Val) /\ Len(Contents') = qcount + 1
  BY <1>1, ContentsSeq, ContentsSeqPrimed DEF Enqueue
<1>3. /\ Append(Contents, v) \in Seq(Val)
      /\ Len(Append(Contents, v)) = qcount + 1
      /\ \A i \in 1 .. qcount : Append(Contents, v)[i] = Contents[i]
      /\ Append(Contents, v)[qcount + 1] = v
  BY <1>2, AppendProperties
<1>4. ASSUME NEW k \in 1 .. qcount + 1
      PROVE  Contents'[k] = Append(Contents, v)[k]
  <2>0. sendx \in Slots /\ sendx < qsize /\ recvx < qsize /\ qsize > 0
    BY DEF RingCoherent
  <2>1. /\ SlotAt(k - 1)' = SlotAt(k - 1)
        /\ SlotAt(k - 1) \in Slots
        /\ Contents'[k] = data'[SlotAt(k - 1)]
    BY <2>0 DEF SlotAt, Enqueue, Contents
  <2>2. CASE k = qcount + 1
    BY <1>3, <2>0, <2>1, <2>2 DEF RingCoherent, Enqueue
  <2>3. CASE k \in 1 .. qcount
    <3>1. SlotAt(k - 1) # sendx
      BY <2>0, <2>3 DEF RingCoherent, SlotAt
    <3>2. data'[SlotAt(k - 1)] = data[SlotAt(k - 1)]
      BY <2>1, <3>1 DEF Enqueue
    <3>3. Contents[k] = data[SlotAt(k - 1)]
      BY <2>3 DEF Contents
    <3> QED BY <1>3, <2>1, <2>3, <3>2, <3>3
  <2>4. k = qcount + 1 \/ k \in 1 .. qcount
    OBVIOUS
  <2> QED BY <2>2, <2>3, <2>4
<1>5. Contents' = Append(Contents, v)
  BY <1>2, <1>3, <1>4, SeqEqual
<1> QED BY <1>2, <1>5 DEF Fifo!Put, Enqueue

LEMMA DequeueTake ==
    ASSUME RingType, RingCoherent, qcount > 0, Dequeue
    PROVE  Fifo!Take
<1> USE ChannelAssumption DEF RingType, Slots
<1>1. RingType' /\ RingCoherent'
  BY DequeueCoherent
<1>2. /\ Contents \in Seq(Val) /\ Len(Contents) = qcount
      /\ Contents' \in Seq(Val) /\ Len(Contents') = qcount - 1
  BY <1>1, ContentsSeq, ContentsSeqPrimed DEF Dequeue
<1>3. Contents # <<>>
  BY <1>2, EmptySeq
<1>4. /\ Tail(Contents) \in Seq(Val)
      /\ Len(Tail(Contents)) = qcount - 1
      /\ \A i \in 1 .. qcount - 1 : Tail(Contents)[i] = Contents[i + 1]
  BY <1>2, <1>3, HeadTailProperties
<1>5. ASSUME NEW k \in 1 .. qcount - 1
      PROVE  Contents'[k] = Tail(Contents)[k]
  <2>1. SlotAt(k - 1)' = SlotAt(k)
    BY DEF SlotAt, Dequeue, Wrap, RingCoherent
  <2>2. Contents'[k] = data[SlotAt(k - 1)'] /\ Contents[k + 1] = data[SlotAt(k)]
    BY DEF Contents, Dequeue
  <2> QED BY <1>4, <2>1, <2>2
<1>6. Contents' = Tail(Contents)
  BY <1>2, <1>4, <1>5, SeqEqual
<1> QED BY <1>3, <1>6 DEF Fifo!Take, Dequeue

LEMMA EmptyContents ==
    ASSUME qcount = 0
    PROVE  Contents = <<>>
BY DEF Contents

\* Every step of the ring is a step of the FIFO.
LEMMA RingStepImplements ==
    ASSUME RingType, RingCoherent, RingStep
    PROVE  [Fifo!FifoNext]_<<Contents, qsize>>
<1>1. CASE UNCHANGED ring
  BY <1>1 DEF ring, Contents, SlotAt
<1>2. CASE \E v \in Val : qcount < qsize /\ Enqueue(v)
  BY <1>2, EnqueuePut DEF Fifo!FifoNext
<1>3. CASE qcount > 0 /\ Dequeue
  BY <1>3, DequeueTake DEF Fifo!FifoNext
<1>4. CASE Reset(0)
  <2>1. Contents' = <<>>
    BY <1>4 DEF Reset, Contents
  <2> QED BY <1>4, <2>1 DEF Reset, Fifo!FifoNext, Fifo!CloseFifo
<1>5. CASE \E n \in 1 .. MaxCap : qcount = 0 /\ Reset(n)
  <2>1. PICK n \in 1 .. MaxCap : qcount = 0 /\ Reset(n)
    BY <1>5
  <2>2. Contents = <<>> /\ Contents' = <<>>
    BY <2>1 DEF Reset, Contents
  <2>3. Fifo!SetCapacity(n)
    BY <2>1, <2>2 DEF Reset, Fifo!SetCapacity
  <2> QED BY <2>3 DEF Fifo!FifoNext
<1> QED BY <1>1, <1>2, <1>3, <1>4, <1>5 DEF RingStep

\* The channel implements the bounded FIFO: with any number of coroutines,
\* timers, posts of other instances, closes and reopens, what send_getter
\* accepted is handed out by recv_getter once and in order, or dropped by a
\* close, as long as no script resizes a channel that holds variants.
THEOREM ChannelImplementsFifo ==
    ASSUME ~ResizeBuffered
    PROVE  Spec => ImplementsFifo
<1>1. Init => Fifo!FifoInit
  BY EmptyContents DEF Init, Fifo!FifoInit
<1>2. RingInv /\ [Next]_vars => [Fifo!FifoNext]_<<Contents, qsize>>
  BY NextRingStep, RingStepImplements DEF RingInv, FrameInv
<1> QED BY <1>1, <1>2, RingInvariant, PTL
        DEF Spec, ImplementsFifo, Fifo!FifoSpec

-----------------------------------------------------------------------------
(* What the list operations do to the members of a list. *)

LEMMA MemberIndex ==
    ASSUME NEW S, NEW w \in Seq(S)
    PROVE  /\ ToSet(w) \subseteq S
           /\ \A x : x \in ToSet(w) <=> \E i \in 1 .. Len(w) : w[i] = x
           /\ IsInjective(w) <=>
                 \A i, j \in 1 .. Len(w) : w[i] = w[j] => i = j
BY DEF ToSet, IsInjective

LEMMA EmptyList ==
    <<>> \in Seq(Crtn) /\ ToSet(<<>>) = {} /\ IsInjective(<<>>)
<1>1. <<>> \in Seq(Crtn) /\ DOMAIN <<>> = {}
  OBVIOUS
<1>2. ToSet(<<>>) = {}
  BY <1>1 DEF ToSet
<1>3. IsInjective(<<>>)
  BY <1>1 DEF IsInjective
<1> QED BY <1>1, <1>2, <1>3

\* Only the empty list has no member.
LEMMA NoMember ==
    ASSUME NEW w \in Seq(Crtn), ToSet(w) = {}
    PROVE  w = <<>>
<1>1. Len(w) = 0
  <2>1. Len(w) \in Nat
    OBVIOUS
  <2>2. ASSUME Len(w) # 0 PROVE FALSE
    <3>1. 1 \in 1 .. Len(w)
      BY <2>1, <2>2
    <3>2. w[1] \in ToSet(w)
      BY <3>1, MemberIndex
    <3> QED BY <3>2
  <2> QED BY <2>2
<1> QED BY <1>1, EmptySeq

LEMMA AppendList ==
    ASSUME NEW w \in Seq(Crtn), NEW c \in Crtn, IsInjective(w),
           c \notin ToSet(w)
    PROVE  /\ Append(w, c) \in Seq(Crtn)
           /\ IsInjective(Append(w, c))
           /\ ToSet(Append(w, c)) = ToSet(w) \cup {c}
<1> DEFINE u == Append(w, c)
<1>1. /\ u \in Seq(Crtn) /\ Len(u) = Len(w) + 1
      /\ \A i \in 1 .. Len(w) : u[i] = w[i]
      /\ u[Len(w) + 1] = c
  BY AppendProperties
<1>2. Len(w) \in Nat /\ Len(u) \in Nat
  BY <1>1
<1> HIDE DEF u
<1>3. ASSUME NEW i \in 1 .. Len(u), NEW j \in 1 .. Len(u), u[i] = u[j]
      PROVE  i = j
  <2>1. \A k \in 1 .. Len(w) : w[k] # c
    BY MemberIndex
  <2>2. \A k, l \in 1 .. Len(w) : w[k] = w[l] => k = l
    BY MemberIndex
  <2> QED BY <1>1, <1>2, <1>3, <2>1, <2>2
<1>4. ASSUME NEW x
      PROVE  x \in ToSet(u) <=> x \in ToSet(w) \cup {c}
  <2>1. x \in ToSet(u) <=> \E i \in 1 .. Len(u) : u[i] = x
    BY <1>1, MemberIndex
  <2>2. x \in ToSet(w) <=> \E i \in 1 .. Len(w) : w[i] = x
    BY MemberIndex
  <2> QED BY <1>1, <1>2, <2>1, <2>2
<1> QED BY <1>1, <1>3, <1>4, MemberIndex DEF u

\* The first waiter leaves the list.
LEMMA RestList ==
    ASSUME NEW w \in Seq(Crtn), IsInjective(w)
    PROVE  /\ Rest(w) \in Seq(Crtn)
           /\ IsInjective(Rest(w))
           /\ ToSet(Rest(w)) = ToSet(w) \ ToSet(First(w))
           /\ ToSet(First(w)) \subseteq ToSet(w)
           /\ Len(First(w)) \in Nat
<1>1. CASE w = <<>>
  BY <1>1, EmptyList DEF Rest, First
<1>2. CASE w # <<>>
  <2> DEFINE t == Tail(w)
  <2>1. /\ t \in Seq(Crtn) /\ Len(t) = Len(w) - 1
        /\ \A i \in 1 .. Len(t) : t[i] = w[i + 1]
    BY <1>2, HeadTailProperties
  <2>2. Len(w) \in Nat /\ Len(t) \in Nat
    BY <2>1
  <2>3. Rest(w) = t /\ First(w) = <<Head(w)>> /\ Head(w) = w[1]
    BY <1>2 DEF Rest, First
  <2>4. ToSet(First(w)) = {w[1]} /\ Len(First(w)) \in Nat
    BY <2>3 DEF ToSet
  <2> HIDE DEF t
  <2>5. \A i, j \in 1 .. Len(w) : w[i] = w[j] => i = j
    BY MemberIndex
  <2>6. IsInjective(t)
    <3>1. ASSUME NEW i \in 1 .. Len(t), NEW j \in 1 .. Len(t), t[i] = t[j]
          PROVE  i = j
      <4>1. i + 1 \in 1 .. Len(w) /\ j + 1 \in 1 .. Len(w)
        BY <2>1, <2>2
      <4>2. i + 1 = j + 1
        BY <2>1, <2>5, <3>1, <4>1
      <4> QED BY <4>2
    <3> QED BY <2>1, <3>1, MemberIndex
  <2>7. ASSUME NEW x
        PROVE  x \in ToSet(t) <=> x \in ToSet(w) \ {w[1]}
    <3>1. x \in ToSet(t) <=> \E i \in 1 .. Len(t) : t[i] = x
      BY <2>1, MemberIndex
    <3>2. x \in ToSet(w) <=> \E i \in 1 .. Len(w) : w[i] = x
      BY MemberIndex
    <3>3. ASSUME NEW i \in 1 .. Len(t), t[i] = x
          PROVE  x \in ToSet(w) \ {w[1]}
      <4>1. i + 1 \in 1 .. Len(w) /\ 1 \in 1 .. Len(w) /\ i + 1 # 1
        BY <2>1, <2>2
      <4>2. w[i + 1] = x
        BY <2>1, <3>3
      <4> QED BY <2>5, <3>2, <4>1, <4>2
    <3>4. ASSUME NEW i \in 1 .. Len(w), w[i] = x, x # w[1]
          PROVE  x \in ToSet(t)
      <4>1. i - 1 \in 1 .. Len(t) /\ (i - 1) + 1 = i
        BY <2>1, <2>2, <3>4
      <4>2. t[i - 1] = x
        BY <2>1, <3>4, <4>1
      <4> QED BY <3>1, <4>1, <4>2
    <3> QED BY <3>1, <3>2, <3>3, <3>4
  <2>8. w[1] \in ToSet(w)
    <3>1. 1 \in 1 .. Len(w)
      BY <1>2, <2>2, EmptySeq
    <3> QED BY <3>1, MemberIndex
  <2> QED BY <2>1, <2>3, <2>4, <2>6, <2>7, <2>8
<1> QED BY <1>1, <1>2

\* A timed out coroutine leaves the list, wherever it was on it.
LEMMA UnlinkList ==
    ASSUME NEW w \in Seq(Crtn), NEW c \in Crtn, IsInjective(w)
    PROVE  /\ Unlink(w, c) \in Seq(Crtn)
           /\ IsInjective(Unlink(w, c))
           /\ ToSet(Unlink(w, c)) = ToSet(w) \ {c}
<1>1. CASE c \notin ToSet(w)
  BY <1>1 DEF Unlink
<1>2. CASE c \in ToSet(w)
  <2> DEFINE n == CHOOSE i \in 1 .. Len(w) : w[i] = c
             a == SubSeq(w, 1, n - 1)
             b == SubSeq(w, n + 1, Len(w))
             u == a \o b
  <2>1. n \in 1 .. Len(w) /\ w[n] = c
    BY <1>2, MemberIndex
  <2>2. Unlink(w, c) = u
    BY <1>2 DEF Unlink, RemoveAt
  <2> HIDE DEF n
  <2>3. Len(w) \in Nat /\ \A i \in 1 .. Len(w) : w[i] \in Crtn
    OBVIOUS
  <2>4. /\ a \in Seq(Crtn) /\ Len(a) = n - 1
        /\ \A i \in 1 .. n - 1 : a[i] = w[i]
    <3>1. \A i \in 1 .. n - 1 : w[i] \in Crtn
      BY <2>1, <2>3
    <3> QED BY <2>1, <2>3, <3>1, SubSeqProperties
  <2>5. /\ b \in Seq(Crtn) /\ Len(b) = Len(w) - n
        /\ \A i \in 1 .. Len(w) - n : b[i] = w[n + i]
    <3>1. \A i \in n + 1 .. Len(w) : w[i] \in Crtn
      BY <2>1, <2>3
    <3> QED BY <2>1, <2>3, <3>1, SubSeqProperties
  <2> HIDE DEF a, b
  <2>6. /\ u \in Seq(Crtn) /\ Len(u) = Len(w) - 1
        /\ \A i \in 1 .. Len(w) - 1 :
              u[i] = IF i < n THEN w[i] ELSE w[i + 1]
    <3>1. /\ u \in Seq(Crtn) /\ Len(u) = Len(a) + Len(b)
          /\ \A i \in 1 .. Len(a) + Len(b) :
                u[i] = IF i <= Len(a) THEN a[i] ELSE b[i - Len(a)]
      BY <2>4, <2>5, ConcatProperties
    <3> HIDE DEF u
    <3>2. ASSUME NEW i \in 1 .. Len(w) - 1
          PROVE  u[i] = IF i < n THEN w[i] ELSE w[i + 1]
      <4>0. i \in 1 .. Len(a) + Len(b) /\ Len(a) = n - 1
        BY <2>1, <2>3, <2>4, <2>5
      <4>1. CASE i < n
        <5>1. i <= Len(a) /\ i \in 1 .. n - 1
          BY <2>1, <2>3, <4>0, <4>1
        <5> QED BY <2>4, <3>1, <4>0, <4>1, <5>1
      <4>2. CASE ~(i < n)
        <5>1. i - Len(a) \in 1 .. Len(w) - n /\ n + (i - Len(a)) = i + 1
          BY <2>1, <2>3, <2>4, <4>2
        <5>2. ~(i <= Len(a))
          BY <2>1, <2>3, <4>0, <4>2
        <5>3. u[i] = b[i - Len(a)]
          BY <3>1, <4>0, <5>2
        <5> QED BY <2>5, <4>2, <5>1, <5>3
      <4> QED BY <4>1, <4>2
    <3> QED BY <2>1, <2>3, <2>4, <2>5, <3>1, <3>2
  <2> HIDE DEF u
  <2>7. \A i, j \in 1 .. Len(w) : w[i] = w[j] => i = j
    BY MemberIndex
  <2>8. IsInjective(u)
    <3>1. ASSUME NEW i \in 1 .. Len(u), NEW j \in 1 .. Len(u), u[i] = u[j]
          PROVE  i = j
      <4>1. /\ i \in 1 .. Len(w) - 1 /\ j \in 1 .. Len(w) - 1
            /\ Len(w) \in Nat /\ n \in 1 .. Len(w)
        BY <2>1, <2>3, <2>6
      <4>2. u[i] = w[IF i < n THEN i ELSE i + 1] /\ u[j] = w[IF j < n THEN j ELSE j + 1]
        BY <2>6, <4>1
      <4>3. PICK k \in 1 .. Len(w) : k = IF i < n THEN i ELSE i + 1
        BY <4>1
      <4>4. PICK l \in 1 .. Len(w) : l = IF j < n THEN j ELSE j + 1
        BY <4>1
      <4>5. k = l
        BY <2>7, <3>1, <4>2, <4>3, <4>4
      <4> QED BY <4>1, <4>3, <4>4, <4>5
    <3> QED BY <2>6, <3>1, MemberIndex
  <2>9. ASSUME NEW x
        PROVE  x \in ToSet(u) <=> x \in ToSet(w) \ {c}
    <3>1. x \in ToSet(u) <=> \E i \in 1 .. Len(u) : u[i] = x
      BY <2>6, MemberIndex
    <3>2. x \in ToSet(w) <=> \E i \in 1 .. Len(w) : w[i] = x
      BY MemberIndex
    <3>3. ASSUME NEW i \in 1 .. Len(u), u[i] = x
          PROVE  x \in ToSet(w) \ {c}
      <4>1. PICK k \in 1 .. Len(w) : k # n /\ u[i] = w[k]
        <5>1. CASE i < n
          BY <2>1, <2>3, <2>6, <5>1
        <5>2. CASE ~(i < n)
          <6>1. i + 1 \in 1 .. Len(w) /\ i + 1 # n /\ u[i] = w[i + 1]
            BY <2>1, <2>3, <2>6, <5>2
          <6> QED BY <6>1
        <5> QED BY <5>1, <5>2
      <4> QED BY <2>1, <2>7, <3>2, <3>3, <4>1
    <3>4. ASSUME NEW i \in 1 .. Len(w), w[i] = x, x # c
          PROVE  x \in ToSet(u)
      <4>1. CASE i < n
        <5>1. i \in 1 .. Len(u) /\ u[i] = x
          BY <2>1, <2>3, <2>6, <3>4, <4>1
        <5> QED BY <3>1, <5>1
      <4>2. CASE i > n
        <5>1. i - 1 \in 1 .. Len(u) /\ ~(i - 1 < n) /\ (i - 1) + 1 = i
          BY <2>1, <2>3, <2>6, <4>2
        <5>2. u[i - 1] = x
          BY <2>6, <3>4, <5>1
        <5> QED BY <3>1, <5>1, <5>2
      <4>3. i # n
        BY <2>1, <3>4
      <4> QED BY <2>1, <4>1, <4>2, <4>3
    <3> QED BY <3>1, <3>2, <3>3, <3>4
  <2> QED BY <2>2, <2>6, <2>8, <2>9
<1> QED BY <1>1, <1>2

\* The two lists, one after the other, as discard_data goes through them.
LEMMA BothLists ==
    ASSUME NEW v \in Seq(Crtn), NEW w \in Seq(Crtn)
    PROVE  /\ ToSet(v \o w) = ToSet(v) \cup ToSet(w)
           /\ Len(v \o w) \in Nat
<1> DEFINE u == v \o w
<1>1. /\ u \in Seq(Crtn) /\ Len(u) = Len(v) + Len(w)
      /\ \A i \in 1 .. Len(v) + Len(w) :
            u[i] = IF i <= Len(v) THEN v[i] ELSE w[i - Len(v)]
  BY ConcatProperties
<1> HIDE DEF u
<1>2. Len(v) \in Nat /\ Len(w) \in Nat /\ Len(u) \in Nat
  BY <1>1
<1>3. ASSUME NEW x
      PROVE  x \in ToSet(u) <=> x \in ToSet(v) \cup ToSet(w)
  <2>1. /\ x \in ToSet(u) <=> \E i \in 1 .. Len(u) : u[i] = x
        /\ x \in ToSet(v) <=> \E i \in 1 .. Len(v) : v[i] = x
        /\ x \in ToSet(w) <=> \E i \in 1 .. Len(w) : w[i] = x
    BY <1>1, MemberIndex
  <2>2. ASSUME NEW i \in 1 .. Len(u), u[i] = x
        PROVE  x \in ToSet(v) \cup ToSet(w)
    <3>1. CASE i <= Len(v)
      BY <1>1, <1>2, <2>1, <2>2, <3>1
    <3>2. CASE ~(i <= Len(v))
      <4>1. i - Len(v) \in 1 .. Len(w) /\ w[i - Len(v)] = x
        BY <1>1, <1>2, <2>2, <3>2
      <4> QED BY <2>1, <4>1
    <3> QED BY <3>1, <3>2
  <2>3. ASSUME NEW i \in 1 .. Len(v), v[i] = x
        PROVE  x \in ToSet(u)
    <3>1. i \in 1 .. Len(u) /\ u[i] = x
      BY <1>1, <1>2, <2>3
    <3> QED BY <2>1, <3>1
  <2>4. ASSUME NEW i \in 1 .. Len(w), w[i] = x
        PROVE  x \in ToSet(u)
    <3>1. /\ i + Len(v) \in 1 .. Len(u) /\ ~(i + Len(v) <= Len(v))
          /\ (i + Len(v)) - Len(v) = i
      BY <1>1, <1>2
    <3>2. u[i + Len(v)] = x
      BY <1>1, <2>4, <3>1
    <3> QED BY <2>1, <3>1, <3>2
  <2> QED BY <2>1, <2>2, <2>3, <2>4
<1> QED BY <1>2, <1>3 DEF u

-----------------------------------------------------------------------------
(* What the scheduler's steps do to the relation between a list's members  *)
(* and the calls under way.                                                *)

States == {"READY", "STOPPED"}

\* S is a sound set of waiters for the operation op, when the coroutines have
\* states st, calls ca and timeout flags ti.
Waiting(S, op, st, ca, ti) ==
    /\ \A c \in S : ca[c][1] = op /\ (st[c] = "STOPPED" \/ ti[c])
    /\ \A c \in Crtn : st[c] = "STOPPED" /\ ca[c][1] = op => c \in S

\* The states after every coroutine of K was resumed.
Awake(st, K) == [d \in Crtn |-> IF d \in K THEN "READY" ELSE st[d]]

LEMMA IdleIsNoCall == Idle \in Calls /\ Idle[1] # "send" /\ Idle[1] # "recv"
BY DEF Idle, Calls

\* The coroutines of K are resumed and leave the list.
LEMMA WaitingWoken ==
    ASSUME NEW S \in SUBSET Crtn, NEW op, NEW K, NEW st \in [Crtn -> States],
           NEW ca, NEW ti, Waiting(S, op, st, ca, ti)
    PROVE  Waiting(S \ K, op, Awake(st, K), ca, ti)
BY DEF Waiting, Awake, States

\* The call of a coroutine that runs and is not on the list returns.
LEMMA WaitingReturned ==
    ASSUME NEW S \in SUBSET Crtn, NEW op \in {"send", "recv"},
           NEW st \in [Crtn -> States], NEW ca \in [Crtn -> Calls],
           NEW ti \in [Crtn -> BOOLEAN],
           NEW c \in Crtn, c \notin S, Waiting(S, op, st, ca, ti)
    PROVE  Waiting(S, op, st, [ca EXCEPT ![c] = Idle],
                   [ti EXCEPT ![c] = FALSE])
BY IdleIsNoCall DEF Waiting

\* A coroutine that runs and is not on the list is stopped in the call k and
\* joins the list of k.
LEMMA WaitingStopped ==
    ASSUME NEW S \in SUBSET Crtn, NEW op, NEW st \in [Crtn -> States],
           NEW ca \in [Crtn -> Calls], NEW ti \in [Crtn -> BOOLEAN],
           NEW c \in Crtn, c \notin S, NEW k, Waiting(S, op, st, ca, ti)
    PROVE  Waiting(IF k[1] = op THEN S \cup {c} ELSE S, op,
                   [st EXCEPT ![c] = "STOPPED"], [ca EXCEPT ![c] = k],
                   [ti EXCEPT ![c] = FALSE])
<1> DEFINE S2  == IF k[1] = op THEN S \cup {c} ELSE S
           st2 == [st EXCEPT ![c] = "STOPPED"]
           ca2 == [ca EXCEPT ![c] = k]
           ti2 == [ti EXCEPT ![c] = FALSE]
<1>1. /\ st2[c] = "STOPPED" /\ ca2[c] = k
      /\ \A d \in Crtn : d # c =>
            st2[d] = st[d] /\ ca2[d] = ca[d] /\ ti2[d] = ti[d]
  OBVIOUS
<1>2. \A d \in S2 : (d = c /\ k[1] = op) \/ (d \in S /\ d # c)
  OBVIOUS
<1>3. \A d \in Crtn : d # c /\ d \in S => d \in S2
  OBVIOUS
<1>4. k[1] = op => c \in S2
  OBVIOUS
<1> HIDE DEF S2, st2, ca2, ti2
<1>5. Waiting(S2, op, st2, ca2, ti2)
  BY <1>1, <1>2, <1>3, <1>4 DEF Waiting
<1> QED BY <1>5 DEF S2, st2, ca2, ti2

\* The timer of a coroutine goes off: it may be on the list or not.
LEMMA WaitingExpired ==
    ASSUME NEW S \in SUBSET Crtn, NEW op, NEW st \in [Crtn -> States],
           NEW ca, NEW ti \in [Crtn -> BOOLEAN], NEW c \in Crtn,
           Waiting(S, op, st, ca, ti)
    PROVE  Waiting(S, op, Awake(st, {c}), ca, [ti EXCEPT ![c] = TRUE])
BY DEF Waiting, Awake, States

-----------------------------------------------------------------------------
(* The invariant. *)

ListType == send_crtns \in Seq(Crtn) /\ recv_crtns \in Seq(Crtn)

SchedType ==
    /\ state \in [Crtn -> States]
    /\ timeout \in [Crtn -> BOOLEAN]
    /\ nr_stopped_crtns \in 0 .. SizeMod - 1
    /\ events \subseteq {"receivable", "sendable"}

\* A coroutine is stopped only inside a channel call.
StoppedInCall == \A c \in Crtn : state[c] = "STOPPED" => call[c] # Idle

\* The reference count is the number of entities, a structure that was freed
\* has none, and a coroutine keeps its entity for as long as a call is under
\* way.
EntitiesHeld ==
    /\ mapped \in BOOLEAN
    /\ bound \subseteq Crtn /\ IsFiniteSet(bound)
    /\ refc = Cardinality(bound)
    /\ ~mapped => bound = {}
    /\ \A c \in Crtn : call[c] # Idle => c \in bound

ClosedIsEmpty == qsize = 0 => send_crtns = <<>> /\ recv_crtns = <<>>

WaitInv ==
    /\ ListType /\ SchedType /\ WaitListsSound /\ StoppedInCall
    /\ EntitiesHeld /\ ClosedIsEmpty

-----------------------------------------------------------------------------
\* WaitListsSound, in terms of the sets of members.
LEMMA SoundSets ==
    WaitListsSound <=>
       /\ IsInjective(send_crtns) /\ IsInjective(recv_crtns)
       /\ Waiting(ToSet(send_crtns), "send", state, call, timeout)
       /\ Waiting(ToSet(recv_crtns), "recv", state, call, timeout)
BY DEF WaitListsSound, Listed, Waiting

LEMMA SoundSetsPrimed ==
    WaitListsSound' <=>
       /\ IsInjective(send_crtns') /\ IsInjective(recv_crtns')
       /\ Waiting(ToSet(send_crtns'), "send", state', call', timeout')
       /\ Waiting(ToSet(recv_crtns'), "recv", state', call', timeout')
BY DEF WaitListsSound, Listed, Waiting

LEMMA MembersAreCrtns ==
    ASSUME ListType
    PROVE  /\ ToSet(send_crtns) \in SUBSET Crtn
           /\ ToSet(recv_crtns) \in SUBSET Crtn
BY MemberIndex DEF ListType

\* A coroutine that runs a call, and was not timed out in it, is on no list.
LEMMA RunsUnlisted ==
    ASSUME WaitListsSound, NEW c \in Crtn, state[c] = "READY",
           call[c] = Idle \/ ~timeout[c]
    PROVE  c \notin ToSet(send_crtns) /\ c \notin ToSet(recv_crtns)
BY IdleIsNoCall DEF WaitListsSound, Listed

\* Nobody waits on both lists.
LEMMA ListsDisjoint ==
    ASSUME WaitListsSound
    PROVE  ToSet(send_crtns) \cap ToSet(recv_crtns) = {}
BY DEF WaitListsSound, Listed

\* When no entity is left, no coroutine is on a list.
LEMMA UnheldIsEmpty ==
    ASSUME WaitInv, bound = {}
    PROVE  send_crtns = <<>> /\ recv_crtns = <<>>
<1>1. \A c \in Crtn : call[c] = Idle
  BY DEF WaitInv, EntitiesHeld
<1>2. ToSet(send_crtns) = {} /\ ToSet(recv_crtns) = {}
  BY <1>1, MembersAreCrtns, IdleIsNoCall
     DEF WaitInv, WaitListsSound, Listed
<1> QED BY <1>2, NoMember DEF WaitInv, ListType

-----------------------------------------------------------------------------
(* The four ways in which a step moves coroutines between the lists and the *)
(* scheduler.                                                               *)

\* Resumed coroutines leave the lists.
LEMMA WokenSound ==
    ASSUME ListType, SchedType, WaitListsSound, NEW K,
           state' = Awake(state, K),
           IsInjective(send_crtns'), IsInjective(recv_crtns'),
           ToSet(send_crtns') = ToSet(send_crtns) \ K,
           ToSet(recv_crtns') = ToSet(recv_crtns) \ K,
           UNCHANGED <<call, timeout>>
    PROVE  WaitListsSound'
<1>1. state \in [Crtn -> States]
  BY DEF SchedType
<1>2. Waiting(ToSet(send_crtns) \ K, "send", Awake(state, K), call, timeout)
  BY <1>1, SoundSets, MembersAreCrtns, WaitingWoken
<1>3. Waiting(ToSet(recv_crtns) \ K, "recv", Awake(state, K), call, timeout)
  BY <1>1, SoundSets, MembersAreCrtns, WaitingWoken
<1> QED BY <1>2, <1>3, SoundSetsPrimed

\* The same, and the call of a coroutine on no list any more returns.
LEMMA WokenReturnSound ==
    ASSUME ListType, SchedType, CallType, WaitListsSound, NEW K,
           state' = Awake(state, K),
           IsInjective(send_crtns'), IsInjective(recv_crtns'),
           ToSet(send_crtns') = ToSet(send_crtns) \ K,
           ToSet(recv_crtns') = ToSet(recv_crtns) \ K,
           NEW c \in Crtn, Return(c),
           c \notin ToSet(send_crtns'), c \notin ToSet(recv_crtns')
    PROVE  WaitListsSound'
<1> DEFINE S == ToSet(send_crtns) \ K
           R == ToSet(recv_crtns) \ K
           st == Awake(state, K)
<1>1. /\ state \in [Crtn -> States] /\ st \in [Crtn -> States]
      /\ call \in [Crtn -> Calls] /\ timeout \in [Crtn -> BOOLEAN]
  BY DEF SchedType, CallType, Awake, States
<1>2. S \in SUBSET Crtn /\ R \in SUBSET Crtn
  BY MembersAreCrtns
<1>3. Waiting(S, "send", st, call, timeout)
  BY <1>1, SoundSets, MembersAreCrtns, WaitingWoken
<1>4. Waiting(R, "recv", st, call, timeout)
  BY <1>1, SoundSets, MembersAreCrtns, WaitingWoken
<1>5. c \notin S /\ c \notin R
  OBVIOUS
<1> HIDE DEF S, R, st
<1>6. Waiting(S, "send", st, [call EXCEPT ![c] = Idle],
              [timeout EXCEPT ![c] = FALSE])
  BY <1>1, <1>2, <1>3, <1>5, WaitingReturned
<1>7. Waiting(R, "recv", st, [call EXCEPT ![c] = Idle],
              [timeout EXCEPT ![c] = FALSE])
  BY <1>1, <1>2, <1>4, <1>5, WaitingReturned
<1> QED BY <1>6, <1>7, SoundSetsPrimed DEF S, R, st, Return

\* A running coroutine stops and joins the list of its call.
LEMMA StoppedSound ==
    ASSUME ListType, SchedType, CallType, WaitListsSound,
           NEW c \in Crtn, c \notin ToSet(send_crtns),
           c \notin ToSet(recv_crtns), NEW k, Again(c, k),
           \/ /\ k[1] = "send" /\ send_crtns' = Append(send_crtns, c)
              /\ UNCHANGED recv_crtns
           \/ /\ k[1] = "recv" /\ recv_crtns' = Append(recv_crtns, c)
              /\ UNCHANGED send_crtns
    PROVE  ListType' /\ WaitListsSound'
<1> DEFINE S == ToSet(send_crtns)
           R == ToSet(recv_crtns)
           st == [state EXCEPT ![c] = "STOPPED"]
           ca == [call EXCEPT ![c] = k]
           ti == [timeout EXCEPT ![c] = FALSE]
<1>1. /\ state \in [Crtn -> States]
      /\ call \in [Crtn -> Calls] /\ timeout \in [Crtn -> BOOLEAN]
  BY DEF SchedType, CallType
<1>2. S \in SUBSET Crtn /\ R \in SUBSET Crtn
  BY MembersAreCrtns
<1>3. /\ Waiting(S, "send", state, call, timeout)
      /\ Waiting(R, "recv", state, call, timeout)
      /\ IsInjective(send_crtns) /\ IsInjective(recv_crtns)
  BY SoundSets
<1> HIDE DEF S, R, st, ca, ti
<1>4. Waiting(IF k[1] = "send" THEN S \cup {c} ELSE S, "send", st, ca, ti)
  BY <1>1, <1>2, <1>3, WaitingStopped DEF S, st, ca, ti
<1>5. Waiting(IF k[1] = "recv" THEN R \cup {c} ELSE R, "recv", st, ca, ti)
  BY <1>1, <1>2, <1>3, WaitingStopped DEF R, st, ca, ti
<1>6. state' = st /\ call' = ca /\ timeout' = ti
  BY DEF Again, Stop, st, ca, ti
<1>7. CASE /\ k[1] = "send" /\ send_crtns' = Append(send_crtns, c)
           /\ UNCHANGED recv_crtns
  <2>1. /\ send_crtns' \in Seq(Crtn) /\ IsInjective(send_crtns')
        /\ ToSet(send_crtns') = S \cup {c}
    BY <1>3, <1>7, AppendList DEF ListType, S
  <2>2. k[1] # "recv" /\ ToSet(recv_crtns') = R /\ IsInjective(recv_crtns')
    BY <1>3, <1>7 DEF R
  <2>3. WaitListsSound'
    BY <1>4, <1>5, <1>6, <1>7, <2>1, <2>2, SoundSetsPrimed
  <2> QED BY <1>7, <2>1, <2>3 DEF ListType
<1>8. CASE /\ k[1] = "recv" /\ recv_crtns' = Append(recv_crtns, c)
           /\ UNCHANGED send_crtns
  <2>1. /\ recv_crtns' \in Seq(Crtn) /\ IsInjective(recv_crtns')
        /\ ToSet(recv_crtns') = R \cup {c}
    BY <1>3, <1>8, AppendList DEF ListType, R
  <2>2. k[1] # "send" /\ ToSet(send_crtns') = S /\ IsInjective(send_crtns')
    BY <1>3, <1>8 DEF S
  <2>3. WaitListsSound'
    BY <1>4, <1>5, <1>6, <1>8, <2>1, <2>2, SoundSetsPrimed
  <2> QED BY <1>8, <2>1, <2>3 DEF ListType
<1> QED BY <1>7, <1>8

\* A timer goes off; the lists are left alone.
LEMMA ExpiredSound ==
    ASSUME ListType, SchedType, WaitListsSound, NEW c \in Crtn,
           state' = Awake(state, {c}),
           timeout' = [timeout EXCEPT ![c] = TRUE],
           UNCHANGED <<lists, call>>
    PROVE  WaitListsSound'
<1>1. state \in [Crtn -> States] /\ timeout \in [Crtn -> BOOLEAN]
  BY DEF SchedType
<1>2. Waiting(ToSet(send_crtns), "send", Awake(state, {c}), call,
              [timeout EXCEPT ![c] = TRUE])
  BY <1>1, SoundSets, MembersAreCrtns, WaitingExpired
<1>3. Waiting(ToSet(recv_crtns), "recv", Awake(state, {c}), call,
              [timeout EXCEPT ![c] = TRUE])
  BY <1>1, SoundSets, MembersAreCrtns, WaitingExpired
<1> QED BY <1>2, <1>3, SoundSets, SoundSetsPrimed DEF lists

\* Resume, on the types and on the states.
LEMMA ResumeEffect ==
    ASSUME SchedType, NEW w, Len(w) \in Nat, Resume(w)
    PROVE  /\ state' = Awake(state, ToSet(w))
           /\ state' \in [Crtn -> States]
           /\ nr_stopped_crtns' \in 0 .. SizeMod - 1
<1>1. nr_stopped_crtns - Len(w) \in Int /\ SizeMod \in Nat /\ SizeMod > 0
  BY ChannelAssumption DEF SchedType
<1>2. (nr_stopped_crtns - Len(w)) % SizeMod \in 0 .. SizeMod - 1
  BY <1>1
<1> QED BY <1>2 DEF Resume, Awake, SchedType, States

\* Entities are held as before when no call begins outside their holders.
LEMMA HeldKept ==
    ASSUME EntitiesHeld, UNCHANGED <<mapped, refc, bound>>,
           \A d \in Crtn : call'[d] # Idle => call[d] # Idle \/ d \in bound
    PROVE  EntitiesHeld'
BY DEF EntitiesHeld

-----------------------------------------------------------------------------
(* The operations. *)

\* A call that changes neither the lists nor the scheduler's state returns.
LEMMA ReturnWaitInv ==
    ASSUME FrameInv, WaitInv, NEW c \in Crtn, state[c] = "READY",
           c \notin ToSet(send_crtns), c \notin ToSet(recv_crtns), Return(c),
           UNCHANGED <<mapped, ring, refc, lists, state, nr_stopped_crtns,
                       bound, events>>
    PROVE  WaitInv'
<1> USE DEF WaitInv
<1>1. ListType' /\ ClosedIsEmpty'
  BY DEF ListType, ClosedIsEmpty, lists, ring
<1>2. SchedType'
  BY DEF SchedType, Return
<1>3. StoppedInCall'
  BY DEF StoppedInCall, Return, SchedType, FrameInv, CallType
<1>4. EntitiesHeld'
  BY HeldKept DEF Return, FrameInv, CallType
<1>5. state' = Awake(state, {})
  BY DEF Awake, SchedType
<1>6. WaitListsSound'
  BY <1>5, WokenReturnSound, SoundSets DEF FrameInv, lists
<1> QED BY <1>1, <1>2, <1>3, <1>4, <1>6

\* What Accept and Deliver do to the two lists: the first coroutine of one of
\* them is resumed and leaves it.
Handover ==
    \/ /\ Resume(First(recv_crtns)) /\ recv_crtns' = Rest(recv_crtns)
       /\ UNCHANGED send_crtns
    \/ /\ Resume(First(send_crtns)) /\ send_crtns' = Rest(send_crtns)
       /\ UNCHANGED recv_crtns

LEMMA HandoverEffect ==
    ASSUME ListType, SchedType, WaitListsSound, Handover
    PROVE  /\ ListType'
           /\ IsInjective(send_crtns') /\ IsInjective(recv_crtns')
           /\ state' \in [Crtn -> States]
           /\ nr_stopped_crtns' \in 0 .. SizeMod - 1
           /\ \E K : /\ state' = Awake(state, K)
                     /\ ToSet(send_crtns') = ToSet(send_crtns) \ K
                     /\ ToSet(recv_crtns') = ToSet(recv_crtns) \ K
<1>0. /\ IsInjective(send_crtns) /\ IsInjective(recv_crtns)
      /\ ToSet(send_crtns) \cap ToSet(recv_crtns) = {}
  BY SoundSets, ListsDisjoint
<1>1. CASE /\ Resume(First(recv_crtns)) /\ recv_crtns' = Rest(recv_crtns)
           /\ UNCHANGED send_crtns
  <2> DEFINE K == ToSet(First(recv_crtns))
  <2>1. /\ recv_crtns' \in Seq(Crtn) /\ IsInjective(recv_crtns')
        /\ ToSet(recv_crtns') = ToSet(recv_crtns) \ K
        /\ K \subseteq ToSet(recv_crtns) /\ Len(First(recv_crtns)) \in Nat
    BY <1>0, <1>1, RestList DEF ListType
  <2>2. /\ state' = Awake(state, K) /\ state' \in [Crtn -> States]
        /\ nr_stopped_crtns' \in 0 .. SizeMod - 1
    BY <1>1, <2>1, ResumeEffect
  <2>3. ToSet(send_crtns') = ToSet(send_crtns) \ K
    BY <1>0, <1>1, <2>1
  <2> QED BY <1>0, <1>1, <2>1, <2>2, <2>3 DEF ListType
<1>2. CASE /\ Resume(First(send_crtns)) /\ send_crtns' = Rest(send_crtns)
           /\ UNCHANGED recv_crtns
  <2> DEFINE K == ToSet(First(send_crtns))
  <2>1. /\ send_crtns' \in Seq(Crtn) /\ IsInjective(send_crtns')
        /\ ToSet(send_crtns') = ToSet(send_crtns) \ K
        /\ K \subseteq ToSet(send_crtns) /\ Len(First(send_crtns)) \in Nat
    BY <1>0, <1>2, RestList DEF ListType
  <2>2. /\ state' = Awake(state, K) /\ state' \in [Crtn -> States]
        /\ nr_stopped_crtns' \in 0 .. SizeMod - 1
    BY <1>2, <2>1, ResumeEffect
  <2>3. ToSet(recv_crtns') = ToSet(recv_crtns) \ K
    BY <1>0, <1>2, <2>1
  <2> QED BY <1>0, <1>2, <2>1, <2>2, <2>3 DEF ListType
<1> QED BY <1>1, <1>2 DEF Handover

\* A send that found room, or a receive that found a variant: the call of c
\* returns, or (a post) no coroutine is current.
LEMMA HandoverWaitInv ==
    ASSUME FrameInv, WaitInv, Handover, qsize' # 0,
           events' \subseteq {"receivable", "sendable"},
           UNCHANGED <<mapped, refc, bound>>,
           \/ UNCHANGED <<call, timeout>>
           \/ \E c \in Crtn : /\ state[c] = "READY" /\ Return(c)
                              /\ c \notin ToSet(send_crtns)
                              /\ c \notin ToSet(recv_crtns)
    PROVE  WaitInv'
<1> USE DEF WaitInv
<1>1. /\ ListType'
      /\ IsInjective(send_crtns') /\ IsInjective(recv_crtns')
      /\ state' \in [Crtn -> States]
      /\ nr_stopped_crtns' \in 0 .. SizeMod - 1
  BY HandoverEffect
<1>2. PICK K : /\ state' = Awake(state, K)
               /\ ToSet(send_crtns') = ToSet(send_crtns) \ K
               /\ ToSet(recv_crtns') = ToSet(recv_crtns) \ K
  BY HandoverEffect
<1>3. ClosedIsEmpty'
  BY DEF ClosedIsEmpty
<1>4. \A d \in Crtn : state'[d] = "STOPPED" => state[d] = "STOPPED"
  BY <1>2 DEF Awake
<1>5. CASE UNCHANGED <<call, timeout>>
  <2>1. WaitListsSound'
    BY <1>1, <1>2, <1>5, WokenSound
  <2>2. EntitiesHeld'
    BY <1>5, HeldKept
  <2>3. SchedType' /\ StoppedInCall'
    BY <1>1, <1>4, <1>5 DEF SchedType, StoppedInCall
  <2> QED BY <1>1, <1>3, <2>1, <2>2, <2>3
<1>6. ASSUME NEW c \in Crtn, state[c] = "READY", Return(c),
             c \notin ToSet(send_crtns), c \notin ToSet(recv_crtns)
      PROVE  WaitInv'
  <2>1. WaitListsSound'
    BY <1>1, <1>2, <1>6, WokenReturnSound DEF FrameInv
  <2>2. EntitiesHeld'
    BY <1>6, HeldKept DEF Return, FrameInv, CallType
  <2>3. SchedType'
    BY <1>1, <1>6 DEF SchedType, Return
  <2>4. StoppedInCall'
    BY <1>4, <1>6 DEF StoppedInCall, Return, FrameInv, CallType
  <2> QED BY <1>1, <1>3, <2>1, <2>2, <2>3, <2>4
<1> QED BY <1>5, <1>6

\* A call that cannot go on stops its coroutine.
LEMMA AgainWaitInv ==
    ASSUME FrameInv, WaitInv, NEW c \in bound, NEW k \in Calls,
           c \notin ToSet(send_crtns), c \notin ToSet(recv_crtns),
           Again(c, k), qsize' # 0,
           \/ /\ k[1] = "send" /\ send_crtns' = Append(send_crtns, c)
              /\ UNCHANGED recv_crtns
           \/ /\ k[1] = "recv" /\ recv_crtns' = Append(recv_crtns, c)
              /\ UNCHANGED send_crtns,
           UNCHANGED <<mapped, refc, bound, events>>
    PROVE  WaitInv'
<1> USE DEF WaitInv
<1>0. c \in Crtn /\ k # Idle
  BY IdleIsNoCall DEF EntitiesHeld
<1>1. ListType' /\ WaitListsSound'
  BY <1>0, StoppedSound DEF FrameInv
<1>2. nr_stopped_crtns' \in 0 .. SizeMod - 1
  <2>1. nr_stopped_crtns + 1 \in Int /\ SizeMod \in Nat /\ SizeMod > 0
    BY ChannelAssumption DEF SchedType
  <2>2. (nr_stopped_crtns + 1) % SizeMod \in 0 .. SizeMod - 1
    BY <2>1
  <2> QED BY <2>2 DEF Again, Stop
<1>3. SchedType'
  BY <1>0, <1>2 DEF SchedType, Again, Stop, States
<1>4. StoppedInCall'
  BY <1>0 DEF StoppedInCall, Again, Stop, FrameInv, CallType, SchedType
<1>5. EntitiesHeld'
  BY HeldKept DEF Again, FrameInv, CallType
<1>6. ClosedIsEmpty'
  BY DEF ClosedIsEmpty
<1> QED BY <1>1, <1>3, <1>4, <1>5, <1>6

LEMMA SendWaitInv ==
    ASSUME FrameInv, WaitInv, NEW c \in bound, NEW v \in Val,
           state[c] = "READY", call[c] = Idle \/ ~timeout[c],
           send_getter(c, v), UNCHANGED <<mapped, refc, bound>>
    PROVE  WaitInv'
<1>0. c \in Crtn
  BY DEF WaitInv, EntitiesHeld
<1>1. c \notin ToSet(send_crtns) /\ c \notin ToSet(recv_crtns)
  BY <1>0, RunsUnlisted DEF WaitInv
<1>2. CASE /\ Return(c)
           /\ UNCHANGED <<ring, lists, state, nr_stopped_crtns, events>>
  BY <1>0, <1>1, <1>2, ReturnWaitInv
<1>3. CASE Accept(v) /\ Return(c)
  <2>1. Handover /\ qsize' # 0
    BY <1>3 DEF Accept, Handover, Enqueue, FrameInv, RingType
  <2>2. events' \subseteq {"receivable", "sendable"}
    BY <1>3 DEF Accept, WaitInv, SchedType
  <2> QED BY <1>0, <1>1, <1>3, <2>1, <2>2, HandoverWaitInv
<1>4. CASE /\ qsize > 0
           /\ Again(c, <<"send", v>>)
           /\ send_crtns' = Append(send_crtns, c)
           /\ UNCHANGED <<ring, recv_crtns, events>>
  <2>1. <<"send", v>> \in Calls /\ <<"send", v>>[1] = "send" /\ qsize' # 0
    BY <1>4, ChannelAssumption DEF Calls, ring
  <2> QED BY <1>1, <1>4, <2>1, AgainWaitInv
<1> QED BY <1>2, <1>3, <1>4 DEF send_getter

LEMMA RecvWaitInv ==
    ASSUME FrameInv, WaitInv, NEW c \in bound,
           state[c] = "READY", call[c] = Idle \/ ~timeout[c],
           recv_getter(c), UNCHANGED <<mapped, refc, bound>>
    PROVE  WaitInv'
<1>0. c \in Crtn
  BY DEF WaitInv, EntitiesHeld
<1>1. c \notin ToSet(send_crtns) /\ c \notin ToSet(recv_crtns)
  BY <1>0, RunsUnlisted DEF WaitInv
<1>2. CASE /\ Return(c)
           /\ UNCHANGED <<ring, lists, state, nr_stopped_crtns, events>>
  BY <1>0, <1>1, <1>2, ReturnWaitInv
<1>3. CASE qsize > 0 /\ Deliver /\ Return(c)
  <2>1. Handover /\ qsize' # 0
    BY <1>3 DEF Deliver, Handover, Dequeue
  <2>2. events' \subseteq {"receivable", "sendable"}
    BY <1>3 DEF Deliver, WaitInv, SchedType
  <2> QED BY <1>0, <1>1, <1>3, <2>1, <2>2, HandoverWaitInv
<1>4. CASE /\ qsize > 0
           /\ Again(c, <<"recv">>)
           /\ recv_crtns' = Append(recv_crtns, c)
           /\ UNCHANGED <<ring, send_crtns, events>>
  <2>1. <<"recv">> \in Calls /\ <<"recv">>[1] = "recv" /\ qsize' # 0
    BY <1>4 DEF Calls, ring
  <2> QED BY <1>1, <1>4, <2>1, AgainWaitInv
<1> QED BY <1>2, <1>3, <1>4 DEF recv_getter

\* A timed out coroutine takes itself off the list of its call.
LEMMA TimedOutWaitInv ==
    ASSUME FrameInv, WaitInv, NEW c \in Crtn, RetryTimedOut(c)
    PROVE  WaitInv'
<1> USE DEF WaitInv
<1>0. /\ state[c] = "READY" /\ Return(c)
      /\ UNCHANGED <<mapped, ring, refc, state, nr_stopped_crtns, bound,
                     events>>
  BY DEF RetryTimedOut
<1>1. IsInjective(send_crtns) /\ IsInjective(recv_crtns)
  BY SoundSets
<1>2. /\ ListType' /\ IsInjective(send_crtns') /\ IsInjective(recv_crtns')
      /\ ToSet(send_crtns') = ToSet(send_crtns) \ {c}
      /\ ToSet(recv_crtns') = ToSet(recv_crtns) \ {c}
      /\ send_crtns = <<>> => send_crtns' = <<>>
      /\ recv_crtns = <<>> => recv_crtns' = <<>>
  <2>1. CASE call[c][1] = "send"
    <3>1. send_crtns' = Unlink(send_crtns, c) /\ UNCHANGED recv_crtns
      BY <2>1 DEF RetryTimedOut
    <3>2. c \notin ToSet(recv_crtns)
      BY <2>1 DEF WaitListsSound, Listed
    <3>3. send_crtns = <<>> => send_crtns' = <<>>
      BY <3>1, EmptyList DEF Unlink
    <3> QED BY <1>1, <3>1, <3>2, <3>3, UnlinkList DEF ListType
  <2>2. CASE call[c][1] # "send"
    <3>1. recv_crtns' = Unlink(recv_crtns, c) /\ UNCHANGED send_crtns
      BY <2>2 DEF RetryTimedOut
    <3>2. c \notin ToSet(send_crtns)
      BY <2>2 DEF WaitListsSound, Listed
    <3>3. recv_crtns = <<>> => recv_crtns' = <<>>
      BY <3>1, EmptyList DEF Unlink
    <3> QED BY <1>1, <3>1, <3>2, <3>3, UnlinkList DEF ListType
  <2> QED BY <2>1, <2>2
<1>3. state' = Awake(state, {c})
  BY <1>0 DEF Awake, SchedType
<1>4. WaitListsSound'
  BY <1>0, <1>2, <1>3, WokenReturnSound DEF FrameInv
<1>5. SchedType'
  BY <1>0 DEF SchedType, Return
<1>6. StoppedInCall'
  BY <1>0 DEF StoppedInCall, Return, SchedType, FrameInv, CallType
<1>7. EntitiesHeld'
  BY <1>0, HeldKept DEF Return, FrameInv, CallType
<1>8. ClosedIsEmpty'
  BY <1>0, <1>2 DEF ClosedIsEmpty, ring
<1> QED BY <1>2, <1>4, <1>5, <1>6, <1>7, <1>8

LEMMA ExpireWaitInv ==
    ASSUME WaitInv, NEW c \in Crtn, Expire(c)
    PROVE  WaitInv'
<1> USE DEF WaitInv
<1>0. /\ timeout' = [timeout EXCEPT ![c] = TRUE] /\ Resume(<<c>>)
      /\ UNCHANGED <<mapped, ring, refc, lists, call, bound, events>>
  BY DEF Expire
<1>1. ToSet(<<c>>) = {c} /\ Len(<<c>>) \in Nat
  BY DEF ToSet
<1>2. /\ state' = Awake(state, {c}) /\ state' \in [Crtn -> States]
      /\ nr_stopped_crtns' \in 0 .. SizeMod - 1
  BY <1>0, <1>1, ResumeEffect
<1>3. WaitListsSound'
  BY <1>0, <1>2, ExpiredSound
<1>4. SchedType'
  BY <1>0, <1>2 DEF SchedType
<1>5. StoppedInCall'
  BY <1>0, <1>2 DEF StoppedInCall, Awake
<1>6. EntitiesHeld'
  BY <1>0, HeldKept
<1>7. ListType' /\ ClosedIsEmpty'
  BY <1>0 DEF ListType, ClosedIsEmpty, lists, ring
<1> QED BY <1>3, <1>4, <1>5, <1>6, <1>7

LEMMA PostWaitInv ==
    ASSUME FrameInv, WaitInv, NEW v \in Val, Post(v)
    PROVE  WaitInv'
<1>1. Handover /\ qsize' # 0
  BY DEF Post, Accept, Handover, Enqueue, FrameInv, RingType
<1>2. events' \subseteq {"receivable", "sendable"}
  BY DEF Post, Accept, WaitInv, SchedType
<1> QED BY <1>1, <1>2, HandoverWaitInv DEF Post

\* Closing resumes every coroutine on the two lists.
LEMMA CloseWaitInv ==
    ASSUME WaitInv, Close, UNCHANGED <<bound, refc, events>>
    PROVE  WaitInv'
<1> USE DEF WaitInv
<1> DEFINE K == ToSet(send_crtns) \cup ToSet(recv_crtns)
<1>1. /\ ToSet(send_crtns \o recv_crtns) = K
      /\ Len(send_crtns \o recv_crtns) \in Nat
  BY BothLists DEF ListType
<1>2. /\ state' = Awake(state, K) /\ state' \in [Crtn -> States]
      /\ nr_stopped_crtns' \in 0 .. SizeMod - 1
  BY <1>1, ResumeEffect DEF Close
<1>3. /\ send_crtns' = <<>> /\ recv_crtns' = <<>>
      /\ UNCHANGED <<mapped, call, timeout>>
  BY DEF Close
<1>4. WaitListsSound'
  <2>1. /\ ToSet(send_crtns') = ToSet(send_crtns) \ K
        /\ ToSet(recv_crtns') = ToSet(recv_crtns) \ K
        /\ IsInjective(send_crtns') /\ IsInjective(recv_crtns')
    BY <1>3, EmptyList
  <2> QED BY <1>2, <1>3, <2>1, WokenSound
<1>5. SchedType'
  BY <1>2, <1>3 DEF SchedType
<1>6. StoppedInCall'
  BY <1>2, <1>3 DEF StoppedInCall, Awake
<1>7. EntitiesHeld'
  BY <1>3, HeldKept
<1>8. ListType' /\ ClosedIsEmpty'
  BY <1>3, EmptyList DEF ListType, ClosedIsEmpty
<1> QED BY <1>4, <1>5, <1>6, <1>7, <1>8

\* Steps that move no coroutine.
LEMMA QuietSound ==
    ASSUME ListType, SchedType, WaitListsSound, StoppedInCall,
           UNCHANGED <<lists, sched>>,
           events' \subseteq {"receivable", "sendable"}
    PROVE  ListType' /\ SchedType' /\ WaitListsSound' /\ StoppedInCall'
<1>1. UNCHANGED <<send_crtns, recv_crtns, state, call, timeout,
                  nr_stopped_crtns>>
  BY DEF lists, sched
<1> QED BY <1>1
        DEF ListType, SchedType, WaitListsSound, Listed, StoppedInCall

LEMMA CtrlWaitInv ==
    ASSUME FrameInv, WaitInv, NEW n \in Caps, pcchan_ctrl(n)
    PROVE  WaitInv'
<1> USE DEF WaitInv
<1>0. UNCHANGED <<bound, refc, events>> /\ n \in Nat
  BY ChannelAssumption DEF pcchan_ctrl
<1>1. CASE refc = 0 /\ Erase /\ UNCHANGED <<lists, sched>>
  <2>1. bound = {}
    BY <1>1, FS_EmptySet DEF EntitiesHeld
  <2>2. send_crtns' = <<>> /\ recv_crtns' = <<>>
    BY <1>1, <2>1, UnheldIsEmpty DEF lists
  <2>3. EntitiesHeld' /\ ClosedIsEmpty'
    BY <1>0, <1>1, <2>1, <2>2 DEF EntitiesHeld, ClosedIsEmpty, Erase, sched
  <2>4. events' \subseteq {"receivable", "sendable"}
    BY <1>0 DEF SchedType
  <2> QED BY <1>1, <2>3, <2>4, QuietSound
<1>2. CASE Close
  BY <1>0, <1>2, CloseWaitInv
<1>3. CASE /\ UNCHANGED <<mapped, lists, sched>>
           /\ qsize' # 0 \/ UNCHANGED ring
  <2>1. EntitiesHeld'
    BY <1>0, <1>3, HeldKept DEF sched
  <2>2. ClosedIsEmpty'
    BY <1>3 DEF ClosedIsEmpty, lists, ring
  <2>3. events' \subseteq {"receivable", "sendable"}
    BY <1>0 DEF SchedType
  <2> QED BY <1>3, <2>1, <2>2, <2>3, QuietSound
<1>4. ASSUME n > qcount, Resize(n)
      PROVE  UNCHANGED <<mapped, lists, sched>> /\ qsize' # 0
  BY <1>0, <1>4, ChannelAssumption DEF Resize, FrameInv, RingType
<1> QED BY <1>1, <1>2, <1>3, <1>4 DEF pcchan_ctrl

LEMMA OpenWaitInv ==
    ASSUME FrameInv, WaitInv, NEW n \in Caps, ~mapped, pcchan_open(n)
    PROVE  WaitInv'
<1> USE DEF WaitInv
<1>1. bound = {} /\ bound' = {} /\ refc' = 0 /\ mapped' = TRUE /\ qsize' # 0
  BY ChannelAssumption DEF EntitiesHeld, pcchan_open
<1>2. send_crtns = <<>> /\ recv_crtns = <<>>
  BY <1>1, UnheldIsEmpty
<1>3. UNCHANGED <<lists, sched, events>>
  BY <1>2 DEF pcchan_open, lists
<1>4. EntitiesHeld'
  BY <1>1, <1>3, FS_EmptySet DEF EntitiesHeld, sched
<1>5. ClosedIsEmpty'
  BY <1>1 DEF ClosedIsEmpty
<1> QED BY <1>3, <1>4, <1>5, QuietSound DEF SchedType

\* One more entity, and one less.
LEMMA GetterWaitInv ==
    ASSUME WaitInv, NEW c \in Crtn, chan_getter(c)
    PROVE  WaitInv'
<1> USE DEF WaitInv
<1>1. /\ IsFiniteSet(bound \cup {c})
      /\ Cardinality(bound \cup {c}) = Cardinality(bound) + 1
  BY FS_AddElement DEF EntitiesHeld, chan_getter
<1>2. EntitiesHeld'
  BY <1>1 DEF EntitiesHeld, chan_getter, sched
<1>3. ClosedIsEmpty'
  BY DEF ClosedIsEmpty, chan_getter, lists, ring
<1> QED BY <1>2, <1>3, QuietSound DEF chan_getter, SchedType

LEMMA ReleaseWaitInv ==
    ASSUME WaitInv, NEW c \in Crtn, on_release(c)
    PROVE  WaitInv'
<1> USE DEF WaitInv
<1>1. /\ bound' = bound \ {c} /\ refc' = refc - 1 /\ call[c] = Idle
      /\ UNCHANGED <<lists, sched, events>>
  BY DEF on_release, CanCall
<1>2. /\ IsFiniteSet(bound') /\ refc' = Cardinality(bound')
      /\ bound' \subseteq Crtn
  BY <1>1, FS_RemoveElement DEF EntitiesHeld, on_release
<1>3. \A d \in Crtn : call'[d] # Idle => d \in bound'
  BY <1>1 DEF EntitiesHeld, sched
<1>4. mapped' \in BOOLEAN /\ (~mapped' => bound' = {}) /\ ClosedIsEmpty'
  <2>1. CASE qsize = 0 /\ refc' = 0 /\ Erase
    BY <1>1, <1>2, <2>1, FS_EmptySet DEF Erase, ClosedIsEmpty, lists
  <2>2. CASE UNCHANGED <<mapped, ring>>
    BY <1>1, <2>2 DEF EntitiesHeld, ClosedIsEmpty, lists, ring
  <2> QED BY <2>1, <2>2 DEF on_release
<1>5. EntitiesHeld'
  BY <1>2, <1>3, <1>4 DEF EntitiesHeld
<1> QED BY <1>1, <1>4, <1>5, QuietSound DEF SchedType

LEMMA QuietWaitInv ==
    ASSUME WaitInv, UNCHANGED <<mapped, ring, refc, lists, sched, bound>>,
           events' \subseteq events
    PROVE  WaitInv'
<1> USE DEF WaitInv
<1>1. EntitiesHeld'
  BY HeldKept DEF sched
<1>2. ClosedIsEmpty'
  BY DEF ClosedIsEmpty, lists, ring
<1> QED BY <1>1, <1>2, QuietSound DEF SchedType

-----------------------------------------------------------------------------
LEMMA WaitInvInit == Init => WaitInv
<1> SUFFICES ASSUME Init PROVE WaitInv
  OBVIOUS
<1>1. ListType /\ ClosedIsEmpty
  BY EmptyList DEF Init, ListType, ClosedIsEmpty
<1>2. SchedType /\ StoppedInCall
  BY ChannelAssumption DEF Init, SchedType, StoppedInCall, States
<1>3. EntitiesHeld
  BY FS_EmptySet DEF Init, EntitiesHeld
<1>4. WaitListsSound
  BY EmptyList DEF Init, WaitListsSound, Listed
<1> QED BY <1>1, <1>2, <1>3, <1>4 DEF WaitInv

\* One step per operation.
LEMMA WaitInvNext ==
    ASSUME FrameInv, WaitInv, [Next]_vars
    PROVE  WaitInv'
<1>1. ASSUME NEW c \in Crtn, NEW v \in Val, Send(c, v)
      PROVE  WaitInv'
  BY <1>1, SendWaitInv DEF Send, CanCall
<1>2. ASSUME NEW c \in Crtn, Recv(c)
      PROVE  WaitInv'
  BY <1>2, RecvWaitInv DEF Recv, CanCall
<1>3. ASSUME NEW c \in Crtn, RetrySend(c)
      PROVE  WaitInv'
  <2>1. call[c][2] \in Val
    BY <1>3, SendArgument DEF RetrySend, FrameInv
  <2>2. c \in bound
    BY <1>3, IdleIsNoCall DEF RetrySend, WaitInv, EntitiesHeld
  <2> QED BY <1>3, <2>1, <2>2, SendWaitInv DEF RetrySend
<1>4. ASSUME NEW c \in Crtn, RetryRecv(c)
      PROVE  WaitInv'
  <2>1. c \in bound
    BY <1>4, IdleIsNoCall DEF RetryRecv, WaitInv, EntitiesHeld
  <2> QED BY <1>4, <2>1, RecvWaitInv DEF RetryRecv
<1>5. ASSUME NEW c \in Crtn, RetryTimedOut(c)
      PROVE  WaitInv'
  BY <1>5, TimedOutWaitInv
<1>6. ASSUME NEW c \in Crtn, Expire(c)
      PROVE  WaitInv'
  BY <1>6, ExpireWaitInv
<1>7. ASSUME NEW v \in Val, Post(v)
      PROVE  WaitInv'
  BY <1>7, PostWaitInv
<1>8. ASSUME NEW c \in Crtn, NEW n \in Caps, chan_setter(c, n)
      PROVE  WaitInv'
  BY <1>8, CtrlWaitInv, OpenWaitInv DEF chan_setter
<1>9. ASSUME NEW c \in Crtn, NEW n \in Caps, cap_setter(c, n)
      PROVE  WaitInv'
  BY <1>9, CtrlWaitInv DEF cap_setter
<1>10. ASSUME NEW c \in Crtn, chan_getter(c)
       PROVE  WaitInv'
  BY <1>10, GetterWaitInv
<1>11. ASSUME NEW c \in Crtn, on_release(c)
       PROVE  WaitInv'
  BY <1>11, ReleaseWaitInv
<1>12. ASSUME NEW e \in events, Dispatch(e)
       PROVE  WaitInv'
  BY <1>12, QuietWaitInv DEF Dispatch
<1>13. CASE UNCHANGED vars
  BY <1>13, QuietWaitInv DEF vars
<1>14. Posted \subseteq Val
  BY ChannelAssumption
<1> QED BY <1>1, <1>2, <1>3, <1>4, <1>5, <1>6, <1>7, <1>8, <1>9, <1>10, <1>11,
           <1>12, <1>13, <1>14 DEF Next, Step, Retry

LEMMA WaitInvariant == Spec => [](FrameInv /\ WaitInv)
<1>1. FrameInv /\ WaitInv /\ [Next]_vars => WaitInv'
  BY WaitInvNext
<1> QED BY <1>1, WaitInvInit, FrameInvariant, PTL DEF Spec

\* Every variable of the channel and of the scheduler keeps its type; in
\* particular qcount never leaves 0 .. MaxCap and refc never goes below 0.
THEOREM TypeCorrect == Spec => []TypeOK
<1>1. ASSUME FrameInv, WaitInv PROVE TypeOK
  <2>1. refc \in Nat
    BY <1>1, FS_CardinalityType DEF WaitInv, EntitiesHeld
  <2> QED BY <1>1, <2>1 DEF FrameInv, RingType, CallType, WaitInv, ListType,
                            SchedType, EntitiesHeld, States, TypeOK
<1> QED BY <1>1, WaitInvariant, PTL

\* A stopped coroutine is on the list of its call, and whoever is on a list is
\* there once and is stopped or timed out in that call, whatever the order in
\* which sends, receives, timers, posts of other instances, resizes and closes
\* reach it.
THEOREM WaitListsStaySound == Spec => []WaitListsSound
<1>1. WaitInv => WaitListsSound
  BY DEF WaitInv
<1> QED BY <1>1, WaitInvariant, PTL

\* pcchan_ctrl and on_release free the channel only when no entity refers to
\* it and no coroutine is on its lists, for any number of coroutines and any
\* order of opens, closes, releases, calls and timers.
THEOREM ChannelNeverDangles == Spec => []NoDanglingChannel
<1>1. FrameInv /\ WaitInv => NoDanglingChannel
  BY DEF FrameInv, MapInv, WaitInv, ClosedIsEmpty, EntitiesHeld,
         NoDanglingChannel
<1> QED BY <1>1, WaitInvariant, PTL

-----------------------------------------------------------------------------
(* The number of stopped coroutines. *)

LEMMA ListLength ==
    ASSUME NEW w \in Seq(Crtn), IsInjective(w)
    PROVE  IsFiniteSet(ToSet(w)) /\ Cardinality(ToSet(w)) = Len(w)
<1>1. Len(w) \in Nat /\ \A i, j \in 1 .. Len(w) : w[i] = w[j] => i = j
  BY MemberIndex
<1>2. w \in [1 .. Len(w) -> ToSet(w)]
  BY <1>1, MemberIndex
<1>3. \A x \in ToSet(w) : \E i \in 1 .. Len(w) : w[i] = x
  BY MemberIndex
<1>4. w \in Bijection(1 .. Len(w), ToSet(w))
  <2>1. w \in Injection(1 .. Len(w), ToSet(w))
    BY <1>2 DEF Injection
  <2>2. w \in Surjection(1 .. Len(w), ToSet(w))
    BY <1>2, <1>3 DEF Surjection
  <2> QED BY <2>1, <2>2 DEF Bijection
<1>5. PICK n \in Nat : n = Len(w)
  BY <1>1
<1>6. IsFiniteSet(1 .. n) /\ Cardinality(1 .. n) = n
  <2>1. 1 \in Int /\ n \in Int /\ (1 > n => n = 0) /\ n - 1 + 1 = n
    BY <1>5
  <2> QED BY <2>1, FS_Interval
<1>7. ExistsBijection(1 .. n, ToSet(w))
  BY <1>4, <1>5 DEF ExistsBijection
<1> QED BY <1>5, <1>6, <1>7, FS_Bijection

LEMMA FirstAndRest ==
    ASSUME NEW w \in Seq(Crtn)
    PROVE  /\ Len(Rest(w)) \in Nat /\ Len(First(w)) \in Nat
           /\ Len(Rest(w)) = Len(w) - Len(First(w))
           /\ w # <<>> => /\ Head(w) \in ToSet(w)
                          /\ ToSet(First(w)) = {Head(w)}
<1>1. CASE w = <<>>
  BY <1>1 DEF Rest, First
<1>2. CASE w # <<>>
  <2>1. /\ Tail(w) \in Seq(Crtn) /\ Len(Tail(w)) = Len(w) - 1
        /\ Head(w) = w[1] /\ 1 \in 1 .. Len(w)
    BY <1>2, HeadTailProperties, EmptySeq
  <2>2. Rest(w) = Tail(w) /\ First(w) = <<Head(w)>>
    BY <1>2 DEF Rest, First
  <2>3. Len(First(w)) = 1 /\ ToSet(First(w)) = {Head(w)}
    BY <2>2 DEF ToSet
  <2> QED BY <2>1, <2>2, <2>3, MemberIndex
<1> QED BY <1>1, <1>2

\* A list with a coroutine more at its end keeps the others.
LEMMA ListedAppended ==
    ASSUME NEW w \in Seq(Crtn), NEW c \in Crtn
    PROVE  ToSet(w) \subseteq ToSet(Append(w, c))
<1>1. /\ Append(w, c) \in Seq(Crtn) /\ Len(Append(w, c)) = Len(w) + 1
      /\ \A i \in 1 .. Len(w) : Append(w, c)[i] = w[i]
  BY AppendProperties
<1>2. 1 .. Len(w) \subseteq 1 .. Len(w) + 1
  OBVIOUS
<1>3. \A x : x \in ToSet(w) => \E i \in 1 .. Len(w) : w[i] = x
  BY MemberIndex
<1>4. \A x : (\E i \in 1 .. Len(w) + 1 : Append(w, c)[i] = x) => x \in ToSet(Append(w, c))
  BY <1>1, MemberIndex
<1> QED BY <1>1, <1>2, <1>3, <1>4

\* Two lists without a common member, one behind the other.
LEMMA BothInjective ==
    ASSUME NEW v \in Seq(Crtn), NEW w \in Seq(Crtn),
           IsInjective(v), IsInjective(w), ToSet(v) \cap ToSet(w) = {}
    PROVE  IsInjective(v \o w)
<1> DEFINE u == v \o w
<1>1. /\ u \in Seq(Crtn) /\ Len(u) = Len(v) + Len(w)
      /\ \A i \in 1 .. Len(v) + Len(w) :
            u[i] = IF i <= Len(v) THEN v[i] ELSE w[i - Len(v)]
  BY ConcatProperties
<1> HIDE DEF u
<1>2. PICK m \in Nat, n \in Nat : m = Len(v) /\ n = Len(w)
  OBVIOUS
<1>3. /\ \A i, j \in 1 .. m : v[i] = v[j] => i = j
      /\ \A i, j \in 1 .. n : w[i] = w[j] => i = j
      /\ \A i \in 1 .. m, j \in 1 .. n : v[i] # w[j]
  BY <1>2, MemberIndex
<1>4. ASSUME NEW i \in 1 .. m + n, NEW j \in 1 .. m + n, u[i] = u[j]
      PROVE  i = j
  <2>1. ASSUME NEW k \in 1 .. m + n
        PROVE  \/ k \in 1 .. m /\ u[k] = v[k]
               \/ k - m \in 1 .. n /\ u[k] = w[k - m]
    <3>1. u[k] = IF k <= m THEN v[k] ELSE w[k - m]
      BY <1>1, <1>2
    <3>2. CASE k <= m
      BY <1>2, <3>1, <3>2
    <3>3. CASE ~(k <= m)
      BY <1>2, <3>1, <3>3
    <3> QED BY <3>2, <3>3
  <2>2. CASE i \in 1 .. m /\ u[i] = v[i] /\ j \in 1 .. m /\ u[j] = v[j]
    BY <1>3, <1>4, <2>2
  <2>3. CASE /\ i - m \in 1 .. n /\ u[i] = w[i - m]
             /\ j - m \in 1 .. n /\ u[j] = w[j - m]
    <3>1. i - m = j - m
      BY <1>3, <1>4, <2>3
    <3> QED BY <1>2, <3>1
  <2>4. CASE i \in 1 .. m /\ u[i] = v[i] /\ j - m \in 1 .. n /\ u[j] = w[j - m]
    BY <1>3, <1>4, <2>4
  <2>5. CASE i - m \in 1 .. n /\ u[i] = w[i - m] /\ j \in 1 .. m /\ u[j] = v[j]
    BY <1>3, <1>4, <2>5
  <2> QED BY <2>1, <2>2, <2>3, <2>4, <2>5
<1> QED BY <1>1, <1>2, <1>4, MemberIndex DEF u

\* What MiscountExplained says of a step.
Follows ==
    nr_stopped_crtns' =
       (nr_stopped_crtns + Cardinality(Stopped') - Cardinality(Stopped)
          - Cardinality(ResumedAgain)) % SizeMod

LEMMA StoppedFinite ==
    ASSUME WaitInv
    PROVE  IsFiniteSet(Stopped) /\ Cardinality(Stopped) \in Nat
<1>1. Stopped \subseteq bound /\ IsFiniteSet(bound)
  BY DEF WaitInv, StoppedInCall, EntitiesHeld, Stopped
<1> QED BY <1>1, FS_Subset, FS_CardinalityType

\* Waiters are resumed and leave the lists.
LEMMA ResumeFollows ==
    ASSUME WaitInv, NEW w \in Seq(Crtn), IsInjective(w), Resume(w),
           ToSet(w) \subseteq Waiters, Waiters' = Waiters \ ToSet(w),
           \A d \in Waiters : timeout'[d] = timeout[d]
    PROVE  Follows
<1>1. PICK S, T, K, G : /\ S = Stopped /\ T = Stopped' /\ K = ToSet(w)
                        /\ G = ResumedAgain
  OBVIOUS
<1>2. IsFiniteSet(S) /\ IsFiniteSet(K) /\ Cardinality(K) = Len(w)
  BY <1>1, StoppedFinite, ListLength
<1>3. K \subseteq Crtn
  BY <1>1, MemberIndex
<1>4. T = S \ K
  BY <1>1 DEF Stopped, Resume, WaitInv, SchedType
<1>5. G = K \ S
  <2>1. \A d \in K : state[d] = "READY" \/ state[d] = "STOPPED"
    BY <1>3 DEF WaitInv, SchedType, States
  <2>2. \A d \in K : state[d] # "STOPPED" => timeout[d]
    BY <1>1 DEF WaitInv, WaitListsSound, Listed, Waiters
  <2>3. \A d : d \in G <=> /\ d \in Crtn /\ state[d] = "READY" /\ timeout'[d]
                           /\ d \in Waiters /\ d \notin Waiters'
    BY <1>1 DEF ResumedAgain
  <2>4. \A d \in K : timeout'[d] = timeout[d] /\ d \in Waiters /\ d \notin Waiters'
    BY <1>1
  <2>5. \A d : d \in Waiters /\ d \notin Waiters' => d \in K
    BY <1>1
  <2>6. \A d : d \in S <=> d \in Crtn /\ state[d] = "STOPPED"
    BY <1>1 DEF Stopped
  <2> QED BY <1>3, <2>1, <2>2, <2>3, <2>4, <2>5, <2>6
<1>6. PICK s, t, g, k : /\ s = Cardinality(S) /\ t = Cardinality(T)
                        /\ g = Cardinality(G) /\ k = Len(w)
  OBVIOUS
<1>7. /\ t - s - g = 0 - k /\ s \in Nat /\ t \in Nat /\ g \in Nat /\ k \in Nat
  <2>1. /\ IsFiniteSet(T) /\ Cardinality(T) = Cardinality(S) - Cardinality(S \cap K)
        /\ IsFiniteSet(G) /\ Cardinality(G) = Cardinality(K) - Cardinality(K \cap S)
    BY <1>2, <1>4, <1>5, FS_Difference
  <2>2. S \cap K = K \cap S /\ IsFiniteSet(S \cap K)
    BY <1>2, FS_Intersection
  <2>3. PICK i : i = Cardinality(S \cap K)
    OBVIOUS
  <2>4. s \in Nat /\ k \in Nat /\ i \in Nat /\ t \in Nat /\ g \in Nat
    BY <1>2, <1>6, <2>1, <2>2, <2>3, FS_CardinalityType
  <2>5. t = s - i /\ g = k - i
    BY <1>2, <1>6, <2>1, <2>2, <2>3
  <2> QED BY <2>4, <2>5
<1>8. nr_stopped_crtns \in Int
  BY ChannelAssumption DEF WaitInv, SchedType
<1>9. nr_stopped_crtns + t - s - g = nr_stopped_crtns - k
  BY <1>7, <1>8
<1>10. nr_stopped_crtns' = (nr_stopped_crtns - k) % SizeMod
  BY <1>6 DEF Resume
<1> QED BY <1>1, <1>6, <1>9, <1>10 DEF Follows

\* Nobody is stopped or resumed; at most a coroutine whose call ends leaves a
\* list.
LEMMA StillFollows ==
    ASSUME WaitInv, UNCHANGED <<state, nr_stopped_crtns>>,
           \A d \in Waiters : d \in Waiters' \/ ~timeout'[d]
    PROVE  Follows
<1>1. Stopped' = Stopped /\ Cardinality(Stopped) \in Nat
  BY StoppedFinite DEF Stopped
<1>2. ResumedAgain = {} /\ Cardinality({}) = 0
  BY FS_EmptySet DEF ResumedAgain
<1>3. nr_stopped_crtns \in 0 .. SizeMod - 1 /\ SizeMod \in Nat
  BY ChannelAssumption DEF WaitInv, SchedType
<1>4. PICK n, s : n = nr_stopped_crtns /\ s = Cardinality(Stopped)
  OBVIOUS
<1>5. n + s - s - 0 = n /\ n % SizeMod = n
  BY <1>1, <1>3, <1>4
<1> QED BY <1>1, <1>2, <1>4, <1>5 DEF Follows

\* A running coroutine is stopped and joins a list.
LEMMA StopFollows ==
    ASSUME WaitInv, NEW c \in Crtn, state[c] = "READY", Stop(c),
           Waiters \subseteq Waiters'
    PROVE  Follows
<1>1. ResumedAgain = {} /\ Cardinality({}) = 0
  BY FS_EmptySet DEF ResumedAgain
<1>2. Stopped' = Stopped \cup {c} /\ c \notin Stopped
  BY DEF Stopped, Stop, WaitInv, SchedType
<1>3. PICK S, T, s, t : /\ S = Stopped /\ T = Stopped' /\ s = Cardinality(S)
                        /\ t = Cardinality(T)
  OBVIOUS
<1>4. s \in Nat /\ IsFiniteSet(S)
  BY <1>3, StoppedFinite
<1>5. t = s + 1
  BY <1>2, <1>3, <1>4, FS_AddElement
<1>6. nr_stopped_crtns \in Int
  BY ChannelAssumption DEF WaitInv, SchedType
<1>7. nr_stopped_crtns + t - s - 0 = nr_stopped_crtns + 1
  BY <1>4, <1>5, <1>6
<1> QED BY <1>1, <1>3, <1>7 DEF Follows, Stop

\* The timer of a stopped coroutine goes off; it stays on its list.
LEMMA ExpireFollows ==
    ASSUME WaitInv, NEW c \in Crtn, Expire(c)
    PROVE  Follows
<1>1. ResumedAgain = {} /\ Cardinality({}) = 0
  BY FS_EmptySet DEF ResumedAgain, Expire, Waiters, lists
<1>2. Stopped' = Stopped \ {c} /\ c \in Stopped
  <2>1. ToSet(<<c>>) = {c}
    BY DEF ToSet
  <2> QED BY <2>1 DEF Stopped, Expire, Resume, WaitInv, SchedType
<1>3. PICK S, T, s, t : /\ S = Stopped /\ T = Stopped' /\ s = Cardinality(S)
                        /\ t = Cardinality(T)
  OBVIOUS
<1>4. s \in Nat /\ IsFiniteSet(S)
  BY <1>3, StoppedFinite
<1>5. t = s - 1
  BY <1>2, <1>3, <1>4, FS_RemoveElement
<1>6. nr_stopped_crtns \in Int
  BY ChannelAssumption DEF WaitInv, SchedType
<1>7. nr_stopped_crtns + t - s - 0 = nr_stopped_crtns - 1
  BY <1>4, <1>5, <1>6
<1>8. nr_stopped_crtns' = (nr_stopped_crtns - 1) % SizeMod
  BY DEF Expire, Resume
<1> QED BY <1>1, <1>3, <1>7, <1>8 DEF Follows

\* The first coroutine of a list is resumed; the call of nobody listed ends.
LEMMA HandoverFollows ==
    ASSUME WaitInv, Handover, \A d \in Waiters : timeout'[d] = timeout[d]
    PROVE  Follows
<1>0. /\ ListType /\ IsInjective(send_crtns) /\ IsInjective(recv_crtns)
      /\ ToSet(send_crtns) \cap ToSet(recv_crtns) = {}
  BY SoundSets, ListsDisjoint DEF WaitInv
<1>1. \A w \in Seq(Crtn) : First(w) \in Seq(Crtn) /\ IsInjective(First(w))
  <2>1. ASSUME NEW w \in Seq(Crtn)
        PROVE  First(w) \in Seq(Crtn) /\ IsInjective(First(w))
    <3>1. CASE w = <<>>
      BY <3>1, EmptyList DEF First
    <3>2. CASE w # <<>>
      BY <3>2, HeadTailProperties DEF First, IsInjective
    <3> QED BY <3>1, <3>2
  <2> QED BY <2>1
<1>2. CASE /\ Resume(First(recv_crtns)) /\ recv_crtns' = Rest(recv_crtns)
           /\ UNCHANGED send_crtns
  <2>1. PICK w : w = First(recv_crtns)
    OBVIOUS
  <2>2. w \in Seq(Crtn) /\ IsInjective(w) /\ Resume(w)
    BY <1>0, <1>1, <1>2, <2>1 DEF ListType
  <2>3. /\ ToSet(recv_crtns') = ToSet(recv_crtns) \ ToSet(w)
        /\ ToSet(w) \subseteq ToSet(recv_crtns)
    BY <1>0, <1>2, <2>1, RestList DEF ListType
  <2>4. ToSet(w) \subseteq Waiters /\ Waiters' = Waiters \ ToSet(w)
    BY <1>0, <1>2, <2>3 DEF Waiters
  <2> QED BY <2>2, <2>4, ResumeFollows
<1>3. CASE /\ Resume(First(send_crtns)) /\ send_crtns' = Rest(send_crtns)
           /\ UNCHANGED recv_crtns
  <2>1. PICK w : w = First(send_crtns)
    OBVIOUS
  <2>2. w \in Seq(Crtn) /\ IsInjective(w) /\ Resume(w)
    BY <1>0, <1>1, <1>3, <2>1 DEF ListType
  <2>3. /\ ToSet(send_crtns') = ToSet(send_crtns) \ ToSet(w)
        /\ ToSet(w) \subseteq ToSet(send_crtns)
    BY <1>0, <1>3, <2>1, RestList DEF ListType
  <2>4. ToSet(w) \subseteq Waiters /\ Waiters' = Waiters \ ToSet(w)
    BY <1>0, <1>3, <2>3 DEF Waiters
  <2> QED BY <2>2, <2>4, ResumeFollows
<1> QED BY <1>2, <1>3 DEF Handover

LEMMA CloseFollows ==
    ASSUME WaitInv, Close
    PROVE  Follows
<1>0. /\ ListType /\ IsInjective(send_crtns) /\ IsInjective(recv_crtns)
      /\ ToSet(send_crtns) \cap ToSet(recv_crtns) = {}
  BY SoundSets, ListsDisjoint DEF WaitInv
<1>1. PICK w : w = send_crtns \o recv_crtns
  OBVIOUS
<1>2. w \in Seq(Crtn) /\ ToSet(w) = Waiters
  BY <1>0, <1>1, BothLists, ConcatProperties DEF ListType, Waiters
<1>3. IsInjective(w)
  BY <1>0, <1>1, BothInjective DEF ListType
<1>4. Resume(w) /\ Waiters' = Waiters \ ToSet(w) /\ timeout' = timeout
  BY <1>1, <1>2, EmptyList DEF Close, Waiters
<1> QED BY <1>2, <1>3, <1>4, ResumeFollows

\* A coroutine that runs and is not listed calls, or repeats its call.
LEMMA SendFollows ==
    ASSUME WaitInv, NEW c \in Crtn, NEW v, state[c] = "READY",
           c \notin Waiters, send_getter(c, v)
    PROVE  Follows
<1>1. CASE Return(c) /\ UNCHANGED <<lists, state, nr_stopped_crtns>>
  BY <1>1, StillFollows DEF lists, Waiters
<1>2. CASE Accept(v) /\ Return(c)
  <2>1. Handover
    BY <1>2 DEF Accept, Handover
  <2>2. \A d \in Waiters : timeout'[d] = timeout[d]
    BY <1>2, MembersAreCrtns DEF Return, Waiters, WaitInv, SchedType
  <2> QED BY <2>1, <2>2, HandoverFollows
<1>3. CASE /\ Again(c, <<"send", v>>) /\ send_crtns' = Append(send_crtns, c)
           /\ UNCHANGED recv_crtns
  <2>1. Waiters \subseteq Waiters'
    BY <1>3, ListedAppended DEF Waiters, WaitInv, ListType
  <2> QED BY <1>3, <2>1, StopFollows DEF Again
<1> QED BY <1>1, <1>2, <1>3 DEF send_getter

LEMMA RecvFollows ==
    ASSUME WaitInv, NEW c \in Crtn, state[c] = "READY",
           c \notin Waiters, recv_getter(c)
    PROVE  Follows
<1>1. CASE Return(c) /\ UNCHANGED <<lists, state, nr_stopped_crtns>>
  BY <1>1, StillFollows DEF lists, Waiters
<1>2. CASE Deliver /\ Return(c)
  <2>1. Handover
    BY <1>2 DEF Deliver, Handover
  <2>2. \A d \in Waiters : timeout'[d] = timeout[d]
    BY <1>2, MembersAreCrtns DEF Return, Waiters, WaitInv, SchedType
  <2> QED BY <2>1, <2>2, HandoverFollows
<1>3. CASE /\ Again(c, <<"recv">>) /\ recv_crtns' = Append(recv_crtns, c)
           /\ UNCHANGED send_crtns
  <2>1. Waiters \subseteq Waiters'
    BY <1>3, ListedAppended DEF Waiters, WaitInv, ListType
  <2> QED BY <1>3, <2>1, StopFollows DEF Again
<1> QED BY <1>1, <1>2, <1>3 DEF recv_getter

\* The timed out call ends: who leaves the list is not resumed.
LEMMA TimedOutFollows ==
    ASSUME WaitInv, NEW c \in Crtn, RetryTimedOut(c)
    PROVE  Follows
<1>1. UNCHANGED <<state, nr_stopped_crtns>> /\ ~timeout'[c]
  BY DEF RetryTimedOut, Return, WaitInv, SchedType
<1>2. /\ ToSet(send_crtns) \subseteq ToSet(send_crtns') \cup {c}
      /\ ToSet(recv_crtns) \subseteq ToSet(recv_crtns') \cup {c}
  BY UnlinkList, SoundSets DEF RetryTimedOut, WaitInv, ListType
<1>3. \A d \in Waiters : d \in Waiters' \/ ~timeout'[d]
  BY <1>1, <1>2 DEF Waiters
<1> QED BY <1>1, <1>3, StillFollows

LEMMA CtrlFollows ==
    ASSUME WaitInv, NEW n, pcchan_ctrl(n)
    PROVE  Follows
<1>1. CASE UNCHANGED <<lists, sched>>
  BY <1>1, StillFollows DEF lists, sched, Waiters
<1>2. CASE Close
  BY <1>2, CloseFollows
<1> QED BY <1>1, <1>2 DEF pcchan_ctrl, Resize

LEMMA OpenFollows ==
    ASSUME WaitInv, ~mapped, NEW n, pcchan_open(n)
    PROVE  Follows
<1>1. Waiters = {}
  BY UnheldIsEmpty, EmptyList DEF WaitInv, EntitiesHeld, Waiters
<1> QED BY <1>1, StillFollows DEF pcchan_open, sched

LEMMA NextFollows ==
    ASSUME FrameInv, WaitInv, [Next]_vars
    PROVE  Follows
<1>0. ASSUME NEW c \in Crtn, state[c] = "READY", call[c] = Idle \/ ~timeout[c]
      PROVE  c \notin Waiters
  BY <1>0, RunsUnlisted DEF WaitInv, Waiters
<1>1. ASSUME NEW c \in Crtn, NEW v \in Val, Send(c, v)
      PROVE  Follows
  BY <1>0, <1>1, SendFollows DEF Send, CanCall
<1>2. ASSUME NEW c \in Crtn, Recv(c)
      PROVE  Follows
  BY <1>0, <1>2, RecvFollows DEF Recv, CanCall
<1>3. ASSUME NEW c \in Crtn, RetrySend(c)
      PROVE  Follows
  BY <1>0, <1>3, SendFollows DEF RetrySend
<1>4. ASSUME NEW c \in Crtn, RetryRecv(c)
      PROVE  Follows
  BY <1>0, <1>4, RecvFollows DEF RetryRecv
<1>5. ASSUME NEW c \in Crtn, RetryTimedOut(c) \/ Expire(c)
      PROVE  Follows
  BY <1>5, TimedOutFollows, ExpireFollows
<1>6. ASSUME NEW v \in Posted, Post(v)
      PROVE  Follows
  BY <1>6, HandoverFollows DEF Post, Accept, Handover
<1>7. ASSUME NEW c \in Crtn, NEW n \in Caps, chan_setter(c, n) \/ cap_setter(c, n)
      PROVE  Follows
  BY <1>7, CtrlFollows, OpenFollows DEF chan_setter, cap_setter
<1>8. ASSUME NEW c \in Crtn, chan_getter(c) \/ on_release(c)
      PROVE  Follows
  BY <1>8, StillFollows DEF chan_getter, on_release, lists, sched, Waiters
<1>9. CASE (\E e \in events : Dispatch(e)) \/ UNCHANGED vars
  BY <1>9, StillFollows DEF Dispatch, vars, lists, sched, Waiters
<1> QED BY <1>1, <1>2, <1>3, <1>4, <1>5, <1>6, <1>7, <1>8, <1>9 DEF Next, Step, Retry

\* nr_stopped_crtns follows the set of stopped coroutines through every stop,
\* resume, timer, post, resize and close, and is counted down once too often
\* exactly for each coroutine whose timer went off and that the channel
\* resumes again (scheduler.c:1215, pcintr_resume_coroutine), for any number
\* of coroutines and timers.
THEOREM CounterFollowsStops == Spec => MiscountExplained
<1>1. FrameInv /\ WaitInv /\ [Next]_vars => [Follows]_vars
  BY NextFollows
<1>2. Spec => [][Follows]_vars
  BY <1>1, WaitInvariant, PTL DEF Spec
<1> QED BY <1>2 DEF MiscountExplained, Follows

-----------------------------------------------------------------------------
(* Without timers: what a step does to the lists and to the scheduler. *)

\* No stop timer has gone off.
NoTimeouts == \A c \in Crtn : ~ timeout[c]

Emptied == send_crtns' = <<>> /\ recv_crtns' = <<>>

\* No coroutine is stopped or resumed, and no call begins or ends.
Quiet ==
    /\ UNCHANGED <<lists, sched>>
    /\ \/ Emptied
       \/ UNCHANGED <<qsize, qcount>>
       \/ \E n \in Caps : /\ n > 0 /\ qsize' = n /\ qcount' = 0
                          /\ ResizeBuffered \/ qcount = 0

\* A call of c ends; what it finds is a closed channel.
FindsClosed(c) ==
    /\ qsize = 0 /\ Return(c)
    /\ UNCHANGED <<ring, lists, state, nr_stopped_crtns>>

\* Coroutine c runs, in a call for the operation op if it repeats one.
Runs(c, op) == state[c] = "READY" /\ (call[c] = Idle \/ call[c][1] = op)

UntimedStep ==
    \/ Quiet
    \/ Close
    \/ \E v \in Val : Accept(v) /\ UNCHANGED <<call, timeout>>
    \/ \E c \in Crtn, v \in Val : Runs(c, "send") /\ Accept(v) /\ Return(c)
    \/ \E c \in Crtn : Runs(c, "recv") /\ Deliver /\ Return(c)
    \/ \E c \in Crtn : FindsClosed(c)
    \/ \E c \in Crtn, v \in Val :
          /\ Runs(c, "send") /\ Again(c, <<"send", v>>) /\ qcount >= qsize
          /\ send_crtns' = Append(send_crtns, c)
          /\ UNCHANGED <<ring, recv_crtns>>
    \/ \E c \in Crtn :
          /\ Runs(c, "recv") /\ Again(c, <<"recv">>) /\ qcount = 0
          /\ recv_crtns' = Append(recv_crtns, c)
          /\ UNCHANGED <<ring, send_crtns>>

LEMMA SendUntimed ==
    ASSUME NEW c \in Crtn, NEW v \in Val, Runs(c, "send"), send_getter(c, v)
    PROVE  UntimedStep
<1>1. CASE FindsClosed(c)
  BY <1>1 DEF UntimedStep
<1>2. CASE Accept(v) /\ Return(c)
  BY <1>2 DEF UntimedStep
<1>3. CASE /\ Again(c, <<"send", v>>) /\ qcount >= qsize
           /\ send_crtns' = Append(send_crtns, c)
           /\ UNCHANGED <<ring, recv_crtns>>
  BY <1>3 DEF UntimedStep
<1> QED BY <1>1, <1>2, <1>3 DEF send_getter, FindsClosed

LEMMA RecvUntimed ==
    ASSUME NEW c \in Crtn, Runs(c, "recv"), recv_getter(c)
    PROVE  UntimedStep
<1>1. CASE FindsClosed(c)
  BY <1>1 DEF UntimedStep
<1>2. CASE Deliver /\ Return(c)
  BY <1>2 DEF UntimedStep
<1>3. CASE /\ Again(c, <<"recv">>) /\ qcount = 0
           /\ recv_crtns' = Append(recv_crtns, c)
           /\ UNCHANGED <<ring, send_crtns>>
  BY <1>3 DEF UntimedStep
<1> QED BY <1>1, <1>2, <1>3 DEF recv_getter, FindsClosed

LEMMA CtrlUntimed ==
    ASSUME FrameInv, WaitInv', NEW n \in Caps, pcchan_ctrl(n)
    PROVE  Quiet \/ Close
<1>1. CASE Erase /\ UNCHANGED <<lists, sched>>
  BY <1>1 DEF Erase, WaitInv, ClosedIsEmpty, Quiet, Emptied
<1>2. CASE n > qcount /\ (ResizeBuffered \/ qcount = 0) /\ Resize(n)
  <2>1. n > 0
    BY <1>2, ChannelAssumption DEF FrameInv, RingType
  <2> QED BY <1>2, <2>1 DEF Resize, Quiet
<1>3. CASE UNCHANGED <<mapped, ring, lists, sched>>
  BY <1>3 DEF Quiet, ring
<1> QED BY <1>1, <1>2, <1>3 DEF pcchan_ctrl

LEMMA OpenUntimed ==
    ASSUME WaitInv, ~ mapped, NEW n, pcchan_open(n)
    PROVE  Quiet
<1>1. send_crtns = <<>> /\ recv_crtns = <<>>
  BY UnheldIsEmpty DEF WaitInv, EntitiesHeld
<1> QED BY <1>1 DEF pcchan_open, Quiet, Emptied, lists

LEMMA ReleaseUntimed ==
    ASSUME WaitInv', NEW c, on_release(c)
    PROVE  Quiet
<1>1. CASE Erase
  BY <1>1 DEF Erase, on_release, WaitInv, ClosedIsEmpty, Quiet, Emptied
<1>2. CASE UNCHANGED <<mapped, ring>>
  BY <1>2 DEF on_release, Quiet, ring
<1> QED BY <1>1, <1>2 DEF on_release

\* One step per operation; without timers no call is timed out.
LEMMA NextUntimed ==
    ASSUME Timed = {}, FrameInv, WaitInv, WaitInv', NoTimeouts, [Next]_vars
    PROVE  UntimedStep
<1>1. ASSUME NEW c \in Crtn, NEW v \in Val, Send(c, v)
      PROVE  UntimedStep
  BY <1>1, SendUntimed DEF Send, CanCall, Runs
<1>2. ASSUME NEW c \in Crtn, Recv(c)
      PROVE  UntimedStep
  BY <1>2, RecvUntimed DEF Recv, CanCall, Runs
<1>3. ASSUME NEW c \in Crtn, RetrySend(c)
      PROVE  UntimedStep
  <2>1. call[c][2] \in Val
    BY <1>3, SendArgument DEF RetrySend, FrameInv
  <2> QED BY <1>3, <2>1, SendUntimed DEF RetrySend, Runs
<1>4. ASSUME NEW c \in Crtn, RetryRecv(c)
      PROVE  UntimedStep
  BY <1>4, RecvUntimed DEF RetryRecv, Runs
<1>5. ASSUME NEW c \in Crtn, RetryTimedOut(c) \/ Expire(c)
      PROVE  UntimedStep
  BY <1>5 DEF RetryTimedOut, Expire, NoTimeouts
<1>6. ASSUME NEW v \in Posted, Post(v)
      PROVE  UntimedStep
  BY <1>6, ChannelAssumption DEF Post, UntimedStep
<1>7. ASSUME NEW c \in Crtn, NEW n \in Caps, chan_setter(c, n) \/ cap_setter(c, n)
      PROVE  UntimedStep
  BY <1>7, CtrlUntimed, OpenUntimed DEF chan_setter, cap_setter, UntimedStep
<1>8. ASSUME NEW c \in Crtn, chan_getter(c) \/ on_release(c)
      PROVE  UntimedStep
  BY <1>8, ReleaseUntimed DEF chan_getter, UntimedStep, Quiet, ring
<1>9. CASE (\E e \in events : Dispatch(e)) \/ UNCHANGED vars
  BY <1>9 DEF Dispatch, vars, UntimedStep, Quiet, ring
<1> QED BY <1>1, <1>2, <1>3, <1>4, <1>5, <1>6, <1>7, <1>8, <1>9 DEF Next, Step, Retry

LEMMA UntimedNoTimeouts ==
    ASSUME FrameInv, WaitInv, NoTimeouts, UntimedStep
    PROVE  NoTimeouts'
<1>1. timeout \in [Crtn -> BOOLEAN]
  BY DEF WaitInv, SchedType
<1>2. timeout' = timeout \/ \E c \in Crtn : timeout' = [timeout EXCEPT ![c] = FALSE]
  BY DEF UntimedStep, Quiet, sched, Close, Return, Again, FindsClosed
<1> QED BY <1>1, <1>2 DEF NoTimeouts

LEMMA UntimedInvariant ==
    ASSUME Timed = {}
    PROVE  Spec => []NoTimeouts
<1>1. Init => NoTimeouts
  BY DEF Init, NoTimeouts
<1>2. FrameInv /\ WaitInv /\ WaitInv' /\ NoTimeouts /\ [Next]_vars => NoTimeouts'
  BY NextUntimed, UntimedNoTimeouts
<1> QED BY <1>1, <1>2, WaitInvariant, PTL DEF Spec

-----------------------------------------------------------------------------
(* Without timers, and with one capacity: nobody sleeps next to work. *)

\* If somebody waits on the list w, a coroutine of K is on its way to each of
\* the q things there are to take.
Covered(w, q, K) == w # <<>> => q <= Cardinality(K)

\* The first of w comes where K came, and now L.
OneMore(w, K, L) == /\ K \subseteq L
                    /\ w # <<>> => Head(w) \notin K /\ Head(w) \in L

LosesOnly(K, L, c) == K \ {c} \subseteq L

LEMMA CoveredKept ==
    ASSUME NEW w, NEW q \in Int, NEW r \in Int, r <= q,
           NEW K, NEW L, IsFiniteSet(L), K \subseteq L, Covered(w, q, K)
    PROVE  Covered(w, r, L)
<1>1. Cardinality(K) <= Cardinality(L)
  BY FS_Subset
<1>2. Cardinality(K) \in Nat /\ Cardinality(L) \in Nat
  BY FS_Subset, FS_CardinalityType
<1> QED BY <1>1, <1>2 DEF Covered

\* One of the coroutines takes one of the things.
LEMMA CoveredTaken ==
    ASSUME NEW w, NEW q \in Int, NEW r \in Int, r = q - 1, NEW c,
           NEW K, NEW L, IsFiniteSet(K), IsFiniteSet(L), LosesOnly(K, L, c),
           Covered(w, q, K)
    PROVE  Covered(w, r, L)
<1>1. PICK M : M = K \ {c}
  OBVIOUS
<1>2. IsFiniteSet(M) /\ Cardinality(M) >= Cardinality(K) - 1
  <2>1. Cardinality(K) \in Nat
    BY FS_CardinalityType
  <2>2. /\ IsFiniteSet(M)
        /\ Cardinality(M) = IF c \in K THEN Cardinality(K) - 1 ELSE Cardinality(K)
    BY <1>1, FS_RemoveElement
  <2> QED BY <2>1, <2>2
<1>3. Covered(w, r, M)
  BY <1>2, FS_CardinalityType DEF Covered
<1> QED BY <1>1, <1>3, CoveredKept DEF LosesOnly

\* There is one more thing, and a coroutine that slept is on its way to it.
LEMMA CoveredWoken ==
    ASSUME NEW w, NEW v, w = <<>> => v = <<>>,
           NEW q \in Int, NEW r \in Int, r = q + 1, NEW K, NEW L,
           IsFiniteSet(K), IsFiniteSet(L), OneMore(w, K, L), Covered(w, q, K)
    PROVE  Covered(v, r, L)
<1>1. CASE w = <<>>
  BY <1>1 DEF Covered
<1>2. CASE w # <<>>
  <2>1. PICK d, M : d \notin K /\ d \in L /\ M = K \cup {d}
    BY <1>2 DEF OneMore
  <2>2. IsFiniteSet(M) /\ Cardinality(M) = Cardinality(K) + 1
    BY <2>1, FS_AddElement
  <2>3. M \subseteq L
    BY <2>1 DEF OneMore
  <2>4. Cardinality(M) <= Cardinality(L)
    BY <2>3, FS_Subset
  <2>5. Cardinality(K) \in Nat /\ Cardinality(L) \in Nat /\ q <= Cardinality(K)
    BY <1>2, FS_CardinalityType DEF Covered
  <2> QED BY <2>2, <2>4, <2>5 DEF Covered
<1> QED BY <1>1, <1>2

\* The woken coroutines, given the states and the calls.
Coming(op, st, ca) == {c \in Crtn : st[c] = "READY" /\ ca[c][1] = op}

\* NoLostWakeup, without timers.
WakeSound(u, w, n, size, st, ca) ==
    /\ Covered(w, n, Coming("recv", st, ca))
    /\ Covered(u, size - n, Coming("send", st, ca))

WakeInv == WakeSound(send_crtns, recv_crtns, qcount, qsize, state, call)

LEMMA WakeIs ==
    ASSUME NoTimeouts
    PROVE  NoLostWakeup <=> WakeInv
<1>1. Woken("recv") = Coming("recv", state, call) /\ Woken("send") = Coming("send", state, call)
  BY DEF Woken, Coming, NoTimeouts
<1> QED BY <1>1 DEF NoLostWakeup, WakeInv, WakeSound, Covered

\* The coroutines that repeat a call hold entities, so they are finitely many.
LEMMA ComingFinite ==
    ASSUME WaitInv, NEW op \in {"send", "recv"}
    PROVE  IsFiniteSet(Coming(op, state, call))
<1>1. Coming(op, state, call) \in SUBSET bound
  BY IdleIsNoCall DEF Coming, WaitInv, EntitiesHeld
<1> QED BY <1>1, FS_Subset DEF WaitInv, EntitiesHeld

LEMMA ComingFinitePrimed ==
    ASSUME WaitInv', NEW op \in {"send", "recv"}
    PROVE  IsFiniteSet(Coming(op, state', call'))
<1>1. Coming(op, state', call') \in SUBSET bound'
  BY IdleIsNoCall DEF Coming, WaitInv, EntitiesHeld
<1> QED BY <1>1, FS_Subset DEF WaitInv, EntitiesHeld

\* One capacity, which scripts open a channel with and set again.
OneCapacity == \A m, n \in Caps \ {0} : m = n

SizeInv == qsize = 0 \/ qsize \in Caps

\* A call of c for the operation op returns, or none does.
Ended(op, c, st, ca, cb) ==
    \/ cb = ca
    \/ /\ c \in Crtn /\ st[c] = "READY" /\ cb = [ca EXCEPT ![c] = Idle]
       /\ ca[c] = Idle \/ ca[c][1] = op

NoneTimedOut(ti) == \A d \in Crtn : ~ ti[d]

\* The first waiter of a list is resumed while a call for the other operation,
\* or none, returns.
LEMMA WokenComes ==
    ASSUME NEW op \in {"send", "recv"}, NEW other \in {"send", "recv"}, op # other,
           NEW w \in Seq(Crtn), NEW st \in [Crtn -> States],
           NEW ca \in [Crtn -> Calls], NEW ti, NoneTimedOut(ti),
           Waiting(ToSet(w), op, st, ca, ti), NEW c, NEW cb, Ended(other, c, st, ca, cb),
           NEW sb, sb = Awake(st, ToSet(First(w)))
    PROVE  /\ OneMore(w, Coming(op, st, ca), Coming(op, sb, cb))
           /\ LosesOnly(Coming(other, st, ca), Coming(other, sb, cb), c)
<1>1. \A d \in Crtn : /\ st[d] = "READY" => sb[d] = "READY"
                      /\ d \in ToSet(First(w)) => sb[d] = "READY"
  BY DEF Awake
<1>2. \A d \in Crtn : d # c => cb[d] = ca[d]
  BY DEF Ended
<1>3. c \in Crtn => cb[c] = ca[c] \/ ~ (ca[c][1] = op \/ st[c] # "READY")
  BY IdleIsNoCall DEF Ended
<1>4. Coming(op, st, ca) \subseteq Coming(op, sb, cb)
  BY <1>1, <1>2, <1>3 DEF Coming
<1>5. Coming(other, st, ca) \ {c} \subseteq Coming(other, sb, cb)
  BY <1>1, <1>2 DEF Coming
<1>6. ASSUME w # <<>>
      PROVE  Head(w) \notin Coming(op, st, ca) /\ Head(w) \in Coming(op, sb, cb)
  <2>1. PICK d : d = Head(w)
    OBVIOUS
  <2>2. d \in ToSet(w) /\ d \in ToSet(First(w)) /\ d \in Crtn
    BY <1>6, <2>1, FirstAndRest, MemberIndex
  <2>3. ca[d][1] = op /\ st[d] = "STOPPED"
    BY <2>2 DEF Waiting, NoneTimedOut
  <2>4. cb[d] = ca[d] /\ sb[d] = "READY"
    BY <1>1, <1>2, <1>3, <2>2, <2>3
  <2> QED BY <2>1, <2>2, <2>3, <2>4 DEF Coming
<1> QED BY <1>4, <1>5, <1>6 DEF OneMore, LosesOnly

LEMMA AcceptWakes ==
    ASSUME FrameInv, WaitInv, WaitInv', NoTimeouts, WakeInv, NEW v, Accept(v), NEW c,
           \/ call' = call
           \/ c \in Crtn /\ Runs(c, "send") /\ call' = [call EXCEPT ![c] = Idle]
    PROVE  WakeInv'
<1>1. /\ qcount \in Int /\ qsize \in Int /\ qsize' = qsize /\ qcount' = qcount + 1
      /\ Resume(First(recv_crtns)) /\ recv_crtns' = Rest(recv_crtns)
      /\ send_crtns' = send_crtns
  BY ChannelAssumption DEF Accept, Enqueue, FrameInv, RingType
<1>2. /\ state \in [Crtn -> States] /\ call \in [Crtn -> Calls]
      /\ recv_crtns \in Seq(Crtn)
      /\ Waiting(ToSet(recv_crtns), "recv", state, call, timeout)
  BY SoundSets DEF FrameInv, CallType, WaitInv, SchedType, ListType
<1>3. PICK K, L, M, N : /\ K = Coming("recv", state, call) /\ L = Coming("recv", state', call')
                        /\ M = Coming("send", state, call) /\ N = Coming("send", state', call')
  OBVIOUS
<1>4. OneMore(recv_crtns, K, L) /\ LosesOnly(M, N, c)
  <2>1. PICK w, st, ca, ti, sb, cb :
           /\ w = recv_crtns /\ st = state /\ ca = call /\ ti = timeout
           /\ sb = state' /\ cb = call'
    OBVIOUS
  <2>2. /\ w \in Seq(Crtn) /\ st \in [Crtn -> States] /\ ca \in [Crtn -> Calls]
        /\ NoneTimedOut(ti) /\ Waiting(ToSet(w), "recv", st, ca, ti)
    BY <1>2, <2>1 DEF NoTimeouts, NoneTimedOut
  <2>3. Ended("send", c, st, ca, cb)
    BY <2>1 DEF Runs, Ended
  <2>4. sb = Awake(st, ToSet(First(w)))
    BY <1>1, <2>1 DEF Resume, Awake
  <2>5. /\ OneMore(w, Coming("recv", st, ca), Coming("recv", sb, cb))
        /\ LosesOnly(Coming("send", st, ca), Coming("send", sb, cb), c)
    BY <2>2, <2>3, <2>4, WokenComes
  <2> QED BY <1>3, <2>1, <2>5
<1>5. IsFiniteSet(K) /\ IsFiniteSet(L) /\ IsFiniteSet(M) /\ IsFiniteSet(N)
  BY <1>3, ComingFinite, ComingFinitePrimed
<1>6. Covered(recv_crtns, qcount, K) /\ Covered(send_crtns, qsize - qcount, M)
  BY <1>3 DEF WakeInv, WakeSound
<1>7. Covered(recv_crtns', qcount', L)
  <2>1. recv_crtns = <<>> => recv_crtns' = <<>>
    BY <1>1 DEF Rest
  <2> QED BY <1>1, <1>4, <1>5, <1>6, <2>1, CoveredWoken
<1>8. Covered(send_crtns', qsize' - qcount', N)
  <2>1. PICK q \in Int, r \in Int : q = qsize - qcount /\ r = qsize' - qcount' /\ r = q - 1
    BY <1>1
  <2>2. Covered(send_crtns, r, N)
    BY <1>4, <1>5, <1>6, <2>1, CoveredTaken
  <2> QED BY <1>1, <2>1, <2>2
<1> QED BY <1>3, <1>7, <1>8 DEF WakeInv, WakeSound

LEMMA DeliverWakes ==
    ASSUME FrameInv, WaitInv, WaitInv', NoTimeouts, WakeInv, Deliver, NEW c \in Crtn,
           Runs(c, "recv"), call' = [call EXCEPT ![c] = Idle]
    PROVE  WakeInv'
<1>1. /\ qcount \in Int /\ qsize \in Int /\ qsize' = qsize /\ qcount' = qcount - 1
      /\ Resume(First(send_crtns)) /\ send_crtns' = Rest(send_crtns)
      /\ recv_crtns' = recv_crtns
  BY ChannelAssumption DEF Deliver, Dequeue, FrameInv, RingType
<1>2. /\ state \in [Crtn -> States] /\ call \in [Crtn -> Calls]
      /\ send_crtns \in Seq(Crtn)
      /\ Waiting(ToSet(send_crtns), "send", state, call, timeout)
  BY SoundSets DEF FrameInv, CallType, WaitInv, SchedType, ListType
<1>3. PICK K, L, M, N : /\ K = Coming("recv", state, call) /\ L = Coming("recv", state', call')
                        /\ M = Coming("send", state, call) /\ N = Coming("send", state', call')
  OBVIOUS
<1>4. OneMore(send_crtns, M, N) /\ LosesOnly(K, L, c)
  <2>1. PICK w, st, ca, ti, sb, cb :
           /\ w = send_crtns /\ st = state /\ ca = call /\ ti = timeout
           /\ sb = state' /\ cb = call'
    OBVIOUS
  <2>2. /\ w \in Seq(Crtn) /\ st \in [Crtn -> States] /\ ca \in [Crtn -> Calls]
        /\ NoneTimedOut(ti) /\ Waiting(ToSet(w), "send", st, ca, ti)
    BY <1>2, <2>1 DEF NoTimeouts, NoneTimedOut
  <2>3. Ended("recv", c, st, ca, cb)
    BY <2>1 DEF Runs, Ended
  <2>4. sb = Awake(st, ToSet(First(w)))
    BY <1>1, <2>1 DEF Resume, Awake
  <2>5. /\ OneMore(w, Coming("send", st, ca), Coming("send", sb, cb))
        /\ LosesOnly(Coming("recv", st, ca), Coming("recv", sb, cb), c)
    BY <2>2, <2>3, <2>4, WokenComes
  <2> QED BY <1>3, <2>1, <2>5
<1>5. IsFiniteSet(K) /\ IsFiniteSet(L) /\ IsFiniteSet(M) /\ IsFiniteSet(N)
  BY <1>3, ComingFinite, ComingFinitePrimed
<1>6. Covered(recv_crtns, qcount, K) /\ Covered(send_crtns, qsize - qcount, M)
  BY <1>3 DEF WakeInv, WakeSound
<1>7. Covered(send_crtns', qsize' - qcount', N)
  <2>1. send_crtns = <<>> => send_crtns' = <<>>
    BY <1>1 DEF Rest
  <2>2. qsize' - qcount' = (qsize - qcount) + 1
    BY <1>1
  <2>3. qsize - qcount \in Int /\ qsize' - qcount' \in Int
    BY <1>1
  <2> QED BY <1>4, <1>5, <1>6, <2>1, <2>2, <2>3, CoveredWoken
<1>8. Covered(recv_crtns', qcount', L)
  <2>1. PICK q \in Int, r \in Int : q = qcount /\ r = qcount' /\ r = q - 1
    BY <1>1
  <2>2. Covered(recv_crtns, r, L)
    BY <1>4, <1>5, <1>6, <2>1, CoveredTaken
  <2> QED BY <1>1, <2>1, <2>2
<1> QED BY <1>3, <1>7, <1>8 DEF WakeInv, WakeSound

\* A coroutine that can neither send nor receive stops: there is no room, or
\* nothing to receive, and it was not among those that come for the other.
LEMMA AgainWakes ==
    ASSUME FrameInv, WaitInv, WaitInv', WakeInv, NEW c \in Crtn, NEW k, Again(c, k),
           UNCHANGED ring,
           \/ /\ k[1] = "send" /\ Runs(c, "send") /\ qcount >= qsize
              /\ UNCHANGED recv_crtns
           \/ /\ k[1] = "recv" /\ Runs(c, "recv") /\ qcount = 0
              /\ UNCHANGED send_crtns
    PROVE  WakeInv'
<1>1. /\ qcount \in Int /\ qsize \in Int /\ qcount' = qcount /\ qsize' = qsize
      /\ state \in [Crtn -> States] /\ call \in [Crtn -> Calls]
      /\ state' = [state EXCEPT ![c] = "STOPPED"] /\ call' = [call EXCEPT ![c] = k]
  BY ChannelAssumption DEF Again, Stop, ring, FrameInv, RingType, CallType, WaitInv, SchedType
<1>2. PICK K, L, M, N : /\ K = Coming("recv", state, call) /\ L = Coming("recv", state', call')
                        /\ M = Coming("send", state, call) /\ N = Coming("send", state', call')
  OBVIOUS
<1>3. /\ Cardinality(L) \in Nat /\ IsFiniteSet(L)
      /\ Cardinality(N) \in Nat /\ IsFiniteSet(N)
  BY <1>2, ComingFinitePrimed, FS_CardinalityType
<1>4. Covered(recv_crtns, qcount, K) /\ Covered(send_crtns, qsize - qcount, M)
  BY <1>2 DEF WakeInv, WakeSound
<1>5. CASE k[1] = "send" /\ Runs(c, "send") /\ qcount >= qsize /\ UNCHANGED recv_crtns
  <2>1. K \subseteq L
    BY <1>1, <1>2, <1>5, IdleIsNoCall DEF Coming, Runs
  <2>2. Covered(recv_crtns', qcount', L)
    BY <1>1, <1>3, <1>4, <1>5, <2>1, CoveredKept
  <2>3. Covered(send_crtns', qsize' - qcount', N)
    BY <1>1, <1>3, <1>5 DEF Covered
  <2> QED BY <1>2, <2>2, <2>3 DEF WakeInv, WakeSound
<1>6. CASE k[1] = "recv" /\ Runs(c, "recv") /\ qcount = 0 /\ UNCHANGED send_crtns
  <2>1. M \subseteq N
    BY <1>1, <1>2, <1>6, IdleIsNoCall DEF Coming, Runs
  <2>2. Covered(send_crtns', qsize' - qcount', N)
    <3>1. qsize - qcount \in Int
      BY <1>1
    <3>2. Covered(send_crtns, qsize - qcount, N)
      BY <1>3, <1>4, <2>1, <3>1, CoveredKept
    <3> QED BY <1>1, <1>6, <3>2
  <2>3. Covered(recv_crtns', qcount', L)
    BY <1>1, <1>3, <1>6 DEF Covered
  <2> QED BY <1>2, <2>2, <2>3 DEF WakeInv, WakeSound
<1> QED BY <1>5, <1>6

LEMMA EmptiedWakes ==
    ASSUME Emptied
    PROVE  WakeInv'
BY DEF Emptied, WakeInv, WakeSound, Covered

LEMMA QuietWakes ==
    ASSUME ~ ResizeBuffered, OneCapacity, SizeInv, WaitInv, WakeInv, Quiet
    PROVE  WakeInv'
<1>1. /\ send_crtns' = send_crtns /\ recv_crtns' = recv_crtns
      /\ state' = state /\ call' = call
  BY DEF Quiet, lists, sched
<1>2. CASE Emptied
  BY <1>2, EmptiedWakes
<1>3. CASE UNCHANGED <<qsize, qcount>>
  BY <1>1, <1>3 DEF WakeInv
<1>4. CASE \E n \in Caps : /\ n > 0 /\ qsize' = n /\ qcount' = 0
                           /\ ResizeBuffered \/ qcount = 0
  <2>1. PICK n \in Caps \ {0} : qsize' = n /\ qcount' = 0 /\ qcount = 0
    <3>1. \A n \in Caps : n > 0 => n # 0
      OBVIOUS
    <3> QED BY <1>4, <3>1
  <2>2. CASE qsize = 0
    BY <1>1, <2>2, EmptiedWakes DEF WaitInv, ClosedIsEmpty, Emptied
  <2>3. CASE qsize # 0
    <3>1. qsize' = qsize /\ qcount' = qcount
      BY <2>1, <2>3 DEF SizeInv, OneCapacity
    <3> QED BY <1>1, <3>1 DEF WakeInv
  <2> QED BY <2>2, <2>3
<1> QED BY <1>2, <1>3, <1>4 DEF Quiet

LEMMA WakeInvNext ==
    ASSUME ~ ResizeBuffered, OneCapacity, SizeInv, FrameInv, WaitInv, WaitInv',
           NoTimeouts, WakeInv, UntimedStep
    PROVE  WakeInv'
<1>1. CASE Quiet
  BY <1>1, QuietWakes
<1>2. CASE Close \/ \E c \in Crtn : FindsClosed(c)
  <2>1. Emptied
    BY <1>2 DEF Close, FindsClosed, WaitInv, ClosedIsEmpty, Emptied, lists
  <2> QED BY <2>1, EmptiedWakes
<1>3. CASE \E v \in Val : Accept(v) /\ UNCHANGED <<call, timeout>>
  BY <1>3, AcceptWakes
<1>4. CASE \E c \in Crtn, v \in Val : Runs(c, "send") /\ Accept(v) /\ Return(c)
  BY <1>4, AcceptWakes DEF Return
<1>5. CASE \E c \in Crtn : Runs(c, "recv") /\ Deliver /\ Return(c)
  BY <1>5, DeliverWakes DEF Return
<1>6. CASE \E c \in Crtn, v \in Val :
              /\ Runs(c, "send") /\ Again(c, <<"send", v>>) /\ qcount >= qsize
              /\ send_crtns' = Append(send_crtns, c)
              /\ UNCHANGED <<ring, recv_crtns>>
  <2>1. PICK c \in Crtn, v \in Val :
              /\ Runs(c, "send") /\ Again(c, <<"send", v>>) /\ qcount >= qsize
              /\ UNCHANGED ring /\ UNCHANGED recv_crtns
    BY <1>6
  <2>2. <<"send", v>>[1] = "send"
    OBVIOUS
  <2> QED BY <2>1, <2>2, AgainWakes
<1>7. CASE \E c \in Crtn :
              /\ Runs(c, "recv") /\ Again(c, <<"recv">>) /\ qcount = 0
              /\ recv_crtns' = Append(recv_crtns, c)
              /\ UNCHANGED <<ring, send_crtns>>
  <2>1. PICK c \in Crtn :
              /\ Runs(c, "recv") /\ Again(c, <<"recv">>) /\ qcount = 0
              /\ UNCHANGED ring /\ UNCHANGED send_crtns
    BY <1>7
  <2>2. <<"recv">>[1] = "recv"
    OBVIOUS
  <2> QED BY <2>1, <2>2, AgainWakes
<1> QED BY <1>1, <1>2, <1>3, <1>4, <1>5, <1>6, <1>7 DEF UntimedStep

\* A channel is opened and resized with the capacities that scripts ask for.
LEMMA SizeNext ==
    ASSUME SizeInv, [Next]_vars
    PROVE  SizeInv'
<1>1. ASSUME NEW c \in Crtn, NEW v, send_getter(c, v) PROVE qsize' = qsize
  BY <1>1, SendKeepsSize
<1>2. ASSUME NEW c \in Crtn, recv_getter(c) PROVE qsize' = qsize
  BY <1>2, RecvKeepsSize
<1>3. ASSUME NEW c \in Crtn, Retry(c) PROVE qsize' = qsize
  BY <1>1, <1>2, <1>3 DEF Retry, RetrySend, RetryRecv, RetryTimedOut, ring
<1>4. ASSUME NEW n \in Caps, pcchan_ctrl(n) \/ pcchan_open(n) PROVE SizeInv'
  BY <1>4 DEF SizeInv, pcchan_ctrl, pcchan_open, Erase, Close, Resize, ring
<1>5. ASSUME NEW c \in Crtn, Step(c) PROVE SizeInv'
  <2>1. CASE (\E v \in Val : Send(c, v)) \/ Recv(c) \/ Retry(c)
    BY <1>1, <1>2, <1>3, <2>1 DEF Send, Recv, SizeInv
  <2>2. CASE \E n \in Caps : chan_setter(c, n) \/ cap_setter(c, n)
    BY <1>4, <2>2 DEF chan_setter, cap_setter
  <2>3. CASE chan_getter(c) \/ on_release(c)
    BY <2>3 DEF chan_getter, on_release, Erase, ring, SizeInv
  <2> QED BY <1>5, <2>1, <2>2, <2>3 DEF Step
<1>6. CASE \/ \E c \in Crtn : Expire(c)
           \/ \E v \in Posted : Post(v)
           \/ \E e \in events : Dispatch(e)
           \/ UNCHANGED vars
  BY <1>6 DEF Expire, Post, Accept, Enqueue, Dispatch, vars, ring, SizeInv
<1> QED BY <1>5, <1>6 DEF Next

\* send_getter and recv_getter lose no wakeup: with any number of coroutines,
\* posts, closes and reopens, each variant held while receivers sleep, and each
\* free slot while senders sleep, has a resumed coroutine on its way to it.  A
\* timer, or a script that sets another capacity, can break this.
THEOREM NoWakeupIsLost ==
    ASSUME Timed = {}, ~ ResizeBuffered, OneCapacity
    PROVE  Spec => []NoLostWakeup
<1>1. Init => SizeInv /\ WakeInv
  BY DEF Init, SizeInv, WakeInv, WakeSound, Covered
<1>2. SizeInv /\ [Next]_vars => SizeInv'
  BY SizeNext
<1>3. /\ SizeInv /\ FrameInv /\ WaitInv /\ WaitInv' /\ NoTimeouts /\ WakeInv
      /\ [Next]_vars
      => WakeInv'
  BY NextUntimed, WakeInvNext
<1>4. NoTimeouts /\ WakeInv => NoLostWakeup
  BY WakeIs
<1> QED BY <1>1, <1>2, <1>3, <1>4, UntimedInvariant, WaitInvariant, PTL DEF Spec

=============================================================================
