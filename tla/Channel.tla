------------------------------ MODULE Channel ------------------------------
(***************************************************************************)
(* A named channel of a PurC instance (interpreter/channel.c) together     *)
(* with the part of the scheduler it drives: a send on a full channel, or  *)
(* a receive on an empty one, stops the calling coroutine and puts it on   *)
(* one of the channel's two lists; the opposite operation, the close of    *)
(* the channel, or the coroutine's own timer makes it ready again, and it  *)
(* then repeats the call it was stopped in.                                *)
(*                                                                         *)
(* All coroutines of an instance run on one thread and every getter or     *)
(* setter runs to its end inside one step of the scheduler, so one action  *)
(* is one call.  The module follows one channel name; the structure that   *)
(* is freed and the one that a later open allocates are never alive        *)
(* together, so one set of variables stands for both.                      *)
(***************************************************************************)
EXTENDS Integers, Sequences, FiniteSets, SequencesExt

CONSTANTS Crtn,            \* the coroutines of the instance
          Val,             \* the variants that scripts send
          Posted,          \* the ones that other instances send
          MaxCap,          \* bound: the largest capacity a script asks for
          Caps,            \* the capacities scripts ask for (0 closes)
          Timed,           \* the coroutines whose stop timer may go off
          ResizeBuffered,  \* may scripts set a capacity above the number of
                           \* variants held while some are held?
          SizeMod,         \* bound: size_t counts modulo SizeMod
          None             \* PURC_VARIANT_INVALID: a slot that holds nothing

ASSUME ChannelAssumption ==
    /\ MaxCap \in Nat \ {0}
    /\ Caps \subseteq 0 .. MaxCap
    /\ Posted \subseteq Val
    /\ Timed \subseteq Crtn
    /\ ResizeBuffered \in BOOLEAN
    /\ SizeMod \in Nat \ {0}
    /\ None \notin Val

VARIABLES
    mapped,      \* is the channel in heap->name_chan_map?
    qsize, qcount, sendx, recvx, data, refc,      \* struct pcchan
    send_crtns, recv_crtns,                       \* its two waiting lists
    state,       \* co->state of each coroutine
    call,        \* the call kept in stack->vcm_ctxt to be repeated
    timeout,     \* stack->timeout: the stop timer went off
    nr_stopped_crtns,                             \* heap->nr_stopped_crtns
    bound,       \* the coroutines whose variables hold a channel entity
    events       \* channel events posted and not yet dispatched

ring   == <<qsize, qcount, sendx, recvx, data>>
lists  == <<send_crtns, recv_crtns>>
sched  == <<state, call, timeout, nr_stopped_crtns>>
vars   == <<mapped, ring, refc, lists, sched, bound, events>>

Idle       == <<"none">>
Calls      == {Idle, <<"recv">>} \cup ({"send"} \X Val)
Slots      == 0 .. MaxCap - 1

TypeOK ==
    /\ mapped \in BOOLEAN
    /\ qsize \in 0 .. MaxCap /\ qcount \in 0 .. MaxCap
    /\ sendx \in 0 .. MaxCap /\ recvx \in 0 .. MaxCap
    /\ data \in [Slots -> Val \cup {None}]
    /\ refc \in Nat
    /\ send_crtns \in Seq(Crtn) /\ recv_crtns \in Seq(Crtn)
    /\ state \in [Crtn -> {"READY", "STOPPED"}]
    /\ call \in [Crtn -> Calls]
    /\ timeout \in [Crtn -> BOOLEAN]
    /\ nr_stopped_crtns \in 0 .. SizeMod - 1
    /\ bound \subseteq Crtn
    /\ events \subseteq {"receivable", "sendable"}

Init ==
    /\ mapped = FALSE
    /\ qsize = 0 /\ qcount = 0 /\ sendx = 0 /\ recvx = 0
    /\ data = [i \in Slots |-> None]
    /\ refc = 0
    /\ send_crtns = <<>> /\ recv_crtns = <<>>
    /\ state = [c \in Crtn |-> "READY"]
    /\ call = [c \in Crtn |-> Idle]
    /\ timeout = [c \in Crtn |-> FALSE]
    /\ nr_stopped_crtns = 0
    /\ bound = {}
    /\ events = {}

-----------------------------------------------------------------------------
(* The scheduler's two services. *)

\* pcintr_stop_coroutine: the coroutine leaves the ready list and its stop
\* timer is armed (channel calls always pass &crtn->timeout).
Stop(c) ==
    /\ state' = [state EXCEPT ![c] = "STOPPED"]
    /\ nr_stopped_crtns' = (nr_stopped_crtns + 1) % SizeMod

\* pcintr_resume_coroutine, once for every entry of the sequence w.  The
\* counter goes down whatever state the coroutine was in.
Resume(w) ==
    /\ state' = [c \in Crtn |-> IF c \in ToSet(w) THEN "READY" ELSE state[c]]
    /\ nr_stopped_crtns' = (nr_stopped_crtns - Len(w)) % SizeMod

\* The first waiter of a list, as the sequence of coroutines to resume.
First(w) == IF w = <<>> THEN <<>> ELSE <<Head(w)>>
Rest(w)  == IF w = <<>> THEN <<>> ELSE Tail(w)

\* The list w when coroutine c took itself off it (list_del), if it was on.
Unlink(w, c) ==
    IF c \in ToSet(w)
    THEN RemoveAt(w, CHOOSE i \in 1 .. Len(w) : w[i] = c)
    ELSE w

\* The call of coroutine c returned: nothing is left to repeat.
Return(c) ==
    /\ call' = [call EXCEPT ![c] = Idle]
    /\ timeout' = [timeout EXCEPT ![c] = FALSE]

\* Variant with a fault: only the first stop in a call is counted.
AgainCountsOnce(c, k) ==
    /\ state' = [state EXCEPT ![c] = "STOPPED"]
    /\ nr_stopped_crtns' =
          (nr_stopped_crtns + IF call[c] = Idle THEN 1 ELSE 0) % SizeMod
    /\ call' = [call EXCEPT ![c] = k]
    /\ timeout' = [timeout EXCEPT ![c] = FALSE]

\* The call of coroutine c failed with AGAIN: it is kept, and c is stopped.
Again(c, k) ==
    /\ Stop(c)
    /\ call' = [call EXCEPT ![c] = k]
    /\ timeout' = [timeout EXCEPT ![c] = FALSE]

-----------------------------------------------------------------------------
(* The ring buffer. *)

\* Variant with a fault: the index wraps one slot late.
WrapLate(i) == IF i + 1 > qsize THEN 0 ELSE i + 1

Wrap(i) == IF i + 1 = qsize THEN 0 ELSE i + 1

\* Variant with a fault: the variant is stored at the receive index.
EnqueueAtRecvx(v) ==
    /\ data' = [data EXCEPT ![recvx] = v]
    /\ sendx' = Wrap(sendx)
    /\ qcount' = qcount + 1
    /\ UNCHANGED <<qsize, recvx>>

Enqueue(v) ==
    /\ data' = [data EXCEPT ![sendx] = v]
    /\ sendx' = Wrap(sendx)
    /\ qcount' = qcount + 1
    /\ UNCHANGED <<qsize, recvx>>

\* recv_getter hands over data[recvx] and leaves the slot as it is.
Dequeue ==
    /\ recvx' = Wrap(recvx)
    /\ qcount' = qcount - 1
    /\ UNCHANGED <<qsize, sendx, data>>

\* The slot k places behind the receive index.
SlotAt(k) == IF recvx + k < qsize THEN recvx + k ELSE recvx + k - qsize

\* The variants in the queue, oldest first.
Contents == [k \in 1 .. qcount |-> data[SlotAt(k - 1)]]

-----------------------------------------------------------------------------
(* send_getter and recv_getter. *)

\* Variant with a fault: nobody is resumed.
AcceptSilently(v) ==
    /\ qcount < qsize
    /\ Enqueue(v)
    /\ events' = events \cup {"receivable"}
    /\ UNCHANGED <<lists, state, nr_stopped_crtns>>

\* What a send that found room does besides returning: store the variant,
\* post the event, resume the first coroutine waiting to receive.
Accept(v) ==
    /\ qcount < qsize
    /\ Enqueue(v)
    /\ events' = events \cup {"receivable"}
    /\ Resume(First(recv_crtns))
    /\ recv_crtns' = Rest(recv_crtns)
    /\ UNCHANGED send_crtns

send_getter(c, v) ==
    \/ /\ qsize = 0                                 \* ENTITY_GONE
       /\ Return(c)
       /\ UNCHANGED <<ring, lists, state, nr_stopped_crtns, events>>
    \/ /\ Accept(v)
       /\ Return(c)
    \/ /\ qsize > 0 /\ qcount >= qsize              \* AGAIN
       /\ Again(c, <<"send", v>>)
       /\ send_crtns' = Append(send_crtns, c)
       /\ UNCHANGED <<ring, recv_crtns, events>>

\* Variant with a fault: an empty queue is not noticed.
DeliverUnchecked ==
    /\ Dequeue
    /\ events' = events \cup {"sendable"}
    /\ Resume(First(send_crtns))
    /\ send_crtns' = Rest(send_crtns)
    /\ UNCHANGED recv_crtns

\* What a receive that found a variant does besides returning it.
Deliver ==
    /\ qcount > 0
    /\ Dequeue
    /\ events' = events \cup {"sendable"}
    /\ Resume(First(send_crtns))
    /\ send_crtns' = Rest(send_crtns)
    /\ UNCHANGED recv_crtns

recv_getter(c) ==
    \/ /\ qsize = 0                                 \* ENTITY_GONE
       /\ Return(c)
       /\ UNCHANGED <<ring, lists, state, nr_stopped_crtns, events>>
    \/ /\ qsize > 0
       /\ Deliver
       /\ Return(c)
    \/ /\ qsize > 0 /\ qcount = 0                   \* AGAIN
       /\ Again(c, <<"recv">>)
       /\ recv_crtns' = Append(recv_crtns, c)
       /\ UNCHANGED <<ring, send_crtns, events>>

\* A first call, made while the coroutine's variables hold the entity.
CanCall(c) == state[c] = "READY" /\ call[c] = Idle

Send(c, v) == CanCall(c) /\ c \in bound /\ send_getter(c, v)
           /\ UNCHANGED <<mapped, refc, bound>>

Recv(c) == CanCall(c) /\ c \in bound /\ recv_getter(c)
        /\ UNCHANGED <<mapped, refc, bound>>

\* The call repeated after the coroutine was resumed (PCVRT_CALL_FLAG_AGAIN).
RetrySend(c) ==
    /\ state[c] = "READY" /\ call[c][1] = "send" /\ ~timeout[c]
    /\ send_getter(c, call[c][2])
    /\ UNCHANGED <<mapped, refc, bound>>

RetryRecv(c) ==
    /\ state[c] = "READY" /\ call[c][1] = "recv" /\ ~timeout[c]
    /\ recv_getter(c)
    /\ UNCHANGED <<mapped, refc, bound>>

\* Variant with a fault: the coroutine does not take itself off the list.
RetryTimedOutStaysListed(c) ==
    /\ state[c] = "READY" /\ call[c] # Idle /\ timeout[c]
    /\ Return(c)
    /\ UNCHANGED <<mapped, ring, refc, lists, state, nr_stopped_crtns, bound,
                   events>>

\* The call repeated with PCVRT_CALL_FLAG_TIMEOUT as well: the coroutine
\* takes itself off the list (TIMEOUT), or is not on it any more
\* (INTERNAL_FAILURE); either way the call is over.
RetryTimedOut(c) ==
    /\ state[c] = "READY" /\ call[c] # Idle /\ timeout[c]
    /\ IF call[c][1] = "send"
       THEN send_crtns' = Unlink(send_crtns, c) /\ UNCHANGED recv_crtns
       ELSE recv_crtns' = Unlink(recv_crtns, c) /\ UNCHANGED send_crtns
    /\ Return(c)
    /\ UNCHANGED <<mapped, ring, refc, state, nr_stopped_crtns, bound, events>>

\* Variant with a fault: a receive is not repeated.
RetrySendOnly(c) == RetrySend(c) \/ RetryTimedOut(c)

Retry(c) == RetrySend(c) \/ RetryRecv(c) \/ RetryTimedOut(c)

\* execute_one_step: the stop timer of c is over.  The coroutine is made
\* ready; it stays on the channel's list until it runs.
Expire(c) ==
    /\ c \in Timed /\ state[c] = "STOPPED"
    /\ timeout' = [timeout EXCEPT ![c] = TRUE]
    /\ Resume(<<c>>)
    /\ UNCHANGED <<mapped, ring, refc, lists, call, bound, events>>

\* pcintr_chan_post: a message that another instance addressed to the channel
\* is sent while no coroutine is current.  A message that finds the channel
\* missing, closed or full is dropped, which changes nothing here.
Post(v) ==
    /\ mapped
    /\ Accept(v)
    /\ UNCHANGED <<mapped, refc, call, timeout, bound>>

-----------------------------------------------------------------------------
(* Opening, resizing, closing, and the entities bound to the channel. *)

\* The structure is freed.  The list links of coroutines that would still be
\* on its lists are left as they are.
Erase ==
    /\ mapped' = FALSE
    /\ qsize' = 0 /\ qcount' = 0 /\ sendx' = 0 /\ recvx' = 0
    /\ data' = [i \in Slots |-> None]

\* Variant with a fault: only the senders are resumed.
CloseSenders ==
    /\ qsize' = 0 /\ qcount' = 0 /\ sendx' = 0 /\ recvx' = 0
    /\ data' = [i \in Slots |-> None]
    /\ Resume(send_crtns)
    /\ send_crtns' = <<>>
    /\ UNCHANGED <<mapped, recv_crtns, call, timeout>>

\* discard_data and the reset of the fields.
Close ==
    /\ qsize' = 0 /\ qcount' = 0 /\ sendx' = 0 /\ recvx' = 0
    /\ data' = [i \in Slots |-> None]
    /\ Resume(send_crtns \o recv_crtns)
    /\ send_crtns' = <<>> /\ recv_crtns' = <<>>
    /\ UNCHANGED <<mapped, call, timeout>>

\* The copy loop of pcchan_ctrl counts qcount down to 0 and nothing sets it
\* to the number of variants copied.
Resize(n) ==
    /\ data' = [i \in Slots |-> IF i < qcount THEN data[SlotAt(i)] ELSE None]
    /\ qsize' = n
    /\ recvx' = 0
    /\ sendx' = qcount
    /\ qcount' = 0
    /\ UNCHANGED <<mapped, lists, sched>>

pcchan_ctrl(n) ==
    /\ UNCHANGED <<bound, refc, events>>
    /\ \/ /\ n = 0 /\ refc = 0
          /\ Erase
          /\ UNCHANGED <<lists, sched>>
       \/ n = 0 /\ refc > 0 /\ Close
       \/ /\ n > qcount
          /\ ResizeBuffered \/ qcount = 0
          /\ Resize(n)
       \/ /\ 0 < n /\ n <= qcount
          /\ UNCHANGED <<mapped, ring, lists, sched>>

pcchan_open(n) ==
    /\ n > 0
    /\ mapped' = TRUE
    /\ qsize' = n /\ qcount' = 0 /\ sendx' = 0 /\ recvx' = 0
    /\ data' = [i \in Slots |-> None]
    /\ refc' = 0
    /\ send_crtns' = <<>> /\ recv_crtns' = <<>>
    /\ UNCHANGED <<sched, bound, events>>

\* $RUNNER.chan(! name, n ), by any coroutine.
chan_setter(c, n) ==
    /\ CanCall(c)
    /\ \/ mapped /\ pcchan_ctrl(n)
       \/ ~mapped /\ pcchan_open(n)

\* $chan.cap(! n ), by a coroutine that holds the entity.
cap_setter(c, n) ==
    /\ CanCall(c) /\ c \in bound
    /\ qsize > 0
    /\ pcchan_ctrl(n)

\* $RUNNER.chan( name ), kept in a variable of the coroutine.
chan_getter(c) ==
    /\ CanCall(c) /\ c \notin bound
    /\ mapped /\ qsize > 0
    /\ bound' = bound \cup {c}
    /\ refc' = refc + 1
    /\ UNCHANGED <<mapped, ring, lists, sched, events>>

\* The variable that holds the entity is released (on_release).  A call under
\* way keeps the entity alive, so only an idle coroutine gets here.
on_release(c) ==
    /\ CanCall(c) /\ c \in bound
    /\ bound' = bound \ {c}
    /\ refc' = refc - 1
    /\ IF qsize = 0 /\ refc' = 0
       THEN Erase
       ELSE UNCHANGED <<mapped, ring>>
    /\ UNCHANGED <<lists, sched, events>>

\* handle_coroutine_event takes a pending channel event out of the queue and
\* hands it to the observers.
Dispatch(e) ==
    /\ e \in events
    /\ events' = events \ {e}
    /\ UNCHANGED <<mapped, ring, refc, lists, sched, bound>>

Step(c) ==
    \/ \E v \in Val : Send(c, v)
    \/ Recv(c)
    \/ Retry(c)
    \/ \E n \in Caps : chan_setter(c, n) \/ cap_setter(c, n)
    \/ chan_getter(c)
    \/ on_release(c)

Next == \/ \E c \in Crtn : Step(c) \/ Expire(c)
        \/ \E v \in Posted : Post(v)
        \/ \E e \in events : Dispatch(e)

Spec == Init /\ [][Next]_vars

\* A pass of the scheduler gives every ready coroutine a step; what an idle
\* coroutine does is its script's choice, and nothing is assumed of timers.
Fairness == \A c \in Crtn : WF_vars(Retry(c))

FairSpec == Spec /\ Fairness

-----------------------------------------------------------------------------
(* Properties. *)

\* The indices and the counter of the ring agree: the next free slot is
\* qcount places behind the receive index, and every slot between the two
\* holds a variant (discard_data asserts it), whatever sequence of sends,
\* receives, closes, reopens and resizes came before.
RingCoherent ==
    /\ qcount <= qsize
    /\ IF qsize = 0
       THEN sendx = 0 /\ recvx = 0
       ELSE sendx < qsize /\ recvx < qsize /\ sendx = SlotAt(qcount)
    /\ \A k \in Slots : k < qcount => data[SlotAt(k)] \in Val

\* A coroutine on a list of the channel is there once, for the call it will
\* repeat, and is stopped or has just been timed out; a stopped coroutine is
\* always on the list of its call, so that the opposite operation can find
\* it: pcintr_stop_coroutine and list_add_tail never get apart.
Listed(w, op) ==
    /\ IsInjective(w)
    /\ \A c \in ToSet(w) :
          /\ call[c][1] = op
          /\ state[c] = "STOPPED" \/ timeout[c]
    /\ \A c \in Crtn :
          state[c] = "STOPPED" /\ call[c][1] = op => c \in ToSet(w)

WaitListsSound == Listed(send_crtns, "send") /\ Listed(recv_crtns, "recv")

\* Closing (discard_data) or freeing the channel leaves no coroutine on its
\* lists, and a channel is freed only when no entity refers to it any more:
\* no later list operation, getter or release can touch freed memory.
NoDanglingChannel ==
    /\ qsize = 0 => send_crtns = <<>> /\ recv_crtns = <<>>
    /\ ~mapped => bound = {} /\ qsize = 0
    /\ refc = Cardinality(bound)

\* Coroutines that were resumed by the channel and have not repeated their
\* call yet.
Woken(op) == {c \in Crtn : state[c] = "READY" /\ call[c][1] = op /\ ~timeout[c]}

\* While coroutines wait to receive, every variant in the queue has a
\* resumed receiver on its way to it, and while coroutines wait to send,
\* every free slot has a resumed sender: nobody sleeps next to work it could
\* do ("if there is any coroutine waiting to receive, resume the first one",
\* send_getter; the same for senders in recv_getter).
NoLostWakeup ==
    /\ recv_crtns # <<>> => qcount <= Cardinality(Woken("recv"))
    /\ send_crtns # <<>> => qsize - qcount <= Cardinality(Woken("send"))

Waiters == ToSet(send_crtns) \cup ToSet(recv_crtns)

Stopped == {c \in Crtn : state[c] = "STOPPED"}

\* The coroutines that run already, because their timers went off, and that
\* the channel takes off its lists to resume them again in this step.
ResumedAgain ==
    {c \in Crtn : /\ state[c] = "READY" /\ timeout'[c]
                  /\ c \in Waiters /\ c \notin Waiters'}

\* nr_stopped_crtns, the size of the array in which execute_one_step collects
\* the coroutines whose timers are over, moves with the set of stopped
\* coroutines, whatever stops and resumes them, except that a coroutine whose
\* timer went off and that the channel resumes again before it ran is counted
\* down twice: nothing else makes the counter of pcintr_stop_coroutine and
\* pcintr_resume_coroutine drift.
MiscountExplained ==
    [][nr_stopped_crtns' =
          (nr_stopped_crtns + Cardinality(Stopped') - Cardinality(Stopped)
             - Cardinality(ResumedAgain)) % SizeMod]_vars

\* Waiting receivers and buffered variants do not coexist for ever, nor do
\* waiting senders and free slots (without timers): the resumed coroutine
\* repeats its call and takes what it was resumed for.
WaitersDrain ==
    /\ (recv_crtns # <<>> /\ qcount > 0) ~> (recv_crtns = <<>> \/ qcount = 0)
    /\ (send_crtns # <<>> /\ qcount < qsize)
          ~> (send_crtns = <<>> \/ qcount = qsize)

\* The ring buffer, the lists and the scheduler together implement the bounded
\* FIFO: every send, receive, close and resize of the code is one step of the
\* abstract channel, and nothing else changes what it holds.
Fifo == INSTANCE ChannelFIFO WITH fifo <- Contents, cap <- qsize

ImplementsFifo == Fifo!FifoSpec
=============================================================================
