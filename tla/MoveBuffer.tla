----------------------------- MODULE MoveBuffer -----------------------------
(***************************************************************************)
(* The move buffers through which the threads (instances) of a process     *)
(* hand messages to one another (instance/move-buffer.c).                  *)
(*                                                                         *)
(* Two kinds of locks protect them: mb_lock, read-locked by everyone who   *)
(* uses a buffer and write-locked by those who create or destroy one, and  *)
(* the lock of each buffer, write-locked around every change of its list.  *)
(* A message carries an atomic reference count, and its variants live in   *)
(* the heap of one instance or, while it is in a buffer, in the move heap. *)
(*                                                                         *)
(* An action is what a thread does between two accesses to shared memory   *)
(* that another thread can come between.  A writer of mb_lock excludes     *)
(* everybody, so creating and destroying are one step each.  A sender      *)
(* reads nr_msgs before it takes the lock of the buffer: the check and the *)
(* addition are two steps.                                                 *)
(***************************************************************************)
EXTENDS Integers, Sequences, FiniteSets, SequencesExt

CONSTANTS Inst,     \* the instances, a set of numbers: their endpoint atoms
          Msg,      \* bound: the messages that can be allocated at once
          MaxMsgs,  \* max_nr_msgs of every buffer
          MoveHeap, \* the heap of the variants on the move
          None      \* no message, no buffer, no heap

ASSUME MoveBufferAssumption ==
    /\ Inst \subseteq Nat /\ IsFiniteSet(Inst)
    /\ MaxMsgs \in Nat \ {0}
    /\ MoveHeap \notin Inst /\ None \notin Inst \cup Msg \cup {MoveHeap}

VARIABLES
    live,        \* instances whose buffer is in mb_atom2buff_map
    flag,        \* does the buffer have PCINST_MOVE_BUFFER_BROADCAST?
    msgs,        \* the list of each buffer
    nr_msgs,     \* its counter
    refcnt,      \* reference count of each message; 0: not allocated
    heap,        \* where the variants of each message live
    pc,          \* what each thread is doing
    mine,        \* the message the thread is sending or handling, or None
    to           \* the buffer it is at: target of a send, place in a broadcast

buffers == <<live, flag, msgs, nr_msgs>>
vars == <<buffers, refcnt, heap, pc, mine, to>>

PCs == {"idle",      \* in its own code
        "checked",   \* unicast: room was seen; mb_lock is read-locked
        "looping",   \* broadcast: about to look at buffer `to'; read-locked
        "room",      \* broadcast: room was seen in buffer `to'; read-locked
        "unsent",    \* nothing was moved; about to release the message
        "moved",     \* the message was moved; about to release it
        "handling"}  \* has taken a message away and works on it

TypeOK ==
    /\ live \subseteq Inst
    /\ flag \in [Inst -> BOOLEAN]
    /\ msgs \in [Inst -> Seq(Msg)]
    /\ nr_msgs \in [Inst -> Nat]
    /\ refcnt \in [Msg -> Nat]
    /\ heap \in [Msg -> Inst \cup {MoveHeap, None}]
    /\ pc \in [Inst -> PCs]
    /\ mine \in [Inst -> Msg \cup {None}]
    /\ to \in [Inst -> Inst \cup {None}]

Init ==
    /\ live = {}
    /\ flag = [t \in Inst |-> FALSE]
    /\ msgs = [t \in Inst |-> <<>>]
    /\ nr_msgs = [t \in Inst |-> 0]
    /\ refcnt = [m \in Msg |-> 0]
    /\ heap = [m \in Msg |-> None]
    /\ pc = [t \in Inst |-> "idle"]
    /\ mine = [t \in Inst |-> None]
    /\ to = [t \in Inst |-> None]

-----------------------------------------------------------------------------
\* The threads that hold mb_lock for reading.
Readers == {t \in Inst : pc[t] \in {"checked", "looping", "room"}}
\* Variant with a fault: mb_lock is only read-locked.
ReaderLockOnly == TRUE

WriterLock == Readers = {}

Go(t, p, m, b) == /\ pc' = [pc EXCEPT ![t] = p]
                  /\ mine' = [mine EXCEPT ![t] = m]
                  /\ to' = [to EXCEPT ![t] = b]

\* Variant with a fault: one message too many.
RoomOffByOne(b) == nr_msgs[b] <= MaxMsgs

Room(b) == nr_msgs[b] < MaxMsgs

\* list_add_tail and the count, under the lock of the buffer.
AddTo(b, m) == /\ msgs' = [msgs EXCEPT ![b] = Append(@, m)]
               /\ nr_msgs' = [nr_msgs EXCEPT ![b] = @ + 1]
               /\ UNCHANGED <<live, flag>>

\* pcinst_put_message: the last reference frees the message.
Put(m) == /\ refcnt' = [refcnt EXCEPT ![m] = @ - 1]
          /\ heap' = [heap EXCEPT ![m] = IF refcnt[m] = 1 THEN None ELSE @]

-----------------------------------------------------------------------------
purc_inst_create_move_buffer(t, f) ==
    /\ pc[t] = "idle" /\ WriterLock
    /\ t \notin live
    /\ live' = live \cup {t}
    /\ flag' = [flag EXCEPT ![t] = f]
    /\ msgs' = [msgs EXCEPT ![t] = <<>>]
    /\ nr_msgs' = [nr_msgs EXCEPT ![t] = 0]
    /\ UNCHANGED <<refcnt, heap, pc, mine, to>>

\* Variant with a fault: the messages left are freed whoever holds them.
DestroyFrees(t) ==
    /\ pc[t] = "idle" /\ WriterLock
    /\ t \in live
    /\ live' = live \ {t}
    /\ refcnt' = [m \in Msg |-> IF m \in ToSet(msgs[t]) THEN 0 ELSE refcnt[m]]
    /\ heap' = [m \in Msg |-> IF m \in ToSet(msgs[t]) THEN None ELSE heap[m]]
    /\ msgs' = [msgs EXCEPT ![t] = <<>>]
    /\ nr_msgs' = [nr_msgs EXCEPT ![t] = 0]
    /\ UNCHANGED <<flag, pc, mine, to>>

\* Every message left is ground: one reference is dropped, and the message is
\* freed only if that was the last.
purc_inst_destroy_move_buffer(t) ==
    /\ pc[t] = "idle" /\ WriterLock
    /\ t \in live
    /\ live' = live \ {t}
    /\ LET ground == ToSet(msgs[t])
       IN /\ refcnt' = [m \in Msg |->
                           IF m \in ground THEN refcnt[m] - 1 ELSE refcnt[m]]
          /\ heap' = [m \in Msg |->
                         IF m \in ground /\ refcnt[m] = 1 THEN None ELSE heap[m]]
    /\ msgs' = [msgs EXCEPT ![t] = <<>>]
    /\ nr_msgs' = [nr_msgs EXCEPT ![t] = 0]
    /\ UNCHANGED <<flag, pc, mine, to>>

\* pcinst_get_message, then the first half of purc_inst_move_message to one
\* instance: mb_lock is read-locked, the buffer is looked up and its counter
\* is read.  Without a buffer or without room the lock is given back.
SendCheck(t, b, m) ==
    /\ pc[t] = "idle"
    /\ refcnt[m] = 0
    /\ refcnt' = [refcnt EXCEPT ![m] = 1]
    /\ heap' = [heap EXCEPT ![m] = t]
    /\ IF b \in live /\ Room(b)
       THEN Go(t, "checked", m, b)
       ELSE Go(t, "unsent", m, None)
    /\ UNCHANGED buffers

\* Variant with a fault: the variants stay in the sender's heap.
SendAddUnmoved(t) ==
    /\ pc[t] = "checked"
    /\ refcnt' = [refcnt EXCEPT ![mine[t]] = @ + 1]
    /\ AddTo(to[t], mine[t])
    /\ Go(t, "moved", mine[t], None)
    /\ UNCHANGED heap

\* The second half: do_move_message, the addition, the unlock.
SendAdd(t) ==
    /\ pc[t] = "checked"
    /\ refcnt' = [refcnt EXCEPT ![mine[t]] = @ + 1]
    /\ heap' = [heap EXCEPT ![mine[t]] = MoveHeap]
    /\ AddTo(to[t], mine[t])
    /\ Go(t, "moved", mine[t], None)

\* A broadcast walks over the buffers in the order of their atoms.
After(b) == {i \in live : i > b}

BroadcastStart(t, m) ==
    /\ pc[t] = "idle"
    /\ refcnt[m] = 0
    /\ refcnt' = [refcnt EXCEPT ![m] = 1]
    /\ heap' = [heap EXCEPT ![m] = t]
    /\ IF live = {}
       THEN Go(t, "unsent", m, None)
       ELSE Go(t, "looping", m, Min(live))
    /\ UNCHANGED buffers

\* The end of one turn of the loop at buffer b: the next buffer, or the
\* unlock.  p is what the release of the original message will find.
Turn(t, b, p) == IF After(b) = {} THEN Go(t, p, mine[t], None)
                                  ELSE Go(t, "looping", mine[t], Min(After(b)))

\* Flag and counter are read without the lock of the buffer.
BroadcastCheck(t) ==
    /\ pc[t] = "looping"
    /\ IF flag[to[t]] /\ Room(to[t])
       THEN Go(t, "room", mine[t], to[t])
       ELSE Turn(t, to[t], "unsent")
    /\ UNCHANGED <<buffers, refcnt, heap>>

\* The last buffer gets the message itself, the others a clone, whose only
\* reference is the buffer's once it has been moved and released.
BroadcastAdd(t) ==
    LET b == to[t]
    IN /\ pc[t] = "room"
       /\ IF After(b) = {}
          THEN /\ refcnt' = [refcnt EXCEPT ![mine[t]] = @ + 1]
               /\ heap' = [heap EXCEPT ![mine[t]] = MoveHeap]
               /\ AddTo(b, mine[t])
          ELSE \E clone \in Msg :
               /\ refcnt[clone] = 0
               /\ refcnt' = [refcnt EXCEPT ![clone] = 1]
               /\ heap' = [heap EXCEPT ![clone] = MoveHeap]
               /\ AddTo(b, clone)
       /\ Turn(t, b, "moved")

\* The clone cannot be allocated: the loop is left.
BroadcastBreak(t) ==
    /\ pc[t] = "room" /\ After(to[t]) # {}
    /\ \A m \in Msg : refcnt[m] > 0
    /\ Go(t, "unsent", mine[t], None)
    /\ UNCHANGED <<buffers, refcnt, heap>>

\* pcrdr_release_message by the sender (purc_inst_post_event does it whatever
\* the result of the move was).
Release(t) ==
    /\ pc[t] \in {"unsent", "moved"}
    /\ Put(mine[t])
    /\ Go(t, "idle", None, None)
    /\ UNCHANGED buffers

\* purc_inst_take_away_message(0) and do_take_message.
purc_inst_take_away_message(t) ==
    /\ pc[t] = "idle"
    /\ t \in live /\ nr_msgs[t] > 0
    /\ LET m == Head(msgs[t])
       IN /\ heap' = [heap EXCEPT ![m] = t]
          /\ Go(t, "handling", m, None)
    /\ msgs' = [msgs EXCEPT ![t] = Tail(@)]
    /\ nr_msgs' = [nr_msgs EXCEPT ![t] = @ - 1]
    /\ UNCHANGED <<live, flag, refcnt>>

\* The message was dispatched, the receiver drops its reference.
Handled(t) ==
    /\ pc[t] = "handling"
    /\ Put(mine[t])
    /\ Go(t, "idle", None, None)
    /\ UNCHANGED buffers

Next == \E t \in Inst :
    \/ \E f \in BOOLEAN : purc_inst_create_move_buffer(t, f)
    \/ purc_inst_destroy_move_buffer(t)
    \/ \E b \in Inst, m \in Msg : SendCheck(t, b, m)
    \/ SendAdd(t)
    \/ \E m \in Msg : BroadcastStart(t, m)
    \/ BroadcastCheck(t) \/ BroadcastAdd(t) \/ BroadcastBreak(t)
    \/ Release(t)
    \/ purc_inst_take_away_message(t)
    \/ Handled(t)

Spec == Init /\ [][Next]_vars

-----------------------------------------------------------------------------
(* Properties. *)

\* The reference count of a message is the number of threads that work with it
\* plus one if it is in a buffer, and it is in at most one place of one buffer:
\* whatever the order of moves, takes, releases and destructions, no thread or
\* buffer refers to a freed message and no message is leaked.
Holders(m) == {t \in Inst : mine[t] = m}
Holding(m) == {b \in Inst : m \in ToSet(msgs[b])}

RefcntSound ==
    /\ \A m \in Msg : refcnt[m] = Cardinality(Holders(m)) + Cardinality(Holding(m))
    /\ \A m \in Msg : Cardinality(Holding(m)) <= 1
    /\ \A b \in Inst : IsInjective(msgs[b])

\* The variants of a message are in the move heap as long as it is in a buffer,
\* and in the heap of the instance that handles it afterwards, even while the
\* sender still holds its reference.
HeapFollowsMessage ==
    /\ \A b \in Inst : \A m \in ToSet(msgs[b]) : heap[m] = MoveHeap
    /\ \A t \in Inst : pc[t] = "handling" => heap[mine[t]] = t
    /\ \A m \in Msg : refcnt[m] = 0 <=> heap[m] = None

\* The counter of a buffer, read without its lock, is the length of its list
\* between any two steps, and a buffer that is not in the map is empty: nobody
\* destroys a buffer under a sender who has looked it up and adds to it later.
CountExact ==
    \A b \in Inst : /\ nr_msgs[b] = Len(msgs[b])
                    /\ b \notin live => msgs[b] = <<>>

\* Senders that read the counter before one of them adds may overfill a buffer,
\* but by no more than one message for every other thread.
OverflowBounded ==
    \A b \in Inst : nr_msgs[b] <= MaxMsgs - 1 + Cardinality(Inst)

\* "the subsequent call to pcrdr_release_message() in the current thread will
\* do nothing" (purc_inst_move_message): the release by a sender whose message
\* was moved frees nothing.
ReleaseAfterMoveIsNoop ==
    [][\A t \in Inst : pc[t] = "moved" /\ pc'[t] = "idle" =>
          refcnt'[mine[t]] > 0]_vars
=============================================================================
