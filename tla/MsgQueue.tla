------------------------------ MODULE MsgQueue ------------------------------
(***************************************************************************)
(* The message queue of a coroutine (instance/msg-queue.c): four lists, a  *)
(* word of flags that says which lists may hold messages, and a counter.   *)
(* A reader looks only at the lists whose flag is set.  Events may be      *)
(* reduced: a posted event that matches a pending one is folded into it.   *)
(*                                                                         *)
(* The queue is a record and every operation of the code is an operator on *)
(* it, so that the modules of the coroutines that own queues can use them; *)
(* the specification at the end applies them in any order.  The functions  *)
(* of the code hold the queue's lock from their first to their last access *)
(* of the queue, so each is one step.                                      *)
(***************************************************************************)
EXTENDS Integers, Sequences, FiniteSets, SequencesExt

CONSTANTS Key,     \* what is_event_match compares: target, event and element
          Datum,   \* what an event's data is made of
          MaxMsgs, \* bound: messages held by the queue at once
          MaxDrift \* bound: events taken out without being counted

ASSUME MsgQueueAssumption == MaxMsgs \in Nat \ {0} /\ MaxDrift \in Nat

Lists     == {"res", "req", "event", "void"}
ReduceOpt == {"KEEP", "OVERLAY", "MERGE", "IGNORE"}

\* A message: the list its type belongs to, and for an event its key, its
\* reduce option and its data (a container of data, so that merging is union).
Msg(t, k, o, d) == [type |-> t, key |-> k, opt |-> o, data |-> d]
Messages ==
    [type : {"event"}, key : Key, opt : ReduceOpt, data : SUBSET Datum]
      \cup [type : Lists \ {"event"}, key : Key, opt : {"KEEP"}, data : {{}}]

Queues == [list : [Lists -> Seq(Messages)], flags : SUBSET Lists, nr : Nat]

EmptyQueue == [list |-> [l \in Lists |-> <<>>], flags |-> {}, nr |-> 0]

\* Variant with a fault: a message put at the head is not counted.
AddUncounted(q, m, tail) ==
    [q EXCEPT !.list[m.type] = IF tail THEN Append(@, m) ELSE <<m>> \o @,
              !.flags = @ \cup {m.type},
              !.nr = IF tail THEN @ + 1 ELSE @]

\* Add message m to its list, at the tail or at the head.
Add(q, m, tail) ==
    [q EXCEPT !.list[m.type] = IF tail THEN Append(@, m) ELSE <<m>> \o @,
              !.flags = @ \cup {m.type},
              !.nr = @ + 1]

\* Variant with a fault: the data are compared too.
MatchData(a, b) == a.key = b.key /\ a.data = b.data

is_event_match(a, b) == a.key = b.key

\* The data of pending event o after event m was folded into it.
Fold(o, m) == CASE m.opt = "OVERLAY" -> m.data
                [] m.opt = "MERGE"   -> o.data \cup m.data
                [] OTHER             -> o.data

\* reduce_event: the first pending event that matches takes m in; an event
\* that matches none is added.
reduce_event(q, m, tail) ==
    LET ev == q.list["event"]
        hits == {i \in 1 .. Len(ev) : is_event_match(ev[i], m)}
        first == CHOOSE i \in hits : \A j \in hits : i <= j
    IN IF hits = {}
       THEN Add(q, m, tail)
       ELSE [q EXCEPT !.list["event"][first].data = Fold(ev[first], m)]

\* pcinst_msg_queue_append and pcinst_msg_queue_prepend.
Put(q, m, tail) ==
    IF m.type = "event" /\ m.opt # "KEEP"
    THEN reduce_event([q EXCEPT !.flags = @ \cup {"event"}], m, tail)
    ELSE Add(q, m, tail)

append(q, m)  == Put(q, m, TRUE)
prepend(q, m) == Put(q, m, FALSE)

\* The order in which pcinst_msg_queue_get_msg looks at the lists.
Order == <<"res", "req", "event", "void">>

\* Variant with a fault: the last class goes first.
LastList(q) ==
    LET has == {i \in 1 .. 4 : Order[i] \in q.flags /\ q.list[Order[i]] # <<>>}
    IN IF has = {} THEN "none"
       ELSE Order[CHOOSE i \in has : \A j \in has : i >= j]

\* The list the next message comes from, or "none": the first one in that
\* order whose flag is set and which is not empty.
NextList(q) ==
    LET has == {i \in 1 .. 4 : Order[i] \in q.flags /\ q.list[Order[i]] # <<>>}
    IN IF has = {} THEN "none"
       ELSE Order[CHOOSE i \in has : \A j \in has : i <= j]

\* Variant with a fault: the flag is cleared while the list holds more.
GetFromClears(q, l) ==
    [q EXCEPT !.list[l] = Tail(@), !.nr = @ - 1, !.flags = @ \ {l}]

\* get_msg on that list.  Whatever list becomes empty, the flag cleared is
\* the one of the responses.
GetFrom(q, l) ==
    [q EXCEPT !.list[l] = Tail(@),
              !.nr = @ - 1,
              !.flags = IF Len(q.list[l]) = 1 THEN @ \ {"res"} ELSE @]

\* pcinst_msg_queue_get_event_by_element takes out an event wherever it is;
\* it does not count it out.
TakeEvent(q, i) == [q EXCEPT !.list["event"] = RemoveAt(@, i)]

\* The messages a queue holds.
Held(q) == Len(q.list["res"]) + Len(q.list["req"])
             + Len(q.list["event"]) + Len(q.list["void"])

-----------------------------------------------------------------------------
VARIABLE mq      \* the queue

TypeOK ==
    /\ mq \in Queues
    /\ \A l \in Lists : \A i \in 1 .. Len(mq.list[l]) : mq.list[l][i].type = l

Init == mq = EmptyQueue

pcinst_msg_queue_append(m) == Held(mq) < MaxMsgs /\ mq' = append(mq, m)

pcinst_msg_queue_prepend(m) == Held(mq) < MaxMsgs /\ mq' = prepend(mq, m)

pcinst_msg_queue_get_msg ==
    LET l == NextList(mq)
    IN l # "none" /\ mq' = GetFrom(mq, l)

pcinst_msg_queue_get_event_by_element(k) ==
    LET ev == mq.list["event"]
    IN \E i \in 1 .. Len(ev) :
          /\ mq.nr - Held(mq) < MaxDrift
          /\ ev[i].key = k /\ \A j \in 1 .. i - 1 : ev[j].key # k
          /\ mq' = TakeEvent(mq, i)

Next == \/ \E m \in Messages : pcinst_msg_queue_append(m)
                               \/ pcinst_msg_queue_prepend(m)
        \/ pcinst_msg_queue_get_msg
        \/ \E k \in Key : pcinst_msg_queue_get_event_by_element(k)

Spec == Init /\ [][Next]_mq

-----------------------------------------------------------------------------
\* A list that holds messages has its flag set, although get_msg clears the
\* flag of the responses whatever list it emptied: no message becomes
\* invisible to pcinst_msg_queue_get_msg.
FlagsCover == \A l \in Lists : mq.list[l] # <<>> => l \in mq.flags

\* The counter never falls below the number of messages held, although
\* get_event_by_element does not count: handle_coroutine_event, which asks the
\* counter whether the coroutine is still busy, never sleeps on a message.
CountCovers == Held(mq) <= mq.nr

\* However events are posted, folded, taken and posted again, at most one
\* pending event of a key was posted with a reduce option: reduction bounds the
\* queue.
ReducedOnce ==
    LET ev == mq.list["event"]
    IN \A i, j \in 1 .. Len(ev) :
          i < j /\ ev[i].key = ev[j].key => "KEEP" \in {ev[i].opt, ev[j].opt}

\* A message is handed out (counted down) only when no message of a higher
\* class is waiting: responses go before requests, requests before events,
\* events before the rest.
Priority ==
    [][mq'.nr < mq.nr =>
          \A i, j \in 1 .. 4 :
             i < j /\ Len(mq'.list[Order[j]]) < Len(mq.list[Order[j]])
                => mq.list[Order[i]] = <<>>]_mq
=============================================================================
