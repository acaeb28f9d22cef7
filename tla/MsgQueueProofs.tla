--------------------------- MODULE MsgQueueProofs ---------------------------
(***************************************************************************)
(* Proofs about the message queue of a coroutine, for any keys, data and   *)
(* bounds: no message becomes invisible to a reader, the counter covers    *)
(* the messages held, reduction keeps one event of a key, and a message is *)
(* handed out only when none of a higher class waits.                      *)
(*                                                                         *)
(* The operators of MsgQueue take a queue to a queue, so the argument is   *)
(* about queues: Sound is what every operation preserves.  Its parts need  *)
(* each other.  GetFrom clears the flag of the responses whatever list it  *)
(* emptied, which is harmless only because the flags covered the lists     *)
(* before: the queue then knew that there was no response.  The counter    *)
(* stays a natural number only because it covers the messages held.        *)
(***************************************************************************)
EXTENDS MsgQueue, ListLemmas

Typed(q) ==
    /\ q \in Queues
    /\ \A l \in Lists : \A i \in 1 .. Len(q.list[l]) : q.list[l][i].type = l

Covered(q) == \A l \in Lists : q.list[l] # <<>> => l \in q.flags

Counted(q) == Held(q) <= q.nr

OneReduced(ev) ==
    \A i, j \in 1 .. Len(ev) :
       i < j /\ ev[i].key = ev[j].key => "KEEP" \in {ev[i].opt, ev[j].opt}

Sound(q) == Typed(q) /\ Covered(q) /\ Counted(q) /\ OneReduced(q.list["event"])

-----------------------------------------------------------------------------
(* Every operation replaces one list of the queue. *)

Becomes(q, r, l, w) == r \in Queues /\ r.list = [q.list EXCEPT ![l] = w]

\* What is known of a queue and of a message.
LEMMA OfQueue ==
    ASSUME NEW q, Typed(q)
    PROVE  /\ q \in Queues
           /\ q.list \in [Lists -> Seq(Messages)]
           /\ q.flags \in SUBSET Lists /\ q.nr \in Nat
           /\ \A l \in Lists : q.list[l] \in Seq(Messages) /\ Len(q.list[l]) \in Nat
           /\ Held(q) \in Nat
<1>1. /\ q \in Queues
      /\ q.list \in [Lists -> Seq(Messages)]
      /\ q.flags \in SUBSET Lists /\ q.nr \in Nat
  BY DEF Typed, Queues
<1>2. \A l \in Lists : q.list[l] \in Seq(Messages) /\ Len(q.list[l]) \in Nat
  BY <1>1
<1>3. /\ Len(q.list["res"]) \in Nat /\ Len(q.list["req"]) \in Nat
      /\ Len(q.list["event"]) \in Nat /\ Len(q.list["void"]) \in Nat
  BY <1>2 DEF Lists
<1>4. \A a, b, c, d \in Nat : a + b + c + d \in Nat
  OBVIOUS
<1>5. Held(q) \in Nat
  BY ONLY <1>3, <1>4, Zenon DEF Held
<1> QED BY <1>1, <1>2, <1>5

LEMMA OfMessage ==
    ASSUME NEW m \in Messages
    PROVE  m.type \in Lists /\ (m.type # "event" => m.opt = "KEEP")
BY DEF Messages, Lists

\* A list is a part of what is held.
LEMMA ListHeld ==
    ASSUME NEW q, Typed(q), NEW l \in Lists
    PROVE  Len(q.list[l]) <= Held(q)
<1> DEFINE a == Len(q.list["res"])
           b == Len(q.list["req"])
           c == Len(q.list["event"])
           d == Len(q.list["void"])
           x == Len(q.list[l])
<1>1. a \in Nat /\ b \in Nat /\ c \in Nat /\ d \in Nat
  BY OfQueue DEF Lists
<1>2. Held(q) = a + b + c + d
  BY Zenon DEF Held
<1>3. x = a \/ x = b \/ x = c \/ x = d
  BY DEF Lists
<1> HIDE DEF a, b, c, d, x
<1>4. x <= Held(q)
  BY <1>1, <1>2, <1>3
<1> QED BY <1>4 DEF x

LEMMA BecomesList ==
    ASSUME NEW q, Typed(q), NEW l \in Lists, NEW w \in Seq(Messages),
           \A i \in 1 .. Len(w) : w[i].type = l,
           NEW r, Becomes(q, r, l, w)
    PROVE  /\ Typed(r)
           /\ r.list[l] = w
           /\ \A k \in Lists \ {l} : r.list[k] = q.list[k]
           /\ Held(r) = Held(q) - Len(q.list[l]) + Len(w)
<1>1. r \in Queues /\ r.list = [q.list EXCEPT ![l] = w]
  BY DEF Becomes
<1>2. r.list[l] = w /\ \A k \in Lists \ {l} : r.list[k] = q.list[k]
  BY <1>1, OfQueue
<1>3. Typed(r)
  BY <1>1, <1>2 DEF Typed
<1>4. Len(w) \in Nat /\ \A k \in Lists : Len(q.list[k]) \in Nat
  BY OfQueue
<1>5. /\ Len(q.list["res"]) \in Nat /\ Len(q.list["req"]) \in Nat
      /\ Len(q.list["event"]) \in Nat /\ Len(q.list["void"]) \in Nat
  BY <1>4 DEF Lists
<1> DEFINE a == Len(q.list["res"])
           e == Len(r.list["res"])
           b == Len(q.list["req"])
           f == Len(r.list["req"])
           c == Len(q.list["event"])
           g == Len(r.list["event"])
           d == Len(q.list["void"])
           h == Len(r.list["void"])
           x == Len(q.list[l])
           y == Len(w)
<1>6. Held(q) = a + b + c + d /\ Held(r) = e + f + g + h
  BY Zenon DEF Held
<1>7. a \in Nat /\ b \in Nat /\ c \in Nat /\ d \in Nat /\ y \in Nat
  BY <1>4, <1>5
<1>8. \/ x = a /\ e = y /\ f = b /\ g = c /\ h = d
      \/ x = b /\ e = a /\ f = y /\ g = c /\ h = d
      \/ x = c /\ e = a /\ f = b /\ g = y /\ h = d
      \/ x = d /\ e = a /\ f = b /\ g = c /\ h = y
  <2>1. CASE l = "res"
    BY <1>2, <2>1 DEF Lists
  <2>2. CASE l = "req"
    BY <1>2, <2>2 DEF Lists
  <2>3. CASE l = "event"
    BY <1>2, <2>3 DEF Lists
  <2>4. CASE l = "void"
    BY <1>2, <2>4 DEF Lists
  <2> QED BY <2>1, <2>2, <2>3, <2>4 DEF Lists
<1> HIDE DEF a, b, c, d, e, f, g, h, x, y
<1>9. Held(r) = Held(q) - x + y
  BY <1>6, <1>7, <1>8
<1> QED BY <1>2, <1>3, <1>9 DEF x, y

-----------------------------------------------------------------------------
(* A message is added. *)

Added(v, m, tail) == IF tail THEN Append(v, m) ELSE <<m>> \o v

LEMMA AddedList ==
    ASSUME NEW v \in Seq(Messages), NEW m \in Messages, NEW tail \in BOOLEAN,
           \A i \in 1 .. Len(v) : v[i].type = m.type
    PROVE  /\ Added(v, m, tail) \in Seq(Messages)
           /\ Len(Added(v, m, tail)) = Len(v) + 1
           /\ \A i \in 1 .. Len(v) + 1 : Added(v, m, tail)[i].type = m.type
           /\ /\ OneReduced(v)
              /\ m.opt # "KEEP" => \A i \in 1 .. Len(v) : v[i].key # m.key
              => OneReduced(Added(v, m, tail))
<1> DEFINE w == Added(v, m, tail)
<1>0. Len(v) \in Nat
  OBVIOUS
<1>1. CASE tail
  <2>1. /\ w \in Seq(Messages) /\ Len(w) = Len(v) + 1
        /\ \A i \in 1 .. Len(v) : w[i] = v[i]
        /\ w[Len(v) + 1] = m
    BY <1>1, AppendProperties DEF Added
  <2> HIDE DEF w
  <2>2. \A i \in 1 .. Len(v) + 1 : i \in 1 .. Len(v) \/ i = Len(v) + 1
    BY <1>0
  <2>3. ASSUME OneReduced(v),
               m.opt # "KEEP" => \A i \in 1 .. Len(v) : v[i].key # m.key
        PROVE  OneReduced(w)
    BY <1>0, <2>1, <2>2, <2>3 DEF OneReduced
  <2> QED BY <2>1, <2>2, <2>3 DEF w
<1>2. CASE ~tail
  <2>1. /\ w \in Seq(Messages) /\ Len(w) = Len(v) + 1
        /\ w[1] = m
        /\ \A i \in 1 .. Len(v) : w[i + 1] = v[i]
    BY <1>2, PrependList DEF Added
  <2> HIDE DEF w
  <2>2. \A i \in 1 .. Len(v) + 1 :
           i = 1 \/ (i - 1 \in 1 .. Len(v) /\ w[i] = v[i - 1])
    <3>1. \A i \in 1 .. Len(v) + 1 :
             i = 1 \/ (i - 1 \in 1 .. Len(v) /\ (i - 1) + 1 = i)
      BY <1>0
    <3> QED BY <2>1, <3>1
  <2>3. ASSUME OneReduced(v),
               m.opt # "KEEP" => \A i \in 1 .. Len(v) : v[i].key # m.key
        PROVE  OneReduced(w)
    <3>1. ASSUME NEW i \in 1 .. Len(w), NEW j \in 1 .. Len(w), i < j,
                 w[i].key = w[j].key
          PROVE  "KEEP" \in {w[i].opt, w[j].opt}
      <4>1. j - 1 \in 1 .. Len(v) /\ w[j] = v[j - 1]
        BY <1>0, <2>1, <2>2, <3>1
      <4>2. CASE i = 1
        BY <2>1, <2>3, <3>1, <4>1, <4>2
      <4>3. CASE i # 1
        <5>1. i - 1 \in 1 .. Len(v) /\ w[i] = v[i - 1] /\ i - 1 < j - 1
          BY <1>0, <2>1, <2>2, <3>1, <4>3
        <5> QED BY <2>3, <3>1, <4>1, <5>1 DEF OneReduced
      <4> QED BY <4>2, <4>3
    <3> QED BY <3>1 DEF OneReduced
  <2> QED BY <2>1, <2>2, <2>3 DEF w
<1> QED BY <1>1, <1>2

LEMMA AddBecomes ==
    ASSUME NEW q, Typed(q), NEW m \in Messages, NEW tail \in BOOLEAN,
           Added(q.list[m.type], m, tail) \in Seq(Messages)
    PROVE  /\ Becomes(q, Add(q, m, tail), m.type, Added(q.list[m.type], m, tail))
           /\ Add(q, m, tail).flags = q.flags \cup {m.type}
           /\ Add(q, m, tail).nr = q.nr + 1
<1> DEFINE w == Added(q.list[m.type], m, tail)
<1>1. Add(q, m, tail) = [q EXCEPT !.list[m.type] = w,
                                  !.flags = q.flags \cup {m.type},
                                  !.nr = q.nr + 1]
  BY DEF Add, Added
<1>2. m.type \in Lists /\ w \in Seq(Messages)
  BY OfMessage
<1> HIDE DEF w
<1>3. q \in Queues /\ q.flags \cup {m.type} \in SUBSET Lists /\ q.nr + 1 \in Nat
  BY <1>2, OfQueue
<1> DEFINE F == q.flags \cup {m.type}
           n == q.nr + 1
           l == m.type
<1>4. F \in SUBSET Lists /\ n \in Nat /\ l \in Lists
  BY <1>2, <1>3
<1>5. Add(q, m, tail) = [q EXCEPT !.list[l] = w, !.flags = F, !.nr = n]
  BY <1>1
<1> HIDE DEF F, n, l
<1>6. /\ Becomes(q, Add(q, m, tail), l, w)
      /\ Add(q, m, tail).flags = F /\ Add(q, m, tail).nr = n
  BY <1>2, <1>3, <1>4, <1>5 DEF Queues, Becomes
<1> QED BY <1>6 DEF F, n, l, w

LEMMA AddSound ==
    ASSUME NEW q, Sound(q), NEW m \in Messages, NEW tail \in BOOLEAN,
           m.opt # "KEEP" =>
              \A i \in 1 .. Len(q.list["event"]) : q.list["event"][i].key # m.key
    PROVE  Sound(Add(q, m, tail)) /\ Add(q, m, tail).nr = q.nr + 1
<1> DEFINE r == Add(q, m, tail)
           l == m.type
           v == q.list[l]
           w == Added(v, m, tail)
<1>1. Typed(q) /\ l \in Lists /\ v \in Seq(Messages) /\ Len(v) \in Nat
  BY OfMessage, OfQueue DEF Sound
<1>2. \A i \in 1 .. Len(v) : v[i].type = l
  BY <1>1 DEF Typed
<1>3. m.opt # "KEEP" => l = "event"
  BY OfMessage
<1> HIDE DEF v
<1>4. /\ w \in Seq(Messages) /\ Len(w) = Len(v) + 1
      /\ \A i \in 1 .. Len(w) : w[i].type = l
  BY <1>1, <1>2, AddedList
<1>5. l = "event" => OneReduced(w)
  <2> SUFFICES ASSUME l = "event" PROVE OneReduced(w)
    OBVIOUS
  <2>1. OneReduced(v)
    BY DEF Sound, v
  <2>2. m.opt # "KEEP" => \A i \in 1 .. Len(v) : v[i].key # m.key
    BY DEF v
  <2> QED BY <1>1, <1>2, <2>1, <2>2, AddedList
<1>6. /\ Becomes(q, r, l, w)
      /\ r.flags = q.flags \cup {l} /\ r.nr = q.nr + 1
  BY <1>1, <1>4, AddBecomes DEF v
<1> HIDE DEF r, l, w
<1>7. /\ Typed(r) /\ r.list[l] = w
      /\ \A k \in Lists \ {l} : r.list[k] = q.list[k]
      /\ Held(r) = Held(q) - Len(v) + Len(w)
  BY <1>1, <1>4, <1>6, BecomesList DEF v
<1>8. Covered(r)
  BY <1>6, <1>7 DEF Covered, Sound
<1>9. Counted(r)
  BY <1>1, <1>4, <1>6, <1>7, OfQueue DEF Counted, Sound
<1>10. OneReduced(r.list["event"])
  <2>1. CASE l = "event"
    BY <1>5, <1>7, <2>1
  <2>2. CASE l # "event"
    BY <1>7, <2>2 DEF Sound, Lists
  <2> QED BY <2>1, <2>2
<1> QED BY <1>6, <1>7, <1>8, <1>9, <1>10 DEF Sound, r

-----------------------------------------------------------------------------
(* A message is folded into a pending one: neither its key nor its reduce  *)
(* option changes.                                                         *)

Refold(q, k, d) == [q EXCEPT !.list["event"][k].data = d]

LEMMA EventWithData ==
    ASSUME NEW e \in Messages, e.type = "event", NEW d \in SUBSET Datum
    PROVE  /\ [e EXCEPT !.data = d] \in Messages
           /\ [e EXCEPT !.data = d].type = "event"
           /\ [e EXCEPT !.data = d].key = e.key
           /\ [e EXCEPT !.data = d].opt = e.opt
<1>1. e \in [type : {"event"}, key : Key, opt : ReduceOpt, data : SUBSET Datum]
  BY DEF Messages, Lists
<1>2. [e EXCEPT !.data = d]
        \in [type : {"event"}, key : Key, opt : ReduceOpt, data : SUBSET Datum]
  BY <1>1
<1>3. /\ [e EXCEPT !.data = d].type = "event"
      /\ [e EXCEPT !.data = d].key = e.key
      /\ [e EXCEPT !.data = d].opt = e.opt
  BY <1>1
<1> QED BY <1>2, <1>3 DEF Messages

LEMMA FoldData ==
    ASSUME NEW e \in Messages, NEW m \in Messages
    PROVE  Fold(e, m) \in SUBSET Datum
<1>1. e.data \in SUBSET Datum /\ m.data \in SUBSET Datum
  BY DEF Messages
<1> QED BY <1>1 DEF Fold

LEMMA RefoldSound ==
    ASSUME NEW q, Sound(q), NEW k \in 1 .. Len(q.list["event"]),
           NEW d \in SUBSET Datum
    PROVE  Sound(Refold(q, k, d)) /\ Refold(q, k, d).nr = q.nr
<1> DEFINE l == "event"
           v == q.list[l]
           e == [v[k] EXCEPT !.data = d]
           w == [v EXCEPT ![k] = e]
           r == Refold(q, k, d)
<1>1. /\ Typed(q) /\ q \in Queues /\ q.flags \in SUBSET Lists /\ q.nr \in Nat
      /\ l \in Lists /\ v \in Seq(Messages) /\ Len(v) \in Nat
      /\ k \in 1 .. Len(v)
  BY OfQueue DEF Sound, Lists
<1>2. \A i \in 1 .. Len(v) : v[i] \in Messages /\ v[i].type = l
  BY <1>1 DEF Typed
<1>3. /\ e \in Messages /\ e.type = l
      /\ e.key = v[k].key /\ e.opt = v[k].opt
  BY <1>1, <1>2, EventWithData
<1>4. OneReduced(v)
  BY DEF Sound
<1>5. r = [q EXCEPT !.list[l] = w]
  BY DEF Refold
<1> HIDE DEF e, v
<1>6. /\ w \in Seq(Messages) /\ Len(w) = Len(v)
      /\ \A j \in 1 .. Len(v) : w[j] = IF j = k THEN e ELSE v[j]
  BY <1>1, <1>3, ExceptSeq
<1> HIDE DEF w
<1>7. OneReduced(w)
  BY <1>3, <1>4, <1>6 DEF OneReduced
<1>8. \A i \in 1 .. Len(w) : w[i].type = l
  BY <1>2, <1>3, <1>6
<1> HIDE DEF r, l
<1>9. Becomes(q, r, l, w) /\ r.flags = q.flags /\ r.nr = q.nr
  BY <1>1, <1>5, <1>6 DEF Queues, Becomes
<1>10. /\ Typed(r) /\ r.list[l] = w
       /\ \A n \in Lists \ {l} : r.list[n] = q.list[n]
       /\ Held(r) = Held(q) - Len(v) + Len(w)
  BY <1>1, <1>6, <1>8, <1>9, BecomesList DEF v
<1>11. Counted(r)
  <2>1. Held(q) \in Nat /\ Held(q) <= q.nr
    BY <1>1, OfQueue DEF Sound, Counted
  <2> QED BY <1>1, <1>6, <1>9, <1>10, <2>1 DEF Counted
<1>12. v # <<>>
  BY <1>1, EmptySeq
<1>13. Covered(r)
  BY <1>9, <1>10, <1>12 DEF Covered, Sound, v
<1> QED BY <1>7, <1>9, <1>10, <1>11, <1>13 DEF Sound, r, l

\* Setting a flag hides nothing.
LEMMA FlagSound ==
    ASSUME NEW q, Sound(q), NEW l \in Lists,
           NEW r, r = [q EXCEPT !.flags = @ \cup {l}]
    PROVE  Sound(r) /\ r.list = q.list /\ r.nr = q.nr
<1>1. q \in Queues
  BY OfQueue DEF Sound
<1>2. r \in Queues /\ r.list = q.list /\ r.flags = q.flags \cup {l} /\ r.nr = q.nr
  BY <1>1 DEF Queues
<1>3. Held(r) = Held(q)
  BY <1>2 DEF Held
<1> QED BY <1>2, <1>3 DEF Sound, Typed, Covered, Counted

LEMMA PutSound ==
    ASSUME NEW q, Sound(q), NEW m \in Messages, NEW tail \in BOOLEAN
    PROVE  Sound(Put(q, m, tail)) /\ Put(q, m, tail).nr >= q.nr
<1>0. q.nr \in Nat
  BY OfQueue DEF Sound
<1>1. CASE m.type = "event" /\ m.opt # "KEEP"
  <2> DEFINE p == [q EXCEPT !.flags = @ \cup {"event"}]
             ev == p.list["event"]
             hits == {i \in 1 .. Len(ev) : is_event_match(ev[i], m)}
             first == CHOOSE i \in hits : \A j \in hits : i <= j
  <2>1. Sound(p) /\ p.nr = q.nr
    BY FlagSound DEF Lists
  <2>2. Put(q, m, tail) = reduce_event(p, m, tail)
    BY <1>1 DEF Put
  <2> HIDE DEF p
  <2>3. ev \in Seq(Messages) /\ Len(ev) \in Nat
    BY <2>1, OfQueue DEF Sound, Lists
  <2>4. CASE hits = {}
    <3>1. \A i \in 1 .. Len(ev) : ev[i].key # m.key
      BY <2>4 DEF is_event_match
    <3>2. reduce_event(p, m, tail) = Add(p, m, tail)
      BY <2>4 DEF reduce_event
    <3> QED BY <1>0, <2>1, <2>2, <3>1, <3>2, AddSound
  <2>5. CASE hits # {}
    <3>1. first \in hits
      <4>1. hits \subseteq Nat
        BY <2>3
      <4>2. \E i \in hits : \A j \in hits : i <= j
        BY <2>5, <4>1, SmallestIndex
      <4> QED BY <4>2
    <3>2. reduce_event(p, m, tail) = Refold(p, first, Fold(ev[first], m))
      BY <2>5 DEF reduce_event, Refold
    <3> HIDE DEF first
    <3>3. first \in 1 .. Len(ev) /\ ev[first] \in Messages
      BY <2>3, <3>1
    <3> QED BY <1>0, <2>1, <2>2, <3>2, <3>3, FoldData, RefoldSound
  <2> QED BY <2>4, <2>5
<1>2. CASE ~(m.type = "event" /\ m.opt # "KEEP")
  <2>1. Put(q, m, tail) = Add(q, m, tail)
    BY <1>2 DEF Put
  <2>2. m.opt = "KEEP"
    BY <1>2, OfMessage
  <2> QED BY <1>0, <2>1, <2>2, AddSound
<1> QED BY <1>1, <1>2

-----------------------------------------------------------------------------
(* A message is handed out. *)

\* The list chosen holds a message, and the lists before it, their flags being
\* trustworthy, hold none.
LEMMA NextListFirst ==
    ASSUME NEW q, Sound(q), NextList(q) # "none"
    PROVE  \E n \in 1 .. 4 :
              /\ NextList(q) = Order[n] /\ q.list[Order[n]] # <<>>
              /\ \A i \in 1 .. 4 : i < n => q.list[Order[i]] = <<>>
<1> DEFINE has == {i \in 1 .. 4 : Order[i] \in q.flags /\ q.list[Order[i]] # <<>>}
           n == CHOOSE i \in has : \A j \in has : i <= j
<1>1. has # {} /\ NextList(q) = Order[n]
  BY DEF NextList
<1>2. n \in has /\ \A j \in has : n <= j
  <2>1. has \subseteq Nat
    OBVIOUS
  <2>2. \E i \in has : \A j \in has : i <= j
    BY <1>1, <2>1, SmallestIndex
  <2> QED BY <2>2
<1> HIDE DEF n
<1>3. ASSUME NEW i \in 1 .. 4, i < n
      PROVE  q.list[Order[i]] = <<>>
  <2>1. Order[i] \in Lists
    BY DEF Order, Lists
  <2>2. i \notin has
    BY <1>2, <1>3
  <2> QED BY <2>1, <2>2 DEF Sound, Covered
<1>4. n \in 1 .. 4 /\ q.list[Order[n]] # <<>>
  BY <1>2
<1> QED BY <1>1, <1>3, <1>4

LEMMA TailOfList ==
    ASSUME NEW v \in Seq(Messages), v # <<>>
    PROVE  /\ Tail(v) \in Seq(Messages) /\ Len(Tail(v)) = Len(v) - 1
           /\ Len(v) \in Nat \ {0}
           /\ \A i \in 1 .. Len(Tail(v)) :
                 i + 1 \in 1 .. Len(v) /\ Tail(v)[i] = v[i + 1]
           /\ Len(v) = 1 => Tail(v) = <<>>
           /\ OneReduced(v) => OneReduced(Tail(v))
<1> DEFINE t == Tail(v)
<1>1. /\ t \in Seq(Messages) /\ Len(t) = Len(v) - 1
      /\ \A i \in 1 .. Len(t) : t[i] = v[i + 1]
  BY HeadTailProperties
<1>2. Len(v) \in Nat \ {0}
  BY EmptySeq
<1> HIDE DEF t
<1>3. \A i \in 1 .. Len(t) : i + 1 \in 1 .. Len(v)
  BY <1>1, <1>2
<1>4. Len(v) = 1 => t = <<>>
  BY <1>1, <1>2, EmptySeq
<1>5. ASSUME OneReduced(v), NEW i \in 1 .. Len(t), NEW j \in 1 .. Len(t),
             i < j, t[i].key = t[j].key
      PROVE  "KEEP" \in {t[i].opt, t[j].opt}
  <2>1. /\ i + 1 \in 1 .. Len(v) /\ t[i] = v[i + 1]
        /\ j + 1 \in 1 .. Len(v) /\ t[j] = v[j + 1]
        /\ i + 1 < j + 1
    BY <1>1, <1>2, <1>3, <1>5
  <2> QED BY <1>5, <2>1 DEF OneReduced
<1>6. OneReduced(v) => OneReduced(t)
  BY <1>5 DEF OneReduced
<1> QED BY <1>1, <1>2, <1>3, <1>4, <1>6 DEF t

LEMMA GetEffect ==
    ASSUME NEW q, Sound(q), NEW n \in 1 .. 4, q.list[Order[n]] # <<>>,
           \A i \in 1 .. 4 : i < n => q.list[Order[i]] = <<>>
    PROVE  /\ Sound(GetFrom(q, Order[n]))
           /\ \A l \in Lists \ {Order[n]} : GetFrom(q, Order[n]).list[l] = q.list[l]
<1> DEFINE l == Order[n]
           v == q.list[l]
           w == Tail(v)
           F == IF Len(v) = 1 THEN q.flags \ {"res"} ELSE q.flags
           c == q.nr - 1
           r == GetFrom(q, l)
<1>1. /\ Typed(q) /\ q \in Queues /\ q.flags \in SUBSET Lists /\ q.nr \in Nat
      /\ Held(q) \in Nat /\ Held(q) <= q.nr
  BY OfQueue DEF Sound, Counted
<1>2. l \in Lists
  BY DEF Order, Lists
<1>3. v \in Seq(Messages) /\ v # <<>>
  BY <1>1, <1>2, OfQueue
<1>4. \A i \in 1 .. Len(v) : v[i].type = l
  BY <1>1, <1>2 DEF Typed
<1>5. r = [q EXCEPT !.list[l] = w, !.nr = c, !.flags = F]
  BY DEF GetFrom
<1> HIDE DEF v
<1>6. /\ w \in Seq(Messages) /\ Len(w) = Len(v) - 1
      /\ Len(v) \in Nat \ {0}
      /\ \A i \in 1 .. Len(w) : w[i].type = l
      /\ Len(v) = 1 => w = <<>>
      /\ OneReduced(v) => OneReduced(w)
  BY <1>3, <1>4, TailOfList
<1>7. Len(v) <= Held(q)
  BY <1>1, <1>2, ListHeld DEF v
<1>8. F \in SUBSET Lists /\ c \in Nat
  BY <1>1, <1>6, <1>7
<1> HIDE DEF w, c, F, r, l
<1>9. Becomes(q, r, l, w) /\ r.flags = F /\ r.nr = c
  BY <1>1, <1>2, <1>5, <1>6, <1>8 DEF Queues, Becomes
<1>10. /\ Typed(r) /\ r.list[l] = w
       /\ \A k \in Lists \ {l} : r.list[k] = q.list[k]
       /\ Held(r) = Held(q) - Len(v) + Len(w)
  BY <1>1, <1>2, <1>6, <1>9, BecomesList DEF v
<1>11. Counted(r)
  BY <1>1, <1>6, <1>9, <1>10 DEF Counted, c
<1>12. OneReduced(r.list["event"])
  <2>1. CASE l = "event"
    BY <1>6, <1>10, <2>1 DEF Sound, v
  <2>2. CASE l # "event"
    BY <1>10, <2>2 DEF Sound, Lists
  <2> QED BY <2>1, <2>2
<1>13. Covered(r)
  <2> SUFFICES ASSUME NEW k \in Lists, r.list[k] # <<>> PROVE k \in F
    BY <1>9 DEF Covered
  <2>1. k \in q.flags
    BY <1>3, <1>10 DEF Sound, Covered, v
  <2>2. ASSUME k = "res", Len(v) = 1 PROVE FALSE
    <3>1. CASE n = 1
      BY <1>6, <1>10, <2>2, <3>1 DEF Order, l
    <3>2. CASE n # 1
      <4>1. q.list["res"] = <<>>
        BY <3>2 DEF Order
      <4>2. l # "res"
        BY <3>2 DEF Order, l
      <4> QED BY <1>10, <2>2, <4>1, <4>2
    <3> QED BY <3>1, <3>2
  <2> QED BY <2>1, <2>2 DEF F
<1> QED BY <1>10, <1>11, <1>12, <1>13 DEF Sound, r, l

-----------------------------------------------------------------------------
(* An event is taken out without being counted. *)

LEMMA TakeSound ==
    ASSUME NEW q, Sound(q), NEW k \in 1 .. Len(q.list["event"])
    PROVE  /\ Sound(TakeEvent(q, k))
           /\ TakeEvent(q, k).nr = q.nr
<1> DEFINE l == "event"
           v == q.list[l]
           w == RemoveAt(v, k)
           r == TakeEvent(q, k)
<1>1. /\ Typed(q) /\ q \in Queues /\ q.flags \in SUBSET Lists /\ q.nr \in Nat
      /\ Held(q) \in Nat /\ Held(q) <= q.nr
  BY OfQueue DEF Sound, Counted
<1>2. l \in Lists /\ v \in Seq(Messages) /\ Len(v) \in Nat /\ k \in 1 .. Len(v)
  BY <1>1, OfQueue DEF Lists
<1>3. \A i \in 1 .. Len(v) : v[i].type = l
  BY <1>1, <1>2 DEF Typed
<1>4. r = [q EXCEPT !.list[l] = w]
  BY DEF TakeEvent
<1>5. OneReduced(v) /\ v # <<>>
  BY <1>2, EmptySeq DEF Sound
<1> HIDE DEF v
<1>6. /\ w \in Seq(Messages) /\ Len(w) = Len(v) - 1
      /\ \A j \in 1 .. Len(v) - 1 : w[j] = IF j < k THEN v[j] ELSE v[j + 1]
  BY <1>2, RemoveAtList
<1> HIDE DEF w
<1>7. \A i \in 1 .. Len(w) : w[i].type = l
  BY <1>2, <1>3, <1>6
<1>8. OneReduced(w)
  <2> DEFINE at(j) == IF j < k THEN j ELSE j + 1
  <2>1. \A j \in 1 .. Len(w) : at(j) \in 1 .. Len(v) /\ w[j] = v[at(j)]
    BY <1>2, <1>6
  <2>2. \A i, j \in 1 .. Len(w) : i < j => at(i) < at(j)
    BY <1>2, <1>6
  <2> HIDE DEF at
  <2> QED BY <1>5, <2>1, <2>2 DEF OneReduced
<1> HIDE DEF r, l
<1>9. Becomes(q, r, l, w) /\ r.flags = q.flags /\ r.nr = q.nr
  BY <1>1, <1>2, <1>4, <1>6 DEF Queues, Becomes
<1>10. /\ Typed(r) /\ r.list[l] = w
       /\ \A j \in Lists \ {l} : r.list[j] = q.list[j]
       /\ Held(r) = Held(q) - Len(v) + Len(w)
  BY <1>1, <1>2, <1>6, <1>7, <1>9, BecomesList DEF v
<1>11. Counted(r)
  BY <1>1, <1>2, <1>6, <1>9, <1>10 DEF Counted
<1>12. Covered(r)
  BY <1>5, <1>9, <1>10 DEF Covered, Sound, v
<1> QED BY <1>8, <1>9, <1>10, <1>11, <1>12 DEF Sound, r, l

-----------------------------------------------------------------------------
(* The specification. *)

\* The parts of Sound are the invariants of MsgQueue.
LEMMA SoundIsInvariant ==
    Sound(mq) <=> TypeOK /\ FlagsCover /\ CountCovers /\ ReducedOnce
BY DEF Sound, Typed, Covered, Counted, OneReduced,
       TypeOK, FlagsCover, CountCovers, ReducedOnce

LEMMA EmptySound == Sound(EmptyQueue)
<1>1. <<>> \in Seq(Messages) /\ Len(<<>>) = 0
  BY EmptySeq
<1>2. EmptyQueue \in Queues
  BY <1>1 DEF EmptyQueue, Queues
<1>3. /\ \A l \in Lists : EmptyQueue.list[l] = <<>>
      /\ EmptyQueue.nr = 0
  BY DEF EmptyQueue
<1>4. Typed(EmptyQueue) /\ Covered(EmptyQueue)
  BY <1>1, <1>2, <1>3 DEF Typed, Covered
<1>5. Counted(EmptyQueue)
  <2>1. /\ Len(EmptyQueue.list["res"]) = 0 /\ Len(EmptyQueue.list["req"]) = 0
        /\ Len(EmptyQueue.list["event"]) = 0 /\ Len(EmptyQueue.list["void"]) = 0
    BY <1>1, <1>3 DEF Lists
  <2>2. 0 + 0 + 0 + 0 <= 0
    OBVIOUS
  <2> QED BY ONLY <1>3, <2>1, <2>2, Zenon DEF Counted, Held
<1>6. OneReduced(EmptyQueue.list["event"])
  BY <1>1, <1>3 DEF OneReduced, Lists
<1> QED BY <1>4, <1>5, <1>6 DEF Sound

LEMMA SoundNext ==
    ASSUME Sound(mq), [Next]_mq
    PROVE  Sound(mq)'
<1>1. ASSUME NEW m \in Messages, pcinst_msg_queue_append(m)
      PROVE  Sound(mq)'
  BY <1>1, PutSound DEF pcinst_msg_queue_append, append
<1>2. ASSUME NEW m \in Messages, pcinst_msg_queue_prepend(m)
      PROVE  Sound(mq)'
  BY <1>2, PutSound DEF pcinst_msg_queue_prepend, prepend
<1>3. ASSUME pcinst_msg_queue_get_msg
      PROVE  Sound(mq)'
  <2>1. NextList(mq) # "none" /\ mq' = GetFrom(mq, NextList(mq))
    BY <1>3 DEF pcinst_msg_queue_get_msg
  <2> QED BY <2>1, NextListFirst, GetEffect
<1>4. ASSUME NEW k \in Key, pcinst_msg_queue_get_event_by_element(k)
      PROVE  Sound(mq)'
  BY <1>4, TakeSound DEF pcinst_msg_queue_get_event_by_element
<1>5. CASE UNCHANGED mq
  BY <1>5 DEF Sound, Typed, Covered, Counted, Held
<1> QED BY <1>1, <1>2, <1>3, <1>4, <1>5 DEF Next

LEMMA QueueSound == Spec => []Sound(mq)
<1>1. Init => Sound(mq)
  BY EmptySound DEF Init
<1>2. Sound(mq) /\ [Next]_mq => Sound(mq)'
  BY SoundNext
<1> QED BY <1>1, <1>2, PTL DEF Spec

\* The queue keeps its type: every message is on the list of its class, and the
\* counter, which is counted down by get_msg only, never falls below 0.
THEOREM QueueTyped == Spec => []TypeOK
<1>1. Sound(mq) => TypeOK
  BY SoundIsInvariant
<1> QED BY <1>1, QueueSound, PTL

\* No message becomes invisible to pcinst_msg_queue_get_msg, although get_msg
\* clears the flag of the responses whatever list it emptied.
THEOREM EveryMessageVisible == Spec => []FlagsCover
<1>1. Sound(mq) => FlagsCover
  BY SoundIsInvariant
<1> QED BY <1>1, QueueSound, PTL

\* The counter the scheduler asks covers the messages held, although
\* pcinst_msg_queue_get_event_by_element does not count.
THEOREM CounterCovers == Spec => []CountCovers
<1>1. Sound(mq) => CountCovers
  BY SoundIsInvariant
<1> QED BY <1>1, QueueSound, PTL

\* However events are posted, folded, taken out and put back, reduce_event
\* leaves at most one pending event of a key that was posted to be reduced.
THEOREM ReductionBounds == Spec => []ReducedOnce
<1>1. Sound(mq) => ReducedOnce
  BY SoundIsInvariant
<1> QED BY <1>1, QueueSound, PTL

\* A step that counts down hands out a message; the other operations count up
\* or do not count.
LEMMA OnlyGetCountsDown ==
    ASSUME Sound(mq), Next, mq'.nr < mq.nr
    PROVE  pcinst_msg_queue_get_msg
<1>1. mq.nr \in Nat /\ (Sound(mq') => mq'.nr \in Nat)
  BY OfQueue DEF Sound
<1>2. Sound(mq')
  BY SoundNext
<1>3. ASSUME NEW m \in Messages, pcinst_msg_queue_append(m)
      PROVE  FALSE
  <2>1. mq' = Put(mq, m, TRUE)
    BY <1>3 DEF pcinst_msg_queue_append, append
  <2>2. Put(mq, m, TRUE).nr >= mq.nr
    BY PutSound
  <2>3. mq'.nr >= mq.nr
    BY ONLY <2>1, <2>2
  <2> QED BY <1>1, <1>2, <2>3
<1>4. ASSUME NEW m \in Messages, pcinst_msg_queue_prepend(m)
      PROVE  FALSE
  <2>1. mq' = Put(mq, m, FALSE)
    BY <1>4 DEF pcinst_msg_queue_prepend, prepend
  <2>2. Put(mq, m, FALSE).nr >= mq.nr
    BY PutSound
  <2>3. mq'.nr >= mq.nr
    BY ONLY <2>1, <2>2
  <2> QED BY <1>1, <1>2, <2>3
<1>5. ASSUME NEW k \in Key, pcinst_msg_queue_get_event_by_element(k)
      PROVE  FALSE
  BY <1>1, <1>2, <1>5, TakeSound DEF pcinst_msg_queue_get_event_by_element
<1> QED BY <1>3, <1>4, <1>5 DEF Next

\* get_msg shortens the list it was told to, and those before it are empty.
LEMMA PriorityStep ==
    ASSUME Sound(mq), [Next]_mq
    PROVE  mq'.nr < mq.nr =>
             \A i, j \in 1 .. 4 :
                i < j /\ Len(mq'.list[Order[j]]) < Len(mq.list[Order[j]])
                   => mq.list[Order[i]] = <<>>
<1> SUFFICES ASSUME mq'.nr < mq.nr,
                    NEW i \in 1 .. 4, NEW j \in 1 .. 4, i < j,
                    Len(mq'.list[Order[j]]) < Len(mq.list[Order[j]])
             PROVE  mq.list[Order[i]] = <<>>
  OBVIOUS
<1>1. mq.nr \in Nat
  BY OfQueue DEF Sound
<1>2. pcinst_msg_queue_get_msg
  <2>1. mq' # mq
    BY <1>1
  <2> QED BY <2>1, OnlyGetCountsDown
<1>3. NextList(mq) # "none" /\ mq' = GetFrom(mq, NextList(mq))
  BY <1>2 DEF pcinst_msg_queue_get_msg
<1>4. PICK n \in 1 .. 4 :
         /\ NextList(mq) = Order[n] /\ mq.list[Order[n]] # <<>>
         /\ \A k \in 1 .. 4 : k < n => mq.list[Order[k]] = <<>>
  BY <1>3, NextListFirst
<1>5. \A l \in Lists \ {Order[n]} : mq'.list[l] = mq.list[l]
  BY <1>3, <1>4, GetEffect
<1>6. Order[j] \in Lists /\ Len(mq.list[Order[j]]) \in Nat
  <2>1. Order[j] \in Lists
    BY DEF Order, Lists
  <2> QED BY <2>1, OfQueue DEF Sound
<1>7. Order[j] = Order[n]
  <2> SUFFICES ASSUME Order[j] # Order[n] PROVE FALSE
    OBVIOUS
  <2>1. mq'.list[Order[j]] = mq.list[Order[j]]
    BY <1>5, <1>6
  <2> QED BY <1>6, <2>1
<1>8. j = n
  BY <1>7 DEF Order
<1> QED BY <1>4, <1>8

\* pcinst_msg_queue_get_msg hands out a message only when no message of a
\* higher class waits: responses, requests, events, the rest.
THEOREM HandedOutByPriority == Spec => Priority
<1>1. Sound(mq) /\ [Next]_mq
        => [mq'.nr < mq.nr =>
             \A i, j \in 1 .. 4 :
                i < j /\ Len(mq'.list[Order[j]]) < Len(mq.list[Order[j]])
                   => mq.list[Order[i]] = <<>>]_mq
  BY PriorityStep
<1> QED BY <1>1, QueueSound, PTL DEF Spec, Priority

=============================================================================
