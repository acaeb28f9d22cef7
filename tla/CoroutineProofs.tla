--------------------------- MODULE CoroutineProofs ---------------------------
(***************************************************************************)
(* Proofs about the life of the coroutines, for any coroutines, observers  *)
(* and events, and queues of any length: no assertion of the exit path     *)
(* fails, the last message is never doubled, and lost only if a script     *)
(* forgot it, the curator hears the story of its child in order, and no    *)
(* synchronous call loses its answer.                                      *)
(*                                                                         *)
(* The inductive invariant says which flags go with which state (Lives),   *)
(* how many last messages are in the queue (LastMsgs), what a coroutine    *)
(* has told its curator at each stage (Tale), and that a caller waits for  *)
(* a child whose curator it is (Curated).  Its core is the exit protocol:  *)
(* the last message is sent by a coroutine that has exited, so it is read  *)
(* by one that is neither ready nor waiting, in the step that destroys it. *)
(***************************************************************************)
EXTENDS Coroutine, ListLemmas

Lives(r) ==
    /\ r.state # "BROKEN"
    /\ r.state = "NEW" => r.stage = "FIRST_RUN"
    /\ r.state \in {"OBSERVING", "EXITED", "GONE"} => r.stage = "OBSERVING"
    /\ r.state \in {"NEW", "STOPPED"} => ~r.exited
    /\ r.state \in {"NEW", "STOPPED", "OBSERVING", "EXITED"} => ~r.except
    /\ r.state = "EXITED" => r.exited
    /\ r.state = "STOPPED" <=> r.wait # None
    /\ r.last_msg_sent => r.exited
    /\ r.last_msg_read => r.state = "GONE"
    /\ r.failed => r.state \in {"EXITED", "GONE"}
    /\ IsFiniteSet(r.hvml_observers)

\* The number of last messages in queue q is at most one, and one if p.
Last1(q, p) ==
    IF p THEN \E i \in 1 .. Len(q) :
                 /\ q[i].name = "lastMsg"
                 /\ \A j \in 1 .. Len(q) : q[j].name = "lastMsg" => j = i
         ELSE \A i \in 1 .. Len(q) : q[i].name # "lastMsg"

\* There is one at most, only if it was sent, and surely if it was sent and is
\* still observed.
LastKept(q, sent, observed) ==
    \E p \in BOOLEAN : Last1(q, p) /\ (p => sent) /\ (sent /\ observed => p)

LastMsgs(c) == /\ co[c].state = "NEW" => mq[c] = <<>>
               /\ co[c].state # "GONE" => LastKept(mq[c], co[c].last_msg_sent,
                                                   co[c].last_msg_observer)

Story(r) == <<"observing", IF r.failed THEN "except" ELSE "success",
              "exited", "subExit">>

\* What a coroutine has told its curator, t, goes with what it is, r.
TaleOf(r, t) ==
    /\ r.stage = "FIRST_RUN" => t = <<>>
    /\ r.stage = "OBSERVING" =>
          \/ t = <<"observing">>
          \/ t = <<>> /\ ~Exists(r.curator)
          \/ t = <<>> /\ r.state = "GONE"
          \/ t = Story(r) /\ r.state = "GONE"

Tale(c) == TaleOf(co[c], told[c])

HasAnswer(c) == \E i \in 1 .. Len(mq[c]) : WaitMatch(co[c], mq[c][i])

Curated(c) ==
    /\ co[c].curator \in Crtn => co[co[c].curator].state # "NEW"
    /\ co[c].wait \in Crtn =>
          /\ co[co[c].wait].curator = c
          /\ co[co[c].wait].state # "NEW"
          /\ co[co[c].wait].state = "GONE" => HasAnswer(c)

IInv == /\ TypeOK
        /\ \A c \in Crtn : Lives(co[c])
        /\ \A c \in Crtn : LastMsgs(c)
        /\ \A c \in Crtn : Tale(c)
        /\ \A c \in Crtn : Curated(c)

-----------------------------------------------------------------------------
(* The operators on a coroutine. *)

LEMMA AfterRunIs ==
    ASSUME NEW r \in Coroutines, NEW s, s = AfterRun(r)
    PROVE  /\ s \in Coroutines
           /\ s.stage = "OBSERVING"
           /\ r.except /\ r.failed => s.state = "BROKEN"
           /\ ~(r.except /\ r.failed) /\ Exits(r) => s.state = "EXITED"
           /\ ~(r.except /\ r.failed) /\ ~Exits(r) => s.state = "OBSERVING"
           /\ s.except = FALSE
           /\ s.failed <=> r.failed \/ r.except
           /\ Exits(r) => s.hvml_observers = {}
           /\ ~Exits(r) => s.hvml_observers = r.hvml_observers
           /\ s.exited <=> Exits(r) \/ s.hvml_observers = {}
           /\ s.last_msg_sent <=> r.last_msg_sent \/ s.hvml_observers = {}
           /\ s.last_msg_read = r.last_msg_read
           /\ s.last_msg_observer = r.last_msg_observer
           /\ s.wait = r.wait /\ s.tasks = r.tasks /\ s.curator = r.curator
<1> DEFINE left == IF Exits(r) THEN {} ELSE r.hvml_observers
<1>1. s = [r EXCEPT !.stage = "OBSERVING",
                    !.state = IF r.except /\ r.failed THEN "BROKEN"
                              ELSE IF Exits(r) THEN "EXITED" ELSE "OBSERVING",
                    !.except = FALSE,
                    !.failed = @ \/ r.except,
                    !.hvml_observers = left,
                    !.exited = Exits(r) \/ left = {},
                    !.last_msg_sent = @ \/ left = {}]
  BY DEF AfterRun
<1>2. left \in SUBSET Observer
  BY DEF Coroutines
<1>3. PICK l : l = left
  OBVIOUS
<1>4. PICK st : st = IF r.except /\ r.failed THEN "BROKEN"
                    ELSE IF Exits(r) THEN "EXITED" ELSE "OBSERVING"
  OBVIOUS
<1>5. PICK fl \in BOOLEAN : fl = (r.failed \/ r.except)
  OBVIOUS
<1>6. PICK ex \in BOOLEAN : ex = (Exits(r) \/ l = {})
  OBVIOUS
<1>7. PICK se \in BOOLEAN : se = (r.last_msg_sent \/ l = {})
  OBVIOUS
<1>8. s = [r EXCEPT !.stage = "OBSERVING", !.state = st, !.except = FALSE,
                    !.failed = fl, !.hvml_observers = l, !.exited = ex,
                    !.last_msg_sent = se]
  BY <1>1, <1>3, <1>4, <1>5, <1>6, <1>7
<1>9. /\ s.stage = "OBSERVING" /\ s.state = st /\ s.except = FALSE
      /\ s.failed = fl /\ s.hvml_observers = l /\ s.exited = ex
      /\ s.last_msg_sent = se /\ s.last_msg_read = r.last_msg_read
      /\ s.last_msg_observer = r.last_msg_observer
      /\ s.wait = r.wait /\ s.tasks = r.tasks /\ s.curator = r.curator
  BY <1>8 DEF Coroutines
<1>10. s \in Coroutines
  BY <1>2, <1>3, <1>4, <1>8 DEF Coroutines, States
<1> QED BY <1>3, <1>4, <1>5, <1>6, <1>7, <1>9, <1>10

LEMMA CreatedIs ==
    ASSUME NEW p \in Crtn \cup {None}, NEW s, s = Created(p)
    PROVE  /\ s \in Coroutines
           /\ s.state = "READY" /\ s.stage = "FIRST_RUN"
           /\ ~s.exited /\ ~s.except /\ ~s.failed
           /\ ~s.last_msg_sent /\ ~s.last_msg_read
           /\ s.hvml_observers = {} /\ s.wait = None /\ s.tasks = 0
           /\ s.curator = p
BY DEF Coroutines, Created, States

\* A task is started, or not.
LEMMA StartTaskIs ==
    ASSUME NEW r \in Coroutines, NEW s, s = StartTask(r)
    PROVE  /\ s \in Coroutines
           /\ s.stage = r.stage /\ s.exited = r.exited /\ s.except = r.except
           /\ s.failed = r.failed /\ s.last_msg_sent = r.last_msg_sent
           /\ s.last_msg_read = r.last_msg_read /\ s.wait = r.wait
           /\ s.last_msg_observer = r.last_msg_observer
           /\ s.hvml_observers = r.hvml_observers /\ s.curator = r.curator
           /\ \/ s = r
              \/ r.state = "OBSERVING" /\ s.state = "READY"
<1>1. CASE r.tasks > 0 /\ Watching(r)
  <2>1. s = [r EXCEPT !.tasks = r.tasks - 1, !.state = "READY"]
    BY <1>1 DEF StartTask
  <2>2. r.tasks - 1 \in Nat /\ r.state = "OBSERVING"
    BY <1>1 DEF Coroutines, Watching
  <2>3. /\ s.stage = r.stage /\ s.exited = r.exited /\ s.except = r.except
        /\ s.failed = r.failed /\ s.last_msg_sent = r.last_msg_sent
        /\ s.last_msg_read = r.last_msg_read /\ s.wait = r.wait
        /\ s.last_msg_observer = r.last_msg_observer
        /\ s.hvml_observers = r.hvml_observers /\ s.curator = r.curator
        /\ s.state = "READY"
    BY <2>1 DEF Coroutines
  <2>4. s \in Coroutines
    BY <2>1, <2>2 DEF Coroutines, States
  <2> QED BY <2>2, <2>3, <2>4
<1>2. CASE ~(r.tasks > 0 /\ Watching(r))
  <2>1. s = r
    BY <1>2 DEF StartTask
  <2> QED BY <2>1
<1> QED BY <1>1, <1>2

-----------------------------------------------------------------------------
(* Queues. *)

LEMMA LastAppend ==
    ASSUME NEW q \in Seq(Messages), NEW m \in Messages, NEW p \in BOOLEAN,
           Last1(q, p)
    PROVE  /\ Append(q, m) \in Seq(Messages)
           /\ m.name # "lastMsg" => Last1(Append(q, m), p)
           /\ m.name = "lastMsg" /\ ~p => Last1(Append(q, m), TRUE)
<1> DEFINE u == Append(q, m)
           n == Len(q)
<1>1. /\ u \in Seq(Messages) /\ Len(u) = n + 1 /\ n \in Nat
      /\ \A i \in 1 .. n : u[i] = q[i]
      /\ u[n + 1] = m
  BY AppendProperties
<1> HIDE DEF u
<1>2. ASSUME m.name # "lastMsg" PROVE Last1(u, p)
  <2>1. CASE p
    <3>1. PICK i \in 1 .. n : /\ q[i].name = "lastMsg"
                              /\ \A j \in 1 .. n : q[j].name = "lastMsg" => j = i
      BY <2>1 DEF Last1
    <3>2. i \in 1 .. Len(u) /\ u[i].name = "lastMsg"
      BY <1>1, <3>1
    <3>3. \A j \in 1 .. Len(u) : u[j].name = "lastMsg" => j = i
      BY <1>1, <1>2, <3>1
    <3> QED BY <2>1, <3>2, <3>3 DEF Last1
  <2>2. CASE ~p
    <3>1. \A i \in 1 .. n : q[i].name # "lastMsg"
      BY <2>2 DEF Last1
    <3>2. \A i \in 1 .. Len(u) : u[i].name # "lastMsg"
      BY <1>1, <1>2, <3>1
    <3> QED BY <2>2, <3>2 DEF Last1
  <2> QED BY <2>1, <2>2
<1>3. ASSUME m.name = "lastMsg", ~p PROVE Last1(u, TRUE)
  <2>1. \A i \in 1 .. n : q[i].name # "lastMsg"
    BY <1>3 DEF Last1
  <2>2. n + 1 \in 1 .. Len(u) /\ u[n + 1].name = "lastMsg"
    BY <1>1, <1>3
  <2>3. \A j \in 1 .. Len(u) : u[j].name = "lastMsg" => j = n + 1
    BY <1>1, <2>1
  <2> QED BY <2>2, <2>3 DEF Last1
<1> QED BY <1>1, <1>2, <1>3 DEF u

\* The messages of v follow those of u in w.
Follows(u, v, w) == \A j \in 1 .. Len(v) : /\ Len(u) + j \in 1 .. Len(w)
                                           /\ w[Len(u) + j] = v[j]

LEMMA InSecond ==
    ASSUME NEW S, NEW u \in Seq(S), NEW v \in Seq(S)
    PROVE  Follows(u, v, u \o v)
<1> SUFFICES ASSUME NEW j \in 1 .. Len(v)
             PROVE  /\ Len(u) + j \in 1 .. Len(u \o v)
                    /\ (u \o v)[Len(u) + j] = v[j]
  BY DEF Follows
<1>1. PICK w : w = u \o v
  OBVIOUS
<1>2. PICK m \in Nat, n \in Nat : m = Len(u) /\ n = Len(v)
  OBVIOUS
<1>3. /\ Len(w) = m + n
      /\ \A i \in 1 .. m + n : w[i] = IF i <= m THEN u[i] ELSE v[i - m]
  BY <1>1, <1>2, ConcatProperties
<1>4. j \in 1 .. n
  BY <1>2
<1>5. m + j \in 1 .. m + n /\ ~ (m + j <= m) /\ (m + j) - m = j
  BY <1>2, <1>4
<1>6. w[m + j] = v[j]
  BY <1>3, <1>5
<1> QED BY <1>1, <1>2, <1>3, <1>5, <1>6

\* Messages to a curator are not last messages, and push none out.
LEMMA LastConcat ==
    ASSUME NEW q \in Seq(Messages), NEW w \in Seq(Messages), NEW p \in BOOLEAN,
           Last1(q, p), \A i \in 1 .. Len(w) : w[i].name # "lastMsg"
    PROVE  /\ q \o w \in Seq(Messages)
           /\ Last1(q \o w, p)
           /\ \A i \in 1 .. Len(q) : i \in 1 .. Len(q \o w) /\ (q \o w)[i] = q[i]
           /\ \A i \in 1 .. Len(w) : /\ Len(q) + i \in 1 .. Len(q \o w)
                                     /\ (q \o w)[Len(q) + i] = w[i]
<1> DEFINE u == q \o w
           n == Len(q)
           k == Len(w)
<1>1. /\ u \in Seq(Messages) /\ Len(u) = n + k
      /\ \A i \in 1 .. n + k : u[i] = IF i <= n THEN q[i] ELSE w[i - n]
  BY ConcatProperties
<1>2. n \in Nat /\ k \in Nat
  OBVIOUS
<1> HIDE DEF u
<1>3. /\ \A i \in 1 .. n : i \in 1 .. Len(u) /\ u[i] = q[i]
      /\ \A i \in 1 .. Len(u) :
            i \in 1 .. n \/ (i - n \in 1 .. k /\ u[i] = w[i - n])
      /\ \A i \in 1 .. k : n + i \in 1 .. Len(u) /\ u[n + i] = w[i]
  <2>1. \A i \in 1 .. k : n + i \in 1 .. n + k /\ ~(n + i <= n) /\ n + i - n = i
    BY <1>2
  <2> QED BY <1>1, <1>2, <2>1
<1>4. Last1(u, p)
  <2>1. CASE p
    <3>1. PICK i \in 1 .. n : /\ q[i].name = "lastMsg"
                              /\ \A j \in 1 .. n : q[j].name = "lastMsg" => j = i
      BY <2>1 DEF Last1
    <3>2. \A j \in 1 .. Len(u) : u[j].name = "lastMsg" => j = i
      BY <1>3, <3>1
    <3> QED BY <1>3, <2>1, <3>1, <3>2 DEF Last1
  <2>2. CASE ~p
    BY <1>3, <2>2 DEF Last1
  <2> QED BY <2>1, <2>2
<1> QED BY <1>1, <1>3, <1>4 DEF u

\* Dropping other messages from the head of a queue keeps the last message.
LEMMA LastDrop ==
    ASSUME NEW q \in Seq(Messages), NEW u \in Seq(Messages), NEW p \in BOOLEAN,
           Last1(q, p), NEW k \in 0 .. Len(q), Len(u) = Len(q) - k,
           \A i \in 1 .. Len(u) : u[i] = q[i + k],
           \A i \in 1 .. k : q[i].name # "lastMsg"
    PROVE  Last1(u, p)
<1> DEFINE n == Len(q)
<1>1. n \in Nat /\ k \in Nat /\ Len(u) = n - k
  OBVIOUS
<1>2. \A i \in 1 .. Len(u) : i + k \in 1 .. n
  BY <1>1
<1>3. CASE p
  <2>1. PICK i \in 1 .. n : /\ q[i].name = "lastMsg"
                            /\ \A j \in 1 .. n : q[j].name = "lastMsg" => j = i
    BY <1>3 DEF Last1
  <2>2. i - k \in 1 .. Len(u) /\ (i - k) + k = i
    BY <1>1, <2>1
  <2>3. u[i - k].name = "lastMsg"
    BY <2>1, <2>2
  <2>4. ASSUME NEW j \in 1 .. Len(u), u[j].name = "lastMsg" PROVE j = i - k
    <3>1. j + k \in 1 .. n /\ q[j + k].name = "lastMsg"
      BY <1>2, <2>4
    <3>2. j + k = i
      BY <2>1, <3>1
    <3> QED BY <1>1, <2>1, <3>2
  <2> QED BY <1>3, <2>2, <2>3, <2>4 DEF Last1
<1>4. CASE ~p
  BY <1>2, <1>4 DEF Last1
<1> QED BY <1>3, <1>4

\* Who keeps the last message of q keeps what the flags say of it.
LEMMA KeptAlong ==
    ASSUME NEW q, NEW w, NEW sent, NEW obs, LastKept(q, sent, obs),
           \A p \in BOOLEAN : Last1(q, p) => Last1(w, p)
    PROVE  LastKept(w, sent, obs)
BY DEF LastKept

\* Nothing is promised of a last message that is not observed any more.
LEMMA KeptLess ==
    ASSUME NEW q, NEW sent, NEW obs, NEW less, LastKept(q, sent, obs), less => obs
    PROVE  LastKept(q, sent, less)
BY DEF LastKept

\* A step after which the queue of x is such.
LEMMA KeptNext ==
    ASSUME NEW x, co'[x].state # "NEW",
           LastKept(mq'[x], co'[x].last_msg_sent, co'[x].last_msg_observer)
    PROVE  LastMsgs(x)'
BY DEF LastMsgs, LastKept, Last1

\* u is what is left of q after messages other than the last one.
DropsOthers(q, u) ==
    \E k \in 0 .. Len(q) : /\ Len(u) = Len(q) - k
                           /\ \A i \in 1 .. Len(u) : u[i] = q[i + k]
                           /\ \A i \in 1 .. k : q[i].name # "lastMsg"

\* What an exited coroutine throws away is the head of its queue, and no last
\* message; another one throws nothing away.
LEMMA PendingList ==
    ASSUME NEW r \in Coroutines, NEW q \in Seq(Messages), NEW u, u = Pending(r, q)
    PROVE  /\ u \in Seq(Messages)
           /\ ~r.exited => u = q
           /\ DropsOthers(q, u)
<1> DEFINE n == Len(q)
           keep == {i \in 1 .. n : ~(r.exited /\ Ignored(q[i]))}
<1>1. n \in Nat
  OBVIOUS
<1>2. \A i \in 1 .. n : i \notin keep => q[i].name # "lastMsg"
  BY DEF Ignored, Key
<1>3. CASE keep = {}
  <2>1. u = <<>> /\ Len(u) = 0 /\ u \in Seq(Messages)
    BY <1>3 DEF Pending
  <2>2. ~r.exited => n = 0
    BY <1>1, <1>3
  <2>3. n = 0 => q = <<>>
    OBVIOUS
  <2>4. n \in 0 .. n /\ Len(u) = n - n
    BY <1>1, <2>1
  <2>5. \A i \in 1 .. n : q[i].name # "lastMsg"
    BY <1>2, <1>3
  <2>6. \A i \in 1 .. Len(u) : u[i] = q[i + n]
    BY <2>1
  <2>7. DropsOthers(q, u)
    BY <2>4, <2>5, <2>6 DEF DropsOthers
  <2> QED BY <2>1, <2>2, <2>3, <2>7
<1>4. CASE keep # {}
  <2>1. keep \subseteq Nat /\ keep \subseteq 1 .. n
    BY <1>1
  <2>2. \E i \in keep : \A j \in keep : i <= j
    BY <1>4, <2>1, SmallestIndex
  <2>3. PICK l : l = Min(keep)
    OBVIOUS
  <2>4. l \in keep /\ \A j \in keep : l <= j
    BY <2>2, <2>3 DEF Min
  <2>5. u = SubSeq(q, l, n)
    BY <1>4, <2>3 DEF Pending
  <2>6. l \in 1 .. n
    BY <2>1, <2>4
  <2> HIDE DEF keep
  <2>7. \A i \in 1 .. l - 1 : q[i].name # "lastMsg"
    <3>1. \A i \in 1 .. l - 1 : i \in 1 .. n /\ ~(l <= i)
      BY <1>1, <2>6
    <3> QED BY <1>2, <2>4, <3>1
  <2>8. /\ u \in Seq(Messages) /\ Len(u) = n - (l - 1)
        /\ \A i \in 1 .. Len(u) : u[i] = q[i + (l - 1)]
    <3>1. \A i \in l .. n : q[i] \in Messages
      BY <1>1, <2>6
    <3>2. /\ SubSeq(q, l, n) \in Seq(Messages)
          /\ Len(SubSeq(q, l, n)) = IF l <= n THEN n - l + 1 ELSE 0
          /\ \A i \in 1 .. n - l + 1 : SubSeq(q, l, n)[i] = q[l + i - 1]
      BY <1>1, <2>6, <3>1, SubSeqProperties
    <3>3. Len(u) = n - l + 1
      BY <1>1, <2>5, <2>6, <3>2
    <3>4. \A i \in 1 .. Len(u) : l + i - 1 = i + (l - 1)
      BY <1>1, <2>6
    <3> QED BY <1>1, <2>5, <2>6, <3>2, <3>3, <3>4
  <2>9. ~r.exited => u = q
    <3> SUFFICES ASSUME ~r.exited PROVE u = q
      OBVIOUS
    <3>1. 1 \in keep
      BY <1>1, <2>6 DEF keep
    <3>2. l = 1
      BY <2>4, <2>6, <3>1
    <3>3. Len(u) = Len(q) /\ \A i \in 1 .. Len(u) : u[i] = q[i]
      BY <1>1, <2>8, <3>2
    <3> QED BY <2>8, <3>3
  <2>10. l - 1 \in 0 .. n
    BY <1>1, <2>6
  <2>11. DropsOthers(q, u)
    BY <2>7, <2>8, <2>10 DEF DropsOthers
  <2> QED BY <2>8, <2>9, <2>11
<1> QED BY <1>3, <1>4

-----------------------------------------------------------------------------
(* What each kind of step does to the invariant. *)

\* Whoever is gone stays so, and whoever was created exists from then on.
LEMMA ExistsKept ==
    ASSUME IInv, NEW c \in Crtn, NEW s \in Coroutines, co' = [co EXCEPT ![c] = s],
           co[c].state # "GONE"
    PROVE  \A x \in Crtn : Exists(co[x].curator)' /\ co'[x].curator = co[x].curator
                              => Exists(co[x].curator)
<1> SUFFICES ASSUME NEW x \in Crtn, NEW y, y = co[x].curator, co'[x].curator = y,
                    y \in Crtn, co'[y].state \notin {"NEW", "GONE"}
             PROVE  Exists(y)
  BY DEF Exists
<1>1. co[y].state # "NEW"
  BY DEF IInv, Curated
<1>2. co[y].state # "GONE"
  BY DEF IInv, TypeOK
<1> QED BY <1>1, <1>2 DEF Exists

\* A coroutine goes on without posting anything.
LEMMA OwnStep ==
    ASSUME IInv, NEW c \in Crtn, NEW s \in Coroutines, Lives(s),
           co' = [co EXCEPT ![c] = s], UNCHANGED <<mq, told>>,
           co[c].state \notin {"NEW", "GONE"}, s.state \notin {"NEW", "GONE"},
           s.stage = co[c].stage, s.failed = co[c].failed,
           s.last_msg_sent = co[c].last_msg_sent, s.curator = co[c].curator,
           s.last_msg_observer => co[c].last_msg_observer,
           s.wait \in {co[c].wait, "reply"}
    PROVE  IInv'
<1>1. /\ TypeOK
      /\ \A x \in Crtn : co'[x] = IF x = c THEN s ELSE co[x]
      /\ mq' = mq /\ told' = told
  BY DEF IInv, TypeOK
<1>2. TypeOK'
  BY <1>1 DEF TypeOK
<1>3. \A x \in Crtn : Lives(co[x])'
  <2> SUFFICES ASSUME NEW x \in Crtn PROVE Lives(co[x])'
    OBVIOUS
  <2>1. Lives(co[x]) /\ co'[x] = IF x = c THEN s ELSE co[x]
    BY <1>1 DEF IInv
  <2> QED BY <2>1 DEF Lives
<1>4. \A x \in Crtn : LastMsgs(x)'
  <2> SUFFICES ASSUME NEW x \in Crtn PROVE LastMsgs(x)'
    OBVIOUS
  <2>1. LastMsgs(x)
    BY DEF IInv
  <2>2. CASE x = c
    <3>1. LastKept(mq[c], co[c].last_msg_sent, co[c].last_msg_observer)
      BY <2>1, <2>2 DEF LastMsgs
    <3>2. LastKept(mq[c], s.last_msg_sent, s.last_msg_observer)
      BY <3>1, KeptLess
    <3>3. mq'[x] = mq[c] /\ co'[x] = s
      BY <1>1, <2>2
    <3>4. /\ co'[x].state # "NEW"
          /\ LastKept(mq'[x], co'[x].last_msg_sent, co'[x].last_msg_observer)
      BY <3>2, <3>3
    <3> QED BY <3>4, KeptNext
  <2>3. CASE x # c
    BY <1>1, <2>1, <2>3 DEF LastMsgs, LastKept, Last1
  <2> QED BY <2>2, <2>3
<1>5. \A x \in Crtn : co'[x].curator = co[x].curator
  BY <1>1
<1>6. \A x \in Crtn : Tale(x)'
  <2> SUFFICES ASSUME NEW x \in Crtn PROVE Tale(x)'
    OBVIOUS
  <2>1. Tale(x) /\ (Exists(co[x].curator)' => Exists(co[x].curator))
    BY <1>5, ExistsKept DEF IInv
  <2>2. /\ co'[x].stage = co[x].stage /\ co'[x].failed = co[x].failed
        /\ co[x].state = "GONE" => co'[x].state = "GONE"
    BY <1>1
  <2> QED BY <1>1, <2>1, <2>2 DEF Tale, TaleOf, Story
<1>7. \A x \in Crtn : Curated(x)'
  <2> SUFFICES ASSUME NEW x \in Crtn PROVE Curated(x)'
    OBVIOUS
  <2>1. Curated(x)
    BY DEF IInv
  <2>2. \A y \in Crtn : /\ co[y].state # "NEW" => co'[y].state # "NEW"
                        /\ co'[y].state = "GONE" => co[y].state = "GONE"
    BY <1>1
  <2>3. co'[x].wait \in Crtn => co'[x].wait = co[x].wait
    <3>1. "reply" \notin Crtn
      BY CoroutineAssumption
    <3> QED BY <1>1, <3>1
  <2>4. co'[x].wait \in Crtn /\ HasAnswer(x) => HasAnswer(x)'
    BY <1>1, <2>3 DEF HasAnswer, WaitMatch
  <2> QED BY <1>5, <2>1, <2>2, <2>3, <2>4 DEF Curated
<1> QED BY <1>2, <1>3, <1>4, <1>6, <1>7 DEF IInv

\* A message from outside arrives.
LEMMA Arrives ==
    ASSUME IInv, NEW c \in Crtn, Exists(c), NEW m \in Messages, m.name # "lastMsg",
           mq' = [mq EXCEPT ![c] = Append(@, m)], UNCHANGED <<co, told>>
    PROVE  IInv'
<1> DEFINE w == Append(mq[c], m)
<1>1. TypeOK /\ mq[c] \in Seq(Messages)
  BY DEF IInv, TypeOK
<1>2. w \in Seq(Messages)
  BY <1>1
<1>3. \A x \in Crtn : mq'[x] = IF x = c THEN w ELSE mq[x]
  BY <1>1 DEF TypeOK
<1>4. \A i \in 1 .. Len(mq[c]) : i \in 1 .. Len(w) /\ w[i] = mq[c][i]
  BY <1>1
<1>5. \A p \in BOOLEAN : Last1(mq[c], p) => Last1(w, p)
  BY <1>1, LastAppend
<1> HIDE DEF w
<1>6. TypeOK'
  BY <1>1, <1>2, <1>3 DEF TypeOK
<1>7. \A x \in Crtn : LastMsgs(x)'
  <2> SUFFICES ASSUME NEW x \in Crtn PROVE LastMsgs(x)'
    OBVIOUS
  <2>1. LastMsgs(x)
    BY DEF IInv
  <2>2. CASE x = c
    <3>1. co[c].state # "NEW" /\ co[c].state # "GONE" /\ co' = co /\ mq'[c] = w
      BY <1>3 DEF Exists
    <3>2. LastKept(mq[c], co[c].last_msg_sent, co[c].last_msg_observer)
      BY <2>1, <2>2, <3>1 DEF LastMsgs
    <3>3. LastKept(w, co[c].last_msg_sent, co[c].last_msg_observer)
      BY <1>5, <3>2, KeptAlong
    <3>4. LastKept(mq'[x], co'[x].last_msg_sent, co'[x].last_msg_observer)
      BY <2>2, <3>1, <3>3
    <3>5. co'[x].state # "NEW"
      BY <2>2, <3>1
    <3> QED BY <3>4, <3>5 DEF LastMsgs, LastKept, Last1
  <2>3. CASE x # c
    BY <1>3, <2>1, <2>3 DEF LastMsgs, LastKept, Last1
  <2> QED BY <2>2, <2>3
<1>8. \A x \in Crtn : Curated(x)'
  <2> SUFFICES ASSUME NEW x \in Crtn PROVE Curated(x)'
    OBVIOUS
  <2>1. HasAnswer(x) => HasAnswer(x)'
    BY <1>3, <1>4 DEF HasAnswer, WaitMatch
  <2> QED BY <2>1 DEF IInv, Curated
<1>9. \A x \in Crtn : Lives(co[x])' /\ Tale(x)'
  BY DEF IInv, Lives, Tale, TaleOf, Exists, Story
<1> QED BY <1>6, <1>7, <1>8, <1>9 DEF IInv

\* What c has told its curator when it has posted notes goes with s.
TaleAfter(c, s, notes) ==
    TaleOf(s, IF Exists(s.curator) THEN told[c] \o notes ELSE told[c])

\* The queue own has every message that c waits for.
KeepsAnswers(c, own) ==
    \A i \in 1 .. Len(mq[c]) : WaitMatch(co[c], mq[c][i])
                                  => \E j \in 1 .. Len(own) : own[j] = mq[c][i]

HasResult(notes) == \E j \in 1 .. Len(notes) : notes[j] \in {"success", "except"}

\* A coroutine goes on, with own as its queue from now on, and posts notes to
\* its curator if that one exists.
LEMMA PostStep ==
    ASSUME IInv, NEW c \in Crtn, NEW s \in Coroutines, Lives(s),
           co' = [co EXCEPT ![c] = s],
           co[c].state \notin {"NEW", "GONE"}, s.state # "NEW",
           s.curator = co[c].curator,
           NEW own \in Seq(Messages), NEW notes \in Seq(Notes),
           PostAll(c, own, notes),
           s.state # "GONE" => LastKept(own, s.last_msg_sent, s.last_msg_observer),
           TaleAfter(c, s, notes),
           s.wait \in Crtn => s.wait = co[c].wait /\ KeepsAnswers(c, own),
           s.state = "GONE" => HasResult(notes)
    PROVE  IInv'
<1> DEFINE d    == s.curator
           sent == IF Exists(d) THEN notes ELSE <<>>
           msgs == [i \in 1 .. Len(sent) |-> [name |-> sent[i], from |-> c]]
           t    == IF Exists(d) THEN told[c] \o notes ELSE told[c]
<1>1. /\ TypeOK
      /\ \A x \in Crtn : co'[x] = IF x = c THEN s ELSE co[x]
      /\ told[c] \in Seq(Notes)
      /\ d \in Crtn \cup {None}
  BY DEF IInv, TypeOK, Coroutines
<1>2. sent \in Seq(Notes) /\ Len(sent) \in Nat
  OBVIOUS
<1>3. told[c] \o sent = t /\ t \in Seq(Notes)
  <2>1. CASE Exists(d)
    <3>1. t = told[c] \o notes /\ sent = notes
      BY <2>1
    <3>2. told[c] \o notes \in Seq(Notes)
      BY <1>1, ConcatProperties
    <3> HIDE DEF t, sent
    <3> QED BY <3>1, <3>2
  <2>2. CASE ~Exists(d)
    <3>1. t = told[c] /\ sent = <<>>
      BY <2>2
    <3>2. told[c] \o <<>> = told[c]
      BY <1>1
    <3> QED BY <1>1, <3>1, <3>2
  <2> QED BY <2>1, <2>2
<1>4. /\ mq' = [x \in Crtn |-> CASE x = c -> own
                                 [] x = d /\ x # c -> mq[x] \o msgs
                                 [] OTHER -> mq[x]]
      /\ told' = [told EXCEPT ![c] = t]
  BY <1>3 DEF PostAll
<1> HIDE DEF sent, t
<1>5. /\ msgs \in Seq(Messages) /\ Len(msgs) = Len(sent)
      /\ \A i \in 1 .. Len(msgs) : msgs[i] = [name |-> sent[i], from |-> c]
      /\ \A i \in 1 .. Len(msgs) : msgs[i].name # "lastMsg"
  <2>1. \A i \in 1 .. Len(sent) :
           /\ [name |-> sent[i], from |-> c] \in Messages
           /\ sent[i] # "lastMsg"
    <3>1. \A i \in 1 .. Len(sent) : sent[i] \in Notes
      BY <1>2
    <3> QED BY <3>1 DEF Messages, Notes
  <2>2. msgs \in Seq(Messages) /\ Len(msgs) = Len(sent)
    BY <1>2, <2>1
  <2> QED BY <2>1, <2>2
<1> HIDE DEF msgs
<1>6. \A x \in Crtn : mq[x] \in Seq(Messages)
  BY <1>1 DEF TypeOK
<1>7. \A x \in Crtn \ {c} :
         /\ mq'[x] \in Seq(Messages)
         /\ \A p \in BOOLEAN : Last1(mq[x], p) => Last1(mq'[x], p)
         /\ \A i \in 1 .. Len(mq[x]) : i \in 1 .. Len(mq'[x]) /\ mq'[x][i] = mq[x][i]
  <2> SUFFICES ASSUME NEW x \in Crtn \ {c}
               PROVE  /\ mq'[x] \in Seq(Messages)
                      /\ \A p \in BOOLEAN : Last1(mq[x], p) => Last1(mq'[x], p)
                      /\ \A i \in 1 .. Len(mq[x]) :
                            i \in 1 .. Len(mq'[x]) /\ mq'[x][i] = mq[x][i]
    OBVIOUS
  <2>1. CASE x = d
    <3>1. mq'[x] = mq[x] \o msgs
      BY <1>4, <2>1
    <3>2. mq[x] \o msgs \in Seq(Messages)
      BY <1>5, <1>6
    <3>3. \A p \in BOOLEAN : Last1(mq[x], p) => Last1(mq[x] \o msgs, p)
      BY <1>5, <1>6, LastConcat
    <3>4. \A i \in 1 .. Len(mq[x]) :
             i \in 1 .. Len(mq[x] \o msgs) /\ (mq[x] \o msgs)[i] = mq[x][i]
      BY <1>5, <1>6
    <3> QED BY <3>1, <3>2, <3>3, <3>4
  <2>2. CASE x # d
    <3>1. mq'[x] = mq[x]
      BY <1>4, <2>2
    <3> QED BY <1>6, <3>1
  <2> QED BY <2>1, <2>2
<1>8. TypeOK'
  <2>1. mq'[c] = own
    BY <1>4
  <2>2. mq' \in [Crtn -> Seq(Messages)]
    BY <1>4, <1>7, <2>1
  <2>3. told' \in [Crtn -> Seq(Notes)]
    BY <1>1, <1>3, <1>4 DEF TypeOK
  <2> QED BY <1>1, <2>2, <2>3 DEF TypeOK
<1>9. \A x \in Crtn : Lives(co[x])'
  <2> SUFFICES ASSUME NEW x \in Crtn PROVE Lives(co[x])'
    OBVIOUS
  <2>1. Lives(co[x]) /\ co'[x] = IF x = c THEN s ELSE co[x]
    BY <1>1 DEF IInv
  <2> QED BY <2>1 DEF Lives
<1>10. \A x \in Crtn : LastMsgs(x)'
  <2> SUFFICES ASSUME NEW x \in Crtn PROVE LastMsgs(x)'
    OBVIOUS
  <2>1. CASE x = c
    <3>1. mq'[c] = own /\ co'[c] = s
      BY <1>1, <1>4
    <3> QED BY <2>1, <3>1 DEF LastMsgs, LastKept, Last1
  <2>2. CASE x # c
    <3>1. co'[x] = co[x] /\ LastMsgs(x)
      BY <1>1, <2>2 DEF IInv
    <3>2. CASE co[x].state = "NEW"
      <4>1. mq[x] = <<>>
        BY <3>1, <3>2 DEF LastMsgs
      <4>2. mq'[x] = <<>>
        <5>1. CASE x = d
          <6>1. ~Exists(d)
            BY <3>2, <5>1 DEF Exists
          <6>2. Len(msgs) = 0
            BY <1>5, <6>1 DEF sent
          <6>3. msgs = <<>>
            BY <1>5, <6>2
          <6>4. mq'[x] = mq[x] \o msgs
            BY <1>4, <2>2, <5>1
          <6> QED BY <4>1, <6>3, <6>4
        <5>2. CASE x # d
          BY <1>4, <2>2, <4>1, <5>2
        <5> QED BY <5>1, <5>2
      <4>3. ~co[x].last_msg_sent
        BY <3>2 DEF IInv, Lives
      <4>4. Last1(<<>>, FALSE)
        BY DEF Last1
      <4>5. LastKept(<<>>, co[x].last_msg_sent, co[x].last_msg_observer)
        BY <4>3, <4>4 DEF LastKept
      <4> QED BY <3>1, <3>2, <4>2, <4>5 DEF LastMsgs, LastKept, Last1
    <3>3. CASE co[x].state # "NEW"
      <4>1. ASSUME co[x].state # "GONE"
            PROVE  LastKept(mq'[x], co[x].last_msg_sent, co[x].last_msg_observer)
        <5>1. LastKept(mq[x], co[x].last_msg_sent, co[x].last_msg_observer)
          BY <3>1, <4>1 DEF LastMsgs
        <5>2. \A p \in BOOLEAN : Last1(mq[x], p) => Last1(mq'[x], p)
          BY <1>7, <2>2
        <5> QED BY <5>1, <5>2, KeptAlong
      <4> QED BY <3>1, <3>3, <4>1 DEF LastMsgs, LastKept, Last1
    <3> QED BY <3>2, <3>3
  <2> QED BY <2>1, <2>2
<1>11. \A x \in Crtn : co'[x].curator = co[x].curator
  BY <1>1
<1>12. \A x \in Crtn : Tale(x)'
  <2> SUFFICES ASSUME NEW x \in Crtn PROVE Tale(x)'
    OBVIOUS
  <2>1. Exists(co[x].curator)' => Exists(co[x].curator)
    BY <1>11, ExistsKept
  <2>2. CASE x = c
    <3>1. TaleOf(s, t)
      BY DEF t, TaleAfter
    <3>2. co'[x] = s /\ told'[x] = t /\ s.curator = co[x].curator
      BY <1>1, <1>4, <2>2 DEF TypeOK
    <3> QED BY <2>1, <3>1, <3>2 DEF Tale, TaleOf, Story
  <2>3. CASE x # c
    <3>1. co'[x] = co[x] /\ told'[x] = told[x] /\ Tale(x)
      BY <1>1, <1>4, <2>3 DEF TypeOK, IInv
    <3> QED BY <2>1, <3>1 DEF Tale, TaleOf, Story
  <2> QED BY <2>2, <2>3
<1>13. \A x \in Crtn : Curated(x)'
  <2> SUFFICES ASSUME NEW x \in Crtn PROVE Curated(x)'
    OBVIOUS
  <2>1. Curated(x)
    BY DEF IInv
  <2>2. \A y \in Crtn : /\ co[y].state # "NEW" => co'[y].state # "NEW"
                        /\ y # c /\ co'[y].state = "GONE" => co[y].state = "GONE"
    BY <1>1
  <2>3. co'[x].curator \in Crtn => co'[co'[x].curator].state # "NEW"
    BY <1>11, <2>1, <2>2 DEF Curated
  <2>4. ASSUME co'[x].wait \in Crtn
        PROVE  /\ co'[co'[x].wait].curator = x
               /\ co'[co'[x].wait].state # "NEW"
               /\ co'[co'[x].wait].state = "GONE" => HasAnswer(x)'
    <3>1. PICK y \in Crtn : y = co'[x].wait
      BY <2>4
    <3>2. co[x].wait = y
      BY <1>1, <3>1
    <3>3. co[y].curator = x /\ co[y].state # "NEW"
      BY <2>1, <3>2 DEF Curated
    <3>4. co'[y].curator = x /\ co'[y].state # "NEW"
      BY <1>11, <2>2, <3>3
    <3>5. ASSUME co'[y].state = "GONE" PROVE HasAnswer(x)'
      <4>1. CASE x = c
        <5>1. y # c
          <6>1. s.wait # None
            BY <1>1, <3>1, <4>1, CoroutineAssumption
          <6>2. s.state = "STOPPED"
            BY <6>1 DEF Lives
          <6> QED BY <1>1, <3>5, <6>2
        <5>2. HasAnswer(c)
          BY <2>1, <2>2, <3>2, <3>5, <4>1, <5>1 DEF Curated
        <5>3. PICK i \in 1 .. Len(mq[c]) : WaitMatch(co[c], mq[c][i])
          BY <5>2 DEF HasAnswer
        <5>4. PICK j \in 1 .. Len(own) : own[j] = mq[c][i]
          BY <1>1, <3>1, <4>1, <5>3 DEF KeepsAnswers
        <5>5. mq'[c] = own /\ co'[c].wait = co[c].wait
          BY <1>1, <1>4, <3>1, <3>2, <4>1
        <5>6. WaitMatch(co'[c], own[j])
          BY <5>3, <5>4, <5>5 DEF WaitMatch
        <5> QED BY <4>1, <5>5, <5>6 DEF HasAnswer, WaitMatch
      <4>2. CASE x # c /\ y # c
        <5>1. HasAnswer(x)
          BY <2>1, <2>2, <3>2, <3>5, <4>2 DEF Curated
        <5>2. PICK i \in 1 .. Len(mq[x]) : WaitMatch(co[x], mq[x][i])
          BY <5>1 DEF HasAnswer
        <5>3. i \in 1 .. Len(mq'[x]) /\ mq'[x][i] = mq[x][i] /\ co'[x] = co[x]
          BY <1>1, <1>7, <4>2
        <5> QED BY <5>2, <5>3 DEF HasAnswer, WaitMatch
      <4>3. CASE x # c /\ y = c
        <5>1. s.state = "GONE" /\ d = x
          BY <1>1, <3>3, <3>5, <4>3
        <5>2. Exists(x)
          <6>1. co[x].wait # None
            BY <3>2, CoroutineAssumption
          <6>2. co[x].state = "STOPPED"
            BY <6>1 DEF IInv, Lives
          <6> QED BY <6>2 DEF Exists
        <5>3. sent = notes
          BY <5>1, <5>2 DEF sent
        <5>4. PICK j \in 1 .. Len(notes) : notes[j] \in {"success", "except"}
          BY <5>1 DEF HasResult
        <5>5. j \in 1 .. Len(msgs) /\ msgs[j] = [name |-> notes[j], from |-> c]
          BY <1>5, <5>3, <5>4
        <5>6. mq'[x] = mq[x] \o msgs
          BY <1>4, <4>3, <5>1
        <5>7. Len(mq[x]) + j \in 1 .. Len(mq'[x]) /\ mq'[x][Len(mq[x]) + j] = msgs[j]
          <6>1. mq[x] \in Seq(Messages) /\ msgs \in Seq(Messages)
            BY <1>5, <1>6
          <6>2. PICK u, v, w : u = mq[x] /\ v = msgs /\ w = mq'[x]
            OBVIOUS
          <6>3. Follows(u, v, w)
            BY <5>6, <6>1, <6>2, InSecond
          <6>4. j \in 1 .. Len(v)
            BY <5>5, <6>2
          <6>5. Len(u) + j \in 1 .. Len(w) /\ w[Len(u) + j] = v[j]
            BY <6>3, <6>4 DEF Follows
          <6> QED BY <6>2, <6>5
        <5>8. co'[x].wait = c /\ co'[x] = co[x]
          BY <1>1, <3>1, <4>3
        <5>9. Key(msgs[j]) = "callState" /\ msgs[j].from = c
          BY <5>4, <5>5 DEF Key
        <5>10. WaitMatch(co'[x], msgs[j])
          BY <5>8, <5>9 DEF WaitMatch
        <5> QED BY <5>7, <5>10 DEF HasAnswer, WaitMatch
      <4> QED BY <4>1, <4>2, <4>3
    <3> QED BY <3>1, <3>4, <3>5
  <2> QED BY <2>3, <2>4 DEF Curated
<1> QED BY <1>8, <1>9, <1>10, <1>12, <1>13 DEF IInv

-----------------------------------------------------------------------------
(* The steps of the coroutines. *)

LEMMA OneOf ==
    ASSUME IInv, NEW c \in Crtn
    PROVE  /\ co[c] \in Coroutines /\ Lives(co[c])
           /\ LastMsgs(c) /\ Tale(c) /\ Curated(c)
           /\ mq[c] \in Seq(Messages) /\ told[c] \in Seq(Notes)
BY DEF IInv, TypeOK

\* What a script does to its own coroutine.
LEMMA ScriptStep ==
    ASSUME IInv, NEW c \in Crtn,
           \/ \E o \in Observer : pcintr_register_observer(c, o)
           \/ \E k \in Forgettable : pcintr_revoke_observer_ex(c, k)
           \/ pcintr_set_exit(c)
           \/ Raise(c)
           \/ pcintr_yield(c)
    PROVE  IInv'
<1> DEFINE r == co[c]
<1>1. r \in Coroutines /\ Lives(r)
  BY OneOf
<1>2. ASSUME NEW o \in Observer, pcintr_register_observer(c, o)
      PROVE  IInv'
  <2> DEFINE s == [r EXCEPT !.hvml_observers = r.hvml_observers \cup {o}]
  <2>1. /\ r.state = "READY" /\ UNCHANGED <<mq, told>>
        /\ co' = [co EXCEPT ![c] = s]
    BY <1>2 DEF pcintr_register_observer, Becomes, Runs
  <2>2. IsFiniteSet(r.hvml_observers \cup {o})
    BY <1>1, FS_AddElement DEF Lives
  <2>3. /\ s \in Coroutines /\ s.state = r.state /\ s.stage = r.stage
        /\ s.exited = r.exited /\ s.except = r.except /\ s.failed = r.failed
        /\ s.last_msg_sent = r.last_msg_sent /\ s.last_msg_read = r.last_msg_read
        /\ s.last_msg_observer = r.last_msg_observer
        /\ s.wait = r.wait /\ s.curator = r.curator
        /\ s.hvml_observers = r.hvml_observers \cup {o}
    BY <1>1 DEF Coroutines
  <2> HIDE DEF s
  <2>4. Lives(s)
    BY <1>1, <2>2, <2>3 DEF Lives
  <2> QED BY <2>1, <2>3, <2>4, OwnStep
<1>3. ASSUME NEW k \in Forgettable, pcintr_revoke_observer_ex(c, k)
      PROVE  IInv'
  <2> DEFINE left == {x \in r.hvml_observers : x[1] # k}
             obs == r.last_msg_observer /\ k # "lastMsg"
             s == [r EXCEPT !.hvml_observers = left, !.last_msg_observer = obs]
  <2>1. /\ r.state = "READY" /\ UNCHANGED <<mq, told>>
        /\ co' = [co EXCEPT ![c] = s]
    BY <1>3 DEF pcintr_revoke_observer_ex, Becomes, Runs
  <2>2. IsFiniteSet(left) /\ left \subseteq Observer
    <3>1. left \subseteq r.hvml_observers
      OBVIOUS
    <3>2. IsFiniteSet(r.hvml_observers) /\ r.hvml_observers \subseteq Observer
      BY <1>1 DEF Lives, Coroutines
    <3> QED BY <3>1, <3>2, FS_Subset
  <2>5. obs \in BOOLEAN /\ (obs => r.last_msg_observer)
    OBVIOUS
  <2> HIDE DEF left, obs
  <2>3. /\ s \in Coroutines /\ s.state = r.state /\ s.stage = r.stage
        /\ s.exited = r.exited /\ s.except = r.except /\ s.failed = r.failed
        /\ s.last_msg_sent = r.last_msg_sent /\ s.last_msg_read = r.last_msg_read
        /\ s.last_msg_observer = obs
        /\ s.wait = r.wait /\ s.curator = r.curator
        /\ s.hvml_observers = left
    BY <1>1, <2>2, <2>5 DEF Coroutines
  <2> HIDE DEF s
  <2>4. Lives(s)
    BY <1>1, <2>2, <2>3 DEF Lives
  <2> QED BY <2>1, <2>3, <2>4, <2>5, OwnStep
<1>4. CASE pcintr_set_exit(c)
  <2> DEFINE s == [r EXCEPT !.exited = TRUE]
  <2>1. /\ r.state = "READY" /\ UNCHANGED <<mq, told>>
        /\ co' = [co EXCEPT ![c] = s]
    BY <1>4 DEF pcintr_set_exit, Becomes, Runs
  <2>2. /\ s \in Coroutines /\ s.state = r.state /\ s.stage = r.stage
        /\ s.exited = TRUE /\ s.except = r.except /\ s.failed = r.failed
        /\ s.last_msg_sent = r.last_msg_sent /\ s.last_msg_read = r.last_msg_read
        /\ s.last_msg_observer = r.last_msg_observer
        /\ s.wait = r.wait /\ s.curator = r.curator
        /\ s.hvml_observers = r.hvml_observers
    BY <1>1 DEF Coroutines
  <2> HIDE DEF s
  <2>3. Lives(s)
    BY <1>1, <2>1, <2>2 DEF Lives
  <2> QED BY <2>1, <2>2, <2>3, OwnStep
<1>5. CASE Raise(c)
  <2> DEFINE s == [r EXCEPT !.except = TRUE]
  <2>1. /\ r.state = "READY" /\ UNCHANGED <<mq, told>>
        /\ co' = [co EXCEPT ![c] = s]
    BY <1>5 DEF Raise, Becomes
  <2>2. /\ s \in Coroutines /\ s.state = r.state /\ s.stage = r.stage
        /\ s.exited = r.exited /\ s.failed = r.failed
        /\ s.last_msg_sent = r.last_msg_sent /\ s.last_msg_read = r.last_msg_read
        /\ s.last_msg_observer = r.last_msg_observer
        /\ s.wait = r.wait /\ s.curator = r.curator
        /\ s.hvml_observers = r.hvml_observers
    BY <1>1 DEF Coroutines
  <2> HIDE DEF s
  <2>3. Lives(s)
    BY <1>1, <2>1, <2>2 DEF Lives
  <2> QED BY <2>1, <2>2, <2>3, OwnStep
<1>6. CASE pcintr_yield(c)
  <2> DEFINE s == [r EXCEPT !.state = "STOPPED", !.wait = "reply"]
  <2>1. /\ r.state = "READY" /\ ~r.exited /\ ~r.except /\ UNCHANGED <<mq, told>>
        /\ co' = [co EXCEPT ![c] = s]
    BY <1>6 DEF pcintr_yield, Becomes, Runs
  <2>2. /\ s \in Coroutines /\ s.state = "STOPPED" /\ s.stage = r.stage
        /\ s.exited = r.exited /\ s.except = r.except /\ s.failed = r.failed
        /\ s.last_msg_sent = r.last_msg_sent /\ s.last_msg_read = r.last_msg_read
        /\ s.last_msg_observer = r.last_msg_observer
        /\ s.wait = "reply" /\ s.curator = r.curator
        /\ s.hvml_observers = r.hvml_observers
    BY <1>1 DEF Coroutines, States
  <2> HIDE DEF s
  <2>3. Lives(s)
    BY <1>1, <2>1, <2>2, CoroutineAssumption DEF Lives
  <2> QED BY <2>1, <2>2, <2>3, OwnStep
<1> QED BY <1>2, <1>3, <1>4, <1>5, <1>6

\* A child is created; its parent waits for it or goes on.
LEMMA ScheduleChild ==
    ASSUME IInv, NEW c \in Crtn, NEW d \in Crtn, NEW sync \in BOOLEAN,
           pcintr_schedule_child_co(c, d, sync)
    PROVE  IInv'
<1> DEFINE r == co[c]
           n == Created(c)
           s == [r EXCEPT !.state = IF sync THEN "STOPPED" ELSE @,
                          !.wait = IF sync THEN d ELSE @]
<1>1. /\ TypeOK /\ r \in Coroutines /\ Lives(r)
      /\ r.state = "READY" /\ ~r.exited /\ ~r.except /\ co[d].state = "NEW"
      /\ UNCHANGED <<mq, told>> /\ c # d /\ None \notin Crtn
  <2>1. r.state = "READY" /\ ~r.exited /\ ~r.except /\ co[d].state = "NEW"
    BY DEF pcintr_schedule_child_co, Runs
  <2>2. c # d
    BY <2>1
  <2> QED BY <2>1, <2>2, OneOf, CoroutineAssumption DEF pcintr_schedule_child_co, IInv
<1>2. /\ n \in Coroutines /\ n.state = "READY" /\ n.stage = "FIRST_RUN"
      /\ ~n.exited /\ ~n.except /\ ~n.failed /\ ~n.last_msg_sent
      /\ ~n.last_msg_read /\ n.hvml_observers = {} /\ n.wait = None
      /\ n.curator = c
  BY CreatedIs
<1>3. /\ s \in Coroutines /\ s.stage = r.stage
      /\ s.state = (IF sync THEN "STOPPED" ELSE "READY")
      /\ s.exited = r.exited /\ s.except = r.except /\ s.failed = r.failed
      /\ s.last_msg_sent = r.last_msg_sent /\ s.last_msg_read = r.last_msg_read
      /\ s.last_msg_observer = r.last_msg_observer
      /\ s.wait = (IF sync THEN d ELSE r.wait) /\ s.curator = r.curator
      /\ s.hvml_observers = r.hvml_observers
  <2>1. CASE sync
    <3>1. s = [r EXCEPT !.state = "STOPPED", !.wait = d]
      BY <2>1
    <3> HIDE DEF s
    <3>2. s \in Coroutines
      BY <1>1, <3>1 DEF Coroutines, States
    <3> QED BY <1>1, <2>1, <3>1, <3>2 DEF Coroutines
  <2>2. CASE ~sync
    <3>1. s = [r EXCEPT !.state = r.state, !.wait = r.wait]
      BY <2>2
    <3>2. s = r
      BY <1>1, <3>1 DEF Coroutines
    <3> HIDE DEF s
    <3> QED BY <1>1, <2>2, <3>2
  <2> QED BY <2>1, <2>2
<1>4. \A x \in Crtn : co'[x] = IF x = d THEN n ELSE IF x = c THEN s ELSE co[x]
  BY <1>1 DEF pcintr_schedule_child_co, TypeOK
<1>5. co' \in [Crtn -> Coroutines]
  <2>1. co' = [co EXCEPT ![d] = n, ![c].state = IF sync THEN "STOPPED" ELSE @,
                         ![c].wait = IF sync THEN d ELSE @]
    BY DEF pcintr_schedule_child_co
  <2>2. DOMAIN co' = Crtn /\ co' = [x \in Crtn |-> co'[x]]
    BY <1>1, <2>1 DEF TypeOK
  <2> HIDE DEF n, s
  <2>3. ASSUME NEW x \in Crtn PROVE co'[x] \in Coroutines
    <3>1. co[x] \in Coroutines
      BY <1>1 DEF TypeOK
    <3>2. co'[x] \in {n, s, co[x]}
      BY <1>4
    <3> QED BY <1>2, <1>3, <3>1, <3>2
  <2> QED BY <2>2, <2>3
<1> HIDE DEF n, s
<1>6. TypeOK'
  BY <1>1, <1>5 DEF TypeOK
<1>7. \A x \in Crtn : Lives(co[x])'
  <2>1. Lives(n)
    BY <1>1, <1>2, FS_EmptySet DEF Lives
  <2>2. Lives(s)
    BY <1>1, <1>3 DEF Lives
  <2>3. \A x \in Crtn : Lives(co[x])
    BY DEF IInv
  <2> SUFFICES ASSUME NEW x \in Crtn PROVE Lives(co[x])'
    OBVIOUS
  <2>4. CASE x = d
    <3>1. co'[x] = n
      BY <1>4, <2>4
    <3> QED BY <2>1, <3>1 DEF Lives
  <2>5. CASE x # d /\ x = c
    <3>1. co'[x] = s
      BY <1>4, <2>5
    <3> QED BY <2>2, <3>1 DEF Lives
  <2>6. CASE x # d /\ x # c
    <3>1. co'[x] = co[x]
      BY <1>4, <2>6
    <3> QED BY <2>3, <3>1 DEF Lives
  <2> QED BY <2>4, <2>5, <2>6
<1>8. \A x \in Crtn \ {d} :
         /\ co'[x].curator = co[x].curator /\ co'[x].stage = co[x].stage
         /\ co'[x].failed = co[x].failed
         /\ co'[x].last_msg_sent = co[x].last_msg_sent
         /\ co'[x].last_msg_observer = co[x].last_msg_observer
         /\ co[x].state = "GONE" <=> co'[x].state = "GONE"
         /\ co[x].state = "NEW" <=> co'[x].state = "NEW"
  BY <1>1, <1>3, <1>4
<1>9. \A x \in Crtn : LastMsgs(x)'
  <2> SUFFICES ASSUME NEW x \in Crtn PROVE LastMsgs(x)'
    OBVIOUS
  <2>1. LastMsgs(x) /\ mq' = mq
    BY <1>1 DEF IInv
  <2>2. CASE x = d
    <3>1. mq[x] = <<>>
      BY <1>1, <2>1, <2>2 DEF LastMsgs
    <3>2. co'[x] = n
      BY <1>4, <2>2
    <3>3. Last1(<<>>, FALSE)
      BY DEF Last1
    <3>4. LastKept(<<>>, n.last_msg_sent, n.last_msg_observer)
      BY <1>2, <3>3 DEF LastKept
    <3>5. mq'[x] = <<>>
      BY <2>1, <3>1
    <3> QED BY <3>2, <3>4, <3>5 DEF LastMsgs, LastKept, Last1
  <2>3. CASE x # d
    <3>1. x \in Crtn \ {d}
      BY <2>3
    <3> QED BY <1>8, <2>1, <3>1 DEF LastMsgs, LastKept, Last1
  <2> QED BY <2>2, <2>3
<1>10. \A x \in Crtn : Tale(x)'
  <2> SUFFICES ASSUME NEW x \in Crtn PROVE Tale(x)'
    OBVIOUS
  <2>1. Tale(x) /\ told' = told /\ Curated(x)
    BY <1>1 DEF IInv
  <2>2. CASE x = d
    <3>1. co[x].stage = "FIRST_RUN"
      BY <1>1, <2>2 DEF IInv, Lives
    <3>2. told[x] = <<>>
      BY <2>1, <3>1 DEF Tale, TaleOf
    <3>3. co'[x] = n
      BY <1>4, <2>2
    <3> QED BY <1>2, <2>1, <3>2, <3>3 DEF Tale, TaleOf
  <2>3. CASE x # d
    <3>1. x \in Crtn \ {d}
      BY <2>3
    <3>2. Exists(co[x].curator)' => Exists(co[x].curator)
      <4> SUFFICES ASSUME NEW y, y = co[x].curator, y \in Crtn,
                          co'[x].curator = y, co'[y].state \notin {"NEW", "GONE"}
                   PROVE  Exists(y)
        BY <1>8, <3>1 DEF Exists
      <4>1. co[y].state # "NEW"
        BY <2>1 DEF Curated
      <4>2. y # d
        BY <1>1, <4>1
      <4> QED BY <1>8, <4>1, <4>2 DEF Exists
    <3> QED BY <1>8, <2>1, <3>1, <3>2 DEF Tale, TaleOf, Story
  <2> QED BY <2>2, <2>3
<1>11. \A x \in Crtn : Curated(x)'
  <2> SUFFICES ASSUME NEW x \in Crtn PROVE Curated(x)'
    OBVIOUS
  <2>1. Curated(x) /\ mq' = mq
    BY <1>1 DEF IInv
  <2>2. \A y \in Crtn : co[y].state # "NEW" \/ y = d => co'[y].state # "NEW"
    BY <1>2, <1>4, <1>8
  <2>3. co'[x].curator \in Crtn => co'[co'[x].curator].state # "NEW"
    <3>1. CASE x = d
      BY <1>1, <1>2, <1>4, <2>2, <3>1
    <3>2. CASE x # d
      BY <1>8, <2>1, <2>2, <3>2 DEF Curated
    <3> QED BY <3>1, <3>2
  <2>4. ASSUME co'[x].wait \in Crtn
        PROVE  /\ co'[co'[x].wait].curator = x
               /\ co'[co'[x].wait].state # "NEW"
               /\ co'[co'[x].wait].state = "GONE" => HasAnswer(x)'
    <3>1. x # d
      BY <1>1, <1>2, <1>4, <2>4
    <3>2. CASE x = c /\ sync
      <4>1. co'[x].wait = d
        BY <1>3, <1>4, <3>1, <3>2
      <4>2. co'[d] = n
        BY <1>4
      <4> QED BY <1>2, <3>2, <4>1, <4>2
    <3>3. CASE ~(x = c /\ sync)
      <4>1. co'[x].wait = co[x].wait
        BY <1>3, <1>4, <3>1, <3>3
      <4>2. PICK y \in Crtn : y = co[x].wait
        BY <2>4, <4>1
      <4>3. co[y].curator = x /\ co[y].state # "NEW"
        BY <2>1, <4>2 DEF Curated
      <4>4. y # d
        BY <1>1, <4>3
      <4>5. co'[y].curator = x /\ co'[y].state # "NEW"
        BY <1>8, <4>3, <4>4
      <4>6. co'[y].state = "GONE" => HasAnswer(x)
        BY <1>8, <2>1, <4>2, <4>4 DEF Curated
      <4>7. HasAnswer(x) => HasAnswer(x)'
        BY <2>1, <4>1 DEF HasAnswer, WaitMatch
      <4> QED BY <4>1, <4>2, <4>5, <4>6, <4>7
    <3> QED BY <3>2, <3>3
  <2> QED BY <2>3, <2>4 DEF Curated
<1> QED BY <1>6, <1>7, <1>9, <1>10, <1>11 DEF IInv

\* The end of a run, before the last message has been read.
LEMMA FinishIs ==
    ASSUME NEW r \in Coroutines, NEW s, s = AfterRun(r),
           ~r.failed, ~r.last_msg_read, r.wait = None
    PROVE  /\ s \in Coroutines /\ s.stage = "OBSERVING"
           /\ Exits(r) => s.state = "EXITED"
           /\ ~Exits(r) => s.state = "OBSERVING"
           /\ s.except = FALSE
           /\ s.failed <=> r.except
           /\ Exits(r) => s.hvml_observers = {}
           /\ ~Exits(r) => s.hvml_observers = r.hvml_observers
           /\ s.exited <=> Exits(r) \/ s.hvml_observers = {}
           /\ s.last_msg_sent <=> r.last_msg_sent \/ s.hvml_observers = {}
           /\ s.last_msg_observer = r.last_msg_observer
           /\ ~s.last_msg_read /\ s.wait = None /\ s.curator = r.curator
<1>1. s \in Coroutines /\ s.stage = "OBSERVING" /\ s.except = FALSE
  BY AfterRunIs
<1>2. /\ s.wait = r.wait /\ s.curator = r.curator
      /\ s.last_msg_read = r.last_msg_read
      /\ s.last_msg_observer = r.last_msg_observer
  BY AfterRunIs
<1>3. /\ ~(r.except /\ r.failed) /\ Exits(r) => s.state = "EXITED"
      /\ ~(r.except /\ r.failed) /\ ~Exits(r) => s.state = "OBSERVING"
  BY AfterRunIs
<1>4. /\ Exits(r) => s.hvml_observers = {}
      /\ ~Exits(r) => s.hvml_observers = r.hvml_observers
  BY AfterRunIs
<1>5. s.failed <=> r.failed \/ r.except
  BY AfterRunIs
<1>6. s.exited <=> Exits(r) \/ s.hvml_observers = {}
  BY AfterRunIs
<1>7. s.last_msg_sent <=> r.last_msg_sent \/ s.hvml_observers = {}
  BY AfterRunIs
<1>8. /\ Exits(r) => s.state = "EXITED"
      /\ ~Exits(r) => s.state = "OBSERVING"
  BY <1>3
<1>9. ~s.last_msg_read /\ s.wait = None
  BY <1>2
<1>10. s.failed <=> r.except
  BY <1>5
<1> QED BY <1>1, <1>2, <1>4, <1>6, <1>7, <1>8, <1>9, <1>10

\* A run is over.
LEMMA FinishStep ==
    ASSUME IInv, NEW c \in Crtn, Finish(c),
           NEW r, r = co[c], NEW s, s = AfterRun(r)
    PROVE  IInv'
<1> DEFINE own   == IF SendsLast(r) THEN Append(mq[c], LastMsg) ELSE mq[c]
           notes == NotesAfterRun(r)
           t     == IF Exists(s.curator) THEN told[c] \o notes ELSE told[c]
<1>1. /\ r.state = "READY" /\ co' = [co EXCEPT ![c] = s]
      /\ PostAll(c, own, notes)
  BY DEF Finish
<1>2. /\ r \in Coroutines /\ Lives(r) /\ LastMsgs(c) /\ Tale(c)
      /\ mq[c] \in Seq(Messages)
  BY OneOf
<1>3. /\ ~r.failed /\ ~r.last_msg_read /\ r.wait = None
      /\ r.last_msg_sent => r.exited
      /\ IsFiniteSet(r.hvml_observers)
      /\ LastKept(mq[c], r.last_msg_sent, r.last_msg_observer)
  BY <1>1, <1>2 DEF Lives, LastMsgs
<1>4. /\ s \in Coroutines /\ s.stage = "OBSERVING"
      /\ Exits(r) => s.state = "EXITED"
      /\ ~Exits(r) => s.state = "OBSERVING"
      /\ s.except = FALSE
      /\ s.failed <=> r.except
      /\ Exits(r) => s.hvml_observers = {}
      /\ ~Exits(r) => s.hvml_observers = r.hvml_observers
      /\ s.exited <=> Exits(r) \/ s.hvml_observers = {}
      /\ s.last_msg_sent <=> r.last_msg_sent \/ s.hvml_observers = {}
      /\ s.last_msg_observer = r.last_msg_observer
      /\ ~s.last_msg_read /\ s.wait = None /\ s.curator = r.curator
  <2>1. r \in Coroutines /\ ~r.failed /\ ~r.last_msg_read /\ r.wait = None
    BY <1>2, <1>3
  <2> QED BY <2>1, FinishIs
<1>5. SendsLast(r) <=> s.last_msg_sent /\ ~r.last_msg_sent
  BY DEF SendsLast
<1>6. notes = IF r.stage # "OBSERVING" THEN <<"observing">> ELSE <<>>
  <2>1. CASE r.stage # "OBSERVING"
    <3>1. notes = <<"observing">> \o <<>>
      BY <1>3, <2>1 DEF NotesAfterRun
    <3> QED BY <2>1, <3>1
  <2>2. CASE r.stage = "OBSERVING"
    <3>1. notes = <<>> \o <<>>
      BY <1>3, <2>2 DEF NotesAfterRun
    <3> QED BY <2>2, <3>1
  <2> QED BY <2>1, <2>2
<1> HIDE DEF notes
<1>7. Lives(s)
  <2>1. IsFiniteSet(s.hvml_observers)
    BY <1>3, <1>4, FS_EmptySet
  <2>2. Exits(r) <=> r.exited \/ r.except
    BY DEF Exits
  <2> QED BY <1>3, <1>4, <2>1, <2>2, CoroutineAssumption DEF Lives
<1>8. notes \in Seq(Notes)
  <2>1. <<"observing">> \in Seq(Notes) /\ <<>> \in Seq(Notes)
    BY DEF Notes
  <2> QED BY <1>6, <2>1
<1>9. own \in Seq(Messages) /\ LastKept(own, s.last_msg_sent, s.last_msg_observer)
  <2>1. LastMsg \in Messages /\ LastMsg.name = "lastMsg"
    BY DEF LastMsg, Messages
  <2>2. CASE SendsLast(r)
    <3>1. PICK p \in BOOLEAN : Last1(mq[c], p) /\ (p => r.last_msg_sent)
      BY <1>3 DEF LastKept
    <3>2. ~p /\ s.last_msg_sent
      BY <1>5, <2>2, <3>1
    <3>3. Append(mq[c], LastMsg) \in Seq(Messages) /\ Last1(Append(mq[c], LastMsg), TRUE)
      BY <1>2, <2>1, <3>1, <3>2, LastAppend
    <3>4. own = Append(mq[c], LastMsg)
      BY <2>2
    <3>5. own \in Seq(Messages) /\ Last1(own, TRUE)
      BY <3>3, <3>4
    <3> HIDE DEF own
    <3> QED BY <3>2, <3>5 DEF LastKept
  <2>3. CASE ~SendsLast(r)
    <3>1. own = mq[c] /\ (s.last_msg_sent <=> r.last_msg_sent)
      BY <1>4, <1>5, <2>3
    <3>2. s.last_msg_observer = r.last_msg_observer
      BY <1>4
    <3> HIDE DEF own
    <3> QED BY <1>2, <1>3, <3>1, <3>2 DEF LastKept
  <2> QED BY <2>2, <2>3
<1> HIDE DEF own
<1>10. TaleAfter(c, s, notes)
  <2> SUFFICES TaleOf(s, t)
    BY DEF TaleAfter
  <2>1. CASE r.stage = "FIRST_RUN"
    <3>1. told[c] = <<>> /\ notes = <<"observing">>
      BY <1>2, <1>6, <2>1 DEF Tale, TaleOf
    <3>2. t = IF Exists(s.curator) THEN <<"observing">> ELSE <<>>
      BY <3>1
    <3> HIDE DEF t
    <3> QED BY <1>4, <3>2 DEF TaleOf
  <2>2. CASE r.stage = "OBSERVING"
    <3>1. notes = <<>>
      BY <1>6, <2>2
    <3>2. t = told[c]
      BY <1>2, <3>1, OneOf
    <3> HIDE DEF t
    <3>3. told[c] = <<"observing">> \/ (told[c] = <<>> /\ ~Exists(r.curator))
      BY <1>1, <1>2, <2>2 DEF Tale, TaleOf
    <3> QED BY <1>4, <3>2, <3>3 DEF TaleOf
  <2> QED BY <1>2, <2>1, <2>2 DEF Coroutines
<1>11. s.wait \notin Crtn /\ s.state \notin {"NEW", "GONE"}
  BY <1>4, CoroutineAssumption
<1> QED
  BY <1>1, <1>4, <1>7, <1>8, <1>9, <1>10, <1>11, PostStep

\* The messages behind the first one.
Others(q) == Tail(q)

\* The messages of q other than m are in u.
KeptBut(q, m, u) ==
    \A i \in 1 .. Len(q) : q[i] # m => \E j \in 1 .. Len(u) : u[j] = q[i]

\* What the queue has of the last message when m was taken from it.
FirstKept(r, m, u, v) ==
    /\ m.name = "lastMsg" => r.last_msg_sent /\ Last1(u, FALSE)
    /\ m.name # "lastMsg" =>
          /\ LastKept(u, r.last_msg_sent, r.last_msg_observer)
          /\ LastKept(v, r.last_msg_sent, r.last_msg_observer)

\* The first message of what is pending.
LEMMA FirstPending ==
    ASSUME IInv, NEW c \in Crtn, NEW r, r = co[c], r.state # "GONE",
           NEW q, q = Pending(r, mq[c]), q # <<>>, NEW m, m = Head(q),
           NEW u, u = Others(q), NEW v, v = PutBack(u, m)
    PROVE  /\ q \in Seq(Messages) /\ m \in Messages
           /\ u \in Seq(Messages) /\ v \in Seq(Messages)
           /\ FirstKept(r, m, u, v)
           /\ ~r.exited => q = mq[c]
           /\ KeptBut(q, m, u) /\ KeptBut(q, m, v)
<1> DEFINE w == mq[c]
<1>1. r \in Coroutines /\ w \in Seq(Messages) /\ LastMsgs(c)
  BY OneOf
<1>2. q \in Seq(Messages) /\ (~r.exited => q = w) /\ DropsOthers(w, q)
  <2>1. q = Pending(r, w)
    OBVIOUS
  <2> HIDE DEF w
  <2> QED BY <1>1, <2>1, PendingList
<1>3. /\ m \in Messages /\ m = q[1] /\ u \in Seq(Messages) /\ Len(u) = Len(q) - 1
      /\ \A i \in 1 .. Len(u) : u[i] = q[i + 1]
  <2>1. u = Tail(q)
    BY DEF Others
  <2> QED BY <1>2, <2>1, HeadTailProperties
<1>4. Len(q) \in Nat \ {0} /\ Len(w) \in Nat
  BY <1>1, <1>2, EmptySeq
<1>5. /\ v \in Seq(Messages) /\ Len(v) = Len(u) + 1
      /\ \A i \in 1 .. Len(u) : v[i] = u[i]
  <2>1. v = Append(u, m)
    BY DEF PutBack
  <2>2. /\ Append(u, m) \in Seq(Messages) /\ Len(Append(u, m)) = Len(u) + 1
        /\ \A i \in 1 .. Len(u) : Append(u, m)[i] = u[i]
    BY <1>3, AppendProperties
  <2> QED BY <2>1, <2>2
<1>6. \A i \in 1 .. Len(q) : i # 1 => i - 1 \in 1 .. Len(u) /\ (i - 1) + 1 = i
  BY <1>3, <1>4
<1>7. ASSUME NEW i \in 1 .. Len(q), q[i] # m
      PROVE  /\ \E j \in 1 .. Len(u) : u[j] = q[i]
             /\ \E j \in 1 .. Len(v) : v[j] = q[i]
  <2>1. i # 1
    BY <1>3, <1>7
  <2>2. i - 1 \in 1 .. Len(u) /\ u[i - 1] = q[i]
    BY <1>3, <1>6, <2>1
  <2>3. i - 1 \in 1 .. Len(v) /\ v[i - 1] = q[i]
    BY <1>5, <2>2
  <2> QED BY <2>2, <2>3
<1>8. PICK p \in BOOLEAN : /\ Last1(w, p) /\ (p => r.last_msg_sent)
                           /\ r.last_msg_sent /\ r.last_msg_observer => p
  BY <1>1 DEF LastMsgs, LastKept
<1>9. Last1(q, p)
  BY <1>1, <1>2, <1>8, LastDrop DEF DropsOthers
<1>10. m.name = "lastMsg" => p
  BY <1>3, <1>4, <1>9 DEF Last1
<1>11. ASSUME m.name # "lastMsg" PROVE Last1(u, p) /\ Last1(v, p)
  <2>1. 1 \in 0 .. Len(q) /\ \A i \in 1 .. 1 : q[i].name # "lastMsg"
    BY <1>3, <1>4, <1>11
  <2>2. Len(u) = Len(q) - 1 /\ \A i \in 1 .. Len(u) : u[i] = q[i + 1]
    BY <1>3
  <2>3. q \in Seq(Messages) /\ u \in Seq(Messages)
    BY <1>2, <1>3
  <2>4. Last1(u, p)
    BY <1>9, <2>1, <2>2, <2>3, LastDrop
  <2>5. v = Append(u, m)
    BY DEF PutBack
  <2> QED BY <1>3, <1>11, <2>4, <2>5, LastAppend
<1>12. ~r.exited => q = mq[c]
  BY <1>2
<1>13. m.name = "lastMsg" => r.last_msg_sent
  BY <1>8, <1>10
<1>14. m.name # "lastMsg" =>
          /\ LastKept(u, r.last_msg_sent, r.last_msg_observer)
          /\ LastKept(v, r.last_msg_sent, r.last_msg_observer)
  BY <1>8, <1>11 DEF LastKept
<1>16. ASSUME m.name = "lastMsg" PROVE Last1(u, FALSE)
  <2>1. PICK i \in 1 .. Len(q) : \A j \in 1 .. Len(q) : q[j].name = "lastMsg" => j = i
    BY <1>9, <1>10, <1>16 DEF Last1
  <2>2. 1 = i
    BY <1>3, <1>4, <1>16, <2>1
  <2>3. \A j \in 1 .. Len(u) : j + 1 \in 1 .. Len(q) /\ j + 1 # 1 /\ u[j] = q[j + 1]
    BY <1>3, <1>4
  <2>4. \A j \in 1 .. Len(u) : u[j].name # "lastMsg"
    BY <2>1, <2>2, <2>3
  <2> QED BY <2>4 DEF Last1
<1>15. KeptBut(q, m, u) /\ KeptBut(q, m, v)
  BY <1>7 DEF KeptBut
<1>17. FirstKept(r, m, u, v)
  BY <1>13, <1>14, <1>16 DEF FirstKept
<1> QED BY <1>2, <1>3, <1>5, <1>12, <1>15, <1>17

\* Without notes, a coroutine that may start a task, and does nothing else,
\* stays in its story.
LEMMA StaysInStory ==
    ASSUME IInv, NEW c \in Crtn, NEW r, r = co[c],
           r.state \in {"STOPPED", "OBSERVING", "EXITED"},
           NEW s \in Coroutines,
           s.stage = r.stage, s.exited = r.exited, s.except = r.except,
           s.failed = r.failed, s.last_msg_sent = r.last_msg_sent,
           s.last_msg_read = r.last_msg_read, s.wait = r.wait,
           s.hvml_observers = r.hvml_observers, s.curator = r.curator,
           s.state = r.state \/ (r.state = "OBSERVING" /\ s.state = "READY")
    PROVE  /\ Lives(s) /\ s.state \notin {"NEW", "GONE"}
           /\ TaleAfter(c, s, <<>>)
<1>1. Lives(r) /\ Tale(c) /\ told[c] \in Seq(Notes)
  BY OneOf
<1>2. Lives(s)
  BY <1>1 DEF Lives
<1>3. told[c] \o <<>> = told[c]
  BY <1>1
<1>4. PICK t : t = told[c]
  OBVIOUS
<1>5. TaleOf(r, t)
  BY <1>1, <1>4 DEF Tale
<1>6. (IF Exists(s.curator) THEN told[c] \o <<>> ELSE told[c]) = t
  BY <1>3, <1>4
<1>7. TaleOf(s, t)
  BY <1>5 DEF TaleOf, Story
<1>8. s.state \notin {"NEW", "GONE"}
  OBVIOUS
<1>9. TaleAfter(c, s, <<>>)
  BY <1>6, <1>7 DEF TaleAfter
<1> QED BY <1>2, <1>8, <1>9

\* The end of the story of a coroutine.
LEMMA EndOfStory ==
    ASSUME NEW res \in {"success", "except"}
    PROVE  /\ <<res, "exited">> \o <<"subExit">> = <<res, "exited", "subExit">>
           /\ <<"observing">> \o <<res, "exited", "subExit">>
                = <<"observing", res, "exited", "subExit">>
<1> DEFINE a == <<res, "exited">>
           b == <<"subExit">>
           c == <<res, "exited", "subExit">>
           d == <<"observing">>
           e == <<"observing", res, "exited", "subExit">>
<1>1. /\ a \in Seq(Notes) /\ b \in Seq(Notes) /\ c \in Seq(Notes)
      /\ d \in Seq(Notes) /\ e \in Seq(Notes)
  BY DEF Notes
<1>2. /\ Len(a) = 2 /\ a[1] = res /\ a[2] = "exited"
      /\ Len(b) = 1 /\ b[1] = "subExit"
      /\ Len(c) = 3 /\ c[1] = res /\ c[2] = "exited" /\ c[3] = "subExit"
      /\ Len(d) = 1 /\ d[1] = "observing"
      /\ Len(e) = 4 /\ e[1] = "observing" /\ e[2] = res /\ e[3] = "exited"
      /\ e[4] = "subExit"
  OBVIOUS
<1> HIDE DEF a, b, c, d, e
<1>3. /\ a \o b \in Seq(Notes) /\ Len(a \o b) = 3
      /\ (a \o b)[1] = res /\ (a \o b)[2] = "exited" /\ (a \o b)[3] = "subExit"
  <2>1. /\ a \o b \in Seq(Notes) /\ Len(a \o b) = Len(a) + Len(b)
        /\ \A i \in 1 .. Len(a) + Len(b) :
              (a \o b)[i] = IF i <= Len(a) THEN a[i] ELSE b[i - Len(a)]
    BY <1>1, ConcatProperties
  <2>2. 1 \in 1 .. 3 /\ 2 \in 1 .. 3 /\ 3 \in 1 .. 3
    OBVIOUS
  <2> QED BY <1>2, <2>1, <2>2
<1>4. /\ d \o c \in Seq(Notes) /\ Len(d \o c) = 4
      /\ (d \o c)[1] = "observing" /\ (d \o c)[2] = res
      /\ (d \o c)[3] = "exited" /\ (d \o c)[4] = "subExit"
  <2>1. /\ d \o c \in Seq(Notes) /\ Len(d \o c) = Len(d) + Len(c)
        /\ \A i \in 1 .. Len(d) + Len(c) :
              (d \o c)[i] = IF i <= Len(d) THEN d[i] ELSE c[i - Len(d)]
    BY <1>1, ConcatProperties
  <2>2. 1 \in 1 .. 4 /\ 2 \in 1 .. 4 /\ 3 \in 1 .. 4 /\ 4 \in 1 .. 4
    OBVIOUS
  <2> QED BY <1>2, <2>1, <2>2
<1>5. a \o b = c
  <2>1. \A i \in 1 .. 3 : (a \o b)[i] = c[i]
    BY <1>2, <1>3
  <2> QED BY <1>1, <1>2, <1>3, <2>1, SeqEqual
<1>6. d \o c = e
  <2>1. \A i \in 1 .. 4 : (d \o c)[i] = e[i]
    BY <1>2, <1>4
  <2> QED BY <1>1, <1>2, <1>4, <2>1, SeqEqual
<1> QED BY <1>5, <1>6 DEF a, b, c, d, e

\* Who is destroyed keeps its other fields.
LEMMA GoneIs ==
    ASSUME NEW r \in Coroutines, NEW s, s = [r EXCEPT !.state = "GONE", !.tasks = 0]
    PROVE  /\ s \in Coroutines /\ s.state = "GONE" /\ s.stage = r.stage
           /\ s.exited = r.exited /\ s.except = r.except /\ s.failed = r.failed
           /\ s.last_msg_sent = r.last_msg_sent
           /\ s.last_msg_read = r.last_msg_read
           /\ s.wait = r.wait /\ s.curator = r.curator
           /\ s.hvml_observers = r.hvml_observers
<1>1. s \in Coroutines
  BY DEF Coroutines, States
<1> QED BY <1>1 DEF Coroutines

\* The last message is read: the coroutine tells the end of its story and is
\* destroyed.
LEMMA LastIs ==
    ASSUME NEW r \in Coroutines, Lives(r), r.state \in {"OBSERVING", "EXITED"},
           r.exited, NEW r1, r1 = Reads(r),
           NEW s1, s1 = AfterRun(r1), NEW s, s = AfterExiting(s1),
           NEW res, res = IF r.failed THEN "except" ELSE "success"
    PROVE  /\ StartTask(s1) = s1 /\ Dies(s1) /\ ~Watching(s1)
           /\ s \in Coroutines /\ Lives(s) /\ s.state = "GONE"
           /\ s.stage = "OBSERVING" /\ s.wait = None /\ s.curator = r.curator
           /\ s.failed <=> r.failed
           /\ NotesAfterRun(r1) = <<res, "exited">>
<1>1. /\ r1 \in Coroutines /\ r1.last_msg_read = TRUE
      /\ r1.stage = r.stage /\ r1.state = r.state /\ r1.exited = r.exited
      /\ r1.except = r.except /\ r1.failed = r.failed /\ r1.wait = r.wait
      /\ r1.hvml_observers = r.hvml_observers /\ r1.curator = r.curator
      /\ r1.last_msg_sent = r.last_msg_sent
  BY DEF Coroutines, Reads
<1>2. ~r.except /\ r.wait = None /\ r.stage = "OBSERVING"
  BY DEF Lives
<1>3. Exits(r1) /\ ~(r1.except /\ r1.failed)
  BY <1>1, <1>2 DEF Exits
<1>4. s1 \in Coroutines /\ s1.stage = "OBSERVING"
  BY <1>1, AfterRunIs
<1>5. s1.state = "EXITED" /\ s1.hvml_observers = {}
  BY <1>1, <1>3, AfterRunIs
<1>6. s1.last_msg_read = r1.last_msg_read /\ s1.wait = r1.wait /\ s1.curator = r1.curator
  BY <1>1, AfterRunIs
<1>7. s1.exited <=> Exits(r1) \/ s1.hvml_observers = {}
  BY <1>1, AfterRunIs
<1>8. s1.failed <=> r1.failed \/ r1.except
  BY <1>1, AfterRunIs
<1>9. ~Watching(s1) /\ StartTask(s1) = s1
  BY <1>5 DEF Watching, StartTask
<1>10. Dies(s1)
  BY <1>1, <1>3, <1>6, <1>7 DEF Dies
<1>11. s = [s1 EXCEPT !.state = "GONE", !.tasks = 0]
  BY <1>5, <1>10 DEF AfterExiting
<1>12. /\ s \in Coroutines /\ s.state = "GONE" /\ s.stage = s1.stage
       /\ s.exited = s1.exited /\ s.except = s1.except /\ s.failed = s1.failed
       /\ s.last_msg_sent = s1.last_msg_sent /\ s.last_msg_read = s1.last_msg_read
       /\ s.wait = s1.wait /\ s.curator = s1.curator
       /\ s.hvml_observers = s1.hvml_observers
  <2>1. s \in Coroutines /\ s.state = "GONE" /\ s.stage = s1.stage
    BY <1>4, <1>11, GoneIs
  <2>2. s.exited = s1.exited /\ s.except = s1.except /\ s.failed = s1.failed
    BY <1>4, <1>11, GoneIs
  <2>3. /\ s.last_msg_sent = s1.last_msg_sent
        /\ s.last_msg_read = s1.last_msg_read
    BY <1>4, <1>11, GoneIs
  <2>4. /\ s.wait = s1.wait /\ s.curator = s1.curator
        /\ s.hvml_observers = s1.hvml_observers
    BY <1>4, <1>11, GoneIs
  <2> QED BY <2>1, <2>2, <2>3, <2>4
<1>13. Lives(s)
  <2>1. s.exited
    BY <1>3, <1>7, <1>12
  <2>2. IsFiniteSet(s.hvml_observers)
    BY <1>5, <1>12, FS_EmptySet
  <2>3. s.wait = None /\ s.stage = "OBSERVING" /\ s.state = "GONE"
    BY <1>1, <1>2, <1>4, <1>6, <1>12
  <2> QED BY <2>1, <2>2, <2>3 DEF Lives
<1>14. NotesAfterRun(r1) = <<res, "exited">>
  <2>1. NotesAfterRun(r1) = <<>> \o <<res, "exited">>
    BY <1>1, <1>2 DEF NotesAfterRun
  <2> QED BY <2>1
<1>15. s.failed <=> r.failed
  BY <1>1, <1>2, <1>8, <1>12
<1>16. s.wait = None /\ s.curator = r.curator /\ s.stage = "OBSERVING"
  BY <1>1, <1>2, <1>4, <1>6, <1>12
<1> QED BY <1>9, <1>10, <1>12, <1>13, <1>14, <1>15, <1>16

\* One turn with the first pending message.
LEMMA MessageStep ==
    ASSUME IInv, NEW c \in Crtn, NEW r, r = co[c],
           NEW q, q = Pending(r, mq[c]), q # <<>>, NEW m, m = Head(q),
           r.state \in {"STOPPED", "OBSERVING", "EXITED"},
           NEW caught \in BOOLEAN, HandleMessage(c, q, m, caught),
           NEW u, u = Others(q), NEW v, v = PutBack(u, m)
    PROVE  IInv'
<1> DEFINE in    == AfterInner(r, m, caught)
           hit   == Hits(in, m)
           out   == IF Watching(in)
                    THEN StartTask([in EXCEPT !.tasks = @ + Cardinality(hit)])
                    ELSE StartTask(in)
           done  == LastHandled(r, m) \/ WaitHandled(r, m)
                      \/ (hit # {} /\ Watching(in))
           match == LastMatch(r, m) \/ WaitMatch(r, m) \/ hit # {}
           rest  == IF ~done /\ match THEN PutBack(u, m) ELSE u
           first == IF LastHandled(r, m)
                    THEN NotesAfterRun(Reads(r)) ELSE <<>>
           own   == IF Dies(out) THEN <<>> ELSE rest
           notes == first \o IF Dies(out) THEN <<"subExit">> ELSE <<>>
<1>1. /\ co' = [co EXCEPT ![c] = AfterExiting(out)]
      /\ PostAll(c, own, notes)
  <2>1. u = Tail(q)
    BY DEF Others
  <2>2. out = AfterScript(in, m)
    BY DEF AfterScript
  <2> HIDE DEF in
  <2>3. in = AfterInner(co[c], m, caught)
    BY DEF in
  <2> QED BY <2>1, <2>2, <2>3 DEF HandleMessage
<1>2. /\ r \in Coroutines /\ Lives(r) /\ LastMsgs(c) /\ Tale(c)
      /\ mq[c] \in Seq(Messages) /\ told[c] \in Seq(Notes)
  BY OneOf
<1>3. /\ q \in Seq(Messages) /\ m \in Messages
      /\ u \in Seq(Messages) /\ v \in Seq(Messages)
      /\ m.name = "lastMsg" => r.last_msg_sent /\ Last1(u, FALSE)
      /\ m.name # "lastMsg" =>
            /\ LastKept(u, r.last_msg_sent, r.last_msg_observer)
            /\ LastKept(v, r.last_msg_sent, r.last_msg_observer)
      /\ ~r.exited => q = mq[c]
      /\ KeptBut(q, m, u) /\ KeptBut(q, m, v)
  <2>1. r.state # "GONE"
    OBVIOUS
  <2>2. q \in Seq(Messages) /\ m \in Messages
    BY <2>1, FirstPending
  <2>3. u \in Seq(Messages) /\ v \in Seq(Messages)
    BY <2>1, FirstPending
  <2>4. FirstKept(r, m, u, v)
    BY <2>1, FirstPending
  <2>5. /\ m.name = "lastMsg" => r.last_msg_sent /\ Last1(u, FALSE)
        /\ m.name # "lastMsg" =>
              /\ LastKept(u, r.last_msg_sent, r.last_msg_observer)
              /\ LastKept(v, r.last_msg_sent, r.last_msg_observer)
    BY <2>4 DEF FirstKept
  <2>6. ~r.exited => q = mq[c]
    BY <2>1, FirstPending
  <2>7. KeptBut(q, m, u) /\ KeptBut(q, m, v)
    BY <2>1, FirstPending
  <2> QED BY <2>2, <2>3, <2>4, <2>5, <2>6, <2>7
<1>4. <<>> \in Seq(Messages) /\ <<>> \in Seq(Notes) /\ <<>> \o <<>> = <<>>
  OBVIOUS
<1>5. CASE LastHandled(r, m)
  <2>1. r.state \in {"OBSERVING", "EXITED"} /\ r.exited
    BY <1>2, <1>3, <1>5 DEF LastHandled, LastMatch, Lives
  <2>2. PICK r1 : r1 = Reads(r)
    OBVIOUS
  <2>3. PICK s1 : s1 = AfterRun(r1)
    OBVIOUS
  <2>4. PICK s : s = AfterExiting(s1)
    OBVIOUS
  <2>5. PICK res : res = IF r.failed THEN "except" ELSE "success"
    OBVIOUS
  <2>6. StartTask(s1) = s1 /\ Dies(s1) /\ ~Watching(s1)
    BY <1>2, <2>1, <2>2, <2>3, <2>4, <2>5, LastIs
  <2>7. /\ s \in Coroutines /\ Lives(s) /\ s.state = "GONE"
        /\ s.stage = "OBSERVING" /\ s.wait = None /\ s.curator = r.curator
        /\ s.failed <=> r.failed
        /\ NotesAfterRun(r1) = <<res, "exited">>
    <3>1. s \in Coroutines /\ Lives(s) /\ s.state = "GONE"
      BY <1>2, <2>1, <2>2, <2>3, <2>4, <2>5, LastIs
    <3>2. s.stage = "OBSERVING" /\ s.wait = None /\ s.curator = r.curator
      BY <1>2, <2>1, <2>2, <2>3, <2>4, <2>5, LastIs
    <3>3. s.failed <=> r.failed
      BY <1>2, <2>1, <2>2, <2>3, <2>4, <2>5, LastIs
    <3>4. NotesAfterRun(r1) = <<res, "exited">>
      BY <1>2, <2>1, <2>2, <2>3, <2>4, <2>5, LastIs
    <3> QED BY <3>1, <3>2, <3>3, <3>4
  <2>8. in = s1
    BY <1>5, <2>2, <2>3 DEF AfterInner
  <2>9. out = s1
    BY <2>6, <2>8
  <2>10. co' = [co EXCEPT ![c] = s] /\ own = <<>>
    BY <1>1, <2>4, <2>6, <2>9
  <2>11. notes = <<res, "exited", "subExit">>
    <3>1. first = <<res, "exited">>
      BY <1>5, <2>2, <2>7
    <3>2. notes = first \o <<"subExit">>
      BY <2>6, <2>9
    <3> HIDE DEF first, notes
    <3> QED BY <2>5, <3>1, <3>2, EndOfStory
  <2> HIDE DEF own, notes
  <2>12. notes \in Seq(Notes) /\ 1 \in 1 .. Len(notes) /\ notes[1] = res
    BY <2>5, <2>11 DEF Notes
  <2>13. TaleAfter(c, s, notes)
    <3> SUFFICES TaleOf(s, IF Exists(s.curator) THEN told[c] \o notes ELSE told[c])
      BY DEF TaleAfter
    <3>1. PICK t : t = told[c]
      OBVIOUS
    <3>2. t = <<"observing">> \/ (t = <<>> /\ ~Exists(r.curator))
      <4>1. r.stage = "OBSERVING" /\ r.state # "GONE"
        BY <1>2, <2>1 DEF Lives
      <4>2. TaleOf(r, t)
        BY <1>2, <3>1 DEF Tale
      <4> QED BY <4>1, <4>2 DEF TaleOf
    <3>3. CASE Exists(r.curator)
      <4>1. t \o notes = <<"observing", res, "exited", "subExit">>
        BY <2>5, <2>11, <3>2, <3>3, EndOfStory
      <4>2. Story(s) = <<"observing", res, "exited", "subExit">>
        BY <2>5, <2>7 DEF Story
      <4>3. (IF Exists(s.curator) THEN told[c] \o notes ELSE told[c]) = Story(s)
        BY <2>7, <3>1, <3>3, <4>1, <4>2
      <4> QED BY <2>7, <4>3 DEF TaleOf
    <3>4. CASE ~Exists(r.curator)
      <4>1. (IF Exists(s.curator) THEN told[c] \o notes ELSE told[c]) = t
        BY <2>7, <3>1, <3>4
      <4> QED BY <2>7, <3>2, <4>1 DEF TaleOf
    <3> QED BY <3>3, <3>4
  <2>14. s.wait \notin Crtn
    BY <2>7, CoroutineAssumption
  <2>15. res \in {"success", "except"}
    BY <2>5
  <2>16. own \in Seq(Messages) /\ PostAll(c, own, notes)
    BY <1>1, <1>4, <2>10
  <2>17. s.state # "GONE" => LastKept(own, s.last_msg_sent, s.last_msg_observer)
    BY <2>7
  <2>18. co[c].state \notin {"NEW", "GONE"} /\ s.state # "NEW"
    BY <2>7
  <2>19. HasResult(notes)
    BY <2>12, <2>15 DEF HasResult
  <2>20. s.curator = co[c].curator /\ s \in Coroutines /\ Lives(s)
    BY <2>7
  <2> HIDE DEF in, out, hit, done, match, rest, first
  <2> QED
    BY <2>10, <2>12, <2>13, <2>14, <2>16, <2>17, <2>18, <2>19, <2>20, PostStep
<1>6. ASSUME ~LastHandled(r, m), m.name = "lastMsg" PROVE ~r.last_msg_observer
  <2> SUFFICES ASSUME r.last_msg_observer PROVE FALSE
    OBVIOUS
  <2>1. r.exited /\ r.state # "STOPPED"
    BY <1>2, <1>3, <1>6 DEF Lives
  <2>2. LastHandled(r, m)
    BY <1>6, <2>1 DEF LastHandled, LastMatch
  <2> QED BY <1>6, <2>2
<1>7. CASE ~LastHandled(r, m) /\ WaitHandled(r, m)
  <2>1. r.state = "STOPPED" /\ ~r.exited /\ ~r.except /\ ~r.failed
    BY <1>2, <1>7 DEF WaitHandled, Lives
  <2>2. PICK x \in BOOLEAN : x = (m.name = "except" /\ ~caught)
    OBVIOUS
  <2>3. PICK s : s = [r EXCEPT !.state = "READY", !.wait = None, !.except = x]
    OBVIOUS
  <2>4. in = s
    BY <1>7, <2>2, <2>3 DEF AfterInner
  <2>5. /\ s.state = "READY" /\ s.stage = r.stage /\ s.exited = r.exited
        /\ s.failed = r.failed /\ s.last_msg_sent = r.last_msg_sent
        /\ s.last_msg_read = r.last_msg_read /\ s.wait = None
        /\ s.last_msg_observer = r.last_msg_observer
        /\ s.hvml_observers = r.hvml_observers /\ s.curator = r.curator
    BY <1>2, <2>3 DEF Coroutines
  <2>6. s \in Coroutines
    BY <1>2, <2>2, <2>3 DEF Coroutines, States
  <2>7. ~Watching(s) /\ ~Dies(s)
    BY <2>1, <2>5 DEF Watching, Dies
  <2>8. out = s
    BY <2>4, <2>7 DEF Watching, StartTask
  <2>9. co' = [co EXCEPT ![c] = s]
    BY <1>1, <2>7, <2>8 DEF AfterExiting
  <2>10. own = u /\ notes = <<>>
    <3>1. done
      BY <1>7
    <3>2. first = <<>> /\ ~Dies(out)
      BY <1>7, <2>7, <2>8
    <3> HIDE DEF done, first, out
    <3> QED BY <1>4, <3>1, <3>2
  <2> HIDE DEF own, notes, in, out, hit, done, match, rest, first
  <2>11. Lives(s)
    BY <1>2, <2>1, <2>5 DEF Lives
  <2>12. TaleAfter(c, s, notes)
    <3>1. told[c] \o <<>> = told[c] /\ TaleOf(r, told[c])
      BY <1>2 DEF Tale
    <3>2. (IF Exists(s.curator) THEN told[c] \o notes ELSE told[c]) = told[c]
      BY <2>10, <3>1
    <3>3. TaleOf(s, told[c])
      BY <2>1, <2>5, <3>1 DEF TaleOf
    <3> QED BY <3>2, <3>3 DEF TaleAfter
  <2>13. own \in Seq(Messages) /\ notes \in Seq(Notes) /\ PostAll(c, own, notes)
    BY <1>1, <1>3, <1>4, <2>10
  <2>14. LastKept(own, s.last_msg_sent, s.last_msg_observer)
    <3>1. m.name # "lastMsg"
      BY <1>2, <1>3, <2>1 DEF Lives
    <3> QED BY <1>3, <2>5, <2>10, <3>1
  <2>15. s.wait \notin Crtn
    BY <2>5, CoroutineAssumption
  <2>16. co[c].state \notin {"NEW", "GONE"} /\ s.state \notin {"NEW", "GONE"}
    BY <2>5
  <2>17. s.curator = co[c].curator
    BY <2>5
  <2> QED
    BY <2>6, <2>9, <2>11, <2>12, <2>13, <2>14, <2>15, <2>16, <2>17, PostStep
<1>8. CASE ~LastHandled(r, m) /\ ~WaitHandled(r, m)
  <2>1. in = r
    BY <1>8 DEF AfterInner
  <2>2. PICK s : s = out
    OBVIOUS
  <2>3. PICK k \in Nat : k = IF Watching(r) THEN r.tasks + Cardinality(hit) ELSE r.tasks
    <3>1. Cardinality(hit) \in Nat
      <4>1. hit \subseteq r.hvml_observers /\ IsFiniteSet(r.hvml_observers)
        BY <1>2, <2>1 DEF Hits, Lives
      <4> QED BY <4>1, FS_Subset, FS_CardinalityType
    <3>2. r.tasks \in Nat
      BY <1>2 DEF Coroutines
    <3> HIDE DEF hit
    <3> QED BY <3>1, <3>2
  <2>4. PICK r2 : r2 = [r EXCEPT !.tasks = k]
    OBVIOUS
  <2>5. /\ r2.state = r.state /\ r2.stage = r.stage /\ r2.exited = r.exited
        /\ r2.except = r.except /\ r2.failed = r.failed
        /\ r2.last_msg_sent = r.last_msg_sent
        /\ r2.last_msg_read = r.last_msg_read /\ r2.wait = r.wait
        /\ r2.last_msg_observer = r.last_msg_observer
        /\ r2.hvml_observers = r.hvml_observers /\ r2.curator = r.curator
    BY <1>2, <2>4 DEF Coroutines
  <2>6. r2 \in Coroutines
    BY <1>2, <2>3, <2>4 DEF Coroutines
  <2>7. s = StartTask(r2)
    <3>1. CASE Watching(r)
      <4>1. [in EXCEPT !.tasks = @ + Cardinality(hit)] = r2
        BY <2>1, <2>3, <2>4, <3>1
      <4> QED BY <2>1, <2>2, <3>1, <4>1
    <3>2. CASE ~Watching(r)
      <4>1. k = r.tasks /\ out = StartTask(r)
        BY <2>1, <2>3, <3>2
      <4>2. r2 = r
        BY <1>2, <2>4, <4>1 DEF Coroutines
      <4> QED BY <2>2, <4>1, <4>2
    <3> QED BY <3>1, <3>2
  <2>8. /\ s \in Coroutines
        /\ s.stage = r.stage /\ s.exited = r.exited /\ s.except = r.except
        /\ s.failed = r.failed /\ s.last_msg_sent = r.last_msg_sent
        /\ s.last_msg_read = r.last_msg_read /\ s.wait = r.wait
        /\ s.last_msg_observer = r.last_msg_observer
        /\ s.hvml_observers = r.hvml_observers /\ s.curator = r.curator
        /\ s.state = r.state \/ (r.state = "OBSERVING" /\ s.state = "READY")
    <3>1. s \in Coroutines /\ s.stage = r2.stage /\ s.exited = r2.exited
      BY <2>6, <2>7, StartTaskIs
    <3>2. s.except = r2.except /\ s.failed = r2.failed
      BY <2>6, <2>7, StartTaskIs
    <3>3. s.last_msg_sent = r2.last_msg_sent /\ s.last_msg_read = r2.last_msg_read
      BY <2>6, <2>7, StartTaskIs
    <3>6. s.last_msg_observer = r2.last_msg_observer
      BY <2>6, <2>7, StartTaskIs
    <3>4. /\ s.wait = r2.wait /\ s.hvml_observers = r2.hvml_observers
          /\ s.curator = r2.curator
      BY <2>6, <2>7, StartTaskIs
    <3>5. s = r2 \/ (r2.state = "OBSERVING" /\ s.state = "READY")
      BY <2>6, <2>7, StartTaskIs
    <3> HIDE DEF out, in, hit, done, match, rest, first, own, notes
    <3> QED BY <2>5, <3>1, <3>2, <3>3, <3>4, <3>5, <3>6
  <2>9. ~Dies(out)
    BY <1>2, <2>2, <2>8 DEF Dies, Lives
  <2>10. co' = [co EXCEPT ![c] = s]
    BY <1>1, <2>2, <2>9 DEF AfterExiting
  <2>11. own \in {u, v} /\ notes = <<>>
    <3>1. first = <<>>
      BY <1>8
    <3>2. rest \in {u, v}
      OBVIOUS
    <3> HIDE DEF rest, first, out
    <3> QED BY <1>4, <2>9, <3>1, <3>2
  <2>18. m.name = "lastMsg" => own = u
    <3> SUFFICES ASSUME m.name = "lastMsg" PROVE own = u
      OBVIOUS
    <3>1. ~LastMatch(r, m)
      BY <1>6, <1>8 DEF LastMatch
    <3>2. Key(m) = "lastMsg"
      BY DEF Key
    <3>3. ~WaitMatch(r, m)
      BY <3>2 DEF WaitMatch
    <3>4. hit = {}
      <4>1. \A o \in Observer : o[1] # "lastMsg"
        BY CoroutineAssumption
      <4>2. r.hvml_observers \subseteq Observer
        BY <1>2 DEF Coroutines
      <4> QED BY <2>1, <3>2, <4>1, <4>2 DEF Hits
    <3>5. ~match
      BY <3>1, <3>3, <3>4
    <3>6. rest = u
      BY <3>5
    <3> HIDE DEF rest, match, hit, out
    <3> QED BY <2>9, <3>6
  <2> HIDE DEF own, notes, in, out, hit, done, match, rest, first
  <2>12. Lives(s) /\ s.state \notin {"NEW", "GONE"} /\ TaleAfter(c, s, <<>>)
    BY <2>8, StaysInStory
  <2>13. own \in Seq(Messages) /\ notes \in Seq(Notes) /\ PostAll(c, own, notes)
    BY <1>1, <1>3, <1>4, <2>11
  <2>14. LastKept(own, s.last_msg_sent, s.last_msg_observer)
    <3>1. LastKept(own, r.last_msg_sent, r.last_msg_observer)
      <4>1. CASE m.name # "lastMsg"
        BY <1>3, <2>11, <4>1
      <4>2. CASE m.name = "lastMsg"
        <5>1. Last1(own, FALSE) /\ ~r.last_msg_observer
          BY <1>3, <1>6, <1>8, <2>18, <4>2
        <5> QED BY <5>1 DEF LastKept
      <4> QED BY <4>1, <4>2
    <3>2. s.last_msg_sent = r.last_msg_sent /\ s.last_msg_observer = r.last_msg_observer
      BY <2>8
    <3> QED BY <3>1, <3>2
  <2>15. ASSUME s.wait \in Crtn PROVE s.wait = co[c].wait /\ KeepsAnswers(c, own)
    <3>1. s.wait = r.wait /\ r.wait # None
      BY <2>8, <2>15, CoroutineAssumption
    <3>2. r.state = "STOPPED" /\ ~r.exited
      BY <1>2, <3>1 DEF Lives
    <3>3. q = mq[c] /\ ~WaitMatch(r, m)
      BY <1>3, <1>8, <3>2 DEF WaitHandled
    <3>4. KeptBut(q, m, own)
      BY <1>3, <2>11
    <3>5. KeepsAnswers(c, own)
      BY <3>3, <3>4 DEF KeepsAnswers, KeptBut
    <3> QED BY <3>1, <3>5
  <2>16. co[c].state \notin {"NEW", "GONE"}
    OBVIOUS
  <2>17. s.curator = co[c].curator /\ TaleAfter(c, s, notes) /\ s \in Coroutines
    BY <2>8, <2>11, <2>12
  <2> QED
    BY <2>10, <2>12, <2>13, <2>14, <2>15, <2>16, <2>17, PostStep
<1> QED BY <1>5, <1>7, <1>8

\* One turn without a message that is pending.
LEMMA IdleStep ==
    ASSUME IInv, NEW c \in Crtn, NEW r, r = co[c],
           NEW q, q = Pending(r, mq[c]), q = <<>>,
           r.state \in {"STOPPED", "OBSERVING", "EXITED"},
           NEW s, s = StartTask(r), co' = [co EXCEPT ![c] = s],
           mq' = [mq EXCEPT ![c] = <<>>], UNCHANGED told
    PROVE  IInv'
<1>1. /\ TypeOK /\ r \in Coroutines /\ Lives(r) /\ LastMsgs(c)
      /\ mq[c] \in Seq(Messages) /\ told[c] \in Seq(Notes)
  BY OneOf DEF IInv
<1>2. /\ s \in Coroutines
      /\ s.stage = r.stage /\ s.exited = r.exited /\ s.except = r.except
      /\ s.failed = r.failed /\ s.last_msg_sent = r.last_msg_sent
      /\ s.last_msg_read = r.last_msg_read /\ s.wait = r.wait
      /\ s.last_msg_observer = r.last_msg_observer
      /\ s.hvml_observers = r.hvml_observers /\ s.curator = r.curator
      /\ s.state = r.state \/ (r.state = "OBSERVING" /\ s.state = "READY")
  <2>1. s \in Coroutines /\ s.stage = r.stage /\ s.exited = r.exited
    BY <1>1, StartTaskIs
  <2>2. s.except = r.except /\ s.failed = r.failed
    BY <1>1, StartTaskIs
  <2>3. s.last_msg_sent = r.last_msg_sent /\ s.last_msg_read = r.last_msg_read
    BY <1>1, StartTaskIs
  <2>6. s.last_msg_observer = r.last_msg_observer
    BY <1>1, StartTaskIs
  <2>4. /\ s.wait = r.wait /\ s.hvml_observers = r.hvml_observers
        /\ s.curator = r.curator
    BY <1>1, StartTaskIs
  <2>5. s = r \/ (r.state = "OBSERVING" /\ s.state = "READY")
    BY <1>1, StartTaskIs
  <2> QED BY <2>1, <2>2, <2>3, <2>4, <2>5, <2>6
<1>3. Lives(s) /\ s.state \notin {"NEW", "GONE"} /\ TaleAfter(c, s, <<>>)
  BY <1>2, StaysInStory
<1>4. PostAll(c, <<>>, <<>>)
  <2> DEFINE d    == co[c].curator
             none == IF Exists(d) THEN <<>> ELSE <<>>
             msgs == [i \in 1 .. Len(none) |-> [name |-> none[i], from |-> c]]
  <2>3. none = <<>> /\ Len(none) = 0
    OBVIOUS
  <2> HIDE DEF none
  <2>5. msgs = <<>>
    BY <2>3
  <2> HIDE DEF msgs, d
  <2>6. mq' = [x \in Crtn |-> CASE x = c -> <<>>
                                [] x = d /\ x # c -> mq[x] \o msgs
                                [] OTHER -> mq[x]]
    <3>1. ASSUME NEW x \in Crtn
          PROVE  mq'[x] = CASE x = c -> <<>>
                            [] x = d /\ x # c -> mq[x] \o msgs
                            [] OTHER -> mq[x]
      <4>1. mq[x] \in Seq(Messages)
        BY <1>1 DEF TypeOK
      <4>2. mq[x] \o msgs = mq[x]
        BY <2>5, <4>1
      <4>3. mq'[x] = IF x = c THEN <<>> ELSE mq[x]
        BY <1>1 DEF TypeOK
      <4> QED BY <4>2, <4>3
    <3>2. mq' = [x \in Crtn |-> mq'[x]]
      BY <1>1 DEF TypeOK
    <3> QED BY <3>1, <3>2
  <2>7. told' = [told EXCEPT ![c] = @ \o none]
    <3>1. told[c] \o none = told[c]
      BY <1>1, <2>3
    <3>2. told = [told EXCEPT ![c] = told[c]]
      BY <1>1 DEF TypeOK
    <3> QED BY <3>1, <3>2
  <2> QED BY <2>6, <2>7 DEF PostAll, msgs, none, d
<1>5. /\ q = Pending(r, mq[c])
      /\ ~r.exited => q = mq[c]
      /\ DropsOthers(mq[c], q)
  <2>1. PICK w : w = mq[c]
    OBVIOUS
  <2>2. q = Pending(r, w) /\ w \in Seq(Messages)
    BY <1>1, <2>1
  <2>3. (~r.exited => q = w) /\ DropsOthers(w, q)
    BY <1>1, <2>2, PendingList
  <2> QED BY <2>1, <2>2, <2>3
<1>6. ~(r.last_msg_sent /\ r.last_msg_observer)
  <2>1. PICK w : w = mq[c]
    OBVIOUS
  <2>2. \A i \in 1 .. Len(w) : w[i].name # "lastMsg"
    <3>1. PICK k \in 0 .. Len(w) : /\ Len(q) = Len(w) - k
                                   /\ \A i \in 1 .. k : w[i].name # "lastMsg"
      BY <1>5, <2>1 DEF DropsOthers
    <3>2. Len(q) = 0 /\ Len(w) \in Nat
      BY <1>1, <2>1
    <3>3. k = Len(w)
      BY <3>1, <3>2
    <3> QED BY <3>1, <3>3
  <2>3. LastKept(w, r.last_msg_sent, r.last_msg_observer)
    BY <1>1, <2>1 DEF LastMsgs
  <2>4. PICK p \in BOOLEAN : Last1(w, p) /\ (r.last_msg_sent /\ r.last_msg_observer => p)
    BY <2>3 DEF LastKept
  <2>5. ~p
    BY <2>2, <2>4 DEF Last1
  <2> QED BY <2>4, <2>5
<1>7. LastKept(<<>>, s.last_msg_sent, s.last_msg_observer)
  <2>1. Last1(<<>>, FALSE)
    BY DEF Last1
  <2>2. ~(s.last_msg_sent /\ s.last_msg_observer)
    BY <1>2, <1>6
  <2> QED BY <2>1, <2>2 DEF LastKept
<1>8. ASSUME s.wait \in Crtn PROVE s.wait = co[c].wait /\ KeepsAnswers(c, <<>>)
  <2>1. s.wait = r.wait /\ r.wait # None
    BY <1>2, <1>8, CoroutineAssumption
  <2>2. ~r.exited
    BY <1>1, <2>1 DEF Lives
  <2>3. mq[c] = <<>>
    BY <1>5, <2>2
  <2>4. KeepsAnswers(c, <<>>)
    BY <2>3 DEF KeepsAnswers
  <2> QED BY <2>1, <2>4
<1>9. PICK none : none = <<>>
  OBVIOUS
<1>10. none \in Seq(Messages) /\ none \in Seq(Notes)
  BY <1>9
<1>11. /\ PostAll(c, none, none) /\ TaleAfter(c, s, none)
       /\ LastKept(none, s.last_msg_sent, s.last_msg_observer)
  BY <1>3, <1>4, <1>7, <1>9
<1>12. s.wait \in Crtn => s.wait = co[c].wait /\ KeepsAnswers(c, none)
  BY <1>8, <1>9
<1>13. /\ co[c].state \notin {"NEW", "GONE"} /\ s.curator = co[c].curator
       /\ s \in Coroutines
  BY <1>2
<1> QED
  BY <1>3, <1>10, <1>11, <1>12, <1>13, PostStep

LEMMA HandleStep ==
    ASSUME IInv, NEW c \in Crtn, handle_coroutine_event(c)
    PROVE  IInv'
<1>1. PICK r : r = co[c]
  OBVIOUS
<1>2. PICK q : q = Pending(r, mq[c])
  OBVIOUS
<1>3. /\ r.state \in {"STOPPED", "OBSERVING", "EXITED"}
      /\ \/ /\ q # <<>>
            /\ \E caught \in BOOLEAN : HandleMessage(c, q, Head(q), caught)
         \/ /\ q = <<>>
            /\ co' = [co EXCEPT ![c] = StartTask(@)]
            /\ mq' = [mq EXCEPT ![c] = <<>>]
            /\ UNCHANGED told
  BY <1>1, <1>2 DEF handle_coroutine_event
<1>4. ASSUME q # <<>>, NEW caught \in BOOLEAN, HandleMessage(c, q, Head(q), caught)
      PROVE  IInv'
  <2>1. PICK m : m = Head(q)
    OBVIOUS
  <2>2. PICK u : u = Others(q)
    OBVIOUS
  <2>3. PICK v : v = PutBack(u, m)
    OBVIOUS
  <2>4. HandleMessage(c, q, m, caught)
    BY <1>4, <2>1
  <2> QED BY <1>1, <1>2, <1>3, <1>4, <2>1, <2>2, <2>3, <2>4, MessageStep
<1>5. ASSUME q = <<>>, co' = [co EXCEPT ![c] = StartTask(@)],
             mq' = [mq EXCEPT ![c] = <<>>], UNCHANGED told
      PROVE  IInv'
  <2>1. PICK s : s = StartTask(r)
    OBVIOUS
  <2>2. co' = [co EXCEPT ![c] = s]
    BY <1>1, <1>5, <2>1
  <2> QED BY <1>1, <1>2, <1>3, <1>5, <2>1, <2>2, IdleStep
<1> QED BY <1>3, <1>4, <1>5

-----------------------------------------------------------------------------
(* The inductive invariant. *)

LEMMA InitHolds == Init => IInv
<1> SUFFICES ASSUME Init PROVE IInv
  OBVIOUS
<1>1. PICK r : r = Created(None)
  OBVIOUS
<1>2. PICK n : n = [r EXCEPT !.state = "NEW"]
  OBVIOUS
<1>3. /\ r \in Coroutines /\ r.state = "READY" /\ r.stage = "FIRST_RUN"
      /\ ~r.exited /\ ~r.except /\ ~r.failed /\ ~r.last_msg_sent
      /\ ~r.last_msg_read /\ r.hvml_observers = {} /\ r.wait = None
      /\ r.curator = None
  BY <1>1, CreatedIs
<1>4. /\ n.state = "NEW" /\ n.stage = "FIRST_RUN"
      /\ ~n.exited /\ ~n.except /\ ~n.failed /\ ~n.last_msg_sent
      /\ ~n.last_msg_read /\ n.hvml_observers = {} /\ n.wait = None
      /\ n.curator = None
  BY <1>2, <1>3 DEF Coroutines
<1>5. n \in Coroutines
  BY <1>2, <1>3 DEF Coroutines, States
<1>6. /\ co = [c \in Crtn |-> IF c = Main THEN r ELSE n]
      /\ mq = [c \in Crtn |-> <<>>] /\ told = [c \in Crtn |-> <<>>]
  BY <1>1, <1>2 DEF Init
<1>7. TypeOK
  BY <1>3, <1>5, <1>6 DEF TypeOK
<1>8. \A c \in Crtn : co[c] \in {r, n} /\ mq[c] = <<>> /\ told[c] = <<>>
  BY <1>6
<1>9. Lives(r) /\ Lives(n)
  BY <1>3, <1>4, FS_EmptySet DEF Lives
<1>10. \A c \in Crtn : Lives(co[c])
  BY <1>8, <1>9
<1>11. \A c \in Crtn : LastMsgs(c)
  <2> SUFFICES ASSUME NEW c \in Crtn PROVE LastMsgs(c)
    OBVIOUS
  <2>1. mq[c] = <<>> /\ ~co[c].last_msg_sent
    BY <1>3, <1>4, <1>8
  <2>2. Last1(mq[c], FALSE)
    BY <2>1 DEF Last1
  <2> QED BY <2>1, <2>2 DEF LastMsgs, LastKept
<1>12. \A c \in Crtn : Tale(c)
  BY <1>3, <1>4, <1>8 DEF Tale, TaleOf
<1>13. \A c \in Crtn : Curated(c)
  BY <1>3, <1>4, <1>8, CoroutineAssumption DEF Curated
<1> QED BY <1>7, <1>10, <1>11, <1>12, <1>13 DEF IInv

LEMMA NextKeeps == IInv /\ [Next]_vars => IInv'
<1> SUFFICES ASSUME IInv, [Next]_vars PROVE IInv'
  OBVIOUS
<1>1. ASSUME NEW c \in Crtn, Script(c) PROVE IInv'
  <2>1. CASE \/ \E o \in Observer : pcintr_register_observer(c, o)
             \/ \E k \in Forgettable : pcintr_revoke_observer_ex(c, k)
             \/ pcintr_set_exit(c)
             \/ Raise(c)
             \/ pcintr_yield(c)
    BY <2>1, ScriptStep
  <2>2. ASSUME NEW d \in Crtn, NEW sync \in BOOLEAN,
               pcintr_schedule_child_co(c, d, sync)
        PROVE  IInv'
    BY <2>2, ScheduleChild
  <2> QED BY <1>1, <2>1, <2>2 DEF Script
<1>2. ASSUME NEW c \in Crtn, Finish(c) PROVE IInv'
  <2>1. PICK r : r = co[c]
    OBVIOUS
  <2>2. PICK s : s = AfterRun(r)
    OBVIOUS
  <2> QED BY <1>2, <2>1, <2>2, FinishStep
<1>3. ASSUME NEW c \in Crtn, Reply(c) PROVE IInv'
  <2>1. PICK m : m = [name |-> "reply", from |-> None]
    OBVIOUS
  <2>2. m \in Messages /\ m.name # "lastMsg"
    BY <2>1 DEF Messages
  <2>3. Exists(c)
    <3>1. co[c].wait # None
      BY <1>3, CoroutineAssumption DEF Reply
    <3>2. co[c].state = "STOPPED"
      BY <3>1 DEF IInv, Lives
    <3> QED BY <3>2 DEF Exists
  <2>4. mq' = [mq EXCEPT ![c] = Append(@, m)] /\ UNCHANGED <<co, told>>
    BY <1>3, <2>1 DEF Reply
  <2> QED BY <2>2, <2>3, <2>4, Arrives
<1>4. ASSUME NEW c \in Crtn, NEW e \in Event, pcintr_post_event(c, e) PROVE IInv'
  <2>1. PICK m : m = [name |-> e, from |-> None]
    OBVIOUS
  <2>2. m \in Messages /\ m.name # "lastMsg"
    BY <2>1, CoroutineAssumption DEF Messages
  <2>3. mq' = [mq EXCEPT ![c] = Append(@, m)] /\ UNCHANGED <<co, told>>
    BY <1>4, <2>1 DEF pcintr_post_event
  <2> QED BY <1>4, <2>2, <2>3, Arrives DEF pcintr_post_event
<1>5. ASSUME NEW c \in Crtn, handle_coroutine_event(c) PROVE IInv'
  BY <1>5, HandleStep
<1>6. CASE UNCHANGED vars
  <2>1. co' = co /\ mq' = mq /\ told' = told
    BY <1>6 DEF vars
  <2>2. TypeOK'
    BY <2>1 DEF IInv, TypeOK
  <2>3. \A c \in Crtn : Lives(co[c])' /\ LastMsgs(c)'
    BY <2>1 DEF IInv, Lives, LastMsgs, LastKept, Last1
  <2>4. \A c \in Crtn : Tale(c)'
    BY <2>1 DEF IInv, Tale, TaleOf, Story, Exists
  <2>5. \A c \in Crtn : Curated(c)'
    BY <2>1 DEF IInv, Curated, HasAnswer, WaitMatch
  <2> QED BY <2>2, <2>3, <2>4, <2>5 DEF IInv
<1> QED BY <1>1, <1>2, <1>3, <1>4, <1>5, <1>6 DEF Next

LEMMA Inductive == Spec => []IInv
BY InitHolds, NextKeeps, PTL DEF Spec

-----------------------------------------------------------------------------
(* What it implies. *)

LEMMA LastCounted ==
    ASSUME IInv PROVE LastMsgOnce
<1> SUFFICES ASSUME NEW c \in Crtn, Exists(c), NEW q, q = mq[c],
                    NEW n, n = Cardinality({i \in 1 .. Len(q) : q[i].name = "lastMsg"})
             PROVE  /\ n > 0 => n = 1 /\ co[c].last_msg_sent /\ ~co[c].last_msg_read
                    /\ co[c].last_msg_sent /\ co[c].last_msg_observer => n = 1
  BY DEF LastMsgOnce
<1> DEFINE last == {i \in 1 .. Len(q) : q[i].name = "lastMsg"}
<1>1. co[c].state # "GONE" /\ ~co[c].last_msg_read
  BY DEF Exists, IInv, Lives
<1>2. LastKept(q, co[c].last_msg_sent, co[c].last_msg_observer)
  BY <1>1 DEF IInv, LastMsgs
<1>3. PICK p \in BOOLEAN :
         /\ Last1(q, p) /\ (p => co[c].last_msg_sent)
         /\ co[c].last_msg_sent /\ co[c].last_msg_observer => p
  BY <1>2 DEF LastKept
<1>4. CASE p
  <2>1. PICK i \in 1 .. Len(q) : /\ q[i].name = "lastMsg"
                                 /\ \A j \in 1 .. Len(q) : q[j].name = "lastMsg" => j = i
    BY <1>3, <1>4 DEF Last1
  <2>2. last = {i}
    BY <2>1
  <2>3. Cardinality({i}) = 1
    BY FS_Singleton
  <2>4. n = 1
    BY <2>2, <2>3
  <2> QED BY <1>1, <1>3, <1>4, <2>4
<1>5. CASE ~p
  <2>1. last = {}
    BY <1>3, <1>5 DEF Last1
  <2>2. n = 0
    BY <2>1, FS_EmptySet
  <2> QED BY <1>3, <1>5, <2>2
<1> QED BY <1>4, <1>5

\* The beginning of a story.
LEMMA Beginnings ==
    ASSUME NEW s \in Seq(Notes), NEW t \in Seq(Notes), Len(t) <= Len(s),
           \A i \in 1 .. Len(t) : t[i] = s[i]
    PROVE  IsPrefix(t, s)
<1>1. Len(t) \in Nat /\ Len(s) \in Nat
  OBVIOUS
<1>2. PICK n \in Nat : n = Len(t)
  BY <1>1
<1>3. \A i \in 1 .. n : i \in 1 .. Len(s) /\ s[i] \in Notes /\ t[i] \in Notes
  BY <1>1, <1>2
<1>4. /\ SubSeq(s, 1, n) \in Seq(Notes) /\ SubSeq(t, 1, n) \in Seq(Notes)
      /\ Len(SubSeq(s, 1, n)) = n /\ Len(SubSeq(t, 1, n)) = n
      /\ \A i \in 1 .. n : SubSeq(s, 1, n)[i] = s[i] /\ SubSeq(t, 1, n)[i] = t[i]
  BY <1>1, <1>2, <1>3
<1>5. SubSeq(t, 1, n) = SubSeq(s, 1, n)
  BY <1>2, <1>4, SeqEqual
<1> QED BY <1>1, <1>2, <1>5 DEF IsPrefix

LEMMA StoryOrdered ==
    ASSUME IInv PROVE ToldInOrder
<1> SUFFICES ASSUME NEW c \in Crtn PROVE IsPrefix(told[c], Story(co[c]))
  BY DEF ToldInOrder, Story
<1>1. PICK t : t = told[c]
  OBVIOUS
<1>2. PICK s : s = Story(co[c])
  OBVIOUS
<1>3. t \in Seq(Notes) /\ t \in {<<>>, <<"observing">>, s}
  <2>1. TaleOf(co[c], t) /\ co[c] \in Coroutines /\ t \in Seq(Notes)
    BY <1>1, OneOf DEF Tale
  <2>2. co[c].stage \in {"FIRST_RUN", "OBSERVING"}
    BY <2>1 DEF Coroutines
  <2> QED BY <1>2, <2>1, <2>2 DEF TaleOf
<1>4. s \in Seq(Notes) /\ Len(s) = 4 /\ s[1] = "observing"
  BY <1>2 DEF Story, Notes
<1>5. Len(t) <= Len(s) /\ \A i \in 1 .. Len(t) : t[i] = s[i]
  <2>1. CASE t = <<>>
    BY <1>4, <2>1
  <2>2. CASE t = <<"observing">>
    <3>1. Len(t) = 1 /\ t[1] = "observing"
      BY <2>2
    <3> QED BY <1>4, <3>1
  <2>3. CASE t = s
    BY <1>4, <2>3
  <2> QED BY <1>3, <2>1, <2>2, <2>3
<1>6. IsPrefix(t, s)
  BY <1>3, <1>4, <1>5, Beginnings
<1> QED BY <1>1, <1>2, <1>6

-----------------------------------------------------------------------------
\* Every coroutine, its queue and what it has told stay of their types.
THEOREM CoroutinesTyped == Spec => []TypeOK
<1>1. IInv => TypeOK
  BY DEF IInv
<1> QED BY <1>1, Inductive, PTL

\* No assertion of the exit path fails, with any number of coroutines:
\* pcintr_run_exiting_co never destroys a coroutine that runs, waits or
\* observes, and a run never ends with a second exception.
THEOREM ExitPathSafe == Spec => []NoAssertFails
<1>1. IInv => NoAssertFails
  BY DEF IInv, Lives, NoAssertFails
<1> QED BY <1>1, Inductive, PTL

\* The last message that pcintr_check_after_execution_full posts is not posted
\* twice, nor lost unless the script forgot its observer: it is in the queue,
\* once, until it is read, however often handle_coroutine_event puts it back.
THEOREM LastMessageKept == Spec => []LastMsgOnce
<1>1. IInv => LastMsgOnce
  BY LastCounted
<1> QED BY <1>1, Inductive, PTL

\* A curator hears what its child posts, observing, result, exited, subExit,
\* in this order and once each.
THEOREM CuratorHearsInOrder == Spec => []ToldInOrder
<1>1. IInv => ToldInOrder
  BY StoryOrdered
<1> QED BY <1>1, Inductive, PTL

\* A synchronous caller has the callState message of a child that is gone in
\* its queue for as long as it waits for it, whatever is put back or thrown
\* away meanwhile.
THEOREM CallsAnswered == Spec => []CallAnswered
<1>1. IInv => CallAnswered
  BY DEF IInv, Curated, HasAnswer, CallAnswered
<1> QED BY <1>1, Inductive, PTL

=============================================================================
