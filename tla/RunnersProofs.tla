--------------------------- MODULE RunnersProofs ---------------------------
(***************************************************************************)
(* Proofs about Runners, for any set of names, any number of atoms,        *)
(* coroutines and calls, buffers of any capacity, and any choice of the    *)
(* instances whose waits may time out or that may refuse to shut down:     *)
(* RecordsExact and LastOneGone hold in every behaviour.                   *)
(*                                                                         *)
(* The records of InstMgr are exact because an instance is reported once,  *)
(* after it stopped, and InstMgr reads no report while it waits for a new  *)
(* thread.  The second argument follows a request to shut down that        *)
(* InstMgr has sent to Main: if a record was made after it, then for Main, *)
(* which still waits, and whose answer is behind the request.              *)
(***************************************************************************)
EXTENDS Runners, ListLemmas, FiniteSetTheorems

Boxes == [Inst \cup {Mgr} -> Seq(Messages)]

-----------------------------------------------------------------------------
(* Names and messages. *)

LEMMA NamesApart ==
    /\ Main \in Inst /\ Born \subseteq Inst /\ Main \notin Born
    /\ Mgr \notin Inst /\ None \notin Inst /\ Mgr # None
    /\ \A i \in Inst : i # Main => i \in Born
BY RunnersAssumption DEF Inst

LEMMA RequestKinds ==
    ASSUME NEW m \in Requests
    PROVE  /\ m.type = "request" /\ m.from \in Inst \cup {Mgr}
           /\ m.op \in {"createInstance", "createCoroutine", "shutdownInstance"}
           /\ m.op = "createInstance" => m.from \in Inst /\ m.id \in Ids /\ m.arg \in Name
           /\ m.op = "createCoroutine" =>
                 m.from \in Inst /\ m.id \in Ids /\ m.arg \in Inst \cup {Mgr}
           /\ m # None
BY RequestsAssumption DEF Requests

LEMMA MessageKinds ==
    ASSUME NEW m \in Messages
    PROVE  /\ m.type \in {"request", "response", "event"}
           /\ m.type = "request" => m \in Requests
           /\ m.type = "response" => /\ m.id \in Ids /\ m.value \in Inst \cup {None}
                                     /\ m.code \in {"OK", "CONFLICT", "BAD_REQUEST"}
           /\ m.type = "event" => m.sid \in Born
<1>1. CASE m \in Requests
  BY <1>1, RequestKinds
<1>2. CASE m \notin Requests
  BY <1>2 DEF Messages
<1> QED BY <1>1, <1>2

\* A request served for whoever has the name of its requester now.
LEMMA ServedIs ==
    ASSUME NEW m \in Requests, NEW s \in Served(m)
    PROVE  /\ s \in Requests /\ s.op = m.op /\ Registered(s.from)
           /\ s.from = Mgr <=> m.from = Mgr
           /\ m.op # "shutdownInstance" => s.id = m.id
<1>1. PICK r \in Requester(m.from) : s = [m EXCEPT !.from = r]
  BY DEF Served
<1>2. Registered(r)
  BY <1>1 DEF Requester, Running
<1>3. (m.from = Mgr => r = Mgr) /\ (m.from # Mgr => r \in Inst)
  BY <1>1, NamesApart DEF Requester, Running
<1>4. m.from \in Inst \cup {Mgr} /\ Mgr \notin Inst
  BY RequestKinds, NamesApart
<1>5. CASE m \in [type : {"request"}, op : {"createInstance"}, from : Inst,
                  id : Ids, arg : Name]
  <2>1. m.from \in Inst /\ r \in Inst
    BY <1>3, <1>4, <1>5
  <2> QED BY <1>1, <1>2, <1>4, <1>5, <2>1 DEF Requests
<1>6. CASE m \in [type : {"request"}, op : {"createCoroutine"}, from : Inst,
                  id : Ids, arg : Inst \cup {Mgr}]
  <2>1. m.from \in Inst /\ r \in Inst
    BY <1>3, <1>4, <1>6
  <2> QED BY <1>1, <1>2, <1>4, <1>6, <2>1 DEF Requests
<1>7. CASE m \in [type : {"request"}, op : {"shutdownInstance"}, from : Inst \cup {Mgr}]
  BY <1>1, <1>2, <1>3, <1>4, <1>7 DEF Requests
<1> QED BY <1>5, <1>6, <1>7 DEF Requests

LEMMA RequestsAreMessages == Requests \subseteq Messages
BY DEF Messages

LEMMA ResponseTyped ==
    ASSUME NEW m, m.id \in Ids, NEW code \in {"OK", "CONFLICT", "BAD_REQUEST"},
           NEW v \in Inst \cup {None}, NEW r, r = Response(m, code, v)
    PROVE  /\ r \in Messages
           /\ r.type = "response" /\ r.id = m.id /\ r.value = v /\ r.code = code
BY DEF Response, Messages

LEMMA EventTyped ==
    ASSUME NEW i \in Born, NEW m, m = [type |-> "event", sid |-> i]
    PROVE  m \in Messages /\ m.type = "event" /\ m.sid = i
BY DEF Messages

\* The identifier of the next request of i.
LEMMA NextId ==
    ASSUME TypeOK, NEW i \in Inst, NEW a, a = Ask(i)
    PROVE  a \in Ids /\ a[1] = i /\ a[2] = calls[i]
<1>1. calls[i] \in 0 .. MaxCalls[i]
  BY RunnersAssumption DEF TypeOK
<1> QED BY <1>1 DEF Ask, Ids

\* Move either appends m to the buffer of x or does nothing.
Moved(d, b, x, m) == d = Move(b, x, m)

Lands(d, b, x, m) ==
    \A y \in Inst \cup {Mgr} :
        /\ y = x /\ CanMove(x) => Appended(b[y], m, d[y])
        /\ y # x \/ ~CanMove(x) => d[y] = b[y]

LEMMA MoveKeeps ==
    ASSUME NEW b \in Boxes, NEW x, NEW m \in Messages, NEW d, Moved(d, b, x, m)
    PROVE  d \in Boxes /\ Lands(d, b, x, m)
<1>1. CASE ~CanMove(x)
  <2>1. d = b
    BY <1>1 DEF Moved, Move
  <2> QED BY <1>1, <2>1 DEF Lands
<1>2. CASE CanMove(x) /\ x \in Inst \cup {Mgr}
  <2>1. d = [b EXCEPT ![x] = Append(b[x], m)]
    BY <1>2 DEF Moved, Move
  <2>2. b[x] \in Seq(Messages)
    BY <1>2 DEF Boxes
  <2>3. Append(b[x], m) \in Seq(Messages)
    BY <2>2
  <2>4. d \in Boxes
    BY <1>2, <2>1, <2>3 DEF Boxes
  <2>5. \A y \in Inst \cup {Mgr} : d[y] = IF y = x THEN Append(b[x], m) ELSE b[y]
    BY <2>1 DEF Boxes
  <2> QED BY <1>2, <2>4, <2>5 DEF Appended, Lands
<1>3. CASE CanMove(x) /\ x \notin Inst \cup {Mgr}
  <2>1. d = [b EXCEPT ![x] = Append(b[x], m)]
    BY <1>3 DEF Moved, Move
  <2>2. d = b
    BY <1>3, <2>1 DEF Boxes
  <2> QED BY <1>3, <2>2 DEF Lands
<1> QED BY <1>1, <1>2, <1>3

\* The buffer of InstMgr is left alone by what is moved to others.
LEMMA MoveElsewhere ==
    ASSUME NEW b \in Boxes, NEW x, x # Mgr, NEW m \in Messages, NEW d, Moved(d, b, x, m)
    PROVE  d \in Boxes /\ d[Mgr] = b[Mgr]
<1>1. d \in Boxes /\ Lands(d, b, x, m)
  BY MoveKeeps
<1>2. Mgr \in Inst \cup {Mgr} /\ Mgr # x
  OBVIOUS
<1> QED BY <1>1, <1>2 DEF Lands

LEMMA MoveToOne ==
    ASSUME NEW b \in Boxes, NEW x, NEW m \in Messages, NEW d, Moved(d, b, x, m)
    PROVE  \A y \in Inst \cup {Mgr} : \/ d[y] = b[y]
                                      \/ y = x /\ Appended(b[y], m, d[y])
<1>1. Lands(d, b, x, m)
  BY MoveKeeps
<1> QED BY <1>1 DEF Lands

LEMMA MoveArrives ==
    ASSUME NEW b \in Boxes, NEW x \in Inst \cup {Mgr}, CanMove(x),
           NEW m \in Messages, NEW d, Moved(d, b, x, m)
    PROVE  Appended(b[x], m, d[x])
<1>1. Lands(d, b, x, m)
  BY MoveKeeps
<1> QED BY <1>1 DEF Lands

\* The buffer of x without its head.
LEMMA TakenKeeps ==
    ASSUME TypeOK, NEW x \in Inst \cup {Mgr}, buf[x] # <<>>, NEW d, d = Taken(x)
    PROVE  /\ d \in Boxes /\ d[x] = Tail(buf[x])
           /\ \A y \in Inst \cup {Mgr} : y # x => d[y] = buf[y]
           /\ Head(buf[x]) \in Messages
<1>1. buf \in Boxes /\ buf[x] \in Seq(Messages)
  BY DEF TypeOK, Boxes
<1>2. Tail(buf[x]) \in Seq(Messages) /\ Head(buf[x]) \in Messages
  BY <1>1
<1>3. d = [buf EXCEPT ![x] = Tail(buf[x])]
  BY DEF Taken
<1> QED BY <1>1, <1>2, <1>3 DEF Boxes

-----------------------------------------------------------------------------
(* The reports of ended threads in the buffer q of InstMgr. *)

IsReport(m, i) == m.type = "event" /\ m.sid = i

ReportIn(q, i) == \E k \in 1 .. Len(q) : IsReport(q[k], i)

ReportOnce(q, i) ==
    \A k, l \in 1 .. Len(q) : IsReport(q[k], i) /\ IsReport(q[l], i) => k = l

\* The reports about i in r are those in q.
AlikeFor(q, r, i) == /\ ReportIn(r, i) <=> ReportIn(q, i)
                     /\ ReportOnce(q, i) => ReportOnce(r, i)

Alike(q, r) == \A i \in Born : AlikeFor(q, r, i)

LEMMA AlikeChains ==
    ASSUME NEW q, NEW r, NEW u, Alike(q, r), Alike(r, u)
    PROVE  Alike(q, u)
BY DEF Alike, AlikeFor

LEMMA AlikeSelf == \A q : Alike(q, q)
BY DEF Alike, AlikeFor

LEMMA AppendAlike ==
    ASSUME NEW q \in Seq(Messages), NEW m \in Messages, NEW r, Appended(q, m, r)
    PROVE  /\ \A i \in Born : ~IsReport(m, i) => AlikeFor(q, r, i)
           /\ \A i \in Born : IsReport(m, i) => ReportIn(r, i)
           /\ \A i \in Born : ~ReportIn(q, i) => ReportOnce(r, i)
<1>1. /\ r \in Seq(Messages) /\ Len(r) = Len(q) + 1 /\ r[Len(q) + 1] = m
      /\ \A k \in 1 .. Len(q) : r[k] = q[k]
  BY AppendedMembers
<1>2. /\ Len(q) \in Nat /\ \A k \in 1 .. Len(r) : k \in 1 .. Len(q) \/ k = Len(q) + 1
      /\ \A k \in 1 .. Len(q) : k \in 1 .. Len(r)
      /\ Len(q) + 1 \in 1 .. Len(r)
  BY <1>1
<1> QED BY <1>1, <1>2 DEF AlikeFor, ReportIn, ReportOnce

LEMMA TailAlike ==
    ASSUME NEW q \in Seq(Messages), q # <<>>, NEW r, r = Tail(q)
    PROVE  /\ \A i \in Born : ~IsReport(Head(q), i) => AlikeFor(q, r, i)
           /\ \A i \in Born : IsReport(Head(q), i) /\ ReportOnce(q, i)
                 => ~ReportIn(r, i) /\ ReportOnce(r, i)
<1>1. /\ Len(q) \in Nat /\ Len(q) >= 1 /\ Len(r) = Len(q) - 1 /\ Head(q) = q[1]
      /\ \A k \in 1 .. Len(r) : r[k] = q[k + 1]
  OBVIOUS
<1>2. /\ \A k \in 1 .. Len(r) : k + 1 \in 1 .. Len(q) /\ k + 1 # 1
      /\ \A k \in 1 .. Len(q) : k = 1 \/ (k - 1 \in 1 .. Len(r) /\ (k - 1) + 1 = k)
      /\ 1 \in 1 .. Len(q)
      /\ \A k, l \in 1 .. Len(r) : k + 1 = l + 1 => k = l
  BY <1>1
<1>3. ASSUME NEW i \in Born, ~IsReport(Head(q), i)
      PROVE  AlikeFor(q, r, i)
  <2>1. ReportIn(q, i) => ReportIn(r, i)
    <3> SUFFICES ASSUME NEW k \in 1 .. Len(q), IsReport(q[k], i) PROVE ReportIn(r, i)
      BY DEF ReportIn
    <3>1. k # 1
      BY <1>1, <1>3
    <3>2. k - 1 \in 1 .. Len(r) /\ r[k - 1] = q[k]
      BY <1>1, <1>2, <3>1
    <3> QED BY <3>2 DEF ReportIn
  <2>2. ReportIn(r, i) => ReportIn(q, i)
    BY <1>1, <1>2 DEF ReportIn
  <2>3. ReportOnce(q, i) => ReportOnce(r, i)
    BY <1>1, <1>2 DEF ReportOnce
  <2> QED BY <2>1, <2>2, <2>3 DEF AlikeFor
<1>4. ASSUME NEW i \in Born, IsReport(Head(q), i), ReportOnce(q, i)
      PROVE  ~ReportIn(r, i) /\ ReportOnce(r, i)
  <2>1. ~ReportIn(r, i)
    BY <1>1, <1>2, <1>4 DEF ReportIn, ReportOnce
  <2> QED BY <2>1 DEF ReportIn, ReportOnce
<1> QED BY <1>3, <1>4

-----------------------------------------------------------------------------
(* The invariant behind RecordsExact. *)

Ups  == {"ready", "run", "quit", "stopped"}
Ends == {"notified", "closed", "gone"}

\* An instance is on record from the end of its creation until its report is
\* read; it is reported once, when it has ended, and no report of an instance is
\* read before its creation is complete.
Tracked(i) ==
    /\ i \in sa_insts <=>
          i # mgr.new /\ (th[i] \in Ups \/ (th[i] \in Ends /\ ReportIn(buf[Mgr], i)))
    /\ th[i] = "init" => i = mgr.new
    /\ i = mgr.new => th[i] # "none" /\ (th[i] \in Ends => ReportIn(buf[Mgr], i))
    /\ ReportIn(buf[Mgr], i) => th[i] \in Ends
    /\ ReportOnce(buf[Mgr], i)

RecordInv ==
    slips = {} /\ mgr.pc # "off" =>
       /\ IsFiniteSet(sa_insts) /\ nr_insts = Cardinality(sa_insts)
       /\ \A i \in Born : Tracked(i)

\* InstMgr works on a request while it waits for the thread it has begun, which
\* is not the one that asked; and it goes after Main.
MgrInv ==
    /\ mgr.pc = "wait" <=> mgr.new # None
    /\ mgr.pc = "wait" <=> mgr.req # None
    /\ mgr.pc = "wait" => mgr.req.op = "createInstance" /\ mgr.req.from # mgr.new
    /\ mgr.pc = "off" => th[Main] = "gone"

\* Who waits for an answer has not begun to leave its loop and has a coroutine
\* that keeps it there, apart from Main before purc_run.
WaitsIn(s, n, i) == (s = "ready" /\ i = Main) \/ (s = "run" /\ n > 0)
Waits == \A i \in Inst : call[i] # None => WaitsIn(th[i], crtns[i], i)

IInv == TypeOK /\ Waits /\ MgrInv /\ RecordInv

\* Going on within these does not concern InstMgr.
SameStage(s, t) == s = t \/ (s \in Ups /\ t \in Ups) \/ (s \in Ends /\ t \in Ends)

LEMMA RecordsStay ==
    ASSUME RecordInv, slips = {},
           sa_insts' = sa_insts, nr_insts' = nr_insts, mgr'.new = mgr.new,
           mgr'.pc # "off" => mgr.pc # "off",
           Alike(buf[Mgr], buf'[Mgr]),
           \A i \in Born : SameStage(th[i], th'[i])
    PROVE  RecordInv'
<1> SUFFICES ASSUME mgr'.pc # "off", NEW i \in Born, Tracked(i)
             PROVE  Tracked(i)'
  BY DEF RecordInv
<1>1. AlikeFor(buf[Mgr], buf'[Mgr], i) /\ SameStage(th[i], th'[i])
  BY DEF Alike
<1>2. /\ th[i] \in Ups <=> th'[i] \in Ups
      /\ th[i] \in Ends <=> th'[i] \in Ends
      /\ th'[i] = "init" => th[i] = "init"
      /\ th'[i] = "none" => th[i] = "none"
  BY <1>1 DEF SameStage, Ups, Ends
<1> QED BY <1>1, <1>2 DEF Tracked, AlikeFor

\* A thread goes on by itself.
LEMMA ThreadKeeps ==
    ASSUME IInv, slips = {}, NEW i \in Inst, NEW s \in Stages, NEW n \in 0 .. MaxCrtn,
           th' = [th EXCEPT ![i] = s], crtns' = [crtns EXCEPT ![i] = n],
           UNCHANGED <<keep_alive, call, calls, handle, buf, mgr, sa_insts, nr_insts,
                       slips>>,
           i \in Born => SameStage(th[i], s),
           call[i] # None => WaitsIn(s, n, i),
           mgr.pc = "off" => i # Main \/ s = "gone"
    PROVE  IInv'
<1>1. TypeOK /\ Waits /\ MgrInv /\ RecordInv
  BY DEF IInv
<1>2. /\ \A j \in Inst : th'[j] = IF j = i THEN s ELSE th[j]
      /\ \A j \in Inst : crtns'[j] = IF j = i THEN n ELSE crtns[j]
  BY <1>1 DEF TypeOK
<1>3. TypeOK'
  BY <1>1 DEF TypeOK
<1>4. Waits'
  BY <1>1, <1>2 DEF Waits
<1>5. MgrInv'
  BY <1>1, <1>2, NamesApart DEF MgrInv
<1>6. \A j \in Born : SameStage(th[j], th'[j])
  BY <1>2, NamesApart DEF SameStage
<1>7. RecordInv'
  BY <1>1, <1>6, AlikeSelf, RecordsStay
<1> QED BY <1>3, <1>4, <1>5, <1>7 DEF IInv

LEMMA GoesOnKeeps ==
    ASSUME IInv, NEW i \in Inst,
           \/ purc_schedule_vdom(i) \/ purc_run(i) \/ Exit(i) \/ EndPass(i)
           \/ cleanup_instance(i)
    PROVE  IInv'
<1>1. /\ slips = {} /\ th \in [Inst -> Stages] /\ crtns \in [Inst -> 0 .. MaxCrtn]
      /\ MaxCrtn \in Nat
      /\ call[i] # None => WaitsIn(th[i], crtns[i], i)
      /\ mgr.pc = "off" => th[Main] = "gone"
  BY RunnersAssumption DEF IInv, TypeOK, Waits, MgrInv, purc_schedule_vdom, purc_run,
     Exit, EndPass, cleanup_instance, Free, Alive
<1>2. th = [th EXCEPT ![i] = th[i]] /\ crtns = [crtns EXCEPT ![i] = crtns[i]]
  BY <1>1
<1>3. CASE purc_schedule_vdom(i)
  <2>1. PICK n : n = crtns[i] + 1
    OBVIOUS
  <2>2. /\ n \in 0 .. MaxCrtn /\ crtns' = [crtns EXCEPT ![i] = n]
        /\ th' = [th EXCEPT ![i] = th[i]] /\ call[i] = None /\ th[i] # "gone"
    BY <1>1, <1>2, <1>3, <2>1 DEF purc_schedule_vdom, Free
  <2> QED BY <1>1, <1>3, <2>2, ThreadKeeps DEF purc_schedule_vdom, SameStage
<1>4. CASE purc_run(i)
  <2>1. SameStage(th[i], "run") /\ "run" \in Stages /\ call[i] = None /\ th[i] # "gone"
    BY <1>4 DEF purc_run, Free, SameStage, Ups, Stages
  <2> QED BY <1>1, <1>2, <1>4, <2>1, ThreadKeeps DEF purc_run
<1>5. CASE Exit(i)
  <2>1. PICK n : n = crtns[i] - 1
    OBVIOUS
  <2>2. PICK s : s = IF crtns[i] = 1 /\ keep_alive[i] = 0 THEN "quit" ELSE th[i]
    OBVIOUS
  <2>3. n \in 0 .. MaxCrtn /\ crtns' = [crtns EXCEPT ![i] = n] /\ call[i] = None
    BY <1>1, <1>5, <2>1 DEF Exit, Free
  <2>4. /\ th[i] = "run" /\ th' = [th EXCEPT ![i] = s]
        /\ s \in Stages /\ SameStage(th[i], s)
    BY <1>1, <1>2, <1>5, <2>2 DEF Exit, RunloopStop, SameStage, Ups, Stages
  <2> QED BY <1>1, <1>5, <2>3, <2>4, ThreadKeeps DEF Exit
<1>6. CASE EndPass(i)
  <2>1. /\ SameStage(th[i], "stopped") /\ "stopped" \in Stages /\ call[i] = None
        /\ th[i] # "gone"
    BY <1>6 DEF EndPass, Free, SameStage, Ups, Stages
  <2> QED BY <1>1, <1>2, <1>6, <2>1, ThreadKeeps DEF EndPass
<1>7. CASE cleanup_instance(i)
  <2>1. SameStage(th[i], "gone") /\ "gone" \in Stages /\ call[i] = None
    BY <1>1, <1>7 DEF cleanup_instance, SameStage, Ends, Stages, WaitsIn
  <2> QED BY <1>1, <1>2, <1>7, <2>1, ThreadKeeps DEF cleanup_instance
<1> QED BY <1>3, <1>4, <1>5, <1>6, <1>7

\* Messages move, and InstMgr is not concerned.
HeapTyped ==
    /\ th \in [Inst -> Stages] /\ crtns \in [Inst -> 0..MaxCrtn]
    /\ keep_alive \in [Inst -> {0, 1}]
    /\ call \in [Inst -> Requests \cup {None}]
    /\ calls \in [Inst -> Nat] /\ \A i \in Inst : calls[i] <= MaxCalls[i]
    /\ handle \in [Inst -> Inst \cup {Mgr, None}]

LEMMA MessagesKeep ==
    ASSUME IInv, slips = {}, UNCHANGED <<mgr, sa_insts, nr_insts>>,
           buf' \in Boxes, Alike(buf[Mgr], buf'[Mgr]), slips' \subseteq Slips,
           HeapTyped', Waits', \A j \in Born : SameStage(th[j], th'[j]),
           th[Main] = "gone" => th'[Main] = "gone"
    PROVE  IInv'
<1>1. TypeOK /\ MgrInv /\ RecordInv
  BY DEF IInv
<1>2. TypeOK'
  BY <1>1 DEF TypeOK, HeapTyped, Boxes
<1>3. MgrInv'
  BY <1>1 DEF MgrInv
<1>4. RecordInv'
  BY <1>1, RecordsStay
<1> QED BY <1>2, <1>3, <1>4 DEF IInv

LEMMA StagesStay ==
    ASSUME th' = th
    PROVE  /\ \A j \in Born : SameStage(th[j], th'[j])
           /\ th[Main] = "gone" => th'[Main] = "gone"
BY DEF SameStage

\* A request is moved to x, and its sender waits or cannot reach x.
LEMMA SendKeeps ==
    ASSUME IInv, slips = {}, NEW i \in Inst, CanCall(i), NEW x \in Inst \cup {Mgr},
           NEW m \in Requests, SendAndWait(i, x, m), HeapTyped,
           UNCHANGED <<th, crtns, keep_alive, mgr, sa_insts, nr_insts, slips>>,
           handle' \in [Inst -> Inst \cup {Mgr, None}]
    PROVE  IInv'
<1>1. TypeOK /\ Waits /\ buf \in Boxes /\ buf[Mgr] \in Seq(Messages)
  BY DEF IInv, TypeOK, Boxes
<1>2. CASE ~CanMove(x)
  <2>1. UNCHANGED <<buf, call, calls>>
    BY <1>2 DEF SendAndWait
  <2>2. HeapTyped' /\ Waits'
    BY <1>1, <2>1 DEF HeapTyped, Waits
  <2> QED BY <1>1, <2>1, <2>2, AlikeSelf, StagesStay, MessagesKeep DEF TypeOK
<1>3. CASE CanMove(x)
  <2>1. /\ Moved(buf', buf, x, m)
        /\ call' = [call EXCEPT ![i] = m]
        /\ calls' = [calls EXCEPT ![i] = @ + 1]
    BY <1>3 DEF SendAndWait, Moved
  <2>2. m \in Messages /\ m.type = "request"
    BY RequestsAreMessages, RequestKinds
  <2>3. buf' \in Boxes
    BY <1>1, <2>1, <2>2, MoveKeeps
  <2>4. buf'[Mgr] = buf[Mgr] \/ Appended(buf[Mgr], m, buf'[Mgr])
    <3>1. \A y \in Inst \cup {Mgr} : buf'[y] = buf[y] \/ Appended(buf[y], m, buf'[y])
      BY <1>1, <2>1, <2>2, MoveToOne
    <3> QED BY <3>1
  <2>5. \A j \in Born : ~IsReport(m, j)
    BY <2>2 DEF IsReport
  <2>6. Alike(buf[Mgr], buf'[Mgr])
    BY <1>1, <2>2, <2>4, <2>5, AppendAlike, AlikeSelf DEF Alike
  <2>7. calls[i] < MaxCalls[i] /\ WaitsIn(th[i], crtns[i], i)
    BY DEF CanCall, WaitsIn
  <2>8. HeapTyped'
    <3>1. call' \in [Inst -> Requests \cup {None}]
      BY <2>1 DEF HeapTyped
    <3>2. calls' \in [Inst -> Nat] /\ \A j \in Inst : calls'[j] <= MaxCalls[j]
      <4>1. /\ calls \in [Inst -> Nat] /\ MaxCalls \in [Inst -> Nat]
            /\ \A j \in Inst : calls[j] <= MaxCalls[j]
        BY RunnersAssumption DEF HeapTyped
      <4>2. calls' = [calls EXCEPT ![i] = calls[i] + 1] /\ calls[i] < MaxCalls[i]
        BY <2>1, <2>7
      <4> QED BY <4>1, <4>2
    <3> QED BY <3>1, <3>2 DEF HeapTyped
  <2>9. Waits'
    BY <1>1, <2>1, <2>7 DEF Waits, TypeOK
  <2> QED BY <1>1, <2>3, <2>6, <2>8, <2>9, StagesStay, MessagesKeep DEF TypeOK
<1> QED BY <1>2, <1>3

LEMMA HeapIsTyped == TypeOK => HeapTyped /\ buf \in Boxes /\ slips \subseteq Slips
BY DEF TypeOK, HeapTyped, Boxes

LEMMA CreateOrGetKeeps ==
    ASSUME IInv, NEW i \in Inst, NEW n \in Name \cup {Main},
           purc_inst_create_or_get(i, n)
    PROVE  IInv'
<1>1. /\ CanCall(i) /\ slips = {} /\ TypeOK /\ Waits
      /\ UNCHANGED <<th, crtns, keep_alive, mgr, sa_insts, nr_insts, slips>>
  BY DEF purc_inst_create_or_get, CanCall, Free, Alive, IInv
<1>2. HeapTyped /\ buf \in Boxes /\ slips \subseteq Slips
  BY <1>1, HeapIsTyped
<1>3. Running(n) \subseteq Inst
  BY NamesApart DEF Running
<1>4. CASE Running(n) # {}
  <2>1. PICK a \in Inst : handle' = [handle EXCEPT ![i] = a]
    BY <1>3, <1>4 DEF purc_inst_create_or_get
  <2>2. UNCHANGED <<buf, call, calls>>
    BY <1>4 DEF purc_inst_create_or_get
  <2>3. HeapTyped' /\ Waits'
    BY <1>1, <1>2, <2>1, <2>2 DEF HeapTyped, Waits
  <2> QED BY <1>1, <1>2, <2>2, <2>3, AlikeSelf, StagesStay, MessagesKeep
<1>5. CASE Running(n) = {}
  <2>1. n \in Name
    BY <1>5 DEF purc_inst_create_or_get, Running
  <2>2. PICK m : m = [type |-> "request", op |-> "createInstance",
                      from |-> i, id |-> Ask(i), arg |-> n]
    OBVIOUS
  <2>3. m \in Requests
    <3>1. Ask(i) \in Ids
      BY <1>1, NextId
    <3> QED BY <2>1, <2>2, <3>1 DEF Requests
  <2>4. SendAndWait(i, Mgr, m) /\ handle' = [handle EXCEPT ![i] = None]
    BY <1>5, <2>2 DEF purc_inst_create_or_get
  <2>5. handle' \in [Inst -> Inst \cup {Mgr, None}]
    BY <1>2, <2>4 DEF HeapTyped
  <2> QED BY <1>1, <1>2, <2>3, <2>4, <2>5, SendKeeps
<1> QED BY <1>4, <1>5

LEMMA ScheduleKeeps ==
    ASSUME IInv, NEW i \in Inst, purc_inst_schedule_vdom(i)
    PROVE  IInv'
<1>1. /\ CanCall(i) /\ slips = {} /\ TypeOK /\ Registered(handle[i])
      /\ UNCHANGED <<th, crtns, keep_alive, handle, mgr, sa_insts, nr_insts, slips>>
  BY DEF purc_inst_schedule_vdom, CanCall, Free, Alive, IInv
<1>2. HeapTyped
  BY <1>1, HeapIsTyped
<1>3. handle[i] \in Inst \cup {Mgr}
  BY <1>1, <1>2, NamesApart DEF HeapTyped, Registered
<1>4. PICK m : m = [type |-> "request", op |-> "createCoroutine",
                    from |-> i, id |-> Ask(i), arg |-> handle[i]]
  OBVIOUS
<1>5. m \in Requests
  <2>1. Ask(i) \in Ids
    BY <1>1, NextId
  <2> QED BY <1>3, <1>4, <2>1 DEF Requests
<1>6. SendAndWait(i, handle[i], m)
  BY <1>4 DEF purc_inst_schedule_vdom
<1>7. handle' \in [Inst -> Inst \cup {Mgr, None}]
  BY <1>1, <1>2 DEF HeapTyped
<1> QED BY <1>1, <1>2, <1>3, <1>5, <1>6, <1>7, SendKeeps

LEMMA AskKeeps ==
    ASSUME IInv, NEW i \in Inst, purc_inst_ask_to_shutdown(i)
    PROVE  IInv'
<1>1. /\ CanCall(i) /\ slips = {} /\ TypeOK /\ Waits
      /\ calls' = [calls EXCEPT ![i] = @ + 1]
      /\ UNCHANGED <<th, crtns, keep_alive, call, handle, mgr, sa_insts, nr_insts,
                     slips>>
  BY DEF purc_inst_ask_to_shutdown, CanCall, Free, Alive, IInv
<1>2. HeapTyped /\ buf \in Boxes /\ slips \subseteq Slips
      /\ buf[Mgr] \in Seq(Messages)
  BY <1>1, HeapIsTyped DEF Boxes
<1>3. PICK m : m = [type |-> "request", op |-> "shutdownInstance", from |-> i]
  OBVIOUS
<1>4. m \in Messages /\ m.type = "request"
  BY <1>3 DEF Requests, Messages
<1>5. Moved(buf', buf, handle[i], m)
  BY <1>3 DEF purc_inst_ask_to_shutdown, Moved
<1>6. buf' \in Boxes
  BY <1>2, <1>4, <1>5, MoveKeeps
<1>7. buf'[Mgr] = buf[Mgr] \/ Appended(buf[Mgr], m, buf'[Mgr])
  <2>1. \A y \in Inst \cup {Mgr} : buf'[y] = buf[y] \/ Appended(buf[y], m, buf'[y])
    BY <1>2, <1>4, <1>5, MoveToOne
  <2> QED BY <2>1
<1>8. Alike(buf[Mgr], buf'[Mgr])
  <2>1. \A j \in Born : ~IsReport(m, j)
    BY <1>4 DEF IsReport
  <2> QED BY <1>2, <1>4, <1>7, <2>1, AppendAlike, AlikeSelf DEF Alike
<1>9. HeapTyped'
  <2>1. calls[i] < MaxCalls[i]
    BY <1>1 DEF CanCall
  <2> QED BY <1>1, <1>2, <2>1, RunnersAssumption DEF HeapTyped
<1>10. Waits'
  BY <1>1 DEF Waits
<1> QED BY <1>1, <1>2, <1>6, <1>8, <1>9, <1>10, StagesStay, MessagesKeep

LEMMA TimeoutKeeps ==
    ASSUME IInv, NEW i \in Inst, Timeout(i)
    PROVE  IInv'
<1>1. /\ slips = {} /\ TypeOK /\ Waits /\ Return(i, "TIMEOUT", None)
      /\ slips' \subseteq Slips
      /\ UNCHANGED <<th, crtns, keep_alive, calls, buf, mgr, sa_insts, nr_insts>>
  BY DEF Timeout, Alive, IInv, Slips
<1>2. HeapTyped /\ buf \in Boxes
  BY <1>1, HeapIsTyped
<1>3. Returned(i, "TIMEOUT", None) \in Inst \cup {Mgr, None}
  BY <1>2 DEF Returned, HeapTyped
<1>4. HeapTyped' /\ Waits'
  BY <1>1, <1>2, <1>3 DEF HeapTyped, Waits, Return
<1> QED BY <1>1, <1>2, <1>4, AlikeSelf, StagesStay, MessagesKeep

LEMMA CleanupKeeps ==
    ASSUME IInv, NEW i \in Inst, cleanup_modules(i)
    PROVE  IInv'
<1>1. /\ slips = {} /\ TypeOK /\ Waits
      /\ th[i] = IF i = Main THEN "stopped" ELSE "notified"
      /\ th' = [th EXCEPT ![i] = "closed"]
      /\ crtns' = [crtns EXCEPT ![i] = 0]
      /\ buf' = [buf EXCEPT ![i] = <<>>]
      /\ UNCHANGED <<keep_alive, call, calls, handle, mgr, sa_insts, nr_insts, slips>>
  BY DEF cleanup_modules, Alive, IInv
<1>2. HeapTyped /\ buf \in Boxes /\ slips \subseteq Slips
  BY <1>1, HeapIsTyped
<1>3. buf' \in Boxes /\ buf'[Mgr] = buf[Mgr]
  BY <1>1, <1>2, NamesApart DEF Boxes
<1>4. HeapTyped'
  BY <1>1, <1>2, RunnersAssumption DEF HeapTyped, Stages
<1>5. Waits'
  BY <1>1, <1>2 DEF Waits, HeapTyped, WaitsIn
<1>6. \A j \in Born : SameStage(th[j], th'[j])
  BY <1>1, <1>2, NamesApart DEF HeapTyped, SameStage, Ends
<1>7. th[Main] = "gone" => th'[Main] = "gone"
  BY <1>1, <1>2, NamesApart DEF HeapTyped
<1> QED BY <1>1, <1>2, <1>3, <1>4, <1>5, <1>6, <1>7, AlikeSelf, MessagesKeep

LEMMA InitDoneKeeps ==
    ASSUME IInv, NEW i \in Inst, InitDone(i)
    PROVE  IInv'
<1>1. /\ slips = {} /\ th[i] = "init" /\ TypeOK /\ Waits /\ MgrInv /\ RecordInv
      /\ UNCHANGED <<crtns, keep_alive, call, calls, handle, buf, mgr, sa_insts,
                     nr_insts, slips>>
  BY DEF InitDone, IInv
<1>2. PICK s \in {"ready", "failed"} : th' = [th EXCEPT ![i] = s]
  BY DEF InitDone
<1>3. \A j \in Inst : th'[j] = IF j = i THEN s ELSE th[j]
  BY <1>1, <1>2 DEF TypeOK
<1>4. TypeOK'
  BY <1>1, <1>2 DEF TypeOK, Stages
<1>5. Waits'
  BY <1>1, <1>3 DEF Waits, WaitsIn
<1>6. MgrInv'
  BY <1>1, <1>3, NamesApart DEF MgrInv
<1>7. RecordInv'
  <2> SUFFICES ASSUME mgr.pc # "off", NEW j \in Born, Tracked(j)
               PROVE  Tracked(j)'
    BY <1>1 DEF RecordInv
  <2>1. j \in Inst
    BY NamesApart
  <2>2. CASE j = i
    BY <1>1, <1>3, <2>1, <2>2 DEF Tracked, Ups, Ends
  <2>3. CASE j # i
    BY <1>1, <1>3, <2>1, <2>3 DEF Tracked
  <2> QED BY <2>2, <2>3
<1> QED BY <1>4, <1>5, <1>6, <1>7 DEF IInv

\* The end of an instance is reported, unless that goes wrong.
LEMMA NotifyKeeps ==
    ASSUME IInv, NEW i \in Inst, pcrun_notify_instmgr(i)
    PROVE  IInv'
<1>1. /\ slips = {} /\ th[i] = "stopped" /\ i \in Born
      /\ TypeOK /\ Waits /\ MgrInv /\ RecordInv
      /\ th' = [th EXCEPT ![i] = "notified"]
      /\ UNCHANGED <<crtns, keep_alive, call, calls, handle, mgr, sa_insts, nr_insts>>
  BY NamesApart DEF pcrun_notify_instmgr, Alive, IInv
<1>2. PICK m : m = [type |-> "event", sid |-> i]
  OBVIOUS
<1>3. m \in Messages /\ m.type = "event" /\ m.sid = i
  BY <1>1, <1>2, EventTyped
<1>4. buf \in Boxes /\ buf[Mgr] \in Seq(Messages) /\ slips \subseteq Slips
  BY <1>1, HeapIsTyped DEF Boxes
<1>5. \A j \in Inst : th'[j] = IF j = i THEN "notified" ELSE th[j]
  BY <1>1 DEF TypeOK
<1>6. buf' \in Boxes /\ slips' \subseteq Slips
  <2>1. CASE Registered(Mgr)
    <3>1. Moved(buf', buf, Mgr, m) /\ slips' = slips \cup Dropped(Mgr)
      BY <1>2, <2>1 DEF pcrun_notify_instmgr, Moved
    <3>2. buf' \in Boxes
      BY <1>3, <1>4, <3>1, MoveKeeps
    <3> QED BY <1>4, <3>1, <3>2 DEF Dropped, Slips
  <2>2. CASE ~Registered(Mgr)
    BY <1>4, <2>2 DEF pcrun_notify_instmgr, Slips
  <2> QED BY <2>1, <2>2
<1>7. TypeOK'
  BY <1>1, <1>6 DEF TypeOK, Boxes, Stages
<1>8. Waits'
  BY <1>1, <1>5 DEF Waits, WaitsIn
<1>9. MgrInv'
  BY <1>1, <1>5, NamesApart DEF MgrInv
<1>10. RecordInv'
  <2> SUFFICES ASSUME slips' = {}, mgr.pc # "off", NEW j \in Born, Tracked(j)
               PROVE  Tracked(j)'
    BY <1>1 DEF RecordInv
  <2>1. Registered(Mgr) /\ CanMove(Mgr) /\ Moved(buf', buf, Mgr, m)
    BY <1>2 DEF pcrun_notify_instmgr, Moved, Dropped, Registered, HasBuffer
  <2>2. Appended(buf[Mgr], m, buf'[Mgr])
    BY <1>3, <1>4, <2>1, MoveArrives
  <2>3. CASE j = i
    <3>1. ReportIn(buf'[Mgr], j)
      BY <1>3, <1>4, <2>2, <2>3, AppendAlike DEF IsReport
    <3>2. ~ReportIn(buf[Mgr], j)
      BY <1>1, <2>3 DEF Tracked, Ends
    <3>3. ReportOnce(buf'[Mgr], j)
      BY <1>3, <1>4, <2>2, <3>2, AppendAlike
    <3> QED BY <1>1, <1>5, <2>3, <3>1, <3>3 DEF Tracked, Ups, Ends
  <2>4. CASE j # i
    <3>1. AlikeFor(buf[Mgr], buf'[Mgr], j)
      BY <1>3, <1>4, <2>2, <2>4, AppendAlike DEF IsReport
    <3> QED BY <1>1, <1>5, <2>4, <3>1, NamesApart DEF Tracked, AlikeFor
  <2> QED BY <2>3, <2>4
<1> QED BY <1>7, <1>8, <1>9, <1>10 DEF IInv

\* A thread takes a message from its buffer.
LEMMA PollKeeps ==
    ASSUME IInv, NEW i \in Inst, pcrun_extra_message_source(i)
    PROVE  IInv'
<1>1. /\ slips = {} /\ buf[i] # <<>> /\ TypeOK /\ Waits
      /\ UNCHANGED <<mgr, sa_insts, nr_insts>>
  BY DEF pcrun_extra_message_source, Alive, IInv
<1>2. HeapTyped /\ buf \in Boxes /\ slips \subseteq Slips
  BY <1>1, HeapIsTyped
<1>3. PICK b : b = Taken(i)
  OBVIOUS
<1>4. PICK m : m = Head(buf[i])
  OBVIOUS
<1>5. m \in Messages /\ b \in Boxes /\ b[Mgr] = buf[Mgr]
  <2>1. i \in Inst \cup {Mgr} /\ Mgr \in Inst \cup {Mgr} /\ Mgr # i
    BY NamesApart
  <2> QED BY <1>1, <1>3, <1>4, <2>1, TakenKeeps
<1>6. ASSUME NEW s \in Served(m), m.type = "request", create_coroutine(i, s)
      PROVE  IInv'
  <2>1. s.from \in Inst /\ s.id \in Ids
    <3>1. s \in Requests /\ s.op = "createCoroutine"
      BY <1>5, <1>6, MessageKinds, ServedIs DEF create_coroutine
    <3> QED BY <3>1, RequestKinds
  <2>2. PICK ok \in BOOLEAN :
          /\ ok => crtns[i] < MaxCrtn
          /\ crtns' = [crtns EXCEPT ![i] = IF ok THEN @ + 1 ELSE @]
          /\ buf' = Move(Taken(i), s.from,
                         Response(s, IF ok THEN "OK" ELSE "BAD_REQUEST", None))
          /\ slips' = slips \cup Dropped(s.from)
                            \cup IF ok /\ th[i] = "quit"
                                 THEN {"late coroutine"} ELSE {}
    BY <1>6 DEF create_coroutine
  <2>3. UNCHANGED <<th, keep_alive, call, calls, handle>>
    BY <1>6 DEF create_coroutine
  <2>4. PICK c : c = IF ok THEN "OK" ELSE "BAD_REQUEST"
    OBVIOUS
  <2>5. PICK r : r = Response(s, c, None)
    OBVIOUS
  <2>6. r \in Messages
    <3>1. c \in {"OK", "CONFLICT", "BAD_REQUEST"}
      BY <2>4
    <3> QED BY <2>1, <2>5, <3>1, ResponseTyped
  <2>7. Moved(buf', b, s.from, r)
    BY <1>3, <2>2, <2>4, <2>5 DEF Moved
  <2>8. buf' \in Boxes
    BY <1>5, <2>6, <2>7, MoveKeeps
  <2>9. buf'[Mgr] = buf[Mgr]
    <3>1. PICK x : x = s.from
      OBVIOUS
    <3>2. x # Mgr /\ Moved(buf', b, x, r)
      BY <2>1, <2>7, <3>1, NamesApart
    <3> QED BY <1>5, <2>6, <3>2, MoveElsewhere
  <2>10. slips' \subseteq Slips
    BY <1>2, <2>2 DEF Dropped, Slips
  <2>11. PICK n \in 0 .. MaxCrtn : crtns' = [crtns EXCEPT ![i] = n] /\ crtns[i] <= n
    <3>1. crtns[i] \in 0 .. MaxCrtn /\ MaxCrtn \in Nat
      BY <1>2, RunnersAssumption DEF HeapTyped
    <3>2. (IF ok THEN crtns[i] + 1 ELSE crtns[i]) \in 0 .. MaxCrtn
      <4>1. ok => crtns[i] < MaxCrtn
        BY <2>2
      <4> QED BY <3>1, <4>1
    <3>3. crtns[i] <= IF ok THEN crtns[i] + 1 ELSE crtns[i]
      BY <3>1
    <3>4. crtns' = [crtns EXCEPT ![i] = IF ok THEN crtns[i] + 1 ELSE crtns[i]]
      BY <2>2
    <3> QED BY <3>2, <3>3, <3>4
  <2>12. HeapTyped' /\ Waits'
    BY <1>1, <1>2, <2>3, <2>11 DEF Waits, HeapTyped, WaitsIn
  <2> QED BY <1>1, <2>3, <2>8, <2>9, <2>10, <2>12, AlikeSelf, StagesStay,
            MessagesKeep
<1>7. ASSUME NEW s \in Served(m), shutdown_instance(i, s)
      PROVE  IInv'
  <2>1. PICK keep \in {0, 1} :
          /\ keep_alive' = [keep_alive EXCEPT ![i] = keep]
          /\ LET stop == keep = 0 /\ crtns[i] = 0
             IN  /\ th' = IF stop THEN RunloopStop(i) ELSE th
                 /\ slips' = IF stop /\ th[i] = "ready"
                             THEN slips \cup {"stop lost"} ELSE slips
    BY <1>7 DEF shutdown_instance
  <2>2. buf' = b /\ UNCHANGED <<crtns, call, calls, handle>>
    BY <1>3, <1>7 DEF shutdown_instance
  <2>3. slips' \subseteq Slips
    BY <1>2, <2>1 DEF Slips
  <2>4. \/ th' = th
        \/ th[i] = "run" /\ crtns[i] = 0 /\ th' = [th EXCEPT ![i] = "quit"]
    BY <2>1 DEF RunloopStop
  <2>5. HeapTyped'
    BY <1>2, <2>1, <2>2, <2>4 DEF HeapTyped, Stages
  <2>6. Waits'
    BY <1>1, <1>2, <2>2, <2>4 DEF Waits, HeapTyped, WaitsIn
  <2>7. /\ \A j \in Born : SameStage(th[j], th'[j])
        /\ th[Main] = "gone" => th'[Main] = "gone"
    BY <1>2, <2>4, NamesApart DEF HeapTyped, SameStage, Ups
  <2> QED BY <1>1, <1>5, <2>2, <2>3, <2>5, <2>6, <2>7, AlikeSelf, MessagesKeep
<1>8. CASE buf' = Taken(i) /\ UNCHANGED <<inst, slips>>
  <2>1. buf' = b /\ UNCHANGED <<inst, slips>>
    BY <1>3, <1>8
  <2>2. HeapTyped' /\ Waits'
    BY <1>1, <1>2, <2>1 DEF HeapTyped, Waits, inst
  <2> QED BY <1>1, <1>2, <1>5, <2>1, <2>2, AlikeSelf, StagesStay, MessagesKeep DEF inst
<1>9. CASE HandleResponse(i, m)
  <2>1. /\ m.type = "response" /\ buf' = b
        /\ UNCHANGED <<th, crtns, keep_alive, calls, slips>>
        /\ \/ Return(i, m.code, m.value)
           \/ UNCHANGED <<call, handle>>
    BY <1>3, <1>9 DEF HandleResponse
  <2>2. m.value \in Inst \cup {None}
    BY <1>5, <2>1, MessageKinds
  <2>3. Returned(i, m.code, m.value) \in Inst \cup {Mgr, None}
    BY <1>2, <2>2 DEF Returned, HeapTyped
  <2>4. HeapTyped' /\ Waits'
    BY <1>1, <1>2, <2>1, <2>3 DEF HeapTyped, Waits, Return
  <2> QED BY <1>1, <1>2, <1>5, <2>1, <2>4, AlikeSelf, StagesStay, MessagesKeep
<1>10. pcrun_request_handler(i, m) \/ HandleResponse(i, m)
  BY <1>4 DEF pcrun_extra_message_source
<1> QED BY <1>6, <1>7, <1>8, <1>9, <1>10 DEF pcrun_request_handler

-----------------------------------------------------------------------------
(* InstMgr. *)

\* The buffer of InstMgr without its head.
LEMMA MgrTakes ==
    ASSUME TypeOK, buf[Mgr] # <<>>, NEW m, m = Head(buf[Mgr]), NEW b, b = Taken(Mgr)
    PROVE  /\ m \in Messages /\ b \in Boxes /\ b[Mgr] = Tail(buf[Mgr])
           /\ \A i \in Inst : b[i] = buf[i]
           /\ m.type # "event" => Alike(buf[Mgr], b[Mgr])
<1>1. Mgr \in Inst \cup {Mgr} /\ Mgr \notin Inst /\ buf[Mgr] \in Seq(Messages)
  BY NamesApart DEF TypeOK
<1>2. /\ m \in Messages /\ b \in Boxes /\ b[Mgr] = Tail(buf[Mgr])
      /\ \A i \in Inst : b[i] = buf[i]
  BY <1>1, TakenKeeps
<1>3. m.type # "event" => \A i \in Born : ~IsReport(m, i)
  BY DEF IsReport
<1> QED BY <1>1, <1>2, <1>3, TailAlike DEF Alike

\* InstMgr throws a message away, or answers it.
LEMMA TakesKeeps ==
    ASSUME IInv, slips = {}, buf[Mgr] # <<>>, NEW m, m = Head(buf[Mgr]),
           m.type # "event", buf' = Taken(Mgr), slips' \subseteq Slips,
           UNCHANGED <<inst, mgr, sa_insts, nr_insts>>
    PROVE  IInv'
<1>1. TypeOK /\ Waits /\ HeapTyped
  BY HeapIsTyped DEF IInv
<1>2. buf' \in Boxes /\ Alike(buf[Mgr], buf'[Mgr])
  BY <1>1, MgrTakes
<1>3. HeapTyped' /\ Waits'
  BY <1>1 DEF HeapTyped, Waits, inst
<1> QED BY <1>1, <1>2, <1>3, StagesStay, MessagesKeep DEF inst

LEMMA AnswerKeeps ==
    ASSUME IInv, slips = {}, buf[Mgr] # <<>>, NEW h, h = Head(buf[Mgr]),
           h.type # "event", NEW m, m.from \in Inst, m.id \in Ids,
           NEW c \in {"OK", "CONFLICT", "BAD_REQUEST"}, NEW v \in Inst \cup {None},
           Answer(m, c, v), UNCHANGED <<inst, mgr, sa_insts, nr_insts>>
    PROVE  IInv'
<1>1. TypeOK /\ Waits /\ HeapTyped /\ slips \subseteq Slips
  BY HeapIsTyped DEF IInv
<1>2. PICK b : b = Taken(Mgr)
  OBVIOUS
<1>3. b \in Boxes /\ Alike(buf[Mgr], b[Mgr])
  BY <1>1, <1>2, MgrTakes
<1>4. PICK r : r = Response(m, c, v)
  OBVIOUS
<1>5. r \in Messages
  BY <1>4, ResponseTyped
<1>6. PICK x : x = m.from
  OBVIOUS
<1>7. Moved(buf', b, x, r) /\ slips' = slips \cup Dropped(x)
  BY <1>2, <1>4, <1>6 DEF Answer, Moved
<1>8. x # Mgr
  BY <1>6, NamesApart
<1>9. buf' \in Boxes /\ buf'[Mgr] = b[Mgr]
  BY <1>3, <1>5, <1>7, <1>8, MoveElsewhere
<1>10. slips' \subseteq Slips
  BY <1>1, <1>7 DEF Dropped, Slips
<1>11. HeapTyped' /\ Waits'
  BY <1>1 DEF HeapTyped, Waits, inst
<1> QED BY <1>1, <1>3, <1>9, <1>10, <1>11, StagesStay, MessagesKeep DEF inst

\* A thread is begun.
LEMMA BeginKeeps ==
    ASSUME IInv, slips = {}, mgr.pc = "idle", buf[Mgr] # <<>>,
           NEW h, h = Head(buf[Mgr]), h.type # "event",
           NEW m \in Requests, m.op = "createInstance", Registered(m.from), NEW a \in Fresh(m.arg),
           th' = [th EXCEPT ![a] = "init"],
           mgr' = [pc |-> "wait", new |-> a, req |-> m],
           buf' = Taken(Mgr),
           UNCHANGED <<crtns, keep_alive, call, calls, handle, sa_insts, nr_insts, slips>>
    PROVE  IInv'
<1>1. TypeOK /\ Waits /\ MgrInv /\ RecordInv
  BY DEF IInv
<1>2. /\ m # None /\ m.from \in Inst /\ m.arg \in Name
  BY RequestKinds
<1>3. a \in Born /\ a \in Inst /\ th[a] = "none" /\ a # Main /\ a # None
  <2>1. PICK k \in 1 .. MaxBorn : a = <<m.arg, k>> /\ th[<<m.arg, k>>] = "none"
    BY DEF Fresh
  <2>2. a \in Born
    BY <1>2, <2>1 DEF Born
  <2> QED BY <2>1, <2>2, NamesApart
<1>4. m.from # a
  BY <1>2, <1>3, NamesApart DEF Registered
<1>5. buf' \in Boxes /\ Alike(buf[Mgr], buf'[Mgr])
  BY <1>1, MgrTakes
<1>6. \A j \in Inst : th'[j] = IF j = a THEN "init" ELSE th[j]
  BY <1>1 DEF TypeOK
<1>7. TypeOK'
  BY <1>1, <1>3, <1>5 DEF TypeOK, Boxes, Stages
<1>8. Waits'
  BY <1>1, <1>3, <1>6 DEF Waits, WaitsIn
<1>9. mgr'.pc = "wait" /\ mgr'.new = a /\ mgr'.req = m /\ mgr.new = None
  BY <1>1 DEF MgrInv
<1>10. MgrInv'
  BY <1>2, <1>3, <1>4, <1>9 DEF MgrInv
<1>11. RecordInv'
  <2> SUFFICES ASSUME NEW j \in Born, Tracked(j) PROVE Tracked(j)'
    BY <1>1 DEF RecordInv
  <2>1. j # None /\ j \in Inst /\ AlikeFor(buf[Mgr], buf'[Mgr], j)
    BY <1>5, NamesApart DEF Alike
  <2>2. CASE j = a
    BY <1>3, <1>6, <1>9, <2>1, <2>2 DEF Tracked, Ups, Ends, AlikeFor
  <2>3. CASE j # a
    BY <1>6, <1>9, <2>1, <2>3 DEF Tracked, AlikeFor
  <2> QED BY <2>2, <2>3
<1> QED BY <1>7, <1>8, <1>10, <1>11 DEF IInv

\* A thread has been begun for a request: its record is made.
LEMMA CreateDoneKeeps ==
    ASSUME IInv, CreateDone
    PROVE  IInv'
<1>1. /\ TypeOK /\ Waits /\ MgrInv /\ RecordInv /\ slips = {} /\ UNCHANGED inst
      /\ mgr.pc = "wait" /\ th[mgr.new] # "init"
      /\ mgr' = [pc |-> "idle", new |-> None, req |-> None]
      /\ sa_insts' = sa_insts \cup Made
      /\ nr_insts' = nr_insts + Cardinality(Made)
  BY DEF IInv, CreateDone
<1>2. PICK m : m = mgr.req
  OBVIOUS
<1>3. PICK a : a = mgr.new
  OBVIOUS
<1>4. /\ m \in Requests /\ m.op = "createInstance" /\ a \in Born /\ a \in Inst
      /\ m.from \in Inst /\ m.id \in Ids
  <2>1. m \in Requests /\ m.op = "createInstance" /\ a \in Born
    BY <1>1, <1>2, <1>3 DEF TypeOK, MgrInv
  <2> QED BY <2>1, RequestKinds, NamesApart
<1>5. /\ Made = (IF th[a] = "failed" THEN {} ELSE {a}) /\ th[a] # "init"
      /\ th[a] \in Stages
  BY <1>1, <1>3, <1>4 DEF Made, TypeOK
<1>6. /\ buf \in Boxes /\ slips \subseteq Slips
  BY <1>1, HeapIsTyped
<1>7. PICK r : r = IF Made = {} THEN Response(m, "CONFLICT", None)
                   ELSE Response(m, "OK", mgr.new)
  OBVIOUS
<1>8. r \in Messages
  <2>1. CASE Made = {}
    BY <1>4, <1>7, <2>1, ResponseTyped
  <2>2. CASE Made # {}
    BY <1>3, <1>4, <1>7, <2>2, ResponseTyped
  <2> QED BY <2>1, <2>2
<1>9. PICK x : x = m.from
  OBVIOUS
<1>10. Moved(buf', buf, x, r)
  BY <1>2, <1>7, <1>9 DEF CreateDone, Moved
<1>11. x # Mgr
  BY <1>4, <1>9, NamesApart
<1>12. buf' \in Boxes /\ buf'[Mgr] = buf[Mgr]
  BY <1>6, <1>8, <1>10, <1>11, MoveElsewhere
<1>13. slips' \subseteq Slips
  BY <1>1, <1>6 DEF CreateDone, Dropped, Slips
<1>14. nr_insts' \in Int
  BY <1>1, <1>5, FS_EmptySet, FS_Singleton DEF TypeOK
<1>15. TypeOK'
  BY <1>1, <1>4, <1>5, <1>12, <1>13, <1>14 DEF TypeOK, Boxes, inst
<1>16. Waits' /\ MgrInv'
  BY <1>1 DEF Waits, MgrInv, inst
<1>17. RecordInv'
  <2>1. /\ IsFiniteSet(sa_insts) /\ nr_insts = Cardinality(sa_insts)
        /\ \A j \in Born : Tracked(j)
    BY <1>1 DEF RecordInv
  <2>2. a \notin sa_insts /\ th[a] # "none" /\ (th[a] \in Ends => ReportIn(buf[Mgr], a))
    BY <1>3, <1>4, <2>1 DEF Tracked
  <2>3. IsFiniteSet(sa_insts') /\ nr_insts' = Cardinality(sa_insts')
    <3>1. CASE th[a] = "failed"
      BY <1>1, <1>5, <2>1, <3>1, FS_EmptySet, FS_CardinalityType
    <3>2. CASE th[a] # "failed"
      <4>1. Made = {a} /\ Cardinality(Made) = 1
        BY <1>5, <3>2, FS_Singleton
      <4>2. IsFiniteSet(sa_insts \cup {a})
            /\ Cardinality(sa_insts \cup {a}) = Cardinality(sa_insts) + 1
        BY <2>1, <2>2, FS_AddElement
      <4> QED BY <1>1, <2>1, <4>1, <4>2
    <3> QED BY <3>1, <3>2
  <2>4. ASSUME NEW j \in Born PROVE Tracked(j)'
    <3>1. Tracked(j) /\ j # None /\ mgr'.new = None /\ th' = th
      BY <1>1, <2>1, NamesApart DEF inst
    <3>2. CASE j = a
      <4>1. a \in sa_insts' <=> th[a] # "failed"
        BY <1>1, <1>5, <2>2
      <4>2. th[a] \in Ups \/ th[a] \in Ends \/ th[a] = "failed"
        BY <1>5, <2>2 DEF Stages, Ups, Ends
      <4> QED BY <1>5, <1>12, <2>2, <3>1, <3>2, <4>1, <4>2 DEF Tracked, Ups, Ends
    <3>3. CASE j # a
      <4>1. j \in sa_insts' <=> j \in sa_insts
        BY <1>1, <1>5, <3>3
      <4> QED BY <1>3, <1>12, <3>1, <3>3, <4>1 DEF Tracked
    <3> QED BY <3>2, <3>3
  <2> QED BY <2>3, <2>4 DEF RecordInv
<1> QED BY <1>15, <1>16, <1>17 DEF IInv

\* InstMgr reads the report of an instance: its record goes.
LEMMA StoppedKeeps ==
    ASSUME IInv, slips = {}, mgr.pc = "idle", buf[Mgr] # <<>>,
           NEW m, m = Head(buf[Mgr]), InstStopped(m),
           UNCHANGED <<crtns, keep_alive, call, calls, handle>>
    PROVE  IInv'
<1>1. /\ TypeOK /\ Waits /\ MgrInv /\ RecordInv /\ mgr.new = None
      /\ m.type = "event" /\ UNCHANGED <<inst, mgr>>
  BY DEF IInv, MgrInv, InstStopped, inst
<1>2. PICK b : b = Taken(Mgr)
  OBVIOUS
<1>3. /\ m \in Messages /\ b \in Boxes /\ b[Mgr] = Tail(buf[Mgr])
      /\ buf[Mgr] \in Seq(Messages) /\ slips \subseteq Slips
  BY <1>1, <1>2, MgrTakes, HeapIsTyped DEF Boxes
<1>4. PICK i \in Born : i = m.sid
  BY <1>1, <1>3, MessageKinds
<1>5. /\ IsFiniteSet(sa_insts) /\ nr_insts = Cardinality(sa_insts)
      /\ \A j \in Born : Tracked(j)
  BY <1>1 DEF RecordInv
<1>6. IsReport(m, i) /\ ReportIn(buf[Mgr], i) /\ ReportOnce(buf[Mgr], i)
  <2>1. IsReport(m, i)
    BY <1>1, <1>4 DEF IsReport
  <2>2. buf[Mgr][1] = m /\ 1 \in 1 .. Len(buf[Mgr])
    BY <1>3
  <2> QED BY <1>5, <2>1, <2>2 DEF ReportIn, Tracked
<1>7. th[i] \in Ends /\ i # None /\ i \in sa_insts
  BY <1>1, <1>5, <1>6, NamesApart DEF Tracked
<1>8. /\ sa_insts' = sa_insts \ {i} /\ nr_insts' = nr_insts - 1
      /\ IF LastOne
         THEN /\ buf' = Move(b, Main, [type |-> "request",
                                       op |-> "shutdownInstance", from |-> Mgr])
              /\ slips' = slips \cup Dropped(Main)
         ELSE buf' = b /\ UNCHANGED slips
  BY <1>2, <1>4, <1>7 DEF InstStopped
<1>9. buf' \in Boxes /\ buf'[Mgr] = b[Mgr]
  <2>1. CASE LastOne
    <3>1. PICK r : r = [type |-> "request", op |-> "shutdownInstance", from |-> Mgr]
      OBVIOUS
    <3>2. r \in Messages
      BY <3>1 DEF Messages, Requests
    <3>3. Moved(buf', b, Main, r) /\ Main # Mgr
      BY <1>8, <2>1, <3>1, RunnersAssumption DEF Moved
    <3> QED BY <1>3, <3>2, <3>3, MoveElsewhere
  <2>2. CASE ~LastOne
    BY <1>3, <1>8, <2>2
  <2> QED BY <2>1, <2>2
<1>10. slips' \subseteq Slips
  BY <1>3, <1>8 DEF Dropped, Slips
<1>11. TypeOK'
  BY <1>1, <1>8, <1>9, <1>10 DEF TypeOK, Boxes, inst
<1>12. Waits' /\ MgrInv'
  BY <1>1 DEF Waits, MgrInv, inst
<1>13. RecordInv'
  <2>1. IsFiniteSet(sa_insts') /\ nr_insts' = Cardinality(sa_insts')
    <3>1. /\ IsFiniteSet(sa_insts \ {i})
          /\ Cardinality(sa_insts \ {i}) = Cardinality(sa_insts) - 1
      BY <1>5, <1>7, FS_RemoveElement
    <3> QED BY <1>5, <1>8, <3>1
  <2>2. ASSUME NEW j \in Born PROVE Tracked(j)'
    <3>1. Tracked(j) /\ mgr' = mgr /\ th' = th
      BY <1>1, <1>5 DEF inst
    <3>2. CASE j = i
      <4>1. ~ReportIn(buf'[Mgr], j) /\ ReportOnce(buf'[Mgr], j)
        BY <1>3, <1>6, <1>9, <3>2, TailAlike
      <4>2. j \notin sa_insts'
        BY <1>8, <3>2
      <4>3. th[j] \in Ends /\ th[j] \notin Ups /\ th[j] # "init" /\ j # mgr.new
        BY <1>1, <1>7, <3>2 DEF Ups, Ends
      <4> QED BY <3>1, <4>1, <4>2, <4>3 DEF Tracked
    <3>3. CASE j # i
      <4>1. AlikeFor(buf[Mgr], buf'[Mgr], j)
        <5>1. ~IsReport(m, j)
          BY <1>4, <3>3 DEF IsReport
        <5> QED BY <1>3, <1>9, <5>1, TailAlike
      <4>2. j \in sa_insts' <=> j \in sa_insts
        BY <1>8, <3>3
      <4> QED BY <3>1, <4>1, <4>2 DEF Tracked, AlikeFor
    <3> QED BY <3>2, <3>3
  <2> QED BY <2>1, <2>2 DEF RecordInv
<1> QED BY <1>11, <1>12, <1>13 DEF IInv

\* One message handled by InstMgr.
LEMMA HandleKeeps ==
    ASSUME IInv, pcrun_instmgr_handle_message
    PROVE  IInv'
<1>1. /\ TypeOK /\ slips = {} /\ mgr.pc = "idle" /\ buf[Mgr] # <<>>
      /\ UNCHANGED <<crtns, keep_alive, call, calls, handle>>
  BY DEF pcrun_instmgr_handle_message, IInv
<1>2. PICK m : m = Head(buf[Mgr])
  OBVIOUS
<1>3. m \in Messages /\ slips \subseteq Slips
  BY <1>1, <1>2, MgrTakes DEF TypeOK
<1>4. CASE InstStopped(m)
  BY <1>1, <1>2, <1>4, StoppedKeeps
<1>5. CASE MgrRequest(m)
  <2>1. m \in Requests /\ m.type # "event"
    BY <1>3, <1>5, MessageKinds DEF MgrRequest
  <2>2. ASSUME buf' = Taken(Mgr), UNCHANGED <<th, mgr, sa_insts, nr_insts>>,
               slips' \subseteq Slips
        PROVE  IInv'
    <3>1. UNCHANGED <<inst, mgr, sa_insts, nr_insts>>
      BY <1>1, <2>2 DEF inst
    <3> QED BY <1>1, <1>2, <2>1, <2>2, <3>1, TakesKeeps
  <2>3. ASSUME NEW s \in Served(m), create_instance(s)
        PROVE  IInv'
    <3>1. /\ s \in Requests /\ s.op = "createInstance" /\ Registered(s.from)
          /\ s.from \in Inst /\ s.id \in Ids
      <4>1. s \in Requests /\ s.op = "createInstance" /\ Registered(s.from)
        BY <2>1, <2>3, ServedIs DEF create_instance
      <4> QED BY <4>1, RequestKinds
    <3>2. UNCHANGED <<sa_insts, nr_insts>>
      BY <2>3 DEF create_instance
    <3>3. CASE \E a \in Running(s.arg) : Answer(s, "OK", a) /\ UNCHANGED <<th, mgr>>
      <4>1. PICK a \in Running(s.arg) : Answer(s, "OK", a) /\ UNCHANGED <<th, mgr>>
        BY <3>3
      <4>2. a \in Inst
        BY NamesApart DEF Running
      <4>3. UNCHANGED <<inst, mgr, sa_insts, nr_insts>>
        BY <1>1, <3>2, <4>1 DEF inst
      <4> QED BY <1>1, <1>2, <2>1, <3>1, <4>1, <4>2, <4>3, AnswerKeeps
    <3>4. CASE /\ \E a \in Fresh(s.arg) :
                     /\ th' = [th EXCEPT ![a] = "init"]
                     /\ mgr' = [pc |-> "wait", new |-> a, req |-> s]
               /\ buf' = Taken(Mgr)
               /\ UNCHANGED slips
      <4>1. PICK a \in Fresh(s.arg) : /\ th' = [th EXCEPT ![a] = "init"]
                                      /\ mgr' = [pc |-> "wait", new |-> a, req |-> s]
        BY <3>4
      <4> QED BY <1>1, <1>2, <2>1, <3>1, <3>2, <3>4, <4>1, BeginKeeps
    <3>5. CASE /\ slips' = slips \cup {"out of names"}
               /\ buf' = Taken(Mgr)
               /\ UNCHANGED <<th, mgr>>
      <4>1. slips' \subseteq Slips
        BY <1>3, <3>5 DEF Slips
      <4> QED BY <2>2, <3>2, <3>5, <4>1
    <3> QED BY <2>3, <3>3, <3>4, <3>5 DEF create_instance
  <2>4. ASSUME NEW s \in Served(m), m.op # "createInstance", BadRequest(s)
        PROVE  IInv'
    <3>1. UNCHANGED <<th, mgr, sa_insts, nr_insts>>
      BY <2>4 DEF BadRequest
    <3>2. CASE s.op = "createCoroutine"
      <4>1. s \in Requests
        BY <2>1, <2>4, ServedIs
      <4>2. s.from \in Inst /\ s.id \in Ids /\ Answer(s, "BAD_REQUEST", None)
        BY <2>4, <3>2, <4>1, RequestKinds DEF BadRequest
      <4>3. UNCHANGED <<inst, mgr, sa_insts, nr_insts>>
        BY <1>1, <3>1 DEF inst
      <4> QED BY <1>1, <1>2, <2>1, <4>2, <4>3, AnswerKeeps
    <3>3. CASE s.op # "createCoroutine"
      <4>1. buf' = Taken(Mgr) /\ UNCHANGED slips
        BY <2>4, <3>3 DEF BadRequest
      <4> QED BY <1>3, <2>2, <3>1, <4>1
    <3> QED BY <3>2, <3>3
  <2>5. CASE buf' = Taken(Mgr) /\ UNCHANGED <<th, mgr, sa_insts, nr_insts, slips>>
    BY <1>3, <2>2, <2>5
  <2> QED BY <1>5, <2>3, <2>4, <2>5 DEF MgrRequest
<1>6. MgrRequest(m) \/ InstStopped(m)
  BY <1>2 DEF pcrun_instmgr_handle_message
<1> QED BY <1>4, <1>5, <1>6

\* The loop of InstMgr begins, or is told to stop.
LEMMA LoopKeeps ==
    ASSUME IInv, MgrRuns \/ _runloop_stop_main
    PROVE  IInv'
<1>1. /\ TypeOK /\ Waits /\ MgrInv /\ RecordInv
      /\ slips = {} /\ UNCHANGED <<inst, sa_insts, nr_insts>>
  BY DEF IInv, MgrRuns, _runloop_stop_main
<1>2. Waits'
  BY <1>1 DEF Waits, inst
<1>3. CASE MgrRuns
  <2>1. /\ mgr.pc = "starting" /\ mgr' = [mgr EXCEPT !.pc = "idle"]
        /\ UNCHANGED <<buf, slips>>
    BY <1>3 DEF MgrRuns
  <2>2. mgr'.pc = "idle" /\ mgr'.new = mgr.new /\ mgr'.req = mgr.req
    BY <1>1, <2>1 DEF TypeOK
  <2>3. TypeOK'
    BY <1>1, <2>1 DEF TypeOK, inst
  <2>4. MgrInv'
    BY <1>1, <2>1, <2>2 DEF MgrInv, inst
  <2>5. RecordInv'
    BY <1>1, <2>1, <2>2, AlikeSelf, StagesStay, RecordsStay DEF inst
  <2> QED BY <1>2, <2>3, <2>4, <2>5 DEF IInv
<1>4. CASE _runloop_stop_main /\ mgr.pc = "starting"
  <2>1. slips' = slips \cup {"exit hangs"} /\ UNCHANGED <<mgr, buf>>
    BY <1>4 DEF _runloop_stop_main
  <2>2. TypeOK'
    BY <1>1, <2>1 DEF TypeOK, Slips, inst
  <2>3. MgrInv' /\ RecordInv'
    BY <1>1, <2>1 DEF MgrInv, RecordInv, inst
  <2> QED BY <1>2, <2>2, <2>3 DEF IInv
<1>5. CASE _runloop_stop_main /\ mgr.pc = "idle"
  <2>1. /\ th[Main] = "gone" /\ mgr' = [mgr EXCEPT !.pc = "off"]
        /\ buf' = [buf EXCEPT ![Mgr] = <<>>] /\ UNCHANGED slips
    BY <1>5 DEF _runloop_stop_main
  <2>2. mgr'.pc = "off" /\ mgr'.new = mgr.new /\ mgr'.req = mgr.req
    BY <1>1, <2>1 DEF TypeOK
  <2>3. TypeOK'
    <3>1. buf' \in Boxes
      <4>1. <<>> \in Seq(Messages) /\ buf \in Boxes
        BY <1>1, HeapIsTyped
      <4> QED BY <2>1, <4>1 DEF Boxes
    <3>2. mgr' \in [pc : {"starting", "idle", "wait", "off"},
                    new : Born \cup {None}, req : Requests \cup {None}]
      BY <1>1, <2>1 DEF TypeOK
    <3> QED BY <1>1, <2>1, <3>1, <3>2 DEF TypeOK, Boxes, inst
  <2>4. MgrInv'
    BY <1>1, <1>5, <2>1, <2>2 DEF MgrInv, inst
  <2>5. RecordInv'
    BY <2>2 DEF RecordInv
  <2> QED BY <1>2, <2>3, <2>4, <2>5 DEF IInv
<1> QED BY <1>3, <1>4, <1>5 DEF _runloop_stop_main

-----------------------------------------------------------------------------
(* The theorems. *)

LEMMA InitSound ==
    ASSUME Init
    PROVE  IInv
<1>1. TypeOK
  <2>1. buf \in Boxes
    <3>1. <<>> \in Seq(Messages)
      OBVIOUS
    <3> QED BY <3>1 DEF Init, Boxes
  <2> QED BY <2>1, RunnersAssumption, NamesApart DEF Init, TypeOK, Boxes, Stages, Slips
<1>2. \A i \in Inst : call[i] = None /\ buf[Mgr] = <<>>
  BY DEF Init
<1>3. Waits /\ MgrInv
  BY <1>2 DEF Init, Waits, MgrInv
<1>4. RecordInv
  <2>1. IsFiniteSet(sa_insts) /\ nr_insts = Cardinality(sa_insts)
    BY FS_EmptySet DEF Init
  <2>2. ASSUME NEW i \in Born PROVE Tracked(i)
    <3>1. th[i] = "none" /\ i # mgr.new /\ i \notin sa_insts
      BY NamesApart DEF Init
    <3>2. Len(buf[Mgr]) = 0
      BY DEF Init
    <3>3. ~ReportIn(buf[Mgr], i) /\ ReportOnce(buf[Mgr], i)
      BY <3>2 DEF ReportIn, ReportOnce
    <3> QED BY <3>1, <3>3 DEF Tracked, Ups, Ends
  <2> QED BY <2>1, <2>2 DEF RecordInv
<1> QED BY <1>1, <1>3, <1>4 DEF IInv

LEMMA NextSound ==
    ASSUME IInv, [Next]_vars
    PROVE  IInv'
<1>1. CASE MgrNext
  BY <1>1, CreateDoneKeeps, HandleKeeps, LoopKeeps DEF MgrNext
<1>2. ASSUME NEW i \in Inst, InstNext(i)
      PROVE  IInv'
  BY <1>2, CreateOrGetKeeps, ScheduleKeeps, AskKeeps, GoesOnKeeps, PollKeeps,
     TimeoutKeeps, InitDoneKeeps, NotifyKeeps, CleanupKeeps DEF InstNext
<1>3. CASE UNCHANGED vars
  <2>1. TypeOK'
    BY <1>3 DEF IInv, TypeOK, vars, inst
  <2>2. Waits' /\ MgrInv' /\ RecordInv'
    BY <1>3 DEF IInv, Waits, MgrInv, RecordInv, Tracked, vars, inst
  <2> QED BY <2>1, <2>2 DEF IInv
<1> QED BY <1>1, <1>2, <1>3 DEF Next

LEMMA IInvHolds == Spec => []IInv
<1>1. Init => IInv
  BY InitSound
<1>2. IInv /\ [Next]_vars => IInv'
  BY NextSound
<1> QED BY <1>1, <1>2, PTL DEF Spec

\* The variables stay within their types; in particular no instance has more
\* coroutines than it may and the identifiers of requests are its own.
THEOREM RunnersTyped == Spec => []TypeOK
<1>1. IInv => TypeOK
  BY DEF IInv
<1> QED BY <1>1, IInvHolds, PTL

\* RecordsExact (sa_insts and nr_insts, runners.c): until the first mishap, the
\* instances InstMgr has on record are those that were initialized and whose
\* report it has not read yet, and the count is their number.
THEOREM RecordsStayExact == Spec => []RecordsExact
<1>1. IInv => RecordsExact
  <2> SUFFICES ASSUME IInv, slips = {}, mgr.pc # "off"
               PROVE  /\ nr_insts = Cardinality(sa_insts)
                      /\ \A i \in Born : i \in sa_insts <=>
                            /\ i # mgr.new
                            /\ \/ th[i] \in {"ready", "run", "quit", "stopped"}
                               \/ th[i] \in {"notified", "closed", "gone"} /\ Reported(i)
    BY DEF RecordsExact
  <2>1. nr_insts = Cardinality(sa_insts) /\ \A i \in Born : Tracked(i)
    BY DEF IInv, RecordInv
  <2>2. \A i \in Born : ReportIn(buf[Mgr], i) <=> Reported(i)
    BY DEF ReportIn, IsReport, Reported
  <2> QED BY <2>1, <2>2 DEF Tracked, Ups, Ends
<1> QED BY <1>1, IInvHolds, PTL

-----------------------------------------------------------------------------
(* The invariant behind LastOneGone: identifiers. *)

\* A request that is answered, and its answer, carry its identifier.
Carries(m, t) == /\ m.type = "response" \/ (m.type = "request" /\ m.op # "shutdownInstance")
                 /\ m.id = t

IdIn(q, t) == \E k \in 1 .. Len(q) : Carries(q[k], t)

IdOnce(q, t) ==
    \A k, l \in 1 .. Len(q) : Carries(q[k], t) /\ Carries(q[l], t) => k = l

\* No two messages in the buffers b have the same identifier.
Apart(b) ==
    \A t \in Ids :
       /\ \A x \in Inst \cup {Mgr} : IdOnce(b[x], t)
       /\ \A x, y \in Inst \cup {Mgr} : IdIn(b[x], t) /\ IdIn(b[y], t) => x = y

\* No message in b has the identifier t.
Unused(b, t) == \A x \in Inst \cup {Mgr} : ~IdIn(b[x], t)

\* An identifier that was given to a request.
Given(cs, t) == t[2] < cs[t[1]]

\* An identifier is given once, and then to one message at a time: the request
\* in the buffer of whom it asks, what InstMgr works on, or the answer.
IdsSound(b, cs) == Apart(b) /\ \A t \in Ids : Unused(b, t) \/ Given(cs, t)

WorkSound(b, cs, w) ==
    w.pc = "wait" => w.req.id \in Ids /\ Unused(b, w.req.id) /\ Given(cs, w.req.id)

IdsInv == IdsSound(buf, calls) /\ WorkSound(buf, calls, mgr)

\* The request of InstMgr to shut down.
IsFarewell(m) == m.type = "request" /\ m.op = "shutdownInstance" /\ m.from = Mgr

\* The message m tells Main, which waits with the request c, of an instance.
TellsOf(m, c) == m.type = "response" /\ m.id = c.id /\ m.value # None

\* Behind every request to shut down in the buffer q of Main, with records S,
\* comes the instance that Main waits for, or there is no record.
Overtaken(q, c, S) ==
    \A k \in 1 .. Len(q) :
       IsFarewell(q[k]) =>
          \/ S = {}
          \/ c # None /\ \E l \in 1 .. Len(q) : k < l /\ TellsOf(q[l], c)

FarewellInv == slips = {} => IdsInv /\ Overtaken(buf[Main], call[Main], sa_insts)

\* Adding and taking away a message.
LEMMA AppendIds ==
    ASSUME NEW q \in Seq(Messages), NEW m \in Messages, NEW r, Appended(q, m, r)
    PROVE  /\ \A t : IdIn(r, t) => IdIn(q, t) \/ Carries(m, t)
           /\ \A t : IdOnce(q, t) /\ ~(IdIn(q, t) /\ Carries(m, t)) => IdOnce(r, t)
<1>1. /\ r \in Seq(Messages) /\ Len(r) = Len(q) + 1 /\ r[Len(q) + 1] = m
      /\ \A k \in 1 .. Len(q) : r[k] = q[k]
  BY AppendedMembers
<1>2. Len(q) \in Nat /\ \A k \in 1 .. Len(r) : k \in 1 .. Len(q) \/ k = Len(q) + 1
  BY <1>1
<1> QED BY <1>1, <1>2 DEF IdIn, IdOnce

LEMMA TailIds ==
    ASSUME NEW q \in Seq(Messages), q # <<>>, NEW r, r = Tail(q)
    PROVE  /\ \A t : IdIn(r, t) => IdIn(q, t)
           /\ \A t : IdOnce(q, t) => IdOnce(r, t)
           /\ \A t : IdOnce(q, t) /\ Carries(Head(q), t) => ~IdIn(r, t)
<1>1. /\ Len(q) \in Nat /\ Len(q) >= 1 /\ Len(r) = Len(q) - 1 /\ Head(q) = q[1]
      /\ \A k \in 1 .. Len(r) : r[k] = q[k + 1]
  OBVIOUS
<1>2. /\ \A k \in 1 .. Len(r) : k + 1 \in 1 .. Len(q) /\ k + 1 # 1
      /\ 1 \in 1 .. Len(q)
      /\ \A k, l \in 1 .. Len(r) : k + 1 = l + 1 => k = l
  BY <1>1
<1>3. \A t : IdIn(r, t) => IdIn(q, t)
  BY <1>1, <1>2 DEF IdIn
<1>4. \A t : IdOnce(q, t) => IdOnce(r, t)
  BY <1>1, <1>2 DEF IdOnce
<1>5. \A t : IdOnce(q, t) /\ Carries(Head(q), t) => ~IdIn(r, t)
  BY <1>1, <1>2 DEF IdOnce, IdIn
<1> QED BY <1>3, <1>4, <1>5

\* The message m moved to x, whose identifiers are not used in b.
LEMMA MovedIds ==
    ASSUME NEW b \in Boxes, NEW x, NEW m \in Messages, NEW d, Moved(d, b, x, m),
           Apart(b), \A t \in Ids : Carries(m, t) => Unused(b, t)
    PROVE  /\ Apart(d)
           /\ \A t \in Ids : Unused(b, t) /\ ~Carries(m, t) => Unused(d, t)
<1>1. \A y \in Inst \cup {Mgr} : \/ d[y] = b[y]
                                 \/ y = x /\ Appended(b[y], m, d[y])
  BY MoveToOne
<1>2. \A y \in Inst \cup {Mgr} : b[y] \in Seq(Messages)
  BY DEF Boxes
<1>3. ASSUME NEW y \in Inst \cup {Mgr}, NEW t \in Ids, IdIn(d[y], t)
      PROVE  IdIn(b[y], t) \/ (y = x /\ Carries(m, t))
  BY <1>1, <1>2, <1>3, AppendIds
<1>4. ASSUME NEW y \in Inst \cup {Mgr}, NEW t \in Ids
      PROVE  IdOnce(d[y], t)
  <2>1. IdOnce(b[y], t) /\ ~(IdIn(b[y], t) /\ Carries(m, t))
    BY DEF Apart, Unused
  <2> QED BY <1>1, <1>2, <2>1, AppendIds
<1>5. ASSUME NEW t \in Ids, NEW y \in Inst \cup {Mgr}, NEW z \in Inst \cup {Mgr},
             IdIn(d[y], t), IdIn(d[z], t)
      PROVE  y = z
  <2>1. /\ IdIn(b[y], t) \/ (y = x /\ Carries(m, t))
        /\ IdIn(b[z], t) \/ (z = x /\ Carries(m, t))
    BY <1>3, <1>5
  <2>2. Carries(m, t) => ~IdIn(b[y], t) /\ ~IdIn(b[z], t)
    BY DEF Unused
  <2>3. IdIn(b[y], t) /\ IdIn(b[z], t) => y = z
    BY DEF Apart
  <2> QED BY <2>1, <2>2, <2>3
<1>6. Apart(d)
  BY <1>4, <1>5 DEF Apart
<1>7. \A t \in Ids : Unused(b, t) /\ ~Carries(m, t) => Unused(d, t)
  BY <1>3 DEF Unused
<1> QED BY <1>6, <1>7

\* The buffers without the head of x.
LEMMA TakenIds ==
    ASSUME TypeOK, NEW x \in Inst \cup {Mgr}, buf[x] # <<>>, NEW d, d = Taken(x),
           Apart(buf)
    PROVE  /\ Apart(d)
           /\ \A t \in Ids : Unused(buf, t) => Unused(d, t)
           /\ \A t \in Ids : Carries(Head(buf[x]), t) => Unused(d, t)
<1>1. /\ d[x] = Tail(buf[x]) /\ buf[x] \in Seq(Messages)
      /\ \A y \in Inst \cup {Mgr} : y # x => d[y] = buf[y]
  BY TakenKeeps DEF TypeOK
<1>2. ASSUME NEW y \in Inst \cup {Mgr}, NEW t \in Ids
      PROVE  /\ IdIn(d[y], t) => IdIn(buf[y], t)
             /\ IdOnce(buf[y], t) => IdOnce(d[y], t)
  <2>1. CASE y = x
    BY <1>1, <2>1, TailIds
  <2>2. CASE y # x
    BY <1>1, <2>2
  <2> QED BY <2>1, <2>2
<1>3. Apart(d)
  BY <1>2 DEF Apart
<1>4. \A t \in Ids : Unused(buf, t) => Unused(d, t)
  BY <1>2 DEF Unused
<1>5. ASSUME NEW t \in Ids, Carries(Head(buf[x]), t)
      PROVE  Unused(d, t)
  <2>1. IdOnce(buf[x], t)
    BY DEF Apart
  <2>2. ~IdIn(d[x], t) /\ IdIn(buf[x], t)
    <3>1. ~IdIn(d[x], t)
      BY <1>1, <1>5, <2>1, TailIds
    <3>2. 1 \in 1 .. Len(buf[x]) /\ buf[x][1] = Head(buf[x])
      BY <1>1
    <3> QED BY <1>5, <3>1, <3>2 DEF IdIn
  <2>3. ASSUME NEW y \in Inst \cup {Mgr} PROVE ~IdIn(d[y], t)
    <3>1. CASE y = x
      BY <2>2, <3>1
    <3>2. CASE y # x
      BY <1>1, <2>2, <3>2 DEF Apart
    <3> QED BY <3>1, <3>2
  <2> QED BY <2>3 DEF Unused
<1> QED BY <1>3, <1>4, <1>5

\* The effects of steps on identifiers: a message with an identifier that is not
\* used is moved to x,
LEMMA MovedSound ==
    ASSUME NEW b \in Boxes, NEW x, NEW m \in Messages, NEW d, Moved(d, b, x, m),
           NEW cs, IdsSound(b, cs),
           \A t \in Ids : Carries(m, t) => Unused(b, t) /\ Given(cs, t),
           NEW w, WorkSound(b, cs, w), w.pc = "wait" => ~Carries(m, w.req.id)
    PROVE  IdsSound(d, cs) /\ WorkSound(d, cs, w)
<1>1. Apart(b) /\ \A t \in Ids : Unused(b, t) \/ Given(cs, t)
  BY DEF IdsSound
<1>2. Apart(d) /\ \A t \in Ids : Unused(b, t) /\ ~Carries(m, t) => Unused(d, t)
  BY <1>1, MovedIds
<1>3. IdsSound(d, cs)
  BY <1>1, <1>2 DEF IdsSound
<1>4. WorkSound(d, cs, w)
  BY <1>2 DEF WorkSound
<1> QED BY <1>3, <1>4

\* the head of x is taken away,
LEMMA TakenSound ==
    ASSUME TypeOK, NEW x \in Inst \cup {Mgr}, buf[x] # <<>>, NEW d, d = Taken(x), IdsInv
    PROVE  /\ IdsSound(d, calls) /\ WorkSound(d, calls, mgr)
           /\ \A t \in Ids : Carries(Head(buf[x]), t) =>
                 /\ Unused(d, t) /\ Given(calls, t)
                 /\ mgr.pc = "wait" => t # mgr.req.id
<1>1. /\ Apart(buf) /\ \A t \in Ids : Unused(buf, t) \/ Given(calls, t)
      /\ WorkSound(buf, calls, mgr)
  BY DEF IdsInv, IdsSound
<1>2. /\ Apart(d)
      /\ \A t \in Ids : Unused(buf, t) => Unused(d, t)
      /\ \A t \in Ids : Carries(Head(buf[x]), t) => Unused(d, t)
  BY <1>1, TakenIds
<1>3. \A t \in Ids : Carries(Head(buf[x]), t) => ~Unused(buf, t)
  <2>1. 1 \in 1 .. Len(buf[x]) /\ buf[x][1] = Head(buf[x])
    BY DEF TypeOK
  <2> QED BY <2>1 DEF Unused, IdIn
<1>4. IdsSound(d, calls)
  BY <1>1, <1>2 DEF IdsSound
<1>5. WorkSound(d, calls, mgr)
  BY <1>1, <1>2 DEF WorkSound
<1> QED BY <1>1, <1>2, <1>3, <1>4, <1>5 DEF WorkSound

\* and its answer, or a message without identifier, is moved to y,
LEMMA AnswerSound ==
    ASSUME TypeOK, NEW x \in Inst \cup {Mgr}, buf[x] # <<>>, NEW b, b = Taken(x), IdsInv,
           NEW m \in Messages, NEW y, NEW d, Moved(d, b, y, m),
           \A t : Carries(m, t) => Carries(Head(buf[x]), t)
    PROVE  IdsSound(d, calls) /\ WorkSound(d, calls, mgr)
<1>1. b \in Boxes
  BY TakenKeeps
<1>2. /\ IdsSound(b, calls) /\ WorkSound(b, calls, mgr)
      /\ \A t \in Ids : Carries(Head(buf[x]), t) =>
            /\ Unused(b, t) /\ Given(calls, t)
            /\ mgr.pc = "wait" => t # mgr.req.id
  BY TakenSound
<1>3. \A t \in Ids : Carries(m, t) => Unused(b, t) /\ Given(calls, t)
  BY <1>2
<1>4. mgr.pc = "wait" => ~Carries(m, mgr.req.id)
  <2>1. mgr.pc = "wait" => mgr.req.id \in Ids
    BY <1>2 DEF WorkSound
  <2> QED BY <1>2, <2>1
<1> QED BY <1>1, <1>2, <1>3, <1>4, MovedSound

\* an identifier is given,
LEMMA AskSound ==
    ASSUME TypeOK, IdsInv, NEW i \in Inst, NEW cs, cs = [calls EXCEPT ![i] = @ + 1]
    PROVE  /\ IdsSound(buf, cs) /\ WorkSound(buf, cs, mgr)
           /\ Unused(buf, Ask(i)) /\ Given(cs, Ask(i))
           /\ mgr.pc = "wait" => Ask(i) # mgr.req.id
<1>1. PICK a : a = Ask(i)
  OBVIOUS
<1>2. a \in Ids /\ a[1] = i /\ a[2] = calls[i]
  BY <1>1, NextId
<1>3. /\ \A j \in Inst : calls[j] \in Nat
      /\ \A j \in Inst : cs[j] = IF j = i THEN calls[j] + 1 ELSE calls[j]
  BY DEF TypeOK
<1>4. \A t \in Ids : t[1] \in Inst /\ t[2] \in Nat
  <2> SUFFICES ASSUME NEW j \in Inst, NEW n \in 0 .. MaxCalls[j], NEW t, t = <<j, n>>
               PROVE  t[1] \in Inst /\ t[2] \in Nat
    BY DEF Ids
  <2> QED BY RunnersAssumption
<1>5. \A t \in Ids : Given(calls, t) => Given(cs, t)
  BY <1>3, <1>4 DEF Given
<1>6. Given(cs, a) /\ ~Given(calls, a)
  BY <1>2, <1>3 DEF Given
<1>7. IdsSound(buf, cs) /\ Unused(buf, a)
  BY <1>2, <1>5, <1>6 DEF IdsInv, IdsSound
<1>8. WorkSound(buf, cs, mgr) /\ (mgr.pc = "wait" => a # mgr.req.id)
  BY <1>5, <1>6 DEF IdsInv, WorkSound
<1> QED BY <1>1, <1>6, <1>7, <1>8

\* and the buffer of x is discarded.
LEMMA EmptiedSound ==
    ASSUME TypeOK, IdsInv, NEW x \in Inst \cup {Mgr}, NEW d, d = [buf EXCEPT ![x] = <<>>]
    PROVE  IdsSound(d, calls) /\ WorkSound(d, calls, mgr)
<1>1. \A y \in Inst \cup {Mgr} : d[y] = IF y = x THEN <<>> ELSE buf[y]
  BY DEF TypeOK
<1>2. Len(<<>>) = 0
  OBVIOUS
<1>3. ASSUME NEW y \in Inst \cup {Mgr}, NEW t \in Ids
      PROVE  /\ IdIn(d[y], t) => IdIn(buf[y], t)
             /\ IdOnce(buf[y], t) => IdOnce(d[y], t)
  <2>1. CASE y = x
    BY <1>1, <1>2, <2>1 DEF IdIn, IdOnce
  <2>2. CASE y # x
    BY <1>1, <2>2
  <2> QED BY <2>1, <2>2
<1>4. Apart(buf) => Apart(d)
  BY <1>3 DEF Apart
<1>5. \A t \in Ids : Unused(buf, t) => Unused(d, t)
  BY <1>3 DEF Unused
<1>6. IdsSound(d, calls)
  BY <1>4, <1>5 DEF IdsInv, IdsSound
<1>7. WorkSound(d, calls, mgr)
  BY <1>5 DEF IdsInv, WorkSound
<1> QED BY <1>6, <1>7

-----------------------------------------------------------------------------
(* The invariant behind LastOneGone: requests to shut down. *)

\* No answer in q tells of an instance for the request c.
Untold(q, c) == \A l \in 1 .. Len(q) : ~TellsOf(q[l], c)

LEMMA OvertakenKept ==
    ASSUME NEW q, NEW c, NEW S, Overtaken(q, c, S)
    PROVE  /\ \A T : T \subseteq S => Overtaken(q, c, T)
           /\ c = None \/ Untold(q, c) => \A e : Overtaken(q, e, S)
           /\ S # {} => \A T : Overtaken(q, c, T)
<1>1. ASSUME NEW T, T \subseteq S PROVE Overtaken(q, c, T)
  BY <1>1 DEF Overtaken
<1>2. ASSUME NEW e, c = None \/ Untold(q, c) PROVE Overtaken(q, e, S)
  BY <1>2 DEF Overtaken, Untold
<1>3. ASSUME S # {}, NEW T PROVE Overtaken(q, c, T)
  BY <1>3 DEF Overtaken
<1> QED BY <1>1, <1>2, <1>3

LEMMA OvertakenAppend ==
    ASSUME NEW q \in Seq(Messages), NEW m \in Messages, NEW r, Appended(q, m, r),
           NEW c, ~IsFarewell(m)
    PROVE  /\ \A S : Overtaken(q, c, S) => Overtaken(r, c, S)
           /\ c # None /\ TellsOf(m, c) => \A S : Overtaken(r, c, S)
<1>1. /\ r \in Seq(Messages) /\ Len(r) = Len(q) + 1 /\ r[Len(q) + 1] = m
      /\ \A k \in 1 .. Len(q) : r[k] = q[k]
  BY AppendedMembers
<1>2. /\ Len(q) \in Nat /\ \A k \in 1 .. Len(r) : k \in 1 .. Len(q) \/ k = Len(q) + 1
      /\ \A k \in 1 .. Len(q) : k \in 1 .. Len(r) /\ k < Len(q) + 1
      /\ Len(q) + 1 \in 1 .. Len(r)
  BY <1>1
<1>3. \A k \in 1 .. Len(r) : IsFarewell(r[k]) => k \in 1 .. Len(q) /\ IsFarewell(q[k])
  BY <1>1, <1>2
<1>4. ASSUME NEW S, Overtaken(q, c, S) PROVE Overtaken(r, c, S)
  <2> SUFFICES ASSUME NEW k \in 1 .. Len(q), IsFarewell(q[k]), S # {}
               PROVE  c # None /\ \E l \in 1 .. Len(r) : k < l /\ TellsOf(r[l], c)
    BY <1>3 DEF Overtaken
  <2>1. c # None /\ \E l \in 1 .. Len(q) : k < l /\ TellsOf(q[l], c)
    BY <1>4 DEF Overtaken
  <2> QED BY <1>1, <1>2, <2>1
<1>5. ASSUME NEW S, c # None, TellsOf(m, c) PROVE Overtaken(r, c, S)
  BY <1>1, <1>2, <1>3, <1>5 DEF Overtaken
<1> QED BY <1>4, <1>5

LEMMA OvertakenTail ==
    ASSUME NEW q \in Seq(Messages), q # <<>>, NEW r, r = Tail(q),
           NEW c, NEW S, Overtaken(q, c, S)
    PROVE  /\ Overtaken(r, c, S)
           /\ Carries(Head(q), c.id) /\ IdOnce(q, c.id) => \A e : Overtaken(r, e, S)
<1>1. /\ Len(q) \in Nat /\ Len(q) >= 1 /\ Len(r) = Len(q) - 1 /\ Head(q) = q[1]
      /\ \A k \in 1 .. Len(r) : r[k] = q[k + 1]
  OBVIOUS
<1>2. /\ \A k \in 1 .. Len(r) : k + 1 \in 1 .. Len(q) /\ k + 1 # 1
      /\ \A k \in 1 .. Len(q) : k = 1 \/ (k - 1 \in 1 .. Len(r) /\ (k - 1) + 1 = k)
      /\ 1 \in 1 .. Len(q)
  BY <1>1
<1>3. ASSUME NEW k \in 1 .. Len(r), IsFarewell(r[k]), S # {}
      PROVE  /\ c # None
             /\ \E l \in 1 .. Len(r) : k < l /\ TellsOf(r[l], c)
  <2>1. PICK j : j = k + 1
    OBVIOUS
  <2>2. j \in 1 .. Len(q) /\ IsFarewell(q[j])
    BY <1>1, <1>2, <1>3, <2>1
  <2>3. PICK l \in 1 .. Len(q) : j < l /\ TellsOf(q[l], c)
    BY <1>3, <2>2 DEF Overtaken
  <2>4. c # None
    BY <1>3, <2>2 DEF Overtaken
  <2>5. PICK n : n = l - 1
    OBVIOUS
  <2>6. n \in 1 .. Len(r) /\ r[n] = q[l] /\ k < n
    BY <1>1, <1>2, <2>1, <2>3, <2>5
  <2> QED BY <2>3, <2>4, <2>6
<1>4. Overtaken(r, c, S)
  BY <1>3 DEF Overtaken
<1>5. ASSUME Carries(Head(q), c.id), IdOnce(q, c.id), NEW e
      PROVE  Overtaken(r, e, S)
  <2> SUFFICES ASSUME NEW k \in 1 .. Len(r), IsFarewell(r[k]), S # {}
               PROVE  FALSE
    BY DEF Overtaken
  <2>1. PICK l \in 1 .. Len(r) : k < l /\ TellsOf(r[l], c)
    BY <1>3
  <2>2. PICK n : n = l + 1
    OBVIOUS
  <2>3. n \in 1 .. Len(q) /\ n # 1 /\ Carries(q[n], c.id)
    BY <1>1, <1>2, <2>1, <2>2 DEF TellsOf, Carries
  <2> QED BY <1>1, <1>2, <1>5, <2>3 DEF IdOnce
<1> QED BY <1>4, <1>5

\* A message of others is moved to x.
LEMMA OvertakenMoved ==
    ASSUME NEW b \in Boxes, NEW x, NEW m \in Messages, NEW d, Moved(d, b, x, m),
           ~IsFarewell(m), NEW c, NEW S, Overtaken(b[Main], c, S)
    PROVE  Overtaken(d[Main], c, S)
<1>1. Main \in Inst \cup {Mgr} /\ b[Main] \in Seq(Messages)
  BY NamesApart DEF Boxes
<1>2. \/ d[Main] = b[Main]
      \/ Main = x /\ Appended(b[Main], m, d[Main])
  <2>1. \A y \in Inst \cup {Mgr} : \/ d[y] = b[y]
                                   \/ y = x /\ Appended(b[y], m, d[y])
    BY MoveToOne
  <2> QED BY <1>1, <2>1
<1> QED BY <1>1, <1>2, OvertakenAppend

\* The head of x is taken away.
LEMMA OvertakenTaken ==
    ASSUME TypeOK, NEW x \in Inst \cup {Mgr}, buf[x] # <<>>, NEW d, d = Taken(x),
           NEW c, NEW S, Overtaken(buf[Main], c, S)
    PROVE  Overtaken(d[Main], c, S)
<1>1. Main \in Inst \cup {Mgr} /\ buf[Main] \in Seq(Messages)
  BY NamesApart DEF TypeOK
<1>2. /\ d[x] = Tail(buf[x])
      /\ \A y \in Inst \cup {Mgr} : y # x => d[y] = buf[y]
  BY TakenKeeps
<1>3. CASE x = Main
  BY <1>1, <1>2, <1>3, OvertakenTail
<1>4. CASE x # Main
  BY <1>1, <1>2, <1>4
<1> QED BY <1>3, <1>4

-----------------------------------------------------------------------------
(* The steps keep FarewellInv. *)

\* Buffers, calls and records are left alone.
LEMMA StillFarewell ==
    ASSUME FarewellInv, slips = {}, UNCHANGED <<buf, calls, call, sa_insts>>,
           mgr'.pc = "wait" => mgr' = mgr
    PROVE  FarewellInv'
<1>1. IdsSound(buf', calls')
  BY DEF FarewellInv, IdsInv
<1>2. WorkSound(buf', calls', mgr')
  BY DEF FarewellInv, IdsInv, WorkSound
<1>3. Overtaken(buf'[Main], call'[Main], sa_insts')
  BY DEF FarewellInv
<1> QED BY <1>1, <1>2, <1>3 DEF FarewellInv, IdsInv

\* The head of x is taken away.
LEMMA TakeFarewell ==
    ASSUME TypeOK, FarewellInv, slips = {}, NEW x \in Inst \cup {Mgr}, buf[x] # <<>>,
           buf' = Taken(x), UNCHANGED <<calls, mgr>>, call'[Main] = call[Main],
           sa_insts' \subseteq sa_insts
    PROVE  FarewellInv'
<1>1. IdsInv /\ Overtaken(buf[Main], call[Main], sa_insts)
  BY DEF FarewellInv
<1>2. IdsSound(buf', calls) /\ WorkSound(buf', calls, mgr)
  BY <1>1, TakenSound
<1>3. Overtaken(buf'[Main], call[Main], sa_insts)
  BY <1>1, OvertakenTaken
<1>4. Overtaken(buf'[Main], call[Main], sa_insts')
  BY <1>3, OvertakenKept
<1> QED BY <1>2, <1>4 DEF FarewellInv, IdsInv

\* The request at the head of x is answered to y.
LEMMA AnswerFarewell ==
    ASSUME TypeOK, FarewellInv, slips = {}, NEW x \in Inst \cup {Mgr}, buf[x] # <<>>,
           NEW m, m = Head(buf[x]), Carries(m, m.id),
           NEW r \in Messages, r.type = "response", r.id = m.id,
           NEW y, NEW b, b = Taken(x), Moved(buf', b, y, r),
           UNCHANGED <<calls, mgr, sa_insts>>, call'[Main] = call[Main]
    PROVE  FarewellInv'
<1>1. IdsInv /\ Overtaken(buf[Main], call[Main], sa_insts)
  BY DEF FarewellInv
<1>2. \A t : Carries(r, t) => Carries(Head(buf[x]), t)
  BY DEF Carries
<1>3. IdsSound(buf', calls) /\ WorkSound(buf', calls, mgr)
  BY <1>1, <1>2, AnswerSound
<1>4. b \in Boxes
  BY TakenKeeps
<1>5. Overtaken(b[Main], call[Main], sa_insts)
  BY <1>1, OvertakenTaken
<1>6. ~IsFarewell(r)
  BY DEF IsFarewell
<1>7. Overtaken(buf'[Main], call[Main], sa_insts)
  BY <1>4, <1>5, <1>6, OvertakenMoved
<1> QED BY <1>3, <1>7 DEF FarewellInv, IdsInv

\* A request is moved to x, and its sender waits or cannot reach x.
LEMMA SendFarewell ==
    ASSUME TypeOK, FarewellInv, slips = {}, NEW i \in Inst, call[i] = None, NEW x,
           NEW m \in Requests, m.op \in {"createInstance", "createCoroutine"},
           m.id = Ask(i), SendAndWait(i, x, m), UNCHANGED <<mgr, sa_insts>>
    PROVE  FarewellInv'
<1>1. CASE ~CanMove(x)
  <2>1. UNCHANGED <<buf, call, calls>>
    BY <1>1 DEF SendAndWait
  <2> QED BY <2>1, StillFarewell
<1>2. CASE CanMove(x)
  <2>1. IdsInv /\ Overtaken(buf[Main], call[Main], sa_insts)
    BY DEF FarewellInv
  <2>2. /\ Moved(buf', buf, x, m)
        /\ call' = [call EXCEPT ![i] = m]
        /\ calls' = [calls EXCEPT ![i] = @ + 1]
    BY <1>2 DEF SendAndWait, Moved
  <2>3. m \in Messages /\ buf \in Boxes /\ Ask(i) \in Ids
    BY RequestsAreMessages, HeapIsTyped, NextId
  <2>4. /\ IdsSound(buf, calls') /\ WorkSound(buf, calls', mgr)
        /\ Unused(buf, Ask(i)) /\ Given(calls', Ask(i))
        /\ mgr.pc = "wait" => Ask(i) # mgr.req.id
    BY <2>1, <2>2, AskSound
  <2>5. \A t : Carries(m, t) => t = Ask(i)
    BY DEF Carries
  <2>6. IdsSound(buf', calls') /\ WorkSound(buf', calls', mgr)
    <3>1. \A t \in Ids : Carries(m, t) => Unused(buf, t) /\ Given(calls', t)
      BY <2>4, <2>5
    <3>2. mgr.pc = "wait" => ~Carries(m, mgr.req.id)
      BY <2>4, <2>5
    <3>3. Moved(buf', buf, x, m)
      BY <2>2
    <3>4. IdsSound(buf, calls') /\ WorkSound(buf, calls', mgr)
      BY <2>4
    <3> QED BY <2>3, <3>1, <3>2, <3>3, <3>4, MovedSound
  <2>7. Overtaken(buf'[Main], call[Main], sa_insts)
    <3>1. ~IsFarewell(m)
      BY DEF IsFarewell
    <3>2. Moved(buf', buf, x, m)
      BY <2>2
    <3> QED BY <2>1, <2>3, <3>1, <3>2, OvertakenMoved
  <2>8. Overtaken(buf'[Main], call'[Main], sa_insts)
    <3>1. CASE i = Main
      BY <2>7, <3>1, OvertakenKept
    <3>2. CASE i # Main
      <4>1. call'[Main] = call[Main]
        BY <2>2, <3>2
      <4> QED BY <2>7, <4>1
    <3> QED BY <3>1, <3>2
  <2> QED BY <2>6, <2>8 DEF FarewellInv, IdsInv
<1> QED BY <1>1, <1>2

LEMMA GoesOnFarewell ==
    ASSUME FarewellInv, NEW i \in Inst,
           \/ purc_schedule_vdom(i) \/ purc_run(i) \/ Exit(i) \/ EndPass(i)
           \/ cleanup_instance(i) \/ InitDone(i) \/ MgrRuns
    PROVE  FarewellInv'
<1>1. slips = {} /\ UNCHANGED <<buf, calls, call, sa_insts>>
  BY DEF purc_schedule_vdom, purc_run, Exit, EndPass, cleanup_instance, InitDone,
         MgrRuns, Free, Alive, inst
<1>2. CASE MgrRuns
  <2>1. mgr'.pc = "wait" => mgr' = mgr
    BY <1>2 DEF MgrRuns
  <2> QED BY <1>1, <2>1, StillFarewell
<1>3. CASE ~MgrRuns
  <2>1. mgr' = mgr
    BY <1>3 DEF purc_schedule_vdom, purc_run, Exit, EndPass, cleanup_instance, InitDone
  <2> QED BY <1>1, <2>1, StillFarewell
<1> QED BY <1>2, <1>3

LEMMA CallsFarewell ==
    ASSUME TypeOK, FarewellInv, NEW i \in Inst,
           \/ \E n \in Name \cup {Main} : purc_inst_create_or_get(i, n)
           \/ purc_inst_schedule_vdom(i)
    PROVE  FarewellInv'
<1>1. slips = {} /\ call[i] = None /\ UNCHANGED <<mgr, sa_insts>>
  BY DEF purc_inst_create_or_get, purc_inst_schedule_vdom, CanCall, Free, Alive
<1>2. Ask(i) \in Ids
  BY NextId
<1>3. CASE \E n \in Name \cup {Main} : purc_inst_create_or_get(i, n)
  <2>1. PICK n \in Name \cup {Main} : purc_inst_create_or_get(i, n)
    BY <1>3
  <2>2. CASE Running(n) # {}
    <3>1. UNCHANGED <<buf, call, calls>>
      BY <2>1, <2>2 DEF purc_inst_create_or_get
    <3> QED BY <1>1, <3>1, StillFarewell
  <2>3. CASE Running(n) = {}
    <3>1. n \in Name
      BY <2>1, <2>3 DEF purc_inst_create_or_get, Running
    <3>2. PICK m : m = [type |-> "request", op |-> "createInstance",
                        from |-> i, id |-> Ask(i), arg |-> n]
      OBVIOUS
    <3>3. m \in Requests /\ m.op = "createInstance" /\ m.id = Ask(i)
      BY <1>2, <3>1, <3>2 DEF Requests
    <3>4. SendAndWait(i, Mgr, m)
      BY <2>1, <2>3, <3>2 DEF purc_inst_create_or_get
    <3> QED BY <1>1, <3>3, <3>4, SendFarewell
  <2> QED BY <2>2, <2>3
<1>4. CASE purc_inst_schedule_vdom(i)
  <2>1. handle[i] \in Inst \cup {Mgr}
    <3>1. handle[i] \in Inst \cup {Mgr, None} /\ Registered(handle[i])
      BY <1>4, HeapIsTyped DEF purc_inst_schedule_vdom, HeapTyped
    <3> QED BY <3>1, NamesApart DEF Registered
  <2>2. PICK m : m = [type |-> "request", op |-> "createCoroutine",
                      from |-> i, id |-> Ask(i), arg |-> handle[i]]
    OBVIOUS
  <2>3. m \in Requests /\ m.op = "createCoroutine" /\ m.id = Ask(i)
    BY <1>2, <2>1, <2>2 DEF Requests
  <2>4. SendAndWait(i, handle[i], m)
    BY <1>4, <2>2 DEF purc_inst_schedule_vdom
  <2> QED BY <1>1, <2>3, <2>4, SendFarewell
<1> QED BY <1>3, <1>4

\* Messages without an identifier.
LEMMA AskFarewell ==
    ASSUME TypeOK, FarewellInv, NEW i \in Inst, purc_inst_ask_to_shutdown(i)
    PROVE  FarewellInv'
<1>1. /\ slips = {} /\ UNCHANGED <<call, mgr, sa_insts>>
      /\ calls' = [calls EXCEPT ![i] = @ + 1]
  BY DEF purc_inst_ask_to_shutdown, CanCall, Free, Alive
<1>2. IdsInv /\ Overtaken(buf[Main], call[Main], sa_insts) /\ buf \in Boxes
  BY <1>1, HeapIsTyped DEF FarewellInv
<1>3. PICK m : m = [type |-> "request", op |-> "shutdownInstance", from |-> i]
  OBVIOUS
<1>4. m \in Messages
  BY <1>3 DEF Requests, Messages
<1>5. (\A t : ~Carries(m, t)) /\ ~IsFarewell(m)
  BY <1>3, NamesApart DEF Carries, IsFarewell
<1>6. Moved(buf', buf, handle[i], m)
  BY <1>3 DEF purc_inst_ask_to_shutdown, Moved
<1>7. IdsSound(buf, calls') /\ WorkSound(buf, calls', mgr)
  BY <1>1, <1>2, AskSound
<1>8. IdsSound(buf', calls') /\ WorkSound(buf', calls', mgr)
  BY <1>2, <1>4, <1>5, <1>6, <1>7, MovedSound
<1>9. Overtaken(buf'[Main], call[Main], sa_insts)
  BY <1>2, <1>4, <1>5, <1>6, OvertakenMoved
<1> QED BY <1>1, <1>8, <1>9 DEF FarewellInv, IdsInv

LEMMA NotifyFarewell ==
    ASSUME TypeOK, FarewellInv, NEW i \in Inst, pcrun_notify_instmgr(i)
    PROVE  FarewellInv'
<1>1. /\ slips = {} /\ i \in Born /\ UNCHANGED <<call, calls, mgr, sa_insts>>
  BY NamesApart DEF pcrun_notify_instmgr, Alive
<1> SUFFICES ASSUME slips' = {} PROVE FarewellInv'
  BY DEF FarewellInv
<1>2. IdsInv /\ Overtaken(buf[Main], call[Main], sa_insts) /\ buf \in Boxes
  BY <1>1, HeapIsTyped DEF FarewellInv
<1>3. PICK m : m = [type |-> "event", sid |-> i]
  OBVIOUS
<1>4. m \in Messages /\ m.type = "event"
  BY <1>1, <1>3, EventTyped
<1>5. (\A t : ~Carries(m, t)) /\ ~IsFarewell(m)
  BY <1>4 DEF Carries, IsFarewell
<1>6. Moved(buf', buf, Mgr, m)
  BY <1>3 DEF pcrun_notify_instmgr, Moved
<1>7. IdsSound(buf', calls) /\ WorkSound(buf', calls, mgr)
  BY <1>2, <1>4, <1>5, <1>6, MovedSound DEF IdsInv
<1>8. Overtaken(buf'[Main], call[Main], sa_insts)
  BY <1>2, <1>4, <1>5, <1>6, OvertakenMoved
<1> QED BY <1>1, <1>7, <1>8 DEF FarewellInv, IdsInv

\* A wait that fails, unless with an instance that nobody wants.
LEMMA TimeoutFarewell ==
    ASSUME TypeOK, FarewellInv, NEW i \in Inst, Timeout(i)
    PROVE  FarewellInv'
<1>1. /\ slips = {} /\ UNCHANGED <<calls, buf, mgr, sa_insts>>
      /\ call' = [call EXCEPT ![i] = None]
  BY DEF Timeout, Alive, Return
<1> SUFFICES ASSUME slips' = {} PROVE FarewellInv'
  BY DEF FarewellInv
<1>2. IdsInv /\ Overtaken(buf[Main], call[Main], sa_insts)
  BY <1>1 DEF FarewellInv
<1>3. Overtaken(buf[Main], call'[Main], sa_insts)
  <2>1. CASE i = Main
    <3>1. \A m \in ToSet(buf[Main]) : ~(m.type = "response" /\ m.id = call[Main].id
                                           /\ m.value # None)
      BY <2>1 DEF Timeout
    <3>2. \A l \in 1 .. Len(buf[Main]) : buf[Main][l] \in ToSet(buf[Main])
      <4>1. DOMAIN buf[Main] = 1 .. Len(buf[Main])
        BY NamesApart DEF TypeOK
      <4> QED BY <4>1 DEF ToSet
    <3>3. Untold(buf[Main], call[Main])
      BY <3>1, <3>2 DEF Untold, TellsOf
    <3> QED BY <1>2, <3>3, OvertakenKept
  <2>2. CASE i # Main
    <3>1. call'[Main] = call[Main]
      BY <1>1, <2>2
    <3> QED BY <1>2, <3>1
  <2> QED BY <2>1, <2>2
<1>4. IdsSound(buf', calls') /\ WorkSound(buf', calls', mgr')
  BY <1>1, <1>2 DEF IdsInv
<1> QED BY <1>1, <1>3, <1>4 DEF FarewellInv, IdsInv

\* A buffer is discarded.
LEMMA EmptiedFarewell ==
    ASSUME TypeOK, FarewellInv, slips = {}, NEW x \in Inst \cup {Mgr},
           buf' = [buf EXCEPT ![x] = <<>>],
           UNCHANGED <<call, calls, sa_insts>>, mgr'.pc = "wait" => mgr' = mgr
    PROVE  FarewellInv'
<1>1. IdsInv /\ Overtaken(buf[Main], call[Main], sa_insts)
  BY DEF FarewellInv
<1>2. IdsSound(buf', calls) /\ WorkSound(buf', calls, mgr)
  BY <1>1, EmptiedSound
<1>3. WorkSound(buf', calls, mgr')
  BY <1>2 DEF WorkSound
<1>4. Overtaken(buf'[Main], call[Main], sa_insts)
  <2>1. buf'[Main] = <<>> \/ buf'[Main] = buf[Main]
    BY NamesApart DEF TypeOK
  <2>2. Len(<<>>) = 0
    OBVIOUS
  <2>3. Overtaken(<<>>, call[Main], sa_insts)
    BY <2>2 DEF Overtaken
  <2> QED BY <1>1, <2>1, <2>3
<1> QED BY <1>2, <1>3, <1>4 DEF FarewellInv, IdsInv

\* A thread takes a message from its buffer.
LEMMA PollFarewell ==
    ASSUME TypeOK, FarewellInv, NEW i \in Inst, pcrun_extra_message_source(i)
    PROVE  FarewellInv'
<1>1. slips = {} /\ buf[i] # <<>> /\ i \in Inst \cup {Mgr} /\ UNCHANGED <<mgr, sa_insts>>
  BY DEF pcrun_extra_message_source, Alive
<1>2. PICK m : m = Head(buf[i])
  OBVIOUS
<1>3. m \in Messages
  BY <1>1, <1>2, TakenKeeps
<1>4. ASSUME NEW s \in Served(m), m.type = "request", create_coroutine(i, s)
      PROVE  FarewellInv'
  <2>1. PICK ok \in BOOLEAN :
          buf' = Move(Taken(i), s.from,
                      Response(s, IF ok THEN "OK" ELSE "BAD_REQUEST", None))
    BY <1>4 DEF create_coroutine
  <2>2. /\ s.op = "createCoroutine" /\ call'[Main] = call[Main]
        /\ UNCHANGED calls
    BY <1>4 DEF create_coroutine
  <2>3. m.op = "createCoroutine" /\ m.id \in Ids /\ s.id = m.id
    <3>1. m \in Requests
      BY <1>3, <1>4, MessageKinds
    <3>2. m.op = "createCoroutine" /\ s.id = m.id
      BY <2>2, <3>1, ServedIs
    <3> QED BY <3>1, <3>2, RequestKinds
  <2>4. PICK c : c = IF ok THEN "OK" ELSE "BAD_REQUEST"
    OBVIOUS
  <2>5. PICK r : r = Response(s, c, None)
    OBVIOUS
  <2>6. r \in Messages /\ r.type = "response" /\ r.id = m.id
    <3>1. c \in {"OK", "CONFLICT", "BAD_REQUEST"}
      BY <2>4
    <3> QED BY <2>3, <2>5, <3>1, ResponseTyped
  <2>7. PICK b : b = Taken(i)
    OBVIOUS
  <2>8. Moved(buf', b, s.from, r)
    BY <2>1, <2>4, <2>5, <2>7 DEF Moved
  <2>9. Carries(m, m.id)
    BY <1>4, <2>3 DEF Carries
  <2> QED BY <1>1, <1>2, <2>2, <2>6, <2>7, <2>8, <2>9, AnswerFarewell
<1>5. CASE \/ \E s \in Served(m) : shutdown_instance(i, s)
           \/ buf' = Taken(i) /\ UNCHANGED <<inst, slips>>
  <2>1. buf' = Taken(i) /\ UNCHANGED calls /\ call'[Main] = call[Main]
    BY <1>5 DEF shutdown_instance, inst
  <2> QED BY <1>1, <2>1, TakeFarewell
<1>6. CASE HandleResponse(i, m)
  <2>1. /\ m.type = "response" /\ buf' = Taken(i) /\ UNCHANGED calls
        /\ \/ UNCHANGED call
           \/ m.id = call[i].id /\ call' = [call EXCEPT ![i] = None]
    BY <1>6 DEF HandleResponse, Return
  <2>2. CASE call'[Main] = call[Main]
    BY <1>1, <2>1, <2>2, TakeFarewell
  <2>3. CASE i = Main /\ m.id = call[Main].id
    <3>1. IdsInv /\ Overtaken(buf[Main], call[Main], sa_insts)
      BY <1>1 DEF FarewellInv
    <3>2. IdsSound(buf', calls) /\ WorkSound(buf', calls, mgr)
      BY <1>1, <2>1, <3>1, TakenSound
    <3>3. Carries(Head(buf[Main]), call[Main].id) /\ IdOnce(buf[Main], call[Main].id)
      <4>1. m.id \in Ids
        BY <1>3, <2>1, MessageKinds
      <4>2. IdOnce(buf[Main], m.id)
        BY <3>1, <4>1, NamesApart DEF IdsInv, IdsSound, Apart
      <4> QED BY <1>2, <2>1, <2>3, <4>2 DEF Carries
    <3>4. buf'[Main] = Tail(buf[Main]) /\ buf[Main] \in Seq(Messages)
      BY <1>1, <2>1, <2>3, TakenKeeps DEF TypeOK
    <3>5. Overtaken(buf'[Main], call'[Main], sa_insts)
      BY <1>1, <2>3, <3>1, <3>3, <3>4, OvertakenTail
    <3> QED BY <1>1, <2>1, <3>2, <3>5 DEF FarewellInv, IdsInv
  <2>4. call'[Main] = call[Main] \/ (i = Main /\ m.id = call[Main].id)
    BY <2>1, NamesApart DEF TypeOK
  <2> QED BY <2>2, <2>3, <2>4
<1>7. pcrun_request_handler(i, m) \/ HandleResponse(i, m)
  BY <1>2 DEF pcrun_extra_message_source
<1> QED BY <1>4, <1>5, <1>6, <1>7 DEF pcrun_request_handler

\* InstMgr answers a request, served as s.
LEMMA MgrAnswerFarewell ==
    ASSUME TypeOK, FarewellInv, slips = {}, buf[Mgr] # <<>>, NEW m, m = Head(buf[Mgr]),
           m \in Requests, m.op # "shutdownInstance", NEW s, s.id = m.id,
           NEW c \in {"OK", "CONFLICT", "BAD_REQUEST"}, NEW v \in Inst \cup {None},
           Answer(s, c, v), UNCHANGED <<inst, mgr, sa_insts>>
    PROVE  FarewellInv'
<1>1. m.id \in Ids /\ Carries(m, m.id)
  BY RequestKinds DEF Carries
<1>2. PICK r : r = Response(s, c, v)
  OBVIOUS
<1>3. r \in Messages /\ r.type = "response" /\ r.id = m.id
  BY <1>1, <1>2, ResponseTyped
<1>4. PICK b : b = Taken(Mgr)
  OBVIOUS
<1>5. Moved(buf', b, s.from, r)
  BY <1>2, <1>4 DEF Answer, Moved
<1>6. UNCHANGED <<calls, mgr, sa_insts>> /\ call'[Main] = call[Main]
  BY DEF inst
<1>7. Mgr \in Inst \cup {Mgr}
  OBVIOUS
<1> QED BY <1>1, <1>3, <1>4, <1>5, <1>6, <1>7, AnswerFarewell

\* A thread is begun: the identifier of the request goes from the buffer to the
\* request InstMgr works on.
LEMMA BeginFarewell ==
    ASSUME TypeOK, FarewellInv, slips = {}, buf[Mgr] # <<>>,
           NEW m \in Requests, m = Head(buf[Mgr]), m.op = "createInstance",
           NEW s, s.id = m.id,
           NEW a, mgr' = [pc |-> "wait", new |-> a, req |-> s],
           buf' = Taken(Mgr), UNCHANGED <<call, calls, sa_insts>>
    PROVE  FarewellInv'
<1>1. IdsInv /\ Overtaken(buf[Main], call[Main], sa_insts) /\ Mgr \in Inst \cup {Mgr}
  BY DEF FarewellInv
<1>2. /\ IdsSound(buf', calls)
      /\ \A t \in Ids : Carries(m, t) => Unused(buf', t) /\ Given(calls, t)
  BY <1>1, TakenSound
<1>3. m.id \in Ids /\ Carries(m, m.id)
  BY RequestKinds DEF Carries
<1>4. mgr'.pc = "wait" /\ mgr'.req = s
  OBVIOUS
<1>5. WorkSound(buf', calls, mgr')
  BY <1>2, <1>3, <1>4 DEF WorkSound
<1>6. Overtaken(buf'[Main], call[Main], sa_insts)
  BY <1>1, OvertakenTaken
<1> QED BY <1>2, <1>5, <1>6 DEF FarewellInv, IdsInv

\* The last record goes, and Main is asked to shut down; or another one goes.
LEMMA StoppedFarewell ==
    ASSUME IInv, FarewellInv, slips = {}, mgr.pc = "idle", buf[Mgr] # <<>>,
           NEW m, m = Head(buf[Mgr]), InstStopped(m), UNCHANGED <<call, calls>>
    PROVE  FarewellInv'
<1>1. /\ TypeOK /\ IdsInv /\ Mgr \in Inst \cup {Mgr} /\ mgr' = mgr
      /\ IsFiniteSet(sa_insts) /\ nr_insts = Cardinality(sa_insts)
  BY DEF IInv, RecordInv, FarewellInv, InstStopped
<1>2. CASE buf' = Taken(Mgr)
  <2>1. sa_insts' \subseteq sa_insts
    BY DEF InstStopped
  <2> QED BY <1>1, <1>2, <2>1, TakeFarewell
<1>3. CASE buf' # Taken(Mgr)
  <2>1. PICK r : r = [type |-> "request", op |-> "shutdownInstance", from |-> Mgr]
    OBVIOUS
  <2>2. PICK b : b = Taken(Mgr)
    OBVIOUS
  <2>3. /\ m.sid \in sa_insts /\ nr_insts = 1 /\ sa_insts' = sa_insts \ {m.sid}
        /\ Moved(buf', b, Main, r)
    BY <1>3, <2>1, <2>2 DEF InstStopped, LastOne, Moved
  <2>4. sa_insts' = {}
    <3>1. /\ IsFiniteSet(sa_insts \ {m.sid})
          /\ Cardinality(sa_insts \ {m.sid}) = Cardinality(sa_insts) - 1
      BY <1>1, <2>3, FS_RemoveElement
    <3>2. Cardinality(sa_insts') = 0 /\ IsFiniteSet(sa_insts')
      BY <1>1, <2>3, <3>1
    <3> QED BY <3>2, FS_EmptySet
  <2>5. r \in Messages /\ \A t : ~Carries(r, t)
    BY <2>1 DEF Messages, Requests, Carries
  <2>6. IdsSound(buf', calls) /\ WorkSound(buf', calls, mgr)
    BY <1>1, <2>2, <2>3, <2>5, AnswerSound
  <2>7. Overtaken(buf'[Main], call[Main], sa_insts')
    BY <2>4 DEF Overtaken
  <2> QED BY <1>1, <2>6, <2>7 DEF FarewellInv, IdsInv
<1> QED BY <1>2, <1>3

\* A record is made: for Main, which is told so behind every request to shut
\* down, or for another instance, which has a record itself.
LEMMA CreateDoneFarewell ==
    ASSUME IInv, FarewellInv, CreateDone
    PROVE  FarewellInv'
<1>1. /\ TypeOK /\ Waits /\ MgrInv /\ RecordInv /\ slips = {} /\ UNCHANGED inst
      /\ mgr.pc = "wait" /\ mgr'.pc = "idle" /\ sa_insts' = sa_insts \cup Made
  BY DEF IInv, CreateDone
<1> SUFFICES ASSUME slips' = {} PROVE FarewellInv'
  BY DEF FarewellInv
<1>2. IdsInv /\ Overtaken(buf[Main], call[Main], sa_insts) /\ buf \in Boxes
  BY <1>1, HeapIsTyped DEF FarewellInv
<1>3. PICK m : m = mgr.req
  OBVIOUS
<1>4. /\ m \in Requests /\ m.op = "createInstance" /\ m.from \in Inst /\ m.id \in Ids
      /\ mgr.new \in Born /\ m.from # mgr.new
  <2>1. /\ m \in Requests /\ m.op = "createInstance" /\ mgr.new \in Born
        /\ m.from # mgr.new
    BY <1>1, <1>3 DEF TypeOK, MgrInv
  <2> QED BY <2>1, RequestKinds
<1>5. PICK r : r = IF Made = {} THEN Response(m, "CONFLICT", None)
                   ELSE Response(m, "OK", mgr.new)
  OBVIOUS
<1>6. /\ r \in Messages /\ r.type = "response" /\ r.id = m.id
      /\ Made # {} => r.value # None
  <2>1. CASE Made = {}
    BY <1>4, <1>5, <2>1, ResponseTyped
  <2>2. CASE Made # {}
    <3>1. mgr.new \in Inst \cup {None} /\ mgr.new # None
      BY <1>4, NamesApart
    <3> QED BY <1>4, <1>5, <2>2, <3>1, ResponseTyped
  <2> QED BY <2>1, <2>2
<1>7. PICK x : x = m.from
  OBVIOUS
<1>8. Moved(buf', buf, x, r)
  BY <1>3, <1>5, <1>7 DEF CreateDone, Moved
<1>9. IdsSound(buf', calls) /\ WorkSound(buf', calls, mgr')
  <2>1. \A t : Carries(r, t) => t = m.id
    BY <1>6 DEF Carries
  <2>2. Unused(buf, m.id) /\ Given(calls, m.id)
    BY <1>1, <1>2, <1>3 DEF IdsInv, WorkSound
  <2>3. WorkSound(buf, calls, mgr') /\ mgr'.pc # "wait"
    BY <1>1 DEF WorkSound
  <2>4. IdsSound(buf, calls)
    BY <1>2 DEF IdsInv
  <2>5. \A t \in Ids : Carries(r, t) => Unused(buf, t) /\ Given(calls, t)
    BY <2>1, <2>2
  <2> QED BY <1>2, <1>6, <1>8, <2>3, <2>4, <2>5, MovedSound
<1>10. ~IsFarewell(r)
  BY <1>6 DEF IsFarewell
<1>11. Overtaken(buf'[Main], call[Main], sa_insts')
  <2>1. CASE Made = {}
    <3>1. sa_insts' = sa_insts
      BY <1>1, <2>1
    <3> QED BY <1>2, <1>6, <1>8, <1>10, <3>1, OvertakenMoved
  <2>2. CASE Made # {}
    <3>1. call[m.from] = m /\ m # None /\ Dropped(m.from) = {}
      <4>1. m # None
        BY <1>4, RequestKinds
      <4> QED BY <1>3, <2>2, <4>1 DEF CreateDone
    <3>2. WaitsIn(th[m.from], crtns[m.from], m.from)
      BY <1>1, <1>4, <3>1 DEF Waits
    <3>3. CASE m.from = Main
      <4>1. CanMove(Main)
        <5>1. th[Main] \in {"ready", "run"} /\ Main # Mgr
          BY <3>2, <3>3, RunnersAssumption DEF WaitsIn
        <5> QED BY <3>1, <3>3, <5>1 DEF Dropped, HasBuffer
      <4>2. Appended(buf[Main], r, buf'[Main])
        <5>1. x = Main /\ x \in Inst \cup {Mgr} /\ CanMove(x)
          BY <1>7, <3>3, <4>1, NamesApart
        <5>2. Appended(buf[x], r, buf'[x])
          BY <1>2, <1>6, <1>8, <5>1, MoveArrives
        <5> QED BY <5>1, <5>2
      <4>3. call[Main] # None /\ TellsOf(r, call[Main])
        BY <1>6, <2>2, <3>1, <3>3 DEF TellsOf
      <4>4. buf[Main] \in Seq(Messages)
        BY <1>2, NamesApart DEF Boxes
      <4> QED BY <1>6, <1>10, <4>2, <4>3, <4>4, OvertakenAppend
    <3>4. CASE m.from # Main
      <4>1. m.from \in Born /\ th[m.from] \in Ups
        BY <1>4, <3>2, <3>4, NamesApart DEF WaitsIn, Ups
      <4>2. sa_insts # {}
        BY <1>1, <1>4, <4>1 DEF RecordInv, Tracked
      <4>3. Overtaken(buf[Main], call[Main], sa_insts')
        BY <1>2, <4>2, OvertakenKept
      <4> QED BY <1>2, <1>6, <1>8, <1>10, <4>3, OvertakenMoved
    <3> QED BY <3>3, <3>4
  <2> QED BY <2>1, <2>2
<1>12. UNCHANGED <<call, calls>>
  BY <1>1 DEF inst
<1> QED BY <1>9, <1>11, <1>12 DEF FarewellInv, IdsInv

LEMMA HandleFarewell ==
    ASSUME IInv, FarewellInv, pcrun_instmgr_handle_message
    PROVE  FarewellInv'
<1>1. /\ TypeOK /\ slips = {} /\ mgr.pc = "idle" /\ buf[Mgr] # <<>>
      /\ UNCHANGED <<crtns, keep_alive, call, calls, handle>>
  BY DEF pcrun_instmgr_handle_message, IInv
<1>2. PICK m : m = Head(buf[Mgr])
  OBVIOUS
<1>3. m \in Messages /\ Mgr \in Inst \cup {Mgr}
  BY <1>1, <1>2, MgrTakes
<1>4. CASE InstStopped(m)
  BY <1>1, <1>2, <1>4, StoppedFarewell
<1>5. CASE MgrRequest(m) /\ buf' = Taken(Mgr) /\ UNCHANGED <<mgr, sa_insts>>
  BY <1>1, <1>3, <1>5, TakeFarewell
<1>6. ASSUME NEW s \in Served(m), m.type = "request", create_instance(s)
      PROVE  FarewellInv'
  <2>1. m \in Requests /\ m.op = "createInstance" /\ s.id = m.id /\ UNCHANGED sa_insts
    <3>1. m \in Requests /\ s.op = "createInstance" /\ UNCHANGED sa_insts
      BY <1>3, <1>6, MessageKinds DEF create_instance
    <3> QED BY <3>1, ServedIs
  <2>2. CASE \E a \in Running(s.arg) : Answer(s, "OK", a) /\ UNCHANGED <<th, mgr>>
    <3>1. PICK a \in Running(s.arg) : Answer(s, "OK", a) /\ UNCHANGED <<th, mgr>>
      BY <2>2
    <3>2. a \in Inst
      BY NamesApart DEF Running
    <3>3. UNCHANGED <<inst, mgr, sa_insts>>
      BY <1>1, <2>1, <3>1 DEF inst
    <3> QED BY <1>1, <1>2, <2>1, <3>1, <3>2, <3>3, MgrAnswerFarewell
  <2>3. CASE /\ \E a \in Fresh(s.arg) : mgr' = [pc |-> "wait", new |-> a, req |-> s]
             /\ buf' = Taken(Mgr)
    <3>1. PICK a : mgr' = [pc |-> "wait", new |-> a, req |-> s]
      BY <2>3
    <3> QED BY <1>1, <1>2, <2>1, <2>3, <3>1, BeginFarewell
  <2>4. CASE slips' = slips \cup {"out of names"}
    BY <2>4 DEF FarewellInv
  <2> QED BY <1>6, <2>2, <2>3, <2>4 DEF create_instance
<1>7. ASSUME NEW s \in Served(m), m.type = "request", s.op = "createCoroutine",
             BadRequest(s)
      PROVE  FarewellInv'
  <2>1. m \in Requests /\ m.op = "createCoroutine" /\ s.id = m.id
    <3>1. m \in Requests
      BY <1>3, <1>7, MessageKinds
    <3> QED BY <1>7, <3>1, ServedIs
  <2>2. Answer(s, "BAD_REQUEST", None) /\ UNCHANGED <<inst, mgr, sa_insts>>
    BY <1>1, <1>7 DEF BadRequest, inst
  <2> QED BY <1>1, <1>2, <2>1, <2>2, MgrAnswerFarewell
<1>8. MgrRequest(m) \/ InstStopped(m)
  BY <1>2 DEF pcrun_instmgr_handle_message
<1>9. ASSUME NEW s \in Served(m), s.op # "createCoroutine", BadRequest(s)
      PROVE  buf' = Taken(Mgr) /\ UNCHANGED <<mgr, sa_insts>>
  BY <1>9 DEF BadRequest
<1>10. MgrRequest(m) => \/ buf' = Taken(Mgr) /\ UNCHANGED <<mgr, sa_insts>>
                        \/ \E s \in Served(m) :
                              m.type = "request" /\ (create_instance(s) \/ BadRequest(s))
  BY DEF MgrRequest
<1> QED BY <1>4, <1>5, <1>6, <1>7, <1>8, <1>9, <1>10

LEMMA NextFarewell ==
    ASSUME IInv, FarewellInv, [Next]_vars
    PROVE  FarewellInv'
<1>1. TypeOK
  BY DEF IInv
<1>2. CASE UNCHANGED vars
  <2>1. UNCHANGED <<buf, calls, call, sa_insts, mgr, slips>>
    BY <1>2 DEF vars, inst
  <2> QED BY <2>1, StillFarewell DEF FarewellInv
<1>3. CASE _runloop_stop_main
  <2>1. slips = {} /\ UNCHANGED <<call, calls, sa_insts>>
    BY <1>3 DEF _runloop_stop_main, inst
  <2>2. CASE slips' # {}
    BY <2>2 DEF FarewellInv
  <2>3. CASE slips' = {}
    <3>1. buf' = [buf EXCEPT ![Mgr] = <<>>] /\ mgr'.pc = "off"
      BY <1>1, <1>3, <2>3 DEF _runloop_stop_main, TypeOK
    <3>2. Mgr \in Inst \cup {Mgr}
      OBVIOUS
    <3> QED BY <1>1, <2>1, <3>1, <3>2, EmptiedFarewell
  <2> QED BY <2>2, <2>3
<1>4. ASSUME NEW i \in Inst, cleanup_modules(i)
      PROVE  FarewellInv'
  <2>1. /\ slips = {} /\ buf' = [buf EXCEPT ![i] = <<>>] /\ i \in Inst \cup {Mgr}
        /\ UNCHANGED <<call, calls, sa_insts, mgr>>
    BY <1>4 DEF cleanup_modules, Alive
  <2> QED BY <1>1, <2>1, EmptiedFarewell
<1>5. ASSUME NEW i \in Inst, InstNext(i)
      PROVE  FarewellInv'
  BY <1>1, <1>4, <1>5, CallsFarewell, AskFarewell, GoesOnFarewell, PollFarewell,
     TimeoutFarewell, NotifyFarewell DEF InstNext
<1>6. MgrRuns => FarewellInv'
  BY GoesOnFarewell, NamesApart
<1> QED BY <1>2, <1>3, <1>5, <1>6, CreateDoneFarewell, HandleFarewell DEF Next, MgrNext

\* LastOneGone (shutdown_instance, runners.c): when Main, without a coroutine,
\* leaves its loop at the request of InstMgr, no other instance is on record: the
\* request is overtaken by no creation but one that Main waits for, and then Main
\* hears of the instance before it is without coroutines.
THEOREM LastOneIsGone == Spec => LastOneGone
<1> DEFINE Leaves == /\ th[Main] = "run" /\ th'[Main] = "quit" /\ crtns[Main] = 0
                     /\ Head(buf[Main]).from = Mgr
<1>1. Init => FarewellInv
  <2> SUFFICES ASSUME Init PROVE FarewellInv
    OBVIOUS
  <2>1. \A x \in Inst \cup {Mgr} : Len(buf[x]) = 0
    BY DEF Init
  <2>2. \A t \in Ids : \A x \in Inst \cup {Mgr} : ~IdIn(buf[x], t) /\ IdOnce(buf[x], t)
    BY <2>1 DEF IdIn, IdOnce
  <2>3. IdsSound(buf, calls)
    BY <2>2 DEF IdsSound, Apart, Unused
  <2>4. WorkSound(buf, calls, mgr)
    BY DEF Init, WorkSound
  <2>5. Overtaken(buf[Main], call[Main], sa_insts)
    BY DEF Init, Overtaken
  <2> QED BY <2>3, <2>4, <2>5 DEF FarewellInv, IdsInv
<1>2. IInv /\ FarewellInv /\ [Next]_vars => FarewellInv'
  BY NextFarewell
<1>3. IInv /\ FarewellInv /\ [Next]_vars => (Leaves => sa_insts = {})
  <2> SUFFICES ASSUME IInv, FarewellInv, [Next]_vars, Leaves
               PROVE  sa_insts = {}
    OBVIOUS
  <2>1. /\ th \in [Inst -> Stages] /\ Main \in Inst /\ Main \notin Born
        /\ buf[Main] \in Seq(Messages)
        /\ call[Main] = None
    <3>1. TypeOK /\ Waits /\ Main \in Inst /\ Main \in Inst \cup {Mgr} /\ Main \notin Born
      BY NamesApart DEF IInv
    <3>2. th \in [Inst -> Stages] /\ buf[Main] \in Seq(Messages)
      BY <3>1 DEF TypeOK
    <3>3. ~WaitsIn(th[Main], crtns[Main], Main)
      BY DEF WaitsIn
    <3> QED BY <3>1, <3>2, <3>3 DEF Waits
  <2>2. th'[Main] # th[Main]
    OBVIOUS
  <2>3. ~MgrNext
    <3>1. \A s : ~create_instance(s)
      <4>1. \A s : \A a \in Fresh(s.arg) : th[a] = "none"
        BY DEF Fresh
      <4> QED BY <2>1, <2>2, <4>1 DEF create_instance
    <3>2. ~pcrun_instmgr_handle_message
      BY <2>2, <3>1 DEF pcrun_instmgr_handle_message, MgrRequest, InstStopped, BadRequest
    <3> QED BY <2>2, <3>2 DEF MgrNext, CreateDone, MgrRuns, _runloop_stop_main, inst
  <2>4. PICK i \in Inst : InstNext(i)
    BY <2>2, <2>3 DEF Next, vars, inst
  <2>5. pcrun_extra_message_source(i)
    <3>1. \A s : th' = [th EXCEPT ![i] = s] => i = Main /\ s = "quit"
      BY <2>1, <2>2
    <3>2. ~purc_run(i) /\ ~EndPass(i) /\ ~InitDone(i) /\ ~pcrun_notify_instmgr(i)
          /\ ~cleanup_modules(i) /\ ~cleanup_instance(i)
      BY <3>1 DEF purc_run, EndPass, InitDone, pcrun_notify_instmgr, cleanup_modules,
                  cleanup_instance
    <3>3. ~Exit(i)
      BY <2>2, <3>1 DEF Exit, RunloopStop
    <3>4. UNCHANGED th => FALSE
      BY <2>2
    <3>5. /\ \A n \in Name \cup {Main} : ~purc_inst_create_or_get(i, n)
          /\ ~purc_inst_schedule_vdom(i) /\ ~purc_inst_ask_to_shutdown(i)
          /\ ~purc_schedule_vdom(i) /\ ~Timeout(i)
      BY <3>4 DEF purc_inst_create_or_get, purc_inst_schedule_vdom,
                  purc_inst_ask_to_shutdown, purc_schedule_vdom, Timeout
    <3> QED BY <2>4, <3>2, <3>3, <3>5 DEF InstNext
  <2>6. PICK m : m = Head(buf[i])
    OBVIOUS
  <2>7. PICK s \in Served(m) : shutdown_instance(i, s)
    <3>1. pcrun_request_handler(i, m) \/ HandleResponse(i, m)
      BY <2>5, <2>6 DEF pcrun_extra_message_source
    <3> QED BY <2>2, <3>1 DEF pcrun_request_handler, HandleResponse, create_coroutine, inst
  <2>8. i = Main /\ m.type = "request" /\ slips = {} /\ buf[i] # <<>>
    <3>1. i = Main
      BY <2>1, <2>2, <2>7 DEF shutdown_instance, RunloopStop
    <3>2. slips = {} /\ buf[i] # <<>>
      BY <2>5 DEF pcrun_extra_message_source, Alive
    <3>3. pcrun_request_handler(i, m) \/ HandleResponse(i, m)
      BY <2>5, <2>6 DEF pcrun_extra_message_source
    <3>4. ~HandleResponse(i, m)
      BY <2>2 DEF HandleResponse
    <3> QED BY <3>1, <3>2, <3>3, <3>4 DEF pcrun_request_handler
  <2>9. 1 \in 1 .. Len(buf[Main]) /\ buf[Main][1] = m
    BY <2>1, <2>6, <2>8
  <2>10. IsFarewell(buf[Main][1])
    <3>1. m \in Messages
      BY <2>1, <2>9
    <3>2. m \in Requests
      BY <2>8, <3>1, MessageKinds
    <3>3. m.op = "shutdownInstance"
      BY <2>7, <3>2, ServedIs DEF shutdown_instance
    <3> QED BY <2>6, <2>8, <2>9, <3>3 DEF IsFarewell
  <2>11. Overtaken(buf[Main], call[Main], sa_insts)
    BY <2>8 DEF FarewellInv
  <2> QED BY <2>1, <2>9, <2>10, <2>11 DEF Overtaken
<1> HIDE DEF Leaves
<1> QED BY <1>1, <1>2, <1>3, IInvHolds, PTL DEF Spec, LastOneGone, Leaves

=============================================================================
