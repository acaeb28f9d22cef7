------------------------------ MODULE Runners ------------------------------
(***************************************************************************)
(* The instances of a process and the instance manager (InstMgr), each in  *)
(* a thread of its own: interpreter/runners.c, runloop.cpp, instance.c.    *)
(* The first instance is Main.  The others are created by InstMgr, which   *)
(* is asked with a createInstance request, waits for the new thread to be  *)
(* initialized, and keeps a record of it until the thread reports its end. *)
(* When the last record is gone, InstMgr asks Main to shut down.  Whoever  *)
(* waits for an answer goes on handling the requests of others.            *)
(*                                                                         *)
(* An instance is a name and the number of its atom: names are used again, *)
(* atoms are not.  A move buffer is a sequence (see MoveBuffer); a         *)
(* coroutine is a unit in a count (see Coroutine); the wait for an answer  *)
(* is the call it answers (see Requests).                                  *)
(* All instances belong to one app: a shutdown asked for by an instance of *)
(* another app would be refused without a trace.                           *)
(*                                                                         *)
(* slips is the set of mishaps met.  The model stops at the first: it says *)
(* what holds until then, and the mishaps are named at their places.       *)
(***************************************************************************)
EXTENDS Integers, Sequences, SequencesExt, FiniteSets

CONSTANTS
    Name,       \* the endpoint names of the instances other than Main
    Main,       \* the first instance, which runs the program
    Mgr,        \* InstMgr
    None,
    MaxBorn,    \* bound: atoms per name; the model stops before one more
    MaxCrtn,    \* bound: coroutines of an instance
    MaxCalls,   \* bound: calls of purc_inst_... functions by each instance
    MaxMsgs,    \* the capacity of a move buffer
    Timed,      \* the instances whose waits may time out
    Refusing    \* those whose condition handler may refuse to shut down

Born == Name \X (1..MaxBorn)
Inst == {Main} \cup Born

ASSUME RunnersAssumption ==
    /\ {Main, Mgr, None} \cap Born = {}
    /\ Main # Mgr /\ None \notin {Main, Mgr}
    /\ MaxBorn \in Nat /\ MaxCrtn \in Nat /\ MaxCalls \in [Inst -> Nat]
    /\ MaxMsgs \in Nat \ {0}
    /\ Timed \subseteq Inst /\ Refusing \subseteq Inst

VARIABLES
    th,         \* how far the thread of an instance is
    crtns,      \* heap->crtns and heap->stopped_crtns
    keep_alive,
    call,       \* the request the thread waits for an answer to, or None
    calls,      \* calls made: the source of request identifiers
    handle,     \* what purc_inst_create_or_get returned last
    buf,        \* the move buffers
    mgr,        \* the thread of InstMgr and the request it works on
    sa_insts, nr_insts,
    slips

inst == <<th, crtns, keep_alive, call, calls, handle>>
vars == <<inst, buf, mgr, sa_insts, nr_insts, slips>>

\* none: no thread; init: inside purc_init_ex; ready: before purc_run; run:
\* inside purc_run; quit: the loop has been told to stop, its pass goes on;
\* stopped: purc_run returned; notified: InstMgr was told; closed: heap and
\* move buffer are gone; gone: the atom is removed, too; failed: purc_init_ex
\* failed, which removes the atom as well.
Stages == {"none", "init", "failed", "ready", "run", "quit", "stopped",
           "notified", "closed", "gone"}

Ask(i)   == <<i, calls[i]>>
Ids      == UNION {{i} \X (0..MaxCalls[i]) : i \in Inst}
Requests == [type : {"request"}, op : {"createInstance"}, from : Inst,
             id : Ids, arg : Name]
       \cup [type : {"request"}, op : {"createCoroutine"}, from : Inst,
             id : Ids, arg : Inst \cup {Mgr}]
       \cup [type : {"request"}, op : {"shutdownInstance"},
             from : Inst \cup {Mgr}]
Messages == Requests
       \cup [type : {"response"}, id : Ids,
             code : {"OK", "CONFLICT", "BAD_REQUEST"}, value : Inst \cup {None}]
       \cup [type : {"event"}, sid : Born]

ASSUME RequestsAssumption == None \notin Requests

Slips == {"stop lost", "late coroutine", "dropped", "unwanted instance",
          "no manager", "exit hangs", "out of names"}

TypeOK ==
    /\ th \in [Inst -> Stages] /\ crtns \in [Inst -> 0..MaxCrtn]
    /\ keep_alive \in [Inst -> {0, 1}]
    /\ call \in [Inst -> Requests \cup {None}]
    /\ calls \in [Inst -> Nat] /\ \A i \in Inst : calls[i] <= MaxCalls[i]
    /\ handle \in [Inst -> Inst \cup {Mgr, None}]
    /\ buf \in [Inst \cup {Mgr} -> Seq(Messages)]
    /\ mgr \in [pc : {"starting", "idle", "wait", "off"},
                new : Born \cup {None}, req : Requests \cup {None}]
    /\ sa_insts \subseteq Born /\ nr_insts \in Int
    /\ slips \subseteq Slips

Init ==
    /\ th = [i \in Inst |-> IF i = Main THEN "ready" ELSE "none"]
    /\ crtns = [i \in Inst |-> 0]
    /\ keep_alive = [i \in Inst |-> 0]
    /\ call = [i \in Inst |-> None] /\ calls = [i \in Inst |-> 0]
    /\ handle = [i \in Inst |-> None]
    /\ buf = [x \in Inst \cup {Mgr} |-> <<>>]
    /\ mgr = [pc |-> "starting", new |-> None, req |-> None]
    /\ sa_insts = {} /\ nr_insts = 0 /\ slips = {}

-----------------------------------------------------------------------------
(* Atoms and move buffers. *)

\* purc_atom_try_string_ex, purc_atom_to_string.
Registered(x) == IF x = Mgr THEN mgr.pc # "off"
                 ELSE x # None /\ th[x] \notin {"none", "failed", "gone"}

HasBuffer(x) == IF x = Mgr THEN mgr.pc # "off"
                ELSE th[x] \in {"ready", "run", "quit", "stopped", "notified"}

\* The instance with a name: Main is its own name.
Running(n) == IF n = Main THEN {i \in {Main} : Registered(i)}
              ELSE {i \in Born : i[1] = n /\ Registered(i)}

\* A request names its requester: it is served for whoever has that name now.
Requester(x) == IF x = Mgr THEN {y \in {Mgr} : Registered(y)}
                ELSE Running(IF x = Main THEN Main ELSE x[1])
Served(m)    == {[m EXCEPT !.from = r] : r \in Requester(m.from)}

\* purc_inst_move_message.
CanMove(x)      == HasBuffer(x) /\ Len(buf[x]) < MaxMsgs
Move(b, x, m)   == IF CanMove(x) THEN [b EXCEPT ![x] = Append(@, m)] ELSE b
Taken(x)        == [buf EXCEPT ![x] = Tail(@)]

\* A message that its receiver counts on is not delivered.
Dropped(x) == IF HasBuffer(x) /\ ~CanMove(x) THEN {"dropped"} ELSE {}

Response(m, c, v) == [type |-> "response", id |-> m.id, code |-> c, value |-> v]

-----------------------------------------------------------------------------
(* What the program, before purc_run, or a coroutine does. *)

Alive(i)   == slips = {} /\ (i = Main \/ th[i] # "none")
Free(i)    == Alive(i) /\ call[i] = None
CanCall(i) == /\ Free(i) /\ calls[i] < MaxCalls[i]
              /\ \/ i = Main /\ th[i] = "ready"
                 \/ th[i] = "run" /\ crtns[i] > 0

\* The request is moved to x; without a receiver the call fails at once.
SendAndWait(i, x, m) ==
    IF CanMove(x)
    THEN /\ buf' = Move(buf, x, m)
         /\ call' = [call EXCEPT ![i] = m]
         /\ calls' = [calls EXCEPT ![i] = @ + 1]
    ELSE UNCHANGED <<buf, call, calls>>

purc_inst_create_or_get(i, n) ==
    /\ CanCall(i) /\ (n = Main => Registered(Main))
    /\ IF Running(n) # {}
       THEN /\ handle' = [handle EXCEPT ![i] = CHOOSE a \in Running(n) : TRUE]
            /\ UNCHANGED <<buf, call, calls>>
       ELSE /\ SendAndWait(i, Mgr, [type |-> "request", op |-> "createInstance",
                                    from |-> i, id |-> Ask(i), arg |-> n])
            /\ handle' = [handle EXCEPT ![i] = None]
    /\ UNCHANGED <<th, crtns, keep_alive, mgr, sa_insts, nr_insts, slips>>

purc_inst_schedule_vdom(i) ==
    /\ CanCall(i) /\ handle[i] # i /\ Registered(handle[i])
    /\ SendAndWait(i, handle[i],
                   [type |-> "request", op |-> "createCoroutine",
                    from |-> i, id |-> Ask(i), arg |-> handle[i]])
    /\ UNCHANGED <<th, crtns, keep_alive, handle, mgr, sa_insts, nr_insts, slips>>

purc_inst_ask_to_shutdown(i) ==
    /\ CanCall(i) /\ handle[i] # i /\ Registered(handle[i])
    /\ buf' = Move(buf, handle[i], [type |-> "request",
                                    op |-> "shutdownInstance", from |-> i])
    /\ calls' = [calls EXCEPT ![i] = @ + 1]
    /\ UNCHANGED <<th, crtns, keep_alive, call, handle, mgr, sa_insts, nr_insts,
                   slips>>

\* A coroutine in the instance itself.
purc_schedule_vdom(i) ==
    /\ Free(i) /\ crtns[i] < MaxCrtn
    /\ \/ i = Main /\ th[i] = "ready"
       \/ th[i] = "run" /\ crtns[i] > 0
    /\ crtns' = [crtns EXCEPT ![i] = @ + 1]
    /\ UNCHANGED <<th, keep_alive, call, calls, handle, buf, mgr, sa_insts,
                   nr_insts, slips>>

purc_run(i) ==
    /\ Free(i) /\ th[i] = "ready"
    /\ th' = [th EXCEPT ![i] = "run"]
    /\ UNCHANGED <<crtns, keep_alive, call, calls, handle, buf, mgr, sa_insts,
                   nr_insts, slips>>

-----------------------------------------------------------------------------
(* The run loop of an instance. *)

\* purc_runloop_stop has an effect only on a loop that runs.
RunloopStop(i) == IF th[i] = "run" THEN [th EXCEPT ![i] = "quit"] ELSE th

\* The end of pcintr_check_after_execution_full, for a coroutine that is done.
Exit(i) ==
    /\ Free(i) /\ th[i] = "run" /\ crtns[i] > 0
    /\ crtns' = [crtns EXCEPT ![i] = @ - 1]
    /\ th' = IF crtns[i] = 1 /\ keep_alive[i] = 0 THEN RunloopStop(i) ELSE th
    /\ UNCHANGED <<keep_alive, call, calls, handle, buf, mgr, sa_insts, nr_insts,
                   slips>>

\* create_coroutine, which may fail, and the answer.  In a pass that goes on
\* after the loop was told to stop, the coroutine will be cut off.
create_coroutine(i, m) ==
    /\ m.op = "createCoroutine"
    /\ \E ok \in BOOLEAN :
          /\ ok => crtns[i] < MaxCrtn
          /\ crtns' = [crtns EXCEPT ![i] = IF ok THEN @ + 1 ELSE @]
          /\ buf' = Move(Taken(i), m.from,
                         Response(m, IF ok THEN "OK" ELSE "BAD_REQUEST", None))
          /\ slips' = slips \cup Dropped(m.from)
                            \cup IF ok /\ th[i] = "quit"
                                 THEN {"late coroutine"} ELSE {}
    /\ UNCHANGED <<th, keep_alive, call, calls, handle>>

\* shutdown_instance, with a condition handler that may refuse, and the end of
\* pcrun_request_handler.
shutdown_instance(i, m) ==
    /\ m.op = "shutdownInstance"
    /\ \E keep \in {0, 1} :
          /\ keep = 1 => i \in Refusing
          /\ keep_alive' = [keep_alive EXCEPT ![i] = keep]
          /\ LET stop == keep = 0 /\ crtns[i] = 0
             IN  /\ th' = IF stop THEN RunloopStop(i) ELSE th
                 /\ slips' = IF stop /\ th[i] = "ready"
                             THEN slips \cup {"stop lost"} ELSE slips
    /\ buf' = Taken(i)
    /\ UNCHANGED <<crtns, call, calls, handle>>

pcrun_request_handler(i, m) ==
    /\ m.type = "request"
    /\ \/ \E s \in Served(m) : create_coroutine(i, s) \/ shutdown_instance(i, s)
       \/ Served(m) = {} /\ buf' = Taken(i) /\ UNCHANGED <<inst, slips>>

\* What purc_inst_create_or_get returns: an answer other than OK and CONFLICT,
\* and a wait that failed, leave the atom of InstMgr in its variable.
Returned(i, c, v) == IF call[i].op # "createInstance" THEN handle[i]
                     ELSE IF c \in {"OK", "CONFLICT"} THEN v ELSE Mgr

Return(i, c, v) ==
    /\ handle' = [handle EXCEPT ![i] = Returned(i, c, v)]
    /\ call' = [call EXCEPT ![i] = None]

\* handle_response_message: an answer nobody waits for is thrown away.
HandleResponse(i, m) ==
    /\ m.type = "response"
    /\ IF call[i] # None /\ call[i].id = m.id
       THEN Return(i, m.code, m.value)
       ELSE UNCHANGED <<call, handle>>
    /\ buf' = Taken(i)
    /\ UNCHANGED <<th, crtns, keep_alive, calls, slips>>

\* Variant with a fault: who waits looks at responses only.
PollsDeaf(i) == IF call[i] = None THEN th[i] \in {"run", "quit"}
                ELSE Head(buf[i]).type = "response"

\* Messages are taken between two steps of the scheduler and inside a wait.
Polls(i) == th[i] \in {"run", "quit"} \/ call[i] # None

pcrun_extra_message_source(i) ==
    /\ Alive(i) /\ buf[i] # <<>> /\ Polls(i)
    /\ \/ pcrun_request_handler(i, Head(buf[i]))
       \/ HandleResponse(i, Head(buf[i]))
    /\ UNCHANGED <<mgr, sa_insts, nr_insts>>

\* The wait fails, perhaps with the answer unread.  An instance was created for
\* nobody then.
Timeout(i) ==
    /\ Alive(i) /\ i \in Timed /\ call[i] # None
    /\ Return(i, "TIMEOUT", None)
    /\ slips' = IF \E m \in ToSet(buf[i]) : /\ m.type = "response"
                                            /\ m.id = call[i].id
                                            /\ m.value # None
                THEN slips \cup {"unwanted instance"} ELSE slips
    /\ UNCHANGED <<th, crtns, keep_alive, calls, buf, mgr, sa_insts, nr_insts>>

\* The last pass of pcintr_schedule is over, and so is purc_run.
EndPass(i) ==
    /\ Free(i) /\ th[i] = "quit"
    /\ th' = [th EXCEPT ![i] = "stopped"]
    /\ UNCHANGED <<crtns, keep_alive, call, calls, handle, buf, mgr, sa_insts,
                   nr_insts, slips>>

-----------------------------------------------------------------------------
(* The thread of an instance: pcrun_create_inst_thread. *)

\* purc_init_ex ends; InstMgr is signalled.
InitDone(i) ==
    /\ slips = {} /\ th[i] = "init"
    /\ \E s \in {"ready", "failed"} : th' = [th EXCEPT ![i] = s]
    /\ UNCHANGED <<crtns, keep_alive, call, calls, handle, buf, mgr, sa_insts,
                   nr_insts, slips>>

\* pcrun_notify_instmgr asserts that there is an InstMgr.
pcrun_notify_instmgr(i) ==
    /\ Alive(i) /\ i # Main /\ th[i] = "stopped"
    /\ IF Registered(Mgr)
       THEN /\ buf' = Move(buf, Mgr, [type |-> "event", sid |-> i])
            /\ slips' = slips \cup Dropped(Mgr)
       ELSE slips' = slips \cup {"no manager"} /\ UNCHANGED buf
    /\ th' = [th EXCEPT ![i] = "notified"]
    /\ UNCHANGED <<crtns, keep_alive, call, calls, handle, mgr, sa_insts,
                   nr_insts>>

\* cleanup_modules: the coroutines and the messages left are discarded.
cleanup_modules(i) ==
    /\ Alive(i) /\ th[i] = IF i = Main THEN "stopped" ELSE "notified"
    /\ th' = [th EXCEPT ![i] = "closed"]
    /\ crtns' = [crtns EXCEPT ![i] = 0]
    /\ buf' = [buf EXCEPT ![i] = <<>>]
    /\ UNCHANGED <<keep_alive, call, calls, handle, mgr, sa_insts, nr_insts,
                   slips>>

\* cleanup_instance removes the atom.
cleanup_instance(i) ==
    /\ Alive(i) /\ th[i] = "closed"
    /\ th' = [th EXCEPT ![i] = "gone"]
    /\ UNCHANGED <<crtns, keep_alive, call, calls, handle, buf, mgr, sa_insts,
                   nr_insts, slips>>

-----------------------------------------------------------------------------
(* InstMgr: pcrun_instmgr_handle_message. *)

\* The answer to m.
Answer(m, c, v) == /\ buf' = Move(Taken(Mgr), m.from, Response(m, c, v))
                   /\ slips' = slips \cup Dropped(m.from)

\* The atom the thread for name n will get.
Fresh(n) == {<<n, k>> : k \in {k \in 1..MaxBorn :
                /\ th[<<n, k>>] = "none"
                /\ \A j \in 1..k-1 : th[<<n, j>>] # "none"}}

\* create_instance, up to the wait for the new thread.  The last case is the
\* bound MaxBorn.
create_instance(m) ==
    /\ m.op = "createInstance"
    /\ \/ \E a \in Running(m.arg) : Answer(m, "OK", a) /\ UNCHANGED <<th, mgr>>
       \/ /\ Running(m.arg) = {}
          /\ \E a \in Fresh(m.arg) :
                /\ th' = [th EXCEPT ![a] = "init"]
                /\ mgr' = [pc |-> "wait", new |-> a, req |-> m]
          /\ buf' = Taken(Mgr)
          /\ UNCHANGED slips
       \/ /\ Running(m.arg) = {} /\ Fresh(m.arg) = {}
          /\ slips' = slips \cup {"out of names"}
          /\ buf' = Taken(Mgr)
          /\ UNCHANGED <<th, mgr>>
    /\ UNCHANGED <<sa_insts, nr_insts>>

\* Variant with a fault: a thread that is over already is not recorded.
MadeRunning == {i \in {mgr.new} : th[i] \in {"ready", "run", "quit"}}

\* The instance that purc_init_ex made, if it did not fail.
Made == {i \in {mgr.new} : th[i] # "failed"}

\* The thread has signalled: the rest of create_instance and the answer.  The
\* requester may have stopped waiting.
CreateDone ==
    /\ slips = {} /\ mgr.pc = "wait" /\ th[mgr.new] # "init"
    /\ LET m   == mgr.req
           new == Made
       IN  /\ sa_insts' = sa_insts \cup new
           /\ nr_insts' = nr_insts + Cardinality(new)
           /\ buf' = Move(buf, m.from,
                          IF new = {} THEN Response(m, "CONFLICT", None)
                          ELSE Response(m, "OK", mgr.new))
           /\ slips' = slips \cup Dropped(m.from)
                             \cup IF new # {} /\ call[m.from] # m
                                  THEN {"unwanted instance"} ELSE {}
    /\ mgr' = [pc |-> "idle", new |-> None, req |-> None]
    /\ UNCHANGED inst

\* Variants with a fault: any instance; the count is compared too early.
AnyOne   == TRUE
TooEarly == nr_insts = 0

\* The instance that stopped was the last one.
LastOne == nr_insts = 1

\* The record of the instance is removed; with the last one gone, Main is asked
\* to shut down.
InstStopped(m) ==
    /\ m.type = "event"
    /\ IF m.sid \in sa_insts
       THEN /\ sa_insts' = sa_insts \ {m.sid}
            /\ nr_insts' = nr_insts - 1
            /\ IF LastOne
               THEN /\ buf' = Move(Taken(Mgr), Main,
                                   [type |-> "request",
                                    op |-> "shutdownInstance", from |-> Mgr])
                    /\ slips' = slips \cup Dropped(Main)
               ELSE buf' = Taken(Mgr) /\ UNCHANGED slips
       ELSE buf' = Taken(Mgr) /\ UNCHANGED <<sa_insts, nr_insts, slips>>
    /\ UNCHANGED <<th, mgr>>

\* Other requests are bad; those without an answer change nothing.
BadRequest(m) ==
    /\ IF m.op = "createCoroutine" THEN Answer(m, "BAD_REQUEST", None)
       ELSE buf' = Taken(Mgr) /\ UNCHANGED slips
    /\ UNCHANGED <<th, mgr, sa_insts, nr_insts>>

MgrRequest(m) ==
    /\ m.type = "request"
    /\ \/ \E s \in Served(m) : \/ create_instance(s)
                               \/ m.op # "createInstance" /\ BadRequest(s)
       \/ /\ Served(m) = {}
          /\ buf' = Taken(Mgr)
          /\ UNCHANGED <<th, mgr, sa_insts, nr_insts, slips>>

pcrun_instmgr_handle_message ==
    /\ slips = {} /\ mgr.pc = "idle" /\ buf[Mgr] # <<>>
    /\ MgrRequest(Head(buf[Mgr])) \/ InstStopped(Head(buf[Mgr]))
    /\ UNCHANGED <<crtns, keep_alive, call, calls, handle>>

\* The loop of InstMgr begins.  Main does not wait for it.
MgrRuns ==
    /\ slips = {} /\ mgr.pc = "starting"
    /\ mgr' = [mgr EXCEPT !.pc = "idle"]
    /\ UNCHANGED <<inst, buf, sa_insts, nr_insts, slips>>

\* At the exit of the process the loop is told to stop and Main waits for the
\* end of the thread.  A loop that has not begun does not notice.
_runloop_stop_main ==
    /\ slips = {} /\ th[Main] = "gone"
    /\ \/ /\ mgr.pc = "starting"
          /\ slips' = slips \cup {"exit hangs"}
          /\ UNCHANGED <<mgr, buf>>
       \/ /\ mgr.pc = "idle"
          /\ mgr' = [mgr EXCEPT !.pc = "off"]
          /\ buf' = [buf EXCEPT ![Mgr] = <<>>]
          /\ UNCHANGED slips
    /\ UNCHANGED <<inst, sa_insts, nr_insts>>

-----------------------------------------------------------------------------
InstNext(i) ==
    \/ \E n \in Name \cup {Main} : purc_inst_create_or_get(i, n)
    \/ purc_inst_schedule_vdom(i) \/ purc_inst_ask_to_shutdown(i)
    \/ purc_schedule_vdom(i) \/ purc_run(i) \/ Exit(i)
    \/ pcrun_extra_message_source(i) \/ Timeout(i) \/ EndPass(i)
    \/ InitDone(i) \/ pcrun_notify_instmgr(i) \/ cleanup_modules(i)
    \/ cleanup_instance(i)

MgrNext == CreateDone \/ pcrun_instmgr_handle_message \/ MgrRuns
               \/ _runloop_stop_main

Next == MgrNext \/ \E i \in Inst : InstNext(i)

Spec == Init /\ [][Next]_vars

\* Threads go on with what they have to do; scripts and timers need not.
Fairness ==
    /\ WF_vars(MgrNext)
    /\ \A i \in Inst : /\ WF_vars(purc_run(i) \/ EndPass(i) \/ InitDone(i))
                       /\ WF_vars(pcrun_extra_message_source(i))
                       /\ WF_vars(pcrun_notify_instmgr(i) \/ cleanup_modules(i)
                                      \/ cleanup_instance(i))

FairSpec == Spec /\ Fairness

-----------------------------------------------------------------------------
(* Properties. *)

Reported(i) == \E k \in 1..Len(buf[Mgr]) :
                  buf[Mgr][k].type = "event" /\ buf[Mgr][k].sid = i

\* InstMgr has a record of exactly the instances that were initialized and
\* whose report it has not read yet, however the end of a thread, its creation
\* and requests of others for the same name overlap, and nr_insts counts them.
RecordsExact ==
    mgr.pc # "off" /\ slips = {} =>
        /\ nr_insts = Cardinality(sa_insts)
        /\ \A i \in Born : i \in sa_insts <=>
              /\ i # mgr.new
              /\ \/ th[i] \in {"ready", "run", "quit", "stopped"}
                 \/ th[i] \in {"notified", "closed", "gone"} /\ Reported(i)

\* When Main, without coroutines of its own, leaves its loop because InstMgr
\* asked it to, no other instance is on record: a request that is sent when
\* the last one goes is overtaken by no creation that Main waits for.
LastOneGone ==
    [][th[Main] = "run" /\ th'[Main] = "quit" /\ crtns[Main] = 0
         /\ Head(buf[Main]).from = Mgr
       => sa_insts = {}]_vars

\* Without timers: a caller gets its answer unless the one it asked has left
\* its loop, even if instances wait for one another.
Asked(m) == IF m.op = "createInstance" THEN Mgr ELSE m.arg
Deaf(x)  == IF x = Mgr THEN mgr.pc = "off"
            ELSE th[x] \notin {"init", "ready", "run"}

WaitEnds == \A i \in Inst \ Timed :
    call[i] # None ~> call[i] = None \/ Deaf(Asked(call[i])) \/ slips # {}

\* A program that only runs other instances ends when they have: once the last
\* record is gone, an idle Main leaves its loop or a new record is made.
MainEnds ==
    (sa_insts = {} /\ \E i \in Born : th[i] = "gone")
        ~> \/ th[Main] \notin {"ready", "run"} \/ sa_insts # {}
           \/ crtns[Main] > 0 \/ keep_alive[Main] = 1 \/ slips # {}
=============================================================================
