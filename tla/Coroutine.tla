------------------------------ MODULE Coroutine ------------------------------
(***************************************************************************)
(* The life of the coroutines of one instance, from their creation to the  *)
(* notifications of their curator and their destruction                    *)
(* (interpreter/scheduler.c, msg-handler.c, observer.c, interpreter.c).    *)
(*                                                                         *)
(* A coroutine runs its script until only the frame of the <hvml> element  *)
(* is left.  It then observes: messages of its queue are matched with its  *)
(* observers, and each match becomes a task, a run of the observer's body. *)
(* It exits on <exit>, on an exception, or when it observes nothing more;  *)
(* it then sends itself a last message, and when it has read that one, it  *)
(* tells its curator and is destroyed.                                     *)
(*                                                                         *)
(* All this happens on the thread of the instance.  What a script does     *)
(* between two turns of the scheduler is a choice; a handler, with every   *)
(* message it posts, is one action.  All messages of this module are       *)
(* events with the option KEEP, so a queue is the event list of MsgQueue.  *)
(***************************************************************************)
EXTENDS Integers, Sequences, FiniteSets, SequencesExt

CONSTANTS Crtn,      \* bound: the coroutines that can be created
          Main,      \* the one that the application schedules
          Observer,  \* <<key, n>>: the n-th <observe> for messages with key
          Event,     \* keys of the events that timers, renderers and other
                     \* instances post
          Forgettable, \* keys of messages that scripts name in <forget>
          MaxQueue,  \* bound: such events are posted to shorter queues only,
          MaxTasks,  \* bound: and to coroutines with fewer tasks
          None

ASSUME CoroutineAssumption ==
    /\ Main \in Crtn /\ {None, "reply"} \cap Crtn = {} /\ None # "reply"
    /\ Event \cap {"lastMsg", "reply", "callState", "corState", "observing",
                   "success", "except", "exited", "subExit"} = {}
    /\ Observer \subseteq (Event \cup {"callState", "corState", "subExit"}) \X Nat
    /\ MaxQueue \in Nat /\ MaxTasks \in Nat

VARIABLES co,     \* struct pcintr_coroutine of each coroutine
          mq,     \* its message queue
          told    \* history: what each coroutine posted to its curator

vars == <<co, mq, told>>

States == {"NEW", "READY", "STOPPED", "OBSERVING", "EXITED", "GONE", "BROKEN"}
Notes  == {"observing", "success", "except", "exited", "subExit"}

Messages == [name : {"lastMsg", "reply"} \cup Event \cup Notes,
             from : Crtn \cup {None}]

Coroutines ==
    [state : States,
     stage : {"FIRST_RUN", "OBSERVING"},
     exited : BOOLEAN, except : BOOLEAN, failed : BOOLEAN,
     last_msg_sent : BOOLEAN, last_msg_read : BOOLEAN,
     last_msg_observer : BOOLEAN,
     hvml_observers : SUBSET Observer,
     wait : Crtn \cup {None, "reply"},
     tasks : Nat,
     curator : Crtn \cup {None}]

TypeOK ==
    /\ co \in [Crtn -> Coroutines]
    /\ mq \in [Crtn -> Seq(Messages)]
    /\ told \in [Crtn -> Seq(Notes)]

\* coroutine_create and init_frame_for_co.
Created(parent) ==
    [state |-> "READY", stage |-> "FIRST_RUN",
     exited |-> FALSE, except |-> FALSE, failed |-> FALSE,
     last_msg_sent |-> FALSE, last_msg_read |-> FALSE,
     last_msg_observer |-> TRUE,
     hvml_observers |-> {}, wait |-> None, tasks |-> 0, curator |-> parent]

Init ==
    /\ co = [c \in Crtn |-> IF c = Main THEN Created(None)
                            ELSE [Created(None) EXCEPT !.state = "NEW"]]
    /\ mq = [c \in Crtn |-> <<>>]
    /\ told = [c \in Crtn |-> <<>>]

\* pcintr_is_crtn_exists
Exists(c) == c \in Crtn /\ co[c].state \notin {"NEW", "GONE"}

-----------------------------------------------------------------------------
(* pcintr_check_after_execution_full, when only the <hvml> frame is left. *)

Exits(r) == r.exited \/ r.except

\* Variant with a fault: the state stays OBSERVING.
AfterRunObserving(r) ==
    LET left == IF Exits(r) THEN {} ELSE r.hvml_observers
    IN [r EXCEPT !.stage = "OBSERVING",
                 !.state = "OBSERVING",
                 !.except = FALSE,
                 !.failed = @ \/ r.except,
                 !.hvml_observers = left,
                 !.exited = Exits(r) \/ left = {},
                 !.last_msg_sent = @ \/ left = {}]

\* What becomes of the coroutine.  An exit revokes its observers, and without
\* observers it exits; error_except may be set only once (PC_ASSERT).
AfterRun(r) ==
    LET left == IF Exits(r) THEN {} ELSE r.hvml_observers
    IN [r EXCEPT !.stage = "OBSERVING",
                 !.state = IF r.except /\ r.failed THEN "BROKEN"
                           ELSE IF Exits(r) THEN "EXITED" ELSE "OBSERVING",
                 !.except = FALSE,
                 !.failed = @ \/ r.except,
                 !.hvml_observers = left,
                 !.exited = Exits(r) \/ left = {},
                 !.last_msg_sent = @ \/ left = {}]

\* Variant with a fault: every run is announced.
NotesEveryRun(r) ==
    <<"observing">>
      \o IF r.last_msg_read
         THEN <<IF r.failed \/ r.except THEN "except" ELSE "success", "exited">>
         ELSE <<>>

\* What it posts to its curator: the first time that it observes, and its end.
NotesAfterRun(r) ==
    (IF r.stage # "OBSERVING" THEN <<"observing">> ELSE <<>>)
      \o IF r.last_msg_read
         THEN <<IF r.failed \/ r.except THEN "except" ELSE "success", "exited">>
         ELSE <<>>

\* Variant with a fault: the last message is sent after every run.
SendsLastAgain(r) == AfterRun(r).last_msg_sent /\ ~r.last_msg_read

\* What it posts to itself.
SendsLast(r) == AfterRun(r).last_msg_sent /\ ~r.last_msg_sent

LastMsg == [name |-> "lastMsg", from |-> None]

\* Variant with a fault: stopped coroutines are not searched for the target.
PostAllRunning(c, own, notes) ==
    LET d == co[c].curator
        sent == IF Exists(d) THEN notes ELSE <<>>
        msgs == [i \in 1 .. Len(sent) |-> [name |-> sent[i], from |-> c]]
    IN /\ mq' = [x \in Crtn |->
                    CASE x = c -> own
                      [] x = d /\ x # c /\ co[x].state # "STOPPED" -> mq[x] \o msgs
                      [] OTHER -> mq[x]]
       /\ told' = [told EXCEPT ![c] = @ \o sent]

\* mq[c] becomes own, and c posts notes to its curator if that one exists.
PostAll(c, own, notes) ==
    LET d == co[c].curator
        sent == IF Exists(d) THEN notes ELSE <<>>
        msgs == [i \in 1 .. Len(sent) |-> [name |-> sent[i], from |-> c]]
    IN /\ mq' = [x \in Crtn |-> CASE x = c -> own
                                  [] x = d /\ x # c -> mq[x] \o msgs
                                  [] OTHER -> mq[x]]
       /\ told' = [told EXCEPT ![c] = @ \o sent]

-----------------------------------------------------------------------------
(* What a script does during a run. *)

\* on_select_child takes no child once the coroutine exited, and elements do
\* nothing while an exception is pending.
Runs(c) == co[c].state = "READY" /\ ~co[c].exited /\ ~co[c].except

Becomes(c, r) == co' = [co EXCEPT ![c] = r] /\ UNCHANGED <<mq, told>>

\* <observe>
pcintr_register_observer(c, o) ==
    /\ Runs(c)
    /\ o \notin co[c].hvml_observers
    /\ Becomes(c, [co[c] EXCEPT !.hvml_observers = @ \cup {o}])

\* <forget>, which revokes all observers for the messages with key k: those of
\* the script and the inner ones, of which a running coroutine has one.
pcintr_revoke_observer_ex(c, k) ==
    /\ Runs(c)
    /\ Becomes(c, [co[c] EXCEPT !.hvml_observers = {o \in @ : o[1] # k},
                                !.last_msg_observer = @ /\ k # "lastMsg"])

\* <exit>
pcintr_set_exit(c) == Runs(c) /\ Becomes(c, [co[c] EXCEPT !.exited = TRUE])

\* An error that no <catch> takes.  Frames that are popped because of an exit
\* can raise one too.
Raise(c) ==
    /\ co[c].state = "READY" /\ ~co[c].except
    /\ Becomes(c, [co[c] EXCEPT !.except = TRUE])

\* <call> of a concurrent operation group, or <load>: a coroutine with c as
\* its curator is scheduled; a synchronous one is waited for.
pcintr_schedule_child_co(c, d, synchronously) ==
    /\ Runs(c)
    /\ co[d].state = "NEW"
    /\ co' = [co EXCEPT ![d] = Created(c),
                        ![c].state = IF synchronously THEN "STOPPED" ELSE @,
                        ![c].wait = IF synchronously THEN d ELSE @]
    /\ UNCHANGED <<mq, told>>

\* pcintr_yield, by an element that waits for a fetcher, a renderer or a timer.
pcintr_yield(c) ==
    /\ Runs(c)
    /\ Becomes(c, [co[c] EXCEPT !.state = "STOPPED", !.wait = "reply"])

\* The run is over.
Finish(c) ==
    /\ co[c].state = "READY"
    /\ co' = [co EXCEPT ![c] = AfterRun(co[c])]
    /\ PostAll(c, IF SendsLast(co[c]) THEN Append(mq[c], LastMsg) ELSE mq[c],
               NotesAfterRun(co[c]))

-----------------------------------------------------------------------------
(* Messages from outside. *)

\* The answer to pcintr_yield.
Reply(c) ==
    /\ co[c].wait = "reply"
    /\ \A i \in 1 .. Len(mq[c]) : mq[c][i].name # "reply"
    /\ mq' = [mq EXCEPT ![c] = Append(@, [name |-> "reply", from |-> None])]
    /\ UNCHANGED <<co, told>>

pcintr_post_event(c, e) ==
    /\ Exists(c) /\ Len(mq[c]) < MaxQueue /\ co[c].tasks < MaxTasks
    /\ mq' = [mq EXCEPT ![c] = Append(@, [name |-> e, from |-> None])]
    /\ UNCHANGED <<co, told>>

-----------------------------------------------------------------------------
(* handle_coroutine_event *)

Key(m) == CASE m.name \in {"success", "except"} -> "callState"
            [] m.name \in {"observing", "exited"} -> "corState"
            [] OTHER -> m.name

\* An exited coroutine throws away callState and corState messages at the head
\* of its queue.
Ignored(m) == Key(m) \in {"callState", "corState"}
Pending(r, q) ==
    LET keep == {i \in 1 .. Len(q) : ~(r.exited /\ Ignored(q[i]))}
    IN IF keep = {} THEN <<>> ELSE SubSeq(q, Min(keep), Len(q))

\* The inner observers: the one of the last message, which is removed when it
\* has been used, and the one of pcintr_yield.
LastMatch(r, m) == m.name = "lastMsg" /\ r.last_msg_observer

\* Variant with a fault: the last message is not read once EXITED.
LastHandledObserving(r, m) == LastMatch(r, m) /\ r.state = "OBSERVING"

LastHandled(r, m) == LastMatch(r, m) /\ r.state \in {"OBSERVING", "EXITED"}

WaitMatch(r, m) ==
    \/ r.wait = "reply" /\ m.name = "reply"
    \/ r.wait \in Crtn /\ m.from = r.wait /\ Key(m) = "callState"

WaitHandled(r, m) == WaitMatch(r, m) /\ r.state = "STOPPED"

\* last_msg_observer_handle, before the frame is checked.
Reads(r) == [r EXCEPT !.last_msg_read = TRUE, !.last_msg_observer = FALSE]

\* The coroutine after the inner observers, given whether a failed call is
\* caught by the script.
AfterInner(r, m, caught) ==
    IF LastHandled(r, m) THEN AfterRun(Reads(r))
    ELSE IF WaitHandled(r, m)
         THEN [r EXCEPT !.state = "READY", !.wait = None,
                        !.except = m.name = "except" /\ ~caught]
         ELSE r

\* The observers of the script, which need a coroutine that observes.
Watching(r) == r.stage = "OBSERVING" /\ r.state = "OBSERVING"
Hits(r, m)  == {o \in r.hvml_observers : o[1] = Key(m)}

\* Variant with a fault: the last task stays in the list.
StartTaskIfMany(r) ==
    IF r.tasks > 1 /\ Watching(r)
    THEN [r EXCEPT !.tasks = @ - 1, !.state = "READY"]
    ELSE r

\* pcintr_handle_task, for the first task.
StartTask(r) ==
    IF r.tasks > 0 /\ Watching(r)
    THEN [r EXCEPT !.tasks = @ - 1, !.state = "READY"]
    ELSE r

\* Variant with a fault: a message that has to wait is put back at the head.
PutBackFirst(q, m) == <<m>> \o q

\* A message that an observer matches but cannot handle now goes to the tail.
PutBack(q, m) == Append(q, m)

\* pcintr_run_exiting_co, after the events of every coroutine.
Dies(r) == r.exited /\ r.last_msg_read
AfterExiting(r) ==
    IF ~Dies(r) THEN r
    ELSE [r EXCEPT !.state = IF @ \in {"READY", "EXITED"} THEN "GONE"
                                                          ELSE "BROKEN",
                   !.tasks = 0]

\* The coroutine after its observers have taken m, and one task was started.
AfterScript(r, m) ==
    IF Watching(r)
    THEN StartTask([r EXCEPT !.tasks = @ + Cardinality(Hits(r, m))])
    ELSE StartTask(r)

\* One turn with message m at the head of q: in is the coroutine after the
\* inner observers, out after those of the script.
HandleMessage(c, q, m, caught) ==
    \E in \in {AfterInner(co[c], m, caught)} :
    \E out \in {AfterScript(in, m)} :
        LET r     == co[c]
            hit   == Hits(in, m)
            done  == LastHandled(r, m) \/ WaitHandled(r, m)
                       \/ (hit # {} /\ Watching(in))
            match == LastMatch(r, m) \/ WaitMatch(r, m) \/ hit # {}
            rest  == IF ~done /\ match THEN PutBack(Tail(q), m) ELSE Tail(q)
            notes == IF LastHandled(r, m) THEN NotesAfterRun(Reads(r)) ELSE <<>>
        IN /\ co' = [co EXCEPT ![c] = AfterExiting(out)]
           /\ PostAll(c, IF Dies(out) THEN <<>> ELSE rest,
                      notes \o IF Dies(out) THEN <<"subExit">> ELSE <<>>)

handle_coroutine_event(c) ==
    \E q \in {Pending(co[c], mq[c])} :
       /\ co[c].state \in {"STOPPED", "OBSERVING", "EXITED"}
       /\ \/ /\ q # <<>>
             /\ \E caught \in BOOLEAN : HandleMessage(c, q, Head(q), caught)
          \/ /\ q = <<>>
             /\ mq[c] # <<>> \/ StartTask(co[c]) # co[c]
             /\ co' = [co EXCEPT ![c] = StartTask(@)]
             /\ mq' = [mq EXCEPT ![c] = <<>>]
             /\ UNCHANGED told

-----------------------------------------------------------------------------
Script(c) ==
    \/ \E o \in Observer : pcintr_register_observer(c, o)
    \/ \E k \in Forgettable : pcintr_revoke_observer_ex(c, k)
    \/ pcintr_set_exit(c)
    \/ Raise(c)
    \/ \E d \in Crtn, sync \in BOOLEAN : pcintr_schedule_child_co(c, d, sync)
    \/ pcintr_yield(c)

Next == \E c \in Crtn :
    \/ Script(c)
    \/ Finish(c)
    \/ Reply(c)
    \/ \E e \in Event : pcintr_post_event(c, e)
    \/ handle_coroutine_event(c)

Spec == Init /\ [][Next]_vars

\* Every pass of the scheduler gives every coroutine its turn: a step if it is
\* ready, an event otherwise.  A script may run for ever; an exited coroutine
\* only pops its frames, so its run ends.
Fairness == \A c \in Crtn :
    WF_vars(handle_coroutine_event(c) \/ (co[c].exited /\ Finish(c)))

FairSpec == Spec /\ Fairness

-----------------------------------------------------------------------------
(* Properties. *)

\* No assertion of the exit path fails: pcintr_run_exiting_co never meets a
\* coroutine that runs, waits or observes, and error_except is set only once.
NoAssertFails == \A c \in Crtn : co[c].state # "BROKEN"

\* The last message is never duplicated, and not lost either while it has its
\* observer, however often it is put back: it is in the queue exactly from the
\* moment it was sent to the moment it is read.
LastMsgOnce ==
    \A c \in Crtn : Exists(c) =>
        LET n == Cardinality({i \in 1 .. Len(mq[c]) : mq[c][i].name = "lastMsg"})
        IN /\ n > 0 => n = 1 /\ co[c].last_msg_sent /\ ~co[c].last_msg_read
           /\ co[c].last_msg_sent /\ co[c].last_msg_observer => n = 1

\* A curator hears of the life of its child in order and once each: that it
\* observes, its result, that it exited, that it is gone.  The story can only
\* end early, because the curator went first.
ToldInOrder ==
    \A c \in Crtn :
        IsPrefix(told[c], <<"observing",
                            IF co[c].failed THEN "except" ELSE "success",
                            "exited", "subExit">>)

\* A caller that waits for a child that is gone has the answer in its queue:
\* no synchronous call is left without an answer.
CallAnswered ==
    \A c \in Crtn : co[c].wait \in Crtn /\ co[co[c].wait].state = "GONE" =>
        \E i \in 1 .. Len(mq[c]) : WaitMatch(co[c], mq[c][i])

\* A synchronous caller runs again when its child has ended, whatever other
\* messages are in its queue and have to wait for it.
CallReturns ==
    \A c \in Crtn : (co[c].wait \in Crtn /\ co[co[c].wait].state = "GONE")
                       ~> co[c].wait = None

\* A coroutine whose last message nobody will read: the script has forgotten it.
Forgotten(c) == ~co[c].last_msg_observer /\ ~co[c].last_msg_read

\* A coroutine that exits is destroyed, unless its script forgot lastMsg and so
\* removed the inner observer that has it destroyed.
ExitedIsDestroyed ==
    \A c \in Crtn : co[c].exited ~> co[c].state = "GONE" \/ Forgotten(c)

\* A task does not wait for ever while the coroutine observes.
TasksStart ==
    \A c \in Crtn : (co[c].tasks > 0 /\ co[c].state = "OBSERVING")
                       ~> co[c].state # "OBSERVING"
=============================================================================
