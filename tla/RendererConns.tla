--------------------------- MODULE RendererConns ---------------------------
(***************************************************************************)
(* The connections of an instance to renderers (pcrdr/pcrdr.c, with the    *)
(* parts of interpreter/scheduler.c, interpreter/interpreter.c and of      *)
(* dvobjs/rdr.c that open, use and close them).                            *)
(*                                                                         *)
(* An instance has one main connection and may have duplicates.  Renderers *)
(* are connected to and revoked by HVML programs; a renderer may ask the   *)
(* instance to duplicate to, or to switch to, another one; and it may go   *)
(* away.  Every coroutine has an entry for every connection it shows its   *)
(* page on.  The pointers to a connection (three lists, three pointers in  *)
(* the instance, the entries of the coroutines, the two pointers of the    *)
(* loop that walks the lists) must all let go of it when it is freed.      *)
(*                                                                         *)
(* One thread does all this; a step is a call of a program, the cleaning at*)
(* the top of pcintr_schedule, or what one connection of the loop brings.  *)
(* (What arrives while a step waits for the answer of a new renderer is not*)
(* modelled here; Requests has the nesting of waits.)  In some situations  *)
(* the code goes wrong at once or shortly after.  Each of them has a name; *)
(* the model records it in slips and stops there, and the invariants say   *)
(* what holds unless one of them occurred.                                 *)
(***************************************************************************)
EXTENDS Integers, Sequences, FiniteSets, SequencesExt, FiniteSetsExt, Lists

CONSTANTS Conn,    \* bound: the connections opened in all, a set of numbers
          Crtn,    \* the coroutines
          Parent,  \* the coroutine whose page each inherits, or Null
          Null,    \* the null pointer
          Wild,    \* what list_first_entry returns for an empty list
          End      \* the head of a list, where a walk through it ends

ASSUME ConnsAssumption ==
    /\ Conn \subseteq Nat /\ Conn # {} /\ IsFiniteSet(Conn)
    /\ Parent \in [Crtn -> Crtn \cup {Null}]
    /\ {Null, Wild, End} \cap (Conn \cup Crtn) = {}
    /\ Null # Wild /\ Null # End /\ Wild # End

VARIABLES
    inst,      \* struct pcinst: conns, pending_conns, ready_to_close_conns,
               \* conn_to_rdr (main), conn_to_rdr_origin and curr_conn
    mem,       \* each connection: "none", "open", "bare" (opened by
               \* $RDR.connect), "freed" or "cut" (freed by a $RDR call)
    late,      \* connections whose async_close_expected has passed
    stuck,     \* pending connections whose startSession was refused
    crtns,     \* heap->crtns
    stopped,   \* heap->stopped_crtns
    att,       \* the connections each coroutine has an entry for
    phase,     \* where pcintr_schedule is
    cur, next, \* the two pointers of its walk through a list of connections
    news,      \* the rdrState event the last step has broadcast
    slips      \* what has gone wrong

heap == <<crtns, stopped, att>>
pass == <<phase, cur, next>>
env  == <<late, stuck>>
vars == <<inst, mem, env, heap, pass, news, slips>>

Slips == {"no renderer left",    \* main and curr_conn became wild
          "late refusal",        \* a switch failed after it took effect
          "origin overwritten",  \* a switch before the last one was cleaned up
          "pending main",        \* main became one that is not in conns
          "no main",             \* a switch dereferenced a null main
          "unlisted main",       \* $RDR.connect failed after setting main
          "page refused",        \* attaching stopped at a coroutine
          "child first",         \* a child was attached before its parent
          "parent unattached",   \* a child inherits from no entry
          "current closed",      \* curr_conn was closed as refused
          "next unlinked",       \* the walk lost its next connection
          "null uid"}            \* strcmp with a connection that has no uid

Phases == {"clean", "steps", "pending", "conns", "events", "done"}
News == {"none", "newDuplicate", "newRenderer", "lostDuplicate", "connLost"}
Entry == Conn \cup {Null, Wild}

TypeOK ==
    /\ inst \in [conns : Seq(Conn), pending : Seq(Conn), closing : Seq(Conn),
                 main : Entry, curr : Entry, origin : Entry]
    /\ mem \in [Conn -> {"none", "open", "bare", "freed", "cut"}]
    /\ late \subseteq Conn /\ stuck \subseteq Conn
    /\ crtns \in Seq(Crtn) /\ stopped \in Seq(Crtn)
    /\ att \in [Crtn -> SUBSET Conn]
    /\ phase \in Phases
    /\ cur \in Conn \cup {End} /\ next \in Conn \cup {End}
    /\ news \in News
    /\ slips \subseteq Slips

Fresh == {k \in Conn : mem[k] = "none"}
Alive == ToSet(crtns) \cup ToSet(stopped)

\* The coroutines in the order in which attach_renderer goes through them.
Order == crtns \o stopped

\* _init_instance: an instance starts with one connection.
Init ==
    LET k == Min(Conn)
    IN /\ inst = [conns |-> <<k>>, pending |-> <<>>, closing |-> <<>>,
                  main |-> k, curr |-> k, origin |-> Null]
       /\ mem = [[q \in Conn |-> "none"] EXCEPT ![k] = "open"]
       /\ late = {} /\ stuck = {}
       /\ crtns = <<>> /\ stopped = <<>> /\ att = [c \in Crtn |-> {}]
       /\ phase = "clean" /\ cur = End /\ next = End
       /\ news = "none" /\ slips = {}

-----------------------------------------------------------------------------
(* Operators on the instance. *)

\* list_first_entry, for a list that may be empty.
FirstEntry(s) == IF s = <<>> THEN Wild ELSE Head(s)

\* A new connection becomes main, and current, if there is none.
Adopt(i, n) == [i EXCEPT !.main = IF @ = Null THEN n ELSE @,
                         !.curr = IF @ = Null THEN n ELSE @]

\* The end of connect_to_renderer.
AddConn(i, n) == Adopt([i EXCEPT !.conns = Append(@, n)], n)

\* Variant with a fault: the first connection is unlinked as well.
ForgetFirst(i, k) ==
    LET m == IF i.main = k THEN Null ELSE i.main
        c == IF i.curr = k THEN Null ELSE i.curr
        s == Without(i.conns, {k})
        f == FirstEntry(s)
    IN [i EXCEPT !.conns = IF s = <<>> THEN s ELSE Tail(s), !.pending = Without(@, {k}),
                 !.main = IF m # Null THEN m ELSE IF c # Null THEN c ELSE f,
                 !.curr = IF m = Null /\ c = Null THEN f ELSE c]

\* A connection leaves its list; if it was main, the current one, or else the
\* first of the list, becomes main ("choose main conn").
Forget(i, k) ==
    LET m == IF i.main = k THEN Null ELSE i.main
        c == IF i.curr = k THEN Null ELSE i.curr
        f == FirstEntry(Without(i.conns, {k}))
    IN [i EXCEPT !.conns = Without(@, {k}), !.pending = Without(@, {k}),
                 !.main = IF m # Null THEN m ELSE IF c # Null THEN c ELSE f,
                 !.curr = IF m = Null /\ c = Null THEN f ELSE c]

\* What goes wrong when main is chosen so: the list was empty, or the current
\* connection is pending, or was rejected.
MainLost(i) == CASE i.main = Wild -> {"no renderer left"}
                 [] i.main \notin ToSet(i.conns) \cup {Null, Wild} -> {"pending main"}
                 [] OTHER -> {}

\* Variant with a fault: curr_conn stays at the origin.
InstallMain(i, n) ==
    [i EXCEPT !.origin = i.main,
              !.conns = Append(Without(@, {i.main}), n),
              !.main = n]

\* pcrdr_switch_renderer, "end origin session".
Install(i, n) ==
    [i EXCEPT !.origin = i.main,
              !.conns = Append(Without(@, {i.main}), n),
              !.main = n,
              !.curr = IF @ = i.main THEN n ELSE @]

\* A response handler moves a pending connection to those to be closed.
Refuse(i, k) == [i EXCEPT !.pending = Without(@, {k}), !.closing = Append(@, k)]

-----------------------------------------------------------------------------
(* Coroutines and connections. *)

Inherits(c) == Parent[c] # Null /\ Parent[c] \in Alive

\* pcintr_attach_renderer(new_conn, conn_to_close): the coroutines, in order,
\* lose their entry for the old connection and get one for the new.  One that
\* inherits its page takes the entry of its parent, which must have one by then;
\* for another the renderer makes and loads a page, or refuses, which ends the
\* loop.
ChildFirst == \E i, j \in 1 .. Len(Order) : i < j /\ Parent[Order[i]] = Order[j]

AttachTo(n, old, done) ==
    [c \in Crtn |->
        CASE \E i \in 1 .. done : Order[i] = c -> (att[c] \ {old}) \cup {n}
          [] done < Len(Order) /\ Order[done + 1] = c -> att[c] \ {old}
          [] OTHER -> att[c]]

pcintr_attach_renderer(n, old, oops) ==
    \/ /\ ~ ChildFirst
       /\ att' = AttachTo(n, old, Len(Order))
       /\ oops = {}
    \/ /\ ChildFirst
       /\ att' = att
       /\ oops = {"child first"}
    \/ \E i \in 1 .. Len(Order) :
          /\ ~ ChildFirst /\ ~ Inherits(Order[i])
          /\ att' \in {AttachTo(n, old, i - 1), AttachTo(n, old, i)}
          /\ oops = {"page refused"}

Attaching == {{}, {"child first"}, {"page refused"}}

\* Variant with a fault: the stopped coroutines keep their entries.
DetachReady(k) == [c \in Crtn |-> IF c \in ToSet(crtns) THEN att[c] \ {k} ELSE att[c]]

\* pcintr_detach_renderer.
Detached(k) == [c \in Crtn |-> att[c] \ {k}]

Open(n, as) == mem' = [mem EXCEPT ![n] = as]
Free(K, as) == mem' = [k \in Conn |-> IF k \in K THEN as ELSE mem[k]]

\* A connection is unlinked, freed and forgotten, by handle_rdr_conn_lost and by
\* purc_disconnect_from_renderer.
DropConn(k) ==
    /\ att' = Detached(k)
    /\ Free({k}, "freed")
    /\ inst' = Forget(inst, k)
    /\ stuck' = stuck \ {k} /\ late' = late

-----------------------------------------------------------------------------
(* What programs do, in execute_one_step.  Coroutines are also resumed and
   destroyed when their events are handled, after a walk. *)

InSteps == phase = "steps" /\ slips = {}
Handling == phase \in {"steps", "events"} /\ slips = {}

\* pcintr_stop_coroutine and pcintr_resume_coroutine.
Stop(c) == /\ InSteps /\ c \in ToSet(crtns)
           /\ crtns' = Without(crtns, {c}) /\ stopped' = Append(stopped, c)
           /\ news' = "none" /\ UNCHANGED <<inst, mem, env, att, pass, slips>>

Resume(c) == /\ Handling /\ c \in ToSet(stopped)
             /\ stopped' = Without(stopped, {c}) /\ crtns' = Append(crtns, c)
             /\ news' = "none" /\ UNCHANGED <<inst, mem, env, att, pass, slips>>

\* Variant with a fault: the new coroutine has an entry for main only.
ScheduleOnMain(c) ==
    /\ InSteps /\ c \notin Alive
    /\ inst.main # Null
    /\ att' = [att EXCEPT ![c] = {inst.main}]
    /\ slips' = slips
    /\ crtns' = Append(crtns, c)
    /\ news' = "none" /\ UNCHANGED <<inst, mem, env, stopped, pass>>

\* purc_schedule_vdom: entries for main and for every other connection.  A
\* renderer may refuse the page; if that is the main one, or there is none, the
\* coroutine has no page anywhere.  (Every coroutine here is to have a page.)
purc_schedule_vdom(c) ==
    LET all == ToSet(inst.conns) \cup {inst.main}
        inherited == Inherits(c) => all \subseteq att[Parent[c]]
    IN /\ InSteps /\ c \notin Alive
       /\ \/ /\ inherited /\ inst.main # Null
             /\ att' = [att EXCEPT ![c] = all]
             /\ slips' = slips
          \/ /\ ~ inherited
             /\ att' = att
             /\ slips' = {"parent unattached"}
          \/ \E K \in SUBSET (all \ {inst.main}) :
                /\ ~ Inherits(c) /\ K # {} /\ inst.main # Null
                /\ att' = [att EXCEPT ![c] = all \ K]
                /\ slips' = {"page refused"}
          \/ /\ ~ Inherits(c)
             /\ att' = [att EXCEPT ![c] = {inst.main} \ {Null}]
             /\ slips' = {"page refused"}
       /\ crtns' = Append(crtns, c)
       /\ news' = "none" /\ UNCHANGED <<inst, mem, env, stopped, pass>>

\* coroutine_destroy.
coroutine_destroy(c) ==
    /\ Handling /\ c \in ToSet(crtns)
    /\ crtns' = Without(crtns, {c})
    /\ att' = [att EXCEPT ![c] = {}]
    /\ news' = "none" /\ UNCHANGED <<inst, mem, env, stopped, pass, slips>>

\* $RUNNER.connRenderer.
purc_connect_to_renderer(n) ==
    /\ InSteps /\ n \in Fresh
    /\ Open(n, "open")
    /\ inst' = AddConn(inst, n)
    /\ slips' \in Attaching /\ pcintr_attach_renderer(n, Null, slips')
    /\ news' = "newDuplicate"
    /\ UNCHANGED <<env, crtns, stopped, pass>>

\* $RUNNER.disconnRenderer.  The list is searched for the uid of k with strcmp;
\* a connection that $RDR.connect opened has none.
SearchFails(k) == \E i, j \in 1 .. Len(inst.conns) :
    i <= j /\ mem[inst.conns[i]] = "bare" /\ inst.conns[j] = k

purc_disconnect_from_renderer(k) ==
    /\ InSteps /\ k \in ToSet(inst.conns)
    /\ \/ /\ ~ SearchFails(k)
          /\ DropConn(k)
          /\ slips' = MainLost(inst')
          /\ news' = "lostDuplicate"
       \/ /\ SearchFails(k)
          /\ UNCHANGED <<inst, mem, env, att>>
          /\ slips' = {"null uid"}
          /\ news' = "none"
    /\ UNCHANGED <<crtns, stopped, pass>>

\* The main connection is closed by $RDR.disconnect, and by $RDR.connect
\* before it opens another (if it can open none, that is all); the coroutines
\* keep their entries.
CutMain(i) == [i EXCEPT !.conns = Without(@, {i.main}),
                        !.curr = IF @ = i.main THEN Null ELSE @,
                        !.main = Null]

disconnect_getter ==
    /\ InSteps /\ inst.main # Null
    /\ Free({inst.main}, "cut")
    /\ inst' = CutMain(inst)
    /\ news' = "none" /\ UNCHANGED <<env, heap, pass, slips>>

connect_getter(n) ==
    /\ InSteps /\ n \in Fresh
    /\ mem' = [k \in Conn |-> CASE k = n -> "bare" [] k = inst.main -> "cut"
                                [] OTHER -> mem[k]]
    /\ \/ /\ inst' = AddConn(CutMain(inst), n)
          /\ slips' = slips
       \/ /\ inst' = [CutMain(inst) EXCEPT !.main = n]   \* no capabilities
          /\ slips' = {"unlisted main"}
    /\ news' = "none" /\ UNCHANGED <<env, heap, pass>>

-----------------------------------------------------------------------------
(* The scheduler: cleaning, and the walk through the connections. *)

\* The comparison with async_close_expected, as the code makes it: a connection
\* is closed at once, and not any more when its deadline has passed.
ToClose(k) == k \notin late

\* The top of pcintr_schedule.
Clean ==
    LET K == ({inst.origin} \ {Null})
                \cup {k \in ToSet(inst.closing) : ToClose(k)}
    IN /\ phase = "clean" /\ slips = {}
       /\ phase' = "steps"
       /\ Free(K, "freed")
       /\ inst' = [inst EXCEPT !.origin = Null,
                               !.closing = Without(@, K)]
       /\ slips' = IF inst.curr \in K \ {inst.origin} THEN {"current closed"} ELSE {}
       /\ news' = "none" /\ UNCHANGED <<env, heap, cur, next>>

\* The connection after k in list s: list_entry(k->ln.next).
After(s, k) == LET i == CHOOSE j \in 1 .. Len(s) : s[j] = k
               IN IF i = Len(s) THEN End ELSE s[i + 1]

\* list_for_each_entry_safe begins a walk through s.
Begin(s, p) ==
    /\ phase' = p
    /\ cur' = IF s = <<>> THEN End ELSE Head(s)
    /\ next' = IF s = <<>> THEN End ELSE After(s, Head(s))

\* check_and_dispatch_event_from_conn walks through the pending connections,
\* then through the others; dispatch_event repeats it while events arrive.
Walk ==
    /\ slips = {}
    /\ \/ phase \in {"steps", "events"} /\ Begin(inst.pending, "pending")
       \/ phase = "pending" /\ cur = End /\ Begin(inst.conns, "conns")
       \/ phase = "conns" /\ cur = End /\ phase' = "events" /\ UNCHANGED <<cur, next>>
       \/ phase = "events" /\ phase' = "clean" /\ UNCHANGED <<cur, next>>
    /\ news' = "none" /\ UNCHANGED <<inst, mem, env, heap, slips>>

\* The walk goes on after its body: cur moves to the connection saved in next.
\* One that has left the list by then has null links.
Listed(i) == IF phase = "pending" THEN i.pending ELSE i.conns

Step(oops) ==
    LET s == Listed(inst')
    IN /\ cur' = next
       /\ next' = IF next \in ToSet(s) THEN After(s, next) ELSE End
       /\ slips' = oops \cup IF next \in ToSet(s) \cup {End} THEN {}
                            ELSE {"next unlinked"}
       /\ phase' = phase

Serving(k) == phase \in {"pending", "conns"} /\ cur = k /\ slips = {}

\* Nothing that matters here arrives from k.
Quiet(k) == /\ Serving(k)
            /\ UNCHANGED inst /\ Step({})
            /\ news' = "none" /\ UNCHANGED <<mem, env, heap>>

\* update_current_conn: a connection becomes current with any event but idle.
Event(k) == /\ Serving(k)
            /\ inst' = [inst EXCEPT !.curr = k] /\ Step({})
            /\ news' = "none" /\ UNCHANGED <<mem, env, heap>>

\* connect_to_renderer_response_handler, for startSession of a pending
\* connection: time out or conflict; refused for another reason (or the
\* requests that follow fail), which leaves it where it is; accepted.
Answers(k) == Serving(k) /\ phase = "pending" /\ k \notin stuck

Rejected(k) ==
    /\ Answers(k)
    /\ inst' = Refuse(inst, k) /\ Step({})
    /\ news' = "none" /\ UNCHANGED <<mem, env, heap>>

Refused(k) ==
    /\ Answers(k)
    /\ stuck' = stuck \cup {k}
    /\ UNCHANGED inst /\ Step({})
    /\ news' = "none" /\ UNCHANGED <<mem, late, heap>>

\* Variant with a fault: the connection stays in the list of pending ones.
AcceptPending(i, k) == AddConn(i, k)

Accept(i, k) == AddConn([i EXCEPT !.pending = Without(@, {k})], k)

Accepted(k) ==
    /\ Answers(k)
    /\ inst' = Accept(inst, k)
    /\ \E oops \in Attaching : pcintr_attach_renderer(k, Null, oops) /\ Step(oops)
    /\ news' = "newDuplicate"
    /\ UNCHANGED <<mem, env, crtns, stopped>>

\* Event dupRenderer: connect_to_renderer_async to another renderer.
purc_connect_to_renderer_async(k, n) ==
    /\ Serving(k) /\ n \in Fresh
    /\ Open(n, "open")
    /\ inst' = [inst EXCEPT !.curr = k, !.pending = Append(@, n)]
    /\ Step({})
    /\ news' = "none" /\ UNCHANGED <<env, heap>>

\* Event newRenderer: pcrdr_switch_renderer.  The new renderer may refuse a
\* request that follows the installation, which frees the new connection.
pcrdr_switch_renderer(k, n) ==
    LET i == [inst EXCEPT !.curr = k]
    IN /\ Serving(k) /\ n \in Fresh
       /\ inst' = IF inst.main = Null THEN i ELSE Install(i, n)
       /\ \/ /\ inst.main # Null
             /\ Open(n, "open")
             /\ \E oops \in Attaching :
                   /\ pcintr_attach_renderer(n, inst.main, oops)
                   /\ Step(oops \cup IF inst.origin = Null THEN {}
                                     ELSE {"origin overwritten"})
             /\ news' = "newRenderer"
          \/ /\ inst.main # Null
             /\ Open(n, "freed")
             /\ att' = att /\ Step({"late refusal"})
             /\ news' = "none"
          \/ /\ inst.main = Null
             /\ mem' = mem /\ att' = att /\ Step({"no main"})
             /\ news' = "none"
       /\ UNCHANGED <<env, crtns, stopped>>

\* The event that handle_rdr_conn_lost broadcasts: the list is inspected before
\* the connection is taken out of it.
EventOfLoss(k) == IF inst.conns = <<>> THEN "connLost" ELSE "lostDuplicate"

\* handle_rdr_conn_lost, when the last error is one of a lost connection: the
\* peer of k has gone, or a switch asked for by k failed with such an error.
handle_rdr_conn_lost(k) ==
    /\ Serving(k)
    /\ DropConn(k)
    /\ Step(MainLost(inst'))
    /\ news' = EventOfLoss(k)
    /\ UNCHANGED <<crtns, stopped>>

\* _cleanup_instance, when the scheduler will not run again.
_cleanup_instance ==
    /\ phase = "clean" /\ slips = {}
    /\ phase' = "done"
    /\ Free(ToSet(inst.conns) \cup ToSet(inst.pending) \cup ToSet(inst.closing), "freed")
    /\ inst' = [inst EXCEPT !.conns = <<>>, !.pending = <<>>, !.closing = <<>>,
                            !.main = Null,
                            !.curr = IF @ \in ToSet(inst.conns) THEN Null ELSE @]
    /\ UNCHANGED <<env, heap, cur, next, news, slips>>

\* The clock passes async_close_expected.
TimePasses(k) == /\ k \in ToSet(inst.closing) \ late
                 /\ late' = late \cup {k}
                 /\ news' = "none" /\ UNCHANGED <<inst, mem, stuck, heap, pass, slips>>

Programs ==
    \/ \E c \in Crtn : \/ Stop(c) \/ Resume(c) \/ purc_schedule_vdom(c)
                       \/ coroutine_destroy(c)
    \/ \E n \in Conn : /\ n = Min(Fresh \cup {n})
                       /\ purc_connect_to_renderer(n) \/ connect_getter(n)
    \/ \E k \in Conn : purc_disconnect_from_renderer(k)
    \/ disconnect_getter

Serve == \E k \in Conn :
    \/ Quiet(k) \/ Event(k) \/ Rejected(k) \/ Refused(k) \/ Accepted(k)
    \/ handle_rdr_conn_lost(k)
    \/ \E n \in Conn : /\ n = Min(Fresh \cup {n})
                       /\ \/ purc_connect_to_renderer_async(k, n)
                          \/ pcrdr_switch_renderer(k, n)

Next == \/ Programs \/ Clean \/ Walk \/ Serve
        \/ _cleanup_instance
        \/ \E k \in Conn : TimePasses(k)

Spec == Init /\ [][Next]_vars

-----------------------------------------------------------------------------
Usable == {k \in Conn : mem[k] \in {"open", "bare"}}

\* Every connection that is open is in exactly one of the three lists or is the
\* origin of the last switch: none leaks, none is in two lists, and none that
\* was freed is still listed.
Owned ==
    slips \cap {"late refusal", "unlisted main", "origin overwritten"} = {} =>
       LET all == inst.conns \o inst.pending \o inst.closing
                     \o (IF inst.origin = Null THEN <<>> ELSE <<inst.origin>>)
       IN IsInjective(all) /\ ToSet(all) = Usable

\* The pointers of the instance are null or refer to open connections, and the
\* main connection is one of the list that is walked.
PointersSound ==
    slips \cap {"no renderer left", "pending main", "late refusal",
                 "unlisted main", "current closed"} = {}
       /\ phase # "done" =>
       /\ {inst.main, inst.curr, inst.origin} \subseteq Usable \cup {Null}
       /\ inst.main \in ToSet(inst.conns) \cup {Null}

\* A coroutine has entries only for connections of the list, apart from those
\* that a $RDR call closed: after a switch, a loss or a revocation nothing is
\* left of the old connection, whether the coroutine was running or stopped.
EntriesSound ==
    slips \cap {"late refusal", "page refused", "child first"} = {}
       /\ phase # "done" =>
       \A c \in Crtn : \A k \in att[c] :
          k \in ToSet(inst.conns) \/ mem[k] = "cut"

\* Whoever came first, every coroutine has an entry for every connection of the
\* list, apart from those that $RDR.connect opened.
Attached ==
    slips \cap {"late refusal", "page refused", "child first",
                 "parent unattached"} = {} =>
       \A c \in Alive : \A k \in ToSet(inst.conns) :
          mem[k] = "open" => k \in att[c]

\* While the scheduler walks through a list, connections come and go, but the
\* one it has saved as the next stays in the list, unless it is the main one
\* and the renderer at hand asks for a switch.
NextStays ==
    [][\A k \in Conn :
          phase \in {"pending", "conns"} /\ next = k /\ k \notin ToSet(Listed(inst'))
             => k = inst.main /\ k = inst'.origin]_vars

=============================================================================
