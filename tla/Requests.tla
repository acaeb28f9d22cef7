------------------------------ MODULE Requests ------------------------------
(***************************************************************************)
(* The requests an instance sends to a renderer, or to another instance,   *)
(* and the responses it gets (pcrdr/connect.c): one connection, used by    *)
(* one thread.                                                             *)
(*                                                                         *)
(* An asynchronous request leaves a handler in the list pending_requests;  *)
(* a synchronous one waits in a loop that dispatches whatever arrives, so  *)
(* the handler of a message may send requests, and wait for them, while    *)
(* another wait is under way: the calls in progress form a stack.          *)
(* Responses come from the renderer ("conn") or from the move buffer of    *)
(* the instance, the extra source of its main connection ("extra").  The   *)
(* renderer answers the requests in their order; the instances behind the  *)
(* extra source answer in any order.                                       *)
(***************************************************************************)
EXTENDS Naturals, Sequences, FiniteSets, SequencesExt, Lists

CONSTANTS Req,             \* the requests, each sent at most once
          Uses,            \* how each request may be sent: mode and source
          Other,           \* a message that is not a response; no request
          MaxDepth,        \* bound: calls in progress at once
          MaxInbox         \* bound: messages waiting to be read in a source

ASSUME RequestsAssumption ==
    /\ Other \notin Req
    /\ Uses \in [Req -> SUBSET ({"async", "sync"} \X {"conn", "extra"})]
    /\ MaxDepth \in Nat \ {0} /\ MaxInbox \in Nat

Src == {"conn", "extra"}

\* How a request can end: its response came, its time is over, the connection
\* was freed, or sending or waiting failed.
Endings == {"result", "timeout", "cancelled", "error"}

VARIABLES
    pending,   \* pending_requests, first to last
    mode,      \* how each request was sent: "no", "async" or "sync"
    via,       \* the source its response comes from
    due,       \* pending requests whose time_expected has passed
    asked,     \* the requests each source has not answered yet
    inbox,     \* the messages waiting to be read in each source
    stack,     \* the calls in progress, innermost last
    slot,      \* *response_msg of each synchronous request
    outcome,   \* what the sender was told: "none" or an ending
    lost,      \* pending requests whose response was read and thrown away
    link       \* "up", "broken" (the peer has gone) or "freed"

books == <<mode, via, asked>>
list == <<pending, due, lost>>
vars == <<list, books, inbox, stack, slot, outcome, link>>

\* A call in progress.  "wait": pcrdr_wait_response_for_specific_request;
\* "poll": pcrdr_wait_and_dispatch_message; "handler": the handler of an event
\* or of a request; "response": the response handler of a request.  The first
\* two go through the same points: the extra source, the connection, the extra
\* source again, the deadlines.
Frame(op, r) == [op |-> op, req |-> r, pc |-> "source"]
Frames == [op : {"wait", "poll", "handler", "response"}, req : Req \cup {Other},
           pc : {"source", "read", "again", "check"}]

TypeOK ==
    /\ pending \in Seq(Req) /\ stack \in Seq(Frames)
    /\ mode \in [Req -> {"no", "async", "sync"}]
    /\ via \in [Req -> Src]
    /\ due \subseteq Req /\ lost \subseteq Req
    /\ asked \in [Src -> Seq(Req)]
    /\ inbox \in [Src -> Seq(Req \cup {Other})]
    /\ slot \in [Req -> {"null", "msg", "invalid"}]
    /\ outcome \in [Req -> Endings \cup {"none"}]
    /\ link \in {"up", "broken", "freed"}

Init ==
    /\ pending = <<>> /\ stack = <<>>
    /\ mode = [r \in Req |-> "no"]
    /\ via = [r \in Req |-> "conn"]
    /\ due = {} /\ lost = {}
    /\ asked = [s \in Src |-> <<>>] /\ inbox = [s \in Src |-> <<>>]
    /\ slot = [r \in Req |-> "null"]
    /\ outcome = [r \in Req |-> "none"]
    /\ link = "up"

Top == Last(stack)
Pop == Front(stack)
At(p) == [stack EXCEPT ![Len(stack)].pc = p]

\* list_del: requests R are unlinked, and their records freed.
Unlink(R) == /\ pending' = Without(pending, R)
             /\ due' = due \ R
             /\ lost' = lost \ R

\* The thread runs code that may send requests: the scheduler, or a handler.
CanCall == /\ link # "freed"
           /\ stack # <<>> => Top.op \in {"handler", "response"}

\* Requests whose response handler is running.
Handling == {stack[i].req : i \in {j \in 1 .. Len(stack) : stack[j].op = "response"}}

-----------------------------------------------------------------------------
\* conn->send_message (or, for the extra source, the message moved to another
\* instance): what the peer will have to answer.
Dispatched(r, s, how) ==
    /\ mode[r] = "no" /\ <<how, s>> \in Uses[r]
    /\ mode' = [mode EXCEPT ![r] = how]
    /\ via' = [via EXCEPT ![r] = s]
    /\ asked' = [asked EXCEPT ![s] = Append(@, r)]

\* Sending fails once the peer has gone: nothing is pending.
send_fails(r, how) ==
    /\ CanCall /\ link = "broken"
    /\ mode[r] = "no" /\ <<how, "conn">> \in Uses[r]
    /\ mode' = [mode EXCEPT ![r] = how]
    /\ outcome' = [outcome EXCEPT ![r] = "error"]
    /\ UNCHANGED <<list, via, asked, inbox, stack, slot, link>>

\* pcrdr_send_request, and pcrdr_set_handler_for_response_from_extra_source.
pcrdr_send_request(r, s) ==
    /\ CanCall /\ (s = "conn" => link = "up")
    /\ Dispatched(r, s, "async")
    /\ pending' = Append(pending, r)
    /\ UNCHANGED <<due, lost, inbox, stack, slot, outcome, link>>

\* Variant with a fault: the request goes to the tail of the list.
WaitAtTail(r, s) ==
    /\ CanCall /\ (s = "conn" => link = "up")
    /\ Len(stack) + 1 < MaxDepth
    /\ Dispatched(r, s, "sync")
    /\ pending' = Append(pending, r)
    /\ stack' = Append(stack, Frame("wait", r))
    /\ UNCHANGED <<due, lost, inbox, slot, outcome, link>>

\* pcrdr_send_request_and_wait_response up to its loop: the request goes to the
\* head of the list.
pcrdr_send_request_and_wait_response(r, s) ==
    /\ CanCall /\ (s = "conn" => link = "up")
    /\ Len(stack) + 1 < MaxDepth
    /\ Dispatched(r, s, "sync")
    /\ pending' = <<r>> \o pending
    /\ stack' = Append(stack, Frame("wait", r))
    /\ UNCHANGED <<due, lost, inbox, slot, outcome, link>>

\* The scheduler polls the connection.
pcrdr_wait_and_dispatch_message ==
    /\ stack = <<>> /\ link # "freed"
    /\ stack' = <<Frame("poll", Other)>>
    /\ UNCHANGED <<list, books, inbox, slot, outcome, link>>

-----------------------------------------------------------------------------
\* Variant with a fault: a response is compared with the last pending request.
MatchesLast(r) == pending # <<>> /\ Last(pending) = r

\* A response is compared with the first pending request only.
Matches(r) == pending # <<>> /\ Head(pending) = r

\* A response that is not the one awaited first is thrown away.
ThrowAway(r) == /\ lost' = lost \cup ({r} \cap ToSet(pending))
                /\ UNCHANGED <<pending, due>>

\* handle_response_message for a response to r; p is where the caller goes on.
\* A request is unlinked after its handler has returned, which for the handler
\* of the synchronous requests (it fills the slot) is at once.
handle_response_message(r, p) ==
    \/ /\ ~ Matches(r)
       /\ ThrowAway(r)
       /\ stack' = At(p)
       /\ UNCHANGED <<slot, outcome>>
    \/ /\ Matches(r) /\ mode[r] = "sync"
       /\ slot' = [slot EXCEPT ![r] = "msg"]
       /\ Unlink({r})
       /\ stack' = At(p)
       /\ UNCHANGED outcome
    \/ /\ Matches(r) /\ mode[r] = "async"
       /\ outcome' = [outcome EXCEPT ![r] = "result"]
       /\ stack' = Append(At(p), Frame("response", r))
       /\ UNCHANGED <<list, slot>>

dispatch_message(s, p) ==
    /\ inbox[s] # <<>>
    /\ inbox' = [inbox EXCEPT ![s] = Tail(@)]
    /\ \/ /\ Head(inbox[s]) = Other
          /\ stack' = Append(At(p), Frame("handler", Other))
          /\ UNCHANGED <<list, slot, outcome>>
       \/ /\ Head(inbox[s]) # Other
          /\ handle_response_message(Head(inbox[s]), p)

\* One look at the extra source (source_fn).
Look(here, next) ==
    /\ stack # <<>> /\ Top.op \in {"wait", "poll"} /\ Top.pc = here
    /\ \/ dispatch_message("extra", next)
       \/ /\ inbox["extra"] = <<>>
          /\ stack' = At(next)
          /\ UNCHANGED <<list, inbox, slot, outcome>>
    /\ UNCHANGED <<books, link>>

Source == Look("source", "read")
Again  == Look("again", "check")

\* Variant with a fault: a wait that fails leaves its request in the list.
GiveUpLinked(r) == UNCHANGED list

\* The end of a wait that failed: a request without an answer is unlinked.
GiveUp(r) == IF slot[r] = "null" THEN Unlink({r}) ELSE UNCHANGED list

\* conn->wait_message and conn->read_message.  With nothing to read, they time
\* out while the peer is there and fail when it has gone; a wait then ends with
\* an error, a poll goes on to the deadlines.
Read ==
    /\ stack # <<>> /\ Top.op \in {"wait", "poll"} /\ Top.pc = "read"
    /\ \/ dispatch_message("conn", "again")
       \/ /\ inbox["conn"] = <<>> /\ (link = "up" \/ Top.op = "poll")
          /\ stack' = At("check")
          /\ UNCHANGED <<list, inbox, slot, outcome>>
       \/ /\ inbox["conn"] = <<>> /\ link = "broken" /\ Top.op = "wait"
          /\ GiveUp(Top.req)
          /\ outcome' = [outcome EXCEPT ![Top.req] = "error"]
          /\ stack' = Pop
          /\ UNCHANGED <<inbox, slot>>
    /\ UNCHANGED <<books, link>>

\* The requests check_timeout_requests finds, and the slots after it.
Overdue == ToSet(pending) \cap due

\* Variant with a fault: the slots are left alone.
SlotsKept == slot

SlotsAfter == [r \in Req |-> IF r \in Overdue /\ mode[r] = "sync"
                             THEN "invalid" ELSE slot[r]]

\* check_timeout_requests calls the handlers of all overdue requests, those of
\* requests that are being handled too, and unlinks them.  Then the poll is
\* over, and so is the wait if its slot is set.
check_timeout_requests ==
    /\ stack # <<>> /\ Top.op \in {"wait", "poll"} /\ Top.pc = "check"
    /\ Unlink(Overdue)
    /\ slot' = SlotsAfter
    /\ LET told == {r \in Overdue : mode[r] = "async"}
           over == Top.op = "wait" /\ slot'[Top.req] # "null"
       IN /\ outcome' = [r \in Req |->
                CASE r \in told -> "timeout"
                  [] over /\ r = Top.req ->
                        IF slot'[r] = "msg" THEN "result" ELSE "timeout"
                  [] OTHER -> outcome[r]]
          /\ stack' = IF over \/ Top.op = "poll" THEN Pop ELSE At("source")
    /\ UNCHANGED <<books, inbox, link>>

\* Variant with a fault: the request stays in the list after its handler.
ReturnsLinked ==
    /\ stack # <<>> /\ Top.op \in {"handler", "response"}
    /\ stack' = Pop
    /\ UNCHANGED <<list, books, inbox, slot, outcome, link>>

\* A handler returns; handle_response_message unlinks the request it was for.
\* A request that timed out meanwhile was unlinked and freed already; what a
\* second list_del and free do to other memory is not followed.
HandlerReturns ==
    /\ stack # <<>> /\ Top.op \in {"handler", "response"}
    /\ Unlink(IF Top.op = "response" THEN {Top.req} ELSE {})
    /\ stack' = Pop
    /\ UNCHANGED <<books, inbox, slot, outcome, link>>

-----------------------------------------------------------------------------
\* pcrdr_disconnect and pcrdr_free_connection: every pending request is told.
pcrdr_disconnect ==
    /\ stack = <<>> /\ link # "freed"
    /\ link' = "freed"
    /\ Unlink(ToSet(pending))
    /\ slot' = [r \in Req |-> IF r \in ToSet(pending) /\ mode[r] = "sync"
                              THEN "invalid" ELSE slot[r]]
    /\ outcome' = [r \in Req |-> IF r \in ToSet(pending) /\ mode[r] = "async"
                                 THEN "cancelled" ELSE outcome[r]]
    /\ inbox' = [s \in Src |-> <<>>]
    /\ UNCHANGED <<books, stack>>

\* The peer: it answers, or sends something else, or goes away.
Answer(s) ==
    /\ link # "freed" /\ (s = "conn" => link = "up")
    /\ Len(inbox[s]) < MaxInbox
    /\ \E i \in 1 .. Len(asked[s]) :
          /\ s = "conn" => i = 1
          /\ inbox' = [inbox EXCEPT ![s] = Append(@, asked[s][i])]
          /\ asked' = [asked EXCEPT ![s] = RemoveAt(@, i)]
    /\ UNCHANGED <<list, mode, via, stack, slot, outcome, link>>

Call(s) ==
    /\ link # "freed" /\ (s = "conn" => link = "up")
    /\ Len(inbox[s]) < MaxInbox
    /\ inbox' = [inbox EXCEPT ![s] = Append(@, Other)]
    /\ UNCHANGED <<list, books, stack, slot, outcome, link>>

PeerGone == /\ link = "up" /\ link' = "broken"
            /\ UNCHANGED <<list, books, inbox, stack, slot, outcome>>

\* The clock: the time of a pending request is over.
Tick(r) ==
    /\ r \in ToSet(pending) \ due
    /\ due' = due \cup {r}
    /\ UNCHANGED <<pending, lost, books, inbox, stack, slot, outcome, link>>

Thread == Source \/ Read \/ Again \/ check_timeout_requests \/ HandlerReturns

Sending == \E r \in Req :
    \/ \E s \in Src : \/ pcrdr_send_request(r, s)
                      \/ pcrdr_send_request_and_wait_response(r, s)
    \/ \E how \in {"async", "sync"} : send_fails(r, how)

Next == \/ Thread \/ Sending
        \/ pcrdr_wait_and_dispatch_message
        \/ pcrdr_disconnect
        \/ \E s \in Src : Answer(s) \/ Call(s)
        \/ PeerGone
        \/ \E r \in Req : Tick(r)

\* The thread goes on with what it does, the scheduler polls the connection
\* whenever it runs, and time passes.  The peer need not do anything.
Fairness == /\ WF_vars(Thread)
            /\ WF_vars(pcrdr_wait_and_dispatch_message)
            /\ \A r \in Req : WF_vars(Tick(r))

Spec == Init /\ [][Next]_vars
FairSpec == Spec /\ Fairness

-----------------------------------------------------------------------------
Before(q, r) == \E i, j \in 1 .. Len(pending) :
                   i < j /\ pending[i] = q /\ pending[j] = r

Waits == {i \in 1 .. Len(stack) : stack[i].op = "wait"}

\* The context of a synchronous request is a variable on the stack of the call
\* that waits for it: such a request is in the list exactly while that call is
\* in progress and has no answer, and no request is in the list twice.
ContextsLive ==
    /\ IsInjective(pending)
    /\ \A r \in Req :
          mode[r] = "sync" => (r \in ToSet(pending)
             <=> slot[r] = "null" /\ \E i \in Waits : stack[i].req = r)

\* Nested waits lie in the list in the order of the stack, the innermost first,
\* and in front of every asynchronous request that was pending when they began:
\* only the innermost wait can be answered.
InnermostFirst ==
    /\ \A i, j \in Waits :
          i < j /\ {stack[i].req, stack[j].req} \subseteq ToSet(pending)
             => Before(stack[j].req, stack[i].req)
    /\ \A i \in Waits : stack[i].req \in ToSet(pending) =>
          \A q \in ToSet(pending) :
             Before(q, stack[i].req) => mode[q] = "sync"

\* The handler of an asynchronous request runs while the request is still in
\* the list, so that what handle_response_message unlinks and frees after it
\* is still there, and a sender that was told the result ("got a valid response
\* message") is not told anything else.
HandledIsPending ==
    \A i \in 1 .. Len(stack) :
       stack[i].op = "response" => stack[i].req \in ToSet(pending)

\* A response of the renderer, which answers in order, is thrown away while its
\* request is pending only if a request in front of it is one that some call
\* waits for, is being handled, is answered by another instance, or has had its
\* own response thrown away.
DropExplained ==
    [][\A r \in lost' \ lost : via[r] = "conn" =>
          \E q \in ToSet(pending) :
             /\ Before(q, r)
             /\ mode[q] = "sync" \/ q \in lost \cup Handling \/ via[q] = "extra"]_vars

\* With nested waits, late answers, deadlines and the loss of the peer, the
\* connection implements RequestOutcome: what a request came to is said once,
\* except that a request whose handler is running may be told that its time is
\* over.
Told == [r \in Req |-> CASE mode[r] = "no" -> "not sent"
                         [] mode[r] # "no" /\ outcome[r] = "none" -> "waiting"
                         [] OTHER -> outcome[r]]
Promise == INSTANCE RequestOutcome WITH
    Outcome <- Endings, Result <- "result", TimedOut <- "timeout",
    told <- Told, handled <- Handling

ImplementsOutcome == Promise!OutcomeSpec

\* Every request that was sent ends, whatever the peer does: no wait is endless.
Concludes == \A r \in Req : mode[r] # "no" ~> outcome[r] # "none"
=============================================================================
