--------------------------- MODULE RequestOutcome ---------------------------
(***************************************************************************)
(* What the connection to a renderer promises to those who send requests   *)
(* through it: a request that was sent ends at most once, in one way, and  *)
(* how it ended does not change any more, unless its time is over before   *)
(* the handler that was called with its result has returned.               *)
(***************************************************************************)
CONSTANTS Req,       \* the requests
          Outcome,   \* the ways in which a request can end
          Result,    \* the one that a handler is called for and works on
          TimedOut   \* the one that may follow while it does

VARIABLES told,      \* what the sender of each request knows
          handled    \* the requests whose handlers are at work

NotSent == "not sent"
Waiting == "waiting"

OutcomeInit == told = [r \in Req |-> NotSent] /\ handled = {}

\* A request is sent or refused, or it ends; otherwise nothing changes for it.
\* One step may end several requests.
Advance(r) == \/ told'[r] = told[r]
              \/ told[r] = NotSent /\ told'[r] \in Outcome \cup {Waiting}
              \/ told[r] = Waiting /\ told'[r] \in Outcome
              \/ r \in handled /\ told[r] = Result /\ told'[r] = TimedOut

\* A handler goes to work once, when its request has got its result.
Begins(r) == told[r] = Waiting /\ told'[r] = Result

OutcomeNext == /\ told' \in [Req -> Outcome \cup {NotSent, Waiting}]
               /\ handled' \subseteq Req
               /\ \A r \in Req : Advance(r)
               /\ \A r \in handled' \ handled : Begins(r)

OutcomeSpec == OutcomeInit /\ [][OutcomeNext]_<<told, handled>>
=============================================================================
