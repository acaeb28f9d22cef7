----------------------------- MODULE MCRequests -----------------------------
(* Small instances of Requests for TLC. *)
EXTENDS Requests, TLC

CONSTANTS r1, r2, r3

\* One request is waited for; one is waited for, with its answer coming from
\* another instance, or is asynchronous; one is asynchronous.
Roles == r1 :> {<<"sync", "conn">>}
      @@ r2 :> {<<"sync", "extra">>, <<"async", "conn">>}
      @@ r3 :> {<<"async", "conn">>}
=============================================================================
