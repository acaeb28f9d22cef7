---------------------------- MODULE MCCoroutine ----------------------------
(* A small instance of Coroutine for TLC. *)
EXTENDS Coroutine

\* Two observers of the same event.
TwoObservers == {<<"ev", 1>>, <<"ev", 2>>}
=============================================================================
