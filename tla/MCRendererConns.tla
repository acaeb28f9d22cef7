-------------------------- MODULE MCRendererConns --------------------------
(* Small instances of RendererConns for TLC. *)
EXTENDS RendererConns

CONSTANTS c1, c2

\* The second coroutine shows its contents on the page of the first.
Family == [c \in {c1, c2} |-> IF c = c2 THEN c1 ELSE Null]
=============================================================================
