-------------------------------- MODULE Lists --------------------------------
(***************************************************************************)
(* The linked lists of the code (struct list_head), as sequences.          *)
(***************************************************************************)
EXTENDS Naturals, Sequences

\* What is left of the first n elements when those in R are gone.
Rests(q, R) ==
    LET rest[n \in 0 .. Len(q)] ==
            IF n = 0 THEN <<>>
            ELSE IF q[n] \in R THEN rest[n - 1] ELSE Append(rest[n - 1], q[n])
    IN rest

\* list_del of every element that is in R; the others keep their order.
Without(q, R) == Rests(q, R)[Len(q)]
=============================================================================
