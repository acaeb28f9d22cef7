----------------------------- MODULE MCRunners -----------------------------
\* Small instances of Runners for TLC.
EXTENDS Runners

CONSTANTS MainCalls, OtherCalls

\* The second instance of a name calls nobody, so it never waits.
Second     == {i \in Born : i[2] > 1}
CallBound  == [i \in Inst |-> IF i = Main THEN MainCalls
                             ELSE IF i \in Second THEN 0 ELSE OtherCalls]
MayTimeOut == {Main} \cup Second
Others     == Born
=============================================================================
