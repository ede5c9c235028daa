--------------------------- MODULE MCWorkerCalls ---------------------------
EXTENDS WorkerCalls

CONSTANTS o1, j1, j2, bye1, n1

OneOpen == {o1}
OneJob  == {j1}
NameOfOne == [j \in {j1} |-> n1]
CrashOrStop == {"crash", "stop"}

NoOpen  == {}
TwoJobs == {j1, j2}
NameOfTwo == [j \in {j1, j2} |-> n1]
StopOrJam == {"stop", "jam"}
=============================================================================
