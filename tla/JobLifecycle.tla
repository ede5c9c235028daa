---------------------------- MODULE JobLifecycle ----------------------------
(***************************************************************************)
(* What the job manager promises its callers, without goroutines, locks or *)
(* channels: an accepted job is queued; it begins only while fewer than    *)
(* Slots jobs of its class are at work, or it is withdrawn; work that      *)
(* began ends in one of three ways; and every end is told exactly once.    *)
(***************************************************************************)
EXTENDS Integers, FiniteSets

CONSTANTS Class, Slots, Jobs, None

VARIABLES
    phase,   \* where each job is in its life
    kind,    \* the class it was accepted for
    told     \* the jobs whose end has been reported

lcVars == <<phase, kind, told>>

Ends == {"done", "failed", "cancelled"}
AtWork(c) == {j \in Jobs : kind[j] = c /\ phase[j] = "running"}

LCInit ==
    /\ phase = [j \in Jobs |-> "unsubmitted"]
    /\ kind = [j \in Jobs |-> None]
    /\ told = {}

Accept(j, c) ==
    /\ phase[j] = "unsubmitted"
    /\ phase' = [phase EXCEPT ![j] = "queued"]
    /\ kind' = [kind EXCEPT ![j] = c]
    /\ UNCHANGED told

Begin(j) ==
    /\ phase[j] = "queued"
    /\ Cardinality(AtWork(kind[j])) < Slots[kind[j]]
    /\ phase' = [phase EXCEPT ![j] = "running"]
    /\ UNCHANGED <<kind, told>>

Withdraw(j) ==
    /\ phase[j] = "queued"
    /\ phase' = [phase EXCEPT ![j] = "cancelled"]
    /\ UNCHANGED <<kind, told>>

End(j, s) ==
    /\ phase[j] = "running"
    /\ phase' = [phase EXCEPT ![j] = s]
    /\ UNCHANGED <<kind, told>>

Tell(j) ==
    /\ phase[j] \in Ends
    /\ j \notin told
    /\ told' = told \cup {j}
    /\ UNCHANGED <<phase, kind>>

LCNext ==
    \E j \in Jobs :
        \/ \E c \in Class : Accept(j, c)
        \/ Begin(j)
        \/ Withdraw(j)
        \/ \E s \in Ends : End(j, s)
        \/ Tell(j)

LCSpec == LCInit /\ [][LCNext]_lcVars
=============================================================================
