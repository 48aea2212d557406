----------------------------- MODULE Rendezvous -----------------------------
(* What a barrier promises to a fixed group of threads that come to it     *)
(* again and again: nobody passes it for the n-th time before everybody    *)
(* has come for the n-th time.                                             *)
EXTENDS Naturals

CONSTANT Threads

VARIABLES entered,   \* how often each thread has come to the barrier
          passed     \* how often it has gone on

rvars == <<entered, passed>>

Outside(t) == entered[t] = passed[t]

OnceMore(times, t) == [times EXCEPT ![t] = @ + 1]

EveryoneCame(t) == \A u \in Threads : entered[u] > passed[t]

RInit == entered = [t \in Threads |-> 0] /\ passed = [t \in Threads |-> 0]

Enter(t) ==
    /\ Outside(t)
    /\ entered' = OnceMore(entered, t)
    /\ UNCHANGED passed

Pass(t) ==
    /\ ~Outside(t) /\ EveryoneCame(t)
    /\ passed' = OnceMore(passed, t)
    /\ UNCHANGED entered

\* the last thread to come need not wait
EnterLast(t) ==
    /\ Outside(t)
    /\ \A u \in Threads \ {t} : entered[u] > passed[t]
    /\ entered' = OnceMore(entered, t)
    /\ passed' = OnceMore(passed, t)

RNext == \E t \in Threads : Enter(t) \/ Pass(t) \/ EnterLast(t)

RSpec == RInit /\ [][RNext]_rvars
=============================================================================
