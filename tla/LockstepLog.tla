------------------------------ MODULE LockstepLog ------------------------------
(***************************************************************************)
(* What the lockstep protocol promises: there is one history of the        *)
(* simulation, the log, and whoever plays has a prefix of it and only ever *)
(* moves forward along it.  A player starts with a copy of the log that    *)
(* ends with a reload, and may stop following at any time.  The log is     *)
(* only appended to: nothing that was in it is ever taken back.            *)
(***************************************************************************)
EXTENDS Sequences, Integers

CONSTANTS Clients, NotFollowing, Reloads

VARIABLES log, copy

logVars == <<log, copy>>

PrefixesOf(s) == {SubSeq(s, 1, n) : n \in 0 .. Len(s)}

Init == log = <<>> /\ copy = [c \in Clients |-> NotFollowing]

\* the server goes on: a frame, tools, a reload
Extend ==
    /\ log \in PrefixesOf(log')
    /\ UNCHANGED copy

Follow(c) ==
    /\ copy[c] # NotFollowing
    /\ \E s \in PrefixesOf(log) :
          Len(s) > Len(copy[c]) /\ copy' = [copy EXCEPT ![c] = s]
    /\ UNCHANGED log

Start(c) ==
    /\ copy[c] = NotFollowing
    /\ \E s \in PrefixesOf(log) :
          s # <<>> /\ s[Len(s)] \in Reloads /\ copy' = [copy EXCEPT ![c] = s]
    /\ UNCHANGED log

Stop(c) ==
    /\ copy[c] # NotFollowing
    /\ copy' = [copy EXCEPT ![c] = NotFollowing]
    /\ UNCHANGED log

Next == Extend \/ \E c \in Clients : Follow(c) \/ Start(c) \/ Stop(c)

Spec == Init /\ [][Next]_logVars
=============================================================================
