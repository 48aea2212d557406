------------------------------ MODULE LoadSave ------------------------------
(***************************************************************************)
(* Buffered saving and loading of a game with two threads                  *)
(* (dataobj/loadsave.cc).  The game thread fills one buffer while the      *)
(* other is written to the file, or empties one while the other is filled  *)
(* from the file.  They change over at a barrier, which is the one of      *)
(* utils/simthread.cc where the system has none; loading needs a flag      *)
(* with a mutex and a condition variable as well, as it may end early at   *)
(* either side.                                                            *)
(*                                                                         *)
(* Bytes are numbered.  A buffer is the sequence of its bytes that are     *)
(* still to be used: ls_buf up to buf_pos while saving, and from buf_pos   *)
(* to buf_len while loading.                                               *)
(***************************************************************************)
EXTENDS Integers, Sequences

CONSTANTS
    BufSize,         \* LS_BUF_SIZE; no read or write is longer
    MaxBytes,        \* a bound on the bytes of a file
    SpuriousWakeUps  \* whether pthread_cond_wait may return unasked, as POSIX allows

ASSUME LoadSaveAssumption ==
    BufSize \in Nat \ {0} /\ MaxBytes \in Nat /\ SpuriousWakeUps \in BOOLEAN

VARIABLES
    saving,    \* loadsave_t::saving
    pc,        \* where each thread is
    back,      \* where it goes on behind the barrier
    count,     \* simthread_barrier_t::count
    sleeping,  \* the threads in pthread_cond_wait of the barrier
    mutex,     \* the owner of readdata_mutex
    flag,      \* readdata_flag
    curr,      \* curr_buff of the game thread
    mine,      \* buf of the other thread
    filled,    \* res > 0 of load_thread
    buf,       \* the two buffers
    rest,      \* what the present call has still to copy
    size,      \* the bytes of the file that can be read, when loading
    given,     \* the bytes that were put in at one end: written, or read from the file
    out,       \* the bytes that came out at the other end: the file, or what was loaded
    passed     \* how often each thread has passed the barrier (not in the code)

barrierVars == <<count, sleeping, passed>>
flagVars    == <<mutex, flag>>
dataVars    == <<buf, size, given, out>>
vars == <<saving, pc, back, count, sleeping, mutex, flag, curr, mine, filled, buf, rest,
          size, given, out, passed>>

Game    == "game"
Ls      == "ls_thread"
Threads == {Game, Ls}
Nobody  == "nobody"
Other(b) == 1 - b
Least(m, n) == IF m <= n THEN m ELSE n

Places == {"use", "barrier", "asleep", "switch", "again", "join", "closed", "more", "stop",
           "fatal", "look", "flush", "flushed", "fill", "lock", "flag", "waits", "woken", "done"}
BehindBarrier == {"look", "flag", "switch", "again", "join", "more", "stop"}

Goes(t, to) == pc' = [pc EXCEPT ![t] = to] /\ UNCHANGED back

GoesToBarrier(t, then) ==
    pc' = [pc EXCEPT ![t] = "barrier"] /\ back' = [back EXCEPT ![t] = then]

-----------------------------------------------------------------------------
(* simthread_barrier_wait, for two threads                                 *)

\* plausible bugs: the barrier trips for the first thread, or never
TripsEarly(n) == n >= 1
TripsLate(n) == n > 2
Trips(n) == n >= 2

Passes(t) ==
    /\ pc' = [pc EXCEPT ![t] = back[t]]
    /\ passed' = [passed EXCEPT ![t] = @ + 1]

Arrive(t) ==
    /\ pc[t] = "barrier"
    /\ IF Trips(count + 1)
       THEN count' = 0 /\ sleeping' = {} /\ Passes(t)
       ELSE /\ count' = count + 1
            /\ sleeping' = sleeping \cup {t}
            /\ pc' = [pc EXCEPT ![t] = "asleep"]
            /\ UNCHANGED passed
    /\ UNCHANGED <<saving, back, flagVars, curr, mine, filled, rest, dataVars>>

\* It does not look at the count again after it was woken up.
GoesOn(t) ==
    /\ pc[t] = "asleep"
    /\ t \notin sleeping \/ SpuriousWakeUps
    /\ sleeping' = sleeping \ {t}
    /\ Passes(t)
    /\ UNCHANGED <<saving, back, count, flagVars, curr, mine, filled, rest, dataVars>>

-----------------------------------------------------------------------------
(* Saving: write, saving_trigger_flush, save_thread, saving_finalize.      *)

Bytes(from, n) == [i \in 1..n |-> from + i]

Write(n) ==
    LET fits == BufSize - Len(buf[curr])
        now  == Least(n, fits)
    IN  /\ saving /\ pc[Game] = "use" /\ given + n <= MaxBytes
        /\ buf' = [buf EXCEPT ![curr] = @ \o Bytes(given, now)]
        /\ given' = given + now
        /\ rest' = n - now
        /\ IF n <= fits THEN UNCHANGED <<pc, back>> ELSE GoesToBarrier(Game, "switch")
        /\ UNCHANGED <<saving, barrierVars, flagVars, curr, mine, filled, size, out>>

SwitchAndWrite ==
    /\ saving /\ pc[Game] = "switch"
    /\ curr' = Other(curr)
    /\ buf' = [buf EXCEPT ![Other(curr)] = @ \o Bytes(given, rest)]
    /\ given' = given + rest
    /\ rest' = 0
    /\ Goes(Game, "use")
    /\ UNCHANGED <<saving, barrierVars, flagVars, mine, filled, size, out>>

\* set_buffered(false): the buffer is flushed at a first barrier, the thread ends at a second
EndSaving ==
    /\ saving /\ pc[Game] = "use" /\ buf[curr] # <<>>
    /\ GoesToBarrier(Game, "again")
    /\ UNCHANGED <<saving, barrierVars, flagVars, curr, mine, filled, rest, dataVars>>

EndAgain ==
    /\ pc[Game] = "again"
    /\ GoesToBarrier(Game, "join")
    /\ UNCHANGED <<saving, barrierVars, flagVars, curr, mine, filled, rest, dataVars>>

\* a plausible bug: the thread takes the buffer it took before
KeepsBuffer(b) == b
NextToFlush(b) == Other(b)

TakeBuffer ==
    /\ pc[Ls] = "look"
    /\ mine' = NextToFlush(mine)
    /\ Goes(Ls, IF buf[NextToFlush(mine)] = <<>> THEN "done" ELSE "flush")
    /\ UNCHANGED <<saving, barrierVars, flagVars, curr, filled, rest, dataVars>>

\* flush_buffer: first the file, then buf_pos
Flush ==
    /\ pc[Ls] = "flush"
    /\ out' = out \o buf[mine]
    /\ Goes(Ls, "flushed")
    /\ UNCHANGED <<saving, barrierVars, flagVars, curr, mine, filled, rest, buf, size, given>>

\* a plausible bug: buf_pos is not reset
FlushedStays ==
    /\ pc[Ls] = "flushed"
    /\ GoesToBarrier(Ls, "look")
    /\ UNCHANGED <<saving, barrierVars, flagVars, curr, mine, filled, rest, dataVars>>

Flushed ==
    /\ pc[Ls] = "flushed"
    /\ buf' = [buf EXCEPT ![mine] = <<>>]
    /\ GoesToBarrier(Ls, "look")
    /\ UNCHANGED <<saving, barrierVars, flagVars, curr, mine, filled, rest, size, given, out>>

-----------------------------------------------------------------------------
(* Loading: read, loading_trigger_fill_buffer, loading_finalize.           *)

Read(n) ==
    LET there == Len(buf[curr])
        now   == Least(n, there)
    IN  /\ ~saving /\ pc[Game] = "use"
        /\ out' = out \o SubSeq(buf[curr], 1, now)
        /\ buf' = [buf EXCEPT ![curr] = SubSeq(@, now + 1, Len(@))]
        /\ rest' = n - now
        /\ IF n <= there THEN UNCHANGED <<pc, back>> ELSE GoesToBarrier(Game, "more")
        /\ UNCHANGED <<saving, barrierVars, flagVars, curr, mine, filled, size, given>>

\* A signal wakes up the thread that waits in load_thread; it sees the flag when it has the
\* mutex again.
AskForMore ==
    /\ pc[Game] = "more" /\ mutex = Nobody
    /\ flag' = IF flag < 0 THEN flag ELSE 1
    /\ pc' = [pc EXCEPT ![Game] = IF flag < 0 THEN "fatal" ELSE "switch",
                        ![Ls] = IF @ = "waits" THEN "woken" ELSE @]
    /\ UNCHANGED <<saving, back, barrierVars, mutex, curr, mine, filled, rest, dataVars>>

\* a plausible bug: one byte more is wanted
WantsOneMore(n, b) == n < Len(b)
Enough(n, b) == n <= Len(b)

SwitchAndRead ==
    LET next   == buf[Other(curr)]
        enough == Enough(rest, next)
    IN  /\ ~saving /\ pc[Game] = "switch"
        /\ curr' = Other(curr)
        /\ Goes(Game, IF enough THEN "use" ELSE "fatal")
        /\ out' = IF enough THEN out \o SubSeq(next, 1, rest) ELSE out
        /\ buf' = IF enough
                  THEN [buf EXCEPT ![Other(curr)] = SubSeq(next, rest + 1, Len(next))]
                  ELSE buf
        /\ rest' = IF enough THEN 0 ELSE rest
        /\ UNCHANGED <<saving, barrierVars, flagVars, mine, filled, size, given>>

EndLoading ==
    /\ ~saving /\ pc[Game] = "use"
    /\ GoesToBarrier(Game, "stop")
    /\ UNCHANGED <<saving, barrierVars, flagVars, curr, mine, filled, rest, dataVars>>

StopLoading ==
    /\ pc[Game] = "stop" /\ mutex = Nobody
    /\ flag' = -1
    /\ pc' = [pc EXCEPT ![Game] = "join", ![Ls] = IF @ = "waits" THEN "woken" ELSE @]
    /\ UNCHANGED <<saving, back, barrierVars, mutex, curr, mine, filled, rest, dataVars>>

\* fill_buffer, as far as the file goes or, after an error, nothing
Fill ==
    /\ pc[Ls] = "fill"
    /\ \E ok \in BOOLEAN :
          LET n == IF ok THEN Least(size - given, BufSize) ELSE 0
          IN  /\ buf' = [buf EXCEPT ![mine] = Bytes(given, n)]
              /\ given' = given + n
              /\ size' = IF ok THEN size ELSE given
              /\ filled' = (n > 0)
    /\ Goes(Ls, "lock")
    /\ UNCHANGED <<saving, barrierVars, flagVars, curr, mine, rest, out>>

\* It has the mutex when it waits at the barrier.
Lock ==
    /\ pc[Ls] = "lock" /\ mutex = Nobody
    /\ mutex' = Ls
    /\ GoesToBarrier(Ls, "flag")
    /\ UNCHANGED <<saving, barrierVars, flag, curr, mine, filled, rest, dataVars>>

WaitForFlag ==
    /\ pc[Ls] = "flag" /\ flag = 0
    /\ mutex' = Nobody
    /\ Goes(Ls, "waits")
    /\ UNCHANGED <<saving, barrierVars, flag, curr, mine, filled, rest, dataVars>>

WakeUp ==
    /\ pc[Ls] \in {"woken"} \cup (IF SpuriousWakeUps THEN {"waits"} ELSE {})
    /\ mutex = Nobody
    /\ mutex' = Ls
    /\ Goes(Ls, "flag")
    /\ UNCHANGED <<saving, barrierVars, flag, curr, mine, filled, rest, dataVars>>

SeeFlag ==
    /\ pc[Ls] = "flag" /\ flag # 0
    /\ mutex' = Nobody
    /\ flag' = IF flag < 0 \/ ~filled THEN -1 ELSE 0
    /\ mine' = IF flag < 0 \/ ~filled THEN mine ELSE Other(mine)
    /\ Goes(Ls, IF flag < 0 \/ ~filled THEN "done" ELSE "fill")
    /\ UNCHANGED <<saving, barrierVars, curr, filled, rest, dataVars>>

-----------------------------------------------------------------------------
\* pthread_join
Join ==
    /\ pc[Game] = "join" /\ pc[Ls] = "done"
    /\ Goes(Game, "closed")
    /\ UNCHANGED <<saving, barrierVars, flagVars, curr, mine, filled, rest, dataVars>>

\* set_buffered(true), and pthread_create
Init ==
    /\ saving \in BOOLEAN
    /\ pc = [t \in Threads |-> IF t = Game THEN "use" ELSE IF saving THEN "barrier" ELSE "fill"]
    /\ back = [t \in Threads |-> "look"]
    /\ count = 0 /\ sleeping = {} /\ passed = [t \in Threads |-> 0]
    /\ mutex = Nobody /\ flag = 0
    /\ curr = 0 /\ mine = 1
    /\ filled = FALSE
    /\ buf = [b \in 0..1 |-> <<>>]
    /\ rest = 0 /\ given = 0 /\ out = <<>>
    /\ size \in IF saving THEN {0} ELSE 0..MaxBytes

GameStep ==
    \/ \E n \in 1..BufSize : Write(n) \/ Read(n)
    \/ SwitchAndWrite \/ EndSaving \/ EndAgain
    \/ AskForMore \/ SwitchAndRead \/ EndLoading \/ StopLoading
    \/ Join

LsStep ==
    \/ TakeBuffer \/ Flush \/ Flushed
    \/ Fill \/ Lock \/ WaitForFlag \/ WakeUp \/ SeeFlag

Next == GameStep \/ LsStep \/ \E t \in Threads : Arrive(t) \/ GoesOn(t)

(* Both threads are scheduled.                                             *)
Fairness ==
    /\ WF_vars(GameStep) /\ WF_vars(LsStep)
    /\ \A t \in Threads : WF_vars(Arrive(t)) /\ WF_vars(GoesOn(t))

Spec == Init /\ [][Next]_vars /\ Fairness
-----------------------------------------------------------------------------
(* Every variable has its type; no buffer overflows. *)
TypeOK ==
    /\ saving \in BOOLEAN
    /\ pc \in [Threads -> Places] /\ back \in [Threads -> BehindBarrier]
    /\ count \in 0..1 /\ sleeping \subseteq Threads /\ passed \in [Threads -> Nat]
    /\ mutex \in {Ls, Nobody} /\ flag \in {-1, 0, 1}
    /\ curr \in 0..1 /\ mine \in 0..1 /\ filled \in BOOLEAN
    /\ buf \in [0..1 -> Seq(Nat)] /\ \A b \in 0..1 : Len(buf[b]) <= BufSize
    /\ rest \in 0..BufSize /\ given \in Nat /\ size \in Nat
    /\ out \in Seq(Nat)

(* What comes out is what went in, in order, without a gap and nothing     *)
(* twice: the file is a prefix of what write was given, and what read gave *)
(* is a prefix of the file, whichever of the two buffers it went through.  *)
InOrder == out = [i \in 1..Len(out) |-> i]

(* When a saved game is closed, all of it is in the file, if the file took *)
(* what was written: set_buffered joins the thread only after the last     *)
(* buffer was flushed.                                                     *)
NothingIsLost == saving /\ pc[Game] = "closed" => Len(out) = given

(* The two threads never work on one buffer.  Neither locks the buffers;   *)
(* only the barrier keeps them apart.                                      *)
BuffersAreDisjoint ==
    /\ pc[Ls] \in {"flush", "flushed", "fill"} =>
          /\ pc[Game] = "use" => mine # curr
          /\ pc[Game] = "switch" => mine = curr
    /\ pc[Ls] = "look" =>
          /\ pc[Game] = "use" => mine = curr
          /\ pc[Game] = "switch" => mine # curr

(* Loading stops with "savegame corrupt, not enough data" only if more was *)
(* wanted than can be read from the file.                                  *)
FatalOnlyIfShort == pc[Game] = "fatal" => Len(out) + rest > size

(* Saving and loading come to an end, in particular when the game needs    *)
(* less than the file has, or the file has less than the game needs: no    *)
(* thread is left behind at the barrier or waiting for the flag.           *)
Ends == <>(pc[Game] \in {"closed", "fatal"})

(* simthread_barrier_wait is a barrier. *)
R == INSTANCE Rendezvous WITH
        entered <- [t \in Threads |-> passed[t] + IF pc[t] = "asleep" THEN 1 ELSE 0]
ImplementsRendezvous == R!RSpec
=============================================================================
