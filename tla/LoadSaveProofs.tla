--------------------------- MODULE LoadSaveProofs ---------------------------
(* Theorems about the savegame threads, for every size of the buffers and  *)
(* of the file, where a thread in pthread_cond_wait wakes up only when it  *)
(* is woken.                                                               *)
EXTENDS LoadSave, TLAPS

(***************************************************************************)
(* The inductive invariant.                                                *)
(***************************************************************************)

(* Where a thread is when one abstracts from the barrier: one that was     *)
(* woken up is already behind it, one that sleeps is still in front of it. *)
At(t) == IF pc[t] = "asleep"
         THEN IF t \in sleeping THEN "barrier" ELSE back[t]
         ELSE pc[t]

Awoken(t) == pc[t] = "asleep" /\ t \notin sleeping
Rounds(t) == passed[t] + IF Awoken(t) THEN 1 ELSE 0

BarrierInv ==
    /\ \A t \in Threads : t \in sleeping => pc[t] = "asleep" /\ sleeping = {t}
    /\ count = IF sleeping = {} THEN 0 ELSE 1
    /\ Rounds(Game) = Rounds(Ls)

\* s holds the bytes after the a-th up to the b-th
Span(s, a, b) ==
    s \in Seq(Nat) /\ Len(s) = b - a /\ \A i \in 1..Len(s) : s[i] = a + i

Bound(t, to) == At(t) = "barrier" /\ back[t] = to

(* Saving.  The buffer that is flushed, or was flushed last, holds the     *)
(* older bytes.                                                            *)
Older == IF At(Ls) = "look" THEN Other(mine) ELSE mine
Old   == IF At(Ls) \in {"look", "flush"} THEN buf[Older] ELSE <<>>
New   == buf[Other(Older)]

SavePlaces ==
    /\ At(Game) \in {"use", "barrier", "switch", "again", "join", "closed"}
    /\ At(Ls) \in {"barrier", "look", "flush", "flushed", "done"}
    /\ pc[Game] \in {"barrier", "asleep"} => back[Game] \in {"switch", "again", "join"}
    /\ pc[Ls] \in {"barrier", "asleep"} => back[Ls] = "look"
    /\ At(Game) \in {"join", "closed"} => At(Ls) \in {"look", "done"}

SaveData ==
    /\ Span(Old, Len(out), Len(out) + Len(Old))
    /\ Span(New, Len(out) + Len(Old), given)
    /\ At(Ls) \in {"barrier", "done"} => buf[mine] = <<>>
    /\ Older = curr <=> At(Game) \in {"switch", "again"} \/ Bound(Game, "join")
    /\ At(Game) \in {"switch", "again", "join", "closed"} \/ Bound(Game, "join") => New = <<>>
    /\ At(Game) \in {"join", "closed"} => Old = <<>>

(* Loading.  The game reads First, then Second, if it has been filled.     *)
Switching == At(Game) = "switch"
First  == IF Switching THEN buf[Other(curr)] ELSE buf[curr]
Second == IF flag # 0 \/ At(Ls) = "fill" THEN <<>>
          ELSE IF Switching THEN buf[curr] ELSE buf[Other(curr)]

LoadPlaces ==
    /\ At(Game) \in {"use", "barrier", "more", "switch", "stop", "join", "closed", "fatal"}
    /\ At(Ls) \in {"fill", "lock", "barrier", "flag", "waits", "woken", "done"}
    /\ pc[Game] \in {"barrier", "asleep"} => back[Game] \in {"more", "stop"}
    /\ pc[Ls] \in {"barrier", "asleep"} => back[Ls] = "flag"
    /\ mutex = Ls <=> At(Ls) \in {"barrier", "flag"}

LoadFlag ==
    /\ At(Ls) \in {"fill", "lock", "barrier"} =>
          flag = 0 /\ At(Game) \in {"use", "barrier", "switch", "fatal"}
    /\ At(Game) \in {"more", "stop"} => At(Ls) \in {"flag", "waits"} /\ flag = 0
    /\ flag = 0 /\ At(Ls) \in {"flag", "waits", "woken"} => At(Game) \in {"more", "stop"}
    /\ flag = 1 => /\ At(Ls) \in {"flag", "woken"}
                   /\ At(Game) \in {"use", "barrier", "switch", "fatal"}
                   /\ ~filled => At(Game) \in {"switch", "fatal"}
    /\ flag = -1 => At(Game) \in {"join", "closed"} \/ At(Ls) = "done"
    /\ At(Game) \in {"join", "closed"} => flag = -1
    /\ At(Ls) = "done" => flag = -1 /\ At(Game) \in {"join", "closed", "switch", "fatal"}

LoadData ==
    /\ given <= size
    /\ At(Game) = "fatal" => Len(out) + rest > size
    /\ ~filled /\ At(Ls) \in {"lock", "barrier", "flag", "waits", "woken", "done"}
          => At(Game) \in {"join", "closed"} \/ (buf[mine] = <<>> /\ given = size)
    /\ At(Ls) = "done" /\ Switching => ~filled
    /\ At(Game) \in {"use", "barrier", "more", "switch"} =>
          /\ Span(First, Len(out), Len(out) + Len(First))
          /\ Span(Second, Len(out) + Len(First), given)
          /\ mine = curr <=> ~(Switching <=> flag # 0)
          /\ flag = 0 /\ At(Ls) # "fill" /\ Len(Second) < BufSize => given = size
          /\ Switching /\ Len(First) < BufSize => Len(out) + Len(First) = size
    /\ At(Game) = "more" \/ Bound(Game, "more") => buf[curr] = <<>> /\ rest > 0
    /\ Switching => rest > 0

IInv ==
    /\ TypeOK /\ BarrierInv
    /\ Span(out, 0, Len(out))
    /\ saving => SavePlaces /\ SaveData
    /\ ~saving => LoadPlaces /\ LoadFlag /\ LoadData

-----------------------------------------------------------------------------
(***************************************************************************)
(* Spans of bytes.                                                         *)
(***************************************************************************)

(* An empty sequence is an empty span. *)
LEMMA EmptySpan ==
    ASSUME NEW a \in Nat
    PROVE  Span(<<>>, a, a)
  BY DEF Span

(* Spans that meet are joined by concatenation. *)
LEMMA JoinSpans ==
    ASSUME NEW s, NEW r, NEW a \in Nat, NEW b \in Nat, NEW c \in Nat,
           Span(s, a, b), Span(r, b, c)
    PROVE  Span(s \o r, a, c)
  BY DEF Span

(* Numbered bytes are a span. *)
LEMMA BytesAreASpan ==
    ASSUME NEW a \in Nat, NEW n \in Nat
    PROVE  Span(Bytes(a, n), a, a + n)
  BY DEF Span, Bytes

(* A span is cut in two by SubSeq. *)
LEMMA CutSpan ==
    ASSUME NEW s, NEW a \in Nat, NEW b \in Nat, Span(s, a, b),
           NEW n \in 0..Len(s)
    PROVE  /\ Span(SubSeq(s, 1, n), a, a + n)
           /\ Span(SubSeq(s, n + 1, Len(s)), a + n, b)
  BY DEF Span

(* The length of a span is known, and a span of no bytes is empty. *)
LEMMA LengthOfSpan ==
    ASSUME NEW s, NEW a \in Nat, NEW b \in Nat, Span(s, a, b)
    PROVE  /\ s \in Seq(Nat) /\ Len(s) = b - a
           /\ Len(s) \in Nat
           /\ a = b => s = <<>>
  BY DEF Span

(* Least is the lesser of two numbers. *)
LEMMA LeastOfTwo ==
    ASSUME NEW m \in Nat, NEW n \in Nat
    PROVE  /\ Least(m, n) \in Nat /\ Least(m, n) <= m /\ Least(m, n) <= n
           /\ Least(m, n) = m \/ Least(m, n) = n
  BY DEF Least

-----------------------------------------------------------------------------
(***************************************************************************)
(* The barrier.                                                            *)
(***************************************************************************)

(* A step away from the barrier, or up to it, leaves it alone.             *)
LEMMA StepsOutside ==
    ASSUME TypeOK, BarrierInv, UNCHANGED barrierVars,
           \A u \in Threads :
              /\ pc[u] = "asleep" => pc'[u] = "asleep" /\ back'[u] = back[u]
              /\ pc'[u] = "asleep" => pc[u] = "asleep"
    PROVE  /\ BarrierInv'
           /\ \A u \in Threads :
                 At(u)' = IF pc'[u] = "asleep" THEN At(u) ELSE pc'[u]
  <1>1. \A u \in Threads : Rounds(u)' = Rounds(u)
    BY DEF Rounds, Awoken, barrierVars
  <1> QED
    BY <1>1 DEF BarrierInv, At, barrierVars, Threads

(* At the barrier a thread either waits for the other one, or both go on.  *)
LEMMA ArriveStep ==
    ASSUME TypeOK, BarrierInv, NEW t \in Threads, Arrive(t)
    PROVE  /\ BarrierInv'
           /\ UNCHANGED <<saving, back, mutex, flag, curr, mine, filled, buf, rest, size,
                          given, out>>
           /\ \/ \A u \in Threads : At(u)' = At(u)
              \/ \A u \in Threads : At(u) = "barrier" /\ At(u)' = back[u]
           /\ count' \in 0..1 /\ sleeping' \subseteq Threads /\ passed' \in [Threads -> Nat]
           /\ \A u \in Threads : pc'[u] \in {"barrier", "asleep"} =>
                                    pc[u] \in {"barrier", "asleep"}
           /\ \A u \in Threads : pc'[u] \in {pc[u], back[u], "asleep"}
  <1>1. Trips(count + 1) <=> sleeping # {}
    BY DEF Trips, BarrierInv
  <1> DEFINE frame == UNCHANGED <<saving, back, mutex, flag, curr, mine, filled, buf, rest,
                                  size, given, out>>
  <1>2. frame /\ pc[t] = "barrier"
    BY DEF Arrive, flagVars, dataVars
  <1>3. CASE sleeping = {}
    <2>1. /\ count' = 1 /\ sleeping' = {t} /\ passed' = passed
          /\ pc' = [pc EXCEPT ![t] = "asleep"]
      BY <1>1, <1>3 DEF Arrive, BarrierInv
    <2>2. \A u \in Threads : Rounds(u)' = Rounds(u) /\ At(u)' = At(u)
      BY <1>2, <1>3, <2>1 DEF Rounds, Awoken, At, TypeOK
    <2>3. BarrierInv'
      BY <1>2, <1>3, <2>1, <2>2 DEF BarrierInv, TypeOK, Threads
    <2> QED
      BY <1>2, <2>1, <2>2, <2>3 DEF TypeOK
  <1>4. CASE sleeping # {}
    <2>1. PICK u \in Threads : u \in sleeping
      BY <1>4 DEF TypeOK
    <2>2. /\ pc[u] = "asleep" /\ sleeping = {u} /\ u # t
          /\ Threads = {t, u}
      BY <1>2, <2>1 DEF BarrierInv, Threads
    <2>3. /\ count' = 0 /\ sleeping' = {} /\ passed' = [passed EXCEPT ![t] = @ + 1]
          /\ pc' = [pc EXCEPT ![t] = back[t]]
      BY <1>1, <1>4 DEF Arrive, Passes
    <2>4. back[t] # "asleep" /\ back[u] # "asleep" /\ passed[t] \in Nat /\ passed[u] \in Nat
      BY DEF TypeOK, BehindBarrier
    <2>5. /\ pc'[t] = back[t] /\ pc'[u] = "asleep"
          /\ passed'[t] = passed[t] + 1 /\ passed'[u] = passed[u]
      BY <2>2, <2>3 DEF TypeOK
    <2>6. At(t) = "barrier" /\ At(u) = "barrier" /\ At(t)' = back[t] /\ At(u)' = back[u]
      BY <1>2, <2>2, <2>3, <2>4, <2>5 DEF At
    <2>7. /\ Rounds(t) = passed[t] /\ Rounds(u) = passed[u]
          /\ Rounds(t)' = passed[t] + 1 /\ Rounds(u)' = passed[u] + 1
      BY <1>2, <2>2, <2>3, <2>4, <2>5 DEF Rounds, Awoken
    <2>8. Rounds(Game)' = Rounds(Ls)'
      BY <2>2, <2>7 DEF BarrierInv, Threads
    <2>9. BarrierInv'
      BY <2>3, <2>8 DEF BarrierInv
    <2>10. passed' \in [Threads -> Nat]
      BY <2>3 DEF TypeOK
    <2> QED
      BY <1>2, <2>2, <2>3, <2>5, <2>6, <2>9, <2>10
  <1> QED
    BY <1>3, <1>4


(* A thread goes on only when it was woken up. *)
LEMMA GoesOnStep ==
    ASSUME ~SpuriousWakeUps, TypeOK, BarrierInv, NEW t \in Threads, GoesOn(t)
    PROVE  /\ BarrierInv'
           /\ UNCHANGED <<saving, back, mutex, flag, curr, mine, filled, buf, rest, size,
                          given, out>>
           /\ \A u \in Threads : At(u)' = At(u)
           /\ count' \in 0..1 /\ sleeping' \subseteq Threads /\ passed' \in [Threads -> Nat]
           /\ \A u \in Threads : pc'[u] \in {"barrier", "asleep"} =>
                                    pc[u] \in {"barrier", "asleep"}
           /\ \A u \in Threads : pc'[u] \in {pc[u], back[u]}
  <1>1. /\ pc[t] = "asleep" /\ t \notin sleeping
        /\ pc' = [pc EXCEPT ![t] = back[t]] /\ passed' = [passed EXCEPT ![t] = @ + 1]
        /\ UNCHANGED <<count, back>> /\ sleeping' = sleeping
    BY DEF GoesOn, Passes
  <1>2. UNCHANGED <<saving, back, mutex, flag, curr, mine, filled, buf, rest, size, given, out>>
    BY DEF GoesOn, flagVars, dataVars
  <1>3. ASSUME NEW u \in Threads
        PROVE  Rounds(u)' = Rounds(u) /\ At(u)' = At(u)
    <2>1. CASE u = t
      <3>1. pc'[u] = back[u] /\ back[u] # "asleep" /\ passed'[u] = passed[u] + 1
        BY <1>1, <2>1 DEF TypeOK, BehindBarrier
      <3> QED
        BY <1>1, <2>1, <3>1 DEF Rounds, Awoken, At, TypeOK
    <2>2. CASE u # t
      <3>1. pc'[u] = pc[u] /\ passed'[u] = passed[u]
        BY <1>1, <2>2 DEF TypeOK
      <3> QED
        BY <1>1, <3>1 DEF Rounds, Awoken, At
    <2> QED
      BY <2>1, <2>2
  <1>4. BarrierInv'
    BY <1>1, <1>3 DEF BarrierInv, TypeOK, Threads
  <1> QED
    BY <1>1, <1>2, <1>3, <1>4 DEF TypeOK

(* A thread that goes somewhere else. *)
LEMMA Moves ==
    ASSUME TypeOK, BarrierInv, UNCHANGED barrierVars,
           NEW t \in Threads, pc[t] # "asleep",
           NEW to \in Places \ {"asleep"}, Goes(t, to)
    PROVE  /\ BarrierInv' /\ pc' \in [Threads -> Places]
           /\ pc'[t] = to /\ At(t)' = to /\ back' = back
           /\ \A u \in Threads \ {t} : pc'[u] = pc[u] /\ At(u)' = At(u)
  <1>1. /\ pc' \in [Threads -> Places] /\ pc'[t] = to /\ back' = back
        /\ \A u \in Threads \ {t} : pc'[u] = pc[u]
    BY DEF Goes, TypeOK
  <1> QED
    BY <1>1, StepsOutside DEF At

(* A thread that goes to the barrier. *)
LEMMA MovesToBarrier ==
    ASSUME TypeOK, BarrierInv, UNCHANGED barrierVars,
           NEW t \in Threads, pc[t] # "asleep",
           NEW then \in BehindBarrier, GoesToBarrier(t, then)
    PROVE  /\ BarrierInv' /\ pc' \in [Threads -> Places] /\ back' \in [Threads -> BehindBarrier]
           /\ pc'[t] = "barrier" /\ At(t)' = "barrier" /\ back'[t] = then
           /\ \A u \in Threads \ {t} :
                 pc'[u] = pc[u] /\ back'[u] = back[u] /\ At(u)' = At(u)
  <1>1. /\ pc' \in [Threads -> Places] /\ back' \in [Threads -> BehindBarrier]
        /\ pc'[t] = "barrier" /\ back'[t] = then
        /\ \A u \in Threads \ {t} : pc'[u] = pc[u] /\ back'[u] = back[u]
    BY DEF GoesToBarrier, TypeOK, Places
  <1> QED
    BY <1>1, StepsOutside DEF At

-----------------------------------------------------------------------------
(***************************************************************************)
(* Saving.                                                                 *)
(***************************************************************************)

(* What is typed in the data of a saving game. *)
LEMMA SaveTypes ==
    ASSUME TypeOK, SaveData
    PROVE  /\ Older \in 0..1 /\ curr \in 0..1 /\ mine \in 0..1
           /\ Other(Older) \in 0..1 /\ Other(Older) # Older
           /\ Old \in Seq(Nat) /\ Len(Old) \in Nat
           /\ New \in Seq(Nat) /\ Len(New) \in 0..BufSize
           /\ Len(out) \in Nat /\ Len(out) + Len(Old) + Len(New) = given
  <1>1. /\ Older \in 0..1 /\ Other(Older) \in 0..1 /\ Other(Older) # Older
        /\ curr \in 0..1 /\ mine \in 0..1
    BY DEF TypeOK, Older, Other
  <1>2. Len(out) \in Nat /\ given \in Nat
    BY DEF TypeOK
  <1>3. Old \in Seq(Nat) /\ Len(Old) \in Nat
    BY <1>1, EmptySpan DEF TypeOK, Old
  <1>4. New \in Seq(Nat) /\ Len(New) \in 0..BufSize
    <2>1. New \in Seq(Nat) /\ Len(New) <= BufSize
      BY <1>1 DEF TypeOK, New
    <2> QED
      BY <2>1, LoadSaveAssumption DEF LoadSaveAssumption
  <1>5. Len(New) = given - (Len(out) + Len(Old))
    BY DEF SaveData, Span
  <1> QED
    BY <1>1, <1>2, <1>3, <1>4, <1>5

(* Writing appends to the newer bytes. *)
LEMMA WriteStep ==
    ASSUME IInv, NEW n \in 1..BufSize, Write(n)
    PROVE  IInv'
  <1> DEFINE fits == BufSize - Len(buf[curr])
             now  == Least(n, fits)
  <1>1. /\ saving /\ saving' = saving /\ pc[Game] = "use" /\ At(Game) = "use"
        /\ UNCHANGED <<count, sleeping, passed, mutex, flag, curr, mine, filled, size, out>>
        /\ buf' = [buf EXCEPT ![curr] = @ \o Bytes(given, now)]
        /\ given' = given + now /\ rest' = n - now
        /\ \/ pc' = pc /\ back' = back
           \/ GoesToBarrier(Game, "switch")
    BY DEF Write, barrierVars, flagVars, At
  <1>2. TypeOK /\ BarrierInv /\ SavePlaces /\ SaveData /\ Span(out, 0, Len(out))
    BY <1>1 DEF IInv
  <1>3. /\ Older = mine \/ Older = Other(mine)
        /\ curr = Other(Older) /\ New = buf[curr]
    <2>1. Older # curr
      BY <1>1, <1>2 DEF SaveData, Bound
    <2>2. curr = Other(Older)
      BY <1>2, <2>1, SaveTypes DEF Other
    <2> QED
      BY <2>2 DEF Older, New
  <1>4. now \in 0..BufSize /\ n - now \in 0..BufSize /\ Len(New) + now <= BufSize
    <2>1. Len(buf[curr]) \in 0..BufSize /\ Len(New) = Len(buf[curr])
      BY <1>2, <1>3, SaveTypes
    <2>2. BufSize \in Nat
      BY LoadSaveAssumption DEF LoadSaveAssumption
    <2>3. n \in Nat /\ n <= BufSize /\ fits \in Nat /\ fits = BufSize - Len(New)
      BY <2>1, <2>2
    <2>4. now \in Nat /\ now <= n /\ now <= fits
      BY <2>3, LeastOfTwo
    <2> HIDE DEF now, fits
    <2> QED
      BY <2>1, <2>2, <2>3, <2>4
  <1>5. /\ BarrierInv' /\ At(Ls)' = At(Ls)
        /\ \/ At(Game)' = "use"
           \/ At(Game)' = "barrier" /\ back'[Game] = "switch"
        /\ pc'[Ls] = pc[Ls] /\ back'[Ls] = back[Ls]
        /\ pc'[Game] \in {"barrier", "asleep"} => back'[Game] = "switch"
    BY <1>1, <1>2, StepsOutside DEF GoesToBarrier, barrierVars, TypeOK, Threads, Game, Ls, At
  <1>6. Older' = Older /\ Old' = Old /\ New' = New \o Bytes(given, now)
    BY <1>1, <1>2, <1>3, <1>5, SaveTypes DEF Older, Old, New, Other, TypeOK
  <1>7. Span(New', Len(out) + Len(Old), given')
    <2>1. given \in Nat /\ now \in Nat /\ given' = given + now /\ given' \in Nat
      BY <1>1, <1>2, <1>4 DEF TypeOK
    <2>2. Span(Bytes(given, now), given, given')
      BY <2>1, BytesAreASpan
    <2>3. Len(out) + Len(Old) \in Nat
      BY <1>2, SaveTypes
    <2>4. Span(New, Len(out) + Len(Old), given)
      BY <1>2 DEF SaveData
    <2> QED
      BY <1>6, <2>1, <2>2, <2>3, <2>4, JoinSpans
  <1>8. New' \in Seq(Nat) /\ Len(New') <= BufSize
    <2>1. Len(New') = given' - (Len(out) + Len(Old)) /\ New' \in Seq(Nat)
      BY <1>7 DEF Span
    <2>2. Len(New) = given - (Len(out) + Len(Old)) /\ given' = given + now
      BY <1>1, <1>2 DEF SaveData, Span
    <2>3. given \in Nat /\ Len(out) + Len(Old) \in Nat /\ now \in Nat /\ BufSize \in Nat
      BY <1>2, <1>4, SaveTypes, LoadSaveAssumption DEF TypeOK, LoadSaveAssumption
    <2> QED
      BY <1>4, <2>1, <2>2, <2>3
  <1>9. TypeOK'
    <2>1. pc' \in [Threads -> Places] /\ back' \in [Threads -> BehindBarrier]
      BY <1>1, <1>2 DEF TypeOK, GoesToBarrier, Places, BehindBarrier
    <2>2. buf' \in [0..1 -> Seq(Nat)] /\ \A b \in 0..1 : Len(buf'[b]) <= BufSize
      BY <1>1, <1>2, <1>3, <1>6, <1>8 DEF TypeOK
    <2>3. rest' \in 0..BufSize /\ given' \in Nat
      BY <1>1, <1>2, <1>4 DEF TypeOK
    <2>4. /\ saving' \in BOOLEAN /\ count' \in 0..1 /\ sleeping' \subseteq Threads
          /\ passed' \in [Threads -> Nat] /\ mutex' \in {Ls, Nobody} /\ flag' \in {-1, 0, 1}
          /\ curr' \in 0..1 /\ mine' \in 0..1 /\ filled' \in BOOLEAN
          /\ size' \in Nat /\ out' \in Seq(Nat)
      BY <1>1, <1>2 DEF TypeOK
    <2> QED
      BY <2>1, <2>2, <2>3, <2>4 DEF TypeOK
  <1>10. SavePlaces'
    BY <1>1, <1>2, <1>5 DEF SavePlaces
  <1>11. SaveData'
    <2>1. At(Ls) \in {"barrier", "done"} => buf'[mine] = <<>>
      BY <1>1, <1>2, <1>3, SaveTypes DEF SaveData, Older, Other, TypeOK
    <2>2. Older # curr
      BY <1>3, <1>2, SaveTypes
    <2> QED
      BY <1>1, <1>2, <1>5, <1>6, <1>7, <2>1, <2>2 DEF SaveData, Bound
  <1> QED
    BY <1>1, <1>2, <1>5, <1>9, <1>10, <1>11 DEF IInv

(* The rest of a write goes to the buffer that was emptied. *)
LEMMA SwitchAndWriteStep ==
    ASSUME IInv, SwitchAndWrite
    PROVE  IInv'
  <1>1. /\ saving /\ saving' = saving /\ pc[Game] = "switch" /\ At(Game) = "switch"
        /\ UNCHANGED <<count, sleeping, passed, mutex, flag, mine, filled, size, out>>
        /\ curr' = Other(curr)
        /\ buf' = [buf EXCEPT ![Other(curr)] = @ \o Bytes(given, rest)]
        /\ given' = given + rest /\ rest' = 0
        /\ Goes(Game, "use")
    BY DEF SwitchAndWrite, barrierVars, flagVars, At
  <1>2. TypeOK /\ BarrierInv /\ SavePlaces /\ SaveData /\ Span(out, 0, Len(out))
    BY <1>1 DEF IInv
  <1>3. Older = curr /\ New = <<>> /\ New = buf[Other(curr)]
    BY <1>1, <1>2 DEF SaveData, New
  <1>4. /\ BarrierInv' /\ pc' \in [Threads -> Places] /\ back' = back
        /\ pc'[Game] = "use" /\ At(Game)' = "use" /\ pc'[Ls] = pc[Ls] /\ At(Ls)' = At(Ls)
    BY <1>1, <1>2, Moves DEF barrierVars, Places, Threads, Game, Ls
  <1>5. Older' = Older /\ Old' = Old /\ New' = New \o Bytes(given, rest)
    BY <1>1, <1>2, <1>3, <1>4, SaveTypes DEF Older, Old, New, Other, TypeOK
  <1>6. /\ given \in Nat /\ rest \in Nat /\ rest <= BufSize /\ given' \in Nat /\ BufSize \in Nat
        /\ Len(out) + Len(Old) \in Nat
    BY <1>1, <1>2, SaveTypes, LoadSaveAssumption DEF TypeOK, LoadSaveAssumption
  <1>7. Span(New', Len(out) + Len(Old), given')
    <2>1. Span(Bytes(given, rest), given, given')
      BY <1>1, <1>6, BytesAreASpan
    <2>2. Span(New, Len(out) + Len(Old), given)
      BY <1>2 DEF SaveData
    <2> QED
      BY <1>5, <1>6, <2>1, <2>2, JoinSpans
  <1>8. New' \in Seq(Nat) /\ Len(New') <= BufSize
    <2>1. Len(New') = given' - (Len(out) + Len(Old)) /\ New' \in Seq(Nat)
      BY <1>7 DEF Span
    <2>2. 0 = given - (Len(out) + Len(Old))
      BY <1>2, <1>3 DEF SaveData, Span
    <2> QED
      BY <1>1, <1>6, <2>1, <2>2
  <1>9. TypeOK'
    <2>1. buf' \in [0..1 -> Seq(Nat)] /\ \A b \in 0..1 : Len(buf'[b]) <= BufSize
      BY <1>1, <1>2, <1>3, <1>5, <1>8 DEF TypeOK
    <2>2. curr' \in 0..1 /\ rest' \in 0..BufSize
      BY <1>1, <1>2, <1>6 DEF TypeOK, Other
    <2> QED
      BY <1>1, <1>2, <1>4, <1>6, <2>1, <2>2 DEF TypeOK
  <1>10. SavePlaces'
    BY <1>1, <1>2, <1>4 DEF SavePlaces
  <1>11. SaveData'
    <2>1. At(Ls) \in {"barrier", "done"} => buf'[mine] = <<>>
      BY <1>1, <1>2, <1>3, SaveTypes DEF SaveData, Older, Other, TypeOK
    <2>2. Older # curr'
      BY <1>1, <1>2, <1>3, SaveTypes
    <2> QED
      BY <1>1, <1>2, <1>4, <1>5, <1>7, <2>1, <2>2 DEF SaveData, Bound
  <1> QED
    BY <1>1, <1>2, <1>4, <1>9, <1>10, <1>11 DEF IInv

(* Closing comes to the barrier twice and leaves the buffers alone. *)
LEMMA EndSavingSteps ==
    ASSUME IInv, EndSaving \/ EndAgain
    PROVE  IInv'
  <1>1. /\ UNCHANGED <<saving, count, sleeping, passed, mutex, flag, curr, mine, filled, rest,
                       buf, size, given, out>>
        /\ \/ saving /\ pc[Game] = "use" /\ GoesToBarrier(Game, "again")
           \/ pc[Game] = "again" /\ GoesToBarrier(Game, "join")
        /\ At(Game) = pc[Game]
    BY DEF EndSaving, EndAgain, barrierVars, flagVars, dataVars, At
  <1>2. saving /\ TypeOK /\ BarrierInv /\ SavePlaces /\ SaveData /\ Span(out, 0, Len(out))
    BY <1>1 DEF IInv, LoadPlaces
  <1>3. /\ BarrierInv' /\ pc' \in [Threads -> Places] /\ back' \in [Threads -> BehindBarrier]
        /\ At(Game)' = "barrier" /\ pc'[Game] = "barrier"
        /\ back'[Game] = IF pc[Game] = "use" THEN "again" ELSE "join"
        /\ pc'[Ls] = pc[Ls] /\ At(Ls)' = At(Ls) /\ back'[Ls] = back[Ls]
    BY <1>1, <1>2, MovesToBarrier DEF barrierVars, BehindBarrier, Threads, Game, Ls
  <1>4. Older' = Older /\ Old' = Old /\ New' = New
    BY <1>1, <1>3 DEF Older, Old, New
  <1>5. TypeOK'
    BY <1>1, <1>2, <1>3 DEF TypeOK
  <1>6. SavePlaces'
    BY <1>1, <1>2, <1>3 DEF SavePlaces
  <1>7. SaveData'
    BY <1>1, <1>2, <1>3, <1>4 DEF SaveData, Bound
  <1> QED
    BY <1>1, <1>2, <1>3, <1>5, <1>6, <1>7 DEF IInv

(* The thread takes the buffer with the older bytes, or ends. *)
LEMMA TakeBufferStep ==
    ASSUME IInv, TakeBuffer
    PROVE  IInv'
  <1> DEFINE next == NextToFlush(mine)
             to   == IF buf[next] = <<>> THEN "done" ELSE "flush"
  <1>1. /\ UNCHANGED <<saving, count, sleeping, passed, mutex, flag, curr, filled, rest,
                       buf, size, given, out>>
        /\ pc[Ls] = "look" /\ At(Ls) = "look"
        /\ mine' = Other(mine) /\ next = Other(mine)
        /\ Goes(Ls, to)
    BY DEF TakeBuffer, NextToFlush, barrierVars, flagVars, dataVars, At
  <1>2. saving /\ TypeOK /\ BarrierInv /\ SavePlaces /\ SaveData /\ Span(out, 0, Len(out))
    BY <1>1 DEF IInv, LoadPlaces
  <1>3. /\ BarrierInv' /\ pc' \in [Threads -> Places] /\ back' = back
        /\ At(Ls)' = to /\ pc'[Ls] = to /\ pc'[Game] = pc[Game] /\ At(Game)' = At(Game)
    BY <1>1, <1>2, Moves DEF barrierVars, Places, Threads, Game, Ls
  <1>4. /\ Older = Other(mine) /\ Old = buf[Other(mine)]
        /\ Older' = Older /\ Old' = Old /\ New' = New
        /\ to = "done" <=> Old = <<>>
    BY <1>1, <1>3 DEF Older, Old, New
  <1>5. TypeOK'
    BY <1>1, <1>2, <1>3 DEF TypeOK, Other
  <1>6. SavePlaces'
    BY <1>1, <1>2, <1>3, <1>4 DEF SavePlaces, SaveData
  <1>7. SaveData'
    BY <1>1, <1>2, <1>3, <1>4 DEF SaveData, Bound
  <1> QED
    BY <1>1, <1>2, <1>3, <1>5, <1>6, <1>7 DEF IInv

(* The older bytes follow those of the file. *)
LEMMA FlushStep ==
    ASSUME IInv, Flush
    PROVE  IInv'
  <1>1. /\ UNCHANGED <<saving, count, sleeping, passed, mutex, flag, curr, mine, filled, rest,
                       buf, size, given>>
        /\ pc[Ls] = "flush" /\ At(Ls) = "flush"
        /\ out' = out \o buf[mine]
        /\ Goes(Ls, "flushed")
    BY DEF Flush, barrierVars, flagVars, At
  <1>2. saving /\ TypeOK /\ BarrierInv /\ SavePlaces /\ SaveData /\ Span(out, 0, Len(out))
    BY <1>1 DEF IInv, LoadPlaces
  <1>3. /\ BarrierInv' /\ pc' \in [Threads -> Places] /\ back' = back
        /\ At(Ls)' = "flushed" /\ pc'[Ls] = "flushed"
        /\ pc'[Game] = pc[Game] /\ At(Game)' = At(Game)
    BY <1>1, <1>2, Moves DEF barrierVars, Places, Threads, Game, Ls
  <1>4. Old = buf[mine] /\ Older' = Older /\ Old' = <<>> /\ New' = New
    BY <1>1, <1>3 DEF Older, Old, New
  <1>5. /\ Len(out) \in Nat /\ Len(Old) \in Nat /\ Len(out) + Len(Old) \in Nat
        /\ out \in Seq(Nat) /\ Old \in Seq(Nat)
    BY <1>2, SaveTypes DEF TypeOK
  <1>6. out' = out \o Old /\ Len(out') = Len(out) + Len(Old)
    BY <1>1, <1>4, <1>5
  <1>7. Span(out', 0, Len(out'))
    BY <1>2, <1>5, <1>6, JoinSpans DEF SaveData
  <1>8. TypeOK'
    <2>1. out' \in Seq(Nat)
      BY <1>5, <1>6
    <2> QED
      BY <1>1, <1>2, <1>3, <2>1 DEF TypeOK
  <1>9. SavePlaces'
    BY <1>1, <1>2, <1>3 DEF SavePlaces
  <1>10. SaveData'
    <2>1. Len(Old') = 0 /\ Len(out') + Len(Old') = Len(out) + Len(Old)
      BY <1>4, <1>5, <1>6
    <2>2. Span(Old', Len(out'), Len(out') + Len(Old'))
      BY <1>4, <1>5, <1>6, <2>1, EmptySpan
    <2> QED
      BY <1>1, <1>2, <1>3, <1>4, <1>6, <2>1, <2>2 DEF SaveData, Bound
  <1> QED
    BY <1>1, <1>2, <1>3, <1>7, <1>8, <1>9, <1>10 DEF IInv

(* Then the buffer is empty. *)
LEMMA FlushedStep ==
    ASSUME IInv, Flushed
    PROVE  IInv'
  <1>1. /\ UNCHANGED <<saving, count, sleeping, passed, mutex, flag, curr, mine, filled, rest,
                       size, given, out>>
        /\ pc[Ls] = "flushed" /\ At(Ls) = "flushed"
        /\ buf' = [buf EXCEPT ![mine] = <<>>]
        /\ GoesToBarrier(Ls, "look")
    BY DEF Flushed, barrierVars, flagVars, At
  <1>2. saving /\ TypeOK /\ BarrierInv /\ SavePlaces /\ SaveData /\ Span(out, 0, Len(out))
    BY <1>1 DEF IInv, LoadPlaces
  <1>3. /\ BarrierInv' /\ pc' \in [Threads -> Places] /\ back' \in [Threads -> BehindBarrier]
        /\ At(Ls)' = "barrier" /\ pc'[Ls] = "barrier" /\ back'[Ls] = "look"
        /\ pc'[Game] = pc[Game] /\ At(Game)' = At(Game) /\ back'[Game] = back[Game]
    BY <1>1, <1>2, MovesToBarrier DEF barrierVars, BehindBarrier, Threads, Game, Ls
  <1>4. Older = mine /\ Older' = Older /\ Old = <<>> /\ Old' = Old /\ New' = New
    BY <1>1, <1>2, <1>3, SaveTypes DEF Older, Old, New, TypeOK
  <1>5. TypeOK'
    <2>1. buf' \in [0..1 -> Seq(Nat)] /\ \A b \in 0..1 : Len(buf'[b]) <= BufSize
      BY <1>1, <1>2, LoadSaveAssumption DEF TypeOK, LoadSaveAssumption
    <2> QED
      BY <1>1, <1>2, <1>3, <2>1 DEF TypeOK
  <1>6. SavePlaces'
    BY <1>1, <1>2, <1>3 DEF SavePlaces
  <1>7. SaveData'
    <2>1. buf'[mine'] = <<>>
      BY <1>1, <1>2 DEF TypeOK
    <2> QED
      BY <1>1, <1>2, <1>3, <1>4, <2>1 DEF SaveData, Bound
  <1> QED
    BY <1>1, <1>2, <1>3, <1>5, <1>6, <1>7 DEF IInv

(* Behind the barrier the newer bytes have become the older ones. *)
LEMMA BarrierSavesStep ==
    ASSUME ~SpuriousWakeUps, IInv, saving, NEW t \in Threads, Arrive(t) \/ GoesOn(t)
    PROVE  IInv'
  <1>1. TypeOK /\ BarrierInv /\ SavePlaces /\ SaveData /\ Span(out, 0, Len(out))
    BY DEF IInv
  <1>2. /\ BarrierInv'
        /\ UNCHANGED <<saving, back, mutex, flag, curr, mine, filled, buf, rest, size,
                       given, out>>
        /\ \/ \A u \in Threads : At(u)' = At(u)
           \/ \A u \in Threads : At(u) = "barrier" /\ At(u)' = back[u]
        /\ count' \in 0..1 /\ sleeping' \subseteq Threads /\ passed' \in [Threads -> Nat]
        /\ \A u \in Threads : pc'[u] \in {"barrier", "asleep"} =>
                                 pc[u] \in {"barrier", "asleep"}
    BY <1>1, ArriveStep, GoesOnStep
  <1>3. TypeOK'
    <2>1. pc' \in [Threads -> Places]
      BY <1>1 DEF TypeOK, Arrive, GoesOn, Passes, Places, BehindBarrier
    <2> QED
      BY <1>1, <1>2, <2>1 DEF TypeOK
  <1>4. Game \in Threads /\ Ls \in Threads
    BY DEF Threads
  <1>5. CASE \A u \in Threads : At(u)' = At(u)
    <2>1. Older' = Older /\ Old' = Old /\ New' = New
      BY <1>2, <1>4, <1>5 DEF Older, Old, New
    <2>2. SavePlaces'
      BY <1>1, <1>2, <1>4, <1>5 DEF SavePlaces
    <2>3. SaveData'
      BY <1>1, <1>2, <1>4, <1>5, <2>1 DEF SaveData, Bound
    <2> QED
      BY <1>1, <1>2, <1>3, <2>2, <2>3 DEF IInv
  <1>6. CASE \A u \in Threads : At(u) = "barrier" /\ At(u)' = back[u]
    <2>1. /\ At(Game) = "barrier" /\ At(Ls) = "barrier"
          /\ pc[Game] \in {"barrier", "asleep"} /\ pc[Ls] \in {"barrier", "asleep"}
      BY <1>4, <1>6 DEF At
    <2>2. /\ At(Ls)' = "look" /\ At(Game)' = back[Game]
          /\ back[Game] \in {"switch", "again", "join"}
      BY <1>1, <1>4, <1>6, <2>1 DEF SavePlaces
    <2>3. Older = mine /\ Older' = Other(mine) /\ Old = <<>> /\ buf[mine] = <<>>
      BY <1>1, <1>2, <2>1, <2>2 DEF Older, Old, SaveData
    <2>4. Old' = New /\ New' = <<>>
      BY <1>1, <1>2, <2>2, <2>3 DEF Old, New, Other, TypeOK
    <2>5. /\ Len(out) \in Nat /\ given \in Nat /\ Len(out) + Len(Old) = Len(out)
          /\ Len(New) = given - Len(out) /\ Len(out) + Len(New) = given
      BY <1>1, <2>3, SaveTypes DEF TypeOK
    <2>6. SavePlaces'
      BY <1>1, <1>2, <1>4, <2>2, <2>3 DEF SavePlaces
    <2>7. SaveData'
      <3>1. Span(Old', Len(out'), Len(out') + Len(Old'))
        BY <1>1, <1>2, <2>4, <2>5 DEF SaveData
      <3>2. Span(New', Len(out') + Len(Old'), given')
        BY <1>1, <1>2, <2>4, <2>5, EmptySpan
      <3>3. Older' = curr' <=> back[Game] # "join"
        BY <1>1, <1>2, <2>1, <2>2, <2>3, SaveTypes DEF SaveData, Bound, Other
      <3>4. back[Game] = "join" => Old' = <<>>
        BY <1>1, <2>1, <2>4 DEF SaveData, Bound
      <3> QED
        BY <1>2, <2>2, <2>4, <3>1, <3>2, <3>3, <3>4 DEF SaveData, Bound
    <2> QED
      BY <1>1, <1>2, <1>3, <2>6, <2>7 DEF IInv
  <1> QED
    BY <1>2, <1>5, <1>6

-----------------------------------------------------------------------------
(***************************************************************************)
(* Loading.                                                                *)
(***************************************************************************)

(* What is typed in the data of a loading game. *)
LEMMA LoadTypes ==
    ASSUME TypeOK
    PROVE  /\ curr \in 0..1 /\ mine \in 0..1 /\ Other(curr) \in 0..1 /\ Other(curr) # curr
           /\ mine # curr => mine = Other(curr)
           /\ Other(mine) \in 0..1 /\ Other(Other(curr)) = curr
           /\ First \in Seq(Nat) /\ Len(First) \in 0..BufSize
           /\ Second \in Seq(Nat) /\ Len(Second) \in 0..BufSize
           /\ out \in Seq(Nat) /\ Len(out) \in Nat /\ BufSize \in Nat /\ BufSize > 0
           /\ given \in Nat /\ size \in Nat /\ rest \in Nat /\ rest <= BufSize
  <1>1. /\ curr \in 0..1 /\ mine \in 0..1 /\ Other(curr) \in 0..1 /\ Other(curr) # curr
        /\ mine # curr => mine = Other(curr)
        /\ Other(mine) \in 0..1 /\ Other(Other(curr)) = curr
    BY DEF TypeOK, Other
  <1>2. BufSize \in Nat /\ BufSize > 0
    BY LoadSaveAssumption DEF LoadSaveAssumption
  <1>3. \A b \in 0..1 : buf[b] \in Seq(Nat) /\ Len(buf[b]) \in 0..BufSize
    BY <1>2 DEF TypeOK
  <1>4. First \in Seq(Nat) /\ Len(First) \in 0..BufSize
    BY <1>1, <1>3 DEF First
  <1>5. Second \in Seq(Nat) /\ Len(Second) \in 0..BufSize
    <2>1. <<>> \in Seq(Nat) /\ Len(<<>>) \in 0..BufSize
      BY <1>2
    <2> QED
      BY <1>1, <1>3, <2>1 DEF Second
  <1> QED
    BY <1>1, <1>2, <1>4, <1>5 DEF TypeOK

(* Reading takes the first of the bytes that are there. *)
LEMMA ReadStep ==
    ASSUME IInv, NEW n \in 1..BufSize, Read(n)
    PROVE  IInv'
  <1> DEFINE there == Len(buf[curr])
             now   == Least(n, there)
  <1>1. /\ ~saving /\ saving' = saving /\ pc[Game] = "use" /\ At(Game) = "use"
        /\ UNCHANGED <<count, sleeping, passed, mutex, flag, curr, mine, filled, size, given>>
        /\ out' = out \o SubSeq(buf[curr], 1, now)
        /\ buf' = [buf EXCEPT ![curr] = SubSeq(@, now + 1, Len(@))]
        /\ rest' = n - now
        /\ \/ n <= there /\ pc' = pc /\ back' = back
           \/ n > there /\ GoesToBarrier(Game, "more")
    <2>1. n \in Nat /\ there \in Nat
      BY LoadTypes, LoadSaveAssumption DEF IInv, TypeOK, LoadSaveAssumption
    <2> QED
      BY <2>1 DEF Read, barrierVars, flagVars, At
  <1>2. /\ TypeOK /\ BarrierInv /\ Span(out, 0, Len(out))
        /\ LoadPlaces /\ LoadFlag /\ LoadData
    BY <1>1 DEF IInv
  <1>3. /\ First = buf[curr] /\ ~Switching
        /\ Span(First, Len(out), Len(out) + Len(First))
    BY <1>1, <1>2 DEF First, Switching, LoadData
  <1>4. /\ now \in Nat /\ now <= Len(First) /\ now \in 0..Len(First)
        /\ n \in Nat /\ n - now \in 0..BufSize /\ there = Len(First)
        /\ n > there => now = there /\ n - now > 0
    <2>1. n \in Nat /\ n <= BufSize /\ there \in Nat /\ there = Len(First)
      BY <1>2, <1>3, LoadTypes
    <2>2. now \in Nat /\ now <= n /\ now <= there /\ (now = n \/ now = there)
      BY <2>1, LeastOfTwo
    <2>3. BufSize \in Nat
      BY <1>2, LoadTypes
    <2> HIDE DEF now, there
    <2> QED
      BY <2>1, <2>2, <2>3
  <1> HIDE DEF now, there
  <1>5. /\ BarrierInv' /\ At(Ls)' = At(Ls) /\ pc'[Ls] = pc[Ls] /\ back'[Ls] = back[Ls]
        /\ \/ n <= there /\ At(Game)' = "use" /\ pc'[Game] = "use"
           \/ n > there /\ At(Game)' = "barrier" /\ back'[Game] = "more"
        /\ pc' \in [Threads -> Places] /\ back' \in [Threads -> BehindBarrier]
    <2>1. CASE n <= there /\ pc' = pc /\ back' = back
      BY <1>1, <1>2, <2>1, StepsOutside DEF barrierVars, TypeOK, Threads, Game, Ls, At
    <2>2. CASE n > there /\ GoesToBarrier(Game, "more")
      BY <1>1, <1>2, <2>2, MovesToBarrier DEF barrierVars, BehindBarrier, Threads, Game, Ls
    <2> QED
      BY <1>1, <2>1, <2>2
  <1>6. /\ ~Switching' /\ First' = SubSeq(First, now + 1, Len(First)) /\ Second' = Second
    BY <1>1, <1>2, <1>3, <1>5, LoadTypes DEF First, Second, Switching, TypeOK
  <1>7. /\ Span(SubSeq(First, 1, now), Len(out), Len(out) + now)
        /\ Span(First', Len(out) + now, Len(out) + Len(First))
    <2>1. Len(out) \in Nat /\ Len(First) \in Nat
      BY <1>2, LoadTypes
    <2>2. Len(out) + Len(First) \in Nat
      BY <2>1
    <2>3. Span(SubSeq(First, now + 1, Len(First)), Len(out) + now, Len(out) + Len(First))
      BY <1>3, <1>4, <2>1, <2>2, CutSpan
    <2>4. Span(SubSeq(First, 1, now), Len(out), Len(out) + now)
      BY <1>3, <1>4, <2>1, <2>2, CutSpan
    <2> QED
      BY <1>6, <2>3, <2>4
  <1>8. /\ out' \in Seq(Nat) /\ Len(out') = Len(out) + now /\ Span(out', 0, Len(out'))
        /\ First' \in Seq(Nat) /\ Len(First') = Len(First) - now
        /\ Len(out') + Len(First') = Len(out) + Len(First)
    <2>0. Len(out) \in Nat /\ out \in Seq(Nat) /\ Len(First) \in Nat
      BY <1>2, LoadTypes
    <2>1. now \in Nat /\ Len(out) + now \in Nat
      BY <1>4, <2>0
    <2>2. Span(out', 0, Len(out) + now)
      BY <1>1, <1>2, <1>3, <1>7, <2>0, <2>1, JoinSpans
    <2>3. out' \in Seq(Nat) /\ Len(out') = Len(out) + now
      BY <2>0, <2>1, <2>2 DEF Span
    <2>4. First' \in Seq(Nat) /\ Len(First') = Len(First) - now
      BY <1>7, <2>0, <2>1 DEF Span
    <2> QED
      BY <2>0, <2>1, <2>2, <2>3, <2>4
  <1>9. TypeOK'
    <2>1. buf' \in [0..1 -> Seq(Nat)] /\ \A b \in 0..1 : Len(buf'[b]) <= BufSize
      <3>1. Len(First') <= BufSize
        BY <1>2, <1>4, <1>8, LoadTypes
      <3>2. buf' = [buf EXCEPT ![curr] = First']
        BY <1>1, <1>3, <1>6
      <3> QED
        BY <1>2, <1>8, <3>1, <3>2 DEF TypeOK
    <2> QED
      BY <1>1, <1>2, <1>4, <1>5, <1>8, <2>1 DEF TypeOK
  <1>10. LoadPlaces'
    BY <1>1, <1>2, <1>5 DEF LoadPlaces
  <1>11. LoadFlag'
    BY <1>1, <1>2, <1>5 DEF LoadFlag
  <1>12. LoadData'
    <2>1. ~filled /\ At(Ls) \in {"lock", "barrier", "flag", "waits", "woken", "done"}
             => buf'[mine] = <<>> /\ given = size
      <3>1. SUFFICES ASSUME ~filled,
                            At(Ls) \in {"lock", "barrier", "flag", "waits", "woken", "done"}
                     PROVE  buf'[mine] = <<>> /\ given = size
        OBVIOUS
      <3>2. flag = 0
        BY <1>1, <1>2, <3>1 DEF LoadFlag, TypeOK
      <3>3. mine # curr
        BY <1>1, <1>2, <1>3, <3>2 DEF LoadData
      <3> QED
        BY <1>1, <1>2, <3>1, <3>3 DEF LoadData, TypeOK
    <2>2. n > there => First' = <<>>
      <3>1. n > there => Len(First') = 0
        BY <1>2, <1>4, <1>8, LoadTypes
      <3> QED
        BY <1>8, <3>1
    <2>3. First' = buf'[curr]
      BY <1>1, <1>6 DEF First, Switching
    <2>4. /\ Span(First', Len(out'), Len(out') + Len(First'))
          /\ Span(Second', Len(out') + Len(First'), given')
      BY <1>1, <1>2, <1>6, <1>7, <1>8 DEF LoadData
    <2> QED
      BY <1>1, <1>2, <1>3, <1>4, <1>5, <1>6, <2>1, <2>2, <2>3, <2>4
         DEF LoadData, Bound, Switching
  <1> QED
    BY <1>1, <1>2, <1>5, <1>8, <1>9, <1>10, <1>11, <1>12 DEF IInv

(* The reader waits for the flag when the game has the mutex. *)
LEMMA ReaderWaits ==
    ASSUME TypeOK, LoadPlaces, LoadFlag, At(Game) \in {"more", "stop"}, mutex = Nobody
    PROVE  At(Ls) = "waits" /\ pc[Ls] = "waits" /\ flag = 0
  <1>1. At(Ls) \in {"flag", "waits"} /\ flag = 0
    BY DEF LoadFlag
  <1>2. At(Ls) = "waits"
    BY <1>1 DEF LoadPlaces, Nobody, Ls
  <1>3. pc[Ls] = "waits"
    BY <1>2 DEF At, LoadPlaces
  <1> QED
    BY <1>1, <1>2, <1>3

(* The game asks for more when it has read everything in its buffer. *)
LEMMA AskForMoreStep ==
    ASSUME IInv, AskForMore
    PROVE  IInv'
  <1>1. /\ pc[Game] = "more" /\ At(Game) = "more" /\ mutex = Nobody
        /\ UNCHANGED <<saving, back, count, sleeping, passed, mutex, curr, mine, filled, rest,
                       buf, size, given, out>>
    BY DEF AskForMore, barrierVars, dataVars, At
  <1>2. /\ ~saving /\ TypeOK /\ BarrierInv /\ Span(out, 0, Len(out))
        /\ LoadPlaces /\ LoadFlag /\ LoadData
    BY <1>1 DEF IInv, SavePlaces
  <1>3. At(Ls) = "waits" /\ pc[Ls] = "waits" /\ flag = 0
    BY <1>1, <1>2, ReaderWaits
  <1>4. flag' = 1 /\ pc' = [pc EXCEPT ![Game] = "switch", ![Ls] = "woken"]
    BY <1>3 DEF AskForMore
  <1>5. /\ BarrierInv' /\ pc' \in [Threads -> Places]
        /\ At(Game)' = "switch" /\ At(Ls)' = "woken"
        /\ pc'[Game] = "switch" /\ pc'[Ls] = "woken"
    <2>1. /\ pc' \in [Threads -> Places] /\ pc'[Game] = "switch" /\ pc'[Ls] = "woken"
      BY <1>2, <1>4 DEF TypeOK, Places, Threads, Game, Ls
    <2> QED
      BY <1>1, <1>2, <1>3, <2>1, StepsOutside DEF barrierVars, Threads
  <1>6. TypeOK'
    BY <1>1, <1>2, <1>4, <1>5 DEF TypeOK
  <1>7. LoadPlaces' /\ LoadFlag'
    BY <1>1, <1>2, <1>3, <1>4, <1>5 DEF LoadPlaces, LoadFlag, Nobody, Ls
  <1>8. /\ First = <<>> /\ Second = buf[Other(curr)] /\ mine # curr /\ rest > 0
        /\ First' = Second /\ Second' = <<>> /\ Switching'
    BY <1>1, <1>2, <1>3, <1>4, <1>5 DEF LoadData, First, Second, Switching
  <1>9. /\ Span(First', Len(out'), Len(out') + Len(First'))
        /\ Span(Second', Len(out') + Len(First'), given')
        /\ Len(out') + Len(First') = given
    <2>1. Len(out) \in Nat /\ Len(Second) \in Nat /\ given \in Nat /\ Len(First) = 0
      BY <1>2, <1>8, LoadTypes
    <2>2. Span(Second, Len(out) + Len(First), given)
      BY <1>1, <1>2 DEF LoadData
    <2>3. Len(out) + Len(First) = Len(out)
      BY <2>1
    <2>4. Len(Second) = given - Len(out)
      BY <2>2, <2>3 DEF Span
    <2>5. Len(out) + Len(Second) = given
      BY <2>1, <2>4
    <2> QED
      BY <1>1, <1>8, <2>1, <2>2, <2>3, <2>5, EmptySpan
  <1>10. LoadData'
    <2>1. Len(Second) < BufSize => given = size
      BY <1>1, <1>2, <1>3 DEF LoadData
    <2> QED
      BY <1>1, <1>2, <1>3, <1>4, <1>5, <1>8, <1>9, <2>1 DEF LoadData, Bound
  <1> QED
    BY <1>1, <1>2, <1>5, <1>6, <1>7, <1>10 DEF IInv

(* The rest of a read comes from the other buffer, if that has enough. *)
LEMMA SwitchAndReadStep ==
    ASSUME IInv, SwitchAndRead
    PROVE  IInv'
  <1> DEFINE next   == buf[Other(curr)]
             enough == Enough(rest, next)
             to     == IF enough THEN "use" ELSE "fatal"
  <1>1. /\ ~saving /\ saving' = saving /\ pc[Game] = "switch" /\ At(Game) = "switch"
        /\ UNCHANGED <<count, sleeping, passed, mutex, flag, mine, filled, size, given>>
        /\ curr' = Other(curr) /\ Goes(Game, to)
        /\ enough => /\ out' = out \o SubSeq(next, 1, rest) /\ rest' = 0
                     /\ buf' = [buf EXCEPT ![Other(curr)] = SubSeq(next, rest + 1, Len(next))]
        /\ ~enough => out' = out /\ buf' = buf /\ rest' = rest
    BY DEF SwitchAndRead, barrierVars, flagVars, At
  <1>2. /\ TypeOK /\ BarrierInv /\ Span(out, 0, Len(out))
        /\ LoadPlaces /\ LoadFlag /\ LoadData
    BY <1>1 DEF IInv
  <1>3. /\ Switching /\ First = next
        /\ Span(First, Len(out), Len(out) + Len(First))
        /\ Span(Second, Len(out) + Len(First), given)
        /\ rest > 0 /\ (enough <=> rest <= Len(First))
    BY <1>1, <1>2 DEF First, Switching, LoadData, Enough
  <1>4. /\ BarrierInv' /\ pc' \in [Threads -> Places] /\ back' = back
        /\ pc'[Game] = to /\ At(Game)' = to /\ pc'[Ls] = pc[Ls] /\ At(Ls)' = At(Ls)
    BY <1>1, <1>2, Moves DEF barrierVars, Places, Threads, Game, Ls
  <1>5. ~filled /\ At(Ls) \in {"lock", "barrier", "flag", "waits", "woken", "done"}
             => buf[mine] = <<>> /\ given = size
    BY <1>1, <1>2 DEF LoadData
  <1>6. ~filled /\ flag # 0 => ~enough
    <2>1. SUFFICES ASSUME ~filled, flag # 0 PROVE rest > Len(First)
      BY <1>2, <1>3, LoadTypes
    <2>2. At(Ls) \in {"flag", "woken", "done"} /\ mine # curr
      BY <1>1, <1>2, <1>3, <2>1 DEF LoadFlag, LoadData, TypeOK
    <2>3. First = <<>>
      BY <1>2, <1>3, <1>5, <2>1, <2>2, LoadTypes
    <2> QED
      BY <1>3, <2>3
  <1>7. At(Ls) = "done" => ~filled /\ flag # 0
    BY <1>1, <1>2, <1>3 DEF LoadData, LoadFlag
  <1>8. LoadPlaces' /\ LoadFlag'
    BY <1>1, <1>2, <1>4, <1>6, <1>7 DEF LoadPlaces, LoadFlag
  <1>9. CASE ~enough
    <2>1. TypeOK'
      BY <1>1, <1>2, <1>4, <1>9, LoadTypes DEF TypeOK
    <2>2. Len(out) + rest > size
      <3>1. rest > Len(First) /\ Len(First) < BufSize
        BY <1>2, <1>3, <1>9, LoadTypes
      <3>2. Len(out) + Len(First) = size
        BY <1>1, <1>2, <1>3, <3>1 DEF LoadData
      <3> QED
        BY <1>2, <3>1, <3>2, LoadTypes
    <2>3. LoadData'
      BY <1>1, <1>2, <1>4, <1>5, <1>9, <2>2 DEF LoadData, Bound, Switching
    <2> QED
      BY <1>1, <1>2, <1>4, <1>8, <1>9, <2>1, <2>3 DEF IInv
  <1>10. CASE enough
    <2>1. /\ rest \in Nat /\ rest <= Len(First) /\ rest \in 0..Len(First)
          /\ Len(First) \in Nat /\ Len(out) \in Nat /\ out \in Seq(Nat) /\ BufSize \in Nat
      BY <1>2, <1>3, <1>10, LoadTypes
    <2>2. /\ ~Switching' /\ First' = SubSeq(First, rest + 1, Len(First)) /\ Second' = Second
      BY <1>1, <1>2, <1>3, <1>4, <1>10, LoadTypes DEF First, Second, Switching, TypeOK
    <2>3. /\ Span(SubSeq(First, 1, rest), Len(out), Len(out) + rest)
          /\ Span(First', Len(out) + rest, Len(out) + Len(First))
      BY <1>3, <2>1, <2>2, CutSpan
    <2>4. Span(out', 0, Len(out) + rest)
      <3>1. out' = out \o SubSeq(First, 1, rest) /\ Len(out) + rest \in Nat
        BY <1>1, <1>3, <1>10, <2>1
      <3> QED
        BY <1>2, <2>1, <2>3, <3>1, JoinSpans
    <2>5. out' \in Seq(Nat) /\ Len(out') = Len(out) + rest
      BY <2>1, <2>4 DEF Span
    <2>6. /\ First' \in Seq(Nat) /\ Len(First') = Len(First) - rest
          /\ Len(out') + Len(First') = Len(out) + Len(First)
      <3>1. First' \in Seq(Nat) /\ Len(First') = (Len(out) + Len(First)) - (Len(out) + rest)
        BY <2>3 DEF Span
      <3> QED
        BY <2>1, <2>5, <3>1
    <2>7. TypeOK'
      <3>1. Len(First') <= BufSize
        BY <1>2, <2>1, <2>6, LoadTypes
      <3>2. buf' = [buf EXCEPT ![Other(curr)] = First']
        BY <1>1, <1>3, <1>10, <2>2
      <3>3. buf' \in [0..1 -> Seq(Nat)] /\ \A b \in 0..1 : Len(buf'[b]) <= BufSize
        BY <1>2, <2>6, <3>1, <3>2 DEF TypeOK
      <3>4. curr' \in 0..1 /\ rest' \in 0..BufSize
        BY <1>1, <1>2, <1>10, <2>1, LoadTypes
      <3> QED
        BY <1>1, <1>2, <1>4, <2>5, <3>3, <3>4 DEF TypeOK
    <2>8. LoadData'
      <3>1. ~filled /\ At(Ls) \in {"lock", "barrier", "flag", "waits", "woken", "done"}
               => buf'[mine] = <<>> /\ given = size
        <4>1. SUFFICES ASSUME ~filled,
                              At(Ls) \in {"lock", "barrier", "flag", "waits", "woken", "done"}
                       PROVE  buf'[mine] = <<>> /\ given = size
          OBVIOUS
        <4>2. flag = 0
          BY <1>6, <1>10, <4>1
        <4>3. mine = curr
          BY <1>1, <1>2, <1>3, <4>2 DEF LoadData
        <4> QED
          BY <1>1, <1>2, <1>5, <1>10, <4>1, <4>3, LoadTypes DEF TypeOK
      <3>2. mine = curr' <=> flag # 0
        BY <1>1, <1>2, <1>3, LoadTypes DEF LoadData
      <3>3. flag = 0 /\ At(Ls) # "fill" /\ Len(Second) < BufSize => given = size
        BY <1>1, <1>2 DEF LoadData
      <3>4. Span(Second', Len(out') + Len(First'), given')
        BY <1>1, <1>3, <2>2, <2>6
      <3>5. Span(First', Len(out'), Len(out') + Len(First'))
        BY <2>3, <2>5, <2>6
      <3>6. given <= size
        BY <1>2 DEF LoadData
      <3> QED
        BY <1>1, <1>4, <1>10, <2>2, <3>1, <3>2, <3>3, <3>4, <3>5, <3>6
           DEF LoadData, Bound
    <2> QED
      BY <1>1, <1>2, <1>4, <1>8, <1>10, <2>4, <2>5, <2>7, <2>8 DEF IInv
  <1> QED
    BY <1>9, <1>10

(* Ending leaves the data alone. *)
LEMMA EndLoadingSteps ==
    ASSUME IInv, EndLoading \/ StopLoading
    PROVE  IInv'
  <1>1. CASE EndLoading
    <2>1. /\ ~saving /\ pc[Game] = "use" /\ At(Game) = "use" /\ GoesToBarrier(Game, "stop")
          /\ UNCHANGED <<saving, count, sleeping, passed, mutex, flag, curr, mine, filled, rest,
                         buf, size, given, out>>
      BY <1>1 DEF EndLoading, barrierVars, flagVars, dataVars, At
    <2>2. /\ TypeOK /\ BarrierInv /\ Span(out, 0, Len(out))
          /\ LoadPlaces /\ LoadFlag /\ LoadData
      BY <2>1 DEF IInv
    <2>3. /\ BarrierInv' /\ pc' \in [Threads -> Places] /\ back' \in [Threads -> BehindBarrier]
          /\ At(Game)' = "barrier" /\ back'[Game] = "stop"
          /\ pc'[Ls] = pc[Ls] /\ At(Ls)' = At(Ls) /\ back'[Ls] = back[Ls]
      BY <2>1, <2>2, MovesToBarrier DEF barrierVars, BehindBarrier, Threads, Game, Ls
    <2>4. First' = First /\ Second' = Second /\ ~Switching /\ ~Switching'
      BY <2>1, <2>3 DEF First, Second, Switching
    <2>5. TypeOK'
      BY <2>1, <2>2, <2>3 DEF TypeOK
    <2>6. LoadPlaces' /\ LoadFlag'
      BY <2>1, <2>2, <2>3 DEF LoadPlaces, LoadFlag
    <2>7. LoadData'
      BY <2>1, <2>2, <2>3, <2>4 DEF LoadData, Bound
    <2> QED
      BY <2>1, <2>2, <2>3, <2>5, <2>6, <2>7 DEF IInv
  <1>2. CASE StopLoading
    <2>1. /\ pc[Game] = "stop" /\ At(Game) = "stop" /\ mutex = Nobody /\ flag' = -1
          /\ UNCHANGED <<saving, back, count, sleeping, passed, mutex, curr, mine, filled, rest,
                         buf, size, given, out>>
      BY <1>2 DEF StopLoading, barrierVars, dataVars, At
    <2>2. /\ ~saving /\ TypeOK /\ BarrierInv /\ Span(out, 0, Len(out))
          /\ LoadPlaces /\ LoadFlag /\ LoadData
      BY <2>1 DEF IInv, SavePlaces
    <2>3. At(Ls) = "waits" /\ pc[Ls] = "waits" /\ flag = 0
      BY <2>1, <2>2, ReaderWaits
    <2>4. pc' = [pc EXCEPT ![Game] = "join", ![Ls] = "woken"]
      BY <1>2, <2>3 DEF StopLoading
    <2>5. /\ pc' \in [Threads -> Places] /\ pc'[Game] = "join" /\ pc'[Ls] = "woken"
      BY <2>2, <2>4 DEF TypeOK, Places, Threads, Game, Ls
    <2>6. BarrierInv' /\ At(Game)' = "join" /\ At(Ls)' = "woken"
      BY <2>1, <2>2, <2>3, <2>5, StepsOutside DEF barrierVars, Threads
    <2>7. TypeOK'
      BY <2>1, <2>2, <2>5 DEF TypeOK
    <2>8. LoadPlaces' /\ LoadFlag'
      BY <2>1, <2>2, <2>3, <2>5, <2>6 DEF LoadPlaces, LoadFlag, Nobody, Ls
    <2>9. LoadData'
      BY <2>1, <2>2, <2>6 DEF LoadData, Bound, Switching
    <2> QED
      BY <2>1, <2>2, <2>6, <2>7, <2>8, <2>9 DEF IInv
  <1> QED
    BY <1>1, <1>2

(* The reader fills the buffer the game reads next. *)
LEMMA FillStep ==
    ASSUME IInv, Fill
    PROVE  IInv'
  <1>1. PICK ok \in BOOLEAN :
           /\ buf' = [buf EXCEPT ![mine] =
                         Bytes(given, IF ok THEN Least(size - given, BufSize) ELSE 0)]
           /\ given' = given + (IF ok THEN Least(size - given, BufSize) ELSE 0)
           /\ size' = IF ok THEN size ELSE given
           /\ filled' = ((IF ok THEN Least(size - given, BufSize) ELSE 0) > 0)
    BY DEF Fill
  <1> DEFINE n == IF ok THEN Least(size - given, BufSize) ELSE 0
  <1>2. /\ pc[Ls] = "fill" /\ At(Ls) = "fill" /\ Goes(Ls, "lock")
        /\ UNCHANGED <<saving, count, sleeping, passed, mutex, flag, curr, mine, rest, out>>
    BY DEF Fill, barrierVars, flagVars, At
  <1>3. /\ ~saving /\ TypeOK /\ BarrierInv /\ Span(out, 0, Len(out))
        /\ LoadPlaces /\ LoadFlag /\ LoadData
    BY <1>2 DEF IInv, SavePlaces
  <1>4. /\ flag = 0 /\ At(Game) \in {"use", "barrier", "switch", "fatal"}
        /\ given <= size
    BY <1>2, <1>3 DEF LoadFlag, LoadData
  <1>5. /\ buf' = [buf EXCEPT ![mine] = Bytes(given, n)]
        /\ given' = given + n /\ n \in Nat /\ n <= BufSize
        /\ given' \in Nat /\ size' \in Nat /\ given' <= size' /\ size' <= size
        /\ n < BufSize => given' = size'
        /\ given = size => n = 0 /\ size' = size
    <2>1. /\ given \in Nat /\ size \in Nat /\ BufSize \in Nat /\ BufSize > 0
          /\ size - given \in Nat
      BY <1>3, <1>4, LoadTypes
    <2>2. CASE ok
      <3> DEFINE l == Least(size - given, BufSize)
      <3>1. l \in Nat /\ l <= size - given /\ l <= BufSize /\ (l = size - given \/ l = BufSize)
        BY <2>1, LeastOfTwo
      <3>2. n = l /\ size' = size
        BY <1>1, <2>2
      <3>3. buf' = [buf EXCEPT ![mine] = Bytes(given, n)] /\ given' = given + n
        BY <1>1
      <3> HIDE DEF l, n
      <3> QED
        BY <2>1, <3>1, <3>2, <3>3
    <2>3. CASE ~ok
      <3>1. n = 0 /\ size' = given
        BY <1>1, <2>3
      <3>2. buf' = [buf EXCEPT ![mine] = Bytes(given, n)] /\ given' = given + n
        BY <1>1
      <3> HIDE DEF n
      <3> QED
        BY <1>4, <2>1, <3>1, <3>2
    <2> QED
      BY <2>2, <2>3
  <1>13. filled' \in BOOLEAN /\ (filled' <=> n > 0)
    <2>1. filled' = (n > 0)
      BY <1>1, Zenon
    <2> HIDE DEF n
    <2>2. (n > 0) \in BOOLEAN
      BY SMT
    <2> QED
      BY <2>1, <2>2, Zenon
  <1> HIDE DEF n
  <1>6. /\ BarrierInv' /\ pc' \in [Threads -> Places] /\ back' = back
        /\ At(Ls)' = "lock" /\ pc'[Ls] = "lock" /\ pc'[Game] = pc[Game] /\ At(Game)' = At(Game)
    BY <1>2, <1>3, Moves DEF barrierVars, Places, Threads, Game, Ls
  <1>7. Span(Bytes(given, n), given, given')
    BY <1>3, <1>5, BytesAreASpan, LoadTypes
  <1>8. TypeOK'
    <2>1. Bytes(given, n) \in Seq(Nat) /\ Len(Bytes(given, n)) = given' - given
      BY <1>7 DEF Span
    <2>2. Len(Bytes(given, n)) <= BufSize
      BY <1>3, <1>5, <2>1, LoadTypes
    <2>3. buf' \in [0..1 -> Seq(Nat)] /\ \A b \in 0..1 : Len(buf'[b]) <= BufSize
      BY <1>3, <1>5, <2>1, <2>2 DEF TypeOK
    <2> QED
      BY <1>2, <1>3, <1>5, <1>6, <1>13, <2>3 DEF TypeOK
  <1>9. LoadPlaces' /\ LoadFlag'
    BY <1>2, <1>3, <1>4, <1>6 DEF LoadPlaces, LoadFlag
  <1>10. ~filled' => buf'[mine] = <<>> /\ given' = size'
    <2>1. SUFFICES ASSUME n = 0 PROVE buf'[mine] = <<>> /\ given' = size'
      BY <1>5, <1>13
    <2>2. given' = given /\ given \in Nat /\ given' = size'
      BY <1>3, <1>5, <2>1, LoadTypes
    <2>3. Bytes(given, n) = <<>>
      BY <1>7, <2>2, LengthOfSpan
    <2> QED
      BY <1>3, <1>5, <2>2, <2>3 DEF TypeOK
  <1>11. CASE At(Game) = "fatal"
    <2>1. Len(out) + rest > size'
      BY <1>3, <1>5, <1>11, LoadTypes DEF LoadData
    <2>2. LoadData'
      BY <1>2, <1>3, <1>5, <1>6, <1>10, <1>11, <2>1 DEF LoadData, Bound, Switching
    <2> QED
      BY <1>2, <1>3, <1>6, <1>8, <1>9, <2>2 DEF IInv
  <1>12. CASE At(Game) # "fatal"
    <2>1. /\ Span(First, Len(out), Len(out) + Len(First))
          /\ Span(Second, Len(out) + Len(First), given)
          /\ mine = curr <=> Switching
          /\ Switching /\ Len(First) < BufSize => Len(out) + Len(First) = size
      BY <1>3, <1>4, <1>12 DEF LoadData
    <2>2. Second = <<>>
      BY <1>2 DEF Second
    <2>3. Len(out) + Len(First) = given
      <3>1. Len(Second) = given - (Len(out) + Len(First)) /\ Len(Second) = 0
        BY <2>1, <2>2 DEF Span
      <3> QED
        BY <1>3, <3>1, LoadTypes
    <2>4. First' = First /\ Second' = Bytes(given, n) /\ (Switching' <=> Switching)
      BY <1>2, <1>3, <1>4, <1>5, <1>6, <2>1, LoadTypes DEF First, Second, Switching, TypeOK
    <2>5. Span(Second', Len(out) + Len(First), given')
      BY <1>7, <2>3, <2>4
    <2>6. Len(Second') < BufSize => given' = size'
      <3>1. Len(Second') = given' - given
        BY <1>7, <2>4 DEF Span
      <3>2. Len(Second') = n
        BY <1>3, <1>5, <3>1, LoadTypes
      <3> QED
        BY <1>5, <3>2
    <2>7. Switching /\ Len(First) < BufSize => Len(out) + Len(First) = size'
      BY <1>5, <2>1, <2>3
    <2>8. Bound(Game, "more") => buf'[curr] = <<>> /\ rest > 0
      <3>1. SUFFICES ASSUME Bound(Game, "more") PROVE buf'[curr] = <<>> /\ rest > 0
        OBVIOUS
      <3>2. mine # curr /\ buf[curr] = <<>> /\ rest > 0
        BY <1>3, <2>1, <3>1 DEF LoadData, Bound, Switching
      <3> QED
        BY <1>3, <1>5, <3>2 DEF TypeOK
    <2>9. LoadData'
      BY <1>2, <1>3, <1>4, <1>5, <1>6, <1>10, <1>12, <2>1, <2>4, <2>5, <2>6, <2>7, <2>8
         DEF LoadData, Bound, Switching
    <2> QED
      BY <1>2, <1>3, <1>6, <1>8, <1>9, <2>9 DEF IInv
  <1> QED
    BY <1>11, <1>12

(* The reader keeps the mutex from Lock on, except while it waits. *)
LEMMA MutexSteps ==
    ASSUME ~SpuriousWakeUps, IInv, Lock \/ WaitForFlag \/ WakeUp
    PROVE  IInv'
  <1>1. /\ UNCHANGED <<saving, count, sleeping, passed, flag, curr, mine, filled, rest,
                       buf, size, given, out>>
        /\ \/ pc[Ls] = "lock" /\ mutex' = Ls /\ GoesToBarrier(Ls, "flag")
           \/ pc[Ls] = "flag" /\ flag = 0 /\ mutex' = Nobody /\ Goes(Ls, "waits")
           \/ pc[Ls] = "woken" /\ mutex' = Ls /\ Goes(Ls, "flag")
        /\ At(Ls) = pc[Ls]
    BY DEF Lock, WaitForFlag, WakeUp, barrierVars, dataVars, At
  <1>2. /\ ~saving /\ TypeOK /\ BarrierInv /\ Span(out, 0, Len(out))
        /\ LoadPlaces /\ LoadFlag /\ LoadData
    BY <1>1 DEF IInv, SavePlaces
  <1>3. /\ BarrierInv' /\ pc' \in [Threads -> Places] /\ back' \in [Threads -> BehindBarrier]
        /\ \/ /\ pc[Ls] = "lock" /\ mutex' = Ls /\ At(Ls)' = "barrier" /\ pc'[Ls] = "barrier"
              /\ back'[Ls] = "flag"
           \/ /\ pc[Ls] = "flag" /\ flag = 0 /\ mutex' = Nobody /\ At(Ls)' = "waits"
              /\ pc'[Ls] = "waits"
           \/ pc[Ls] = "woken" /\ mutex' = Ls /\ At(Ls)' = "flag" /\ pc'[Ls] = "flag"
        /\ pc'[Game] = pc[Game] /\ At(Game)' = At(Game) /\ back'[Game] = back[Game]
    <2>1. CASE pc[Ls] = "lock" /\ mutex' = Ls /\ GoesToBarrier(Ls, "flag")
      BY <1>1, <1>2, <2>1, MovesToBarrier DEF barrierVars, BehindBarrier, Threads, Game, Ls
    <2>2. CASE pc[Ls] = "flag" /\ flag = 0 /\ mutex' = Nobody /\ Goes(Ls, "waits")
      BY <1>1, <1>2, <2>2, Moves DEF barrierVars, Places, Threads, Game, Ls, TypeOK
    <2>3. CASE pc[Ls] = "woken" /\ mutex' = Ls /\ Goes(Ls, "flag")
      BY <1>1, <1>2, <2>3, Moves DEF barrierVars, Places, Threads, Game, Ls, TypeOK
    <2> QED
      BY <1>1, <2>1, <2>2, <2>3
  <1>4. First' = First /\ Second' = Second /\ (Switching' <=> Switching)
    BY <1>1, <1>3 DEF First, Second, Switching
  <1>5. TypeOK'
    BY <1>1, <1>2, <1>3 DEF TypeOK
  <1>6. LoadPlaces'
    BY <1>1, <1>2, <1>3 DEF LoadPlaces, Nobody, Ls
  <1>7. LoadFlag'
    BY <1>1, <1>2, <1>3 DEF LoadFlag
  <1>8. LoadData'
    BY <1>1, <1>2, <1>3, <1>4 DEF LoadData, Bound
  <1> QED
    BY <1>1, <1>2, <1>3, <1>5, <1>6, <1>7, <1>8 DEF IInv

(* The reader changes over to the other buffer, or ends. *)
LEMMA SeeFlagStep ==
    ASSUME IInv, SeeFlag
    PROVE  IInv'
  <1> DEFINE ends == flag < 0 \/ ~filled
             to   == IF ends THEN "done" ELSE "fill"
  <1>1. /\ UNCHANGED <<saving, count, sleeping, passed, curr, filled, rest,
                       buf, size, given, out>>
        /\ pc[Ls] = "flag" /\ At(Ls) = "flag" /\ flag # 0 /\ mutex' = Nobody
        /\ flag' = (IF ends THEN -1 ELSE 0)
        /\ mine' = (IF ends THEN mine ELSE Other(mine))
        /\ Goes(Ls, to)
    BY DEF SeeFlag, barrierVars, dataVars, At
  <1>2. /\ ~saving /\ TypeOK /\ BarrierInv /\ Span(out, 0, Len(out))
        /\ LoadPlaces /\ LoadFlag /\ LoadData
    BY <1>1 DEF IInv, SavePlaces
  <1>3. /\ BarrierInv' /\ pc' \in [Threads -> Places] /\ back' = back
        /\ At(Ls)' = to /\ pc'[Ls] = to /\ pc'[Game] = pc[Game] /\ At(Game)' = At(Game)
    BY <1>1, <1>2, Moves DEF barrierVars, Places, Threads, Game, Ls
  <1>4. flag \in {-1, 1} /\ (flag = -1 => At(Game) \in {"join", "closed"})
    BY <1>1, <1>2 DEF LoadFlag, TypeOK
  <1>5. ends <=> flag = -1 \/ ~filled
    BY <1>4
  <1>6. First' = First /\ Second' = Second /\ (Switching' <=> Switching)
    BY <1>1, <1>3 DEF First, Second, Switching
  <1>7. TypeOK'
    BY <1>1, <1>2, <1>3, LoadTypes DEF TypeOK
  <1>8. LoadPlaces'
    BY <1>1, <1>2, <1>3 DEF LoadPlaces, Nobody, Ls
  <1>9. LoadFlag'
    BY <1>1, <1>2, <1>3, <1>4, <1>5 DEF LoadFlag
  <1>10. LoadData'
    <2>1. CASE ends
      BY <1>1, <1>2, <1>3, <1>4, <1>5, <1>6, <2>1 DEF LoadData, Bound, Switching
    <2>2. CASE ~ends
      <3>1. flag = 1 /\ flag' = 0 /\ mine' = Other(mine) /\ At(Ls)' = "fill" /\ filled
        BY <1>1, <1>3, <1>4, <1>5, <2>2
      <3>2. mine' = curr <=> mine # curr
        BY <1>2, <3>1 DEF TypeOK, Other
      <3> QED
        BY <1>1, <1>2, <1>3, <1>6, <3>1, <3>2 DEF LoadData, Bound
    <2> QED
      BY <2>1, <2>2
  <1> QED
    BY <1>1, <1>2, <1>3, <1>7, <1>8, <1>9, <1>10 DEF IInv

(* The game ends when the other thread has ended. *)
LEMMA JoinStep ==
    ASSUME IInv, Join
    PROVE  IInv'
  <1>1. /\ UNCHANGED <<saving, count, sleeping, passed, mutex, flag, curr, mine, filled, rest,
                       buf, size, given, out>>
        /\ pc[Game] = "join" /\ At(Game) = "join" /\ Goes(Game, "closed")
    BY DEF Join, barrierVars, flagVars, dataVars, At
  <1>2. TypeOK /\ BarrierInv /\ Span(out, 0, Len(out))
    BY DEF IInv
  <1>3. /\ BarrierInv' /\ pc' \in [Threads -> Places] /\ back' = back
        /\ At(Game)' = "closed" /\ pc'[Game] = "closed"
        /\ pc'[Ls] = pc[Ls] /\ At(Ls)' = At(Ls)
    BY <1>1, <1>2, Moves DEF barrierVars, Places, Threads, Game, Ls
  <1>4. TypeOK'
    BY <1>1, <1>2, <1>3 DEF TypeOK
  <1>5. CASE saving
    <2>1. SavePlaces /\ SaveData
      BY <1>5 DEF IInv
    <2>2. Older' = Older /\ Old' = Old /\ New' = New
      BY <1>1, <1>3 DEF Older, Old, New
    <2>3. SavePlaces' /\ SaveData'
      BY <1>1, <1>3, <2>1, <2>2 DEF SavePlaces, SaveData, Bound
    <2> QED
      BY <1>1, <1>2, <1>3, <1>4, <1>5, <2>3 DEF IInv
  <1>6. CASE ~saving
    <2>1. LoadPlaces /\ LoadFlag /\ LoadData
      BY <1>6 DEF IInv
    <2>2. LoadPlaces' /\ LoadFlag'
      BY <1>1, <1>3, <2>1 DEF LoadPlaces, LoadFlag
    <2>3. LoadData'
      BY <1>1, <1>3, <2>1 DEF LoadData, Bound, Switching
    <2> QED
      BY <1>1, <1>2, <1>3, <1>4, <1>6, <2>2, <2>3 DEF IInv
  <1> QED
    BY <1>5, <1>6

(* The barrier leaves the data alone. *)
LEMMA BarrierLoadsStep ==
    ASSUME ~SpuriousWakeUps, IInv, ~saving, NEW t \in Threads, Arrive(t) \/ GoesOn(t)
    PROVE  IInv'
  <1>1. /\ TypeOK /\ BarrierInv /\ Span(out, 0, Len(out))
        /\ LoadPlaces /\ LoadFlag /\ LoadData
    BY DEF IInv
  <1>2. /\ BarrierInv'
        /\ UNCHANGED <<saving, back, mutex, flag, curr, mine, filled, buf, rest, size,
                       given, out>>
        /\ \/ \A u \in Threads : At(u)' = At(u)
           \/ \A u \in Threads : At(u) = "barrier" /\ At(u)' = back[u]
        /\ count' \in 0..1 /\ sleeping' \subseteq Threads /\ passed' \in [Threads -> Nat]
        /\ \A u \in Threads : pc'[u] \in {"barrier", "asleep"} =>
                                 pc[u] \in {"barrier", "asleep"}
    BY <1>1, ArriveStep, GoesOnStep
  <1>3. TypeOK'
    <2>1. pc' \in [Threads -> Places]
      BY <1>1 DEF TypeOK, Arrive, GoesOn, Passes, Places, BehindBarrier
    <2> QED
      BY <1>1, <1>2, <2>1 DEF TypeOK
  <1>4. Game \in Threads /\ Ls \in Threads
    BY DEF Threads
  <1>5. CASE \A u \in Threads : At(u)' = At(u)
    <2>1. First' = First /\ Second' = Second /\ (Switching' <=> Switching)
      BY <1>2, <1>4, <1>5 DEF First, Second, Switching
    <2>2. LoadPlaces' /\ LoadFlag'
      BY <1>1, <1>2, <1>4, <1>5 DEF LoadPlaces, LoadFlag
    <2>3. LoadData'
      BY <1>1, <1>2, <1>4, <1>5, <2>1 DEF LoadData, Bound
    <2> QED
      BY <1>1, <1>2, <1>3, <2>2, <2>3 DEF IInv
  <1>6. CASE \A u \in Threads : At(u) = "barrier" /\ At(u)' = back[u]
    <2>1. /\ At(Game) = "barrier" /\ At(Ls) = "barrier"
          /\ pc[Game] \in {"barrier", "asleep"} /\ pc[Ls] \in {"barrier", "asleep"}
      BY <1>4, <1>6 DEF At
    <2>2. /\ At(Ls)' = "flag" /\ At(Game)' = back[Game] /\ back[Game] \in {"more", "stop"}
      BY <1>1, <1>4, <1>6, <2>1 DEF LoadPlaces
    <2>3. First' = First /\ Second' = Second /\ ~Switching /\ ~Switching'
      BY <1>2, <2>1, <2>2 DEF First, Second, Switching
    <2>4. LoadPlaces' /\ LoadFlag'
      BY <1>1, <1>2, <1>4, <2>1, <2>2 DEF LoadPlaces, LoadFlag
    <2>5. LoadData'
      BY <1>1, <1>2, <2>1, <2>2, <2>3 DEF LoadData, Bound
    <2> QED
      BY <1>1, <1>2, <1>3, <2>4, <2>5 DEF IInv
  <1> QED
    BY <1>2, <1>5, <1>6

-----------------------------------------------------------------------------
(***************************************************************************)
(* The theorems.                                                           *)
(***************************************************************************)

LEMMA InitIsInvariant ==
    ASSUME Init
    PROVE  IInv
  <1>1. /\ pc[Game] = "use" /\ pc[Ls] = (IF saving THEN "barrier" ELSE "fill")
        /\ back[Game] = "look" /\ back[Ls] = "look"
        /\ At(Game) = "use" /\ At(Ls) = pc[Ls]
    BY DEF Init, At, Threads, Game, Ls
  <1>2. /\ curr = 0 /\ mine = 1 /\ buf[0] = <<>> /\ buf[1] = <<>> /\ out = <<>> /\ given = 0
        /\ flag = 0 /\ mutex = Nobody /\ Len(out) = 0 /\ rest = 0
    BY DEF Init
  <1>3. size \in Nat /\ BufSize \in Nat /\ BufSize > 0
    BY LoadSaveAssumption DEF Init, LoadSaveAssumption
  <1>4. TypeOK
    <2>1. pc \in [Threads -> Places] /\ back \in [Threads -> BehindBarrier]
      BY DEF Init, Places, BehindBarrier
    <2>2. buf \in [0..1 -> Seq(Nat)] /\ \A b \in 0..1 : Len(buf[b]) <= BufSize
      BY <1>3 DEF Init
    <2> QED
      BY <1>2, <1>3, <2>1, <2>2 DEF Init, TypeOK
  <1>5. BarrierInv
    BY <1>1 DEF Init, BarrierInv, Rounds, Awoken, Threads
  <1>6. Span(<<>>, 0, 0)
    BY EmptySpan
  <1>7. saving => SavePlaces /\ SaveData
    <2>1. SUFFICES ASSUME saving PROVE SavePlaces /\ SaveData
      OBVIOUS
    <2>2. At(Ls) = "barrier"
      BY <1>1, <2>1
    <2>3. Older = 1 /\ Old = <<>> /\ New = <<>>
      BY <1>2, <2>2 DEF Older, Old, New, Other
    <2> QED
      BY <1>1, <1>2, <1>6, <2>2, <2>3 DEF SavePlaces, SaveData, Bound
  <1>8. ~saving => LoadPlaces /\ LoadFlag /\ LoadData
    <2>1. SUFFICES ASSUME ~saving PROVE LoadPlaces /\ LoadFlag /\ LoadData
      OBVIOUS
    <2>2. At(Ls) = "fill" /\ pc[Ls] = "fill" /\ ~Switching
      BY <1>1, <2>1 DEF Switching
    <2>3. First = <<>> /\ Second = <<>>
      BY <1>2, <2>2 DEF First, Second
    <2> QED
      BY <1>1, <1>2, <1>3, <1>6, <2>2, <2>3
         DEF LoadPlaces, LoadFlag, LoadData, Bound, Nobody, Ls
  <1> QED
    BY <1>2, <1>4, <1>5, <1>6, <1>7, <1>8 DEF IInv

LEMMA StutterKeepsInvariant ==
    ASSUME IInv, UNCHANGED vars
    PROVE  IInv'
  BY DEF IInv, vars, TypeOK, BarrierInv, Rounds, Awoken, At, Bound, Older, Old, New, SavePlaces,
         SaveData, Switching, First, Second, LoadPlaces, LoadFlag, LoadData

LEMMA NextKeepsInvariant ==
    ASSUME ~SpuriousWakeUps, IInv, [Next]_vars
    PROVE  IInv'
  <1>1. CASE GameStep
    BY <1>1, WriteStep, ReadStep, SwitchAndWriteStep, EndSavingSteps, AskForMoreStep,
       SwitchAndReadStep, EndLoadingSteps, JoinStep DEF GameStep
  <1>2. CASE LsStep
    BY <1>2, TakeBufferStep, FlushStep, FlushedStep, FillStep, MutexSteps, SeeFlagStep
       DEF LsStep
  <1>3. CASE \E t \in Threads : Arrive(t) \/ GoesOn(t)
    BY <1>3, BarrierSavesStep, BarrierLoadsStep
  <1>4. CASE UNCHANGED vars
    BY <1>4, StutterKeepsInvariant
  <1> QED
    BY <1>1, <1>2, <1>3, <1>4 DEF Next

LEMMA InvariantHolds ==
    ASSUME ~SpuriousWakeUps
    PROVE  Spec => []IInv
  BY InitIsInvariant, NextKeepsInvariant, PTL DEF Spec

(* The invariant implies what the runs check. *)
LEMMA InvariantImplies ==
    ASSUME IInv
    PROVE  TypeOK /\ InOrder /\ NothingIsLost /\ BuffersAreDisjoint /\ FatalOnlyIfShort
  <1>1. TypeOK /\ Span(out, 0, Len(out))
    BY DEF IInv
  <1>2. InOrder
    <2>1. out \in Seq(Nat) /\ \A i \in 1..Len(out) : out[i] = i
      BY <1>1 DEF Span
    <2> QED
      BY <2>1 DEF InOrder
  <1>3. NothingIsLost
    <2>1. SUFFICES ASSUME saving, pc[Game] = "closed"
                   PROVE  Len(out) = given
      BY DEF NothingIsLost
    <2>2. SaveData /\ At(Game) = "closed"
      BY <2>1 DEF IInv, At
    <2>3. Old = <<>> /\ New = <<>>
      BY <2>2 DEF SaveData
    <2>4. Len(Old) = 0 /\ Len(New) = 0 /\ Len(out) + Len(Old) + Len(New) = given
      BY <1>1, <2>2, <2>3, SaveTypes
    <2> QED
      BY <1>1, <2>2, <2>4, SaveTypes
  <1>4. BuffersAreDisjoint
    <2>1. CASE saving
      <3>1. SavePlaces /\ SaveData
        BY <2>1 DEF IInv
      <3>2. ASSUME pc[Ls] \in {"look", "flush", "flushed", "fill"}, pc[Game] \in {"use", "switch"}
            PROVE  /\ At(Ls) = pc[Ls] /\ At(Game) = pc[Game] /\ pc[Ls] # "fill"
                   /\ pc[Game] = "switch" <=> Older = curr
        BY <3>1, <3>2 DEF At, SavePlaces, SaveData, Bound
      <3> QED
        BY <1>1, <3>2 DEF BuffersAreDisjoint, Older, Other, TypeOK
    <2>2. CASE ~saving
      <3>1. LoadPlaces /\ LoadFlag /\ LoadData
        BY <2>2 DEF IInv
      <3>2. pc[Ls] \notin {"look", "flush", "flushed"}
        BY <3>1 DEF LoadPlaces, At
      <3>3. ASSUME pc[Ls] = "fill", pc[Game] \in {"use", "switch"}
            PROVE  mine = curr <=> pc[Game] = "switch"
        <4>1. At(Ls) = "fill" /\ At(Game) = pc[Game] /\ (Switching <=> pc[Game] = "switch")
          BY <3>3 DEF At, Switching
        <4>2. flag = 0
          BY <3>1, <4>1 DEF LoadFlag
        <4> QED
          BY <3>1, <3>3, <4>1, <4>2 DEF LoadData
      <3> QED
        BY <3>2, <3>3 DEF BuffersAreDisjoint
    <2> QED
      BY <2>1, <2>2
  <1>5. FatalOnlyIfShort
    <2>1. SUFFICES ASSUME pc[Game] = "fatal"
                   PROVE  Len(out) + rest > size
      BY DEF FatalOnlyIfShort
    <2>2. At(Game) = "fatal"
      BY <2>1 DEF At
    <2>3. LoadData
      BY <2>2 DEF IInv, SavePlaces
    <2> QED
      BY <2>2, <2>3 DEF LoadData
  <1> QED
    BY <1>1, <1>2, <1>3, <1>4, <1>5

(* Every variable has its type and no buffer overflows, whatever lengths   *)
(* write and read are called with.                                         *)
THEOREM SaveTypeCorrect ==
    ASSUME ~SpuriousWakeUps
    PROVE  Spec => []TypeOK
  BY InvariantHolds, InvariantImplies, PTL

(* The two threads, which lock no buffer, never work on the same one.      *)
THEOREM ThreadsKeepApart ==
    ASSUME ~SpuriousWakeUps
    PROVE  Spec => []BuffersAreDisjoint
  BY InvariantHolds, InvariantImplies, PTL

(* Files are written and read in order, without gaps or repetitions.       *)
THEOREM BytesStayInOrder ==
    ASSUME ~SpuriousWakeUps
    PROVE  Spec => []InOrder
  BY InvariantHolds, InvariantImplies, PTL

(* A saved game that was closed is complete.                               *)
THEOREM ClosedIsComplete ==
    ASSUME ~SpuriousWakeUps
    PROVE  Spec => []NothingIsLost
  BY InvariantHolds, InvariantImplies, PTL

(* "Not enough data" is said only of files that have not enough data.      *)
THEOREM CorruptIsCorrupt ==
    ASSUME ~SpuriousWakeUps
    PROVE  Spec => []FatalOnlyIfShort
  BY InvariantHolds, InvariantImplies, PTL

-----------------------------------------------------------------------------
(***************************************************************************)
(* The hand-written barrier is a barrier.                                  *)
(***************************************************************************)

(* How often each thread has come to the barrier: once more than it passed *)
(* it, if it is asleep.                                                    *)
Entered == [t \in Threads |-> passed[t] + IF pc[t] = "asleep" THEN 1 ELSE 0]

(* Initially nobody has come. *)
LEMMA InitRefines ==
    ASSUME Init
    PROVE  R!RInit
  <1>1. \A t \in Threads : pc[t] # "asleep" /\ passed[t] = 0
    BY DEF Init
  <1>2. [t \in Threads |-> passed[t] + IF pc[t] = "asleep" THEN 1 ELSE 0]
           = [t \in Threads |-> 0]
    BY <1>1
  <1> QED
    BY <1>2 DEF R!RInit, Init

(* Steps elsewhere do not touch the barrier. *)
LEMMA OtherStepsStutter ==
    ASSUME TypeOK, GameStep \/ LsStep \/ UNCHANGED vars
    PROVE  UNCHANGED R!rvars
  <1>1. /\ passed' = passed
        /\ \A u \in Threads : pc'[u] = "asleep" <=> pc[u] = "asleep"
    <2>1. CASE GameStep
      BY <2>1 DEF TypeOK, GameStep, Write, SwitchAndWrite, EndSaving, EndAgain, Read, AskForMore,
         SwitchAndRead, EndLoading, StopLoading, Join, Goes, GoesToBarrier, barrierVars,
         Threads, Game, Ls
    <2>2. CASE LsStep
      BY <2>2 DEF TypeOK, LsStep, TakeBuffer, Flush, Flushed, Fill, Lock, WaitForFlag, WakeUp,
         SeeFlag, Goes, GoesToBarrier, barrierVars, Threads, Game, Ls
    <2>3. CASE UNCHANGED vars
      BY <2>3 DEF vars
    <2> QED
      BY <2>1, <2>2, <2>3
  <1> QED
    BY <1>1 DEF R!rvars

(* The first to come waits, and the last one need not. *)
LEMMA ArriveRefines ==
    ASSUME TypeOK, BarrierInv, NEW t \in Threads, Arrive(t)
    PROVE  R!Enter(t) \/ R!EnterLast(t)
  <1>1. /\ pc[t] = "barrier" /\ (Trips(count + 1) <=> sleeping # {})
        /\ \A u \in Threads : passed[u] \in Nat /\ back[u] # "asleep"
    <2>1. Trips(count + 1) <=> sleeping # {}
      BY DEF Trips, BarrierInv
    <2>2. \A u \in Threads : passed[u] \in Nat /\ back[u] # "asleep"
      BY DEF TypeOK, BehindBarrier
    <2> QED
      BY <2>1, <2>2 DEF Arrive
  <1>2. Entered[t] = passed[t]
    BY <1>1 DEF Entered
  <1>3. CASE sleeping = {}
    <2>1. passed' = passed /\ pc' = [pc EXCEPT ![t] = "asleep"]
      BY <1>1, <1>3 DEF Arrive
    <2>2. Entered' = [Entered EXCEPT ![t] = @ + 1]
      <3>1. \A u \in Threads : Entered'[u] = IF u = t THEN Entered[u] + 1 ELSE Entered[u]
        BY <1>1, <2>1 DEF Entered, TypeOK
      <3> QED
        BY <3>1 DEF Entered
    <2> QED
      BY <1>2, <2>1, <2>2 DEF R!Enter, R!Outside, R!OnceMore, Entered
  <1>4. CASE sleeping # {}
    <2>1. PICK u \in Threads : u \in sleeping
      BY <1>4 DEF TypeOK
    <2>2. pc[u] = "asleep" /\ sleeping = {u} /\ u # t /\ Threads = {t, u}
      BY <1>1, <2>1 DEF BarrierInv, Threads
    <2>3. passed' = [passed EXCEPT ![t] = @ + 1] /\ pc' = [pc EXCEPT ![t] = back[t]]
      BY <1>1, <1>4 DEF Arrive, Passes
    <2>4. Entered' = [Entered EXCEPT ![t] = @ + 1]
      <3>1. pc'[t] = back[t] /\ passed'[t] = passed[t] + 1
        BY <2>3 DEF TypeOK
      <3>2. \A w \in Threads \ {t} : pc'[w] = pc[w] /\ passed'[w] = passed[w]
        BY <2>3 DEF TypeOK
      <3>3. \A w \in Threads : Entered'[w] = IF w = t THEN Entered[w] + 1 ELSE Entered[w]
        BY <1>1, <3>1, <3>2 DEF Entered
      <3> QED
        BY <3>3 DEF Entered
    <2>5. passed[t] = passed[u]
      <3>1. Rounds(t) = Rounds(u)
        BY <2>2 DEF BarrierInv, Threads
      <3> QED
        BY <1>1, <2>2, <3>1 DEF Rounds, Awoken
    <2>6. Entered[u] > passed[t]
      BY <1>1, <2>2, <2>5 DEF Entered
    <2> QED
      BY <1>2, <2>2, <2>3, <2>4, <2>6 DEF R!EnterLast, R!Outside, R!OnceMore, Entered
  <1> QED
    BY <1>3, <1>4

(* Who was woken up goes on after everybody has come. *)
LEMMA GoesOnRefines ==
    ASSUME ~SpuriousWakeUps, TypeOK, BarrierInv, NEW t \in Threads, GoesOn(t)
    PROVE  R!Pass(t)
  <1>1. /\ pc[t] = "asleep" /\ t \notin sleeping
        /\ pc' = [pc EXCEPT ![t] = back[t]] /\ passed' = [passed EXCEPT ![t] = @ + 1]
        /\ \A u \in Threads : passed[u] \in Nat /\ back[u] # "asleep"
    BY DEF GoesOn, Passes, TypeOK, BehindBarrier
  <1>2. Entered' = Entered
    BY <1>1 DEF Entered, TypeOK
  <1>3. Entered[t] = passed[t] + 1
    BY <1>1 DEF Entered
  <1>4. \A u \in Threads : Entered[u] > passed[t]
    <2>1. SUFFICES ASSUME NEW u \in Threads PROVE Entered[u] > passed[t]
      OBVIOUS
    <2>2. Rounds(u) = Rounds(t)
      BY DEF BarrierInv, Threads
    <2>3. Rounds(t) = passed[t] + 1
      BY <1>1 DEF Rounds, Awoken
    <2> QED
      BY <1>1, <2>2, <2>3 DEF Rounds, Awoken, Entered
  <1> QED
    BY <1>1, <1>2, <1>3, <1>4 DEF R!Pass, R!Outside, R!EveryoneCame, R!OnceMore, Entered

LEMMA NextRefines ==
    ASSUME ~SpuriousWakeUps, IInv, [Next]_vars
    PROVE  [R!RNext]_R!rvars
  <1>1. TypeOK /\ BarrierInv
    BY DEF IInv
  <1>2. CASE GameStep \/ LsStep \/ UNCHANGED vars
    BY <1>1, <1>2, OtherStepsStutter
  <1>3. CASE \E t \in Threads : Arrive(t) \/ GoesOn(t)
    BY <1>1, <1>3, ArriveRefines, GoesOnRefines DEF R!RNext
  <1> QED
    BY <1>2, <1>3 DEF Next

(* As long as nobody wakes up unasked, simthread_barrier_wait of           *)
(* simthread.cc keeps its promise: nobody passes it for the n-th time      *)
(* before both threads have come for the n-th time.                        *)
THEOREM BarrierIsARendezvous ==
    ASSUME ~SpuriousWakeUps
    PROVE  Spec => ImplementsRendezvous
  BY InvariantHolds, InitRefines, NextRefines, PTL DEF Spec, ImplementsRendezvous, R!RSpec
=============================================================================
