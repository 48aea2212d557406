--------------------------- MODULE NetPromiseProofs ---------------------------
(***************************************************************************)
(* Proofs of what NetLockstep promises as a whole, for any number of       *)
(* clients and any bounds: it implements LockstepLog (ImplementsLog), and  *)
(* nobody is thrown out for a wrong checklist whose world is right         *)
(* (KickedOnlyIfDiverged).                                                 *)
(***************************************************************************)
EXTENDS NetLogProofs

-----------------------------------------------------------------------------
(* What is never taken back.                                               *)

\* the settled world, in parts
SettledOK ==
    \E d \in Nat :
        /\ d <= Len(sQueue)
        /\ \A i \in 1 .. Len(sQueue) : Settled(i) <=> i <= d
        /\ SettledWorld \in Worlds /\ Len(SettledWorld) = Len(sWorld) + d
        /\ \A p \in 1 .. Len(sWorld) : SettledWorld[p] = sWorld[p]
        /\ \A i \in 1 .. d : SettledWorld[Len(sWorld) + i] = InputOf(sQueue[i])

LEMMA SettledHolds == IInv /\ SInv /\ LogInv => SettledOK
  BY SettledParts DEF SettledOK

LEMMA WorldIsSettled ==
    ASSUME IInv, SettledOK
    PROVE  Agree(sWorld, SettledWorld) /\ SettledWorld \in Worlds /\ sWorld \in Worlds
<1>1. sWorld \in Worlds /\ Len(sWorld) \in Nat
  BY DEF IInv, ServerOK, Worlds
<1> QED
  BY <1>1 DEF SettledOK, Agree

LEMMA WorldLasts ==
    IInv /\ SettledOK => Agree(sWorld, LastingWorld) /\ LastingWorld \in Worlds /\ sWorld \in Worlds
<1> SUFFICES ASSUME IInv, SettledOK
             PROVE  Agree(sWorld, LastingWorld) /\ LastingWorld \in Worlds /\ sWorld \in Worlds
  OBVIOUS
<1>1. Agree(sWorld, SettledWorld) /\ SettledWorld \in Worlds /\ sWorld \in Worlds
  BY WorldIsSettled
<1>2. Agree(sWorld, sWorld)
  BY <1>1 DEF Agree, Worlds
<1> QED
  BY <1>1, <1>2 DEF LastingWorld

\* ... and after a step
LEMMA WorldLastsNext ==
    IInv' /\ SettledOK' => Agree(sWorld', LastingWorld') /\ LastingWorld' \in Worlds /\ sWorld' \in Worlds
<1>1. (Agree(sWorld, LastingWorld) /\ LastingWorld \in Worlds /\ sWorld \in Worlds)'
        <=> (Agree(sWorld', LastingWorld') /\ LastingWorld' \in Worlds /\ sWorld' \in Worlds)
  BY DEF Agree
<1>2. (IInv /\ SettledOK)' =>
        (Agree(sWorld, LastingWorld) /\ LastingWorld \in Worlds /\ sWorld \in Worlds)'
  BY WorldLasts, PTL
<1> QED
  BY <1>1, <1>2

\* What is due stays settled while the server's world and step stay as they are.
LEMMA SettledStays ==
    ASSUME IInv, IInv', SettledOK, SettledOK', sWorld' = sWorld, sStep' = sStep,
           Len(sQueue) <= Len(sQueue'), \A i \in 1 .. Len(sQueue) : sQueue'[i] = sQueue[i]
    PROVE  Agree(SettledWorld, SettledWorld')
<1>1. /\ Len(sQueue) \in Nat /\ Len(sQueue') \in Nat /\ Len(sWorld) \in Nat
  BY DEF IInv, ServerOK, Worlds
<1>2. PICK d \in Nat :
        /\ d <= Len(sQueue)
        /\ \A i \in 1 .. Len(sQueue) : Settled(i) <=> i <= d
        /\ Len(SettledWorld) = Len(sWorld) + d
        /\ \A p \in 1 .. Len(sWorld) : SettledWorld[p] = sWorld[p]
        /\ \A i \in 1 .. d : SettledWorld[Len(sWorld) + i] = InputOf(sQueue[i])
  BY DEF SettledOK
<1>3. PICK e \in Nat :
        /\ e <= Len(sQueue')
        /\ \A i \in 1 .. Len(sQueue') : Settled(i)' <=> i <= e
        /\ Len(SettledWorld') = Len(sWorld) + e
        /\ \A p \in 1 .. Len(sWorld) : SettledWorld'[p] = sWorld[p]
        /\ \A i \in 1 .. e : SettledWorld'[Len(sWorld) + i] = InputOf(sQueue'[i])
  BY DEF SettledOK
<1>4. \A i \in 1 .. Len(sQueue) : Settled(i) => Settled(i)'
  BY <1>1 DEF Settled, First
<1>5. d <= e
  <2>1. CASE d = 0
    BY <2>1
  <2>2. CASE d > 0
    BY <2>2, <1>1, <1>2, <1>3, <1>4
  <2> QED
    BY <2>1, <2>2
<1>6. \A i \in 1 .. d : SettledWorld'[Len(sWorld) + i] = SettledWorld[Len(sWorld) + i]
  <2>1. \A i \in 1 .. d : i \in 1 .. e /\ i \in 1 .. Len(sQueue)
    BY <1>1, <1>2, <1>5
  <2>2. \A i \in 1 .. d : sQueue'[i] = sQueue[i]
    BY <2>1
  <2> QED
    BY <2>1, <2>2, <1>2, <1>3
<1>7. ASSUME NEW p \in 1 .. Len(SettledWorld) PROVE SettledWorld[p] = SettledWorld'[p]
  <2>1. CASE p <= Len(sWorld)
    BY <2>1, <1>1, <1>2, <1>3
  <2>2. CASE p > Len(sWorld)
    <3>1. p - Len(sWorld) \in 1 .. d /\ Len(sWorld) + (p - Len(sWorld)) = p
      BY <2>2, <1>1, <1>2
    <3> QED
      BY <3>1, <1>6
  <2> QED
    BY <2>1, <2>2, <1>1, <1>2
<1> QED
  BY <1>1, <1>2, <1>3, <1>5, <1>7 DEF Agree

\* A due tool was settled, and so was what is behind it.
LEMMA SettledToolRuns ==
    ASSUME IInv, IInv', SInv, LogInv, SettledOK, SettledOK', ServerRunsTool
    PROVE  Agree(SettledWorld, SettledWorld')
<1>1. /\ Len(sQueue) \in Nat /\ Len(sQueue') \in Nat /\ Len(sWorld) \in Nat
      /\ sQueue \in Seq(ToolMsgs \cup SyncMsgs) /\ sWorld \in Worlds
  BY DEF IInv, ServerOK, Worlds
<1>2. /\ Head(sQueue).type = "TOOL" /\ sWorld' = Append(sWorld, Tool(Head(sQueue).tool))
      /\ sQueue' = Tail(sQueue) /\ sStep' = sStep /\ sQueue # <<>>
  BY ServerRunsDueTool
<1>3. PICK l \in Nat, n \in Nat : l = Len(sWorld) /\ n = Len(sQueue)
  BY <1>1
<1>4. /\ n > 0 /\ Len(sQueue') = n - 1 /\ Head(sQueue) = sQueue[1]
      /\ \A i \in 1 .. n - 1 : sQueue'[i] = sQueue[i + 1]
  BY <1>1, <1>2, <1>3
<1>5. /\ Len(sWorld') = l + 1 /\ sWorld'[l + 1] = InputOf(sQueue[1])
      /\ \A p \in 1 .. l : sWorld'[p] = sWorld[p]
  BY <1>1, <1>2, <1>3, <1>4 DEF Worlds, InputOf
<1>6. PICK d \in Nat :
        /\ d <= n
        /\ \A i \in 1 .. n : Settled(i) <=> i <= d
        /\ Len(SettledWorld) = l + d
        /\ \A p \in 1 .. l : SettledWorld[p] = sWorld[p]
        /\ \A i \in 1 .. d : SettledWorld[l + i] = InputOf(sQueue[i])
  BY <1>3 DEF SettledOK
<1>7. PICK e \in Nat :
        /\ e <= n - 1
        /\ \A i \in 1 .. n - 1 : Settled(i)' <=> i <= e
        /\ Len(SettledWorld') = l + 1 + e
        /\ \A p \in 1 .. l + 1 : SettledWorld'[p] = sWorld'[p]
        /\ \A i \in 1 .. e : SettledWorld'[l + 1 + i] = InputOf(sQueue'[i])
  <2>1. PICK e \in Nat :
          /\ e <= Len(sQueue')
          /\ \A i \in 1 .. Len(sQueue') : Settled(i)' <=> i <= e
          /\ Len(SettledWorld') = Len(sWorld') + e
          /\ \A p \in 1 .. Len(sWorld') : SettledWorld'[p] = sWorld'[p]
          /\ \A i \in 1 .. e : SettledWorld'[Len(sWorld') + i] = InputOf(sQueue'[i])
    BY DEF SettledOK
  <2>2. Len(sQueue') = n - 1 /\ Len(sWorld') = l + 1
    BY <1>4, <1>5
  <2> QED
    BY <2>1, <2>2
<1>8. ASSUME NEW i \in 1 .. n - 1, Settled(i + 1) PROVE Settled(i)'
  <2>1. \A j \in 1 .. i + 1 : sQueue[j].step <= sStep
    BY <1>8 DEF Settled
  <2>2. \A j \in 1 .. i : sQueue[j].type # "SYNC"
    BY <1>8 DEF Settled, First
  <2>3. \A j \in 1 .. i : sQueue'[j] = sQueue[j + 1] /\ j + 1 \in 1 .. i + 1
    BY <1>3, <1>4
  <2>4. \A j \in 1 .. i - 1 : sQueue'[j] = sQueue[j + 1] /\ j + 1 \in 1 .. i
    BY <1>3, <1>4
  <2>5. \A j \in 1 .. i : sQueue'[j].step <= sStep'
    BY <1>2, <2>1, <2>3
  <2>6. \A j \in 1 .. i - 1 : sQueue'[j].type # "SYNC"
    BY <2>2, <2>4
  <2> QED
    BY <2>5, <2>6 DEF Settled, First
<1>9. d <= e + 1
  <2>1. CASE d <= 1
    BY <2>1
  <2>2. CASE d > 1
    <3>1. d - 1 \in 1 .. n - 1 /\ (d - 1) + 1 = d /\ d \in 1 .. n
      BY <2>2, <1>6
    <3>2. Settled((d - 1) + 1)
      BY <3>1, <1>6
    <3>3. Settled(d - 1)'
      BY <3>1, <3>2, <1>8
    <3> QED
      BY <3>1, <3>3, <1>7
  <2> QED
    BY <2>1, <2>2
<1>10. ASSUME NEW p \in 1 .. l + d PROVE SettledWorld[p] = SettledWorld'[p]
  <2>1. CASE p <= l
    BY <2>1, <1>5, <1>6, <1>7
  <2>2. CASE p = l + 1
    <3>1. d >= 1 /\ 1 \in 1 .. d
      BY <2>2
    <3> QED
      BY <2>2, <3>1, <1>5, <1>6, <1>7
  <2>3. CASE p > l + 1
    <3>1. /\ p - l \in 1 .. d /\ l + (p - l) = p
          /\ p - l - 1 \in 1 .. e /\ l + 1 + (p - l - 1) = p
          /\ p - l - 1 \in 1 .. n - 1 /\ (p - l - 1) + 1 = p - l
      BY <2>3, <1>6, <1>7, <1>9
    <3>2. SettledWorld[p] = InputOf(sQueue[p - l])
      BY <3>1, <1>6
    <3>3. SettledWorld'[p] = InputOf(sQueue'[p - l - 1])
      BY <3>1, <1>7
    <3>4. sQueue'[p - l - 1] = sQueue[p - l]
      BY <3>1, <1>4
    <3> QED
      BY <3>2, <3>3, <3>4
  <2> QED
    BY <2>1, <2>2, <2>3
<1>11. \A p \in 1 .. Len(SettledWorld) : SettledWorld[p] = SettledWorld'[p]
  BY <1>6, <1>10
<1> QED
  BY <1>6, <1>7, <1>9, <1>11 DEF Agree

\* A due reload was the end of what was settled.
LEMMA SettledReload ==
    ASSUME IInv, SInv, LogInv, SettledOK, NEW new \in Nat, ServerReloads(new), RunsSync(new)
    PROVE  Agree(SettledWorld, sWorld')
<1>1. /\ Len(sQueue) \in Nat /\ Len(sWorld) \in Nat
      /\ sQueue \in Seq(ToolMsgs \cup SyncMsgs) /\ sWorld \in Worlds
  BY DEF IInv, ServerOK, Worlds
<1>2. PICK l \in Nat, n \in Nat : l = Len(sWorld) /\ n = Len(sQueue)
  BY <1>1
<1>3. /\ sQueue # <<>> /\ n > 0 /\ sQueue[1].type = "SYNC" /\ new = sQueue[1].newmap
  BY <1>1, <1>2 DEF RunsSync, HasDue
<1>4. /\ Len(sWorld') = l + 1 /\ sWorld'[l + 1] = InputOf(sQueue[1])
      /\ \A p \in 1 .. l : sWorld'[p] = sWorld[p]
  BY <1>1, <1>2, <1>3 DEF ServerReloads, Worlds, InputOf
<1>5. PICK d \in Nat :
        /\ d <= n
        /\ \A i \in 1 .. n : Settled(i) <=> i <= d
        /\ Len(SettledWorld) = l + d
        /\ \A p \in 1 .. l : SettledWorld[p] = sWorld[p]
        /\ \A i \in 1 .. d : SettledWorld[l + i] = InputOf(sQueue[i])
  BY <1>2 DEF SettledOK
<1>6. d <= 1
  <2>1. SUFFICES ASSUME d > 1 PROVE FALSE
    BY <1>5
  <2>2. Settled(2) /\ 1 \in 1 .. 2 - 1
    BY <2>1, <1>5
  <2> QED
    BY <2>2, <1>3 DEF Settled, First
<1>7. ASSUME NEW p \in 1 .. l + d PROVE SettledWorld[p] = sWorld'[p]
  <2>1. CASE p <= l
    BY <2>1, <1>4, <1>5
  <2>2. CASE p = l + 1
    <3>1. 1 \in 1 .. d
      BY <2>2
    <3> QED
      BY <2>2, <3>1, <1>4, <1>5
  <2> QED
    BY <2>1, <2>2, <1>6
<1>8. \A p \in 1 .. Len(SettledWorld) : SettledWorld[p] = sWorld'[p]
  BY <1>5, <1>7
<1> QED
  BY <1>4, <1>5, <1>6, <1>8 DEF Agree

LEMMA LastingGrows ==
    ASSUME IInv, IInv', SInv, LogInv, SettledOK, SettledOK', [Next]_vars
    PROVE  Agree(LastingWorld, LastingWorld') /\ LastingWorld \in Worlds /\ LastingWorld' \in Worlds
<1>1. /\ Agree(sWorld, LastingWorld) /\ LastingWorld \in Worlds /\ sWorld \in Worlds
      /\ Agree(sWorld', LastingWorld') /\ LastingWorld' \in Worlds /\ sWorld' \in Worlds
      /\ SettledWorld \in Worlds
  BY WorldLasts, WorldLastsNext, WorldIsSettled
<1>2. SUFFICES Agree(LastingWorld, LastingWorld')
  BY <1>1
<1>3. ASSUME Agree(LastingWorld, sWorld') PROVE Agree(LastingWorld, LastingWorld')
  BY <1>1, <1>3, AgreeTransitive
<1>4. Agree(sWorld, sWorld') \/ UNCHANGED core
  <2>1. /\ Agree(sWorld, sWorld)
        /\ \A x \in Inputs : Agree(sWorld, Append(sWorld, x))
    <3>1. Agree(sWorld, sWorld)
      BY <1>1 DEF Agree, Worlds
    <3>2. ASSUME NEW x \in Inputs PROVE Agree(sWorld, Append(sWorld, x))
      BY <1>1, AgreeAppend
    <3> QED
      BY <3>1, <3>2
  <2>2. sWorld' = sWorld \/ \E x : sWorld' = Append(sWorld, x)
    BY WorldGrows
  <2>3. \A x : sWorld' = Append(sWorld, x) => x \in Inputs
    <3>1. ASSUME NEW x, sWorld' = Append(sWorld, x) PROVE x \in Inputs
      <4>1. sWorld'[Len(sWorld) + 1] = x /\ Len(sWorld') = Len(sWorld) + 1 /\ Len(sWorld) \in Nat
        BY <1>1, <3>1 DEF Worlds
      <4> QED
        BY <1>1, <4>1 DEF Worlds
    <3> QED
      BY <3>1
  <2> QED
    BY <2>1, <2>2, <2>3
<1>5. CASE UNCHANGED core
  <2>1. UNCHANGED <<sPaused, sWorld, sQueue, sStep>>
    BY <1>5 DEF core
  <2>2. LastingWorld' = LastingWorld
    BY <2>1 DEF LastingWorld, SettledWorld
  <2>3. Len(LastingWorld) \in Nat
    BY <1>1 DEF Worlds
  <2> QED
    BY <2>2, <2>3 DEF Agree
<1>6. CASE sPaused /\ ~UNCHANGED core
  BY <1>3, <1>4, <1>6 DEF LastingWorld
<1>7. CASE ServerFrame
  <2>1. ~sPaused /\ ~HasDue(sQueue, sStep) /\ sWorld' = Append(sWorld, Frame)
    BY <1>7 DEF ServerFrame
  <2>2. SettledWorld = sWorld
    <3>1. PICK d \in Nat :
            /\ d <= Len(sQueue)
            /\ \A i \in 1 .. Len(sQueue) : Settled(i) <=> i <= d
            /\ Len(SettledWorld) = Len(sWorld) + d
            /\ \A p \in 1 .. Len(sWorld) : SettledWorld[p] = sWorld[p]
      BY DEF SettledOK
    <3>2. /\ sQueue \in Seq(ToolMsgs \cup SyncMsgs) /\ Len(sQueue) \in Nat /\ Len(sWorld) \in Nat
      BY DEF IInv, ServerOK, Worlds
    <3>3. d = 0
      <4>1. SUFFICES ASSUME d > 0 PROVE FALSE
        BY <3>1
      <4>2. Settled(1) /\ sQueue # <<>> /\ Head(sQueue) = sQueue[1] /\ 1 \in 1 .. 1
        BY <4>1, <3>1, <3>2
      <4> QED
        BY <4>2, <2>1 DEF Settled, HasDue
    <3>4. Len(SettledWorld) = Len(sWorld)
      BY <3>1, <3>2, <3>3
    <3> QED
      BY <1>1, <3>1, <3>4 DEF Worlds
  <2>3. LastingWorld = sWorld
    BY <2>1, <2>2 DEF LastingWorld
  <2>4. Agree(sWorld, sWorld')
    BY <1>1, <2>1, AgreeAppend DEF Inputs, Frame
  <2> QED
    BY <1>3, <2>3, <2>4
<1>8. ASSUME ~sPaused, NEW m, Schedules(m) PROVE Agree(LastingWorld, LastingWorld')
  <2>1. /\ ~sPaused' /\ sWorld' = sWorld /\ sStep' = sStep /\ sQueue' = Append(sQueue, m)
    BY <1>8, ScheduleAppends DEF Schedules, ToolMsgs, SyncMsgs
  <2>2. /\ Len(sQueue) <= Len(sQueue') /\ \A i \in 1 .. Len(sQueue) : sQueue'[i] = sQueue[i]
    <3>1. sQueue \in Seq(ToolMsgs \cup SyncMsgs)
      BY DEF IInv, ServerOK
    <3> QED
      BY <2>1, <3>1
  <2>3. Agree(SettledWorld, SettledWorld')
    BY <2>1, <2>2, SettledStays
  <2> QED
    BY <1>8, <2>1, <2>3 DEF LastingWorld
<1>9. CASE ~sPaused /\ ServerRunsTool
  <2>1. sPaused' = sPaused
    BY <1>9, ServerRunsDueTool
  <2>2. Agree(SettledWorld, SettledWorld')
    BY <1>9, SettledToolRuns
  <2> QED
    BY <1>9, <2>1, <2>2 DEF LastingWorld
<1>10. ASSUME ~sPaused, NEW new \in Nat, Reloads(new) PROVE Agree(LastingWorld, LastingWorld')
  <2>1. ServerReloads(new) /\ RunsSync(new)
    BY <1>10 DEF Reloads, ForcedNow
  <2>2. Agree(SettledWorld, sWorld')
    BY <2>1, SettledReload
  <2> QED
    BY <1>3, <1>10, <2>2 DEF LastingWorld
<1>11. \/ UNCHANGED core \/ ServerFrame \/ \E m \in ToolMsgs \cup SyncMsgs : Schedules(m)
       \/ ServerRunsTool \/ \E new \in Nat : Reloads(new)
  BY NextIsGlobal
<1> QED
  BY <1>5, <1>6, <1>7, <1>8, <1>9, <1>10, <1>11

-----------------------------------------------------------------------------
(* The clients play a prefix of it.                                        *)

\* c is one of those the lockstep log calls followers
Following(c) == cMode[c] = "playing" /\ ~lost[c]

FollowersLast == \A c \in Clients : Following(c) => Agree(cWorld[c], LastingWorld)

\* While the server pauses its players have not run its last step.
LEMMA PausedAhead ==
    ASSUME IInv, SInv, LogInv, NEW F \in Worlds, Coming(F), NEW c \in Clients, PlayerOK(F, c),
           IdleOK(c), sPaused
    PROVE  Agree(cWorld[c], sWorld)
<1>1. /\ cStep[c] \in Nat /\ cBarrier[c] \in Nat /\ sStep \in Nat /\ cStep[c] <= cBarrier[c]
      /\ cBarrier[c] <= sStep /\ wire[c] \in Seq(ToClientMsgs) /\ cWorld[c] \in Worlds
  BY LocalTypes
<1>2. Agree(cWorld[c], F) /\ Frames(F, Len(cWorld[c])) <= sStep
  BY PlayerInLog
<1>3. 0 < Frames(F, Len(cWorld[c])) /\ (sStep > 0 => Frames(F, Len(cWorld[c])) < sStep)
  <2>1. CASE cStep[c] = 0
    <3>1. LoadedOK(F, c)
      BY <2>1 DEF PlayerOK
    <3>2. Head(wire[c]) \in Elems(wire[c]) /\ Head(wire[c]).type = "READY"
      BY <3>1, <1>1, ElemsParts DEF LoadedOK
    <3>3. sStep > 0 => Head(wire[c]).step < sStep
      BY <3>2 DEF IdleOK
    <3> QED
      BY <3>1, <3>3 DEF LoadedOK, Follows
  <2>2. CASE cStep[c] > 0
    <3>1. RunningOK(F, c)
      BY <2>2 DEF PlayerOK
    <3>2. sStep > 0 => cStep[c] < sStep
      BY <1>1 DEF IdleOK
    <3> QED
      BY <3>1, <3>2 DEF RunningOK, Follows
  <2> QED
    BY <1>1, <2>1, <2>2
<1>4. PICK k \in Nat, l \in Nat : k = Len(cWorld[c]) /\ l = Len(sWorld)
  BY <1>1, QueueFacts DEF Worlds
<1>5. Frames(F, l) = sStep /\ Frames(F, k) < sStep /\ Frames(F, k) \in Nat
  <2>1. Frames(F, l) = sStep
    BY <1>4, ComingPlaces
  <2>2. Frames(F, k) \in Nat
    BY FramesType
  <2> QED
    BY <2>1, <2>2, <1>1, <1>2, <1>3, <1>4
<1>6. k < l
  <2>1. SUFFICES ASSUME l <= k PROVE FALSE
    BY <1>4
  <2>2. Frames(F, l) <= Frames(F, k)
    BY <2>1, FramesMonotone
  <2> QED
    BY <2>2, <1>1, <1>5
<1>7. Agree(sWorld, F)
  BY DEF Coming
<1> QED
  BY <1>2, <1>4, <1>6, <1>7 DEF Agree

LEMMA FollowersHold ==
    IInv /\ SInv /\ LogInv /\ IdleInv /\ AlongInv => FollowersLast
<1> SUFFICES ASSUME IInv, SInv, LogInv, IdleInv, AlongInv, NEW c \in Clients, Following(c)
             PROVE  Agree(cWorld[c], LastingWorld)
  BY DEF FollowersLast
<1>1. PICK F \in Worlds : Coming(F) /\ Along(F, c)
  BY DEF AlongInv
<1>2. PlayerOK(F, c)
  BY <1>1 DEF Along, Following
<1>3. CASE sPaused
  <2>1. IdleOK(c)
    BY DEF IdleInv
  <2>2. Agree(cWorld[c], sWorld)
    BY <1>1, <1>2, <1>3, <2>1, PausedAhead
  <2> QED
    BY <1>3, <2>2 DEF LastingWorld
<1>4. CASE ~sPaused
  <2>1. Agree(cWorld[c], F) /\ Frames(F, Len(cWorld[c])) <= sStep /\ cWorld[c] \in Worlds
    BY <1>2, PlayerInLog, LocalTypes
  <2>2. Agree(cWorld[c], SettledWorld)
    BY <1>1, <2>1, LogIsSettled
  <2> QED
    BY <1>4, <2>2 DEF LastingWorld
<1> QED
  BY <1>3, <1>4

-----------------------------------------------------------------------------
(* The steps of LockstepLog.                                               *)

CopyOf(c) == IF Following(c) THEN cWorld[c] ELSE NotFollowing

\* what moves one client leaves the others and the server alone
Moves(c) == ~UNCHANGED <<cMode[c], cWorld[c], lost[c]>>

LEMMA OneMoves ==
    ASSUME IInv, [Next]_vars, NEW c \in Clients, Moves(c)
    PROVE  UNCHANGED core /\ \A d \in Clients : d # c => ~Moves(d)
<1> USE DEF Moves
<1> DEFINE Alone == UNCHANGED core /\ \A d \in Clients : d # c => ~Moves(d)
<1>1. Indexed
  BY IndexedByClients
<1>2. CASE UNCHANGED vars
  BY <1>2 DEF vars, clientVars, history
<1>3. CASE ServerFrame \/ ServerTool \/ ServerForcesSync \/ ServerReloadsAtOnce \/ ServerRuns
  <2>1. UNCHANGED <<cMode, cWorld, lost>>
    BY <1>3 DEF ServerFrame, ServerTool, BroadcastTool, ServerForcesSync, ServerReloadsAtOnce,
       ServerRuns, ServerRunsTool, ServerRunsSync, clientVars, history
  <2> QED
    BY <2>1
<1>4. ASSUME NEW e \in Clients, ServerHandles(e) \/ ServerDropsClient(e) \/ Flush(e) PROVE FALSE
  <2>1. UNCHANGED <<cMode, cWorld, lost>>
    BY <1>4 DEF ServerHandles, ServerKicksInitiator, ServerIgnoresTool, ServerSchedulesTool,
       BroadcastTool, ServerRefusesJoin, ServerAcceptsJoin, ServerFailsToAnswer, ServerGetsReady,
       ServerGetsClose, ServerDropsClient, Flush, clientVars, history
  <2> QED
    BY <2>1
<1>5. ASSUME NEW e \in Clients, NEW why, ClientGone(e, why) PROVE Alone
  <2>1. e = c /\ UNCHANGED core
    BY <1>1, <1>5 DEF ClientGone, Indexed, core, serverVars, counters
  <2> QED
    BY <2>1, <1>1, <1>5 DEF ClientGone, Indexed
<1>6. ASSUME NEW e \in Clients, Connect(e) PROVE Alone
  <2>1. e = c /\ UNCHANGED core
    BY <1>1, <1>6 DEF Connect, Indexed, core
  <2> QED
    BY <2>1, <1>1, <1>6 DEF Connect, Indexed
<1>7. ASSUME NEW e \in Clients, ClientHandles(e) \/ ClientLeaves(e) \/ ClientTool(e)
      PROVE  Alone
  <2>1. CASE \E why : ClientGone(e, why)
    BY <2>1, <1>5
  <2>2. CASE ~\E why : ClientGone(e, why)
    <3>1. /\ UNCHANGED core
          /\ cMode' = cMode \/ \E x : cMode' = [cMode EXCEPT ![e] = x]
          /\ cWorld' = cWorld \/ \E x : cWorld' = [cWorld EXCEPT ![e] = x]
          /\ lost' = lost
      BY <1>7, <2>2 DEF ClientHandles, ClientLeaves, ClientTool, ClientIsAccepted, ClientIsRefused,
         ClientIsGarbled, ClientSkips, ClientLoadsGame, ClientGetsStep, ClientGetsCheck,
         ClientQueues, ClientGetsReady, ClientGetsClose, core, serverVars, clientVars, counters,
         history
    <3>2. e = c
      BY <1>1, <3>1 DEF Indexed
    <3> QED
      BY <1>1, <3>1, <3>2 DEF Indexed
  <2> QED
    BY <2>1, <2>2
<1>8. ASSUME NEW e \in Clients, ClientRunsQueue(e) \/ ClientFrame(e)
      PROVE  Alone
  <2>1. CASE \E why : ClientGone(e, why)
    BY <2>1, <1>5
  <2>2. CASE ~\E why : ClientGone(e, why)
    <3>1. /\ UNCHANGED core
          /\ cMode' = cMode
          /\ cWorld' = cWorld \/ \E x : cWorld' = [cWorld EXCEPT ![e] = x]
          /\ lost' = lost \/ \E x : lost' = [lost EXCEPT ![e] = x]
      BY <1>8, <2>2 DEF ClientRunsQueue, ClientDrops, ClientChecks, ClientRunsTool, ClientRunsSync,
         ClientFrame, core, serverVars, counters, history
    <3>2. e = c
      BY <1>1, <3>1 DEF Indexed
    <3> QED
      BY <1>1, <3>1, <3>2 DEF Indexed
  <2> QED
    BY <2>1, <2>2
<1> QED
  BY <1>2, <1>3, <1>4, <1>6, <1>7, <1>8 DEF Next

\* A client that follows has gone on or has what it had; one that begins to follow has just
\* loaded a game.
LEMMA CopyMoves ==
    ASSUME IInv, NEW c \in Clients, LocalStep(c), Following(c)'
    PROVE  \/ /\ Following(c)
              /\ cWorld'[c] = cWorld[c] \/ \E x : cWorld'[c] = Append(cWorld[c], x)
           \/ /\ ~Following(c)
              /\ \E w \in Worlds : \E n \in Nat : cWorld'[c] = Append(w, Reload(n))
<1> USE DEF Following
<1>1. CASE RestStep(c) \/ ServerSide(c)
  <2>1. UNCHANGED <<cMode[c], cWorld[c], lost[c]>>
    BY <1>1 DEF RestStep, ServerSide, FrameStep, ScheduleStep, RunStep, ReloadStep, CutStep,
       AnswerStep, FlushStep, Machine, Records
  <2> QED
    BY <2>1
<1>2. CASE ConnectStep(c) \/ GoneStep(c)
  BY <1>2 DEF ConnectStep, GoneStep
<1>3. CASE ReadStep(c) /\ ~Loaded(c)
  <2>1. UNCHANGED <<cWorld[c], lost[c]>> /\ (cMode'[c] = cMode[c] \/ cMode'[c] = "waiting")
    BY <1>3 DEF ReadStep, Accepted, Skipped, TimeRead, CommandQueued, Unpaused, Machine, Records
  <2> QED
    BY <2>1
<1>4. CASE ReadStep(c) /\ Loaded(c)
  <2>1. /\ wire[c] # <<>> /\ Head(wire[c]).type = "GAME" /\ cMode[c] = "waiting"
        /\ cWorld'[c] = Append(Head(wire[c]).world, Reload(Head(wire[c]).reload))
    BY <1>4 DEF ReadStep, Loaded, ClientReads
  <2>2. Head(wire[c]) \in ToClientMsgs
    BY <2>1, LocalTypes, HeadTailType
  <2>3. Head(wire[c]).world \in Worlds /\ Head(wire[c]).reload \in Nat
    BY <2>1, <2>2 DEF ToClientMsgs, BroadcastMsgs, TimeMsgs, CheckMsgs, ToolMsgs, SyncMsgs,
       ReadyMsgs, JoinMsgs, GameMsgs, Close
  <2> QED
    BY <2>1, <2>3
<1>5. CASE PopStep(c)
  BY <1>5 DEF PopStep, Dropped, Checked, ToolRun, Records
<1>6. CASE SyncStep(c)
  BY <1>6 DEF SyncStep, Due
<1>7. CASE AdvanceStep(c) \/ RequestStep(c)
  BY <1>7 DEF AdvanceStep, RequestStep, Machine, Records
<1> QED
  BY <1>1, <1>2, <1>3, <1>4, <1>5, <1>6, <1>7 DEF LocalStep, ClientSide

LEMMA PrefixOfLog ==
    ASSUME NEW v \in Worlds, NEW w \in Worlds, Agree(v, w)
    PROVE  v \in Log!PrefixesOf(w)
<1>1. Len(v) <= Len(w) /\ SubSeq(w, 1, Len(v)) = v
  BY PrefixByInputs DEF IsPrefixOf
<1>2. Len(v) \in 0 .. Len(w)
  BY <1>1 DEF Worlds
<1> QED
  BY <1>1, <1>2 DEF Log!PrefixesOf

LEMMA WorldsAreCopies == \A w \in Worlds : w # NotFollowing
<1>1. ASSUME NEW w \in Worlds, Len(w) = 1 PROVE w[1] \in Inputs
  BY <1>1 DEF Worlds
<1>2. ASSUME NEW x \in Inputs PROVE x[1] # "not following"
  BY <1>2 DEF Inputs
<1>3. Len(NotFollowing) = 1 /\ NotFollowing[1] = <<"not following", 0>>
  BY DEF NotFollowing
<1>4. <<"not following", 0>>[1] = "not following"
  OBVIOUS
<1>5. NotFollowing[1][1] = "not following"
  BY <1>3, <1>4
<1> QED
  BY <1>1, <1>2, <1>3, <1>5

LEMMA InitIsLog == Init => Log!Init
<1> SUFFICES ASSUME Init PROVE Log!Init
  OBVIOUS
<1>1. LastingWorld = <<>>
  <2>1. sWorld = <<>> /\ sQueue = <<>>
    BY DEF Init
  <2>2. {i \in DOMAIN sQueue : /\ \A j \in 1 .. i : sQueue[j].step <= sStep
                               /\ \A j \in 1 .. i - 1 : sQueue[j].type # "SYNC"} = {}
    BY <2>1
  <2>3. SettledWorld = sWorld \o [i \in {} |-> InputOf(sQueue[i])]
    BY <2>2 DEF SettledWorld
  <2>4. [i \in {} |-> InputOf(sQueue[i])] = <<>>
    OBVIOUS
  <2>5. <<>> \o <<>> = <<>>
    OBVIOUS
  <2> QED
    BY <2>1, <2>3, <2>4, <2>5 DEF LastingWorld
<1>2. \A c \in Clients : cMode[c] = "out"
  BY DEF Init
<1>3. [c \in Clients |-> IF cMode[c] = "playing" /\ ~lost[c] THEN cWorld[c] ELSE NotFollowing]
         = [c \in Clients |-> NotFollowing]
  BY <1>2
<1> QED
  BY <1>1, <1>3 DEF Log!Init

LEMMA NextIsLog ==
    ASSUME IInv, IInv', SInv, LogInv, SettledOK, SettledOK', FollowersLast', [Next]_vars
    PROVE  [Log!Next]_Log!logVars
<1> DEFINE copy == [c \in Clients |-> IF cMode[c] = "playing" /\ ~lost[c]
                                      THEN cWorld[c] ELSE NotFollowing]
<1>1. /\ Agree(LastingWorld, LastingWorld')
      /\ LastingWorld \in Worlds /\ LastingWorld' \in Worlds
  BY LastingGrows
<1>2. \A c \in Clients : LocalStep(c)
  BY NextIsLocal
<1>3. ASSUME UNCHANGED core PROVE LastingWorld' = LastingWorld
  BY <1>3 DEF core, LastingWorld, SettledWorld
<1>4. CASE \A c \in Clients : ~Moves(c)
  <2>1. copy' = copy
    BY <1>4 DEF Moves
  <2>2. LastingWorld \in Log!PrefixesOf(LastingWorld')
    BY <1>1, PrefixOfLog
  <2>3. Log!Extend
    BY <2>1, <2>2 DEF Log!Extend
  <2> QED
    BY <2>3 DEF Log!Next
<1>5. ASSUME NEW c \in Clients, Moves(c) PROVE [Log!Next]_Log!logVars
  <2>1. LastingWorld' = LastingWorld /\ \A d \in Clients : d # c => ~Moves(d)
    BY <1>3, <1>5, OneMoves
  <2>2. /\ \A d \in Clients : copy[d] = CopyOf(d)
        /\ \A d \in Clients : copy'[d] = CopyOf(d)'
    BY DEF CopyOf, Following
  <2>3. \A d \in Clients : d # c => copy'[d] = copy[d]
    BY <2>1 DEF Moves
  <2>4. copy' = [copy EXCEPT ![c] = copy'[c]]
    BY <2>3
  <2>5. ASSUME copy'[c] = copy[c] PROVE [Log!Next]_Log!logVars
    <3>1. copy' = copy
      BY <2>3, <2>5
    <3> QED
      BY <2>1, <3>1 DEF Log!logVars
  <2>6. CASE ~Following(c)'
    <3>1. copy'[c] = NotFollowing
      BY <2>2, <2>6 DEF CopyOf
    <3>2. CASE copy[c] # NotFollowing
      <4>1. Log!Stop(c)
        BY <2>1, <2>4, <3>1, <3>2 DEF Log!Stop
      <4> QED
        BY <4>1 DEF Log!Next
    <3> QED
      BY <2>5, <3>1, <3>2
  <2>7. CASE Following(c)'
    <3>1. PICK s : s = cWorld'[c]
      OBVIOUS
    <3>2. s \in Worlds
      BY <3>1 DEF IInv, ClientOK
    <3>3. s \in Log!PrefixesOf(LastingWorld)
      <4>1. Agree(s, LastingWorld')
        BY <2>7, <3>1 DEF FollowersLast, Agree
      <4> QED
        BY <1>1, <2>1, <3>2, <4>1, PrefixOfLog
    <3>4. copy'[c] = s
      BY <2>2, <2>7, <3>1 DEF CopyOf
    <3>5. copy' = [copy EXCEPT ![c] = s]
      BY <2>4, <3>4
    <3>6. CASE Following(c) /\ s = cWorld[c]
      BY <2>2, <2>5, <3>4, <3>6 DEF CopyOf
    <3>7. ASSUME Following(c), NEW x, s = Append(cWorld[c], x) PROVE [Log!Next]_Log!logVars
      <4>1. cWorld[c] \in Worlds /\ copy[c] = cWorld[c]
        BY <2>2, <3>7, LocalTypes DEF CopyOf
      <4>2. copy[c] # NotFollowing /\ Len(s) > Len(copy[c])
        BY <3>7, <4>1, WorldsAreCopies DEF Worlds
      <4>3. Log!Follow(c)
        BY <2>1, <3>3, <3>5, <4>2 DEF Log!Follow
      <4> QED
        BY <4>3 DEF Log!Next
    <3>8. ASSUME ~Following(c), NEW w \in Worlds, NEW n \in Nat, s = Append(w, Reload(n))
          PROVE  [Log!Next]_Log!logVars
      <4>1. copy[c] = NotFollowing
        BY <2>2, <3>8 DEF CopyOf
      <4>2. s # <<>> /\ s[Len(s)] = Reload(n)
        BY <3>8 DEF Worlds
      <4>3. s[Len(s)] \in {"reload"} \X Nat
        BY <4>2 DEF Reload
      <4>4. Log!Start(c)
        BY <2>1, <3>3, <3>5, <4>1, <4>2, <4>3 DEF Log!Start
      <4> QED
        BY <4>4 DEF Log!Next
    <3>9. LocalStep(c)
      BY <1>2
    <3>10. \/ /\ Following(c)
              /\ s = cWorld[c] \/ \E x : s = Append(cWorld[c], x)
           \/ /\ ~Following(c)
              /\ \E w \in Worlds : \E n \in Nat : s = Append(w, Reload(n))
      BY <2>7, <3>1, <3>9, CopyMoves
    <3> QED
      BY <3>6, <3>7, <3>8, <3>10
  <2> QED
    BY <2>6, <2>7
<1> QED
  BY <1>4, <1>5

\* If no direct send fails the protocol implements the lockstep log: whatever the server has
\* executed, and while it runs whatever is due there, is never taken back, and a client that did
\* not lose commands to a reload starts behind a reload with a prefix of it and then only moves
\* forward along it, until it ends.
THEOREM LockstepIsALog ==
    ASSUME ~SendMayFail PROVE Spec => ImplementsLog
<1> DEFINE Inv == /\ IInv /\ SInv /\ LogInv /\ SlotInv /\ StreamInv /\ JoinInv /\ OrderInv
                  /\ IdleInv /\ AlongInv /\ SettledOK /\ FollowersLast
<1>1. Init => IInv /\ SInv /\ LogInv /\ SlotInv /\ StreamInv /\ JoinInv /\ OrderInv
                 /\ IdleInv /\ AlongInv
  BY InitIInv, InitSInv, InitLogInv, InitSlotInv, InitStreamInv, InitJoinInv, InitOrderInv,
     InitIdleInv, InitAlongInv
<1>2. Inv /\ [Next]_vars => (IInv /\ SInv /\ LogInv /\ SlotInv /\ StreamInv /\ JoinInv
                              /\ OrderInv /\ IdleInv /\ AlongInv)'
  BY NextIInv, NextSInv, NextLogInv, NextSlotInv, NextStreamInv, NextJoinInv, NextOrderInv,
     NextIdleInv, NextAlongInv
<1>3. Spec => []Inv
  BY <1>1, <1>2, SettledHolds, FollowersHold, PTL DEF Spec
<1>4. Inv /\ Inv' /\ [Next]_vars => [Log!Next]_Log!logVars
  BY NextIsLog
<1> QED
  BY <1>3, <1>4, InitIsLog, PTL DEF Spec, ImplementsLog, Log!Spec

-----------------------------------------------------------------------------
(* KickedOnlyIfDiverged.  Checklists are compared by the server, when it   *)
(* reads a tool or an NWC_READY, and by a client, when it runs a check or  *)
(* a tool.  All of them are the server's world at the frame they are said  *)
(* to be of, unless the client lost commands.  Before its first step a     *)
(* client may report what a former game left; that is too old to be        *)
(* compared.                                                               *)

\* the checklist l of step n is right, or too old
Reported(n, l) == AtFrame(sWorld, l, n) \/ (n = 0 /\ sStep >= Ring)

\* what c has told the server, and what the server has told c
ReportsOK(c) ==
    /\ \A m \in Elems(up[c]) : m.type = "TOOL" => Reported(m.lstep, m.lchk)
    /\ \A m \in Elems(up[c]) \cup Elems(wire[c]) :
          m.type = "READY" => AtFrame(sWorld, m.chk, m.step)

\* the last two checklists of c; of the second it has no need just after it was told its step
OwnListsOK(c) ==
    cMode[c] = "playing" /\ cStep[c] > 0 =>
        /\ AtFrame(sWorld, ListAt(cLists[c], cStep[c]), cStep[c])
        /\ \/ AtFrame(sWorld, ListAt(cLists[c], cStep[c] - 1), cStep[c] - 1)
           \/ \A x \in Elems(cQueue[c]) : x.step > cStep[c]

KickOK(c) ==
    /\ fate[c] = "checklist" => lost[c]
    /\ ListAt(cLists[c], 0) = <<>> \/ sStep >= Ring
    /\ \A m \in Elems(up[c]) \cup Elems(wire[c]) : m.type = "READY" => m.step > 0
    /\ ~lost[c] => ReportsOK(c) /\ OwnListsOK(c)

KickInv == \A c \in Clients : KickOK(c)

LEMMA ReportTypes ==
    ASSUME NEW m \in ToClientMsgs \cup ToServerMsgs
    PROVE  /\ m.type = "READY" => m.chk \in Worlds /\ m.step \in Nat
           /\ m.type = "TOOL" => m.lchk \in Worlds /\ m.lstep \in Nat
  BY DEF ToClientMsgs, ToServerMsgs, BroadcastMsgs, TimeMsgs, CheckMsgs, ToolMsgs, SyncMsgs,
         ReadyMsgs, JoinMsgs, GameMsgs, Close, JoinRequest

LEMMA ChannelTypes ==
    ASSUME IInv, NEW c \in Clients
    PROVE  \A m \in Elems(up[c]) \cup Elems(wire[c]) : m \in ToClientMsgs \cup ToServerMsgs
<1>1. wire[c] \in Seq(ToClientMsgs) /\ up[c] \in Seq(ToServerMsgs)
  BY LocalTypes
<1>2. Elems(wire[c]) \subseteq ToClientMsgs /\ Elems(up[c]) \subseteq ToServerMsgs
  BY <1>1, ElemsParts
<1> QED
  BY <1>2

\* What is right stays right.
LEMMA EmptyAtFrame ==
    ASSUME NEW w \in Worlds PROVE AtFrame(w, <<>>, 0)
<1>1. Len(<<>>) = 0 /\ Len(w) \in Nat
  BY DEF Worlds
<1>2. Frames(w, 0) = 0
  BY FramesStep
<1> QED
  BY <1>1, <1>2 DEF AtFrame

LEMMA AtFrameStays ==
    ASSUME IInv, SInv, LogInv, [Next]_vars, NEW l \in Worlds, NEW k, AtFrame(sWorld, l, k)
    PROVE  AtFrame(sWorld', l, k)
<1>1. sWorld \in Worlds
  BY DEF IInv, ServerOK
<1>2. sWorld' = sWorld \/ \E x : sWorld' = Append(sWorld, x)
  BY WorldGrows
<1>3. ASSUME NEW x, sWorld' = Append(sWorld, x) PROVE AtFrame(sWorld', l, k)
  <2>1. AtFrame(Append(sWorld, x), l, k)
    BY <1>1, AtFrameAppend
  <2> QED
    BY <1>3, <2>1
<1> QED
  BY <1>2, <1>3

LEMMA ReportedStays ==
    ASSUME IInv, SInv, LogInv, [Next]_vars, NEW l \in Worlds, NEW n, Reported(n, l)
    PROVE  Reported(n, l)'
<1>1. sStep \in Nat /\ (sStep' = sStep \/ sStep' = sStep + 1) /\ Ring \in Nat
  BY WorldGrows, RingAssumption DEF IInv, ServerOK
<1>2. CASE AtFrame(sWorld, l, n)
  BY <1>2, AtFrameStays DEF Reported
<1>3. CASE n = 0 /\ sStep >= Ring
  BY <1>1, <1>3 DEF Reported
<1> QED
  BY <1>2, <1>3 DEF Reported

\* A checklist is entered at its place in the ring.
LEMMA RingNewEntry ==
    ASSUME NEW lists \in Checklists, NEW n \in Nat, NEW v
    PROVE  /\ [lists EXCEPT ![n % Ring] = v][n % Ring] = v
           /\ \A j \in 0 .. Ring - 1 :
                 j # n % Ring => [lists EXCEPT ![n % Ring] = v][j] = lists[j]
<1>1. n % Ring \in 0 .. Ring - 1
  BY RingAssumption
<1>2. DOMAIN lists = 0 .. Ring - 1
  BY DEF Checklists
<1> QED
  BY <1>1, <1>2

\* What a frame or an NWC_READY does to the checklists of a client.
LEMMA NewList ==
    ASSUME NEW lists \in Checklists, NEW n \in Nat, n > 0, NEW new, NEW v, new[n % Ring] = v,
           \A j \in 0 .. Ring - 1 : j # n % Ring => new[j] = lists[j]
    PROVE  /\ ListAt(new, n) = v
           /\ ListAt(new, 0) = ListAt(lists, 0) \/ n >= Ring
           /\ Ring > 1 => ListAt(new, n - 1) = ListAt(lists, n - 1)
<1>1. Ring \in Nat /\ Ring > 0
  BY RingAssumption
<1>2. \A k \in Nat : (k < n /\ n < k + Ring) \/ (n < k /\ k < n + Ring) =>
         ListAt(new, k) = ListAt(lists, k)
  BY RecordList
<1>3. ListAt(new, 0) = ListAt(lists, 0) \/ n >= Ring
  <2>1. n < Ring => 0 < n /\ n < 0 + Ring /\ 0 \in Nat
    BY <1>1
  <2>2. n < Ring => ListAt(new, 0) = ListAt(lists, 0)
    BY <2>1, <1>2
  <2> QED
    BY <2>2, <1>1
<1>4. ASSUME Ring > 1 PROVE ListAt(new, n - 1) = ListAt(lists, n - 1)
  <2>1. n - 1 \in Nat /\ n - 1 < n /\ n < (n - 1) + Ring
    BY <1>1, <1>4
  <2> QED
    BY <2>1, <1>2
<1> QED
  BY <1>3, <1>4 DEF ListAt

\* Whoever reports what is right is not thrown out by the server, ...
LEMMA ServerJudges ==
    ASSUME IInv, LogInv, NEW c \in Clients, ReportsOK(c) PROVE ~WrongReport(c)
<1> SUFFICES ASSUME WrongReport(c) PROVE FALSE
  OBVIOUS
<1>1. /\ sStep \in Nat /\ sWorld \in Worlds /\ sLists \in Checklists
      /\ up[c] \in Seq(ToServerMsgs) /\ up[c] # <<>> /\ Ring \in Nat
  BY LocalTypes, RingAssumption DEF IInv, ServerOK, WrongReport
<1>2. PICK m : m = Head(up[c])
  OBVIOUS
<1>3. m \in Elems(up[c]) /\ m \in ToServerMsgs
  BY <1>1, <1>2, ElemsParts
<1>4. ASSUME NEW n \in Nat, NEW l \in Worlds, n <= sStep, Available(n, sStep), Reported(n, l)
      PROVE  ListAt(sLists, n) = l
  <2>1. n + Ring > sStep /\ n \in 0 .. sStep
    BY <1>1, <1>4 DEF Available
  <2>2. ~(n = 0 /\ sStep >= Ring)
    BY <2>1, <1>1
  <2>3. AtFrame(sWorld, l, n)
    BY <2>2, <1>4 DEF Reported
  <2>4. AtFrame(sWorld, ListAt(sLists, n), n) /\ ListAt(sLists, n) \in Worlds
    BY <2>1, <1>1, <1>4, ListType DEF LogInv, ListsOK
  <2> QED
    BY <2>3, <2>4, <1>1, <1>4, AtFrameUnique
<1>5. CASE m.type = "TOOL" /\ m.lstep <= sStep /\ ~ToolAgrees(m, sStep, sLists)
  <2>1. m.lchk \in Worlds /\ m.lstep \in Nat
    BY <1>3, <1>5, ReportTypes
  <2>2. Available(m.lstep, sStep) /\ ListAt(sLists, m.lstep) # m.lchk
    BY <1>5 DEF ToolAgrees
  <2>3. Reported(m.lstep, m.lchk)
    BY <1>3, <1>5 DEF ReportsOK
  <2> QED
    BY <2>1, <2>2, <2>3, <1>4, <1>5
<1>6. CASE m.type = "READY" /\ Available(m.step, sStep) /\ ListAt(sLists, m.step) # m.chk
  <2>1. m.chk \in Worlds /\ m.step \in Nat
    BY <1>3, <1>6, ReportTypes
  <2>2. m.step \in 0 .. sStep
    BY <1>3, <1>6, ReadySteps
  <2>3. Reported(m.step, m.chk)
    BY <1>3, <1>6 DEF ReportsOK, Reported
  <2>4. m.step <= sStep
    BY <2>2
  <2> QED
    BY <2>1, <2>3, <2>4, <1>4, <1>6
<1> QED
  BY <1>2, <1>5, <1>6 DEF WrongReport

\* ... and a client whose checklists are right does not end.
LEMMA ClientJudges ==
    ASSUME IInv, StreamInv, OrderInv, NEW F, NEW c \in Clients, cMode[c] = "playing",
           PlayerOK(F, c), OwnListsOK(c)
    PROVE  ~WhyGone(c, "checklist")
<1> SUFFICES ASSUME WhyGone(c, "checklist") PROVE FALSE
  OBVIOUS
<1>1. PICK h, k, lists : h = Head(cQueue[c]) /\ k = cStep[c] /\ lists = cLists[c]
  OBVIOUS
<1>2. HasDue(cQueue[c], cStep[c])
  BY DEF WhyGone, Due
<1>3. k > 0 /\ h.step = k /\ cQueue[c] # <<>> /\ k \in Nat /\ lists \in Checklists /\ sWorld \in Worlds
  BY <1>1, <1>2, DueNow, LocalTypes DEF IInv, ServerOK
<1>4. h \in Elems(cQueue[c]) /\ h \in ToClientMsgs /\ Sent(h)
  <2>1. h \in Elems(cQueue[c])
    BY <1>1, <1>3, QueueHead
  <2> QED
    BY <2>1, PendingFacts DEF Pending
<1>5. ~(\A x \in Elems(cQueue[c]) : x.step > cStep[c])
  <2>1. ~(h.step > k)
    BY <1>3
  <2> QED
    BY <2>1, <1>1, <1>4
<1>6. AtFrame(sWorld, ListAt(lists, k - 1), k - 1)
  BY <1>1, <1>3, <1>5 DEF OwnListsOK
<1>7. ASSUME NEW n \in Nat, NEW l \in Worlds, h.step = n + 1, AtFrame(sWorld, l, n)
      PROVE  ListAt(lists, n) = l
  <2>1. n = k - 1
    BY <1>3, <1>7
  <2>2. ListAt(lists, n) \in Worlds
    BY <1>3, <1>7, ListType
  <2>3. AtFrame(sWorld, ListAt(lists, n), n)
    BY <2>1, <1>6
  <2> QED
    BY <2>2, <2>3, <1>3, <1>7, AtFrameUnique
<1>8. CASE h.type = "CHECK" /\ ListAt(lists, h.sstep) # h.chk
  <2>1. h.chk \in Worlds /\ h.sstep \in Nat
    BY <1>4, <1>8, MessageNumbers
  <2>2. h.step = h.sstep + 1 /\ AtFrame(sWorld, h.chk, h.sstep)
    BY <1>4, <1>8 DEF Sent
  <2> QED
    BY <2>1, <2>2, <1>7, <1>8
<1>9. CASE h.type = "TOOL" /\ SameWorld(h, cMap[c]) /\ ~ClientRuns(c)
  <2>1. h.lchk \in Worlds /\ h.lstep \in Nat
    BY <1>4, <1>9, MessageNumbers
  <2>2. h.step = h.lstep + 1 /\ AtFrame(sWorld, h.lchk, h.lstep)
    BY <1>4, <1>9 DEF Sent
  <2>3. ListAt(lists, h.lstep) = h.lchk
    BY <2>1, <2>2, <1>7
  <2>4. ToolAgrees(h, k, lists)
    BY <2>3 DEF ToolAgrees
  <2>5. h.step >= k
    BY <1>3
  <2> QED
    BY <2>4, <2>5, <1>1, <1>9 DEF ClientRuns, Runs
<1> QED
  BY <1>1, <1>8, <1>9 DEF WhyGone, Due

-----------------------------------------------------------------------------
(* KickInv along the steps.                                                *)

\* What the server does brings no report, but for the NWC_READY behind a game.
LEMMA ServerReadys ==
    ASSUME IInv, SInv, LogInv, ~SendMayFail, NEW c \in Clients, ServerSide(c)
    PROVE  /\ Elems(up'[c]) \subseteq Elems(up[c])
           /\ \A m \in Elems(wire'[c]) : m.type = "READY" =>
                 \/ m \in Elems(wire[c]) \cup Elems(up[c])
                 \/ \E new \in Nat : RunsSync(new) /\ m = ReadyMsg(new)
<1>1. /\ wire[c] \in Seq(ToClientMsgs) /\ up[c] \in Seq(ToServerMsgs)
  BY LocalTypes
<1>2. Elems(<<>>) = {} /\ (up[c] # <<>> => Elems(Tail(up[c])) \subseteq Elems(up[c]))
  <2>1. up[c] # <<>> => Elems(up[c]) = Elems(Tail(up[c])) \cup {Head(up[c])}
    BY <1>1, ElemsParts
  <2> QED
    BY <2>1 DEF Elems
<1>3. up'[c] = up[c] \/ up'[c] = <<>> \/ (up[c] # <<>> /\ up'[c] = Tail(up[c]))
  BY DEF ServerSide, FrameStep, ScheduleStep, RunStep, ReloadStep, CutStep, AnswerStep, FlushStep,
         CutOff, Slot
<1>4. Elems(up'[c]) \subseteq Elems(up[c])
  BY <1>2, <1>3
<1>5. ASSUME ~ReloadStep(c), NEW m \in Elems(wire'[c]), m.type = "READY"
      PROVE  m \in Elems(wire[c]) \cup Elems(up[c])
  <2>1. \/ UNCHANGED core \/ ServerFrame \/ ServerRunsTool
        \/ \E x : Schedules(x)
    BY <1>5 DEF ServerSide, FrameStep, ScheduleStep, RunStep, CutStep, AnswerStep, FlushStep
  <2>2. sMap' = sMap
    BY <2>1, Kinds
  <2>3. ~\E new \in Nat : Reloads(new)
    BY <2>2, Kinds
  <2> QED
    BY <2>3, <1>5, ServerSets
<1>6. ASSUME ReloadStep(c), NEW m \in Elems(wire'[c]), m.type = "READY",
             m \notin Elems(wire[c])
      PROVE  \E new \in Nat : RunsSync(new) /\ m = ReadyMsg(new)
  <2>1. PICK new \in Nat :
           \/ wire'[c] = wire[c]
           \/ RunsSync(new) /\ CutOff(c, "left")
           \/ RunsSync(new) /\ wire'[c] = Written(c, <<GameMsg(new), ReadyMsg(new)>>)
    BY <1>6 DEF ReloadStep, GameReplies
  <2>2. CASE CutOff(c, "left")
    <3>1. wire'[c] = <<>> \/ wire'[c] = Append(wire[c], Close)
      BY <2>2 DEF CutOff
    <3>2. Elems(Append(wire[c], Close)) = Elems(wire[c]) \cup {Close}
      BY <1>1, ElemsParts
    <3>3. m = Close
      BY <3>1, <3>2, <1>2, <1>6
    <3> QED
      BY <3>3, <1>6 DEF Close
  <2>3. CASE RunsSync(new) /\ wire'[c] = Written(c, <<GameMsg(new), ReadyMsg(new)>>)
    <3>1. PICK g, r : g = GameMsg(new) /\ r = ReadyMsg(new)
      OBVIOUS
    <3>2. g \in ToClientMsgs /\ r \in ToClientMsgs /\ g.type = "GAME"
      BY <3>1, GameTypes
    <3>3. wire'[c] = wire[c] \/ wire'[c] = wire[c] \o <<g, r>>
      BY <2>3, <3>1 DEF Written
    <3>4. wire[c] \o <<g, r>> = Append(Append(wire[c], g), r)
      BY <1>1, <3>2
    <3>5. Elems(Append(Append(wire[c], g), r)) = (Elems(wire[c]) \cup {g}) \cup {r}
      <4>1. Append(wire[c], g) \in Seq(ToClientMsgs)
        BY <1>1, <3>2
      <4>2. Elems(Append(wire[c], g)) = Elems(wire[c]) \cup {g}
        BY <1>1, ElemsParts
      <4> DEFINE w == Append(wire[c], g)
      <4>3. \A q \in Seq(ToClientMsgs), y \in ToClientMsgs : Elems(Append(q, y)) = Elems(q) \cup {y}
        BY ElemsParts
      <4>4. Elems(Append(w, r)) = Elems(w) \cup {r}
        <5> HIDE DEF w
        <5>1. w \in Seq(ToClientMsgs)
          BY <4>1 DEF w
        <5> QED
          BY <5>1, <4>3, <3>2
      <4> QED
        BY <4>2, <4>4
    <3>6. m = r
      <4>1. m \in Elems(wire[c] \o <<g, r>>)
        BY <3>3, <1>6
      <4>2. m \in (Elems(wire[c]) \cup {g}) \cup {r}
        BY <4>1, <3>4, <3>5
      <4> QED
        BY <4>2, <3>2, <1>6
    <3> QED
      BY <3>1, <3>6, <2>3
  <2> QED
    BY <2>1, <2>2, <2>3, <1>6
<1> QED
  BY <1>4, <1>5, <1>6

\* The server knows the step and the checklist that it tells.
LEMMA ServerReadyIsRight ==
    ASSUME IInv, SInv, LogInv, NEW F, Coming(F), NEW new \in Nat, RunsSync(new),
           NEW m, m = ReadyMsg(new)
    PROVE  m.step > 0 /\ AtFrame(sWorld, m.chk, m.step)
<1>1. m.step = sStep /\ m.chk = ListAt(sLists, sStep)
  BY DEF ReadyMsg
<1>2. sStep \in Nat /\ sQueue \in Seq(ToolMsgs \cup SyncMsgs) /\ Ring \in Nat /\ Ring > 0
  BY RingAssumption DEF IInv, ServerOK
<1>3. sStep > 0
  <2>1. sQueue # <<>> /\ Head(sQueue).step <= sStep
    BY DEF RunsSync, HasDue
  <2>2. Head(sQueue) = sQueue[1] /\ 1 \in 1 .. Len(sQueue)
    BY <2>1, <1>2
  <2>3. sQueue[1].step > 0 /\ sQueue[1].step \in Nat
    BY <2>2, QueueFacts DEF Coming, Numbered
  <2> QED
    BY <2>1, <2>2, <2>3, <1>2
<1>4. AtFrame(sWorld, ListAt(sLists, sStep), sStep)
  <2>1. sStep \in 0 .. sStep /\ sStep + Ring > sStep
    BY <1>2
  <2> QED
    BY <2>1 DEF LogInv, ListsOK
<1> QED
  BY <1>1, <1>3, <1>4

LEMMA KickServerSide ==
    ASSUME ~SendMayFail, IInv, SInv, LogInv, NEW F, Coming(F), [Next]_vars,
           NEW c \in Clients, KickOK(c), ServerSide(c)
    PROVE  KickOK(c)'
<1>1. /\ cMode'[c] = cMode[c] /\ cStep'[c] = cStep[c] /\ cLists'[c] = cLists[c]
      /\ cQueue'[c] = cQueue[c] /\ lost'[c] = lost[c]
  BY ServerSideKeepsMachine DEF Machine
<1>2. /\ cStep[c] \in Nat /\ cLists[c] \in Checklists /\ sStep \in Nat /\ Ring \in Nat
      /\ sStep' \in Nat /\ sStep <= sStep' /\ fate[c] \in Fates
  <2>1. sStep \in Nat /\ (sStep' = sStep \/ sStep' = sStep + 1)
    BY WorldGrows DEF IInv, ServerOK
  <2> QED
    BY <2>1, LocalTypes, RingAssumption
<1>3. fate'[c] = "checklist" => fate[c] = "checklist" \/ WrongReport(c)
  <2>1. \/ fate'[c] = fate[c]
        \/ CutOff(c, "left")
        \/ \E why : CutOff(c, why) /\ (why = "checklist" => WrongReport(c))
    BY DEF ServerSide, FrameStep, ScheduleStep, RunStep, ReloadStep, CutStep, AnswerStep,
           FlushStep, Records
  <2>2. \A why : CutOff(c, why) => fate'[c] = fate[c] \/ fate'[c] = why
    BY DEF CutOff
  <2>3. "left" # "checklist"
    OBVIOUS
  <2> QED
    BY <2>1, <2>2, <2>3
<1>4. fate'[c] = "checklist" => lost'[c]
  BY <1>1, <1>3, ServerJudges DEF KickOK
<1>5. ListAt(cLists'[c], 0) = <<>> \/ sStep' >= Ring
  BY <1>1, <1>2 DEF KickOK
<1>6. /\ \A m \in Elems(up'[c]) : m \in Elems(up[c])
      /\ \A m \in Elems(up'[c]) \cup Elems(wire'[c]) : m.type = "READY" =>
            \/ m \in Elems(up[c]) \cup Elems(wire[c])
            \/ m.step > 0 /\ AtFrame(sWorld, m.chk, m.step) /\ m.chk \in Worlds
  <2>1. ASSUME NEW new \in Nat, RunsSync(new), NEW m, m = ReadyMsg(new)
        PROVE  m.step > 0 /\ AtFrame(sWorld, m.chk, m.step) /\ m.chk \in Worlds
    <3>1. m.chk = ListAt(sLists, sStep)
      BY <2>1 DEF ReadyMsg
    <3>2. m.chk \in Worlds
      BY <3>1, <1>2, ListType DEF IInv, ServerOK
    <3> QED
      BY <2>1, <3>2, ServerReadyIsRight
  <2> QED
    BY <2>1, ServerReadys
<1>7. \A m \in Elems(up'[c]) \cup Elems(wire'[c]) : m.type = "READY" => m.step > 0
  BY <1>6 DEF KickOK
<1>8. ASSUME ~lost[c] PROVE ReportsOK(c)'
  <2>1. ReportsOK(c)
    BY <1>8 DEF KickOK
  <2>2. ASSUME NEW m \in Elems(up'[c]), m.type = "TOOL" PROVE Reported(m.lstep, m.lchk)'
    <3>1. m \in Elems(up[c])
      BY <1>6, <2>2
    <3>2. Reported(m.lstep, m.lchk)
      BY <2>1, <2>2, <3>1 DEF ReportsOK
    <3>3. m.lchk \in Worlds
      BY <2>2, <3>1, ChannelTypes, ReportTypes
    <3> QED
      BY <3>2, <3>3, ReportedStays
  <2>3. ASSUME NEW m \in Elems(up'[c]) \cup Elems(wire'[c]), m.type = "READY"
        PROVE  AtFrame(sWorld', m.chk, m.step)
    <3>1. AtFrame(sWorld, m.chk, m.step)
      BY <2>1, <2>3, <1>6 DEF ReportsOK
    <3>2. m.chk \in Worlds
      BY <2>3, <1>6, ChannelTypes, ReportTypes
    <3> QED
      BY <3>1, <3>2, AtFrameStays
  <2> QED
    BY <2>2, <2>3 DEF ReportsOK
<1>9. ASSUME ~lost[c] PROVE OwnListsOK(c)'
  <2>1. OwnListsOK(c)
    BY <1>9 DEF KickOK
  <2> SUFFICES ASSUME cMode[c] = "playing", cStep[c] > 0
               PROVE  /\ AtFrame(sWorld', ListAt(cLists[c], cStep[c]), cStep[c])
                      /\ \/ AtFrame(sWorld', ListAt(cLists[c], cStep[c] - 1), cStep[c] - 1)
                         \/ \A x \in Elems(cQueue[c]) : x.step > cStep[c]
    BY <1>1 DEF OwnListsOK
  <2>2. cStep[c] - 1 \in Nat
    BY <1>2
  <2>3. ListAt(cLists[c], cStep[c]) \in Worlds /\ ListAt(cLists[c], cStep[c] - 1) \in Worlds
    BY <1>2, <2>2, ListType
  <2>4. AtFrame(sWorld, ListAt(cLists[c], cStep[c]), cStep[c])
    BY <2>1 DEF OwnListsOK
  <2>5. AtFrame(sWorld', ListAt(cLists[c], cStep[c]), cStep[c])
    BY <2>3, <2>4, AtFrameStays
  <2>6. CASE AtFrame(sWorld, ListAt(cLists[c], cStep[c] - 1), cStep[c] - 1)
    <3>1. AtFrame(sWorld', ListAt(cLists[c], cStep[c] - 1), cStep[c] - 1)
      BY <2>3, <2>6, AtFrameStays
    <3> QED
      BY <2>5, <3>1
  <2>7. CASE \A x \in Elems(cQueue[c]) : x.step > cStep[c]
    BY <2>5, <2>7
  <2> QED
    BY <2>1, <2>6, <2>7 DEF OwnListsOK
<1> QED
  BY <1>1, <1>4, <1>5, <1>7, <1>8, <1>9 DEF KickOK

\* What is reported, when the client adds one report x.
LEMMA ReportsGrow ==
    ASSUME NEW c \in Clients, sWorld' = sWorld, sStep' = sStep, NEW x,
           \A m \in Elems(up'[c]) : m \in Elems(up[c]) \/ m = x,
           \A m \in Elems(wire'[c]) : m \in Elems(wire[c]),
           x.type = "READY" =>
               x.step > 0 /\ (~lost[c] => AtFrame(sWorld, x.chk, x.step)),
           x.type = "TOOL" /\ ~lost[c] => Reported(x.lstep, x.lchk),
           KickOK(c)
    PROVE  /\ \A m \in Elems(up'[c]) \cup Elems(wire'[c]) : m.type = "READY" => m.step > 0
           /\ ~lost[c] => ReportsOK(c)'
<1>1. \A m \in Elems(up'[c]) \cup Elems(wire'[c]) : m \in Elems(up[c]) \cup Elems(wire[c]) \/ m = x
  OBVIOUS
<1>2. \A m \in Elems(up'[c]) \cup Elems(wire'[c]) : m.type = "READY" => m.step > 0
  BY <1>1 DEF KickOK
<1>3. ASSUME ~lost[c] PROVE ReportsOK(c)'
  <2>1. ReportsOK(c)
    BY <1>3 DEF KickOK
  <2>2. ASSUME NEW m \in Elems(up'[c]), m.type = "TOOL" PROVE Reported(m.lstep, m.lchk)'
    <3>1. Reported(m.lstep, m.lchk)
      BY <2>1, <2>2, <1>3 DEF ReportsOK
    <3> QED
      BY <3>1 DEF Reported
  <2>3. ASSUME NEW m \in Elems(up'[c]) \cup Elems(wire'[c]), m.type = "READY"
        PROVE  AtFrame(sWorld', m.chk, m.step)
    BY <2>1, <2>3, <1>1, <1>3 DEF ReportsOK
  <2> QED
    BY <2>2, <2>3 DEF ReportsOK
<1> QED
  BY <1>2, <1>3

\* What a client takes into its queue is later than its step.
LEMMA ReadIsLater ==
    ASSUME IInv, StreamInv, OrderInv, NEW c \in Clients, wire[c] # <<>>,
           TimeRead(c) \/ CommandQueued(c)
    PROVE  \A m \in Elems(cQueue'[c]) : m \in Elems(cQueue[c]) \/ m.step > cStep[c]
<1>1. PICK q, w, x, b : q = cQueue[c] /\ w = wire[c] /\ x = Head(w) /\ b = cBarrier[c]
  OBVIOUS
<1>2. /\ q \in Seq(ToClientMsgs) /\ w \in Seq(ToClientMsgs) /\ w # <<>>
      /\ cStep[c] \in Nat /\ b \in Nat /\ cStep[c] <= b /\ cMode[c] = "playing"
      /\ x.type \in {"STEP", "CHECK", "TOOL", "SYNC"}
  BY <1>1, StreamTypes, LocalTypes DEF TimeRead, CommandQueued, ClientReads
<1>3. x \in Elems(w) /\ x \in ToClientMsgs
  BY <1>2, <1>1, ElemsParts
<1>4. LaterMsg(x, b) /\ Sent(x)
  <2>1. x \in Pending(c)
    BY <1>1, <1>3 DEF Pending
  <2> QED
    BY <2>1, <1>1, <1>2, <1>3, PlayFacts, PendingFacts
<1>5. IsQueued(x) => x.step > cStep[c]
  <2>1. /\ Announces(x) => x.sstep \in Nat /\ x.sstep > b
        /\ Command(x) => x.step > b /\ x.step \in Nat
    BY <1>3, <1>4, MessageNumbers DEF LaterMsg
  <2>2. x.type = "CHECK" => x.step = x.sstep + 1 /\ Announces(x)
    BY <1>4 DEF Sent, Announces
  <2>3. x.type = "CHECK" => x.step > cStep[c]
    BY <2>1, <2>2, <1>2
  <2>4. Command(x) => x.step > cStep[c]
    BY <2>1, <1>2
  <2> QED
    BY <2>3, <2>4 DEF IsQueued, Command
<1>6. cQueue'[c] = q \/ (cQueue'[c] = Append(q, x) /\ IsQueued(x))
  <2>1. IsQueued(x) => Insert(q, x) = Append(q, x)
    BY <1>1, <1>2, ReadIsAppend DEF StreamInv
  <2> QED
    BY <2>1, <1>1, <1>2 DEF TimeRead, CommandQueued, ClientReads, IsQueued
<1>7. Elems(Append(q, x)) = Elems(q) \cup {x}
  BY <1>2, ElemsParts
<1> QED
  BY <1>1, <1>5, <1>6, <1>7

\* The frame a client adds is the server's.
LEMMA FrameIsRight ==
    ASSUME IInv, SInv, LogInv, StreamInv, OrderInv, NEW F \in Worlds, Coming(F),
           NEW c \in Clients, AdvanceStep(c), PlacedOK(F, c), PlayerOK(F, c)
    PROVE  AtFrame(sWorld, Append(cWorld[c], Frame), cStep[c] + 1) /\ cStep[c] > 0
<1>1. PICK w, k, v : w = cWorld[c] /\ k = cStep[c] /\ v = Append(w, Frame)
  OBVIOUS
<1>2. /\ cMode[c] = "playing" /\ ~cPaused[c] /\ k < cBarrier[c]
      /\ cWorld'[c] = v /\ cStep'[c] = k + 1
  BY <1>1 DEF AdvanceStep, MayAdvance
<1>3. /\ w \in Worlds /\ k \in Nat /\ cBarrier[c] \in Nat /\ cBarrier[c] <= sStep
      /\ sStep \in Nat /\ sWorld \in Worlds /\ k + 1 <= sStep
  BY <1>1, <1>2, LocalTypes DEF IInv, ServerOK
<1>4. k > 0
  BY <1>1, <1>2, RunsAlready
<1>5. PlayerOK(F, c)'
  BY PlayerAdvances
<1>6. cStep'[c] > 0
  BY <1>2, <1>3
<1>7. RunningOK(F, c)'
  BY <1>5, <1>6 DEF PlayerOK
<1>8. Agree(v, F) /\ Frames(F, Len(v)) = k + 1
  BY <1>2, <1>7 DEF RunningOK, Follows
<1>9. /\ Len(v) = Len(w) + 1 /\ Len(w) \in Nat /\ v[Len(v)] = Frame /\ v \in Worlds
      /\ Len(F) \in Nat
  BY <1>1, <1>3, AppendWorld DEF Worlds
<1>10. F[Len(v)] = Frame
  BY <1>8, <1>9 DEF Agree
<1>11. /\ Len(sWorld) \in Nat /\ Frames(F, Len(sWorld)) = sStep /\ Agree(sWorld, F)
  BY ComingPlaces, QueueFacts DEF Coming
<1>12. Len(v) <= Len(sWorld)
  <2>1. SUFFICES ASSUME Len(sWorld) < Len(v) PROVE FALSE
    BY <1>9, <1>11
  <2>2. Frames(F, Len(sWorld)) < Frames(F, Len(v))
    BY <2>1, <1>9, <1>10, <1>11, FramesMonotone
  <2> QED
    BY <2>2, <1>3, <1>8, <1>11
<1>13. \A i \in 1 .. Len(v) : v[i] = sWorld[i]
  BY <1>8, <1>9, <1>11, <1>12 DEF Agree
<1>14. Frames(sWorld, Len(v)) = k + 1
  <2>1. Len(v) \in Nat /\ \A i \in 1 .. Len(v) : sWorld[i] = F[i]
    BY <1>9, <1>11, <1>12 DEF Agree
  <2> QED
    BY <2>1, <1>8, FramesLocal
<1>15. sWorld[Len(v)] = Frame
  BY <1>9, <1>13
<1>16. AtFrame(sWorld, v, k + 1)
  BY <1>12, <1>13, <1>14, <1>15 DEF AtFrame
<1> QED
  BY <1>1, <1>4, <1>16

LEMMA KickClientSide ==
    ASSUME Ring > 1, IInv, SInv, LogInv, StreamInv, OrderInv, NEW F \in Worlds, Coming(F),
           NEW c \in Clients, Along(F, c), KickOK(c), ClientSide(c)
    PROVE  KickOK(c)'
<1>1. sWorld' = sWorld /\ sStep' = sStep
  BY DEF ClientSide, ConnectStep, GoneStep, ReadStep, PopStep, SyncStep, AdvanceStep,
         RequestStep, core
<1>2. /\ wire[c] \in Seq(ToClientMsgs) /\ up[c] \in Seq(ToServerMsgs)
      /\ cQueue[c] \in Seq(QueuedMsgs) /\ cLists[c] \in Checklists /\ sWorld \in Worlds
      /\ cStep[c] \in Nat /\ sStep \in Nat /\ Ring \in Nat /\ lost[c] \in BOOLEAN
      /\ fate[c] \in Fates /\ cStep[c] <= sStep
  <2>1. sWorld \in Worlds
    BY DEF IInv, ServerOK
  <2>2. Ring \in Nat
    BY RingAssumption
  <2>3. /\ cStep[c] \in Nat /\ cBarrier[c] \in Nat /\ sStep \in Nat
        /\ cStep[c] <= cBarrier[c] /\ cBarrier[c] <= sStep
    BY LocalTypes
  <2>4. cStep[c] <= sStep
    BY <2>3
  <2> QED
    BY <2>1, <2>2, <2>3, <2>4, LocalTypes
<1>3. /\ Elems(<<>>) = {}
      /\ \A x : Elems(Append(up[c], x)) = Elems(up[c]) \cup {x}
      /\ wire[c] # <<>> => Elems(wire[c]) = Elems(Tail(wire[c])) \cup {Head(wire[c])}
      /\ cQueue[c] # <<>> => Elems(Tail(cQueue[c])) \subseteq Elems(cQueue[c])
  <2>1. \A x : Elems(Append(up[c], x)) = Elems(up[c]) \cup {x}
    BY <1>2, ElemsParts
  <2>2. cQueue[c] # <<>> => Elems(cQueue[c]) = Elems(Tail(cQueue[c])) \cup {Head(cQueue[c])}
    BY <1>2, ElemsParts
  <2>3. wire[c] # <<>> => Elems(wire[c]) = Elems(Tail(wire[c])) \cup {Head(wire[c])}
    BY <1>2, ElemsParts
  <2>4. Elems(<<>>) = {}
    BY DEF Elems
  <2> QED
    BY <2>1, <2>2, <2>3, <2>4
<1>4. /\ fate[c] = "checklist" => lost[c]
      /\ ListAt(cLists[c], 0) = <<>> \/ sStep >= Ring
      /\ \A m \in Elems(up[c]) \cup Elems(wire[c]) : m.type = "READY" => m.step > 0
      /\ ~lost[c] => ReportsOK(c) /\ OwnListsOK(c)
  BY DEF KickOK
<1>5. cMode[c] = "playing" /\ ~lost[c] => PlayerOK(F, c)
  BY DEF Along
<1> DEFINE Tells(x) ==
             /\ \A m \in Elems(up'[c]) : m \in Elems(up[c]) \/ m = x
             /\ x.type = "READY" =>
                   x.step > 0 /\ (~lost[c] => AtFrame(sWorld, x.chk, x.step))
             /\ x.type = "TOOL" /\ ~lost[c] => Reported(x.lstep, x.lchk)
\* what is common to all steps
<1>6. ASSUME NEW x, Tells(x), \A m \in Elems(wire'[c]) : m \in Elems(wire[c]),
             fate'[c] = "checklist" => lost'[c], ~lost'[c] => ~lost[c],
             ListAt(cLists'[c], 0) = ListAt(cLists[c], 0) \/ sStep >= Ring,
             ~lost[c] => OwnListsOK(c)'
      PROVE  KickOK(c)'
  <2>1. /\ \A m \in Elems(up'[c]) \cup Elems(wire'[c]) : m.type = "READY" => m.step > 0
        /\ ~lost[c] => ReportsOK(c)'
    BY <1>1, <1>6, ReportsGrow
  <2>2. ListAt(cLists'[c], 0) = <<>> \/ sStep' >= Ring
    BY <1>1, <1>4, <1>6
  <2> QED
    BY <2>1, <2>2, <1>6 DEF KickOK
<1>7. Close.type = "CLOSE" /\ JoinRequest.type = "JOIN"
  BY DEF Close, JoinRequest
<1>8. ASSUME up'[c] = up[c] PROVE Tells(Close)
  BY <1>7, <1>8
<1>9. CASE ConnectStep(c)
  <2>1. /\ up'[c] = <<JoinRequest>> /\ wire'[c] = <<>> /\ lost'[c] = FALSE /\ fate'[c] = "none"
        /\ cMode'[c] = "joining" /\ cLists'[c] = cLists[c]
    BY <1>9 DEF ConnectStep
  <2>2. Elems(up'[c]) = {JoinRequest} /\ Elems(wire'[c]) = {}
    <3>1. Elems(<<JoinRequest>>) = {JoinRequest}
      BY DEF Elems
    <3> QED
      BY <3>1, <2>1, <1>3
  <2>3. \A m \in Elems(up'[c]) \cup Elems(wire'[c]) : m.type \notin {"READY", "TOOL"}
    BY <2>2, <1>7
  <2>4. ReportsOK(c)'
    BY <2>3 DEF ReportsOK
  <2>5. OwnListsOK(c)'
    BY <2>1 DEF OwnListsOK
  <2> QED
    BY <2>1, <2>3, <2>4, <2>5, <1>1, <1>4 DEF KickOK
<1>10. CASE GoneStep(c)
  <2>1. PICK why \in Fates : WhyGone(c, why) /\ fate'[c] = IF fate[c] = "none" THEN why ELSE fate[c]
    BY <1>10 DEF GoneStep
  <2>2. /\ cMode'[c] = "out" /\ wire'[c] = <<>> /\ lost'[c] = lost[c] /\ cLists'[c] = cLists[c]
        /\ up'[c] = <<>> \/ up'[c] = Append(up[c], Close)
    BY <1>10 DEF GoneStep
  <2>3. why = "checklist" => cMode[c] = "playing"
    BY <2>1 DEF WhyGone, Due
  <2>4. why = "checklist" => lost[c]
    BY <2>1, <2>3, <1>4, <1>5, ClientJudges
  <2>5. fate'[c] = "checklist" => lost'[c]
    BY <2>1, <2>2, <2>4, <1>4
  <2>6. Tells(Close) /\ \A m \in Elems(wire'[c]) : m \in Elems(wire[c])
    <3>1. Elems(wire'[c]) = {}
      BY <2>2, <1>3
    <3>2. CASE up'[c] = <<>>
      BY <3>1, <3>2, <1>3, <1>7
    <3>3. CASE up'[c] = Append(up[c], Close)
      <4>1. Elems(up'[c]) = Elems(up[c]) \cup {Close}
        BY <3>3, <1>3
      <4> QED
        BY <3>1, <4>1, <1>7
    <3> QED
      BY <2>2, <3>2, <3>3
  <2>7. OwnListsOK(c)'
    BY <2>2 DEF OwnListsOK
  <2> HIDE DEF Tells
  <2> QED
    BY <2>2, <2>5, <2>6, <2>7, <1>6
<1>11. CASE ReadStep(c)
  <2>1. /\ wire[c] # <<>> /\ wire'[c] = Tail(wire[c]) /\ up'[c] = up[c]
        /\ lost'[c] = lost[c] /\ fate'[c] = fate[c]
    BY <1>11 DEF ReadStep, Slot, Records
  <2>2. Tells(Close) /\ \A m \in Elems(wire'[c]) : m \in Elems(wire[c])
    BY <2>1, <1>3, <1>8
  <2> HIDE DEF Tells
  <2>3. ASSUME ListAt(cLists'[c], 0) = ListAt(cLists[c], 0) \/ sStep >= Ring,
               ~lost[c] => OwnListsOK(c)'
        PROVE  KickOK(c)'
    BY <2>1, <2>2, <2>3, <1>4, <1>6
  <2>4. CASE Accepted(c) \/ Skipped(c) \/ Loaded(c)
    <3>1. cLists'[c] = cLists[c]
      BY <2>4 DEF Accepted, Skipped, Loaded, Machine
    <3>2. cMode'[c] # "playing" \/ cStep'[c] = 0
      BY <2>4 DEF Accepted, Skipped, Loaded, Machine
    <3>3. OwnListsOK(c)'
      BY <3>2 DEF OwnListsOK
    <3> QED
      BY <3>1, <3>3, <2>3
  <2>5. CASE TimeRead(c) \/ CommandQueued(c)
    <3>1. /\ cLists'[c] = cLists[c] /\ cStep'[c] = cStep[c] /\ cMode'[c] = cMode[c]
      BY <2>5 DEF TimeRead, CommandQueued
    <3>2. \A m \in Elems(cQueue'[c]) : m \in Elems(cQueue[c]) \/ m.step > cStep[c]
      BY <2>1, <2>5, ReadIsLater
    <3>3. OwnListsOK(c) => OwnListsOK(c)'
      BY <3>1, <3>2, <1>1 DEF OwnListsOK
    <3> QED
      BY <3>1, <3>3, <2>3, <1>4
  <2>6. CASE Unpaused(c)
    <3>1. PICK m : m = Head(wire[c])
      OBVIOUS
    <3>2. /\ m.type = "READY" /\ cStep'[c] = m.step /\ cMode[c] = "playing" /\ cQueue'[c] = cQueue[c]
          /\ cLists'[c] = [cLists[c] EXCEPT ![m.step % Ring] = m.chk]
      BY <2>6, <3>1 DEF Unpaused, ClientReads
    <3>3. m \in Elems(wire[c]) /\ m \in ToClientMsgs
      BY <3>1, <2>1, <1>2, <1>3, ElemsParts
    <3>4. m.chk \in Worlds /\ m.step \in Nat /\ m.step > 0 /\ m.step <= sStep
      <4>1. m.step \in 0 .. sStep
        BY <3>2, <3>3, ReadySteps
      <4> QED
        BY <4>1, <3>2, <3>3, <1>4, ReportTypes
    <3>5. /\ ListAt(cLists'[c], m.step) = m.chk
          /\ ListAt(cLists'[c], 0) = ListAt(cLists[c], 0) \/ m.step >= Ring
      <4>1. PICK lists, new, n, v : /\ lists = cLists[c] /\ new = cLists'[c]
                                    /\ n = m.step /\ v = m.chk
        OBVIOUS
      <4>2. lists \in Checklists /\ n \in Nat /\ n > 0 /\ new = [lists EXCEPT ![n % Ring] = v]
        BY <4>1, <3>2, <3>4, <1>2
      <4>3. new[n % Ring] = v /\ \A j \in 0 .. Ring - 1 : j # n % Ring => new[j] = lists[j]
        BY <4>2, RingNewEntry
      <4>4. ListAt(new, n) = v /\ (ListAt(new, 0) = ListAt(lists, 0) \/ n >= Ring)
        <5>1. lists \in Checklists /\ n \in Nat /\ n > 0
          BY <4>2
        <5> QED
          BY <5>1, <4>3, NewList
      <4> QED
        BY <4>1, <4>4
    <3>6. ListAt(cLists'[c], 0) = ListAt(cLists[c], 0) \/ sStep >= Ring
      BY <3>4, <3>5, <1>2
    <3>7. ASSUME ~lost[c] PROVE OwnListsOK(c)'
      <4>1. AtFrame(sWorld, m.chk, m.step)
        BY <3>2, <3>3, <3>7, <1>4 DEF ReportsOK
      <4>2. \A x \in Elems(cQueue[c]) : x.step > m.step
        <5>1. PlayerOK(F, c)
          BY <3>2, <3>7, <1>5
        <5>2. CASE cStep[c] = 0
          <6>1. cQueue[c] = <<>>
            BY <5>1, <5>2 DEF PlayerOK, LoadedOK
          <6> QED
            BY <6>1, <1>3
        <5>3. CASE cStep[c] > 0
          <6>1. RunningOK(F, c) /\ ReadyOK(c)
            BY <5>1, <5>3 DEF PlayerOK
          <6>2. Has(wire[c], {"READY"})
            BY <3>2, <3>3, <1>2, LoneParts
          <6>3. cPaused[c] /\ m.step = cStep[c]
            BY <6>1, <6>2, <3>2, <3>3 DEF ReadyOK, RunningOK
          <6> QED
            BY <6>1, <6>3 DEF RunningOK
        <5> QED
          BY <5>2, <5>3, <1>2
      <4>3. /\ AtFrame(sWorld', ListAt(cLists'[c], cStep'[c]), cStep'[c])
            /\ \A x \in Elems(cQueue'[c]) : x.step > cStep'[c]
        BY <4>1, <4>2, <3>2, <3>5, <1>1
      <4> QED
        BY <4>3 DEF OwnListsOK
    <3> QED
      BY <3>6, <3>7, <2>3
  <2> QED
    BY <1>11, <2>4, <2>5, <2>6 DEF ReadStep
<1>12. CASE PopStep(c)
  <2>1. /\ up'[c] = up[c] /\ wire'[c] = wire[c] /\ lost'[c] = lost[c] /\ fate'[c] = fate[c]
        /\ cMode'[c] = cMode[c] /\ cStep'[c] = cStep[c] /\ cLists'[c] = cLists[c]
        /\ cQueue[c] # <<>> /\ cQueue'[c] = Tail(cQueue[c])
    BY <1>12 DEF PopStep, Slot, Records, HasDue
  <2>2. Tells(Close) /\ \A m \in Elems(wire'[c]) : m \in Elems(wire[c])
    BY <2>1, <1>8
  <2>3. \A m \in Elems(cQueue'[c]) : m \in Elems(cQueue[c])
    BY <2>1, <1>3
  <2>4. OwnListsOK(c) => OwnListsOK(c)'
    BY <2>1, <2>3, <1>1 DEF OwnListsOK
  <2> HIDE DEF Tells
  <2> QED
    BY <2>1, <2>2, <2>4, <1>4, <1>6
<1>13. CASE SyncStep(c)
  <2>1. PICK h : h = Head(cQueue[c])
    OBVIOUS
  <2>2. PICK x : x = [type |-> "READY", step |-> cStep[c], map |-> h.newmap,
                      chk |-> ListAt(cLists[c], cStep[c])]
    OBVIOUS
  <2>3. /\ wire'[c] = wire[c] /\ fate'[c] = fate[c] /\ (lost[c] => lost'[c])
        /\ cMode[c] = "playing" /\ cMode'[c] = cMode[c] /\ cStep'[c] = cStep[c]
        /\ cLists'[c] = cLists[c] /\ cQueue'[c] = <<>>
        /\ up'[c] = up[c] \/ up'[c] = Append(up[c], x)
        /\ cQueue[c] # <<>> /\ h.step <= cStep[c] /\ h.type = "SYNC"
    <3>1. lost'[c] = (lost[c] \/ LosesCommands(c))
      BY <1>13 DEF SyncStep
    <3> QED
      BY <3>1, <1>13, <2>1, <2>2 DEF SyncStep, Due, HasDue
  <2>4. x.type = "READY" /\ x.step = cStep[c] /\ x.chk = ListAt(cLists[c], cStep[c])
    BY <2>2
  <2>5. cStep[c] > 0
    <3>1. h \in Elems(cQueue[c])
      BY <2>1, <2>3, QueueHead
    <3>2. Sent(h) /\ Command(h)
      BY <3>1, <2>3, PendingFacts DEF Pending, Command
    <3>3. h.step \in 1 .. sStep + 1
      BY <3>2 DEF Sent
    <3> QED
      BY <3>3, <2>3, <1>2
  <2>6. ~lost[c] => AtFrame(sWorld, ListAt(cLists[c], cStep[c]), cStep[c])
    BY <2>3, <2>5, <1>4 DEF OwnListsOK
  <2>7. Tells(x) /\ \A m \in Elems(wire'[c]) : m \in Elems(wire[c])
    BY <2>3, <2>4, <2>5, <2>6, <1>3
  <2>8. ~lost[c] => OwnListsOK(c)'
    <3>1. \A m \in Elems(cQueue'[c]) : m.step > cStep'[c]
      BY <2>3, <1>3
    <3> QED
      BY <3>1, <2>3, <2>6, <1>1 DEF OwnListsOK
  <2> HIDE DEF Tells
  <2> QED
    BY <2>3, <2>7, <2>8, <1>4, <1>6
<1>14. CASE AdvanceStep(c)
  <2>1. PICK k, v : k = cStep[c] /\ v = Append(cWorld[c], Frame)
    OBVIOUS
  <2>2. /\ up'[c] = up[c] /\ wire'[c] = wire[c] /\ lost'[c] = lost[c] /\ fate'[c] = fate[c]
        /\ cMode[c] = "playing" /\ cMode'[c] = cMode[c] /\ cStep'[c] = k + 1
        /\ cLists'[c] = [cLists[c] EXCEPT ![(k + 1) % Ring] = v]
        /\ k < cBarrier[c]
    BY <1>14, <2>1 DEF AdvanceStep, Slot, Records, MayAdvance
  <2>3. k \in Nat /\ k + 1 <= sStep /\ k + 1 \in Nat /\ k + 1 > 0 /\ (k + 1) - 1 = k
    BY <2>1, <2>2, LocalTypes
  <2>4. /\ ListAt(cLists'[c], k + 1) = v
        /\ ListAt(cLists'[c], 0) = ListAt(cLists[c], 0) \/ k + 1 >= Ring
        /\ ListAt(cLists'[c], (k + 1) - 1) = ListAt(cLists[c], (k + 1) - 1)
    <3>1. PICK lists, new, n : lists = cLists[c] /\ new = cLists'[c] /\ n = k + 1
      OBVIOUS
    <3>2. lists \in Checklists /\ n \in Nat /\ n > 0 /\ new = [lists EXCEPT ![n % Ring] = v]
      BY <3>1, <2>2, <2>3, <1>2
    <3>3. new[n % Ring] = v /\ \A j \in 0 .. Ring - 1 : j # n % Ring => new[j] = lists[j]
      BY <3>2, RingNewEntry
    <3>4. /\ ListAt(new, n) = v /\ (ListAt(new, 0) = ListAt(lists, 0) \/ n >= Ring)
          /\ ListAt(new, n - 1) = ListAt(lists, n - 1)
      <4>1. lists \in Checklists /\ n \in Nat /\ n > 0
        BY <3>2
      <4> QED
        BY <4>1, <3>3, NewList
    <3> QED
      BY <3>1, <3>4
  <2>5. ListAt(cLists'[c], 0) = ListAt(cLists[c], 0) \/ sStep >= Ring
    BY <2>3, <2>4, <1>2
  <2>6. ASSUME ~lost[c] PROVE OwnListsOK(c)'
    <3>1. AtFrame(sWorld, v, k + 1) /\ k > 0
      BY <1>5, <1>14, <2>1, <2>2, <2>6, FrameIsRight DEF Along
    <3>2. AtFrame(sWorld, ListAt(cLists[c], k), k)
      BY <3>1, <2>1, <2>2, <2>6, <1>4 DEF OwnListsOK
    <3>3. AtFrame(sWorld, ListAt(cLists'[c], (k + 1) - 1), (k + 1) - 1)
      BY <3>2, <2>3, <2>4
    <3>4. AtFrame(sWorld, ListAt(cLists'[c], k + 1), k + 1)
      BY <3>1, <2>4
    <3> QED
      BY <3>3, <3>4, <2>2, <1>1 DEF OwnListsOK
  <2>7. Tells(Close) /\ \A m \in Elems(wire'[c]) : m \in Elems(wire[c])
    BY <2>2, <1>8
  <2> HIDE DEF Tells
  <2> QED
    BY <2>2, <2>5, <2>6, <2>7, <1>4, <1>6
<1>15. CASE RequestStep(c)
  <2>1. PICK n \in Nat :
           up'[c] = Append(up[c], [type |-> "TOOL", step |-> cStep[c], map |-> cMap[c],
                                   lstep |-> cStep[c], lchk |-> ListAt(cLists[c], cStep[c]),
                                   tool |-> n, at |-> 0])
    BY <1>15 DEF RequestStep
  <2>2. PICK x : x = [type |-> "TOOL", step |-> cStep[c], map |-> cMap[c],
                      lstep |-> cStep[c], lchk |-> ListAt(cLists[c], cStep[c]),
                      tool |-> n, at |-> 0]
    OBVIOUS
  <2>3. x.type = "TOOL" /\ x.lstep = cStep[c] /\ x.lchk = ListAt(cLists[c], cStep[c])
        /\ up'[c] = Append(up[c], x)
    BY <2>1, <2>2
  <2>4. /\ wire'[c] = wire[c] /\ lost'[c] = lost[c] /\ fate'[c] = fate[c]
        /\ cMode[c] = "playing" /\ cMode'[c] = cMode[c] /\ cStep'[c] = cStep[c]
        /\ cLists'[c] = cLists[c] /\ cQueue'[c] = cQueue[c]
    BY <1>15 DEF RequestStep, Machine, Records
  <2>5. ASSUME ~lost[c] PROVE Reported(cStep[c], ListAt(cLists[c], cStep[c]))
    <3>1. CASE cStep[c] > 0
      BY <3>1, <2>4, <2>5, <1>4 DEF OwnListsOK, Reported
    <3>2. CASE cStep[c] = 0
      BY <3>2, <1>2, <1>4, EmptyAtFrame DEF Reported
    <3> QED
      BY <3>1, <3>2, <1>2
  <2>6. Tells(x) /\ \A m \in Elems(wire'[c]) : m \in Elems(wire[c])
    BY <2>3, <2>4, <2>5, <1>3
  <2>7. OwnListsOK(c) => OwnListsOK(c)'
    BY <2>4, <1>1 DEF OwnListsOK
  <2> HIDE DEF Tells
  <2> QED
    BY <2>4, <2>6, <2>7, <1>4, <1>6
<1> QED
  BY <1>9, <1>10, <1>11, <1>12, <1>13, <1>14, <1>15 DEF ClientSide

LEMMA NextKickInv ==
    ASSUME Ring > 1, ~SendMayFail
    PROVE  IInv /\ SInv /\ LogInv /\ StreamInv /\ OrderInv /\ AlongInv /\ KickInv /\ [Next]_vars
              => KickInv'
<1> SUFFICES ASSUME IInv, SInv, LogInv, StreamInv, OrderInv, AlongInv, KickInv, [Next]_vars,
                    NEW c \in Clients
             PROVE  KickOK(c)'
  BY DEF KickInv
<1>1. PICK F \in Worlds : Coming(F) /\ Along(F, c)
  BY DEF AlongInv
<1>2. KickOK(c) /\ LocalStep(c)
  BY NextIsLocal DEF KickInv
<1>3. CASE RestStep(c)
  <2>1. /\ sWorld' = sWorld /\ sStep' = sStep
        /\ cMode'[c] = cMode[c] /\ cStep'[c] = cStep[c] /\ cLists'[c] = cLists[c]
        /\ cQueue'[c] = cQueue[c] /\ up'[c] = up[c] /\ wire'[c] = wire[c]
        /\ lost'[c] = lost[c] /\ fate'[c] = fate[c]
    BY <1>3 DEF RestStep, core, Machine, Slot, Records
  <2>2. OwnListsOK(c) => OwnListsOK(c)'
    BY <2>1 DEF OwnListsOK
  <2>3. ReportsOK(c) => ReportsOK(c)'
    BY <2>1 DEF ReportsOK, Reported
  <2> QED
    BY <2>1, <2>2, <2>3, <1>2 DEF KickOK
<1>4. CASE ServerSide(c)
  BY <1>1, <1>2, <1>4, KickServerSide
<1>5. CASE ClientSide(c)
  BY <1>1, <1>2, <1>5, KickClientSide
<1> QED
  BY <1>2, <1>3, <1>4, <1>5 DEF LocalStep

LEMMA InitKickInv == Init => KickInv
<1> SUFFICES ASSUME Init, NEW c \in Clients PROVE KickOK(c)
  BY DEF KickInv
<1>1. /\ fate[c] = "none" /\ cLists[c] = [i \in 0 .. Ring - 1 |-> <<>>] /\ up[c] = <<>>
      /\ wire[c] = <<>> /\ cMode[c] = "out"
  BY DEF Init
<1>2. ListAt(cLists[c], 0) = <<>>
  <2>1. 0 % Ring \in 0 .. Ring - 1
    BY RingAssumption
  <2> QED
    BY <2>1, <1>1 DEF ListAt
<1>3. Elems(<<>>) = {}
  BY DEF Elems
<1> QED
  BY <1>1, <1>2, <1>3 DEF KickOK, ReportsOK, OwnListsOK

\* Nobody is thrown out for a wrong checklist whose world is right, if no direct send fails and
\* the ring holds more than one checklist: every checklist that is compared, in tools, NWC_CHECKs
\* and NWC_READYs, is that of the server's world at the same frame, or the client's own reload
\* dropped commands.  With a ring of one checklist an NWC_CHECK would be compared with that of
\* the next step.
THEOREM OnlyTheDivergedAreKicked ==
    ASSUME Ring > 1, ~SendMayFail PROVE Spec => []KickedOnlyIfDiverged
<1> DEFINE Inv == /\ IInv /\ SInv /\ LogInv /\ SlotInv /\ StreamInv /\ JoinInv /\ OrderInv
                  /\ IdleInv /\ AlongInv /\ KickInv
<1>1. Init => Inv
  BY InitIInv, InitSInv, InitLogInv, InitSlotInv, InitStreamInv, InitJoinInv, InitOrderInv,
     InitIdleInv, InitAlongInv, InitKickInv
<1>2. Inv /\ [Next]_vars => Inv'
  BY NextIInv, NextSInv, NextLogInv, NextSlotInv, NextStreamInv, NextJoinInv, NextOrderInv,
     NextIdleInv, NextAlongInv, NextKickInv
<1>3. Inv => KickedOnlyIfDiverged
  BY DEF KickInv, KickOK, KickedOnlyIfDiverged
<1> QED
  BY <1>1, <1>2, <1>3, PTL DEF Spec

=============================================================================
