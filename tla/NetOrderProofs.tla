---------------------------- MODULE NetOrderProofs ----------------------------
(***************************************************************************)
(* Proofs about the order of what NetLockstep sends, for any number of     *)
(* clients and any bounds: no process has a command of the past in its     *)
(* queue, and who is booked as playing has the game or gets it.            *)
(*                                                                         *)
(* The invariant has four parts, each of which needs the one before:       *)
(*   LogInv     the server's world has as many frames as it ran, and its   *)
(*              checklists and queued commands know their place in it;     *)
(*   StreamInv  a client's queue, the wire and the send queue, one behind  *)
(*              the other, are in the order in which they were sent, and   *)
(*              each message says what was so at the server;               *)
(*   JoinInv    to a client comes at most one game that it will load, and  *)
(*              a sync that was promised to it is still to come;           *)
(*   OrderInv   what comes to a client behind a point of its stream is     *)
(*              later than what it has run when it gets there.             *)
(***************************************************************************)
EXTENDS NetClientProofs, FiniteSetTheorems

-----------------------------------------------------------------------------
(* The frames of a world.                                                  *)

\* how many frames there are in the first n inputs
Frames(w, n) == Cardinality({i \in 1 .. n : w[i] = Frame})

LEMMA FramesType ==
    ASSUME NEW w, NEW n \in Nat
    PROVE  IsFiniteSet({i \in 1 .. n : w[i] = Frame}) /\ Frames(w, n) \in Nat
<1>1. IsFiniteSet(1 .. n)
  BY FS_Interval
<1>2. {i \in 1 .. n : w[i] = Frame} \in SUBSET (1 .. n)
  OBVIOUS
<1>3. IsFiniteSet({i \in 1 .. n : w[i] = Frame})
  BY <1>1, <1>2, FS_Subset
<1> QED
  BY <1>3, FS_CardinalityType DEF Frames

LEMMA FramesLocal ==
    ASSUME NEW v, NEW w, NEW n \in Nat, \A i \in 1 .. n : v[i] = w[i]
    PROVE  Frames(v, n) = Frames(w, n)
<1>1. {i \in 1 .. n : v[i] = Frame} = {i \in 1 .. n : w[i] = Frame}
  OBVIOUS
<1> QED
  BY <1>1 DEF Frames

LEMMA FramesStep ==
    ASSUME NEW w, NEW n \in Nat
    PROVE  /\ Frames(w, 0) = 0
           /\ w[n + 1] = Frame => Frames(w, n + 1) = Frames(w, n) + 1
           /\ w[n + 1] # Frame => Frames(w, n + 1) = Frames(w, n)
<1> DEFINE T(k) == {i \in 1 .. k : w[i] = Frame}
<1>1. IsFiniteSet(T(n))
  BY FramesType
<1>2. T(0) = {}
  OBVIOUS
<1>3. w[n + 1] = Frame => T(n + 1) = T(n) \cup {n + 1}
  OBVIOUS
<1>4. w[n + 1] # Frame => T(n + 1) = T(n)
  OBVIOUS
<1>5. n + 1 \notin T(n)
  OBVIOUS
<1>6. Frames(w, n) = Cardinality(T(n)) /\ Frames(w, n + 1) = Cardinality(T(n + 1))
      /\ Frames(w, 0) = Cardinality(T(0))
  BY DEF Frames
<1> HIDE DEF T
<1>7. Cardinality(T(n) \cup {n + 1}) = Cardinality(T(n)) + 1
  BY <1>1, <1>5, FS_AddElement
<1>8. Cardinality({}) = 0
  BY FS_EmptySet
<1> QED
  BY <1>2, <1>3, <1>4, <1>6, <1>7, <1>8

LEMMA FramesMonotone ==
    ASSUME NEW w, NEW m \in Nat, NEW n \in Nat
    PROVE  /\ m <= n => Frames(w, m) <= Frames(w, n)
           /\ m < n /\ w[n] = Frame => Frames(w, m) < Frames(w, n)
<1>1. ASSUME NEW k \in Nat, m <= k PROVE Frames(w, m) <= Frames(w, k)
  <2>1. /\ {i \in 1 .. m : w[i] = Frame} \in SUBSET {i \in 1 .. k : w[i] = Frame}
        /\ IsFiniteSet({i \in 1 .. k : w[i] = Frame})
    BY <1>1, FramesType
  <2> QED
    BY <2>1, FS_Subset DEF Frames
<1>2. ASSUME m < n, w[n] = Frame PROVE Frames(w, m) < Frames(w, n)
  <2>1. n - 1 \in Nat /\ m <= n - 1 /\ (n - 1) + 1 = n
    BY <1>2
  <2>2. Frames(w, m) <= Frames(w, n - 1)
    BY <1>1, <2>1
  <2>3. Frames(w, n) = Frames(w, n - 1) + 1
    BY <1>2, <2>1, FramesStep
  <2>4. Frames(w, m) \in Nat /\ Frames(w, n - 1) \in Nat
    BY <2>1, FramesType
  <2> QED
    BY <2>2, <2>3, <2>4
<1> QED
  BY <1>1, <1>2

\* the world l ends with frame k of the world w (and is empty before the first one)
AtFrame(w, l, k) ==
    /\ Len(l) <= Len(w) /\ \A i \in 1 .. Len(l) : l[i] = w[i]
    /\ Frames(w, Len(l)) = k
    /\ Len(l) # 0 => w[Len(l)] = Frame

\* There is only one such world, ...
LEMMA AtFrameUnique ==
    ASSUME NEW w \in Worlds, NEW l \in Worlds, NEW r \in Worlds, NEW k,
           AtFrame(w, l, k), AtFrame(w, r, k)
    PROVE  l = r
<1>1. Len(l) \in Nat /\ Len(r) \in Nat /\ Len(w) \in Nat
  BY DEF Worlds
<1>2. Len(l) = Len(r)
  <2>1. ASSUME NEW m \in Nat, NEW n \in Nat, m < n, Frames(w, m) = k, Frames(w, n) = k,
               n # 0 => w[n] = Frame
        PROVE  FALSE
    <3>1. Frames(w, m) < Frames(w, n)
      BY <2>1, FramesMonotone
    <3>2. Frames(w, m) \in Nat
      BY <2>1, FramesType
    <3> QED
      BY <2>1, <3>1, <3>2
  <2>2. ~(Len(l) < Len(r))
    BY <1>1, <2>1 DEF AtFrame
  <2>3. ~(Len(r) < Len(l))
    BY <1>1, <2>1 DEF AtFrame
  <2> QED
    BY <1>1, <2>2, <2>3
<1> QED
  BY <1>2 DEF AtFrame, Worlds

\* ... and it stays that when the world goes on.
LEMMA AtFrameAppend ==
    ASSUME NEW w \in Worlds, NEW l \in Worlds, NEW k, AtFrame(w, l, k), NEW x
    PROVE  AtFrame(Append(w, x), l, k)
<1>1. /\ Len(Append(w, x)) = Len(w) + 1 /\ Len(l) \in Nat /\ Len(w) \in Nat
      /\ \A i \in 1 .. Len(w) : Append(w, x)[i] = w[i]
  BY DEF Worlds
<1>2. \A i \in 1 .. Len(l) : Append(w, x)[i] = w[i]
  BY <1>1 DEF AtFrame
<1>3. Frames(Append(w, x), Len(l)) = Frames(w, Len(l))
  BY <1>1, <1>2, FramesLocal
<1> QED
  BY <1>1, <1>2, <1>3 DEF AtFrame

\* A world that gets another frame is at that frame.
LEMMA FramesAppend ==
    ASSUME NEW w \in Worlds, NEW x
    PROVE  /\ Len(Append(w, x)) = Len(w) + 1 /\ Len(w) \in Nat
           /\ \A n \in 0 .. Len(w) : Frames(Append(w, x), n) = Frames(w, n)
           /\ x = Frame => Frames(Append(w, x), Len(w) + 1) = Frames(w, Len(w)) + 1
           /\ x # Frame => Frames(Append(w, x), Len(w) + 1) = Frames(w, Len(w))
<1>1. /\ Len(Append(w, x)) = Len(w) + 1 /\ Len(w) \in Nat
      /\ \A i \in 1 .. Len(w) : Append(w, x)[i] = w[i]
      /\ Append(w, x)[Len(w) + 1] = x
  BY DEF Worlds
<1>2. ASSUME NEW n \in 0 .. Len(w) PROVE Frames(Append(w, x), n) = Frames(w, n)
  <2>1. n \in Nat /\ \A i \in 1 .. n : Append(w, x)[i] = w[i]
    BY <1>1
  <2> QED
    BY <2>1, FramesLocal
<1>3. Len(w) \in 0 .. Len(w)
  BY <1>1
<1>4. Frames(Append(w, x), Len(w)) = Frames(w, Len(w))
  BY <1>2, <1>3
<1> QED
  BY <1>1, <1>2, <1>4, FramesStep

LEMMA AtFrameNew ==
    ASSUME NEW w \in Worlds, NEW k \in Nat, Frames(w, Len(w)) = k
    PROVE  AtFrame(Append(w, Frame), Append(w, Frame), k + 1)
<1>1. /\ Len(Append(w, Frame)) = Len(w) + 1 /\ Len(w) \in Nat
      /\ Append(w, Frame)[Len(w) + 1] = Frame
  BY DEF Worlds
<1>2. Frames(Append(w, Frame), Len(w) + 1) = k + 1
  BY FramesAppend
<1> QED
  BY <1>1, <1>2 DEF AtFrame

-----------------------------------------------------------------------------
(* The server's log: its world, its checklists and the places its commands *)
(* will have in its world.                                                 *)

\* the checklists of the last Ring steps
ListsOK ==
    \A k \in 0 .. sStep : k + Ring > sStep => AtFrame(sWorld, ListAt(sLists, k), k)

QueuePlaced ==
    \A i \in 1 .. Len(sQueue) :
        sQueue[i].at = Len(sWorld) + i - 1 + (sQueue[i].step - sStep)

\* what the server has put into the commands of its queue
QueueReports ==
    \A i \in 1 .. Len(sQueue) :
        /\ sQueue[i].type = "TOOL" => /\ sQueue[i].step = sQueue[i].lstep + 1
                                      /\ AtFrame(sWorld, sQueue[i].lchk, sQueue[i].lstep)
        /\ sQueue[i].type = "SYNC" => /\ sQueue[i].map < sQueue[i].newmap
                                      /\ sQueue[i].newmap <= nMaps

LogInv ==
    /\ Frames(sWorld, Len(sWorld)) = sStep /\ sMap <= nMaps
    /\ ListsOK /\ QueuePlaced /\ QueueReports

\* A ring buffer of Ring entries keeps Ring steps apart.
LEMMA Quotient ==
    ASSUME NEW a \in Nat, NEW r \in Nat, r > 0
    PROVE  a \div r \in Int
  OBVIOUS

LEMMA Remainder ==
    ASSUME NEW a \in Nat, NEW r \in Nat, r > 0
    PROVE  a % r = a - r * (a \div r)
  BY SMTT(30)

LEMMA MultiplesApart ==
    ASSUME NEW a \in Nat, NEW b \in Nat, NEW r \in Nat, NEW p \in Int, NEW q \in Int,
           r > 0, a < b, b < a + r
    PROVE  a - r * p # b - r * q
<1> SUFFICES ASSUME a - r * p = b - r * q PROVE FALSE
  OBVIOUS
<1>1. r * (q - p) = b - a
  OBVIOUS
<1> DEFINE d == q - p
<1>2. d \in Int /\ r * d = b - a
  BY <1>1
<1> HIDE DEF d
<1>3. CASE d >= 1
  <2>1. r * d >= r
    BY <1>2, <1>3
  <2> QED
    BY <1>2, <2>1
<1>4. CASE d <= 0
  <2>1. r * d <= 0
    BY <1>2, <1>4
  <2> QED
    BY <1>2, <2>1
<1> QED
  BY <1>2, <1>3, <1>4

LEMMA RingApart ==
    ASSUME NEW a \in Nat, NEW b \in Nat, a < b, b < a + Ring
    PROVE  a % Ring # b % Ring
<1>1. Ring \in Nat /\ Ring > 0
  BY RingAssumption
<1> DEFINE p == a \div Ring
           q == b \div Ring
<1>2. p \in Int /\ q \in Int
  BY <1>1, Quotient
<1>3. a % Ring = a - Ring * p
  BY <1>1, Remainder
<1>4. b % Ring = b - Ring * q
  BY <1>1, Remainder
<1> HIDE DEF p, q
<1>5. a - Ring * p # b - Ring * q
  BY <1>1, <1>2, MultiplesApart
<1> QED
  BY <1>3, <1>4, <1>5

\* so that a new checklist overwrites none of the last Ring - 1 steps
LEMMA RecordList ==
    ASSUME NEW lists \in Checklists, NEW n \in Nat, NEW new,
           \A j \in 0 .. Ring - 1 : j # n % Ring => new[j] = lists[j]
    PROVE  \A k \in Nat : (k < n /\ n < k + Ring) \/ (n < k /\ k < n + Ring) =>
              ListAt(new, k) = ListAt(lists, k)
<1>1. Ring \in Nat /\ Ring > 0
  BY RingAssumption
<1>2. n % Ring \in 0 .. Ring - 1 /\ \A k \in Nat : k % Ring \in 0 .. Ring - 1
  BY <1>1
<1>3. ASSUME NEW k \in Nat, (k < n /\ n < k + Ring) \/ (n < k /\ k < n + Ring)
      PROVE  k % Ring # n % Ring
  BY <1>3, RingApart
<1> QED
  BY <1>2, <1>3 DEF ListAt, Checklists

\* What a step does to the server.
LEMMA NextIsGlobal ==
    ASSUME IInv, [Next]_vars
    PROVE  \/ UNCHANGED core
           \/ ServerFrame
           \/ \E m \in ToolMsgs \cup SyncMsgs : Schedules(m)
           \/ ServerRunsTool
           \/ \E new \in Nat : Reloads(new)
<1> DEFINE Goal == \/ UNCHANGED core
                   \/ ServerFrame
                   \/ \E m \in ToolMsgs \cup SyncMsgs : Schedules(m)
                   \/ ServerRunsTool
                   \/ \E new \in Nat : Reloads(new)
<1>1. ASSUME NEW c \in Clients PROVE Goal
  <2>1. LocalStep(c)
    BY NextIsLocal
  <2>2. CASE ServerSide(c)
    BY <2>2 DEF ServerSide, FrameStep, ScheduleStep, RunStep, ReloadStep, CutStep, AnswerStep,
                FlushStep
  <2>3. CASE ClientSide(c)
    BY <2>3 DEF ClientSide, ConnectStep, GoneStep, ReadStep, PopStep, SyncStep, AdvanceStep,
                RequestStep
  <2>4. CASE RestStep(c)
    BY <2>4 DEF RestStep
  <2> QED
    BY <2>1, <2>2, <2>3, <2>4 DEF LocalStep
<1>2. CASE UNCHANGED vars
  BY <1>2 DEF vars, serverVars, counters, core
<1>3. CASE ServerTool
  <2>1. nTools + 1 \in Nat
    BY DEF IInv, RecordsOK
  <2>2. /\ Schedules(ServerClone(nTools + 1)) /\ ServerClone(nTools + 1) \in ToolMsgs
    BY <1>3, <2>1, CloneIsScheduled DEF ServerTool, BroadcastTool
  <2> QED
    BY <2>2
<1>4. CASE ServerForcesSync
  <2>1. Schedules(SyncMsg(NoClient)) /\ SyncMsg(NoClient) \in SyncMsgs
    BY <1>4, SyncIsScheduled DEF ServerForcesSync
  <2> QED
    BY <2>1
<1>5. CASE ServerReloadsAtOnce
  <2>1. nMaps + 1 \in Nat /\ Reloads(nMaps + 1)
    BY <1>5 DEF ServerReloadsAtOnce, Reloads, ForcedNow, IInv, RecordsOK
  <2> QED
    BY <2>1
<1>6. CASE ServerRunsSync
  <2>1. Head(sQueue) \in SyncMsgs
    BY <1>6, QueueHeadType DEF ServerRunsSync
  <2>2. Head(sQueue).newmap \in Nat /\ Reloads(Head(sQueue).newmap)
    BY <1>6, <2>1 DEF ServerRunsSync, Reloads, RunsSync, counters, SyncMsgs
  <2> QED
    BY <2>2
<1> HIDE DEF Goal
<1>7. Goal
  BY <1>1, <1>2, <1>3, <1>4, <1>5, <1>6 DEF Next, ServerRuns, Goal
<1> QED
  BY <1>7 DEF Goal

-----------------------------------------------------------------------------
(* LogInv along the steps of the server.                                   *)

\* A command that is not earlier than the queued ones goes to the end.
LEMMA InsertIsAppend ==
    ASSUME NEW S, NEW q \in Seq(S), NEW m \in S, \A x \in S : x.step \in Nat,
           \A i \in 1 .. Len(q) : q[i].step <= m.step
    PROVE  Insert(q, m) = Append(q, m)
<1>1. {i \in 1 .. Len(q) : q[i].step > m.step} = {}
  OBVIOUS
<1>2. Insert(q, m) = SubSeq(q, 1, Len(q)) \o <<m>> \o SubSeq(q, Len(q) + 1, Len(q))
  BY <1>1 DEF Insert
<1>3. SubSeq(q, 1, Len(q)) = q /\ SubSeq(q, Len(q) + 1, Len(q)) = <<>>
  OBVIOUS
<1>4. q \o <<m>> \in Seq(S) /\ q \o <<m>> = Append(q, m)
  OBVIOUS
<1>5. (q \o <<m>>) \o <<>> = q \o <<m>>
  BY <1>4
<1> QED
  BY <1>2, <1>3, <1>4, <1>5

LEMMA ScheduleAppends ==
    ASSUME IInv, SInv, NEW m, Schedules(m) PROVE sQueue' = Append(sQueue, m)
<1>1. m \in ToolMsgs \cup SyncMsgs /\ \A x \in ToolMsgs \cup SyncMsgs : x.step \in Nat
  BY DEF Schedules, ToolMsgs, SyncMsgs
<1>2. sQueue \in Seq(ToolMsgs \cup SyncMsgs) /\ sStep \in Nat
  BY DEF IInv, ServerOK
<1>3. \A i \in 1 .. Len(sQueue) : sQueue[i].step <= m.step
  BY <1>2 DEF SInv, QueueIsCurrent, Schedules
<1> QED
  BY <1>1, <1>2, <1>3, InsertIsAppend DEF Schedules

\* A due command is run: it is of this step and this world, and its report agrees.
LEMMA DueCommandRuns ==
    ASSUME IInv, SInv, LogInv, HasDue(sQueue, sStep)
    PROVE  /\ Head(sQueue) = sQueue[1] /\ 1 \in 1 .. Len(sQueue)
           /\ Head(sQueue).step = sStep /\ Head(sQueue).map = sMap
           /\ Runs(Head(sQueue), sStep, sMap, sLists)
<1>1. /\ sStep \in Nat /\ sQueue \in Seq(ToolMsgs \cup SyncMsgs) /\ sQueue # <<>>
      /\ Head(sQueue) = sQueue[1] /\ 1 \in 1 .. Len(sQueue)
      /\ sLists \in Checklists /\ sWorld \in Worlds
      /\ Head(sQueue) \in ToolMsgs \cup SyncMsgs
  BY DEF IInv, ServerOK, HasDue
<1> DEFINE m == Head(sQueue)
<1>2. m.step = sStep /\ m.map = sMap
  BY <1>1 DEF HasDue, SInv, QueueIsCurrent
<1>3. ASSUME m.type = "TOOL" PROVE ToolAgrees(m, sStep, sLists)
  <2>1. m \in ToolMsgs
    BY <1>1, <1>3 DEF ToolMsgs, SyncMsgs
  <2>2. m.lstep \in Nat /\ m.lchk \in Worlds
    BY <2>1 DEF ToolMsgs
  <2>3. m.step = m.lstep + 1 /\ AtFrame(sWorld, m.lchk, m.lstep)
    BY <1>1, <1>3 DEF LogInv, QueueReports
  <2> SUFFICES ASSUME Available(m.lstep, sStep) PROVE ListAt(sLists, m.lstep) = m.lchk
    BY DEF ToolAgrees
  <2>4. AtFrame(sWorld, ListAt(sLists, m.lstep), m.lstep)
    BY <1>1, <1>2, <2>2, <2>3 DEF LogInv, ListsOK, Available
  <2>5. ListAt(sLists, m.lstep) \in Worlds
    BY <1>1, <2>2, ListType
  <2> QED
    BY <1>1, <2>2, <2>3, <2>4, <2>5, AtFrameUnique
<1>4. Runs(m, sStep, sMap, sLists)
  BY <1>1, <1>2, <1>3 DEF Runs, SameWorld
<1> QED
  BY <1>1, <1>2, <1>4

\* so that only tools are run this way, and none is dropped.
LEMMA ServerRunsDueTool ==
    ASSUME IInv, SInv, LogInv, ServerRunsTool
    PROVE  /\ Head(sQueue).type = "TOOL"
           /\ sWorld' = Append(sWorld, Tool(Head(sQueue).tool)) /\ sQueue' = Tail(sQueue)
           /\ UNCHANGED <<sStep, sPaused, sMap, sMaps, sLists, nMaps>>
           /\ sQueue # <<>>
<1>1. HasDue(sQueue, sStep)
  BY DEF ServerRunsTool
<1>2. Runs(Head(sQueue), sStep, sMap, sLists)
  BY <1>1, DueCommandRuns
<1> QED
  BY <1>1, <1>2 DEF ServerRunsTool, HasDue, counters

LEMMA LogServerFrame == ASSUME IInv, SInv, LogInv, ServerFrame PROVE LogInv'
<1>1. /\ sStep \in Nat /\ sQueue \in Seq(ToolMsgs \cup SyncMsgs)
      /\ sLists \in Checklists /\ sWorld \in Worlds
      /\ \A i \in 1 .. Len(sQueue) : sQueue[i] \in ToolMsgs \cup SyncMsgs
  BY DEF IInv, ServerOK
<1>0. sStep + 1 \in Nat
  BY <1>1
<1>2. /\ sStep' = sStep + 1 /\ sWorld' = Append(sWorld, Frame)
      /\ sLists' = [sLists EXCEPT ![(sStep + 1) % Ring] = Append(sWorld, Frame)]
      /\ UNCHANGED <<sMap, sQueue, nMaps>>
  BY DEF ServerFrame, counters
<1>3. Len(sWorld') = Len(sWorld) + 1 /\ Frames(sWorld', Len(sWorld')) = sStep'
  BY <1>1, <1>2, FramesAppend DEF LogInv
<1>7. /\ sLists'[(sStep + 1) % Ring] = Append(sWorld, Frame)
      /\ \A j \in 0 .. Ring - 1 : j # (sStep + 1) % Ring => sLists'[j] = sLists[j]
  <2>1. (sStep + 1) % Ring \in 0 .. Ring - 1
    BY <1>0, RingAssumption
  <2> QED
    BY <1>1, <1>2, <2>1 DEF Checklists
<1>8. sLists \in Checklists
  BY <1>1
<1>4. ListsOK'
  <2> SUFFICES ASSUME NEW k \in 0 .. sStep + 1, k + Ring > sStep + 1
               PROVE  AtFrame(sWorld', ListAt(sLists', k), k)
    BY <1>2 DEF ListsOK
  <2>1. CASE k = sStep + 1
    <3>1. ListAt(sLists', sStep + 1) = Append(sWorld, Frame)
      BY <1>7 DEF ListAt
    <3>2. ListAt(sLists', k) = Append(sWorld, Frame)
      BY <2>1, <3>1
    <3> QED
      BY <1>1, <1>2, <2>1, <3>2, AtFrameNew DEF LogInv
  <2>2. CASE k # sStep + 1
    <3>1. k \in 0 .. sStep /\ k + Ring > sStep /\ k < sStep + 1 /\ sStep + 1 < k + Ring
      BY <1>1, <2>2, RingAssumption
    <3>2. ListAt(sLists', k) = ListAt(sLists, k)
      BY <1>0, <1>7, <1>8, <3>1, RecordList
    <3>3. AtFrame(sWorld, ListAt(sLists, k), k)
      BY <3>1 DEF LogInv, ListsOK
    <3>4. ListAt(sLists, k) \in Worlds
      BY <1>1, <3>1, ListType
    <3> QED
      BY <1>1, <1>2, <3>2, <3>3, <3>4, AtFrameAppend
  <2> QED
    BY <2>1, <2>2
<1>5. QueuePlaced'
  <2>1. \A i \in 1 .. Len(sQueue) : sQueue[i].step \in Nat /\ sQueue[i].at \in Nat
    BY <1>1 DEF ToolMsgs, SyncMsgs
  <2>2. Len(sWorld) \in Nat
    BY <1>1 DEF Worlds
  <2>3. Len(sWorld') = Len(sWorld) + 1
    BY <1>3
  <2>4. \A i \in 1 .. Len(sQueue) :
           sQueue[i].at = Len(sWorld) + i - 1 + (sQueue[i].step - sStep)
    BY DEF LogInv, QueuePlaced
  <2>5. sQueue' = sQueue /\ sStep' = sStep + 1
    BY <1>2
  <2> HIDE DEF LogInv
  <2>6. \A i \in 1 .. Len(sQueue) :
           sQueue[i].at = Len(sWorld') + i - 1 + (sQueue[i].step - (sStep + 1))
    <3> SUFFICES ASSUME NEW i \in 1 .. Len(sQueue)
                 PROVE  sQueue[i].at = Len(sWorld') + i - 1 + (sQueue[i].step - (sStep + 1))
      OBVIOUS
    <3>1. sStep \in Nat /\ i \in Nat /\ sQueue[i].step \in Nat
      BY <1>1, <2>1
    <3>2. sQueue[i].at = Len(sWorld) + i - 1 + (sQueue[i].step - sStep)
      BY <2>4
    <3> DEFINE t == sQueue[i].step
               p == sQueue[i].at
               n == Len(sWorld)
    <3>3. sStep \in Nat /\ i \in Nat /\ t \in Nat /\ n \in Nat /\ p = n + i - 1 + (t - sStep)
      BY <2>2, <3>1, <3>2
    <3>4. Len(sWorld') = n + 1
      BY <2>3
    <3> HIDE DEF t, p, n
    <3>5. p = (n + 1) + i - 1 + (t - (sStep + 1))
      BY <3>3
    <3> QED
      BY <3>4, <3>5 DEF t, p
  <2> QED
    BY <2>5, <2>6 DEF QueuePlaced
<1>6. QueueReports'
  <2> SUFFICES ASSUME NEW i \in 1 .. Len(sQueue), sQueue[i].type = "TOOL"
               PROVE  AtFrame(sWorld', sQueue[i].lchk, sQueue[i].lstep)
    BY <1>2 DEF LogInv, QueueReports
  <2>1. sQueue[i].lchk \in Worlds
    BY <1>1 DEF ToolMsgs, SyncMsgs
  <2> QED
    BY <1>1, <1>2, <2>1, AtFrameAppend DEF LogInv, QueueReports
<1> QED
  BY <1>2, <1>3, <1>4, <1>5, <1>6 DEF LogInv

LEMMA LogSchedules == ASSUME IInv, SInv, LogInv, NEW m, Schedules(m) PROVE LogInv'
<1>1. /\ sStep \in Nat /\ sQueue \in Seq(ToolMsgs \cup SyncMsgs) /\ nMaps \in Nat /\ sMap \in Nat
  BY DEF IInv, ServerOK, RecordsOK
<1>2. /\ sQueue' = Append(sQueue, m) /\ UNCHANGED <<sStep, sMap, sWorld, sLists>>
      /\ nMaps' = nMaps \/ nMaps' = nMaps + 1
  BY ScheduleAppends DEF Schedules, ToolMsgs, SyncMsgs
<1>3. /\ Len(sQueue') = Len(sQueue) + 1 /\ sQueue'[Len(sQueue) + 1] = m
      /\ \A i \in 1 .. Len(sQueue) : sQueue'[i] = sQueue[i]
  BY <1>1, <1>2
<1>4. QueuePlaced'
  <2>1. m.at = Len(sWorld) + Len(sQueue) + 1 /\ m.step = sStep + 1
    BY DEF Schedules, Place
  <2>2. Len(sWorld) \in Nat
    BY DEF IInv, ServerOK, Worlds
  <2> QED
    BY <1>1, <1>2, <1>3, <2>1, <2>2 DEF LogInv, QueuePlaced
<1>5. QueueReports'
  <2>1. m.type = "TOOL" => m.step = m.lstep + 1 /\ AtFrame(sWorld, m.lchk, m.lstep)
    <3>1. AtFrame(sWorld, ListAt(sLists, sStep), sStep)
      BY <1>1, RingAssumption DEF LogInv, ListsOK
    <3> QED
      BY <3>1 DEF Schedules
  <2>2. m.type = "SYNC" => m.map < m.newmap /\ m.newmap = nMaps'
    BY <1>1 DEF Schedules, LogInv
  <2>3. ASSUME NEW i \in 1 .. Len(sQueue)
        PROVE  sQueue[i].type = "SYNC" => sQueue[i].newmap <= nMaps'
    <3>1. sQueue[i].type = "SYNC" => sQueue[i].newmap \in Nat
      BY <1>1 DEF ToolMsgs, SyncMsgs
    <3> QED
      BY <1>1, <1>2, <3>1 DEF LogInv, QueueReports
  <2>4. ASSUME NEW i \in 1 .. Len(sQueue')
        PROVE  /\ sQueue'[i].type = "TOOL" => /\ sQueue'[i].step = sQueue'[i].lstep + 1
                                              /\ AtFrame(sWorld, sQueue'[i].lchk, sQueue'[i].lstep)
               /\ sQueue'[i].type = "SYNC" => /\ sQueue'[i].map < sQueue'[i].newmap
                                              /\ sQueue'[i].newmap <= nMaps'
    <3>1. CASE i = Len(sQueue) + 1
      BY <1>1, <1>2, <1>3, <2>1, <2>2, <3>1
    <3>2. CASE i \in 1 .. Len(sQueue)
      BY <1>3, <2>3, <3>2 DEF LogInv, QueueReports
    <3> QED
      BY <1>1, <1>3, <3>1, <3>2
  <2> QED
    BY <1>2, <2>4 DEF QueueReports
<1>6. sMap' <= nMaps' /\ Frames(sWorld', Len(sWorld')) = sStep'
  BY <1>1, <1>2 DEF LogInv
<1>7. ListsOK'
  BY <1>2 DEF LogInv, ListsOK
<1> QED
  BY <1>4, <1>5, <1>6, <1>7 DEF LogInv

\* Whatever is no frame leaves the checklists right.
LEMMA ListsStay ==
    ASSUME IInv, ListsOK, NEW x, sWorld' = Append(sWorld, x), UNCHANGED <<sStep, sLists>>
    PROVE  ListsOK'
<1> SUFFICES ASSUME NEW k \in 0 .. sStep, k + Ring > sStep
             PROVE  AtFrame(Append(sWorld, x), ListAt(sLists, k), k)
  BY DEF ListsOK
<1>1. sLists \in Checklists /\ sWorld \in Worlds /\ k \in Nat
  BY DEF IInv, ServerOK
<1>2. ListAt(sLists, k) \in Worlds
  BY <1>1, ListType
<1>3. AtFrame(sWorld, ListAt(sLists, k), k)
  BY DEF ListsOK
<1> QED
  BY <1>1, <1>2, <1>3, AtFrameAppend

LEMMA OtherInputs == \A n : Tool(n) # Frame /\ Reload(n) # Frame /\ \A k : Tool(n) # Reload(k)
  BY DEF Reload, Frame, Tool

LEMMA LogServerRunsTool == ASSUME IInv, SInv, LogInv, ServerRunsTool PROVE LogInv'
<1>1. /\ sStep \in Nat /\ sQueue \in Seq(ToolMsgs \cup SyncMsgs) /\ sWorld \in Worlds
      /\ Len(sWorld) \in Nat
  BY DEF IInv, ServerOK, Worlds
<1> DEFINE x == Tool(Head(sQueue).tool)
<1>2. /\ sWorld' = Append(sWorld, x) /\ sQueue' = Tail(sQueue)
      /\ UNCHANGED <<sStep, sPaused, sMap, sMaps, sLists, nMaps>> /\ sQueue # <<>>
  BY ServerRunsDueTool
<1>3. x # Frame
  BY OtherInputs
<1> HIDE DEF x
<1>4. Len(sWorld') = Len(sWorld) + 1 /\ Frames(sWorld', Len(sWorld')) = sStep'
  BY <1>1, <1>2, <1>3, FramesAppend DEF LogInv
<1>5. /\ Len(sQueue') = Len(sQueue) - 1
      /\ \A i \in 1 .. Len(sQueue') : sQueue'[i] = sQueue[i + 1] /\ i + 1 \in 1 .. Len(sQueue)
  BY <1>1, <1>2
<1>6. QueuePlaced'
  <2>1. \A i \in 1 .. Len(sQueue) : sQueue[i].step \in Nat
    BY <1>1 DEF ToolMsgs, SyncMsgs
  <2> QED
    BY <1>1, <1>2, <1>4, <1>5, <2>1 DEF LogInv, QueuePlaced
<1>7. QueueReports'
  <2>1. ASSUME NEW i \in 1 .. Len(sQueue), sQueue[i].type = "TOOL"
        PROVE  AtFrame(sWorld', sQueue[i].lchk, sQueue[i].lstep)
    <3>1. sQueue[i].lchk \in Worlds
      BY <1>1, <2>1 DEF ToolMsgs, SyncMsgs
    <3> QED
      BY <1>1, <1>2, <2>1, <3>1, AtFrameAppend DEF LogInv, QueueReports
  <2> QED
    BY <1>2, <1>5, <2>1 DEF LogInv, QueueReports
<1>8. ListsOK'
  BY <1>2, ListsStay DEF LogInv
<1> QED
  BY <1>2, <1>4, <1>6, <1>7, <1>8 DEF LogInv

LEMMA LogReloads == ASSUME IInv, SInv, LogInv, NEW new \in Nat, Reloads(new) PROVE LogInv'
<1>1. /\ sStep \in Nat /\ sQueue \in Seq(ToolMsgs \cup SyncMsgs) /\ sWorld \in Worlds
      /\ nMaps \in Nat
  BY DEF IInv, ServerOK, RecordsOK
<1>2. /\ sWorld' = Append(sWorld, Reload(new)) /\ sQueue' = <<>> /\ sMap' = new
      /\ UNCHANGED <<sStep, sLists>>
  BY DEF Reloads, ServerReloads
<1>3. Frames(sWorld', Len(sWorld')) = sStep'
  BY <1>1, <1>2, FramesAppend, OtherInputs DEF LogInv
<1>4. new <= nMaps'
  <2>1. CASE ForcedNow(new)
    BY <1>1, <2>1 DEF ForcedNow
  <2>2. CASE RunsSync(new)
    <3>1. sQueue # <<>> /\ Head(sQueue) = sQueue[1] /\ 1 \in 1 .. Len(sQueue)
      BY <1>1, <2>2 DEF RunsSync, HasDue
    <3> QED
      BY <2>2, <3>1 DEF RunsSync, LogInv, QueueReports
  <2> QED
    BY <2>1, <2>2 DEF Reloads
<1>5. ListsOK'
  BY <1>2, ListsStay DEF LogInv
<1> QED
  BY <1>2, <1>3, <1>4, <1>5 DEF LogInv, QueuePlaced, QueueReports

LEMMA InitLogInv == Init => LogInv
<1> SUFFICES ASSUME Init PROVE LogInv
  OBVIOUS
<1>1. Frames(<<>>, 0) = 0
  BY FramesStep
<1>2. ListAt(sLists, 0) = <<>>
  BY RingAssumption DEF Init, ListAt
<1>3. Len(<<>>) = 0
  OBVIOUS
<1>4. AtFrame(<<>>, <<>>, 0)
  BY <1>1, <1>3 DEF AtFrame
<1>5. /\ sWorld = <<>> /\ sQueue = <<>> /\ sStep = 0 /\ sMap = 0 /\ nMaps = 0
  BY DEF Init
<1>6. ListsOK
  BY <1>2, <1>4, <1>5 DEF ListsOK
<1>7. QueuePlaced /\ QueueReports
  BY <1>3, <1>5 DEF QueuePlaced, QueueReports
<1>8. Frames(sWorld, Len(sWorld)) = sStep /\ sMap <= nMaps
  BY <1>1, <1>3, <1>5
<1> QED
  BY <1>6, <1>7, <1>8 DEF LogInv

LEMMA NextLogInv == IInv /\ SInv /\ LogInv /\ [Next]_vars => LogInv'
<1> SUFFICES ASSUME IInv, SInv, LogInv, [Next]_vars PROVE LogInv'
  OBVIOUS
<1>1. CASE UNCHANGED core
  BY <1>1 DEF core, LogInv, ListsOK, QueuePlaced, QueueReports
<1> QED
  BY <1>1, NextIsGlobal, LogServerFrame, LogSchedules, LogServerRunsTool, LogReloads

-----------------------------------------------------------------------------
(* What is on its way to a client: its command queue, its wire and its     *)
(* send queue, in this order.                                              *)

Announces(m) == m.type \in {"STEP", "CHECK"}
Command(m)   == m.type \in {"TOOL", "SYNC"}
IsQueued(m)  == m.type \in {"CHECK", "TOOL", "SYNC"}

\* x was sent before y
Earlier(x, y) ==
    /\ Announces(x) /\ Announces(y) => x.sstep < y.sstep
    /\ Announces(x) /\ Command(y) => x.sstep < y.step
    /\ IsQueued(x) /\ IsQueued(y) => x.step <= y.step
    /\ Command(x) /\ Command(y) => x.map <= y.map /\ (x.map = y.map => x.at < y.at)

InOrder(s)   == \A i, j \in 1 .. Len(s) : i < j => Earlier(s[i], s[j])
Before(s, t) == \A i \in 1 .. Len(s) : \A j \in 1 .. Len(t) : Earlier(s[i], t[j])

Ordered(q, w, s) ==
    /\ InOrder(q) /\ InOrder(w) /\ InOrder(s)
    /\ Before(q, w) /\ Before(q, s) /\ Before(w, s)

\* what the server has said in a message it broadcast
Sent(m) ==
    /\ Announces(m) => m.sstep \in 1 .. sStep
    /\ m.type = "CHECK" => m.step = m.sstep + 1 /\ AtFrame(sWorld, m.chk, m.sstep)
    /\ Command(m) => /\ m.step \in 1 .. sStep + 1 /\ m.map <= sMap
                     /\ m.map = sMap => m.at < Place
    /\ m.type = "TOOL" => m.step = m.lstep + 1 /\ AtFrame(sWorld, m.lchk, m.lstep)
    /\ m.type = "SYNC" => /\ m.map < m.newmap /\ m.newmap <= nMaps
                          /\ m.map = sMap => \E i \in 1 .. Len(sQueue) : sQueue[i] = m

AllSent(s) == \A i \in 1 .. Len(s) : Sent(s[i])

StreamOK(c) ==
    /\ Ordered(cQueue[c], wire[c], sendq[c])
    /\ AllSent(cQueue[c]) /\ AllSent(wire[c]) /\ AllSent(sendq[c])

StreamInv == \A c \in Clients : StreamOK(c)

-----------------------------------------------------------------------------
(* StreamInv along the steps.                                              *)

LEMMA MessageNumbers ==
    ASSUME NEW m \in ToClientMsgs
    PROVE  /\ Announces(m) => m.sstep \in Nat
           /\ IsQueued(m) => m.step \in Nat /\ m.map \in Nat
           /\ Command(m) => m.at \in Nat /\ IsQueued(m)
           /\ m.type = "SYNC" => m.newmap \in Nat
           /\ m.type = "CHECK" => m.chk \in Worlds /\ m.sstep \in Nat
           /\ m.type = "TOOL" => m.lchk \in Worlds /\ m.lstep \in Nat
  BY DEF ToClientMsgs, BroadcastMsgs, TimeMsgs, CheckMsgs, ToolMsgs, SyncMsgs, ReadyMsgs, JoinMsgs,
         GameMsgs, Close, Announces, IsQueued, Command

\* every message on its way to a client is one of ToClientMsgs
LEMMA StreamTypes ==
    ASSUME IInv, NEW c \in Clients
    PROVE  /\ cQueue[c] \in Seq(ToClientMsgs) /\ wire[c] \in Seq(ToClientMsgs)
           /\ sendq[c] \in Seq(ToClientMsgs)
           /\ \A i \in 1 .. Len(cQueue[c]) : IsQueued(cQueue[c][i])
<1>1. QueuedMsgs \subseteq ToClientMsgs /\ BroadcastMsgs \subseteq ToClientMsgs
  BY DEF QueuedMsgs, ToClientMsgs, BroadcastMsgs
<1>2. \A m \in QueuedMsgs : IsQueued(m)
  BY DEF QueuedMsgs, CheckMsgs, ToolMsgs, SyncMsgs, IsQueued
<1>3. cQueue[c] \in Seq(QueuedMsgs) /\ sendq[c] \in Seq(BroadcastMsgs)
  BY LocalTypes
<1>4. \A i \in 1 .. Len(cQueue[c]) : cQueue[c][i] \in QueuedMsgs
  BY <1>3
<1>5. cQueue[c] \in Seq(ToClientMsgs) /\ sendq[c] \in Seq(ToClientMsgs)
  BY <1>1, <1>3, SeqSubset
<1> QED
  BY <1>2, <1>4, <1>5, LocalTypes

\* The world only grows; while it is not reloaded, so does the place of the next command.
LEMMA WorldGrows ==
    ASSUME IInv, SInv, LogInv, [Next]_vars
    PROVE  /\ sStep' = sStep \/ sStep' = sStep + 1
           /\ sWorld' = sWorld \/ \E x : sWorld' = Append(sWorld, x)
           /\ sMap <= sMap' /\ nMaps <= nMaps'
           /\ \/ /\ sMap' = sMap /\ Place <= Place'
                 /\ \A m : m.type = "SYNC" /\ (\E i \in 1 .. Len(sQueue) : sQueue[i] = m) =>
                              \E i \in 1 .. Len(sQueue') : sQueue'[i] = m
              \/ sMap < sMap'
<1>1. /\ sStep \in Nat /\ sMap \in Nat /\ nMaps \in Nat /\ Len(sWorld) \in Nat
      /\ sQueue \in Seq(ToolMsgs \cup SyncMsgs) /\ Len(sQueue) \in Nat /\ sWorld \in Worlds
  BY DEF IInv, ServerOK, RecordsOK, Worlds
<1>2. \A x : Len(Append(sWorld, x)) = Len(sWorld) + 1
  BY <1>1 DEF Worlds
<1> DEFINE Kept == \A m : m.type = "SYNC" /\ (\E i \in 1 .. Len(sQueue) : sQueue[i] = m) =>
                             \E i \in 1 .. Len(sQueue') : sQueue'[i] = m
<1>3. CASE UNCHANGED core
  <2>1. UNCHANGED <<sStep, sWorld, sMap, nMaps, sQueue>>
    BY <1>3 DEF core
  <2>2. Place' = Place /\ Kept
    BY <2>1 DEF Place
  <2> QED
    BY <1>1, <2>1, <2>2 DEF Place
<1>4. CASE ServerFrame
  <2>1. /\ sStep' = sStep + 1 /\ sWorld' = Append(sWorld, Frame)
        /\ UNCHANGED <<sMap, nMaps, sQueue>>
    BY <1>4 DEF ServerFrame, counters
  <2>2. Place <= Place' /\ Kept
    BY <1>1, <1>2, <2>1 DEF Place
  <2> QED
    BY <1>1, <2>1, <2>2
<1>5. ASSUME NEW m \in ToolMsgs \cup SyncMsgs, Schedules(m)
      PROVE  /\ sMap' = sMap /\ Place <= Place' /\ Kept /\ UNCHANGED <<sStep, sWorld>>
             /\ nMaps <= nMaps'
  <2>1. /\ sQueue' = Append(sQueue, m) /\ UNCHANGED <<sStep, sWorld, sMap>>
        /\ nMaps' = nMaps \/ nMaps' = nMaps + 1
    BY <1>5, ScheduleAppends DEF Schedules, ToolMsgs, SyncMsgs
  <2>2. /\ Len(sQueue') = Len(sQueue) + 1
        /\ \A i \in 1 .. Len(sQueue) : sQueue'[i] = sQueue[i]
    BY <1>1, <2>1
  <2>3. Kept
    BY <1>1, <2>2
  <2> QED
    BY <1>1, <2>1, <2>2, <2>3 DEF Place
<1>6. CASE ServerRunsTool
  <2>1. /\ Head(sQueue).type = "TOOL" /\ sWorld' = Append(sWorld, Tool(Head(sQueue).tool))
        /\ sQueue' = Tail(sQueue) /\ UNCHANGED <<sStep, sMap, nMaps>> /\ sQueue # <<>>
    BY <1>6, ServerRunsDueTool
  <2>2. /\ Len(sQueue') = Len(sQueue) - 1 /\ sQueue[1].type = "TOOL"
        /\ \A i \in 1 .. Len(sQueue') : sQueue'[i] = sQueue[i + 1]
    BY <1>1, <2>1
  <2>3. Len(sWorld') = Len(sWorld) + 1
    BY <1>2, <2>1
  <2>4. Place' = Place
    BY <1>1, <2>2, <2>3 DEF Place
  <2>5. Kept
    <3> SUFFICES ASSUME NEW i \in 1 .. Len(sQueue), sQueue[i].type = "SYNC"
                 PROVE  \E j \in 1 .. Len(sQueue') : sQueue'[j] = sQueue[i]
      OBVIOUS
    <3>1. i - 1 \in 1 .. Len(sQueue')
      BY <1>1, <2>2
    <3>2. sQueue'[i - 1] = sQueue[i]
      BY <1>1, <2>2, <3>1
    <3> QED
      BY <3>1, <3>2
  <2> QED
    BY <1>1, <2>1, <2>4, <2>5 DEF Place
<1>7. ASSUME NEW new \in Nat, Reloads(new)
      PROVE  /\ sStep' = sStep /\ sWorld' = Append(sWorld, Reload(sMap')) /\ sMap < sMap'
             /\ nMaps <= nMaps'
  <2>1. sStep' = sStep /\ sWorld' = Append(sWorld, Reload(sMap')) /\ sMap' = new
    BY <1>7 DEF Reloads, ServerReloads
  <2>2. CASE ForcedNow(new)
    BY <1>1, <2>1, <2>2 DEF ForcedNow, LogInv
  <2>3. CASE RunsSync(new)
    <3>1. Head(sQueue).map = sMap /\ 1 \in 1 .. Len(sQueue) /\ Head(sQueue) = sQueue[1]
      BY <2>3, DueCommandRuns DEF RunsSync
    <3> QED
      BY <1>1, <2>1, <2>3, <3>1 DEF RunsSync, LogInv, QueueReports
  <2> QED
    BY <1>7, <2>1, <2>2, <2>3 DEF Reloads
<1> DEFINE Grows == /\ sStep' = sStep \/ sStep' = sStep + 1
                    /\ sWorld' = sWorld \/ \E x : sWorld' = Append(sWorld, x)
                    /\ sMap <= sMap' /\ nMaps <= nMaps'
                    /\ \/ sMap' = sMap /\ Place <= Place' /\ Kept
                       \/ sMap < sMap'
<1>8. ASSUME NEW m \in ToolMsgs \cup SyncMsgs, Schedules(m) PROVE Grows
  <2>1. UNCHANGED <<sStep, sWorld, sMap>> /\ nMaps <= nMaps' /\ Place <= Place' /\ Kept
    BY <1>5, <1>8
  <2> HIDE DEF Kept
  <2> QED
    BY <1>1, <2>1
<1>9. ASSUME NEW new \in Nat, Reloads(new) PROVE Grows
  <2>1. sMap' \in Nat
    BY <1>9 DEF Reloads, ServerReloads
  <2> HIDE DEF Kept
  <2> QED
    BY <1>1, <1>7, <1>9, <2>1
<1>10. (UNCHANGED core \/ ServerFrame \/ ServerRunsTool) => Grows
  BY <1>3, <1>4, <1>6
<1> HIDE DEF Grows, Kept
<1>11. Grows
  BY <1>8, <1>9, <1>10, NextIsGlobal
<1> QED
  BY <1>11 DEF Grows, Kept

\* What was said stays true.
LEMMA SentStays ==
    ASSUME IInv, SInv, LogInv, [Next]_vars, NEW m \in ToClientMsgs, Sent(m) PROVE Sent(m)'
<1>1. /\ sStep \in Nat /\ sMap \in Nat /\ nMaps \in Nat /\ sWorld \in Worlds /\ Place \in Nat
  BY DEF IInv, ServerOK, RecordsOK, Worlds, Place
<1>2. sStep' \in Nat /\ sMap' \in Nat /\ nMaps' \in Nat /\ Place' \in Nat
  BY NextIInv DEF IInv, ServerOK, RecordsOK, Worlds, Place
<1>3. /\ sStep <= sStep' /\ sMap <= sMap' /\ nMaps <= nMaps'
      /\ sMap' = sMap => Place <= Place'
      /\ sWorld' = sWorld \/ \E x : sWorld' = Append(sWorld, x)
      /\ sMap' = sMap /\ m.type = "SYNC" /\ (\E i \in 1 .. Len(sQueue) : sQueue[i] = m) =>
            \E i \in 1 .. Len(sQueue') : sQueue'[i] = m
  BY <1>1, <1>2, WorldGrows
<1>4. \A l \in Worlds : \A k : AtFrame(sWorld, l, k) => AtFrame(sWorld', l, k)
  BY <1>1, <1>3, AtFrameAppend
<1>5. /\ Announces(m) => m.sstep \in 1 .. sStep'
      /\ Command(m) => m.step \in 1 .. sStep' + 1
  BY <1>1, <1>2, <1>3, MessageNumbers DEF Sent
<1>6. /\ m.type = "CHECK" => m.step = m.sstep + 1 /\ AtFrame(sWorld', m.chk, m.sstep)
      /\ m.type = "TOOL" => m.step = m.lstep + 1 /\ AtFrame(sWorld', m.lchk, m.lstep)
  BY <1>4, MessageNumbers DEF Sent
<1>7. Command(m) => m.map <= sMap' /\ (m.map = sMap' => m.at < Place')
  BY <1>1, <1>2, <1>3, MessageNumbers DEF Sent
<1>8. m.type = "SYNC" => m.newmap <= nMaps'
                         /\ (m.map = sMap' => \E i \in 1 .. Len(sQueue') : sQueue'[i] = m)
  <2>1. m.type = "SYNC" => m.newmap \in Nat /\ m.map \in Nat /\ Command(m)
    BY MessageNumbers DEF Command, IsQueued
  <2>2. m.type = "SYNC" => m.newmap <= nMaps /\ m.map <= sMap
    BY <2>1 DEF Sent
  <2>3. m.type = "SYNC" /\ m.map = sMap' => m.map = sMap /\ sMap' = sMap
    BY <1>1, <1>2, <1>3, <2>1, <2>2
  <2> QED
    BY <1>1, <1>2, <1>3, <2>1, <2>2, <2>3 DEF Sent
<1> QED
  BY <1>5, <1>6, <1>7, <1>8 DEF Sent

LEMMA AllSentStays ==
    ASSUME IInv, SInv, LogInv, [Next]_vars, NEW s \in Seq(ToClientMsgs), AllSent(s)
    PROVE  \A i \in 1 .. Len(s) : Sent(s[i])'
  BY SentStays DEF AllSent

\* The announcement of a new frame is later than everything sent, ...
LEMMA AnnouncementIsSent ==
    ASSUME IInv, SInv, LogInv, ServerFrame,
           NEW a \in Announcements(sStep + 1, Append(sWorld, Frame))
    PROVE  /\ a \in ToClientMsgs /\ Announces(a) /\ a.sstep = sStep + 1
           /\ Sent(a)'
           /\ \A x \in ToClientMsgs : Sent(x) => Earlier(x, a)
<1>1. sStep \in Nat /\ sWorld \in Worlds /\ sMap \in Nat /\ Append(sWorld, Frame) \in Worlds
  BY AppendWorld DEF IInv, ServerOK
<1>2. /\ a \in CheckMsgs \cup TimeMsgs /\ a.type \in {"CHECK", "STEP"}
      /\ a.sstep = sStep + 1
      /\ a.type = "CHECK" => a.step = sStep + 2 /\ a.chk = Append(sWorld, Frame)
  <2> DEFINE check == [type |-> "CHECK", step |-> (sStep + 1) + 1, map |-> sMap,
                       sstep |-> sStep + 1, chk |-> Append(sWorld, Frame)]
             bare  == [type |-> "STEP", sstep |-> sStep + 1]
  <2>1. a = check \/ a = bare
    BY DEF Announcements
  <2>2. check \in CheckMsgs /\ bare \in TimeMsgs
    BY <1>1 DEF CheckMsgs, TimeMsgs
  <2>3. (sStep + 1) + 1 = sStep + 2
    BY <1>1
  <2>4. CASE a = check
    BY <2>2, <2>3, <2>4
  <2>5. CASE a = bare
    BY <2>2, <2>5
  <2> QED
    BY <2>1, <2>4, <2>5
<1>3. sStep' = sStep + 1 /\ sWorld' = Append(sWorld, Frame)
  BY DEF ServerFrame
<1>4. AtFrame(sWorld', sWorld', sStep + 1)
  BY <1>1, <1>3, AtFrameNew DEF LogInv
<1>5. a \in ToClientMsgs
  BY <1>2 DEF ToClientMsgs, BroadcastMsgs
<1>6. Sent(a)'
  <2>1. a.type = "CHECK" => a.step = a.sstep + 1 /\ AtFrame(sWorld', a.chk, a.sstep)
    <3> SUFFICES ASSUME a.type = "CHECK"
                 PROVE  a.step = a.sstep + 1 /\ AtFrame(sWorld', a.chk, a.sstep)
      OBVIOUS
    <3>1. a.step = a.sstep + 1
      BY <1>1, <1>2
    <3>2. a.chk = sWorld' /\ a.sstep = sStep + 1
      BY <1>2, <1>3
    <3> QED
      BY <1>4, <3>1, <3>2
  <2>2. a.sstep \in 1 .. sStep'
    BY <1>1, <1>2, <1>3
  <2> QED
    BY <1>2, <2>1, <2>2 DEF Sent, Announces, Command
<1>7. ASSUME NEW x \in ToClientMsgs, Sent(x) PROVE Earlier(x, a)
  <2>1. /\ Announces(x) => x.sstep < sStep + 1
        /\ IsQueued(x) => x.step <= sStep + 2
    BY <1>1, <1>7, MessageNumbers DEF Sent, Announces, IsQueued, Command
  <2> QED
    BY <1>2, <2>1 DEF Earlier, Announces, IsQueued, Command
<1> QED
  BY <1>2, <1>5, <1>6, <1>7 DEF Announces

\* ... and so is a command that is broadcast.
LEMMA CommandIsSent ==
    ASSUME IInv, SInv, LogInv, NEW m, Schedules(m)
    PROVE  /\ m \in ToClientMsgs /\ Command(m) /\ m.step = sStep + 1 /\ m.map = sMap
           /\ Sent(m)'
           /\ \A x \in ToClientMsgs : Sent(x) => Earlier(x, m)
<1>1. sStep \in Nat /\ sMap \in Nat /\ nMaps \in Nat /\ sQueue \in Seq(ToolMsgs \cup SyncMsgs)
      /\ Len(sWorld) \in Nat /\ Len(sQueue) \in Nat
  BY DEF IInv, ServerOK, RecordsOK, Worlds
<1>2. /\ m \in ToolMsgs \cup SyncMsgs /\ m.step = sStep + 1 /\ m.map = sMap /\ m.at = Place
      /\ m.type \in {"TOOL", "SYNC"}
  BY DEF Schedules, ToolMsgs, SyncMsgs
<1>3. /\ sQueue' = Append(sQueue, m) /\ UNCHANGED <<sStep, sMap, sWorld>>
      /\ Len(sQueue') = Len(sQueue) + 1 /\ sQueue'[Len(sQueue) + 1] = m
  BY <1>1, <1>2, ScheduleAppends DEF Schedules
<1>4. m \in ToClientMsgs
  BY <1>2 DEF ToClientMsgs, BroadcastMsgs
<1>5. LogInv'
  BY LogSchedules
<1>6. m.type = "TOOL" => m.step = m.lstep + 1 /\ AtFrame(sWorld', m.lchk, m.lstep)
  BY <1>3, <1>5 DEF LogInv, QueueReports
<1>7. m.type = "SYNC" => m.map < m.newmap /\ m.newmap <= nMaps'
  BY <1>3, <1>5 DEF LogInv, QueueReports
<1>8. m.at < Place'
  BY <1>1, <1>2, <1>3 DEF Place
<1>9. Len(sQueue) + 1 \in 1 .. Len(sQueue')
  BY <1>1, <1>3
<1>10. Sent(m)'
  BY <1>1, <1>2, <1>3, <1>6, <1>7, <1>8, <1>9 DEF Sent, Announces, Command
<1>11. ASSUME NEW x \in ToClientMsgs, Sent(x) PROVE Earlier(x, m)
  <2>1. /\ Announces(x) => x.sstep < sStep + 1
        /\ IsQueued(x) => x.step <= sStep + 1
    BY <1>1, <1>11, MessageNumbers DEF Sent, Announces, IsQueued, Command
  <2>2. Command(x) => x.map <= sMap /\ (x.map = sMap => x.at < Place)
    BY <1>11 DEF Sent
  <2> QED
    BY <1>2, <2>1, <2>2 DEF Earlier, Announces, IsQueued, Command
<1> QED
  BY <1>2, <1>4, <1>10, <1>11 DEF Command

\* What keeps the streams in order.
LEMMA EmptyOrdered ==
    \A s : InOrder(<<>>) /\ Before(<<>>, s) /\ Before(s, <<>>)
  BY DEF InOrder, Before

LEMMA TailOrdered ==
    ASSUME NEW S, NEW s \in Seq(S), s # <<>>, InOrder(s), NEW t \in Seq(S)
    PROVE  /\ InOrder(Tail(s)) /\ \A j \in 1 .. Len(Tail(s)) : Earlier(Head(s), Tail(s)[j])
           /\ Before(s, t) => Before(Tail(s), t) /\ \A j \in 1 .. Len(t) : Earlier(Head(s), t[j])
           /\ Before(t, s) => Before(t, Tail(s)) /\ \A i \in 1 .. Len(t) : Earlier(t[i], Head(s))
<1>1. /\ Len(Tail(s)) = Len(s) - 1 /\ Len(s) \in Nat \ {0} /\ Head(s) = s[1]
      /\ \A i \in 1 .. Len(Tail(s)) : Tail(s)[i] = s[i + 1] /\ i + 1 \in 1 .. Len(s) /\ 1 < i + 1
  OBVIOUS
<1>2. 1 \in 1 .. Len(s)
  BY <1>1
<1>3. InOrder(Tail(s))
  BY <1>1 DEF InOrder
<1>4. \A j \in 1 .. Len(Tail(s)) : Earlier(Head(s), Tail(s)[j])
  BY <1>1, <1>2 DEF InOrder
<1>5. Before(s, t) => Before(Tail(s), t) /\ \A j \in 1 .. Len(t) : Earlier(Head(s), t[j])
  BY <1>1, <1>2 DEF Before
<1>6. Before(t, s) => Before(t, Tail(s)) /\ \A i \in 1 .. Len(t) : Earlier(t[i], Head(s))
  BY <1>1, <1>2 DEF Before
<1> QED
  BY <1>3, <1>4, <1>5, <1>6

LEMMA AppendOrdered ==
    ASSUME NEW S, NEW s \in Seq(S), NEW t \in Seq(S), NEW x
    PROVE  /\ InOrder(s) /\ (\A i \in 1 .. Len(s) : Earlier(s[i], x)) => InOrder(Append(s, x))
           /\ Before(s, t) /\ (\A j \in 1 .. Len(t) : Earlier(x, t[j])) => Before(Append(s, x), t)
           /\ Before(t, s) /\ (\A i \in 1 .. Len(t) : Earlier(t[i], x)) => Before(t, Append(s, x))
<1>1. /\ Len(Append(s, x)) = Len(s) + 1 /\ Append(s, x)[Len(s) + 1] = x /\ Len(s) \in Nat
      /\ \A i \in 1 .. Len(s) : Append(s, x)[i] = s[i]
  OBVIOUS
<1>2. \A i \in 1 .. Len(Append(s, x)) : i \in 1 .. Len(s) \/ i = Len(s) + 1
  BY <1>1
<1>3. ASSUME InOrder(s), \A i \in 1 .. Len(s) : Earlier(s[i], x) PROVE InOrder(Append(s, x))
  <2> SUFFICES ASSUME NEW i \in 1 .. Len(Append(s, x)), NEW j \in 1 .. Len(Append(s, x)), i < j
               PROVE  Earlier(Append(s, x)[i], Append(s, x)[j])
    BY DEF InOrder
  <2>1. i \in 1 .. Len(s)
    BY <1>1, <1>2
  <2> QED
    BY <1>1, <1>2, <1>3, <2>1 DEF InOrder
<1>4. ASSUME Before(s, t), \A j \in 1 .. Len(t) : Earlier(x, t[j]) PROVE Before(Append(s, x), t)
  BY <1>1, <1>2, <1>4 DEF Before
<1>5. ASSUME Before(t, s), \A i \in 1 .. Len(t) : Earlier(t[i], x) PROVE Before(t, Append(s, x))
  BY <1>1, <1>2, <1>5 DEF Before
<1> QED
  BY <1>3, <1>4, <1>5

LEMMA SentNextParts ==
    ASSUME NEW S, NEW s \in Seq(S)
    PROVE  /\ AllSent(<<>>)'
           /\ s # <<>> /\ AllSent(s)' => AllSent(Tail(s))' /\ Sent(Head(s))'
           /\ \A x : AllSent(s)' /\ Sent(x)' => AllSent(Append(s, x))'
<1>1. s # <<>> => /\ Len(Tail(s)) = Len(s) - 1 /\ Len(s) \in Nat \ {0} /\ Head(s) = s[1]
                  /\ \A i \in 1 .. Len(Tail(s)) : Tail(s)[i] = s[i + 1] /\ i + 1 \in 1 .. Len(s)
  OBVIOUS
<1>2. \A x : /\ Len(Append(s, x)) = Len(s) + 1 /\ Append(s, x)[Len(s) + 1] = x
             /\ \A i \in 1 .. Len(s) : Append(s, x)[i] = s[i]
  OBVIOUS
<1>3. Len(s) \in Nat
  OBVIOUS
<1>4. s # <<>> => 1 \in 1 .. Len(s)
  BY <1>1
<1> QED
  BY <1>1, <1>2, <1>3, <1>4 DEF AllSent

\* What is sent stays sent where it goes.
LEMMA StreamStays ==
    ASSUME IInv, SInv, LogInv, [Next]_vars, NEW c \in Clients, StreamOK(c),
           NEW q, NEW w, NEW s, q = cQueue[c], w = wire[c], s = sendq[c]
    PROVE  /\ q \in Seq(ToClientMsgs) /\ w \in Seq(ToClientMsgs) /\ s \in Seq(ToClientMsgs)
           /\ Ordered(q, w, s)
           /\ AllSent(q) /\ AllSent(w) /\ AllSent(s)
           /\ AllSent(q)' /\ AllSent(w)' /\ AllSent(s)'
<1>1. q \in Seq(ToClientMsgs) /\ w \in Seq(ToClientMsgs) /\ s \in Seq(ToClientMsgs)
  BY StreamTypes
<1>2. AllSent(q) /\ AllSent(w) /\ AllSent(s) /\ Ordered(q, w, s)
  BY DEF StreamOK
<1> QED
  BY <1>1, <1>2, AllSentStays DEF AllSent

LEMMA StreamRead ==
    ASSUME NEW q \in Seq(ToClientMsgs), NEW w \in Seq(ToClientMsgs), NEW s \in Seq(ToClientMsgs),
           Ordered(q, w, s), w # <<>>, AllSent(q)', AllSent(w)'
    PROVE  /\ Ordered(q, Tail(w), s) /\ AllSent(Tail(w))'
           /\ Ordered(Append(q, Head(w)), Tail(w), s) /\ AllSent(Append(q, Head(w)))'
           /\ \A i \in 1 .. Len(q) : Earlier(q[i], Head(w))
<1>1. Tail(w) \in Seq(ToClientMsgs)
  BY HeadTailType
<1>2. /\ InOrder(q) /\ InOrder(w) /\ InOrder(s)
      /\ Before(q, w) /\ Before(q, s) /\ Before(w, s)
  BY DEF Ordered
<1>3. /\ InOrder(Tail(w)) /\ \A j \in 1 .. Len(Tail(w)) : Earlier(Head(w), Tail(w)[j])
  BY <1>2, TailOrdered
<1>4. /\ Before(Tail(w), s) /\ \A j \in 1 .. Len(s) : Earlier(Head(w), s[j])
      /\ Before(q, Tail(w)) /\ \A i \in 1 .. Len(q) : Earlier(q[i], Head(w))
  BY <1>2, TailOrdered
<1>5. InOrder(Append(q, Head(w)))
  BY <1>2, <1>4, AppendOrdered
<1>6. Before(Append(q, Head(w)), Tail(w))
  BY <1>1, <1>3, <1>4, AppendOrdered
<1>7. Before(Append(q, Head(w)), s)
  BY <1>2, <1>4, AppendOrdered
<1>8. AllSent(Tail(w))' /\ Sent(Head(w))'
  BY SentNextParts
<1>9. AllSent(Append(q, Head(w)))'
  BY <1>8, SentNextParts
<1> QED
  BY <1>2, <1>3, <1>4, <1>5, <1>6, <1>7, <1>8, <1>9 DEF Ordered

LEMMA StreamFlush ==
    ASSUME NEW q \in Seq(ToClientMsgs), NEW w \in Seq(ToClientMsgs), NEW s \in Seq(ToClientMsgs),
           Ordered(q, w, s), s # <<>>, AllSent(w)', AllSent(s)'
    PROVE  /\ Ordered(q, w, Tail(s)) /\ AllSent(Tail(s))'
           /\ Ordered(q, Append(w, Head(s)), Tail(s)) /\ AllSent(Append(w, Head(s)))'
<1>1. Tail(s) \in Seq(ToClientMsgs)
  BY HeadTailType
<1>2. /\ InOrder(q) /\ InOrder(w) /\ InOrder(s)
      /\ Before(q, w) /\ Before(q, s) /\ Before(w, s)
  BY DEF Ordered
<1>3. /\ InOrder(Tail(s)) /\ \A j \in 1 .. Len(Tail(s)) : Earlier(Head(s), Tail(s)[j])
  BY <1>2, TailOrdered
<1>4. /\ Before(q, Tail(s)) /\ \A i \in 1 .. Len(q) : Earlier(q[i], Head(s))
  BY <1>2, TailOrdered
<1>5. /\ Before(w, Tail(s)) /\ \A i \in 1 .. Len(w) : Earlier(w[i], Head(s))
  BY <1>2, TailOrdered
<1>6. InOrder(Append(w, Head(s)))
  BY <1>2, <1>5, AppendOrdered
<1>7. Before(q, Append(w, Head(s)))
  BY <1>2, <1>4, AppendOrdered
<1>8. Before(Append(w, Head(s)), Tail(s))
  BY <1>1, <1>3, <1>5, AppendOrdered
<1>9. AllSent(Tail(s))' /\ Sent(Head(s))'
  BY SentNextParts
<1>10. AllSent(Append(w, Head(s)))'
  BY <1>9, SentNextParts
<1> QED
  BY <1>2, <1>3, <1>4, <1>5, <1>6, <1>7, <1>8, <1>9, <1>10 DEF Ordered

LEMMA StreamPush ==
    ASSUME NEW q \in Seq(ToClientMsgs), NEW w \in Seq(ToClientMsgs), NEW s \in Seq(ToClientMsgs),
           Ordered(q, w, s), AllSent(s)', NEW x, Sent(x)',
           \A i \in 1 .. Len(q) : Earlier(q[i], x), \A i \in 1 .. Len(w) : Earlier(w[i], x),
           \A i \in 1 .. Len(s) : Earlier(s[i], x)
    PROVE  Ordered(q, w, Append(s, x)) /\ AllSent(Append(s, x))'
<1>1. /\ InOrder(q) /\ InOrder(w) /\ InOrder(s)
      /\ Before(q, w) /\ Before(q, s) /\ Before(w, s)
  BY DEF Ordered
<1>2. InOrder(Append(s, x))
  BY <1>1, AppendOrdered
<1>3. Before(q, Append(s, x)) /\ Before(w, Append(s, x))
  BY <1>1, AppendOrdered
<1>4. AllSent(Append(s, x))'
  BY SentNextParts
<1> QED
  BY <1>1, <1>2, <1>3, <1>4 DEF Ordered

\* the messages that are sent directly have no place in the order
Untimed(m) == m.type \in {"READY", "JOIN", "GAME", "CLOSE"}

LEMMA StreamWrite ==
    ASSUME NEW q \in Seq(ToClientMsgs), NEW w \in Seq(ToClientMsgs), NEW s \in Seq(ToClientMsgs),
           Ordered(q, w, s), AllSent(w)', NEW x, Untimed(x)
    PROVE  /\ Ordered(q, Append(w, x), s) /\ AllSent(Append(w, x))'
<1>1. /\ InOrder(q) /\ InOrder(w) /\ InOrder(s)
      /\ Before(q, w) /\ Before(q, s) /\ Before(w, s)
  BY DEF Ordered
<1>2. \A y : Earlier(x, y) /\ Earlier(y, x)
  BY DEF Untimed, Earlier, Announces, Command, IsQueued
<1>3. InOrder(Append(w, x))
  BY <1>1, <1>2, AppendOrdered
<1>4. Before(q, Append(w, x)) /\ Before(Append(w, x), s)
  BY <1>1, <1>2, AppendOrdered
<1>5. Sent(x)'
  BY DEF Untimed, Sent, Announces, Command
<1>6. AllSent(Append(w, x))'
  BY <1>5, SentNextParts
<1> QED
  BY <1>1, <1>3, <1>4, <1>6 DEF Ordered

LEMMA StreamPop ==
    ASSUME NEW q \in Seq(ToClientMsgs), NEW w \in Seq(ToClientMsgs), NEW s \in Seq(ToClientMsgs),
           Ordered(q, w, s), AllSent(q)'
    PROVE  /\ q # <<>> => Ordered(Tail(q), w, s) /\ AllSent(Tail(q))'
           /\ Ordered(<<>>, w, s) /\ AllSent(<<>>)'
           /\ Ordered(<<>>, <<>>, s) /\ Ordered(q, <<>>, <<>>) /\ Ordered(q, w, <<>>)
<1>1. /\ InOrder(q) /\ InOrder(w) /\ InOrder(s)
      /\ Before(q, w) /\ Before(q, s) /\ Before(w, s)
  BY DEF Ordered
<1>2. q # <<>> => InOrder(Tail(q)) /\ Before(Tail(q), w) /\ Before(Tail(q), s)
  BY <1>1, TailOrdered
<1>3. AllSent(<<>>)' /\ (q # <<>> => AllSent(Tail(q))')
  BY SentNextParts
<1> QED
  BY <1>1, <1>2, <1>3, EmptyOrdered DEF Ordered

\* The values of the streams of c, before and after a step.
LEMMA StreamChange ==
    ASSUME NEW c \in Clients, NEW q, NEW w, NEW s, Ordered(q, w, s),
           AllSent(q)', AllSent(w)', AllSent(s)',
           cQueue'[c] = q, wire'[c] = w, sendq'[c] = s
    PROVE  StreamOK(c)'
  BY DEF StreamOK, AllSent

\* A message that is later than all that was sent is queued for c, if c plays.
LEMMA StreamBroadcast ==
    ASSUME IInv, SInv, LogInv, [Next]_vars, NEW c \in Clients, StreamOK(c),
           NEW q, NEW w, NEW s, q = cQueue[c], w = wire[c], s = sendq[c],
           NEW x \in ToClientMsgs, Sent(x)', \A y \in ToClientMsgs : Sent(y) => Earlier(y, x),
           sendq'[c] = Queued(c, x)
    PROVE  \E t \in Seq(ToClientMsgs) : sendq'[c] = t /\ Ordered(q, w, t) /\ AllSent(t)'
<1>1. /\ q \in Seq(ToClientMsgs) /\ w \in Seq(ToClientMsgs) /\ s \in Seq(ToClientMsgs)
      /\ Ordered(q, w, s) /\ AllSent(s)'
      /\ AllSent(q) /\ AllSent(w) /\ AllSent(s)
  BY StreamStays
<1>2. /\ \A i \in 1 .. Len(q) : Earlier(q[i], x)
      /\ \A i \in 1 .. Len(w) : Earlier(w[i], x)
      /\ \A i \in 1 .. Len(s) : Earlier(s[i], x)
  BY <1>1 DEF AllSent
<1>3. Ordered(q, w, Append(s, x)) /\ AllSent(Append(s, x))'
  BY <1>1, <1>2, StreamPush
<1>4. sendq'[c] = s \/ sendq'[c] = Append(s, x)
  BY DEF Queued
<1>5. sendq'[c] \in Seq(ToClientMsgs)
  BY <1>1, <1>4, AppendType
<1> QED
  BY <1>1, <1>3, <1>4, <1>5

LEMMA StreamFrame ==
    ASSUME IInv, SInv, LogInv, [Next]_vars, NEW c \in Clients, StreamOK(c), FrameStep(c)
    PROVE  StreamOK(c)'
<1>1. PICK q, w, s : q = cQueue[c] /\ w = wire[c] /\ s = sendq[c]
  OBVIOUS
<1>2. PICK a \in Announcements(sStep + 1, Append(sWorld, Frame)) : sendq'[c] = Queued(c, a)
  BY DEF FrameStep
<1>3. a \in ToClientMsgs /\ Sent(a)' /\ \A y \in ToClientMsgs : Sent(y) => Earlier(y, a)
  BY AnnouncementIsSent DEF FrameStep
<1>4. PICK t \in Seq(ToClientMsgs) : sendq'[c] = t /\ Ordered(q, w, t) /\ AllSent(t)'
  BY <1>1, <1>2, <1>3, StreamBroadcast
<1>5. AllSent(q)' /\ AllSent(w)'
  BY <1>1, StreamStays
<1>6. cQueue'[c] = q /\ wire'[c] = w
  BY <1>1 DEF FrameStep, Machine
<1> QED
  BY <1>4, <1>5, <1>6, StreamChange

LEMMA StreamSchedule ==
    ASSUME IInv, SInv, LogInv, [Next]_vars, NEW c \in Clients, StreamOK(c), ScheduleStep(c)
    PROVE  StreamOK(c)'
<1>1. PICK q, w, s : q = cQueue[c] /\ w = wire[c] /\ s = sendq[c]
  OBVIOUS
<1>2. PICK m : /\ Schedules(m) /\ sendq'[c] = Queued(c, m)
               /\ \/ wire'[c] = wire[c]
                  \/ wire'[c] = Written(c, <<[type |-> "JOIN", answer |-> TRUE,
                                              newmap |-> m.newmap]>>)
  BY DEF ScheduleStep
<1>3. m \in ToClientMsgs /\ Sent(m)' /\ \A y \in ToClientMsgs : Sent(y) => Earlier(y, m)
  BY <1>2, CommandIsSent
<1>4. PICK t \in Seq(ToClientMsgs) : sendq'[c] = t /\ Ordered(q, w, t) /\ AllSent(t)'
  BY <1>1, <1>2, <1>3, StreamBroadcast
<1>5. AllSent(q)' /\ AllSent(w)' /\ q \in Seq(ToClientMsgs) /\ w \in Seq(ToClientMsgs)
  BY <1>1, StreamStays
<1>6. cQueue'[c] = q
  BY <1>1 DEF ScheduleStep, Machine
<1> DEFINE j == [type |-> "JOIN", answer |-> TRUE, newmap |-> m.newmap]
<1>7. Untimed(j)
  BY DEF Untimed
<1>8. wire'[c] = w \/ wire'[c] = w \o <<j>>
  BY <1>1, <1>2 DEF Written
<1> HIDE DEF j
<1>9. w \o <<j>> = Append(w, j)
  BY <1>5
<1>10. Ordered(q, Append(w, j), t) /\ AllSent(Append(w, j))'
  BY <1>4, <1>5, <1>7, StreamWrite
<1> QED
  BY <1>4, <1>5, <1>6, <1>8, <1>9, <1>10, StreamChange

\* What changes nothing but what the server writes directly.
LEMMA StreamDirect ==
    ASSUME IInv, SInv, LogInv, [Next]_vars, NEW c \in Clients, StreamOK(c),
           UNCHANGED <<cQueue[c], sendq[c]>>,
           \/ wire'[c] = wire[c]
           \/ \E x : Untimed(x) /\ wire'[c] = Append(wire[c], x)
           \/ \E x, y : Untimed(x) /\ Untimed(y) /\ wire'[c] = Append(Append(wire[c], x), y)
                       /\ x \in ToClientMsgs
    PROVE  StreamOK(c)'
<1>1. PICK q, w, s : q = cQueue[c] /\ w = wire[c] /\ s = sendq[c]
  OBVIOUS
<1>2. /\ q \in Seq(ToClientMsgs) /\ w \in Seq(ToClientMsgs) /\ s \in Seq(ToClientMsgs)
      /\ Ordered(q, w, s) /\ AllSent(q)' /\ AllSent(w)' /\ AllSent(s)'
  BY <1>1, StreamStays
<1>3. cQueue'[c] = q /\ sendq'[c] = s
  BY <1>1
<1>4. CASE wire'[c] = wire[c]
  BY <1>1, <1>2, <1>3, <1>4, StreamChange
<1>5. ASSUME NEW x, Untimed(x), wire'[c] = Append(wire[c], x) PROVE StreamOK(c)'
  <2>1. Ordered(q, Append(w, x), s) /\ AllSent(Append(w, x))'
    BY <1>2, <1>5, StreamWrite
  <2> QED
    BY <1>1, <1>2, <1>3, <1>5, <2>1, StreamChange
<1>6. ASSUME NEW x \in ToClientMsgs, NEW y, Untimed(x), Untimed(y),
             wire'[c] = Append(Append(wire[c], x), y)
      PROVE  StreamOK(c)'
  <2>1. Ordered(q, Append(w, x), s) /\ AllSent(Append(w, x))' /\ Append(w, x) \in Seq(ToClientMsgs)
    BY <1>2, <1>6, StreamWrite, AppendType
  <2>2. Ordered(q, Append(Append(w, x), y), s) /\ AllSent(Append(Append(w, x), y))'
    BY <1>2, <1>6, <2>1, StreamWrite
  <2> QED
    BY <1>1, <1>2, <1>3, <1>6, <2>2, StreamChange
<1> QED
  BY <1>4, <1>5, <1>6

\* When the slot is closed, or the client ends, or connects, streams are emptied.
LEMMA StreamCut ==
    ASSUME IInv, SInv, LogInv, [Next]_vars, NEW c \in Clients, StreamOK(c),
           \/ cQueue'[c] = cQueue[c] /\ sendq'[c] = <<>> /\ wire'[c] \in {<<>>, Append(wire[c], Close)}
           \/ cQueue'[c] = <<>> /\ sendq'[c] = sendq[c] /\ wire'[c] = <<>>
           \/ cQueue'[c] = cQueue[c] /\ sendq'[c] = <<>> /\ wire'[c] = <<>>
           \/ cQueue'[c] = <<>> /\ sendq'[c] = sendq[c] /\ wire'[c] = wire[c]
    PROVE  StreamOK(c)'
<1>1. PICK q, w, s : q = cQueue[c] /\ w = wire[c] /\ s = sendq[c]
  OBVIOUS
<1>2. /\ q \in Seq(ToClientMsgs) /\ w \in Seq(ToClientMsgs) /\ s \in Seq(ToClientMsgs)
      /\ Ordered(q, w, s) /\ AllSent(q)' /\ AllSent(w)' /\ AllSent(s)'
  BY <1>1, StreamStays
<1>3. Ordered(<<>>, w, s) /\ Ordered(<<>>, <<>>, s) /\ Ordered(q, <<>>, <<>>) /\ Ordered(q, w, <<>>)
      /\ AllSent(<<>>)'
  BY <1>2, StreamPop
<1>4. Untimed(Close) /\ <<>> \in Seq(ToClientMsgs)
  BY DEF Untimed, Close
<1>5. Ordered(q, Append(w, Close), <<>>) /\ AllSent(Append(w, Close))'
  BY <1>2, <1>3, <1>4, StreamWrite
<1>6. \/ cQueue'[c] = q /\ sendq'[c] = <<>> /\ (wire'[c] = <<>> \/ wire'[c] = Append(w, Close))
      \/ cQueue'[c] = <<>> /\ sendq'[c] = s /\ wire'[c] = <<>>
      \/ cQueue'[c] = <<>> /\ sendq'[c] = s /\ wire'[c] = w
  BY <1>1
<1> QED
  BY <1>2, <1>3, <1>5, <1>6, StreamChange

LEMMA StreamReload ==
    ASSUME IInv, SInv, LogInv, [Next]_vars, NEW c \in Clients, StreamOK(c), ReloadStep(c)
    PROVE  StreamOK(c)'
<1>1. cQueue'[c] = cQueue[c] /\ wire[c] \in Seq(ToClientMsgs)
  BY StreamTypes DEF ReloadStep, Machine
<1>2. PICK new \in Nat :
         \/ UNCHANGED <<sendq[c], wire[c]>>
         \/ CutOff(c, "left")
         \/ \E ms \in GameReplies(GameMsg(new), ReadyMsg(new)) :
               wire'[c] = Written(c, ms) /\ sendq'[c] = sendq[c]
  BY DEF ReloadStep, Slot
<1>3. CASE UNCHANGED <<sendq[c], wire[c]>>
  BY <1>1, <1>3, StreamDirect
<1>4. CASE CutOff(c, "left")
  <2>1. sendq'[c] = <<>> /\ wire'[c] \in {<<>>, Append(wire[c], Close)}
    BY <1>4 DEF CutOff
  <2> QED
    BY <1>1, <2>1, StreamCut
<1>5. ASSUME NEW ms \in GameReplies(GameMsg(new), ReadyMsg(new)), wire'[c] = Written(c, ms),
             sendq'[c] = sendq[c]
      PROVE  StreamOK(c)'
  <2> DEFINE g == GameMsg(new)
             r == ReadyMsg(new)
  <2>1. g \in ToClientMsgs /\ r \in ToClientMsgs /\ Untimed(g) /\ Untimed(r)
    BY GameTypes DEF Untimed
  <2>2. ms \in {<<g, r>>, <<g>>, <<r>>, <<>>}
    BY <1>5 DEF GameReplies
  <2>3. wire'[c] = wire[c] \/ wire'[c] = wire[c] \o ms
    BY <1>5 DEF Written
  <2> HIDE DEF g, r
  <2>4. /\ wire[c] \o <<g, r>> = Append(Append(wire[c], g), r)
        /\ wire[c] \o <<g>> = Append(wire[c], g)
        /\ wire[c] \o <<r>> = Append(wire[c], r)
        /\ wire[c] \o <<>> = wire[c]
    BY <1>1, <2>1
  <2>5. \/ wire'[c] = wire[c]
        \/ wire'[c] = Append(wire[c], g) \/ wire'[c] = Append(wire[c], r)
        \/ wire'[c] = Append(Append(wire[c], g), r)
    BY <2>2, <2>3, <2>4
  <2> QED
    BY <1>1, <1>5, <2>1, <2>5, StreamDirect
<1> QED
  BY <1>2, <1>3, <1>4, <1>5

LEMMA StreamAnswer ==
    ASSUME IInv, SInv, LogInv, [Next]_vars, NEW c \in Clients, StreamOK(c), AnswerStep(c)
    PROVE  StreamOK(c)'
<1>1. cQueue'[c] = cQueue[c] /\ sendq'[c] = sendq[c] /\ wire[c] \in Seq(ToClientMsgs)
  BY StreamTypes DEF AnswerStep, Machine
<1> DEFINE j == [type |-> "JOIN", answer |-> FALSE, newmap |-> 0]
<1>2. Untimed(j)
  BY DEF Untimed
<1>3. \/ wire'[c] = wire[c] \/ wire'[c] = Written(c, <<j>>)
      \/ wire'[c] = Written(c, <<Head(up[c])>>) /\ Head(up[c]).type = "READY"
  BY DEF AnswerStep
<1> HIDE DEF j
<1>4. \A x : wire[c] \o <<x>> = Append(wire[c], x)
  BY <1>1
<1>5. \/ wire'[c] = wire[c] \/ wire'[c] = Append(wire[c], j)
      \/ wire'[c] = Append(wire[c], Head(up[c])) /\ Untimed(Head(up[c]))
  BY <1>3, <1>4 DEF Written, Untimed
<1> QED
  BY <1>1, <1>2, <1>5, StreamDirect

LEMMA StreamServerSide ==
    ASSUME IInv, SInv, LogInv, SlotInv, [Next]_vars, NEW c \in Clients, StreamOK(c), ServerSide(c)
    PROVE  StreamOK(c)'
<1>1. cQueue'[c] = cQueue[c]
  BY ServerSideKeepsMachine DEF Machine
<1>2. CASE RunStep(c)
  BY <1>2, StreamDirect DEF RunStep, Machine, Slot
<1>3. CASE CutStep(c)
  <2>1. sendq'[c] = <<>> /\ wire'[c] \in {<<>>, Append(wire[c], Close)}
    BY <1>3 DEF CutStep, CutOff
  <2> QED
    BY <1>1, <2>1, StreamCut
<1>4. CASE FlushStep(c)
  <2>1. PICK q, w, s : q = cQueue[c] /\ w = wire[c] /\ s = sendq[c]
    OBVIOUS
  <2>2. /\ q \in Seq(ToClientMsgs) /\ w \in Seq(ToClientMsgs) /\ s \in Seq(ToClientMsgs)
        /\ Ordered(q, w, s) /\ AllSent(q)' /\ AllSent(w)' /\ AllSent(s)'
    BY <2>1, StreamStays
  <2>3. s # <<>> /\ sendq'[c] = Tail(s) /\ (wire'[c] = w \/ wire'[c] = w \o <<Head(s)>>)
    BY <1>4, <2>1 DEF FlushStep, Written
  <2>4. w \o <<Head(s)>> = Append(w, Head(s))
    BY <2>2, <2>3
  <2>5. /\ Ordered(q, w, Tail(s)) /\ AllSent(Tail(s))'
        /\ Ordered(q, Append(w, Head(s)), Tail(s)) /\ AllSent(Append(w, Head(s)))'
    BY <2>2, <2>3, StreamFlush
  <2>6. cQueue'[c] = q
    BY <1>1, <2>1
  <2> QED
    BY <2>2, <2>3, <2>4, <2>5, <2>6, StreamChange
<1> QED
  BY <1>2, <1>3, <1>4, StreamFrame, StreamSchedule, StreamReload, StreamAnswer DEF ServerSide

\* A client that queues what it reads puts it behind what it has.
LEMMA ReadIsAppend ==
    ASSUME IInv, NEW c \in Clients, StreamOK(c), wire[c] # <<>>, IsQueued(Head(wire[c]))
    PROVE  Insert(cQueue[c], Head(wire[c])) = Append(cQueue[c], Head(wire[c]))
<1>1. wire[c] \in Seq(ToClientMsgs) /\ cQueue[c] \in Seq(QueuedMsgs)
      /\ 1 \in 1 .. Len(wire[c]) /\ Head(wire[c]) = wire[c][1]
  BY LocalTypes
<1>2. Head(wire[c]) \in QueuedMsgs
  BY <1>1, MessageTypes DEF IsQueued, QueuedMsgs
<1>3. \A x \in QueuedMsgs : x.step \in Nat /\ IsQueued(x)
  BY DEF QueuedMsgs, CheckMsgs, ToolMsgs, SyncMsgs, IsQueued
<1>4. \A i \in 1 .. Len(cQueue[c]) : cQueue[c][i] \in QueuedMsgs
  BY <1>1
<1>5. \A i \in 1 .. Len(cQueue[c]) : cQueue[c][i].step <= Head(wire[c]).step
  BY <1>1, <1>3, <1>4 DEF StreamOK, Ordered, Before, Earlier
<1> QED
  BY <1>1, <1>2, <1>3, <1>5, InsertIsAppend

LEMMA StreamReads ==
    ASSUME IInv, SInv, LogInv, [Next]_vars, NEW c \in Clients, StreamOK(c), ReadStep(c)
    PROVE  StreamOK(c)'
<1>1. PICK q, w, s : q = cQueue[c] /\ w = wire[c] /\ s = sendq[c]
  OBVIOUS
<1>2. /\ q \in Seq(ToClientMsgs) /\ w \in Seq(ToClientMsgs) /\ s \in Seq(ToClientMsgs)
      /\ Ordered(q, w, s) /\ AllSent(q)' /\ AllSent(w)' /\ AllSent(s)'
  BY <1>1, StreamStays
<1>3. w # <<>> /\ wire'[c] = Tail(w) /\ sendq'[c] = s
  BY <1>1 DEF ReadStep, Slot
<1>4. cQueue'[c] = q \/ cQueue'[c] = <<>> \/ cQueue'[c] = Append(q, Head(w))
  <2>1. IsQueued(Head(w)) => Insert(q, Head(w)) = Append(q, Head(w))
    BY <1>1, <1>3, ReadIsAppend
  <2>2. CASE TimeRead(c) \/ CommandQueued(c)
    BY <1>1, <2>1, <2>2 DEF TimeRead, CommandQueued, ClientReads, IsQueued
  <2>3. CASE Accepted(c) \/ Skipped(c) \/ Loaded(c) \/ Unpaused(c)
    BY <1>1, <2>3 DEF Accepted, Skipped, Loaded, Unpaused, Machine
  <2> QED
    BY <2>2, <2>3 DEF ReadStep
<1>5. /\ Ordered(q, Tail(w), s) /\ AllSent(Tail(w))'
      /\ Ordered(Append(q, Head(w)), Tail(w), s) /\ AllSent(Append(q, Head(w)))'
  BY <1>2, <1>3, StreamRead
<1>6. Tail(w) \in Seq(ToClientMsgs)
  BY <1>2, <1>3, HeadTailType
<1>7. Ordered(<<>>, Tail(w), s) /\ AllSent(<<>>)'
  BY <1>2, <1>5, <1>6, StreamPop
<1> QED
  BY <1>2, <1>3, <1>4, <1>5, <1>7, StreamChange

LEMMA StreamClientSide ==
    ASSUME IInv, SInv, LogInv, SlotInv, [Next]_vars, NEW c \in Clients, StreamOK(c), ClientSide(c)
    PROVE  StreamOK(c)'
<1>1. CASE ConnectStep(c)
  BY <1>1, StreamCut DEF ConnectStep
<1>2. CASE GoneStep(c)
  BY <1>2, StreamCut DEF GoneStep
<1>3. CASE PopStep(c)
  <2>1. PICK q, w, s : q = cQueue[c] /\ w = wire[c] /\ s = sendq[c]
    OBVIOUS
  <2>2. /\ q \in Seq(ToClientMsgs) /\ w \in Seq(ToClientMsgs) /\ s \in Seq(ToClientMsgs)
        /\ Ordered(q, w, s) /\ AllSent(q)' /\ AllSent(w)' /\ AllSent(s)'
    BY <2>1, StreamStays
  <2>3. q # <<>> /\ cQueue'[c] = Tail(q) /\ wire'[c] = w /\ sendq'[c] = s
    BY <1>3, <2>1 DEF PopStep, HasDue, Slot
  <2>4. Ordered(Tail(q), w, s) /\ AllSent(Tail(q))'
    BY <2>2, <2>3, StreamPop
  <2> QED
    BY <2>2, <2>3, <2>4, StreamChange
<1>4. CASE SyncStep(c)
  BY <1>4, StreamCut DEF SyncStep
<1>5. CASE AdvanceStep(c)
  BY <1>5, StreamDirect DEF AdvanceStep, Slot
<1>6. CASE RequestStep(c)
  BY <1>6, StreamDirect DEF RequestStep, Machine
<1> QED
  BY <1>1, <1>2, <1>3, <1>4, <1>5, <1>6, StreamReads DEF ClientSide

LEMMA NextStreamInv == IInv /\ SInv /\ LogInv /\ SlotInv /\ StreamInv /\ [Next]_vars => StreamInv'
<1> SUFFICES ASSUME IInv, SInv, LogInv, SlotInv, StreamInv, [Next]_vars, NEW c \in Clients
             PROVE  StreamOK(c)'
  BY DEF StreamInv
<1>1. StreamOK(c) /\ LocalStep(c)
  BY NextIsLocal DEF StreamInv
<1>2. CASE RestStep(c)
  BY <1>1, <1>2, StreamDirect DEF RestStep, Machine, Slot
<1> QED
  BY <1>1, <1>2, StreamServerSide, StreamClientSide DEF LocalStep

LEMMA InitStreamInv == Init => StreamInv
  BY EmptyOrdered DEF Init, StreamInv, StreamOK, Ordered, AllSent

-----------------------------------------------------------------------------
(* Joining.                                                                *)

Accepts(m) == m.type = "JOIN" /\ m.answer

\* the client waits for the game, or plays, when it has read the wire w up to i
Reached(w, mode, i) == mode \in {"waiting", "playing"} \/ \E j \in 1 .. i - 1 : Accepts(w[j])

\* a game comes that the client will take
GameComes(w, mode) == \E i \in 1 .. Len(w) : w[i].type = "GAME" /\ Reached(w, mode, i)

\* such a game is the only one, and an NWC_READY comes only right behind it
GamesAlone(w, mode) ==
    \A i \in 1 .. Len(w) : w[i].type = "GAME" /\ Reached(w, mode, i) =>
        \A j \in i + 1 .. Len(w) : w[j].type # "GAME" /\ (w[j].type = "READY" => j = i + 1)

\* an nwc_sync_t is queued that will send c the game
SyncFor(c) == \E i \in 1 .. Len(sQueue) : sQueue[i].type = "SYNC" /\ sQueue[i].who = c

JoinOK(c) ==
    /\ \A i \in 1 .. Len(up[c]) : up[c][i].type = "JOIN" =>
          /\ i = 1 /\ cMode[c] \in {"out", "joining"}
          /\ \A j \in 1 .. Len(wire[c]) : ~Accepts(wire[c][j])
    /\ cMode[c] = "playing" \/ GameComes(wire[c], cMode[c]) => ~SyncFor(c)
    /\ GamesAlone(wire[c], cMode[c])
    /\ cMode[c] = "playing" => ~Has(wire[c], {"GAME"})
    /\ cMode[c] \in {"joining", "waiting"} => ~Has(up[c], {"READY"})

JoinInv == \A c \in Clients : JoinOK(c)

-----------------------------------------------------------------------------
(* JoinInv along the steps.                                                *)

\* what a message at the end does to the games on a wire
LEMMA GamesWrite ==
    ASSUME NEW S, NEW w \in Seq(S), NEW mode, NEW x
    PROVE  /\ x.type # "GAME" /\ GameComes(Append(w, x), mode) => GameComes(w, mode)
           /\ x.type \notin {"GAME", "READY"} /\ GamesAlone(w, mode) => GamesAlone(Append(w, x), mode)
           /\ ~GameComes(w, mode) => GamesAlone(Append(w, x), mode)
           /\ ~GameComes(w, mode) => \A y : y.type # "GAME" => GamesAlone(Append(Append(w, x), y), mode)
<1>1. /\ Len(Append(w, x)) = Len(w) + 1 /\ Append(w, x)[Len(w) + 1] = x /\ Len(w) \in Nat
      /\ \A i \in 1 .. Len(w) : Append(w, x)[i] = w[i]
  OBVIOUS
<1>2. \A i \in 1 .. Len(w) + 1 : i \in 1 .. Len(w) \/ i = Len(w) + 1
  BY <1>1
<1>3. \A i \in 1 .. Len(w) + 1 : Reached(Append(w, x), mode, i) <=> Reached(w, mode, i)
  BY <1>1 DEF Reached
<1>4. ASSUME x.type # "GAME", GameComes(Append(w, x), mode) PROVE GameComes(w, mode)
  BY <1>1, <1>2, <1>3, <1>4 DEF GameComes
<1>5. ASSUME x.type \notin {"GAME", "READY"}, GamesAlone(w, mode)
      PROVE  GamesAlone(Append(w, x), mode)
  <2> SUFFICES ASSUME NEW i \in 1 .. Len(Append(w, x)), Append(w, x)[i].type = "GAME",
                      Reached(Append(w, x), mode, i), NEW j \in i + 1 .. Len(Append(w, x))
               PROVE  Append(w, x)[j].type # "GAME" /\ (Append(w, x)[j].type = "READY" => j = i + 1)
    BY DEF GamesAlone
  <2>1. i \in 1 .. Len(w) /\ w[i].type = "GAME" /\ Reached(w, mode, i)
    BY <1>1, <1>2, <1>3, <1>5
  <2>2. CASE j \in 1 .. Len(w)
    <3>1. j \in i + 1 .. Len(w)
      BY <1>1, <2>2
    <3> QED
      BY <1>1, <1>5, <2>1, <2>2, <3>1 DEF GamesAlone
  <2>3. CASE j = Len(w) + 1
    BY <1>1, <1>5, <2>3
  <2> QED
    BY <1>1, <2>2, <2>3
<1>6. ASSUME ~GameComes(w, mode) PROVE GamesAlone(Append(w, x), mode)
  <2>1. ASSUME NEW i \in 1 .. Len(Append(w, x)), Append(w, x)[i].type = "GAME",
               Reached(Append(w, x), mode, i)
        PROVE  i = Len(w) + 1
    BY <1>1, <1>2, <1>3, <1>6, <2>1 DEF GameComes
  <2> QED
    BY <1>1, <2>1 DEF GamesAlone
<1>7. ASSUME ~GameComes(w, mode), NEW y, y.type # "GAME"
      PROVE  GamesAlone(Append(Append(w, x), y), mode)
  <2> DEFINE v == Append(w, x)
             u == Append(v, y)
  <2>1. /\ Len(u) = Len(w) + 2 /\ u[Len(w) + 1] = x /\ u[Len(w) + 2] = y
        /\ \A i \in 1 .. Len(w) : u[i] = w[i]
    <3>1. v \in Seq(S \cup {x})
      OBVIOUS
    <3> HIDE DEF v
    <3>2. /\ Len(u) = Len(v) + 1 /\ u[Len(v) + 1] = y
          /\ \A i \in 1 .. Len(v) : u[i] = v[i]
      BY <3>1
    <3> QED
      BY <1>1, <3>2 DEF v
  <2> HIDE DEF u
  <2>2. \A i \in 1 .. Len(w) + 1 : Reached(u, mode, i) <=> Reached(w, mode, i)
    BY <1>1, <2>1 DEF Reached
  <2>3. ASSUME NEW i \in 1 .. Len(u), u[i].type = "GAME", Reached(u, mode, i)
        PROVE  i = Len(w) + 1
    <3>1. CASE i \in 1 .. Len(w)
      BY <1>1, <1>7, <2>1, <2>2, <2>3, <3>1 DEF GameComes
    <3>2. CASE i = Len(w) + 2
      BY <1>7, <2>1, <2>3, <3>2
    <3> QED
      BY <1>1, <2>1, <3>1, <3>2
  <2>4. GamesAlone(u, mode)
    <3> SUFFICES ASSUME NEW i \in 1 .. Len(u), u[i].type = "GAME", Reached(u, mode, i),
                        NEW j \in i + 1 .. Len(u)
                 PROVE  u[j].type # "GAME" /\ (u[j].type = "READY" => j = i + 1)
      BY DEF GamesAlone
    <3>1. i = Len(w) + 1
      BY <2>3
    <3>2. j = Len(w) + 2
      BY <1>1, <2>1, <3>1
    <3> QED
      BY <1>1, <1>7, <2>1, <3>1, <3>2
  <2> QED
    BY <2>4 DEF u
<1> QED
  BY <1>4, <1>5, <1>6, <1>7

\* and what reading does to them
LEMMA GamesRead ==
    ASSUME NEW S, NEW w \in Seq(S), w # <<>>, NEW mode, NEW next,
           next = mode \/ Accepts(Head(w)) \/ mode \in {"waiting", "playing"}
    PROVE  /\ GameComes(Tail(w), next) => GameComes(w, mode)
           /\ GamesAlone(w, mode) => GamesAlone(Tail(w), next)
           /\ Head(w).type = "GAME" /\ mode = "waiting" =>
                 /\ GameComes(w, mode)
                 /\ GamesAlone(w, mode) =>
                       /\ ~Has(Tail(w), {"GAME"})
                       /\ \A j \in 1 .. Len(Tail(w)) : Tail(w)[j].type = "READY" => j = 1
<1>1. /\ Len(Tail(w)) = Len(w) - 1 /\ Len(w) \in Nat \ {0} /\ Head(w) = w[1]
      /\ \A i \in 1 .. Len(Tail(w)) : Tail(w)[i] = w[i + 1] /\ i + 1 \in 1 .. Len(w)
  OBVIOUS
<1>2. ASSUME NEW i \in 1 .. Len(Tail(w)), Reached(Tail(w), next, i) PROVE Reached(w, mode, i + 1)
  <2>1. CASE \E j \in 1 .. i - 1 : Accepts(Tail(w)[j])
    <3>1. PICK j \in 1 .. i - 1 : Accepts(Tail(w)[j])
      BY <2>1
    <3>2. j + 1 \in 1 .. (i + 1) - 1 /\ Tail(w)[j] = w[j + 1]
      BY <1>1
    <3> QED
      BY <3>1, <3>2 DEF Reached
  <2>2. CASE Accepts(Head(w))
    <3>1. 1 \in 1 .. (i + 1) - 1
      OBVIOUS
    <3> QED
      BY <1>1, <2>2, <3>1 DEF Reached
  <2> QED
    BY <1>2, <2>1, <2>2 DEF Reached
<1>3. ASSUME GameComes(Tail(w), next) PROVE GameComes(w, mode)
  <2>1. PICK i \in 1 .. Len(Tail(w)) : Tail(w)[i].type = "GAME" /\ Reached(Tail(w), next, i)
    BY <1>3 DEF GameComes
  <2> QED
    BY <1>1, <1>2, <2>1 DEF GameComes
<1>4. ASSUME GamesAlone(w, mode) PROVE GamesAlone(Tail(w), next)
  <2> SUFFICES ASSUME NEW i \in 1 .. Len(Tail(w)), Tail(w)[i].type = "GAME",
                      Reached(Tail(w), next, i), NEW j \in i + 1 .. Len(Tail(w))
               PROVE  Tail(w)[j].type # "GAME" /\ (Tail(w)[j].type = "READY" => j = i + 1)
    BY DEF GamesAlone
  <2>1. i + 1 \in 1 .. Len(w) /\ w[i + 1].type = "GAME" /\ Reached(w, mode, i + 1)
    BY <1>1, <1>2
  <2>2. j + 1 \in (i + 1) + 1 .. Len(w) /\ Tail(w)[j] = w[j + 1]
    BY <1>1
  <2>3. w[j + 1].type # "GAME" /\ (w[j + 1].type = "READY" => j + 1 = (i + 1) + 1)
    BY <1>4, <2>1, <2>2 DEF GamesAlone
  <2> QED
    BY <2>2, <2>3
<1>5. ASSUME Head(w).type = "GAME", mode = "waiting"
      PROVE  /\ GameComes(w, mode)
             /\ GamesAlone(w, mode) =>
                   /\ ~Has(Tail(w), {"GAME"})
                   /\ \A j \in 1 .. Len(Tail(w)) : Tail(w)[j].type = "READY" => j = 1
  <2>1. 1 \in 1 .. Len(w) /\ w[1].type = "GAME" /\ Reached(w, mode, 1)
    BY <1>1, <1>5 DEF Reached
  <2>2. ASSUME GamesAlone(w, mode), NEW j \in 1 .. Len(Tail(w))
        PROVE  Tail(w)[j].type # "GAME" /\ (Tail(w)[j].type = "READY" => j = 1)
    <3>1. j + 1 \in 1 + 1 .. Len(w) /\ Tail(w)[j] = w[j + 1]
      BY <1>1
    <3>2. w[j + 1].type # "GAME" /\ (w[j + 1].type = "READY" => j + 1 = 1 + 1)
      BY <2>1, <2>2, <3>1 DEF GamesAlone
    <3> QED
      BY <3>1, <3>2
  <2> QED
    BY <2>1, <2>2 DEF GameComes, Has
<1> QED
  BY <1>3, <1>4, <1>5

\* An nwc_sync_t for c comes into the queue when c is accepted, and none survives a reload.
LEMMA SyncForSteps ==
    ASSUME IInv, SInv, LogInv, NEW c \in Clients
    PROVE  /\ UNCHANGED core => (SyncFor(c)' => SyncFor(c))
           /\ ServerFrame \/ ServerRunsTool => (SyncFor(c)' => SyncFor(c))
           /\ \A m : Schedules(m) /\ (m.type = "SYNC" => m.who # c) => (SyncFor(c)' => SyncFor(c))
           /\ \A new : Reloads(new) => ~SyncFor(c)'
           /\ \A new : RunsSync(new) /\ Head(sQueue).who = c => SyncFor(c)
<1>1. sQueue \in Seq(ToolMsgs \cup SyncMsgs) /\ Len(sQueue) \in Nat
  BY DEF IInv, ServerOK
<1>2. UNCHANGED core => (SyncFor(c)' => SyncFor(c))
  BY DEF core, SyncFor
<1>3. ServerFrame => (SyncFor(c)' => SyncFor(c))
  BY DEF ServerFrame, SyncFor
<1>4. ASSUME ServerRunsTool, SyncFor(c)' PROVE SyncFor(c)
  <2>1. sQueue' = Tail(sQueue) /\ sQueue # <<>>
    BY <1>4, ServerRunsDueTool
  <2>2. \A i \in 1 .. Len(sQueue') : sQueue'[i] = sQueue[i + 1] /\ i + 1 \in 1 .. Len(sQueue)
    BY <1>1, <2>1
  <2> QED
    BY <1>4, <2>2 DEF SyncFor
<1>5. ASSUME NEW m, Schedules(m), m.type = "SYNC" => m.who # c, SyncFor(c)' PROVE SyncFor(c)
  <2>1. sQueue' = Append(sQueue, m)
    BY <1>5, ScheduleAppends
  <2>2. /\ Len(sQueue') = Len(sQueue) + 1 /\ sQueue'[Len(sQueue) + 1] = m
        /\ \A i \in 1 .. Len(sQueue) : sQueue'[i] = sQueue[i]
    BY <1>1, <2>1
  <2>3. PICK i \in 1 .. Len(sQueue') : sQueue'[i].type = "SYNC" /\ sQueue'[i].who = c
    BY <1>5 DEF SyncFor
  <2>4. i \in 1 .. Len(sQueue)
    BY <1>1, <1>5, <2>2, <2>3
  <2> QED
    BY <2>2, <2>3, <2>4 DEF SyncFor
<1>6. \A new : Reloads(new) => ~SyncFor(c)'
  BY DEF Reloads, ServerReloads, SyncFor
<1>7. ASSUME NEW new, RunsSync(new), Head(sQueue).who = c PROVE SyncFor(c)
  <2>1. Head(sQueue) = sQueue[1] /\ 1 \in 1 .. Len(sQueue)
    BY <1>1, <1>7 DEF RunsSync, HasDue
  <2> QED
    BY <1>7, <2>1 DEF RunsSync, SyncFor
<1> QED
  BY <1>2, <1>3, <1>4, <1>5, <1>6, <1>7

\* What leaves the wire alone, or writes a message that is no game and no NWC_READY.
LEMMA JoinQuiet ==
    ASSUME IInv, NEW c \in Clients, JoinOK(c), cMode'[c] = cMode[c],
           SyncFor(c)' => SyncFor(c),
           \/ up'[c] = up[c]
           \/ up[c] # <<>> /\ up'[c] = Tail(up[c])
           \/ up'[c] = <<>>
           \/ cMode[c] = "playing" /\ \E m : m.type # "JOIN" /\ up'[c] = Append(up[c], m),
           \/ wire'[c] = wire[c]
           \/ wire'[c] = <<>>
           \/ \E x : x.type \notin {"GAME", "READY"} /\ ~Accepts(x) /\ wire'[c] = Append(wire[c], x)
    PROVE  JoinOK(c)'
<1> USE LocalTypes
<1>1. \A i \in 1 .. Len(up'[c]) : up'[c][i].type = "JOIN" =>
          /\ i = 1 /\ cMode[c] \in {"out", "joining"}
          /\ \A j \in 1 .. Len(wire[c]) : ~Accepts(wire[c][j])
  <2>1. CASE up[c] # <<>> /\ up'[c] = Tail(up[c])
    <3>1. \A i \in 1 .. Len(up'[c]) : up'[c][i] = up[c][i + 1] /\ i + 1 \in 1 .. Len(up[c]) /\ i + 1 # 1
      BY <2>1
    <3> QED
      BY <3>1 DEF JoinOK
  <2>2. ASSUME cMode[c] = "playing", NEW m, m.type # "JOIN", up'[c] = Append(up[c], m)
        PROVE  \A i \in 1 .. Len(up'[c]) : up'[c][i].type # "JOIN"
    <3>1. /\ Len(up'[c]) = Len(up[c]) + 1 /\ up'[c][Len(up[c]) + 1] = m
          /\ \A i \in 1 .. Len(up[c]) : up'[c][i] = up[c][i]
      BY <2>2
    <3> QED
      BY <2>2, <3>1 DEF JoinOK
  <2>3. CASE up'[c] = up[c]
    BY <2>3 DEF JoinOK
  <2>4. CASE up'[c] = <<>>
    BY <2>4
  <2>5. CASE cMode[c] = "playing" /\ \E m : m.type # "JOIN" /\ up'[c] = Append(up[c], m)
    BY <2>2, <2>5
  <2> QED
    BY <2>1, <2>3, <2>4, <2>5
<1>2. \A j \in 1 .. Len(wire'[c]) : Accepts(wire'[c][j]) =>
         \E i \in 1 .. Len(wire[c]) : Accepts(wire[c][i])
  <2>1. ASSUME NEW x, ~Accepts(x), wire'[c] = Append(wire[c], x)
        PROVE  \A j \in 1 .. Len(wire'[c]) : Accepts(wire'[c][j]) =>
                  \E i \in 1 .. Len(wire[c]) : Accepts(wire[c][i])
    <3>1. /\ Len(wire'[c]) = Len(wire[c]) + 1 /\ wire'[c][Len(wire[c]) + 1] = x
          /\ \A i \in 1 .. Len(wire[c]) : wire'[c][i] = wire[c][i]
      BY <2>1
    <3> QED
      BY <2>1, <3>1
  <2> QED
    BY <2>1
<1>3. /\ GameComes(wire'[c], cMode[c]) => GameComes(wire[c], cMode[c])
      /\ GamesAlone(wire'[c], cMode[c])
  <2>1. CASE wire'[c] = <<>>
    BY <2>1 DEF GameComes, GamesAlone
  <2>2. ASSUME NEW x, x.type \notin {"GAME", "READY"}, wire'[c] = Append(wire[c], x)
        PROVE  /\ GameComes(wire'[c], cMode[c]) => GameComes(wire[c], cMode[c])
               /\ GamesAlone(wire'[c], cMode[c])
    BY <2>2, GamesWrite DEF JoinOK
  <2> QED
    BY <2>1, <2>2 DEF JoinOK
<1>4. Has(wire'[c], {"GAME"}) => Has(wire[c], {"GAME"})
  <2>1. ASSUME NEW x, x.type \notin {"GAME", "READY"}, wire'[c] = Append(wire[c], x)
        PROVE  Has(wire'[c], {"GAME"}) => Has(wire[c], {"GAME"})
    <3>1. /\ Len(wire'[c]) = Len(wire[c]) + 1 /\ wire'[c][Len(wire[c]) + 1] = x
          /\ \A i \in 1 .. Len(wire[c]) : wire'[c][i] = wire[c][i]
      BY <2>1
    <3> QED
      BY <2>1, <3>1 DEF Has
  <2> QED
    BY <2>1 DEF Has
<1>5. cMode[c] \in {"joining", "waiting"} => (Has(up'[c], {"READY"}) => Has(up[c], {"READY"}))
  <2>1. CASE up[c] # <<>> /\ up'[c] = Tail(up[c])
    <3>1. \A i \in 1 .. Len(up'[c]) : up'[c][i] = up[c][i + 1] /\ i + 1 \in 1 .. Len(up[c])
      BY <2>1
    <3> QED
      BY <3>1 DEF Has
  <2> QED
    BY <2>1 DEF Has
<1> QED
  BY <1>1, <1>2, <1>3, <1>4, <1>5 DEF JoinOK

LEMMA JoinServerSide ==
    ASSUME IInv, SInv, LogInv, SlotInv, NEW c \in Clients, JoinOK(c), ServerSide(c)
    PROVE  JoinOK(c)'
<1> USE LocalTypes
<1>1. cMode'[c] = cMode[c]
  BY ServerSideKeepsMachine DEF Machine
<1>2. CASE FrameStep(c)
  BY <1>1, <1>2, SyncForSteps, JoinQuiet DEF FrameStep
<1>3. CASE ScheduleStep(c)
  <2>1. PICK m \in ToolMsgs \cup SyncMsgs :
           /\ Schedules(m)
           /\ \/ (m.type = "SYNC" => m.who # c) /\ UNCHANGED <<up[c], wire[c]>>
              \/ /\ m.type = "TOOL" /\ up[c] # <<>>
                 /\ up'[c] = Tail(up[c]) /\ wire'[c] = wire[c]
              \/ /\ m.type = "SYNC" /\ up[c] # <<>> /\ Head(up[c]).type = "JOIN"
                 /\ up'[c] = Tail(up[c])
                 /\ wire'[c] = Written(c, <<[type |-> "JOIN", answer |-> TRUE,
                                             newmap |-> m.newmap]>>)
    BY <1>3 DEF ScheduleStep
  <2>2. CASE wire'[c] = wire[c] /\ (m.type = "SYNC" => m.who # c)
    BY <1>1, <2>1, <2>2, SyncForSteps, JoinQuiet
  <2>3. CASE /\ m.type = "SYNC" /\ up[c] # <<>> /\ Head(up[c]).type = "JOIN"
             /\ up'[c] = Tail(up[c])
             /\ wire'[c] = Written(c, <<[type |-> "JOIN", answer |-> TRUE,
                                         newmap |-> m.newmap]>>)
    <3> DEFINE x == [type |-> "JOIN", answer |-> TRUE, newmap |-> m.newmap]
    <3>1. x.type = "JOIN" /\ (wire'[c] = wire[c] \/ wire'[c] = wire[c] \o <<x>>)
      BY <2>3 DEF Written
    <3> HIDE DEF x
    <3>2. wire'[c] = wire[c] \/ wire'[c] = Append(wire[c], x)
      BY <3>1
    <3>3. 1 \in 1 .. Len(up[c]) /\ up[c][1].type = "JOIN"
      BY <2>3
    <3>4. /\ cMode[c] \in {"out", "joining"}
          /\ \A j \in 1 .. Len(wire[c]) : ~Accepts(wire[c][j])
      BY <3>3 DEF JoinOK
    <3>5. \A i \in 1 .. Len(wire[c]) : ~Reached(wire[c], cMode[c], i)
      BY <3>4 DEF Reached
    <3>6. ~GameComes(wire[c], cMode[c])
      BY <3>5 DEF GameComes
    <3>7. ~GameComes(wire'[c], cMode[c]) /\ GamesAlone(wire'[c], cMode[c])
      BY <3>1, <3>2, <3>6, GamesWrite DEF JoinOK
    <3>8. \A i \in 1 .. Len(up'[c]) : up'[c][i] = up[c][i + 1] /\ i + 1 \in 1 .. Len(up[c]) /\ i + 1 # 1
      BY <2>3
    <3>9. \A i \in 1 .. Len(up'[c]) : up'[c][i].type # "JOIN"
      BY <3>8 DEF JoinOK
    <3>10. Has(up'[c], {"READY"}) => Has(up[c], {"READY"})
      BY <3>8 DEF Has
    <3>11. cMode'[c] # "playing"
      BY <1>1, <3>4
    <3> QED
      BY <1>1, <3>7, <3>9, <3>10, <3>11 DEF JoinOK
  <2> QED
    BY <2>1, <2>2, <2>3
<1>4. CASE RunStep(c)
  BY <1>1, <1>4, SyncForSteps, JoinQuiet DEF RunStep, Slot
<1>5. ASSUME NEW why, CutOff(c, why), SyncFor(c)' => SyncFor(c) PROVE JoinOK(c)'
  <2>1. ~Accepts(Close) /\ Close.type \notin {"GAME", "READY"}
    BY DEF Close, Accepts
  <2>2. up'[c] = <<>> /\ (wire'[c] = <<>> \/ wire'[c] = Append(wire[c], Close))
    BY <1>5 DEF CutOff
  <2> QED
    BY <1>1, <1>5, <2>1, <2>2, JoinQuiet
<1>6. CASE ReloadStep(c)
  <2>1. PICK new \in Nat :
           /\ Reloads(new)
           /\ \/ UNCHANGED <<up[c], wire[c]>>
              \/ CutOff(c, "left")
              \/ /\ RunsSync(new) /\ Head(sQueue).who = c /\ up'[c] = up[c]
                 /\ \E ms \in GameReplies(GameMsg(new), ReadyMsg(new)) : wire'[c] = Written(c, ms)
    BY <1>6 DEF ReloadStep, Slot
  <2>2. ~SyncFor(c)'
    BY <2>1, SyncForSteps
  <2>3. CASE UNCHANGED <<up[c], wire[c]>>
    BY <1>1, <2>2, <2>3, JoinQuiet
  <2>4. CASE CutOff(c, "left")
    BY <1>5, <2>2, <2>4
  <2>5. ASSUME RunsSync(new), Head(sQueue).who = c, up'[c] = up[c],
               NEW ms \in GameReplies(GameMsg(new), ReadyMsg(new)), wire'[c] = Written(c, ms)
        PROVE  JoinOK(c)'
    <3> DEFINE g == GameMsg(new)
               r == ReadyMsg(new)
    <3>1. /\ g \in ToClientMsgs /\ r \in ToClientMsgs /\ g.type = "GAME" /\ r.type = "READY"
          /\ ms \in {<<g, r>>, <<g>>, <<r>>, <<>>}
      BY <2>5, GameTypes DEF GameReplies
    <3> HIDE DEF g, r
    <3>2. /\ wire[c] \o <<g, r>> = Append(Append(wire[c], g), r)
          /\ wire[c] \o <<g>> = Append(wire[c], g)
          /\ wire[c] \o <<r>> = Append(wire[c], r)
          /\ wire[c] \o <<>> = wire[c]
      BY <3>1
    <3>3. /\ cMode[c] # "playing" /\ ~GameComes(wire[c], cMode[c])
      BY <2>5, SyncForSteps DEF JoinOK
    <3>4. GamesAlone(wire'[c], cMode[c])
      <4>1. /\ GamesAlone(Append(wire[c], g), cMode[c])
            /\ GamesAlone(Append(wire[c], r), cMode[c])
            /\ GamesAlone(Append(Append(wire[c], g), r), cMode[c])
        BY <3>1, <3>3, GamesWrite
      <4>2. GamesAlone(wire[c], cMode[c])
        BY DEF JoinOK
      <4>3. /\ ms = <<g, r>> => GamesAlone(wire[c] \o ms, cMode[c])
            /\ ms = <<g>> => GamesAlone(wire[c] \o ms, cMode[c])
            /\ ms = <<r>> => GamesAlone(wire[c] \o ms, cMode[c])
            /\ ms = <<>> => GamesAlone(wire[c] \o ms, cMode[c])
        BY <3>2, <4>1, <4>2
      <4> QED
        BY <2>5, <3>1, <4>2, <4>3 DEF Written
    <3>5. \A j \in 1 .. Len(wire'[c]) : Accepts(wire'[c][j]) =>
             \E i \in 1 .. Len(wire[c]) : Accepts(wire[c][i])
      <4>1. ~Accepts(g) /\ ~Accepts(r)
        BY <3>1 DEF Accepts
      <4>2. ms \in Seq(ToClientMsgs) /\ \A j \in 1 .. Len(ms) : ~Accepts(ms[j])
        <5>1. CASE ms = <<g, r>>
          <6>1. ms \in Seq(ToClientMsgs)
            BY <3>1, <5>1
          <6>2. Len(ms) = 2 /\ ms[1] = g /\ ms[2] = r
            BY <5>1
          <6>3. \A j \in 1 .. Len(ms) : j = 1 \/ j = 2
            BY <6>2
          <6> QED
            BY <4>1, <6>1, <6>2, <6>3
        <5>2. CASE ms = <<g>>
          BY <3>1, <4>1, <5>2
        <5>3. CASE ms = <<r>>
          BY <3>1, <4>1, <5>3
        <5>4. CASE ms = <<>>
          BY <5>4
        <5> QED
          BY <3>1, <5>1, <5>2, <5>3, <5>4
      <4>3. /\ Len(wire[c] \o ms) = Len(wire[c]) + Len(ms) /\ Len(ms) \in Nat
            /\ \A i \in 1 .. Len(wire[c]) : (wire[c] \o ms)[i] = wire[c][i]
            /\ \A i \in 1 .. Len(ms) : (wire[c] \o ms)[Len(wire[c]) + i] = ms[i]
        BY <4>2, ConcatElements
      <4>4. ASSUME NEW j \in 1 .. Len(wire[c] \o ms), Accepts((wire[c] \o ms)[j])
            PROVE  \E i \in 1 .. Len(wire[c]) : Accepts(wire[c][i])
        <5>1. CASE j \in 1 .. Len(wire[c])
          BY <4>3, <4>4, <5>1
        <5>2. CASE j \notin 1 .. Len(wire[c])
          <6>1. j - Len(wire[c]) \in 1 .. Len(ms) /\ j = Len(wire[c]) + (j - Len(wire[c]))
            BY <4>3, <5>2
          <6> QED
            BY <4>2, <4>3, <4>4, <6>1
        <5> QED
          BY <5>1, <5>2
      <4> QED
        BY <2>5, <4>4 DEF Written
    <3> QED
      BY <1>1, <2>2, <2>5, <3>3, <3>4, <3>5 DEF JoinOK
  <2> QED
    BY <2>1, <2>3, <2>4, <2>5
<1>7. CASE CutStep(c)
  <2>1. UNCHANGED core /\ \E why : CutOff(c, why)
    BY <1>7 DEF CutStep
  <2> QED
    BY <1>5, <2>1, SyncForSteps
<1>8. CASE AnswerStep(c)
  <2>1. UNCHANGED core /\ up[c] # <<>> /\ up'[c] = Tail(up[c])
    BY <1>8 DEF AnswerStep
  <2>2. SyncFor(c)' => SyncFor(c)
    BY <2>1, SyncForSteps
  <2> DEFINE x == [type |-> "JOIN", answer |-> FALSE, newmap |-> 0]
  <2>3. x.type \notin {"GAME", "READY"} /\ ~Accepts(x)
    BY DEF Accepts
  <2>4. \/ wire'[c] = wire[c] \/ wire'[c] = Written(c, <<x>>)
        \/ wire'[c] = Written(c, <<Head(up[c])>>) /\ Head(up[c]).type = "READY"
    BY <1>8 DEF AnswerStep
  <2> HIDE DEF x
  <2>5. \A y : wire[c] \o <<y>> = Append(wire[c], y)
    OBVIOUS
  <2>6. CASE wire'[c] = wire[c] \/ wire'[c] = Append(wire[c], x)
    BY <1>1, <2>1, <2>2, <2>3, <2>6, JoinQuiet
  <2>7. CASE /\ wire'[c] = Append(wire[c], Head(up[c])) /\ Head(up[c]).type = "READY"
             /\ cMode[c] # "out"
    <3>1. 1 \in 1 .. Len(up[c]) /\ up[c][1].type = "READY"
      BY <2>1, <2>7
    <3>2. Has(up[c], {"READY"})
      BY <3>1 DEF Has
    <3>3. cMode[c] = "playing"
      BY <2>7, <3>2 DEF JoinOK
    <3>4. ~Has(wire'[c], {"GAME"})
      <4>1. /\ Len(wire'[c]) = Len(wire[c]) + 1 /\ wire'[c][Len(wire[c]) + 1] = Head(up[c])
            /\ \A i \in 1 .. Len(wire[c]) : wire'[c][i] = wire[c][i]
        BY <2>7
      <4>2. \A i \in 1 .. Len(wire'[c]) : i \in 1 .. Len(wire[c]) \/ i = Len(wire[c]) + 1
        BY <4>1
      <4> QED
        BY <2>7, <3>3, <4>1, <4>2 DEF JoinOK, Has
    <3>5. GamesAlone(wire'[c], cMode'[c])
      BY <3>4 DEF GamesAlone, Has
    <3>6. \A i \in 1 .. Len(up'[c]) : up'[c][i] = up[c][i + 1] /\ i + 1 \in 1 .. Len(up[c])
      BY <2>1
    <3>7. \A i \in 1 .. Len(up'[c]) : up'[c][i].type # "JOIN"
      BY <3>3, <3>6 DEF JoinOK
    <3> QED
      BY <1>1, <2>2, <3>3, <3>4, <3>5, <3>7 DEF JoinOK
  <2> QED
    BY <2>4, <2>5, <2>6, <2>7 DEF Written
<1>9. CASE FlushStep(c)
  <2>1. /\ UNCHANGED core /\ up'[c] = up[c]
        /\ wire'[c] = wire[c] \/ wire'[c] = wire[c] \o <<Head(sendq[c])>>
    BY <1>9 DEF FlushStep, Written
  <2>2. Head(sendq[c]) \in BroadcastMsgs
    BY <1>9, HeadTailType DEF FlushStep
  <2>3. Head(sendq[c]).type \in {"STEP", "CHECK", "TOOL", "SYNC"}
    BY <2>2 DEF BroadcastMsgs, TimeMsgs, CheckMsgs, ToolMsgs, SyncMsgs
  <2>4. ~Accepts(Head(sendq[c]))
    BY <2>3 DEF Accepts
  <2>5. wire[c] \o <<Head(sendq[c])>> = Append(wire[c], Head(sendq[c]))
    OBVIOUS
  <2>6. SyncFor(c)' => SyncFor(c)
    BY <2>1, SyncForSteps
  <2> QED
    BY <1>1, <2>1, <2>3, <2>4, <2>5, <2>6, JoinQuiet
<1> QED
  BY <1>2, <1>3, <1>4, <1>6, <1>7, <1>8, <1>9 DEF ServerSide

\* Reading: the next message goes, the client may wait or play thereafter.
LEMMA JoinReads ==
    ASSUME IInv, SInv, LogInv, NEW c \in Clients, JoinOK(c), ReadStep(c)
    PROVE  JoinOK(c)'
<1> USE LocalTypes
<1>1. /\ wire[c] # <<>> /\ wire'[c] = Tail(wire[c]) /\ up'[c] = up[c] /\ UNCHANGED core
      /\ \/ Accepted(c) \/ Skipped(c) \/ Loaded(c)
         \/ TimeRead(c) \/ CommandQueued(c) \/ Unpaused(c)
  BY DEF ReadStep, Slot
<1>2. SyncFor(c)' => SyncFor(c)
  BY <1>1, SyncForSteps
<1>3. /\ Len(wire'[c]) \in Nat /\ Head(wire[c]) = wire[c][1] /\ 1 \in 1 .. Len(wire[c])
      /\ \A i \in 1 .. Len(wire'[c]) : wire'[c][i] = wire[c][i + 1] /\ i + 1 \in 1 .. Len(wire[c])
  BY <1>1
<1>4. \A j \in 1 .. Len(wire'[c]) : Accepts(wire'[c][j]) =>
         \E i \in 1 .. Len(wire[c]) : Accepts(wire[c][i])
  BY <1>3
<1>5. Has(wire'[c], {"GAME"}) => Has(wire[c], {"GAME"})
  BY <1>3 DEF Has
<1>6. CASE Accepted(c)
  <2>1. Accepts(Head(wire[c])) /\ cMode[c] = "joining" /\ cMode'[c] = "waiting"
    BY <1>6 DEF Accepted, ClientReads, Accepts
  <2>2. /\ GameComes(wire'[c], cMode'[c]) => GameComes(wire[c], cMode[c])
        /\ GamesAlone(wire'[c], cMode'[c])
    <3>1. GamesAlone(wire[c], cMode[c])
      BY DEF JoinOK
    <3>2. PICK w, mode, next : w = wire[c] /\ mode = cMode[c] /\ next = cMode'[c]
      OBVIOUS
    <3>3. w \in Seq(ToClientMsgs) /\ w # <<>> /\ Accepts(Head(w))
      BY <1>1, <2>1, <3>2
    <3>4. GameComes(Tail(w), next) => GameComes(w, mode)
      BY <3>3, GamesRead
    <3>5. GamesAlone(w, mode) => GamesAlone(Tail(w), next)
      BY <3>3, GamesRead
    <3> QED
      BY <1>1, <3>1, <3>2, <3>4, <3>5
  <2>3. \A i \in 1 .. Len(up[c]) : up[c][i].type # "JOIN"
    BY <1>3, <2>1 DEF JoinOK
  <2> QED
    BY <1>1, <1>2, <2>1, <2>2, <2>3 DEF JoinOK
<1>7. CASE Loaded(c)
  <2>1. cMode[c] = "waiting" /\ cMode'[c] = "playing" /\ Head(wire[c]).type = "GAME"
    BY <1>7 DEF Loaded, ClientReads
  <2>2. GameComes(wire[c], cMode[c]) /\ ~Has(wire'[c], {"GAME"})
    <3>1. GamesAlone(wire[c], cMode[c])
      BY DEF JoinOK
    <3>2. /\ GameComes(wire[c], cMode[c])
          /\ GamesAlone(wire[c], cMode[c]) => ~Has(Tail(wire[c]), {"GAME"})
      BY <1>1, <2>1, GamesRead, cMode[c] = cMode[c]
    <3> QED
      BY <1>1, <3>1, <3>2
  <2>3. ~SyncFor(c)'
    BY <1>2, <2>2 DEF JoinOK
  <2>4. GamesAlone(wire'[c], cMode'[c])
    BY <2>2 DEF GamesAlone, Has
  <2>5. \A i \in 1 .. Len(up[c]) : up[c][i].type # "JOIN"
    BY <2>1 DEF JoinOK
  <2> QED
    BY <1>1, <2>1, <2>2, <2>3, <2>4, <2>5 DEF JoinOK
<1>8. CASE Skipped(c) \/ TimeRead(c) \/ CommandQueued(c) \/ Unpaused(c)
  <2>1. cMode'[c] = cMode[c]
    BY <1>8 DEF Skipped, Machine, TimeRead, CommandQueued, Unpaused
  <2>2. /\ GameComes(wire'[c], cMode[c]) => GameComes(wire[c], cMode[c])
        /\ GamesAlone(wire'[c], cMode[c])
    BY <1>1, GamesRead DEF JoinOK
  <2> QED
    BY <1>1, <1>2, <1>4, <1>5, <2>1, <2>2 DEF JoinOK
<1> QED
  BY <1>1, <1>6, <1>7, <1>8

LEMMA JoinClientSide ==
    ASSUME IInv, SInv, LogInv, NEW c \in Clients, JoinOK(c), ClientSide(c)
    PROVE  JoinOK(c)'
<1> USE LocalTypes
<1>1. CASE ConnectStep(c)
  <2>1. /\ Len(up'[c]) = 1 /\ up'[c][1].type = "JOIN" /\ wire'[c] = <<>> /\ cMode'[c] = "joining"
    BY <1>1 DEF ConnectStep, JoinRequest
  <2> QED
    BY <2>1 DEF JoinOK, GameComes, GamesAlone, Has
<1>2. CASE GoneStep(c)
  <2>1. /\ wire'[c] = <<>> /\ cMode'[c] = "out"
        /\ up'[c] = <<>> \/ up'[c] = Append(up[c], Close)
    BY <1>2 DEF GoneStep
  <2>2. \A i \in 1 .. Len(up'[c]) : up'[c][i].type = "JOIN" => i = 1
    <3>1. CASE up'[c] = <<>>
      BY <3>1
    <3>2. CASE up'[c] = Append(up[c], Close)
      <4>1. /\ Len(up'[c]) = Len(up[c]) + 1 /\ up'[c][Len(up[c]) + 1] = Close
            /\ \A i \in 1 .. Len(up[c]) : up'[c][i] = up[c][i]
        BY <3>2
      <4>2. Close.type # "JOIN"
        BY DEF Close
      <4>3. \A i \in 1 .. Len(up'[c]) : i \in 1 .. Len(up[c]) \/ i = Len(up[c]) + 1
        BY <4>1
      <4> QED
        BY <4>1, <4>2, <4>3 DEF JoinOK
    <3> QED
      BY <2>1, <3>1, <3>2
  <2> QED
    BY <2>1, <2>2 DEF JoinOK, GameComes, GamesAlone
<1>3. CASE ReadStep(c)
  BY <1>3, JoinReads
<1>4. CASE PopStep(c) \/ AdvanceStep(c)
  <2>1. UNCHANGED <<core, cMode[c], up[c], wire[c]>>
    BY <1>4 DEF PopStep, AdvanceStep, Slot
  <2> QED
    BY <2>1, SyncForSteps, JoinQuiet
<1>5. CASE SyncStep(c)
  <2> DEFINE m == [type |-> "READY", step |-> cStep[c], map |-> Head(cQueue[c]).newmap,
                   chk |-> ListAt(cLists[c], cStep[c])]
  <2>1. m.type # "JOIN"
    OBVIOUS
  <2>2. /\ UNCHANGED <<core, cMode[c], wire[c]>> /\ cMode[c] = "playing"
        /\ up'[c] = up[c] \/ up'[c] = Append(up[c], m)
    BY <1>5 DEF SyncStep, Due
  <2> HIDE DEF m
  <2> QED
    BY <2>1, <2>2, SyncForSteps, JoinQuiet
<1>6. CASE RequestStep(c)
  <2>1. PICK n : up'[c] = Append(up[c],
           [type |-> "TOOL", step |-> cStep[c], map |-> cMap[c],
            lstep |-> cStep[c], lchk |-> ListAt(cLists[c], cStep[c]), tool |-> n, at |-> 0])
    BY <1>6 DEF RequestStep
  <2> DEFINE m == [type |-> "TOOL", step |-> cStep[c], map |-> cMap[c],
                   lstep |-> cStep[c], lchk |-> ListAt(cLists[c], cStep[c]), tool |-> n, at |-> 0]
  <2>2. m.type # "JOIN" /\ up'[c] = Append(up[c], m)
    BY <2>1
  <2> HIDE DEF m
  <2>3. UNCHANGED <<core, cMode[c], wire[c]>> /\ cMode[c] = "playing"
    BY <1>6 DEF RequestStep, Machine
  <2> QED
    BY <2>2, <2>3, SyncForSteps, JoinQuiet
<1> QED
  BY <1>1, <1>2, <1>3, <1>4, <1>5, <1>6 DEF ClientSide

LEMMA NextJoinInv == IInv /\ SInv /\ LogInv /\ SlotInv /\ JoinInv /\ [Next]_vars => JoinInv'
<1> SUFFICES ASSUME IInv, SInv, LogInv, SlotInv, JoinInv, [Next]_vars, NEW c \in Clients
             PROVE  JoinOK(c)'
  BY DEF JoinInv
<1>1. JoinOK(c) /\ LocalStep(c)
  BY NextIsLocal DEF JoinInv
<1>2. CASE RestStep(c)
  BY <1>1, <1>2, SyncForSteps, JoinQuiet DEF RestStep, Machine, Slot
<1> QED
  BY <1>1, <1>2, JoinServerSide, JoinClientSide DEF LocalStep

LEMMA InitJoinInv == Init => JoinInv
  BY DEF Init, JoinInv, JoinOK, GameComes, GamesAlone, SyncFor, Has

-----------------------------------------------------------------------------
(* NeverInThePast.  A client takes time and commands only behind its       *)
(* barrier: OrderInv says that all that is on its way to a client is later *)
(* than what the client has reached, and later than every NWC_READY that   *)
(* will set it to a step.                                                  *)

LaterMsg(m, n) == (Announces(m) => m.sstep > n) /\ (Command(m) => m.step > n)
AllLater(M, n) == \A m \in M : LaterMsg(m, n)

\* A client that plays: W is on its wire, S in its send queue, U on its way to the server,
\* Q in its command queue.
PlayOK(W, S, U, Q, step, barrier) ==
    /\ \A m \in W \cup U : m.type = "READY" =>
          AllLater(W \cup S, m.step) /\ \A x \in Q : x.step >= m.step
    /\ AllLater(W \cup S, barrier)
    /\ \A x \in Q : x.step >= step

\* the game at i is one that the client of the wire w will load
Live(w, mode, i) ==
    /\ w[i].type = "GAME"
    /\ \/ mode = "waiting"
       \/ /\ mode = "joining"
          /\ \E j \in 1 .. i - 1 : Accepts(w[j]) /\ \A h \in 1 .. j - 1 : w[h].type # "GAME"

\* what follows the NWC_READY behind such a game is later than it
GameOK(w, mode, s) ==
    \A i \in 1 .. Len(w) : Live(w, mode, i) =>
        \A j \in i + 1 .. Len(w) : w[j].type = "READY" =>
            /\ \A k \in j + 1 .. Len(w) : LaterMsg(w[k], w[j].step)
            /\ AllLater(Elems(s), w[j].step)

Plays(c) == PlayOK(Elems(wire[c]), Elems(sendq[c]), Elems(up[c]), Elems(cQueue[c]),
                   cStep[c], cBarrier[c])

OrderOK(c) ==
    /\ cMode[c] \in {"joining", "waiting"} /\ sState[c] = "playing" => Has(wire[c], {"GAME"})
    /\ GameOK(wire[c], cMode[c], sendq[c])
    /\ cMode[c] = "playing" => Plays(c)
    /\ fate[c] # "past"

OrderInv == \A c \in Clients : OrderOK(c)

-----------------------------------------------------------------------------
(* OrderInv along the steps, if no direct send fails.                      *)

LEMMA ElemsParts ==
    ASSUME NEW S, NEW s \in Seq(S)
    PROVE  /\ Elems(s) \subseteq S
           /\ \A i \in 1 .. Len(s) : s[i] \in Elems(s)
           /\ \A x : Elems(Append(s, x)) = Elems(s) \cup {x}
           /\ s # <<>> => Elems(s) = Elems(Tail(s)) \cup {Head(s)}
           /\ Elems(<<>>) = {}
<1>1. Len(s) \in Nat /\ DOMAIN s = 1 .. Len(s)
  OBVIOUS
<1>2. ASSUME NEW x PROVE Elems(Append(s, x)) = Elems(s) \cup {x}
  <2>1. /\ DOMAIN Append(s, x) = 1 .. Len(s) + 1 /\ Append(s, x)[Len(s) + 1] = x
        /\ \A i \in 1 .. Len(s) : Append(s, x)[i] = s[i]
    OBVIOUS
  <2>2. 1 .. Len(s) + 1 = 1 .. Len(s) \cup {Len(s) + 1}
    BY <1>1
  <2> QED
    BY <1>1, <2>1, <2>2 DEF Elems
<1>3. ASSUME s # <<>> PROVE Elems(s) = Elems(Tail(s)) \cup {Head(s)}
  <2>1. /\ DOMAIN Tail(s) = 1 .. Len(s) - 1 /\ Head(s) = s[1] /\ Len(s) \in Nat \ {0}
        /\ \A i \in 1 .. Len(s) - 1 : Tail(s)[i] = s[i + 1]
    BY <1>3
  <2>2. \A i \in 1 .. Len(s) : i = 1 \/ (i - 1 \in 1 .. Len(s) - 1 /\ s[i] = s[(i - 1) + 1])
    BY <2>1
  <2>3. \A i \in 1 .. Len(s) - 1 : i + 1 \in 1 .. Len(s)
    BY <2>1
  <2>4. 1 \in 1 .. Len(s)
    BY <2>1
  <2>5. Elems(s) \subseteq Elems(Tail(s)) \cup {Head(s)}
    <3> SUFFICES ASSUME NEW i \in 1 .. Len(s) PROVE s[i] \in Elems(Tail(s)) \cup {Head(s)}
      BY <1>1 DEF Elems
    <3>1. CASE i = 1
      BY <2>1, <3>1
    <3>2. CASE i # 1
      <4>1. i - 1 \in 1 .. Len(s) - 1 /\ Tail(s)[i - 1] = s[i]
        BY <2>1, <2>2, <3>2
      <4> QED
        BY <2>1, <4>1 DEF Elems
    <3> QED
      BY <3>1, <3>2
  <2>6. Elems(Tail(s)) \cup {Head(s)} \subseteq Elems(s)
    BY <1>1, <2>1, <2>3, <2>4 DEF Elems
  <2> QED
    BY <2>5, <2>6
<1>4. Elems(<<>>) = {}
  BY DEF Elems
<1>5. Elems(s) \subseteq S /\ \A i \in 1 .. Len(s) : s[i] \in Elems(s)
  BY <1>1 DEF Elems
<1> QED
  BY <1>2, <1>3, <1>4, <1>5

LEMMA LaterMonotone ==
    ASSUME NEW M, M \subseteq ToClientMsgs, NEW n \in Nat, NEW k \in Nat, k <= n, AllLater(M, n)
    PROVE  AllLater(M, k)
<1> SUFFICES ASSUME NEW m \in M PROVE LaterMsg(m, k)
  BY DEF AllLater
<1>1. m \in ToClientMsgs /\ LaterMsg(m, n)
  BY DEF AllLater
<1>2. /\ Announces(m) => m.sstep \in Nat
      /\ Command(m) => m.step \in Nat
  BY <1>1, MessageNumbers
<1> QED
  BY <1>1, <1>2 DEF LaterMsg

\* The messages that are sent directly name no time of the stream.
LEMMA UntimedIsLater == \A m, n : Untimed(m) => LaterMsg(m, n)
  BY DEF Untimed, LaterMsg, Announces, Command

\* What is broadcast is later than what the server has reached.
LEMMA NewIsLater ==
    ASSUME IInv
    PROVE  /\ \A a \in Announcements(sStep + 1, Append(sWorld, Frame)) :
                 \A n \in 0 .. sStep : LaterMsg(a, n) /\ a.type # "READY"
           /\ \A m : Schedules(m) => \A n \in 0 .. sStep : LaterMsg(m, n) /\ m.type # "READY"
<1>1. sStep \in Nat
  BY DEF IInv, ServerOK
<1>2. ASSUME NEW a \in Announcements(sStep + 1, Append(sWorld, Frame))
      PROVE  a.sstep = sStep + 1 /\ Announces(a)
  BY <1>2 DEF Announcements, Announces
<1>3. ASSUME NEW m, Schedules(m) PROVE m.step = sStep + 1 /\ Command(m)
  BY <1>3 DEF Schedules, ToolMsgs, SyncMsgs, Command
<1> QED
  BY <1>1, <1>2, <1>3 DEF LaterMsg, Announces, Command

\* A new message x that is later than all this does no harm.
LEMMA PlayGrows ==
    ASSUME NEW W, NEW S, NEW U, NEW Q, NEW step, NEW barrier, PlayOK(W, S, U, Q, step, barrier),
           NEW W2, NEW S2, NEW U2, NEW Q2, NEW x,
           W2 \cup S2 \subseteq W \cup S \cup {x}, Q2 \subseteq Q,
           \A m \in W2 \cup U2 : m.type = "READY" => m \in W \cup U,
           LaterMsg(x, barrier), \A m \in W \cup U : m.type = "READY" => LaterMsg(x, m.step)
    PROVE  PlayOK(W2, S2, U2, Q2, step, barrier)
<1>1. ASSUME NEW n, AllLater(W \cup S, n), LaterMsg(x, n) PROVE AllLater(W2 \cup S2, n)
  BY <1>1 DEF AllLater
<1> QED
  BY <1>1 DEF PlayOK

\* the steps that a client may be set to are steps the server has reached
LEMMA ReadySteps ==
    ASSUME IInv, NEW c \in Clients
    PROVE  /\ \A m \in Elems(wire[c]) \cup Elems(up[c]) : m.type = "READY" => m.step \in 0 .. sStep
           /\ Elems(wire[c]) \cup Elems(sendq[c]) \subseteq ToClientMsgs
           /\ cBarrier[c] \in 0 .. sStep /\ cStep[c] \in 0 .. cBarrier[c]
<1>1. /\ wire[c] \in Seq(UpTo(ToClientMsgs, sStep)) /\ up[c] \in Seq(UpTo(ToServerMsgs, sStep))
      /\ sendq[c] \in Seq(ToClientMsgs)
  BY StreamTypes DEF IInv, ChannelsUpTo
<1>2. /\ Elems(wire[c]) \subseteq UpTo(ToClientMsgs, sStep)
      /\ Elems(up[c]) \subseteq UpTo(ToServerMsgs, sStep) /\ Elems(sendq[c]) \subseteq ToClientMsgs
  BY <1>1, ElemsParts
<1> QED
  BY <1>2, LocalTypes DEF UpTo

\* what the server does to the channels of a client that plays
LEMMA PlayServerSide ==
    ASSUME IInv, SInv, LogInv, JoinInv, NEW c \in Clients, Plays(c), cMode[c] = "playing",
           ServerSide(c)
    PROVE  Plays(c)'
<1>1. /\ UNCHANGED <<cQueue[c], cStep[c], cBarrier[c]>>
      /\ Untimed(Close) /\ Close.type # "READY"
  BY ServerSideKeepsMachine DEF Machine, Close, Untimed
<1>2. PICK W, S, U, Q : /\ W = Elems(wire[c]) /\ S = Elems(sendq[c]) /\ U = Elems(up[c])
                        /\ Q = Elems(cQueue[c])
  OBVIOUS
<1>3. /\ PlayOK(W, S, U, Q, cStep[c], cBarrier[c])
      /\ cBarrier[c] \in 0 .. sStep
      /\ \A m \in W \cup U : m.type = "READY" => m.step \in 0 .. sStep
  BY <1>2, ReadySteps DEF Plays
<1>4. /\ wire[c] \in Seq(ToClientMsgs) /\ up[c] \in Seq(ToServerMsgs)
      /\ sendq[c] \in Seq(BroadcastMsgs) /\ sStep \in Nat
  BY LocalTypes
<1>5. ASSUME NEW x, \A n \in 0 .. sStep : LaterMsg(x, n),
             Elems(wire'[c]) \cup Elems(sendq'[c]) \subseteq W \cup S \cup {x},
             \A m \in Elems(wire'[c]) \cup Elems(up'[c]) : m.type = "READY" => m \in W \cup U
      PROVE  Plays(c)'
  <2>1. /\ LaterMsg(x, cBarrier[c])
        /\ \A m \in W \cup U : m.type = "READY" => LaterMsg(x, m.step)
    BY <1>3, <1>5
  <2>2. Elems(cQueue'[c]) \subseteq Q
    BY <1>1, <1>2
  <2>3. PlayOK(Elems(wire'[c]), Elems(sendq'[c]), Elems(up'[c]), Elems(cQueue'[c]),
               cStep[c], cBarrier[c])
    BY <1>3, <1>5, <2>1, <2>2, PlayGrows
  <2> QED
    BY <1>1, <1>5, <2>3 DEF Plays
<1>6. \A x : Untimed(x) => \A n \in 0 .. sStep : LaterMsg(x, n)
  BY UntimedIsLater
<1>7. /\ ~SyncFor(c)
      /\ \A i \in 1 .. Len(up[c]) : up[c][i].type # "JOIN"
  BY DEF JoinInv, JoinOK
<1>8. CASE FrameStep(c)
  <2>1. PICK a \in Announcements(sStep + 1, Append(sWorld, Frame)) : sendq'[c] = Queued(c, a)
    BY <1>8 DEF FrameStep
  <2>2. \A n \in 0 .. sStep : LaterMsg(a, n)
    BY NewIsLater
  <2>3. Elems(sendq'[c]) \subseteq S \cup {a}
    BY <1>2, <1>4, <2>1, ElemsParts DEF Queued
  <2>4. wire'[c] = wire[c] /\ up'[c] = up[c]
    BY <1>8 DEF FrameStep
  <2> QED
    BY <1>2, <1>5, <2>2, <2>3, <2>4
<1>9. CASE ScheduleStep(c)
  <2>1. PICK m : /\ Schedules(m) /\ sendq'[c] = Queued(c, m)
                 /\ \/ UNCHANGED <<up[c], wire[c]>>
                    \/ up[c] # <<>> /\ up'[c] = Tail(up[c]) /\ wire'[c] = wire[c]
                    \/ up[c] # <<>> /\ Head(up[c]).type = "JOIN"
    BY <1>9 DEF ScheduleStep
  <2>2. \A n \in 0 .. sStep : LaterMsg(m, n)
    BY <2>1, NewIsLater
  <2>3. Elems(sendq'[c]) \subseteq S \cup {m}
    BY <1>2, <1>4, <2>1, ElemsParts DEF Queued
  <2>4. up[c] # <<>> => 1 \in 1 .. Len(up[c]) /\ Head(up[c]) = up[c][1]
    BY <1>4
  <2>5. wire'[c] = wire[c] /\ (up'[c] = up[c] \/ (up[c] # <<>> /\ up'[c] = Tail(up[c])))
    <3>1. up[c] # <<>> => Head(up[c]).type # "JOIN"
      BY <1>7, <2>4
    <3> QED
      BY <2>1, <3>1
  <2>6. Elems(up'[c]) \subseteq U
    BY <1>2, <1>4, <2>5, ElemsParts
  <2>7. Elems(wire'[c]) = W
    BY <1>2, <2>5
  <2>8. /\ Elems(wire'[c]) \cup Elems(sendq'[c]) \subseteq W \cup S \cup {m}
        /\ \A y \in Elems(wire'[c]) \cup Elems(up'[c]) : y \in W \cup U
    BY <2>3, <2>6, <2>7
  <2> QED
    BY <1>5, <2>2, <2>8
<1>10. CASE UNCHANGED <<wire[c], sendq[c], up[c]>>
  BY <1>1, <1>2, <1>5, <1>6, <1>10
<1>11. ASSUME NEW why, CutOff(c, why) PROVE Plays(c)'
  <2>1. sendq'[c] = <<>> /\ up'[c] = <<>> /\ wire'[c] = Append(wire[c], Close)
    BY <1>11 DEF CutOff
  <2>2. Elems(sendq'[c]) = {} /\ Elems(up'[c]) = {}
    BY <2>1 DEF Elems
  <2>3. Elems(wire'[c]) = W \cup {Close}
    BY <1>2, <1>4, <2>1, ElemsParts
  <2>4. /\ Elems(wire'[c]) \cup Elems(sendq'[c]) \subseteq W \cup S \cup {Close}
        /\ \A m \in Elems(wire'[c]) \cup Elems(up'[c]) : m.type = "READY" => m \in W \cup U
    BY <1>1, <2>2, <2>3
  <2> QED
    BY <1>1, <1>5, <1>6, <2>4
<1>12. CASE RunStep(c)
  BY <1>10, <1>12 DEF RunStep, Slot
<1>13. CASE ReloadStep(c)
  BY <1>7, <1>10, <1>11, <1>13, SyncForSteps DEF ReloadStep, Slot
<1>14. CASE CutStep(c)
  BY <1>11, <1>14 DEF CutStep
<1>15. CASE AnswerStep(c)
  <2> DEFINE j == [type |-> "JOIN", answer |-> FALSE, newmap |-> 0]
  <2>1. Untimed(j) /\ j.type # "READY"
    BY DEF Untimed
  <2>2. /\ up[c] # <<>> /\ up'[c] = Tail(up[c]) /\ sendq'[c] = sendq[c]
        /\ \/ wire'[c] = wire[c] \/ wire'[c] = wire[c] \o <<j>>
           \/ wire'[c] = wire[c] \o <<Head(up[c])>> /\ Head(up[c]).type = "READY"
    BY <1>15 DEF AnswerStep, Written
  <2> HIDE DEF j
  <2>3. \A x : wire[c] \o <<x>> = Append(wire[c], x)
    BY <1>4
  <2>4. U = Elems(up'[c]) \cup {Head(up[c])}
    BY <1>2, <1>4, <2>2, ElemsParts
  <2>5. CASE wire'[c] = wire[c] \/ wire'[c] = Append(wire[c], j)
    <3>1. Elems(Append(wire[c], j)) = W \cup {j}
      BY <1>2, <1>4, ElemsParts
    <3>2. Elems(wire'[c]) \subseteq W \cup {j} /\ Elems(sendq'[c]) = S
      BY <1>2, <2>2, <2>5, <3>1
    <3>3. /\ Elems(wire'[c]) \cup Elems(sendq'[c]) \subseteq W \cup S \cup {j}
          /\ \A m \in Elems(wire'[c]) \cup Elems(up'[c]) : m.type = "READY" => m \in W \cup U
      BY <2>1, <2>4, <3>2
    <3> QED
      BY <1>5, <1>6, <2>1, <3>3
  <2>6. CASE wire'[c] = Append(wire[c], Head(up[c])) /\ Head(up[c]).type = "READY"
    <3>1. Elems(wire'[c]) = W \cup {Head(up[c])}
      BY <1>2, <1>4, <2>6, ElemsParts
    <3>2. Untimed(Head(up[c]))
      BY <2>6 DEF Untimed
    <3>3. Elems(sendq'[c]) = S
      BY <1>2, <2>2
    <3>4. /\ Elems(wire'[c]) \cup Elems(sendq'[c]) \subseteq W \cup S \cup {Head(up[c])}
          /\ \A m \in Elems(wire'[c]) \cup Elems(up'[c]) : m.type = "READY" => m \in W \cup U
      BY <2>4, <3>1, <3>3
    <3> QED
      BY <1>5, <1>6, <3>2, <3>4
  <2> QED
    BY <2>2, <2>3, <2>5, <2>6
<1>16. CASE FlushStep(c)
  <2>1. /\ sendq[c] # <<>> /\ sendq'[c] = Tail(sendq[c]) /\ up'[c] = up[c]
        /\ wire'[c] = wire[c] \o <<Head(sendq[c])>>
    BY <1>16 DEF FlushStep, Written
  <2>2. wire'[c] = Append(wire[c], Head(sendq[c]))
    BY <1>4, <2>1
  <2>3. /\ S = Elems(sendq'[c]) \cup {Head(sendq[c])}
        /\ Elems(wire'[c]) = W \cup {Head(sendq[c])}
    <3>1. S = Elems(sendq'[c]) \cup {Head(sendq[c])}
      BY <1>2, <1>4, <2>1, ElemsParts
    <3>2. Elems(wire'[c]) = W \cup {Head(sendq[c])}
      BY <1>2, <1>4, <2>2, ElemsParts
    <3> QED
      BY <3>1, <3>2
  <2>4. Head(sendq[c]).type # "READY"
    <3>1. Head(sendq[c]) \in BroadcastMsgs
      BY <1>4, <2>1, HeadTailType
    <3> QED
      BY <3>1 DEF BroadcastMsgs, TimeMsgs, CheckMsgs, ToolMsgs, SyncMsgs
  <2>5. Elems(up'[c]) = U
    BY <1>2, <2>1
  <2>6. /\ Elems(wire'[c]) \cup Elems(sendq'[c]) \subseteq W \cup S \cup {Close}
        /\ \A m \in Elems(wire'[c]) \cup Elems(up'[c]) : m.type = "READY" => m \in W \cup U
    BY <2>3, <2>4, <2>5
  <2> QED
    BY <1>1, <1>5, <1>6, <2>6
<1> QED
  BY <1>8, <1>9, <1>12, <1>13, <1>14, <1>15, <1>16 DEF ServerSide

\* Reading what the server announces or commands.
LEMMA PlayReads ==
    ASSUME IInv, StreamInv, NEW c \in Clients, Plays(c), cMode[c] = "playing", ReadStep(c)
    PROVE  Plays(c)'
<1>1. PICK W, S, U, Q, h : /\ W = Elems(wire'[c]) /\ S = Elems(sendq[c]) /\ U = Elems(up[c])
                           /\ Q = Elems(cQueue[c]) /\ h = Head(wire[c])
  OBVIOUS
<1>2. /\ wire[c] # <<>> /\ wire'[c] = Tail(wire[c]) /\ UNCHANGED <<sendq[c], up[c]>>
      /\ TimeRead(c) \/ CommandQueued(c) \/ Unpaused(c)
  BY DEF ReadStep, Slot, Accepted, Skipped, Loaded, ClientReads
<1>3. /\ wire[c] \in Seq(ToClientMsgs) /\ sendq[c] \in Seq(ToClientMsgs)
      /\ cQueue[c] \in Seq(QueuedMsgs)
  BY LocalTypes, StreamTypes
<1>4. Elems(wire[c]) = W \cup {h} /\ h \in ToClientMsgs
  BY <1>1, <1>2, <1>3, ElemsParts
<1>5. /\ PlayOK(W \cup {h}, S, U, Q, cStep[c], cBarrier[c])
  BY <1>1, <1>4 DEF Plays
<1>6. /\ \A m \in W \cup U \cup {h} : m.type = "READY" =>
            AllLater(W \cup S \cup {h}, m.step) /\ \A x \in Q : x.step >= m.step
      /\ AllLater(W \cup S \cup {h}, cBarrier[c])
      /\ \A x \in Q : x.step >= cStep[c]
  <2>1. (W \cup {h}) \cup S = W \cup S \cup {h} /\ (W \cup {h}) \cup U = W \cup U \cup {h}
    OBVIOUS
  <2> QED
    BY <1>5, <2>1 DEF PlayOK
<1>7. cStep[c] \in Nat /\ cBarrier[c] \in Nat /\ cStep[c] <= cBarrier[c]
      /\ \A m \in W \cup U \cup {h} : m.type = "READY" => m.step \in Nat
  BY <1>1, <1>4, ReadySteps, LocalTypes
<1>8. \A n : AllLater(W \cup S \cup {h}, n) => AllLater(W \cup S, n) /\ LaterMsg(h, n)
  BY DEF AllLater
<1>9. ASSUME NEW Q2, Q2 = Elems(cQueue'[c]), Q2 \subseteq Q \cup {h}, h \in Q2 => IsQueued(h),
             cStep'[c] = cStep[c], AllLater(W \cup S, cBarrier'[c])
      PROVE  Plays(c)'
  <2>1. Sent(h)
    BY <1>1, <1>2, <1>3 DEF StreamInv, StreamOK, AllSent
  <2>2. IsQueued(h) => h.step \in Nat
    BY <1>4, MessageNumbers
  <2>3. ASSUME NEW n \in Nat, LaterMsg(h, n), IsQueued(h) PROVE h.step >= n
    <3>1. CASE h.type = "CHECK"
      <4>1. h.sstep \in Nat /\ h.step = h.sstep + 1 /\ h.sstep > n
        BY <1>4, <2>1, <2>3, <3>1, MessageNumbers DEF LaterMsg, Announces, Sent
      <4> QED
        BY <4>1
    <3>2. CASE Command(h)
      BY <2>2, <2>3, <3>2 DEF LaterMsg
    <3> QED
      BY <2>3, <3>1, <3>2 DEF IsQueued, Command
  <2>4. ASSUME NEW m \in W \cup U, m.type = "READY"
        PROVE  AllLater(W \cup S, m.step) /\ \A x \in Q2 : x.step >= m.step
    <3>1. m.step \in Nat /\ AllLater(W \cup S \cup {h}, m.step) /\ \A x \in Q : x.step >= m.step
      BY <1>6, <1>7, <2>4
    <3> QED
      BY <1>8, <1>9, <2>3, <3>1
  <2>5. \A x \in Q2 : x.step >= cStep[c]
    <3>1. LaterMsg(h, cBarrier[c])
      BY <1>6, <1>8
    <3>2. IsQueued(h) => h.step >= cBarrier[c]
      BY <1>7, <2>3, <3>1
    <3>3. IsQueued(h) => h.step >= cStep[c]
      BY <1>7, <2>2, <3>2
    <3> QED
      BY <1>6, <1>9, <3>3
  <2>6. PlayOK(W, S, U, Q2, cStep[c], cBarrier'[c])
    BY <1>9, <2>4, <2>5 DEF PlayOK
  <2> QED
    BY <1>1, <1>2, <1>9, <2>6 DEF Plays
<1>10. IsQueued(h) => Elems(Insert(cQueue[c], h)) \subseteq Q \cup {h}
  <2>1. IsQueued(h) => Insert(cQueue[c], h) = Append(cQueue[c], h)
    BY <1>1, <1>2, ReadIsAppend DEF StreamInv
  <2>2. Elems(Append(cQueue[c], h)) = Q \cup {h}
    BY <1>1, <1>3, ElemsParts
  <2> QED
    BY <2>1, <2>2
<1>11. CASE TimeRead(c)
  <2>1. /\ Announces(h) /\ cStep'[c] = cStep[c]
        /\ cBarrier'[c] = cBarrier[c] \/ cBarrier'[c] = h.sstep
        /\ cQueue'[c] = cQueue[c] \/ (IsQueued(h) /\ cQueue'[c] = Insert(cQueue[c], h))
    BY <1>1, <1>11 DEF TimeRead, ClientReads, Announces, IsQueued, RaisedBarrier
  <2>2. ASSUME NEW m \in W \cup S PROVE LaterMsg(m, h.sstep)
    <3>1. Earlier(h, m)
      <4>1. /\ InOrder(wire[c]) /\ Before(wire[c], sendq[c])
        BY DEF StreamInv, StreamOK, Ordered
      <4>2. /\ \A j \in 1 .. Len(Tail(wire[c])) : Earlier(Head(wire[c]), Tail(wire[c])[j])
            /\ \A j \in 1 .. Len(sendq[c]) : Earlier(Head(wire[c]), sendq[c][j])
        BY <1>2, <1>3, <4>1, TailOrdered
      <4>3. Tail(wire[c]) \in Seq(ToClientMsgs)
        BY <1>2, <1>3, HeadTailType
      <4>4. /\ DOMAIN Tail(wire[c]) = 1 .. Len(Tail(wire[c]))
            /\ DOMAIN sendq[c] = 1 .. Len(sendq[c])
        BY <1>3, <4>3
      <4> QED
        BY <1>1, <1>2, <4>2, <4>4 DEF Elems
    <3>2. m \in ToClientMsgs /\ h.sstep \in Nat
      <4>1. Elems(wire[c]) \cup Elems(sendq[c]) \subseteq ToClientMsgs
        BY ReadySteps
      <4> QED
        BY <1>1, <1>4, <2>1, <4>1, MessageNumbers
    <3>3. /\ Announces(m) => m.sstep \in Nat
          /\ Command(m) => m.step \in Nat
      BY <3>2, MessageNumbers
    <3> QED
      BY <2>1, <3>1, <3>2, <3>3 DEF Earlier, LaterMsg
  <2>3. AllLater(W \cup S, cBarrier'[c])
    BY <1>6, <1>8, <2>1, <2>2 DEF AllLater
  <2>4. Elems(cQueue'[c]) \subseteq Q \cup {h} /\ (h \in Elems(cQueue'[c]) => IsQueued(h))
    <3>1. \A x \in Q : IsQueued(x)
      BY <1>1, <1>3, ElemsParts DEF QueuedMsgs, CheckMsgs, ToolMsgs, SyncMsgs, IsQueued
    <3> QED
      BY <1>1, <1>10, <2>1, <3>1
  <2> QED
    BY <1>9, <2>1, <2>3, <2>4
<1>12. CASE CommandQueued(c)
  <2>1. /\ IsQueued(h) /\ cStep'[c] = cStep[c] /\ cBarrier'[c] = cBarrier[c]
        /\ cQueue'[c] = Insert(cQueue[c], h)
    BY <1>1, <1>12 DEF CommandQueued, ClientReads, IsQueued
  <2>2. AllLater(W \cup S, cBarrier'[c])
    BY <1>6, <1>8, <2>1
  <2> QED
    BY <1>9, <1>10, <2>1, <2>2
<1>13. CASE Unpaused(c)
  <2>1. /\ h.type = "READY" /\ cStep'[c] = h.step /\ cBarrier'[c] = h.step
        /\ cQueue'[c] = cQueue[c]
    BY <1>1, <1>13 DEF Unpaused, ClientReads
  <2>2. AllLater(W \cup S, h.step) /\ \A x \in Q : x.step >= h.step
    BY <1>6, <1>8, <2>1
  <2>3. PlayOK(W, S, U, Q, h.step, h.step)
    BY <1>6, <1>8, <2>2 DEF PlayOK
  <2> QED
    BY <1>1, <1>2, <2>1, <2>3 DEF Plays
<1> QED
  BY <1>2, <1>11, <1>12, <1>13

\* Loading: the NWC_READY right behind the game is the only one.
LEMMA GameLoads ==
    ASSUME NEW w \in Seq(ToClientMsgs), NEW s \in Seq(ToClientMsgs), w # <<>>,
           Head(w).type = "GAME", GameOK(w, "waiting", s), GamesAlone(w, "waiting")
    PROVE  \A m \in Elems(Tail(w)) : m.type = "READY" =>
              AllLater(Elems(Tail(w)) \cup Elems(s), m.step)
<1>1. /\ Len(Tail(w)) = Len(w) - 1 /\ Len(w) \in Nat \ {0} /\ Head(w) = w[1]
      /\ \A i \in 1 .. Len(Tail(w)) : Tail(w)[i] = w[i + 1] /\ i + 1 \in 2 .. Len(w)
      /\ DOMAIN Tail(w) = 1 .. Len(Tail(w))
  OBVIOUS
<1>2. Live(w, "waiting", 1) /\ 1 \in 1 .. Len(w)
  BY <1>1 DEF Live
<1>3. \A j \in 1 .. Len(Tail(w)) : Tail(w)[j].type = "READY" => j = 1
  <2> DEFINE mode == "waiting"
  <2>1. mode = "waiting" /\ GamesAlone(w, mode)
    OBVIOUS
  <2> HIDE DEF mode
  <2> QED
    BY <2>1, GamesRead
<1> SUFFICES ASSUME NEW j \in 1 .. Len(Tail(w)), Tail(w)[j].type = "READY"
             PROVE  AllLater(Elems(Tail(w)) \cup Elems(s), Tail(w)[j].step)
  BY <1>1 DEF Elems
<1>4. j = 1 /\ Tail(w)[j] = w[2] /\ 2 \in 2 .. Len(w)
  BY <1>1, <1>3
<1>5. /\ \A k \in 3 .. Len(w) : LaterMsg(w[k], w[2].step)
      /\ AllLater(Elems(s), w[2].step)
  BY <1>2, <1>4 DEF GameOK
<1>6. LaterMsg(w[2], w[2].step)
  BY <1>4, UntimedIsLater DEF Untimed
<1>7. ASSUME NEW k \in 1 .. Len(Tail(w)) PROVE LaterMsg(Tail(w)[k], w[2].step)
  <2>1. Tail(w)[k] = w[k + 1] /\ (k + 1 = 2 \/ k + 1 \in 3 .. Len(w))
    BY <1>1
  <2> QED
    BY <1>5, <1>6, <2>1
<1>8. AllLater(Elems(Tail(w)), w[2].step)
  BY <1>1, <1>7 DEF AllLater, Elems
<1> QED
  BY <1>4, <1>5, <1>8 DEF AllLater

LEMMA PlayLoads ==
    ASSUME IInv, StreamInv, JoinInv, NEW c \in Clients, OrderOK(c), Loaded(c), ReadStep(c)
    PROVE  Plays(c)'
<1>1. PICK w, s, U : w = wire[c] /\ s = sendq[c] /\ U = Elems(up[c])
  OBVIOUS
<1>2. /\ cMode[c] = "waiting" /\ w # <<>> /\ Head(w).type = "GAME"
      /\ wire'[c] = Tail(w) /\ sendq'[c] = s /\ Elems(up'[c]) = U
      /\ cStep'[c] = 0 /\ cBarrier'[c] = 0 /\ cQueue'[c] = <<>>
  BY <1>1 DEF Loaded, ClientReads, ReadStep, Slot
<1>3. w \in Seq(ToClientMsgs) /\ s \in Seq(ToClientMsgs) /\ up[c] \in Seq(ToServerMsgs)
  BY <1>1, StreamTypes, LocalTypes
<1>4. GameOK(w, "waiting", s) /\ GamesAlone(w, "waiting") /\ ~Has(up[c], {"READY"})
  BY <1>1, <1>2 DEF OrderOK, JoinInv, JoinOK
<1>5. \A m \in U : m.type # "READY"
  <2>1. DOMAIN up[c] = 1 .. Len(up[c])
    BY <1>3
  <2> QED
    BY <1>1, <1>4, <2>1 DEF Elems, Has
<1>6. \A m \in Elems(Tail(w)) : m.type = "READY" => AllLater(Elems(Tail(w)) \cup Elems(s), m.step)
  BY <1>2, <1>3, <1>4, GameLoads
<1>7. AllLater(Elems(Tail(w)) \cup Elems(s), 0)
  <2>1. \A i \in 1 .. Len(w) : Sent(w[i])
    BY <1>1 DEF StreamInv, StreamOK, AllSent
  <2>2. \A i \in 1 .. Len(s) : Sent(s[i])
    BY <1>1 DEF StreamInv, StreamOK, AllSent
  <2>3. \A m : Sent(m) => LaterMsg(m, 0)
    BY LocalTypes DEF Sent, LaterMsg
  <2>4. /\ DOMAIN w = 1 .. Len(w) /\ DOMAIN s = 1 .. Len(s)
        /\ Elems(Tail(w)) \subseteq Elems(w)
    BY <1>2, <1>3, ElemsParts
  <2>5. \A m \in Elems(w) \cup Elems(s) : LaterMsg(m, 0)
    BY <2>1, <2>2, <2>3, <2>4 DEF Elems
  <2> QED
    BY <2>4, <2>5 DEF AllLater
<1>8. PlayOK(Elems(Tail(w)), Elems(s), U, {}, 0, 0)
  BY <1>5, <1>6, <1>7 DEF PlayOK
<1>9. Elems(cQueue'[c]) = {}
  BY <1>2 DEF Elems
<1> QED
  BY <1>2, <1>8, <1>9 DEF Plays

\* the steps a playing client makes by itself
LEMMA PlayRuns ==
    ASSUME IInv, StreamInv, NEW c \in Clients, Plays(c), cMode[c] = "playing",
           PopStep(c) \/ SyncStep(c) \/ AdvanceStep(c) \/ RequestStep(c)
    PROVE  Plays(c)'
<1>1. PICK W, S, U, Q : /\ W = Elems(wire[c]) /\ S = Elems(sendq[c]) /\ U = Elems(up[c])
                        /\ Q = Elems(cQueue[c])
  OBVIOUS
<1>2. PlayOK(W, S, U, Q, cStep[c], cBarrier[c])
  BY <1>1 DEF Plays
<1>3. Elems(wire'[c]) = W /\ Elems(sendq'[c]) = S
  BY <1>1 DEF PopStep, SyncStep, AdvanceStep, RequestStep, Slot
<1>4. /\ cQueue[c] \in Seq(QueuedMsgs) /\ up[c] \in Seq(ToServerMsgs)
      /\ cStep[c] \in Nat /\ cBarrier[c] \in Nat /\ cStep[c] <= cBarrier[c]
      /\ W \cup S \subseteq ToClientMsgs
  BY <1>1, LocalTypes, ReadySteps
<1>5. Q \subseteq QueuedMsgs /\ \A x \in QueuedMsgs : x.step \in Nat
  BY <1>1, <1>4, ElemsParts DEF QueuedMsgs, CheckMsgs, ToolMsgs, SyncMsgs
<1>6. CASE PopStep(c)
  <2>1. /\ cQueue[c] # <<>> /\ cQueue'[c] = Tail(cQueue[c])
        /\ UNCHANGED <<up[c], cStep[c], cBarrier[c]>>
    BY <1>6 DEF PopStep, HasDue, Slot
  <2>2. Elems(cQueue'[c]) \subseteq Q
    BY <1>1, <1>4, <2>1, ElemsParts
  <2>3. PlayOK(W, S, U, Elems(cQueue'[c]), cStep[c], cBarrier[c])
    BY <1>2, <2>2 DEF PlayOK
  <2> QED
    BY <1>1, <1>3, <2>1, <2>3 DEF Plays
<1>7. CASE SyncStep(c)
  <2> DEFINE r == [type |-> "READY", step |-> cStep[c], map |-> Head(cQueue[c]).newmap,
                   chk |-> ListAt(cLists[c], cStep[c])]
  <2>1. r.step = cStep[c]
    OBVIOUS
  <2>2. /\ cQueue'[c] = <<>> /\ cStep'[c] = cStep[c] /\ cBarrier'[c] = cStep[c]
        /\ up'[c] = up[c] \/ up'[c] = Append(up[c], r)
    BY <1>7 DEF SyncStep
  <2> HIDE DEF r
  <2>3. Elems(Append(up[c], r)) = U \cup {r}
    BY <1>1, <1>4, ElemsParts
  <2>4. Elems(up'[c]) \subseteq U \cup {r}
    BY <1>1, <2>2, <2>3
  <2>5. AllLater(W \cup S, cStep[c])
    BY <1>2, <1>4, LaterMonotone DEF PlayOK
  <2>6. Elems(cQueue'[c]) = {}
    BY <2>2 DEF Elems
  <2>7. PlayOK(W, S, Elems(up'[c]), {}, cStep[c], cStep[c])
    BY <1>2, <2>1, <2>4, <2>5 DEF PlayOK
  <2> QED
    BY <1>3, <2>2, <2>6, <2>7 DEF Plays
<1>8. CASE AdvanceStep(c)
  <2>1. /\ cStep'[c] = cStep[c] + 1 /\ ~HasDue(cQueue[c], cStep[c])
        /\ UNCHANGED <<cQueue[c], up[c], cBarrier[c]>>
    BY <1>8 DEF AdvanceStep, Slot
  <2>2. ASSUME NEW i \in 1 .. Len(cQueue[c]) PROVE cQueue[c][i].step >= cStep[c] + 1
    <3>1. /\ 1 \in 1 .. Len(cQueue[c]) /\ Head(cQueue[c]) = cQueue[c][1] /\ cQueue[c] # <<>>
          /\ cQueue[c][1] \in QueuedMsgs /\ cQueue[c][i] \in QueuedMsgs
      BY <1>4
    <3>2. cQueue[c][1].step \in Nat /\ cQueue[c][i].step \in Nat
      BY <1>5, <3>1
    <3>3. cQueue[c][1].step > cStep[c]
      BY <1>4, <2>1, <3>1, <3>2 DEF HasDue
    <3>4. i = 1 \/ 1 < i
      OBVIOUS
    <3>5. 1 < i => cQueue[c][1].step <= cQueue[c][i].step
      <4>1. InOrder(cQueue[c])
        BY DEF StreamInv, StreamOK, Ordered
      <4>2. IsQueued(cQueue[c][1]) /\ IsQueued(cQueue[c][i])
        BY <3>1, StreamTypes
      <4> QED
        BY <3>1, <4>1, <4>2 DEF InOrder, Earlier
    <3> QED
      BY <1>4, <3>2, <3>3, <3>4, <3>5
  <2>3. \A x \in Q : x.step >= cStep[c] + 1
    <3>1. DOMAIN cQueue[c] = 1 .. Len(cQueue[c])
      BY <1>4
    <3> QED
      BY <1>1, <2>2, <3>1 DEF Elems
  <2>4. PlayOK(W, S, U, Q, cStep[c] + 1, cBarrier[c])
    BY <1>2, <2>3 DEF PlayOK
  <2> QED
    BY <1>1, <1>3, <2>1, <2>4 DEF Plays
<1>9. CASE RequestStep(c)
  <2>1. PICK n : up'[c] = Append(up[c],
           [type |-> "TOOL", step |-> cStep[c], map |-> cMap[c],
            lstep |-> cStep[c], lchk |-> ListAt(cLists[c], cStep[c]), tool |-> n, at |-> 0])
    BY <1>9 DEF RequestStep
  <2> DEFINE m == [type |-> "TOOL", step |-> cStep[c], map |-> cMap[c],
                   lstep |-> cStep[c], lchk |-> ListAt(cLists[c], cStep[c]), tool |-> n, at |-> 0]
  <2>2. m.type # "READY" /\ up'[c] = Append(up[c], m)
    BY <2>1
  <2> HIDE DEF m
  <2>3. Elems(up'[c]) = U \cup {m}
    BY <1>1, <1>4, <2>2, ElemsParts
  <2>4. UNCHANGED <<cQueue[c], cStep[c], cBarrier[c]>>
    BY <1>9 DEF RequestStep, Machine
  <2>5. PlayOK(W, S, U \cup {m}, Q, cStep[c], cBarrier[c])
    <3>1. \A y \in W \cup (U \cup {m}) : y.type = "READY" => y \in W \cup U
      BY <2>2
    <3> QED
      BY <1>2, <3>1 DEF PlayOK
  <2> QED
    BY <1>1, <1>3, <2>3, <2>4, <2>5 DEF Plays
<1> QED
  BY <1>6, <1>7, <1>8, <1>9

LEMMA PlayClientSide ==
    ASSUME IInv, StreamInv, JoinInv, NEW c \in Clients, OrderOK(c), ClientSide(c),
           cMode'[c] = "playing"
    PROVE  Plays(c)'
<1>1. CASE ReadStep(c)
  <2>1. CASE Loaded(c)
    BY <1>1, <2>1, PlayLoads
  <2>2. CASE ~Loaded(c)
    <3>1. cMode[c] = "playing"
      BY <1>1, <2>2 DEF ReadStep, Accepted, Skipped, TimeRead, CommandQueued, Unpaused, Machine
    <3> QED
      BY <1>1, <3>1, PlayReads DEF OrderOK
  <2> QED
    BY <2>1, <2>2
<1>2. CASE PopStep(c) \/ SyncStep(c) \/ AdvanceStep(c) \/ RequestStep(c)
  <2>1. cMode[c] = "playing"
    BY <1>2 DEF PopStep, SyncStep, Due, AdvanceStep, RequestStep
  <2> QED
    BY <1>2, <2>1, PlayRuns DEF OrderOK
<1>3. ~ConnectStep(c) /\ ~GoneStep(c)
  BY DEF ConnectStep, GoneStep
<1> QED
  BY <1>1, <1>2, <1>3 DEF ClientSide

\* What reading, writing and sending do to a game that comes.
LEMMA GameRead ==
    ASSUME NEW S, NEW w \in Seq(S), w # <<>>, NEW s, NEW mode, NEW next, GameOK(w, mode, s),
           \/ next = mode /\ Head(w).type # "GAME"
           \/ mode = "joining" /\ next = "waiting" /\ Accepts(Head(w))
    PROVE  GameOK(Tail(w), next, s)
<1>1. /\ Len(Tail(w)) = Len(w) - 1 /\ Len(w) \in Nat \ {0} /\ Head(w) = w[1]
      /\ \A i \in 1 .. Len(Tail(w)) : Tail(w)[i] = w[i + 1] /\ i + 1 \in 1 .. Len(w)
  OBVIOUS
<1>2. ASSUME NEW i \in 1 .. Len(Tail(w)), Live(Tail(w), next, i) PROVE Live(w, mode, i + 1)
  <2>1. w[i + 1].type = "GAME"
    BY <1>1, <1>2 DEF Live
  <2>2. CASE mode = "waiting"
    BY <2>1, <2>2 DEF Live
  <2>3. CASE mode = "joining" /\ next = "waiting" /\ Accepts(Head(w))
    <3>1. 1 \in 1 .. (i + 1) - 1 /\ Accepts(w[1]) /\ \A h \in 1 .. 1 - 1 : w[h].type # "GAME"
      BY <1>1, <2>3
    <3> QED
      BY <2>1, <2>3, <3>1 DEF Live
  <2>4. CASE mode = "joining" /\ next = mode /\ Head(w).type # "GAME"
    <3>1. PICK j \in 1 .. i - 1 :
             Accepts(Tail(w)[j]) /\ \A h \in 1 .. j - 1 : Tail(w)[h].type # "GAME"
      BY <1>2, <2>4 DEF Live
    <3>2. j + 1 \in 1 .. (i + 1) - 1 /\ Accepts(w[j + 1])
      BY <1>1, <3>1
    <3>3. ASSUME NEW h \in 1 .. (j + 1) - 1 PROVE w[h].type # "GAME"
      <4>1. CASE h = 1
        BY <1>1, <2>4, <4>1
      <4>2. CASE h # 1
        <5>1. h - 1 \in 1 .. j - 1 /\ h - 1 \in 1 .. Len(Tail(w)) /\ Tail(w)[h - 1] = w[h]
          BY <1>1, <3>1, <4>2
        <5> QED
          BY <3>1, <5>1
      <4> QED
        BY <4>1, <4>2
    <3> QED
      BY <2>1, <2>4, <3>2, <3>3 DEF Live
  <2> QED
    BY <1>2, <2>2, <2>3, <2>4 DEF Live
<1> SUFFICES ASSUME NEW i \in 1 .. Len(Tail(w)), Live(Tail(w), next, i),
                    NEW j \in i + 1 .. Len(Tail(w)), Tail(w)[j].type = "READY"
             PROVE  /\ \A k \in j + 1 .. Len(Tail(w)) : LaterMsg(Tail(w)[k], Tail(w)[j].step)
                    /\ AllLater(Elems(s), Tail(w)[j].step)
  BY DEF GameOK
<1>3. i + 1 \in 1 .. Len(w) /\ Live(w, mode, i + 1)
  BY <1>1, <1>2
<1>4. j + 1 \in (i + 1) + 1 .. Len(w) /\ Tail(w)[j] = w[j + 1] /\ w[j + 1].type = "READY"
  BY <1>1
<1>5. /\ \A k \in (j + 1) + 1 .. Len(w) : LaterMsg(w[k], w[j + 1].step)
      /\ AllLater(Elems(s), w[j + 1].step)
  BY <1>3, <1>4 DEF GameOK
<1>6. ASSUME NEW k \in j + 1 .. Len(Tail(w)) PROVE LaterMsg(Tail(w)[k], Tail(w)[j].step)
  <2>1. k + 1 \in (j + 1) + 1 .. Len(w) /\ Tail(w)[k] = w[k + 1]
    BY <1>1
  <2> QED
    BY <1>4, <1>5, <2>1
<1> QED
  BY <1>4, <1>5, <1>6

LEMMA GameGrows ==
    ASSUME NEW S, NEW w \in Seq(S), NEW s, NEW mode, NEW w2, NEW s2, NEW x, GameOK(w, mode, s),
           w2 = w \/ w2 = Append(w, x), x.type \notin {"GAME", "READY"},
           \A j \in 1 .. Len(w) : w[j].type = "READY" /\ AllLater(Elems(s), w[j].step) =>
               AllLater(Elems(s2), w[j].step) /\ LaterMsg(x, w[j].step)
    PROVE  GameOK(w2, mode, s2)
<1>1. Len(w) \in Nat /\ \A i \in 1 .. Len(w) : w2[i] = w[i]
  OBVIOUS
<1>2. Len(w2) \in {Len(w), Len(w) + 1} /\ (Len(w2) = Len(w) + 1 => w2[Len(w) + 1] = x)
  OBVIOUS
<1> SUFFICES ASSUME NEW i \in 1 .. Len(w2), Live(w2, mode, i),
                    NEW j \in i + 1 .. Len(w2), w2[j].type = "READY"
             PROVE  /\ \A k \in j + 1 .. Len(w2) : LaterMsg(w2[k], w2[j].step)
                    /\ AllLater(Elems(s2), w2[j].step)
  BY DEF GameOK
<1>3. \A h \in 1 .. Len(w2) : h \in 1 .. Len(w) \/ (h = Len(w) + 1 /\ w2[h] = x)
  BY <1>1, <1>2
<1>4. j \in 1 .. Len(w) /\ i \in 1 .. Len(w)
  BY <1>1, <1>2, <1>3 DEF Live
<1>5. Live(w, mode, i)
  <2>1. i \in Nat /\ \A h \in 1 .. i : w2[h] = w[h]
    BY <1>1, <1>4
  <2>2. w[i].type = "GAME"
    BY <1>1, <1>4 DEF Live
  <2>3. CASE mode = "waiting"
    BY <2>2, <2>3 DEF Live
  <2>4. CASE mode # "waiting"
    <3>1. PICK jj \in 1 .. i - 1 : Accepts(w2[jj]) /\ \A h \in 1 .. jj - 1 : w2[h].type # "GAME"
      BY <2>4 DEF Live
    <3>2. w2[jj] = w[jj] /\ \A h \in 1 .. jj - 1 : w2[h] = w[h]
      BY <2>1
    <3>3. Accepts(w[jj]) /\ \A h \in 1 .. jj - 1 : w[h].type # "GAME"
      BY <3>1, <3>2
    <3>4. mode = "joining"
      BY <2>4 DEF Live
    <3> QED
      BY <2>2, <3>3, <3>4 DEF Live
  <2> QED
    BY <2>3, <2>4
<1>6. /\ \A k \in j + 1 .. Len(w) : LaterMsg(w[k], w[j].step)
      /\ AllLater(Elems(s), w[j].step)
  BY <1>1, <1>4, <1>5 DEF GameOK
<1>7. AllLater(Elems(s2), w[j].step) /\ LaterMsg(x, w[j].step)
  BY <1>1, <1>4, <1>6
<1>8. ASSUME NEW k \in j + 1 .. Len(w2) PROVE LaterMsg(w2[k], w2[j].step)
  <2>1. CASE k \in 1 .. Len(w)
    <3>1. k \in j + 1 .. Len(w)
      BY <1>1, <2>1
    <3> QED
      BY <1>1, <1>4, <1>6, <2>1, <3>1
  <2>2. CASE w2[k] = x
    BY <1>1, <1>4, <1>7, <2>2
  <2> QED
    BY <1>3, <2>1, <2>2
<1> QED
  BY <1>1, <1>4, <1>7, <1>8

\* The game goes to a client whose slot does not play yet, or who will not load it.
LEMMA GameSent ==
    ASSUME NEW S, NEW w \in Seq(S), NEW s \in Seq(ToClientMsgs), NEW mode, NEW g \in S, NEW r \in S,
           g.type = "GAME", r.type = "READY", ~GameComes(w, mode), mode # "playing",
           Has(w, {"GAME"}) \/ mode \notin {"joining", "waiting"} \/ s = <<>>
    PROVE  GameOK(Append(Append(w, g), r), mode, s)
<1> DEFINE v == Append(w, g)
           u == Append(v, r)
<1>1. /\ Len(u) = Len(w) + 2 /\ u[Len(w) + 1] = g /\ u[Len(w) + 2] = r /\ Len(w) \in Nat
      /\ \A i \in 1 .. Len(w) : u[i] = w[i]
  <2>1. /\ Len(v) = Len(w) + 1 /\ v[Len(w) + 1] = g /\ Len(w) \in Nat
        /\ \A i \in 1 .. Len(w) : v[i] = w[i]
    OBVIOUS
  <2>2. v \in Seq(S)
    OBVIOUS
  <2> HIDE DEF v
  <2>3. /\ Len(u) = Len(v) + 1 /\ u[Len(v) + 1] = r
        /\ \A i \in 1 .. Len(v) : u[i] = v[i]
    BY <2>2
  <2> QED
    BY <2>1, <2>3
<1> HIDE DEF u
<1> SUFFICES ASSUME NEW i \in 1 .. Len(u), Live(u, mode, i),
                    NEW j \in i + 1 .. Len(u), u[j].type = "READY"
             PROVE  /\ \A k \in j + 1 .. Len(u) : LaterMsg(u[k], u[j].step)
                    /\ AllLater(Elems(s), u[j].step)
  BY DEF GameOK, u
<1>2. \A h \in 1 .. Len(w) : w[h].type = "GAME" => ~Reached(w, mode, h)
  BY DEF GameComes
<1>3. i \notin 1 .. Len(w)
  <2> SUFFICES ASSUME i \in 1 .. Len(w) PROVE FALSE
    OBVIOUS
  <2>1. \A h \in 1 .. i : u[h] = w[h]
    BY <1>1
  <2>2. w[i].type = "GAME" /\ Reached(w, mode, i)
    BY <2>1 DEF Live, Reached
  <2> QED
    BY <1>2, <2>2
<1>4. i = Len(w) + 1 /\ j = Len(w) + 2
  BY <1>1, <1>3 DEF Live
<1>5. mode \in {"joining", "waiting"}
  BY DEF Live
<1>6. ~Has(w, {"GAME"})
  <2> SUFFICES ASSUME NEW h \in 1 .. Len(w), w[h].type = "GAME" PROVE FALSE
    BY DEF Has
  <2>1. ~Reached(w, mode, h)
    BY <1>2
  <2>2. mode = "joining"
    BY <1>5, <2>1 DEF Reached
  <2>3. PICK a \in 1 .. i - 1 : Accepts(u[a]) /\ \A b \in 1 .. a - 1 : u[b].type # "GAME"
    BY <2>2 DEF Live
  <2>4. a \in 1 .. Len(w) /\ Accepts(w[a]) /\ \A b \in 1 .. a - 1 : w[b].type # "GAME"
    <3>1. a \in 1 .. Len(w) /\ \A b \in 1 .. a - 1 : b \in 1 .. Len(w)
      BY <1>1, <1>4
    <3> QED
      BY <1>1, <2>3, <3>1
  <2>5. a # h
    BY <2>4 DEF Accepts
  <2>6. a \in 1 .. h - 1
    BY <1>1, <2>4, <2>5
  <2> QED
    BY <2>1, <2>4, <2>6 DEF Reached
<1>7. s = <<>>
  BY <1>5, <1>6
<1> QED
  BY <1>1, <1>4, <1>7 DEF AllLater, Elems

\* what comes to a client that joins
ComesOK(c) ==
    /\ cMode[c] \in {"joining", "waiting"} /\ sState[c] = "playing" => Has(wire[c], {"GAME"})
    /\ GameOK(wire[c], cMode[c], sendq[c])

LEMMA NoGameToLoad ==
    ASSUME NEW w, NEW s, NEW mode, mode \notin {"joining", "waiting"} PROVE GameOK(w, mode, s)
  BY DEF GameOK, Live

LEMMA ComesServerSide ==
    ASSUME ~SendMayFail, IInv, SInv, LogInv, SlotInv, JoinInv, NEW c \in Clients, ComesOK(c),
           ServerSide(c)
    PROVE  ComesOK(c)'
<1>1. cMode'[c] = cMode[c]
  BY ServerSideKeepsMachine DEF Machine
<1>2. CASE cMode[c] \notin {"joining", "waiting"}
  BY <1>1, <1>2, NoGameToLoad DEF ComesOK
<1> SUFFICES ASSUME cMode[c] \in {"joining", "waiting"} PROVE ComesOK(c)'
  BY <1>2
<1>3. /\ wire[c] \in Seq(ToClientMsgs) /\ up[c] \in Seq(ToServerMsgs)
      /\ sendq[c] \in Seq(ToClientMsgs) /\ sStep \in Nat
      /\ Close.type \notin {"GAME", "READY"} /\ Untimed(Close)
  BY LocalTypes, StreamTypes DEF Close, Untimed
<1>4. \A j \in 1 .. Len(wire[c]) : wire[c][j].type = "READY" => wire[c][j].step \in 0 .. sStep
  <2>1. \A j \in 1 .. Len(wire[c]) : wire[c][j] \in Elems(wire[c])
    BY <1>3, ElemsParts
  <2> QED
    BY <2>1, ReadySteps
<1>5. /\ \A x : wire[c] \o <<x>> = Append(wire[c], x)
      /\ \A x, n : Untimed(x) => LaterMsg(x, n)
  BY <1>3, UntimedIsLater
<1>6. ASSUME NEW x, x.type \notin {"GAME", "READY"},
             wire'[c] = wire[c] \/ wire'[c] = Append(wire[c], x), sState'[c] = sState[c],
             \A n \in 0 .. sStep : AllLater(Elems(sendq[c]), n) =>
                 AllLater(Elems(sendq'[c]), n) /\ LaterMsg(x, n)
      PROVE  ComesOK(c)'
  <2>1. GameOK(wire'[c], cMode[c], sendq'[c])
    <3>1. PICK w, w2, s, s2, mode : /\ w = wire[c] /\ w2 = wire'[c] /\ s = sendq[c]
                                   /\ s2 = sendq'[c] /\ mode = cMode[c]
      OBVIOUS
    <3>2. w \in Seq(ToClientMsgs) /\ GameOK(w, mode, s) /\ (w2 = w \/ w2 = Append(w, x))
      BY <1>3, <1>6, <3>1 DEF ComesOK
    <3>3. \A j \in 1 .. Len(w) : w[j].type = "READY" /\ AllLater(Elems(s), w[j].step) =>
             AllLater(Elems(s2), w[j].step) /\ LaterMsg(x, w[j].step)
      BY <1>4, <1>6, <3>1
    <3>4. GameOK(w2, mode, s2)
      BY <1>6, <3>2, <3>3, GameGrows
    <3> QED
      BY <3>1, <3>4
  <2>2. Has(wire[c], {"GAME"}) => Has(wire'[c], {"GAME"})
    <3>1. Has(wire[c], {"GAME"}) => Has(Append(wire[c], x), {"GAME"})
      BY <1>3, HasAppend
    <3> QED
      BY <1>6, <3>1
  <2> QED
    BY <1>1, <1>6, <2>1, <2>2 DEF ComesOK
<1>7. CASE FrameStep(c)
  <2>1. PICK a \in Announcements(sStep + 1, Append(sWorld, Frame)) : sendq'[c] = Queued(c, a)
    BY <1>7 DEF FrameStep
  <2>2. \A n \in 0 .. sStep : LaterMsg(a, n)
    BY NewIsLater
  <2>3. Elems(sendq'[c]) \subseteq Elems(sendq[c]) \cup {a}
    BY <1>3, <2>1, ElemsParts DEF Queued
  <2>4. wire'[c] = wire[c] /\ sState'[c] = sState[c]
    BY <1>7 DEF FrameStep
  <2>5. \A n \in 0 .. sStep : AllLater(Elems(sendq[c]), n) =>
           AllLater(Elems(sendq'[c]), n) /\ LaterMsg(Close, n)
    BY <1>3, <1>5, <2>2, <2>3 DEF AllLater
  <2> QED
    BY <1>3, <1>6, <2>4, <2>5
<1>8. CASE ScheduleStep(c)
  <2>1. PICK m : /\ Schedules(m) /\ sendq'[c] = Queued(c, m)
                 /\ \/ wire'[c] = wire[c]
                    \/ wire'[c] = Written(c, <<[type |-> "JOIN", answer |-> TRUE,
                                                newmap |-> m.newmap]>>)
    BY <1>8 DEF ScheduleStep
  <2>2. \A n \in 0 .. sStep : LaterMsg(m, n)
    BY <2>1, NewIsLater
  <2>3. Elems(sendq'[c]) \subseteq Elems(sendq[c]) \cup {m}
    BY <1>3, <2>1, ElemsParts DEF Queued
  <2> DEFINE j == [type |-> "JOIN", answer |-> TRUE, newmap |-> m.newmap]
  <2>4. Untimed(j) /\ j.type \notin {"GAME", "READY"}
    BY DEF Untimed
  <2>5. wire'[c] = wire[c] \/ wire'[c] = wire[c] \o <<j>>
    BY <2>1 DEF Written
  <2> HIDE DEF j
  <2>6. wire'[c] = wire[c] \/ wire'[c] = Append(wire[c], j)
    BY <1>5, <2>5
  <2>7. sState'[c] = sState[c]
    BY <1>8 DEF ScheduleStep
  <2>8. \A n \in 0 .. sStep : AllLater(Elems(sendq[c]), n) =>
           AllLater(Elems(sendq'[c]), n) /\ LaterMsg(j, n)
    BY <1>5, <2>2, <2>3, <2>4 DEF AllLater
  <2> QED
    BY <1>6, <2>4, <2>6, <2>7, <2>8
<1>9. CASE UNCHANGED <<wire[c], sendq[c], sState[c]>>
  <2>1. \A n \in 0 .. sStep : AllLater(Elems(sendq[c]), n) =>
           AllLater(Elems(sendq'[c]), n) /\ LaterMsg(Close, n)
    BY <1>3, <1>5, <1>9
  <2> QED
    BY <1>3, <1>6, <1>9, <2>1
<1>10. ASSUME NEW why, CutOff(c, why) PROVE ComesOK(c)'
  <2>1. sendq'[c] = <<>> /\ wire'[c] = Append(wire[c], Close) /\ sState'[c] = "inactive"
    BY <1>10 DEF CutOff
  <2>2. \A n : AllLater(Elems(sendq'[c]), n) /\ LaterMsg(Close, n)
    BY <1>3, <1>5, <2>1 DEF AllLater, Elems
  <2>3. GameOK(wire'[c], cMode[c], sendq'[c])
    <3>1. PICK w, w2, s, s2, mode : /\ w = wire[c] /\ w2 = wire'[c] /\ s = sendq[c]
                                   /\ s2 = sendq'[c] /\ mode = cMode[c]
      OBVIOUS
    <3>2. w \in Seq(ToClientMsgs) /\ GameOK(w, mode, s) /\ w2 = Append(w, Close)
      BY <1>3, <2>1, <3>1 DEF ComesOK
    <3>3. \A j \in 1 .. Len(w) : AllLater(Elems(s2), w[j].step) /\ LaterMsg(Close, w[j].step)
      BY <2>2, <3>1
    <3>4. GameOK(w2, mode, s2)
      BY <1>3, <3>2, <3>3, GameGrows
    <3> QED
      BY <3>1, <3>4
  <2> QED
    BY <1>1, <2>1, <2>3 DEF ComesOK
<1>11. CASE RunStep(c)
  BY <1>9, <1>11 DEF RunStep, Slot
<1>12. CASE ReloadStep(c)
  <2>1. PICK new \in Nat :
           \/ UNCHANGED <<wire[c], sendq[c], sState[c]>>
           \/ CutOff(c, "left")
           \/ /\ RunsSync(new) /\ Head(sQueue).who = c /\ sendq'[c] = sendq[c]
              /\ \E ms \in GameReplies(GameMsg(new), ReadyMsg(new)) : wire'[c] = Written(c, ms)
    BY <1>12 DEF ReloadStep, Slot
  <2>2. CASE /\ RunsSync(new) /\ Head(sQueue).who = c /\ sendq'[c] = sendq[c]
             /\ \E ms \in GameReplies(GameMsg(new), ReadyMsg(new)) : wire'[c] = Written(c, ms)
    <3> DEFINE g == GameMsg(new)
               r == ReadyMsg(new)
    <3>1. /\ g \in ToClientMsgs /\ r \in ToClientMsgs /\ g.type = "GAME" /\ r.type = "READY"
      BY GameTypes
    <3>2. wire'[c] = wire[c] \o <<g, r>>
      BY <2>2 DEF GameReplies, Written
    <3> HIDE DEF g, r
    <3>3. wire'[c] = Append(Append(wire[c], g), r)
      BY <1>3, <3>1, <3>2
    <3>4. ~GameComes(wire[c], cMode[c])
      BY <2>2, SyncForSteps DEF JoinInv, JoinOK
    <3>5. Has(wire[c], {"GAME"}) \/ sendq[c] = <<>>
      BY DEF ComesOK, SlotInv, SlotOK
    <3>6. GameOK(wire'[c], cMode[c], sendq'[c])
      BY <1>3, <2>2, <3>1, <3>3, <3>4, <3>5, GameSent
    <3>7. Has(wire'[c], {"GAME"})
      <4>1. Append(wire[c], g) \in Seq(ToClientMsgs) /\ g.type \in {"GAME"}
        BY <1>3, <3>1, AppendType
      <4>2. Has(Append(wire[c], g), {"GAME"})
        BY <1>3, <4>1, HasAppend
      <4>3. PICK v : v = Append(wire[c], g)
        OBVIOUS
      <4>4. v \in Seq(ToClientMsgs) /\ Has(v, {"GAME"})
        BY <4>1, <4>2, <4>3
      <4>5. Has(Append(v, r), {"GAME"})
        BY <4>4, HasAppend
      <4> QED
        BY <3>3, <4>3, <4>5
    <3> QED
      BY <1>1, <3>6, <3>7 DEF ComesOK
  <2> QED
    BY <1>9, <1>10, <2>1, <2>2
<1>13. CASE CutStep(c)
  BY <1>10, <1>13 DEF CutStep
<1>14. CASE AnswerStep(c)
  <2> DEFINE j == [type |-> "JOIN", answer |-> FALSE, newmap |-> 0]
  <2>1. Untimed(j) /\ j.type \notin {"GAME", "READY"}
    BY DEF Untimed
  <2>2. /\ up[c] # <<>> /\ sendq'[c] = sendq[c] /\ sState'[c] = sState[c]
        /\ \/ wire'[c] = wire[c] \/ wire'[c] = wire[c] \o <<j>>
           \/ Head(up[c]).type = "READY"
    BY <1>14 DEF AnswerStep, Written
  <2> HIDE DEF j
  <2>3. Head(up[c]).type # "READY"
    <3>1. 1 \in 1 .. Len(up[c]) /\ Head(up[c]) = up[c][1]
      BY <1>3, <2>2
    <3> QED
      BY <3>1 DEF JoinInv, JoinOK, Has
  <2>4. wire'[c] = wire[c] \/ wire'[c] = Append(wire[c], j)
    BY <1>5, <2>2, <2>3
  <2>5. \A n \in 0 .. sStep : AllLater(Elems(sendq[c]), n) =>
           AllLater(Elems(sendq'[c]), n) /\ LaterMsg(j, n)
    BY <1>5, <2>1, <2>2
  <2> QED
    BY <1>6, <2>1, <2>2, <2>4, <2>5
<1>15. CASE FlushStep(c)
  <2>1. /\ sendq[c] # <<>> /\ sendq'[c] = Tail(sendq[c]) /\ sState'[c] = sState[c]
        /\ wire'[c] = Append(wire[c], Head(sendq[c]))
    BY <1>5, <1>15 DEF FlushStep, Written
  <2>2. Elems(sendq[c]) = Elems(sendq'[c]) \cup {Head(sendq[c])}
    BY <1>3, <2>1, ElemsParts
  <2>3. Head(sendq[c]).type \notin {"GAME", "READY"}
    <3>1. Head(sendq[c]) \in BroadcastMsgs
      BY <2>1, LocalTypes, HeadTailType
    <3> QED
      BY <3>1 DEF BroadcastMsgs, TimeMsgs, CheckMsgs, ToolMsgs, SyncMsgs
  <2>4. \A n \in 0 .. sStep : AllLater(Elems(sendq[c]), n) =>
           AllLater(Elems(sendq'[c]), n) /\ LaterMsg(Head(sendq[c]), n)
    BY <2>2 DEF AllLater
  <2> QED
    BY <1>6, <2>1, <2>3, <2>4
<1> QED
  BY <1>7, <1>8, <1>11, <1>12, <1>13, <1>14, <1>15 DEF ServerSide

LEMMA ComesClientSide ==
    ASSUME IInv, NEW c \in Clients, ComesOK(c), ClientSide(c) PROVE ComesOK(c)'
<1>1. CASE cMode'[c] \notin {"joining", "waiting"}
  BY <1>1, NoGameToLoad DEF ComesOK
<1>2. CASE ConnectStep(c)
  BY <1>2 DEF ConnectStep, ComesOK, GameOK
<1>3. CASE ReadStep(c) /\ cMode'[c] \in {"joining", "waiting"}
  <2>1. /\ wire[c] # <<>> /\ wire'[c] = Tail(wire[c]) /\ UNCHANGED <<sendq[c], sState[c]>>
        /\ Accepted(c) \/ Skipped(c)
    BY <1>3 DEF ReadStep, Slot, Loaded, TimeRead, CommandQueued, Unpaused, ClientReads
  <2>2. /\ Head(wire[c]).type # "GAME" /\ cMode[c] \in {"joining", "waiting"}
        /\ \/ cMode'[c] = cMode[c]
           \/ cMode[c] = "joining" /\ cMode'[c] = "waiting" /\ Accepts(Head(wire[c]))
    BY <2>1 DEF Accepted, Skipped, ClientReads, Machine, Accepts
  <2>3. wire[c] \in Seq(ToClientMsgs)
    BY LocalTypes
  <2>4. GameOK(Tail(wire[c]), cMode'[c], sendq[c])
    BY <2>1, <2>2, <2>3, GameRead DEF ComesOK
  <2>5. Has(wire[c], {"GAME"}) => Has(wire'[c], {"GAME"})
    BY <2>1, <2>2, <2>3, HasTail
  <2> QED
    BY <2>1, <2>2, <2>4, <2>5 DEF ComesOK
<1>4. CASE PopStep(c) \/ SyncStep(c) \/ AdvanceStep(c) \/ RequestStep(c) \/ GoneStep(c)
  <2>1. cMode'[c] \notin {"joining", "waiting"}
    BY <1>4 DEF PopStep, SyncStep, Due, AdvanceStep, RequestStep, GoneStep, Machine
  <2> QED
    BY <1>1, <2>1
<1> QED
  BY <1>1, <1>2, <1>3, <1>4 DEF ClientSide

\* the connection does not end for a command in the past
LEMMA NotPast ==
    ASSUME IInv, NEW c \in Clients, OrderOK(c), LocalStep(c) PROVE fate'[c] # "past"
<1>1. fate[c] # "past"
  BY DEF OrderOK
<1>2. CASE GoneStep(c)
  <2>1. PICK why \in Fates : /\ WhyGone(c, why)
                             /\ fate'[c] = IF fate[c] = "none" THEN why ELSE fate[c]
    BY <1>2 DEF GoneStep
  <2>2. ASSUME why = "past" PROVE FALSE
    <3>1. cMode[c] = "playing" /\ Plays(c)
      BY <2>1, <2>2 DEF WhyGone, ClientReads, OrderOK
    <3>2. /\ wire[c] \in Seq(ToClientMsgs) /\ cQueue[c] \in Seq(QueuedMsgs)
          /\ cStep[c] \in Nat /\ cBarrier[c] \in Nat /\ cStep[c] <= cBarrier[c]
      BY LocalTypes
    <3>3. CASE ClientReads(c, "playing", {"TOOL", "SYNC"}) /\ Head(wire[c]).step < cStep[c]
      <4>1. Head(wire[c]) \in Elems(wire[c]) /\ Head(wire[c]) \in ToClientMsgs
        BY <3>2, <3>3, ElemsParts DEF ClientReads
      <4>2. Command(Head(wire[c])) /\ LaterMsg(Head(wire[c]), cBarrier[c])
        BY <3>1, <3>3, <4>1 DEF ClientReads, Command, Plays, PlayOK, AllLater
      <4>3. Head(wire[c]).step \in Nat /\ Head(wire[c]).step > cBarrier[c]
        BY <4>1, <4>2, MessageNumbers DEF LaterMsg
      <4> QED
        BY <3>2, <3>3, <4>3
    <3>4. CASE HasDue(cQueue[c], cStep[c]) /\ Head(cQueue[c]).step < cStep[c]
      <4>1. Head(cQueue[c]) \in Elems(cQueue[c]) /\ Head(cQueue[c]) \in QueuedMsgs
        BY <3>2, <3>4, ElemsParts DEF HasDue
      <4>2. Head(cQueue[c]).step >= cStep[c]
        BY <3>1, <4>1 DEF Plays, PlayOK
      <4>3. Head(cQueue[c]).step \in Nat
        BY <4>1 DEF QueuedMsgs, CheckMsgs, ToolMsgs, SyncMsgs
      <4> QED
        BY <3>2, <3>4, <4>2, <4>3
    <3> QED
      BY <2>1, <2>2, <3>3, <3>4 DEF WhyGone
  <2> QED
    BY <1>1, <2>1, <2>2
<1>3. CASE ServerSide(c)
  BY <1>1, <1>3 DEF ServerSide, FrameStep, ScheduleStep, RunStep, ReloadStep, CutStep, AnswerStep,
                    FlushStep, CutOff, Records
<1>4. CASE ClientSide(c) /\ ~GoneStep(c)
  BY <1>1, <1>4 DEF ClientSide, ConnectStep, ReadStep, PopStep, SyncStep, AdvanceStep, RequestStep,
                    Records
<1>5. CASE RestStep(c)
  BY <1>1, <1>5 DEF RestStep, Records
<1> QED
  BY <1>2, <1>3, <1>4, <1>5 DEF LocalStep

LEMMA NextOrderInv ==
    ASSUME ~SendMayFail
    PROVE  IInv /\ SInv /\ LogInv /\ SlotInv /\ StreamInv /\ JoinInv /\ OrderInv /\ [Next]_vars
              => OrderInv'
<1> SUFFICES ASSUME IInv, SInv, LogInv, SlotInv, StreamInv, JoinInv, OrderInv, [Next]_vars,
                    NEW c \in Clients
             PROVE  OrderOK(c)'
  BY DEF OrderInv
<1>1. OrderOK(c) /\ LocalStep(c)
  BY NextIsLocal DEF OrderInv
<1>2. fate'[c] # "past"
  BY <1>1, NotPast
<1>3. CASE RestStep(c)
  BY <1>1, <1>3 DEF RestStep, Machine, Slot, Records, OrderOK, Plays
<1>4. ComesOK(c) /\ (cMode[c] = "playing" => Plays(c))
  BY <1>1 DEF OrderOK, ComesOK
<1>5. CASE ServerSide(c)
  <2>1. ComesOK(c)'
    BY <1>4, <1>5, ComesServerSide
  <2>2. cMode'[c] = cMode[c]
    BY <1>5, ServerSideKeepsMachine DEF Machine
  <2>3. cMode'[c] = "playing" => Plays(c)'
    BY <1>4, <1>5, <2>2, PlayServerSide
  <2> QED
    BY <1>2, <2>1, <2>3 DEF OrderOK, ComesOK
<1>6. CASE ClientSide(c)
  <2>1. ComesOK(c)'
    BY <1>4, <1>6, ComesClientSide
  <2>2. cMode'[c] = "playing" => Plays(c)'
    BY <1>1, <1>6, PlayClientSide
  <2> QED
    BY <1>2, <2>1, <2>2 DEF OrderOK, ComesOK
<1> QED
  BY <1>1, <1>3, <1>5, <1>6 DEF LocalStep

LEMMA InitOrderInv == Init => OrderInv
  BY DEF Init, OrderInv, OrderOK, GameOK

-----------------------------------------------------------------------------
(* The theorems.                                                           *)

LEMMA QueueIsNotLate == IInv /\ SInv => \A m \in Elems(sQueue) : m.step >= sStep
<1> SUFFICES ASSUME IInv, SInv, NEW m \in Elems(sQueue) PROVE m.step >= sStep
  OBVIOUS
<1>1. sQueue \in Seq(ToolMsgs \cup SyncMsgs) /\ sStep \in Nat
  BY DEF IInv, ServerOK
<1>2. PICK i \in 1 .. Len(sQueue) : m = sQueue[i]
  BY <1>1 DEF Elems
<1> QED
  BY <1>1, <1>2 DEF SInv, QueueIsCurrent

\* No client and not the server is ever asked to execute a command of a step that is over, if
\* no direct send fails: network_world_command_t::execute never disconnects a client because
\* it "wanted to execute in the past".  Without the hypothesis a client whose NWC_READY came
\* without the game could take what a former connection left in the send queue.
THEOREM CommandsAreInTime ==
    ASSUME ~SendMayFail PROVE Spec => []NeverInThePast
<1> DEFINE Inv == IInv /\ SInv /\ LogInv /\ SlotInv /\ StreamInv /\ JoinInv /\ OrderInv
<1>1. Init => Inv
  BY InitIInv, InitSInv, InitLogInv, InitSlotInv, InitStreamInv, InitJoinInv, InitOrderInv
<1>2. Inv /\ [Next]_vars => Inv'
  BY NextIInv, NextSInv, NextLogInv, NextSlotInv, NextStreamInv, NextJoinInv, NextOrderInv
<1>3. Inv => NeverInThePast
  BY QueueIsNotLate DEF NeverInThePast, OrderInv, OrderOK
<1> QED
  BY <1>1, <1>2, <1>3, PTL DEF Spec

\* The server takes nobody for playing whom it has not sent the game, if no direct send fails.
THEOREM PlayersAreSentTheGame ==
    ASSUME ~SendMayFail PROVE Spec => []PlayersHaveTheGame
<1> DEFINE Inv == IInv /\ SInv /\ LogInv /\ SlotInv /\ StreamInv /\ JoinInv /\ OrderInv
<1>1. Init => Inv
  BY InitIInv, InitSInv, InitLogInv, InitSlotInv, InitStreamInv, InitJoinInv, InitOrderInv
<1>2. Inv /\ [Next]_vars => Inv'
  BY NextIInv, NextSInv, NextLogInv, NextSlotInv, NextStreamInv, NextJoinInv, NextOrderInv
<1>3. Inv => PlayersHaveTheGame
  <2> SUFFICES ASSUME Inv, NEW c \in Clients, sState[c] = "playing",
                      cMode[c] \in {"joining", "waiting"}
               PROVE  \E m \in Elems(wire[c]) : m.type = "GAME"
    BY DEF PlayersHaveTheGame
  <2>1. Has(wire[c], {"GAME"}) /\ wire[c] \in Seq(ToClientMsgs)
    BY LocalTypes DEF OrderInv, OrderOK
  <2> QED
    BY <2>1, ElemsParts DEF Has
<1> QED
  BY <1>1, <1>2, <1>3, PTL DEF Spec

=============================================================================
