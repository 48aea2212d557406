-------------------------- MODULE NetLockstepProofs --------------------------
(***************************************************************************)
(* Proofs about NetLockstep for any number of clients and any bounds: type *)
(* correctness, that no client runs ahead of its barrier nor a barrier     *)
(* ahead of the server (NeverAhead), and that a pending join is served     *)
(* (PendingIsServed).                                                      *)
(*                                                                         *)
(* NeverAhead is not inductive: the barrier is set from what is in the     *)
(* channels.  IInv adds that no message in them names a step the server    *)
(* has not begun: neither what the server announces (NWC_STEP, NWC_CHECK)  *)
(* nor the NWC_READY that goes from the client to the server and back.     *)
(***************************************************************************)
EXTENDS NetLockstep, TLAPS, WellFoundedInduction

\* the messages of M that name no step after n: what is announced, or reported ready
UpTo(M, n) ==
    {m \in M : /\ m.type \in {"STEP", "CHECK"} => m.sstep \in 0 .. n
               /\ m.type = "READY" => m.step \in 0 .. n}

\* the channels carry only such messages
ChannelsUpTo(n) ==
    /\ sendq \in [Clients -> Seq(UpTo(BroadcastMsgs, n))]
    /\ wire  \in [Clients -> Seq(UpTo(ToClientMsgs, n))]
    /\ up    \in [Clients -> Seq(UpTo(ToServerMsgs, n))]

\* the types of the other variables
ServerOK ==
    /\ sStep \in Nat /\ sPaused \in BOOLEAN /\ sMap \in Nat /\ sMaps \in Seq(Nat)
    /\ sWorld \in Worlds /\ sLists \in Checklists /\ sQueue \in Seq(ToolMsgs \cup SyncMsgs)
    /\ sRuns \in BOOLEAN
    /\ sState \in [Clients -> {"inactive", "connected", "playing"}]
    /\ pending \in Clients \cup {NoClient}

ClientOK ==
    /\ cMode \in [Clients -> {"out", "joining", "waiting", "playing"}]
    /\ cStep \in [Clients -> Nat] /\ cBarrier \in [Clients -> Nat]
    /\ cPaused \in [Clients -> BOOLEAN] /\ cMap \in [Clients -> Nat]
    /\ cWorld \in [Clients -> Worlds] /\ cLists \in [Clients -> Checklists]
    /\ cQueue \in [Clients -> Seq(QueuedMsgs)]

RecordsOK ==
    /\ nTools \in Nat /\ nMaps \in Nat /\ nJoins \in Nat
    /\ lost \in [Clients -> BOOLEAN] /\ fate \in [Clients -> Fates]

\* The inductive invariant.
IInv == ServerOK /\ ClientOK /\ RecordsOK /\ ChannelsUpTo(sStep) /\ NeverAhead

-----------------------------------------------------------------------------
(* Sequences.                                                              *)

\* A nonempty set of numbers has a least one.
LEMMA LeastNumber ==
    ASSUME NEW T \in SUBSET Nat, T # {}
    PROVE  \E i \in T : \A j \in T : i <= j
<1> DEFINE R == OpToRel(<, Nat)
<1>1. IsWellFoundedOn(R, Nat)
  BY NatLessThanWellFounded
<1>2. \A x, y \in Nat : x < y => <<x, y>> \in R
  BY DEF OpToRel
<1> HIDE DEF R
<1>3. \E i \in T : \A j \in T : ~(<<j, i>> \in R)
  BY <1>1, WFMin
<1>4. SUFFICES ASSUME NEW i \in T, \A j \in T : ~(<<j, i>> \in R), NEW j \in T
               PROVE  i <= j
  BY <1>3
<1>5. ~(j < i)
  BY <1>2, <1>4
<1> QED
  BY <1>5

\* command_queue_append keeps the queue a queue of the same commands.
LEMMA InsertType ==
    ASSUME NEW S, NEW q \in Seq(S), NEW m \in S
    PROVE  Insert(q, m) \in Seq(S)
<1> DEFINE Later == {i \in 1 .. Len(q) : q[i].step > m.step}
           least == CHOOSE i \in Later : \A j \in Later : i <= j
           at    == IF Later = {} THEN Len(q) + 1 ELSE least
<1>1. at \in 1 .. Len(q) + 1
  <2>1. CASE Later = {}
    BY <2>1
  <2>2. CASE Later # {}
    <3>1. Later \in SUBSET Nat /\ Later \subseteq 1 .. Len(q)
      OBVIOUS
    <3> HIDE DEF Later
    <3>2. \E i \in Later : \A j \in Later : i <= j
      BY <2>2, <3>1, LeastNumber
    <3>3. least \in Later
      BY <3>2, Zenon
    <3> HIDE DEF least
    <3> QED
      BY <2>2, <3>1, <3>3
  <2> QED
    BY <2>1, <2>2
<1> HIDE DEF at
<1>2. SubSeq(q, 1, at - 1) \in Seq(S) /\ SubSeq(q, at, Len(q)) \in Seq(S)
  BY <1>1
<1>3. SubSeq(q, 1, at - 1) \o <<m>> \o SubSeq(q, at, Len(q)) \in Seq(S)
  BY <1>2
<1> QED
  BY <1>3 DEF Insert, at

LEMMA SeqSubset ==
    ASSUME NEW S, NEW T, S \subseteq T, NEW q \in Seq(S)
    PROVE  q \in Seq(T)
  OBVIOUS

LEMMA AppendType ==
    ASSUME NEW S, NEW q \in Seq(S), NEW m \in S
    PROVE  Append(q, m) \in Seq(S)
  OBVIOUS

LEMMA TupleType ==
    ASSUME NEW S, NEW a \in S, NEW b \in S
    PROVE  <<>> \in Seq(S) /\ <<a>> \in Seq(S) /\ <<a, b>> \in Seq(S)
  OBVIOUS

LEMMA HeadTailType ==
    ASSUME NEW S, NEW q \in Seq(S), q # <<>>
    PROVE  Head(q) \in S /\ Tail(q) \in Seq(S)
  OBVIOUS

\* The server remembers map counters only.
LEMMA RememberedType ==
    ASSUME NEW maps \in Seq(Nat), NEW new \in Nat
    PROVE  Remembered(maps, new) \in Seq(Nat)
<1>1. <<new>> \o maps \in Seq(Nat) /\ Len(<<new>> \o maps) = Len(maps) + 1
  OBVIOUS
<1>2. Min2(Len(maps) + 1, MaxMapCounters) \in 0 .. Len(maps) + 1
  BY RingAssumption DEF Min2
<1> QED
  BY <1>1, <1>2 DEF Remembered

-----------------------------------------------------------------------------
(* Messages.                                                               *)

LEMMA UpToSubset ==
    ASSUME NEW M, NEW n \in Nat
    PROVE  UpTo(M, n) \subseteq M /\ UpTo(M, n) \subseteq UpTo(M, n + 1)
  BY DEF UpTo

LEMMA MessageTypes ==
    /\ \A m \in ToServerMsgs : m.type = "TOOL" => m \in ToolMsgs
    /\ \A m \in ToServerMsgs : m.type = "READY" => m \in ReadyMsgs
    /\ \A m \in ToClientMsgs : m.type \in {"STEP", "CHECK"} => m \in TimeMsgs \cup CheckMsgs
    /\ \A m \in ToClientMsgs : m.type \in {"TOOL", "SYNC"} => m \in ToolMsgs \cup SyncMsgs
    /\ \A m \in ToClientMsgs : m.type = "CHECK" => m \in CheckMsgs
    /\ \A m \in ToClientMsgs : m.type = "READY" => m \in ReadyMsgs
    /\ \A m \in ToClientMsgs : m.type = "GAME" => m \in GameMsgs
    /\ \A m \in ToClientMsgs : m.type = "JOIN" => m \in JoinMsgs
  BY DEF ToServerMsgs, ToClientMsgs, BroadcastMsgs, TimeMsgs, CheckMsgs, ToolMsgs, SyncMsgs,
         ReadyMsgs, JoinMsgs, GameMsgs, Close, JoinRequest

LEMMA MessagesUpTo ==
    ASSUME NEW n \in Nat
    PROVE  /\ ToolMsgs \cup SyncMsgs \subseteq UpTo(BroadcastMsgs, n)
           /\ ToolMsgs \subseteq UpTo(ToServerMsgs, n)
           /\ JoinRequest \in UpTo(ToServerMsgs, n)
           /\ Close \in UpTo(ToServerMsgs, n) \cap UpTo(ToClientMsgs, n)
           /\ JoinMsgs \cup GameMsgs \cup SyncMsgs \subseteq UpTo(ToClientMsgs, n)
           /\ UpTo(BroadcastMsgs, n) \subseteq UpTo(ToClientMsgs, n)
  BY DEF UpTo, BroadcastMsgs, ToClientMsgs, ToServerMsgs, TimeMsgs, CheckMsgs,
     ToolMsgs, SyncMsgs, ReadyMsgs, JoinMsgs, GameMsgs, Close, JoinRequest

-----------------------------------------------------------------------------
(* What the helpers of the server and of a client do to the channels.      *)

\* network_send_all queues a message that names no later step.
LEMMA BroadcastType ==
    ASSUME NEW n \in Nat, sendq \in [Clients -> Seq(UpTo(BroadcastMsgs, n))],
           NEW m \in UpTo(BroadcastMsgs, n), Broadcast(m)
    PROVE  sendq' \in [Clients -> Seq(UpTo(BroadcastMsgs, n))]
  BY AppendType DEF Broadcast

\* a direct send writes such messages.
LEMMA DirectType ==
    ASSUME NEW n \in Nat, wire \in [Clients -> Seq(UpTo(ToClientMsgs, n))],
           NEW c \in Clients, NEW ms \in Seq(UpTo(ToClientMsgs, n)), Direct(c, ms)
    PROVE  wire' \in [Clients -> Seq(UpTo(ToClientMsgs, n))]
<1>1. wire[c] \o ms \in Seq(UpTo(ToClientMsgs, n))
  OBVIOUS
<1> QED
  BY <1>1 DEF Direct

\* closing a slot writes the end of the connection and empties the rest.
LEMMA CloseSlotType ==
    ASSUME NEW n \in Nat, ChannelsUpTo(n), ServerOK, RecordsOK,
           NEW c \in Clients, NEW why \in Fates, CloseSlot(c, why)
    PROVE  /\ sState' \in [Clients -> {"inactive", "connected", "playing"}]
           /\ fate' \in [Clients -> Fates]
           /\ sendq' \in [Clients -> Seq(UpTo(BroadcastMsgs, n))]
           /\ wire'  \in [Clients -> Seq(UpTo(ToClientMsgs, n))]
           /\ up'    \in [Clients -> Seq(UpTo(ToServerMsgs, n))]
<1>1. Append(wire[c], Close) \in Seq(UpTo(ToClientMsgs, n))
  BY MessagesUpTo DEF ChannelsUpTo
<1>2. wire' \in [Clients -> Seq(UpTo(ToClientMsgs, n))]
  BY <1>1 DEF CloseSlot, ChannelsUpTo
<1>3. /\ sendq' \in [Clients -> Seq(UpTo(BroadcastMsgs, n))]
      /\ up'    \in [Clients -> Seq(UpTo(ToServerMsgs, n))]
  BY DEF CloseSlot, ChannelsUpTo
<1>4. /\ sState' \in [Clients -> {"inactive", "connected", "playing"}]
      /\ fate' \in [Clients -> Fates]
  BY DEF CloseSlot, ServerOK, RecordsOK
<1> QED
  BY <1>2, <1>3, <1>4

\* remove_client leaves the rest alone.
LEMMA RemoveClientInv ==
    ASSUME IInv, NEW c \in Clients, NEW why \in Fates, RemoveClient(c, why),
           UNCHANGED <<sRuns, sStep, sPaused, sMap, sMaps, sWorld, sLists, sQueue,
                       clientVars, counters, lost>>
    PROVE  IInv'
<1>1. sStep \in Nat
  BY DEF IInv, ServerOK
<1>2. /\ sState' \in [Clients -> {"inactive", "connected", "playing"}]
      /\ fate' \in [Clients -> Fates]
      /\ ChannelsUpTo(sStep)'
  BY <1>1, CloseSlotType DEF IInv, RemoveClient, ChannelsUpTo
<1>3. pending' \in Clients \cup {NoClient}
  BY DEF IInv, ServerOK, RemoveClient, PendingAfterClose
<1>4. ServerOK' /\ ClientOK' /\ RecordsOK' /\ NeverAhead'
  BY <1>2, <1>3 DEF IInv, ServerOK, ClientOK, RecordsOK, NeverAhead, clientVars, counters
<1> QED
  BY <1>2, <1>4 DEF IInv

\* network_disconnect forgets the world and tells the server.
LEMMA ClientGoneInv ==
    ASSUME IInv, NEW c \in Clients, NEW why \in Fates, ClientGone(c, why)
    PROVE  IInv'
<1>1. sStep \in Nat
  BY DEF IInv, ServerOK
<1>2. Append(up[c], Close) \in Seq(UpTo(ToServerMsgs, sStep))
  BY <1>1, MessagesUpTo DEF IInv, ChannelsUpTo
<1>3. ChannelsUpTo(sStep)'
  BY <1>2 DEF IInv, ChannelsUpTo, ClientGone, serverVars
<1>4. ServerOK' /\ RecordsOK'
  BY DEF IInv, ServerOK, RecordsOK, ClientGone, serverVars, counters
<1>5. ClientOK'
  <2>1. <<>> \in Worlds /\ <<>> \in Seq(QueuedMsgs)
    BY DEF Worlds
  <2> QED
    BY <2>1 DEF IInv, ClientOK, ClientGone
<1>6. NeverAhead'
  BY <1>1 DEF IInv, NeverAhead, ClientOK, ClientGone, serverVars
<1> QED
  BY <1>3, <1>4, <1>5, <1>6 DEF IInv

-----------------------------------------------------------------------------
(* The steps of the server.                                                *)

\* What an action that leaves the clients alone need not show.
LEMMA ServerStepInv ==
    ASSUME IInv, UNCHANGED clientVars, ServerOK', RecordsOK', ChannelsUpTo(sStep)',
           sStep' = sStep
    PROVE  IInv'
  BY DEF IInv, ClientOK, NeverAhead, clientVars

\* What the server reads of a client.
LEMMA ServerReadsType ==
    ASSUME IInv, NEW c \in Clients, up[c] # <<>>
    PROVE  /\ Head(up[c]) \in UpTo(ToServerMsgs, sStep)
           /\ Head(up[c]) \in ToServerMsgs
           /\ Consume(c) => up' \in [Clients -> Seq(UpTo(ToServerMsgs, sStep))]
<1>1. up[c] \in Seq(UpTo(ToServerMsgs, sStep))
  BY DEF IInv, ChannelsUpTo
<1>2. Head(up[c]) \in UpTo(ToServerMsgs, sStep) /\ Tail(up[c]) \in Seq(UpTo(ToServerMsgs, sStep))
  BY <1>1, HeadTailType
<1>3. Head(up[c]) \in ToServerMsgs
  BY <1>2, UpToSubset DEF IInv, ServerOK
<1> QED
  BY <1>2, <1>3 DEF Consume, IInv, ChannelsUpTo

\* LCHKLST is a world.
LEMMA ListType ==
    ASSUME NEW lists \in Checklists, NEW n \in Nat
    PROVE  ListAt(lists, n) \in Worlds
<1>1. n % Ring \in 0 .. Ring - 1
  BY RingAssumption
<1> QED
  BY <1>1 DEF ListAt, Checklists

LEMMA AppendWorld ==
    ASSUME NEW w \in Worlds
    PROVE  /\ Append(w, Frame) \in Worlds
           /\ \A n \in Nat : Append(w, Tool(n)) \in Worlds /\ Append(w, Reload(n)) \in Worlds
<1>1. Frame \in Inputs /\ \A n \in Nat : Tool(n) \in Inputs /\ Reload(n) \in Inputs
  BY DEF Frame, Reload, Tool, Inputs
<1> QED
  BY <1>1, AppendType DEF Worlds

LEMMA ServerFrameInv == ASSUME IInv, ServerFrame PROVE IInv'
<1>1. sStep \in Nat /\ sStep' = sStep + 1 /\ Append(sWorld, Frame) \in Worlds
  BY AppendWorld DEF IInv, ServerOK, ServerFrame
<1>2. PICK m \in Announcements(sStep + 1, Append(sWorld, Frame)) : Broadcast(m)
  BY DEF ServerFrame
<1>3. m \in UpTo(BroadcastMsgs, sStep + 1)
  <2> DEFINE check == [type |-> "CHECK", step |-> sStep + 2, map |-> sMap,
                       sstep |-> sStep + 1, chk |-> Append(sWorld, Frame)]
             bare  == [type |-> "STEP", sstep |-> sStep + 1]
  <2>1. m = check \/ m = bare
    BY <1>1 DEF Announcements
  <2>2. sMap \in Nat
    BY DEF IInv, ServerOK
  <2>3. check \in CheckMsgs /\ bare \in TimeMsgs
    BY <1>1, <2>2 DEF CheckMsgs, TimeMsgs
  <2>4. sStep + 1 \in 0 .. sStep + 1
    BY <1>1
  <2>5. check \in UpTo(BroadcastMsgs, sStep + 1)
    BY <2>3, <2>4 DEF UpTo, BroadcastMsgs
  <2>6. bare \in UpTo(BroadcastMsgs, sStep + 1)
    BY <2>3, <2>4 DEF UpTo, BroadcastMsgs
  <2> QED
    BY <2>1, <2>5, <2>6
<1>4. /\ sendq \in [Clients -> Seq(UpTo(BroadcastMsgs, sStep + 1))]
      /\ wire \in [Clients -> Seq(UpTo(ToClientMsgs, sStep + 1))]
      /\ up \in [Clients -> Seq(UpTo(ToServerMsgs, sStep + 1))]
  BY <1>1, UpToSubset, SeqSubset DEF IInv, ChannelsUpTo
<1>5. ChannelsUpTo(sStep)'
  <2>1. sendq' \in [Clients -> Seq(UpTo(BroadcastMsgs, sStep + 1))]
    BY <1>1, <1>2, <1>3, <1>4, BroadcastType
  <2> QED
    BY <1>1, <1>4, <2>1 DEF ChannelsUpTo, ServerFrame
<1>6. ServerOK'
  <2>1. sLists' \in Checklists
    BY <1>1 DEF IInv, ServerOK, ServerFrame, Checklists
  <2>2. sPaused' \in BOOLEAN
    BY SwitchAssumption DEF ServerFrame
  <2> QED
    BY <1>1, <2>1, <2>2 DEF IInv, ServerOK, ServerFrame
<1>7. ClientOK' /\ RecordsOK'
  BY DEF IInv, ClientOK, RecordsOK, ServerFrame, clientVars, counters, history
<1>8. NeverAhead'
  BY <1>1 DEF IInv, NeverAhead, ClientOK, ServerFrame, clientVars
<1> QED
  BY <1>5, <1>6, <1>7, <1>8 DEF IInv

\* A tool the server schedules.
LEMMA BroadcastToolType ==
    ASSUME IInv, NEW n \in Nat, BroadcastTool(n)
    PROVE  /\ ServerOK'
           /\ sendq' \in [Clients -> Seq(UpTo(BroadcastMsgs, sStep))]
<1>1. ServerClone(n) \in ToolMsgs
  BY ListType DEF ServerClone, ToolMsgs, ExecStep, Place, IInv, ServerOK, Worlds
<1>2. sQueue' \in Seq(ToolMsgs \cup SyncMsgs)
  BY <1>1, InsertType DEF BroadcastTool, IInv, ServerOK
<1>3. ServerOK'
  BY <1>2 DEF BroadcastTool, IInv, ServerOK
<1>4. sendq' \in [Clients -> Seq(UpTo(BroadcastMsgs, sStep))]
  BY <1>1, MessagesUpTo, BroadcastType DEF BroadcastTool, IInv, ServerOK, ChannelsUpTo
<1> QED
  BY <1>3, <1>4

LEMMA ServerToolInv == ASSUME IInv, ServerTool PROVE IInv'
<1>1. nTools + 1 \in Nat /\ nTools' = nTools + 1
  BY DEF IInv, RecordsOK, ServerTool
<1>2. ServerOK' /\ sendq' \in [Clients -> Seq(UpTo(BroadcastMsgs, sStep))]
  BY <1>1, BroadcastToolType DEF ServerTool
<1>3. ChannelsUpTo(sStep)'
  BY <1>2 DEF IInv, ChannelsUpTo, ServerTool, BroadcastTool
<1>4. RecordsOK'
  BY <1>1 DEF IInv, RecordsOK, ServerTool, BroadcastTool, history
<1> QED
  BY <1>2, <1>3, <1>4, ServerStepInv DEF ServerTool, BroadcastTool

LEMMA ServerKicksInitiatorInv ==
    ASSUME IInv, NEW c \in Clients, ServerKicksInitiator(c) PROVE IInv'
  BY RemoveClientInv DEF ServerKicksInitiator, Fates

LEMMA ServerIgnoresToolInv ==
    ASSUME IInv, NEW c \in Clients, ServerIgnoresTool(c) PROVE IInv'
<1>1. ChannelsUpTo(sStep)'
  BY ServerReadsType
     DEF IInv, ChannelsUpTo, ServerIgnoresTool, ServerReads, serverVars
<1>2. ServerOK' /\ RecordsOK'
  BY DEF IInv, ServerOK, RecordsOK, ServerIgnoresTool, serverVars, counters, history
<1> QED
  BY <1>1, <1>2, ServerStepInv DEF ServerIgnoresTool, serverVars

LEMMA ServerFailsToAnswerInv ==
    ASSUME IInv, NEW c \in Clients, ServerFailsToAnswer(c) PROVE IInv'
<1>1. ChannelsUpTo(sStep)'
  BY ServerReadsType
     DEF IInv, ChannelsUpTo, ServerFailsToAnswer, ServerReads, serverVars
<1>2. ServerOK' /\ RecordsOK'
  BY DEF IInv, ServerOK, RecordsOK, ServerFailsToAnswer, serverVars, counters, history
<1> QED
  BY <1>1, <1>2, ServerStepInv DEF ServerFailsToAnswer, serverVars

LEMMA ServerSchedulesToolInv ==
    ASSUME IInv, NEW c \in Clients, ServerSchedulesTool(c) PROVE IInv'
<1> DEFINE m == Head(up[c])
<1>1. m \in ToolMsgs /\ up' \in [Clients -> Seq(UpTo(ToServerMsgs, sStep))]
  BY ServerReadsType, MessageTypes DEF ServerSchedulesTool, ServerReads
<1>2. m.tool \in Nat
  BY <1>1 DEF ToolMsgs
<1>3. BroadcastTool(m.tool)
  BY DEF ServerSchedulesTool
<1> HIDE DEF m
<1>4. ServerOK' /\ sendq' \in [Clients -> Seq(UpTo(BroadcastMsgs, sStep))]
  BY <1>2, <1>3, BroadcastToolType
<1>5. ChannelsUpTo(sStep)'
  BY <1>1, <1>3, <1>4 DEF IInv, ChannelsUpTo, BroadcastTool
<1>6. RecordsOK'
  BY <1>3 DEF IInv, RecordsOK, ServerSchedulesTool, BroadcastTool, history
<1> QED
  BY <1>3, <1>4, <1>5, <1>6, ServerStepInv DEF BroadcastTool

LEMMA ServerRefusesJoinInv ==
    ASSUME IInv, NEW c \in Clients, ServerRefusesJoin(c) PROVE IInv'
<1>1. sStep \in Nat
  BY DEF IInv, ServerOK
<1> DEFINE answer == [type |-> "JOIN", answer |-> FALSE, newmap |-> 0]
<1>2. answer \in UpTo(ToClientMsgs, sStep) /\ Direct(c, <<answer>>)
  BY <1>1, MessagesUpTo DEF JoinMsgs, ServerRefusesJoin
<1> HIDE DEF answer
<1>3. wire' \in [Clients -> Seq(UpTo(ToClientMsgs, sStep))]
  BY <1>1, <1>2, TupleType, DirectType DEF IInv, ChannelsUpTo
<1>4. ChannelsUpTo(sStep)'
  BY <1>3, ServerReadsType
     DEF IInv, ChannelsUpTo, ServerRefusesJoin, ServerReads, serverVars
<1>5. ServerOK' /\ RecordsOK'
  BY DEF IInv, ServerOK, RecordsOK, ServerRefusesJoin, serverVars, counters, history
<1> QED
  BY <1>4, <1>5, ServerStepInv DEF ServerRefusesJoin, serverVars

\* The NWC_SYNC the server schedules.
LEMMA SyncMsgType ==
    ASSUME IInv, NEW who \in Clients \cup {NoClient}
    PROVE  /\ SyncMsg(who) \in SyncMsgs
           /\ SyncMsg(who) \in UpTo(BroadcastMsgs, sStep)
           /\ Insert(sQueue, SyncMsg(who)) \in Seq(ToolMsgs \cup SyncMsgs)
<1>1. SyncMsg(who) \in SyncMsgs
  BY DEF SyncMsg, SyncMsgs, ExecStep, Place, IInv, ServerOK, RecordsOK, Worlds
<1>2. SyncMsg(who) \in UpTo(BroadcastMsgs, sStep)
  BY <1>1, MessagesUpTo DEF IInv, ServerOK
<1>3. Insert(sQueue, SyncMsg(who)) \in Seq(ToolMsgs \cup SyncMsgs)
  BY <1>1, InsertType DEF IInv, ServerOK
<1> QED
  BY <1>1, <1>2, <1>3

LEMMA ServerAcceptsJoinInv ==
    ASSUME IInv, NEW c \in Clients, ServerAcceptsJoin(c) PROVE IInv'
<1>1. sStep \in Nat /\ nMaps + 1 \in Nat
  BY DEF IInv, ServerOK, RecordsOK
<1> DEFINE answer == [type |-> "JOIN", answer |-> TRUE, newmap |-> nMaps + 1]
<1>2. answer \in UpTo(ToClientMsgs, sStep) /\ Direct(c, <<answer>>)
  BY <1>1, MessagesUpTo DEF JoinMsgs, ServerAcceptsJoin
<1> HIDE DEF answer
<1>3. wire' \in [Clients -> Seq(UpTo(ToClientMsgs, sStep))]
  BY <1>1, <1>2, TupleType, DirectType DEF IInv, ChannelsUpTo
<1>4. sendq' \in [Clients -> Seq(UpTo(BroadcastMsgs, sStep))]
  BY <1>1, SyncMsgType, BroadcastType DEF IInv, ChannelsUpTo, ServerAcceptsJoin
<1>5. ChannelsUpTo(sStep)'
  BY <1>3, <1>4, ServerReadsType DEF ChannelsUpTo, ServerAcceptsJoin, ServerReads
<1>6. ServerOK'
  BY SyncMsgType DEF IInv, ServerOK, ServerAcceptsJoin
<1>7. RecordsOK'
  BY <1>1 DEF IInv, RecordsOK, ServerAcceptsJoin, history
<1> QED
  BY <1>5, <1>6, <1>7, ServerStepInv DEF ServerAcceptsJoin

LEMMA ServerForcesSyncInv == ASSUME IInv, ServerForcesSync PROVE IInv'
<1>1. sStep \in Nat /\ nMaps + 1 \in Nat
  BY DEF IInv, ServerOK, RecordsOK
<1>2. ChannelsUpTo(sStep)'
  BY <1>1, SyncMsgType, BroadcastType DEF IInv, ChannelsUpTo, ServerForcesSync
<1>3. ServerOK'
  BY SyncMsgType DEF IInv, ServerOK, ServerForcesSync
<1>4. RecordsOK'
  BY <1>1 DEF IInv, RecordsOK, ServerForcesSync, history
<1> QED
  BY <1>2, <1>3, <1>4, ServerStepInv DEF ServerForcesSync

\* An NWC_READY that goes back was read from the client: its step is one of the server's.
LEMMA ServerGetsReadyInv ==
    ASSUME IInv, NEW c \in Clients, ServerGetsReady(c) PROVE IInv'
<1> DEFINE m == Head(up[c])
           Wrong == Available(m.step, sStep) /\ ListAt(sLists, m.step) # m.chk
<1>1. ServerReads(c, "READY")
  BY DEF ServerGetsReady
<1>2. sStep \in Nat
  BY DEF IInv, ServerOK
<1>3. m \in ReadyMsgs /\ m \in UpTo(ToServerMsgs, sStep)
  BY <1>1, ServerReadsType, MessageTypes DEF ServerReads
<1>4. m \in UpTo(ToClientMsgs, sStep)
  BY <1>3 DEF UpTo, ToClientMsgs
<1>5. CASE RemoveClient(c, "checklist") \/ RemoveClient(c, "map")
  BY <1>5, RemoveClientInv DEF ServerGetsReady, Fates
<1>6. CASE /\ Consume(c)
           /\ \E ms \in ReadyReplies(m) : Direct(c, ms)
           /\ UNCHANGED <<sState, pending, sendq, fate>>
  <2>1. PICK ms \in ReadyReplies(m) : Direct(c, ms)
    BY <1>6
  <2>2. ms = <<m>> \/ ms = <<>>
    BY DEF ReadyReplies
  <2> HIDE DEF m
  <2>3. ms \in Seq(UpTo(ToClientMsgs, sStep))
    BY <1>4, <2>2, TupleType
  <2>4. wire' \in [Clients -> Seq(UpTo(ToClientMsgs, sStep))]
    BY <1>2, <2>1, <2>3, DirectType DEF IInv, ChannelsUpTo
  <2>5. ChannelsUpTo(sStep)'
    BY <1>1, <1>6, <2>4, ServerReadsType DEF IInv, ChannelsUpTo, ServerGetsReady, ServerReads
  <2>6. ServerOK' /\ RecordsOK'
    BY <1>6 DEF IInv, ServerOK, RecordsOK, ServerGetsReady, counters
  <2> QED
    BY <2>5, <2>6, ServerStepInv DEF ServerGetsReady
<1> QED
  BY <1>5, <1>6 DEF ServerGetsReady

LEMMA ServerGetsCloseInv ==
    ASSUME IInv, NEW c \in Clients, ServerGetsClose(c) PROVE IInv'
  BY RemoveClientInv DEF ServerGetsClose, Fates

LEMMA ServerDropsClientInv ==
    ASSUME IInv, NEW c \in Clients, ServerDropsClient(c) PROVE IInv'
  BY RemoveClientInv DEF ServerDropsClient, Fates

\* save, load and the new map counter
LEMMA ServerReloadsType ==
    ASSUME IInv, NEW new \in Nat, ServerReloads(new)
    PROVE  /\ sStep' = sStep /\ sPaused' \in BOOLEAN /\ sMap' \in Nat
           /\ sMaps' \in Seq(Nat) /\ sWorld' \in Worlds /\ sLists' \in Checklists
           /\ sQueue' \in Seq(ToolMsgs \cup SyncMsgs) /\ sRuns' \in BOOLEAN
           /\ pending' \in Clients \cup {NoClient}
<1>1. sWorld' \in Worlds
  BY AppendWorld DEF IInv, ServerOK, ServerReloads
<1>2. sMaps' \in Seq(Nat)
  BY RememberedType DEF IInv, ServerOK, ServerReloads
<1>3. sQueue' \in Seq(ToolMsgs \cup SyncMsgs)
  BY DEF ServerReloads
<1> QED
  BY <1>1, <1>2, <1>3 DEF IInv, ServerOK, ServerReloads, PendingAfterReload

LEMMA ServerReloadsAtOnceInv == ASSUME IInv, ServerReloadsAtOnce PROVE IInv'
<1>1. nMaps + 1 \in Nat
  BY DEF IInv, RecordsOK
<1>2. ServerOK'
  BY <1>1, ServerReloadsType DEF IInv, ServerOK, ServerReloadsAtOnce
<1>3. sStep' = sStep
  BY DEF ServerReloadsAtOnce, ServerReloads
<1>4. ChannelsUpTo(sStep)' /\ RecordsOK'
  BY <1>1, <1>3 DEF IInv, ChannelsUpTo, RecordsOK, ServerReloadsAtOnce, channels, history
<1> QED
  BY <1>2, <1>3, <1>4, ServerStepInv DEF ServerReloadsAtOnce

\* The command at the head of the queue.
LEMMA QueueHeadType ==
    ASSUME IInv, HasDue(sQueue, sStep)
    PROVE  /\ Tail(sQueue) \in Seq(ToolMsgs \cup SyncMsgs)
           /\ Head(sQueue).type = "TOOL" => Head(sQueue) \in ToolMsgs
           /\ Head(sQueue).type = "SYNC" => Head(sQueue) \in SyncMsgs
<1>1. Head(sQueue) \in ToolMsgs \cup SyncMsgs /\ Tail(sQueue) \in Seq(ToolMsgs \cup SyncMsgs)
  BY HeadTailType DEF IInv, ServerOK, HasDue
<1> QED
  BY <1>1 DEF ToolMsgs, SyncMsgs

LEMMA ServerRunsToolInv == ASSUME IInv, ServerRunsTool PROVE IInv'
<1> DEFINE m    == Head(sQueue)
           runs == Runs(m, sStep, sMap, sLists)
<1>1. /\ sQueue' \in Seq(ToolMsgs \cup SyncMsgs)
      /\ m.type = "TOOL" => m.tool \in Nat
  BY QueueHeadType DEF ServerRunsTool, ToolMsgs
<1>2. sWorld' = (IF runs THEN Append(sWorld, Tool(m.tool)) ELSE sWorld) /\ (runs => m.type = "TOOL")
  BY DEF ServerRunsTool
<1> HIDE DEF m, runs
<1>3. sWorld' \in Worlds
  BY <1>1, <1>2, AppendWorld DEF IInv, ServerOK
<1>4. sRuns' \in BOOLEAN
  BY DEF ServerRunsTool, HasDue
<1>5. ServerOK'
  BY <1>1, <1>3, <1>4 DEF IInv, ServerOK, ServerRunsTool
<1>6. ChannelsUpTo(sStep)' /\ RecordsOK'
  BY DEF IInv, ChannelsUpTo, RecordsOK, ServerRunsTool, channels, counters, history
<1> QED
  BY <1>5, <1>6, ServerStepInv DEF ServerRunsTool

\* The game is followed by an NWC_READY of the step the server is at.
LEMMA SendGameType ==
    ASSUME IInv, NEW c \in Clients, sMap' \in Nat, SendGame(c)
    PROVE  /\ sState' \in [Clients -> {"inactive", "connected", "playing"}]
           /\ fate' \in [Clients -> Fates]
           /\ sendq' \in [Clients -> Seq(UpTo(BroadcastMsgs, sStep))]
           /\ wire'  \in [Clients -> Seq(UpTo(ToClientMsgs, sStep))]
           /\ up'    \in [Clients -> Seq(UpTo(ToServerMsgs, sStep))]
<1> DEFINE game  == [type |-> "GAME", world |-> sWorld, reload |-> sMap']
           ready == [type |-> "READY", step |-> sStep, map |-> sMap',
                     chk |-> ListAt(sLists, sStep)]
<1>1. sStep \in Nat
  BY DEF IInv, ServerOK
<1>2. game \in UpTo(ToClientMsgs, sStep)
  BY <1>1, MessagesUpTo DEF IInv, ServerOK, GameMsgs
<1>3. ready \in UpTo(ToClientMsgs, sStep)
  <2>1. ListAt(sLists, sStep) \in Worlds
    BY <1>1, ListType DEF IInv, ServerOK
  <2>2. ready \in ReadyMsgs
    BY <1>1, <2>1 DEF ReadyMsgs
  <2>3. sStep \in 0 .. sStep
    BY <1>1
  <2> QED
    BY <2>2, <2>3 DEF UpTo, ToClientMsgs
<1>4. \/ CloseSlot(c, "left")
      \/ \E ms \in {<<game, ready>>, <<game>>, <<ready>>, <<>>} :
            /\ Direct(c, ms)
            /\ sState' \in {[sState EXCEPT ![c] = "playing"], sState}
            /\ UNCHANGED <<sendq, up, fate>>
  BY DEF SendGame, GameReplies
<1> HIDE DEF game, ready
<1>5. CASE CloseSlot(c, "left")
  BY <1>1, <1>5, CloseSlotType DEF IInv, Fates
<1>6. ASSUME NEW ms \in {<<game, ready>>, <<game>>, <<ready>>, <<>>}, Direct(c, ms),
             sState' \in {[sState EXCEPT ![c] = "playing"], sState},
             UNCHANGED <<sendq, up, fate>>
      PROVE  /\ sState' \in [Clients -> {"inactive", "connected", "playing"}]
             /\ fate' \in [Clients -> Fates]
             /\ sendq' \in [Clients -> Seq(UpTo(BroadcastMsgs, sStep))]
             /\ wire'  \in [Clients -> Seq(UpTo(ToClientMsgs, sStep))]
             /\ up'    \in [Clients -> Seq(UpTo(ToServerMsgs, sStep))]
  <2>1. ms \in Seq(UpTo(ToClientMsgs, sStep))
    BY <1>2, <1>3, <1>6, TupleType
  <2>2. wire' \in [Clients -> Seq(UpTo(ToClientMsgs, sStep))]
    BY <1>1, <1>6, <2>1, DirectType DEF IInv, ChannelsUpTo
  <2> QED
    BY <1>6, <2>2 DEF IInv, ServerOK, RecordsOK, ChannelsUpTo
<1> QED
  BY <1>4, <1>5, <1>6

LEMMA ServerRunsSyncInv == ASSUME IInv, ServerRunsSync PROVE IInv'
<1> DEFINE m == Head(sQueue)
<1>1. m \in SyncMsgs
  BY QueueHeadType DEF ServerRunsSync
<1>2. m.newmap \in Nat /\ m.who \in Clients \cup {NoClient}
  BY <1>1 DEF SyncMsgs
<1>3. ServerReloads(m.newmap) /\ UNCHANGED <<clientVars, counters, lost>>
  BY DEF ServerRunsSync
<1>4. SendGame(m.who) \/ UNCHANGED <<sState, channels, fate>>
  BY DEF ServerRunsSync
<1>5. m.who = NoClient => UNCHANGED <<sState, channels, fate>>
  BY DEF ServerRunsSync
<1> HIDE DEF m
<1>6. /\ sState' \in [Clients -> {"inactive", "connected", "playing"}]
      /\ fate' \in [Clients -> Fates]
      /\ sendq' \in [Clients -> Seq(UpTo(BroadcastMsgs, sStep))]
      /\ wire'  \in [Clients -> Seq(UpTo(ToClientMsgs, sStep))]
      /\ up'    \in [Clients -> Seq(UpTo(ToServerMsgs, sStep))]
  <2>1. CASE UNCHANGED <<sState, channels, fate>>
    BY <2>1 DEF IInv, ServerOK, RecordsOK, ChannelsUpTo, channels
  <2>2. CASE m.who \in Clients /\ SendGame(m.who)
    BY <1>2, <1>3, <2>2, ServerReloadsType, SendGameType
  <2> QED
    BY <1>2, <1>4, <1>5, <2>1, <2>2
<1>7. ServerOK' /\ sStep' = sStep
  BY <1>2, <1>3, <1>6, ServerReloadsType DEF IInv, ServerOK
<1>8. ChannelsUpTo(sStep)'
  BY <1>6, <1>7 DEF ChannelsUpTo
<1>9. RecordsOK'
  BY <1>3, <1>6 DEF IInv, RecordsOK, counters
<1> QED
  BY <1>3, <1>7, <1>8, <1>9, ServerStepInv

LEMMA FlushInv == ASSUME IInv, NEW c \in Clients, Flush(c) PROVE IInv'
<1>1. sStep \in Nat
  BY DEF IInv, ServerOK
<1>2. /\ Head(sendq[c]) \in UpTo(BroadcastMsgs, sStep)
      /\ Tail(sendq[c]) \in Seq(UpTo(BroadcastMsgs, sStep))
  BY HeadTailType DEF IInv, ChannelsUpTo, Flush
<1>3. Head(sendq[c]) \in UpTo(ToClientMsgs, sStep)
  BY <1>1, <1>2, MessagesUpTo
<1>4. wire' \in [Clients -> Seq(UpTo(ToClientMsgs, sStep))]
  BY <1>1, <1>3, TupleType, DirectType DEF IInv, ChannelsUpTo, Flush
<1>5. ChannelsUpTo(sStep)'
  BY <1>2, <1>4 DEF IInv, ChannelsUpTo, Flush
<1>6. ServerOK' /\ RecordsOK'
  BY DEF IInv, ServerOK, RecordsOK, Flush, HasDue, counters, history
<1> QED
  BY <1>5, <1>6, ServerStepInv DEF Flush

-----------------------------------------------------------------------------
(* The steps of a client.                                                  *)

\* What an action that leaves the server alone need not show.
LEMMA ClientStepInv ==
    ASSUME IInv, UNCHANGED serverVars, ClientOK', RecordsOK', ChannelsUpTo(sStep)', NeverAhead'
    PROVE  IInv'
  BY DEF IInv, ServerOK, serverVars

\* An action that moves neither step nor barrier.
LEMMA StillNotAhead ==
    ASSUME NeverAhead, UNCHANGED <<cStep, cBarrier, serverVars>>
    PROVE  NeverAhead'
  BY DEF NeverAhead, serverVars

\* What the client reads.
LEMMA ClientReadsType ==
    ASSUME IInv, NEW c \in Clients, wire[c] # <<>>
    PROVE  /\ Head(wire[c]) \in UpTo(ToClientMsgs, sStep)
           /\ Head(wire[c]) \in ToClientMsgs
           /\ ConsumeWire(c) => wire' \in [Clients -> Seq(UpTo(ToClientMsgs, sStep))]
<1>1. wire[c] \in Seq(UpTo(ToClientMsgs, sStep))
  BY DEF IInv, ChannelsUpTo
<1>2. /\ Head(wire[c]) \in UpTo(ToClientMsgs, sStep)
      /\ Tail(wire[c]) \in Seq(UpTo(ToClientMsgs, sStep))
  BY <1>1, HeadTailType
<1>3. Head(wire[c]) \in ToClientMsgs
  BY <1>2, UpToSubset DEF IInv, ServerOK
<1> QED
  BY <1>2, <1>3 DEF ConsumeWire, IInv, ChannelsUpTo

\* An action that only takes a message off the wire.
LEMMA ConsumeWireType ==
    ASSUME IInv, NEW c \in Clients, wire[c] # <<>>, ConsumeWire(c),
           UNCHANGED <<serverVars, sendq, up>>
    PROVE  ChannelsUpTo(sStep)'
  BY ClientReadsType DEF IInv, ChannelsUpTo, serverVars

LEMMA ConnectInv == ASSUME IInv, NEW c \in Clients, Connect(c) PROVE IInv'
<1>1. sStep \in Nat
  BY DEF IInv, ServerOK
<1>2. <<JoinRequest>> \in Seq(UpTo(ToServerMsgs, sStep))
  BY <1>1, MessagesUpTo, TupleType
<1>3. ChannelsUpTo(sStep)'
  BY <1>2 DEF IInv, ChannelsUpTo, Connect
<1>4. ServerOK'
  BY DEF IInv, ServerOK, Connect
<1>5. ClientOK'
  BY DEF IInv, ClientOK, Connect
<1>6. RecordsOK'
  BY DEF IInv, RecordsOK, Connect, Fates
<1>7. NeverAhead'
  BY DEF IInv, NeverAhead, Connect
<1> QED
  BY <1>3, <1>4, <1>5, <1>6, <1>7 DEF IInv

LEMMA ClientIsAcceptedInv == ASSUME IInv, NEW c \in Clients, ClientIsAccepted(c) PROVE IInv'
<1>1. Head(wire[c]) \in JoinMsgs
  BY ClientReadsType, MessageTypes DEF ClientIsAccepted, ClientReads
<1>2. Head(wire[c]).newmap \in Nat
  BY <1>1 DEF JoinMsgs
<1>3. ChannelsUpTo(sStep)'
  BY ConsumeWireType DEF ClientIsAccepted, ClientReads
<1>4. ClientOK' /\ RecordsOK'
  BY <1>2 DEF IInv, ClientOK, RecordsOK, ClientIsAccepted, counters, history
<1>5. NeverAhead'
  BY StillNotAhead DEF IInv, ClientIsAccepted
<1> QED
  BY <1>3, <1>4, <1>5, ClientStepInv DEF ClientIsAccepted

LEMMA ClientSkipsInv == ASSUME IInv, NEW c \in Clients, ClientSkips(c) PROVE IInv'
<1>1. ChannelsUpTo(sStep)'
  BY ConsumeWireType DEF ClientSkips, ClientReads
<1>2. ClientOK' /\ RecordsOK'
  BY DEF IInv, ClientOK, RecordsOK, ClientSkips, counters, history
<1>3. NeverAhead'
  BY StillNotAhead DEF IInv, ClientSkips
<1> QED
  BY <1>1, <1>2, <1>3, ClientStepInv DEF ClientSkips

LEMMA ClientLoadsGameInv == ASSUME IInv, NEW c \in Clients, ClientLoadsGame(c) PROVE IInv'
<1>1. Head(wire[c]) \in GameMsgs
  BY ClientReadsType, MessageTypes DEF ClientLoadsGame, ClientReads
<1>2. Append(Head(wire[c]).world, Reload(Head(wire[c]).reload)) \in Worlds
  BY <1>1, AppendWorld DEF GameMsgs
<1>3. ChannelsUpTo(sStep)'
  BY ConsumeWireType DEF ClientLoadsGame, ClientReads
<1>4. ClientOK' /\ RecordsOK'
  <2>1. <<>> \in Seq(QueuedMsgs)
    OBVIOUS
  <2> QED
    BY <1>2, <2>1 DEF IInv, ClientOK, RecordsOK, ClientLoadsGame, counters, history
<1>5. NeverAhead'
  BY DEF IInv, NeverAhead, ServerOK, ClientOK, ClientLoadsGame, serverVars
<1> QED
  BY <1>3, <1>4, <1>5, ClientStepInv DEF ClientLoadsGame

\* The barrier goes to a step the server announced, and never back.
LEMMA RaisedBarrierBound ==
    ASSUME IInv, NEW c \in Clients, wire[c] # <<>>,
           Head(wire[c]).type \in {"STEP", "CHECK"}
    PROVE  /\ RaisedBarrier(c, Head(wire[c])) \in cBarrier[c] .. sStep
           /\ RaisedBarrier(c, Head(wire[c])) \in Nat
<1> DEFINE m == Head(wire[c])
<1>1. m \in UpTo(ToClientMsgs, sStep)
  BY ClientReadsType
<1>2. m.sstep \in 0 .. sStep
  BY <1>1 DEF UpTo
<1>3. cBarrier[c] \in Nat /\ sStep \in Nat /\ cBarrier[c] <= sStep
  BY DEF IInv, ClientOK, ServerOK, NeverAhead
<1> HIDE DEF m
<1>4. RaisedBarrier(c, m) \in cBarrier[c] .. sStep /\ RaisedBarrier(c, m) \in Nat
  BY <1>2, <1>3 DEF RaisedBarrier
<1> QED
  BY <1>4 DEF m

LEMMA BarrierRaisedInv ==
    ASSUME IInv, NEW c \in Clients, NEW b \in Nat, b \in cBarrier[c] .. sStep,
           cBarrier' = [cBarrier EXCEPT ![c] = b], UNCHANGED <<cStep, serverVars>>
    PROVE  NeverAhead'
  BY DEF IInv, NeverAhead, ClientOK, ServerOK, serverVars

LEMMA ClientGetsStepInv == ASSUME IInv, NEW c \in Clients, ClientGetsStep(c) PROVE IInv'
<1> DEFINE b == RaisedBarrier(c, Head(wire[c]))
<1>1. b \in cBarrier[c] .. sStep /\ b \in Nat
  BY RaisedBarrierBound DEF ClientGetsStep, ClientReads
<1>2. cBarrier' = [cBarrier EXCEPT ![c] = b] /\ UNCHANGED <<cStep, serverVars>>
  BY DEF ClientGetsStep
<1> HIDE DEF b
<1>3. NeverAhead'
  BY <1>1, <1>2, BarrierRaisedInv
<1>4. ChannelsUpTo(sStep)'
  BY ConsumeWireType DEF ClientGetsStep, ClientReads
<1>5. ClientOK' /\ RecordsOK'
  BY <1>1, <1>2 DEF IInv, ClientOK, RecordsOK, ClientGetsStep, counters, history
<1> QED
  BY <1>2, <1>3, <1>4, <1>5, ClientStepInv

LEMMA ClientGetsCheckInv == ASSUME IInv, NEW c \in Clients, ClientGetsCheck(c) PROVE IInv'
<1> DEFINE m == Head(wire[c])
           b == RaisedBarrier(c, m)
<1>1. b \in cBarrier[c] .. sStep /\ b \in Nat
  BY RaisedBarrierBound DEF ClientGetsCheck, ClientReads
<1>2. cBarrier' = [cBarrier EXCEPT ![c] = b] /\ UNCHANGED <<cStep, serverVars>>
  BY DEF ClientGetsCheck
<1>3. m \in QueuedMsgs
  BY ClientReadsType, MessageTypes DEF ClientGetsCheck, ClientReads, QueuedMsgs
<1>4. cQueue' = [cQueue EXCEPT ![c] = IF m.step < cStep[c] THEN @ ELSE Insert(@, m)]
  BY DEF ClientGetsCheck
<1> HIDE DEF b, m
<1>5. Insert(cQueue[c], m) \in Seq(QueuedMsgs)
  BY <1>3, InsertType DEF IInv, ClientOK
<1>6. NeverAhead'
  BY <1>1, <1>2, BarrierRaisedInv
<1>7. ChannelsUpTo(sStep)'
  BY ConsumeWireType DEF ClientGetsCheck, ClientReads
<1>8. ClientOK'
  BY <1>1, <1>2, <1>4, <1>5 DEF IInv, ClientOK, ClientGetsCheck
<1>9. RecordsOK'
  BY DEF IInv, RecordsOK, ClientGetsCheck, counters, history
<1> QED
  BY <1>2, <1>6, <1>7, <1>8, <1>9, ClientStepInv

LEMMA ClientQueuesInv == ASSUME IInv, NEW c \in Clients, ClientQueues(c) PROVE IInv'
<1> DEFINE m == Head(wire[c])
<1>1. CASE ClientGone(c, "past")
  BY <1>1, ClientGoneInv DEF Fates
<1>2. CASE /\ cQueue' = [cQueue EXCEPT ![c] = Insert(@, m)]
           /\ ConsumeWire(c)
           /\ UNCHANGED <<serverVars, cMode, cStep, cBarrier, cPaused, cMap, cWorld,
                          cLists, sendq, up, counters, history>>
  <2>1. m \in QueuedMsgs
    BY ClientReadsType, MessageTypes DEF ClientQueues, ClientReads, QueuedMsgs
  <2>2. Insert(cQueue[c], m) \in Seq(QueuedMsgs)
    BY <2>1, InsertType DEF IInv, ClientOK
  <2>3. ChannelsUpTo(sStep)'
    BY <1>2, ConsumeWireType DEF ClientQueues, ClientReads
  <2>4. ClientOK' /\ RecordsOK'
    BY <1>2, <2>2 DEF IInv, ClientOK, RecordsOK, counters, history
  <2>5. NeverAhead'
    BY <1>2, StillNotAhead DEF IInv
  <2> QED
    BY <1>2, <2>3, <2>4, <2>5, ClientStepInv
<1> QED
  BY <1>1, <1>2 DEF ClientQueues

LEMMA ClientGetsReadyInv == ASSUME IInv, NEW c \in Clients, ClientGetsReady(c) PROVE IInv'
<1> DEFINE m == Head(wire[c])
<1>1. m \in ReadyMsgs /\ m \in UpTo(ToClientMsgs, sStep) /\ m.type = "READY"
  BY ClientReadsType, MessageTypes DEF ClientGetsReady, ClientReads
<1>2. m.step \in Nat /\ m.step \in 0 .. sStep /\ m.chk \in Worlds
  BY <1>1 DEF ReadyMsgs, UpTo
<1>3. CASE ClientGone(c, "map")
  BY <1>3, ClientGoneInv DEF Fates
<1>4. CASE /\ cStep'    = [cStep EXCEPT ![c] = m.step]
           /\ cBarrier' = [cBarrier EXCEPT ![c] = m.step]
           /\ cPaused'  = [cPaused EXCEPT ![c] = FALSE]
           /\ cLists'   = [cLists EXCEPT ![c][m.step % Ring] = m.chk]
           /\ ConsumeWire(c)
           /\ UNCHANGED <<serverVars, cMode, cMap, cWorld, cQueue, sendq, up,
                          counters, history>>
  <2>1. ChannelsUpTo(sStep)'
    BY <1>4, ConsumeWireType DEF ClientGetsReady, ClientReads
  <2> HIDE DEF m
  <2>2. [cLists[c] EXCEPT ![m.step % Ring] = m.chk] \in Checklists
    BY <1>2 DEF IInv, ClientOK, Checklists
  <2>3. cLists' = [cLists EXCEPT ![c] = [cLists[c] EXCEPT ![m.step % Ring] = m.chk]]
    BY <1>4
  <2>4. cLists' \in [Clients -> Checklists]
    BY <2>2, <2>3 DEF IInv, ClientOK
  <2>5. ClientOK' /\ RecordsOK'
    BY <1>2, <1>4, <2>4 DEF IInv, ClientOK, RecordsOK, counters, history
  <2>6. NeverAhead'
    BY <1>2, <1>4 DEF IInv, NeverAhead, ClientOK, ServerOK, serverVars
  <2> QED
    BY <1>4, <2>1, <2>5, <2>6, ClientStepInv
<1> QED
  BY <1>3, <1>4 DEF ClientGetsReady

LEMMA ClientToolInv == ASSUME IInv, NEW c \in Clients, ClientTool(c) PROVE IInv'
<1> DEFINE m == [type |-> "TOOL", step |-> cStep[c], map |-> cMap[c], lstep |-> cStep[c],
                 lchk |-> ListAt(cLists[c], cStep[c]), tool |-> nTools + 1, at |-> 0]
<1>1. ListAt(cLists[c], cStep[c]) \in Worlds
  BY ListType DEF IInv, ClientOK
<1>2. m \in ToolMsgs
  BY <1>1 DEF ToolMsgs, IInv, ClientOK, RecordsOK
<1>3. up' = [up EXCEPT ![c] = Append(@, m)]
  BY DEF ClientTool
<1> HIDE DEF m
<1>4. Append(up[c], m) \in Seq(UpTo(ToServerMsgs, sStep))
  BY <1>2, MessagesUpTo, AppendType DEF IInv, ServerOK, ChannelsUpTo
<1>5. ChannelsUpTo(sStep)'
  BY <1>3, <1>4 DEF IInv, ChannelsUpTo, ClientTool, serverVars
<1>6. ClientOK' /\ RecordsOK'
  BY DEF IInv, ClientOK, RecordsOK, ClientTool, clientVars, history
<1>7. NeverAhead'
  BY StillNotAhead DEF IInv, ClientTool, clientVars
<1> QED
  BY <1>5, <1>6, <1>7, ClientStepInv DEF ClientTool

LEMMA ClientFrameInv == ASSUME IInv, NEW c \in Clients, ClientFrame(c) PROVE IInv'
<1> DEFINE w == Append(cWorld[c], Frame)
           n == (cStep[c] + 1) % Ring
<1>1. w \in Worlds
  BY AppendWorld DEF IInv, ClientOK
<1>2. [cLists[c] EXCEPT ![n] = w] \in Checklists
  BY <1>1 DEF IInv, ClientOK, Checklists
<1>3. cLists' = [cLists EXCEPT ![c] = [cLists[c] EXCEPT ![n] = w]]
  BY DEF ClientFrame
<1>4. cLists' \in [Clients -> Checklists]
  BY <1>2, <1>3 DEF IInv, ClientOK
<1>5. ClientOK' /\ RecordsOK'
  BY <1>1, <1>4 DEF IInv, ClientOK, RecordsOK, ClientFrame, counters, history
<1>6. ChannelsUpTo(sStep)'
  BY DEF IInv, ChannelsUpTo, ClientFrame, serverVars, channels
<1>7. NeverAhead'
  BY DEF IInv, NeverAhead, ClientOK, ServerOK, ClientFrame, MayAdvance, serverVars
<1> QED
  BY <1>5, <1>6, <1>7, ClientStepInv DEF ClientFrame

\* The command at the head of a client's queue.
LEMMA ClientHeadType ==
    ASSUME IInv, NEW c \in Clients, HasDue(cQueue[c], cStep[c])
    PROVE  /\ Tail(cQueue[c]) \in Seq(QueuedMsgs)
           /\ Head(cQueue[c]).type = "TOOL" => Head(cQueue[c]) \in ToolMsgs
           /\ Head(cQueue[c]).type = "SYNC" => Head(cQueue[c]) \in SyncMsgs
<1>1. Head(cQueue[c]) \in QueuedMsgs /\ Tail(cQueue[c]) \in Seq(QueuedMsgs)
  BY HeadTailType DEF IInv, ClientOK, HasDue
<1> QED
  BY <1>1 DEF QueuedMsgs, CheckMsgs, ToolMsgs, SyncMsgs

\* An action that only takes a command off the queue.
LEMMA PopQueueInv ==
    ASSUME IInv, NEW c \in Clients, HasDue(cQueue[c], cStep[c]), PopQueue(c),
           UNCHANGED <<serverVars, cMode, cStep, cBarrier, cPaused, cMap, cWorld, cLists,
                       channels, counters, history>>
    PROVE  IInv'
<1>1. ClientOK' /\ RecordsOK'
  BY ClientHeadType DEF IInv, ClientOK, RecordsOK, PopQueue, counters, history
<1>2. ChannelsUpTo(sStep)'
  BY DEF IInv, ChannelsUpTo, serverVars, channels
<1>3. NeverAhead'
  BY StillNotAhead DEF IInv
<1> QED
  BY <1>1, <1>2, <1>3, ClientStepInv

LEMMA ClientDropsInv == ASSUME IInv, NEW c \in Clients, ClientDrops(c) PROVE IInv'
<1>1. CASE ClientGone(c, "past")
  BY <1>1, ClientGoneInv DEF Fates
<1>2. CASE ~ClientGone(c, "past")
  BY <1>2, PopQueueInv DEF ClientDrops
<1> QED
  BY <1>1, <1>2

LEMMA ClientChecksInv == ASSUME IInv, NEW c \in Clients, ClientChecks(c) PROVE IInv'
<1>1. CASE ClientGone(c, "checklist")
  BY <1>1, ClientGoneInv DEF Fates
<1>2. CASE ~ClientGone(c, "checklist")
  BY <1>2, PopQueueInv DEF ClientChecks, Due
<1> QED
  BY <1>1, <1>2

LEMMA ClientRunsToolInv == ASSUME IInv, NEW c \in Clients, ClientRunsTool(c) PROVE IInv'
<1>1. CASE ClientGone(c, "checklist")
  BY <1>1, ClientGoneInv DEF Fates
<1>2. CASE ~ClientGone(c, "checklist")
  <2>1. /\ cWorld' = [cWorld EXCEPT ![c] = Append(@, Tool(Head(cQueue[c]).tool))]
        /\ PopQueue(c)
        /\ UNCHANGED <<serverVars, cMode, cStep, cBarrier, cPaused, cMap, cLists,
                       channels, counters, history>>
    BY <1>2 DEF ClientRunsTool
  <2>2. Head(cQueue[c]) \in ToolMsgs /\ Tail(cQueue[c]) \in Seq(QueuedMsgs)
    BY ClientHeadType DEF ClientRunsTool, Due
  <2>3. Append(cWorld[c], Tool(Head(cQueue[c]).tool)) \in Worlds
    BY <2>2, AppendWorld DEF IInv, ClientOK, ToolMsgs
  <2>4. ClientOK' /\ RecordsOK'
    BY <2>1, <2>2, <2>3 DEF IInv, ClientOK, RecordsOK, PopQueue, counters, history
  <2>5. ChannelsUpTo(sStep)'
    BY <2>1 DEF IInv, ChannelsUpTo, serverVars, channels
  <2>6. NeverAhead'
    BY <2>1, StillNotAhead DEF IInv
  <2> QED
    BY <2>1, <2>4, <2>5, <2>6, ClientStepInv
<1> QED
  BY <1>1, <1>2

\* The NWC_READY a client sends names its own step, which is not ahead of the server.
LEMMA ClientRunsSyncInv == ASSUME IInv, NEW c \in Clients, ClientRunsSync(c) PROVE IInv'
<1> DEFINE new == Head(cQueue[c]).newmap
           m   == [type |-> "READY", step |-> cStep[c], map |-> cMap'[c],
                   chk |-> ListAt(cLists[c], cStep[c])]
<1>1. Head(cQueue[c]) \in SyncMsgs
  BY ClientHeadType DEF ClientRunsSync, Due
<1>2. new \in Nat
  BY <1>1 DEF SyncMsgs
<1>3. cMap' = [cMap EXCEPT ![c] = new]
  BY DEF ClientRunsSync
<1>4. cMap' \in [Clients -> Nat]
  BY <1>2, <1>3 DEF IInv, ClientOK
<1>5. /\ cStep[c] \in Nat /\ sStep \in Nat /\ cStep[c] <= sStep
      /\ ListAt(cLists[c], cStep[c]) \in Worlds
  BY ListType DEF IInv, ClientOK, ServerOK, NeverAhead
<1>6. m \in ReadyMsgs
  BY <1>4, <1>5 DEF ReadyMsgs
<1>7. m \in UpTo(ToServerMsgs, sStep)
  BY <1>5, <1>6 DEF UpTo, ToServerMsgs
<1>8. up' = IF sState[c] = "inactive" THEN up ELSE [up EXCEPT ![c] = Append(@, m)]
  BY DEF ClientRunsSync
<1> HIDE DEF m, new
<1>9. Append(up[c], m) \in Seq(UpTo(ToServerMsgs, sStep))
  BY <1>7, AppendType DEF IInv, ChannelsUpTo
<1>10. ChannelsUpTo(sStep)'
  BY <1>8, <1>9 DEF IInv, ChannelsUpTo, ClientRunsSync, serverVars
<1>11. ClientOK'
  <2>1. Append(cWorld[c], Reload(new)) \in Worlds
    BY <1>2, AppendWorld DEF IInv, ClientOK
  <2>2. QueueAfterLoad(Tail(cQueue[c])) \in Seq(QueuedMsgs)
    BY DEF QueueAfterLoad
  <2> QED
    BY <1>4, <2>1, <2>2 DEF IInv, ClientOK, ClientRunsSync, new
<1>12. RecordsOK'
  <2>1. (lost[c] \/ LosesCommands(c)) \in BOOLEAN
    BY DEF IInv, RecordsOK, LosesCommands
  <2> QED
    BY <2>1 DEF IInv, RecordsOK, ClientRunsSync, counters
<1>13. NeverAhead'
  BY <1>5 DEF IInv, NeverAhead, ClientOK, ServerOK, ClientRunsSync, serverVars
<1> QED
  BY <1>10, <1>11, <1>12, <1>13, ClientStepInv DEF ClientRunsSync

\* However the connection ends.
LEMMA ClientEndsInv ==
    ASSUME IInv, NEW c \in Clients,
           \/ ClientIsRefused(c) \/ ClientIsGarbled(c) \/ ClientGetsClose(c) \/ ClientLeaves(c)
    PROVE  IInv'
  BY ClientGoneInv DEF ClientIsRefused, ClientIsGarbled, ClientGetsClose, ClientLeaves, Fates

-----------------------------------------------------------------------------
(* The theorems.                                                           *)

\* The invariant holds initially, ...
LEMMA InitIInv == Init => IInv
<1> SUFFICES ASSUME Init PROVE IInv
  OBVIOUS
<1>1. <<>> \in Worlds
  BY DEF Worlds
<1>2. [i \in 0 .. Ring - 1 |-> <<>>] \in Checklists
  BY <1>1 DEF Checklists
<1>3. ServerOK
  <2>1. sPaused \in BOOLEAN
    BY SwitchAssumption DEF Init
  <2>2. sStep \in Nat /\ sMap \in Nat /\ sRuns \in BOOLEAN /\ pending \in Clients \cup {NoClient}
    BY DEF Init
  <2>3. sMaps \in Seq(Nat) /\ sQueue \in Seq(ToolMsgs \cup SyncMsgs)
    BY DEF Init
  <2>4. sState \in [Clients -> {"inactive", "connected", "playing"}]
    BY DEF Init
  <2>5. sWorld \in Worlds /\ sLists \in Checklists
    BY <1>1, <1>2 DEF Init
  <2> QED
    BY <2>1, <2>2, <2>3, <2>4, <2>5 DEF ServerOK
<1>4. ClientOK
  BY <1>1, <1>2 DEF Init, ClientOK
<1>5. RecordsOK
  BY DEF Init, RecordsOK, Fates
<1>6. ChannelsUpTo(sStep)
  BY DEF Init, ChannelsUpTo
<1>7. NeverAhead
  BY DEF Init, NeverAhead
<1> QED
  BY <1>3, <1>4, <1>5, <1>6, <1>7 DEF IInv

\* ... is preserved by every step, ...
LEMMA NextIInv == IInv /\ [Next]_vars => IInv'
<1> SUFFICES ASSUME IInv, [Next]_vars PROVE IInv'
  OBVIOUS
<1>1. CASE UNCHANGED vars
  <2>1. ServerOK' /\ ClientOK' /\ RecordsOK'
    BY <1>1 DEF IInv, ServerOK, ClientOK, RecordsOK, vars, serverVars, clientVars, counters,
                history
  <2>2. ChannelsUpTo(sStep)' /\ NeverAhead'
    BY <1>1 DEF IInv, ChannelsUpTo, NeverAhead, vars, serverVars, clientVars, channels
  <2> QED
    BY <2>1, <2>2 DEF IInv
<1>2. CASE ServerFrame \/ ServerTool \/ ServerForcesSync \/ ServerReloadsAtOnce
  BY <1>2, ServerFrameInv, ServerToolInv, ServerForcesSyncInv, ServerReloadsAtOnceInv
<1>3. CASE ServerRuns
  BY <1>3, ServerRunsToolInv, ServerRunsSyncInv DEF ServerRuns
<1>4. ASSUME NEW c \in Clients, ServerHandles(c) PROVE IInv'
  BY <1>4, ServerKicksInitiatorInv, ServerIgnoresToolInv, ServerSchedulesToolInv,
     ServerRefusesJoinInv, ServerFailsToAnswerInv, ServerAcceptsJoinInv, ServerGetsReadyInv,
     ServerGetsCloseInv
     DEF ServerHandles
<1>5. ASSUME NEW c \in Clients, ServerDropsClient(c) \/ Flush(c) \/ Connect(c) PROVE IInv'
  BY <1>5, ServerDropsClientInv, FlushInv, ConnectInv
<1>6. ASSUME NEW c \in Clients, ClientHandles(c) PROVE IInv'
  BY <1>6, ClientIsAcceptedInv, ClientSkipsInv, ClientLoadsGameInv, ClientGetsStepInv,
     ClientGetsCheckInv, ClientQueuesInv, ClientGetsReadyInv, ClientEndsInv
     DEF ClientHandles
<1>7. ASSUME NEW c \in Clients, ClientRunsQueue(c) PROVE IInv'
  BY <1>7, ClientDropsInv, ClientChecksInv, ClientRunsToolInv, ClientRunsSyncInv
     DEF ClientRunsQueue
<1>8. ASSUME NEW c \in Clients, ClientTool(c) \/ ClientFrame(c) \/ ClientLeaves(c) PROVE IInv'
  BY <1>8, ClientToolInv, ClientFrameInv, ClientEndsInv
<1> QED
  BY <1>1, <1>2, <1>3, <1>4, <1>5, <1>6, <1>7, <1>8 DEF Next

\* ... and implies what is claimed.
LEMMA IInvImplies == IInv => TypeOK /\ NeverAhead
<1> SUFFICES ASSUME IInv PROVE TypeOK /\ NeverAhead
  OBVIOUS
<1>1. /\ sendq \in [Clients -> Seq(BroadcastMsgs)]
      /\ wire \in [Clients -> Seq(ToClientMsgs)]
      /\ up \in [Clients -> Seq(ToServerMsgs)]
  BY UpToSubset, SeqSubset DEF IInv, ServerOK, ChannelsUpTo
<1> QED
  BY <1>1 DEF IInv, ServerOK, ClientOK, RecordsOK, TypeOK

\* Every state of the protocol is well typed: the queues, channels and checklists of the
\* server and of the clients hold the messages and worlds they are meant for.
THEOREM TypeCorrect == Spec => []TypeOK
<1>1. Spec => []IInv
  BY InitIInv, NextIInv, PTL DEF Spec
<1> QED
  BY <1>1, IInvImplies, PTL

\* Whatever is delayed, lost or reset by a reload, a client never runs a frame beyond its
\* barrier (the test in karte_t::interactive) and no barrier is ahead of the server.
THEOREM ClientsNeverAhead == Spec => []NeverAhead
<1>1. Spec => []IInv
  BY InitIInv, NextIInv, PTL DEF Spec
<1> QED
  BY <1>1, IInvImplies, PTL

-----------------------------------------------------------------------------
(* The server: a join that was accepted is never forgotten                 *)
(* (PendingIsServed).                                                      *)
(*                                                                         *)
(* The NWC_SYNC that ends a join must not be dropped when it is due.  So   *)
(* SInv says what is in the command queue: commands of the world that      *)
(* runs, of this step or the next, in the order of their steps.            *)

QueueIsCurrent ==
    \A i \in 1 .. Len(sQueue) :
        sQueue[i].map = sMap /\ sQueue[i].step \in {sStep, sStep + 1}

QueueIsSorted ==
    \A i, j \in 1 .. Len(sQueue) : i < j => sQueue[i].step <= sQueue[j].step

JoinIsQueued ==
    pending # NoClient =>
        /\ ~sPaused
        /\ \E i \in 1 .. Len(sQueue) : sQueue[i].type = "SYNC" /\ sQueue[i].who = pending

\* The inductive invariant, next to IInv.
SInv == QueueIsCurrent /\ QueueIsSorted /\ JoinIsQueued

-----------------------------------------------------------------------------
(* command_queue_append.                                                   *)

LEMMA ConcatElements ==
    ASSUME NEW S, NEW s \in Seq(S), NEW t \in Seq(S)
    PROVE  /\ s \o t \in Seq(S) /\ Len(s \o t) = Len(s) + Len(t)
           /\ \A i \in 1 .. Len(s) : (s \o t)[i] = s[i]
           /\ \A i \in 1 .. Len(t) : (s \o t)[Len(s) + i] = t[i]
  OBVIOUS

\* Where the command goes: behind those that are not later, before the rest.
LEMMA InsertShape ==
    ASSUME NEW S, \A x \in S : x.step \in Nat, NEW q \in Seq(S), NEW m \in S
    PROVE  \E at \in 1 .. Len(q) + 1 :
              /\ Insert(q, m) = SubSeq(q, 1, at - 1) \o <<m>> \o SubSeq(q, at, Len(q))
              /\ \A i \in 1 .. at - 1 : q[i].step <= m.step
              /\ at <= Len(q) => q[at].step > m.step
<1> DEFINE Later == {i \in 1 .. Len(q) : q[i].step > m.step}
           least == CHOOSE i \in Later : \A j \in Later : i <= j
           at    == IF Later = {} THEN Len(q) + 1 ELSE least
<1>1. \A i \in 1 .. Len(q) : q[i].step \in Nat
  OBVIOUS
<1>2. CASE Later = {}
  <2>1. at = Len(q) + 1
    BY <1>2
  <2>2. \A i \in 1 .. at - 1 : q[i].step <= m.step
    BY <1>1, <1>2, <2>1
  <2>3. Insert(q, m) = SubSeq(q, 1, at - 1) \o <<m>> \o SubSeq(q, at, Len(q))
    BY DEF Insert
  <2>4. at \in 1 .. Len(q) + 1 /\ ~(at <= Len(q))
    BY <2>1
  <2> HIDE DEF at
  <2> QED
    BY <2>2, <2>3, <2>4
<1>3. CASE Later # {}
  <2>1. Later \in SUBSET Nat
    OBVIOUS
  <2> HIDE DEF Later
  <2>2. \E i \in Later : \A j \in Later : i <= j
    BY <1>3, <2>1, LeastNumber
  <2>3. least \in Later /\ \A j \in Later : least <= j
    BY <2>2, Zenon
  <2>4. at = least
    BY <1>3
  <2> HIDE DEF least
  <2> USE DEF Later
  <2>5. least \in 1 .. Len(q) /\ q[least].step > m.step
    BY <2>3
  <2>6. \A i \in 1 .. least - 1 : q[i].step <= m.step
    BY <1>1, <2>3, <2>5
  <2>7. Insert(q, m) = SubSeq(q, 1, least - 1) \o <<m>> \o SubSeq(q, least, Len(q))
    BY <2>4 DEF Insert, least
  <2>8. least \in 1 .. Len(q) + 1
    BY <2>5
  <2> HIDE DEF Later
  <2> QED
    BY <2>5, <2>6, <2>7, <2>8
<1> QED
  BY <1>2, <1>3

\* So the queue keeps what it holds, and its order.
LEMMA InsertElements ==
    ASSUME NEW S, \A x \in S : x.step \in Nat, NEW q \in Seq(S), NEW m \in S
    PROVE  \E at \in 1 .. Len(q) + 1 :
              /\ Len(Insert(q, m)) = Len(q) + 1
              /\ Insert(q, m)[at] = m
              /\ \A i \in 1 .. at - 1 : Insert(q, m)[i] = q[i]
              /\ \A i \in at .. Len(q) : Insert(q, m)[i + 1] = q[i]
              /\ \A i \in 1 .. at - 1 : q[i].step <= m.step
              /\ at <= Len(q) => q[at].step > m.step
<1>1. PICK at \in 1 .. Len(q) + 1 :
              /\ Insert(q, m) = SubSeq(q, 1, at - 1) \o <<m>> \o SubSeq(q, at, Len(q))
              /\ \A i \in 1 .. at - 1 : q[i].step <= m.step
              /\ at <= Len(q) => q[at].step > m.step
  BY InsertShape
<1> DEFINE a == SubSeq(q, 1, at - 1)
           b == SubSeq(q, at, Len(q))
<1>2. /\ a \in Seq(S) /\ Len(a) = at - 1 /\ \A i \in 1 .. at - 1 : a[i] = q[i]
      /\ b \in Seq(S) /\ Len(b) = Len(q) - at + 1
      /\ \A i \in 1 .. Len(q) - at + 1 : b[i] = q[at + i - 1]
  OBVIOUS
<1> HIDE DEF a, b
<1>3. a \o <<m>> \in Seq(S) /\ Len(a \o <<m>>) = at /\ (a \o <<m>>)[at] = m
      /\ \A i \in 1 .. at - 1 : (a \o <<m>>)[i] = a[i]
  <2>1. <<m>> \in Seq(S) /\ Len(<<m>>) = 1 /\ <<m>>[1] = m
    OBVIOUS
  <2>2. at = Len(a) + 1
    BY <1>2
  <2> QED
    BY <1>2, <2>1, <2>2, ConcatElements
<1> DEFINE c == a \o <<m>>
<1> HIDE DEF c
<1>4. /\ Len(c \o b) = Len(q) + 1
      /\ \A i \in 1 .. at : (c \o b)[i] = c[i]
      /\ \A i \in 1 .. Len(q) - at + 1 : (c \o b)[at + i] = b[i]
  BY <1>2, <1>3 DEF c
<1>5. Insert(q, m) = c \o b
  BY <1>1 DEF a, b, c
<1>6. \A i \in at .. Len(q) : (c \o b)[i + 1] = q[i]
  <2> TAKE i \in at .. Len(q)
  <2>1. i - at + 1 \in 1 .. Len(q) - at + 1
    OBVIOUS
  <2>2. (c \o b)[at + (i - at + 1)] = b[i - at + 1] /\ b[i - at + 1] = q[at + (i - at + 1) - 1]
    BY <1>2, <1>4, <2>1
  <2>3. at + (i - at + 1) = i + 1 /\ at + (i - at + 1) - 1 = i
    OBVIOUS
  <2> QED
    BY <2>2, <2>3
<1>7. (c \o b)[at] = m
  <2>1. at \in 1 .. at /\ c[at] = m
    BY <1>3 DEF c
  <2> QED
    BY <1>4, <2>1
<1>8. \A i \in 1 .. at - 1 : (c \o b)[i] = q[i]
  <2> TAKE i \in 1 .. at - 1
  <2>1. i \in 1 .. at
    OBVIOUS
  <2>2. c[i] = a[i] /\ a[i] = q[i]
    BY <1>2, <1>3 DEF c
  <2> QED
    BY <1>4, <2>1, <2>2
<1> QED
  BY <1>1, <1>4, <1>5, <1>6, <1>7, <1>8

-----------------------------------------------------------------------------
(* The queue of the server.                                                *)

\* A queue that is current and sorted stays so when a command for the next step comes
\* in, and the join that is queued, or comes in, is queued.
LEMMA InsertInv ==
    ASSUME IInv, SInv, NEW m \in ToolMsgs \cup SyncMsgs, m.map = sMap, m.step = ExecStep,
           sQueue' = Insert(sQueue, m), UNCHANGED <<sStep, sMap>>,
           \/ UNCHANGED <<pending, sPaused>>
           \/ m.type = "SYNC" /\ pending' = m.who /\ sPaused' = FALSE
    PROVE  SInv'
<1> DEFINE r == Insert(sQueue, m)
<1>1. sStep \in Nat /\ sQueue \in Seq(ToolMsgs \cup SyncMsgs)
  BY DEF IInv, ServerOK
<1>2. \A x \in ToolMsgs \cup SyncMsgs : x.step \in Nat
  BY DEF ToolMsgs, SyncMsgs
<1>3. PICK at \in 1 .. Len(sQueue) + 1 :
         /\ Len(r) = Len(sQueue) + 1
         /\ r[at] = m
         /\ \A i \in 1 .. at - 1 : r[i] = sQueue[i]
         /\ \A i \in at .. Len(sQueue) : r[i + 1] = sQueue[i]
         /\ \A i \in 1 .. at - 1 : sQueue[i].step <= m.step
         /\ at <= Len(sQueue) => sQueue[at].step > m.step
  BY <1>1, <1>2, InsertElements
<1>4. at = Len(sQueue) + 1
  BY <1>1, <1>3 DEF SInv, QueueIsCurrent, ExecStep
<1>5. sQueue' = r
  OBVIOUS
<1> HIDE DEF r
<1>6. QueueIsCurrent'
  BY <1>1, <1>3, <1>4, <1>5 DEF SInv, QueueIsCurrent, ExecStep
<1>7. QueueIsSorted'
  BY <1>1, <1>3, <1>4, <1>5 DEF SInv, QueueIsSorted
<1>8. JoinIsQueued'
  <2>1. CASE UNCHANGED <<pending, sPaused>>
    BY <1>1, <1>3, <1>4, <1>5, <2>1 DEF SInv, JoinIsQueued
  <2>2. CASE m.type = "SYNC" /\ pending' = m.who /\ sPaused' = FALSE
    <3>1. Len(sQueue) + 1 \in 1 .. Len(r) /\ r[Len(sQueue) + 1] = m
      BY <1>1, <1>3, <1>4
    <3> QED
      BY <1>5, <2>2, <3>1 DEF JoinIsQueued
  <2> QED
    BY <2>1, <2>2
<1> QED
  BY <1>6, <1>7, <1>8 DEF SInv

\* What leaves the queue alone, and removes at most the pending join.
LEMMA QueueUnchangedInv ==
    ASSUME SInv, UNCHANGED <<sStep, sMap, sQueue, sPaused>>,
           pending' = pending \/ pending' = NoClient
    PROVE  SInv'
  BY DEF SInv, QueueIsCurrent, QueueIsSorted, JoinIsQueued

LEMMA RemoveClientSInv ==
    ASSUME SInv, NEW c \in Clients, NEW why, RemoveClient(c, why),
           UNCHANGED <<sStep, sMap, sQueue, sPaused>>
    PROVE  SInv'
  BY QueueUnchangedInv DEF RemoveClient, PendingAfterClose

\* A frame is only run when nothing in the queue is due.
LEMMA ServerFrameSInv == ASSUME IInv, SInv, ServerFrame PROVE SInv'
<1>1. sStep \in Nat /\ sQueue \in Seq(ToolMsgs \cup SyncMsgs)
  BY DEF IInv, ServerOK
<1>2. \A i \in 1 .. Len(sQueue) : sQueue[i].step = sStep + 1
  <2> TAKE i \in 1 .. Len(sQueue)
  <2>1. sQueue # <<>> /\ Head(sQueue) = sQueue[1] /\ 1 \in 1 .. Len(sQueue)
    BY <1>1
  <2>2. ~(sQueue[1].step <= sStep)
    BY <2>1 DEF ServerFrame, HasDue
  <2>3. i = 1 \/ sQueue[1].step <= sQueue[i].step
    BY <1>1, <2>1 DEF SInv, QueueIsSorted
  <2> QED
    BY <1>1, <2>1, <2>2, <2>3 DEF SInv, QueueIsCurrent
<1>3. sStep' = sStep + 1 /\ UNCHANGED <<sQueue, sMap, pending>> /\ (pending # NoClient => ~sPaused')
  BY DEF ServerFrame
<1>4. QueueIsCurrent'
  BY <1>1, <1>2, <1>3 DEF SInv, QueueIsCurrent
<1>5. QueueIsSorted' /\ JoinIsQueued'
  BY <1>3 DEF SInv, QueueIsSorted, JoinIsQueued
<1> QED
  BY <1>4, <1>5 DEF SInv

LEMMA BroadcastToolSInv == ASSUME IInv, SInv, NEW n \in Nat, BroadcastTool(n) PROVE SInv'
<1>1. ServerClone(n) \in ToolMsgs
  BY ListType DEF ServerClone, ToolMsgs, ExecStep, Place, IInv, ServerOK, Worlds
<1>2. ServerClone(n).map = sMap /\ ServerClone(n).step = ExecStep
  BY DEF ServerClone
<1> QED
  BY <1>1, <1>2, InsertInv DEF BroadcastTool

LEMMA ServerSchedulesToolSInv ==
    ASSUME IInv, SInv, NEW c \in Clients, ServerSchedulesTool(c) PROVE SInv'
<1>1. Head(up[c]) \in ToolMsgs
  BY ServerReadsType, MessageTypes DEF ServerSchedulesTool, ServerReads
<1>2. Head(up[c]).tool \in Nat
  BY <1>1 DEF ToolMsgs
<1> QED
  BY <1>2, BroadcastToolSInv DEF ServerSchedulesTool

LEMMA ServerAcceptsJoinSInv ==
    ASSUME IInv, SInv, NEW c \in Clients, ServerAcceptsJoin(c) PROVE SInv'
<1>1. /\ SyncMsg(c) \in SyncMsgs /\ SyncMsg(c).map = sMap /\ SyncMsg(c).step = ExecStep
      /\ SyncMsg(c).type = "SYNC" /\ SyncMsg(c).who = c
  BY SyncMsgType DEF SyncMsg
<1> QED
  BY <1>1, InsertInv DEF ServerAcceptsJoin

LEMMA ServerForcesSyncSInv == ASSUME IInv, SInv, ServerForcesSync PROVE SInv'
<1>1. /\ SyncMsg(NoClient) \in SyncMsgs /\ SyncMsg(NoClient).map = sMap
      /\ SyncMsg(NoClient).step = ExecStep
  BY SyncMsgType DEF SyncMsg
<1> QED
  BY <1>1, InsertInv DEF ServerForcesSync

\* A reload empties the queue and ends the join.
LEMMA ServerReloadsSInv == ASSUME NEW new, ServerReloads(new) PROVE SInv'
  BY DEF ServerReloads, PendingAfterReload, SInv, QueueIsCurrent, QueueIsSorted, JoinIsQueued

\* A command that is dropped, or is a tool, is not the NWC_SYNC of the join.
LEMMA ServerRunsToolSInv == ASSUME IInv, SInv, ServerRunsTool PROVE SInv'
<1>1. /\ sStep \in Nat /\ sQueue \in Seq(ToolMsgs \cup SyncMsgs) /\ sQueue # <<>>
      /\ Head(sQueue) = sQueue[1] /\ 1 \in 1 .. Len(sQueue)
  BY DEF IInv, ServerOK, ServerRunsTool, HasDue
<1>2. /\ sQueue' = Tail(sQueue) /\ UNCHANGED <<sStep, sMap, sPaused, pending>>
      /\ Runs(Head(sQueue), sStep, sMap, sLists) => Head(sQueue).type = "TOOL"
  BY DEF ServerRunsTool
<1>3. Len(sQueue') = Len(sQueue) - 1 /\ \A i \in 1 .. Len(sQueue') : sQueue'[i] = sQueue[i + 1]
  BY <1>1, <1>2
<1>4. Head(sQueue).type # "SYNC"
  <2>1. Head(sQueue).map = sMap /\ Head(sQueue).step >= sStep
    BY <1>1 DEF SInv, QueueIsCurrent
  <2> QED
    BY <1>2, <2>1 DEF Runs, SameWorld
<1>5. QueueIsCurrent'
  BY <1>1, <1>2, <1>3 DEF SInv, QueueIsCurrent
<1>6. QueueIsSorted'
  BY <1>1, <1>2, <1>3 DEF SInv, QueueIsSorted
<1>7. JoinIsQueued'
  <2> SUFFICES ASSUME pending # NoClient
               PROVE  ~sPaused /\ \E j \in 1 .. Len(sQueue') :
                         sQueue'[j].type = "SYNC" /\ sQueue'[j].who = pending
    BY <1>2 DEF JoinIsQueued
  <2>1. ~sPaused
    BY DEF SInv, JoinIsQueued
  <2>2. PICK i \in 1 .. Len(sQueue) : sQueue[i].type = "SYNC" /\ sQueue[i].who = pending
    BY DEF SInv, JoinIsQueued
  <2>3. i # 1
    BY <1>1, <1>4, <2>2
  <2>4. i - 1 \in 1 .. Len(sQueue') /\ sQueue'[i - 1] = sQueue[i]
    BY <1>1, <1>3, <2>3
  <2> QED
    BY <2>1, <2>2, <2>4
<1> QED
  BY <1>5, <1>6, <1>7 DEF SInv

-----------------------------------------------------------------------------
(* The theorem.                                                            *)

LEMMA InitSInv == Init => SInv
  BY DEF Init, SInv, QueueIsCurrent, QueueIsSorted, JoinIsQueued

LEMMA NextSInv == IInv /\ SInv /\ [Next]_vars => SInv'
<1> SUFFICES ASSUME IInv, SInv, [Next]_vars PROVE SInv'
  OBVIOUS
<1>1. CASE UNCHANGED serverVars
  BY <1>1, QueueUnchangedInv DEF serverVars
<1>2. CASE UNCHANGED vars
  BY <1>1, <1>2 DEF vars
<1>3. CASE ServerFrame \/ ServerForcesSync
  BY <1>3, ServerFrameSInv, ServerForcesSyncSInv
<1>4. CASE ServerTool
  <2>1. nTools + 1 \in Nat
    BY DEF IInv, RecordsOK
  <2> QED
    BY <1>4, <2>1, BroadcastToolSInv DEF ServerTool
<1>5. CASE ServerReloadsAtOnce \/ ServerRuns
  BY <1>5, ServerReloadsSInv, ServerRunsToolSInv
     DEF ServerReloadsAtOnce, ServerRuns, ServerRunsSync
<1>6. ASSUME NEW c \in Clients, ServerHandles(c) PROVE SInv'
  <2>1. CASE ServerIgnoresTool(c) \/ ServerRefusesJoin(c) \/ ServerFailsToAnswer(c)
    BY <1>1, <2>1 DEF ServerIgnoresTool, ServerRefusesJoin, ServerFailsToAnswer
  <2>2. CASE ServerSchedulesTool(c) \/ ServerAcceptsJoin(c)
    BY <2>2, ServerSchedulesToolSInv, ServerAcceptsJoinSInv
  <2>3. CASE ServerKicksInitiator(c) \/ ServerGetsClose(c)
    BY <2>3, RemoveClientSInv DEF ServerKicksInitiator, ServerGetsClose
  <2>4. CASE ServerGetsReady(c)
    BY <2>4, RemoveClientSInv, QueueUnchangedInv DEF ServerGetsReady
  <2> QED
    BY <1>6, <2>1, <2>2, <2>3, <2>4 DEF ServerHandles
<1>7. ASSUME NEW c \in Clients, ServerDropsClient(c) \/ Flush(c) \/ Connect(c) PROVE SInv'
  BY <1>7, RemoveClientSInv, QueueUnchangedInv DEF ServerDropsClient, Flush, Connect
<1>8. ASSUME NEW c \in Clients, NEW why, ClientGone(c, why) PROVE SInv'
  BY <1>1, <1>8 DEF ClientGone
<1>9. ASSUME NEW c \in Clients, ClientHandles(c) PROVE SInv'
  BY <1>1, <1>8, <1>9
     DEF ClientHandles, ClientIsAccepted, ClientIsRefused, ClientIsGarbled, ClientSkips,
         ClientLoadsGame, ClientGetsStep, ClientGetsCheck, ClientQueues, ClientGetsReady,
         ClientGetsClose
<1>10. ASSUME NEW c \in Clients, ClientRunsQueue(c) PROVE SInv'
  BY <1>1, <1>8, <1>10
     DEF ClientRunsQueue, ClientDrops, ClientChecks, ClientRunsTool, ClientRunsSync
<1>11. ASSUME NEW c \in Clients, ClientTool(c) \/ ClientFrame(c) \/ ClientLeaves(c) PROVE SInv'
  BY <1>1, <1>8, <1>11 DEF ClientTool, ClientFrame, ClientLeaves
<1> QED
  BY <1>2, <1>3, <1>4, <1>5, <1>6, <1>7, <1>9, <1>10, <1>11 DEF Next

\* While a join is pending the server runs and the NWC_SYNC that ends it is queued,
\* whatever else is scheduled, reloaded, dropped or disconnected meanwhile.
THEOREM PendingJoinIsServed == Spec => []PendingIsServed
<1>1. Spec => [](IInv /\ SInv)
  BY InitIInv, InitSInv, NextIInv, NextSInv, PTL DEF Spec
<1>2. IInv /\ SInv => PendingIsServed
  <2> SUFFICES ASSUME IInv, SInv, pending # NoClient
               PROVE  /\ ~sPaused
                      /\ \E m \in Elems(sQueue) : m.type = "SYNC" /\ m.who = pending
    BY DEF PendingIsServed
  <2>1. PICK i \in 1 .. Len(sQueue) : sQueue[i].type = "SYNC" /\ sQueue[i].who = pending
    BY DEF SInv, JoinIsQueued
  <2>2. sQueue[i] \in Elems(sQueue)
    BY DEF IInv, ServerOK, Elems
  <2> QED
    BY <2>1, <2>2 DEF SInv, JoinIsQueued
<1> QED
  BY <1>1, <1>2, PTL

=============================================================================
