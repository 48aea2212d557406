---------------------------- MODULE NetClientProofs ----------------------------
(***************************************************************************)
(* Proofs about what NetLockstep sends to a client, for any number of      *)
(* clients and any bounds.                                                 *)
(*                                                                         *)
(* PausedIsAnswered: if no direct send fails, a paused client has the      *)
(* NWC_READY that unpauses it, or the end of its connection, coming.  The  *)
(* invariant says in addition that a slot that is closed has told its      *)
(* client so, and that no game is sent without the NWC_READY behind it.    *)
(***************************************************************************)
EXTENDS NetLockstepProofs

-----------------------------------------------------------------------------
(* What a step does to the server and to one client c.  The invariants of  *)
(* a client are shown step by step along LocalStep, where the functions on *)
(* Clients are gone.                                                       *)

\* what the server schedules by and remembers
core == <<sStep, sPaused, sMap, sMaps, sWorld, sLists, sQueue, nMaps>>

Machine(c) == <<cMode[c], cStep[c], cBarrier[c], cPaused[c], cMap[c], cWorld[c], cLists[c],
                cQueue[c]>>
Slot(c)    == <<sState[c], sendq[c], up[c]>>
Records(c) == <<lost[c], fate[c]>>

\* a command for the next sync step enters the server's queue
Schedules(m) ==
    /\ m \in ToolMsgs \cup SyncMsgs
    /\ m.step = sStep + 1 /\ m.map = sMap /\ m.at = Place
    /\ m.type = "TOOL" => /\ m.lstep = sStep /\ m.lchk = ListAt(sLists, sStep)
                          /\ sPaused' = sPaused /\ nMaps' = nMaps
    /\ m.type = "SYNC" => m.newmap = nMaps + 1 /\ ~sPaused' /\ nMaps' = nMaps + 1
    /\ sQueue' = Insert(sQueue, m)
    /\ UNCHANGED <<sStep, sMap, sMaps, sWorld, sLists>>

\* a reload: forced while nobody plays, or because a due NWC_SYNC is run
ForcedNow(new) == sPaused /\ PlayingClients = {} /\ new = nMaps + 1 /\ nMaps' = new
RunsSync(new) ==
    /\ HasDue(sQueue, sStep) /\ Head(sQueue).type = "SYNC"
    /\ Runs(Head(sQueue), sStep, sMap, sLists)
    /\ new = Head(sQueue).newmap /\ nMaps' = nMaps
Reloads(new) == ServerReloads(new) /\ (ForcedNow(new) \/ RunsSync(new))

\* what network_send_all makes of the send queue of c, and a direct send of its wire
Queued(c, m)   == IF sState[c] = "playing" THEN Append(sendq[c], m) ELSE sendq[c]
Written(c, ms) == IF cMode[c] = "out" THEN wire[c] ELSE wire[c] \o ms

RestStep(c) == UNCHANGED <<core, Machine(c), Slot(c), wire[c], Records(c)>>

FrameStep(c) ==
    /\ ServerFrame
    /\ \E m \in Announcements(sStep + 1, Append(sWorld, Frame)) : sendq'[c] = Queued(c, m)
    /\ UNCHANGED <<Machine(c), sState[c], up[c], wire[c], Records(c)>>

\* the message was not asked for by c, or is the tool or the join that c asked for
ScheduleStep(c) ==
    /\ \E m \in ToolMsgs \cup SyncMsgs :
          /\ Schedules(m)
          /\ sendq'[c] = Queued(c, m)
          /\ \/ (m.type = "SYNC" => m.who # c) /\ UNCHANGED <<up[c], wire[c]>>
             \/ /\ m.type = "TOOL" /\ up[c] # <<>> /\ Head(up[c]).type = "TOOL"
                /\ up'[c] = Tail(up[c]) /\ wire'[c] = wire[c]
             \/ /\ m.type = "SYNC" /\ up[c] # <<>> /\ Head(up[c]).type = "JOIN"
                /\ sState[c] # "inactive" /\ m.who = c
                /\ up'[c] = Tail(up[c])
                /\ wire'[c] = Written(c, <<[type |-> "JOIN", answer |-> TRUE,
                                            newmap |-> m.newmap]>>)
    /\ UNCHANGED <<Machine(c), sState[c], Records(c)>>

RunStep(c) == ServerRunsTool /\ UNCHANGED <<Machine(c), Slot(c), wire[c], Records(c)>>

\* the slot of c is closed
CutOff(c, why) ==
    /\ sState'[c] = "inactive" /\ sendq'[c] = <<>> /\ up'[c] = <<>>
    /\ wire'[c] = IF cMode[c] = "out" THEN <<>> ELSE Append(wire[c], Close)
    /\ fate'[c] = IF fate[c] = "none" THEN why ELSE fate[c]

\* the game and the NWC_READY that c is sent
GameMsg(new) == [type |-> "GAME", world |-> sWorld, reload |-> new]
ReadyMsg(new) == [type |-> "READY", step |-> sStep, map |-> new, chk |-> ListAt(sLists, sStep)]

\* a reload; c may be the joiner it is for
ReloadStep(c) ==
    /\ \E new \in Nat :
          /\ Reloads(new)
          /\ \/ UNCHANGED <<Slot(c), wire[c], fate[c]>>
             \/ /\ RunsSync(new) /\ sState[c] # "inactive" /\ Head(sQueue).who = c
                /\ \/ CutOff(c, "left")
                   \/ \E ms \in GameReplies(GameMsg(new), ReadyMsg(new)) :
                         /\ wire'[c] = Written(c, ms)
                         /\ sState'[c] = IF ReadyMsg(new) \in Elems(ms) THEN "playing"
                                                                        ELSE sState[c]
                         /\ UNCHANGED <<sendq[c], up[c], fate[c]>>
    /\ UNCHANGED <<Machine(c), lost[c]>>

\* a report of c that the server takes for a lost synchronisation
WrongReport(c) ==
    /\ up[c] # <<>>
    /\ LET m == Head(up[c])
       IN  \/ m.type = "TOOL" /\ m.lstep <= sStep /\ ~ToolAgrees(m, sStep, sLists)
           \/ m.type = "READY" /\ Available(m.step, sStep) /\ ListAt(sLists, m.step) # m.chk

CutStep(c) ==
    /\ \E why \in {"left", "checklist", "map"} :
          CutOff(c, why) /\ (why = "checklist" => WrongReport(c))
    /\ sState[c] # "inactive"
    /\ UNCHANGED <<core, Machine(c), lost[c]>>

\* the server reads what c sent and may answer
AnswerStep(c) ==
    /\ up[c] # <<>> /\ sState[c] # "inactive"
    /\ up'[c] = Tail(up[c])
    /\ \/ wire'[c] = wire[c] /\ (Head(up[c]).type = "READY" => SendMayFail)
       \/ wire'[c] = Written(c, <<[type |-> "JOIN", answer |-> FALSE, newmap |-> 0]>>)
          /\ Head(up[c]).type = "JOIN"
       \/ wire'[c] = Written(c, <<Head(up[c])>>) /\ Head(up[c]).type = "READY"
    /\ UNCHANGED <<core, Machine(c), sState[c], sendq[c], Records(c)>>

FlushStep(c) ==
    /\ sendq[c] # <<>>
    /\ sendq'[c] = Tail(sendq[c])
    /\ wire'[c] = Written(c, <<Head(sendq[c])>>)
    /\ UNCHANGED <<core, Machine(c), sState[c], up[c], Records(c)>>

ConnectStep(c) ==
    /\ cMode[c] = "out" /\ sState[c] = "inactive"
    /\ cMode'[c] = "joining" /\ sState'[c] = "connected"
    /\ up'[c] = <<JoinRequest>> /\ wire'[c] = <<>> /\ sendq'[c] = <<>>
    /\ lost'[c] = FALSE /\ fate'[c] = "none"
    /\ UNCHANGED <<core, cStep[c], cBarrier[c], cPaused[c], cMap[c], cWorld[c], cLists[c],
                   cQueue[c]>>

\* the client ends: the reasons it may have for it
WhyGone(c, why) ==
    \/ why \in {"left", "refused", "garbled", "map"}
    \/ why = "past" /\ \/ /\ ClientReads(c, "playing", {"TOOL", "SYNC"})
                          /\ Head(wire[c]).step < cStep[c]
                       \/ /\ cMode[c] = "playing" /\ HasDue(cQueue[c], cStep[c])
                          /\ Head(cQueue[c]).step < cStep[c] /\ Head(cQueue[c]).type # "CHECK"
    \/ why = "checklist" /\ \/ /\ Due(c, "CHECK") /\ ClientRuns(c)
                               /\ ListAt(cLists[c], Head(cQueue[c]).sstep) # Head(cQueue[c]).chk
                            \/ /\ Due(c, "TOOL") /\ Head(cQueue[c]).step = cStep[c]
                               /\ SameWorld(Head(cQueue[c]), cMap[c]) /\ ~ClientRuns(c)

GoneStep(c) ==
    /\ \E why \in Fates :
          /\ WhyGone(c, why)
          /\ fate'[c] = IF fate[c] = "none" THEN why ELSE fate[c]
    /\ cMode[c] # "out" /\ cMode'[c] = "out"
    /\ cStep'[c] = 0 /\ cBarrier'[c] = 0 /\ cPaused'[c] = FALSE /\ cMap'[c] = 0
    /\ cWorld'[c] = <<>> /\ cQueue'[c] = <<>> /\ wire'[c] = <<>>
    /\ up'[c] = IF sState[c] = "inactive" THEN <<>> ELSE Append(up[c], Close)
    /\ UNCHANGED <<core, cLists[c], sendq[c], sState[c], lost[c]>>

\* what a client does with the message it reads, but for ending
Accepted(c) ==
    /\ ClientReads(c, "joining", {"JOIN"}) /\ Head(wire[c]).answer
    /\ cMode'[c] = "waiting" /\ cMap'[c] = Head(wire[c]).newmap
    /\ UNCHANGED <<cStep[c], cBarrier[c], cPaused[c], cWorld[c], cLists[c], cQueue[c]>>

Skipped(c) ==
    /\ cMode[c] \in {"joining", "waiting"}
    /\ Head(wire[c]).type \in {"READY", "STEP", "CHECK", "TOOL", "SYNC"}
    /\ UNCHANGED Machine(c)

Loaded(c) ==
    /\ ClientReads(c, "waiting", {"GAME"})
    /\ cMode'[c] = "playing" /\ cWorld'[c] = Append(Head(wire[c]).world, Reload(Head(wire[c]).reload))
    /\ cStep'[c] = 0 /\ cBarrier'[c] = 0 /\ cPaused'[c] = TRUE /\ cQueue'[c] = <<>>
    /\ UNCHANGED <<cMap[c], cLists[c]>>

TimeRead(c) ==
    /\ ClientReads(c, "playing", {"STEP", "CHECK"})
    /\ cBarrier'[c] = RaisedBarrier(c, Head(wire[c]))
    /\ cQueue'[c] = IF Head(wire[c]).type = "STEP" \/ Head(wire[c]).step < cStep[c]
                    THEN cQueue[c] ELSE Insert(cQueue[c], Head(wire[c]))
    /\ UNCHANGED <<cMode[c], cStep[c], cPaused[c], cMap[c], cWorld[c], cLists[c]>>

CommandQueued(c) ==
    /\ ClientReads(c, "playing", {"TOOL", "SYNC"}) /\ ~(Head(wire[c]).step < cStep[c])
    /\ cQueue'[c] = Insert(cQueue[c], Head(wire[c]))
    /\ UNCHANGED <<cMode[c], cStep[c], cBarrier[c], cPaused[c], cMap[c], cWorld[c], cLists[c]>>

Unpaused(c) ==
    /\ ClientReads(c, "playing", {"READY"}) /\ Head(wire[c]).map = cMap[c]
    /\ cStep'[c] = Head(wire[c]).step /\ cBarrier'[c] = Head(wire[c]).step
    /\ cPaused'[c] = FALSE
    /\ cLists'[c] = [cLists[c] EXCEPT ![Head(wire[c]).step % Ring] = Head(wire[c]).chk]
    /\ UNCHANGED <<cMode[c], cMap[c], cWorld[c], cQueue[c]>>

ReadStep(c) ==
    /\ wire[c] # <<>> /\ wire'[c] = Tail(wire[c])
    /\ \/ Accepted(c) \/ Skipped(c) \/ Loaded(c)
       \/ TimeRead(c) \/ CommandQueued(c) \/ Unpaused(c)
    /\ UNCHANGED <<core, Slot(c), Records(c)>>

\* what a client does with a due command, but for ending
Dropped(c) ==
    /\ \/ Head(cQueue[c]).step < cStep[c] /\ Head(cQueue[c]).type = "CHECK"
       \/ ~(Head(cQueue[c]).step < cStep[c]) /\ ~SameWorld(Head(cQueue[c]), cMap[c])
    /\ cWorld'[c] = cWorld[c]

Checked(c) ==
    /\ Head(cQueue[c]).type = "CHECK" /\ ClientRuns(c)
    /\ cWorld'[c] = cWorld[c]

ToolRun(c) ==
    /\ Head(cQueue[c]).type = "TOOL" /\ Head(cQueue[c]).step = cStep[c] /\ ClientRuns(c)
    /\ cWorld'[c] = Append(cWorld[c], Tool(Head(cQueue[c]).tool))

PopStep(c) ==
    /\ cMode[c] = "playing" /\ HasDue(cQueue[c], cStep[c])
    /\ Dropped(c) \/ Checked(c) \/ ToolRun(c)
    /\ cQueue'[c] = Tail(cQueue[c])
    /\ UNCHANGED <<core, cMode[c], cStep[c], cBarrier[c], cPaused[c], cMap[c], cLists[c],
                   Slot(c), wire[c], Records(c)>>

SyncStep(c) ==
    /\ Due(c, "SYNC") /\ ClientRuns(c)
    /\ cWorld'[c] = Append(cWorld[c], Reload(Head(cQueue[c]).newmap))
    /\ lost'[c] = (lost[c] \/ LosesCommands(c))
    /\ cQueue'[c] = <<>> /\ cPaused'[c] = TRUE /\ cBarrier'[c] = cStep[c]
    /\ cMap'[c] = Head(cQueue[c]).newmap
    /\ up'[c] = IF sState[c] = "inactive" THEN up[c]
                ELSE Append(up[c], [type |-> "READY", step |-> cStep[c],
                                    map |-> Head(cQueue[c]).newmap,
                                    chk |-> ListAt(cLists[c], cStep[c])])
    /\ UNCHANGED <<core, cMode[c], cStep[c], cLists[c], sState[c], sendq[c], wire[c], fate[c]>>

AdvanceStep(c) ==
    /\ cMode[c] = "playing" /\ ~cPaused[c] /\ MayAdvance(c) /\ ~HasDue(cQueue[c], cStep[c])
    /\ cStep'[c] = cStep[c] + 1
    /\ cWorld'[c] = Append(cWorld[c], Frame)
    /\ cLists'[c] = [cLists[c] EXCEPT ![(cStep[c] + 1) % Ring] = Append(cWorld[c], Frame)]
    /\ UNCHANGED <<core, cMode[c], cBarrier[c], cPaused[c], cMap[c], cQueue[c], Slot(c),
                   wire[c], Records(c)>>

RequestStep(c) ==
    /\ cMode[c] = "playing" /\ sState[c] # "inactive"
    /\ \E n \in Nat :
          up'[c] = Append(up[c], [type |-> "TOOL", step |-> cStep[c], map |-> cMap[c],
                                  lstep |-> cStep[c], lchk |-> ListAt(cLists[c], cStep[c]),
                                  tool |-> n, at |-> 0])
    /\ UNCHANGED <<core, Machine(c), sState[c], sendq[c], wire[c], Records(c)>>

ServerSide(c) ==
    \/ FrameStep(c) \/ ScheduleStep(c) \/ RunStep(c) \/ ReloadStep(c)
    \/ CutStep(c) \/ AnswerStep(c) \/ FlushStep(c)
ClientSide(c) ==
    \/ ConnectStep(c) \/ GoneStep(c) \/ ReadStep(c) \/ PopStep(c) \/ SyncStep(c)
    \/ AdvanceStep(c) \/ RequestStep(c)
LocalStep(c) == RestStep(c) \/ ServerSide(c) \/ ClientSide(c)

\* the functions that the actions change at one client
Indexed ==
    /\ DOMAIN cMode = Clients /\ DOMAIN cStep = Clients /\ DOMAIN cBarrier = Clients
    /\ DOMAIN cPaused = Clients /\ DOMAIN cMap = Clients /\ DOMAIN cWorld = Clients
    /\ DOMAIN cLists = Clients /\ DOMAIN cQueue = Clients
    /\ DOMAIN sState = Clients /\ DOMAIN sendq = Clients /\ DOMAIN wire = Clients
    /\ DOMAIN up = Clients /\ DOMAIN lost = Clients /\ DOMAIN fate = Clients

LEMMA IndexedByClients == IInv => Indexed
  BY DEF IInv, ClientOK, ServerOK, RecordsOK, ChannelsUpTo, Indexed

\* what the helpers do to the client they are about and to any other
LEMMA LocalHelpers ==
    ASSUME Indexed, NEW c \in Clients, NEW d \in Clients
    PROVE  /\ \A m : Broadcast(m) => sendq'[c] = Queued(c, m)
           /\ \A ms : Direct(d, ms) => wire'[c] = IF c = d THEN Written(c, ms) ELSE wire[c]
           /\ \A why : CloseSlot(d, why) =>
                 IF c = d THEN CutOff(c, why)
                          ELSE UNCHANGED <<Slot(c), wire[c], fate[c]>>
           /\ Consume(d) => up'[c] = IF c = d THEN Tail(up[c]) ELSE up[c]
           /\ ConsumeWire(d) => wire'[c] = IF c = d THEN Tail(wire[c]) ELSE wire[c]
           /\ PopQueue(d) => cQueue'[c] = IF c = d THEN Tail(cQueue[c]) ELSE cQueue[c]
<1>1. \A m : Broadcast(m) => sendq'[c] = Queued(c, m)
  BY DEF Broadcast, Queued, PlayingClients
<1>2. \A ms : Direct(d, ms) => wire'[c] = IF c = d THEN Written(c, ms) ELSE wire[c]
  BY DEF Indexed, Direct, Written
<1>3. \A why : CloseSlot(d, why) => IF c = d THEN CutOff(c, why)
                                             ELSE UNCHANGED <<Slot(c), wire[c], fate[c]>>
  BY DEF Indexed, CloseSlot, CutOff, Slot
<1>4. Consume(d) => up'[c] = IF c = d THEN Tail(up[c]) ELSE up[c]
  BY DEF Indexed, Consume
<1>5. ConsumeWire(d) => wire'[c] = IF c = d THEN Tail(wire[c]) ELSE wire[c]
  BY DEF Indexed, ConsumeWire
<1>6. PopQueue(d) => cQueue'[c] = IF c = d THEN Tail(cQueue[c]) ELSE cQueue[c]
  BY DEF Indexed, PopQueue
<1> QED
  BY <1>1, <1>2, <1>3, <1>4, <1>5, <1>6

\* The server's own steps.
LEMMA FrameIsLocal == ASSUME Indexed, NEW c \in Clients, ServerFrame PROVE FrameStep(c)
<1>1. PICK m \in Announcements(sStep + 1, Append(sWorld, Frame)) : Broadcast(m)
  BY DEF ServerFrame
<1>2. sendq'[c] = Queued(c, m)
  BY <1>1, LocalHelpers
<1>3. UNCHANGED <<Machine(c), sState[c], up[c], wire[c], Records(c)>>
  BY DEF ServerFrame, clientVars, history, Machine, Records
<1> QED
  BY <1>1, <1>2, <1>3 DEF FrameStep

\* a tool that is broadcast
LEMMA CloneIsScheduled ==
    ASSUME IInv, NEW n \in Nat, BroadcastTool(n), nMaps' = nMaps
    PROVE  /\ Schedules(ServerClone(n)) /\ ServerClone(n) \in ToolMsgs
           /\ ServerClone(n).type = "TOOL" /\ Broadcast(ServerClone(n))
<1>1. ServerClone(n) \in ToolMsgs
  BY ListType DEF ServerClone, ToolMsgs, ExecStep, Place, IInv, ServerOK, Worlds
<1>2. /\ ServerClone(n).step = sStep + 1 /\ ServerClone(n).map = sMap
      /\ ServerClone(n).at = Place /\ ServerClone(n).type = "TOOL"
      /\ ServerClone(n).lstep = sStep /\ ServerClone(n).lchk = ListAt(sLists, sStep)
  BY DEF ServerClone, ExecStep
<1> QED
  BY <1>1, <1>2 DEF BroadcastTool, Schedules

LEMMA SyncIsScheduled ==
    ASSUME IInv, NEW who \in Clients \cup {NoClient}, sQueue' = Insert(sQueue, SyncMsg(who)),
           ~sPaused', nMaps' = nMaps + 1, UNCHANGED <<sStep, sMap, sMaps, sWorld, sLists>>
    PROVE  /\ Schedules(SyncMsg(who)) /\ SyncMsg(who) \in SyncMsgs
           /\ SyncMsg(who).type = "SYNC" /\ SyncMsg(who).who = who
           /\ SyncMsg(who).newmap = nMaps + 1
<1>1. SyncMsg(who) \in SyncMsgs
  BY SyncMsgType
<1>2. /\ SyncMsg(who).step = sStep + 1 /\ SyncMsg(who).map = sMap
      /\ SyncMsg(who).at = Place /\ SyncMsg(who).type = "SYNC" /\ SyncMsg(who).who = who
      /\ SyncMsg(who).newmap = nMaps + 1
  BY DEF SyncMsg, ExecStep
<1> QED
  BY <1>1, <1>2 DEF Schedules

LEMMA ServerToolIsLocal ==
    ASSUME IInv, Indexed, NEW c \in Clients, ServerTool PROVE ScheduleStep(c)
<1>1. nTools + 1 \in Nat
  BY DEF IInv, RecordsOK
<1> DEFINE m == ServerClone(nTools + 1)
<1>2. Schedules(m) /\ m \in ToolMsgs /\ m.type = "TOOL" /\ Broadcast(m)
  BY <1>1, CloneIsScheduled DEF ServerTool, BroadcastTool
<1> HIDE DEF m
<1>3. sendq'[c] = Queued(c, m)
  BY <1>2, LocalHelpers
<1>4. UNCHANGED <<Machine(c), sState[c], Records(c), up[c], wire[c]>>
  BY DEF ServerTool, BroadcastTool, clientVars, history, Machine, Records
<1> QED
  BY <1>2, <1>3, <1>4 DEF ScheduleStep

LEMMA ForcedSyncIsLocal ==
    ASSUME IInv, Indexed, NEW c \in Clients, ServerForcesSync PROVE ScheduleStep(c)
<1> DEFINE m == SyncMsg(NoClient)
<1>1. Schedules(m) /\ m \in SyncMsgs /\ m.type = "SYNC" /\ m.who = NoClient
  BY SyncIsScheduled DEF ServerForcesSync
<1>2. Broadcast(m)
  BY DEF ServerForcesSync
<1> HIDE DEF m
<1>3. sendq'[c] = Queued(c, m)
  BY <1>2, LocalHelpers
<1>4. UNCHANGED <<Machine(c), sState[c], Records(c), up[c], wire[c]>>
  BY DEF ServerForcesSync, clientVars, history, Machine, Records
<1> QED
  BY <1>1, <1>3, <1>4, ClientAssumption DEF ScheduleStep

LEMMA RunIsLocal == ASSUME NEW c \in Clients, ServerRunsTool PROVE RunStep(c)
  BY DEF ServerRunsTool, RunStep, clientVars, channels, history, Machine, Slot, Records

LEMMA ForcedReloadIsLocal ==
    ASSUME IInv, NEW c \in Clients, ServerReloadsAtOnce PROVE ReloadStep(c)
<1>1. nMaps + 1 \in Nat
  BY DEF IInv, RecordsOK
<1>2. Reloads(nMaps + 1)
  BY DEF ServerReloadsAtOnce, Reloads, ForcedNow
<1> QED
  BY <1>1, <1>2 DEF ServerReloadsAtOnce, ReloadStep, clientVars, channels, history, Machine,
                    Slot, Records

LEMMA SyncRunIsLocal ==
    ASSUME IInv, Indexed, NEW c \in Clients, ServerRunsSync PROVE ReloadStep(c)
<1> DEFINE m == Head(sQueue)
<1>1. m \in SyncMsgs
  BY QueueHeadType DEF ServerRunsSync
<1>2. m.newmap \in Nat /\ m.who \in Clients \cup {NoClient}
  BY <1>1 DEF SyncMsgs
<1>3. Reloads(m.newmap) /\ RunsSync(m.newmap) /\ UNCHANGED <<Machine(c), lost[c]>>
  BY DEF ServerRunsSync, Reloads, RunsSync, counters, clientVars, Machine
<1>4. sMap' = m.newmap
  BY DEF ServerRunsSync, ServerReloads
<1>5. \/ UNCHANGED <<sState, channels, fate>>
      \/ m.who \in Clients /\ sState[m.who] # "inactive" /\ SendGame(m.who)
  BY <1>2 DEF ServerRunsSync
<1> HIDE DEF m
<1>6. CASE UNCHANGED <<sState, channels, fate>>
  BY <1>2, <1>3, <1>6 DEF ReloadStep, channels, Slot
<1>7. CASE m.who \in Clients /\ sState[m.who] # "inactive" /\ SendGame(m.who)
  <2>1. \/ CloseSlot(m.who, "left")
        \/ \E ms \in GameReplies(GameMsg(m.newmap), ReadyMsg(m.newmap)) :
              /\ Direct(m.who, ms)
              /\ sState' = IF ReadyMsg(m.newmap) \in Elems(ms)
                           THEN [sState EXCEPT ![m.who] = "playing"] ELSE sState
              /\ UNCHANGED <<sendq, up, fate>>
    BY <1>4, <1>7 DEF SendGame, GameMsg, ReadyMsg
  <2>2. CASE CloseSlot(m.who, "left")
    <3>1. IF c = m.who THEN CutOff(c, "left") ELSE UNCHANGED <<Slot(c), wire[c], fate[c]>>
      BY <1>7, <2>2, LocalHelpers
    <3> QED
      BY <1>2, <1>3, <1>7, <3>1 DEF ReloadStep, m
  <2>3. ASSUME NEW ms \in GameReplies(GameMsg(m.newmap), ReadyMsg(m.newmap)), Direct(m.who, ms),
               sState' = IF ReadyMsg(m.newmap) \in Elems(ms)
                         THEN [sState EXCEPT ![m.who] = "playing"] ELSE sState,
               UNCHANGED <<sendq, up, fate>>
        PROVE  ReloadStep(c)
    <3>1. wire'[c] = IF c = m.who THEN Written(c, ms) ELSE wire[c]
      BY <1>7, <2>3, LocalHelpers
    <3>2. CASE c # m.who
      <4>1. sState'[c] = sState[c]
        BY <1>7, <2>3, <3>2 DEF Indexed
      <4> QED
        BY <1>2, <1>3, <2>3, <3>1, <3>2, <4>1 DEF ReloadStep, Slot
    <3>3. CASE c = m.who
      <4>1. sState'[c] = IF ReadyMsg(m.newmap) \in Elems(ms) THEN "playing" ELSE sState[c]
        BY <2>3, <3>3 DEF Indexed
      <4> QED
        BY <1>2, <1>3, <1>7, <2>3, <3>1, <3>3, <4>1 DEF ReloadStep, m
    <3> QED
      BY <3>2, <3>3
  <2> QED
    BY <2>1, <2>2, <2>3
<1> QED
  BY <1>5, <1>6, <1>7

\* What the server does for one client d.
LEMMA RemovalIsLocal ==
    ASSUME Indexed, NEW c \in Clients, NEW d \in Clients, NEW why \in {"left", "checklist", "map"},
           RemoveClient(d, why), sState[d] # "inactive", why = "checklist" => WrongReport(d),
           UNCHANGED <<core, clientVars, lost>>
    PROVE  LocalStep(c)
<1>1. IF c = d THEN CutOff(c, why) ELSE UNCHANGED <<Slot(c), wire[c], fate[c]>>
  BY LocalHelpers DEF RemoveClient
<1>2. UNCHANGED <<Machine(c), lost[c]>>
  BY DEF clientVars, Machine
<1>3. CASE c = d
  BY <1>1, <1>2, <1>3 DEF CutStep, LocalStep, ServerSide
<1>4. CASE c # d
  BY <1>1, <1>2, <1>4 DEF RestStep, LocalStep, Records
<1> QED
  BY <1>3, <1>4

LEMMA AnswerIsLocal ==
    ASSUME Indexed, NEW c \in Clients, NEW d \in Clients, Consume(d),
           up[d] # <<>>, sState[d] # "inactive",
           \/ wire' = wire /\ (Head(up[d]).type = "READY" => SendMayFail)
           \/ /\ Direct(d, <<[type |-> "JOIN", answer |-> FALSE, newmap |-> 0]>>)
              /\ Head(up[d]).type = "JOIN"
           \/ Direct(d, <<Head(up[d])>>) /\ Head(up[d]).type = "READY",
           UNCHANGED <<core, clientVars, sState, sendq, history>>
    PROVE  LocalStep(c)
<1>1. up'[c] = IF c = d THEN Tail(up[c]) ELSE up[c]
  BY LocalHelpers
<1>2. \A ms : Direct(d, ms) => wire'[c] = IF c = d THEN Written(c, ms) ELSE wire[c]
  BY LocalHelpers
<1>3. UNCHANGED <<Machine(c), Records(c), sState[c], sendq[c]>>
  BY DEF clientVars, Machine, history, Records
<1>4. CASE c = d
  <2>1. AnswerStep(c)
    BY <1>1, <1>2, <1>3, <1>4 DEF AnswerStep
  <2> QED
    BY <2>1 DEF LocalStep, ServerSide
<1>5. CASE c # d
  <2>1. wire'[c] = wire[c]
    BY <1>2, <1>5
  <2> QED
    BY <1>1, <1>3, <1>5, <2>1 DEF RestStep, LocalStep, Slot
<1> QED
  BY <1>4, <1>5

LEMMA HandlingIsLocal ==
    ASSUME IInv, Indexed, NEW c \in Clients, NEW d \in Clients, ServerHandles(d)
    PROVE  LocalStep(c)
<1>1. CASE ServerKicksInitiator(d)
  <2>1. WrongReport(d) /\ sState[d] # "inactive"
    BY <1>1 DEF ServerKicksInitiator, WrongReport, ServerReads
  <2>2. UNCHANGED <<core, clientVars, lost>> /\ RemoveClient(d, "checklist")
    BY <1>1 DEF ServerKicksInitiator, core, counters
  <2> QED
    BY <2>1, <2>2, RemovalIsLocal
<1>2. CASE ServerIgnoresTool(d)
  <2>1. Head(up[d]).type # "READY" /\ up[d] # <<>> /\ sState[d] # "inactive"
    BY <1>2 DEF ServerIgnoresTool, ServerReads
  <2>2. UNCHANGED <<core, clientVars, sState, sendq, history, wire>> /\ Consume(d)
    BY <1>2 DEF ServerIgnoresTool, core, counters, serverVars
  <2> QED
    BY <2>1, <2>2, AnswerIsLocal
<1>3. CASE ServerFailsToAnswer(d)
  <2>1. Head(up[d]).type # "READY" /\ up[d] # <<>> /\ sState[d] # "inactive"
    BY <1>3 DEF ServerFailsToAnswer, ServerReads
  <2>2. UNCHANGED <<core, clientVars, sState, sendq, history, wire>> /\ Consume(d)
    BY <1>3 DEF ServerFailsToAnswer, core, counters, serverVars
  <2> QED
    BY <2>1, <2>2, AnswerIsLocal
<1>4. CASE ServerRefusesJoin(d)
  <2>1. Head(up[d]).type = "JOIN" /\ up[d] # <<>> /\ sState[d] # "inactive"
    BY <1>4 DEF ServerRefusesJoin, ServerReads
  <2>2. /\ UNCHANGED <<core, clientVars, sState, sendq, history>> /\ Consume(d)
        /\ Direct(d, <<[type |-> "JOIN", answer |-> FALSE, newmap |-> 0]>>)
    BY <1>4 DEF ServerRefusesJoin, core, counters, serverVars
  <2> QED
    BY <2>1, <2>2, AnswerIsLocal
<1>5. CASE ServerSchedulesTool(d)
  <2>1. Head(up[d]) \in ToolMsgs /\ Head(up[d]).type = "TOOL" /\ up[d] # <<>>
    BY <1>5, ServerReadsType, MessageTypes DEF ServerSchedulesTool, ServerReads
  <2>2. Head(up[d]).tool \in Nat
    BY <2>1 DEF ToolMsgs
  <2> DEFINE m == ServerClone(Head(up[d]).tool)
  <2>3. BroadcastTool(Head(up[d]).tool) /\ nMaps' = nMaps /\ Consume(d)
    BY <1>5 DEF ServerSchedulesTool, BroadcastTool
  <2>4. Schedules(m) /\ m \in ToolMsgs /\ m.type = "TOOL" /\ Broadcast(m)
    BY <2>2, <2>3, CloneIsScheduled
  <2>5. UNCHANGED <<Machine(c), sState[c], Records(c), wire[c]>>
    BY <2>3 DEF BroadcastTool, clientVars, history, Machine, Records
  <2> HIDE DEF m
  <2>6. sendq'[c] = Queued(c, m) /\ up'[c] = IF c = d THEN Tail(up[c]) ELSE up[c]
    BY <2>3, <2>4, LocalHelpers
  <2>7. ScheduleStep(c)
    BY <2>1, <2>4, <2>5, <2>6 DEF ScheduleStep
  <2> QED
    BY <2>7 DEF LocalStep, ServerSide
<1>6. CASE ServerAcceptsJoin(d)
  <2> DEFINE m == SyncMsg(d)
  <2>1. Head(up[d]).type = "JOIN" /\ up[d] # <<>> /\ sState[d] # "inactive"
    BY <1>6 DEF ServerAcceptsJoin, ServerReads
  <2>2. /\ Schedules(m) /\ m \in SyncMsgs /\ m.type = "SYNC" /\ m.who = d
        /\ m.newmap = nMaps + 1
    BY <1>6, SyncIsScheduled DEF ServerAcceptsJoin
  <2>3. /\ Broadcast(m) /\ Consume(d)
        /\ Direct(d, <<[type |-> "JOIN", answer |-> TRUE, newmap |-> nMaps + 1]>>)
    BY <1>6 DEF ServerAcceptsJoin
  <2>4. UNCHANGED <<Machine(c), sState[c], Records(c)>>
    BY <1>6 DEF ServerAcceptsJoin, clientVars, history, Machine, Records
  <2> HIDE DEF m
  <2>5. /\ sendq'[c] = Queued(c, m)
        /\ up'[c] = IF c = d THEN Tail(up[c]) ELSE up[c]
        /\ wire'[c] = IF c = d THEN Written(c, <<[type |-> "JOIN", answer |-> TRUE,
                                                   newmap |-> nMaps + 1]>>)
                               ELSE wire[c]
    BY <2>3, LocalHelpers
  <2>6. ScheduleStep(c)
    BY <2>1, <2>2, <2>4, <2>5 DEF ScheduleStep
  <2> QED
    BY <2>6 DEF LocalStep, ServerSide
<1>7. CASE ServerGetsReady(d)
  <2> DEFINE m     == Head(up[d])
             Wrong == Available(m.step, sStep) /\ ListAt(sLists, m.step) # m.chk
  <2>1. m.type = "READY" /\ up[d] # <<>> /\ sState[d] # "inactive"
    BY <1>7 DEF ServerGetsReady, ServerReads
  <2>2. UNCHANGED <<core, clientVars, lost>>
    BY <1>7 DEF ServerGetsReady, core, counters
  <2>3. \/ Wrong /\ RemoveClient(d, "checklist")
        \/ RemoveClient(d, "map")
        \/ /\ Consume(d) /\ \E ms \in ReadyReplies(m) : Direct(d, ms)
           /\ UNCHANGED <<sState, sendq, fate>>
    BY <1>7 DEF ServerGetsReady
  <2>4. Wrong => WrongReport(d)
    BY <2>1 DEF WrongReport
  <2> HIDE DEF Wrong
  <2>5. CASE Wrong /\ RemoveClient(d, "checklist")
    BY <2>1, <2>2, <2>4, <2>5, RemovalIsLocal
  <2>6. CASE RemoveClient(d, "map")
    BY <2>1, <2>2, <2>6, RemovalIsLocal
  <2>7. CASE /\ Consume(d) /\ \E ms \in ReadyReplies(m) : Direct(d, ms)
             /\ UNCHANGED <<sState, sendq, fate>>
    <3>1. \/ Direct(d, <<m>>)
          \/ Direct(d, <<>>) /\ SendMayFail
      BY <2>7 DEF ReadyReplies
    <3>2. CASE Direct(d, <<m>>)
      BY <2>1, <2>2, <2>7, <3>2, AnswerIsLocal DEF history
    <3>3. CASE Direct(d, <<>>) /\ SendMayFail
      <4>1. wire'[c] = wire[c]
        <5>1. wire[c] \in Seq(UpTo(ToClientMsgs, sStep))
          BY DEF IInv, ChannelsUpTo
        <5>2. wire[c] \o <<>> = wire[c]
          BY <5>1
        <5> QED
          BY <3>3, <5>2, LocalHelpers DEF Written
      <4>2. up'[c] = IF c = d THEN Tail(up[c]) ELSE up[c]
        BY <2>7, LocalHelpers
      <4>3. UNCHANGED <<Machine(c), Records(c), sState[c], sendq[c]>>
        BY <2>2, <2>7 DEF clientVars, Machine, Records
      <4>4. CASE c = d
        <5>1. AnswerStep(c)
          BY <2>1, <2>2, <3>3, <4>1, <4>2, <4>3, <4>4 DEF AnswerStep
        <5> QED
          BY <5>1 DEF LocalStep, ServerSide
      <4>5. CASE c # d
        BY <2>2, <4>1, <4>2, <4>3, <4>5 DEF RestStep, LocalStep, Slot
      <4> QED
        BY <4>4, <4>5
    <3> QED
      BY <3>1, <3>2, <3>3
  <2> QED
    BY <2>3, <2>5, <2>6, <2>7
<1>8. CASE ServerGetsClose(d)
  <2>1. UNCHANGED <<core, clientVars, lost>> /\ RemoveClient(d, "left") /\ sState[d] # "inactive"
    BY <1>8 DEF ServerGetsClose, ServerReads, core, counters
  <2> QED
    BY <2>1, RemovalIsLocal
<1> QED
  BY <1>1, <1>2, <1>3, <1>4, <1>5, <1>6, <1>7, <1>8 DEF ServerHandles

LEMMA LinkIsLocal ==
    ASSUME IInv, Indexed, NEW c \in Clients, NEW d \in Clients,
           ServerDropsClient(d) \/ Flush(d) \/ Connect(d)
    PROVE  LocalStep(c)
<1>1. CASE ServerDropsClient(d)
  <2>1. UNCHANGED <<core, clientVars, lost>> /\ RemoveClient(d, "left") /\ sState[d] # "inactive"
    BY <1>1 DEF ServerDropsClient, core, counters
  <2> QED
    BY <2>1, RemovalIsLocal
<1>2. CASE Flush(d)
  <2>1. UNCHANGED <<core, Machine(c), Records(c), sState[c], up[c]>>
    BY <1>2 DEF Flush, core, counters, clientVars, history, Machine, Records
  <2>2. wire'[c] = IF c = d THEN Written(c, <<Head(sendq[c])>>) ELSE wire[c]
    BY <1>2, LocalHelpers DEF Flush
  <2>3. sendq'[c] = IF c = d THEN Tail(sendq[c]) ELSE sendq[c]
    BY <1>2 DEF Flush, Indexed
  <2>4. CASE c = d
    BY <1>2, <2>1, <2>2, <2>3, <2>4 DEF Flush, FlushStep, LocalStep, ServerSide
  <2>5. CASE c # d
    BY <2>1, <2>2, <2>3, <2>5 DEF RestStep, LocalStep, Slot
  <2> QED
    BY <2>4, <2>5
<1>3. CASE Connect(d)
  <2>1. UNCHANGED <<core, cStep[c], cBarrier[c], cPaused[c], cMap[c], cWorld[c], cLists[c],
                    cQueue[c]>>
    BY <1>3 DEF Connect, core
  <2>2. CASE c = d
    BY <1>3, <2>1, <2>2 DEF Connect, ConnectStep, LocalStep, ClientSide, Indexed
  <2>3. CASE c # d
    <3>1. UNCHANGED <<cMode[c], sState[c], up[c], wire[c], sendq[c], lost[c], fate[c]>>
      BY <1>3, <2>3 DEF Connect, Indexed
    <3> QED
      BY <2>1, <3>1 DEF RestStep, LocalStep, Slot, Machine, Records
  <2> QED
    BY <2>2, <2>3
<1> QED
  BY <1>1, <1>2, <1>3

\* The steps of one client d.
LEMMA GoneIsLocal ==
    ASSUME Indexed, NEW c \in Clients, NEW d \in Clients, NEW why \in Fates,
           ClientGone(d, why), WhyGone(d, why), cMode[d] # "out"
    PROVE  LocalStep(c)
<1>1. UNCHANGED <<core, cLists[c], sendq[c], sState[c], lost[c]>>
  BY DEF ClientGone, core, serverVars, counters
<1>2. CASE c = d
  <2>1. /\ cMode'[c] = "out" /\ cStep'[c] = 0 /\ cBarrier'[c] = 0 /\ cPaused'[c] = FALSE
        /\ cMap'[c] = 0 /\ cWorld'[c] = <<>> /\ cQueue'[c] = <<>> /\ wire'[c] = <<>>
        /\ up'[c] = IF sState[c] = "inactive" THEN <<>> ELSE Append(up[c], Close)
        /\ fate'[c] = IF fate[c] = "none" THEN why ELSE fate[c]
    BY <1>2 DEF ClientGone, Indexed
  <2> QED
    BY <1>1, <1>2, <2>1 DEF GoneStep, LocalStep, ClientSide
<1>3. CASE c # d
  <2>1. UNCHANGED <<cMode[c], cStep[c], cBarrier[c], cPaused[c], cMap[c], cWorld[c], cQueue[c],
                    wire[c], up[c], fate[c]>>
    BY <1>3 DEF ClientGone, Indexed
  <2> QED
    BY <1>1, <1>3, <2>1 DEF RestStep, LocalStep, Machine, Slot, Records
<1> QED
  BY <1>2, <1>3

\* an action of d that reads its wire
LEMMA ReadIsLocal ==
    ASSUME IInv, Indexed, NEW c \in Clients, NEW d \in Clients,
           \/ ClientIsAccepted(d) \/ ClientSkips(d) \/ ClientLoadsGame(d) \/ ClientGetsStep(d)
           \/ ClientGetsCheck(d)
           \/ ClientQueues(d) /\ ~(Head(wire[d]).step < cStep[d])
           \/ ClientGetsReady(d) /\ Head(wire[d]).map = cMap[d]
    PROVE  LocalStep(c)
<1>1. ConsumeWire(d) /\ wire[d] # <<>> /\ UNCHANGED <<core, Slot(c), Records(c)>>
  <2> USE DEF ClientReads, core, counters, serverVars, history, Slot, Records
  <2>1. CASE ClientIsAccepted(d)
    BY <2>1 DEF ClientIsAccepted
  <2>2. CASE ClientSkips(d)
    BY <2>2 DEF ClientSkips
  <2>3. CASE ClientLoadsGame(d)
    BY <2>3 DEF ClientLoadsGame
  <2>4. CASE ClientGetsStep(d)
    BY <2>4 DEF ClientGetsStep
  <2>5. CASE ClientGetsCheck(d)
    BY <2>5 DEF ClientGetsCheck
  <2>6. CASE ClientQueues(d) /\ ~(Head(wire[d]).step < cStep[d])
    BY <2>6 DEF ClientQueues
  <2>7. CASE ClientGetsReady(d) /\ Head(wire[d]).map = cMap[d]
    BY <2>7 DEF ClientGetsReady
  <2> QED
    BY <2>1, <2>2, <2>3, <2>4, <2>5, <2>6, <2>7
<1>2. wire'[c] = IF c = d THEN Tail(wire[c]) ELSE wire[c]
  BY <1>1, LocalHelpers
<1>3. CASE c # d
  <2> USE DEF Indexed, Machine
  <2>1. UNCHANGED Machine(c)
    <3>1. CASE ClientIsAccepted(d)
      BY <1>3, <3>1 DEF ClientIsAccepted
    <3>2. CASE ClientSkips(d)
      BY <1>3, <3>2 DEF ClientSkips
    <3>3. CASE ClientLoadsGame(d)
      BY <1>3, <3>3 DEF ClientLoadsGame
    <3>4. CASE ClientGetsStep(d)
      BY <1>3, <3>4 DEF ClientGetsStep
    <3>5. CASE ClientGetsCheck(d)
      BY <1>3, <3>5 DEF ClientGetsCheck
    <3>6. CASE ClientQueues(d) /\ ~(Head(wire[d]).step < cStep[d])
      BY <1>3, <3>6 DEF ClientQueues
    <3>7. CASE ClientGetsReady(d) /\ Head(wire[d]).map = cMap[d]
      BY <1>3, <3>7 DEF ClientGetsReady
    <3> QED
      BY <3>1, <3>2, <3>3, <3>4, <3>5, <3>6, <3>7
  <2> QED
    BY <1>1, <1>2, <1>3, <2>1 DEF RestStep, LocalStep
<1>4. CASE c = d
  <2>1. \/ Accepted(c) \/ Skipped(c) \/ Loaded(c)
        \/ TimeRead(c) \/ CommandQueued(c) \/ Unpaused(c)
    <3>1. CASE ClientIsAccepted(d)
      BY <1>4, <3>1 DEF ClientIsAccepted, Accepted, Indexed
    <3>2. CASE ClientSkips(d)
      BY <1>4, <3>2 DEF ClientSkips, ClientReads, Skipped, Machine
    <3>3. CASE ClientLoadsGame(d)
      BY <1>4, <3>3 DEF ClientLoadsGame, Loaded, Indexed
    <3>4. CASE ClientGetsStep(d)
      BY <1>4, <3>4 DEF ClientGetsStep, ClientReads, TimeRead, Indexed
    <3>5. CASE ClientGetsCheck(d)
      BY <1>4, <3>5 DEF ClientGetsCheck, ClientReads, TimeRead, Indexed
    <3>6. CASE ClientQueues(d) /\ ~(Head(wire[d]).step < cStep[d])
      BY <1>4, <3>6 DEF ClientQueues, CommandQueued, Indexed
    <3>7. CASE ClientGetsReady(d) /\ Head(wire[d]).map = cMap[d]
      BY <1>4, <3>7 DEF ClientGetsReady, Unpaused, Indexed
    <3> QED
      BY <3>1, <3>2, <3>3, <3>4, <3>5, <3>6, <3>7
  <2> QED
    BY <1>1, <1>2, <1>4, <2>1 DEF ReadStep, LocalStep, ClientSide
<1> QED
  BY <1>3, <1>4

LEMMA ClientHandlingIsLocal ==
    ASSUME IInv, Indexed, NEW c \in Clients, NEW d \in Clients, ClientHandles(d)
    PROVE  LocalStep(c)
<1>1. CASE ClientIsRefused(d)
  BY <1>1, GoneIsLocal DEF ClientIsRefused, ClientReads, WhyGone, Fates
<1>2. CASE ClientIsGarbled(d)
  BY <1>2, GoneIsLocal DEF ClientIsGarbled, ClientReads, WhyGone, Fates
<1>3. CASE ClientGetsClose(d)
  BY <1>3, GoneIsLocal DEF ClientGetsClose, WhyGone, Fates
<1>4. CASE ClientQueues(d) /\ Head(wire[d]).step < cStep[d]
  BY <1>4, GoneIsLocal DEF ClientQueues, ClientReads, WhyGone, Fates
<1>5. CASE ClientGetsReady(d) /\ Head(wire[d]).map # cMap[d]
  BY <1>5, GoneIsLocal DEF ClientGetsReady, ClientReads, WhyGone, Fates
<1> QED
  BY <1>1, <1>2, <1>3, <1>4, <1>5, ReadIsLocal DEF ClientHandles

LEMMA QueueRunIsLocal ==
    ASSUME IInv, Indexed, NEW c \in Clients, NEW d \in Clients, ClientRunsQueue(d)
    PROVE  LocalStep(c)
<1>0. "past" \in Fates /\ "checklist" \in Fates
  BY DEF Fates
<1>1. CASE ClientDrops(d)
  <2>1. CASE Head(cQueue[d]).step < cStep[d] /\ Head(cQueue[d]).type # "CHECK"
    BY <1>0, <1>1, <2>1, GoneIsLocal DEF ClientDrops, WhyGone
  <2>2. CASE ~(Head(cQueue[d]).step < cStep[d] /\ Head(cQueue[d]).type # "CHECK")
    <3>1. /\ cMode[d] = "playing" /\ HasDue(cQueue[d], cStep[d]) /\ PopQueue(d)
          /\ Head(cQueue[d]).step >= cStep[d] => ~SameWorld(Head(cQueue[d]), cMap[d])
          /\ UNCHANGED <<core, cMode, cStep, cBarrier, cPaused, cMap, cWorld, cLists,
                         sState, channels, lost, fate>>
      BY <1>1, <2>2 DEF ClientDrops, serverVars, core, counters, history
    <3>2. cQueue'[c] = IF c = d THEN Tail(cQueue[c]) ELSE cQueue[c]
      BY <3>1, LocalHelpers
    <3>3. CASE c = d
      <4>1. cStep[c] \in Nat /\ Head(cQueue[c]).step \in Nat
        <5>1. Head(cQueue[c]) \in QueuedMsgs
          BY <3>1, <3>3, ClientHeadType DEF HasDue
        <5> QED
          BY <5>1 DEF IInv, ClientOK, QueuedMsgs, CheckMsgs, ToolMsgs, SyncMsgs
      <4>2. Dropped(c)
        BY <2>2, <3>1, <3>3, <4>1 DEF Dropped
      <4> QED
        BY <3>1, <3>2, <3>3, <4>2 DEF PopStep, LocalStep, ClientSide, channels, Slot, Records
    <3>4. CASE c # d
      BY <3>1, <3>2, <3>4 DEF RestStep, LocalStep, channels, Slot, Records, Machine
    <3> QED
      BY <3>3, <3>4
  <2> QED
    BY <2>1, <2>2
<1>2. CASE ClientChecks(d)
  <2>1. CASE ListAt(cLists[d], Head(cQueue[d]).sstep) # Head(cQueue[d]).chk
    BY <1>0, <1>2, <2>1, GoneIsLocal DEF ClientChecks, WhyGone, Due
  <2>2. CASE ListAt(cLists[d], Head(cQueue[d]).sstep) = Head(cQueue[d]).chk
    <3>1. /\ Due(d, "CHECK") /\ ClientRuns(d) /\ PopQueue(d)
          /\ UNCHANGED <<core, cMode, cStep, cBarrier, cPaused, cMap, cWorld, cLists,
                         sState, channels, lost, fate>>
      BY <1>2, <2>2 DEF ClientChecks, serverVars, core, counters, history
    <3>2. cQueue'[c] = IF c = d THEN Tail(cQueue[c]) ELSE cQueue[c]
      BY <3>1, LocalHelpers
    <3>3. CASE c = d
      <4>1. Checked(c)
        BY <3>1, <3>3 DEF Checked, Due
      <4> QED
        BY <3>1, <3>2, <3>3, <4>1
           DEF PopStep, LocalStep, ClientSide, channels, Slot, Records, Due
    <3>4. CASE c # d
      BY <3>1, <3>2, <3>4 DEF RestStep, LocalStep, channels, Slot, Records, Machine
    <3> QED
      BY <3>3, <3>4
  <2> QED
    BY <2>1, <2>2
<1>3. CASE ClientRunsTool(d)
  <2>1. CASE ~ClientRuns(d)
    BY <1>0, <1>3, <2>1, GoneIsLocal DEF ClientRunsTool, WhyGone, Due
  <2>2. CASE ClientRuns(d)
    <3>1. /\ Due(d, "TOOL") /\ ClientRuns(d) /\ PopQueue(d) /\ Head(cQueue[d]).step = cStep[d]
          /\ cWorld' = [cWorld EXCEPT ![d] = Append(@, Tool(Head(cQueue[d]).tool))]
          /\ UNCHANGED <<core, cMode, cStep, cBarrier, cPaused, cMap, cLists,
                         sState, channels, lost, fate>>
      BY <1>3, <2>2 DEF ClientRunsTool, serverVars, core, counters, history
    <3>2. cQueue'[c] = IF c = d THEN Tail(cQueue[c]) ELSE cQueue[c]
      BY <3>1, LocalHelpers
    <3>3. cWorld'[c] = IF c = d THEN Append(cWorld[c], Tool(Head(cQueue[c]).tool)) ELSE cWorld[c]
      BY <3>1 DEF Indexed
    <3>4. CASE c = d
      <4>1. ToolRun(c)
        BY <3>1, <3>3, <3>4 DEF ToolRun, Due
      <4> QED
        BY <3>1, <3>2, <3>4, <4>1
           DEF PopStep, LocalStep, ClientSide, channels, Slot, Records, Due
    <3>5. CASE c # d
      BY <3>1, <3>2, <3>3, <3>5 DEF RestStep, LocalStep, channels, Slot, Records, Machine
    <3> QED
      BY <3>4, <3>5
  <2> QED
    BY <2>1, <2>2
<1>4. CASE ClientRunsSync(d)
  <2>1. UNCHANGED <<core, cMode[c], cStep[c], cLists[c], sState[c], sendq[c], wire[c], fate[c]>>
    BY <1>4 DEF ClientRunsSync, serverVars, core, counters
  <2>2. CASE c = d
    <3>1. cMap'[c] = Head(cQueue[c]).newmap /\ up'[c] =
             IF sState[c] = "inactive" THEN up[c]
             ELSE Append(up[c], [type |-> "READY", step |-> cStep[c],
                                 map |-> Head(cQueue[c]).newmap,
                                 chk |-> ListAt(cLists[c], cStep[c])])
      BY <1>4, <2>2 DEF ClientRunsSync, Indexed
    <3>2. /\ Due(c, "SYNC") /\ ClientRuns(c)
          /\ cWorld'[c] = Append(cWorld[c], Reload(Head(cQueue[c]).newmap))
          /\ lost'[c] = (lost[c] \/ LosesCommands(c))
          /\ cQueue'[c] = <<>> /\ cPaused'[c] = TRUE /\ cBarrier'[c] = cStep[c]
      BY <1>4, <2>2 DEF ClientRunsSync, Indexed, QueueAfterLoad
    <3> QED
      BY <2>1, <3>1, <3>2 DEF SyncStep, LocalStep, ClientSide
  <2>3. CASE c # d
    <3>1. UNCHANGED <<cWorld[c], lost[c], cQueue[c], cPaused[c], cBarrier[c], cMap[c], up[c]>>
      BY <1>4, <2>3 DEF ClientRunsSync, Indexed
    <3> QED
      BY <2>1, <3>1 DEF RestStep, LocalStep, Slot, Records, Machine
  <2> QED
    BY <2>2, <2>3
<1> QED
  BY <1>1, <1>2, <1>3, <1>4 DEF ClientRunsQueue

LEMMA OtherStepsAreLocal ==
    ASSUME IInv, Indexed, NEW c \in Clients, NEW d \in Clients,
           ClientTool(d) \/ ClientFrame(d) \/ ClientLeaves(d)
    PROVE  LocalStep(c)
<1>1. CASE ClientTool(d)
  <2>1. nTools + 1 \in Nat
    BY DEF IInv, RecordsOK
  <2>2. /\ UNCHANGED <<core, Machine(c), sState[c], sendq[c], wire[c], Records(c)>>
    BY <1>1 DEF ClientTool, serverVars, clientVars, core, history, Machine, Records
  <2>3. CASE c = d
    <3>1. /\ cMode[c] = "playing" /\ sState[c] # "inactive"
          /\ up'[c] = Append(up[c],
                [type |-> "TOOL", step |-> cStep[c], map |-> cMap[c], lstep |-> cStep[c],
                 lchk |-> ListAt(cLists[c], cStep[c]), tool |-> nTools + 1, at |-> 0])
      BY <1>1, <2>3 DEF ClientTool, Indexed
    <3> QED
      BY <2>1, <2>2, <3>1 DEF RequestStep, LocalStep, ClientSide
  <2>4. CASE c # d
    <3>1. up'[c] = up[c]
      BY <1>1, <2>4 DEF ClientTool, Indexed
    <3> QED
      BY <2>2, <3>1 DEF RestStep, LocalStep, Slot
  <2> QED
    BY <2>3, <2>4
<1>2. CASE ClientFrame(d)
  <2>1. UNCHANGED <<core, cMode[c], cBarrier[c], cPaused[c], cMap[c], cQueue[c], Slot(c),
                    wire[c], Records(c)>>
    BY <1>2 DEF ClientFrame, serverVars, core, counters, channels, history, Slot, Records
  <2>2. CASE c = d
    <3>1. /\ cStep'[c] = cStep[c] + 1
          /\ cWorld'[c] = Append(cWorld[c], Frame)
          /\ cLists'[c] = [cLists[c] EXCEPT ![(cStep[c] + 1) % Ring] = Append(cWorld[c], Frame)]
          /\ cMode[c] = "playing" /\ ~cPaused[c] /\ MayAdvance(c) /\ ~HasDue(cQueue[c], cStep[c])
      BY <1>2, <2>2 DEF ClientFrame, Indexed
    <3> QED
      BY <2>1, <3>1 DEF AdvanceStep, LocalStep, ClientSide
  <2>3. CASE c # d
    <3>1. UNCHANGED <<cStep[c], cWorld[c], cLists[c]>>
      BY <1>2, <2>3 DEF ClientFrame, Indexed
    <3> QED
      BY <2>1, <3>1 DEF RestStep, LocalStep, Machine
  <2> QED
    BY <2>2, <2>3
<1>3. CASE ClientLeaves(d)
  BY <1>3, GoneIsLocal DEF ClientLeaves, WhyGone, Fates
<1> QED
  BY <1>1, <1>2, <1>3

\* So every step of the system is one of these to every client, ...
LEMMA NextIsLocal ==
    ASSUME IInv, [Next]_vars, NEW c \in Clients PROVE LocalStep(c)
<1>1. Indexed
  BY IndexedByClients
<1>2. CASE UNCHANGED vars
  BY <1>2 DEF vars, serverVars, clientVars, channels, counters, history, RestStep, LocalStep,
              core, Machine, Slot, Records
<1>3. CASE ServerFrame
  BY <1>1, <1>3, FrameIsLocal DEF LocalStep, ServerSide
<1>4. CASE ServerTool \/ ServerForcesSync
  BY <1>1, <1>4, ServerToolIsLocal, ForcedSyncIsLocal DEF LocalStep, ServerSide
<1>5. CASE ServerReloadsAtOnce \/ ServerRuns
  BY <1>1, <1>5, ForcedReloadIsLocal, RunIsLocal, SyncRunIsLocal
     DEF LocalStep, ServerSide, ServerRuns
<1>6. ASSUME NEW d \in Clients, ServerHandles(d) PROVE LocalStep(c)
  BY <1>1, <1>6, HandlingIsLocal
<1>7. ASSUME NEW d \in Clients, ServerDropsClient(d) \/ Flush(d) \/ Connect(d) PROVE LocalStep(c)
  BY <1>1, <1>7, LinkIsLocal
<1>8. ASSUME NEW d \in Clients, ClientHandles(d) PROVE LocalStep(c)
  BY <1>1, <1>8, ClientHandlingIsLocal
<1>9. ASSUME NEW d \in Clients, ClientRunsQueue(d) PROVE LocalStep(c)
  BY <1>1, <1>9, QueueRunIsLocal
<1>10. ASSUME NEW d \in Clients, ClientTool(d) \/ ClientFrame(d) \/ ClientLeaves(d) PROVE LocalStep(c)
  BY <1>1, <1>10, OtherStepsAreLocal
<1> QED
  BY <1>2, <1>3, <1>4, <1>5, <1>6, <1>7, <1>8, <1>9, <1>10 DEF Next

-----------------------------------------------------------------------------
(* PausedIsAnswered.                                                       *)

\* a message of one of the types T is in s
Has(s, T) == \E i \in 1 .. Len(s) : s[i].type \in T

\* What an idle slot, or a machine that does not play, has not.
SlotOK(c) ==
    /\ sState[c] # "playing" => sendq[c] = <<>>
    /\ sState[c] = "inactive" => up[c] = <<>>
    /\ cMode[c] = "out" => wire[c] = <<>>
    /\ sState[c] = "inactive" /\ cMode[c] # "out" => Has(wire[c], {"CLOSE"})
    /\ cMode[c] # "playing" =>
          cQueue[c] = <<>> /\ ~cPaused[c] /\ cStep[c] = 0 /\ cBarrier[c] = 0

SlotInv == \A c \in Clients : SlotOK(c)

\* No game without an NWC_READY, or the end of the connection, behind it.
GamesAreFollowed(s) ==
    \A i \in 1 .. Len(s) : s[i].type = "GAME" =>
        \E j \in i + 1 .. Len(s) : s[j].type \in {"READY", "CLOSE"}

AnswerOK(c) ==
    /\ GamesAreFollowed(wire[c])
    /\ cMode[c] = "playing" /\ cPaused[c] =>
          Has(up[c], {"READY"}) \/ Has(wire[c], {"READY", "CLOSE"})

AnswerInv == \A c \in Clients : AnswerOK(c)

-----------------------------------------------------------------------------
(* Sequences of messages.                                                  *)

LEMMA HasTail ==
    ASSUME NEW S, NEW s \in Seq(S), s # <<>>, NEW T, Has(s, T), Head(s).type \notin T
    PROVE  Has(Tail(s), T)
<1>1. PICK i \in 1 .. Len(s) : s[i].type \in T
  BY DEF Has
<1>2. i # 1
  BY <1>1
<1>3. i - 1 \in 1 .. Len(Tail(s)) /\ Tail(s)[i - 1] = s[i]
  BY <1>1, <1>2
<1> QED
  BY <1>1, <1>3 DEF Has

LEMMA HasAppend ==
    ASSUME NEW S, NEW s \in Seq(S), NEW m, NEW T
    PROVE  /\ Has(s, T) => Has(Append(s, m), T)
           /\ m.type \in T => Has(Append(s, m), T)
<1>1. /\ Len(Append(s, m)) = Len(s) + 1 /\ Append(s, m)[Len(s) + 1] = m
      /\ \A i \in 1 .. Len(s) : Append(s, m)[i] = s[i]
  OBVIOUS
<1>2. Len(s) \in Nat
  OBVIOUS
<1> HIDE DEF Has
<1>3. ASSUME Has(s, T) PROVE Has(Append(s, m), T)
  BY <1>1, <1>2, <1>3 DEF Has
<1>4. ASSUME m.type \in T PROVE Has(Append(s, m), T)
  BY <1>1, <1>2, <1>4 DEF Has
<1> QED
  BY <1>3, <1>4

LEMMA GamesTail ==
    ASSUME NEW S, NEW s \in Seq(S), s # <<>>, GamesAreFollowed(s)
    PROVE  /\ GamesAreFollowed(Tail(s))
           /\ Head(s).type = "GAME" => Has(Tail(s), {"READY", "CLOSE"})
<1>1. /\ Len(Tail(s)) = Len(s) - 1 /\ Len(s) \in Nat \ {0} /\ Head(s) = s[1]
      /\ \A i \in 1 .. Len(s) - 1 : Tail(s)[i] = s[i + 1]
  OBVIOUS
<1>2. ASSUME NEW i \in 1 .. Len(s), s[i].type = "GAME"
      PROVE  \E j \in i .. Len(Tail(s)) : Tail(s)[j].type \in {"READY", "CLOSE"}
  <2>1. PICK j \in i + 1 .. Len(s) : s[j].type \in {"READY", "CLOSE"}
    BY <1>2 DEF GamesAreFollowed
  <2>2. j - 1 \in i .. Len(Tail(s)) /\ j - 1 \in 1 .. Len(s) - 1
    BY <1>1
  <2>3. Tail(s)[j - 1] = s[j]
    BY <1>1, <2>2
  <2> QED
    BY <2>1, <2>2, <2>3
<1>3. ASSUME NEW i \in 1 .. Len(Tail(s)), Tail(s)[i].type = "GAME"
      PROVE  \E j \in i + 1 .. Len(Tail(s)) : Tail(s)[j].type \in {"READY", "CLOSE"}
  <2>1. i + 1 \in 1 .. Len(s) /\ s[i + 1].type = "GAME"
    BY <1>1, <1>3
  <2> QED
    BY <1>2, <2>1
<1>4. ASSUME s[1].type = "GAME" PROVE Has(Tail(s), {"READY", "CLOSE"})
  <2>1. 1 \in 1 .. Len(s)
    BY <1>1
  <2> QED
    BY <1>1, <1>2, <1>4, <2>1 DEF Has
<1> QED
  BY <1>1, <1>3, <1>4 DEF GamesAreFollowed

LEMMA GamesAppend ==
    ASSUME NEW S, NEW s \in Seq(S), NEW m, m.type # "GAME", GamesAreFollowed(s)
    PROVE  GamesAreFollowed(Append(s, m))
<1>1. /\ Len(Append(s, m)) = Len(s) + 1 /\ Append(s, m)[Len(s) + 1] = m
      /\ \A i \in 1 .. Len(s) : Append(s, m)[i] = s[i]
  OBVIOUS
<1>2. Len(s) \in Nat
  OBVIOUS
<1> QED
  BY <1>1, <1>2 DEF GamesAreFollowed

\* what SendGame writes
LEMMA GamesConcat ==
    ASSUME NEW S, NEW s \in Seq(S), NEW t \in Seq(S)
    PROVE  GamesAreFollowed(s) /\ Len(t) = 2 /\ t[2].type = "READY" =>
              GamesAreFollowed(s \o t) /\ Has(s \o t, {"READY", "CLOSE"})
<1>1. /\ Len(s \o t) = Len(s) + Len(t) /\ Len(s) \in Nat /\ Len(t) \in Nat
      /\ \A i \in 1 .. Len(s) : (s \o t)[i] = s[i]
      /\ \A i \in 1 .. Len(t) : (s \o t)[Len(s) + i] = t[i]
  BY ConcatElements
<1> SUFFICES ASSUME GamesAreFollowed(s), Len(t) = 2, t[2].type = "READY"
             PROVE  GamesAreFollowed(s \o t) /\ Has(s \o t, {"READY", "CLOSE"})
  OBVIOUS
<1>2. Len(s \o t) = Len(s) + 2 /\ (s \o t)[Len(s) + 2].type = "READY"
  BY <1>1
<1>3. GamesAreFollowed(s \o t)
  BY <1>1, <1>2 DEF GamesAreFollowed
<1>4. Has(s \o t, {"READY", "CLOSE"})
  BY <1>1, <1>2 DEF Has
<1> QED
  BY <1>3, <1>4

LEMMA GamesWithReady ==
    ASSUME NEW S, NEW s \in Seq(S), GamesAreFollowed(s),
           NEW g \in S, NEW r \in S, r.type = "READY"
    PROVE  GamesAreFollowed(s \o <<g, r>>) /\ Has(s \o <<g, r>>, {"READY", "CLOSE"})
<1>1. <<g, r>> \in Seq(S) /\ Len(<<g, r>>) = 2 /\ <<g, r>>[2] = r
  OBVIOUS
<1> QED
  BY <1>1, GamesConcat

-----------------------------------------------------------------------------
(* SlotInv and AnswerInv along the steps.                                  *)

LEMMA LocalTypes ==
    ASSUME IInv, NEW c \in Clients
    PROVE  /\ wire[c] \in Seq(ToClientMsgs) /\ up[c] \in Seq(ToServerMsgs)
           /\ sendq[c] \in Seq(BroadcastMsgs) /\ cQueue[c] \in Seq(QueuedMsgs)
           /\ sState[c] \in {"inactive", "connected", "playing"}
           /\ cMode[c] \in {"out", "joining", "waiting", "playing"}
           /\ cStep[c] \in Nat /\ cBarrier[c] \in Nat /\ cMap[c] \in Nat
           /\ cPaused[c] \in BOOLEAN /\ lost[c] \in BOOLEAN /\ fate[c] \in Fates
           /\ cWorld[c] \in Worlds /\ cLists[c] \in Checklists
           /\ cStep[c] <= cBarrier[c] /\ cBarrier[c] <= sStep /\ sStep \in Nat
<1>1. /\ sendq \in [Clients -> Seq(BroadcastMsgs)]
      /\ wire \in [Clients -> Seq(ToClientMsgs)]
      /\ up \in [Clients -> Seq(ToServerMsgs)]
  BY UpToSubset, SeqSubset DEF IInv, ServerOK, ChannelsUpTo
<1> QED
  BY <1>1 DEF IInv, ClientOK, ServerOK, RecordsOK, NeverAhead

\* The server's step for c leaves the machine alone.
LEMMA ServerSideKeepsMachine ==
    ASSUME NEW c \in Clients, ServerSide(c)
    PROVE  UNCHANGED <<Machine(c), lost[c]>>
  BY DEF ServerSide, FrameStep, ScheduleStep, RunStep, ReloadStep, CutStep, AnswerStep,
         FlushStep, Records

LEMMA SlotFrame ==
    ASSUME IInv, NEW c \in Clients, SlotOK(c), FrameStep(c) \/ ScheduleStep(c) PROVE SlotOK(c)'
<1>1. UNCHANGED <<Machine(c), sState[c]>>
  BY DEF FrameStep, ScheduleStep
<1>2. sState[c] # "playing" => sendq'[c] = sendq[c]
  BY DEF FrameStep, ScheduleStep, Queued
<1>3. \/ UNCHANGED <<up[c], wire[c]>>
      \/ /\ up[c] # <<>> /\ up'[c] = Tail(up[c])
         /\ wire'[c] = wire[c] \/ \E ms : wire'[c] = Written(c, ms)
  BY DEF FrameStep, ScheduleStep
<1>4. sState[c] = "inactive" => UNCHANGED <<up[c], wire[c]>>
  BY <1>3 DEF SlotOK
<1>5. cMode[c] = "out" => wire'[c] = wire[c]
  BY <1>3 DEF Written
<1> QED
  BY <1>1, <1>2, <1>4, <1>5 DEF SlotOK, Machine

LEMMA SlotServerSide ==
    ASSUME IInv, NEW c \in Clients, SlotOK(c), ServerSide(c) PROVE SlotOK(c)'
<1> USE LocalTypes
<1>1. UNCHANGED Machine(c)
  BY ServerSideKeepsMachine
<1>2. CASE FrameStep(c) \/ ScheduleStep(c)
  BY <1>2, SlotFrame
<1>3. CASE RunStep(c)
  BY <1>3 DEF RunStep, SlotOK, Machine, Slot
<1>4. ASSUME NEW why, CutOff(c, why) PROVE SlotOK(c)'
  <2>1. cMode[c] # "out" => Has(wire'[c], {"CLOSE"})
    BY <1>4, HasAppend DEF CutOff, Close
  <2> QED
    BY <1>1, <1>4, <2>1 DEF SlotOK, CutOff, Machine
<1>5. CASE ReloadStep(c)
  <2>1. CASE UNCHANGED <<Slot(c), wire[c]>>
    BY <1>1, <2>1 DEF SlotOK, Machine, Slot
  <2>2. ASSUME sState[c] # "inactive", UNCHANGED <<sendq[c], up[c]>>,
               sState'[c] \in {sState[c], "playing"}, NEW ms, wire'[c] = Written(c, ms)
        PROVE  SlotOK(c)'
    BY <1>1, <2>2 DEF SlotOK, Machine, Written
  <2> QED
    BY <1>4, <1>5, <2>1, <2>2 DEF ReloadStep
<1>6. CASE CutStep(c)
  BY <1>4, <1>6 DEF CutStep
<1>7. CASE AnswerStep(c)
  BY <1>1, <1>7 DEF AnswerStep, SlotOK, Machine, Written
<1>8. CASE FlushStep(c)
  BY <1>1, <1>8 DEF FlushStep, SlotOK, Machine, Written
<1> QED
  BY <1>2, <1>3, <1>5, <1>6, <1>7, <1>8 DEF ServerSide

LEMMA SlotClientSide ==
    ASSUME IInv, NEW c \in Clients, SlotOK(c), ClientSide(c) PROVE SlotOK(c)'
<1> USE LocalTypes
<1>1. CASE ConnectStep(c)
  BY <1>1 DEF ConnectStep, SlotOK
<1>2. CASE GoneStep(c)
  BY <1>2 DEF GoneStep, SlotOK
<1>3. CASE ReadStep(c)
  <2>1. /\ wire[c] # <<>> /\ wire'[c] = Tail(wire[c]) /\ UNCHANGED <<Slot(c), Records(c)>>
        /\ \/ Accepted(c) \/ Skipped(c) \/ Loaded(c)
           \/ TimeRead(c) \/ CommandQueued(c) \/ Unpaused(c)
    BY <1>3 DEF ReadStep
  <2>2. Head(wire[c]).type # "CLOSE" /\ cMode[c] # "out"
    BY <2>1 DEF Accepted, Skipped, Loaded, TimeRead, CommandQueued, Unpaused, ClientReads
  <2>3. sState[c] = "inactive" => Has(wire'[c], {"CLOSE"})
    BY <2>1, <2>2, HasTail DEF SlotOK
  <2>4. /\ cMode'[c] # "out"
        /\ cMode'[c] # "playing" =>
              cQueue'[c] = <<>> /\ ~cPaused'[c] /\ cStep'[c] = 0 /\ cBarrier'[c] = 0
    BY <2>1, <2>2 DEF SlotOK, Accepted, Skipped, Loaded, TimeRead, CommandQueued, Unpaused,
                      ClientReads, Machine
  <2> QED
    BY <2>1, <2>3, <2>4 DEF SlotOK, Slot
<1>4. CASE PopStep(c)
  BY <1>4 DEF PopStep, SlotOK, Slot
<1>5. CASE SyncStep(c)
  BY <1>5 DEF SyncStep, SlotOK, Due
<1>6. CASE AdvanceStep(c)
  BY <1>6 DEF AdvanceStep, SlotOK, Slot
<1>7. CASE RequestStep(c)
  BY <1>7 DEF RequestStep, SlotOK, Machine
<1> QED
  BY <1>1, <1>2, <1>3, <1>4, <1>5, <1>6, <1>7 DEF ClientSide

LEMMA NextSlotInv == IInv /\ SlotInv /\ [Next]_vars => SlotInv'
<1> SUFFICES ASSUME IInv, SlotInv, [Next]_vars, NEW c \in Clients PROVE SlotOK(c)'
  BY DEF SlotInv
<1>1. SlotOK(c) /\ LocalStep(c)
  BY NextIsLocal DEF SlotInv
<1>2. CASE RestStep(c)
  BY <1>1, <1>2 DEF RestStep, SlotOK, Machine, Slot
<1> QED
  BY <1>1, <1>2, SlotServerSide, SlotClientSide DEF LocalStep

LEMMA WrittenOne ==
    ASSUME NEW c \in Clients, NEW S, wire[c] \in Seq(S), NEW m \in S
    PROVE  Written(c, <<m>>) = IF cMode[c] = "out" THEN wire[c] ELSE Append(wire[c], m)
<1>1. wire[c] \o <<m>> = Append(wire[c], m)
  OBVIOUS
<1> QED
  BY <1>1 DEF Written

\* A message that is no game is written behind the others.
LEMMA AnswerWritten ==
    ASSUME IInv, NEW c \in Clients, AnswerOK(c), UNCHANGED <<cMode[c], cPaused[c]>>,
           NEW m, m \in ToClientMsgs, m.type # "GAME", wire'[c] = Written(c, <<m>>),
           \/ up'[c] = up[c]
           \/ /\ up[c] # <<>> /\ up'[c] = Tail(up[c])
              /\ Head(up[c]).type = "READY" => m.type = "READY"
    PROVE  AnswerOK(c)'
<1> USE LocalTypes
<1>1. wire'[c] = IF cMode[c] = "out" THEN wire[c] ELSE Append(wire[c], m)
  BY WrittenOne
<1>2. GamesAreFollowed(wire'[c])
  BY <1>1, GamesAppend DEF AnswerOK
<1>3. ASSUME cMode[c] = "playing", cPaused[c]
      PROVE  Has(up'[c], {"READY"}) \/ Has(wire'[c], {"READY", "CLOSE"})
  <2>1. CASE Has(wire[c], {"READY", "CLOSE"})
    <3>1. Has(Append(wire[c], m), {"READY", "CLOSE"})
      BY <2>1, HasAppend
    <3> QED
      BY <1>1, <1>3, <3>1
  <2>2. CASE Has(up[c], {"READY"}) /\ up'[c] # up[c] /\ Head(up[c]).type # "READY"
    <3>1. Has(Tail(up[c]), {"READY"})
      BY <2>2, HasTail
    <3> QED
      BY <2>2, <3>1
  <2>3. CASE m.type = "READY"
    <3>1. Has(Append(wire[c], m), {"READY", "CLOSE"})
      BY <2>3, HasAppend
    <3> QED
      BY <1>1, <1>3, <3>1
  <2> QED
    BY <1>3, <2>1, <2>2, <2>3 DEF AnswerOK
<1> QED
  BY <1>2, <1>3 DEF AnswerOK

\* What does not touch wire, and takes no READY off up.
LEMMA AnswerKept ==
    ASSUME IInv, NEW c \in Clients, AnswerOK(c), UNCHANGED <<cMode[c], cPaused[c], wire[c]>>,
           \/ up'[c] = up[c]
           \/ up[c] # <<>> /\ up'[c] = Tail(up[c]) /\ Head(up[c]).type # "READY"
    PROVE  AnswerOK(c)'
<1> USE LocalTypes
<1>1. Has(up[c], {"READY"}) => Has(up'[c], {"READY"})
  BY HasTail
<1> QED
  BY <1>1 DEF AnswerOK

LEMMA AnswerCut ==
    ASSUME IInv, NEW c \in Clients, AnswerOK(c), UNCHANGED <<cMode[c], cPaused[c]>>,
           NEW why, CutOff(c, why)
    PROVE  AnswerOK(c)'
<1> USE LocalTypes
<1>1. /\ GamesAreFollowed(Append(wire[c], Close)) /\ Has(Append(wire[c], Close), {"READY", "CLOSE"})
  BY GamesAppend, HasAppend DEF AnswerOK, Close
<1>2. GamesAreFollowed(<<>>)
  BY DEF GamesAreFollowed
<1> QED
  BY <1>1, <1>2 DEF CutOff, AnswerOK

LEMMA AnswerGame ==
    ASSUME IInv, NEW c \in Clients, AnswerOK(c), UNCHANGED <<cMode[c], cPaused[c], up[c]>>,
           NEW g \in ToClientMsgs, NEW r \in ToClientMsgs, r.type = "READY",
           wire'[c] = Written(c, <<g, r>>)
    PROVE  AnswerOK(c)'
<1> USE LocalTypes
<1>1. GamesAreFollowed(wire[c] \o <<g, r>>) /\ Has(wire[c] \o <<g, r>>, {"READY", "CLOSE"})
  BY GamesWithReady DEF AnswerOK
<1> QED
  BY <1>1 DEF AnswerOK, Written

\* the game and the NWC_READY behind it
LEMMA GameTypes ==
    ASSUME IInv, NEW new \in Nat
    PROVE  /\ GameMsg(new) \in ToClientMsgs /\ GameMsg(new).type = "GAME"
           /\ GameMsg(new).world = sWorld /\ GameMsg(new).reload = new
           /\ ReadyMsg(new) \in ToClientMsgs /\ ReadyMsg(new).type = "READY"
           /\ ReadyMsg(new).step = sStep /\ ReadyMsg(new).map = new
           /\ ReadyMsg(new).chk = ListAt(sLists, sStep)
<1>1. ListAt(sLists, sStep) \in Worlds
  BY ListType DEF IInv, ServerOK
<1>2. ReadyMsg(new) \in ReadyMsgs
  BY <1>1 DEF ReadyMsg, ReadyMsgs, IInv, ServerOK
<1>3. GameMsg(new) \in GameMsgs
  BY DEF GameMsg, GameMsgs, IInv, ServerOK
<1> QED
  BY <1>2, <1>3 DEF ToClientMsgs, GameMsg, ReadyMsg

LEMMA AnswerServerSide ==
    ASSUME IInv, ~SendMayFail, NEW c \in Clients, AnswerOK(c), ServerSide(c) PROVE AnswerOK(c)'
<1> USE LocalTypes
<1>1. UNCHANGED <<cMode[c], cPaused[c]>>
  BY ServerSideKeepsMachine DEF Machine
<1>2. CASE FrameStep(c)
  BY <1>1, <1>2, AnswerKept DEF FrameStep
<1>3. CASE ScheduleStep(c)
  <2>1. PICK m \in ToolMsgs \cup SyncMsgs :
           \/ UNCHANGED <<up[c], wire[c]>>
           \/ /\ up[c] # <<>> /\ Head(up[c]).type = "TOOL"
              /\ up'[c] = Tail(up[c]) /\ wire'[c] = wire[c]
           \/ /\ m.type = "SYNC" /\ up[c] # <<>> /\ Head(up[c]).type = "JOIN"
              /\ up'[c] = Tail(up[c])
              /\ wire'[c] = Written(c, <<[type |-> "JOIN", answer |-> TRUE,
                                          newmap |-> m.newmap]>>)
    BY <1>3 DEF ScheduleStep
  <2>2. CASE /\ m.type = "SYNC" /\ up[c] # <<>> /\ Head(up[c]).type = "JOIN"
             /\ up'[c] = Tail(up[c])
             /\ wire'[c] = Written(c, <<[type |-> "JOIN", answer |-> TRUE,
                                         newmap |-> m.newmap]>>)
    <3> DEFINE j == [type |-> "JOIN", answer |-> TRUE, newmap |-> m.newmap]
    <3>1. m.newmap \in Nat
      BY <2>2 DEF ToolMsgs, SyncMsgs
    <3>2. j \in ToClientMsgs /\ j.type = "JOIN"
      BY <3>1 DEF ToClientMsgs, JoinMsgs
    <3>3. wire'[c] = Written(c, <<j>>)
      BY <2>2
    <3> HIDE DEF j
    <3> QED
      BY <1>1, <2>2, <3>2, <3>3, AnswerWritten
  <2> QED
    BY <1>1, <2>1, <2>2, AnswerKept
<1>4. CASE RunStep(c)
  BY <1>1, <1>4, AnswerKept DEF RunStep, Slot
<1>5. CASE ReloadStep(c)
  <2>1. PICK new \in Nat :
           \/ UNCHANGED <<up[c], wire[c]>>
           \/ CutOff(c, "left")
           \/ \E ms \in GameReplies(GameMsg(new), ReadyMsg(new)) :
                 wire'[c] = Written(c, ms) /\ up'[c] = up[c]
    BY <1>5 DEF ReloadStep, Slot
  <2>2. CASE wire'[c] = Written(c, <<GameMsg(new), ReadyMsg(new)>>) /\ up'[c] = up[c]
    BY <1>1, <2>2, GameTypes, AnswerGame
  <2>3. GameReplies(GameMsg(new), ReadyMsg(new)) = {<<GameMsg(new), ReadyMsg(new)>>}
    BY DEF GameReplies
  <2> QED
    BY <1>1, <2>1, <2>2, <2>3, AnswerKept, AnswerCut
<1>6. CASE CutStep(c)
  BY <1>1, <1>6, AnswerCut DEF CutStep
<1>7. CASE AnswerStep(c)
  <2>1. CASE wire'[c] = wire[c] /\ (Head(up[c]).type = "READY" => SendMayFail)
    BY <1>1, <1>7, <2>1, AnswerKept DEF AnswerStep
  <2>2. CASE /\ wire'[c] = Written(c, <<[type |-> "JOIN", answer |-> FALSE, newmap |-> 0]>>)
             /\ Head(up[c]).type = "JOIN"
    <3> DEFINE j == [type |-> "JOIN", answer |-> FALSE, newmap |-> 0]
    <3>1. j \in ToClientMsgs /\ j.type = "JOIN"
      BY DEF ToClientMsgs, JoinMsgs
    <3>2. wire'[c] = Written(c, <<j>>)
      BY <2>2
    <3> HIDE DEF j
    <3> QED
      BY <1>1, <1>7, <2>2, <3>1, <3>2, AnswerWritten DEF AnswerStep
  <2>3. CASE wire'[c] = Written(c, <<Head(up[c])>>) /\ Head(up[c]).type = "READY"
    <3>1. Head(up[c]) \in ToClientMsgs
      BY <1>7, <2>3, ServerReadsType, MessageTypes DEF ToClientMsgs, AnswerStep
    <3> QED
      BY <1>1, <1>7, <2>3, <3>1, AnswerWritten DEF AnswerStep
  <2> QED
    BY <1>7, <2>1, <2>2, <2>3 DEF AnswerStep
<1>8. CASE FlushStep(c)
  <2>1. Head(sendq[c]) \in BroadcastMsgs
    BY <1>8, HeadTailType DEF FlushStep
  <2>2. Head(sendq[c]) \in ToClientMsgs /\ Head(sendq[c]).type # "GAME"
    BY <2>1 DEF ToClientMsgs, BroadcastMsgs, TimeMsgs, CheckMsgs, ToolMsgs, SyncMsgs
  <2> QED
    BY <1>1, <1>8, <2>2, AnswerWritten DEF FlushStep
<1> QED
  BY <1>2, <1>3, <1>4, <1>5, <1>6, <1>7, <1>8 DEF ServerSide

LEMMA AnswerClientSide ==
    ASSUME IInv, ~SendMayFail, SlotInv, NEW c \in Clients, AnswerOK(c), ClientSide(c)
    PROVE  AnswerOK(c)'
<1> USE LocalTypes
<1>0. GamesAreFollowed(<<>>)
  BY DEF GamesAreFollowed
<1>1. CASE ConnectStep(c)
  BY <1>0, <1>1 DEF ConnectStep, AnswerOK
<1>2. CASE GoneStep(c)
  BY <1>0, <1>2 DEF GoneStep, AnswerOK
<1>3. CASE ReadStep(c)
  <2>1. /\ wire[c] # <<>> /\ wire'[c] = Tail(wire[c]) /\ up'[c] = up[c]
        /\ \/ Accepted(c) \/ Skipped(c) \/ Loaded(c)
           \/ TimeRead(c) \/ CommandQueued(c) \/ Unpaused(c)
    BY <1>3 DEF ReadStep, Slot
  <2>2. /\ GamesAreFollowed(wire'[c])
        /\ Head(wire[c]).type = "GAME" => Has(wire'[c], {"READY", "CLOSE"})
    BY <2>1, GamesTail DEF AnswerOK
  <2>3. CASE Loaded(c)
    BY <2>2, <2>3 DEF Loaded, ClientReads, AnswerOK
  <2>4. CASE TimeRead(c) \/ CommandQueued(c)
    <3>1. Head(wire[c]).type \notin {"READY", "CLOSE"} /\ UNCHANGED <<cMode[c], cPaused[c]>>
      BY <2>4 DEF TimeRead, CommandQueued, ClientReads
    <3>2. Has(wire[c], {"READY", "CLOSE"}) => Has(wire'[c], {"READY", "CLOSE"})
      BY <2>1, <3>1, HasTail
    <3> QED
      BY <2>1, <2>2, <3>1, <3>2 DEF AnswerOK
  <2>5. CASE Accepted(c) \/ Skipped(c) \/ Unpaused(c)
    BY <2>2, <2>5 DEF Accepted, Skipped, Unpaused, Machine, AnswerOK
  <2> QED
    BY <2>1, <2>3, <2>4, <2>5
<1>4. CASE PopStep(c)
  <2>1. UNCHANGED <<cMode[c], cPaused[c], wire[c], up[c]>>
    BY <1>4 DEF PopStep, Slot
  <2> QED
    BY <2>1, AnswerKept
<1>5. CASE SyncStep(c)
  <2>1. CASE sState[c] = "inactive"
    <3>1. Has(wire[c], {"CLOSE"})
      BY <1>5, <2>1 DEF SlotInv, SlotOK, SyncStep, Due
    <3>2. Has(wire[c], {"READY", "CLOSE"})
      BY <3>1 DEF Has
    <3> QED
      BY <1>5, <3>2 DEF SyncStep, AnswerOK
  <2>2. CASE sState[c] # "inactive"
    <3> DEFINE r == [type |-> "READY", step |-> cStep[c], map |-> Head(cQueue[c]).newmap,
                     chk |-> ListAt(cLists[c], cStep[c])]
    <3>1. r.type \in {"READY"} /\ up'[c] = Append(up[c], r)
      BY <1>5, <2>2 DEF SyncStep
    <3> HIDE DEF r
    <3>2. Has(up'[c], {"READY"})
      BY <3>1, HasAppend
    <3> QED
      BY <1>5, <3>2 DEF SyncStep, AnswerOK
  <2> QED
    BY <2>1, <2>2
<1>6. CASE AdvanceStep(c)
  <2>1. UNCHANGED <<cMode[c], cPaused[c], wire[c], up[c]>>
    BY <1>6 DEF AdvanceStep, Slot
  <2> QED
    BY <2>1, AnswerKept
<1>7. CASE RequestStep(c)
  <2>1. PICK m : up'[c] = Append(up[c], m)
    BY <1>7 DEF RequestStep
  <2>2. Has(up[c], {"READY"}) => Has(up'[c], {"READY"})
    BY <2>1, HasAppend
  <2> QED
    BY <1>7, <2>2 DEF RequestStep, Machine, AnswerOK
<1> QED
  BY <1>1, <1>2, <1>3, <1>4, <1>5, <1>6, <1>7 DEF ClientSide

LEMMA NextAnswerInv ==
    ASSUME ~SendMayFail PROVE IInv /\ SlotInv /\ AnswerInv /\ [Next]_vars => AnswerInv'
<1> SUFFICES ASSUME IInv, SlotInv, AnswerInv, [Next]_vars, NEW c \in Clients PROVE AnswerOK(c)'
  BY DEF AnswerInv
<1>1. AnswerOK(c) /\ LocalStep(c)
  BY NextIsLocal DEF AnswerInv
<1>2. CASE RestStep(c)
  BY <1>1, <1>2, AnswerKept DEF RestStep, Machine, Slot
<1> QED
  BY <1>1, <1>2, AnswerServerSide, AnswerClientSide DEF LocalStep

LEMMA InitSlotInv == Init => SlotInv /\ AnswerInv
  BY DEF Init, SlotInv, SlotOK, AnswerInv, AnswerOK, GamesAreFollowed

\* On connections where a direct send does not fail, a client that a reload or a join has
\* paused has the NWC_READY that unpauses it, or the end of its connection, coming: nothing
\* leaves it paused with nothing under way.
THEOREM PausedClientsAreAnswered ==
    ASSUME ~SendMayFail PROVE Spec => []PausedIsAnswered
<1>1. Spec => [](IInv /\ SlotInv /\ AnswerInv)
  <2>1. Init => IInv /\ SlotInv /\ AnswerInv
    BY InitIInv, InitSlotInv
  <2>2. IInv /\ SlotInv /\ AnswerInv /\ [Next]_vars => (IInv /\ SlotInv /\ AnswerInv)'
    BY NextIInv, NextSlotInv, NextAnswerInv
  <2> QED
    BY <2>1, <2>2, PTL DEF Spec
<1>2. IInv /\ AnswerInv => PausedIsAnswered
  <2> SUFFICES ASSUME IInv, AnswerInv, NEW c \in Clients, cMode[c] = "playing", cPaused[c]
               PROVE  \/ \E m \in Elems(up[c]) : m.type = "READY"
                      \/ \E m \in Elems(wire[c]) : m.type \in {"READY", "CLOSE"}
    BY DEF PausedIsAnswered
  <2>1. Has(up[c], {"READY"}) \/ Has(wire[c], {"READY", "CLOSE"})
    BY DEF AnswerInv, AnswerOK
  <2> QED
    BY <2>1, LocalTypes DEF Has, Elems
<1> QED
  BY <1>1, <1>2, PTL

=============================================================================
