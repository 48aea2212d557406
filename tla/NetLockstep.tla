----------------------------- MODULE NetLockstep -----------------------------
(***************************************************************************)
(* The lockstep protocol of network games: one server and its clients run  *)
(* the same deterministic simulation.  The server runs freely; a client    *)
(* runs a frame only up to the last sync step the server announced.        *)
(* Everything a player does is sent to the server, which schedules it for  *)
(* its next sync step and broadcasts it.  A joining client makes everybody *)
(* save and reload the game (NWC_SYNC), because loading is not the         *)
(* identity on a world.                                                    *)
(*                                                                         *)
(* Sources: simworld.cc (karte_t::interactive, process_network_commands,   *)
(* do_network_world_command, network_game_set_pause, network_disconnect,   *)
(* load), network/network_cmd_ingame.cc (nwc_join_t, nwc_ready_t,          *)
(* nwc_sync_t, network_world_command_t, nwc_tool_t), network/network.cc,   *)
(* network/network_file_transfer.cc, network/network_socket_list.cc.       *)
(*                                                                         *)
(* A world is the sequence of inputs its simulation consumed: frames,      *)
(* tools, reloads.  A checklist (random seed and handle counters) is       *)
(* taken to tell different worlds apart, so it is the world itself.        *)
(***************************************************************************)
EXTENDS Integers, Sequences, FiniteSets

CONSTANTS
    Clients,          \* the machines that may join
    NoClient,         \* INVALID_SOCKET, and the client_id -1 of a forced sync
    Ring,             \* LAST_CHECKLISTS_COUNT
    MaxMapCounters,   \* MAX_MAP_COUNTERS
    ChecksEvery,      \* env_t::server_sync_steps_between_checks
    FramesPerStep,    \* settings_t::get_frames_per_step
    PauseNoClients,   \* env_t::pause_server_no_clients
    LinksMayBreak,    \* whether connections can fail
    SendMayFail,      \* whether a direct send can fail on a connection that lasts
    MaxStep,          \* bound: sync steps of the server (none is scheduled behind it)
    MaxTools,         \* bound: tools used by anybody
    MaxMaps,          \* bound: map counters generated (joins and forced syncs)
    MaxJoins          \* bound: connection attempts

ASSUME RingAssumption == Ring \in Nat \ {0} /\ MaxMapCounters \in Nat \ {0}
ASSUME ChecksAssumption == ChecksEvery \in Nat \ {0} /\ FramesPerStep \in Nat \ {0}
ASSUME ClientAssumption == NoClient \notin Clients
ASSUME SwitchAssumption ==
    PauseNoClients \in BOOLEAN /\ LinksMayBreak \in BOOLEAN /\ SendMayFail \in BOOLEAN
ASSUME BoundAssumption ==
    MaxStep \in Nat /\ MaxTools \in Nat /\ MaxMaps \in Nat /\ MaxJoins \in Nat

VARIABLES
    sStep,      \* server: sync_steps
    sPaused,    \* server: step_mode & PAUSE_FLAG
    sMap,       \* server: map_counter
    sMaps,      \* nwc_ready_t::all_map_counters, the current one first
    sWorld,     \* server: the world
    sLists,     \* server: last_checklists
    sQueue,     \* server: command_queue
    sRuns,      \* server: process_network_commands is past receiving, with due commands
    sState,     \* socket_info_t::state of each client's slot
    pending,    \* nwc_join_t::pending_join_client
    cMode,      \* client: out, joining, waiting (network_connect), playing
    cStep,      \* client: sync_steps
    cBarrier,   \* client: sync_steps_barrier
    cPaused,    \* client: step_mode & PAUSE_FLAG
    cMap,       \* client: map_counter
    cWorld,     \* client: the world
    cLists,     \* client: last_checklists
    cQueue,     \* client: command_queue
    sendq,      \* the server's send_queue for each client
    wire,       \* written to the client's socket by the server, not yet read
    up,         \* from the client to the server, not yet read
    nTools, nMaps, nJoins,   \* how many of each so far
    lost,       \* history: a reload dropped commands of a later world
    fate        \* history: why the connection ended

serverVars == <<sStep, sPaused, sMap, sMaps, sWorld, sLists, sQueue, sRuns, sState,
                pending>>
clientVars == <<cMode, cStep, cBarrier, cPaused, cMap, cWorld, cLists, cQueue>>
channels   == <<sendq, wire, up>>
counters   == <<nTools, nMaps, nJoins>>
history    == <<lost, fate>>
vars == <<serverVars, clientVars, channels, counters, history>>

-----------------------------------------------------------------------------
(* Inputs of the simulation and messages.                                  *)

Frame     == <<"frame", 0>>
Reload(n) == <<"reload", n>>   \* the one for which the map counter n was generated
Tool(n)   == <<"tool", n>>
Inputs    == {"frame", "reload", "tool"} \X Nat
Worlds    == Seq(Inputs)
Checklists == [0 .. Ring - 1 -> Worlds]

TimeMsgs  == [type : {"STEP"}, sstep : Nat]
CheckMsgs == [type : {"CHECK"}, step : Nat, map : Nat, sstep : Nat, chk : Worlds]
ToolMsgs  == [type : {"TOOL"}, step : Nat, map : Nat, lstep : Nat, lchk : Worlds,
              tool : Nat, at : Nat]
SyncMsgs  == [type : {"SYNC"}, step : Nat, map : Nat,
              who : Clients \cup {NoClient}, newmap : Nat, at : Nat]
ReadyMsgs == [type : {"READY"}, step : Nat, map : Nat, chk : Worlds]
JoinMsgs  == [type : {"JOIN"}, answer : BOOLEAN, newmap : Nat]
GameMsgs  == [type : {"GAME"}, world : Worlds, reload : Nat]
Close     == [type |-> "CLOSE"]
JoinRequest == [type |-> "JOIN"]

BroadcastMsgs == TimeMsgs \cup CheckMsgs \cup ToolMsgs \cup SyncMsgs
ToClientMsgs  == BroadcastMsgs \cup ReadyMsgs \cup JoinMsgs \cup GameMsgs \cup {Close}
ToServerMsgs  == {JoinRequest, Close} \cup ToolMsgs \cup ReadyMsgs
QueuedMsgs    == CheckMsgs \cup ToolMsgs \cup SyncMsgs

Fates == {"none", "left", "refused", "garbled", "checklist", "past", "map"}

-----------------------------------------------------------------------------
(* Helpers.                                                                *)

Min2(a, b) == IF a <= b THEN a ELSE b
Elems(s)   == {s[i] : i \in DOMAIN s}
HasDue(q, step) == q # <<>> /\ Head(q).step <= step

\* Mutant of Insert: in front of the queued commands
InsertInFront(q, m) == <<m>> \o q

\* command_queue_append: before the first queued command that is later than m
Insert(q, m) ==
    LET Later == {i \in 1 .. Len(q) : q[i].step > m.step}
        at    == IF Later = {} THEN Len(q) + 1
                 ELSE CHOOSE i \in Later : \A j \in Later : i <= j
    IN  SubSeq(q, 1, at - 1) \o <<m>> \o SubSeq(q, at, Len(q))

\* Mutant of Available: one step too long, when the slot has been reused
AvailableTooLong(step, now) == step + Ring >= now

\* is_checklist_available
Available(step, now) == step + Ring > now

\* LCHKLST(step)
ListAt(lists, step) == lists[step % Ring]

\* Mutant of ExecStep: a step that is over
ExecStepBefore == sStep - 1

\* the step for which the server schedules whatever it broadcasts
ExecStep == sStep + 1

\* the test at the initiator's tool and at the execution of a broadcast tool
ToolAgrees(m, now, lists) ==
    ~Available(m.lstep, now) \/ ListAt(lists, m.lstep) = m.lchk

\* Mutant of SameWorld: the map counters are not compared
AnyWorld(m, map) == TRUE

\* the command comes from the world that is running here
SameWorld(m, map) == m.map = map

\* do_network_world_command runs do_command; otherwise it drops the command
Runs(m, now, map, lists) ==
    /\ m.step >= now
    /\ SameWorld(m, map)
    /\ m.type = "TOOL" => ToolAgrees(m, now, lists)

\* append_map_counter keeps the newest MaxMapCounters
Remembered(maps, new) == SubSeq(<<new>> \o maps, 1, Min2(Len(maps) + 1, MaxMapCounters))

PlayingClients == {c \in Clients : sState[c] = "playing"}

\* network_send_all: to the send_queue of every playing client
Broadcast(m) ==
    sendq' = [c \in Clients |-> IF c \in PlayingClients THEN Append(sendq[c], m)
                                                       ELSE sendq[c]]

\* network_command_t::send: at once to the socket, past the send_queue.  What is
\* written to a socket the peer has closed is gone.
Direct(c, ms) == wire' = [wire EXCEPT ![c] = IF cMode[c] = "out" THEN @ ELSE @ \o ms]

\* network_close_socket ends the join of the socket it closes
PendingAfterClose(c) == IF pending = c THEN NoClient ELSE pending

\* socket_list_t::remove_client
CloseSlot(c, why) ==
    /\ sState' = [sState EXCEPT ![c] = "inactive"]
    /\ sendq'  = [sendq EXCEPT ![c] = <<>>]
    /\ wire'   = [wire EXCEPT ![c] = IF cMode[c] = "out" THEN <<>> ELSE Append(@, Close)]
    /\ up'     = [up EXCEPT ![c] = <<>>]
    /\ fate'   = [fate EXCEPT ![c] = IF @ = "none" THEN why ELSE @]

RemoveClient(c, why) ==
    /\ CloseSlot(c, why)
    /\ pending' = PendingAfterClose(c)

\* network_disconnect, or the error exit of network_connect
ClientGone(c, why) ==
    /\ cMode'    = [cMode EXCEPT ![c] = "out"]
    /\ cStep'    = [cStep EXCEPT ![c] = 0]
    /\ cBarrier' = [cBarrier EXCEPT ![c] = 0]
    /\ cPaused'  = [cPaused EXCEPT ![c] = FALSE]
    /\ cMap'     = [cMap EXCEPT ![c] = 0]
    /\ cWorld'   = [cWorld EXCEPT ![c] = <<>>]
    /\ cQueue'   = [cQueue EXCEPT ![c] = <<>>]
    /\ wire'     = [wire EXCEPT ![c] = <<>>]
    /\ up'       = [up EXCEPT ![c] = IF sState[c] = "inactive" THEN <<>> ELSE Append(@, Close)]
    /\ fate'     = [fate EXCEPT ![c] = IF @ = "none" THEN why ELSE @]
    /\ UNCHANGED <<cLists, sendq, serverVars, counters, lost>>

-----------------------------------------------------------------------------
(* The server.                                                             *)

\* The announcement of a frame: a checklist regularly and, at the end of a simulation
\* step, when the server lags; otherwise the bare step.
Announcements(step, chk) ==
    LET check == [type |-> "CHECK", step |-> step + 1, map |-> sMap, sstep |-> step,
                  chk |-> chk]
        bare  == [type |-> "STEP", sstep |-> step]
    IN  IF step % ChecksEvery = 0 THEN {check}
        ELSE IF step % FramesPerStep = 0 THEN {check, bare} ELSE {bare}

\* interactive: a frame and the announcement of it.  The queue has been run before.
ServerFrame ==
    /\ ~sPaused /\ sStep < MaxStep /\ ~HasDue(sQueue, sStep)
    /\ sStep'  = sStep + 1
    /\ sWorld' = Append(sWorld, Frame)
    /\ sLists' = [sLists EXCEPT ![(sStep + 1) % Ring] = Append(sWorld, Frame)]
    /\ \E m \in Announcements(sStep + 1, Append(sWorld, Frame)) : Broadcast(m)
    /\ sPaused' = (PauseNoClients /\ PlayingClients = {} /\ pending = NoClient)
    /\ UNCHANGED <<sRuns, sMap, sMaps, sQueue, sState, pending, clientVars, wire, up,
                   counters, history>>

\* history: how long the world is when a command that is now scheduled is run, if no
\* reload comes first: this world, the commands queued before it, the next frame
Place == Len(sWorld) + Len(sQueue) + 1

\* the clone of a tool that the server broadcasts
ServerClone(n) ==
    [type |-> "TOOL", step |-> ExecStep, map |-> sMap, lstep |-> sStep,
     lchk |-> ListAt(sLists, sStep), tool |-> n, at |-> Place]

BroadcastTool(n) ==
    /\ sQueue' = Insert(sQueue, ServerClone(n))
    /\ Broadcast(ServerClone(n))
    /\ UNCHANGED <<sRuns, sStep, sPaused, sMap, sMaps, sWorld, sLists, sState, pending,
                   clientVars, wire, history, nMaps, nJoins>>

\* a tool of the server itself: its player, its AI players, its scenario, its messages
ServerTool ==
    /\ ~sRuns /\ nTools < MaxTools
    /\ nTools' = nTools + 1
    /\ BroadcastTool(nTools + 1)
    /\ UNCHANGED up

ServerReads(c, type) ==
    ~sRuns /\ up[c] # <<>> /\ sState[c] # "inactive" /\ Head(up[c]).type = type

Consume(c) == up' = [up EXCEPT ![c] = Tail(@)]

\* process_network_commands kicks the initiator whose checklist differs
ServerKicksInitiator(c) ==
    /\ ServerReads(c, "TOOL")
    /\ Head(up[c]).lstep <= sStep /\ ~ToolAgrees(Head(up[c]), sStep, sLists)
    /\ RemoveClient(c, "checklist")
    /\ UNCHANGED <<sRuns, sStep, sPaused, sMap, sMaps, sWorld, sLists, sQueue, clientVars,
                   counters, lost>>

\* "client was too fast", a tool from another world, or one that clone() refuses
ServerIgnoresTool(c) ==
    /\ ServerReads(c, "TOOL")
    /\ (Head(up[c]).lstep <= sStep => ToolAgrees(Head(up[c]), sStep, sLists))
    /\ Consume(c)
    /\ UNCHANGED <<serverVars, clientVars, sendq, wire, counters, history>>

ServerSchedulesTool(c) ==
    /\ ServerReads(c, "TOOL")
    /\ LET m == Head(up[c])
       IN  /\ m.lstep <= sStep /\ ToolAgrees(m, sStep, sLists) /\ m.map = sMap
           /\ BroadcastTool(m.tool)
    /\ Consume(c)
    /\ UNCHANGED nTools

SyncMsg(who) ==
    [type |-> "SYNC", step |-> ExecStep, map |-> sMap, who |-> who, newmap |-> nMaps + 1,
     at |-> Place]

\* nwc_join_t::execute: refuse while another join is pending
ServerRefusesJoin(c) ==
    /\ ServerReads(c, "JOIN") /\ pending # NoClient
    /\ Direct(c, <<[type |-> "JOIN", answer |-> FALSE, newmap |-> 0]>>)
    /\ Consume(c)
    /\ UNCHANGED <<serverVars, clientVars, sendq, counters, history>>

\* nwc_join_t::execute: the answer, or NWC_SYNC behind it, cannot be sent
ServerFailsToAnswer(c) ==
    /\ SendMayFail /\ ServerReads(c, "JOIN")
    /\ Consume(c)
    /\ UNCHANGED <<serverVars, clientVars, sendq, wire, counters, history>>

\* nwc_join_t::execute: the answer and NWC_SYNC go straight to the joiner (one message
\* here), NWC_SYNC also to the playing clients and to the server's own queue
ServerAcceptsJoin(c) ==
    /\ ServerReads(c, "JOIN") /\ pending = NoClient /\ nMaps < MaxMaps /\ sStep < MaxStep
    /\ Direct(c, <<[type |-> "JOIN", answer |-> TRUE, newmap |-> nMaps + 1]>>)
    /\ Broadcast(SyncMsg(c))
    /\ sQueue'  = Insert(sQueue, SyncMsg(c))
    /\ pending' = c
    /\ sPaused' = FALSE
    /\ nMaps'   = nMaps + 1
    /\ Consume(c)
    /\ UNCHANGED <<sRuns, sStep, sMap, sMaps, sWorld, sLists, sState, clientVars, nTools,
                   nJoins, history>>

\* SRVC_FORCE_SYNC on a running server
ServerForcesSync ==
    /\ ~sRuns /\ ~sPaused /\ nMaps < MaxMaps /\ sStep < MaxStep
    /\ Broadcast(SyncMsg(NoClient))
    /\ sQueue' = Insert(sQueue, SyncMsg(NoClient))
    /\ nMaps'  = nMaps + 1
    /\ UNCHANGED <<sRuns, sStep, sPaused, sMap, sMaps, sWorld, sLists, sState, pending,
                   clientVars, wire, up, nTools, nJoins, history>>

\* Mutant of ReadyReplies: the answer may always get lost
ReadyRepliesLost(m) == {<<m>>, <<>>}

\* what reaches the client of the answer to its NWC_READY: a send may fail, and the
\* server only logs it
ReadyReplies(m) == IF SendMayFail THEN {<<m>>, <<>>} ELSE {<<m>>}

\* nwc_ready_t::execute at the server: a different checklist, a known map counter
\* (the message goes straight back), an unknown one
ServerGetsReady(c) ==
    /\ ServerReads(c, "READY")
    /\ LET m     == Head(up[c])
           Wrong == Available(m.step, sStep) /\ ListAt(sLists, m.step) # m.chk
       IN  \/ /\ Wrong
              /\ RemoveClient(c, "checklist")
           \/ /\ ~Wrong /\ m.map \notin Elems(sMaps)
              /\ RemoveClient(c, "map")
           \/ /\ ~Wrong /\ m.map \in Elems(sMaps)
              /\ Consume(c)
              /\ \E ms \in ReadyReplies(m) : Direct(c, ms)
              /\ UNCHANGED <<sState, pending, sendq, fate>>
    /\ UNCHANGED <<sRuns, sStep, sPaused, sMap, sMaps, sWorld, sLists, sQueue, clientVars,
                   counters, lost>>

\* the connection was closed at the other end
ServerGetsClose(c) ==
    /\ ServerReads(c, "CLOSE")
    /\ RemoveClient(c, "left")
    /\ UNCHANGED <<sRuns, sStep, sPaused, sMap, sMaps, sWorld, sLists, sQueue, clientVars,
                   counters, lost>>

\* the connection fails, or an admin closes it
ServerDropsClient(c) ==
    /\ LinksMayBreak /\ ~sRuns /\ sState[c] # "inactive"
    /\ RemoveClient(c, "left")
    /\ UNCHANGED <<sRuns, sStep, sPaused, sMap, sMaps, sWorld, sLists, sQueue, clientVars,
                   counters, lost>>

\* Mutant of PendingAfterReload: a reload for somebody else leaves the join pending
PendingForgotten == pending

\* a reload ends the join that is pending, whoever it was made for
PendingAfterReload == NoClient

\* the server's part of nwc_sync_t::do_command but for what it sends: save, load
\* (which clears the command queue), unpause, the new map counter, no join pending
ServerReloads(newmap) ==
    /\ sWorld'  = Append(sWorld, Reload(newmap))
    /\ sQueue'  = <<>>
    /\ sPaused' = FALSE
    /\ sMap'    = newmap
    /\ sMaps'   = Remembered(sMaps, newmap)
    /\ pending' = PendingAfterReload
    /\ sRuns'   = FALSE
    /\ UNCHANGED <<sStep, sLists>>

\* SRVC_FORCE_SYNC on a server that waits for clients
ServerReloadsAtOnce ==
    /\ ~sRuns /\ sPaused /\ PlayingClients = {} /\ nMaps < MaxMaps
    /\ ServerReloads(nMaps + 1)
    /\ nMaps' = nMaps + 1
    /\ UNCHANGED <<sState, clientVars, channels, nTools, nJoins, history>>

\* process_network_commands runs a due tool, or drops a command that may not run
ServerRunsTool ==
    LET m    == Head(sQueue)
        runs == Runs(m, sStep, sMap, sLists)
    IN  /\ HasDue(sQueue, sStep) /\ (runs => m.type = "TOOL")
        /\ sWorld' = IF runs THEN Append(sWorld, Tool(m.tool)) ELSE sWorld
        /\ sQueue' = Tail(sQueue)
        /\ sRuns'  = HasDue(sQueue', sStep)
        /\ UNCHANGED <<sStep, sPaused, sMap, sMaps, sLists, sState, pending, clientVars,
                       channels, counters, history>>

\* Mutant of GameReplies: the game may get lost in front of NWC_READY
GameMayGetLost(game, ready) == {<<game, ready>>, <<ready>>}

\* what of the game and of NWC_READY reaches the joiner: the server only logs a send that
\* fails
GameReplies(game, ready) ==
    IF SendMayFail THEN {<<game, ready>>, <<game>>, <<ready>>, <<>>} ELSE {<<game, ready>>}

\* the game and the message that unpauses the joiner, which is playing when that was sent;
\* a failure amid the file closes the connection
SendGame(c) ==
    LET game  == [type |-> "GAME", world |-> sWorld, reload |-> sMap']
        ready == [type |-> "READY", step |-> sStep, map |-> sMap', chk |-> ListAt(sLists, sStep)]
    IN  \/ /\ LinksMayBreak
           /\ CloseSlot(c, "left")
        \/ \E ms \in GameReplies(game, ready) :
              /\ Direct(c, ms)
              /\ sState' = IF ready \in Elems(ms) THEN [sState EXCEPT ![c] = "playing"]
                                                 ELSE sState
              /\ UNCHANGED <<sendq, up, fate>>

\* process_network_commands runs a due nwc_sync_t
ServerRunsSync ==
    /\ HasDue(sQueue, sStep) /\ Head(sQueue).type = "SYNC"
    /\ Runs(Head(sQueue), sStep, sMap, sLists)
    /\ ServerReloads(Head(sQueue).newmap)
    /\ LET who == Head(sQueue).who
       IN  IF who # NoClient /\ sState[who] # "inactive"
           THEN SendGame(who)
           ELSE UNCHANGED <<sState, channels, fate>>
    /\ UNCHANGED <<clientVars, counters, lost>>

\* process_send_queue: the socket takes another packet
Flush(c) ==
    /\ sendq[c] # <<>>
    /\ Direct(c, <<Head(sendq[c])>>)
    /\ sendq' = [sendq EXCEPT ![c] = Tail(@)]
    /\ sRuns' = HasDue(sQueue, sStep)
    /\ UNCHANGED <<sStep, sPaused, sMap, sMaps, sWorld, sLists, sQueue, sState, pending,
                   clientVars, up, counters, history>>

-----------------------------------------------------------------------------
(* A client.                                                               *)

ClientReads(c, mode, types) ==
    cMode[c] = mode /\ wire[c] # <<>> /\ Head(wire[c]).type \in types

ConsumeWire(c) == wire' = [wire EXCEPT ![c] = Tail(@)]

\* network_connect: open a connection (the server accepts it) and ask to join
Connect(c) ==
    /\ cMode[c] = "out" /\ sState[c] = "inactive" /\ nJoins < MaxJoins
    /\ cMode'  = [cMode EXCEPT ![c] = "joining"]
    /\ sState' = [sState EXCEPT ![c] = "connected"]
    /\ up'     = [up EXCEPT ![c] = <<JoinRequest>>]
    /\ wire'   = [wire EXCEPT ![c] = <<>>]
    /\ sendq'  = [sendq EXCEPT ![c] = <<>>]
    /\ nJoins' = nJoins + 1
    /\ lost'   = [lost EXCEPT ![c] = FALSE]
    /\ fate'   = [fate EXCEPT ![c] = "none"]
    /\ UNCHANGED <<sRuns, sStep, sPaused, sMap, sMaps, sWorld, sLists, sQueue, pending, cStep,
                   cBarrier, cPaused, cMap, cWorld, cLists, cQueue, nTools, nMaps>>

\* network_connect: the answer, and the map counter out of the NWC_SYNC behind it
ClientIsAccepted(c) ==
    /\ ClientReads(c, "joining", {"JOIN"}) /\ Head(wire[c]).answer
    /\ cMode' = [cMode EXCEPT ![c] = "waiting"]
    /\ cMap'  = [cMap EXCEPT ![c] = Head(wire[c]).newmap]
    /\ ConsumeWire(c)
    /\ UNCHANGED <<serverVars, cStep, cBarrier, cPaused, cWorld, cLists, cQueue, sendq,
                   up, counters, history>>

ClientIsRefused(c) ==
    /\ ClientReads(c, "joining", {"JOIN"}) /\ ~Head(wire[c]).answer
    /\ ClientGone(c, "refused")

\* a game nobody here waits for yet: the bytes of the file are no packets
ClientIsGarbled(c) ==
    /\ ClientReads(c, "joining", {"GAME"})
    /\ ClientGone(c, "garbled")

\* network_connect tolerates other commands while it waits
ClientSkips(c) ==
    /\ \/ ClientReads(c, "joining", {"READY", "STEP", "CHECK", "TOOL", "SYNC"})
       \/ ClientReads(c, "waiting", {"READY", "STEP", "CHECK", "TOOL", "SYNC"})
    /\ ConsumeWire(c)
    /\ UNCHANGED <<serverVars, cMode, cStep, cBarrier, cPaused, cMap, cWorld, cLists,
                   cQueue, sendq, up, counters, history>>

\* network_connect ends with the game, karte_t::load loads it and pauses
ClientLoadsGame(c) ==
    /\ ClientReads(c, "waiting", {"GAME"})
    /\ cMode'    = [cMode EXCEPT ![c] = "playing"]
    /\ cWorld'   = [cWorld EXCEPT ![c] = Append(Head(wire[c]).world,
                                             Reload(Head(wire[c]).reload))]
    /\ cStep'    = [cStep EXCEPT ![c] = 0]
    /\ cBarrier' = [cBarrier EXCEPT ![c] = 0]
    /\ cPaused'  = [cPaused EXCEPT ![c] = TRUE]
    /\ cQueue'   = [cQueue EXCEPT ![c] = <<>>]
    /\ ConsumeWire(c)
    /\ UNCHANGED <<serverVars, cMap, cLists, sendq, up, counters, history>>

\* Mutant of RaisedBarrier: the step at which NWC_CHECK is to be executed
BarrierOfCheck(c, m) == IF cBarrier[c] < m.sstep + 1 THEN m.sstep + 1 ELSE cBarrier[c]

\* the time of the server out of NWC_STEP or NWC_CHECK
RaisedBarrier(c, m) == IF cBarrier[c] < m.sstep THEN m.sstep ELSE cBarrier[c]

\* NWC_STEP only raises the barrier
ClientGetsStep(c) ==
    /\ ClientReads(c, "playing", {"STEP"})
    /\ cBarrier' = [cBarrier EXCEPT ![c] = RaisedBarrier(c, Head(wire[c]))]
    /\ ConsumeWire(c)
    /\ UNCHANGED <<serverVars, cMode, cStep, cPaused, cMap, cWorld, cLists, cQueue, sendq,
                   up, counters, history>>

\* NWC_CHECK raises the barrier and is queued, or ignored when it is too old
ClientGetsCheck(c) ==
    /\ ClientReads(c, "playing", {"CHECK"})
    /\ LET m == Head(wire[c])
       IN  /\ cBarrier' = [cBarrier EXCEPT ![c] = RaisedBarrier(c, m)]
           /\ cQueue' = [cQueue EXCEPT ![c] = IF m.step < cStep[c] THEN @ ELSE Insert(@, m)]
    /\ ConsumeWire(c)
    /\ UNCHANGED <<serverVars, cMode, cStep, cPaused, cMap, cWorld, cLists, sendq, up,
                   counters, history>>

\* network_world_command_t::execute: queued, also when it comes from another world
ClientQueues(c) ==
    /\ ClientReads(c, "playing", {"TOOL", "SYNC"})
    /\ LET m == Head(wire[c])
       IN  IF m.step < cStep[c]
           THEN ClientGone(c, "past")
           ELSE /\ cQueue' = [cQueue EXCEPT ![c] = Insert(@, m)]
                /\ ConsumeWire(c)
                /\ UNCHANGED <<serverVars, cMode, cStep, cBarrier, cPaused, cMap, cWorld,
                               cLists, sendq, up, counters, history>>

\* nwc_ready_t::execute at a client: go on at the step of the message
ClientGetsReady(c) ==
    /\ ClientReads(c, "playing", {"READY"})
    /\ LET m == Head(wire[c])
       IN  IF m.map # cMap[c]
           THEN ClientGone(c, "map")
           ELSE /\ cStep'    = [cStep EXCEPT ![c] = m.step]
                /\ cBarrier' = [cBarrier EXCEPT ![c] = m.step]
                /\ cPaused'  = [cPaused EXCEPT ![c] = FALSE]
                /\ cLists'   = [cLists EXCEPT ![c][m.step % Ring] = m.chk]
                /\ ConsumeWire(c)
                /\ UNCHANGED <<serverVars, cMode, cMap, cWorld, cQueue, sendq, up,
                               counters, history>>

\* the end of the connection, or the player quits
ClientGetsClose(c) ==
    /\ cMode[c] # "out" /\ wire[c] # <<>> /\ Head(wire[c]) = Close
    /\ ClientGone(c, "left")

ClientLeaves(c) ==
    /\ cMode[c] # "out"
    /\ ClientGone(c, "left")

\* karte_t::call_work: the tool goes to the server, with the last checklist
ClientTool(c) ==
    /\ cMode[c] = "playing" /\ nTools < MaxTools /\ sState[c] # "inactive"
    /\ nTools' = nTools + 1
    /\ up' = [up EXCEPT ![c] = Append(@,
                [type |-> "TOOL", step |-> cStep[c], map |-> cMap[c], lstep |-> cStep[c],
                 lchk |-> ListAt(cLists[c], cStep[c]), tool |-> nTools + 1, at |-> 0])]
    /\ UNCHANGED <<serverVars, clientVars, sendq, wire, nMaps, nJoins, history>>

\* Mutant of MayAdvance: off by one
MayAdvanceBeyond(c) == cStep[c] <= cBarrier[c]

\* interactive: no frame beyond the barrier
MayAdvance(c) == cStep[c] < cBarrier[c]

ClientFrame(c) ==
    /\ cMode[c] = "playing" /\ ~cPaused[c] /\ MayAdvance(c) /\ ~HasDue(cQueue[c], cStep[c])
    /\ cStep'  = [cStep EXCEPT ![c] = @ + 1]
    /\ cWorld' = [cWorld EXCEPT ![c] = Append(@, Frame)]
    /\ cLists' = [cLists EXCEPT ![c][(cStep[c] + 1) % Ring] = Append(cWorld[c], Frame)]
    /\ UNCHANGED <<serverVars, cMode, cBarrier, cPaused, cMap, cQueue, channels, counters,
                   history>>

Due(c, type) ==
    cMode[c] = "playing" /\ HasDue(cQueue[c], cStep[c]) /\ Head(cQueue[c]).type = type

ClientRuns(c) == Runs(Head(cQueue[c]), cStep[c], cMap[c], cLists[c])

PopQueue(c) == cQueue' = [cQueue EXCEPT ![c] = Tail(@)]

\* a due command that is in the past or from another world
ClientDrops(c) ==
    /\ cMode[c] = "playing" /\ HasDue(cQueue[c], cStep[c])
    /\ LET m == Head(cQueue[c])
       IN  IF m.step < cStep[c] /\ m.type # "CHECK"
           THEN ClientGone(c, "past")
           ELSE /\ m.step >= cStep[c] => ~SameWorld(m, cMap[c])
                /\ PopQueue(c)
                /\ UNCHANGED <<serverVars, cMode, cStep, cBarrier, cPaused, cMap, cWorld,
                               cLists, channels, counters, history>>

\* a due NWC_CHECK compares the checklists of the server's last step
ClientChecks(c) ==
    /\ Due(c, "CHECK") /\ ClientRuns(c)
    /\ LET m == Head(cQueue[c])
       IN  IF ListAt(cLists[c], m.sstep) # m.chk
           THEN ClientGone(c, "checklist")
           ELSE /\ PopQueue(c)
                /\ UNCHANGED <<serverVars, cMode, cStep, cBarrier, cPaused, cMap, cWorld,
                               cLists, channels, counters, history>>

\* a due tool: do_command, or "lost synchronisation"
ClientRunsTool(c) ==
    /\ Due(c, "TOOL")
    /\ Head(cQueue[c]).step = cStep[c] /\ SameWorld(Head(cQueue[c]), cMap[c])
    /\ IF ClientRuns(c)
       THEN /\ cWorld' = [cWorld EXCEPT ![c] = Append(@, Tool(Head(cQueue[c]).tool))]
            /\ PopQueue(c)
            /\ UNCHANGED <<serverVars, cMode, cStep, cBarrier, cPaused, cMap, cLists,
                           channels, counters, history>>
       ELSE ClientGone(c, "checklist")

\* what a reload leaves of the command queue: clear_command_queue
QueueAfterLoad(q) == <<>>

\* commands of a world this client has not reached yet, dropped by its reload
LosesCommands(c) ==
    \E m \in Elems(Tail(cQueue[c])) \ Elems(QueueAfterLoad(Tail(cQueue[c]))) :
        m.type # "CHECK" /\ m.map # cMap[c]

\* the client's part of nwc_sync_t::do_command: save, load, pause, report to the server
ClientRunsSync(c) ==
    /\ Due(c, "SYNC") /\ ClientRuns(c)
    /\ cWorld'   = [cWorld EXCEPT ![c] = Append(@, Reload(Head(cQueue[c]).newmap))]
    /\ lost'     = [lost EXCEPT ![c] = @ \/ LosesCommands(c)]
    /\ cQueue'   = [cQueue EXCEPT ![c] = QueueAfterLoad(Tail(@))]
    /\ cPaused'  = [cPaused EXCEPT ![c] = TRUE]
    /\ cBarrier' = [cBarrier EXCEPT ![c] = cStep[c]]
    /\ cMap'     = [cMap EXCEPT ![c] = Head(cQueue[c]).newmap]
    /\ up'       = IF sState[c] = "inactive" THEN up
                   ELSE [up EXCEPT ![c] = Append(@,
                            [type |-> "READY", step |-> cStep[c], map |-> cMap'[c],
                             chk |-> ListAt(cLists[c], cStep[c])])]
    /\ UNCHANGED <<serverVars, cMode, cStep, cLists, sendq, wire, counters, fate>>

-----------------------------------------------------------------------------
(* The system.                                                             *)

Init ==
    /\ sStep = 0 /\ sPaused = PauseNoClients /\ sMap = 0 /\ sMaps = <<>>
    /\ sWorld = <<>> /\ sLists = [i \in 0 .. Ring - 1 |-> <<>>] /\ sQueue = <<>>
    /\ sRuns = FALSE /\ sState = [c \in Clients |-> "inactive"] /\ pending = NoClient
    /\ cMode = [c \in Clients |-> "out"]
    /\ cStep = [c \in Clients |-> 0] /\ cBarrier = [c \in Clients |-> 0]
    /\ cPaused = [c \in Clients |-> FALSE] /\ cMap = [c \in Clients |-> 0]
    /\ cWorld = [c \in Clients |-> <<>>] /\ cQueue = [c \in Clients |-> <<>>]
    /\ cLists = [c \in Clients |-> [i \in 0 .. Ring - 1 |-> <<>>]]
    /\ sendq = [c \in Clients |-> <<>>] /\ wire = [c \in Clients |-> <<>>]
    /\ up = [c \in Clients |-> <<>>]
    /\ nTools = 0 /\ nMaps = 0 /\ nJoins = 0
    /\ lost = [c \in Clients |-> FALSE] /\ fate = [c \in Clients |-> "none"]

\* received commands that the server must read
ServerHandles(c) ==
    \/ ServerKicksInitiator(c) \/ ServerIgnoresTool(c) \/ ServerSchedulesTool(c)
    \/ ServerRefusesJoin(c) \/ ServerAcceptsJoin(c) \/ ServerFailsToAnswer(c)
    \/ ServerGetsReady(c) \/ ServerGetsClose(c)

ServerRuns == ServerRunsTool \/ ServerRunsSync

ClientHandles(c) ==
    \/ ClientIsAccepted(c) \/ ClientIsRefused(c) \/ ClientIsGarbled(c) \/ ClientSkips(c)
    \/ ClientLoadsGame(c) \/ ClientGetsStep(c) \/ ClientGetsCheck(c) \/ ClientQueues(c)
    \/ ClientGetsReady(c) \/ ClientGetsClose(c)

ClientRunsQueue(c) ==
    ClientDrops(c) \/ ClientChecks(c) \/ ClientRunsTool(c) \/ ClientRunsSync(c)

Next ==
    \/ ServerFrame \/ ServerTool \/ ServerForcesSync \/ ServerReloadsAtOnce \/ ServerRuns
    \/ \E c \in Clients :
          \/ ServerHandles(c) \/ ServerDropsClient(c) \/ Flush(c)
          \/ Connect(c) \/ ClientLeaves(c) \/ ClientTool(c)
          \/ ClientHandles(c) \/ ClientRunsQueue(c) \/ ClientFrame(c)

Spec == Init /\ [][Next]_vars

\* Every process goes round its loop and the network delivers; players, the bounded
\* inputs and failures are not owed.
Fairness ==
    /\ WF_vars(ServerFrame) /\ WF_vars(ServerRuns)
    /\ \A c \in Clients :
          /\ WF_vars(ServerHandles(c)) /\ WF_vars(Flush(c))
          /\ WF_vars(ClientHandles(c)) /\ WF_vars(ClientRunsQueue(c))
          /\ WF_vars(ClientFrame(c))

FairSpec == Spec /\ Fairness

-----------------------------------------------------------------------------
(* Properties.                                                             *)

TypeOK ==
    /\ sStep \in Nat /\ sPaused \in BOOLEAN /\ sMap \in Nat /\ sMaps \in Seq(Nat)
    /\ sWorld \in Worlds /\ sLists \in Checklists /\ sQueue \in Seq(ToolMsgs \cup SyncMsgs)
    /\ sRuns \in BOOLEAN
    /\ sState \in [Clients -> {"inactive", "connected", "playing"}]
    /\ pending \in Clients \cup {NoClient}
    /\ cMode \in [Clients -> {"out", "joining", "waiting", "playing"}]
    /\ cStep \in [Clients -> Nat] /\ cBarrier \in [Clients -> Nat]
    /\ cPaused \in [Clients -> BOOLEAN] /\ cMap \in [Clients -> Nat]
    /\ cWorld \in [Clients -> Worlds] /\ cLists \in [Clients -> Checklists]
    /\ cQueue \in [Clients -> Seq(QueuedMsgs)]
    /\ sendq \in [Clients -> Seq(BroadcastMsgs)]
    /\ wire \in [Clients -> Seq(ToClientMsgs)]
    /\ up \in [Clients -> Seq(ToServerMsgs)]
    /\ nTools \in Nat /\ nMaps \in Nat /\ nJoins \in Nat
    /\ lost \in [Clients -> BOOLEAN] /\ fate \in [Clients -> Fates]

\* A client is never ahead of the barrier, nor the barrier ahead of the server: what the
\* comment "client was too fast" in process_network_commands guards against.
NeverAhead ==
    \A c \in Clients : cStep[c] <= cBarrier[c] /\ cBarrier[c] <= sStep

\* Nobody is ever asked to execute a command of a step that is over; the code would
\* disconnect ("wanted to execute in the past").
NeverInThePast ==
    /\ \A c \in Clients : fate[c] # "past"
    /\ \A m \in Elems(sQueue) : m.step >= sStep

IsPrefixOf(s, t) == Len(s) <= Len(t) /\ SubSeq(t, 1, Len(s)) = s

\* what a command adds to the world it runs in
InputOf(m) == IF m.type = "SYNC" THEN Reload(m.newmap) ELSE Tool(m.tool)

\* The world the server will have when it has run the commands that are due: the last
\* one of them may be a reload, which drops the others.
SettledWorld ==
    LET due == {i \in DOMAIN sQueue :
                   /\ \A j \in 1 .. i : sQueue[j].step <= sStep
                   /\ \A j \in 1 .. i - 1 : sQueue[j].type # "SYNC"}
    IN  sWorld \o [i \in due |-> InputOf(sQueue[i])]

\* The world of a playing client is one the server has or had, unless the client's own
\* reload dropped commands of the world behind it (see CommandsSurvive).
Lockstep ==
    \A c \in Clients :
        cMode[c] = "playing" /\ ~lost[c] => IsPrefixOf(cWorld[c], SettledWorld)

\* What is never taken back of it: a server that is paused may be forced to reload instead of
\* running what is due.
LastingWorld == IF sPaused THEN sWorld ELSE SettledWorld

NotFollowing == <<<<"not following", 0>>>>

Log == INSTANCE LockstepLog
       WITH NotFollowing <- NotFollowing, Reloads <- {"reload"} \X Nat,
            log  <- LastingWorld,
            copy <- [c \in Clients |-> IF cMode[c] = "playing" /\ ~lost[c]
                                       THEN cWorld[c] ELSE NotFollowing]

\* The protocol implements the lockstep log: what the server has and is sure to do is never
\* taken back, and a client whose reload dropped nothing plays a prefix of it and only moves
\* forward along it.
ImplementsLog == Log!Spec

\* No reload ever drops a command the client has still to execute.
CommandsSurvive == \A c \in Clients : ~lost[c]

\* Nobody is thrown out for a wrong checklist whose world is right.
KickedOnlyIfDiverged == \A c \in Clients : fate[c] = "checklist" => lost[c]

\* The server takes for playing only whom it has sent the game: the comment "unpause the
\* client that received the game" in nwc_sync_t::do_command.
PlayersHaveTheGame ==
    \A c \in Clients : sState[c] = "playing" /\ cMode[c] \in {"joining", "waiting"} =>
        \E m \in Elems(wire[c]) : m.type = "GAME"

\* A pending join is never forgotten: the server runs and the nwc_sync_t that ends it
\* is queued.  Otherwise no client could ever join again.
PendingIsServed ==
    pending # NoClient =>
        /\ ~sPaused
        /\ \E m \in Elems(sQueue) : m.type = "SYNC" /\ m.who = pending

\* A paused client has the answer that unpauses it, or the end of its connection, coming.
PausedIsAnswered ==
    \A c \in Clients : cMode[c] = "playing" /\ cPaused[c] =>
        \/ \E m \in Elems(up[c]) : m.type = "READY"
        \/ \E m \in Elems(wire[c]) : m.type \in {"READY", "CLOSE"}

\* A paused client is unpaused or disconnected in the end.
PausedResumes ==
    \A c \in Clients : (cMode[c] = "playing" /\ cPaused[c]) ~> (~cPaused[c])

\* An accepted client has the game, the end of its connection or, at the server, the
\* nwc_sync_t that sends it the game, still to come.
AcceptedIsServed ==
    \A c \in Clients : cMode[c] = "waiting" =>
        \/ \E m \in Elems(sQueue) : m.type = "SYNC" /\ m.who = c
        \/ \E m \in Elems(wire[c]) : m.type \in {"GAME", "CLOSE"}

=============================================================================
