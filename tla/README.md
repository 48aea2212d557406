# Simutrans Extended in TLA+

This directory is a verification development for the simulation game in `src/`
(Simutrans Extended). It models the parts of the program in which several
processes, threads or callbacks meet, checks them with TLC on small instances
and proves the central facts for every instance with TLAPS. The code is the
reference: `PROJECT.json` ("map") names for every definition the lines it
translates.

## 1. Inventory

The program simulates a transport network on a grid of tiles. One thread runs
the main loop `karte_t::interactive`; optionally a pool of threads shares the
per-frame work and one more thread compresses or expands savegames. In a network
game one server and its clients run the *same* simulation in lockstep.

| component | state | operations | meets | hard because |
|---|---|---|---|---|
| Lockstep (`simworld.cc`, `network/network_cmd_ingame.cc`) | `sync_steps`, `sync_steps_barrier`, `command_queue`, `map_counter`, `last_checklists`, pause flag, `pending_join_client` | `interactive`, `process_network_commands`, `do_network_world_command`, `nwc_*_t::execute` and `do_command` | every client through the network; the simulation through tools | processes at different steps, reloads, lost connections, one join at a time |
| Socket list (`network_socket_list.cc`) | slots with state and send queue, counters of connected and playing clients | `add_client`, `remove_client`, `change_state`, `process_send_queue`, `send_all` | network commands, `karte_t::step` (farewell) | slots are reused; counters must follow the states |
| Packets (`network_packet.cc`, `network.cc`) | bytes sent and received so far | `send`, `recv`, `network_send_data` | send queue and direct sends share a socket | partial transmission |
| Pakset comparison (`network_cmp_pakset.cc`) | position in two sorted lists | request / answer | a client before it joins | - |
| Savegame threads (`loadsave.cc`) | two buffers, `readdata_flag`, barrier, mutex, condition | fill / flush, trigger, finalise | game thread and reader or writer thread | everyone waiting for everyone |
| Barrier and fork-join (`simthread.cc`, `karte_t::world_xy_loop`) | count of arrived threads | `simthread_barrier_wait` | the simulation threads | reuse of a barrier, spurious wake-ups |
| Handles (`quickstone_tpl.h`) | table of pointers, next free entry | create, detach, `rdwr`, grow | every subsystem | stale handles, table full |
| Level crossings (`crossing_logic.cc`) | state, vehicles on either way, who asked to close | `request_crossing`, `add_to_crossing`, `release_crossing`, `recalc_state` | vehicles of two ways | a vehicle that vanishes between request and entry |
| Track reservation (`boden/wege/schiene.cc`) | convoy that holds a tile | `reserve`, `unreserve` | convoys | partial reservations |
| Script scheduling (`script/script.cc`) | queue of calls, suspended flag, callback | `call_function`, `intern_resume_call`, `intern_queue_call` | scenario and AI scripts | a suspended call, calls queued meanwhile |
| Convoys, halts, lines, factories, cities, players, power, tools | economic simulation | sequential steps and tools | lockstep, as one input each | size, not concurrency |
| GUI, display, descriptors, makeobj, sound, translation, vendored Squirrel | - | - | - | input and output only |

What makes each of them correct:

* *Lockstep*: all participants execute the same inputs in the same order; no
  client runs ahead of the server; nobody executes an input in the past or from
  another world; a join ends, and so does every pause.
* *Socket list*: the counters equal the number of slots in each state; a slot is
  reused only after its player was seen off.
* *Packets*: what a peer reads is a sequence of whole packets.
* *Savegame threads*: each buffer is read by one thread after the other wrote
  it, in order; both threads end.
* *Barrier*: nobody passes a round before all arrived in it.
* *Handles*: a handle of a deleted object is unbound and never names a new one.
* *Crossings and reservation*: no two trains, and no train and car, on one tile.
* *Scripts*: every queued call starts once, whatever else is queued, and who asked
  for its value is told that value and no other.

`PROJECT.json` ("hazards") lists where in the code each of these can go wrong.

## 2. Plan

In this order, most important first:

1. `NetLockstep` - the protocol of network games as a whole; `LockstepLog` - what
   it promises; `NetLockstepProofs`, `NetClientProofs`, `NetOrderProofs`, `NetLogProofs`,
   `NetPromiseProofs` - theorems, each on top of the one before. *(done)*
2. `RailTraffic` over `Crossing` - trains, their reservations and a level crossing,
   which are one system: the tiles a train reserves, the stop it drives up to and
   the crossing it asks for change in the same steps; `RailTrafficProofs` -
   theorems. *(done)*
3. `LoadSave` - the writer and reader threads of `loadsave.cc` with the
   hand-written barrier inside; `Rendezvous` - what a barrier promises;
   `LoadSaveProofs` - theorems. *(done)*
4. `ScriptCalls` - the queue of calls of scripted functions and their callbacks;
   `ScriptCallsProofs` - theorems. *(done)*
5. `SocketList` - slots, states and counters, with the farewell loop; composed
   with the joins of `NetLockstep` through the slot states.
6. `PacketStream` - bytes of packets, partial sends, direct sends.
7. `Handles` - the table of handles.
8. `Schedule` - pure operators on schedules against reference definitions.

Runs stay within three hundred thousand states: two clients (symmetric) and two
reloads for safety, one client for liveness, because every interference between
two clients passes through the server's queue and the one pending join; two trains, because a tile is held by
at most one convoy and each step gives back tiles of one.

## 3. Modules

### NetLockstep

One server, a set `Clients` of machines that may join, and the channels between
them. Correspondence of state and code:

| variable | code |
|---|---|
| `sStep`, `cStep` | `karte_t::sync_steps` at server and client |
| `cBarrier` | `karte_t::sync_steps_barrier` |
| `sPaused`, `cPaused` | `step_mode & PAUSE_FLAG` |
| `sMap`, `cMap`, `sMaps` | `karte_t::map_counter`, `nwc_ready_t::all_map_counters` |
| `sLists`, `cLists` | `last_checklists`, a ring of `LAST_CHECKLISTS_COUNT` |
| `sQueue`, `cQueue` | `karte_t::command_queue` |
| `sRuns` | `process_network_commands` has left its receive loop and due commands remain |
| `sState`, `sendq` | `socket_info_t::state` and `send_queue` of the client's slot |
| `pending` | `nwc_join_t::pending_join_client` |
| `cMode` | where a client is in `network_connect`, or playing |
| `wire`, `up` | the two directions of the TCP connection |
| `sWorld`, `cWorld` | the world: the sequence of inputs its simulation consumed |
| `lost`, `fate` | history variables for the properties |
| the field `at` of a queued command | history: how long the world will be when the command runs |
| the field `reload` of a game | history: for which map counter it was saved |

The main loop of a process is: read received commands, flush send queues
(`Flush`), run due commands, maybe a frame. The actions follow that order where
it can be observed: a frame needs an empty set of due commands, and `sRuns` keeps
the server from reading another message between two due commands.

Actions of the server: `ServerFrame` (a frame and its announcement, and the
automatic pause), `ServerTool`, `ServerKicksInitiator` / `ServerIgnoresTool` /
`ServerSchedulesTool` (a client's tool), `ServerRefusesJoin` /
`ServerAcceptsJoin` / `ServerFailsToAnswer`, `ServerForcesSync` / `ServerReloadsAtOnce`
(`SRVC_FORCE_SYNC`), `ServerGetsReady`, `ServerGetsClose`, `ServerDropsClient`,
`ServerRunsTool` and `ServerRunsSync` (the due commands). Of a client:
`Connect`, `ClientIsAccepted`, `ClientIsRefused`, `ClientIsGarbled`,
`ClientSkips`, `ClientLoadsGame` (together `network_connect`), `ClientGetsStep`,
`ClientGetsCheck`, `ClientQueues`, `ClientGetsReady`, `ClientGetsClose`,
`ClientLeaves`, `ClientTool`, `ClientFrame`, and for due commands `ClientDrops`,
`ClientChecks`, `ClientRunsTool`, `ClientRunsSync`.

Abstractions, each of them deliberate:

* A world is the sequence of its inputs. The simulation is assumed
  deterministic, and a checklist to differ whenever the worlds differ; it *is*
  the world in the model. A reload is an input of its own because loading a
  saved game is not the identity - which is why everybody must reload together.
  It is named by the map counter that was generated for it (`Reload(n)`), so that two
  reloads are never taken for one another and the map counter of a world can be read
  off the world.
* Messages are whole (bytes are left to `PacketStream`); a send that fails sends nothing. What `network_send_all`
  puts into the server's own `received_command_queue` is queued at once: it is
  FIFO and emptied before the next frame. The answer to a join and the copy of
  the `NWC_SYNC` sent behind it are one message.
* A map counter is the number of counters generated so far; in the code it is
  `dr_time()`, taken to be distinct.
* A machine keeps its slot; a slot whose player left is `inactive`. Commands of
  a removed client that were received and not yet read are dropped with it.
* A client that gets the bytes of a game while it does not expect one reads
  them as packets and fails (`ClientIsGarbled`).
* A `NWC_CHECK` that is too old is ignored; the tools that ignore old events
  (`TOOL_ADD_MESSAGE`) are left out. Nicknames, chat, company locks and the
  service commands other than `SRVC_FORCE_SYNC` do not touch this state.
* Frames are not paced by the clock: any pace is allowed.

### LockstepLog

The abstract specification: one history (`log`), which is only appended to, and a copy
of each follower that is a prefix of it, starts with a reload and only moves forward.

`NetLockstep` contains the refinement mapping. The log is `LastingWorld`: the
server's world with the due commands that it will run before anything else
(`SettledWorld`); without them a client could be "ahead" of a server that is in the middle
of its due commands. While the server pauses it is the world alone, because
somebody who forces a reload then has it at once, and the commands that were due
are deleted. A machine follows while it plays and has not lost commands (finding 1).

### MCNetLockstep

The instance for TLC: the symmetry of clients.

### Crossing

The logic of a crossing as pure operators on a record, one for each method of
`crossing_logic_t`: `MayCross1`, `MayCross2` and `RequestCrossing2` are
`request_crossing`, the rest have its names. `state` is `CROSSING_OPEN`,
`CROSSING_REQUEST_CLOSE` or `CROSSING_CLOSED`; `way1` and `way2` are `on_way1` and
`on_way2`; `request` is `request_close`.

### RailTraffic

Convoys on a network of tracks, from the moment they have loaded until they are
sold.

| variable | code |
|---|---|
| `state` | `convoi_t::state` |
| `route` | `convoi_t::route` |
| `tile`, `index` | `get_pos()` and `vehicle_t::route_index` of every vehicle |
| `rail.reserved` | `schiene_t::reserved` of every tile |
| `rail.last`, `rail.stop` | `convoi_t::next_reservation_index`, `next_stop_index` |
| `rail.crossing` | the `crossing_logic_t` of the crossing |
| `signal` | what stands on a tile, presignal, other signal or none |

The four parts of `rail` are one record because the code passes through them in
long chains (`can_enter_tile`, `is_signal_clear`, `block_reserver`, `reserve`), each
link of which changes several; in the model each link is an operator from record
to record, with `ok` for what it returns. Positions count from 1 and the code's
from 0, its indices being "one behind", so that the numbers are the same.

`Proceed` is `step` for a train that waits, `HeadHops` and `FollowerHops` are
`sync_step` (`hop`, `enter_tile`, `leave_tile`), `Arrives` is `ziel_erreicht`, `Loaded` the end of
`laden`, `Reroute` is `drive_to` with `calc_route` and `vorfahren` (`GoesOn` in the old
direction, `StartsAfresh` otherwise: from the head's tile, or from the tail's when
`can_go_alte_richtung` had put it in front of the route before it refused), `NewSchedule` is `set_schedule` (with
`EDIT_SCHEDULE`, which only waits for a dialog), `Destroy` and `Load` the sale of a convoy and
`rdwr` followed by `finish_rd`; `CarEnters` and `CarLeaves` are road vehicles at the
crossing, `SignalRemoved` the player.

Abstractions and what is left out:

* Trains fit on a tile, however many vehicles they have: when the head leaves a tile all
  others are on it. That is so when the lengths of the vehicles add to less than 16 carunits,
  the length of a tile, or 11 where tracks bend, and for the train of two vehicles of 8 that
  TLC checks, as long as it does not start afresh in a bend. `vorfahren` drives a train that starts afresh
  forward by its length, "completely on the track", with signal checks off
  (`simconvoi.cc:2056-2098`). A train that fits stays on its first tile meanwhile. A longer one comes onto
  tiles that it has not reserved, and over crossings that it has not asked; this is left
  out, none of the properties is claimed of such trains, and it is a hazard of its own.
* `TurnsBack` looks at as many tiles as `can_go_alte_richtung` does for such trains.
  `LoopAssumption`: behind them a route does not come back to a tile from which trains
  enter its first tile.
* Time and speed are left out: a train moves whenever it may.
* The search finds one of the routes in `Routes`, or fails when there is none. A route
  comes over no tile twice and does not end where it begins (`LayoutAssumption`); at
  the beginning the trains stand on different tiles (`HomeAssumption`).
  `VehicleAssumption`: what stands for "nobody asked" is no vehicle.
  The tests of directions and lengths in `can_go_alte_richtung` are a choice.
* Signals are normal signals or presignals, and a presignal that follows one is
  taken as a normal signal. Longblock and choose signals, depots, waypoints, road
  convoys, building of signals and empty schedules are not modelled, and neither
  are crossings that are built, merged or split while trains run.
* With `AnyTime = FALSE` no schedule changes while its train is on the crossing, no
  game is loaded while a train has permission and is not yet there, and no signal
  is removed that is the next stop of a train. Each of the three
  breaks `TrainsMeetNoCars` when it is allowed; they are hazards of their own in
  `PROJECT.json`.

### MCRailTraffic

Two layouts. A single track `a - m - x - n - e` with the crossing at `x`, a presignal
at `a`, a normal signal at `e` and two platforms `b`, `d` behind it; a train of two
vehicles runs between `a` and `b`, one of one vehicle to all three. No route leads from
one platform to the other, so a search can fail. And two parallel tracks without
signals whose tiles `x`, `y` are one crossing. `InstanceAssumption` has TLC evaluate that both
layouts have what the theorems about trains ask of a layout (section 5), and the first
also what the two about the crossing ask (`CrossingStandsAlone`). The vehicles are half a
tile long.

### LoadSave

The game thread and the thread of `loadsave.cc` that writes its buffers to the file, or
fills them from it.

| variable | code |
|---|---|
| `pc`, `back` | where each thread is, and where it goes behind the barrier |
| `count`, `sleeping` | `simthread_barrier_t::count`, the waiters of its condition |
| `mutex`, `flag` | `readdata_mutex` (its owner), `readdata_flag` |
| `curr`, `mine`, `filled` | `curr_buff` of the game, `buf` and `res > 0` of the other thread |
| `buf` | `ls_buf` with `buf_pos`, `buf_len`: the bytes still to be used |
| `rest` | what a `write` or `read` that ran over its buffer has still to copy |
| `out`, `given`, `size` | the ends: bytes out, bytes in, bytes the file has |
| `passed` | history: how often each thread passed the barrier |

Bytes are numbered, so that their order tells losses and doublings. Each stretch
of code between two waits is an action, and the writing of a buffer is two (the file,
then `buf_pos`), since the game could interfere between them.

No call is longer than a buffer, which has a mebibyte in the code. `AskForMore` keeps a test of the
code that is never true, `readdata_flag < 0` at that place: only the game itself sets the
flag to -1 before it ends. A save to which nothing was written would leave
the game in `pthread_join`, as the thread ends at the first empty buffer and the game
waits at the barrier a second time; every save has a header, and `EndSaving` asks for a
byte. Writes to the file are taken to succeed: `flush_buffer` looks at the result of
`gzwrite` and `fwrite` nowhere and goes on with the next buffer, so that after a write that
failed, on a full disk, bytes are missing in the middle of the file, and only `close` tells of it
(`gzerror`, `ferror`); `InOrder` and `NothingIsLost` say nothing of such a file. Opening and
closing of files, unbuffered access and the conversions of `rdwr_*` are not modelled.

With `SpuriousWakeUps = TRUE` a thread at the barrier may wake up unasked, as POSIX lets it.
`simthread_barrier_wait` tests nothing behind `pthread_cond_wait` (`simthread.cc:50`), so the thread
goes on alone, and TLC finds `BuffersAreDisjoint` violated: both threads are in one
buffer. `src/utils/simthread.h:8` has this barrier only for systems without one. The run
and the theorems take `FALSE`.

### Rendezvous

What a barrier promises: nobody passes it for the n-th time before everybody
came for the n-th time.

### ScriptCalls

The thread of one virtual machine on which the functions of a script run that may be
suspended, and the queue of calls that were made meanwhile.

| field | code |
|---|---|
| `vm.thread` | the squirrel thread: idle, suspended (out of opcodes, or asleep), or with `wait_external` set, waiting for a tool |
| `vm.running` | the closure and arguments that are left on the thread's stack while it is suspended |
| `vm.queue`, `vm.queued`, `vm.active` | `registry.queue`, `queued_callbacks`, `active_callbacks` |
| `seen` | history: which callbacks wait for what, which calls are owed, and what went wrong |

A call is a function with its arguments, and calls with equal arguments are one. `CallNow`
and `CallLater` are `intern_finish_call` for a call of type `QUEUE`, from
`prepare_callback` on, with everything it sets off: a later call is queued
(`Enqueued`), then the suspended call goes on (`ResumeCall`), and if it ended the first of
the queue starts. How each of the two calls gets on (`how`, `next`) is a choice. `ToolDone` is
`tell_return_value`. Nothing moves without another call, so the step of an AI player,
or the question whether a scenario is won, is what keeps the queue going: `Regular`.

An entry that has the registry and an array appended is no longer `whole`; as its
parameters are too many it can only fail. Of the queue's other entries all
have the size of the call (a guard of `CallLater`): what an entry in the middle leaves
on the stack is not modelled. Left out as well are `FORCE` calls while a scripted function
runs, which reset `was_queued` and with it the callback of a queued call, and `TRY`,
which nobody uses.

### MCScriptCalls

Three calls, two of which give values: all of one size, like those of AI players, or of
two sizes, like those of scenarios; and two callers, like the clients of a game whose
scenario is run by the server.

### NetLockstepProofs, NetClientProofs, NetOrderProofs, NetLogProofs, NetPromiseProofs, RailTrafficProofs, LoadSaveProofs, ScriptCallsProofs

See section 5.

## 4. Runs

| run | instance | properties | shows |
|---|---|---|---|
| `lockstep_safety` | 2 clients (symmetric), 3 sync steps, 1 tool, 2 reloads, 2 connections, which may break | `TypeOK`, `NeverAhead`, `NeverInThePast`, `Lockstep`, `KickedOnlyIfDiverged`, `PendingIsServed`, `PlayersHaveTheGame` | the protocol is safe, except where a reload drops commands (below) |
| `failing_sends` | 1 client, 4 steps, 2 tools, 2 reloads, 1 connection, sends may fail on it | `Lockstep`, `KickedOnlyIfDiverged`, `PendingIsServed` | failing sends make clients wait, never diverge; a client that did diverge (finding 1) is caught by its own tool |
| `lockstep_live` | 1 client, 3 steps, 3 reloads, 1 map counter remembered, 2 connections, which may break, no failing sends, fair | `PausedIsAnswered`, `PausedResumes`, `ImplementsLog` | every pause ends, or the connection does; the protocol implements the log |
| `lost_commands` | 1 client | `CommandsSurvive` violated | finding 1 |
| `lost_join` | 1 client | `AcceptedIsServed` violated | finding 2 |
| `no_game` | 1 client, sends may fail | `PlayersHaveTheGame` violated | finding 3 |
| `rail_safety` | 2 trains of 2 and 1 vehicles, 7 tiles, 1 car | `TypeOK`, `WayIsReserved`, `StandsOnItsTiles`, `NoTwoTrains`, `TrainsMeetNoCars`, `RequestIsForSomebody`, `RoadGivesWay` | the interlocking holds through reroutings, sales, new schedules, removed signals and loading; a train waits for cars and not for ever |
| `parallel_tracks` | 2 trains, 10 tiles, 2 tracks, 1 car | `TrainsMeetNoCars` violated | finding 4 |
| `save_threads` | buffers of 3 bytes, files of up to 13 | `TypeOK`, `InOrder`, `NothingIsLost`, `BuffersAreDisjoint`, `FatalOnlyIfShort`, `Ends`, `ImplementsRendezvous` | two threads share two buffers without losing a byte and both end; the barrier is one |
| `script_calls` | 3 calls of one size, 2 callers, 2 callbacks of one queued call | `TypeOK`, `CallsAreKept`, `AnswersMatch`, `SomebodyHears`, `EveryCallStarts` | no queued call is lost, each starts, and every value reaches one of those who wait for it and nobody else |
| `lost_calls` | 3 calls of two sizes | `CallsAreKept` violated | finding 5 |
| `lost_answers` | 3 calls of one size, 2 callers | `EveryCallerHears` violated | finding 6 |

Bounds. Two reloads are needed for a message or a map counter of the world
before to meet the world after, and for a reload to follow another in one
client's queue; three steps let a client lag by two; the ring of two checklists
is reused within a run, and with one map counter remembered the one before is
forgotten at once. With three reloads a client that joined with the first still asks for the
second when the third comes, so that the server has forgotten it and throws the client out:
`lockstep_live` has that case. `FramesPerStep = 1` in the safety run offers the announcement
of a lagging server at every step, 4 in the others at none. Nothing is
scheduled behind `MaxStep`. Deadlock is not checked: with the bounded inputs
spent and no client connected nothing is left to do, and a paused server may wait
for players for ever.

The state space of the trains is finite without a bound. Two vehicles let a train
stand on two tiles and on both sides of a signal; two platforms behind a presignal
make both of its blocks fail, succeed, or succeed and fail. When all trains were
sold nothing need be left to do, so deadlock is not checked; a train that waits for
another for ever, face to face, is a deadlock of the players' layout and not of the code.
With 13 bytes each of the buffers of 3 bytes is used twice and more; calls of 1 to 3
bytes end before, at and behind the end of a buffer, and files end at every position
of a buffer, also empty, and also by an error of the reader. Saving and loading stop
when they are done, hence no check for deadlock: `Ends` says that both do.

The queue of scripts needs no bound of its own, since equal calls are merged; three calls
fill it while one of them is suspended, and two callers whose callbacks of one call meet in
the queue are what the merging is about. When nobody calls nothing happens, hence no check
for deadlock.

Fairness. Weak fairness of each loop of each process: frames, due commands,
received commands, the send queue; this is what a process that goes round its
main loop and a socket that is not broken provide. Players, connections, forced
syncs and failures are not owed, and neither is `ClientLeaves`. `RailTraffic` only asks
that a car that is on the crossing leaves it: before a vehicle enters a crossing
`private_car_t::ist_weg_frei` makes sure that there is room behind it. `LoadSave` asks that both
threads are scheduled, `ScriptCalls` that the regular call is made again and again
and finds scripts that end (strong fairness, as they may be suspended in between), and
that tools are done.

Failures. `LinksMayBreak` lets a connection end at any time (the server notices
first; a client that ends it is `ClientLeaves`), also in the middle of the game.
`SendMayFail` lets a single direct send fail while the connection lasts, which
`network_send_data` reports when the socket stays full for its timeout. The two are
apart because with both `NeverInThePast` fails: a slot that was booked as playing
without the game (finding 3) and then serves a second join has broadcasts of before in
its send queue, and the game overtakes them. A client's time-outs in
`network_connect` are `ClientLeaves`. `lockstep_live` lets no send fail: `nwc_ready_t::execute`
only logs that its answer could not be sent, and the client stays paused.

Findings (the six runs that must be violated):

1. A client that is behind keeps commands of the next world in its queue - the
   code says so - but the reload between them clears the queue. It diverges.
   `lost` marks such a client; `Lockstep` and `KickedOnlyIfDiverged` hold for all
   others, so this is the *only* way to diverge in the model. If the deleted command
   is an `NWC_SYNC` the client also stays on its map counter, and drops every later
   checklist before it is compared.
2. A forced sync before an accepted join in the same step deletes the joiner's
   sync; the join flag is reset, so others can join, but the accepted client
   waits for a game that nobody will send (until it gives up).
3. When the message in front of the game cannot be sent, the server books the client
   as playing all the same and broadcasts to it.
4. Tracks in parallel share the logic of a crossing and it remembers one request. A
   second train overwrites the request of a first, and when the second withdraws
   the crossing opens before the first is there.
5. A call that is queued behind one with another number of arguments is not queued: the
   search for an equal call leaves that entry on the stack, and the registry and
   an array are appended to it instead. Neither call is executed.
6. Two clients that play for the same player ask the server for the same text of a
   scenario (`network_cmd_scenario.cc:55` prepares a callback with each client's number).
   Their equal calls are made one in the queue, and `intern_call_callbacks` calls the last of its
   callbacks, though `script.h:228` speaks of all: the other client is not told the text, and
   stays with what the server answered at once (an old text, or none) until it asks again.

## 5. Proofs

`NetLockstepProofs` proves for every set of clients and all bounds

* `TypeCorrect`: `Spec => []TypeOK`;
* `ClientsNeverAhead`: `Spec => []NeverAhead`.

Neither is inductive alone. A client's barrier comes from messages, and messages
come from the server, so the invariant `IInv` says of every channel at once that
what is in it is typed and speaks of no step beyond the server's
(`ChannelsUpTo`): announcements and checklists carry a step of at most `sStep`,
queued commands a step of at most `sStep + 1`, the answer to `NWC_READY` the
step of the request, which was the client's own. `ServerOK`, `ClientOK` and
`RecordsOK` hold the rest of the types. There is one lemma per action; monotony
of `UpTo` carries the channels over a frame of the server. Two things took
lemmas of their own: the position at which `command_queue_append` inserts exists
(`LeastNumber`, by the well-foundedness of the naturals), and replacing, taking
or appending an element keeps a sequence typed.

The same module proves `PendingJoinIsServed`: `Spec => []PendingIsServed`. The
queue must be known to be sorted (`QueueIsSorted`) and to hold no command of a
step that is over (`QueueIsCurrent`, which is the server's half of
`NeverInThePast`): only then is the command that is dropped or run never the sync
of a join that stays pending, because a queued sync of the server's world is
never "in the past" (`JoinIsQueued`).

`NetClientProofs` proves `PausedClientsAreAnswered`: `Spec => []PausedIsAnswered` if no
single send fails. It first cuts every step into what it does to one client
(`LocalStep`): the server's side of it (broadcasts, direct sends, closing), a read, the
client's own doings, or nothing; the proofs about streams that follow are made once per
kind of local step, not once per action. `SlotInv` says what a slot, the two ways and the
client know of each other: only a playing slot has a send queue, a client whose slot was
closed finds `CLOSE` on the wire, one that does not play has no queue and stands at
step 0. `AnswerInv` adds that behind every game on the wire comes the `NWC_READY` or the
end of the connection (`GamesAreFollowed`), and that a client that is paused has its
`NWC_READY` under way to the server or back. The property alone would not survive the
loading of a game.

`NetOrderProofs` proves, if no single send fails,

* `CommandsAreInTime`: `Spec => []NeverInThePast`;
* `PlayersAreSentTheGame`: `Spec => []PlayersHaveTheGame`.

What a client is told to do comes to it by two ways, its send queue and the socket, of
which the second overtakes the first, so "in the past" is a statement about what is
behind what. The invariant has four parts. `LogInv`: the server's world has exactly
`sStep` frames, each checklist of the ring is the world at that frame, and each queued
command knows its place (`at`). `StreamInv`: the queue of a client, the wire and the send
queue, one behind the other, are in the order in which the server sent them, and
every message says what was so at the server. `JoinInv`: to a client that waits comes at
most one game that it will load, there is one request to join, and a sync that was
promised is still queued at the server. `OrderInv`: all announcements and
commands behind the barrier of a client are later than it, and those behind an
`NWC_READY` are later than the step of that message, wherever on its way back and forth it
is; behind a game that will be loaded the same holds of the step at which it was
saved. `NeverInThePast` follows for the clients, for the server it is `QueueIsCurrent`.

`NetLogProofs` proves `ClientsStayInStep`: `Spec => []Lockstep` if no single send fails.
That a client has a beginning of the server's world says nothing of what it is going to
execute next, and the server's world of now says nothing of the commands that it has sent
and not yet executed. So the invariant `AlongInv` speaks of a log `F`, of which
`Coming(F)` says that it is the server's world and what is sure to come behind it: every
queued command up to the first reload, each in its place `at`, with the frame between
them. A reload ends it, because it clears the queue. `Along(F, c)` says of a client and its
three queues

* `PlacedOK`: every command on its way is the input of `F` in its place (`Right`), or a
  reload of the world that it was made for lies in front of that place (`CutAway`); the
  map counter, which is what the code compares, tells which;
* `Follows`: the world of the client is a beginning of `F`; each input of `F` behind it
  is a frame or comes in a command that is on its way, as far as the client has heard, or
  will hear, of the time; no command of its own world is one it has already executed;
* the same of a game on the wire that will be loaded, with the `NWC_READY` behind it.

The log is not the same for ever: what is queued behind a forced sync is never executed, and
a server that pauses has told nobody of its last step. `LogGoes` says how `F` changes in a
step: it is continued by what the step schedules, or, when the server reloads at once,
replaced behind the server's world. The latter happens only while nobody plays, and
`IdleInv` says that then nobody has heard of the step at which the server stands, so that
nothing of what is replaced was promised to anyone. `LogIsSettled` leads back to the
property: the part of `F` that a client can have executed is in the world that the server
has once its due commands are run.

`NetPromiseProofs` proves, if no single send fails,

* `LockstepIsALog`: `Spec => ImplementsLog`, the refinement of `LockstepLog`;
* `OnlyTheDivergedAreKicked`: `Spec => []KickedOnlyIfDiverged`.

The refinement needs that `LastingWorld` only grows (`LastingGrows`), which is a statement about
the commands that are due: a frame makes the commands of its step due, all at once and none
before; running one takes it from the queue and puts it into the world, in the same place; a
reload is always the end of what is settled, so that what it deletes was in no log. The
copies come from the invariants of `NetLogProofs` (`FollowersLast`; a client of a server
that pauses has not run the server's last step, `PausedAhead`). And
a step of the server moves no copy, and a step of a client one copy only, by one input, or to
a world that ends with a reload (`OneMoves`, `CopyMoves`): so that every step of the protocol
is one step of the log or none.

For `KickedOnlyIfDiverged` the invariant `KickInv` says that every checklist that is ever compared
is right: the one in a tool or an `NWC_READY` on its way is the server's world at the frame
it is said to be of (`ReportsOK`), and so are the last two in a client's own ring (`OwnListsOK`), the last
for what it reports, the one before for the next `NWC_CHECK`. It was not inductive in its
first form, in two cases that the code has: after an `NWC_READY` a client knows the checklist of its step
only, and nothing is queued for an earlier one; and before its first step it may report
what a former game left in its ring, under step 0, which the server then has no checklist
of any more (`Reported`). On the other side `LogInv` says that what the server compares with is right.

`RailTrafficProofs` proves of the interlocking, for any number of trains with any numbers of
vehicles that fit on a tile (section 3), any tracks, signals, crossings and schedules, with
schedules, loading and signals changing at any time (`AnyTime`)

* `TypeCorrect`: `Spec => []TypeOK`;
* `TrainsStandOnTheirTiles`, `TrainsStayApart`: `Spec` implies always `StandsOnItsTiles`,
  `NoTwoTrains`, if `SearchesSucceed`;
* `TrainsHoldTheirWay`: `Spec => []WayIsReserved`, if also `EndsAreClear`;

and of its crossing, where `SearchesSucceed`, `CrossingStandsAlone` and `AnyTime = FALSE`

* `TrainsNeverMeetCars`, `RequestsAreKept`: `Spec` implies always `TrainsMeetNoCars`,
  `RequestIsForSomebody`.

The first properties speak of the tiles under a train and of the way up to its stop; neither is
inductive, since what a train gives back and what it enters is computed from indices. The
invariant has two halves. `Trains` says, of every train by itself, where it is: its vehicles
are in order, each at the place of the one in front of it or one behind
(`Coupled`), two are on one tile exactly if they are at one place (`Coupling`), and the places
are those of the tiles on the route (`OnRoute`), unless a search has failed and the
route is one tile; it is on one tile or on two that follow each other (`Compact`). This half
is invariant whatever the reservations are, and gives the types: no index leaves its route. `AllSecure` says what a train holds: the tiles of its vehicles
and, when it is under way, all positions in front of its head up to
`next_reservation_index` (`Holds`), and that its stop is one of them or has been passed, or none and
all is reserved (`StopsWell`). The exception, which the first form of the invariant
lacked, is a signal at the end of the route: when nothing can be reserved
behind it, `block_reserver` sets `next_reservation_index` to the tile in front of the
signal, and `next_stop_index` stays; the head does not go beyond either. A train that
`CAN_START` has not looked for its next stop yet, and what the former route left there
means nothing (`Goes`).

The operators on reservations are proved about once, in the order in which they call each other.
`Does(r, q, c, rt, h)` says of each what an attempt of `c` may do: take free tiles, give back own ones
(`Takes`), of its own only those in front of its head (`FreesAhead`), and leave the indices
of others alone. `Reserves` and `Cleared` add what an attempt to reserve, and one
to go on, leads to when it succeeds and when it fails. From `Takes` alone it follows that the others stay
secure (`OtherStaysSecure`), which is why a train may give back any way it likes: the
tiles of others are not its own. The exception is the last wagon, which clears the tile
that it leaves whoever holds it; there the proof needs that the tile is its
own train's, and that no other vehicle of the train is still on it. In `Lengthened` the tile of
the tail comes in front of the new route, which must not have it already (`LengthenedLeads`):
`TurnsBack` has looked at the first tiles of the route, and `LoopAssumption` speaks of the others,
since the tail is on a tile from which trains come onto that of the head. In `Load` nobody claims what another one holds (`ClaimedIsHeld`), so that the
order of the convoys does not matter, and each `finish_rd` keeps what the former
ones made (`Kept`); `Finished` is a recursive function on sets of convoys, and that there
is one is proved too (`FinishingExists`).

The crossing needs an invariant of its own, `Orderly`: neither property says why the next
train that comes finds the crossing closed for itself. `RoadWaits` says of the crossing that
no car is on it when a train is on it or has asked for it. Of each train, `Counts` says that
the crossing has written down exactly those of its vehicles that are on it. A train that
drives has asked only for a crossing that it comes to before its stop, and holds all tiles
up to it (`Comes`); every crossing before its stop it has asked for (`Granted`); and its
stop is a signal, the crossing or an end (`Stops`). A train that `CAN_START` has asked for
nothing and is not on the crossing (`Starts`). Only a train that drives is on the crossing at
all, and its route goes on at least two tiles behind (`InTime`): a train that starts from the
tile of its tail does not start on the crossing. One that a new schedule stopped on its way
still has its request, and holds the way to the crossing (`Awaited`): `block_reserver` gives
back tiles only up to the first one that is not the train's, so that the request for a
crossing behind a gap would be left. Of each operator there is shown what it does to the
crossing (`Minds`: it changes neither the requests of other trains nor which of their
vehicles are on it), and how far the train may go on then (`Heeds`, `Passes`). That nobody
overwrites another train's request follows from the reservations: both would hold the one
tile of the crossing (`Undisputed`). Loading starts from a crossing to which the vehicles
are added, and each `finish_rd` asks anew (`Rests`, `FinishedStaysIn`).

`LoadSaveProofs` proves all safety of `LoadSave` for every length of buffers and files,
and that its barrier implements the abstract one:

* `SaveTypeCorrect`, `ThreadsKeepApart`, `BytesStayInOrder`, `ClosedIsComplete`,
  `CorruptIsCorrupt`: `Spec` implies always `TypeOK`, `BuffersAreDisjoint`, `InOrder`,
  `NothingIsLost`, `FatalOnlyIfShort`;
* `BarrierIsARendezvous`: `Spec => ImplementsRendezvous`.

`InOrder` says nothing of the buffers, and `BuffersAreDisjoint` nothing of the places
in between, so the invariant `IInv` has three more parts. `BarrierInv` knows who sleeps
when the count is 1 or 0 and that both threads have passed equally often, except one
that was woken up and is not yet on its way; the refinement follows from it. `SavePlaces`
and `LoadPlaces` list the pairs of places the two threads can be at and whose buffer is
whose; they use `At`, which takes a woken thread as already behind the barrier, so that
the way out of it changes nothing. `SaveData` and `LoadData` say that what came out, then the
older buffer, then the newer, is one run of consecutive bytes (`Span`) up to what was
put in, and that a buffer that came out short is the end of the file. When loading the
flag decides which thread has already changed over (`LoadFlag`). There is one lemma
per action, over lemmas on spans.

`ScriptCallsProofs` proves the safety of `ScriptCalls` for any calls and callers, and
without a bound on callbacks:

* `QueuesKeepInStep`: `Spec => []TypeOK`, for calls of any sizes;
* `OneSizeKeepsCalls`, `CallbacksMatchCalls`, `AnswersAreGiven`: `Spec` implies always
  `CallsAreKept`, `AnswersMatch`, `SomebodyHears`, if all calls have one size (finding 5 is
  what happens else).

That everybody hears is not so with two callers (finding 6).

A call that is made passes through up to four states of the registry before it returns, so
the invariant is a predicate of a state, `Good(s)`, and there is a lemma for each method
and not only for each action. What the properties do not say and the induction needs:
no call is queued twice, the callbacks in one place of `queued_callbacks` are all for the
call in the same place of `queue` (`Waiting`), and while the thread is not idle the active
callbacks are exactly those who wait for what it runs (`Awaits`); what is left of them
when it is idle must not matter.

Assumptions: `PausedClientsAreAnswered`, `CommandsAreInTime`, `PlayersAreSentTheGame`,
`ClientsStayInStep`, `LockstepIsALog` and `OnlyTheDivergedAreKicked`
assume `~SendMayFail`, that is, that a send fails only with its
connection. With failing sends the first three do not hold (finding 3, and "Failures" in
section 4); `Lockstep` and `KickedOnlyIfDiverged` with failing sends are what the run
`failing_sends` checks. Connections may break at any time in all of them.
`OnlyTheDivergedAreKicked` also assumes that the ring of checklists has more than one place (the code
has 64): with one, an `NWC_CHECK` of the step that was just over would be compared with the
checklist of the next, and TLC finds the client that is thrown out for it.
`LoadSaveProofs` assumes that no thread wakes up unasked (section 3 says what
happens else) and that a buffer has at least a byte. The theorems about trains assume of the layout, apart from `ConvoyAssumption`,
`LayoutAssumption`, `LoopAssumption` and `HomeAssumption` (convoys have vehicles, a route comes over no
tile twice and does not come back in a loop, trains begin on different tiles), what the code does not see to. `SearchesSucceed`: where a
train of several vehicles has come on its way to an entry of its schedule, there is a way on
to each other entry. Without it the hazard at `simconvoi.cc:1045` is real: the failing search gives back tiles
under the train. It says nothing of trains of one vehicle, whose searches may fail. `EndsAreClear`: no
route ends on a crossing with a signal on it, unless in a station; there
`next_stop_index` becomes "none" with the last tile not reserved. Both hold
of the layouts that TLC checks.
`TypeCorrect` assumes neither. `CrossingStandsAlone`: the crossing is one tile, without a
signal on it or on the tile of a route in front of it, no train begins on it, and no route
ends on it or on the tile behind. Without the first part there is finding 4, without the
last the hazard at `simvehicle.cc:2432`. That the signal matters came out of the proof: a
train is let onto the tile of a red signal (`can_enter_tile` only looks whether that is the
last tile before the stop); if the block behind it is free by the time the train leaves that
tile, `is_signal_clear` sets the signal to green and the stop to the crossing, and returns
true (`simvehicle.cc:2833`), and the same hop enters the crossing, which nobody has asked.
With a normal signal at `m` of the first layout TLC finds such a run, 7 states long, that
ends with a train and a car on the crossing. A train that had to wait at the signal looks
twice, once to be allowed to drive and once at the border of the tile, and asks then.
`AnyTime = FALSE` leaves out the other hazards of the crossing (section 3).
For the others the ring, the check interval and the number of frames per step are
positive, `NoClient` is no client, the bounds are naturals.

Only model-checked: `Lockstep` and `KickedOnlyIfDiverged` when sends fail on connections
that last, and the liveness properties (`PausedResumes`, `RoadGivesWay`, `Ends`,
`EveryCallStarts`). Liveness under fairness is out of the prover's reach. With crossings of
several tiles, or schedules, loading and signals that change at any time, the two properties
of the crossing do not hold.

## 6. Not modelled

Section 1 names everything; `PROJECT.json` ("components") gives the reason for
each part. The main ones: the economic simulation is sequential and its data
large; the GUI and the descriptors hold no state of the game; Squirrel is vendored.

Still on the plan: the counters of the socket list with the states of
administrators, the bytes of packets, and handles. The hazards of the first two
are listed without a property. The fork and join of the simulation threads in
`simworld.cc` uses the barrier of `LoadSave`; what its threads do between two barriers
writes to the whole world and is left out.
