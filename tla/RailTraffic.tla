----------------------------- MODULE RailTraffic -----------------------------
(***************************************************************************)
(* Trains on a network of tracks: what convoi_t and rail_vehicle_t do to   *)
(* the reservations of the tiles (schiene_t) and to a level crossing.      *)
(*                                                                         *)
(* A train reserves its route from signal to signal, drives into what it   *)
(* reserved, and its last wagon gives each tile back.  Positions in a      *)
(* route count from 1 here and from 0 in the code.  A vehicle's            *)
(* route_index (the position in front of it) is therefore the position of  *)
(* the vehicle itself; next_stop_index and next_reservation_index, one     *)
(* behind a position, are the positions of the stop and of the last        *)
(* reserved tile.  The numbers are those of the code throughout.           *)
(*                                                                         *)
(* The trains fit on one tile, whatever the number of their vehicles: when *)
(* the head leaves a tile, all the others are on it.  A longer train that  *)
(* starts afresh is driven on by its length with signal checks off         *)
(* (vorfahren), onto tiles it has not reserved; that is left out.          *)
(*                                                                         *)
(* Sources: simconvoi.cc, vehicle/simvehicle.cc, boden/wege/schiene.cc,    *)
(* dataobj/crossing_logic.cc (module Crossing), vehicle/simroadtraffic.cc. *)
(***************************************************************************)
EXTENDS Integers, Sequences, FiniteSets, SequencesExt, FiniteSetsExt

CONSTANTS
    Tiles,          \* tiles with a track
    Convoys,
    Cars,           \* road vehicles that use the crossing
    NoConvoy,       \* an unbound convoihandle_t
    NoVehicle,      \* NULL
    CrossingTiles,  \* the tiles of the crossing, which share one crossing_logic_t
    Halts,          \* the tiles of stations; each is a station of its own
    Goals,          \* the entries of the schedule of each convoy
    Routes,         \* what the route search finds: sequences of different tiles
    Signals,        \* what is built on each tile: none, normal or pre(signal)
    Removable,      \* the tiles whose signal players may remove
    Wagons,         \* the number of vehicles of each convoy
    Home,           \* the route each convoy has just finished
    AnyTime         \* whether a schedule changes also while its train is on the crossing,
                    \* a game is loaded also while a train may enter the crossing, and a
                    \* signal is removed also while it is the next stop of a train

ASSUME ConvoyAssumption ==
    /\ IsFiniteSet(Convoys) /\ NoConvoy \notin Convoys
    /\ Wagons \in [Convoys -> Nat \ {0}]

\* A search never comes over a tile twice, and never looks for where it starts.
ASSUME LayoutAssumption ==
    /\ CrossingTiles \subseteq Tiles
    /\ Signals \in [Tiles -> {"none", "normal", "pre"}]
    /\ \A c \in Convoys : Goals[c] \subseteq Tiles
    /\ \A rt \in Routes : rt \in Seq(Tiles) /\ Len(rt) > 1 /\ IsInjective(rt)

\* the steps from tile to tile that routes take
Follows == UNION {{<<rt[i - 1], rt[i]>> : i \in 2..Len(rt)} : rt \in Routes}

\* A route does not come back, behind the tiles that can_go_alte_richtung looks at, to a tile
\* from which trains come onto its first one.
ASSUME LoopAssumption ==
    \A rt \in Routes : \A i \in 6..Len(rt) : <<rt[i], rt[1]>> \notin Follows

ASSUME HomeAssumption ==
    /\ Home \in [Convoys -> Seq(Tiles)]
    /\ \A c \in Convoys : Home[c] # <<>> /\ IsInjective(Home[c])
    /\ \A c, d \in Convoys : c # d => Last(Home[c]) # Last(Home[d])

ASSUME VehicleAssumption == NoVehicle \notin Convoys \X Nat

VARIABLES
    signal,   \* the signals that are left
    state,    \* convoi_t::state
    route,    \* convoi_t::route
    tile,     \* get_pos of each vehicle of a convoy, the head first
    index,    \* vehicle_t::route_index of each vehicle
    rail      \* reservations, next_reservation_index, next_stop_index, crossing

vars == <<signal, state, route, tile, index, rail>>

INSTANCE Crossing

Engine(c)   == <<c, 1>>
HeadTile(c) == tile[c][1]
TailTile(c) == tile[c][Wagons[c]]
HeadIndex(c) == index[c][1]
TailIndex(c) == index[c][Wagons[c]]
Own(c)      == {tile[c][i] : i \in DOMAIN tile[c]}
\* a plausible bug: the engine gives back the tiles
IsEngine(c, i) == i = 1
IsLast(c, i) == i = Wagons[c]

Waiting == {"WAITING_FOR_CLEARANCE", "CAN_START"}
States  == Waiting \cup {"ROUTING_1", "NO_ROUTE", "DRIVING", "LOADING"}

-----------------------------------------------------------------------------
(* Tiles: schiene_t.  r is a state of rail.                                *)

\* plausible bugs: a reservation nobody checks, tiles given back that somebody else holds,
\* and an index one less than the last reserved tile
TakesAnyTile(r, c, t) == t \in Tiles

FreesAnyTile(r, c, S) ==
    [r EXCEPT !.reserved = [t \in Tiles |-> IF t \in S THEN NoConvoy ELSE r.reserved[t]]]

CountsFromZero(r, c, n) == [r EXCEPT !.last[c] = n - 1]

CanReserve(r, c, t) == r.reserved[t] \in {NoConvoy, c}

ReserveTiles(r, c, S) ==
    [r EXCEPT !.reserved = [t \in Tiles |-> IF t \in S /\ CanReserve(r, c, t)
                                            THEN c ELSE r.reserved[t]]]

\* unreserve(convoihandle_t): only what c holds
FreeTiles(r, c, S) ==
    [r EXCEPT !.reserved = [t \in Tiles |-> IF t \in S /\ r.reserved[t] = c
                                            THEN NoConvoy ELSE r.reserved[t]]]

\* unreserve(vehicle_t*): whoever holds it
ClearTiles(r, S) ==
    [r EXCEPT !.reserved = [t \in Tiles |-> IF t \in S THEN NoConvoy ELSE r.reserved[t]]]

Release2(r, V) == [r EXCEPT !.crossing = ReleaseCrossing2(r.crossing, V)]

SetLast(r, c, n) == [r EXCEPT !.last[c] = n]
SetStop(r, c, n) == [r EXCEPT !.stop[c] = n]

-----------------------------------------------------------------------------
(* Blocks: rail_vehicle_t::block_reserver.  rt is a route of convoy c and  *)
(* here the tile of its head.  Position 0 is INVALID_INDEX.                *)

FirstOf(S) == IF S = {} THEN 0 ELSE Min(S)

SignalFrom(rt, s) == FirstOf({i \in s..Len(rt) : signal[rt[i]] # "none"})

CrossingIn(rt, s, end) == FirstOf({i \in s..end : rt[i] \in CrossingTiles})

TilesOf(rt, S) == {rt[i] : i \in S}

\* All tiles from s on up to the next signal, which is at sig (0: none), or none of them.
ReserveAll(r, c, rt, s, sig) ==
    LET end     == IF sig = 0 THEN Len(rt) ELSE sig
        blocked == FirstOf({i \in s..end : ~CanReserve(r, c, rt[i])})
    IN  [ok |-> blocked = 0, signal |-> sig, crossing |-> CrossingIn(rt, s, end),
         r  |-> IF blocked = 0 THEN SetLast(ReserveTiles(r, c, TilesOf(rt, s..end)), c, end)
                ELSE SetLast(FreeTiles(r, c, TilesOf(rt, s..blocked)), c, s - 1)]

ReserveFrom(r, c, rt, s) == ReserveAll(r, c, rt, s, SignalFrom(rt, s))

BlockReserve(r, c, rt, here, start) ==
    IF start > Len(rt)
    THEN [ok |-> FALSE, signal |-> 0, crossing |-> 0, r |-> SetLast(r, c, Len(rt) - 1)]
    ELSE ReserveFrom(r, c, rt, IF rt[start] = here THEN start + 1 ELSE start)

\* a plausible bug: the crossing keeps the request
KeepsRequest(r, c, rt, start, all) ==
    LET own   == {i \in start..Len(rt) : r.reserved[rt[i]] = c}
        stops == {i \in start..Len(rt) : i \notin own /\ \E j \in own : j < i}
    IN  IF start > Len(rt) THEN SetLast(r, c, Len(rt) - 1)
        ELSE SetLast(FreeTiles(r, c, TilesOf(rt, start..(IF all \/ stops = {} THEN Len(rt)
                                                         ELSE Min(stops) - 1))), c, start - 1)

\* Frees from start on; unless all is forced, up to the first tile of somebody else behind
\* a tile of its own.  Its head leaves the crossings it comes over.
BlockUnreserve(r, c, rt, start, all) ==
    LET own     == {i \in start..Len(rt) : r.reserved[rt[i]] = c}
        stop    == FirstOf({i \in start..Len(rt) : i \notin own /\ \E j \in own : j < i})
        visited == TilesOf(rt, start..(IF all \/ stop = 0 THEN Len(rt) ELSE stop - 1))
        freed   == SetLast(FreeTiles(r, c, visited), c, start - 1)
    IN  IF start > Len(rt) THEN SetLast(r, c, Len(rt) - 1)
        ELSE IF visited \cap CrossingTiles = {} THEN freed
        ELSE Release2(freed, {Engine(c)})

\* set_next_stop_index of the nearer of a signal and a crossing
NextStop(r, c, rt, sig, cross) ==
    LET there == {sig, cross} \ {0}
    IN  SetStop(r, c, IF there # {} THEN Min(there)
                      ELSE IF rt[Len(rt)] \in Halts THEN Len(rt) - 1
                      ELSE 0)

\* may go on, and if so, up to the next stop: b is what an attempt to reserve led to
GoUpTo(b, c, rt) ==
    [ok |-> b.ok, r |-> IF b.ok THEN NextStop(b.r, c, rt, b.signal, b.crossing) ELSE b.r]

-----------------------------------------------------------------------------
(* Signals: is_signal_clear and is_pre_signal_clear for the signal at      *)
(* position s of the route.  (A presignal that follows a presignal is      *)
(* taken as a normal one: the routes have at most one.)                    *)

NormalSignalClear(r, c, rt, here, s) == GoUpTo(BlockReserve(r, c, rt, here, s + 1), c, rt)

\* b is what the attempt to reserve the first block led to, beyond the one for the second
BothBlocks(b, beyond, c, rt, s) ==
    IF beyond.ok THEN GoUpTo([b EXCEPT !.r = beyond.r], c, rt)
    ELSE [ok |-> FALSE, r |-> BlockUnreserve(beyond.r, c, rt, s + 1, FALSE)]

BeyondPreSignal(b, c, rt, here, s) ==
    IF ~b.ok \/ b.signal = 0 \/ rt[b.signal] = rt[Len(rt)] THEN GoUpTo(b, c, rt)
    ELSE BothBlocks(b, NormalSignalClear(b.r, c, rt, here, b.signal), c, rt, s)

PreSignalClear(r, c, rt, here, s) ==
    BeyondPreSignal(BlockReserve(r, c, rt, here, s + 1), c, rt, here, s)

SignalClear(r, c, rt, here, s) ==
    IF signal[rt[s]] = "pre" THEN PreSignalClear(r, c, rt, here, s)
    ELSE NormalSignalClear(r, c, rt, here, s)

-----------------------------------------------------------------------------
(* rail_vehicle_t::can_enter_tile for the head at position h of route rt.  *)

AskCrossing(r, c) == [r EXCEPT !.crossing = RequestCrossing2(r.crossing, Engine(c))]

\* in front of a signal, one may go on up to it
UpToSignal(cleared, c, h) ==
    [ok |-> cleared.ok \/ cleared.r.stop[c] > h, r |-> cleared.r]

\* The stop s is at most four tiles ahead: a crossing, a signal, both, or neither.
AtStop(r, c, rt, h, s) ==
    LET asked == AskCrossing(r, c)
    IN  IF rt[s] \in CrossingTiles /\ ~MayCross2(r.crossing)
        THEN [ok |-> s > h + 1, r |-> asked]
        ELSE IF signal[rt[s]] # "none"
        THEN UpToSignal(SignalClear(IF rt[s] \in CrossingTiles THEN asked ELSE r,
                                    c, rt, rt[h], s), c, h)
        ELSE IF rt[s] \notin CrossingTiles THEN [ok |-> TRUE, r |-> r]
        ELSE IF s = Len(rt) THEN [ok |-> TRUE, r |-> NextStop(asked, c, rt, 0, 0)]
        ELSE GoUpTo(BlockReserve(asked, c, rt, rt[h], s + 1), c, rt)

\* the tile in front of the head
Advance(r, c, rt, h) ==
    LET s == r.stop[c]
    IN  IF ~CanReserve(r, c, rt[h + 1]) THEN [ok |-> FALSE, r |-> r]
        ELSE IF s \notin 1..Len(rt) \/ s > h + 4 THEN [ok |-> TRUE, r |-> r]
        ELSE IF s < h   \* the signal disappeared
        THEN GoUpTo(BlockReserve(r, c, rt, rt[h], h + 1), c, rt)
        ELSE AtStop(r, c, rt, h, s)

\* A convoy that CAN_START reserves from where it is, unless it stands on a signal or a
\* crossing; then it drives to the border of that tile first.
CanEnter(r, c, st, rt, h, atBorder) ==
    LET onFree == signal[rt[h]] = "none" /\ rt[h] \notin CrossingTiles
        there  == IF st = "CAN_START" THEN SetStop(r, c, h) ELSE r
    IN  IF st = "CAN_START" /\ onFree
        THEN GoUpTo(BlockReserve(r, c, rt, rt[h], h), c, rt)
        ELSE IF st = "CAN_START" /\ ~atBorder THEN [ok |-> TRUE, r |-> there]
        ELSE Advance(there, c, rt, h)

-----------------------------------------------------------------------------
(* Driving: convoi_t::step, convoi_t::sync_step, vehicle_t::hop.           *)

\* step: CAN_START and WAITING_FOR_CLEARANCE
Proceed(c) ==
    /\ state[c] \in Waiting
    /\ \E atBorder \in BOOLEAN :
       \E e \in {CanEnter(rail, c, state[c], route[c], HeadIndex(c), atBorder)} :
          /\ rail' = e.r
          /\ state' = IF e.ok THEN [state EXCEPT ![c] = "DRIVING"] ELSE state
    /\ UNCHANGED <<signal, route, tile, index>>

\* leave_tile, and what hop and enter_tile do: vehicle i of c goes from tile t to tile u
Hopped(r, c, i, t, u) ==
    LET left    == IF t \in CrossingTiles /\ u \notin CrossingTiles
                   THEN Release2(r, {<<c, i>>}) ELSE r
        freed   == IF IsLast(c, i) THEN ClearTiles(left, {t}) ELSE left
        entered == IF i = 1 THEN ReserveTiles(freed, c, {u}) ELSE freed
    IN  IF u \in CrossingTiles
        THEN [entered EXCEPT !.crossing = AddToCrossing2(entered.crossing, <<c, i>>)]
        ELSE entered

Hop(r, c, i) ==
    LET u == route[c][index[c][i] + 1]
    IN  /\ rail'  = Hopped(r, c, i, tile[c][i], u)
        /\ tile'  = [tile EXCEPT ![c][i] = u]
        /\ index' = [index EXCEPT ![c][i] = @ + 1]

HeadHops(c) ==
    /\ state[c] = "DRIVING" /\ HeadIndex(c) < Len(route[c])
    /\ HeadIndex(c) = TailIndex(c)   \* the train fits on a tile
    /\ \E e \in {CanEnter(rail, c, state[c], route[c], HeadIndex(c), TRUE)} :
          \/ e.ok /\ Hop(e.r, c, 1) /\ UNCHANGED <<signal, state, route>>
          \/ /\ ~e.ok
             /\ state' = [state EXCEPT ![c] = "WAITING_FOR_CLEARANCE"]
             /\ rail' = e.r
             /\ UNCHANGED <<signal, route, tile, index>>

FollowerHops(c) ==
    /\ state[c] = "DRIVING"
    /\ \E i \in 2..Wagons[c] : index[c][i] < index[c][i - 1] /\ Hop(rail, c, i)
    /\ UNCHANGED <<signal, state, route>>

\* ziel_erreicht
Arrives(c) ==
    /\ state[c] = "DRIVING" /\ HeadIndex(c) = Len(route[c])
    /\ state' = [state EXCEPT ![c] = IF HeadTile(c) \in Halts THEN "LOADING" ELSE "ROUTING_1"]
    /\ UNCHANGED <<signal, route, tile, index, rail>>

\* laden, when loading is done
Loaded(c) ==
    /\ state[c] = "LOADING"
    /\ state' = [state EXCEPT ![c] = "ROUTING_1"]
    /\ UNCHANGED <<signal, route, tile, index, rail>>
-----------------------------------------------------------------------------
(* Route search: convoi_t::drive_to, calc_route and vorfahren.             *)

\* set_schedule, and step: EDIT_SCHEDULE, which only waits for the dialog.  A train that is
\* where its new schedule sends it loads again.
NewSchedule(c) ==
    /\ state[c] \in States
    /\ AnyTime \/ Own(c) \cap CrossingTiles = {}
    /\ \/ state' = [state EXCEPT ![c] = "ROUTING_1"]
       \/ /\ HeadTile(c) \in Halts /\ HeadTile(c) = Last(route[c])
          /\ state' = [state EXCEPT ![c] = "LOADING"]
    /\ UNCHANGED <<signal, route, tile, index, rail>>

\* calc_route gives back what is reserved in front of the last wagon.
RouteFreed(c) ==
    SetLast(IF HeadIndex(c) < Len(route[c])
            THEN BlockUnreserve(rail, c, route[c], TailIndex(c) + 1, TRUE)
            ELSE rail, c, 0)

RoutesTo(c, goal) == {rt \in Routes : rt[1] = HeadTile(c) /\ Last(rt) = goal}

NoRoute(c, goal) ==
    /\ RoutesTo(c, goal) = {}
    /\ state' = [state EXCEPT ![c] = "NO_ROUTE"]
    /\ route' = [route EXCEPT ![c] = <<goal>>]
    /\ rail' = RouteFreed(c)
    /\ UNCHANGED <<signal, tile, index>>

\* vorfahren, the end: set off if possible, then reserve the tiles of the vehicles
SetOff(c, r, rt, at, tiles) ==
    \E atBorder \in BOOLEAN :
    \E e \in {CanEnter(r, c, "CAN_START", rt, at[1], atBorder)} :
        /\ state' = [state EXCEPT ![c] = IF e.ok THEN "DRIVING" ELSE "CAN_START"]
        /\ rail'  = ReserveTiles(e.r, c, ToSet(tiles))
        /\ route' = [route EXCEPT ![c] = rt]
        /\ tile'  = [tile EXCEPT ![c] = tiles]
        /\ index' = [index EXCEPT ![c] = at]
        /\ UNCHANGED signal

\* can_go_alte_richtung looks for vehicles of the convoy on the first tiles of the new route,
TurnsBack(c, rt) == \E i \in 2..Min({5, Len(rt)}) : rt[i] \in Own(c)

\* and puts the tile of the vehicles behind in front of it.
Lengthened(c, rt) == IF TailTile(c) = HeadTile(c) THEN rt ELSE <<TailTile(c)>> \o rt

GoesOn(c, rt) ==
    /\ ~TurnsBack(c, rt)
    /\ SetOff(c, RouteFreed(c), Lengthened(c, rt),
              [i \in 1..Wagons[c] |-> IF tile[c][i] = TailTile(c) THEN 1 ELSE 2], tile[c])

\* move_to: all vehicles are taken off the map and put on the first tile of the route.
TakenOff(c, r) ==
    Release2(ClearTiles(r, Own(c)),
             {<<c, i>> : i \in {j \in DOMAIN tile[c] : tile[c][j] \in CrossingTiles}})

\* Directions, lengths and gaps, which can also be a reason for this, are left open; when the
\* direction of a vehicle is the reason, the route has been lengthened already.
StartsAfresh(c, rt) ==
    \E start \in {rt} \cup (IF TurnsBack(c, rt) THEN {} ELSE {Lengthened(c, rt)}) :
        SetOff(c, TakenOff(c, RouteFreed(c)), start,
               [i \in 1..Wagons[c] |-> 1], [i \in 1..Wagons[c] |-> start[1]])

Reroute(c) ==
    /\ state[c] \in {"ROUTING_1", "NO_ROUTE"}
    /\ \E goal \in Goals[c] \ {HeadTile(c)} :
          \/ NoRoute(c, goal)
          \/ \E rt \in RoutesTo(c, goal) : GoesOn(c, rt) \/ StartsAfresh(c, rt)

-----------------------------------------------------------------------------
(* Convoys that are sold, and games that are loaded.                       *)

\* destroy and set_convoi(NULL); what it still holds is held by nobody, and the indices of a
\* convoy that is no more are 0 here.
Destroyed(c) ==
    LET freed == IF HeadIndex(c) + 1 < Len(route[c]) - 1
                 THEN BlockUnreserve(rail, c, route[c], TailIndex(c) + 1, FALSE)
                 ELSE rail
    IN  SetStop(SetLast(FreeTiles(TakenOff(c, freed), c, Tiles), c, 0), c, 0)

Destroy(c) ==
    /\ state[c] \in States
    /\ rail'  = Destroyed(c)
    /\ state' = [state EXCEPT ![c] = "SELF_DESTRUCT"]
    /\ route' = [route EXCEPT ![c] = <<>>]
    /\ tile'  = [tile EXCEPT ![c] = <<>>]
    /\ index' = [index EXCEPT ![c] = <<>>]
    /\ UNCHANGED signal

\* what rdwr reserves again: the tiles of the vehicles, and reserve_route
Moving(c) == state[c] \in Waiting \cup {"DRIVING"}

Claimed(c) ==
    Own(c) \cup (IF Moving(c)
                 THEN TilesOf(route[c], (TailIndex(c) + 1)..rail.last[c])
                 ELSE {})

\* rail_vehicle_t::set_convoi for a convoy that had nothing reserved ahead
Renewed(r, c) ==
    LET there == SetStop(r, c, HeadIndex(c))
    IN  IF state[c] = "SELF_DESTRUCT" \/ r.last[c] # 0 THEN r
        ELSE IF state[c] # "DRIVING" THEN there
        ELSE GoUpTo(BlockReserve(there, c, route[c], HeadTile(c), HeadIndex(c)), c, route[c]).r

\* finish_rd of one convoy after the other
Finished(loaded) ==
    LET finished[S \in SUBSET Convoys] ==
            IF S = {} THEN loaded
            ELSE LET last == CHOOSE c \in S : TRUE IN Renewed(finished[S \ {last}], last)
    IN  finished[Convoys]

Load ==
    LET claims(t) == {c \in Convoys : t \in Claimed(c)}
        onCrossing == {v \in Convoys \X UNION {DOMAIN tile[c] : c \in Convoys} :
                          v[2] \in DOMAIN tile[v[1]] /\ tile[v[1]][v[2]] \in CrossingTiles}
        loaded == [rail EXCEPT
                      !.reserved = [t \in Tiles |-> IF claims(t) = {} THEN NoConvoy
                                                    ELSE CHOOSE c \in claims(t) : TRUE],
                      !.crossing = RecalcState(rail.crossing, onCrossing)]
    IN  /\ AnyTime \/ rail.crossing.request = NoVehicle
        /\ rail' = Finished(loaded)
        /\ UNCHANGED <<signal, state, route, tile, index>>

-----------------------------------------------------------------------------
(* The rest of the world.                                                  *)

\* a road vehicle: private_car_t::ist_weg_frei and hop, leave_tile
CarEnters(v) ==
    /\ v \notin rail.crossing.way1 /\ MayCross1(rail.crossing, v)
    /\ rail' = [rail EXCEPT !.crossing = AddToCrossing1(rail.crossing, v)]
    /\ UNCHANGED <<signal, state, route, tile, index>>

CarLeaves(v) ==
    /\ v \in rail.crossing.way1
    /\ rail' = [rail EXCEPT !.crossing = ReleaseCrossing1(rail.crossing, v)]
    /\ UNCHANGED <<signal, state, route, tile, index>>

\* a signal is removed: ~roadsign_t
SignalRemoved(t) ==
    /\ t \in Removable /\ signal[t] # "none"
    /\ AnyTime \/ \A c \in Convoys : \A i \in DOMAIN route[c] : route[c][i] = t => rail.stop[c] # i
    /\ signal' = [signal EXCEPT ![t] = "none"]
    /\ UNCHANGED <<state, route, tile, index, rail>>

\* Every convoy is loading at the end of the route that brought it home.
Init ==
    /\ signal = Signals
    /\ state = [c \in Convoys |-> "LOADING"]
    /\ route = Home
    /\ tile  = [c \in Convoys |-> [i \in 1..Wagons[c] |-> Last(Home[c])]]
    /\ index = [c \in Convoys |-> [i \in 1..Wagons[c] |-> Len(Home[c])]]
    /\ rail  = [reserved |-> [t \in Tiles |-> IF \E c \in Convoys : Last(Home[c]) = t
                                              THEN CHOOSE c \in Convoys : Last(Home[c]) = t
                                              ELSE NoConvoy],
                last     |-> [c \in Convoys |-> Len(Home[c])],
                stop     |-> [c \in Convoys |-> Len(Home[c]) - 1],
                crossing |-> NewCrossing]

TrainStep(c) ==
    \/ Proceed(c)
    \/ HeadHops(c)
    \/ FollowerHops(c)
    \/ Arrives(c)
    \/ Loaded(c)
    \/ Reroute(c)

Next ==
    \/ \E c \in Convoys : TrainStep(c) \/ NewSchedule(c) \/ Destroy(c)
    \/ Load
    \/ \E v \in Cars : CarEnters(v) \/ CarLeaves(v)
    \/ \E t \in Tiles : SignalRemoved(t)

Fairness == \A v \in Cars : WF_vars(CarLeaves(v))

Spec == Init /\ [][Next]_vars /\ Fairness

-----------------------------------------------------------------------------
(* What the layouts of the instances have.  Where a train of several       *)
(* vehicles can come, every search of it succeeds: a search that fails     *)
(* gives back the tiles under the first vehicles.                          *)
SearchesSucceed ==
    \A c \in Convoys : Wagons[c] > 1 =>
        \A rt \in Routes : Last(rt) \in Goals[c] =>
            \A i \in 2..Len(rt), goal \in Goals[c] : goal # rt[i] =>
                \E found \in Routes : found[1] = rt[i] /\ Last(found) = goal

(* No route ends, outside of a station, on a crossing with a signal.       *)
EndsAreClear ==
    \A rt \in Routes : Last(rt) \in CrossingTiles \ Halts => Signals[Last(rt)] = "none"

(* The crossing is one of a single track.  No signal stands on it or on a  *)
(* tile from which trains come onto it: a train that is let past such a    *)
(* signal goes on to the crossing without asking it.  No route ends on the *)
(* crossing or right behind it.                                            *)
CrossingStandsAlone ==
    /\ \A t, u \in CrossingTiles : t = u
    /\ \A t \in CrossingTiles : Signals[t] = "none"
    /\ \A c \in Convoys : Last(Home[c]) \notin CrossingTiles
    /\ \A rt \in Routes : \A i \in 2..Len(rt) : rt[i] \in CrossingTiles =>
          i < Len(rt) - 1 /\ Signals[rt[i - 1]] = "none"

Vehicles == (Convoys \X Nat) \cup Cars

RailType ==
    [reserved : [Tiles -> Convoys \cup {NoConvoy}], last : [Convoys -> Nat],
     stop : [Convoys -> Nat], crossing : CrossingLogic(Vehicles)]

(* Every variable has its type. *)
TypeOK ==
    /\ signal \in [Tiles -> {"none", "normal", "pre"}]
    /\ state \in [Convoys -> States \cup {"SELF_DESTRUCT"}]
    /\ route \in [Convoys -> Seq(Tiles)]
    /\ tile \in [Convoys -> Seq(Tiles)]
    /\ index \in [Convoys -> Seq(Nat)]
    /\ rail \in RailType

(* The interlocking: a train that drives holds every tile from its last    *)
(* wagon up to where it stops next, whatever other trains, players and a   *)
(* loaded game do to the reservations.  The tiles are reserved block by    *)
(* block (block_reserver), given back by several parties, and counted in   *)
(* three indices that nothing keeps together.                              *)
WayIsReserved ==
    \A c \in Convoys : state[c] = "DRIVING" =>
        \A i \in TailIndex(c)..Len(route[c]) :
            rail.stop[c] = 0 \/ i < rail.stop[c] => rail.reserved[route[c][i]] = c

(* No tile is given back while a wagon is on it.  The last wagon clears a  *)
(* tile without looking who holds it (schiene_t::unreserve of a vehicle),  *)
(* and so do reroutings, sales and the failing half of a reservation.      *)
StandsOnItsTiles ==
    \A c \in Convoys : \A t \in Own(c) : rail.reserved[t] = c

(* No two trains are on one tile: nothing looks at the trains themselves   *)
(* (rail_vehicle_t::can_enter_tile asks for reservations only).            *)
NoTwoTrains ==
    \A c, d \in Convoys : c # d => Own(c) \cap Own(d) = {}

(* There is no car on a crossing that a train is on: a train waits for the *)
(* crossing to be empty and it stays closed until its last wagon left      *)
(* (crossing_logic_t::request_crossing, release_crossing).                 *)
TrainsMeetNoCars ==
    rail.crossing.way1 # {} => \A c \in Convoys : Own(c) \cap CrossingTiles = {}

(* A crossing that was promised to a train (request_close) waits for a     *)
(* train that still comes: a train that is sold, rerouted, gives up its    *)
(* blocks or got over it does not leave its request behind, which would    *)
(* keep the road closed and point to a vehicle that is no more.            *)
RequestIsForSomebody ==
    rail.crossing.request # NoVehicle =>
        LET c == rail.crossing.request[1]
        IN  \E i \in DOMAIN route[c] : i > HeadIndex(c) /\ route[c][i] \in CrossingTiles

(* A train that was refused because of cars does not wait for ever: no car *)
(* enters any more, and the last one closes the crossing behind it         *)
(* (crossing_logic_t::release_crossing).                                   *)
RoadGivesWay == rail.crossing.state = "request_close" ~> rail.crossing.state # "request_close"
=============================================================================
