---------------------------- MODULE MCRailTraffic ----------------------------
(* The instances of RailTraffic for TLC.  One is a single track            *)
(* a - m - x - n - e with the crossing at x, which ends in the two         *)
(* platforms b and d.  The other has two tracks, a - m - x - n - p and     *)
(* b - e - y - q - d, and a road that crosses them at x and y.             *)
EXTENDS RailTraffic, TLC

CONSTANTS long, short,                   \* a train of two vehicles, a train of one
          a, m, x, n, e, b, d, y, p, q   \* tiles

MCWagons == long :> 2 @@ short :> 1

\* Trains do not turn on the way: there is no route from one platform to the other.
Lines  == {<<a, m, x, n, e, b>>, <<a, m, x, n, e, d>>}
MCTiles == {a, m, x, n, e, b, d}
MCRoutes ==
    {SubSeq(line, i, 6) : i \in 1..5, line \in Lines \cup {Reverse(line) : line \in Lines}}
MCSignals == [t \in MCTiles |-> CASE t = a -> "pre" [] t = e -> "normal" [] OTHER -> "none"]
MCGoals == long :> {a, b} @@ short :> {a, b, d}
MCHome == long :> <<e, n, x, m, a>> @@ short :> <<m, x, n, e, b>>

Tracks == {<<a, m, x, n, p>>, <<b, e, y, q, d>>}
TwoTracksTiles == {a, m, x, n, p, b, e, y, q, d}
TwoTracksRoutes == {SubSeq(track, i, 5) : i \in 1..4, track \in Tracks}
NoSignals == [t \in TwoTracksTiles |-> "none"]
TwoTracksGoals == long :> {p} @@ short :> {d}
TwoTracksHome == long :> <<m, a>> @@ short :> <<e, b>>

ASSUME InstanceAssumption ==
    /\ SearchesSucceed
    /\ EndsAreClear
    /\ Cardinality(CrossingTiles) = 1 => CrossingStandsAlone
==============================================================================
