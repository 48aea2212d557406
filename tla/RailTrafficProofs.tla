-------------------------- MODULE RailTrafficProofs --------------------------
(***************************************************************************)
(* Proofs about RailTraffic for any layout, any schedules and any number   *)
(* of trains, which fit on a tile each as RailTraffic has it.              *)
(***************************************************************************)
EXTENDS RailTraffic, TLAPS, FiniteSetTheorems

-----------------------------------------------------------------------------
(* Numbers, and the vehicles of a train.                                   *)

LEMMA LeastNumber ==
    ASSUME NEW T \in SUBSET Nat, T # {}
    PROVE  \E i \in T : \A j \in T : i <= j
<1> DEFINE R == OpToRel(<, Nat)
<1>1. IsWellFoundedOn(R, Nat)
  BY NatLessThanWellFounded
<1>2. \A x, y \in Nat : x < y => <<x, y>> \in R
  BY DEF OpToRel
<1> HIDE DEF R
<1>3. \E i \in T : \A j \in T : ~(<<j, i>> \in R)
  BY <1>1, WFMin
<1>4. SUFFICES ASSUME NEW i \in T, \A j \in T : ~(<<j, i>> \in R), NEW j \in T
               PROVE  i <= j
  BY <1>3
<1>5. ~(j < i)
  BY <1>2, <1>4
<1> QED
  BY <1>5

LEMMA FirstIsLeast ==
    ASSUME NEW S \in SUBSET Nat
    PROVE  /\ S = {} => FirstOf(S) = 0
           /\ S # {} => FirstOf(S) \in S /\ \A x \in S : FirstOf(S) <= x
<1>1. S = {} => FirstOf(S) = 0
  BY DEF FirstOf
<1>2. ASSUME S # {} PROVE FirstOf(S) \in S /\ \A x \in S : FirstOf(S) <= x
  <2>1. \E i \in S : \A j \in S : i <= j
    BY <1>2, LeastNumber
  <2> DEFINE least == CHOOSE i \in S : \A j \in S : i <= j
  <2>2. least \in S /\ \A j \in S : least <= j
    BY <2>1, Zenon
  <2> HIDE DEF least
  <2>3. FirstOf(S) = least
    BY <1>2 DEF FirstOf, Min, least
  <2> QED
    BY <2>2, <2>3
<1> QED
  BY <1>1, <1>2

\* the places of n vehicles on their route, the head first: each is where the one in front of it
\* is, or one behind
Coupled(n, at) ==
    /\ at \in [1 .. n -> Nat \ {0}]
    /\ \A i \in 2 .. n : at[i] = at[i - 1] \/ at[i] = at[i - 1] - 1

LEMMA CoupledInOrder ==
    ASSUME NEW n \in Nat, NEW at, Coupled(n, at), NEW i \in 1 .. n, NEW j \in i .. n
    PROVE  at[j] <= at[i]
<1> DEFINE Bad == {k \in i .. n : ~(at[k] <= at[i])}
<1>1. \A k \in 1 .. n : at[k] \in Nat
  BY DEF Coupled
<1>2. ASSUME Bad # {} PROVE FALSE
  <2> HIDE DEF Bad
  <2>0. Bad \in SUBSET Nat
    BY DEF Bad
  <2>1. PICK k \in Bad : \A m \in Bad : k <= m
    BY <1>2, <2>0, LeastNumber
  <2> USE DEF Bad
  <2>2. k \in i .. n /\ ~(at[k] <= at[i]) /\ k # i
    BY <2>1, <1>1
  <2>3. k - 1 \in i .. n /\ k - 1 \notin Bad
    BY <2>1, <2>2
  <2>4. at[k - 1] <= at[i]
    BY <2>3
  <2>5. at[k] = at[k - 1] \/ at[k] = at[k - 1] - 1
    <3>1. k \in 2 .. n
      BY <2>2
    <3> QED
      BY <3>1 DEF Coupled
  <2>6. at[k] \in Nat /\ at[k - 1] \in Nat /\ at[i] \in Nat
    BY <2>2, <2>3, <1>1
  <2> QED
    BY <2>2, <2>4, <2>5, <2>6
<1> QED
  BY <1>2

\* A vehicle stands on every tile between the last and the first.
LEMMA CoupledCover ==
    ASSUME NEW n \in Nat \ {0}, NEW at, Coupled(n, at), NEW p \in at[n] .. at[1]
    PROVE  \E i \in 1 .. n : at[i] = p
<1> DEFINE S == {k \in 1 .. n : at[k] <= p}
<1>1. \A k \in 1 .. n : at[k] \in Nat
  BY DEF Coupled
<1>2. n \in S /\ p \in Nat
  BY <1>1
<1>3. PICK k \in S : \A m \in S : k <= m
  <2>1. S \in SUBSET Nat /\ S # {}
    BY <1>2
  <2> HIDE DEF S
  <2> QED
    BY <2>1, LeastNumber
<1>4. k \in 1 .. n /\ at[k] <= p
  BY <1>3
<1>5. CASE k = 1
  BY <1>1, <1>2, <1>4, <1>5
<1>6. CASE k # 1
  <2>1. k - 1 \in 1 .. n /\ k \in 2 .. n /\ k - 1 \notin S
    BY <1>3, <1>4, <1>6
  <2>2. ~(at[k - 1] <= p)
    BY <2>1
  <2>3. at[k] = at[k - 1] \/ at[k] = at[k - 1] - 1
    BY <2>1 DEF Coupled
  <2>4. at[k] \in Nat /\ at[k - 1] \in Nat
    BY <1>1, <1>4, <2>1
  <2> QED
    BY <2>2, <2>3, <2>4, <1>2, <1>4
<1> QED
  BY <1>5, <1>6

-----------------------------------------------------------------------------
(* What the operators on rail do, for a convoy c whose head is at position *)
(* h of the route rt.                                                      *)

Way(rt, h) == rt \in Seq(Tiles) /\ IsInjective(rt) /\ h \in 1 .. Len(rt)

\* c takes free tiles and gives back its own
Takes(r, q, c) ==
    \A t \in Tiles : \/ q.reserved[t] = r.reserved[t]
                     \/ {q.reserved[t], r.reserved[t]} \subseteq {NoConvoy, c}

\* of its own only those in front of its head
FreesAhead(r, q, c, rt, h) ==
    \A t \in Tiles : r.reserved[t] = c /\ (\A i \in h + 1 .. Len(rt) : rt[i] # t) =>
        q.reserved[t] = c

SameIndices(r, q, c) ==
    \A d \in Convoys : d # c => q.last[d] = r.last[d] /\ q.stop[d] = r.stop[d]

Does(r, q, c, rt, h) ==
    q \in RailType /\ Takes(r, q, c) /\ FreesAhead(r, q, c, rt, h) /\ SameIndices(r, q, c)

\* c holds the way in front of it up to n
HeldTo(r, c, rt, h, n) == \A i \in h + 1 .. n : r.reserved[rt[i]] = c

LEMMA DoesTwice ==
    ASSUME NEW c, NEW rt, NEW h, NEW r, NEW p, NEW q, Does(r, p, c, rt, h), Does(p, q, c, rt, h)
    PROVE  Does(r, q, c, rt, h)
<1>1. Takes(r, q, c)
  BY DEF Does, Takes
<1>2. FreesAhead(r, q, c, rt, h)
  BY DEF Does, FreesAhead
<1>3. SameIndices(r, q, c)
  BY DEF Does, SameIndices
<1> QED
  BY <1>1, <1>2, <1>3 DEF Does

LEMMA DoesNothing ==
    ASSUME NEW c, NEW rt, NEW h, NEW r \in RailType PROVE Does(r, r, c, rt, h)
  BY DEF Does, Takes, FreesAhead, SameIndices

\* Who may reserve a tile may still do so after the convoy took or gave back others.
LEMMA StillReservable ==
    ASSUME NEW c, NEW r, NEW q, NEW t \in Tiles, Takes(r, q, c)
    PROVE  CanReserve(r, c, t) <=> CanReserve(q, c, t)
  BY DEF Takes, CanReserve

LEMMA WayTiles ==
    ASSUME NEW rt, NEW h, Way(rt, h)
    PROVE  /\ Len(rt) \in Nat /\ h \in Nat \ {0} /\ h <= Len(rt)
           /\ \A i \in 1 .. Len(rt) : rt[i] \in Tiles
           /\ \A i, j \in 1 .. Len(rt) : rt[i] = rt[j] => i = j
<1>1. Len(rt) \in Nat /\ DOMAIN rt = 1 .. Len(rt) /\ rt \in Seq(Tiles) /\ h \in 1 .. Len(rt)
  BY DEF Way
<1> QED
  BY <1>1 DEF Way, IsInjective

LEMMA SetLastDoes ==
    ASSUME NEW c \in Convoys, NEW rt, NEW h, NEW r \in RailType, NEW n \in Nat
    PROVE  /\ Does(r, SetLast(r, c, n), c, rt, h)
           /\ SetLast(r, c, n).last[c] = n /\ SetLast(r, c, n).stop = r.stop
           /\ SetLast(r, c, n).reserved = r.reserved /\ SetLast(r, c, n).crossing = r.crossing
<1>1. SetLast(r, c, n) \in RailType
  BY DEF RailType, SetLast
<1>2. /\ SetLast(r, c, n).last[c] = n /\ SetLast(r, c, n).stop = r.stop
      /\ SetLast(r, c, n).reserved = r.reserved /\ SetLast(r, c, n).crossing = r.crossing
      /\ \A d \in Convoys : d # c => SetLast(r, c, n).last[d] = r.last[d]
  BY DEF RailType, SetLast
<1> QED
  BY <1>1, <1>2 DEF Does, Takes, FreesAhead, SameIndices

LEMMA SetStopDoes ==
    ASSUME NEW c \in Convoys, NEW rt, NEW h, NEW r \in RailType, NEW n \in Nat
    PROVE  /\ Does(r, SetStop(r, c, n), c, rt, h)
           /\ SetStop(r, c, n).stop[c] = n /\ SetStop(r, c, n).last = r.last
           /\ SetStop(r, c, n).reserved = r.reserved /\ SetStop(r, c, n).crossing = r.crossing
<1>1. SetStop(r, c, n) \in RailType
  BY DEF RailType, SetStop
<1>2. /\ SetStop(r, c, n).stop[c] = n /\ SetStop(r, c, n).last = r.last
      /\ SetStop(r, c, n).reserved = r.reserved /\ SetStop(r, c, n).crossing = r.crossing
      /\ \A d \in Convoys : d # c => SetStop(r, c, n).stop[d] = r.stop[d]
  BY DEF RailType, SetStop
<1> QED
  BY <1>1, <1>2 DEF Does, Takes, FreesAhead, SameIndices

\* what reserves, frees and clears tiles leaves the rest alone
OnlyTiles(r, q) ==
    q \in RailType /\ q.last = r.last /\ q.stop = r.stop /\ q.crossing = r.crossing

LEMMA ReserveTilesDoes ==
    ASSUME NEW c \in Convoys, NEW r \in RailType, NEW S
    PROVE  /\ OnlyTiles(r, ReserveTiles(r, c, S))
           /\ \A t \in Tiles : ReserveTiles(r, c, S).reserved[t] =
                 IF t \in S /\ CanReserve(r, c, t) THEN c ELSE r.reserved[t]
<1> DEFINE f == [t \in Tiles |-> IF t \in S /\ CanReserve(r, c, t) THEN c ELSE r.reserved[t]]
<1>1. f \in [Tiles -> Convoys \cup {NoConvoy}]
  BY DEF RailType
<1>2. \A t \in Tiles : f[t] = IF t \in S /\ CanReserve(r, c, t) THEN c ELSE r.reserved[t]
  OBVIOUS
<1>3. ReserveTiles(r, c, S) = [r EXCEPT !.reserved = f]
  BY DEF ReserveTiles
<1> HIDE DEF f
<1>4. OnlyTiles(r, ReserveTiles(r, c, S)) /\ ReserveTiles(r, c, S).reserved = f
  BY <1>1, <1>3 DEF RailType, OnlyTiles
<1> QED
  BY <1>2, <1>4

LEMMA FreeTilesDoes ==
    ASSUME NEW c \in Convoys, NEW r \in RailType, NEW S
    PROVE  /\ OnlyTiles(r, FreeTiles(r, c, S))
           /\ \A t \in Tiles : FreeTiles(r, c, S).reserved[t] =
                 IF t \in S /\ r.reserved[t] = c THEN NoConvoy ELSE r.reserved[t]
<1> DEFINE f == [t \in Tiles |-> IF t \in S /\ r.reserved[t] = c THEN NoConvoy ELSE r.reserved[t]]
<1>1. f \in [Tiles -> Convoys \cup {NoConvoy}]
  BY DEF RailType
<1>2. \A t \in Tiles : f[t] = IF t \in S /\ r.reserved[t] = c THEN NoConvoy ELSE r.reserved[t]
  OBVIOUS
<1>3. FreeTiles(r, c, S) = [r EXCEPT !.reserved = f]
  BY DEF FreeTiles
<1> HIDE DEF f
<1>4. OnlyTiles(r, FreeTiles(r, c, S)) /\ FreeTiles(r, c, S).reserved = f
  BY <1>1, <1>3 DEF RailType, OnlyTiles
<1> QED
  BY <1>2, <1>4

LEMMA ClearTilesDoes ==
    ASSUME NEW r \in RailType, NEW S
    PROVE  /\ OnlyTiles(r, ClearTiles(r, S))
           /\ \A t \in Tiles : ClearTiles(r, S).reserved[t] =
                 IF t \in S THEN NoConvoy ELSE r.reserved[t]
<1> DEFINE f == [t \in Tiles |-> IF t \in S THEN NoConvoy ELSE r.reserved[t]]
<1>1. f \in [Tiles -> Convoys \cup {NoConvoy}]
  BY DEF RailType
<1>2. \A t \in Tiles : f[t] = IF t \in S THEN NoConvoy ELSE r.reserved[t]
  OBVIOUS
<1>3. ClearTiles(r, S) = [r EXCEPT !.reserved = f]
  BY DEF ClearTiles
<1> HIDE DEF f
<1>4. OnlyTiles(r, ClearTiles(r, S)) /\ ClearTiles(r, S).reserved = f
  BY <1>1, <1>3 DEF RailType, OnlyTiles
<1> QED
  BY <1>2, <1>4

\* what asks, enters and leaves a crossing leaves the rest alone
OnlyCrossing(r, q) ==
    q \in RailType /\ q.last = r.last /\ q.stop = r.stop /\ q.reserved = r.reserved

LEMMA CrossingTypes ==
    ASSUME NEW cr \in CrossingLogic(Vehicles)
    PROVE  /\ \A v \in Vehicles :
                 /\ RequestCrossing2(cr, v) \in CrossingLogic(Vehicles)
                 /\ AddToCrossing1(cr, v) \in CrossingLogic(Vehicles)
                 /\ AddToCrossing2(cr, v) \in CrossingLogic(Vehicles)
                 /\ ReleaseCrossing1(cr, v) \in CrossingLogic(Vehicles)
           /\ \A V \in SUBSET Vehicles :
                 /\ ReleaseCrossing2(cr, V) \in CrossingLogic(Vehicles)
                 /\ RecalcState(cr, V) \in CrossingLogic(Vehicles)
  BY DEF CrossingLogic, CrossingState, RequestCrossing2, AddToCrossing1, AddToCrossing2,
         ReleaseCrossing1, ReleaseCrossing2, RecalcState

LEMMA CrossingDoes ==
    ASSUME NEW r \in RailType, NEW cr \in CrossingLogic(Vehicles)
    PROVE  OnlyCrossing(r, [r EXCEPT !.crossing = cr])
  BY DEF RailType, OnlyCrossing

LEMMA ReleaseDoes ==
    ASSUME NEW r \in RailType, NEW V \in SUBSET Vehicles PROVE OnlyCrossing(r, Release2(r, V))
<1>1. ReleaseCrossing2(r.crossing, V) \in CrossingLogic(Vehicles)
  <2>1. r.crossing \in CrossingLogic(Vehicles)
    BY DEF RailType
  <2> QED
    BY <2>1, CrossingTypes
<1> QED
  BY <1>1, CrossingDoes DEF Release2

LEMMA AskDoes ==
    ASSUME NEW r \in RailType, NEW c \in Convoys PROVE OnlyCrossing(r, AskCrossing(r, c))
<1>1. Engine(c) \in Vehicles
  BY DEF Engine, Vehicles
<1>2. RequestCrossing2(r.crossing, Engine(c)) \in CrossingLogic(Vehicles)
  <2>1. r.crossing \in CrossingLogic(Vehicles)
    BY DEF RailType
  <2> QED
    BY <1>1, <2>1, CrossingTypes
<1> QED
  BY <1>2, CrossingDoes DEF AskCrossing

LEMMA CrossingIsNothing ==
    ASSUME NEW c, NEW rt, NEW h, NEW r, NEW q, OnlyCrossing(r, q)
    PROVE  Does(r, q, c, rt, h)
  BY DEF OnlyCrossing, Does, Takes, FreesAhead, SameIndices

\* what an attempt to reserve led to: b is the outcome when it reserved from position s on
Reserves(r, b, c, rt, s) ==
    /\ b.r.stop = r.stop
    /\ b.signal \in 0 .. Len(rt) /\ b.crossing \in 0 .. Len(rt) /\ b.ok \in BOOLEAN
    /\ \A i \in 1 .. s - 1 : r.reserved[rt[i]] = c => b.r.reserved[rt[i]] = c
    /\ b.ok => /\ s <= Len(rt) + 1
               /\ b.signal = 0 => b.r.last[c] = Len(rt)
               /\ b.signal # 0 => b.signal >= s /\ b.r.last[c] = b.signal
               /\ b.crossing # 0 => b.crossing >= s /\ b.crossing <= b.r.last[c]
               /\ \A i \in s .. b.r.last[c] : b.r.reserved[rt[i]] = c
    /\ ~b.ok => b.r.last[c] = IF s > Len(rt) THEN Len(rt) - 1 ELSE s - 1

LEMMA ReserveAllDoes ==
    ASSUME NEW c \in Convoys, NEW r \in RailType, NEW rt, NEW h, Way(rt, h),
           NEW s \in h + 1 .. Len(rt) + 1, NEW sig \in Nat, sig = 0 \/ sig \in s .. Len(rt),
           NEW b, b = ReserveAll(r, c, rt, s, sig)
    PROVE  Does(r, b.r, c, rt, h) /\ Reserves(r, b, c, rt, s)
<1>1. /\ Len(rt) \in Nat /\ h \in Nat \ {0} /\ h <= Len(rt) /\ s \in Nat /\ s > h
      /\ \A i \in 1 .. Len(rt) : rt[i] \in Tiles
      /\ \A i, j \in 1 .. Len(rt) : rt[i] = rt[j] => i = j
  BY WayTiles
<1> DEFINE end == IF sig = 0 THEN Len(rt) ELSE sig
           B == {i \in s .. end : ~CanReserve(r, c, rt[i])}
           X == {i \in s .. end : rt[i] \in CrossingTiles}
<1>2. end \in Nat /\ end <= Len(rt) /\ s <= end + 1 /\ (sig # 0 => s <= end)
  BY <1>1
<1> HIDE DEF end
<1>3. PICK blocked : blocked = FirstOf(B)
  OBVIOUS
<1>4. /\ blocked = 0 => \A i \in s .. end : CanReserve(r, c, rt[i])
      /\ blocked # 0 => blocked \in s .. end
      /\ blocked \in Nat
  <2>1. B \in SUBSET Nat
    BY <1>1, <1>2
  <2>2. B = {} => blocked = 0
    BY <2>1, <1>3, FirstIsLeast
  <2>3. B # {} => blocked \in B
    BY <2>1, <1>3, FirstIsLeast
  <2>4. 0 \notin B
    BY <1>1, <1>2
  <2> QED
    BY <2>2, <2>3, <2>4, <1>1, <1>2
<1>5. PICK x : x = CrossingIn(rt, s, end)
  OBVIOUS
<1>6. x = 0 \/ x \in s .. end
  <2>1. X \in SUBSET Nat
    BY <1>1, <1>2
  <2>2. FirstOf(X) = 0 \/ FirstOf(X) \in X
    BY <2>1, FirstIsLeast
  <2> QED
    BY <2>2, <1>5 DEF CrossingIn
<1>7. /\ b.ok = (blocked = 0) /\ b.signal = sig /\ b.crossing = x
      /\ b.r = IF blocked = 0 THEN SetLast(ReserveTiles(r, c, TilesOf(rt, s .. end)), c, end)
               ELSE SetLast(FreeTiles(r, c, TilesOf(rt, s .. blocked)), c, s - 1)
  BY <1>3, <1>5 DEF ReserveAll, end
<1>8. CASE blocked = 0
  <2>1. PICK p : p = ReserveTiles(r, c, TilesOf(rt, s .. end))
    OBVIOUS
  <2>2. /\ OnlyTiles(r, p)
        /\ \A t \in Tiles : p.reserved[t] =
              IF t \in TilesOf(rt, s .. end) /\ CanReserve(r, c, t) THEN c ELSE r.reserved[t]
    BY <2>1, ReserveTilesDoes
  <2>3. /\ Does(p, b.r, c, rt, h) /\ b.r.last[c] = end /\ b.r.stop = p.stop
        /\ b.r.reserved = p.reserved
    <3>1. p \in RailType /\ b.r = SetLast(p, c, end)
      BY <2>1, <2>2, <1>7, <1>8 DEF OnlyTiles
    <3> QED
      BY <3>1, <1>2, SetLastDoes
  <2>4. \A i \in s .. end : p.reserved[rt[i]] = c
    <3>1. SUFFICES ASSUME NEW i \in s .. end PROVE p.reserved[rt[i]] = c
      OBVIOUS
    <3>2. rt[i] \in Tiles /\ rt[i] \in TilesOf(rt, s .. end) /\ CanReserve(r, c, rt[i])
      BY <1>1, <1>2, <1>4, <1>8 DEF TilesOf
    <3> QED
      BY <3>2, <2>2
  <2>5. \A t \in Tiles : p.reserved[t] = r.reserved[t] \/
                         (p.reserved[t] = c /\ r.reserved[t] \in {NoConvoy, c})
    BY <2>2 DEF CanReserve
  <2>6. Does(r, p, c, rt, h)
    BY <2>2, <2>5 DEF OnlyTiles, Does, Takes, FreesAhead, SameIndices
  <2>7. \A i \in 1 .. s - 1 : r.reserved[rt[i]] = c => p.reserved[rt[i]] = c
    <3>1. \A i \in 1 .. s - 1 : rt[i] \in Tiles
      BY <1>1, <1>2
    <3> QED
      BY <3>1, <2>5
  <2>8. Reserves(r, b, c, rt, s)
    <3>1. b.r.stop = r.stop /\ b.ok /\ b.signal = sig /\ b.crossing = x
      BY <2>2, <2>3, <1>7, <1>8 DEF OnlyTiles
    <3>2. \A i \in s .. end : b.r.reserved[rt[i]] = c
      BY <2>3, <2>4
    <3>3. \A i \in 1 .. s - 1 : r.reserved[rt[i]] = c => b.r.reserved[rt[i]] = c
      BY <2>3, <2>7
    <3>4. sig = 0 => end = Len(rt)
      BY DEF end
    <3>5. sig # 0 => sig >= s /\ end = sig
      BY <1>1 DEF end
    <3>6. x # 0 => x >= s /\ x <= end /\ x <= Len(rt)
      BY <1>1, <1>2, <1>6
    <3>7. sig \in 0 .. Len(rt) /\ x \in 0 .. Len(rt)
      BY <1>1, <1>2, <1>6
    <3> QED
      BY <3>1, <3>2, <3>3, <3>4, <3>5, <3>6, <3>7, <2>3 DEF Reserves
  <2> QED
    BY <2>3, <2>6, <2>8, DoesTwice
<1>9. CASE blocked # 0
  <2>1. PICK p : p = FreeTiles(r, c, TilesOf(rt, s .. blocked))
    OBVIOUS
  <2>2. /\ OnlyTiles(r, p)
        /\ \A t \in Tiles : p.reserved[t] =
              IF t \in TilesOf(rt, s .. blocked) /\ r.reserved[t] = c THEN NoConvoy
              ELSE r.reserved[t]
    BY <2>1, FreeTilesDoes
  <2>3. s - 1 \in Nat /\ blocked \in Nat /\ blocked <= Len(rt) /\ s <= blocked
    BY <1>1, <1>2, <1>4, <1>9
  <2>4. /\ Does(p, b.r, c, rt, h) /\ b.r.last[c] = s - 1 /\ b.r.stop = p.stop
        /\ b.r.reserved = p.reserved
    BY <2>1, <2>2, <2>3, <1>7, <1>9, SetLastDoes DEF OnlyTiles
  <2>5. \A t \in Tiles : t \notin TilesOf(rt, s .. blocked) => p.reserved[t] = r.reserved[t]
    BY <2>2
  <2>6. Does(r, p, c, rt, h)
    <3>1. Takes(r, p, c)
      BY <2>2 DEF Takes
    <3>2. FreesAhead(r, p, c, rt, h)
      <4>1. s .. blocked \subseteq h + 1 .. Len(rt)
        BY <1>1, <2>3
      <4>2. \A t \in TilesOf(rt, s .. blocked) : \E i \in h + 1 .. Len(rt) : rt[i] = t
        BY <4>1 DEF TilesOf
      <4> QED
        BY <4>2, <2>5 DEF FreesAhead
    <3> QED
      BY <3>1, <3>2, <2>2 DEF OnlyTiles, Does, SameIndices
  <2>7. \A i \in 1 .. s - 1 : r.reserved[rt[i]] = c => p.reserved[rt[i]] = c
    <3>1. \A i \in 1 .. s - 1 : rt[i] \in Tiles /\ rt[i] \notin TilesOf(rt, s .. blocked)
      BY <1>1, <2>3 DEF TilesOf
    <3> QED
      BY <3>1, <2>5
  <2>8. Reserves(r, b, c, rt, s)
    <3>1. b.r.stop = r.stop /\ ~b.ok /\ b.ok \in BOOLEAN /\ b.signal = sig /\ b.crossing = x
      BY <2>2, <2>4, <1>7, <1>9 DEF OnlyTiles
    <3>2. \A i \in 1 .. s - 1 : r.reserved[rt[i]] = c => b.r.reserved[rt[i]] = c
      BY <2>4, <2>7
    <3>3. ~(s > Len(rt)) /\ sig \in 0 .. Len(rt) /\ x \in 0 .. Len(rt)
      BY <1>1, <1>2, <1>6, <2>3
    <3> QED
      BY <3>1, <3>2, <3>3, <2>4 DEF Reserves
  <2> QED
    BY <2>4, <2>6, <2>8, DoesTwice
<1> QED
  BY <1>8, <1>9

\* block_reserver, to reserve: behind position s, which may be the last
LEMMA BlockReserveDoes ==
    ASSUME NEW c \in Convoys, NEW r \in RailType, NEW rt, NEW h, Way(rt, h),
           NEW s \in h .. Len(rt), NEW start, start = s + 1 \/ (start = h /\ s = h),
           NEW b, b = BlockReserve(r, c, rt, rt[h], start)
    PROVE  /\ Does(r, b.r, c, rt, h) /\ Reserves(r, b, c, rt, s + 1)
           /\ b.ok /\ start = s + 1 => s < Len(rt)
<1>1. /\ Len(rt) \in Nat /\ h \in Nat \ {0} /\ h <= Len(rt) /\ s \in Nat /\ start \in Nat
      /\ \A i, j \in 1 .. Len(rt) : rt[i] = rt[j] => i = j
  BY WayTiles
<1>2. CASE start > Len(rt)
  <2>1. start = s + 1 /\ s = Len(rt) /\ Len(rt) - 1 \in Nat
    BY <1>1, <1>2
  <2>2. /\ b.ok = FALSE /\ b.signal = 0 /\ b.crossing = 0 /\ b.r = SetLast(r, c, Len(rt) - 1)
    BY <1>2 DEF BlockReserve
  <2>3. /\ Does(r, b.r, c, rt, h) /\ b.r.last[c] = Len(rt) - 1 /\ b.r.stop = r.stop
        /\ b.r.reserved = r.reserved
    <3>1. PICK n : n = Len(rt) - 1
      OBVIOUS
    <3>2. n \in Nat /\ b.r = SetLast(r, c, n)
      BY <2>1, <2>2, <3>1
    <3>3. PICK p : p = SetLast(r, c, n)
      OBVIOUS
    <3>4. Does(r, p, c, rt, h) /\ p.last[c] = n /\ p.stop = r.stop /\ p.reserved = r.reserved
      BY <3>2, <3>3, SetLastDoes
    <3> QED
      BY <3>1, <3>2, <3>3, <3>4
  <2>4. s + 1 > Len(rt) /\ 0 \in 0 .. Len(rt)
    BY <1>1, <2>1
  <2> QED
    BY <2>2, <2>3, <2>4 DEF Reserves
<1>3. CASE ~(start > Len(rt))
  <2>1. start \in 1 .. Len(rt) /\ s + 1 \in h + 1 .. Len(rt) + 1
    BY <1>1, <1>3
  <2>2. (rt[start] = rt[h]) <=> (start = h)
    BY <1>1, <2>1
  <2>3. (IF rt[start] = rt[h] THEN start + 1 ELSE start) = s + 1
    BY <1>1, <2>2
  <2>4. b = ReserveFrom(r, c, rt, s + 1)
    BY <1>3, <2>3 DEF BlockReserve
  <2>5. PICK sig : sig = SignalFrom(rt, s + 1)
    OBVIOUS
  <2>6. sig \in Nat /\ (sig = 0 \/ sig \in s + 1 .. Len(rt))
    <3> DEFINE T == {i \in s + 1 .. Len(rt) : signal[rt[i]] # "none"}
    <3>1. T \in SUBSET Nat
      BY <1>1
    <3>2. FirstOf(T) = 0 \/ FirstOf(T) \in T
      BY <3>1, FirstIsLeast
    <3> QED
      BY <3>2, <2>5, <1>1 DEF SignalFrom
  <2>7. b = ReserveAll(r, c, rt, s + 1, sig)
    BY <2>4, <2>5 DEF ReserveFrom
  <2>8. Does(r, b.r, c, rt, h) /\ Reserves(r, b, c, rt, s + 1)
    <3>1. PICK n : n = s + 1
      OBVIOUS
    <3>2. n \in h + 1 .. Len(rt) + 1 /\ (sig = 0 \/ sig \in n .. Len(rt))
          /\ b = ReserveAll(r, c, rt, n, sig)
      BY <3>1, <2>1, <2>6, <2>7
    <3>3. Does(r, b.r, c, rt, h) /\ Reserves(r, b, c, rt, n)
      BY <3>2, <2>6, ReserveAllDoes
    <3> QED
      BY <3>1, <3>3
  <2> QED
    BY <2>8, <1>1, <1>3
<1> QED
  BY <1>2, <1>3

\* block_reserver, to give back from position start on
Frees(r, q, c, rt, start) ==
    /\ q \in RailType /\ Takes(r, q, c) /\ SameIndices(r, q, c) /\ q.stop = r.stop
    /\ \A t \in Tiles : t \notin TilesOf(rt, start .. Len(rt)) => q.reserved[t] = r.reserved[t]
    /\ q.last[c] = IF start > Len(rt) THEN Len(rt) - 1 ELSE start - 1

LEMMA BlockUnreserveDoes ==
    ASSUME NEW c \in Convoys, NEW r \in RailType, NEW rt \in Seq(Tiles), Len(rt) > 0,
           NEW start \in Nat \ {0}, NEW all \in BOOLEAN,
           NEW q, q = BlockUnreserve(r, c, rt, start, all)
    PROVE  Frees(r, q, c, rt, start)
<1>1. Len(rt) \in Nat
  OBVIOUS
<1>2. CASE start > Len(rt)
  <2>1. q = SetLast(r, c, Len(rt) - 1) /\ Len(rt) - 1 \in Nat
    BY <1>1, <1>2 DEF BlockUnreserve
  <2>2. /\ Does(r, q, c, rt, 1) /\ q.last[c] = Len(rt) - 1 /\ q.stop = r.stop
        /\ q.reserved = r.reserved
    <3>1. PICK n : n = Len(rt) - 1
      OBVIOUS
    <3>2. n \in Nat /\ q = SetLast(r, c, n)
      BY <2>1, <3>1
    <3>3. PICK p : p = SetLast(r, c, n)
      OBVIOUS
    <3>4. Does(r, p, c, rt, 1) /\ p.last[c] = n /\ p.stop = r.stop /\ p.reserved = r.reserved
      BY <3>2, <3>3, SetLastDoes
    <3> QED
      BY <3>1, <3>2, <3>3, <3>4
  <2> QED
    BY <1>2, <2>2 DEF Does, Frees
<1>3. CASE ~(start > Len(rt))
  <2> DEFINE own == {i \in start .. Len(rt) : r.reserved[rt[i]] = c}
             S == {i \in start .. Len(rt) : i \notin own /\ \E j \in own : j < i}
             stop == FirstOf(S)
             visited == TilesOf(rt, start .. (IF all \/ stop = 0 THEN Len(rt) ELSE stop - 1))
             freed == SetLast(FreeTiles(r, c, visited), c, start - 1)
  <2>1. stop = 0 \/ stop \in start .. Len(rt)
    <3> HIDE DEF own
    <3>1. S \in SUBSET Nat
      BY <1>1
    <3>2. FirstOf(S) = 0 \/ FirstOf(S) \in S
      BY <3>1, FirstIsLeast
    <3> QED
      BY <3>2
  <2>2. q = IF visited \cap CrossingTiles = {} THEN freed ELSE Release2(freed, {Engine(c)})
    BY <1>3 DEF BlockUnreserve
  <2> HIDE DEF stop
  <2>3. visited \subseteq TilesOf(rt, start .. Len(rt))
    <3>1. (start .. (IF all \/ stop = 0 THEN Len(rt) ELSE stop - 1)) \subseteq start .. Len(rt)
      BY <1>1, <2>1
    <3> QED
      BY <3>1 DEF TilesOf
  <2> HIDE DEF visited
  <2>4. PICK p : p = FreeTiles(r, c, visited)
    OBVIOUS
  <2>5. /\ OnlyTiles(r, p)
        /\ \A t \in Tiles : p.reserved[t] =
              IF t \in visited /\ r.reserved[t] = c THEN NoConvoy ELSE r.reserved[t]
    BY <2>4, FreeTilesDoes
  <2>6. start - 1 \in Nat /\ p \in RailType
    BY <1>1, <2>5 DEF OnlyTiles
  <2>7. /\ Does(p, freed, c, rt, 1) /\ freed.last[c] = start - 1 /\ freed.stop = p.stop
        /\ freed.reserved = p.reserved
    BY <2>4, <2>6, SetLastDoes
  <2> HIDE DEF freed
  <2>8. Frees(r, freed, c, rt, start)
    <3>1. Takes(r, freed, c)
      BY <2>5, <2>7 DEF Takes
    <3>2. SameIndices(r, freed, c)
      BY <2>5, <2>7 DEF SameIndices, Does, OnlyTiles
    <3>3. \A t \in Tiles : t \notin TilesOf(rt, start .. Len(rt)) =>
             freed.reserved[t] = r.reserved[t]
      BY <2>3, <2>5, <2>7
    <3> QED
      BY <3>1, <3>2, <3>3, <2>5, <2>7, <1>3 DEF Does, OnlyTiles, Frees
  <2>9. OnlyCrossing(freed, Release2(freed, {Engine(c)}))
    <3>1. {Engine(c)} \in SUBSET Vehicles
      BY DEF Engine, Vehicles
    <3>2. freed \in RailType
      BY <2>8 DEF Frees
    <3> QED
      BY <3>1, <3>2, ReleaseDoes
  <2>10. q = freed \/ OnlyCrossing(freed, q)
    BY <2>2, <2>9
  <2> QED
    BY <2>8, <2>10 DEF Frees, OnlyCrossing, Takes, SameIndices
<1> QED
  BY <1>2, <1>3

LEMMA FreesIsDoes ==
    ASSUME NEW c, NEW rt, NEW h, Way(rt, h), NEW r, NEW q, NEW s \in h .. Len(rt),
           Frees(r, q, c, rt, s + 1)
    PROVE  Does(r, q, c, rt, h)
<1>1. Len(rt) \in Nat /\ h \in Nat
  BY WayTiles
<1>2. \A t \in TilesOf(rt, s + 1 .. Len(rt)) : \E i \in h + 1 .. Len(rt) : rt[i] = t
  BY <1>1 DEF TilesOf
<1>3. FreesAhead(r, q, c, rt, h)
  BY <1>2 DEF Frees, FreesAhead
<1> QED
  BY <1>3 DEF Frees, Does

-----------------------------------------------------------------------------
(* Signals.                                                                *)

LEMMA NextStopDoes ==
    ASSUME NEW c \in Convoys, NEW r \in RailType, NEW rt, NEW h, Way(rt, h),
           NEW sig \in Nat, NEW cross \in Nat, NEW q, q = NextStop(r, c, rt, sig, cross)
    PROVE  /\ Does(r, q, c, rt, h) /\ q.last = r.last /\ q.reserved = r.reserved
           /\ \/ sig = 0 /\ cross = 0 /\ q.stop[c] = 0 /\ rt[Len(rt)] \notin Halts
              \/ sig = 0 /\ cross = 0 /\ q.stop[c] = Len(rt) - 1 /\ rt[Len(rt)] \in Halts
              \/ q.stop[c] # 0 /\ q.stop[c] \in {sig, cross}
<1> DEFINE there == {sig, cross} \ {0}
<1>1. Len(rt) \in Nat /\ Len(rt) - 1 \in Nat
  BY WayTiles
<1>2. PICK n : n = IF there # {} THEN Min(there)
                   ELSE IF rt[Len(rt)] \in Halts THEN Len(rt) - 1
                   ELSE 0
  OBVIOUS
<1>3. there # {} => Min(there) \in there
  <2>1. there \in SUBSET Nat
    OBVIOUS
  <2> HIDE DEF there
  <2>2. there # {} => FirstOf(there) \in there
    BY <2>1, FirstIsLeast
  <2> QED
    BY <2>2 DEF FirstOf
<1>4. \/ sig = 0 /\ cross = 0 /\ n = 0 /\ rt[Len(rt)] \notin Halts
      \/ sig = 0 /\ cross = 0 /\ n = Len(rt) - 1 /\ rt[Len(rt)] \in Halts
      \/ n # 0 /\ n \in {sig, cross}
  <2>1. CASE there # {}
    BY <2>1, <1>2, <1>3
  <2>2. CASE there = {}
    <3>1. sig = 0 /\ cross = 0
      BY <2>2
    <3> HIDE DEF there
    <3> QED
      BY <3>1, <2>2, <1>2
  <2> QED
    BY <2>1, <2>2
<1>5. n \in Nat
  BY <1>1, <1>4
<1>6. q = SetStop(r, c, n)
  BY <1>2 DEF NextStop
<1>7. PICK p : p = SetStop(r, c, n)
  OBVIOUS
<1>8. Does(r, p, c, rt, h) /\ p.stop[c] = n /\ p.last = r.last /\ p.reserved = r.reserved
  BY <1>5, <1>7, SetStopDoes
<1>9. q = p
  BY <1>6, <1>7
<1> QED
  BY <1>4, <1>8, <1>9

\* c holds the way in front of it up to s, except perhaps the last tile
HeldUp(r, c, rt, h, s) == \A i \in h + 1 .. s : i < Len(rt) => r.reserved[rt[i]] = c

\* what an attempt to go on from position s leads to
Cleared(r, e, c, rt, h, s) ==
    /\ Does(r, e.r, c, rt, h) /\ e.ok \in BOOLEAN
    /\ e.ok => /\ e.r.last[c] \in s .. Len(rt)
               /\ \/ e.r.stop[c] = 0 /\ e.r.last[c] = Len(rt)
                  \/ e.r.stop[c] \in 1 .. e.r.last[c]
    /\ ~e.ok => e.r.stop = r.stop /\ e.r.last[c] = IF s = Len(rt) THEN Len(rt) - 1 ELSE s
    /\ HeldUp(r, c, rt, h, s) => HeldTo(e.r, c, rt, h, e.r.last[c])

LEMMA GoUpToDoes ==
    ASSUME NEW c \in Convoys, NEW r \in RailType, NEW rt, NEW h, Way(rt, h),
           NEW s \in h .. Len(rt), NEW b, Does(r, b.r, c, rt, h), Reserves(r, b, c, rt, s + 1),
           b.ok => s < Len(rt) \/ s = h, NEW e, e = GoUpTo(b, c, rt)
    PROVE  Cleared(r, e, c, rt, h, s)
<1>1. /\ Len(rt) \in Nat /\ h \in Nat \ {0} /\ h <= Len(rt) /\ s \in Nat /\ s >= h /\ s <= Len(rt)
      /\ b.ok \in BOOLEAN /\ b.r \in RailType
  BY WayTiles DEF Reserves, Does
<1>2. b.r.last[c] \in Nat
  BY <1>1 DEF RailType
<1>3. \A i \in 1 .. s : r.reserved[rt[i]] = c => b.r.reserved[rt[i]] = c
  <2>1. s + 1 - 1 = s
    BY <1>1
  <2> QED
    BY <2>1 DEF Reserves
<1>4. CASE b.ok
  <2>1. PICK sig, cross : sig = b.signal /\ cross = b.crossing
    OBVIOUS
  <2>2. /\ sig \in Nat /\ cross \in Nat
        /\ sig = 0 => b.r.last[c] = Len(rt)
        /\ sig # 0 => sig >= s + 1 /\ b.r.last[c] = sig /\ sig <= Len(rt)
        /\ cross # 0 => cross >= s + 1 /\ cross <= b.r.last[c]
        /\ \A i \in s + 1 .. b.r.last[c] : b.r.reserved[rt[i]] = c
    BY <2>1, <1>1, <1>4 DEF Reserves
  <2>3. PICK p, q : p = b.r /\ q = NextStop(p, c, rt, sig, cross)
    OBVIOUS
  <2>4. e.ok = TRUE /\ e.r = q
    BY <2>1, <2>3, <1>4 DEF GoUpTo
  <2>5. p \in RailType /\ Does(r, p, c, rt, h)
    BY <2>3, <1>1
  <2>6. /\ Does(p, q, c, rt, h) /\ q.last = p.last /\ q.reserved = p.reserved
        /\ \/ sig = 0 /\ cross = 0 /\ q.stop[c] = 0 /\ rt[Len(rt)] \notin Halts
           \/ sig = 0 /\ cross = 0 /\ q.stop[c] = Len(rt) - 1 /\ rt[Len(rt)] \in Halts
           \/ q.stop[c] # 0 /\ q.stop[c] \in {sig, cross}
    BY <2>2, <2>3, <2>5, NextStopDoes
  <2>7. Does(r, q, c, rt, h)
    BY <2>5, <2>6, DoesTwice
  <2>8. q.last[c] = p.last[c] /\ p.last[c] \in s .. Len(rt)
    BY <2>2, <2>3, <2>6, <1>1, <1>2
  <2>9. (q.stop[c] = 0 /\ q.last[c] = Len(rt)) \/ q.stop[c] \in 1 .. q.last[c]
    BY <2>2, <2>3, <2>6, <2>8, <1>1
  <2>10. ASSUME HeldUp(r, c, rt, h, s) PROVE HeldTo(q, c, rt, h, q.last[c])
    <3>1. \A i \in h + 1 .. s : r.reserved[rt[i]] = c
      BY <2>10, <1>1, <1>4 DEF HeldUp
    <3>2. \A i \in h + 1 .. s : p.reserved[rt[i]] = c
      BY <3>1, <2>3, <1>1, <1>3
    <3>3. SUFFICES ASSUME NEW i \in h + 1 .. p.last[c] PROVE p.reserved[rt[i]] = c
      BY <2>6 DEF HeldTo
    <3>4. i \in h + 1 .. s \/ i \in s + 1 .. p.last[c]
      BY <2>8, <1>1
    <3> QED
      BY <3>2, <3>4, <2>2, <2>3
  <2> QED
    BY <2>4, <2>7, <2>8, <2>9, <2>10 DEF Cleared
<1>5. CASE ~b.ok
  <2>1. e.ok = b.ok /\ e.r = b.r
    BY <1>5 DEF GoUpTo
  <2>2. b.r.stop = r.stop /\ b.r.last[c] = IF s = Len(rt) THEN Len(rt) - 1 ELSE s
    <3>1. b.r.stop = r.stop /\ b.r.last[c] = IF s + 1 > Len(rt) THEN Len(rt) - 1 ELSE s + 1 - 1
      BY <1>5 DEF Reserves
    <3> QED
      BY <3>1, <1>1
  <2>3. ASSUME HeldUp(r, c, rt, h, s) PROVE HeldTo(b.r, c, rt, h, b.r.last[c])
    <3>1. \A i \in h + 1 .. b.r.last[c] : i \in h + 1 .. s /\ i < Len(rt)
      BY <2>2, <1>1
    <3>2. \A i \in h + 1 .. b.r.last[c] : r.reserved[rt[i]] = c
      BY <3>1, <2>3 DEF HeldUp
    <3>3. \A i \in h + 1 .. b.r.last[c] : i \in 1 .. s
      BY <3>1, <1>1
    <3> QED
      BY <3>2, <3>3, <1>3 DEF HeldTo
  <2>4. ~e.ok /\ e.ok \in BOOLEAN
    BY <2>1, <1>1, <1>5
  <2>5. /\ Does(r, e.r, c, rt, h) /\ e.r.stop = r.stop
        /\ e.r.last[c] = IF s = Len(rt) THEN Len(rt) - 1 ELSE s
        /\ HeldUp(r, c, rt, h, s) => HeldTo(e.r, c, rt, h, e.r.last[c])
    BY <2>1, <2>2, <2>3
  <2> QED
    BY <2>4, <2>5 DEF Cleared
<1> QED
  BY <1>1, <1>4, <1>5

\* position s is the next signal or crossing; or a train sets off from where it is
LEMMA GoOnDoes ==
    ASSUME NEW c \in Convoys, NEW r \in RailType, NEW rt, NEW h, Way(rt, h),
           NEW s \in h .. Len(rt), NEW start, start = s + 1 \/ (start = h /\ s = h),
           NEW e, e = GoUpTo(BlockReserve(r, c, rt, rt[h], start), c, rt)
    PROVE  Cleared(r, e, c, rt, h, s)
<1>1. PICK b : b = BlockReserve(r, c, rt, rt[h], start)
  OBVIOUS
<1>2. /\ Does(r, b.r, c, rt, h) /\ Reserves(r, b, c, rt, s + 1)
      /\ b.ok /\ start = s + 1 => s < Len(rt)
  BY <1>1, BlockReserveDoes
<1>3. b.ok => s < Len(rt) \/ s = h
  BY <1>2
<1> QED
  BY <1>1, <1>2, <1>3, GoUpToDoes

LEMMA BothBlocksDoes ==
    ASSUME NEW c \in Convoys, NEW r \in RailType, NEW rt, NEW h, Way(rt, h),
           NEW s \in h .. Len(rt), NEW b, Does(r, b.r, c, rt, h), Reserves(r, b, c, rt, s + 1),
           b.ok, b.signal # 0, b = [b EXCEPT !.r = b.r], DOMAIN b = {"ok", "signal", "crossing", "r"},
           NEW e, e = BothBlocks(b, NormalSignalClear(b.r, c, rt, rt[h], b.signal), c, rt, s)
    PROVE  Cleared(r, e, c, rt, h, s)
<1>1. /\ Len(rt) \in Nat /\ h \in Nat \ {0} /\ h <= Len(rt) /\ s \in Nat /\ s >= h /\ s <= Len(rt)
      /\ b.r \in RailType /\ b.r.stop = r.stop
      /\ \A i \in 1 .. Len(rt) : rt[i] \in Tiles
      /\ \A i, j \in 1 .. Len(rt) : rt[i] = rt[j] => i = j
  BY WayTiles DEF Reserves, Does
<1>2. PICK sig, cross, p : sig = b.signal /\ cross = b.crossing /\ p = b.r
  OBVIOUS
<1>3. /\ sig \in Nat /\ cross \in Nat /\ sig # 0 /\ sig >= s + 1 /\ p.last[c] = sig
      /\ sig <= Len(rt) /\ (cross # 0 => cross >= s + 1 /\ cross <= sig)
      /\ \A i \in s + 1 .. sig : p.reserved[rt[i]] = c
  BY <1>1, <1>2 DEF Reserves
<1>4. \A i \in 1 .. s : r.reserved[rt[i]] = c => p.reserved[rt[i]] = c
  <2>1. s + 1 - 1 = s
    BY <1>1
  <2> QED
    BY <1>2, <2>1 DEF Reserves
<1>5. HeldUp(r, c, rt, h, s) => HeldUp(p, c, rt, h, sig)
  <2>1. SUFFICES ASSUME HeldUp(r, c, rt, h, s), NEW i \in h + 1 .. sig PROVE p.reserved[rt[i]] = c
    BY DEF HeldUp
  <2>2. i \in h + 1 .. s \/ i \in s + 1 .. sig
    BY <1>1, <1>3
  <2>3. CASE i \in h + 1 .. s
    <3>1. i \in 1 .. s /\ i < Len(rt)
      BY <2>3, <1>1, <1>3
    <3> QED
      BY <3>1, <2>1, <2>3, <1>4 DEF HeldUp
  <2> QED
    BY <2>2, <2>3, <1>3
<1>6. PICK y : y = NormalSignalClear(p, c, rt, rt[h], sig)
  OBVIOUS
<1>7. Cleared(p, y, c, rt, h, sig)
  <2>1. PICK start : start = sig + 1
    OBVIOUS
  <2>2. y = GoUpTo(BlockReserve(p, c, rt, rt[h], start), c, rt)
    BY <2>1, <1>6 DEF NormalSignalClear
  <2>3. sig \in h .. Len(rt) /\ p \in RailType
    BY <1>1, <1>2, <1>3
  <2> QED
    BY <2>1, <2>2, <2>3, GoOnDoes
<1>8. Does(r, y.r, c, rt, h) /\ y.r \in RailType
  BY <1>2, <1>7, DoesTwice DEF Cleared, Does
<1>9. e = BothBlocks(b, y, c, rt, s)
  BY <1>2, <1>6
<1>10. CASE y.ok
  <2>1. PICK q : q = NextStop(y.r, c, rt, sig, cross)
    OBVIOUS
  <2>2. e.ok /\ e.r = q
    <3>1. PICK bb : bb = [b EXCEPT !.r = y.r]
      OBVIOUS
    <3>2. bb.ok = b.ok /\ bb.signal = sig /\ bb.crossing = cross /\ bb.r = y.r
      BY <3>1, <1>2
    <3>3. e = GoUpTo(bb, c, rt)
      BY <3>1, <1>9, <1>10 DEF BothBlocks
    <3> QED
      BY <3>2, <3>3, <2>1 DEF GoUpTo
  <2>3. /\ Does(y.r, q, c, rt, h) /\ q.last = y.r.last /\ q.reserved = y.r.reserved
        /\ q.stop[c] # 0 /\ q.stop[c] \in {sig, cross}
    BY <2>1, <1>3, <1>8, NextStopDoes
  <2>4. y.r.last[c] \in sig .. Len(rt)
    BY <1>7, <1>10 DEF Cleared
  <2>5. q.last[c] \in s .. Len(rt) /\ q.stop[c] \in 1 .. q.last[c]
    BY <2>3, <2>4, <1>1, <1>3
  <2>6. HeldUp(r, c, rt, h, s) => HeldTo(q, c, rt, h, q.last[c])
    BY <2>3, <1>5, <1>7 DEF Cleared, HeldTo
  <2>7. Does(r, q, c, rt, h)
    BY <2>3, <1>8, DoesTwice
  <2> QED
    BY <2>2, <2>5, <2>6, <2>7 DEF Cleared
<1>11. CASE ~y.ok
  <2>1. PICK q : q = BlockUnreserve(y.r, c, rt, s + 1, FALSE)
    OBVIOUS
  <2>2. ~e.ok /\ e.ok \in BOOLEAN /\ e.r = q
    <3>1. e = [ok |-> FALSE, r |-> q]
      BY <2>1, <1>9, <1>11 DEF BothBlocks
    <3> QED
      BY <3>1
  <2>3. Frees(y.r, q, c, rt, s + 1)
    <3>1. PICK start : start = s + 1
      OBVIOUS
    <3>2. start \in Nat \ {0} /\ rt \in Seq(Tiles) /\ Len(rt) > 0 /\ q = BlockUnreserve(y.r, c, rt, start, FALSE)
      BY <3>1, <2>1, <1>1 DEF Way
    <3>3. Frees(y.r, q, c, rt, start)
      BY <3>2, <1>8, BlockUnreserveDoes
    <3> QED
      BY <3>1, <3>3
  <2>4. Does(r, q, c, rt, h)
    BY <2>3, <1>8, DoesTwice, FreesIsDoes
  <2>5. q.stop = r.stop
    BY <2>3, <1>1, <1>2, <1>7, <1>11 DEF Frees, Cleared
  <2>6. s < Len(rt) /\ q.last[c] = s
    BY <2>3, <1>1, <1>3 DEF Frees
  <2>7. ASSUME HeldUp(r, c, rt, h, s) PROVE HeldTo(q, c, rt, h, s)
    <3>1. HeldTo(y.r, c, rt, h, y.r.last[c])
      BY <2>7, <1>5, <1>7 DEF Cleared
    <3>2. y.r.last[c] \in Nat /\ y.r.last[c] >= s
      BY <1>1, <1>3, <1>7, <1>11 DEF Cleared
    <3>3. SUFFICES ASSUME NEW i \in h + 1 .. s PROVE q.reserved[rt[i]] = c
      BY DEF HeldTo
    <3>4. y.r.reserved[rt[i]] = c
      BY <3>1, <3>2, <1>1 DEF HeldTo
    <3>5. i \in 1 .. Len(rt) /\ rt[i] \in Tiles
      BY <1>1
    <3>6. \A j \in s + 1 .. Len(rt) : rt[j] # rt[i]
      <4>1. \A j \in s + 1 .. Len(rt) : j \in 1 .. Len(rt) /\ j # i
        BY <1>1
      <4> QED
        BY <4>1, <3>5, <1>1
    <3>7. rt[i] \notin TilesOf(rt, s + 1 .. Len(rt))
      BY <3>6 DEF TilesOf
    <3> QED
      BY <3>4, <3>5, <3>7, <2>3 DEF Frees
  <2> QED
    BY <2>2, <2>4, <2>5, <2>6, <2>7 DEF Cleared
<1>12. y.ok \in BOOLEAN
  BY <1>7 DEF Cleared
<1> QED
  BY <1>10, <1>11, <1>12

LEMMA ReserveFields ==
    ASSUME NEW c, NEW r, NEW rt, NEW here, NEW start, NEW b,
           b = BlockReserve(r, c, rt, here, start)
    PROVE  b = [b EXCEPT !.r = b.r] /\ DOMAIN b = {"ok", "signal", "crossing", "r"}
<1>1. \E ok, sig, cross, q : b = [ok |-> ok, signal |-> sig, crossing |-> cross, r |-> q]
  BY DEF BlockReserve, ReserveFrom, ReserveAll
<1> QED
  BY <1>1

LEMMA SignalClearDoes ==
    ASSUME NEW c \in Convoys, NEW r \in RailType, NEW rt, NEW h, Way(rt, h),
           NEW s \in h .. Len(rt), NEW e, e = SignalClear(r, c, rt, rt[h], s)
    PROVE  Cleared(r, e, c, rt, h, s)
<1>1. PICK start : start = s + 1
  OBVIOUS
<1>2. PICK b : b = BlockReserve(r, c, rt, rt[h], start)
  OBVIOUS
<1>3. Cleared(r, GoUpTo(b, c, rt), c, rt, h, s)
  BY <1>1, <1>2, GoOnDoes
<1>4. Does(r, b.r, c, rt, h) /\ Reserves(r, b, c, rt, s + 1)
  BY <1>1, <1>2, BlockReserveDoes
<1>5. b = [b EXCEPT !.r = b.r] /\ DOMAIN b = {"ok", "signal", "crossing", "r"}
  BY <1>2, ReserveFields
<1>6. \/ e = GoUpTo(b, c, rt)
      \/ /\ b.ok /\ b.signal # 0
         /\ e = BothBlocks(b, NormalSignalClear(b.r, c, rt, rt[h], b.signal), c, rt, s)
  BY <1>1, <1>2 DEF SignalClear, PreSignalClear, BeyondPreSignal, NormalSignalClear
<1> QED
  BY <1>3, <1>4, <1>5, <1>6, BothBlocksDoes

-----------------------------------------------------------------------------
(* A head that may enter the next tile.                                    *)

Holds(r, c, rt, h) == r.last[c] <= Len(rt) /\ HeldTo(r, c, rt, h, r.last[c])

\* no signal stands on the crossing that the route ends on
ClearEnd(rt) == rt[Len(rt)] \in CrossingTiles \ Halts => Signals[rt[Len(rt)]] = "none"

\* the stop is behind what c holds, or none; or the signal at the end of the route, whose last
\* tile is given back when nothing behind it can be reserved
StopsWell(r, c, rt, h) ==
    \/ r.stop[c] = 0 /\ (ClearEnd(rt) => r.last[c] = Len(rt))
    \/ r.stop[c] \in 1 .. h
    \/ r.stop[c] \in 1 .. r.last[c]
    \/ r.stop[c] = Len(rt) /\ r.last[c] = Len(rt) - 1 /\ Signals[rt[Len(rt)]] # "none"

SignalsLeft == \A t \in Tiles : signal[t] \in {Signals[t], "none"}

Safe(r, c, rt, h) == Holds(r, c, rt, h) /\ StopsWell(r, c, rt, h)

\* e is what a head at h that wants to enter the next tile is told
Enters(r, e, c, rt, h) ==
    /\ Does(r, e.r, c, rt, h) /\ e.ok \in BOOLEAN
    /\ Safe(r, c, rt, h) => Safe(e.r, c, rt, h)

LEMMA ClearedHolds ==
    ASSUME NEW c \in Convoys, NEW r \in RailType, NEW rt, NEW h, Way(rt, h),
           NEW s \in h .. Len(rt), NEW e, Cleared(r, e, c, rt, h, s), HeldUp(r, c, rt, h, s)
    PROVE  /\ Holds(e.r, c, rt, h) /\ (e.ok => StopsWell(e.r, c, rt, h))
           /\ r.stop[c] \in 1 .. h => StopsWell(e.r, c, rt, h)
           /\ r.stop[c] = s /\ s < Len(rt) => StopsWell(e.r, c, rt, h)
           /\ r.stop[c] = s /\ Signals[rt[Len(rt)]] # "none" => StopsWell(e.r, c, rt, h)
<1>1. /\ Len(rt) \in Nat /\ h \in Nat \ {0} /\ h <= Len(rt) /\ s \in Nat /\ s >= h /\ s <= Len(rt)
  BY WayTiles
<1>2. e.r \in RailType /\ e.ok \in BOOLEAN
  BY DEF Cleared, Does
<1>3. e.r.last[c] \in Nat /\ e.r.last[c] <= Len(rt)
  BY <1>1, <1>2 DEF Cleared, RailType
<1>4. HeldTo(e.r, c, rt, h, e.r.last[c])
  BY DEF Cleared
<1>5. e.ok => StopsWell(e.r, c, rt, h)
  BY DEF Cleared, StopsWell
<1>6. ASSUME ~e.ok
      PROVE  /\ r.stop[c] \in 1 .. h => StopsWell(e.r, c, rt, h)
             /\ r.stop[c] = s /\ s < Len(rt) => StopsWell(e.r, c, rt, h)
             /\ r.stop[c] = s /\ Signals[rt[Len(rt)]] # "none" => StopsWell(e.r, c, rt, h)
  <2>1. e.r.stop[c] = r.stop[c] /\ e.r.last[c] = IF s = Len(rt) THEN Len(rt) - 1 ELSE s
    BY <1>6 DEF Cleared
  <2>2. r.stop[c] \in 1 .. h => StopsWell(e.r, c, rt, h)
    BY <2>1 DEF StopsWell
  <2>3. r.stop[c] = s /\ s < Len(rt) => StopsWell(e.r, c, rt, h)
    BY <2>1, <1>1 DEF StopsWell
  <2>4. r.stop[c] = s /\ s = Len(rt) /\ Signals[rt[Len(rt)]] # "none" => StopsWell(e.r, c, rt, h)
    BY <2>1 DEF StopsWell
  <2> QED
    BY <2>2, <2>3, <2>4, <1>1
<1> QED
  BY <1>2, <1>3, <1>4, <1>5, <1>6 DEF Holds

LEMMA StopIsHeld ==
    ASSUME NEW c \in Convoys, NEW r \in RailType, NEW rt, NEW h, Way(rt, h),
           NEW s \in h .. Len(rt), r.stop[c] = s, Safe(r, c, rt, h)
    PROVE  HeldUp(r, c, rt, h, s)
<1>1. Len(rt) \in Nat /\ h \in Nat \ {0} /\ s \in Nat /\ s >= h /\ r.last[c] \in Nat
  BY WayTiles DEF RailType
<1>2. SUFFICES ASSUME NEW i \in h + 1 .. s, i < Len(rt) PROVE i \in h + 1 .. r.last[c]
  BY DEF HeldUp, Safe, Holds, HeldTo
<1> QED
  BY <1>1, <1>2 DEF Safe, StopsWell

LEMMA KeepsWell ==
    ASSUME NEW c, NEW r, NEW q, NEW rt, NEW h,
           q.last[c] = r.last[c], q.stop[c] = r.stop[c], q.reserved = r.reserved
    PROVE  Safe(r, c, rt, h) => Safe(q, c, rt, h)
  BY DEF Safe, Holds, HeldTo, StopsWell

LEMMA AtStopDoes ==
    ASSUME SignalsLeft, NEW c \in Convoys, NEW r \in RailType, NEW rt, NEW h, Way(rt, h),
           h < Len(rt), NEW s \in h .. Len(rt), r.stop[c] = s, NEW e, e = AtStop(r, c, rt, h, s)
    PROVE  Enters(r, e, c, rt, h)
<1>1. /\ Len(rt) \in Nat /\ h \in Nat \ {0} /\ h <= Len(rt) /\ s \in Nat /\ s >= h /\ s <= Len(rt)
      /\ rt[s] \in Tiles /\ r.last[c] \in Nat
  BY WayTiles DEF RailType
<1>2. PICK asked : asked = AskCrossing(r, c)
  OBVIOUS
<1>3. OnlyCrossing(r, asked) /\ asked \in RailType
  BY <1>2, AskDoes DEF OnlyCrossing
<1>4. /\ Does(r, asked, c, rt, h) /\ asked.stop[c] = s
      /\ Safe(r, c, rt, h) => Safe(asked, c, rt, h)
  BY <1>3, CrossingIsNothing, KeepsWell DEF OnlyCrossing
<1>5. Does(r, r, c, rt, h)
  BY DoesNothing
<1>6. ASSUME NEW p \in {r, asked}
      PROVE  /\ p \in RailType /\ p.stop[c] = s
             /\ Safe(r, c, rt, h) => HeldUp(p, c, rt, h, s)
  BY <1>3, <1>4, StopIsHeld
<1>7. ASSUME rt[s] \in CrossingTiles, ~MayCross2(r.crossing) PROVE Enters(r, e, c, rt, h)
  <2>1. e.r = asked /\ e.ok \in BOOLEAN
    BY <1>7, <1>2 DEF AtStop
  <2> QED
    BY <2>1, <1>4 DEF Enters
<1>8. ASSUME ~(rt[s] \in CrossingTiles /\ ~MayCross2(r.crossing)), signal[rt[s]] # "none"
      PROVE  Enters(r, e, c, rt, h)
  <2>1. PICK p : p = IF rt[s] \in CrossingTiles THEN asked ELSE r
    OBVIOUS
  <2>2. PICK y : y = SignalClear(p, c, rt, rt[h], s)
    OBVIOUS
  <2>3. e = UpToSignal(y, c, h)
    BY <2>1, <2>2, <1>2, <1>8 DEF AtStop
  <2>4. p \in {r, asked}
    BY <2>1
  <2>5. Cleared(p, y, c, rt, h, s)
    BY <2>2, <2>4, <1>6, SignalClearDoes
  <2>6. Signals[rt[s]] # "none"
    BY <1>1, <1>8 DEF SignalsLeft
  <2>7. ASSUME Safe(r, c, rt, h) PROVE Safe(y.r, c, rt, h)
    <3>1. s < Len(rt) \/ s = Len(rt)
      BY <1>1
    <3>2. HeldUp(p, c, rt, h, s)
      BY <2>4, <2>7, <1>6
    <3> QED
      BY <3>1, <3>2, <2>4, <2>5, <2>6, <1>6, ClearedHolds DEF Safe
  <2>8. e.r = y.r /\ e.ok \in BOOLEAN
    <3>1. y.ok \in BOOLEAN
      BY <2>5 DEF Cleared
    <3> QED
      BY <3>1, <2>3 DEF UpToSignal
  <2>9. Does(r, y.r, c, rt, h)
    BY <2>4, <2>5, <1>4, <1>5, DoesTwice DEF Cleared
  <2> QED
    BY <2>7, <2>8, <2>9 DEF Enters
<1>9. ASSUME ~(rt[s] \in CrossingTiles /\ ~MayCross2(r.crossing)), ~(signal[rt[s]] # "none"),
             rt[s] \notin CrossingTiles
      PROVE  Enters(r, e, c, rt, h)
  <2>1. e.r = r /\ e.ok
    BY <1>9 DEF AtStop
  <2>2. e.ok \in BOOLEAN
    BY <1>9 DEF AtStop
  <2> QED
    BY <2>1, <2>2, <1>5 DEF Enters
<1>10. ASSUME ~(rt[s] \in CrossingTiles /\ ~MayCross2(r.crossing)), ~(signal[rt[s]] # "none"),
              rt[s] \in CrossingTiles, s = Len(rt)
       PROVE  Enters(r, e, c, rt, h)
  <2>1. PICK q : q = NextStop(asked, c, rt, 0, 0)
    OBVIOUS
  <2>2. e.r = q /\ e.ok \in BOOLEAN
    BY <2>1, <1>2, <1>10 DEF AtStop
  <2>3. /\ Does(asked, q, c, rt, h) /\ q.last = asked.last /\ q.reserved = asked.reserved
        /\ \/ q.stop[c] = 0 /\ rt[Len(rt)] \notin Halts
           \/ q.stop[c] = Len(rt) - 1 /\ rt[Len(rt)] \in Halts
    <3>1. PICK z : z = 0
      OBVIOUS
    <3>2. z \in Nat /\ q = NextStop(asked, c, rt, z, z)
      BY <3>1, <2>1
    <3>3. /\ Does(asked, q, c, rt, h) /\ q.last = asked.last /\ q.reserved = asked.reserved
          /\ \/ z = 0 /\ z = 0 /\ q.stop[c] = 0 /\ rt[Len(rt)] \notin Halts
             \/ z = 0 /\ z = 0 /\ q.stop[c] = Len(rt) - 1 /\ rt[Len(rt)] \in Halts
             \/ q.stop[c] # 0 /\ q.stop[c] \in {z, z}
      BY <3>2, <1>3, NextStopDoes
    <3> QED
      BY <3>1, <3>3
  <2>4. q.last[c] = r.last[c]
    BY <2>3, <1>3 DEF OnlyCrossing
  <2>5. Safe(r, c, rt, h) =>
           r.last[c] = Len(rt) \/ (r.last[c] = Len(rt) - 1 /\ Signals[rt[Len(rt)]] # "none")
    BY <1>1, <1>10 DEF Safe, StopsWell, Holds
  <2>6. rt[Len(rt)] \in CrossingTiles
    BY <1>10
  <2>7. ASSUME Safe(r, c, rt, h) PROVE StopsWell(q, c, rt, h)
    <3>1. CASE q.stop[c] = 0 /\ rt[Len(rt)] \notin Halts
      BY <3>1, <2>4, <2>5, <2>6, <2>7 DEF StopsWell, ClearEnd
    <3>2. CASE q.stop[c] = Len(rt) - 1
      <4>1. Len(rt) - 1 \in 1 .. q.last[c]
        BY <2>4, <2>5, <2>7, <1>1
      <4> QED
        BY <4>1, <3>2 DEF StopsWell
    <3> QED
      BY <3>1, <3>2, <2>3
  <2>8. ASSUME Safe(r, c, rt, h) PROVE Holds(q, c, rt, h)
    BY <2>3, <2>8, <1>4 DEF Safe, Holds, HeldTo
  <2>9. Does(r, q, c, rt, h)
    BY <2>3, <1>4, DoesTwice
  <2> QED
    BY <2>2, <2>7, <2>8, <2>9 DEF Enters, Safe
<1>11. ASSUME ~(rt[s] \in CrossingTiles /\ ~MayCross2(r.crossing)), ~(signal[rt[s]] # "none"),
              rt[s] \in CrossingTiles, s # Len(rt)
       PROVE  Enters(r, e, c, rt, h)
  <2>1. PICK start : start = s + 1
    OBVIOUS
  <2>2. e = GoUpTo(BlockReserve(asked, c, rt, rt[h], start), c, rt)
    BY <2>1, <1>2, <1>11 DEF AtStop
  <2>3. Cleared(asked, e, c, rt, h, s)
    BY <2>1, <2>2, <1>3, GoOnDoes
  <2>4. ASSUME Safe(r, c, rt, h) PROVE Safe(e.r, c, rt, h)
    <3>1. s < Len(rt) /\ HeldUp(asked, c, rt, h, s)
      BY <2>4, <1>1, <1>6, <1>11
    <3> QED
      BY <3>1, <2>3, <1>6, ClearedHolds DEF Safe
  <2>5. Does(r, e.r, c, rt, h) /\ e.ok \in BOOLEAN
    BY <2>3, <1>4, DoesTwice DEF Cleared
  <2> QED
    BY <2>4, <2>5 DEF Enters
<1> QED
  BY <1>7, <1>8, <1>9, <1>10, <1>11

LEMMA AdvanceDoes ==
    ASSUME SignalsLeft, NEW c \in Convoys, NEW r \in RailType, NEW rt, NEW h, Way(rt, h),
           h < Len(rt), NEW e, e = Advance(r, c, rt, h)
    PROVE  Enters(r, e, c, rt, h) /\ (e.ok => CanReserve(e.r, c, rt[h + 1]))
<1>1. Len(rt) \in Nat /\ h \in Nat \ {0} /\ h + 1 \in 1 .. Len(rt) /\ rt[h + 1] \in Tiles
  BY WayTiles
<1>2. PICK s : s = r.stop[c]
  OBVIOUS
<1>3. s \in Nat
  BY <1>2 DEF RailType
<1>4. Enters(r, e, c, rt, h)
  <2>1. ASSUME e.r = r, e.ok \in BOOLEAN PROVE Enters(r, e, c, rt, h)
    BY <2>1, DoesNothing DEF Enters
  <2>2. CASE ~CanReserve(r, c, rt[h + 1]) \/ s \notin 1 .. Len(rt) \/ s > h + 4
    <3>1. e.r = r /\ e.ok \in BOOLEAN
      BY <2>2, <1>2 DEF Advance
    <3> QED
      BY <3>1, <2>1
  <2>3. CASE CanReserve(r, c, rt[h + 1]) /\ s \in 1 .. Len(rt) /\ ~(s > h + 4) /\ s < h
    <3>1. PICK start : start = h + 1
      OBVIOUS
    <3>2. e = GoUpTo(BlockReserve(r, c, rt, rt[h], start), c, rt)
      BY <3>1, <2>3, <1>2 DEF Advance
    <3>3. Cleared(r, e, c, rt, h, h)
      BY <3>1, <3>2, <1>1, GoOnDoes
    <3>4. HeldUp(r, c, rt, h, h)
      BY <1>1 DEF HeldUp
    <3>5. r.stop[c] \in 1 .. h
      BY <2>3, <1>1, <1>2
    <3>6. Safe(e.r, c, rt, h)
      BY <3>3, <3>4, <3>5, <1>1, ClearedHolds DEF Safe
    <3> QED
      BY <3>3, <3>6 DEF Cleared, Enters
  <2>4. CASE CanReserve(r, c, rt[h + 1]) /\ s \in 1 .. Len(rt) /\ ~(s > h + 4) /\ ~(s < h)
    <3>1. e = AtStop(r, c, rt, h, s)
      BY <2>4, <1>2 DEF Advance
    <3>2. s \in h .. Len(rt)
      BY <2>4, <1>1
    <3> QED
      BY <3>1, <3>2, <1>2, AtStopDoes
  <2> QED
    BY <2>2, <2>3, <2>4
<1>5. ASSUME e.ok PROVE CanReserve(r, c, rt[h + 1])
  BY <1>5 DEF Advance
<1>6. Takes(r, e.r, c)
  BY <1>4 DEF Enters, Does
<1> QED
  BY <1>1, <1>4, <1>5, <1>6, StillReservable

\* A train that CAN_START has not looked for its next stop.
Goes(r, c, st, rt, h) ==
    Holds(r, c, rt, h) /\ (st # "CAN_START" => StopsWell(r, c, rt, h))

LEMMA CanEnterDoes ==
    ASSUME SignalsLeft, NEW c \in Convoys, NEW r \in RailType, NEW rt, NEW h, Way(rt, h),
           h < Len(rt), NEW st, NEW atBorder \in BOOLEAN,
           NEW e, e = CanEnter(r, c, st, rt, h, atBorder)
    PROVE  /\ Does(r, e.r, c, rt, h) /\ e.ok \in BOOLEAN
           /\ Goes(r, c, st, rt, h) =>
                 Goes(e.r, c, st, rt, h) /\ (e.ok => Safe(e.r, c, rt, h))
           /\ e.ok /\ st # "CAN_START" => CanReserve(e.r, c, rt[h + 1])
<1>1. Len(rt) \in Nat /\ h \in Nat \ {0}
  BY WayTiles
<1>2. PICK there : there = SetStop(r, c, h)
  OBVIOUS
<1>3. /\ Does(r, there, c, rt, h) /\ there \in RailType
      /\ Holds(r, c, rt, h) => Safe(there, c, rt, h)
  <2>1. /\ Does(r, there, c, rt, h) /\ there.stop[c] = h /\ there.last = r.last
        /\ there.reserved = r.reserved
    BY <1>1, <1>2, SetStopDoes
  <2>2. Holds(r, c, rt, h) => Holds(there, c, rt, h)
    BY <2>1 DEF Holds, HeldTo
  <2>3. StopsWell(there, c, rt, h)
    BY <2>1, <1>1 DEF StopsWell
  <2> QED
    BY <2>1, <2>2, <2>3 DEF Does, Safe
<1>4. CASE st # "CAN_START"
  <2>1. e = Advance(r, c, rt, h)
    BY <1>4 DEF CanEnter
  <2> QED
    BY <2>1, <1>4, AdvanceDoes DEF Enters, Safe, Goes
<1>5. CASE st = "CAN_START" /\ signal[rt[h]] = "none" /\ rt[h] \notin CrossingTiles
  <2>1. e = GoUpTo(BlockReserve(r, c, rt, rt[h], h), c, rt)
    BY <1>5 DEF CanEnter
  <2>2. h \in h .. Len(rt)
    BY <1>1
  <2>3. Cleared(r, e, c, rt, h, h)
    BY <2>1, <2>2, GoOnDoes
  <2>4. HeldUp(r, c, rt, h, h)
    BY <1>1 DEF HeldUp
  <2>5. Holds(e.r, c, rt, h) /\ (e.ok => StopsWell(e.r, c, rt, h))
    BY <2>2, <2>3, <2>4, ClearedHolds
  <2> QED
    BY <2>3, <2>5, <1>5 DEF Cleared, Safe, Goes
<1>6. CASE st = "CAN_START" /\ ~(signal[rt[h]] = "none" /\ rt[h] \notin CrossingTiles) /\ ~atBorder
  <2>1. e.r = there /\ e.ok
    BY <1>2, <1>6 DEF CanEnter
  <2>2. e.ok \in BOOLEAN
    BY <1>2, <1>6 DEF CanEnter
  <2> QED
    BY <2>1, <2>2, <1>3, <1>6 DEF Safe, Goes
<1>7. CASE st = "CAN_START" /\ ~(signal[rt[h]] = "none" /\ rt[h] \notin CrossingTiles) /\ atBorder
  <2>1. e = Advance(there, c, rt, h)
    BY <1>2, <1>7 DEF CanEnter
  <2>2. Enters(there, e, c, rt, h)
    BY <2>1, <1>3, AdvanceDoes
  <2>3. Does(r, e.r, c, rt, h)
    BY <2>2, <1>3, DoesTwice DEF Enters
  <2> QED
    BY <2>2, <2>3, <1>3, <1>7 DEF Enters, Safe, Goes
<1> QED
  BY <1>4, <1>5, <1>6, <1>7

-----------------------------------------------------------------------------
(* The invariant, for a convoy c in state st whose vehicles are on the     *)
(* tiles ts, at the positions at of the route rt.                          *)

\* Vehicles that are at one position of their route are on one tile.
Coupling(c, ts, at) ==
    /\ ts \in [1 .. Wagons[c] -> Tiles] /\ Coupled(Wagons[c], at)
    /\ \A i, j \in 1 .. Wagons[c] : ts[i] = ts[j] <=> at[i] = at[j]

OnRoute(c, rt, ts, at) == at[1] <= Len(rt) /\ \A i \in 1 .. Wagons[c] : ts[i] = rt[at[i]]

\* tiles that c comes to on its way to an entry of its schedule
Inner(c) ==
    {t \in Tiles : \E rt \in Routes : Last(rt) \in Goals[c] /\ \E i \in 2 .. Len(rt) : rt[i] = t}

Rolling == Waiting \cup {"DRIVING"}

\* a failed search leaves a route of one tile, and the vehicles where they are
Placed(c, st, rt, ts, at) ==
    /\ rt \in Seq(Tiles) /\ rt # <<>> /\ IsInjective(rt)
    /\ Coupling(c, ts, at)
    /\ OnRoute(c, rt, ts, at) \/ (Len(rt) = 1 /\ st \notin Rolling)

\* c stands on one tile or on two that follow each other, and so do the tiles ahead of it
Compact(c, rt, ts, at) ==
    /\ at[1] <= at[Wagons[c]] + 1
    /\ ts[Wagons[c]] = ts[1] \/ <<ts[Wagons[c]], ts[1]>> \in Follows
    /\ \A p \in at[1] .. Len(rt) - 1 : <<rt[p], rt[p + 1]>> \in Follows

\* where the route of c leads to, and what it leads over
Bound(c, st, rt, ts, at) ==
    /\ st \in Rolling => at[1] <= Len(rt) /\ \E o \in Routes : Last(o) = Last(rt)
    /\ st \in Waiting => at[1] < Len(rt)
    /\ \A p \in at[1] + 1 .. Len(rt) : rt[p] \in Inner(c)
    /\ at[Wagons[c]] < at[1] => ts[1] \in Inner(c)
    /\ Compact(c, rt, ts, at)

Train(c, st, rt, ts, at) ==
    IF st = "SELF_DESTRUCT" THEN rt = <<>> /\ ts = <<>> /\ at = <<>>
    ELSE Placed(c, st, rt, ts, at) /\ Bound(c, st, rt, ts, at)

Trains ==
    /\ TypeOK /\ SignalsLeft
    /\ \A c \in Convoys : Train(c, state[c], route[c], tile[c], index[c])

\* what c holds in the state r of rail
Secure(r, c, st, rt, ts, at) ==
    st # "SELF_DESTRUCT" =>
        /\ \A i \in 1 .. Wagons[c] : r.reserved[ts[i]] = c
        /\ st \in Rolling => Goes(r, c, st, rt, at[1])

AllSecure == \A c \in Convoys : Secure(rail, c, state[c], route[c], tile[c], index[c])

LEMMA OneTrainSteps ==
    ASSUME Trains, NEW c \in Convoys, NEW st \in States \cup {"SELF_DESTRUCT"},
           NEW rt, NEW ts, NEW at, Train(c, st, rt, ts, at), signal' = signal, rail' \in RailType,
           state' = [state EXCEPT ![c] = st], route' = [route EXCEPT ![c] = rt],
           tile' = [tile EXCEPT ![c] = ts], index' = [index EXCEPT ![c] = at]
    PROVE  Trains'
<1>1. Wagons[c] \in Nat
  BY ConvoyAssumption
<1>2. rt \in Seq(Tiles) /\ ts \in Seq(Tiles) /\ at \in Seq(Nat)
  <2>1. CASE st = "SELF_DESTRUCT"
    BY <2>1 DEF Train
  <2>2. CASE st # "SELF_DESTRUCT"
    <3>1. rt \in Seq(Tiles) /\ ts \in [1 .. Wagons[c] -> Tiles] /\ at \in [1 .. Wagons[c] -> Nat \ {0}]
      BY <2>2 DEF Train, Placed, Coupling, Coupled
    <3>2. PICK n \in Nat : n = Wagons[c]
      BY <1>1
    <3>3. rt \in Seq(Tiles) /\ ts \in [1 .. n -> Tiles] /\ at \in [1 .. n -> Nat]
      BY <3>1, <3>2
    <3>4. ts \in Seq(Tiles)
      BY <3>3
    <3>5. at \in Seq(Nat)
      BY <3>3
    <3> QED
      BY <3>3, <3>4, <3>5
  <2> QED
    BY <2>1, <2>2
<1>3. /\ state'[c] = st /\ route'[c] = rt /\ tile'[c] = ts /\ index'[c] = at
      /\ \A d \in Convoys : d # c => /\ state'[d] = state[d] /\ route'[d] = route[d]
                                     /\ tile'[d] = tile[d] /\ index'[d] = index[d]
  BY DEF Trains, TypeOK
<1>4. TypeOK'
  BY <1>2 DEF Trains, TypeOK
<1>5. \A d \in Convoys : Train(d, state'[d], route'[d], tile'[d], index'[d])
  BY <1>3 DEF Trains
<1>6. SignalsLeft'
  BY DEF Trains, SignalsLeft
<1> QED
  BY <1>4, <1>5, <1>6
     DEF Trains, Train, Placed, Bound, Compact, Follows, Coupling, Coupled, OnRoute, Inner

LEMMA RoutesFollow ==
    ASSUME NEW rt \in Routes, NEW p \in 1 .. Len(rt) - 1
    PROVE  <<rt[p], rt[p + 1]>> \in Follows
<1>1. PICK i : i = p + 1
  OBVIOUS
<1>2. Len(rt) \in Nat
  BY LayoutAssumption
<1>3. i \in 2 .. Len(rt) /\ i - 1 = p
  BY <1>1, <1>2
<1> QED
  BY <1>1, <1>3 DEF Follows

\* The vehicles of c are where its head is, or where its tail is.
LEMMA OneOrTwoTiles ==
    ASSUME NEW n \in Nat \ {0}, NEW at, Coupled(n, at), at[1] <= at[n] + 1, NEW i \in 1 .. n
    PROVE  /\ at[i] \in Nat \ {0} /\ at[1] \in Nat \ {0} /\ at[n] \in Nat \ {0}
           /\ at[i] = at[1] \/ at[i] = at[n]
           /\ at[n] = at[1] \/ at[n] = at[1] - 1
<1>1. 1 \in 1 .. n /\ n \in i .. n /\ n \in 1 .. n /\ i \in 1 .. n /\ n \in Nat
  OBVIOUS
<1>2. at[i] <= at[1] /\ at[n] <= at[i] /\ at[n] <= at[1]
  BY <1>1, CoupledInOrder
<1>3. at[i] \in Nat \ {0} /\ at[1] \in Nat \ {0} /\ at[n] \in Nat \ {0}
  BY <1>1 DEF Coupled
<1> QED
  BY <1>2, <1>3

\* what c takes and gives back is not what d holds
LEMMA OtherStaysSecure ==
    ASSUME Trains, NEW c \in Convoys, NEW d \in Convoys, d # c, NEW r \in RailType,
           Secure(r, d, state[d], route[d], tile[d], index[d]),
           NEW q \in RailType, Takes(r, q, c), SameIndices(r, q, c)
    PROVE  Secure(q, d, state[d], route[d], tile[d], index[d])
<1> DEFINE rt == route[d]
           ts == tile[d]
           at == index[d]
           st == state[d]
<1> SUFFICES ASSUME st # "SELF_DESTRUCT"
             PROVE  /\ \A i \in 1 .. Wagons[d] : q.reserved[ts[i]] = d
                    /\ st \in Rolling => Goes(q, d, st, rt, at[1])
  BY DEF Secure
<1>1. /\ \A i \in 1 .. Wagons[d] : r.reserved[ts[i]] = d
      /\ st \in Rolling => Goes(r, d, st, rt, at[1])
  BY DEF Secure
<1>2. Placed(d, st, rt, ts, at) /\ Bound(d, st, rt, ts, at)
  BY DEF Trains, Train
<1>3. \A t \in Tiles : r.reserved[t] = d => q.reserved[t] = d
  BY ConvoyAssumption DEF Takes
<1>4. q.last[d] = r.last[d] /\ q.stop[d] = r.stop[d] /\ r.last[d] \in Nat
  BY DEF SameIndices, RailType
<1>5. Wagons[d] \in Nat \ {0}
  BY ConvoyAssumption
<1> HIDE DEF rt, ts, at, st
<1>6. \A i \in 1 .. Wagons[d] : q.reserved[ts[i]] = d
  <2>1. \A i \in 1 .. Wagons[d] : ts[i] \in Tiles
    BY <1>2 DEF Placed, Coupling
  <2> QED
    BY <2>1, <1>1, <1>3
<1>7. ASSUME st \in Rolling PROVE Goes(q, d, st, rt, at[1])
  <2>1. Goes(r, d, st, rt, at[1])
    BY <1>1, <1>7
  <2>2. Len(rt) \in Nat /\ \A i \in 1 .. Len(rt) : rt[i] \in Tiles
    BY <1>2 DEF Placed
  <2>3. at[1] \in Nat
    <3>1. 1 \in 1 .. Wagons[d]
      BY <1>5
    <3> QED
      BY <3>1, <1>2 DEF Placed, Coupling, Coupled
  <2>4. Holds(q, d, rt, at[1])
    <3>1. r.last[d] <= Len(rt) /\ \A i \in at[1] + 1 .. r.last[d] : r.reserved[rt[i]] = d
      BY <2>1 DEF Goes, Holds, HeldTo
    <3>2. \A i \in at[1] + 1 .. r.last[d] : i \in 1 .. Len(rt)
      BY <3>1, <2>2, <2>3, <1>4
    <3> QED
      BY <3>1, <3>2, <2>2, <1>3, <1>4 DEF Holds, HeldTo
  <2>5. StopsWell(r, d, rt, at[1]) => StopsWell(q, d, rt, at[1])
    BY <1>4 DEF StopsWell
  <2> QED
    BY <2>1, <2>4, <2>5 DEF Goes
<1> QED
  BY <1>6, <1>7

LEMMA OthersAreSecure ==
    ASSUME Trains, AllSecure, NEW c \in Convoys, NEW d \in Convoys, d # c,
           NEW q \in RailType, Takes(rail, q, c), SameIndices(rail, q, c)
    PROVE  Secure(q, d, state[d], route[d], tile[d], index[d])
<1>1. rail \in RailType
  BY DEF Trains, TypeOK
<1>2. Secure(rail, d, state[d], route[d], tile[d], index[d])
  BY DEF AllSecure
<1> QED
  BY <1>1, <1>2, OtherStaysSecure

\* a step of c, in the state of rail that the others rely on
KeepsOthers(c) == AllSecure' /\ Takes(rail, rail', c) /\ SameIndices(rail, rail', c)

LEMMA OneTrainKeeps ==
    ASSUME Trains, AllSecure, NEW c \in Convoys, NEW st, NEW rt, NEW ts, NEW at,
           NEW q \in RailType, rail' = q, Takes(rail, q, c), SameIndices(rail, q, c),
           Secure(q, c, st, rt, ts, at),
           state' = [state EXCEPT ![c] = st], route' = [route EXCEPT ![c] = rt],
           tile' = [tile EXCEPT ![c] = ts], index' = [index EXCEPT ![c] = at]
    PROVE  KeepsOthers(c)
<1>1. /\ state'[c] = st /\ route'[c] = rt /\ tile'[c] = ts /\ index'[c] = at
      /\ \A d \in Convoys : d # c => /\ state'[d] = state[d] /\ route'[d] = route[d]
                                     /\ tile'[d] = tile[d] /\ index'[d] = index[d]
  BY DEF Trains, TypeOK
<1>2. \A d \in Convoys : d # c => Secure(q, d, state[d], route[d], tile[d], index[d])
  BY OthersAreSecure
<1>3. \A d \in Convoys : Secure(q, d, state'[d], route'[d], tile'[d], index'[d])
  BY <1>1, <1>2
<1>4. AllSecure'
  BY <1>3 DEF AllSecure, Secure, Goes, Holds, HeldTo, StopsWell, ClearEnd
<1> QED
  BY <1>4 DEF KeepsOthers

-----------------------------------------------------------------------------
(* Trains that start, drive and stop.                                      *)

LEMMA InitSecure == Init => Trains /\ AllSecure
<1> SUFFICES ASSUME Init PROVE Trains /\ AllSecure
  OBVIOUS
<1> USE DEF Init
<1>1. ASSUME NEW c \in Convoys
      PROVE  /\ Home[c] \in Seq(Tiles) /\ Len(Home[c]) \in Nat \ {0} /\ Last(Home[c]) \in Tiles
             /\ Wagons[c] \in Nat \ {0} /\ IsInjective(Home[c]) /\ Home[c] # <<>>
  <2>1. Home[c] \in Seq(Tiles) /\ Home[c] # <<>> /\ Wagons[c] \in Nat \ {0} /\ IsInjective(Home[c])
    BY HomeAssumption, ConvoyAssumption
  <2>2. Len(Home[c]) \in Nat \ {0}
    BY <2>1
  <2> QED
    BY <2>1, <2>2 DEF Last
<1>2. TypeOK
  <2>1. state \in [Convoys -> States \cup {"SELF_DESTRUCT"}]
    BY DEF States
  <2>2. signal \in [Tiles -> {"none", "normal", "pre"}]
    BY LayoutAssumption
  <2>3. route \in [Convoys -> Seq(Tiles)]
    BY HomeAssumption
  <2>4. ASSUME NEW c \in Convoys PROVE tile[c] \in Seq(Tiles) /\ index[c] \in Seq(Nat)
    <3>1. tile[c] \in [1 .. Wagons[c] -> Tiles] /\ index[c] \in [1 .. Wagons[c] -> Nat]
      BY <1>1
    <3>2. PICK n, ts, at : n = Wagons[c] /\ ts = tile[c] /\ at = index[c]
      OBVIOUS
    <3>3. n \in Nat /\ ts \in [1 .. n -> Tiles] /\ at \in [1 .. n -> Nat]
      BY <3>1, <3>2, <1>1
    <3>4. ts \in Seq(Tiles)
      BY <3>3
    <3>5. at \in Seq(Nat)
      BY <3>3
    <3> QED
      BY <3>2, <3>4, <3>5
  <2>5. tile \in [Convoys -> Seq(Tiles)] /\ index \in [Convoys -> Seq(Nat)]
    <3>1. /\ tile = [c \in Convoys |-> tile[c]] /\ index = [c \in Convoys |-> index[c]]
      OBVIOUS
    <3> QED
      BY <3>1, <2>4
  <2>6. rail.reserved \in [Tiles -> Convoys \cup {NoConvoy}]
    OBVIOUS
  <2>7. rail.last \in [Convoys -> Nat] /\ rail.stop \in [Convoys -> Nat]
    <3>1. \A c \in Convoys : Len(Home[c]) \in Nat /\ Len(Home[c]) - 1 \in Nat
      BY <1>1
    <3> QED
      BY <3>1
  <2>8. rail.crossing \in CrossingLogic(Vehicles)
    BY DEF CrossingLogic, NewCrossing, CrossingState
  <2>9. rail \in RailType
    BY <2>6, <2>7, <2>8 DEF RailType
  <2> QED
    BY <2>1, <2>2, <2>3, <2>5, <2>9 DEF TypeOK
<1>3. SignalsLeft
  BY DEF SignalsLeft
<1>4. ASSUME NEW c \in Convoys PROVE Train(c, state[c], route[c], tile[c], index[c])
  <2> DEFINE n == Len(Home[c])
             ts == [i \in 1 .. Wagons[c] |-> Last(Home[c])]
             at == [i \in 1 .. Wagons[c] |-> n]
  <2>1. state[c] = "LOADING" /\ route[c] = Home[c] /\ tile[c] = ts /\ index[c] = at
    OBVIOUS
  <2>2. n \in Nat \ {0} /\ Last(Home[c]) = Home[c][n]
    BY <1>1 DEF Last
  <2> HIDE DEF n
  <2>3. Coupled(Wagons[c], at) /\ at[1] = n /\ at[Wagons[c]] = n
    BY <1>1, <2>2 DEF Coupled
  <2>4. Coupling(c, ts, at)
    BY <1>1, <2>3 DEF Coupling
  <2>5. OnRoute(c, Home[c], ts, at)
    BY <1>1, <2>2, <2>3 DEF OnRoute, n
  <2>6. Placed(c, "LOADING", Home[c], ts, at)
    BY <1>1, <2>4, <2>5 DEF Placed
  <2>6a. Compact(c, Home[c], ts, at)
    <3>1. 1 \in 1 .. Wagons[c] /\ Wagons[c] \in 1 .. Wagons[c]
      BY <1>1
    <3>2. ts[1] = Last(Home[c]) /\ ts[Wagons[c]] = Last(Home[c])
      BY <3>1
    <3>3. \A p \in at[1] .. Len(Home[c]) - 1 : FALSE
      BY <2>2, <2>3 DEF n
    <3> HIDE DEF ts, at
    <3> QED
      BY <3>2, <3>3, <2>2, <2>3 DEF Compact
  <2>7. Bound(c, "LOADING", Home[c], ts, at)
    BY <2>2, <2>3, <2>6a DEF Bound, Rolling, Waiting, n
  <2> QED
    BY <2>1, <2>6, <2>7 DEF Train
<1>5. ASSUME NEW c \in Convoys PROVE Secure(rail, c, state[c], route[c], tile[c], index[c])
  <2>1. Last(Home[c]) \in Tiles
    BY <1>1
  <2>2. rail.reserved[Last(Home[c])] = c
    <3>1. \A d \in Convoys : Last(Home[d]) = Last(Home[c]) => d = c
      BY HomeAssumption
    <3> QED
      BY <2>1, <3>1
  <2>3. \A i \in 1 .. Wagons[c] : tile[c][i] = Last(Home[c])
    OBVIOUS
  <2>4. state[c] \notin Rolling
    BY DEF Rolling, Waiting
  <2> QED
    BY <2>2, <2>3, <2>4 DEF Secure
<1> QED
  BY <1>2, <1>3, <1>4, <1>5 DEF Trains, AllSecure

\* a train on its way
LEMMA RollingTrain ==
    ASSUME Trains, NEW c \in Convoys, state[c] # "SELF_DESTRUCT"
    PROVE  /\ Placed(c, state[c], route[c], tile[c], index[c])
           /\ Bound(c, state[c], route[c], tile[c], index[c])
           /\ Wagons[c] \in Nat \ {0} /\ HeadIndex(c) \in Nat \ {0} /\ TailIndex(c) \in Nat \ {0}
           /\ TailIndex(c) <= HeadIndex(c)
           /\ route[c] \in Seq(Tiles) /\ Len(route[c]) \in Nat \ {0}
           /\ state[c] \in Rolling =>
                 /\ OnRoute(c, route[c], tile[c], index[c])
                 /\ Way(route[c], HeadIndex(c)) /\ route[c][HeadIndex(c)] = HeadTile(c)
<1>1. /\ Placed(c, state[c], route[c], tile[c], index[c])
      /\ Bound(c, state[c], route[c], tile[c], index[c])
  BY DEF Trains, Train
<1>2. Wagons[c] \in Nat \ {0}
  BY ConvoyAssumption
<1>3. Coupled(Wagons[c], index[c])
  BY <1>1 DEF Placed, Coupling
<1>4. HeadIndex(c) \in Nat \ {0} /\ TailIndex(c) \in Nat \ {0}
  BY <1>2, <1>3 DEF Coupled, HeadIndex, TailIndex
<1>5. TailIndex(c) <= HeadIndex(c)
  <2>1. 1 \in 1 .. Wagons[c] /\ Wagons[c] \in 1 .. Wagons[c] /\ Wagons[c] \in Nat
    BY <1>2
  <2> QED
    BY <2>1, <1>3, CoupledInOrder DEF HeadIndex, TailIndex
<1>6. route[c] \in Seq(Tiles) /\ Len(route[c]) \in Nat \ {0}
  BY <1>1 DEF Placed
<1>7. ASSUME state[c] \in Rolling PROVE OnRoute(c, route[c], tile[c], index[c])
  BY <1>1, <1>7 DEF Placed
<1>8. ASSUME state[c] \in Rolling
      PROVE  Way(route[c], HeadIndex(c)) /\ route[c][HeadIndex(c)] = HeadTile(c)
  <2>1. HeadIndex(c) <= Len(route[c]) /\ 1 \in 1 .. Wagons[c]
    BY <1>2, <1>7, <1>8 DEF OnRoute, HeadIndex
  <2>2. HeadIndex(c) \in 1 .. Len(route[c])
    BY <2>1, <1>4, <1>6
  <2> QED
    BY <2>1, <2>2, <1>1, <1>7, <1>8 DEF OnRoute, HeadIndex, HeadTile, Way, Placed
<1> QED
  BY <1>1, <1>2, <1>4, <1>5, <1>6, <1>7, <1>8

\* Arrives, Loaded, NewSchedule
LEMMA StateSteps ==
    ASSUME Trains, NEW c \in Convoys, state[c] # "SELF_DESTRUCT", NEW st \in States \ Rolling,
           state' = [state EXCEPT ![c] = st], UNCHANGED <<signal, route, tile, index, rail>>
    PROVE  Trains' /\ (AllSecure => KeepsOthers(c))
<1> DEFINE rt == route[c]
           ts == tile[c]
           at == index[c]
<1>1. /\ route' = [route EXCEPT ![c] = rt] /\ tile' = [tile EXCEPT ![c] = ts]
      /\ index' = [index EXCEPT ![c] = at] /\ rail' = rail /\ rail \in RailType
  BY DEF Trains, TypeOK
<1>2. Placed(c, state[c], rt, ts, at) /\ Bound(c, state[c], rt, ts, at)
  BY RollingTrain
<1> HIDE DEF rt, ts, at
<1>3. st # "SELF_DESTRUCT" /\ st \notin Waiting
  BY DEF States, Rolling, Waiting
<1>4. Train(c, st, rt, ts, at)
  BY <1>2, <1>3 DEF Placed, Bound, Train
<1>5. Trains'
  <2>1. st \in States \cup {"SELF_DESTRUCT"} /\ rail' \in RailType /\ signal' = signal
    BY <1>1
  <2> QED
    BY <2>1, <1>1, <1>4, OneTrainSteps
<1>6. ASSUME AllSecure PROVE KeepsOthers(c)
  <2>1. Secure(rail, c, st, rt, ts, at)
    BY <1>6 DEF AllSecure, Secure, rt, ts, at
  <2>2. Takes(rail, rail, c) /\ SameIndices(rail, rail, c)
    BY DEF Takes, SameIndices
  <2> QED
    BY <2>1, <2>2, <1>1, <1>6, OneTrainKeeps
<1> QED
  BY <1>5, <1>6

\* vehicle i of c goes from tile t to tile u
Hops(r, q, c, i, t, u) ==
    /\ q \in RailType /\ q.last = r.last /\ q.stop = r.stop
    /\ \A x \in Tiles : x # t /\ x # u => q.reserved[x] = r.reserved[x]
    /\ q.reserved[u] = r.reserved[u] \/ (q.reserved[u] = c /\ CanReserve(r, c, u))
    /\ i = 1 /\ CanReserve(r, c, u) => q.reserved[u] = c
    /\ q.reserved[t] = r.reserved[t] \/ (q.reserved[t] = NoConvoy /\ IsLast(c, i))

LEMMA HoppedDoes ==
    ASSUME NEW r \in RailType, NEW c \in Convoys, NEW i \in Nat, NEW t \in Tiles, NEW u \in Tiles,
           t # u, NEW q, q = Hopped(r, c, i, t, u)
    PROVE  Hops(r, q, c, i, t, u)
<1>1. {<<c, i>>} \in SUBSET Vehicles /\ <<c, i>> \in Vehicles
  BY DEF Vehicles
<1>2. PICK left : left = IF t \in CrossingTiles /\ u \notin CrossingTiles
                         THEN Release2(r, {<<c, i>>}) ELSE r
  OBVIOUS
<1>3. left \in RailType /\ left.last = r.last /\ left.stop = r.stop /\ left.reserved = r.reserved
  <2>1. OnlyCrossing(r, Release2(r, {<<c, i>>}))
    BY <1>1, ReleaseDoes
  <2> QED
    BY <2>1, <1>2 DEF OnlyCrossing
<1>4. PICK freed : freed = IF IsLast(c, i) THEN ClearTiles(left, {t}) ELSE left
  OBVIOUS
<1>5. /\ freed \in RailType /\ freed.last = left.last /\ freed.stop = left.stop
      /\ \A x \in Tiles : x # t => freed.reserved[x] = left.reserved[x]
      /\ freed.reserved[t] = left.reserved[t] \/ (freed.reserved[t] = NoConvoy /\ IsLast(c, i))
  <2>1. PICK p : p = ClearTiles(left, {t})
    OBVIOUS
  <2>2. /\ OnlyTiles(left, p)
        /\ \A x \in Tiles : p.reserved[x] = IF x \in {t} THEN NoConvoy ELSE left.reserved[x]
    BY <2>1, <1>3, ClearTilesDoes
  <2>3. CASE IsLast(c, i)
    BY <2>1, <2>2, <2>3, <1>4 DEF OnlyTiles
  <2>4. CASE ~IsLast(c, i)
    BY <2>4, <1>3, <1>4
  <2> QED
    BY <2>3, <2>4
<1>6. PICK entered : entered = IF i = 1 THEN ReserveTiles(freed, c, {u}) ELSE freed
  OBVIOUS
<1>7. /\ entered \in RailType /\ entered.last = freed.last /\ entered.stop = freed.stop
      /\ \A x \in Tiles : x # u => entered.reserved[x] = freed.reserved[x]
      /\ \/ entered.reserved[u] = freed.reserved[u]
         \/ entered.reserved[u] = c /\ CanReserve(freed, c, u)
      /\ i = 1 /\ CanReserve(freed, c, u) => entered.reserved[u] = c
  <2>1. PICK p : p = ReserveTiles(freed, c, {u})
    OBVIOUS
  <2>2. /\ OnlyTiles(freed, p)
        /\ \A x \in Tiles : p.reserved[x] =
              IF x \in {u} /\ CanReserve(freed, c, x) THEN c ELSE freed.reserved[x]
    BY <2>1, <1>5, ReserveTilesDoes
  <2>3. CASE i = 1
    BY <2>1, <2>2, <2>3, <1>6 DEF OnlyTiles
  <2>4. CASE i # 1
    BY <2>4, <1>5, <1>6
  <2> QED
    BY <2>3, <2>4
<1>8. q = entered \/ OnlyCrossing(entered, q)
  <2>1. CASE u \in CrossingTiles
    <3>1. q = [entered EXCEPT !.crossing = AddToCrossing2(entered.crossing, <<c, i>>)]
      BY <2>1, <1>2, <1>4, <1>6 DEF Hopped
    <3>2. entered.crossing \in CrossingLogic(Vehicles)
      BY <1>7 DEF RailType
    <3>3. AddToCrossing2(entered.crossing, <<c, i>>) \in CrossingLogic(Vehicles)
      BY <3>2, <1>1, CrossingTypes
    <3> QED
      BY <3>1, <3>3, <1>7, CrossingDoes
  <2>2. CASE u \notin CrossingTiles
    BY <2>2, <1>2, <1>4, <1>6 DEF Hopped
  <2> QED
    BY <2>1, <2>2
<1>9. /\ q \in RailType /\ q.last = entered.last /\ q.stop = entered.stop
      /\ q.reserved = entered.reserved
  BY <1>7, <1>8 DEF OnlyCrossing
<1>10. CanReserve(freed, c, u) <=> CanReserve(r, c, u)
  BY <1>3, <1>5 DEF CanReserve
<1> HIDE DEF IsLast
<1> QED
  BY <1>3, <1>5, <1>7, <1>9, <1>10 DEF Hops

\* vehicle i of c goes on; r is the state of rail before, behind what its head was told
LEMMA HopSteps ==
    ASSUME Trains, NEW c \in Convoys, state[c] = "DRIVING", NEW i \in 1 .. Wagons[c],
           index[c][i] < Len(route[c]), i = 1 => HeadIndex(c) = TailIndex(c),
           i # 1 => index[c][i] < index[c][i - 1],
           NEW r, Does(rail, r, c, route[c], HeadIndex(c)),
           i = 1 => CanReserve(r, c, route[c][HeadIndex(c) + 1]),
           AllSecure => Safe(r, c, route[c], HeadIndex(c)),
           Hop(r, c, i), UNCHANGED <<signal, state, route>>
    PROVE  Trains' /\ (AllSecure => KeepsOthers(c))
<1> DEFINE rt == route[c]
           ts == tile[c]
           at == index[c]
           n == Wagons[c]
<1>1. /\ Placed(c, "DRIVING", rt, ts, at) /\ Bound(c, "DRIVING", rt, ts, at)
      /\ n \in Nat \ {0} /\ OnRoute(c, rt, ts, at) /\ Way(rt, at[1]) /\ rt \in Seq(Tiles)
  BY RollingTrain DEF Rolling, HeadIndex
<1>2. Coupling(c, ts, at) /\ Coupled(n, at)
  BY <1>1 DEF Placed, Coupling
<1>3. /\ Len(rt) \in Nat /\ at[1] \in Nat \ {0} /\ at[1] <= Len(rt)
      /\ \A p \in 1 .. Len(rt) : rt[p] \in Tiles
      /\ \A p, o \in 1 .. Len(rt) : rt[p] = rt[o] => p = o
  BY <1>1, WayTiles
<1>4. \A k \in 1 .. n : at[k] \in Nat \ {0} /\ at[k] <= at[1] /\ ts[k] = rt[at[k]]
  <2>1. \A k \in 1 .. n : at[k] \in Nat \ {0}
    BY <1>2 DEF Coupled
  <2>2. \A k \in 1 .. n : at[k] <= at[1]
    <3>1. 1 \in 1 .. n /\ n \in Nat
      BY <1>1
    <3> QED
      BY <3>1, <1>2, CoupledInOrder
  <2> QED
    BY <2>1, <2>2, <1>1 DEF OnRoute
<1>5. PICK u, t : u = rt[at[i] + 1] /\ t = ts[i]
  OBVIOUS
<1>7. r \in RailType /\ Takes(rail, r, c) /\ SameIndices(rail, r, c) /\ i \in Nat
  BY DEF Does
<1>7a. /\ at[i] < Len(rt) /\ FreesAhead(rail, r, c, rt, at[1])
       /\ i = 1 => CanReserve(r, c, rt[at[1] + 1])
       /\ AllSecure => Safe(r, c, rt, at[1]) /\ \A k \in 1 .. n : rail.reserved[ts[k]] = c
  BY DEF Does, HeadIndex, AllSecure, Secure
<1>7b. /\ i = 1 => at[1] = at[n]
       /\ i # 1 => at[i] < at[i - 1]
  BY DEF HeadIndex, TailIndex
<1>5a. PICK q : q = Hopped(r, c, i, t, u)
  OBVIOUS
<1>9. PICK ts2, at2 : ts2 = [ts EXCEPT ![i] = u] /\ at2 = [at EXCEPT ![i] = at[i] + 1]
  OBVIOUS
<1>10. /\ rail' = q /\ signal' = signal /\ state' = [state EXCEPT ![c] = "DRIVING"]
       /\ route' = [route EXCEPT ![c] = rt]
       /\ tile' = [tile EXCEPT ![c] = ts2] /\ index' = [index EXCEPT ![c] = at2]
  <2>1. rail' = q
    BY <1>5, <1>5a DEF Hop
  <2>2. state' = [state EXCEPT ![c] = "DRIVING"] /\ route' = [route EXCEPT ![c] = rt]
    BY DEF Trains, TypeOK
  <2>3. tile' = [tile EXCEPT ![c] = ts2] /\ index' = [index EXCEPT ![c] = at2]
    BY <1>5, <1>9 DEF Hop
  <2> QED
    BY <2>1, <2>2, <2>3
<1> HIDE DEF rt, ts, at
<1>6. at[i] + 1 \in 1 .. Len(rt) /\ u \in Tiles /\ t \in Tiles /\ t = rt[at[i]] /\ t # u
  <2>1. PICK p : p = at[i]
    OBVIOUS
  <2>2. p \in 1 .. Len(rt) /\ p + 1 \in 1 .. Len(rt) /\ p # p + 1
    BY <2>1, <1>3, <1>4, <1>7a
  <2>3. t = rt[p] /\ u = rt[p + 1]
    BY <2>1, <1>4, <1>5
  <2> QED
    BY <2>1, <2>2, <2>3, <1>3
<1>8. /\ q \in RailType /\ q.last = r.last /\ q.stop = r.stop
      /\ \A x \in Tiles : x # t /\ x # u => q.reserved[x] = r.reserved[x]
      /\ q.reserved[u] = r.reserved[u] \/ (q.reserved[u] = c /\ CanReserve(r, c, u))
      /\ i = 1 /\ CanReserve(r, c, u) => q.reserved[u] = c
      /\ q.reserved[t] = r.reserved[t] \/ (q.reserved[t] = NoConvoy /\ IsLast(c, i))
  <2>1. t \in Tiles /\ u \in Tiles /\ t # u
    BY <1>6
  <2>2. Hops(r, q, c, i, t, u)
    BY <2>1, <1>5a, <1>7, HoppedDoes
  <2> QED
    BY <2>2 DEF Hops
<1>11. /\ ts2 \in [1 .. n -> Tiles] /\ at2 \in [1 .. n -> Nat \ {0}]
       /\ ts2[i] = u /\ at2[i] = at[i] + 1
       /\ \A k \in 1 .. n : k # i => ts2[k] = ts[k] /\ at2[k] = at[k]
  <2>1. ts \in [1 .. n -> Tiles] /\ at \in [1 .. n -> Nat \ {0}]
    BY <1>2 DEF Coupling, Coupled
  <2>2. at[i] + 1 \in Nat \ {0}
    BY <1>6
  <2> QED
    BY <2>1, <2>2, <1>6, <1>9
<1>12. i # 1 => at[i] + 1 = at[i - 1] /\ i - 1 \in 1 .. n
  <2>1. SUFFICES ASSUME i # 1 PROVE at[i] + 1 = at[i - 1] /\ i - 1 \in 1 .. n
    OBVIOUS
  <2>2. i \in 2 .. n /\ i - 1 \in 1 .. n
    BY <2>1, <1>1
  <2>3. at[i] = at[i - 1] \/ at[i] = at[i - 1] - 1
    BY <2>2, <1>2 DEF Coupled
  <2> QED
    BY <2>1, <2>2, <2>3, <1>4, <1>7b
<1>12a. /\ at[i] = at[n]
        /\ i # 1 => at[i] + 1 = at[1]
        /\ \A k \in 1 .. n : at[k] = at[1] \/ at[k] = at[n]
        /\ n \in 1 .. n /\ 1 \in 1 .. n /\ at[1] <= at[n] + 1
  <2>1. n \in 1 .. n /\ 1 \in 1 .. n /\ at[1] <= at[n] + 1
    BY <1>1 DEF Bound, Compact
  <2>2. \A k \in 1 .. n : at[k] = at[1] \/ at[k] = at[n]
    BY <2>1, <1>1, <1>2, OneOrTwoTiles
  <2>3. at[n] = at[1] \/ at[n] = at[1] - 1
    BY <2>1, <1>1, <1>2, OneOrTwoTiles
  <2>4. CASE i = 1
    BY <2>1, <2>2, <2>4, <1>7b
  <2>5. CASE i # 1
    <3>1. at[i - 1] = at[1] \/ at[i - 1] = at[n]
      BY <2>2, <2>5, <1>12
    <3>2. at[i] = at[1] \/ at[i] = at[n]
      BY <2>2
    <3>3. at[i] \in Nat /\ at[n] \in Nat /\ at[1] \in Nat /\ at[i - 1] \in Nat
      BY <2>1, <2>5, <1>4, <1>12
    <3>4. PICK a, b, x, y : a = at[i] /\ b = at[i - 1] /\ x = at[1] /\ y = at[n]
      OBVIOUS
    <3>5. a \in Nat /\ b \in Nat /\ x \in Nat /\ y \in Nat /\ a < b
      BY <3>3, <3>4, <2>5, <1>7b
    <3>6. a + 1 = b /\ (b = x \/ b = y) /\ (a = x \/ a = y) /\ (y = x \/ y = x - 1)
      BY <3>1, <3>2, <3>4, <2>3, <2>5, <1>12
    <3>7. a = y /\ a + 1 = x
      BY <3>5, <3>6
    <3> QED
      BY <3>4, <3>7, <2>1, <2>2
  <2> QED
    BY <2>4, <2>5
<1>13. Coupled(n, at2)
  <2>1. ASSUME NEW k \in 2 .. n PROVE at2[k] = at2[k - 1] \/ at2[k] = at2[k - 1] - 1
    <3>1. k \in 1 .. n /\ k - 1 \in 1 .. n /\ k # k - 1
      BY <1>1
    <3>2. at[k] = at[k - 1] \/ at[k] = at[k - 1] - 1
      BY <1>2 DEF Coupled
    <3>3. at[k] \in Nat /\ at[k - 1] \in Nat
      BY <3>1, <1>4
    <3>4. CASE k = i
      BY <3>1, <3>4, <1>11, <1>12
    <3>5. CASE k - 1 = i
      <4>1. at[k] = at[i]
        <5>1. at[n] <= at[k] /\ at[k] <= at[i]
          <6>1. i \in 1 .. n /\ k \in i .. n /\ k \in 1 .. n /\ n \in k .. n /\ n \in Nat
            BY <3>1, <3>5, <1>1
          <6> QED
            BY <6>1, <1>2, CoupledInOrder
        <5>2. at[n] \in Nat /\ at[i] \in Nat
          BY <1>4, <1>12a
        <5> QED
          BY <5>1, <5>2, <3>3, <1>12a
      <4> QED
        BY <4>1, <3>1, <3>3, <3>5, <1>11
    <3>6. CASE k # i /\ k - 1 # i
      BY <3>1, <3>2, <3>6, <1>11
    <3> QED
      BY <3>4, <3>5, <3>6
  <2> QED
    BY <2>1, <1>11 DEF Coupled
<1>14. /\ at2[1] \in Nat \ {0} /\ at2[1] <= Len(rt) /\ at[1] <= at2[1]
       /\ \A k \in 1 .. n : at2[k] \in 1 .. Len(rt) /\ ts2[k] = rt[at2[k]] /\ at[k] <= at2[k]
  <2>1. 1 \in 1 .. n
    BY <1>1
  <2>2. \A k \in 1 .. n : at2[k] \in 1 .. Len(rt) /\ ts2[k] = rt[at2[k]] /\ at[k] <= at2[k]
    <3>1. ASSUME NEW k \in 1 .. n, k # i
          PROVE  at2[k] \in 1 .. Len(rt) /\ ts2[k] = rt[at2[k]] /\ at[k] <= at2[k]
      BY <3>1, <1>3, <1>4, <1>11
    <3>2. at2[i] \in 1 .. Len(rt) /\ ts2[i] = rt[at2[i]] /\ at[i] <= at2[i]
      BY <1>4, <1>5, <1>6, <1>11
    <3> QED
      BY <3>1, <3>2
  <2> QED
    BY <2>1, <2>2
<1>15. Placed(c, "DRIVING", rt, ts2, at2)
  <2>1. \A k, l \in 1 .. n : ts2[k] = ts2[l] <=> at2[k] = at2[l]
    <3>1. SUFFICES ASSUME NEW k \in 1 .. n, NEW l \in 1 .. n
                   PROVE  ts2[k] = ts2[l] <=> at2[k] = at2[l]
      OBVIOUS
    <3>2. PICK x, y : x = at2[k] /\ y = at2[l]
      OBVIOUS
    <3>3. x \in 1 .. Len(rt) /\ y \in 1 .. Len(rt) /\ ts2[k] = rt[x] /\ ts2[l] = rt[y]
      BY <3>2, <1>14
    <3> QED
      BY <3>2, <3>3, <1>3
  <2>2. Coupling(c, ts2, at2)
    BY <2>1, <1>11, <1>13 DEF Coupling
  <2>3. OnRoute(c, rt, ts2, at2)
    BY <1>14 DEF OnRoute
  <2> QED
    BY <2>2, <2>3, <1>1 DEF Placed
<1>16. Bound(c, "DRIVING", rt, ts2, at2)
  <2>1. \A p \in at2[1] + 1 .. Len(rt) : rt[p] \in Inner(c)
    <3>1. \A p \in at2[1] + 1 .. Len(rt) : p \in at[1] + 1 .. Len(rt)
      BY <1>3, <1>14
    <3> QED
      BY <3>1, <1>1 DEF Bound
  <2>2. ASSUME at2[n] < at2[1] PROVE ts2[1] \in Inner(c)
    <3>1. 1 \in 1 .. n /\ n \in 1 .. n
      BY <1>1
    <3>2. CASE i = 1
      <4>1. u = rt[at[1] + 1] /\ at[1] + 1 \in at[1] + 1 .. Len(rt)
        BY <3>2, <1>3, <1>5, <1>6
      <4> QED
        BY <4>1, <3>2, <1>1, <1>11 DEF Bound
    <3>3. CASE i # 1
      <4>1. ts2[1] = ts[1] /\ at2[1] = at[1]
        BY <3>1, <3>3, <1>11
      <4>2. at[n] < at[1]
        BY <4>1, <2>2, <3>1, <1>4, <1>14
      <4> QED
        BY <4>1, <4>2, <1>1 DEF Bound
    <3> QED
      BY <3>2, <3>3
  <2>3. "DRIVING" \notin Waiting
    BY DEF Waiting
  <2>4. Compact(c, rt, ts2, at2)
    <3>1. /\ ts[n] = ts[1] \/ <<ts[n], ts[1]>> \in Follows
          /\ \A p \in at[1] .. Len(rt) - 1 : <<rt[p], rt[p + 1]>> \in Follows
      BY <1>1 DEF Bound, Compact
    <3>2. \A p \in at2[1] .. Len(rt) - 1 : <<rt[p], rt[p + 1]>> \in Follows
      <4>1. \A p \in at2[1] .. Len(rt) - 1 : p \in at[1] .. Len(rt) - 1
        BY <1>3, <1>14
      <4> QED
        BY <4>1, <3>1
    <3>3. at[n] \in Nat /\ at[1] \in Nat
      BY <1>4, <1>12a
    <3>4. CASE i = 1 /\ n = 1
      <4>1. at2[n] = at2[1] /\ ts2[n] = ts2[1]
        BY <3>4
      <4> QED
        BY <4>1, <3>2, <1>14 DEF Compact
    <3>5. CASE i = 1 /\ n # 1
      <4>1. at2[n] = at[n] /\ ts2[n] = ts[n] /\ at2[1] = at[1] + 1 /\ ts2[1] = rt[at[1] + 1]
        BY <3>5, <1>5, <1>11, <1>12a
      <4>2. ts[n] = rt[at[1]] /\ at[n] = at[1]
        BY <3>5, <1>4, <1>7b, <1>12a
      <4>3. <<rt[at[1]], rt[at[1] + 1]>> \in Follows
        <5>1. at[1] \in at[1] .. Len(rt) - 1
          BY <3>5, <1>3, <1>6
        <5> QED
          BY <5>1, <3>1
      <4> QED
        BY <4>1, <4>2, <4>3, <3>2, <3>3 DEF Compact
    <3>6. CASE i # 1 /\ i = n
      <4>1. at2[1] = at[1] /\ ts2[1] = ts[1] /\ at2[n] = at[1] /\ ts2[n] = rt[at[1]]
        BY <3>6, <1>5, <1>11, <1>12a
      <4>2. ts[1] = rt[at[1]]
        BY <1>4, <1>12a
      <4> QED
        BY <4>1, <4>2, <3>2, <3>3 DEF Compact
    <3>7. CASE i # 1 /\ i # n
      <4>1. at2[1] = at[1] /\ ts2[1] = ts[1] /\ at2[n] = at[n] /\ ts2[n] = ts[n]
        BY <3>7, <1>11, <1>12a
      <4> QED
        BY <4>1, <3>1, <3>2, <1>12a DEF Compact
    <3> QED
      BY <3>4, <3>5, <3>6, <3>7
  <2> QED
    BY <2>1, <2>2, <2>3, <2>4, <1>1, <1>14 DEF Bound
<1>17. Trains'
  <2>1. Train(c, "DRIVING", rt, ts2, at2)
    BY <1>15, <1>16 DEF Train
  <2>2. "DRIVING" \in States \cup {"SELF_DESTRUCT"} /\ rail' \in RailType
    BY <1>8, <1>10 DEF States
  <2> QED
    BY <2>1, <2>2, <1>10, OneTrainSteps
<1>18. ASSUME AllSecure PROVE KeepsOthers(c)
  <2>1. Safe(r, c, rt, at[1]) /\ \A k \in 1 .. n : rail.reserved[ts[k]] = c
    BY <1>18, <1>7a
  <2>2. \A k \in 1 .. n : r.reserved[ts[k]] = c
    <3>1. SUFFICES ASSUME NEW k \in 1 .. n PROVE r.reserved[ts[k]] = c
      OBVIOUS
    <3>2. ts[k] = rt[at[k]] /\ at[k] \in 1 .. Len(rt) /\ at[k] <= at[1]
      BY <1>3, <1>4
    <3>3. \A p \in at[1] + 1 .. Len(rt) : p \in 1 .. Len(rt) /\ p # at[k]
      BY <3>2, <1>3
    <3>4. ts[k] \in Tiles /\ \A p \in at[1] + 1 .. Len(rt) : rt[p] # ts[k]
      BY <3>2, <3>3, <1>3
    <3> QED
      BY <3>4, <2>1, <1>7a DEF FreesAhead
  <2>3. q.reserved[u] = c
    <3>1. CASE i = 1
      BY <3>1, <1>5, <1>7a, <1>8
    <3>2. CASE i # 1
      <4>1. u = ts[i - 1] /\ i - 1 \in 1 .. n
        BY <3>2, <1>4, <1>5, <1>12
      <4> QED
        BY <4>1, <2>2, <1>8
    <3> QED
      BY <3>1, <3>2
  <2>4. \A k \in 1 .. n : q.reserved[ts2[k]] = c
    <3>1. SUFFICES ASSUME NEW k \in 1 .. n, k # i, ts[k] # u PROVE q.reserved[ts[k]] = c
      BY <2>3, <1>11
    <3>2. ts[k] \in Tiles
      BY <1>2 DEF Coupling
    <3>3. CASE ts[k] = t
      <4>1. at[k] = at[i]
        BY <3>3, <1>2, <1>5 DEF Coupling
      <4>2. ~IsLast(c, i)
        <5>1. SUFFICES ASSUME i = n PROVE FALSE
          BY DEF IsLast
        <5>2. i # 1 /\ k \in 1 .. n /\ i - 1 \in k .. n
          BY <5>1, <3>1, <1>1
        <5>3. at[i - 1] <= at[k]
          BY <5>2, <1>1, <1>2, CoupledInOrder
        <5>4. at[i - 1] \in Nat /\ at[i] \in Nat
          BY <5>2, <1>4, <1>12
        <5> QED
          BY <5>2, <5>3, <5>4, <4>1, <1>12
      <4> QED
        BY <4>2, <3>3, <2>2, <1>8
    <3>4. CASE ts[k] # t
      BY <3>1, <3>2, <3>4, <2>2, <1>8
    <3> QED
      BY <3>3, <3>4
  <2>5. Goes(q, c, "DRIVING", rt, at2[1])
    <3>1. r.last[c] \in Nat /\ r.last[c] <= Len(rt) /\ r.stop[c] \in Nat
      BY <2>1, <1>7 DEF Safe, Holds, RailType
    <3>2. \A p \in at2[1] + 1 .. r.last[c] : q.reserved[rt[p]] = c
      <4>1. SUFFICES ASSUME NEW p \in at2[1] + 1 .. r.last[c] PROVE q.reserved[rt[p]] = c
        OBVIOUS
      <4>2. p \in at[1] + 1 .. r.last[c] /\ p \in 1 .. Len(rt) /\ rt[p] \in Tiles
        BY <3>1, <1>3, <1>14
      <4>3. r.reserved[rt[p]] = c
        BY <4>2, <2>1 DEF Safe, Holds, HeldTo
      <4>4. rt[p] # t
        <5>1. PICK o : o = at[i]
          OBVIOUS
        <5>2. o \in 1 .. Len(rt) /\ o <= at[1] /\ o \in Nat /\ t = rt[o]
          BY <5>1, <1>3, <1>4, <1>6, <1>7a
        <5>3. p # o
          BY <5>2, <4>2, <1>3
        <5> QED
          BY <5>2, <5>3, <4>2, <1>3
      <4> QED
        BY <4>2, <4>3, <4>4, <2>3, <1>8
    <3>3. Holds(q, c, rt, at2[1])
      BY <3>1, <3>2, <1>8 DEF Holds, HeldTo
    <3>4. StopsWell(q, c, rt, at2[1])
      BY <2>1, <3>1, <1>3, <1>8, <1>14 DEF Safe, StopsWell
    <3> QED
      BY <3>3, <3>4 DEF Goes
  <2>6. Takes(rail, q, c) /\ SameIndices(rail, q, c)
    <3>1. r.reserved[t] = c
      BY <2>2, <1>5
    <3>2. Takes(r, q, c)
      BY <3>1, <1>6, <1>8 DEF Takes, CanReserve
    <3>3. Takes(rail, q, c)
      BY <3>2, <1>7 DEF Takes
    <3> QED
      BY <3>3, <1>7, <1>8 DEF SameIndices
  <2>7. Secure(q, c, "DRIVING", rt, ts2, at2)
    BY <2>4, <2>5 DEF Secure
  <2> QED
    BY <2>6, <2>7, <1>8, <1>10, <1>18, OneTrainKeeps
<1> QED
  BY <1>17, <1>18

\* the head of a train asks; what it is told does not disturb anybody
LEMMA AskedSteps ==
    ASSUME Trains, NEW c \in Convoys, state[c] \in Rolling, HeadIndex(c) < Len(route[c]),
           NEW atBorder \in BOOLEAN,
           NEW e, e = CanEnter(rail, c, state[c], route[c], HeadIndex(c), atBorder)
    PROVE  /\ Does(rail, e.r, c, route[c], HeadIndex(c)) /\ e.ok \in BOOLEAN
           /\ e.ok /\ state[c] # "CAN_START" => CanReserve(e.r, c, route[c][HeadIndex(c) + 1])
           /\ AllSecure =>
                 /\ Goes(e.r, c, state[c], route[c], HeadIndex(c))
                 /\ e.ok => Safe(e.r, c, route[c], HeadIndex(c))
                 /\ \A i \in 1 .. Wagons[c] : e.r.reserved[tile[c][i]] = c
<1> DEFINE rt == route[c]
           h == HeadIndex(c)
           st == state[c]
<1>1. /\ Placed(c, st, rt, tile[c], index[c]) /\ Wagons[c] \in Nat \ {0}
      /\ OnRoute(c, rt, tile[c], index[c]) /\ Way(rt, h)
  BY RollingTrain DEF Rolling, Waiting
<1>2. SignalsLeft /\ rail \in RailType
  BY DEF Trains, TypeOK
<1> HIDE DEF rt, h, st
<1>3. /\ Does(rail, e.r, c, rt, h) /\ e.ok \in BOOLEAN
      /\ Goes(rail, c, st, rt, h) =>
            Goes(e.r, c, st, rt, h) /\ (e.ok => Safe(e.r, c, rt, h))
      /\ e.ok /\ st # "CAN_START" => CanReserve(e.r, c, rt[h + 1])
  <2>1. h < Len(rt) /\ e = CanEnter(rail, c, st, rt, h, atBorder)
    BY DEF h, rt, st
  <2> QED
    BY <2>1, <1>1, <1>2, CanEnterDoes
<1>4. ASSUME AllSecure
      PROVE  Goes(rail, c, st, rt, h) /\ \A i \in 1 .. Wagons[c] : rail.reserved[tile[c][i]] = c
  BY <1>4 DEF AllSecure, Secure, h, rt, st, HeadIndex, Rolling, Waiting
<1>5. ASSUME NEW i \in 1 .. Wagons[c], rail.reserved[tile[c][i]] = c
      PROVE  e.r.reserved[tile[c][i]] = c
  <2>1. Coupled(Wagons[c], index[c]) /\ tile[c][i] \in Tiles /\ tile[c][i] = rt[index[c][i]]
    BY <1>1 DEF Placed, Coupling, OnRoute
  <2>2. index[c][i] <= h /\ index[c][i] \in Nat \ {0}
    <3>1. 1 \in 1 .. Wagons[c] /\ Wagons[c] \in Nat /\ i \in 1 .. Wagons[c]
      BY <1>1
    <3>2. index[c][i] <= index[c][1]
      BY <3>1, <2>1, CoupledInOrder
    <3> QED
      BY <3>1, <3>2, <2>1 DEF Coupled, h, HeadIndex
  <2>3. /\ Len(rt) \in Nat /\ h \in Nat \ {0} /\ h <= Len(rt)
        /\ \A p, o \in 1 .. Len(rt) : rt[p] = rt[o] => p = o
    BY <1>1, WayTiles
  <2>4. \A p \in h + 1 .. Len(rt) : rt[p] # tile[c][i]
    <3>1. \A p \in h + 1 .. Len(rt) : p \in 1 .. Len(rt) /\ p # index[c][i]
      BY <2>2, <2>3
    <3>2. index[c][i] \in 1 .. Len(rt)
      BY <2>2, <2>3
    <3> QED
      BY <3>1, <3>2, <2>1, <2>3
  <2> QED
    BY <2>1, <2>4, <1>3, <1>5 DEF Does, FreesAhead
<1>6. ASSUME AllSecure
      PROVE  /\ Goes(e.r, c, st, rt, h) /\ (e.ok => Safe(e.r, c, rt, h))
             /\ \A i \in 1 .. Wagons[c] : e.r.reserved[tile[c][i]] = c
  BY <1>3, <1>4, <1>5, <1>6
<1> QED
  BY <1>3, <1>6 DEF rt, h, st

\* a train that stays where it is
LEMMA OneStateSteps ==
    ASSUME Trains, NEW c \in Convoys, NEW st \in States,
           Train(c, st, route[c], tile[c], index[c]), rail' \in RailType,
           state' = [state EXCEPT ![c] = st], UNCHANGED <<signal, route, tile, index>>
    PROVE  Trains'
<1>1. PICK rt, ts, at : rt = route[c] /\ ts = tile[c] /\ at = index[c]
  OBVIOUS
<1>2. /\ route' = [route EXCEPT ![c] = rt] /\ tile' = [tile EXCEPT ![c] = ts]
      /\ index' = [index EXCEPT ![c] = at]
  BY <1>1 DEF Trains, TypeOK
<1>3. Train(c, st, rt, ts, at) /\ signal' = signal
  BY <1>1
<1>4. st \in States \cup {"SELF_DESTRUCT"}
  OBVIOUS
<1> QED
  BY <1>2, <1>3, <1>4, OneTrainSteps

LEMMA TrainStays ==
    ASSUME Trains, NEW c \in Convoys, state[c] \in Rolling, HeadIndex(c) < Len(route[c]),
           NEW q, Does(rail, q, c, route[c], HeadIndex(c)), rail' = q,
           NEW st \in Rolling, state' = [state EXCEPT ![c] = st],
           AllSecure => /\ Goes(q, c, st, route[c], HeadIndex(c))
                        /\ \A i \in 1 .. Wagons[c] : q.reserved[tile[c][i]] = c,
           UNCHANGED <<signal, route, tile, index>>
    PROVE  Trains' /\ (AllSecure => KeepsOthers(c))
<1> DEFINE rt == route[c]
           ts == tile[c]
           at == index[c]
<1>1. /\ route' = [route EXCEPT ![c] = rt] /\ tile' = [tile EXCEPT ![c] = ts]
      /\ index' = [index EXCEPT ![c] = at]
  BY DEF Trains, TypeOK
<1>2. /\ Placed(c, state[c], rt, ts, at) /\ Bound(c, state[c], rt, ts, at)
      /\ OnRoute(c, rt, ts, at) /\ at[1] < Len(rt)
  BY RollingTrain DEF HeadIndex, Rolling, Waiting
<1>3. q \in RailType /\ Takes(rail, q, c) /\ SameIndices(rail, q, c)
  BY DEF Does
<1>4. AllSecure => Secure(q, c, st, rt, ts, at)
  BY DEF Secure, HeadIndex
<1> HIDE DEF rt, ts, at
<1>5. st # "SELF_DESTRUCT" /\ st \in States
  BY DEF States, Rolling, Waiting
<1>6. Train(c, st, rt, ts, at)
  BY <1>2, <1>5 DEF Placed, Bound, Train
<1>7. Trains'
  <2>1. Train(c, st, route[c], tile[c], index[c]) /\ st \in States /\ rail' \in RailType
    BY <1>3, <1>5, <1>6 DEF rt, ts, at
  <2> QED
    BY <2>1, OneStateSteps
<1>8. ASSUME AllSecure PROVE KeepsOthers(c)
  BY <1>1, <1>3, <1>4, <1>8, OneTrainKeeps
<1> QED
  BY <1>7, <1>8

LEMMA ProceedSteps ==
    ASSUME Trains, NEW c \in Convoys, Proceed(c)
    PROVE  Trains' /\ (AllSecure => KeepsOthers(c))
<1>1. PICK atBorder \in BOOLEAN :
         \E e \in {CanEnter(rail, c, state[c], route[c], HeadIndex(c), atBorder)} :
            /\ rail' = e.r
            /\ state' = IF e.ok THEN [state EXCEPT ![c] = "DRIVING"] ELSE state
  BY DEF Proceed
<1>2. PICK e : /\ e = CanEnter(rail, c, state[c], route[c], HeadIndex(c), atBorder)
               /\ rail' = e.r
               /\ state' = IF e.ok THEN [state EXCEPT ![c] = "DRIVING"] ELSE state
  BY <1>1
<1>3. /\ state[c] \in Rolling /\ HeadIndex(c) < Len(route[c])
      /\ UNCHANGED <<signal, route, tile, index>>
  <2>1. state[c] \in Waiting
    BY DEF Proceed
  <2>2. state[c] # "SELF_DESTRUCT"
    BY <2>1 DEF Waiting
  <2> QED
    BY <2>1, <2>2, RollingTrain DEF Bound, Rolling, HeadIndex, Proceed
<1>4. /\ Does(rail, e.r, c, route[c], HeadIndex(c)) /\ e.ok \in BOOLEAN
      /\ AllSecure =>
            /\ Goes(e.r, c, state[c], route[c], HeadIndex(c))
            /\ e.ok => Safe(e.r, c, route[c], HeadIndex(c))
            /\ \A i \in 1 .. Wagons[c] : e.r.reserved[tile[c][i]] = c
  BY <1>2, <1>3, AskedSteps
<1>5. PICK st : st = IF e.ok THEN "DRIVING" ELSE state[c]
  OBVIOUS
<1>6. st \in Rolling /\ state' = [state EXCEPT ![c] = st]
  BY <1>2, <1>3, <1>5 DEF Rolling, Trains, TypeOK
<1>7. AllSecure => Goes(e.r, c, st, route[c], HeadIndex(c))
  BY <1>4, <1>5 DEF Goes, Safe
<1>8. PICK q : q = e.r
  OBVIOUS
<1> QED
  BY <1>2, <1>3, <1>4, <1>6, <1>7, <1>8, TrainStays

LEMMA HeadHopsSteps ==
    ASSUME Trains, NEW c \in Convoys, HeadHops(c)
    PROVE  Trains' /\ (AllSecure => KeepsOthers(c))
<1>1. /\ state[c] = "DRIVING" /\ HeadIndex(c) < Len(route[c]) /\ HeadIndex(c) = TailIndex(c)
      /\ state[c] \in Rolling
  BY DEF HeadHops, Rolling
<1>2. PICK e : /\ e = CanEnter(rail, c, state[c], route[c], HeadIndex(c), TRUE)
               /\ \/ e.ok /\ Hop(e.r, c, 1) /\ UNCHANGED <<signal, state, route>>
                  \/ /\ ~e.ok
                     /\ state' = [state EXCEPT ![c] = "WAITING_FOR_CLEARANCE"]
                     /\ rail' = e.r
                     /\ UNCHANGED <<signal, route, tile, index>>
  BY DEF HeadHops
<1>3. /\ Does(rail, e.r, c, route[c], HeadIndex(c)) /\ e.ok \in BOOLEAN
      /\ e.ok => CanReserve(e.r, c, route[c][HeadIndex(c) + 1])
      /\ AllSecure =>
            /\ Goes(e.r, c, state[c], route[c], HeadIndex(c))
            /\ e.ok => Safe(e.r, c, route[c], HeadIndex(c))
            /\ \A i \in 1 .. Wagons[c] : e.r.reserved[tile[c][i]] = c
  <2>1. PICK atBorder \in BOOLEAN : atBorder = TRUE
    OBVIOUS
  <2>2. e = CanEnter(rail, c, state[c], route[c], HeadIndex(c), atBorder)
    BY <2>1, <1>2
  <2>3. state[c] # "CAN_START"
    BY <1>1
  <2> QED
    BY <2>2, <2>3, <1>1, AskedSteps
<1>4. PICK q : q = e.r
  OBVIOUS
<1>5. CASE e.ok
  <2>1. /\ Hop(q, c, 1) /\ UNCHANGED <<signal, state, route>>
        /\ Does(rail, q, c, route[c], HeadIndex(c))
        /\ CanReserve(q, c, route[c][HeadIndex(c) + 1])
        /\ AllSecure => Safe(q, c, route[c], HeadIndex(c))
    BY <1>2, <1>3, <1>4, <1>5
  <2>2. PICK i : i = 1
    OBVIOUS
  <2>3. i \in 1 .. Wagons[c] /\ index[c][i] < Len(route[c]) /\ Hop(q, c, i)
    BY <2>1, <2>2, <1>1, ConvoyAssumption DEF HeadIndex
  <2> QED
    BY <2>1, <2>2, <2>3, <1>1, HopSteps
<1>6. CASE ~e.ok
  <2>1. PICK st : st = "WAITING_FOR_CLEARANCE"
    OBVIOUS
  <2>2. st \in Rolling /\ state' = [state EXCEPT ![c] = st] /\ rail' = q
        /\ UNCHANGED <<signal, route, tile, index>>
    BY <2>1, <1>2, <1>4, <1>6 DEF Rolling, Waiting
  <2>3. AllSecure => /\ Goes(q, c, st, route[c], HeadIndex(c))
                     /\ \A i \in 1 .. Wagons[c] : q.reserved[tile[c][i]] = c
    BY <2>1, <1>1, <1>3, <1>4 DEF Goes
  <2>4. Does(rail, q, c, route[c], HeadIndex(c))
    BY <1>3, <1>4
  <2> QED
    BY <2>2, <2>3, <2>4, <1>1, TrainStays
<1> QED
  BY <1>3, <1>5, <1>6

LEMMA FollowerHopsSteps ==
    ASSUME Trains, NEW c \in Convoys, FollowerHops(c)
    PROVE  Trains' /\ (AllSecure => KeepsOthers(c))
<1>1. state[c] = "DRIVING" /\ state[c] \in Rolling /\ UNCHANGED <<signal, state, route>>
  BY DEF FollowerHops, Rolling
<1>2. PICK i \in 2 .. Wagons[c] : index[c][i] < index[c][i - 1] /\ Hop(rail, c, i)
  BY DEF FollowerHops
<1>3. /\ Wagons[c] \in Nat \ {0} /\ OnRoute(c, route[c], tile[c], index[c])
      /\ Coupled(Wagons[c], index[c]) /\ Len(route[c]) \in Nat
  BY <1>1, RollingTrain DEF Placed, Coupling
<1>4. index[c][i] < Len(route[c]) /\ i \in 1 .. Wagons[c] /\ i # 1
  <2>1. i \in 1 .. Wagons[c] /\ i - 1 \in 1 .. Wagons[c] /\ i # 1 /\ 1 \in 1 .. Wagons[c]
    BY <1>3
  <2>2. index[c][i - 1] <= index[c][1] /\ index[c][1] <= Len(route[c])
    <3>1. PICK k : k = i - 1
      OBVIOUS
    <3>2. k \in 1 .. Wagons[c] /\ Wagons[c] \in Nat
      BY <3>1, <2>1, <1>3
    <3>3. index[c][k] <= index[c][1]
      BY <3>2, <2>1, <1>3, CoupledInOrder
    <3> QED
      BY <3>1, <3>3, <1>3 DEF OnRoute
  <2>3. index[c][i] \in Nat /\ index[c][i - 1] \in Nat /\ index[c][1] \in Nat
    BY <2>1, <1>3 DEF Coupled
  <2> QED
    BY <2>1, <2>2, <2>3, <1>2, <1>3
<1>5. Does(rail, rail, c, route[c], HeadIndex(c))
  <2>1. rail \in RailType
    BY DEF Trains, TypeOK
  <2> QED
    BY <2>1, DoesNothing
<1>6. AllSecure => Safe(rail, c, route[c], HeadIndex(c))
  BY <1>1 DEF AllSecure, Secure, Goes, Safe, HeadIndex
<1>7. i = 1 => CanReserve(rail, c, route[c][HeadIndex(c) + 1])
  BY <1>4
<1>8. PICK r : r = rail
  OBVIOUS
<1>9. /\ Does(rail, r, c, route[c], HeadIndex(c)) /\ Hop(r, c, i)
      /\ AllSecure => Safe(r, c, route[c], HeadIndex(c))
  BY <1>2, <1>5, <1>6, <1>8
<1> QED
  BY <1>1, <1>2, <1>4, <1>9, HopSteps

-----------------------------------------------------------------------------
(* Searching for a route.                                                  *)

LEMMA RouteFreedDoes ==
    ASSUME Trains, NEW c \in Convoys, state[c] # "SELF_DESTRUCT", NEW r, r = RouteFreed(c)
    PROVE  /\ r \in RailType /\ Takes(rail, r, c) /\ SameIndices(rail, r, c) /\ r.last[c] = 0
           /\ HeadIndex(c) >= Len(route[c]) => r.reserved = rail.reserved
           /\ \A t \in Tiles : t \notin TilesOf(route[c], TailIndex(c) + 1 .. Len(route[c])) =>
                 r.reserved[t] = rail.reserved[t]
<1>1. /\ HeadIndex(c) \in Nat /\ TailIndex(c) \in Nat /\ Len(route[c]) \in Nat \ {0}
      /\ route[c] \in Seq(Tiles) /\ rail \in RailType
  BY RollingTrain DEF Trains, TypeOK
<1>2. PICK p, start, all : /\ start = TailIndex(c) + 1 /\ all = TRUE
                           /\ p = IF HeadIndex(c) < Len(route[c])
                                  THEN BlockUnreserve(rail, c, route[c], start, all) ELSE rail
  OBVIOUS
<1>3. HeadIndex(c) < Len(route[c]) => Frees(rail, p, c, route[c], start)
  <2>1. SUFFICES ASSUME HeadIndex(c) < Len(route[c]) PROVE Frees(rail, p, c, route[c], start)
    OBVIOUS
  <2>2. p = BlockUnreserve(rail, c, route[c], start, all)
    BY <2>1, <1>2
  <2>3. start \in Nat \ {0} /\ all \in BOOLEAN /\ Len(route[c]) > 0
    BY <1>1, <1>2
  <2> QED
    BY <2>2, <2>3, <1>1, BlockUnreserveDoes
<1>4. /\ p \in RailType /\ Takes(rail, p, c) /\ SameIndices(rail, p, c)
      /\ HeadIndex(c) >= Len(route[c]) => p.reserved = rail.reserved
      /\ \A t \in Tiles : t \notin TilesOf(route[c], start .. Len(route[c])) =>
            p.reserved[t] = rail.reserved[t]
  <2>1. CASE HeadIndex(c) < Len(route[c])
    <3>1. ~(HeadIndex(c) >= Len(route[c]))
      BY <2>1, <1>1
    <3> QED
      BY <3>1, <2>1, <1>3 DEF Frees
  <2>2. CASE ~(HeadIndex(c) < Len(route[c]))
    <3>1. p = rail
      BY <2>2, <1>2
    <3> QED
      BY <3>1, <1>1 DEF Takes, SameIndices
  <2> QED
    BY <2>1, <2>2
<1>5. PICK n : n = 0
  OBVIOUS
<1>6. r = SetLast(p, c, n) /\ n \in Nat
  BY <1>2, <1>5 DEF RouteFreed
<1>7. PICK q : q = SetLast(p, c, n)
  OBVIOUS
<1>8. /\ Does(p, q, c, route[c], 1) /\ q.last[c] = n /\ q.reserved = p.reserved
  BY <1>4, <1>6, <1>7, SetLastDoes
<1>9. q = r
  BY <1>6, <1>7
<1>10. /\ r \in RailType /\ r.last[c] = 0 /\ r.reserved = p.reserved /\ SameIndices(p, r, c)
  BY <1>5, <1>8, <1>9 DEF Does
<1>11. Takes(rail, r, c) /\ SameIndices(rail, r, c)
  BY <1>4, <1>10 DEF Takes, SameIndices
<1> QED
  BY <1>2, <1>4, <1>10, <1>11

LEMMA NoRouteSteps ==
    ASSUME Trains, NEW c \in Convoys, state[c] # "SELF_DESTRUCT",
           NEW goal \in Goals[c] \ {HeadTile(c)}, NoRoute(c, goal)
    PROVE  Trains' /\ (AllSecure /\ SearchesSucceed => KeepsOthers(c))
<1> DEFINE ts == tile[c]
           at == index[c]
           n == Wagons[c]
<1>1. /\ Placed(c, state[c], route[c], ts, at) /\ Bound(c, state[c], route[c], ts, at)
      /\ n \in Nat \ {0} /\ at[1] \in Nat \ {0} /\ at[n] \in Nat \ {0} /\ at[n] <= at[1]
      /\ Len(route[c]) \in Nat \ {0}
  BY RollingTrain DEF HeadIndex, TailIndex
<1>2. PICK st, rt, r : st = "NO_ROUTE" /\ rt = <<goal>> /\ r = RouteFreed(c)
  OBVIOUS
<1>3. /\ rail' = r /\ signal' = signal /\ state' = [state EXCEPT ![c] = st]
      /\ route' = [route EXCEPT ![c] = rt]
      /\ tile' = [tile EXCEPT ![c] = ts] /\ index' = [index EXCEPT ![c] = at]
  BY <1>2 DEF NoRoute, Trains, TypeOK
<1>4. /\ r \in RailType /\ Takes(rail, r, c) /\ SameIndices(rail, r, c)
      /\ at[1] >= Len(route[c]) => r.reserved = rail.reserved
      /\ \A t \in Tiles : t \notin TilesOf(route[c], at[n] + 1 .. Len(route[c])) =>
            r.reserved[t] = rail.reserved[t]
  BY <1>2, RouteFreedDoes DEF HeadIndex, TailIndex
<1>5. /\ st \in States /\ st # "SELF_DESTRUCT" /\ st \notin Rolling /\ st \notin Waiting
  BY <1>2 DEF States, Rolling, Waiting
<1>6. Train(c, st, rt, ts, at)
  <2>1. goal \in Tiles
    BY LayoutAssumption
  <2>2. rt \in Seq(Tiles) /\ Len(rt) = 1 /\ rt # <<>>
    BY <2>1, <1>2
  <2>3. IsInjective(rt)
    BY <1>2 DEF IsInjective
  <2>4. Placed(c, st, rt, ts, at)
    BY <2>2, <2>3, <1>1, <1>5 DEF Placed
  <2>5. \A p \in at[1] + 1 .. Len(rt) : FALSE
    BY <2>2, <1>1
  <2>5a. Compact(c, rt, ts, at)
    <3>1. \A p \in at[1] .. Len(rt) - 1 : FALSE
      BY <2>2, <1>1
    <3>2. Compact(c, route[c], ts, at)
      BY <1>1 DEF Bound
    <3> HIDE DEF ts, at
    <3> QED
      BY <3>1, <3>2 DEF Compact
  <2>6. Bound(c, st, rt, ts, at)
    BY <2>5, <2>5a, <1>1, <1>5 DEF Bound
  <2> QED
    BY <2>4, <2>6, <1>5 DEF Train
<1>7. Trains'
  <2>1. st \in States \cup {"SELF_DESTRUCT"} /\ rail' \in RailType
    BY <1>3, <1>4, <1>5
  <2> HIDE DEF ts, at
  <2> QED
    BY <2>1, <1>3, <1>6, OneTrainSteps
<1>8. ASSUME AllSecure, SearchesSucceed PROVE KeepsOthers(c)
  <2>1. \A i \in 1 .. n : rail.reserved[ts[i]] = c /\ ts[i] \in Tiles
    BY <1>1, <1>8 DEF AllSecure, Secure, Placed, Coupling
  <2>2. \A i \in 1 .. n : r.reserved[ts[i]] = c
    <3>1. CASE at[1] >= Len(route[c])
      BY <3>1, <2>1, <1>4
    <3>2. CASE ~(at[1] >= Len(route[c]))
      <4>1. OnRoute(c, route[c], ts, at) /\ at[1] < Len(route[c])
        <5>1. at[1] < Len(route[c]) /\ Len(route[c]) # 1
          <6>1. PICK a, l : a = at[1] /\ l = Len(route[c])
            OBVIOUS
          <6>2. a \in Nat \ {0} /\ l \in Nat \ {0} /\ ~(a >= l)
            BY <6>1, <3>2, <1>1
          <6>3. a < l /\ l # 1
            BY <6>2
          <6> QED
            BY <6>1, <6>3
        <5>2. OnRoute(c, route[c], ts, at) \/ Len(route[c]) = 1
          BY <1>1 DEF Placed
        <5> QED
          BY <5>1, <5>2
      <4>2. ~(at[n] < at[1])
        <5>1. SUFFICES ASSUME at[n] < at[1] PROVE FALSE
          OBVIOUS
        <5>2. ts[1] \in Inner(c)
          BY <5>1, <1>1 DEF Bound
        <5>3. PICK o \in Routes : Last(o) \in Goals[c] /\ \E i \in 2 .. Len(o) : o[i] = ts[1]
          BY <5>2 DEF Inner
        <5>4. PICK i \in 2 .. Len(o) : o[i] = ts[1]
          BY <5>3
        <5>5. n > 1
          BY <5>1, <1>1
        <5>6. goal # o[i] /\ goal \in Goals[c]
          BY <5>4 DEF HeadTile
        <5>7. \E found \in Routes : found[1] = o[i] /\ Last(found) = goal
          BY <5>3, <5>5, <5>6, <1>8 DEF SearchesSucceed
        <5>8. RoutesTo(c, goal) # {}
          BY <5>4, <5>7 DEF RoutesTo, HeadTile
        <5> QED
          BY <5>8 DEF NoRoute
      <4>3. \A i \in 1 .. n : ts[i] = route[c][at[1]]
        <5>1. SUFFICES ASSUME NEW i \in 1 .. n PROVE at[i] = at[1]
          BY <4>1 DEF OnRoute
        <5>2. at[i] <= at[1] /\ at[n] <= at[i] /\ at[i] \in Nat
          <6>1. Coupled(n, at)
            BY <1>1 DEF Placed, Coupling
          <6>2. 1 \in 1 .. n /\ i \in 1 .. n /\ n \in i .. n /\ n \in Nat
            BY <1>1
          <6> QED
            BY <6>1, <6>2, CoupledInOrder DEF Coupled
        <5> QED
          BY <5>2, <4>2, <1>1
      <4>4. \A p \in at[n] + 1 .. Len(route[c]) : route[c][p] # route[c][at[1]]
        <5>1. Way(route[c], at[1])
          BY <4>1, <1>1 DEF Way, Placed
        <5>2. \A p, o \in 1 .. Len(route[c]) : route[c][p] = route[c][o] => p = o
          BY <5>1, WayTiles
        <5>3. \A p \in at[n] + 1 .. Len(route[c]) : p \in 1 .. Len(route[c]) /\ p # at[1]
          BY <4>2, <1>1
        <5>4. at[1] \in 1 .. Len(route[c])
          BY <4>1, <1>1
        <5> QED
          BY <5>2, <5>3, <5>4
      <4> QED
        BY <4>3, <4>4, <2>1, <1>4 DEF TilesOf
    <3> QED
      BY <3>1, <3>2
  <2>3. Secure(r, c, st, rt, ts, at)
    BY <2>2, <1>5 DEF Secure
  <2> HIDE DEF ts, at
  <2> QED
    BY <2>3, <1>3, <1>4, <1>8, OneTrainKeeps
<1> QED
  BY <1>7, <1>8

\* vorfahren: c sets off on the route rt; r is what rail is then
LEMMA SetOffSteps ==
    ASSUME Trains, NEW c \in Convoys, NEW r \in RailType, NEW rt, NEW at, NEW ts,
           Coupling(c, ts, at), OnRoute(c, rt, ts, at), Way(rt, at[1]), at[1] < Len(rt),
           Bound(c, "CAN_START", rt, ts, at),
           AllSecure => /\ Takes(rail, r, c) /\ SameIndices(rail, r, c) /\ r.last[c] = 0
                        /\ \A i \in 1 .. Wagons[c] : CanReserve(r, c, ts[i]),
           SetOff(c, r, rt, at, ts)
    PROVE  Trains' /\ (AllSecure => KeepsOthers(c))
<1>1. PICK atBorder \in BOOLEAN :
         \E e \in {CanEnter(r, c, "CAN_START", rt, at[1], atBorder)} :
            /\ state' = [state EXCEPT ![c] = IF e.ok THEN "DRIVING" ELSE "CAN_START"]
            /\ rail'  = ReserveTiles(e.r, c, ToSet(ts))
            /\ route' = [route EXCEPT ![c] = rt]
            /\ tile'  = [tile EXCEPT ![c] = ts]
            /\ index' = [index EXCEPT ![c] = at]
            /\ UNCHANGED signal
  BY DEF SetOff
<1>1a. PICK e : /\ e = CanEnter(r, c, "CAN_START", rt, at[1], atBorder)
                /\ state' = [state EXCEPT ![c] = IF e.ok THEN "DRIVING" ELSE "CAN_START"]
                /\ rail'  = ReserveTiles(e.r, c, ToSet(ts))
                /\ route' = [route EXCEPT ![c] = rt]
                /\ tile'  = [tile EXCEPT ![c] = ts]
                /\ index' = [index EXCEPT ![c] = at]
                /\ UNCHANGED signal
  BY <1>1
<1>1b. PICK st, p, q, h, was : /\ was = "CAN_START" /\ h = at[1] /\ p = e.r
                               /\ st = IF e.ok THEN "DRIVING" ELSE "CAN_START"
                               /\ q = ReserveTiles(p, c, ToSet(ts))
  OBVIOUS
<1>2. /\ was = "CAN_START" /\ h = at[1] /\ e = CanEnter(r, c, was, rt, h, atBorder)
      /\ st = (IF e.ok THEN "DRIVING" ELSE "CAN_START")
      /\ p = e.r /\ q = ReserveTiles(p, c, ToSet(ts))
      /\ state' = [state EXCEPT ![c] = st] /\ rail'  = q
      /\ route' = [route EXCEPT ![c] = rt]
      /\ tile'  = [tile EXCEPT ![c] = ts]
      /\ index' = [index EXCEPT ![c] = at]
      /\ UNCHANGED signal
  BY <1>1a, <1>1b
<1>3. /\ Does(r, p, c, rt, h) /\ e.ok \in BOOLEAN
      /\ Goes(r, c, was, rt, h) => Holds(p, c, rt, h) /\ (e.ok => Safe(p, c, rt, h))
  <2>1. SignalsLeft /\ Way(rt, h) /\ h < Len(rt) /\ e = CanEnter(r, c, was, rt, h, atBorder)
    BY <1>2 DEF Trains
  <2>2. /\ Does(r, e.r, c, rt, h) /\ e.ok \in BOOLEAN
        /\ Goes(r, c, was, rt, h) => Goes(e.r, c, was, rt, h) /\ (e.ok => Safe(e.r, c, rt, h))
    BY <2>1, CanEnterDoes
  <2> QED
    BY <2>2, <1>2 DEF Goes
<1>4. p \in RailType /\ Takes(r, p, c) /\ SameIndices(r, p, c)
  BY <1>3 DEF Does
<1>5. /\ q \in RailType /\ q.last = p.last /\ q.stop = p.stop
      /\ \A t \in Tiles : q.reserved[t] =
            IF t \in ToSet(ts) /\ CanReserve(p, c, t) THEN c ELSE p.reserved[t]
  BY <1>2, <1>4, ReserveTilesDoes DEF OnlyTiles
<1>6. st \in {"DRIVING", "CAN_START"} /\ (st = "DRIVING" => e.ok)
  BY <1>2
<1>7. Train(c, st, rt, ts, at)
  <2>1. Placed(c, st, rt, ts, at)
    <3>1. rt # <<>> /\ rt \in Seq(Tiles) /\ IsInjective(rt)
      BY DEF Way
    <3> QED
      BY <3>1 DEF Placed
  <2>2. Bound(c, st, rt, ts, at)
    BY <1>6 DEF Bound, Rolling, Waiting
  <2> QED
    BY <2>1, <2>2, <1>6 DEF Train
<1>8. Trains'
  <2>1. st \in States \cup {"SELF_DESTRUCT"} /\ rail' \in RailType
    BY <1>2, <1>5, <1>6 DEF States, Waiting
  <2> QED
    BY <2>1, <1>2, <1>7, OneTrainSteps
<1>9. ASSUME AllSecure PROVE KeepsOthers(c)
  <2>1. /\ Takes(rail, r, c) /\ SameIndices(rail, r, c) /\ r.last[c] = 0
        /\ \A i \in 1 .. Wagons[c] : CanReserve(r, c, ts[i])
    BY <1>9
  <2>2. /\ Len(rt) \in Nat /\ h \in Nat \ {0} /\ h <= Len(rt)
        /\ \A i \in 1 .. Len(rt) : rt[i] \in Tiles
    BY <1>2, WayTiles
  <2>3. Goes(r, c, was, rt, h)
    <3>1. \A i \in h + 1 .. r.last[c] : FALSE
      BY <2>1, <2>2
    <3>2. Holds(r, c, rt, h)
      BY <3>1, <2>1, <2>2 DEF Holds, HeldTo
    <3> QED
      BY <3>2, <1>2 DEF Goes
  <2>4. Holds(p, c, rt, h) /\ (e.ok => StopsWell(p, c, rt, h))
    BY <2>3, <1>3 DEF Safe
  <2>5. \A t \in Tiles : p.reserved[t] = c => q.reserved[t] = c
    BY <1>5
  <2>6. Holds(q, c, rt, h)
    <3>1. p.last[c] <= Len(rt) /\ \A i \in h + 1 .. p.last[c] : p.reserved[rt[i]] = c
      BY <2>4 DEF Holds, HeldTo
    <3>2. p.last[c] \in Nat
      BY <1>4 DEF RailType
    <3>3. \A i \in h + 1 .. p.last[c] : i \in 1 .. Len(rt)
      BY <3>1, <3>2, <2>2
    <3> QED
      BY <3>1, <3>3, <2>2, <2>5, <1>5 DEF Holds, HeldTo
  <2>7. e.ok => StopsWell(q, c, rt, h)
    BY <2>4, <1>5 DEF StopsWell
  <2>8. Goes(q, c, st, rt, h)
    BY <2>6, <2>7, <1>6 DEF Goes
  <2>9. ASSUME NEW i \in 1 .. Wagons[c] PROVE q.reserved[ts[i]] = c
    <3>1. ts[i] \in Tiles /\ i \in DOMAIN ts
      BY DEF Coupling
    <3>2. ts[i] \in ToSet(ts)
      BY <3>1 DEF ToSet
    <3>3. CanReserve(p, c, ts[i])
      BY <3>1, <2>1, <1>4, StillReservable
    <3> QED
      BY <3>1, <3>2, <3>3, <1>5
  <2>10. Secure(q, c, st, rt, ts, at)
    BY <2>8, <2>9, <1>2 DEF Secure
  <2>11. Takes(p, q, c)
    BY <1>5 DEF Takes, CanReserve
  <2>12. Takes(rail, q, c)
    BY <2>1, <2>11, <1>4 DEF Takes
  <2>13. SameIndices(rail, q, c)
    BY <2>1, <1>4, <1>5 DEF SameIndices
  <2> QED
    BY <2>10, <2>12, <2>13, <1>2, <1>5, <1>9, OneTrainKeeps
<1> QED
  BY <1>8, <1>9

LEMMA TakenOffDoes ==
    ASSUME Trains, NEW c \in Convoys, NEW r \in RailType, NEW q, q = TakenOff(c, r)
    PROVE  /\ q \in RailType /\ q.last = r.last /\ q.stop = r.stop
           /\ \A t \in Tiles : q.reserved[t] = IF t \in Own(c) THEN NoConvoy ELSE r.reserved[t]
<1>1. PICK p, V : /\ p = ClearTiles(r, Own(c)) /\ q = Release2(p, V)
                  /\ V = {<<c, i>> : i \in {j \in DOMAIN tile[c] : tile[c][j] \in CrossingTiles}}
  BY DEF TakenOff
<1>2. V \in SUBSET Vehicles
  <2>1. tile[c] \in Seq(Tiles)
    BY DEF Trains, TypeOK
  <2>2. DOMAIN tile[c] \subseteq Nat
    BY <2>1
  <2> QED
    BY <2>2, <1>1 DEF Vehicles
<1>3. /\ OnlyTiles(r, p)
      /\ \A t \in Tiles : p.reserved[t] = IF t \in Own(c) THEN NoConvoy ELSE r.reserved[t]
  BY <1>1, ClearTilesDoes
<1>4. OnlyCrossing(p, q)
  BY <1>1, <1>2, <1>3, ReleaseDoes DEF OnlyTiles
<1> QED
  BY <1>3, <1>4 DEF OnlyTiles, OnlyCrossing

\* a route of c to an entry of its schedule
Leads(c, rt) ==
    /\ rt \in Seq(Tiles) /\ Len(rt) > 1 /\ IsInjective(rt)
    /\ \E o \in Routes : Last(o) = Last(rt)
    /\ \A p \in 2 .. Len(rt) : rt[p] \in Inner(c)
    /\ \A p \in 1 .. Len(rt) - 1 : <<rt[p], rt[p + 1]>> \in Follows

LEMMA RouteLeads ==
    ASSUME NEW c \in Convoys, NEW goal \in Goals[c], NEW rt \in RoutesTo(c, goal)
    PROVE  Leads(c, rt) /\ rt \in Routes /\ rt[1] = HeadTile(c) /\ Len(rt) \in Nat
<1>1. rt \in Routes /\ rt[1] = HeadTile(c) /\ Last(rt) = goal
  BY DEF RoutesTo
<1>2. rt \in Seq(Tiles) /\ Len(rt) > 1 /\ IsInjective(rt) /\ Len(rt) \in Nat
  BY <1>1, LayoutAssumption
<1>3. \A p \in 2 .. Len(rt) : rt[p] \in Inner(c)
  <2>1. \A p \in 2 .. Len(rt) : rt[p] \in Tiles
    BY <1>2
  <2> QED
    BY <2>1, <1>1 DEF Inner
<1>4. \A p \in 1 .. Len(rt) - 1 : <<rt[p], rt[p + 1]>> \in Follows
  BY <1>1, RoutesFollow
<1> QED
  BY <1>1, <1>2, <1>3, <1>4 DEF Leads

\* new leads along rt from position h on
Along(rt, new, h) ==
    Len(new) = h - 1 + Len(rt) /\ \A p \in h .. Len(new) : new[p] = rt[p - h + 1]

\* where the head of c is on a route that begins at its tail
HeadPlace(c) == IF TailTile(c) = HeadTile(c) THEN 1 ELSE 2

\* The tiles of a train, and which of them it has come from.
LEMMA TailAndHead ==
    ASSUME Trains, NEW c \in Convoys, state[c] # "SELF_DESTRUCT"
    PROVE  /\ HeadTile(c) \in Tiles /\ TailTile(c) \in Tiles
           /\ HeadTile(c) \in Own(c) /\ TailTile(c) \in Own(c)
           /\ TailTile(c) # HeadTile(c) =>
                 /\ <<TailTile(c), HeadTile(c)>> \in Follows
                 /\ HeadTile(c) \in Inner(c)
<1>1. /\ Coupling(c, tile[c], index[c]) /\ Bound(c, state[c], route[c], tile[c], index[c])
      /\ Wagons[c] \in Nat \ {0} /\ TailIndex(c) <= HeadIndex(c)
      /\ TailIndex(c) \in Nat /\ HeadIndex(c) \in Nat
  BY RollingTrain DEF Placed
<1>2. 1 \in 1 .. Wagons[c] /\ Wagons[c] \in 1 .. Wagons[c]
  BY <1>1
<1>3. tile[c] \in [1 .. Wagons[c] -> Tiles] /\ DOMAIN tile[c] = 1 .. Wagons[c]
  BY <1>1 DEF Coupling
<1>4. ASSUME TailTile(c) # HeadTile(c)
      PROVE  /\ <<TailTile(c), HeadTile(c)>> \in Follows
             /\ HeadTile(c) \in Inner(c)
  <2>1. TailIndex(c) # HeadIndex(c)
    BY <1>1, <1>2, <1>4 DEF Coupling, TailTile, HeadTile, TailIndex, HeadIndex
  <2>2. TailIndex(c) < HeadIndex(c)
    BY <2>1, <1>1
  <2> QED
    BY <2>2, <1>1, <1>4 DEF Bound, Compact, TailTile, HeadTile, TailIndex, HeadIndex
<1> QED
  BY <1>2, <1>3, <1>4 DEF Own, TailTile, HeadTile

\* a train that does not turn back has its tail nowhere on its new route
LEMMA TailIsBehind ==
    ASSUME Trains, NEW c \in Convoys, state[c] # "SELF_DESTRUCT", NEW goal \in Goals[c],
           NEW rt \in RoutesTo(c, goal), ~TurnsBack(c, rt), TailTile(c) # HeadTile(c)
    PROVE  \A p \in 1 .. Len(rt) : rt[p] # TailTile(c)
<1>1. rt \in Routes /\ rt[1] = HeadTile(c) /\ Len(rt) \in Nat
  BY RouteLeads
<1>2. SUFFICES ASSUME NEW p \in 1 .. Len(rt), rt[p] = TailTile(c) PROVE FALSE
  OBVIOUS
<1>3. TailTile(c) \in Own(c) /\ <<TailTile(c), HeadTile(c)>> \in Follows
  BY TailAndHead
<1>4. CASE p = 1
  BY <1>1, <1>2, <1>4
<1>5. CASE p \in 2 .. 5
  <2>1. PICK k : k = Min({5, Len(rt)})
    OBVIOUS
  <2>2. k = 5 \/ k = Len(rt)
    <3>1. {5, Len(rt)} \in SUBSET Nat /\ {5, Len(rt)} # {}
      BY <1>1
    <3>2. \E x \in {5, Len(rt)} : \A y \in {5, Len(rt)} : x <= y
      BY <3>1, LeastNumber
    <3> QED
      BY <2>1, <3>2 DEF Min
  <2>3. p \in 2 .. k
    BY <2>2, <1>1, <1>5
  <2> QED
    BY <2>1, <2>3, <1>2, <1>3 DEF TurnsBack
<1>6. CASE p \in 6 .. Len(rt)
  BY <1>1, <1>2, <1>3, <1>6, LoopAssumption
<1> QED
  BY <1>1, <1>4, <1>5, <1>6

LEMMA LengthenedLeads ==
    ASSUME Trains, NEW c \in Convoys, state[c] # "SELF_DESTRUCT", NEW goal \in Goals[c],
           NEW rt \in RoutesTo(c, goal), ~TurnsBack(c, rt), NEW new, new = Lengthened(c, rt)
    PROVE  Leads(c, new) /\ new[1] = TailTile(c) /\ Along(rt, new, HeadPlace(c))
<1>1. Leads(c, rt) /\ rt \in Routes /\ rt[1] = HeadTile(c) /\ Len(rt) \in Nat
  BY RouteLeads
<1>2. /\ rt \in Seq(Tiles) /\ Len(rt) > 1 /\ IsInjective(rt)
      /\ \A p, o \in 1 .. Len(rt) : rt[p] = rt[o] => p = o
  BY <1>1 DEF Leads, IsInjective
<1>3. CASE TailTile(c) = HeadTile(c)
  <2>1. new = rt /\ HeadPlace(c) = 1
    BY <1>3 DEF Lengthened, HeadPlace
  <2>2. Along(rt, rt, 1)
    <3>1. \A p \in 1 .. Len(rt) : p - 1 + 1 = p
      BY <1>1
    <3> QED
      BY <3>1, <1>1 DEF Along
  <2> QED
    BY <2>1, <2>2, <1>1, <1>3
<1>4. CASE TailTile(c) # HeadTile(c)
  <2>1. PICK t, l : t = TailTile(c) /\ l = Len(rt)
    OBVIOUS
  <2>2. new = <<t>> \o rt /\ HeadPlace(c) = 2
    BY <2>1, <1>4 DEF Lengthened, HeadPlace
  <2>3. /\ t \in Tiles /\ <<t, rt[1]>> \in Follows /\ rt[1] \in Inner(c) /\ l \in Nat /\ l > 1
        /\ \A p \in 1 .. l : rt[p] # t
    BY <2>1, <1>1, <1>2, <1>4, TailAndHead, TailIsBehind
  <2>4. <<t>> \in Seq(Tiles) /\ Len(<<t>>) = 1
    BY <2>3
  <2>5. /\ new \in Seq(Tiles) /\ Len(new) = l + 1 /\ new[1] = t
        /\ \A p \in 2 .. l + 1 : new[p] = rt[p - 1]
    <3>1. new \in Seq(Tiles) /\ Len(new) = 1 + l
      BY <2>1, <2>2, <2>4, <1>2
    <3>2. new[1] = t
      BY <2>2, <2>3, <2>4, <1>2
    <3>3. \A p \in 2 .. l + 1 : new[p] = rt[p - 1]
      BY <2>1, <2>2, <2>3, <2>4, <1>2
    <3> QED
      BY <3>1, <3>2, <3>3, <2>3
  <2>6. \A p \in 2 .. l + 1 : p - 1 \in 1 .. l
    BY <2>3
  <2>7. IsInjective(new)
    <3>1. ASSUME NEW p \in 1 .. l + 1, NEW o \in 1 .. l + 1, new[p] = new[o] PROVE p = o
      <4>1. CASE p = 1 /\ o # 1
        <5>1. o \in 2 .. l + 1
          BY <4>1, <2>3
        <5>2. o - 1 \in 1 .. l /\ new[o] = rt[o - 1]
          BY <5>1, <2>5, <2>6
        <5> QED
          BY <5>2, <4>1, <3>1, <2>3, <2>5
      <4>2. CASE p # 1 /\ o = 1
        <5>1. p \in 2 .. l + 1
          BY <4>2, <2>3
        <5>2. p - 1 \in 1 .. l /\ new[p] = rt[p - 1]
          BY <5>1, <2>5, <2>6
        <5> QED
          BY <5>2, <4>2, <3>1, <2>3, <2>5
      <4>3. CASE p # 1 /\ o # 1
        <5>1. p \in 2 .. l + 1 /\ o \in 2 .. l + 1
          BY <4>3, <2>3
        <5>2. rt[p - 1] = rt[o - 1] /\ p - 1 \in 1 .. l /\ o - 1 \in 1 .. l
          BY <5>1, <3>1, <2>5, <2>6
        <5>3. p - 1 = o - 1
          BY <5>2, <2>1, <1>2
        <5> QED
          BY <5>1, <5>3, <2>3
      <4> QED
        BY <4>1, <4>2, <4>3
    <3>2. DOMAIN new = 1 .. l + 1
      BY <2>5
    <3> QED
      BY <3>1, <3>2 DEF IsInjective
  <2>8. Last(new) = Last(rt)
    <3>1. l + 1 \in 2 .. l + 1 /\ (l + 1) - 1 = l
      BY <2>3
    <3>2. new[l + 1] = rt[l]
      BY <3>1, <2>5
    <3> QED
      BY <3>2, <2>1, <2>5 DEF Last
  <2>9. \A p \in 2 .. Len(new) : new[p] \in Inner(c)
    <3>1. SUFFICES ASSUME NEW p \in 2 .. l + 1 PROVE new[p] \in Inner(c)
      BY <2>5
    <3>2. new[p] = rt[p - 1] /\ (p - 1 = 1 \/ p - 1 \in 2 .. l)
      BY <2>3, <2>5
    <3> QED
      BY <3>2, <2>1, <2>3, <1>1 DEF Leads
  <2>10. \A p \in 1 .. Len(new) - 1 : <<new[p], new[p + 1]>> \in Follows
    <3>1. SUFFICES ASSUME NEW p \in 1 .. l PROVE <<new[p], new[p + 1]>> \in Follows
      BY <2>3, <2>5
    <3>2. p + 1 \in 2 .. l + 1 /\ (p + 1) - 1 = p
      BY <2>3
    <3>3. new[p + 1] = rt[p]
      BY <3>2, <2>5
    <3>4. CASE p = 1
      BY <3>3, <3>4, <2>3, <2>5
    <3>5. CASE p # 1
      <4>1. PICK o : o = p - 1
        OBVIOUS
      <4>2. p \in 2 .. l + 1 /\ o \in 1 .. l - 1 /\ o + 1 = p
        BY <3>5, <4>1, <2>3
      <4>3. new[p] = rt[o]
        BY <4>1, <4>2, <2>5
      <4>4. <<rt[o], rt[o + 1]>> \in Follows
        BY <4>2, <2>1, <1>1 DEF Leads
      <4> QED
        BY <4>2, <4>3, <4>4, <3>3
    <3> QED
      BY <3>4, <3>5
  <2>11. Leads(c, new)
    <3>1. Len(new) > 1
      BY <2>3, <2>5
    <3>2. \E o \in Routes : Last(o) = Last(new)
      BY <2>8, <1>1 DEF Leads
    <3> QED
      BY <3>1, <3>2, <2>5, <2>7, <2>9, <2>10 DEF Leads
  <2>12. Along(rt, new, 2)
    <3>1. Len(new) = 2 - 1 + l
      BY <2>3, <2>5
    <3>2. \A p \in 2 .. l + 1 : p - 2 + 1 = p - 1
      BY <2>3
    <3> QED
      BY <3>1, <3>2, <2>1, <2>5 DEF Along
  <2> QED
    BY <2>1, <2>2, <2>5, <2>11, <2>12
<1> QED
  BY <1>3, <1>4

\* all vehicles of c are put on the first tile of start
LEMMA StartSteps ==
    ASSUME Trains, NEW c \in Convoys, state[c] # "SELF_DESTRUCT", NEW start, Leads(c, start),
           start[1] \in Own(c), NEW at \in [1 .. Wagons[c] -> Nat], NEW ts \in [1 .. Wagons[c] -> Tiles],
           \A i \in 1 .. Wagons[c] : at[i] = 1 /\ ts[i] = start[1],
           SetOff(c, TakenOff(c, RouteFreed(c)), start, at, ts)
    PROVE  Trains' /\ (AllSecure => KeepsOthers(c))
<1>1. /\ Placed(c, state[c], route[c], tile[c], index[c]) /\ Wagons[c] \in Nat \ {0}
      /\ rail \in RailType
  BY RollingTrain DEF Trains, TypeOK
<1>2. /\ start \in Seq(Tiles) /\ Len(start) > 1 /\ IsInjective(start) /\ Len(start) \in Nat
      /\ \E o \in Routes : Last(o) = Last(start)
      /\ \A p \in 2 .. Len(start) : start[p] \in Inner(c)
      /\ \A p \in 1 .. Len(start) - 1 : <<start[p], start[p + 1]>> \in Follows
  BY DEF Leads
<1>4. PICK f, r : f = RouteFreed(c) /\ r = TakenOff(c, f)
  OBVIOUS
<1>5. f \in RailType /\ Takes(rail, f, c) /\ SameIndices(rail, f, c) /\ f.last[c] = 0
  BY <1>4, RouteFreedDoes
<1>6. /\ r \in RailType /\ r.last = f.last /\ r.stop = f.stop
      /\ \A t \in Tiles : r.reserved[t] = IF t \in Own(c) THEN NoConvoy ELSE f.reserved[t]
  BY <1>4, <1>5, TakenOffDoes
<1>7. start[1] \in Tiles /\ 1 \in 1 .. Wagons[c] /\ Wagons[c] \in 1 .. Wagons[c]
  BY <1>1, <1>2
<1>8. /\ \A i \in 1 .. Wagons[c] : at[i] = 1 /\ ts[i] = start[1]
      /\ at \in [1 .. Wagons[c] -> Nat \ {0}] /\ ts \in [1 .. Wagons[c] -> Tiles]
  OBVIOUS
<1>9. Coupling(c, ts, at)
  <2>1. \A i \in 2 .. Wagons[c] : i \in 1 .. Wagons[c] /\ i - 1 \in 1 .. Wagons[c]
    BY <1>1
  <2>2. Coupled(Wagons[c], at)
    BY <2>1, <1>8 DEF Coupled
  <2> QED
    BY <2>2, <1>8 DEF Coupling
<1>10. at[1] = 1 /\ at[Wagons[c]] = 1 /\ ts[1] = ts[Wagons[c]]
  BY <1>7, <1>8
<1>11. OnRoute(c, start, ts, at) /\ Way(start, at[1]) /\ at[1] < Len(start)
  BY <1>2, <1>8, <1>10 DEF OnRoute, Way
<1>12. Bound(c, "CAN_START", start, ts, at)
  <2>1. \A p \in at[1] + 1 .. Len(start) : p \in 2 .. Len(start)
    BY <1>10
  <2>2. \A p \in at[1] + 1 .. Len(start) : start[p] \in Inner(c)
    BY <2>1, <1>2
  <2>3. Compact(c, start, ts, at)
    <3>1. at[1] <= at[Wagons[c]] + 1
      BY <1>10
    <3>2. \A p \in at[1] .. Len(start) - 1 : <<start[p], start[p + 1]>> \in Follows
      BY <1>2, <1>10
    <3> QED
      BY <3>1, <3>2, <1>10 DEF Compact
  <2>4. ~(at[Wagons[c]] < at[1]) /\ at[1] <= Len(start)
    BY <1>2, <1>10
  <2> QED
    BY <2>2, <2>3, <2>4, <1>2, <1>11 DEF Bound
<1>13. ASSUME AllSecure
       PROVE  /\ Takes(rail, r, c) /\ SameIndices(rail, r, c) /\ r.last[c] = 0
              /\ \A i \in 1 .. Wagons[c] : CanReserve(r, c, ts[i])
  <2>1. \A t \in Own(c) : rail.reserved[t] = c
    <3>1. \A i \in 1 .. Wagons[c] : rail.reserved[tile[c][i]] = c
      BY <1>13 DEF AllSecure, Secure
    <3>2. DOMAIN tile[c] = 1 .. Wagons[c]
      BY <1>1 DEF Placed, Coupling
    <3> QED
      BY <3>1, <3>2 DEF Own
  <2>2. Takes(rail, r, c)
    BY <2>1, <1>5, <1>6 DEF Takes
  <2>4. \A i \in 1 .. Wagons[c] : CanReserve(r, c, ts[i])
    BY <1>6, <1>7, <1>8 DEF CanReserve
  <2> QED
    BY <2>2, <2>4, <1>5, <1>6 DEF SameIndices
<1>14. SetOff(c, r, start, at, ts)
  BY <1>4
<1> QED
  BY <1>6, <1>9, <1>11, <1>12, <1>13, <1>14, SetOffSteps

\* a train that starts afresh: on its new route, which may begin at its tail
LEMMA StartsAlong ==
    ASSUME Trains, NEW c \in Convoys, state[c] # "SELF_DESTRUCT", NEW goal \in Goals[c],
           NEW rt \in RoutesTo(c, goal), StartsAfresh(c, rt)
    PROVE  \E start, h : /\ Leads(c, start) /\ start[1] \in Own(c)
                         /\ h \in {1, 2} /\ Along(rt, start, h)
                         /\ SetOff(c, TakenOff(c, RouteFreed(c)), start,
                                   [i \in 1 .. Wagons[c] |-> 1], [i \in 1 .. Wagons[c] |-> start[1]])
<1>1. PICK start \in {rt} \cup (IF TurnsBack(c, rt) THEN {} ELSE {Lengthened(c, rt)}) :
         SetOff(c, TakenOff(c, RouteFreed(c)), start,
                [i \in 1 .. Wagons[c] |-> 1], [i \in 1 .. Wagons[c] |-> start[1]])
  BY DEF StartsAfresh
<1>2. HeadTile(c) \in Own(c) /\ TailTile(c) \in Own(c)
  BY TailAndHead
<1>3. CASE start = rt
  <2>1. Leads(c, rt) /\ rt[1] = HeadTile(c) /\ Len(rt) \in Nat
    BY RouteLeads
  <2>2. Along(rt, rt, 1)
    <3>1. \A p \in 1 .. Len(rt) : p - 1 + 1 = p
      BY <2>1
    <3> QED
      BY <3>1, <2>1 DEF Along
  <2> QED
    BY <2>1, <2>2, <1>1, <1>2, <1>3
<1>4. CASE start = Lengthened(c, rt) /\ ~TurnsBack(c, rt)
  <2>1. Leads(c, start) /\ start[1] = TailTile(c) /\ Along(rt, start, HeadPlace(c))
    BY <1>4, LengthenedLeads
  <2>2. HeadPlace(c) \in {1, 2}
    BY DEF HeadPlace
  <2> QED
    BY <2>1, <2>2, <1>1, <1>2
<1> QED
  BY <1>1, <1>3, <1>4

LEMMA StartsAfreshSteps ==
    ASSUME Trains, NEW c \in Convoys, state[c] # "SELF_DESTRUCT", NEW goal \in Goals[c],
           NEW rt \in RoutesTo(c, goal), StartsAfresh(c, rt)
    PROVE  Trains' /\ (AllSecure => KeepsOthers(c))
<1>1. PICK start, h :
         /\ Leads(c, start) /\ start[1] \in Own(c)
         /\ SetOff(c, TakenOff(c, RouteFreed(c)), start,
                   [i \in 1 .. Wagons[c] |-> 1], [i \in 1 .. Wagons[c] |-> start[1]])
  BY StartsAlong
<1>2. PICK at, ts : /\ at = [i \in 1 .. Wagons[c] |-> 1]
                    /\ ts = [i \in 1 .. Wagons[c] |-> start[1]]
  OBVIOUS
<1>3. SetOff(c, TakenOff(c, RouteFreed(c)), start, at, ts)
  BY <1>1, <1>2
<1>4. start[1] \in Tiles
  BY <1>1 DEF Leads
<1>5. /\ at \in [1 .. Wagons[c] -> Nat] /\ ts \in [1 .. Wagons[c] -> Tiles]
      /\ \A i \in 1 .. Wagons[c] : at[i] = 1 /\ ts[i] = start[1]
  BY <1>2, <1>4
<1> QED
  BY <1>1, <1>3, <1>5, StartSteps

\* can_go_alte_richtung: where the vehicles are on a route that begins at the last of them
Joins(c, rt, new, at) ==
    /\ Coupling(c, tile[c], at) /\ OnRoute(c, new, tile[c], at) /\ Way(new, at[1]) /\ at[1] < Len(new)
    /\ Bound(c, "CAN_START", new, tile[c], at) /\ Along(rt, new, at[1])

LEMMA GoesOnAlong ==
    ASSUME Trains, NEW c \in Convoys, state[c] # "SELF_DESTRUCT", NEW goal \in Goals[c],
           NEW rt \in RoutesTo(c, goal), GoesOn(c, rt)
    PROVE  \E new, at : Joins(c, rt, new, at) /\ SetOff(c, RouteFreed(c), new, at, tile[c])
<1>0. PICK ts, was, n : ts = tile[c] /\ was = index[c] /\ n = Wagons[c]
  OBVIOUS
<1>1. /\ Coupling(c, ts, was) /\ Bound(c, state[c], route[c], ts, was) /\ n \in Nat \ {0}
  BY <1>0, RollingTrain, ConvoyAssumption DEF Placed
<1>2. PICK new, at : /\ new = Lengthened(c, rt)
                     /\ at = [i \in 1 .. n |-> IF ts[i] = ts[n] THEN 1 ELSE 2]
  OBVIOUS
<1>3. SetOff(c, RouteFreed(c), new, at, ts) /\ ~TurnsBack(c, rt)
  BY <1>0, <1>2 DEF GoesOn, TailTile
<1>4. /\ ts \in [1 .. n -> Tiles] /\ Coupled(n, was) /\ was[1] <= was[n] + 1
      /\ \A i, j \in 1 .. n : ts[i] = ts[j] <=> was[i] = was[j]
      /\ 1 \in 1 .. n /\ n \in 1 .. n
  BY <1>0, <1>1 DEF Coupling, Bound, Compact
<1>5. \A i \in 1 .. n : was[i] \in Nat /\ (ts[i] = ts[1] \/ ts[i] = ts[n])
  <2>1. \A i \in 1 .. n : was[i] \in Nat /\ (was[i] = was[1] \/ was[i] = was[n])
    BY <1>1, <1>4, OneOrTwoTiles
  <2> QED
    BY <2>1, <1>4
<1>6. /\ \A i \in 1 .. n : at[i] = IF ts[i] = ts[n] THEN 1 ELSE 2
      /\ at \in [1 .. n -> Nat \ {0}]
  BY <1>2
<1>7. \A i, j \in 1 .. n : ts[i] = ts[j] <=> at[i] = at[j]
  BY <1>4, <1>5, <1>6
<1>8. Coupled(n, at)
  <2>1. ASSUME NEW i \in 2 .. n PROVE at[i] = at[i - 1] \/ at[i] = at[i - 1] - 1
    <3>1. i \in 1 .. n /\ i - 1 \in 1 .. n /\ i \in i - 1 .. n /\ n \in i .. n /\ n \in Nat
      BY <1>1
    <3>2. ts[i - 1] = ts[n] => ts[i] = ts[n]
      <4>1. was[i] <= was[i - 1] /\ was[n] <= was[i]
        BY <3>1, <1>4, CoupledInOrder
      <4>2. was[i - 1] = was[n] => was[i] = was[n]
        BY <4>1, <3>1, <1>4, <1>5
      <4> QED
        BY <4>2, <3>1, <1>4
    <3>3. at[i] \in {1, 2} /\ at[i - 1] \in {1, 2} /\ (at[i - 1] = 1 => at[i] = 1)
      BY <3>1, <3>2, <1>6
    <3> QED
      BY <3>3
  <2> QED
    BY <2>1, <1>6 DEF Coupled
<1>9. Leads(c, new) /\ new[1] = ts[n] /\ Along(rt, new, HeadPlace(c))
  BY <1>0, <1>2, <1>3, LengthenedLeads DEF TailTile
<1>10. /\ new \in Seq(Tiles) /\ Len(new) > 1 /\ IsInjective(new) /\ Len(new) \in Nat
       /\ \E o \in Routes : Last(o) = Last(new)
       /\ \A p \in 2 .. Len(new) : new[p] \in Inner(c)
       /\ \A p \in 1 .. Len(new) - 1 : <<new[p], new[p + 1]>> \in Follows
  BY <1>9 DEF Leads
<1>11. at[1] = HeadPlace(c) /\ at[n] = 1 /\ at[1] \in {1, 2}
  BY <1>0, <1>4, <1>6 DEF HeadPlace, TailTile, HeadTile
<1>12. Len(rt) > 1 /\ Len(rt) \in Nat /\ rt[1] = ts[1]
  BY <1>0, RouteLeads DEF Leads, HeadTile
<1>13. Len(new) = at[1] - 1 + Len(rt) /\ at[1] < Len(new) /\ new[at[1]] = ts[1]
  <2>1. Len(new) = at[1] - 1 + Len(rt) /\ \A p \in at[1] .. Len(new) : new[p] = rt[p - at[1] + 1]
    BY <1>9, <1>11 DEF Along
  <2>2. at[1] < Len(new) /\ at[1] \in at[1] .. Len(new) /\ at[1] - at[1] + 1 = 1
    BY <2>1, <1>11, <1>12
  <2> QED
    BY <2>1, <2>2, <1>12
<1>14. OnRoute(c, new, ts, at) /\ Way(new, at[1])
  <2>1. \A i \in 1 .. n : ts[i] = new[at[i]]
    <3>1. SUFFICES ASSUME NEW i \in 1 .. n PROVE ts[i] = new[at[i]]
      OBVIOUS
    <3>2. CASE ts[i] = ts[n]
      BY <3>2, <1>6, <1>9
    <3>3. CASE ts[i] # ts[n]
      <4>1. ts[i] = ts[1] /\ at[i] = at[1]
        BY <3>3, <1>4, <1>5, <1>7
      <4> QED
        BY <4>1, <1>13
    <3> QED
      BY <3>2, <3>3
  <2>2. at[1] <= Len(new) /\ at[1] \in 1 .. Len(new)
    BY <1>10, <1>11, <1>13
  <2> QED
    BY <2>1, <2>2, <1>0, <1>10 DEF OnRoute, Way
<1>15. Compact(c, new, ts, at)
  <2>1. ts[n] = ts[1] \/ <<ts[n], ts[1]>> \in Follows
    BY <1>0, <1>1 DEF Bound, Compact
  <2>2. \A p \in at[1] .. Len(new) - 1 : p \in 1 .. Len(new) - 1
    BY <1>11
  <2>3. at[1] <= at[n] + 1
    BY <1>11
  <2> QED
    BY <2>1, <2>2, <2>3, <1>0, <1>10 DEF Compact
<1>16. Bound(c, "CAN_START", new, ts, at)
  <2>1. \A p \in at[1] + 1 .. Len(new) : p \in 2 .. Len(new)
    BY <1>11
  <2>2. at[n] < at[1] => ts[1] \in Inner(c)
    <3>1. at[n] < at[1] => 2 \in 2 .. Len(new) /\ at[1] = 2
      BY <1>10, <1>11
    <3> QED
      BY <3>1, <1>10, <1>13
  <2>3. at[1] <= Len(new)
    BY <1>10, <1>11, <1>13
  <2> QED
    BY <2>1, <2>2, <2>3, <1>0, <1>10, <1>13, <1>15 DEF Bound
<1>17. Coupling(c, ts, at)
  BY <1>0, <1>4, <1>7, <1>8 DEF Coupling
<1>18. Along(rt, new, at[1])
  BY <1>9, <1>11
<1>19. Joins(c, rt, new, at)
  BY <1>0, <1>13, <1>14, <1>16, <1>17, <1>18 DEF Joins
<1> QED
  BY <1>0, <1>3, <1>19

LEMMA GoesOnSteps ==
    ASSUME Trains, NEW c \in Convoys, state[c] # "SELF_DESTRUCT", NEW goal \in Goals[c],
           NEW rt \in RoutesTo(c, goal), GoesOn(c, rt)
    PROVE  Trains' /\ (AllSecure => KeepsOthers(c))
<1>1. PICK new, at : Joins(c, rt, new, at) /\ SetOff(c, RouteFreed(c), new, at, tile[c])
  BY GoesOnAlong
<1>2. PICK r, ts : r = RouteFreed(c) /\ ts = tile[c]
  OBVIOUS
<1>3. r \in RailType /\ Takes(rail, r, c) /\ SameIndices(rail, r, c) /\ r.last[c] = 0
  BY <1>2, RouteFreedDoes
<1>4. /\ Coupling(c, ts, at) /\ OnRoute(c, new, ts, at) /\ Way(new, at[1]) /\ at[1] < Len(new)
      /\ Bound(c, "CAN_START", new, ts, at)
  BY <1>1, <1>2 DEF Joins
<1>5. ASSUME AllSecure PROVE \A i \in 1 .. Wagons[c] : CanReserve(r, c, ts[i])
  <2>1. \A i \in 1 .. Wagons[c] : rail.reserved[ts[i]] = c /\ ts[i] \in Tiles
    BY <1>2, <1>4, <1>5 DEF AllSecure, Secure, Coupling
  <2> QED
    BY <2>1, <1>3 DEF Takes, CanReserve
<1>6. SetOff(c, r, new, at, ts)
  BY <1>1, <1>2
<1> QED
  BY <1>3, <1>4, <1>5, <1>6, SetOffSteps

LEMMA RerouteSteps ==
    ASSUME Trains, NEW c \in Convoys, Reroute(c)
    PROVE  Trains' /\ (AllSecure /\ SearchesSucceed => KeepsOthers(c))
<1>1. PICK goal \in Goals[c] \ {HeadTile(c)} :
         \/ NoRoute(c, goal)
         \/ \E rt \in RoutesTo(c, goal) : GoesOn(c, rt) \/ StartsAfresh(c, rt)
  BY DEF Reroute
<1>2. state[c] # "SELF_DESTRUCT"
  BY DEF Reroute
<1>3. CASE NoRoute(c, goal)
  BY <1>2, <1>3, NoRouteSteps
<1>4. ASSUME NEW rt \in RoutesTo(c, goal), GoesOn(c, rt)
      PROVE  Trains' /\ (AllSecure => KeepsOthers(c))
  BY <1>2, <1>4, GoesOnSteps
<1>5. ASSUME NEW rt \in RoutesTo(c, goal), StartsAfresh(c, rt)
      PROVE  Trains' /\ (AllSecure => KeepsOthers(c))
  BY <1>2, <1>5, StartsAfreshSteps
<1> QED
  BY <1>1, <1>3, <1>4, <1>5

-----------------------------------------------------------------------------
(* Convoys that are sold, and games that are loaded.                       *)

LEMMA DestroySteps ==
    ASSUME Trains, NEW c \in Convoys, Destroy(c)
    PROVE  Trains' /\ (AllSecure => KeepsOthers(c))
<1>1. PICK st, rt, ts, at : st = "SELF_DESTRUCT" /\ rt = <<>> /\ ts = <<>> /\ at = <<>>
  OBVIOUS
<1>2. /\ state' = [state EXCEPT ![c] = st] /\ route' = [route EXCEPT ![c] = rt]
      /\ tile' = [tile EXCEPT ![c] = ts] /\ index' = [index EXCEPT ![c] = at]
      /\ signal' = signal /\ rail' = Destroyed(c)
  BY <1>1 DEF Destroy
<1>3. state[c] # "SELF_DESTRUCT"
  BY DEF Destroy, States, Waiting
<1>4. /\ HeadIndex(c) \in Nat /\ TailIndex(c) \in Nat /\ Len(route[c]) \in Nat \ {0}
      /\ route[c] \in Seq(Tiles) /\ rail \in RailType
      /\ Placed(c, state[c], route[c], tile[c], index[c])
  BY <1>3, RollingTrain DEF Trains, TypeOK
<1>5. PICK start, all, zero : start = TailIndex(c) + 1 /\ all = FALSE /\ zero = 0
  OBVIOUS
<1>5a. all \in BOOLEAN
  BY <1>5
<1>6. PICK f : f = IF HeadIndex(c) + 1 < Len(route[c]) - 1
                   THEN BlockUnreserve(rail, c, route[c], start, all) ELSE rail
  OBVIOUS
<1>7. f \in RailType /\ Takes(rail, f, c) /\ SameIndices(rail, f, c)
  <2>1. CASE HeadIndex(c) + 1 < Len(route[c]) - 1
    <3>1. f = BlockUnreserve(rail, c, route[c], start, all)
      BY <2>1, <1>6
    <3>2. start \in Nat \ {0} /\ all \in BOOLEAN /\ Len(route[c]) > 0
      <4>1. start \in Nat \ {0} /\ Len(route[c]) > 0
        BY <1>4, <1>5
      <4> QED
        BY <4>1, <1>5a
    <3>3. Frees(rail, f, c, route[c], start)
      BY <3>1, <3>2, <1>4, BlockUnreserveDoes
    <3> QED
      BY <3>3 DEF Frees
  <2>2. CASE ~(HeadIndex(c) + 1 < Len(route[c]) - 1)
    <3>1. f = rail
      BY <2>2, <1>6
    <3> QED
      BY <3>1, <1>4 DEF Takes, SameIndices
  <2> QED
    BY <2>1, <2>2
<1>8. PICK o, g, k, q : /\ o = TakenOff(c, f) /\ g = FreeTiles(o, c, Tiles)
                        /\ k = SetLast(g, c, zero) /\ q = SetStop(k, c, zero)
  OBVIOUS
<1>9. rail' = q
  BY <1>2, <1>5, <1>6, <1>8 DEF Destroyed
<1>10. /\ o \in RailType /\ o.last = f.last /\ o.stop = f.stop
       /\ \A t \in Tiles : o.reserved[t] = IF t \in Own(c) THEN NoConvoy ELSE f.reserved[t]
  BY <1>7, <1>8, TakenOffDoes
<1>11. /\ g \in RailType /\ g.last = f.last /\ g.stop = f.stop
       /\ \A t \in Tiles : g.reserved[t] = IF o.reserved[t] = c THEN NoConvoy
                                           ELSE o.reserved[t]
  <2>1. OnlyTiles(o, g)
    BY <1>8, <1>10, FreeTilesDoes
  <2>2. \A t \in Tiles : g.reserved[t] = IF t \in Tiles /\ o.reserved[t] = c THEN NoConvoy
                                         ELSE o.reserved[t]
    BY <1>8, <1>10, FreeTilesDoes
  <2> QED
    BY <2>1, <2>2, <1>10 DEF OnlyTiles
<1>12. zero \in Nat
  BY <1>5
<1>13. Does(g, k, c, rt, zero) /\ k.reserved = g.reserved
  BY <1>8, <1>11, <1>12, SetLastDoes
<1>14. Does(k, q, c, rt, zero) /\ q.reserved = k.reserved
  <2>1. k \in RailType
    BY <1>13 DEF Does
  <2> QED
    BY <2>1, <1>8, <1>12, SetStopDoes
<1>15. q \in RailType /\ SameIndices(f, q, c)
  BY <1>11, <1>13, <1>14 DEF Does, SameIndices
<1>16. SameIndices(rail, q, c)
  BY <1>7, <1>15 DEF SameIndices
<1>17. Train(c, st, rt, ts, at)
  BY <1>1 DEF Train
<1>18. Trains'
  <2>1. st \in States \cup {"SELF_DESTRUCT"}
    BY <1>1
  <2> QED
    BY <2>1, <1>2, <1>9, <1>15, <1>17, OneTrainSteps
<1>19. ASSUME AllSecure PROVE KeepsOthers(c)
  <2>1. \A t \in Own(c) : rail.reserved[t] = c
    <3>1. \A i \in 1 .. Wagons[c] : rail.reserved[tile[c][i]] = c
      BY <1>3, <1>19 DEF AllSecure, Secure
    <3>2. DOMAIN tile[c] = 1 .. Wagons[c]
      BY <1>4 DEF Placed, Coupling
    <3> QED
      BY <3>1, <3>2 DEF Own
  <2>2. Takes(rail, o, c)
    BY <2>1, <1>7, <1>10 DEF Takes
  <2>3. Takes(rail, g, c)
    BY <2>2, <1>11 DEF Takes
  <2>4. Takes(rail, q, c)
    BY <2>3, <1>13, <1>14 DEF Takes
  <2>5. Secure(q, c, st, rt, ts, at)
    BY <1>1 DEF Secure
  <2> QED
    BY <2>4, <2>5, <1>2, <1>9, <1>15, <1>16, <1>19, OneTrainKeeps
<1> QED
  BY <1>18, <1>19

\* a state of rail that a game being loaded may be in
Kept(r) ==
    /\ r \in RailType
    /\ AllSecure => \A d \in Convoys : Secure(r, d, state[d], route[d], tile[d], index[d])

LEMMA RenewedKeeps ==
    ASSUME Trains, NEW c \in Convoys, NEW r, Kept(r), NEW q, q = Renewed(r, c)
    PROVE  Kept(q)
<1>1. r \in RailType
  BY DEF Kept
<1>2. CASE state[c] = "SELF_DESTRUCT" \/ r.last[c] # 0
  <2>1. q = r
    BY <1>2 DEF Renewed
  <2> QED
    BY <2>1
<1>3. CASE state[c] # "SELF_DESTRUCT" /\ r.last[c] = 0
  <2>1. PICK st, rt, ts, at, h : /\ st = state[c] /\ rt = route[c] /\ ts = tile[c]
                                 /\ at = index[c] /\ h = HeadIndex(c)
    OBVIOUS
  <2>2. /\ Placed(c, st, rt, ts, at) /\ h \in Nat /\ Wagons[c] \in Nat \ {0} /\ h = at[1]
        /\ st \in Rolling => /\ OnRoute(c, rt, ts, at) /\ Way(rt, h) /\ rt[h] = HeadTile(c)
    BY <1>3, <2>1, RollingTrain DEF HeadIndex
  <2>3. PICK p : p = SetStop(r, c, h)
    OBVIOUS
  <2>4. /\ p \in RailType /\ p.stop[c] = h /\ p.last = r.last /\ p.reserved = r.reserved
        /\ Takes(r, p, c) /\ SameIndices(r, p, c)
    <3>1. Does(r, p, c, rt, h) /\ p.stop[c] = h /\ p.last = r.last /\ p.reserved = r.reserved
      BY <1>1, <2>2, <2>3, SetStopDoes
    <3> QED
      BY <3>1 DEF Does
  <2>5. CASE st # "DRIVING"
    <3>1. q = p
      BY <1>3, <2>1, <2>3, <2>5 DEF Renewed
    <3>2. ASSUME Secure(r, c, st, rt, ts, at) PROVE Secure(p, c, st, rt, ts, at)
      <4>1. \A i \in 1 .. Wagons[c] : p.reserved[ts[i]] = c
        BY <3>2, <1>3, <2>1, <2>4 DEF Secure
      <4>2. ASSUME st \in Rolling PROVE Goes(p, c, st, rt, h)
        <5>1. h \in 1 .. Len(rt) /\ Len(rt) \in Nat /\ h \in 1 .. h
          BY <4>2, <2>2 DEF Way
        <5>2. Holds(p, c, rt, h)
          BY <1>3, <2>2, <2>4, <5>1 DEF Holds, HeldTo
        <5>3. StopsWell(p, c, rt, h)
          BY <2>4, <5>1 DEF StopsWell
        <5> QED
          BY <5>2, <5>3 DEF Goes
      <4> QED
        BY <4>1, <4>2, <2>2 DEF Secure
    <3>3. ASSUME AllSecure
          PROVE  \A d \in Convoys : Secure(p, d, state[d], route[d], tile[d], index[d])
      <4>1. Secure(p, c, state[c], route[c], tile[c], index[c])
        BY <3>2, <3>3, <2>1 DEF Kept
      <4>2. ASSUME NEW d \in Convoys, d # c
            PROVE  Secure(p, d, state[d], route[d], tile[d], index[d])
        <5>1. Secure(r, d, state[d], route[d], tile[d], index[d])
          BY <3>3 DEF Kept
        <5> QED
          BY <5>1, <4>2, <1>1, <2>4, OtherStaysSecure
      <4> QED
        BY <4>1, <4>2
    <3> QED
      BY <3>1, <3>3, <2>4 DEF Kept
  <2>6. CASE st = "DRIVING"
    <3>1. st \in Rolling /\ Way(rt, h) /\ OnRoute(c, rt, ts, at) /\ rt[h] = HeadTile(c)
      BY <2>2, <2>6 DEF Rolling
    <3>2. PICK e : e = GoUpTo(BlockReserve(p, c, rt, rt[h], h), c, rt)
      OBVIOUS
    <3>3. q = e.r
      BY <1>3, <2>1, <2>3, <2>6, <3>1, <3>2 DEF Renewed
    <3>4. h \in 1 .. Len(rt) /\ h \in h .. Len(rt) /\ Len(rt) \in Nat
      BY <2>2, <3>1 DEF Way
    <3>5. Cleared(p, e, c, rt, h, h)
      BY <2>4, <3>1, <3>2, <3>4, GoOnDoes
    <3>6. HeldUp(p, c, rt, h, h)
      BY <2>2 DEF HeldUp
    <3>7. Holds(q, c, rt, h) /\ StopsWell(q, c, rt, h)
      <4>1. p.stop[c] \in 1 .. h
        BY <2>4, <3>4
      <4>2. Holds(e.r, c, rt, h) /\ (p.stop[c] \in 1 .. h => StopsWell(e.r, c, rt, h))
        BY <2>4, <3>1, <3>4, <3>5, <3>6, ClearedHolds
      <4> QED
        BY <4>1, <4>2, <3>3
    <3>8. q \in RailType /\ Takes(p, q, c) /\ FreesAhead(p, q, c, rt, h) /\ SameIndices(p, q, c)
      BY <3>3, <3>5 DEF Cleared, Does
    <3>9. ASSUME Secure(r, c, st, rt, ts, at) PROVE Secure(q, c, st, rt, ts, at)
      <4>1. ASSUME NEW i \in 1 .. Wagons[c] PROVE q.reserved[ts[i]] = c
        <5>1. ts[i] \in Tiles /\ p.reserved[ts[i]] = c
          BY <3>9, <1>3, <2>1, <2>2, <2>4 DEF Secure, Placed, Coupling
        <5>2. at[i] <= h /\ at[i] \in Nat \ {0} /\ ts[i] = rt[at[i]]
          <6>1. Coupled(Wagons[c], at) /\ at[i] \in Nat \ {0}
            BY <2>2 DEF Placed, Coupling, Coupled
          <6>2. 1 \in 1 .. Wagons[c] /\ i \in 1 .. Wagons[c] /\ Wagons[c] \in Nat
            BY <2>2
          <6>3. at[i] <= at[1]
            BY <6>1, <6>2, CoupledInOrder
          <6> QED
            BY <6>1, <6>3, <2>2, <3>1 DEF OnRoute
        <5>3. \A j \in h + 1 .. Len(rt) : rt[j] # ts[i]
          <6>1. PICK k : k = at[i]
            OBVIOUS
          <6>2. k \in 1 .. Len(rt) /\ k <= h /\ k \in Nat
            BY <6>1, <5>2, <3>4
          <6>3. \A j \in h + 1 .. Len(rt) : j \in 1 .. Len(rt) /\ j # k
            BY <6>2, <3>4
          <6>4. DOMAIN rt = 1 .. Len(rt) /\ IsInjective(rt)
            BY <3>1 DEF Way
          <6> QED
            BY <6>1, <6>2, <6>3, <6>4, <5>2 DEF IsInjective
        <5> QED
          BY <5>1, <5>3, <3>8 DEF FreesAhead
      <4> QED
        BY <4>1, <3>7, <2>2 DEF Secure, Goes
    <3>10. ASSUME AllSecure
           PROVE  \A d \in Convoys : Secure(q, d, state[d], route[d], tile[d], index[d])
      <4>1. Secure(q, c, state[c], route[c], tile[c], index[c])
        BY <3>9, <3>10, <2>1 DEF Kept
      <4>2. ASSUME NEW d \in Convoys, d # c
            PROVE  Secure(q, d, state[d], route[d], tile[d], index[d])
        <5>1. Secure(r, d, state[d], route[d], tile[d], index[d])
          BY <3>10 DEF Kept
        <5>2. Secure(p, d, state[d], route[d], tile[d], index[d])
          BY <5>1, <4>2, <1>1, <2>4, OtherStaysSecure
        <5> QED
          BY <5>2, <4>2, <2>4, <3>8, OtherStaysSecure
      <4> QED
        BY <4>1, <4>2
    <3> QED
      BY <3>8, <3>10 DEF Kept
  <2> QED
    BY <2>5, <2>6
<1> QED
  BY <1>2, <1>3

\* finish_rd for the convoys of each set of D, the last one after the others
LastOf(S) == CHOOSE c \in S : TRUE

Finishing(loaded, g, D) ==
    [S \in D |-> IF S = {} THEN loaded
                 ELSE LET last == LastOf(S) IN Renewed(g[S \ {last}], last)]

Small(n) == {S \in SUBSET Convoys : Cardinality(S) <= n}

LEMMA LastIsOne == ASSUME NEW S \in SUBSET Convoys, S # {} PROVE LastOf(S) \in S
  BY DEF LastOf

LEMMA SmallSets ==
    /\ \A S \in SUBSET Convoys : IsFiniteSet(S) /\ Cardinality(S) \in Nat
    /\ \A S \in SUBSET Convoys : S # {} =>
          Cardinality(S \ {LastOf(S)}) = Cardinality(S) - 1 /\ Cardinality(S) # 0
<1>1. \A S \in SUBSET Convoys : IsFiniteSet(S)
  BY ConvoyAssumption, FS_Subset
<1>2. \A S \in SUBSET Convoys : Cardinality(S) \in Nat
  BY <1>1, FS_CardinalityType
<1>3. ASSUME NEW S \in SUBSET Convoys, S # {}
      PROVE  Cardinality(S \ {LastOf(S)}) = Cardinality(S) - 1 /\ Cardinality(S) # 0
  <2>1. LastOf(S) \in S
    BY <1>3, LastIsOne
  <2>2. Cardinality(S) # 0
    BY <1>1, <1>3, FS_EmptySet
  <2>3. Cardinality(S \ {LastOf(S)}) = Cardinality(S) - 1
    BY <1>1, <2>1, FS_RemoveElement
  <2> QED
    BY <2>2, <2>3
<1> QED
  BY <1>1, <1>2, <1>3

\* There is such a function on the sets of at most n convoys, for each n.
LEMMA FinishingExists ==
    ASSUME NEW loaded, NEW n \in Nat
    PROVE  \E g : g = Finishing(loaded, g, Small(n))
<1> DEFINE Exists(m) == \E g : g = Finishing(loaded, g, Small(m))
           Bad == {m \in Nat : ~Exists(m)}
<1>1. ASSUME NEW m \in Nat, m = 0 PROVE Exists(m)
  <2>1. \A S \in Small(m) : S = {}
    <3>1. ASSUME NEW S \in SUBSET Convoys, Cardinality(S) <= m, S # {} PROVE FALSE
      <4>1. Cardinality(S) \in Nat /\ Cardinality(S) # 0
        BY <3>1, SmallSets
      <4>2. Cardinality(S) <= 0
        BY <1>1, <3>1
      <4> QED
        BY <4>1, <4>2
    <3> QED
      BY <3>1 DEF Small
  <2>2. PICK g : g = [S \in Small(m) |-> loaded]
    OBVIOUS
  <2>3. g = Finishing(loaded, g, Small(m))
    BY <2>1, <2>2 DEF Finishing
  <2> QED
    BY <2>3
<1>2. ASSUME NEW m \in Nat, Exists(m) PROVE Exists(m + 1)
  <2>1. PICK g : g = Finishing(loaded, g, Small(m))
    BY <1>2
  <2>2. PICK k : k = m + 1
    OBVIOUS
  <2>3. PICK f : f = Finishing(loaded, g, Small(k))
    OBVIOUS
  <2>4. \A S \in Small(k) : S # {} => S \ {LastOf(S)} \in Small(m)
    <3>1. ASSUME NEW S \in SUBSET Convoys, Cardinality(S) <= k, S # {}
          PROVE  S \ {LastOf(S)} \in Small(m)
      <4>1. Cardinality(S \ {LastOf(S)}) = Cardinality(S) - 1 /\ Cardinality(S) \in Nat
        BY <3>1, SmallSets
      <4>2. Cardinality(S \ {LastOf(S)}) <= m
        BY <4>1, <2>2, <3>1
      <4> QED
        BY <4>2 DEF Small
    <3> QED
      BY <3>1 DEF Small
  <2>5. \A S \in Small(m) : S \in Small(k)
    <3>1. \A S \in SUBSET Convoys : Cardinality(S) <= m => Cardinality(S) <= k
      BY <2>2, SmallSets
    <3> QED
      BY <3>1 DEF Small
  <2>6. \A S \in Small(m) : f[S] = g[S]
    <3>1. ASSUME NEW S \in Small(m) PROVE f[S] = g[S]
      <4>1. g[S] = IF S = {} THEN loaded ELSE Renewed(g[S \ {LastOf(S)}], LastOf(S))
        BY <2>1 DEF Finishing
      <4>2. f[S] = IF S = {} THEN loaded ELSE Renewed(g[S \ {LastOf(S)}], LastOf(S))
        BY <2>3, <2>5 DEF Finishing
      <4> QED
        BY <4>1, <4>2
    <3> QED
      BY <3>1
  <2>7. f = Finishing(loaded, f, Small(k))
    <3>1. f = [S \in Small(k) |-> IF S = {} THEN loaded
                                  ELSE Renewed(g[S \ {LastOf(S)}], LastOf(S))]
      BY <2>3 DEF Finishing
    <3>2. ASSUME NEW S \in Small(k)
          PROVE  (IF S = {} THEN loaded ELSE Renewed(g[S \ {LastOf(S)}], LastOf(S)))
                 = (IF S = {} THEN loaded ELSE Renewed(f[S \ {LastOf(S)}], LastOf(S)))
      <4>1. S # {} => f[S \ {LastOf(S)}] = g[S \ {LastOf(S)}]
        BY <2>4, <2>6
      <4> QED
        BY <4>1
    <3>3. f = [S \in Small(k) |-> IF S = {} THEN loaded
                                  ELSE Renewed(f[S \ {LastOf(S)}], LastOf(S))]
      BY <3>1, <3>2, Zenon
    <3> QED
      BY <3>3 DEF Finishing
  <2> QED
    BY <2>2, <2>7
<1> HIDE DEF Exists
<1>3. ASSUME Bad # {} PROVE FALSE
  <2>1. Bad \in SUBSET Nat
    OBVIOUS
  <2> HIDE DEF Bad
  <2>2. PICK k \in Bad : \A m \in Bad : k <= m
    BY <2>1, <1>3, LeastNumber
  <2> USE DEF Bad
  <2>3. k \in Nat /\ ~Exists(k)
    BY <2>2
  <2>4. k # 0
    BY <1>1, <2>3
  <2>5. PICK m : m = k - 1
    OBVIOUS
  <2>6. m \in Nat /\ k = m + 1 /\ ~(k <= m)
    BY <2>3, <2>4, <2>5
  <2>7. Exists(m)
    BY <2>2, <2>6
  <2> QED
    BY <1>2, <2>3, <2>6, <2>7
<1>4. Exists(n)
  BY <1>3
<1> QED
  BY <1>4 DEF Exists

\* What every finish_rd keeps, all of them keep.
LEMMA FinishedStaysIn ==
    ASSUME NEW Good, NEW loaded \in Good, \A r \in Good, c \in Convoys : Renewed(r, c) \in Good,
           NEW q, q = Finished(loaded)
    PROVE  q \in Good
<1>1. PICK g : g = Finishing(loaded, g, SUBSET Convoys) /\ q = g[Convoys]
  <2> DEFINE f == CHOOSE g : g = [S \in SUBSET Convoys |->
                                    IF S = {} THEN loaded
                                    ELSE LET last == CHOOSE c \in S : TRUE
                                         IN  Renewed(g[S \ {last}], last)]
  <2>1. q = f[Convoys]
    BY DEF Finished
  <2>2. \E g : g = Finishing(loaded, g, SUBSET Convoys)
    <3>1. PICK n : n = Cardinality(Convoys)
      OBVIOUS
    <3>2. n \in Nat /\ \A S \in SUBSET Convoys : Cardinality(S) <= n
      BY <3>1, ConvoyAssumption, FS_CardinalityType, FS_Subset
    <3>3. Small(n) = SUBSET Convoys
      BY <3>2 DEF Small
    <3>4. \E g : g = Finishing(loaded, g, Small(n))
      BY <3>2, FinishingExists
    <3> QED
      BY <3>3, <3>4
  <2>3. f = Finishing(loaded, f, SUBSET Convoys)
    BY <2>2 DEF Finishing, LastOf
  <2> HIDE DEF f
  <2> QED
    BY <2>1, <2>3
<1>2. /\ \A S \in SUBSET Convoys : S = {} => g[S] = loaded
      /\ \A S \in SUBSET Convoys : S # {} => g[S] = Renewed(g[S \ {LastOf(S)}], LastOf(S))
  BY <1>1 DEF Finishing
<1> DEFINE Bad == {n \in Nat : \E S \in SUBSET Convoys : Cardinality(S) = n /\ g[S] \notin Good}
<1>3. ASSUME Bad # {} PROVE FALSE
  <2>1. Bad \in SUBSET Nat
    OBVIOUS
  <2> HIDE DEF Bad
  <2>2. PICK n \in Bad : \A m \in Bad : n <= m
    BY <2>1, <1>3, LeastNumber
  <2> USE DEF Bad
  <2>3. PICK S \in SUBSET Convoys : Cardinality(S) = n /\ g[S] \notin Good
    BY <2>2
  <2>4. S # {}
    BY <2>3, <1>2
  <2>5. PICK last, others : last = LastOf(S) /\ others = S \ {LastOf(S)}
    OBVIOUS
  <2>6. last \in Convoys /\ others \in SUBSET Convoys
    BY <2>4, <2>5, LastIsOne
  <2>7. g[others] \in Good
    <3>1. PICK m : m = Cardinality(others)
      OBVIOUS
    <3>2. m = n - 1 /\ n # 0 /\ n \in Nat
      BY <2>3, <2>4, <2>5, <3>1, SmallSets
    <3>3. m \in Nat /\ ~(n <= m)
      BY <3>2
    <3>4. m \notin Bad
      BY <3>3, <2>2
    <3> QED
      BY <3>1, <3>3, <3>4, <2>6
  <2>8. g[S] = Renewed(g[others], last)
    BY <1>2, <2>4, <2>5
  <2>9. g[S] \in Good
    BY <2>6, <2>7, <2>8
  <2> QED
    BY <2>3, <2>9
<1>4. Cardinality(Convoys) \in Nat
  BY SmallSets
<1> QED
  BY <1>1, <1>3, <1>4

LEMMA FinishedKeeps ==
    ASSUME Trains, NEW loaded, Kept(loaded), NEW q, q = Finished(loaded)
    PROVE  Kept(q)
<1>1. PICK Good : Good = {r \in RailType : Kept(r)}
  OBVIOUS
<1>2. loaded \in Good
  BY <1>1 DEF Kept
<1>3. ASSUME NEW r \in Good, NEW c \in Convoys PROVE Renewed(r, c) \in Good
  <2>1. PICK o : o = Renewed(r, c)
    OBVIOUS
  <2>2. Kept(o)
    BY <2>1, <1>1, RenewedKeeps
  <2> QED
    BY <2>1, <2>2, <1>1 DEF Kept
<1>4. q \in Good
  BY <1>2, <1>3, FinishedStaysIn
<1> QED
  BY <1>1, <1>4

Claimants(t) == {c \in Convoys : t \in Claimed(c)}

\* What a train claims when a game is loaded is what it held.
LEMMA ClaimedIsHeld ==
    ASSUME Trains, AllSecure, NEW c \in Convoys, NEW t \in Claimed(c)
    PROVE  rail.reserved[t] = c
<1>1. state[c] # "SELF_DESTRUCT"
  <2>1. SUFFICES ASSUME state[c] = "SELF_DESTRUCT" PROVE FALSE
    OBVIOUS
  <2>2. tile[c] = <<>>
    BY <2>1 DEF Trains, Train
  <2>3. Own(c) = {}
    BY <2>2 DEF Own
  <2>4. ~Moving(c)
    BY <2>1 DEF Moving, Waiting
  <2> QED
    BY <2>3, <2>4 DEF Claimed
<1>2. PICK n, ts, at, rt, h, l, k :
         /\ n = Wagons[c] /\ ts = tile[c] /\ at = index[c] /\ rt = route[c]
         /\ h = HeadIndex(c) /\ l = TailIndex(c) /\ k = rail.last[c]
  OBVIOUS
<1>3. /\ Placed(c, state[c], rt, ts, at) /\ n \in Nat \ {0} /\ h \in Nat \ {0} /\ l \in Nat \ {0}
      /\ state[c] \in Rolling => OnRoute(c, rt, ts, at)
      /\ h = at[1] /\ l = at[n]
  BY <1>1, <1>2, RollingTrain DEF HeadIndex, TailIndex
<1>4. /\ \A i \in 1 .. n : rail.reserved[ts[i]] = c
      /\ state[c] \in Rolling => Goes(rail, c, state[c], rt, h)
  BY <1>1, <1>2, <1>3 DEF AllSecure, Secure
<1>5. CASE t \in Own(c)
  <2>1. DOMAIN tile[c] = 1 .. n
    BY <1>2, <1>3 DEF Placed, Coupling
  <2> QED
    BY <2>1, <1>2, <1>4, <1>5 DEF Own
<1>6. CASE t \notin Own(c)
  <2>1. Moving(c) /\ t \in TilesOf(rt, l + 1 .. k)
    BY <1>2, <1>6 DEF Claimed
  <2>2. state[c] \in Rolling
    BY <2>1 DEF Moving, Rolling
  <2>3. PICK i \in l + 1 .. k : t = rt[i]
    BY <2>1 DEF TilesOf
  <2>4. i \in Nat /\ l < i /\ i <= k
    <3>1. k \in Nat
      BY <1>2 DEF Trains, TypeOK, RailType
    <3> QED
      BY <3>1, <1>3
  <2>5. CASE i <= h
    <3>1. i \in at[n] .. at[1] /\ Coupled(n, at)
      BY <2>4, <2>5, <1>2, <1>3 DEF Placed, Coupling
    <3>2. \E j \in 1 .. n : at[j] = i
      BY <3>1, <1>3, CoupledCover
    <3>3. PICK j \in 1 .. n : at[j] = i
      BY <3>2
    <3>4. ts[j] = rt[i]
      BY <3>3, <1>2, <1>3, <2>2 DEF OnRoute
    <3> QED
      BY <3>4, <2>3, <1>4
  <2>6. CASE ~(i <= h)
    <3>1. HeldTo(rail, c, rt, h, k)
      BY <1>2, <1>4, <2>2 DEF Goes, Holds
    <3>2. i \in h + 1 .. k
      BY <2>4, <2>6, <1>3
    <3> QED
      BY <3>1, <3>2, <2>3 DEF HeldTo
  <2> QED
    BY <2>5, <2>6
<1> QED
  BY <1>5, <1>6

\* the vehicles that stand on the crossing
OnCrossing == {v \in Convoys \X UNION {DOMAIN tile[c] : c \in Convoys} :
                  v[2] \in DOMAIN tile[v[1]] /\ tile[v[1]][v[2]] \in CrossingTiles}

\* what is loaded before the first finish_rd
Loads(loaded) ==
    /\ loaded \in RailType /\ loaded.last = rail.last /\ loaded.stop = rail.stop
    /\ loaded.crossing = RecalcState(rail.crossing, OnCrossing)
    /\ \A t \in Tiles : /\ Claimants(t) = {} => loaded.reserved[t] = NoConvoy
                        /\ Claimants(t) # {} => loaded.reserved[t] \in Claimants(t)

LEMMA LoadIs ==
    ASSUME Trains, Load
    PROVE  /\ \E loaded : Loads(loaded) /\ rail' = Finished(loaded)
           /\ UNCHANGED <<signal, state, route, tile, index>>
<1>1. PICK on, loaded :
         /\ on = OnCrossing
         /\ loaded = [rail EXCEPT
                         !.reserved = [t \in Tiles |-> IF Claimants(t) = {} THEN NoConvoy
                                                       ELSE CHOOSE c \in Claimants(t) : TRUE],
                         !.crossing = RecalcState(rail.crossing, on)]
         /\ rail' = Finished(loaded)
         /\ UNCHANGED <<signal, state, route, tile, index>>
  BY DEF Load, Claimants, OnCrossing
<1>2. rail \in RailType /\ rail.crossing \in CrossingLogic(Vehicles)
  BY DEF Trains, TypeOK, RailType
<1>3. on \in SUBSET Vehicles
  <2>1. \A c \in Convoys : DOMAIN tile[c] \subseteq Nat
    BY DEF Trains, TypeOK
  <2>2. \A v \in on : v \in Convoys \X Nat
    BY <1>1, <2>1 DEF OnCrossing
  <2> QED
    BY <2>2 DEF Vehicles
<1>4. PICK cr, held : /\ cr = RecalcState(rail.crossing, on)
                      /\ held = [t \in Tiles |-> IF Claimants(t) = {} THEN NoConvoy
                                                 ELSE CHOOSE c \in Claimants(t) : TRUE]
  OBVIOUS
<1>5. cr \in CrossingLogic(Vehicles)
  BY <1>2, <1>3, <1>4, CrossingTypes
<1>6. \A t \in Tiles : /\ Claimants(t) = {} => held[t] = NoConvoy
                       /\ Claimants(t) # {} => held[t] \in Claimants(t)
  BY <1>4
<1>7. held \in [Tiles -> Convoys \cup {NoConvoy}]
  <2>1. \A t \in Tiles : Claimants(t) \subseteq Convoys
    BY DEF Claimants
  <2>2. \A t \in Tiles : held[t] \in Convoys \cup {NoConvoy}
    BY <2>1, <1>6
  <2> QED
    BY <2>2, <1>4
<1>8. loaded = [rail EXCEPT !.reserved = held, !.crossing = cr]
  BY <1>1, <1>4
<1>9. /\ loaded \in RailType /\ loaded.reserved = held
      /\ loaded.last = rail.last /\ loaded.stop = rail.stop /\ loaded.crossing = cr
  BY <1>2, <1>5, <1>7, <1>8 DEF RailType
<1>10. Loads(loaded)
  BY <1>1, <1>4, <1>6, <1>9 DEF Loads
<1> QED
  BY <1>1, <1>10

LEMMA LoadSteps ==
    ASSUME Trains, Load
    PROVE  Trains' /\ (AllSecure => AllSecure')
<1>1. PICK loaded : Loads(loaded) /\ rail' = Finished(loaded)
  BY LoadIs
<1>2. rail \in RailType /\ UNCHANGED <<signal, state, route, tile, index>>
  BY LoadIs DEF Trains, TypeOK
<1>3. PICK held : held = loaded.reserved
  OBVIOUS
<1>6. \A t \in Tiles : /\ Claimants(t) = {} => held[t] = NoConvoy
                       /\ Claimants(t) # {} => held[t] \in Claimants(t)
  BY <1>1, <1>3 DEF Loads
<1>9. /\ loaded \in RailType /\ loaded.reserved = held
      /\ loaded.last = rail.last /\ loaded.stop = rail.stop
  BY <1>1, <1>3 DEF Loads
<1>10. ASSUME AllSecure, NEW d \in Convoys
       PROVE  Secure(loaded, d, state[d], route[d], tile[d], index[d])
  <2>1. SUFFICES ASSUME state[d] # "SELF_DESTRUCT"
                 PROVE  /\ \A i \in 1 .. Wagons[d] : loaded.reserved[tile[d][i]] = d
                        /\ state[d] \in Rolling =>
                              Goes(loaded, d, state[d], route[d], index[d][1])
    BY DEF Secure
  <2>2. \A t \in Tiles : t \in Claimed(d) => held[t] = d
    <3>1. ASSUME NEW t \in Tiles, t \in Claimed(d) PROVE held[t] = d
      <4>1. d \in Claimants(t)
        BY <3>1 DEF Claimants
      <4>2. \A c \in Claimants(t) : rail.reserved[t] = c
        BY <1>10, ClaimedIsHeld DEF Claimants
      <4> QED
        BY <4>1, <4>2, <1>6
    <3> QED
      BY <3>1
  <2>3. PICK n, ts, at, rt, h, l, k :
           /\ n = Wagons[d] /\ ts = tile[d] /\ at = index[d] /\ rt = route[d]
           /\ h = HeadIndex(d) /\ l = TailIndex(d) /\ k = rail.last[d]
    OBVIOUS
  <2>4. /\ Placed(d, state[d], rt, ts, at) /\ n \in Nat \ {0} /\ h \in Nat \ {0}
        /\ l \in Nat \ {0} /\ l <= h /\ Len(rt) \in Nat /\ rt \in Seq(Tiles) /\ h = at[1]
    BY <2>1, <2>3, RollingTrain DEF HeadIndex
  <2>5. ASSUME NEW i \in 1 .. n PROVE loaded.reserved[ts[i]] = d
    <3>1. ts[i] \in Tiles /\ i \in DOMAIN ts
      BY <2>3, <2>4, <2>5 DEF Placed, Coupling
    <3>2. ts[i] \in Claimed(d)
      BY <3>1, <2>3 DEF Claimed, Own
    <3> QED
      BY <3>1, <3>2, <2>2, <1>9
  <2>6. ASSUME state[d] \in Rolling PROVE Goes(loaded, d, state[d], rt, h)
    <3>1. Goes(rail, d, state[d], rt, h)
      BY <1>10, <2>1, <2>3, <2>4, <2>6 DEF AllSecure, Secure
    <3>2. Moving(d)
      BY <2>6 DEF Rolling, Moving
    <3>3. k \in Nat /\ k <= Len(rt)
      <4>1. k \in Nat
        BY <2>3, <1>2 DEF RailType
      <4> QED
        BY <4>1, <3>1, <2>3 DEF Goes, Holds
    <3>4. ASSUME NEW i \in h + 1 .. k PROVE loaded.reserved[rt[i]] = d
      <4>1. i \in l + 1 .. k /\ i \in 1 .. Len(rt)
        BY <2>4, <3>3
      <4>2. rt[i] \in Tiles
        BY <4>1, <2>4
      <4>3. rt[i] \in TilesOf(rt, l + 1 .. k)
        BY <4>1 DEF TilesOf
      <4>4. rt[i] \in Claimed(d)
        BY <4>3, <3>2, <2>3 DEF Claimed
      <4> QED
        BY <4>2, <4>4, <2>2, <1>9
    <3>5. Holds(loaded, d, rt, h)
      BY <3>3, <3>4, <2>3, <1>9 DEF Holds, HeldTo
    <3>6. StopsWell(rail, d, rt, h) => StopsWell(loaded, d, rt, h)
      BY <1>9 DEF StopsWell
    <3> QED
      BY <3>1, <3>5, <3>6 DEF Goes
  <2> QED
    BY <2>3, <2>4, <2>5, <2>6
<1>11. Kept(loaded)
  BY <1>9, <1>10 DEF Kept
<1>12. PICK q : q = Finished(loaded)
  OBVIOUS
<1>13. Kept(q)
  BY <1>11, <1>12, FinishedKeeps
<1>14. rail' = q /\ q \in RailType
  BY <1>1, <1>12, <1>13 DEF Kept
<1>15. Trains'
  BY <1>2, <1>14 DEF Trains, TypeOK, SignalsLeft
<1>16. ASSUME AllSecure PROVE AllSecure'
  <2>1. \A d \in Convoys : Secure(q, d, state[d], route[d], tile[d], index[d])
    BY <1>13, <1>16 DEF Kept
  <2>2. \A d \in Convoys : Secure(q, d, state'[d], route'[d], tile'[d], index'[d])
    BY <2>1, <1>2
  <2> QED
    BY <1>2, <2>2, <1>14 DEF AllSecure, Secure, Goes, Holds, HeldTo, StopsWell, ClearEnd
<1> QED
  BY <1>15, <1>16

-----------------------------------------------------------------------------
(* The rest of the world, and every step.                                  *)

LEMMA CarSteps ==
    ASSUME Trains, NEW v \in Cars, CarEnters(v) \/ CarLeaves(v)
    PROVE  Trains' /\ (AllSecure => AllSecure')
<1>1. rail \in RailType /\ rail.crossing \in CrossingLogic(Vehicles) /\ v \in Vehicles
  BY DEF Trains, TypeOK, RailType, Vehicles
<1>2. PICK cr : /\ cr \in {AddToCrossing1(rail.crossing, v), ReleaseCrossing1(rail.crossing, v)}
                /\ rail' = [rail EXCEPT !.crossing = cr]
                /\ UNCHANGED <<signal, state, route, tile, index>>
  BY DEF CarEnters, CarLeaves
<1>3. cr \in CrossingLogic(Vehicles)
  BY <1>1, <1>2, CrossingTypes
<1>4. OnlyCrossing(rail, rail')
  <2>1. PICK q : q = [rail EXCEPT !.crossing = cr]
    OBVIOUS
  <2>2. OnlyCrossing(rail, q)
    BY <2>1, <1>1, <1>3, CrossingDoes
  <2> QED
    BY <2>1, <2>2, <1>2
<1>5. rail' \in RailType /\ rail'.last = rail.last /\ rail'.stop = rail.stop
      /\ rail'.reserved = rail.reserved
  BY <1>4 DEF OnlyCrossing
<1>6. Trains'
  BY <1>2, <1>5 DEF Trains, TypeOK, SignalsLeft
<1>7. ASSUME AllSecure PROVE AllSecure'
  BY <1>2, <1>5, <1>7 DEF AllSecure, Secure, Goes, Holds, HeldTo, StopsWell, ClearEnd
<1> QED
  BY <1>6, <1>7

LEMMA SignalSteps ==
    ASSUME Trains, NEW t \in Tiles, SignalRemoved(t)
    PROVE  Trains' /\ (AllSecure => AllSecure')
<1>1. signal' = [signal EXCEPT ![t] = "none"] /\ UNCHANGED <<state, route, tile, index, rail>>
  BY DEF SignalRemoved
<1>2. \A u \in Tiles : signal'[u] \in {signal[u], "none"}
  BY <1>1 DEF Trains, TypeOK
<1>3. signal' \in [Tiles -> {"none", "normal", "pre"}]
  BY <1>1 DEF Trains, TypeOK
<1>4. Trains'
  BY <1>1, <1>2, <1>3 DEF Trains, TypeOK, SignalsLeft
<1>5. ASSUME AllSecure PROVE AllSecure'
  BY <1>1, <1>5 DEF AllSecure, Secure, Goes, Holds, HeldTo, StopsWell, ClearEnd
<1> QED
  BY <1>4, <1>5

LEMMA StandingSteps ==
    ASSUME Trains, NEW c \in Convoys, Arrives(c) \/ Loaded(c) \/ NewSchedule(c)
    PROVE  Trains' /\ (AllSecure => KeepsOthers(c))
<1>1. PICK st \in {"LOADING", "ROUTING_1"} :
         state' = [state EXCEPT ![c] = st] /\ UNCHANGED <<signal, route, tile, index, rail>>
  BY DEF Arrives, Loaded, NewSchedule
<1>2. st \in States \ Rolling
  BY <1>1 DEF States, Rolling, Waiting
<1>3. state[c] # "SELF_DESTRUCT"
  BY DEF Arrives, Loaded, NewSchedule, States, Waiting
<1> QED
  BY <1>1, <1>2, <1>3, StateSteps

LEMMA StutteringSteps ==
    ASSUME Trains, UNCHANGED vars
    PROVE  Trains' /\ (AllSecure => AllSecure')
<1>1. Trains'
  BY DEF vars, Trains, TypeOK, SignalsLeft
<1>2. ASSUME AllSecure PROVE AllSecure'
  BY <1>2 DEF vars, AllSecure, Secure, Goes, Holds, HeldTo, StopsWell, ClearEnd
<1> QED
  BY <1>1, <1>2

LEMMA EveryStep ==
    ASSUME Trains, [Next]_vars
    PROVE  Trains' /\ (AllSecure /\ SearchesSucceed => AllSecure')
<1>1. ASSUME NEW c \in Convoys, Proceed(c) PROVE Trains' /\ (AllSecure => AllSecure')
  BY <1>1, ProceedSteps DEF KeepsOthers
<1>2. ASSUME NEW c \in Convoys, HeadHops(c) PROVE Trains' /\ (AllSecure => AllSecure')
  BY <1>2, HeadHopsSteps DEF KeepsOthers
<1>3. ASSUME NEW c \in Convoys, FollowerHops(c) PROVE Trains' /\ (AllSecure => AllSecure')
  BY <1>3, FollowerHopsSteps DEF KeepsOthers
<1>4. ASSUME NEW c \in Convoys, Arrives(c) \/ Loaded(c) \/ NewSchedule(c)
      PROVE  Trains' /\ (AllSecure => AllSecure')
  BY <1>4, StandingSteps DEF KeepsOthers
<1>5. ASSUME NEW c \in Convoys, Reroute(c)
      PROVE  Trains' /\ (AllSecure /\ SearchesSucceed => AllSecure')
  BY <1>5, RerouteSteps DEF KeepsOthers
<1>6. ASSUME NEW c \in Convoys, Destroy(c) PROVE Trains' /\ (AllSecure => AllSecure')
  BY <1>6, DestroySteps DEF KeepsOthers
<1>7. ASSUME Load PROVE Trains' /\ (AllSecure => AllSecure')
  BY <1>7, LoadSteps
<1>8. ASSUME NEW v \in Cars, CarEnters(v) \/ CarLeaves(v)
      PROVE  Trains' /\ (AllSecure => AllSecure')
  BY <1>8, CarSteps
<1>9. ASSUME NEW t \in Tiles, SignalRemoved(t) PROVE Trains' /\ (AllSecure => AllSecure')
  BY <1>9, SignalSteps
<1>10. ASSUME UNCHANGED vars PROVE Trains' /\ (AllSecure => AllSecure')
  BY <1>10, StutteringSteps
<1> QED
  BY <1>1, <1>2, <1>3, <1>4, <1>5, <1>6, <1>7, <1>8, <1>9, <1>10 DEF Next, TrainStep

(* Every variable has its type, whatever trains, players and a loaded game *)
(* do: the proof needs where the vehicles of a train are on its route, for *)
(* the tiles that reservations and hops are computed from.                 *)
THEOREM TypeCorrect == Spec => []TypeOK
<1>1. Init => Trains
  BY InitSecure
<1>2. Trains /\ [Next]_vars => Trains'
  BY EveryStep
<1>3. Trains => TypeOK
  BY DEF Trains
<1> QED
  BY <1>1, <1>2, <1>3, PTL DEF Spec

-----------------------------------------------------------------------------
(* What the railway promises.                                              *)

LEMMA HoldsWhatItStandsOn == ASSUME Trains, AllSecure PROVE StandsOnItsTiles
<1> SUFFICES ASSUME NEW c \in Convoys, NEW t \in Own(c) PROVE rail.reserved[t] = c
  BY DEF StandsOnItsTiles
<1>1. t \in Claimed(c)
  BY DEF Claimed
<1> QED
  BY <1>1, ClaimedIsHeld

LEMMA OneTrainPerTile == ASSUME StandsOnItsTiles PROVE NoTwoTrains
  BY DEF StandsOnItsTiles, NoTwoTrains

LEMMA HoldsItsWay == ASSUME EndsAreClear, Trains, AllSecure PROVE WayIsReserved
<1> SUFFICES ASSUME NEW c \in Convoys, state[c] = "DRIVING",
                    NEW i \in TailIndex(c) .. Len(route[c]),
                    rail.stop[c] = 0 \/ i < rail.stop[c]
             PROVE  rail.reserved[route[c][i]] = c
  BY DEF WayIsReserved
<1>1. state[c] # "SELF_DESTRUCT" /\ state[c] \in Rolling
  BY DEF Rolling
<1>2. PICK n, ts, at, rt, h, l, k, s :
         /\ n = Wagons[c] /\ ts = tile[c] /\ at = index[c] /\ rt = route[c]
         /\ h = HeadIndex(c) /\ l = TailIndex(c) /\ k = rail.last[c] /\ s = rail.stop[c]
  OBVIOUS
<1>3. /\ Placed(c, state[c], rt, ts, at) /\ Bound(c, state[c], rt, ts, at)
      /\ n \in Nat \ {0} /\ h \in Nat \ {0} /\ l \in Nat \ {0} /\ OnRoute(c, rt, ts, at)
      /\ h = at[1] /\ l = at[n] /\ rt \in Seq(Tiles) /\ Len(rt) \in Nat \ {0}
      /\ h <= Len(rt)
  <2>1. h \in 1 .. Len(rt)
    BY <1>1, <1>2, RollingTrain DEF Way
  <2> QED
    BY <2>1, <1>1, <1>2, RollingTrain DEF HeadIndex, TailIndex
<1>4. /\ \A j \in 1 .. n : rail.reserved[ts[j]] = c
      /\ Holds(rail, c, rt, h) /\ StopsWell(rail, c, rt, h)
  <2>1. Secure(rail, c, state[c], rt, ts, at)
    BY <1>2 DEF AllSecure
  <2> QED
    BY <2>1, <1>1, <1>2, <1>3 DEF Secure, Goes
<1>5. i \in l .. Len(rt) /\ (s = 0 \/ i < s) /\ k \in Nat /\ s \in Nat
  BY <1>2 DEF Trains, TypeOK, RailType
<1>6. CASE i <= h
  <2>1. i \in at[n] .. at[1] /\ Coupled(n, at)
    BY <1>2, <1>3, <1>5, <1>6 DEF Placed, Coupling
  <2>2. \E j \in 1 .. n : at[j] = i
    BY <2>1, <1>3, CoupledCover
  <2>3. PICK j \in 1 .. n : at[j] = i
    BY <2>2
  <2>4. ts[j] = rt[i]
    BY <2>3, <1>2, <1>3 DEF OnRoute
  <2> QED
    BY <2>4, <1>2, <1>4
<1>7. CASE ~(i <= h)
  <2>1. i \in Nat /\ h < i /\ i <= Len(rt)
    BY <1>3, <1>5, <1>7
  <2>2. ClearEnd(rt)
    <3>1. PICK o \in Routes : Last(o) = Last(rt)
      BY <1>1, <1>3 DEF Bound
    <3>2. Last(o) = rt[Len(rt)]
      BY <3>1 DEF Last
    <3> QED
      BY <3>1, <3>2 DEF EndsAreClear, ClearEnd
  <2>3. i <= k
    <3>1. \/ s = 0 /\ k = Len(rt)
          \/ s \in 1 .. h
          \/ s \in 1 .. k
          \/ s = Len(rt) /\ k = Len(rt) - 1
      BY <1>2, <1>4, <2>2 DEF StopsWell
    <3> QED
      BY <3>1, <2>1, <1>3, <1>5
  <2>4. i \in h + 1 .. k
    BY <2>1, <2>3, <1>3, <1>5
  <2> QED
    BY <2>4, <1>2, <1>4 DEF Holds, HeldTo
<1> QED
  BY <1>3, <1>5, <1>6, <1>7

LEMMA StaysSecure == ASSUME SearchesSucceed PROVE Spec => [](Trains /\ AllSecure)
<1>1. Init => Trains /\ AllSecure
  BY InitSecure
<1>2. (Trains /\ AllSecure) /\ [Next]_vars => (Trains /\ AllSecure)'
  BY EveryStep
<1> QED
  BY <1>1, <1>2, PTL DEF Spec

(* No tile under a train is given back, on every layout where a search of  *)
(* a train of several vehicles that has left the beginning of its route    *)
(* succeeds.                                                               *)
THEOREM TrainsStandOnTheirTiles == ASSUME SearchesSucceed PROVE Spec => []StandsOnItsTiles
<1>1. Trains /\ AllSecure => StandsOnItsTiles
  BY HoldsWhatItStandsOn
<1> QED
  BY <1>1, StaysSecure, PTL

(* There are never two trains on one tile, on every such layout: the       *)
(* reservations, the only thing that can_enter_tile looks at, are enough.  *)
THEOREM TrainsStayApart == ASSUME SearchesSucceed PROVE Spec => []NoTwoTrains
<1>1. Trains /\ AllSecure => NoTwoTrains
  BY HoldsWhatItStandsOn, OneTrainPerTile
<1> QED
  BY <1>1, StaysSecure, PTL

(* A train that drives holds everything from its last vehicle up to its    *)
(* next stop, on every such layout where no route ends on a crossing with  *)
(* a signal.                                                               *)
THEOREM TrainsHoldTheirWay ==
    ASSUME SearchesSucceed, EndsAreClear PROVE Spec => []WayIsReserved
<1>1. Trains /\ AllSecure => WayIsReserved
  BY HoldsItsWay
<1> QED
  BY <1>1, StaysSecure, PTL

-----------------------------------------------------------------------------
(* The crossing logic, as the trains find it.                              *)

\* There is no car where a train is, or where one was promised that it may go.
RoadWaits(cr) ==
    /\ cr.way2 # {} => cr.way1 = {}
    /\ cr.request # NoVehicle => /\ cr.way1 = {} /\ cr.state = "closed"
                                 /\ \E c \in Convoys : cr.request = Engine(c)

\* what c does to the crossing, and not to what others did
Minds(cr, new, c) ==
    /\ RoadWaits(cr) => RoadWaits(new)
    /\ \A d \in Convoys : d # c =>
          /\ new.request = Engine(d) <=> cr.request = Engine(d)
          /\ \A i \in Nat : <<d, i>> \in new.way2 <=> <<d, i>> \in cr.way2

LEMMA MindsTwice ==
    ASSUME NEW c, NEW cr, NEW mid, NEW new, Minds(cr, mid, c), Minds(mid, new, c)
    PROVE  Minds(cr, new, c)
  BY DEF Minds

LEMMA MindsNothing == ASSUME NEW c, NEW cr PROVE Minds(cr, cr, c)
  BY DEF Minds

LEMMA EngineIsOne ==
    /\ \A c \in Convoys : Engine(c) # NoVehicle /\ Engine(c) \in Convoys \X Nat
    /\ \A c, d \in Convoys : Engine(c) = Engine(d) => c = d
  BY VehicleAssumption DEF Engine

LEMMA ReleaseMinds ==
    ASSUME NEW c \in Convoys, NEW cr \in CrossingLogic(Vehicles), NEW V \in SUBSET ({c} \X Nat),
           NEW new, new = ReleaseCrossing2(cr, V)
    PROVE  /\ Minds(cr, new, c) /\ new.way2 = cr.way2 \ V
           /\ new.request = IF cr.request \in V THEN NoVehicle ELSE cr.request
<1>1. /\ new.way2 = cr.way2 \ V /\ new.way1 = cr.way1
      /\ new.request = IF cr.request \in V THEN NoVehicle ELSE cr.request
      /\ new.request # NoVehicle => new.state = cr.state
  BY DEF ReleaseCrossing2, CrossingLogic
<1>2. RoadWaits(cr) => RoadWaits(new)
  BY <1>1 DEF RoadWaits
<1>3. ASSUME NEW d \in Convoys, d # c
      PROVE  /\ new.request = Engine(d) <=> cr.request = Engine(d)
             /\ \A i \in Nat : <<d, i>> \in new.way2 <=> <<d, i>> \in cr.way2
  <2>1. Engine(d) \notin V /\ \A i \in Nat : <<d, i>> \notin V
    BY <1>3 DEF Engine
  <2>2. Engine(d) # NoVehicle
    BY EngineIsOne
  <2> QED
    BY <1>1, <2>1, <2>2
<1> QED
  BY <1>1, <1>2, <1>3 DEF Minds

LEMMA AskMinds ==
    ASSUME NEW c \in Convoys, NEW cr \in CrossingLogic(Vehicles), MayCross2(cr),
           \A d \in Convoys : d # c => cr.request # Engine(d),
           NEW new, new = RequestCrossing2(cr, Engine(c))
    PROVE  Minds(cr, new, c) /\ new.way2 = cr.way2 /\ new.request = Engine(c)
<1>1. /\ new.way2 = cr.way2 /\ new.way1 = {} /\ cr.way1 = {} /\ new.request = Engine(c)
      /\ new.state = "closed"
  BY DEF RequestCrossing2, MayCross2, CrossingLogic
<1>2. RoadWaits(new)
  BY <1>1 DEF RoadWaits
<1> QED
  BY <1>1, <1>2, EngineIsOne DEF Minds

LEMMA RefusedMinds ==
    ASSUME NEW c \in Convoys, NEW cr \in CrossingLogic(Vehicles), ~MayCross2(cr), RoadWaits(cr),
           NEW new, new = RequestCrossing2(cr, Engine(c))
    PROVE  Minds(cr, new, c) /\ new.way2 = cr.way2 /\ new.request = cr.request
<1>1. new.way2 = cr.way2 /\ new.way1 = cr.way1 /\ cr.way1 # {} /\ new.request = cr.request
  BY DEF RequestCrossing2, MayCross2, CrossingLogic
<1> QED
  BY <1>1 DEF Minds, RoadWaits

LEMMA AddMinds ==
    ASSUME NEW c \in Convoys, NEW cr \in CrossingLogic(Vehicles), cr.way1 = {}, NEW i \in Nat,
           NEW new, new = AddToCrossing2(cr, <<c, i>>)
    PROVE  /\ Minds(cr, new, c) /\ new.way2 = cr.way2 \cup {<<c, i>>}
           /\ new.request = IF cr.request = <<c, i>> THEN NoVehicle ELSE cr.request
<1>1. /\ new.way2 = cr.way2 \cup {<<c, i>>} /\ new.way1 = {} /\ new.state = "closed"
      /\ new.request = IF cr.request = <<c, i>> THEN NoVehicle ELSE cr.request
  BY DEF AddToCrossing2, CrossingLogic
<1>2. RoadWaits(cr) => RoadWaits(new)
  BY <1>1 DEF RoadWaits
<1> QED
  BY <1>1, <1>2, EngineIsOne DEF Minds, Engine

-----------------------------------------------------------------------------
(* Where an attempt to reserve finds the next signal and the next crossing.*)

Seeks(b, c, rt, s) ==
    b.ok =>
        /\ b.signal # 0 => b.signal \in s .. Len(rt) /\ signal[rt[b.signal]] # "none"
        /\ b.crossing # 0 => b.crossing \in s .. Len(rt) /\ rt[b.crossing] \in CrossingTiles
        /\ \A p \in s .. Len(rt) : rt[p] \in CrossingTiles =>
              (b.signal # 0 /\ b.signal < p) \/ (b.crossing # 0 /\ b.crossing <= p)

LEMMA ReserveFromSeeks ==
    ASSUME NEW c \in Convoys, NEW r \in RailType, NEW rt \in Seq(Tiles), NEW s \in Nat \ {0},
           NEW b, b = ReserveFrom(r, c, rt, s)
    PROVE  Seeks(b, c, rt, s) /\ b.r.crossing = r.crossing
<1>1. Len(rt) \in Nat
  OBVIOUS
<1>2. PICK sig : sig = SignalFrom(rt, s)
  OBVIOUS
<1>3. sig \in Nat /\ (sig # 0 => sig \in s .. Len(rt) /\ signal[rt[sig]] # "none")
  <2> DEFINE T == {i \in s .. Len(rt) : signal[rt[i]] # "none"}
  <2>1. T \in SUBSET Nat
    BY <1>1
  <2>2. FirstOf(T) = 0 \/ FirstOf(T) \in T
    BY <2>1, FirstIsLeast
  <2> QED
    BY <2>2, <1>1, <1>2 DEF SignalFrom
<1>4. PICK end : end = IF sig = 0 THEN Len(rt) ELSE sig
  OBVIOUS
<1>5. end \in Nat /\ end <= Len(rt)
  BY <1>1, <1>3, <1>4
<1>6. PICK x : x = CrossingIn(rt, s, end)
  OBVIOUS
<1>7. /\ x # 0 => x \in s .. end /\ rt[x] \in CrossingTiles
      /\ \A p \in s .. end : rt[p] \in CrossingTiles => x # 0 /\ x <= p
  <2> DEFINE T == {i \in s .. end : rt[i] \in CrossingTiles}
  <2>1. T \in SUBSET Nat
    BY <1>5
  <2>2. /\ T = {} => FirstOf(T) = 0
        /\ T # {} => FirstOf(T) \in T /\ \A y \in T : FirstOf(T) <= y
    BY <2>1, FirstIsLeast
  <2>3. x = FirstOf(T)
    BY <1>6 DEF CrossingIn
  <2>4. 0 \notin T
    OBVIOUS
  <2> QED
    BY <2>2, <2>3, <2>4
<1>8. b.signal = sig /\ b.crossing = x
  <2>1. b = ReserveAll(r, c, rt, s, sig)
    BY <1>2 DEF ReserveFrom
  <2> QED
    BY <2>1, <1>4, <1>6 DEF ReserveAll
<1>9. Seeks(b, c, rt, s)
  <2>1. SUFFICES ASSUME b.ok, NEW p \in s .. Len(rt), rt[p] \in CrossingTiles
                 PROVE  (sig # 0 /\ sig < p) \/ (x # 0 /\ x <= p)
    BY <1>1, <1>3, <1>5, <1>7, <1>8 DEF Seeks
  <2>2. CASE p \in s .. end
    BY <2>1, <2>2, <1>7
  <2>3. CASE p \notin s .. end
    BY <2>1, <2>3, <1>1, <1>3, <1>4, <1>5
  <2> QED
    BY <2>2, <2>3
<1>10. b.r.crossing = r.crossing
  <2>1. \A q, n : SetLast(q, c, n).crossing = q.crossing
    BY DEF SetLast
  <2>2. \A S : ReserveTiles(r, c, S).crossing = r.crossing
    BY DEF ReserveTiles
  <2>3. \A S : FreeTiles(r, c, S).crossing = r.crossing
    BY DEF FreeTiles
  <2>4. b = ReserveAll(r, c, rt, s, sig)
    BY <1>2 DEF ReserveFrom
  <2>5. \/ \E S, n : b.r = SetLast(ReserveTiles(r, c, S), c, n)
        \/ \E S, n : b.r = SetLast(FreeTiles(r, c, S), c, n)
    <3>1. PICK blocked : blocked = FirstOf({i \in s .. end : ~CanReserve(r, c, rt[i])})
      OBVIOUS
    <3>2. b.r = IF blocked = 0
                THEN SetLast(ReserveTiles(r, c, TilesOf(rt, s .. end)), c, end)
                ELSE SetLast(FreeTiles(r, c, TilesOf(rt, s .. blocked)), c, s - 1)
      BY <2>4, <3>1, <1>4 DEF ReserveAll
    <3> QED
      BY <3>2
  <2> QED
    BY <2>1, <2>2, <2>3, <2>5
<1> QED
  BY <1>9, <1>10

LEMMA BlockReserveSeeks ==
    ASSUME NEW c \in Convoys, NEW r \in RailType, NEW rt, NEW h, Way(rt, h),
           NEW s \in h .. Len(rt), NEW start, start = s + 1 \/ (start = h /\ s = h),
           NEW b, b = BlockReserve(r, c, rt, rt[h], start)
    PROVE  Seeks(b, c, rt, s + 1) /\ b.r.crossing = r.crossing
<1>1. /\ Len(rt) \in Nat /\ h \in Nat \ {0} /\ h <= Len(rt) /\ s \in Nat /\ start \in Nat
      /\ \A i, j \in 1 .. Len(rt) : rt[i] = rt[j] => i = j
  BY WayTiles
<1>2. CASE start > Len(rt)
  <2>1. ~b.ok /\ b.r = SetLast(r, c, Len(rt) - 1)
    BY <1>2 DEF BlockReserve
  <2> QED
    BY <2>1 DEF Seeks, SetLast
<1>3. CASE ~(start > Len(rt))
  <2>1. start \in 1 .. Len(rt)
    BY <1>1, <1>3
  <2>2. (IF rt[start] = rt[h] THEN start + 1 ELSE start) = s + 1
    BY <1>1, <2>1
  <2>3. PICK n : n = s + 1
    OBVIOUS
  <2>4. n \in Nat \ {0} /\ b = ReserveFrom(r, c, rt, n) /\ rt \in Seq(Tiles)
    BY <1>1, <1>3, <2>2, <2>3 DEF BlockReserve, Way
  <2> QED
    BY <2>3, <2>4, ReserveFromSeeks
<1> QED
  BY <1>2, <1>3

\* The stop is not behind the next crossing after position s.
StopAhead(r, c, rt, s) ==
    /\ \/ r.stop[c] = 0 \/ r.stop[c] = Len(rt) - 1
       \/ /\ r.stop[c] \in s + 1 .. Len(rt)
          /\ signal[rt[r.stop[c]]] # "none" \/ rt[r.stop[c]] \in CrossingTiles
    /\ \A p \in s + 1 .. Len(rt) : rt[p] \in CrossingTiles => r.stop[c] # 0 /\ r.stop[c] <= p

LEMMA NextStopIsAhead ==
    ASSUME NEW c \in Convoys, NEW r \in RailType, NEW rt, NEW h, Way(rt, h), NEW s \in h .. Len(rt),
           NEW b, b.ok, Seeks(b, c, rt, s + 1), NEW sig \in Nat, NEW cross \in Nat,
           sig = b.signal, cross = b.crossing, NEW q, q = NextStop(r, c, rt, sig, cross)
    PROVE  StopAhead(q, c, rt, s) /\ q.crossing = r.crossing
<1> DEFINE there == {sig, cross} \ {0}
<1>1. Len(rt) \in Nat /\ h \in Nat \ {0} /\ s \in Nat
  BY WayTiles
<1>2. q.crossing = r.crossing
  BY DEF NextStop, SetStop
<1>3. /\ \/ sig = 0 /\ cross = 0 /\ q.stop[c] = 0
         \/ sig = 0 /\ cross = 0 /\ q.stop[c] = Len(rt) - 1
         \/ q.stop[c] # 0 /\ q.stop[c] \in {sig, cross}
      /\ there # {} => q.stop[c] = FirstOf(there)
  <2> HIDE DEF there
  <2>1. \/ sig = 0 /\ cross = 0 /\ q.stop[c] = 0
        \/ sig = 0 /\ cross = 0 /\ q.stop[c] = Len(rt) - 1
        \/ q.stop[c] # 0 /\ q.stop[c] \in {sig, cross}
    BY NextStopDoes
  <2>2. there # {} => q = SetStop(r, c, FirstOf(there))
    BY DEF NextStop, FirstOf, there
  <2>3. there # {} => q.stop[c] = FirstOf(there)
    BY <2>2 DEF SetStop, RailType
  <2> QED
    BY <2>1, <2>3
<1>4. (sig # 0 => q.stop[c] <= sig) /\ (cross # 0 => q.stop[c] <= cross)
  <2>1. there \in SUBSET Nat
    OBVIOUS
  <2>2. sig # 0 => sig \in there
    OBVIOUS
  <2>3. cross # 0 => cross \in there
    OBVIOUS
  <2> HIDE DEF there
  <2>4. there # {} => \A x \in there : FirstOf(there) <= x
    BY <2>1, FirstIsLeast
  <2> QED
    BY <2>2, <2>3, <2>4, <1>3
<1>5. /\ sig # 0 => sig \in s + 1 .. Len(rt) /\ signal[rt[sig]] # "none"
      /\ cross # 0 => cross \in s + 1 .. Len(rt) /\ rt[cross] \in CrossingTiles
      /\ \A p \in s + 1 .. Len(rt) : rt[p] \in CrossingTiles =>
            (sig # 0 /\ sig < p) \/ (cross # 0 /\ cross <= p)
  BY DEF Seeks
<1> HIDE DEF there
<1>6. PICK n : n = q.stop[c]
  OBVIOUS
<1>7. \/ sig = 0 /\ cross = 0 /\ (n = 0 \/ n = Len(rt) - 1)
      \/ n # 0 /\ (n = sig \/ n = cross)
  BY <1>3, <1>6
<1>8. \/ n = 0 \/ n = Len(rt) - 1
      \/ n \in s + 1 .. Len(rt) /\ (signal[rt[n]] # "none" \/ rt[n] \in CrossingTiles)
  BY <1>5, <1>7
<1>9. ASSUME NEW p \in s + 1 .. Len(rt), rt[p] \in CrossingTiles PROVE n # 0 /\ n <= p
  <2>1. (sig # 0 /\ sig < p) \/ (cross # 0 /\ cross <= p)
    BY <1>5, <1>9
  <2>2. n \in Nat
    BY <1>1, <1>7, <2>1
  <2>3. (sig # 0 => n <= sig) /\ (cross # 0 => n <= cross)
    BY <1>4, <1>6
  <2>4. p \in Nat /\ n # 0
    BY <1>1, <1>7, <2>1
  <2> QED
    BY <2>1, <2>2, <2>3, <2>4, <1>1
<1> QED
  BY <1>2, <1>6, <1>8, <1>9 DEF StopAhead

\* an attempt to go on from position s: the next stop, and what happens to the crossing
Heeds(r, e, c, rt, s) ==
    /\ e.ok => StopAhead(e.r, c, rt, s)
    /\ \/ e.r.crossing = r.crossing
       \/ /\ e.r.crossing = ReleaseCrossing2(r.crossing, {Engine(c)})
          /\ \E p \in s + 1 .. Len(rt) : rt[p] \in CrossingTiles

LEMMA GoUpToHeeds ==
    ASSUME NEW c \in Convoys, NEW r, NEW rt, NEW h, Way(rt, h), NEW s \in h .. Len(rt),
           NEW b, b.r \in RailType, Seeks(b, c, rt, s + 1), b.r.crossing = r.crossing,
           b.signal \in Nat, b.crossing \in Nat, b.ok \in BOOLEAN, NEW e, e = GoUpTo(b, c, rt)
    PROVE  Heeds(r, e, c, rt, s) /\ e.r.crossing = r.crossing
<1>1. CASE b.ok
  <2>1. PICK sig, cross, p : sig = b.signal /\ cross = b.crossing /\ p = b.r
    OBVIOUS
  <2>2. PICK q : q = NextStop(p, c, rt, sig, cross)
    OBVIOUS
  <2>3. StopAhead(q, c, rt, s) /\ q.crossing = p.crossing
    BY <2>1, <2>2, <1>1, NextStopIsAhead
  <2>4. e.r = q
    BY <2>1, <2>2, <1>1 DEF GoUpTo
  <2> QED
    BY <2>1, <2>3, <2>4 DEF Heeds
<1>2. CASE ~b.ok
  <2>1. ~e.ok /\ e.r = b.r
    BY <1>2 DEF GoUpTo
  <2> QED
    BY <2>1 DEF Heeds
<1> QED
  BY <1>1, <1>2

LEMMA GoOnHeeds ==
    ASSUME NEW c \in Convoys, NEW r \in RailType, NEW rt, NEW h, Way(rt, h),
           NEW s \in h .. Len(rt), NEW start, start = s + 1 \/ (start = h /\ s = h),
           NEW e, e = GoUpTo(BlockReserve(r, c, rt, rt[h], start), c, rt)
    PROVE  Heeds(r, e, c, rt, s) /\ e.r.crossing = r.crossing
<1>1. PICK b : b = BlockReserve(r, c, rt, rt[h], start)
  OBVIOUS
<1>2. Does(r, b.r, c, rt, h) /\ Reserves(r, b, c, rt, s + 1)
  BY <1>1, BlockReserveDoes
<1>3. Seeks(b, c, rt, s + 1) /\ b.r.crossing = r.crossing
  BY <1>1, BlockReserveSeeks
<1>4. b.r \in RailType /\ b.signal \in Nat /\ b.crossing \in Nat /\ b.ok \in BOOLEAN
  BY <1>2 DEF Does, Reserves
<1> QED
  BY <1>1, <1>3, <1>4, GoUpToHeeds

\* who gives back the tiles from position start on leaves the crossings among them
Leaves(r, q, c, rt, start, all) ==
    /\ \/ q.crossing = r.crossing
       \/ /\ q.crossing = ReleaseCrossing2(r.crossing, {Engine(c)})
          /\ \E p \in start .. Len(rt) : rt[p] \in CrossingTiles
    /\ \A p \in start .. Len(rt) :
          rt[p] \in CrossingTiles /\ (all \/ \A i \in start .. p : r.reserved[rt[i]] = c) =>
              q.crossing = ReleaseCrossing2(r.crossing, {Engine(c)})

LEMMA BlockUnreserveLeaves ==
    ASSUME NEW c \in Convoys, NEW r \in RailType, NEW rt \in Seq(Tiles), NEW start \in Nat \ {0},
           NEW all \in BOOLEAN, NEW q, q = BlockUnreserve(r, c, rt, start, all)
    PROVE  Leaves(r, q, c, rt, start, all)
<1>1. Len(rt) \in Nat
  OBVIOUS
<1>2. CASE start > Len(rt)
  <2>1. q = SetLast(r, c, Len(rt) - 1)
    BY <1>2 DEF BlockUnreserve
  <2>2. q.crossing = r.crossing
    BY <2>1 DEF SetLast
  <2> QED
    BY <2>2, <1>1, <1>2 DEF Leaves
<1>3. CASE ~(start > Len(rt))
  <2> DEFINE own == {i \in start .. Len(rt) : r.reserved[rt[i]] = c}
             S == {i \in start .. Len(rt) : i \notin own /\ \E j \in own : j < i}
             stop == FirstOf(S)
             visited == TilesOf(rt, start .. (IF all \/ stop = 0 THEN Len(rt) ELSE stop - 1))
             freed == SetLast(FreeTiles(r, c, visited), c, start - 1)
  <2>1. stop = 0 \/ (stop \in start .. Len(rt) /\ r.reserved[rt[stop]] # c)
    <3>1. S \in SUBSET Nat
      BY <1>1
    <3>2. FirstOf(S) = 0 \/ FirstOf(S) \in S
      BY <3>1, FirstIsLeast
    <3> QED
      BY <3>2
  <2>2. q = IF visited \cap CrossingTiles = {} THEN freed ELSE Release2(freed, {Engine(c)})
    BY <1>3 DEF BlockUnreserve
  <2> HIDE DEF stop
  <2>3. PICK end : end = IF all \/ stop = 0 THEN Len(rt) ELSE stop - 1
    OBVIOUS
  <2>4. /\ end \in Nat /\ end <= Len(rt)
        /\ \A p \in start .. Len(rt) :
              all \/ (\A i \in start .. p : r.reserved[rt[i]] = c) => p <= end
    BY <2>1, <2>3, <1>1
  <2>5. visited = TilesOf(rt, start .. end)
    BY <2>3
  <2> HIDE DEF visited
  <2>6. freed.crossing = r.crossing
    BY DEF SetLast, FreeTiles
  <2>7. freed \in RailType
    <3>1. PICK p, n : p = FreeTiles(r, c, visited) /\ n = start - 1
      OBVIOUS
    <3>2. p \in RailType /\ n \in Nat /\ freed = SetLast(p, c, n)
      BY <3>1, FreeTilesDoes DEF OnlyTiles
    <3>3. SetLast(p, c, n) \in RailType
      BY <3>2 DEF SetLast, RailType
    <3> QED
      BY <3>2, <3>3
  <2> HIDE DEF freed
  <2>8. Release2(freed, {Engine(c)}).crossing = ReleaseCrossing2(r.crossing, {Engine(c)})
    BY <2>6, <2>7 DEF Release2, RailType
  <2>9. visited \cap CrossingTiles # {} => \E p \in start .. Len(rt) : rt[p] \in CrossingTiles
    BY <2>4, <2>5, <1>1 DEF TilesOf
  <2>10. ASSUME NEW p \in start .. Len(rt), rt[p] \in CrossingTiles,
                all \/ \A i \in start .. p : r.reserved[rt[i]] = c
         PROVE  visited \cap CrossingTiles # {}
    <3>1. p \in start .. end
      BY <2>4, <2>10, <1>1
    <3> QED
      BY <3>1, <2>5, <2>10 DEF TilesOf
  <2> QED
    BY <2>2, <2>6, <2>8, <2>9, <2>10 DEF Leaves
<1> QED
  BY <1>2, <1>3

LEMMA BothBlocksHeeds ==
    ASSUME NEW c \in Convoys, NEW r \in RailType, NEW rt, NEW h, Way(rt, h),
           NEW s \in h .. Len(rt), NEW b, Does(r, b.r, c, rt, h), Reserves(r, b, c, rt, s + 1),
           Seeks(b, c, rt, s + 1), b.r.crossing = r.crossing,
           b.ok, b.signal # 0, b = [b EXCEPT !.r = b.r], DOMAIN b = {"ok", "signal", "crossing", "r"},
           NEW e, e = BothBlocks(b, NormalSignalClear(b.r, c, rt, rt[h], b.signal), c, rt, s)
    PROVE  Heeds(r, e, c, rt, s)
<1>1. /\ Len(rt) \in Nat /\ h \in Nat \ {0} /\ h <= Len(rt) /\ s \in Nat /\ s >= h /\ s <= Len(rt)
      /\ b.r \in RailType /\ rt \in Seq(Tiles)
  BY WayTiles DEF Does, Way
<1>2. PICK sig, cross, p : sig = b.signal /\ cross = b.crossing /\ p = b.r
  OBVIOUS
<1>3. sig \in h .. Len(rt) /\ cross \in Nat /\ p \in RailType
  BY <1>1, <1>2 DEF Reserves
<1>4. PICK y : y = NormalSignalClear(p, c, rt, rt[h], sig)
  OBVIOUS
<1>5. Cleared(p, y, c, rt, h, sig) /\ y.r.crossing = p.crossing
  <2>1. PICK start : start = sig + 1
    OBVIOUS
  <2>2. y = GoUpTo(BlockReserve(p, c, rt, rt[h], start), c, rt)
    BY <2>1, <1>4 DEF NormalSignalClear
  <2>3. Cleared(p, y, c, rt, h, sig)
    BY <2>1, <2>2, <1>3, GoOnDoes
  <2>4. y.r.crossing = p.crossing
    BY <2>1, <2>2, <1>3, GoOnHeeds
  <2> QED
    BY <2>3, <2>4
<1>6. y.ok \in BOOLEAN /\ y.r \in RailType /\ y.r.crossing = r.crossing
  BY <1>2, <1>5 DEF Cleared, Does
<1>7. e = BothBlocks(b, y, c, rt, s)
  BY <1>2, <1>4
<1>8. CASE y.ok
  <2>1. PICK bb : bb = [b EXCEPT !.r = y.r]
    OBVIOUS
  <2>2. bb.ok = b.ok /\ bb.signal = sig /\ bb.crossing = cross /\ bb.r = y.r
    BY <2>1, <1>2
  <2>3. e = GoUpTo(bb, c, rt)
    BY <2>1, <1>7, <1>8 DEF BothBlocks
  <2>4. Seeks(bb, c, rt, s + 1)
    BY <2>2, <1>2 DEF Seeks
  <2>5. bb.r \in RailType /\ bb.r.crossing = r.crossing /\ bb.signal \in Nat /\ bb.crossing \in Nat
    BY <2>2, <1>1, <1>3, <1>6
  <2>6. bb.ok \in BOOLEAN
    BY <2>2 DEF Reserves
  <2> QED
    BY <2>3, <2>4, <2>5, <2>6, GoUpToHeeds
<1>9. CASE ~y.ok
  <2>1. PICK q, start : start = s + 1 /\ q = BlockUnreserve(y.r, c, rt, start, FALSE)
    OBVIOUS
  <2>2. e = [ok |-> FALSE, r |-> q]
    BY <2>1, <1>7, <1>9 DEF BothBlocks
  <2>3. start \in Nat \ {0} /\ FALSE \in BOOLEAN
    BY <2>1, <1>1
  <2>4. PICK all : all = FALSE
    OBVIOUS
  <2>5. Leaves(y.r, q, c, rt, start, all)
    BY <2>1, <2>3, <2>4, <1>1, <1>6, BlockUnreserveLeaves
  <2>6. \/ q.crossing = r.crossing
        \/ /\ q.crossing = ReleaseCrossing2(r.crossing, {Engine(c)})
           /\ \E x \in s + 1 .. Len(rt) : rt[x] \in CrossingTiles
    BY <2>1, <2>5, <1>6 DEF Leaves
  <2>7. ~e.ok /\ e.r = q
    BY <2>2
  <2> QED
    BY <2>6, <2>7 DEF Heeds
<1> QED
  BY <1>6, <1>8, <1>9

LEMMA SignalClearHeeds ==
    ASSUME NEW c \in Convoys, NEW r \in RailType, NEW rt, NEW h, Way(rt, h),
           NEW s \in h .. Len(rt), NEW e, e = SignalClear(r, c, rt, rt[h], s)
    PROVE  Heeds(r, e, c, rt, s)
<1>1. PICK start : start = s + 1
  OBVIOUS
<1>2. PICK b : b = BlockReserve(r, c, rt, rt[h], start)
  OBVIOUS
<1>3. Heeds(r, GoUpTo(b, c, rt), c, rt, s)
  BY <1>1, <1>2, GoOnHeeds
<1>8. Way(rt, h) /\ s \in h .. Len(rt) /\ b = BlockReserve(r, c, rt, rt[h], start)
      /\ (start = s + 1 \/ (start = h /\ s = h))
  BY <1>1, <1>2
<1>4. Does(r, b.r, c, rt, h) /\ Reserves(r, b, c, rt, s + 1)
  BY ONLY r \in RailType, c \in Convoys, <1>8, BlockReserveDoes
<1>7. Seeks(b, c, rt, s + 1) /\ b.r.crossing = r.crossing
  BY ONLY r \in RailType, c \in Convoys, <1>8, BlockReserveSeeks
<1>5. b = [b EXCEPT !.r = b.r] /\ DOMAIN b = {"ok", "signal", "crossing", "r"}
  BY <1>2, ReserveFields
<1>6. \/ e = GoUpTo(b, c, rt)
      \/ /\ b.ok /\ b.signal # 0
         /\ e = BothBlocks(b, NormalSignalClear(b.r, c, rt, rt[h], b.signal), c, rt, s)
  BY <1>1, <1>2 DEF SignalClear, PreSignalClear, BeyondPreSignal, NormalSignalClear
<1> QED
  BY <1>3, <1>4, <1>5, <1>6, <1>7, BothBlocksHeeds

-----------------------------------------------------------------------------
(* A train that drives towards the crossing.                               *)

\* no signal in front of a crossing that is still to come, and none of the last two tiles on it
ClearAround(rt, h) ==
    \A i \in h + 1 .. Len(rt) : rt[i] \in CrossingTiles =>
        i < Len(rt) - 1 /\ Signals[rt[i - 1]] = "none"

\* what a train asked for is a crossing that it comes to before it stops, and holds the way to
Comes(r, c, rt, h) ==
    r.crossing.request = Engine(c) =>
        \E p \in h + 1 .. Len(rt) :
           /\ rt[p] \in CrossingTiles /\ HeldTo(r, c, rt, h, p)
           /\ r.stop[c] = 0 \/ p <= r.stop[c]

\* a crossing that it does not stop for was promised to it
Granted(r, c, rt, h) ==
    \A p \in h + 1 .. Len(rt) :
        rt[p] \in CrossingTiles /\ (r.stop[c] = 0 \/ p < r.stop[c]) => r.crossing.request = Engine(c)

Stops(r, c, rt, h) ==
    /\ h < Len(rt) => \/ r.stop[c] = 0 \/ r.stop[c] = Len(rt) - 1
                      \/ r.stop[c] \in h .. Len(rt) /\ signal[rt[r.stop[c]]] # "none"
                      \/ r.stop[c] \in h + 1 .. Len(rt) /\ rt[r.stop[c]] \in CrossingTiles
    /\ r.last[c] = 0 => r.stop[c] = h /\ signal[rt[h]] # "none"

Drives(r, c, rt, h) ==
    /\ ClearAround(rt, h) /\ (rt[h] \in CrossingTiles => h < Len(rt) - 1)
    /\ Comes(r, c, rt, h) /\ Granted(r, c, rt, h) /\ Stops(r, c, rt, h)

\* its head may go on to the next tile
Passes(r, c, rt, h) ==
    /\ r.stop[c] = 0 \/ r.stop[c] = Len(rt) - 1 \/ r.stop[c] > h
    /\ rt[h + 1] \in CrossingTiles => r.stop[c] = 0 \/ r.stop[c] > h + 1
    /\ r.last[c] # 0

\* The crossing was not promised to another train when c holds its tile.
Undisputed(r, c) ==
    \A t \in CrossingTiles : r.reserved[t] = c =>
        \A d \in Convoys : d # c => r.crossing.request # Engine(d)

Approaches(r, c, rt, h) ==
    RoadWaits(r.crossing) /\ Undisputed(r, c) /\ (Engine(c) \in r.crossing.way2 => rt[h] \in CrossingTiles)

\* what a train does to the crossing when it does not move
Behaves(cr, new, c) ==
    Minds(cr, new, c) /\ \A i \in Nat : <<c, i>> \in new.way2 <=> <<c, i>> \in cr.way2

LEMMA BehavesNothing == ASSUME NEW c, NEW cr PROVE Behaves(cr, cr, c)
  BY DEF Behaves, Minds

LEMMA OneCrossing ==
    ASSUME CrossingStandsAlone, NEW rt, NEW h, Way(rt, h), NEW i \in 1 .. Len(rt), NEW j \in 1 .. Len(rt),
           rt[i] \in CrossingTiles, rt[j] \in CrossingTiles
    PROVE  i = j
  BY WayTiles DEF CrossingStandsAlone

LEMMA NoSignalOnCrossing ==
    ASSUME CrossingStandsAlone, SignalsLeft, NEW t \in Tiles, t \in CrossingTiles
    PROVE  signal[t] = "none"
  BY DEF CrossingStandsAlone, SignalsLeft

\* A train that leaves the crossings behind its stop has asked for none of them, and is on none.
LEMMA HeedsBehaves ==
    ASSUME CrossingStandsAlone, NEW c \in Convoys, NEW r \in RailType, NEW rt, NEW h, Way(rt, h),
           NEW s \in h .. Len(rt), NEW e, Heeds(r, e, c, rt, s),
           r.crossing.request = Engine(c) => \E p \in h + 1 .. s : rt[p] \in CrossingTiles,
           Engine(c) \in r.crossing.way2 => rt[h] \in CrossingTiles
    PROVE  Behaves(r.crossing, e.r.crossing, c) /\ e.r.crossing.request = r.crossing.request
<1>1. Len(rt) \in Nat /\ h \in Nat \ {0} /\ s \in Nat /\ s >= h
  BY WayTiles
<1>2. CASE e.r.crossing = r.crossing
  BY <1>2, BehavesNothing
<1>3. CASE /\ e.r.crossing = ReleaseCrossing2(r.crossing, {Engine(c)})
           /\ \E p \in s + 1 .. Len(rt) : rt[p] \in CrossingTiles
  <2>1. PICK p \in s + 1 .. Len(rt) : rt[p] \in CrossingTiles
    BY <1>3
  <2>2. \A i \in 1 .. s : rt[i] \notin CrossingTiles
    <3>1. SUFFICES ASSUME NEW i \in 1 .. s, rt[i] \in CrossingTiles PROVE FALSE
      OBVIOUS
    <3>2. i \in 1 .. Len(rt) /\ p \in 1 .. Len(rt) /\ i # p
      BY <1>1
    <3> QED
      BY <2>1, <3>1, <3>2, OneCrossing
  <2>3. r.crossing.request # Engine(c) /\ Engine(c) \notin r.crossing.way2
    BY <2>2, <1>1
  <2>4. PICK new : new = e.r.crossing
    OBVIOUS
  <2>5. r.crossing \in CrossingLogic(Vehicles) /\ {Engine(c)} \in SUBSET ({c} \X Nat)
    BY DEF RailType, Engine
  <2>6. PICK V : V = {Engine(c)}
    OBVIOUS
  <2>7. /\ Minds(r.crossing, new, c) /\ new.way2 = r.crossing.way2 \ V
        /\ new.request = IF r.crossing.request \in V THEN NoVehicle ELSE r.crossing.request
    BY <2>4, <2>5, <2>6, <1>3, ReleaseMinds
  <2>8. new.way2 = r.crossing.way2 /\ new.request = r.crossing.request
    BY <2>3, <2>6, <2>7
  <2> QED
    BY <2>4, <2>7, <2>8 DEF Behaves
<1> QED
  BY <1>2, <1>3 DEF Heeds

\* what a head at h learns about the crossing when it wants to enter the next tile
Minding(r, e, c, rt, h) ==
    /\ Behaves(r.crossing, e.r.crossing, c) /\ Drives(e.r, c, rt, h)
    /\ e.ok => Passes(e.r, c, rt, h)
    /\ r.stop[c] = h => e.r.crossing.request = r.crossing.request

\* The next stop is a signal.
LEMMA AtSignalMinds ==
    ASSUME CrossingStandsAlone, SignalsLeft, NEW c \in Convoys, NEW r \in RailType, NEW rt, NEW h,
           Way(rt, h), h < Len(rt), NEW s \in h .. Len(rt), r.stop[c] = s, signal[rt[s]] # "none",
           Safe(r, c, rt, h), Approaches(r, c, rt, h), Drives(r, c, rt, h),
           NEW y, y = SignalClear(r, c, rt, rt[h], s), NEW e, e = UpToSignal(y, c, h)
    PROVE  Minding(r, e, c, rt, h)
<1>1. /\ Len(rt) \in Nat /\ h \in Nat \ {0} /\ h < Len(rt) /\ s \in Nat /\ s >= h /\ s <= Len(rt)
      /\ \A i \in 1 .. Len(rt) : rt[i] \in Tiles
  BY WayTiles
<1>2. rt[s] \notin CrossingTiles
  <2>1. rt[s] \in Tiles
    BY <1>1
  <2> QED
    BY <2>1, NoSignalOnCrossing
<1>3. Cleared(r, y, c, rt, h, s) /\ Heeds(r, y, c, rt, s)
  BY SignalClearDoes, SignalClearHeeds
<1>4. HeldUp(r, c, rt, h, s)
  BY StopIsHeld
<1>5. y.r \in RailType /\ y.r.last[c] \in Nat /\ y.r.stop[c] \in Nat
  BY <1>3 DEF Cleared, Does, RailType
<1>6. r.crossing.request = Engine(c) => \E p \in h + 1 .. s : rt[p] \in CrossingTiles
  BY <1>1 DEF Drives, Comes
<1>7. Behaves(r.crossing, y.r.crossing, c) /\ y.r.crossing.request = r.crossing.request
  BY <1>3, <1>6, HeedsBehaves DEF Approaches
<1>8. PICK n, last : n = y.r.stop[c] /\ last = y.r.last[c]
  OBVIOUS
<1>9. /\ HeldTo(y.r, c, rt, h, last) /\ last \in Nat
      /\ last >= s \/ (s = Len(rt) /\ last = Len(rt) - 1)
  BY <1>1, <1>3, <1>4, <1>5, <1>8 DEF Cleared
<1>10. \/ n = s /\ ~y.ok
       \/ y.ok /\ (n = 0 \/ n = Len(rt) - 1 \/ (n \in s + 1 .. Len(rt)
                    /\ (signal[rt[n]] # "none" \/ rt[n] \in CrossingTiles)))
  BY <1>3, <1>8 DEF Cleared, Heeds, StopAhead
<1>11. \A p \in h + 1 .. Len(rt) : rt[p] \in CrossingTiles => p < Len(rt) - 1 /\ p # s
  BY <1>2 DEF Drives, ClearAround
<1>12. Comes(y.r, c, rt, h)
  <2>1. SUFFICES ASSUME r.crossing.request = Engine(c)
                 PROVE  \E p \in h + 1 .. Len(rt) :
                           /\ rt[p] \in CrossingTiles /\ HeldTo(y.r, c, rt, h, p)
                           /\ y.r.stop[c] = 0 \/ p <= y.r.stop[c]
    BY <1>7 DEF Comes
  <2>2. PICK p \in h + 1 .. s : rt[p] \in CrossingTiles
    BY <2>1, <1>6
  <2>3. p \in h + 1 .. Len(rt) /\ p < Len(rt) - 1 /\ p <= s
    BY <2>2, <1>1, <1>11
  <2>4. HeldTo(y.r, c, rt, h, p)
    BY <2>3, <1>1, <1>9 DEF HeldTo
  <2>5. n = 0 \/ p <= n
    BY <2>3, <1>1, <1>10
  <2> QED
    BY <2>2, <2>3, <2>4, <2>5, <1>8
<1>13. Granted(y.r, c, rt, h)
  <2>1. SUFFICES ASSUME NEW p \in h + 1 .. Len(rt), rt[p] \in CrossingTiles, n = 0 \/ p < n
                 PROVE  r.crossing.request = Engine(c)
    BY <1>7, <1>8 DEF Granted
  <2>2. p # s
    BY <2>1, <1>11
  <2>3. CASE p < s
    BY <2>1, <2>3 DEF Drives, Granted
  <2>4. CASE p > s
    <3>1. p \in s + 1 .. Len(rt)
      BY <2>4, <1>1
    <3>2. ~y.ok
      BY <3>1, <2>1, <1>1, <1>3, <1>5, <1>8 DEF Heeds, StopAhead
    <3> QED
      BY <3>2, <2>1, <2>4, <1>1, <1>10
  <2> QED
    BY <2>2, <2>3, <2>4, <1>1
<1>14. Stops(y.r, c, rt, h)
  <2>1. last # 0
    BY <1>1, <1>9
  <2>2. \/ n = 0 \/ n = Len(rt) - 1
        \/ n \in h .. Len(rt) /\ signal[rt[n]] # "none"
        \/ n \in h + 1 .. Len(rt) /\ rt[n] \in CrossingTiles
    BY <1>1, <1>10
  <2> QED
    BY <2>1, <2>2, <1>8 DEF Stops
<1>15. e.r = y.r /\ (e.ok => y.ok \/ n > h)
  BY <1>8 DEF UpToSignal
<1>16. ASSUME e.ok PROVE Passes(y.r, c, rt, h)
  <2>1. n = 0 \/ n = Len(rt) - 1 \/ n > h
    BY <1>1, <1>10, <1>15, <1>16
  <2>2. ASSUME rt[h + 1] \in CrossingTiles PROVE n = 0 \/ n > h + 1
    <3>1. PICK i : i = h + 1
      OBVIOUS
    <3>4. i \in h + 1 .. Len(rt) /\ i - 1 = h /\ rt[i] \in CrossingTiles
      BY <2>2, <3>1, <1>1
    <3>5. i < Len(rt) - 1 /\ Signals[rt[i - 1]] = "none" /\ i # s
      BY <3>4, <1>11 DEF Drives, ClearAround
    <3>2. h + 1 < Len(rt) - 1 /\ Signals[rt[h]] = "none" /\ h + 1 # s
      BY <3>1, <3>4, <3>5
    <3>3. s # h
      BY <3>2, <1>1 DEF SignalsLeft
    <3> QED
      BY <3>2, <3>3, <1>1, <1>10
  <2>3. last # 0
    BY <1>1, <1>9
  <2> QED
    BY <2>1, <2>2, <2>3, <1>8 DEF Passes
<1> QED
  BY <1>7, <1>12, <1>13, <1>14, <1>15, <1>16 DEF Minding, Drives

\* The next stop is the crossing.
LEMMA AtCrossingMinds ==
    ASSUME CrossingStandsAlone, SignalsLeft, NEW c \in Convoys, NEW r \in RailType, NEW rt, NEW h,
           Way(rt, h), h < Len(rt), NEW s \in h .. Len(rt), r.stop[c] = s, rt[s] \in CrossingTiles,
           Safe(r, c, rt, h), Approaches(r, c, rt, h), Drives(r, c, rt, h),
           NEW e, e = AtStop(r, c, rt, h, s)
    PROVE  Minding(r, e, c, rt, h)
<1>1. /\ Len(rt) \in Nat /\ h \in Nat \ {0} /\ h < Len(rt) /\ s \in Nat /\ s >= h /\ s <= Len(rt)
      /\ \A i \in 1 .. Len(rt) : rt[i] \in Tiles
  BY WayTiles
<1>2. signal[rt[s]] = "none"
  <2>1. rt[s] \in Tiles
    BY <1>1
  <2> QED
    BY <2>1, NoSignalOnCrossing
<1>3. s > h /\ s < Len(rt) - 1
  <2>1. CASE s = h
    <3>1. h < Len(rt) - 1
      BY <2>1 DEF Drives
    <3> QED
      BY <2>1, <3>1, <1>1, <1>2 DEF Drives, Stops
  <2>2. CASE s # h
    <3>1. s \in h + 1 .. Len(rt)
      BY <2>2, <1>1
    <3> QED
      BY <3>1, <2>2, <1>1 DEF Drives, ClearAround
  <2> QED
    BY <2>1, <2>2
<1>4. \A p \in h + 1 .. Len(rt) : rt[p] \in CrossingTiles => p = s
  <2>1. SUFFICES ASSUME NEW p \in h + 1 .. Len(rt), rt[p] \in CrossingTiles PROVE p = s
    OBVIOUS
  <2>2. p \in 1 .. Len(rt) /\ s \in 1 .. Len(rt)
    BY <1>1
  <2> QED
    BY <2>1, <2>2, OneCrossing
<1>5. PICK asked : asked = AskCrossing(r, c)
  OBVIOUS
<1>6. OnlyCrossing(r, asked) /\ asked.crossing = RequestCrossing2(r.crossing, Engine(c))
      /\ r.crossing \in CrossingLogic(Vehicles) /\ asked \in RailType
  BY <1>5, AskDoes DEF AskCrossing, RailType, OnlyCrossing
<1>7. HeldUp(r, c, rt, h, s) /\ r.reserved[rt[s]] = c
  <2>1. HeldUp(r, c, rt, h, s)
    BY StopIsHeld
  <2>2. s \in h + 1 .. s /\ s < Len(rt)
    BY <1>1, <1>3
  <2> QED
    BY <2>1, <2>2 DEF HeldUp
<1>8. r.last[c] # 0
  BY <1>1, <1>3 DEF Drives, Stops
<1>9. CASE ~MayCross2(r.crossing)
  <2>1. e.r = asked /\ (e.ok <=> s > h + 1)
    BY <1>5, <1>9 DEF AtStop
  <2>2. /\ Minds(r.crossing, asked.crossing, c) /\ asked.crossing.way2 = r.crossing.way2
        /\ asked.crossing.request = r.crossing.request
    <3>1. PICK new : new = asked.crossing
      OBVIOUS
    <3>2. Minds(r.crossing, new, c) /\ new.way2 = r.crossing.way2 /\ new.request = r.crossing.request
      BY <3>1, <1>6, <1>9, RefusedMinds DEF Approaches
    <3> QED
      BY <3>1, <3>2
  <2>3. Drives(asked, c, rt, h)
    BY <2>2, <1>6 DEF Drives, Comes, Granted, Stops, HeldTo, OnlyCrossing
  <2>4. s > h + 1 => Passes(asked, c, rt, h)
    BY <1>1, <1>6, <1>8 DEF Passes, OnlyCrossing
  <2> QED
    BY <2>1, <2>2, <2>3, <2>4 DEF Minding, Behaves
<1>10. CASE MayCross2(r.crossing)
  <2>1. PICK start : start = s + 1
    OBVIOUS
  <2>2. e = GoUpTo(BlockReserve(asked, c, rt, rt[h], start), c, rt)
    <3>1. s # Len(rt)
      BY <1>1, <1>3
    <3> QED
      BY <2>1, <3>1, <1>2, <1>5, <1>10 DEF AtStop
  <2>3. Cleared(asked, e, c, rt, h, s)
    BY <2>1, <2>2, <1>6, GoOnDoes
  <2>4. Heeds(asked, e, c, rt, s) /\ e.r.crossing = asked.crossing
    <3>1. PICK t, g : t = rt[h] /\ g = BlockReserve(asked, c, rt, t, start)
      OBVIOUS
    <3>2. asked \in RailType /\ e = GoUpTo(g, c, rt)
      BY <3>1, <2>2, <1>6
    <3> QED
      BY <3>1, <3>2, <2>1, GoOnHeeds
  <2>5. /\ Minds(r.crossing, asked.crossing, c) /\ asked.crossing.way2 = r.crossing.way2
        /\ asked.crossing.request = Engine(c)
    <3>1. PICK new : new = asked.crossing
      OBVIOUS
    <3>2. \A d \in Convoys : d # c => r.crossing.request # Engine(d)
      BY <1>7 DEF Approaches, Undisputed
    <3>3. /\ Minds(r.crossing, new, c) /\ new.way2 = r.crossing.way2
          /\ new.request = Engine(c)
      BY <3>1, <3>2, <1>6, <1>10, AskMinds
    <3> QED
      BY <3>1, <3>3
  <2>6. HeldUp(asked, c, rt, h, s) /\ asked.stop[c] = s
    BY <1>6, <1>7 DEF HeldUp, OnlyCrossing
  <2>7. e.r \in RailType /\ e.r.last[c] \in Nat /\ e.r.stop[c] \in Nat
    BY <2>3 DEF Cleared, Does, RailType
  <2>8. PICK n, last : n = e.r.stop[c] /\ last = e.r.last[c]
    OBVIOUS
  <2>9. HeldTo(e.r, c, rt, h, last) /\ last >= s /\ last \in Nat
    BY <2>3, <2>6, <2>7, <2>8, <1>1, <1>3 DEF Cleared
  <2>10. \/ n = s /\ ~e.ok
         \/ e.ok /\ (n = 0 \/ n = Len(rt) - 1 \/ (n \in s + 1 .. Len(rt)
                      /\ (signal[rt[n]] # "none" \/ rt[n] \in CrossingTiles)))
    BY <2>3, <2>4, <2>6, <2>8 DEF Cleared, Heeds, StopAhead
  <2>11. Comes(e.r, c, rt, h)
    <3>1. s \in h + 1 .. Len(rt)
      BY <1>1, <1>3
    <3>2. HeldTo(e.r, c, rt, h, s)
      BY <2>9, <1>1 DEF HeldTo
    <3>3. n = 0 \/ s <= n
      BY <2>10, <1>1, <1>3
    <3> QED
      BY <3>1, <3>2, <3>3, <2>8 DEF Comes
  <2>12. Granted(e.r, c, rt, h)
    BY <2>4, <2>5 DEF Granted
  <2>13. Stops(e.r, c, rt, h)
    <3>1. last # 0
      BY <2>9, <1>1
    <3>2. \/ n = 0 \/ n = Len(rt) - 1
          \/ n \in h .. Len(rt) /\ signal[rt[n]] # "none"
          \/ n \in h + 1 .. Len(rt) /\ rt[n] \in CrossingTiles
      BY <2>10, <1>1, <1>3
    <3> QED
      BY <3>1, <3>2, <2>8 DEF Stops
  <2>14. ASSUME e.ok PROVE Passes(e.r, c, rt, h)
    <3>1. n = 0 \/ n > s
      BY <2>10, <2>14, <1>1, <1>3
    <3>2. n = 0 \/ n > h + 1
      BY <3>1, <1>1, <1>3, <2>7, <2>8
    <3> QED
      BY <3>2, <2>7, <2>8, <2>9, <1>1 DEF Passes
  <2>15. r.stop[c] # h
    BY <1>1, <1>3
  <2> QED
    BY <2>4, <2>5, <2>11, <2>12, <2>13, <2>14, <2>15 DEF Minding, Behaves, Drives
<1> QED
  BY <1>9, <1>10

LEMMA AtStopMinds ==
    ASSUME CrossingStandsAlone, SignalsLeft, NEW c \in Convoys, NEW r \in RailType, NEW rt, NEW h,
           Way(rt, h), h < Len(rt), NEW s \in h .. Len(rt), r.stop[c] = s,
           Safe(r, c, rt, h), Approaches(r, c, rt, h), Drives(r, c, rt, h),
           NEW e, e = AtStop(r, c, rt, h, s)
    PROVE  Minding(r, e, c, rt, h)
<1>1. CASE rt[s] \in CrossingTiles
  BY <1>1, AtCrossingMinds
<1>2. CASE rt[s] \notin CrossingTiles /\ signal[rt[s]] # "none"
  <2>1. PICK y : y = SignalClear(r, c, rt, rt[h], s)
    OBVIOUS
  <2>2. e = UpToSignal(y, c, h)
    BY <2>1, <1>2 DEF AtStop
  <2> QED
    BY <2>1, <2>2, <1>2, AtSignalMinds
<1>3. CASE rt[s] \notin CrossingTiles /\ signal[rt[s]] = "none"
  <2>1. Len(rt) \in Nat /\ h \in Nat \ {0} /\ h < Len(rt) /\ s \in Nat /\ s >= h
    BY WayTiles
  <2>2. e.r = r
    BY <1>3 DEF AtStop
  <2>3. s = Len(rt) - 1
    BY <1>3, <2>1 DEF Drives, Stops
  <2>4. r.last[c] # 0
    BY <1>3 DEF Drives, Stops
  <2>5. rt[h + 1] \in CrossingTiles => s > h + 1
    <3>1. PICK i : i = h + 1
      OBVIOUS
    <3>2. i \in h + 1 .. Len(rt)
      BY <3>1, <2>1
    <3>3. rt[i] \in CrossingTiles => i < Len(rt) - 1
      BY <3>2 DEF Drives, ClearAround
    <3> QED
      BY <3>1, <3>3, <2>1, <2>3
  <2>6. Passes(r, c, rt, h)
    BY <2>3, <2>4, <2>5 DEF Passes
  <2> QED
    BY <2>2, <2>6, BehavesNothing DEF Minding
<1> QED
  BY <1>1, <1>2, <1>3

LEMMA AdvanceMinds ==
    ASSUME CrossingStandsAlone, SignalsLeft, NEW c \in Convoys, NEW r \in RailType, NEW rt, NEW h,
           Way(rt, h), h < Len(rt), Safe(r, c, rt, h), Approaches(r, c, rt, h), Drives(r, c, rt, h),
           NEW e, e = Advance(r, c, rt, h)
    PROVE  Minding(r, e, c, rt, h)
<1>1. Len(rt) \in Nat /\ h \in Nat \ {0} /\ h < Len(rt)
  BY WayTiles
<1>2. PICK s : s = r.stop[c]
  OBVIOUS
<1>3. s \in Nat /\ (s = 0 \/ s \in h .. Len(rt))
  <2>1. s \in Nat
    BY <1>2 DEF RailType
  <2>2. Stops(r, c, rt, h)
    BY DEF Drives
  <2> QED
    BY <2>1, <2>2, <1>1, <1>2 DEF Stops
<1>4. CASE CanReserve(r, c, rt[h + 1]) /\ s \in h .. Len(rt) /\ ~(s > h + 4)
  <2>1. e = AtStop(r, c, rt, h, s)
    BY <1>1, <1>2, <1>4 DEF Advance
  <2> QED
    BY <2>1, <1>2, <1>4, AtStopMinds
<1>5. CASE ~CanReserve(r, c, rt[h + 1])
  <2>1. e.r = r /\ ~e.ok
    BY <1>5 DEF Advance
  <2> QED
    BY <2>1, BehavesNothing DEF Minding
<1>6. CASE CanReserve(r, c, rt[h + 1]) /\ (s = 0 \/ s > h + 4)
  <2>1. e.r = r
    BY <1>1, <1>2, <1>6 DEF Advance
  <2>2. s = 0 \/ s > h + 1
    BY <1>1, <1>3, <1>6
  <2>3. r.last[c] # 0
    BY <1>1, <1>2, <1>6 DEF Drives, Stops
  <2>4. Passes(r, c, rt, h)
    BY <2>2, <2>3, <1>1, <1>2, <1>3 DEF Passes
  <2> QED
    BY <2>1, <2>4, BehavesNothing DEF Minding
<1> QED
  BY <1>3, <1>4, <1>5, <1>6

\* A train that sets off does not ask yet.
Starts(r, c, rt, h) ==
    ClearAround(rt, h) /\ rt[h] \notin CrossingTiles /\ r.crossing.request # Engine(c)

LEMMA CanStartMinds ==
    ASSUME CrossingStandsAlone, SignalsLeft, NEW c \in Convoys, NEW r \in RailType, NEW rt, NEW h,
           Way(rt, h), h < Len(rt), Holds(r, c, rt, h), Approaches(r, c, rt, h), Starts(r, c, rt, h),
           NEW atBorder \in BOOLEAN, NEW e, e = CanEnter(r, c, "CAN_START", rt, h, atBorder)
    PROVE  /\ Behaves(r.crossing, e.r.crossing, c) /\ e.r.crossing.request # Engine(c)
           /\ e.ok => Drives(e.r, c, rt, h)
<1>1. Len(rt) \in Nat /\ h \in Nat \ {0} /\ h < Len(rt)
  BY WayTiles
<1>2. CASE signal[rt[h]] = "none"
  <2>1. e = GoUpTo(BlockReserve(r, c, rt, rt[h], h), c, rt)
    BY <1>2 DEF CanEnter, Starts
  <2>2. h \in h .. Len(rt)
    BY <1>1
  <2>3. Cleared(r, e, c, rt, h, h)
    BY <2>1, <2>2, GoOnDoes
  <2>4. Heeds(r, e, c, rt, h) /\ e.r.crossing = r.crossing
    <3>1. PICK s : s = h
      OBVIOUS
    <3>2. s \in h .. Len(rt) /\ (h = s + 1 \/ (h = h /\ s = h))
      BY <3>1, <2>2
    <3>3. Heeds(r, e, c, rt, s) /\ e.r.crossing = r.crossing
      BY <3>2, <2>1, GoOnHeeds
    <3> QED
      BY <3>1, <3>3
  <2>5. ASSUME e.ok PROVE Drives(e.r, c, rt, h)
    <3>1. StopAhead(e.r, c, rt, h) /\ e.r.last[c] \in h .. Len(rt)
      BY <2>3, <2>4, <2>5 DEF Heeds, Cleared
    <3>2. Comes(e.r, c, rt, h)
      BY <2>4 DEF Comes, Starts
    <3>3. Granted(e.r, c, rt, h)
      <4>1. e.r.stop[c] \in Nat
        BY <2>3 DEF Cleared, Does, RailType
      <4>2. SUFFICES ASSUME NEW p \in h + 1 .. Len(rt), rt[p] \in CrossingTiles PROVE
                 ~(e.r.stop[c] = 0 \/ p < e.r.stop[c])
        BY DEF Granted
      <4>3. e.r.stop[c] # 0 /\ e.r.stop[c] <= p
        BY <3>1, <4>2 DEF StopAhead
      <4> QED
        BY <4>1, <4>3, <1>1
    <3>4. Stops(e.r, c, rt, h)
      BY <3>1, <1>1 DEF StopAhead, Stops
    <3> QED
      BY <3>2, <3>3, <3>4 DEF Drives, Starts
  <2> QED
    BY <2>4, <2>5, BehavesNothing DEF Starts
<1>3. CASE signal[rt[h]] # "none"
  <2>1. PICK there : there = SetStop(r, c, h)
    OBVIOUS
  <2>2. /\ Does(r, there, c, rt, h) /\ there.stop[c] = h /\ there.last = r.last
        /\ there.reserved = r.reserved /\ there.crossing = r.crossing
    BY <2>1, <1>1, SetStopDoes
  <2>3. Safe(there, c, rt, h) /\ there \in RailType
    BY <2>2, <1>1 DEF Holds, HeldTo, StopsWell, Safe, Does
  <2>4. Drives(there, c, rt, h)
    <3>1. Granted(there, c, rt, h)
      BY <2>2, <1>1 DEF Granted
    <3>2. Stops(there, c, rt, h)
      BY <2>2, <1>1, <1>3 DEF Stops
    <3> QED
      BY <3>1, <3>2, <2>2 DEF Drives, Starts, Comes
  <2>5. CASE ~atBorder
    <3>1. e.r = there
      BY <2>1, <2>5, <1>3 DEF CanEnter
    <3> QED
      BY <3>1, <2>2, <2>4, BehavesNothing DEF Starts
  <2>6. CASE atBorder
    <3>1. e = Advance(there, c, rt, h)
      BY <2>1, <2>6, <1>3 DEF CanEnter
    <3>2. Approaches(there, c, rt, h)
      BY <2>2 DEF Approaches, Undisputed
    <3>3. Minding(there, e, c, rt, h)
      BY <3>1, <3>2, <2>3, <2>4, AdvanceMinds
    <3> QED
      BY <3>3, <2>2 DEF Minding, Starts
  <2> QED
    BY <2>5, <2>6
<1> QED
  BY <1>2, <1>3

-----------------------------------------------------------------------------
(* The invariant.                                                          *)

\* The crossing counts the vehicles of c that are on it.
Counts(cr, c, ts) ==
    \A i \in Nat : <<c, i>> \in cr.way2 <=> i \in DOMAIN ts /\ ts[i] \in CrossingTiles

\* what a train that stands still asked for is a crossing that it holds the way to
Awaited(r, c, rt, h) ==
    r.crossing.request = Engine(c) =>
        \E p \in h + 1 .. Len(rt) :
           rt[p] \in CrossingTiles /\ p < Len(rt) - 1 /\ HeldTo(r, c, rt, h, p)

Driving  == {"DRIVING", "WAITING_FOR_CLEARANCE"}
Standing == States \ Rolling

Crosses(r, c, st, rt, ts, at) ==
    /\ Counts(r.crossing, c, ts)
    /\ st = "SELF_DESTRUCT" => r.crossing.request # Engine(c)
    /\ st = "CAN_START" => Starts(r, c, rt, at[1])
    /\ st \in Driving => Drives(r, c, rt, at[1])
    /\ st \in Standing => ts[1] \notin CrossingTiles /\ Awaited(r, c, rt, at[1])

Orderly ==
    /\ RoadWaits(rail.crossing)
    /\ \A c \in Convoys : Crosses(rail, c, state[c], route[c], tile[c], index[c])

\* what c did does not concern d
LEMMA OtherCrosses ==
    ASSUME Trains, NEW c \in Convoys, NEW d \in Convoys, d # c, NEW r \in RailType,
           Crosses(r, d, state[d], route[d], tile[d], index[d]), NEW q \in RailType,
           Takes(r, q, c), SameIndices(r, q, c), Minds(r.crossing, q.crossing, c)
    PROVE  Crosses(q, d, state[d], route[d], tile[d], index[d])
<1>1. PICK st, rt, ts, at : st = state[d] /\ rt = route[d] /\ ts = tile[d] /\ at = index[d]
  OBVIOUS
<1>2. Crosses(r, d, st, rt, ts, at)
  BY <1>1
<1>3. q.last[d] = r.last[d] /\ q.stop[d] = r.stop[d]
  BY DEF SameIndices
<1>4. q.crossing.request = Engine(d) <=> r.crossing.request = Engine(d)
  BY DEF Minds
<1>5. Counts(q.crossing, d, ts)
  BY <1>2 DEF Crosses, Counts, Minds
<1>6. ASSUME st # "SELF_DESTRUCT", NEW p \in at[1] + 1 .. Len(rt), HeldTo(r, d, rt, at[1], p)
      PROVE  HeldTo(q, d, rt, at[1], p)
  <2>1. Placed(d, st, rt, ts, at)
    BY <1>1, <1>6 DEF Trains, Train
  <2>2. at[1] \in Nat \ {0} /\ Len(rt) \in Nat /\ \A i \in 1 .. Len(rt) : rt[i] \in Tiles
    <3>1. 1 \in 1 .. Wagons[d]
      BY ConvoyAssumption
    <3> QED
      BY <2>1, <3>1 DEF Placed, Coupling, Coupled
  <2>3. \A t \in Tiles : r.reserved[t] = d => q.reserved[t] = d
    BY ConvoyAssumption DEF Takes
  <2>4. \A i \in at[1] + 1 .. p : i \in 1 .. Len(rt)
    BY <2>2
  <2> QED
    BY <2>2, <2>3, <2>4, <1>6 DEF HeldTo
<1>7. st = "CAN_START" => Starts(q, d, rt, at[1])
  BY <1>2, <1>4 DEF Crosses, Starts
<1>8. ASSUME st \in Driving PROVE Drives(q, d, rt, at[1])
  <2>1. Drives(r, d, rt, at[1]) /\ st # "SELF_DESTRUCT"
    BY <1>2, <1>8 DEF Crosses, Driving
  <2>2. Comes(q, d, rt, at[1])
    BY <2>1, <1>3, <1>4, <1>6 DEF Drives, Comes
  <2>3. Granted(q, d, rt, at[1])
    BY <2>1, <1>3, <1>4 DEF Drives, Granted
  <2>4. Stops(q, d, rt, at[1])
    BY <2>1, <1>3 DEF Drives, Stops
  <2> QED
    BY <2>1, <2>2, <2>3, <2>4 DEF Drives
<1>9. ASSUME st \in Standing PROVE ts[1] \notin CrossingTiles /\ Awaited(q, d, rt, at[1])
  <2>1. ts[1] \notin CrossingTiles /\ Awaited(r, d, rt, at[1]) /\ st # "SELF_DESTRUCT"
    BY <1>2, <1>9 DEF Crosses, Standing, States, Waiting
  <2> QED
    BY <2>1, <1>4, <1>6 DEF Awaited
<1> QED
  BY <1>1, <1>2, <1>4, <1>5, <1>7, <1>8, <1>9 DEF Crosses

LEMMA SameSignals ==
    ASSUME NEW r, NEW c, NEW st, NEW rt, NEW ts, NEW at, Crosses(r, c, st, rt, ts, at),
           signal' = signal
    PROVE  Crosses(r, c, st, rt, ts, at)'
<1>1. Stops(r, c, rt, at[1]) <=> Stops(r, c, rt, at[1])'
  BY DEF Stops
<1>2. /\ Comes(r, c, rt, at[1]) <=> Comes(r, c, rt, at[1])'
      /\ Granted(r, c, rt, at[1]) <=> Granted(r, c, rt, at[1])'
      /\ ClearAround(rt, at[1]) <=> ClearAround(rt, at[1])'
  BY DEF Comes, HeldTo, Granted, ClearAround
<1>3. Drives(r, c, rt, at[1]) <=> Drives(r, c, rt, at[1])'
  BY <1>1, <1>2 DEF Drives
<1>4. /\ Counts(r.crossing, c, ts) <=> Counts(r.crossing, c, ts)'
      /\ Starts(r, c, rt, at[1]) <=> Starts(r, c, rt, at[1])'
      /\ Awaited(r, c, rt, at[1]) <=> Awaited(r, c, rt, at[1])'
  BY DEF Counts, Starts, ClearAround, Awaited, HeldTo
<1> QED
  BY <1>3, <1>4 DEF Crosses

LEMMA OrderlyAfter ==
    ASSUME NEW q, rail' = q, signal' = signal, RoadWaits(q.crossing),
           \A d \in Convoys : Crosses(q, d, state'[d], route'[d], tile'[d], index'[d])
    PROVE  Orderly'
<1>1. RoadWaits(rail.crossing)'
  BY DEF RoadWaits
<1>2. ASSUME NEW d \in Convoys
      PROVE  Crosses(rail, d, state[d], route[d], tile[d], index[d])'
  <2>1. PICK st, rt, ts, at : st = state'[d] /\ rt = route'[d] /\ ts = tile'[d] /\ at = index'[d]
    OBVIOUS
  <2>2. Crosses(q, d, st, rt, ts, at)
    BY <2>1
  <2>3. Crosses(q, d, st, rt, ts, at)'
    BY <2>2, SameSignals
  <2> QED
    BY <2>1, <2>3
<1> QED
  BY <1>1, <1>2 DEF Orderly

LEMMA OneTrainCrosses ==
    ASSUME Trains, Orderly, NEW c \in Convoys, NEW st, NEW rt, NEW ts, NEW at,
           NEW q \in RailType, rail' = q, Takes(rail, q, c), SameIndices(rail, q, c),
           Minds(rail.crossing, q.crossing, c), Crosses(q, c, st, rt, ts, at), signal' = signal,
           state' = [state EXCEPT ![c] = st], route' = [route EXCEPT ![c] = rt],
           tile' = [tile EXCEPT ![c] = ts], index' = [index EXCEPT ![c] = at]
    PROVE  Orderly'
<1>1. /\ state'[c] = st /\ route'[c] = rt /\ tile'[c] = ts /\ index'[c] = at
      /\ \A d \in Convoys : d # c => /\ state'[d] = state[d] /\ route'[d] = route[d]
                                     /\ tile'[d] = tile[d] /\ index'[d] = index[d]
  BY DEF Trains, TypeOK
<1>2. \A d \in Convoys : d # c => Crosses(q, d, state[d], route[d], tile[d], index[d])
  <2>1. rail \in RailType
    BY DEF Trains, TypeOK
  <2> QED
    BY <2>1, OtherCrosses DEF Orderly
<1>3. \A d \in Convoys : Crosses(q, d, state'[d], route'[d], tile'[d], index'[d])
  BY <1>1, <1>2
<1>4. RoadWaits(q.crossing)
  BY DEF Orderly, Minds
<1> QED
  BY <1>3, <1>4, OrderlyAfter

\* In whatever state a train is that asked for the crossing: it holds the way to it.
LEMMA AllAwaited ==
    ASSUME Trains, Orderly, NEW c \in Convoys, state[c] # "SELF_DESTRUCT"
    PROVE  Awaited(rail, c, route[c], HeadIndex(c))
<1>1. PICK rt, h : rt = route[c] /\ h = HeadIndex(c)
  OBVIOUS
<1>2. Crosses(rail, c, state[c], rt, tile[c], index[c])
  BY <1>1 DEF Orderly
<1>3. state[c] = "CAN_START" \/ state[c] \in Driving \/ state[c] \in Standing
  BY DEF Trains, TypeOK, States, Standing, Driving, Rolling, Waiting
<1>4. CASE state[c] = "CAN_START"
  BY <1>1, <1>2, <1>4 DEF Crosses, Starts, Awaited
<1>5. CASE state[c] \in Driving
  BY <1>1, <1>2, <1>5 DEF Crosses, Drives, Comes, ClearAround, Awaited, HeadIndex
<1>6. CASE state[c] \in Standing
  BY <1>1, <1>2, <1>6 DEF Crosses, HeadIndex
<1> QED
  BY <1>3, <1>4, <1>5, <1>6

-----------------------------------------------------------------------------
(* Trains that drive.                                                      *)

\* The train that asked for the crossing holds it.
LEMMA AskedIsHeld ==
    ASSUME CrossingStandsAlone, Trains, Orderly, NEW d \in Convoys, rail.crossing.request = Engine(d),
           NEW t \in CrossingTiles
    PROVE  rail.reserved[t] = d
<1>1. PICK rt, h : rt = route[d] /\ h = HeadIndex(d)
  OBVIOUS
<1>2. state[d] # "SELF_DESTRUCT"
  BY DEF Orderly, Crosses
<1>3. PICK p \in h + 1 .. Len(rt) : rt[p] \in CrossingTiles /\ HeldTo(rail, d, rt, h, p)
  BY <1>1, <1>2, AllAwaited DEF Awaited
<1>4. h \in Nat /\ Len(rt) \in Nat
  BY <1>1, <1>2, RollingTrain
<1>5. rail.reserved[rt[p]] = d
  <2>1. p \in h + 1 .. p
    BY <1>4
  <2> QED
    BY <2>1, <1>3 DEF HeldTo
<1>6. rt[p] = t
  BY <1>3 DEF CrossingStandsAlone
<1> QED
  BY <1>5, <1>6

LEMMA NobodyElseAsked ==
    ASSUME CrossingStandsAlone, Trains, Orderly, NEW c \in Convoys
    PROVE  Undisputed(rail, c)
  BY AskedIsHeld DEF Undisputed

LEMMA TrainApproaches ==
    ASSUME CrossingStandsAlone, Trains, Orderly, NEW c \in Convoys, state[c] \in Rolling
    PROVE  Approaches(rail, c, route[c], HeadIndex(c))
<1>1. state[c] # "SELF_DESTRUCT"
  BY DEF Rolling, Waiting
<1>2. route[c][HeadIndex(c)] = HeadTile(c)
  BY <1>1, RollingTrain
<1>3. Counts(rail.crossing, c, tile[c])
  BY DEF Orderly, Crosses
<1>4. Engine(c) \in rail.crossing.way2 => HeadTile(c) \in CrossingTiles
  BY <1>3 DEF Counts, Engine, HeadTile
<1> QED
  BY <1>2, <1>4, NobodyElseAsked DEF Approaches, Orderly

LEMMA AskedMinds ==
    ASSUME CrossingStandsAlone, Trains, AllSecure, Orderly, NEW c \in Convoys, state[c] \in Rolling,
           HeadIndex(c) < Len(route[c]), NEW atBorder \in BOOLEAN,
           NEW e, e = CanEnter(rail, c, state[c], route[c], HeadIndex(c), atBorder)
    PROVE  /\ Behaves(rail.crossing, e.r.crossing, c)
           /\ state[c] \in Driving =>
                 /\ Drives(e.r, c, route[c], HeadIndex(c))
                 /\ e.ok => Passes(e.r, c, route[c], HeadIndex(c))
           /\ state[c] = "CAN_START" =>
                 /\ Starts(e.r, c, route[c], HeadIndex(c))
                 /\ e.ok => Drives(e.r, c, route[c], HeadIndex(c))
<1>1. PICK rt, h : rt = route[c] /\ h = HeadIndex(c)
  OBVIOUS
<1>2. Way(rt, h) /\ h < Len(rt) /\ Approaches(rail, c, rt, h)
  BY <1>1, RollingTrain, TrainApproaches DEF Rolling, Waiting
<1>3. SignalsLeft /\ rail \in RailType
  BY DEF Trains, TypeOK
<1>4. /\ state[c] = "CAN_START" => Starts(rail, c, rt, h)
      /\ state[c] \in Driving => Drives(rail, c, rt, h)
  BY <1>1 DEF Orderly, Crosses, HeadIndex
<1>5. Goes(rail, c, state[c], rt, h)
  BY <1>1 DEF AllSecure, Secure, HeadIndex, Rolling, Waiting
<1>6. CASE state[c] \in Driving
  <2>1. state[c] # "CAN_START"
    BY <1>6 DEF Driving
  <2>2. e = Advance(rail, c, rt, h)
    BY <2>1, <1>1 DEF CanEnter
  <2>3. Safe(rail, c, rt, h)
    BY <2>1, <1>5 DEF Goes, Safe
  <2>4. Minding(rail, e, c, rt, h)
    BY <2>2, <2>3, <1>2, <1>3, <1>4, <1>6, AdvanceMinds
  <2> QED
    BY <2>1, <2>4, <1>1 DEF Minding
<1>7. CASE state[c] = "CAN_START"
  <2>1. e = CanEnter(rail, c, "CAN_START", rt, h, atBorder)
    BY <1>1, <1>7
  <2>2. Holds(rail, c, rt, h) /\ Starts(rail, c, rt, h)
    BY <1>4, <1>5, <1>7 DEF Goes
  <2>3. /\ Behaves(rail.crossing, e.r.crossing, c) /\ e.r.crossing.request # Engine(c)
        /\ e.ok => Drives(e.r, c, rt, h)
    BY <2>1, <2>2, <1>2, <1>3, CanStartMinds
  <2>4. state[c] \notin Driving
    BY <1>7 DEF Driving
  <2> QED
    BY <2>2, <2>3, <2>4, <1>1 DEF Starts
<1> QED
  BY <1>6, <1>7 DEF Rolling, Waiting, Driving

\* The crossing counts the vehicles of a train that did not move.
LEMMA SameCount ==
    ASSUME NEW c, NEW cr, NEW new, NEW ts, Behaves(cr, new, c), Counts(cr, c, ts)
    PROVE  Counts(new, c, ts)
  BY DEF Behaves, Counts

LEMMA StaysOrderly ==
    ASSUME Trains, Orderly, NEW c \in Convoys, NEW st, state' = [state EXCEPT ![c] = st],
           NEW q \in RailType, rail' = q, Takes(rail, q, c), SameIndices(rail, q, c),
           Minds(rail.crossing, q.crossing, c), Crosses(q, c, st, route[c], tile[c], index[c]),
           UNCHANGED <<signal, route, tile, index>>
    PROVE  Orderly'
<1>1. PICK rt, ts, at : rt = route[c] /\ ts = tile[c] /\ at = index[c]
  OBVIOUS
<1>2. /\ route' = [route EXCEPT ![c] = rt] /\ tile' = [tile EXCEPT ![c] = ts]
      /\ index' = [index EXCEPT ![c] = at] /\ signal' = signal
  BY <1>1 DEF Trains, TypeOK
<1>3. Crosses(q, c, st, rt, ts, at)
  BY <1>1
<1> QED
  BY <1>2, <1>3, OneTrainCrosses

LEMMA ProceedIsOrderly ==
    ASSUME CrossingStandsAlone, Trains, AllSecure, Orderly, NEW c \in Convoys, Proceed(c)
    PROVE  Orderly'
<1>1. PICK atBorder \in BOOLEAN :
         \E e \in {CanEnter(rail, c, state[c], route[c], HeadIndex(c), atBorder)} :
            /\ rail' = e.r
            /\ state' = IF e.ok THEN [state EXCEPT ![c] = "DRIVING"] ELSE state
  BY DEF Proceed
<1>2. PICK e : /\ e = CanEnter(rail, c, state[c], route[c], HeadIndex(c), atBorder)
               /\ rail' = e.r
               /\ state' = IF e.ok THEN [state EXCEPT ![c] = "DRIVING"] ELSE state
  BY <1>1
<1>3. /\ state[c] \in Rolling /\ HeadIndex(c) < Len(route[c]) /\ state[c] \in Waiting
      /\ UNCHANGED <<signal, route, tile, index>>
  <2>1. state[c] \in Waiting
    BY DEF Proceed
  <2>2. state[c] # "SELF_DESTRUCT"
    BY <2>1 DEF Waiting
  <2> QED
    BY <2>1, <2>2, RollingTrain DEF Bound, Rolling, HeadIndex, Proceed
<1>4. Does(rail, e.r, c, route[c], HeadIndex(c)) /\ e.ok \in BOOLEAN
  BY <1>2, <1>3, AskedSteps
<1>5. /\ Behaves(rail.crossing, e.r.crossing, c)
      /\ state[c] \in Driving => Drives(e.r, c, route[c], HeadIndex(c))
      /\ state[c] = "CAN_START" =>
            /\ Starts(e.r, c, route[c], HeadIndex(c))
            /\ e.ok => Drives(e.r, c, route[c], HeadIndex(c))
  BY <1>2, <1>3, AskedMinds
<1>6. PICK st, q : st = (IF e.ok THEN "DRIVING" ELSE state[c]) /\ q = e.r
  OBVIOUS
<1>7. state' = [state EXCEPT ![c] = st]
  BY <1>2, <1>6 DEF Trains, TypeOK
<1>8. Counts(q.crossing, c, tile[c])
  BY <1>5, <1>6, SameCount DEF Orderly, Crosses
<1>9. /\ st = "CAN_START" => Starts(q, c, route[c], HeadIndex(c))
      /\ st \in Driving => Drives(q, c, route[c], HeadIndex(c))
      /\ st \in Waiting \cup {"DRIVING"}
  BY <1>3, <1>5, <1>6 DEF Driving, Waiting
<1>10. Crosses(q, c, st, route[c], tile[c], index[c])
  <2>1. st # "SELF_DESTRUCT" /\ st \notin Standing
    BY <1>9 DEF Waiting, Standing, Rolling
  <2> QED
    BY <2>1, <1>8, <1>9 DEF Crosses, HeadIndex
<1>11. /\ q \in RailType /\ rail' = q /\ Takes(rail, q, c) /\ SameIndices(rail, q, c)
       /\ Minds(rail.crossing, q.crossing, c)
  BY <1>2, <1>4, <1>5, <1>6 DEF Does, Behaves
<1> QED
  BY <1>3, <1>7, <1>10, <1>11, StaysOrderly

LEMMA HoppedCrossing ==
    ASSUME NEW r \in RailType, NEW c \in Convoys, NEW i \in Nat, NEW t \in Tiles, NEW u \in Tiles,
           NEW q, q = Hopped(r, c, i, t, u)
    PROVE  /\ u \in CrossingTiles => q.crossing = AddToCrossing2(r.crossing, <<c, i>>)
           /\ u \notin CrossingTiles /\ t \in CrossingTiles =>
                 q.crossing = ReleaseCrossing2(r.crossing, {<<c, i>>})
           /\ u \notin CrossingTiles /\ t \notin CrossingTiles => q.crossing = r.crossing
<1>1. PICK left : left = IF t \in CrossingTiles /\ u \notin CrossingTiles
                         THEN Release2(r, {<<c, i>>}) ELSE r
  OBVIOUS
<1>2. /\ left \in RailType
      /\ left.crossing = IF t \in CrossingTiles /\ u \notin CrossingTiles
                         THEN ReleaseCrossing2(r.crossing, {<<c, i>>}) ELSE r.crossing
  <2>1. {<<c, i>>} \in SUBSET Vehicles
    BY DEF Vehicles
  <2>2. Release2(r, {<<c, i>>}) \in RailType
    BY <2>1, ReleaseDoes DEF OnlyCrossing
  <2>3. Release2(r, {<<c, i>>}).crossing = ReleaseCrossing2(r.crossing, {<<c, i>>})
    BY DEF Release2, RailType
  <2> QED
    BY <2>2, <2>3, <1>1
<1>3. PICK freed : freed = IF IsLast(c, i) THEN ClearTiles(left, {t}) ELSE left
  OBVIOUS
<1>4. freed \in RailType /\ freed.crossing = left.crossing
  BY <1>2, <1>3, ClearTilesDoes DEF OnlyTiles
<1>5. PICK entered : entered = IF i = 1 THEN ReserveTiles(freed, c, {u}) ELSE freed
  OBVIOUS
<1>6. entered \in RailType /\ entered.crossing = freed.crossing
  BY <1>4, <1>5, ReserveTilesDoes DEF OnlyTiles
<1>7. q = IF u \in CrossingTiles
          THEN [entered EXCEPT !.crossing = AddToCrossing2(entered.crossing, <<c, i>>)]
          ELSE entered
  BY <1>1, <1>3, <1>5 DEF Hopped
<1> QED
  BY <1>2, <1>4, <1>6, <1>7 DEF RailType

\* vehicle i of c goes on from position a of its route; its head is at position h
Goer(r, c, rt, h, i, a) ==
    /\ a \in 1 .. h /\ h <= Len(rt) /\ a < Len(rt) /\ i \in Nat \ {0}
    /\ i = 1 => a = h /\ Passes(r, c, rt, h)
    /\ i # 1 => a < h /\ (rt[a + 1] \in CrossingTiles => r.crossing.way2 # {})

\* what is asked for when it is there
AskedStill(cr, new, c, i, u) ==
    new.request = Engine(c) <=> cr.request = Engine(c) /\ ~(i = 1 /\ u \in CrossingTiles)

\* who is counted when it is there
CountedStill(cr, new, c, i, u) ==
    /\ <<c, i>> \in new.way2 <=> u \in CrossingTiles
    /\ \A k \in Nat : k # i => (<<c, k>> \in new.way2 <=> <<c, k>> \in cr.way2)

LEMMA HoppedMinds ==
    ASSUME CrossingStandsAlone, NEW c \in Convoys, NEW r \in RailType, NEW rt, NEW h, Way(rt, h),
           NEW i, NEW a, Goer(r, c, rt, h, i, a), RoadWaits(r.crossing), Drives(r, c, rt, h),
           <<c, i>> \in r.crossing.way2 <=> rt[a] \in CrossingTiles,
           NEW t, NEW u, t = rt[a], u = rt[a + 1], NEW q, q = Hopped(r, c, i, t, u)
    PROVE  /\ Minds(r.crossing, q.crossing, c) /\ AskedStill(r.crossing, q.crossing, c, i, u)
           /\ CountedStill(r.crossing, q.crossing, c, i, u)
<1>1. /\ Len(rt) \in Nat /\ h \in Nat \ {0} /\ h <= Len(rt)
      /\ \A p \in 1 .. Len(rt) : rt[p] \in Tiles
  BY WayTiles
<1>2. PICK b : b = a + 1
  OBVIOUS
<1>3. /\ a \in 1 .. Len(rt) /\ b \in 1 .. Len(rt) /\ a # b /\ u = rt[b] /\ t \in Tiles /\ u \in Tiles
      /\ a <= h /\ i \in Nat \ {0}
  BY <1>1, <1>2 DEF Goer
<1>4. /\ u \in CrossingTiles => q.crossing = AddToCrossing2(r.crossing, <<c, i>>)
      /\ u \notin CrossingTiles /\ t \in CrossingTiles =>
            q.crossing = ReleaseCrossing2(r.crossing, {<<c, i>>})
      /\ u \notin CrossingTiles /\ t \notin CrossingTiles => q.crossing = r.crossing
  <2>1. i \in Nat /\ t \in Tiles /\ u \in Tiles
    BY <1>3
  <2> QED
    BY <2>1, HoppedCrossing
<1>5. r.crossing \in CrossingLogic(Vehicles)
  BY DEF RailType
<1>6. i # 1 => <<c, i>> # Engine(c)
  BY DEF Engine
<1>7. PICK cr, new : cr = r.crossing /\ new = q.crossing
  OBVIOUS
<1>8. CASE u \in CrossingTiles
  <2>1. cr.way1 = {}
    <3>1. CASE i = 1
      <4>1. b = h + 1 /\ b \in h + 1 .. Len(rt)
        BY <3>1, <1>1, <1>2, <1>3 DEF Goer
      <4>2. r.stop[c] = 0 \/ b < r.stop[c]
        <5>1. rt[h + 1] \in CrossingTiles
          BY <4>1, <1>3, <1>8
        <5>2. r.stop[c] \in Nat
          BY DEF RailType
        <5> QED
          BY <5>1, <5>2, <4>1, <3>1 DEF Goer, Passes
      <4>3. cr.request = Engine(c)
        BY <4>1, <4>2, <1>3, <1>7, <1>8 DEF Drives, Granted
      <4> QED
        BY <4>3, <1>7, EngineIsOne DEF RoadWaits
    <3>2. CASE i # 1
      BY <3>2, <1>7, <1>8 DEF Goer, RoadWaits
    <3> QED
      BY <3>1, <3>2
  <2>2. /\ Minds(cr, new, c) /\ new.way2 = cr.way2 \cup {<<c, i>>}
        /\ new.request = IF cr.request = <<c, i>> THEN NoVehicle ELSE cr.request
    <3>1. i \in Nat /\ cr \in CrossingLogic(Vehicles) /\ new = AddToCrossing2(cr, <<c, i>>)
      BY <1>3, <1>4, <1>5, <1>7, <1>8
    <3> QED
      BY <3>1, <2>1, AddMinds
  <2>3. AskedStill(cr, new, c, i, u)
    BY <2>2, <1>6, <1>8, EngineIsOne DEF AskedStill, Engine
  <2>4. CountedStill(cr, new, c, i, u)
    BY <2>2, <1>8 DEF CountedStill
  <2> QED
    BY <2>2, <2>3, <2>4, <1>7
<1>9. CASE u \notin CrossingTiles /\ t \in CrossingTiles
  <2>1. cr.request # Engine(c)
    <3>1. SUFFICES ASSUME NEW p \in h + 1 .. Len(rt), rt[p] \in CrossingTiles PROVE FALSE
      BY <1>7 DEF Drives, Comes
    <3>2. p \in 1 .. Len(rt) /\ p # a
      BY <1>1, <1>3
    <3> QED
      BY <3>1, <3>2, <1>3, <1>9, OneCrossing
  <2>2. PICK V : V = {<<c, i>>}
    OBVIOUS
  <2>7. new = ReleaseCrossing2(cr, V)
    BY <2>2, <1>4, <1>7, <1>9
  <2>3. V \in SUBSET ({c} \X Nat) /\ new = ReleaseCrossing2(cr, V)
    <3>1. <<c, i>> \in {c} \X Nat
      BY <1>3
    <3> QED
      BY <3>1, <2>2, <2>7
  <2>4. /\ Minds(cr, new, c) /\ new.way2 = cr.way2 \ V
        /\ new.request = IF cr.request \in V THEN NoVehicle ELSE cr.request
    BY <2>3, <1>5, <1>7, ReleaseMinds
  <2>5. AskedStill(cr, new, c, i, u)
    BY <2>1, <2>4, EngineIsOne DEF AskedStill
  <2>6. CountedStill(cr, new, c, i, u)
    BY <2>2, <2>4, <1>9 DEF CountedStill
  <2> QED
    BY <2>4, <2>5, <2>6, <1>7
<1>10. CASE u \notin CrossingTiles /\ t \notin CrossingTiles
  BY <1>4, <1>10, MindsNothing DEF AskedStill, CountedStill
<1> QED
  BY <1>8, <1>9, <1>10

LEMMA HoppedDrives ==
    ASSUME CrossingStandsAlone, NEW c \in Convoys, NEW r \in RailType, NEW rt, NEW h, Way(rt, h),
           NEW i, NEW a, Goer(r, c, rt, h, i, a), Drives(r, c, rt, h),
           NEW t, NEW u, t = rt[a], u = rt[a + 1], NEW q, Hops(r, q, c, i, t, u),
           AskedStill(r.crossing, q.crossing, c, i, u), NEW k, k = IF i = 1 THEN h + 1 ELSE h
    PROVE  Drives(q, c, rt, k)
<1>1. /\ Len(rt) \in Nat /\ h \in Nat \ {0} /\ h <= Len(rt)
      /\ \A p \in 1 .. Len(rt) : rt[p] \in Tiles
      /\ \A p, o \in 1 .. Len(rt) : rt[p] = rt[o] => p = o
  BY WayTiles
<1>2. a \in 1 .. h /\ a < Len(rt) /\ i \in Nat \ {0}
  BY DEF Goer
<1>3. PICK b : b = a + 1
  OBVIOUS
<1>4. b \in 1 .. k /\ k \in h .. Len(rt) /\ u = rt[b]
  BY <1>1, <1>2, <1>3 DEF Goer
<1>5. \A p \in k + 1 .. Len(rt) : q.reserved[rt[p]] = r.reserved[rt[p]]
  <2>1. SUFFICES ASSUME NEW p \in k + 1 .. Len(rt) PROVE q.reserved[rt[p]] = r.reserved[rt[p]]
    OBVIOUS
  <2>2. p \in 1 .. Len(rt) /\ p # a /\ p # b /\ a \in 1 .. Len(rt) /\ b \in 1 .. Len(rt)
    BY <1>1, <1>2, <1>4
  <2>3. rt[p] # t /\ rt[p] # u /\ rt[p] \in Tiles
    BY <2>2, <1>1, <1>4
  <2> QED
    BY <2>3 DEF Hops
<1>6. q.stop = r.stop /\ q.last = r.last
  BY DEF Hops
<1>7. CASE i # 1
  <2>1. k = h
    BY <1>7
  <2>2. q.crossing.request = Engine(c) <=> r.crossing.request = Engine(c)
    BY <1>7 DEF AskedStill
  <2>3. Comes(q, c, rt, k)
    <3>1. ASSUME NEW p \in h + 1 .. Len(rt), HeldTo(r, c, rt, h, p) PROVE HeldTo(q, c, rt, h, p)
      <4>1. \A o \in h + 1 .. p : o \in k + 1 .. Len(rt)
        BY <2>1, <1>1, <1>4
      <4> QED
        BY <4>1, <3>1, <1>5 DEF HeldTo
    <3> QED
      BY <2>1, <2>2, <3>1, <1>6 DEF Drives, Comes
  <2>4. Granted(q, c, rt, k) /\ Stops(q, c, rt, k)
    BY <2>1, <2>2, <1>6 DEF Drives, Granted, Stops
  <2> QED
    BY <2>1, <2>3, <2>4 DEF Drives
<1>8. CASE i = 1
  <2>1. k = h + 1 /\ k = b /\ k \in h + 1 .. Len(rt) /\ Passes(r, c, rt, h) /\ u = rt[k]
    BY <1>1, <1>3, <1>4, <1>8 DEF Goer
  <2>2. \A p \in k + 1 .. Len(rt) : p \in h + 1 .. Len(rt)
    BY <2>1, <1>1
  <2>3. ClearAround(rt, k) /\ (rt[k] \in CrossingTiles => k < Len(rt) - 1)
    BY <2>1, <2>2 DEF Drives, ClearAround
  <2>4. ASSUME NEW p \in k + 1 .. Len(rt), rt[p] \in CrossingTiles PROVE u \notin CrossingTiles
    <3>1. p \in 1 .. Len(rt) /\ k \in 1 .. Len(rt) /\ p # k
      BY <2>1, <1>1
    <3> QED
      BY <3>1, <2>1, <2>4, OneCrossing
  <2>5. Comes(q, c, rt, k)
    <3>1. SUFFICES ASSUME q.crossing.request = Engine(c)
                   PROVE  \E p \in k + 1 .. Len(rt) :
                             /\ rt[p] \in CrossingTiles /\ HeldTo(q, c, rt, k, p)
                             /\ r.stop[c] = 0 \/ p <= r.stop[c]
      BY <1>6 DEF Comes
    <3>2. r.crossing.request = Engine(c) /\ u \notin CrossingTiles
      BY <3>1, <1>8 DEF AskedStill
    <3>3. PICK p \in h + 1 .. Len(rt) : /\ rt[p] \in CrossingTiles /\ HeldTo(r, c, rt, h, p)
                                        /\ r.stop[c] = 0 \/ p <= r.stop[c]
      BY <3>2 DEF Drives, Comes
    <3>4. p # k
      BY <2>1, <3>2, <3>3
    <3>5. p \in k + 1 .. Len(rt)
      BY <2>1, <3>4, <1>1
    <3>6. \A o \in k + 1 .. p : o \in k + 1 .. Len(rt) /\ o \in h + 1 .. p
      BY <2>1, <3>5, <1>1
    <3>7. HeldTo(q, c, rt, k, p)
      BY <3>3, <3>6, <1>5 DEF HeldTo
    <3> QED
      BY <3>3, <3>5, <3>7
  <2>6. Granted(q, c, rt, k)
    <3>1. SUFFICES ASSUME NEW p \in k + 1 .. Len(rt), rt[p] \in CrossingTiles,
                          r.stop[c] = 0 \/ p < r.stop[c]
                   PROVE  q.crossing.request = Engine(c)
      BY <1>6 DEF Granted
    <3>2. r.crossing.request = Engine(c)
      BY <2>2, <3>1 DEF Drives, Granted
    <3> QED
      BY <2>4, <3>1, <3>2 DEF AskedStill
  <2>7. Stops(q, c, rt, k)
    <3>1. PICK n : n = r.stop[c]
      OBVIOUS
    <3>2. n \in Nat
      BY <3>1 DEF RailType
    <3>3. \/ n = 0 \/ n = Len(rt) - 1
          \/ n \in h .. Len(rt) /\ signal[rt[n]] # "none"
          \/ n \in h + 1 .. Len(rt) /\ rt[n] \in CrossingTiles
      BY <2>1, <3>1, <1>1 DEF Drives, Stops
    <3>4. (n = 0 \/ n = Len(rt) - 1 \/ n > h) /\ (rt[k] \in CrossingTiles => n = 0 \/ n > k)
      BY <2>1, <3>1 DEF Passes
    <3>5. n \in h + 1 .. Len(rt) /\ rt[n] \in CrossingTiles => n \in k + 1 .. Len(rt)
      BY <2>1, <3>4, <1>1
    <3>6. r.last[c] # 0
      BY <2>1 DEF Passes
    <3> QED
      BY <2>1, <3>1, <3>2, <3>3, <3>4, <3>5, <3>6, <1>1, <1>6 DEF Stops
  <2> QED
    BY <2>3, <2>5, <2>6, <2>7 DEF Drives
<1> QED
  BY <1>7, <1>8

\* vehicle i of c goes on; r is the state of rail before, behind what its head was told
LEMMA HopIsOrderly ==
    ASSUME CrossingStandsAlone, Trains, Orderly, NEW c \in Convoys, state[c] = "DRIVING",
           NEW i \in 1 .. Wagons[c], index[c][i] < Len(route[c]),
           i # 1 => index[c][i] < index[c][i - 1],
           NEW r \in RailType, Behaves(rail.crossing, r.crossing, c),
           Drives(r, c, route[c], HeadIndex(c)), i = 1 => Passes(r, c, route[c], HeadIndex(c)),
           Hop(r, c, i), UNCHANGED <<signal, state, route>>, KeepsOthers(c)
    PROVE  Orderly'
<1> DEFINE rt == route[c]
           ts == tile[c]
           at == index[c]
           n == Wagons[c]
           h == at[1]
<1>1. /\ Placed(c, "DRIVING", rt, ts, at) /\ n \in Nat \ {0} /\ OnRoute(c, rt, ts, at) /\ Way(rt, h)
  BY RollingTrain DEF Rolling, HeadIndex
<1>2. ts \in [1 .. n -> Tiles] /\ at \in [1 .. n -> Nat \ {0}] /\ Coupled(n, at)
  BY <1>1 DEF Placed, Coupling, Coupled
<1>3. /\ Len(rt) \in Nat /\ h \in Nat \ {0} /\ h <= Len(rt)
      /\ \A p \in 1 .. Len(rt) : rt[p] \in Tiles
      /\ \A p, o \in 1 .. Len(rt) : rt[p] = rt[o] => p = o
  BY <1>1, WayTiles
<1>4. /\ at[i] < Len(rt) /\ (i # 1 => at[i] < at[i - 1]) /\ Drives(r, c, rt, h)
      /\ i = 1 => Passes(r, c, rt, h)
  BY DEF HeadIndex
<1>5. PICK a, t, u, q : a = at[i] /\ t = ts[i] /\ u = rt[at[i] + 1] /\ q = Hopped(r, c, i, t, u)
  OBVIOUS
<1>6. PICK ts2, at2 : ts2 = [ts EXCEPT ![i] = u] /\ at2 = [at EXCEPT ![i] = at[i] + 1]
  OBVIOUS
<1>7. /\ rail' = q /\ signal' = signal /\ state' = [state EXCEPT ![c] = "DRIVING"]
      /\ route' = [route EXCEPT ![c] = rt]
      /\ tile' = [tile EXCEPT ![c] = ts2] /\ index' = [index EXCEPT ![c] = at2]
  <2>1. rail' = q
    BY <1>5 DEF Hop
  <2>2. state' = [state EXCEPT ![c] = "DRIVING"] /\ route' = [route EXCEPT ![c] = rt]
    BY DEF Trains, TypeOK
  <2>3. tile' = [tile EXCEPT ![c] = ts2] /\ index' = [index EXCEPT ![c] = at2]
    BY <1>5, <1>6 DEF Hop
  <2> QED
    BY <2>1, <2>2, <2>3
<1>8. Counts(rail.crossing, c, ts) /\ RoadWaits(rail.crossing)
  BY DEF Orderly, Crosses
<1> HIDE DEF rt, ts, at, n
<1>9. Counts(r.crossing, c, ts) /\ RoadWaits(r.crossing)
  BY <1>8, SameCount DEF Behaves, Minds
<1>10. /\ a \in Nat \ {0} /\ a <= h /\ t = rt[a] /\ u = rt[a + 1] /\ DOMAIN ts = 1 .. n
       /\ i \in Nat \ {0} /\ 1 \in 1 .. n
  <2>1. 1 \in 1 .. n /\ n \in Nat
    BY <1>1
  <2>2. at[i] <= at[1]
    BY <2>1, <1>2, CoupledInOrder DEF n
  <2>3. at[i] \in Nat \ {0} /\ ts[i] = rt[at[i]]
    BY <1>1, <1>2 DEF OnRoute, n
  <2> QED
    BY <2>1, <2>2, <2>3, <1>2, <1>5
<1>11. Goer(r, c, rt, h, i, a)
  <2>1. ASSUME i # 1 PROVE a < h /\ (u \in CrossingTiles => r.crossing.way2 # {})
    <3>1. PICK k : k = i - 1
      OBVIOUS
    <3>2. i \in 2 .. n /\ k \in 1 .. n /\ k \in Nat
      BY <2>1, <3>1, <1>1 DEF n
    <3>3. at[i] = at[k] \/ at[i] = at[k] - 1
      BY <3>1, <3>2, <1>2 DEF Coupled
    <3>4. at[k] = a + 1
      BY <2>1, <3>1, <3>2, <3>3, <1>2, <1>4, <1>5
    <3>5. at[k] <= at[1]
      BY <3>2, <1>1, <1>2, <1>10, CoupledInOrder
    <3>6. ts[k] = u
      BY <3>2, <3>4, <1>1, <1>10 DEF OnRoute, n
    <3>7. u \in CrossingTiles => <<c, k>> \in r.crossing.way2
      BY <3>2, <3>6, <1>9, <1>10 DEF Counts
    <3> QED
      BY <3>4, <3>5, <3>7, <1>3, <1>10
  <2>2. i = 1 => a = h
    BY <1>5
  <2> QED
    BY <2>1, <2>2, <1>3, <1>4, <1>5, <1>10 DEF Goer
<1>12. <<c, i>> \in r.crossing.way2 <=> rt[a] \in CrossingTiles
  <2>1. i \in Nat /\ i \in DOMAIN ts
    BY <1>10 DEF n
  <2> QED
    BY <2>1, <1>5, <1>9, <1>10 DEF Counts
<1>13. /\ Minds(r.crossing, q.crossing, c) /\ AskedStill(r.crossing, q.crossing, c, i, u)
       /\ CountedStill(r.crossing, q.crossing, c, i, u)
  BY <1>1, <1>4, <1>5, <1>9, <1>10, <1>11, <1>12, HoppedMinds
<1>14. Hops(r, q, c, i, t, u)
  <2>1. PICK b : b = a + 1
    OBVIOUS
  <2>2. a \in 1 .. Len(rt) /\ b \in 1 .. Len(rt) /\ a # b
    BY <2>1, <1>3, <1>4, <1>5, <1>10
  <2>3. t \in Tiles /\ u \in Tiles /\ t # u /\ i \in Nat
    BY <2>1, <2>2, <1>3, <1>10
  <2> QED
    BY <2>3, <1>5, HoppedDoes
<1>15. PICK k : k = IF i = 1 THEN h + 1 ELSE h
  OBVIOUS
<1>16. Drives(q, c, rt, k)
  BY <1>1, <1>4, <1>10, <1>11, <1>13, <1>14, <1>15, HoppedDrives
<1>17. at2[1] = k
  BY <1>2, <1>6, <1>10, <1>15
<1>18. Counts(q.crossing, c, ts2)
  <2>1. ts2[i] = u /\ DOMAIN ts2 = 1 .. n /\ \A j \in 1 .. n : j # i => ts2[j] = ts[j]
    BY <1>2, <1>6 DEF n
  <2>2. SUFFICES ASSUME NEW j \in Nat
                 PROVE  <<c, j>> \in q.crossing.way2 <=> j \in DOMAIN ts2 /\ ts2[j] \in CrossingTiles
    BY DEF Counts
  <2>3. i \in 1 .. n
    BY DEF n
  <2>4. CASE j = i
    BY <2>1, <2>3, <2>4, <1>13 DEF CountedStill
  <2>5. CASE j # i
    <3>1. <<c, j>> \in q.crossing.way2 <=> <<c, j>> \in r.crossing.way2
      BY <2>5, <1>13 DEF CountedStill
    <3>2. <<c, j>> \in r.crossing.way2 <=> j \in DOMAIN ts /\ ts[j] \in CrossingTiles
      BY <1>9 DEF Counts
    <3> QED
      BY <2>1, <2>5, <3>1, <3>2, <1>10
  <2> QED
    BY <2>4, <2>5
<1>19. PICK st : st = "DRIVING"
  OBVIOUS
<1>20. Crosses(q, c, st, rt, ts2, at2)
  BY <1>16, <1>17, <1>18, <1>19 DEF Crosses, Standing, Rolling
<1>21. Minds(rail.crossing, q.crossing, c)
  BY <1>13, MindsTwice DEF Behaves
<1>22. q \in RailType /\ Takes(rail, q, c) /\ SameIndices(rail, q, c)
  BY <1>7, <1>14 DEF Hops, KeepsOthers
<1>23. state' = [state EXCEPT ![c] = st]
  BY <1>7, <1>19
<1> QED
  BY <1>7, <1>20, <1>21, <1>22, <1>23, OneTrainCrosses

LEMMA HeadHopsIsOrderly ==
    ASSUME CrossingStandsAlone, Trains, AllSecure, Orderly, NEW c \in Convoys, HeadHops(c)
    PROVE  Orderly'
<1>1. /\ state[c] = "DRIVING" /\ HeadIndex(c) < Len(route[c])
      /\ state[c] \in Rolling /\ state[c] \in Driving
  BY DEF HeadHops, Rolling, Driving
<1>2. PICK e : /\ e = CanEnter(rail, c, state[c], route[c], HeadIndex(c), TRUE)
               /\ \/ e.ok /\ Hop(e.r, c, 1) /\ UNCHANGED <<signal, state, route>>
                  \/ /\ ~e.ok
                     /\ state' = [state EXCEPT ![c] = "WAITING_FOR_CLEARANCE"]
                     /\ rail' = e.r
                     /\ UNCHANGED <<signal, route, tile, index>>
  BY DEF HeadHops
<1>3. PICK atBorder \in BOOLEAN : atBorder = TRUE
  OBVIOUS
<1>4. e = CanEnter(rail, c, state[c], route[c], HeadIndex(c), atBorder)
  BY <1>2, <1>3
<1>5. Does(rail, e.r, c, route[c], HeadIndex(c)) /\ e.ok \in BOOLEAN
  BY <1>1, <1>4, AskedSteps
<1>6. PICK q : q = e.r
  OBVIOUS
<1>7. /\ Behaves(rail.crossing, q.crossing, c)
      /\ Drives(q, c, route[c], HeadIndex(c))
      /\ e.ok => Passes(q, c, route[c], HeadIndex(c))
  BY <1>1, <1>4, <1>6, AskedMinds
<1>8. KeepsOthers(c)
  BY HeadHopsSteps
<1>9. CASE e.ok
  <2>1. PICK i : i = 1
    OBVIOUS
  <2>2. /\ i \in 1 .. Wagons[c] /\ index[c][i] < Len(route[c]) /\ Hop(q, c, i)
        /\ UNCHANGED <<signal, state, route>>
    <3>1. Hop(q, c, i) /\ UNCHANGED <<signal, state, route>>
      BY <2>1, <1>2, <1>6, <1>9
    <3>2. index[c][i] < Len(route[c])
      BY <2>1, <1>1 DEF HeadIndex
    <3>3. i \in 1 .. Wagons[c]
      BY <2>1, ConvoyAssumption
    <3> QED
      BY <3>1, <3>2, <3>3
  <2>3. q \in RailType
    BY <1>5, <1>6 DEF Does
  <2> QED
    BY <2>1, <2>2, <2>3, <1>1, <1>7, <1>8, <1>9, HopIsOrderly
<1>10. CASE ~e.ok
  <2>1. PICK st : st = "WAITING_FOR_CLEARANCE"
    OBVIOUS
  <2>2. state' = [state EXCEPT ![c] = st] /\ rail' = q /\ UNCHANGED <<signal, route, tile, index>>
    BY <2>1, <1>2, <1>6, <1>10
  <2>3. Counts(q.crossing, c, tile[c])
    BY <1>7, SameCount DEF Orderly, Crosses
  <2>4. Crosses(q, c, st, route[c], tile[c], index[c])
    BY <2>1, <2>3, <1>7 DEF Crosses, HeadIndex, Standing, Rolling, Waiting
  <2>5. q \in RailType /\ Takes(rail, q, c) /\ SameIndices(rail, q, c)
    BY <1>5, <1>6 DEF Does
  <2>6. Minds(rail.crossing, q.crossing, c)
    BY <1>7 DEF Behaves
  <2> QED
    BY <2>2, <2>4, <2>5, <2>6, StaysOrderly
<1> QED
  BY <1>5, <1>9, <1>10

LEMMA FollowerHopsIsOrderly ==
    ASSUME CrossingStandsAlone, Trains, AllSecure, Orderly, NEW c \in Convoys, FollowerHops(c)
    PROVE  Orderly'
<1>1. /\ state[c] = "DRIVING" /\ state[c] \in Rolling /\ state[c] \in Driving
      /\ UNCHANGED <<signal, state, route>>
  BY DEF FollowerHops, Rolling, Driving
<1>2. PICK i \in 2 .. Wagons[c] : index[c][i] < index[c][i - 1] /\ Hop(rail, c, i)
  BY DEF FollowerHops
<1>3. /\ Wagons[c] \in Nat \ {0} /\ OnRoute(c, route[c], tile[c], index[c])
      /\ Coupled(Wagons[c], index[c]) /\ Len(route[c]) \in Nat
  BY <1>1, RollingTrain DEF Placed, Coupling
<1>4. index[c][i] < Len(route[c]) /\ i \in 1 .. Wagons[c] /\ i # 1
  <2>1. i \in 1 .. Wagons[c] /\ i - 1 \in 1 .. Wagons[c] /\ i # 1 /\ 1 \in 1 .. Wagons[c]
    BY <1>3
  <2>2. index[c][i - 1] <= index[c][1] /\ index[c][1] <= Len(route[c])
    <3>1. PICK k : k = i - 1
      OBVIOUS
    <3>2. k \in 1 .. Wagons[c] /\ Wagons[c] \in Nat
      BY <3>1, <2>1, <1>3
    <3>3. index[c][k] <= index[c][1]
      BY <3>2, <2>1, <1>3, CoupledInOrder
    <3> QED
      BY <3>1, <3>3, <1>3 DEF OnRoute
  <2>3. index[c][i] \in Nat /\ index[c][i - 1] \in Nat /\ index[c][1] \in Nat
    BY <2>1, <1>3 DEF Coupled
  <2> QED
    BY <2>1, <2>2, <2>3, <1>2, <1>3
<1>5. PICK r : r = rail
  OBVIOUS
<1>6. r \in RailType /\ Behaves(rail.crossing, r.crossing, c) /\ Hop(r, c, i)
  BY <1>2, <1>5, BehavesNothing DEF Trains, TypeOK
<1>7. Drives(r, c, route[c], HeadIndex(c))
  BY <1>1, <1>5 DEF Orderly, Crosses, HeadIndex
<1>8. KeepsOthers(c)
  BY FollowerHopsSteps
<1> QED
  BY <1>1, <1>2, <1>4, <1>6, <1>7, <1>8, HopIsOrderly

-----------------------------------------------------------------------------
(* Trains that stand.                                                      *)

\* A train that is not on the crossing may stop for as long as it wants to.
LEMMA StandsOrderly ==
    ASSUME Trains, Orderly, NEW c \in Convoys, state[c] # "SELF_DESTRUCT",
           HeadTile(c) \notin CrossingTiles, NEW st \in Standing
    PROVE  Crosses(rail, c, st, route[c], tile[c], index[c])
<1>1. PICK rt, h : rt = route[c] /\ h = HeadIndex(c)
  OBVIOUS
<1>2. Crosses(rail, c, state[c], rt, tile[c], index[c])
  BY <1>1 DEF Orderly
<1>4. Awaited(rail, c, rt, h)
  BY <1>1, AllAwaited
<1>5. st # "SELF_DESTRUCT" /\ st # "CAN_START" /\ st \notin Driving
  BY DEF Standing, States, Waiting, Rolling, Driving
<1> QED
  BY <1>1, <1>2, <1>4, <1>5 DEF Crosses, HeadIndex, HeadTile

LEMMA StandingIsOrderly ==
    ASSUME CrossingStandsAlone, AnyTime = FALSE, Trains, Orderly, NEW c \in Convoys,
           Arrives(c) \/ Loaded(c) \/ NewSchedule(c)
    PROVE  Orderly'
<1>1. /\ state[c] # "SELF_DESTRUCT" /\ UNCHANGED <<signal, route, tile, index, rail>>
      /\ \E st \in Standing : state' = [state EXCEPT ![c] = st]
  BY DEF Arrives, Loaded, NewSchedule, States, Standing, Rolling, Waiting
<1>2. HeadTile(c) \notin CrossingTiles
  <2>1. CASE Arrives(c)
    <3>1. Drives(rail, c, route[c], HeadIndex(c)) /\ HeadIndex(c) = Len(route[c])
      BY <2>1 DEF Arrives, Orderly, Crosses, Driving, HeadIndex
    <3>2. Len(route[c]) \in Nat /\ route[c][HeadIndex(c)] = HeadTile(c)
      BY <2>1, RollingTrain DEF Arrives, Rolling
    <3> QED
      BY <3>1, <3>2 DEF Drives
  <2>2. CASE Loaded(c)
    BY <2>2 DEF Loaded, Orderly, Crosses, Standing, States, Rolling, Waiting, HeadTile
  <2>3. CASE NewSchedule(c)
    <3>1. Own(c) \cap CrossingTiles = {}
      BY <2>3 DEF NewSchedule
    <3>2. 1 \in DOMAIN tile[c]
      BY <1>1, RollingTrain DEF Placed, Coupling
    <3> QED
      BY <3>1, <3>2 DEF Own, HeadTile
  <2> QED
    BY <2>1, <2>2, <2>3
<1>3. PICK st \in Standing : state' = [state EXCEPT ![c] = st]
  BY <1>1
<1>4. Crosses(rail, c, st, route[c], tile[c], index[c])
  BY <1>1, <1>2, StandsOrderly
<1>5. PICK q : q = rail
  OBVIOUS
<1>6. q \in RailType /\ rail' = q /\ Takes(rail, q, c) /\ SameIndices(rail, q, c)
  BY <1>1, <1>5 DEF Trains, TypeOK, Takes, SameIndices
<1>7. Minds(rail.crossing, q.crossing, c)
  BY <1>5, MindsNothing
<1> QED
  BY <1>1, <1>3, <1>4, <1>5, <1>6, <1>7, StaysOrderly

-----------------------------------------------------------------------------
(* Only a train that drives is on the crossing, and it is off it again     *)
(* before its route ends.                                                  *)

OffInTime(st, rt, ts, at) ==
    \A i \in DOMAIN ts : ts[i] \in CrossingTiles => st \in Driving /\ at[i] < Len(rt) - 1

InTime == \A c \in Convoys : OffInTime(state[c], route[c], tile[c], index[c])

LEMMA OneTrainInTime ==
    ASSUME Trains, InTime, NEW c \in Convoys, NEW st, NEW rt, NEW ts, NEW at,
           OffInTime(st, rt, ts, at),
           state' = [state EXCEPT ![c] = st], route' = [route EXCEPT ![c] = rt],
           tile' = [tile EXCEPT ![c] = ts], index' = [index EXCEPT ![c] = at]
    PROVE  InTime'
<1>1. /\ state'[c] = st /\ route'[c] = rt /\ tile'[c] = ts /\ index'[c] = at
      /\ \A d \in Convoys : d # c => /\ state'[d] = state[d] /\ route'[d] = route[d]
                                     /\ tile'[d] = tile[d] /\ index'[d] = index[d]
  BY DEF Trains, TypeOK
<1>2. \A d \in Convoys : OffInTime(state'[d], route'[d], tile'[d], index'[d])
  BY <1>1 DEF InTime
<1> QED
  BY <1>2 DEF InTime, OffInTime

\* a train whose vehicles stay where they are
LEMMA StayingInTime ==
    ASSUME Trains, InTime, NEW c \in Convoys, NEW st, UNCHANGED <<route, tile, index>>,
           state' = [state EXCEPT ![c] = st],
           st \in Driving \/ Own(c) \cap CrossingTiles = {},
           state[c] \in Driving \/ Own(c) \cap CrossingTiles = {}
    PROVE  InTime'
<1>1. PICK rt, ts, at : rt = route[c] /\ ts = tile[c] /\ at = index[c]
  OBVIOUS
<1>2. /\ route' = [route EXCEPT ![c] = rt] /\ tile' = [tile EXCEPT ![c] = ts]
      /\ index' = [index EXCEPT ![c] = at]
  BY <1>1 DEF Trains, TypeOK
<1>3. OffInTime(state[c], rt, ts, at)
  BY <1>1 DEF InTime
<1>4. OffInTime(st, rt, ts, at)
  BY <1>1, <1>3 DEF OffInTime, Own
<1> QED
  BY <1>2, <1>4, OneTrainInTime

\* a train that does not drive is not on the crossing
LEMMA NotOnCrossing ==
    ASSUME InTime, NEW c \in Convoys, state[c] \notin Driving
    PROVE  Own(c) \cap CrossingTiles = {}
  BY DEF InTime, OffInTime, Own

LEMMA ArrivedInTime ==
    ASSUME Trains, InTime, NEW c \in Convoys, state[c] # "SELF_DESTRUCT",
           HeadIndex(c) = Len(route[c])
    PROVE  Own(c) \cap CrossingTiles = {}
<1>1. PICK n, rt, ts, at : n = Wagons[c] /\ rt = route[c] /\ ts = tile[c] /\ at = index[c]
  OBVIOUS
<1>2. /\ Coupling(c, ts, at) /\ Compact(c, rt, ts, at) /\ n \in Nat \ {0}
      /\ at[1] = Len(rt) /\ Len(rt) \in Nat
  BY <1>1, RollingTrain DEF Placed, Bound, HeadIndex
<1>3. Coupled(n, at) /\ at[1] <= at[n] + 1 /\ DOMAIN ts = 1 .. n
  BY <1>1, <1>2 DEF Coupling, Compact
<1>4. SUFFICES ASSUME NEW i \in 1 .. n, ts[i] \in CrossingTiles PROVE FALSE
  BY <1>1, <1>3 DEF Own
<1>5. at[i] < Len(rt) - 1
  BY <1>1, <1>3, <1>4 DEF InTime, OffInTime
<1>6. /\ at[i] \in Nat \ {0} /\ at[1] \in Nat \ {0} /\ at[n] \in Nat \ {0}
      /\ at[i] = at[1] \/ at[i] = at[n]
      /\ at[n] = at[1] \/ at[n] = at[1] - 1
  BY <1>2, <1>3, OneOrTwoTiles
<1> QED
  BY <1>2, <1>5, <1>6

\* vehicle i of c goes on to a tile that is not on the crossing, or that it leaves in time
LEMMA HopInTime ==
    ASSUME Trains, InTime, NEW c \in Convoys, state[c] = "DRIVING", NEW i \in 1 .. Wagons[c],
           NEW r, Hop(r, c, i), UNCHANGED <<state, route>>,
           route[c][index[c][i] + 1] \in CrossingTiles => index[c][i] + 1 < Len(route[c]) - 1
    PROVE  InTime'
<1>1. PICK st, rt, ts, at, u : /\ st = state[c] /\ rt = route[c] /\ ts = tile[c] /\ at = index[c]
                               /\ u = rt[at[i] + 1]
  OBVIOUS
<1>2. PICK ts2, at2 : ts2 = [ts EXCEPT ![i] = u] /\ at2 = [at EXCEPT ![i] = at[i] + 1]
  OBVIOUS
<1>3. /\ state' = [state EXCEPT ![c] = st] /\ route' = [route EXCEPT ![c] = rt]
      /\ tile' = [tile EXCEPT ![c] = ts2] /\ index' = [index EXCEPT ![c] = at2]
  BY <1>1, <1>2 DEF Hop, Trains, TypeOK
<1>4. /\ DOMAIN ts = 1 .. Wagons[c] /\ DOMAIN at = 1 .. Wagons[c]
      /\ OffInTime(st, rt, ts, at) /\ st \in Driving
  <2>1. Coupling(c, ts, at)
    BY <1>1, RollingTrain DEF Placed
  <2> QED
    BY <2>1, <1>1 DEF InTime, Coupling, Coupled, Driving
<1>5. OffInTime(st, rt, ts2, at2)
  <2>1. SUFFICES ASSUME NEW k \in 1 .. Wagons[c], ts2[k] \in CrossingTiles
                 PROVE  at2[k] < Len(rt) - 1
    BY <1>2, <1>4 DEF OffInTime
  <2>2. CASE k = i
    BY <2>1, <2>2, <1>1, <1>2, <1>4
  <2>3. CASE k # i
    BY <2>1, <2>3, <1>2, <1>4 DEF OffInTime
  <2> QED
    BY <2>2, <2>3
<1> QED
  BY <1>3, <1>5, OneTrainInTime

LEMMA HeadHopsInTime ==
    ASSUME Trains, Orderly, InTime, NEW c \in Convoys, HeadHops(c)
    PROVE  InTime'
<1>1. /\ state[c] = "DRIVING" /\ HeadIndex(c) < Len(route[c]) /\ Wagons[c] \in Nat \ {0}
      /\ Len(route[c]) \in Nat /\ HeadIndex(c) \in Nat
  BY RollingTrain DEF HeadHops
<1>2. PICK e : \/ Hop(e.r, c, 1) /\ UNCHANGED <<state, route>>
               \/ /\ state' = [state EXCEPT ![c] = "WAITING_FOR_CLEARANCE"]
                  /\ UNCHANGED <<route, tile, index>>
  BY DEF HeadHops
<1>3. CASE Hop(e.r, c, 1) /\ UNCHANGED <<state, route>>
  <2>1. PICK i, r : i = 1 /\ r = e.r
    OBVIOUS
  <2>2. i \in 1 .. Wagons[c] /\ Hop(r, c, i)
    BY <2>1, <1>1, <1>3
  <2>3. ClearAround(route[c], HeadIndex(c))
    BY <1>1 DEF Orderly, Crosses, Driving, Drives, HeadIndex
  <2>4. route[c][HeadIndex(c) + 1] \in CrossingTiles => HeadIndex(c) + 1 < Len(route[c]) - 1
    <3>1. HeadIndex(c) + 1 \in HeadIndex(c) + 1 .. Len(route[c])
      BY <1>1
    <3> QED
      BY <3>1, <2>3 DEF ClearAround
  <2>5. route[c][index[c][i] + 1] \in CrossingTiles => index[c][i] + 1 < Len(route[c]) - 1
    BY <2>1, <2>4 DEF HeadIndex
  <2> QED
    BY <2>2, <2>5, <1>1, <1>3, HopInTime
<1>4. CASE state' = [state EXCEPT ![c] = "WAITING_FOR_CLEARANCE"] /\ UNCHANGED <<route, tile, index>>
  <2>1. PICK st : st = "WAITING_FOR_CLEARANCE"
    OBVIOUS
  <2>2. st \in Driving /\ state[c] \in Driving /\ state' = [state EXCEPT ![c] = st]
    BY <2>1, <1>1, <1>4 DEF Driving
  <2> QED
    BY <2>2, <1>4, StayingInTime
<1> QED
  BY <1>2, <1>3, <1>4

LEMMA FollowerHopsInTime ==
    ASSUME Trains, InTime, NEW c \in Convoys, FollowerHops(c)
    PROVE  InTime'
<1>1. state[c] = "DRIVING" /\ UNCHANGED <<state, route>>
  BY DEF FollowerHops
<1>2. PICK i \in 2 .. Wagons[c] : index[c][i] < index[c][i - 1] /\ Hop(rail, c, i)
  BY DEF FollowerHops
<1>3. PICK n, rt, ts, at, k : /\ n = Wagons[c] /\ rt = route[c] /\ ts = tile[c] /\ at = index[c]
                              /\ k = i - 1
  OBVIOUS
<1>4. /\ n \in Nat \ {0} /\ Coupling(c, ts, at) /\ OnRoute(c, rt, ts, at)
  BY <1>1, <1>3, RollingTrain DEF Placed, Rolling
<1>5. i \in 2 .. n /\ i \in 1 .. n /\ k \in 1 .. n
  BY <1>3, <1>4
<1>6. at[i] + 1 = at[k]
  <2>1. at[i] = at[k] \/ at[i] = at[k] - 1
    BY <1>3, <1>4, <1>5 DEF Coupling, Coupled
  <2>2. at[i] \in Nat /\ at[k] \in Nat /\ at[i] < at[k]
    BY <1>2, <1>3, <1>4, <1>5 DEF Coupling, Coupled
  <2> QED
    BY <2>1, <2>2
<1>7. rt[at[i] + 1] = ts[k]
  BY <1>3, <1>4, <1>5, <1>6 DEF OnRoute
<1>8. rt[at[i] + 1] \in CrossingTiles => at[i] + 1 < Len(rt) - 1
  <2>1. k \in DOMAIN ts
    BY <1>3, <1>4, <1>5 DEF Coupling
  <2>2. ts[k] \in CrossingTiles => at[k] < Len(rt) - 1
    BY <2>1, <1>3 DEF InTime, OffInTime
  <2> QED
    BY <2>2, <1>6, <1>7
<1>9. PICK r : r = rail
  OBVIOUS
<1>10. i \in 1 .. Wagons[c] /\ Hop(r, c, i)
  BY <1>2, <1>3, <1>5, <1>9
<1> QED
  BY <1>1, <1>3, <1>8, <1>10, HopInTime

\* a train that is put, or stays, on tiles that are not on the crossing
LEMMA SetOffInTime ==
    ASSUME Trains, InTime, NEW c \in Convoys, NEW r, NEW rt, NEW at, NEW ts,
           \A i \in DOMAIN ts : ts[i] \notin CrossingTiles, SetOff(c, r, rt, at, ts)
    PROVE  InTime'
<1>1. PICK ok : /\ state' = [state EXCEPT ![c] = IF ok THEN "DRIVING" ELSE "CAN_START"]
                /\ route' = [route EXCEPT ![c] = rt] /\ tile' = [tile EXCEPT ![c] = ts]
                /\ index' = [index EXCEPT ![c] = at]
  BY DEF SetOff
<1>2. PICK st : st = IF ok THEN "DRIVING" ELSE "CAN_START"
  OBVIOUS
<1>3. OffInTime(st, rt, ts, at) /\ state' = [state EXCEPT ![c] = st]
  BY <1>1, <1>2 DEF OffInTime
<1> QED
  BY <1>1, <1>3, OneTrainInTime

LEMMA RerouteInTime ==
    ASSUME Trains, InTime, NEW c \in Convoys, Reroute(c)
    PROVE  InTime'
<1>1. state[c] \notin Driving /\ state[c] # "SELF_DESTRUCT"
  BY DEF Reroute, Driving
<1>2. Own(c) \cap CrossingTiles = {}
  BY <1>1, NotOnCrossing
<1>3. PICK goal \in Goals[c] \ {HeadTile(c)} :
         \/ NoRoute(c, goal)
         \/ \E rt \in RoutesTo(c, goal) : GoesOn(c, rt) \/ StartsAfresh(c, rt)
  BY DEF Reroute
<1>4. \A i \in DOMAIN tile[c] : tile[c][i] \notin CrossingTiles
  BY <1>2 DEF Own
<1>5. CASE NoRoute(c, goal)
  <2>1. PICK st, rt, ts, at : st = "NO_ROUTE" /\ rt = <<goal>> /\ ts = tile[c] /\ at = index[c]
    OBVIOUS
  <2>2. /\ state' = [state EXCEPT ![c] = st] /\ route' = [route EXCEPT ![c] = rt]
        /\ tile' = [tile EXCEPT ![c] = ts] /\ index' = [index EXCEPT ![c] = at]
    BY <2>1, <1>5 DEF NoRoute, Trains, TypeOK
  <2>3. OffInTime(st, rt, ts, at)
    BY <2>1, <1>4 DEF OffInTime
  <2> QED
    BY <2>2, <2>3, OneTrainInTime
<1>6. ASSUME NEW rt \in RoutesTo(c, goal), GoesOn(c, rt) PROVE InTime'
  <2>1. PICK new, at : SetOff(c, RouteFreed(c), new, at, tile[c])
    BY <1>1, <1>6, GoesOnAlong
  <2>2. PICK r, ts : r = RouteFreed(c) /\ ts = tile[c]
    OBVIOUS
  <2>3. SetOff(c, r, new, at, ts) /\ \A i \in DOMAIN ts : ts[i] \notin CrossingTiles
    BY <2>1, <2>2, <1>4
  <2> QED
    BY <2>3, SetOffInTime
<1>7. ASSUME NEW rt \in RoutesTo(c, goal), StartsAfresh(c, rt) PROVE InTime'
  <2>1. PICK start, h :
           /\ start[1] \in Own(c)
           /\ SetOff(c, TakenOff(c, RouteFreed(c)), start,
                     [i \in 1 .. Wagons[c] |-> 1], [i \in 1 .. Wagons[c] |-> start[1]])
    BY <1>1, <1>7, StartsAlong
  <2>2. PICK r, at, ts : /\ r = TakenOff(c, RouteFreed(c)) /\ at = [i \in 1 .. Wagons[c] |-> 1]
                         /\ ts = [i \in 1 .. Wagons[c] |-> start[1]]
    OBVIOUS
  <2>3. SetOff(c, r, start, at, ts) /\ \A i \in DOMAIN ts : ts[i] \notin CrossingTiles
    BY <2>1, <2>2, <1>2
  <2> QED
    BY <2>3, SetOffInTime
<1> QED
  BY <1>3, <1>5, <1>6, <1>7

LEMMA EveryStepInTime ==
    ASSUME AnyTime = FALSE, Trains, Orderly, InTime, [Next]_vars
    PROVE  InTime'
<1>1. ASSUME NEW c \in Convoys, Proceed(c) PROVE InTime'
  <2>1. PICK ok : /\ state[c] \in Waiting /\ UNCHANGED <<route, tile, index>>
                  /\ state' = IF ok THEN [state EXCEPT ![c] = "DRIVING"] ELSE state
    BY <1>1 DEF Proceed
  <2>2. PICK st : st = IF ok THEN "DRIVING" ELSE state[c]
    OBVIOUS
  <2>3. state' = [state EXCEPT ![c] = st]
    BY <2>1, <2>2 DEF Trains, TypeOK
  <2>4. st \in Driving \/ Own(c) \cap CrossingTiles = {}
    BY <2>2, NotOnCrossing DEF Driving
  <2>5. state[c] \in Driving \/ Own(c) \cap CrossingTiles = {}
    BY NotOnCrossing
  <2> QED
    BY <2>1, <2>3, <2>4, <2>5, StayingInTime
<1>2. ASSUME NEW c \in Convoys, Arrives(c) \/ Loaded(c) \/ NewSchedule(c) PROVE InTime'
  <2>1. PICK st : state' = [state EXCEPT ![c] = st] /\ UNCHANGED <<route, tile, index>>
    BY <1>2 DEF Arrives, Loaded, NewSchedule
  <2>2. Own(c) \cap CrossingTiles = {}
    <3>1. CASE Arrives(c)
      BY <3>1, ArrivedInTime DEF Arrives
    <3>2. CASE Loaded(c)
      BY <3>2, NotOnCrossing DEF Loaded, Driving
    <3>3. CASE NewSchedule(c)
      BY <3>3 DEF NewSchedule
    <3> QED
      BY <3>1, <3>2, <3>3, <1>2
  <2> QED
    BY <2>1, <2>2, StayingInTime
<1>3. ASSUME NEW c \in Convoys, Destroy(c) PROVE InTime'
  <2>1. PICK st, rt, ts, at : st = "SELF_DESTRUCT" /\ rt = <<>> /\ ts = <<>> /\ at = <<>>
    OBVIOUS
  <2>2. /\ state' = [state EXCEPT ![c] = st] /\ route' = [route EXCEPT ![c] = rt]
        /\ tile' = [tile EXCEPT ![c] = ts] /\ index' = [index EXCEPT ![c] = at]
    BY <2>1, <1>3 DEF Destroy
  <2>3. OffInTime(st, rt, ts, at)
    BY <2>1 DEF OffInTime
  <2> QED
    BY <2>2, <2>3, OneTrainInTime
<1>4. ASSUME UNCHANGED <<state, route, tile, index>> PROVE InTime'
  BY <1>4 DEF InTime, OffInTime
<1>5. ASSUME NEW c \in Convoys, TrainStep(c) \/ NewSchedule(c) \/ Destroy(c) PROVE InTime'
  BY <1>1, <1>2, <1>3, <1>5, HeadHopsInTime, FollowerHopsInTime, RerouteInTime DEF TrainStep
<1>6. CASE Load \/ UNCHANGED vars
  BY <1>4, <1>6 DEF Load, vars
<1>7. ASSUME NEW v \in Cars, CarEnters(v) \/ CarLeaves(v) PROVE InTime'
  BY <1>4, <1>7 DEF CarEnters, CarLeaves
<1>8. ASSUME NEW t \in Tiles, SignalRemoved(t) PROVE InTime'
  BY <1>4, <1>8 DEF SignalRemoved
<1> QED
  BY <1>5, <1>6, <1>7, <1>8 DEF Next

LEMMA InitInTime == ASSUME CrossingStandsAlone, Init PROVE InTime
  BY DEF Init, InTime, OffInTime, CrossingStandsAlone

-----------------------------------------------------------------------------
(* Trains that are sent somewhere else.                                    *)

\* Giving the route back takes back what was asked for; the vehicles stay where they are.
LEMMA RouteFreedMinds ==
    ASSUME CrossingStandsAlone, Trains, Orderly, NEW c \in Convoys, state[c] \in Standing,
           NEW q, q = RouteFreed(c)
    PROVE  Behaves(rail.crossing, q.crossing, c) /\ q.crossing.request # Engine(c)
<1>1. PICK rt, h, ts, start : /\ rt = route[c] /\ h = HeadIndex(c) /\ ts = tile[c]
                              /\ start = TailIndex(c) + 1
  OBVIOUS
<1>2. state[c] # "SELF_DESTRUCT" /\ rail \in RailType
  BY DEF Standing, States, Waiting, Trains, TypeOK
<1>3. Counts(rail.crossing, c, ts) /\ ts[1] \notin CrossingTiles /\ Awaited(rail, c, rt, h)
  BY <1>1 DEF Orderly, Crosses, HeadIndex
<1>4. Engine(c) \notin rail.crossing.way2
  BY <1>3 DEF Counts, Engine
<1>5. /\ rt \in Seq(Tiles) /\ Len(rt) \in Nat /\ h \in Nat \ {0} /\ start \in Nat \ {0}
      /\ start <= h + 1
  BY <1>1, <1>2, RollingTrain
<1>6. CASE h < Len(rt)
  <2>1. PICK all : all = TRUE
    OBVIOUS
  <2>2. PICK p : p = BlockUnreserve(rail, c, rt, start, all)
    OBVIOUS
  <2>3. q = SetLast(p, c, 0)
    BY <2>1, <2>2, <1>1, <1>6 DEF RouteFreed
  <2>4. q.crossing = p.crossing
    BY <2>3 DEF SetLast
  <2>5. all \in BOOLEAN
    BY <2>1
  <2>6. Leaves(rail, p, c, rt, start, all)
    BY <2>2, <2>5, <1>2, <1>5, BlockUnreserveLeaves
  <2>7. CASE p.crossing = ReleaseCrossing2(rail.crossing, {Engine(c)})
    <3>1. PICK V, new : V = {Engine(c)} /\ new = p.crossing
      OBVIOUS
    <3>2. V \in SUBSET ({c} \X Nat) /\ rail.crossing \in CrossingLogic(Vehicles)
      BY <3>1, <1>2 DEF Engine, RailType
    <3>3. new = ReleaseCrossing2(rail.crossing, V)
      BY <3>1, <2>7
    <3>4. /\ Minds(rail.crossing, new, c) /\ new.way2 = rail.crossing.way2 \ V
          /\ new.request = IF rail.crossing.request \in V THEN NoVehicle ELSE rail.crossing.request
      BY <3>2, <3>3, ReleaseMinds
    <3>5. new.way2 = rail.crossing.way2 /\ new.request # Engine(c)
      BY <3>1, <3>4, <1>4, EngineIsOne
    <3> QED
      BY <3>1, <3>4, <3>5, <2>4 DEF Behaves
  <2>8. CASE p.crossing # ReleaseCrossing2(rail.crossing, {Engine(c)})
    <3>1. p.crossing = rail.crossing
      BY <2>6, <2>8 DEF Leaves
    <3>2. \A x \in start .. Len(rt) : rt[x] \notin CrossingTiles
      BY <2>1, <2>6, <2>8 DEF Leaves
    <3>3. rail.crossing.request # Engine(c)
      <4>1. SUFFICES ASSUME NEW x \in h + 1 .. Len(rt), rt[x] \in CrossingTiles PROVE FALSE
        BY <1>3 DEF Awaited
      <4>2. x \in start .. Len(rt)
        BY <1>5
      <4> QED
        BY <4>1, <4>2, <3>2
    <3> QED
      BY <3>1, <3>3, <2>4, BehavesNothing
  <2> QED
    BY <2>7, <2>8
<1>7. CASE ~(h < Len(rt))
  <2>1. q = SetLast(rail, c, 0)
    BY <1>1, <1>7 DEF RouteFreed
  <2>2. q.crossing = rail.crossing
    BY <2>1 DEF SetLast
  <2>3. rail.crossing.request # Engine(c)
    BY <1>3, <1>5, <1>7 DEF Awaited
  <2> QED
    BY <2>2, <2>3, BehavesNothing
<1> QED
  BY <1>6, <1>7

LEMMA NoRouteIsOrderly ==
    ASSUME CrossingStandsAlone, SearchesSucceed, Trains, AllSecure, Orderly, NEW c \in Convoys,
           state[c] \in Standing, NEW goal \in Goals[c] \ {HeadTile(c)}, NoRoute(c, goal)
    PROVE  Orderly'
<1>1. PICK q, st, rt, ts, at : /\ q = RouteFreed(c) /\ st = "NO_ROUTE" /\ rt = <<goal>>
                               /\ ts = tile[c] /\ at = index[c]
  OBVIOUS
<1>2. state[c] # "SELF_DESTRUCT"
  BY DEF Standing, States, Waiting
<1>3. Behaves(rail.crossing, q.crossing, c) /\ q.crossing.request # Engine(c)
  BY <1>1, RouteFreedMinds
<1>4. /\ rail' = q /\ signal' = signal
      /\ state' = [state EXCEPT ![c] = st] /\ route' = [route EXCEPT ![c] = rt]
      /\ tile' = [tile EXCEPT ![c] = ts] /\ index' = [index EXCEPT ![c] = at]
  BY <1>1 DEF NoRoute, Trains, TypeOK
<1>5. Counts(rail.crossing, c, ts) /\ ts[1] \notin CrossingTiles
  BY <1>1 DEF Orderly, Crosses
<1>6. Counts(q.crossing, c, ts)
  BY <1>3, <1>5, SameCount
<1>7. Crosses(q, c, st, rt, ts, at)
  BY <1>1, <1>3, <1>5, <1>6 DEF Crosses, Driving, Awaited
<1>8. KeepsOthers(c)
  BY <1>2, NoRouteSteps
<1>9. q \in RailType
  BY <1>1, <1>2, RouteFreedDoes
<1>10. Takes(rail, q, c) /\ SameIndices(rail, q, c) /\ Minds(rail.crossing, q.crossing, c)
  BY <1>3, <1>4, <1>8 DEF KeepsOthers, Behaves
<1> QED
  BY <1>4, <1>7, <1>9, <1>10, OneTrainCrosses

\* Vehicles that are taken off the map leave the crossing.
LEMMA TakenOffMinds ==
    ASSUME Trains, NEW c \in Convoys, state[c] # "SELF_DESTRUCT", NEW r \in RailType,
           \A i \in Nat : <<c, i>> \in r.crossing.way2 => i \in DOMAIN tile[c] /\ tile[c][i] \in CrossingTiles,
           NEW q, q = TakenOff(c, r)
    PROVE  /\ Minds(r.crossing, q.crossing, c) /\ \A i \in Nat : <<c, i>> \notin q.crossing.way2
           /\ r.crossing.request # Engine(c) => q.crossing.request # Engine(c)
<1>1. PICK ts : ts = tile[c]
  OBVIOUS
<1>2. DOMAIN ts \in SUBSET Nat
  BY <1>1, RollingTrain DEF Placed, Coupling
<1>3. PICK V : V = {<<c, i>> : i \in {j \in DOMAIN ts : ts[j] \in CrossingTiles}}
  OBVIOUS
<1>4. V \in SUBSET ({c} \X Nat)
  BY <1>2, <1>3
<1>5. PICK p : p = ClearTiles(r, Own(c))
  OBVIOUS
<1>6. p \in RailType /\ p.crossing = r.crossing
  BY <1>5, ClearTilesDoes DEF OnlyTiles
<1>7. q = Release2(p, V)
  BY <1>1, <1>3, <1>5 DEF TakenOff
<1>8. q.crossing = ReleaseCrossing2(r.crossing, V) /\ r.crossing \in CrossingLogic(Vehicles)
  BY <1>6, <1>7 DEF Release2, RailType
<1>9. PICK cr, new : cr = r.crossing /\ new = q.crossing
  OBVIOUS
<1>10. /\ Minds(cr, new, c) /\ new.way2 = cr.way2 \ V
       /\ new.request = IF cr.request \in V THEN NoVehicle ELSE cr.request
  BY <1>4, <1>8, <1>9, ReleaseMinds
<1>11. \A i \in Nat : <<c, i>> \in cr.way2 => <<c, i>> \in V
  BY <1>1, <1>3, <1>9
<1> QED
  BY <1>9, <1>10, <1>11, EngineIsOne

\* A train that is somewhere in front of the crossing, and asked for nothing, sets off.
LEMMA SetOffIsOrderly ==
    ASSUME CrossingStandsAlone, Trains, Orderly, NEW c \in Convoys, NEW r \in RailType, NEW rt,
           NEW at, NEW ts, OnRoute(c, rt, ts, at), Way(rt, at[1]), at[1] < Len(rt), r.last[c] = 0,
           Takes(rail, r, c), Minds(rail.crossing, r.crossing, c), Counts(r.crossing, c, ts),
           Starts(r, c, rt, at[1]), SetOff(c, r, rt, at, ts), KeepsOthers(c)
    PROVE  Orderly'
<1>1. PICK h : h = at[1]
  OBVIOUS
<1>2. /\ Way(rt, h) /\ h < Len(rt) /\ Starts(r, c, rt, h) /\ Len(rt) \in Nat /\ h \in Nat \ {0}
      /\ \A i \in 1 .. Len(rt) : rt[i] \in Tiles
  BY <1>1, WayTiles
<1>3. PICK atBorder \in BOOLEAN : \E e \in {CanEnter(r, c, "CAN_START", rt, at[1], atBorder)} :
         /\ state' = [state EXCEPT ![c] = IF e.ok THEN "DRIVING" ELSE "CAN_START"]
         /\ rail'  = ReserveTiles(e.r, c, ToSet(ts))
         /\ route' = [route EXCEPT ![c] = rt]
         /\ tile'  = [tile EXCEPT ![c] = ts]
         /\ index' = [index EXCEPT ![c] = at]
         /\ UNCHANGED signal
  BY DEF SetOff
<1>4. PICK e : /\ e = CanEnter(r, c, "CAN_START", rt, h, atBorder)
               /\ state' = [state EXCEPT ![c] = IF e.ok THEN "DRIVING" ELSE "CAN_START"]
               /\ rail'  = ReserveTiles(e.r, c, ToSet(ts))
               /\ route' = [route EXCEPT ![c] = rt]
               /\ tile'  = [tile EXCEPT ![c] = ts]
               /\ index' = [index EXCEPT ![c] = at]
               /\ signal' = signal
  BY <1>1, <1>3
<1>5. Approaches(r, c, rt, h)
  <2>1. RoadWaits(r.crossing)
    BY DEF Minds, Orderly
  <2>2. Undisputed(r, c)
    <3>1. SUFFICES ASSUME NEW t \in CrossingTiles, r.reserved[t] = c, NEW d \in Convoys, d # c,
                          r.crossing.request = Engine(d)
                   PROVE  FALSE
      BY DEF Undisputed
    <3>2. rail.crossing.request = Engine(d)
      BY <3>1 DEF Minds
    <3>3. rail.reserved[t] = d
      BY <3>1, <3>2, AskedIsHeld
    <3>4. t \in Tiles /\ d # NoConvoy
      BY LayoutAssumption, ConvoyAssumption
    <3> QED
      BY <3>1, <3>3, <3>4 DEF Takes
  <2>3. Engine(c) \in r.crossing.way2 => rt[h] \in CrossingTiles
    <3>1. 1 \in 1 .. Wagons[c]
      BY ConvoyAssumption
    <3>2. ts[1] = rt[h]
      BY <3>1, <1>1 DEF OnRoute
    <3> QED
      BY <3>2 DEF Counts, Engine
  <2> QED
    BY <2>1, <2>2, <2>3 DEF Approaches
<1>6. SignalsLeft /\ Holds(r, c, rt, h)
  <2>1. \A i \in h + 1 .. 0 : FALSE
    BY <1>2
  <2> QED
    BY <2>1, <1>2 DEF Trains, Holds, HeldTo
<1>7. /\ Behaves(r.crossing, e.r.crossing, c) /\ e.r.crossing.request # Engine(c)
      /\ e.ok => Drives(e.r, c, rt, h)
  BY <1>2, <1>4, <1>5, <1>6, CanStartMinds
<1>8. e.r \in RailType /\ e.ok \in BOOLEAN
  <2>1. PICK st : st = "CAN_START"
    OBVIOUS
  <2>2. e = CanEnter(r, c, st, rt, h, atBorder)
    BY <2>1, <1>4
  <2>3. Does(r, e.r, c, rt, h) /\ e.ok \in BOOLEAN
    BY <2>2, <1>2, <1>6, CanEnterDoes
  <2> QED
    BY <2>3 DEF Does
<1>9. PICK p, S, q : p = e.r /\ S = ToSet(ts) /\ q = ReserveTiles(p, c, S)
  OBVIOUS
<1>10. /\ q \in RailType /\ q.last = p.last /\ q.stop = p.stop /\ q.crossing = p.crossing
       /\ \A t \in Tiles : p.reserved[t] = c => q.reserved[t] = c
  BY <1>8, <1>9, ReserveTilesDoes DEF OnlyTiles
<1>11. rail' = q
  BY <1>4, <1>9
<1>12. PICK st : st = IF e.ok THEN "DRIVING" ELSE "CAN_START"
  OBVIOUS
<1>13. state' = [state EXCEPT ![c] = st]
  BY <1>4, <1>12
<1>14. ASSUME e.ok PROVE Drives(q, c, rt, h)
  <2>1. Drives(p, c, rt, h)
    BY <1>7, <1>9, <1>14
  <2>2. \A n \in h + 1 .. Len(rt) : HeldTo(p, c, rt, h, n) => HeldTo(q, c, rt, h, n)
    <3>1. SUFFICES ASSUME NEW n \in h + 1 .. Len(rt), HeldTo(p, c, rt, h, n),
                          NEW i \in h + 1 .. n
                   PROVE  q.reserved[rt[i]] = c
      BY DEF HeldTo
    <3>2. p.reserved[rt[i]] = c
      BY <3>1 DEF HeldTo
    <3>3. i \in 1 .. Len(rt)
      BY <1>2
    <3> QED
      BY <3>2, <3>3, <1>2, <1>10
  <2>3. Comes(q, c, rt, h)
    BY <2>1, <2>2, <1>10 DEF Drives, Comes
  <2>4. Granted(q, c, rt, h) /\ Stops(q, c, rt, h)
    BY <2>1, <1>10 DEF Drives, Granted, Stops
  <2> QED
    BY <2>1, <2>3, <2>4 DEF Drives
<1>15. Starts(q, c, rt, h)
  BY <1>2, <1>7, <1>9, <1>10 DEF Starts
<1>16. Counts(q.crossing, c, ts)
  <2>1. Behaves(r.crossing, q.crossing, c)
    BY <1>7, <1>9, <1>10
  <2> QED
    BY <2>1, SameCount
<1>17. Crosses(q, c, st, rt, ts, at)
  BY <1>1, <1>12, <1>14, <1>15, <1>16 DEF Crosses, Driving, Standing, Rolling, Waiting
<1>18. Takes(rail, q, c) /\ SameIndices(rail, q, c)
  BY <1>11 DEF KeepsOthers
<1>19. Minds(rail.crossing, q.crossing, c)
  <2>1. Minds(r.crossing, q.crossing, c)
    BY <1>7, <1>9, <1>10 DEF Behaves
  <2> QED
    BY <2>1, MindsTwice
<1> QED
  BY <1>4, <1>10, <1>11, <1>13, <1>17, <1>18, <1>19, OneTrainCrosses

\* what leads along a route is as clear of the crossing as the route
LEMMA ClearAlong ==
    ASSUME CrossingStandsAlone, NEW rt \in Routes, NEW new, NEW h \in Nat \ {0},
           Along(rt, new, h), Len(new) \in Nat
    PROVE  ClearAround(new, h)
<1>1. /\ Len(new) = h - 1 + Len(rt) /\ \A p \in h .. Len(new) : new[p] = rt[p - h + 1]
      /\ Len(rt) \in Nat
  BY LayoutAssumption DEF Along
<1>2. SUFFICES ASSUME NEW p \in h + 1 .. Len(new), new[p] \in CrossingTiles
               PROVE  p < Len(new) - 1 /\ Signals[new[p - 1]] = "none"
  BY DEF ClearAround
<1>3. PICK o, i, j : o = p - 1 /\ i = p - h + 1 /\ j = i - 1
  OBVIOUS
<1>4. i \in 2 .. Len(rt) /\ p \in h .. Len(new) /\ o \in h .. Len(new) /\ j = o - h + 1
  BY <1>1, <1>3
<1>5. new[p] = rt[i] /\ new[o] = rt[j]
  <2>1. new[p] = rt[p - h + 1] /\ new[o] = rt[o - h + 1]
    BY <1>1, <1>4
  <2> QED
    BY <2>1, <1>3, <1>4
<1>6. i < Len(rt) - 1 /\ Signals[rt[i - 1]] = "none"
  BY <1>2, <1>4, <1>5 DEF CrossingStandsAlone
<1>7. p < Len(new) - 1
  BY <1>1, <1>3, <1>6
<1> QED
  BY <1>3, <1>5, <1>6, <1>7

LEMMA GoesOnIsOrderly ==
    ASSUME CrossingStandsAlone, Trains, AllSecure, Orderly, NEW c \in Convoys,
           state[c] \in Standing, NEW goal \in Goals[c], NEW rt \in RoutesTo(c, goal), GoesOn(c, rt)
    PROVE  Orderly'
<1>1. state[c] # "SELF_DESTRUCT"
  BY DEF Standing, States, Waiting
<1>2. PICK new, at : Joins(c, rt, new, at) /\ SetOff(c, RouteFreed(c), new, at, tile[c])
  BY <1>1, GoesOnAlong
<1>3. PICK r, ts, n, h : r = RouteFreed(c) /\ ts = tile[c] /\ n = Wagons[c] /\ h = at[1]
  OBVIOUS
<1>4. r \in RailType /\ Takes(rail, r, c) /\ r.last[c] = 0
  BY <1>1, <1>3, RouteFreedDoes
<1>5. Behaves(rail.crossing, r.crossing, c) /\ r.crossing.request # Engine(c)
  BY <1>3, RouteFreedMinds
<1>6. Counts(rail.crossing, c, ts) /\ ts[1] \notin CrossingTiles
  BY <1>3 DEF Orderly, Crosses
<1>7. Counts(r.crossing, c, ts) /\ Minds(rail.crossing, r.crossing, c)
  BY <1>5, <1>6, SameCount DEF Behaves
<1>8. OnRoute(c, new, ts, at) /\ Way(new, h) /\ h < Len(new) /\ Along(rt, new, h)
  BY <1>2, <1>3 DEF Joins
<1>9. h \in Nat \ {0} /\ Len(new) \in Nat
  BY <1>8, WayTiles
<1>10. rt \in Routes
  BY DEF RoutesTo
<1>11. new[h] \notin CrossingTiles
  <2>1. 1 \in 1 .. n
    BY <1>3, ConvoyAssumption
  <2> QED
    BY <2>1, <1>3, <1>6, <1>8 DEF OnRoute
<1>12. ClearAround(new, h)
  BY <1>8, <1>9, <1>10, ClearAlong
<1>13. Starts(r, c, new, at[1])
  BY <1>3, <1>5, <1>11, <1>12 DEF Starts
<1>14. KeepsOthers(c)
  BY <1>1, GoesOnSteps
<1>15. SetOff(c, r, new, at, ts) /\ Way(new, at[1]) /\ at[1] < Len(new)
  BY <1>2, <1>3, <1>8
<1> QED
  BY <1>4, <1>7, <1>8, <1>13, <1>14, <1>15, SetOffIsOrderly

LEMMA StartsAfreshIsOrderly ==
    ASSUME CrossingStandsAlone, Trains, AllSecure, Orderly, InTime, NEW c \in Convoys,
           state[c] \in Standing, NEW goal \in Goals[c], NEW rt \in RoutesTo(c, goal),
           StartsAfresh(c, rt)
    PROVE  Orderly'
<1>1. state[c] # "SELF_DESTRUCT"
  BY DEF Standing, States, Waiting
<1>0. PICK start, h :
         /\ Leads(c, start) /\ start[1] \in Own(c) /\ h \in {1, 2} /\ Along(rt, start, h)
         /\ SetOff(c, TakenOff(c, RouteFreed(c)), start,
                   [i \in 1 .. Wagons[c] |-> 1], [i \in 1 .. Wagons[c] |-> start[1]])
  BY <1>1, StartsAlong
<1>2. PICK at, ts : /\ at = [i \in 1 .. Wagons[c] |-> 1]
                    /\ ts = [i \in 1 .. Wagons[c] |-> start[1]]
                    /\ SetOff(c, TakenOff(c, RouteFreed(c)), start, at, ts)
  BY <1>0
<1>3. PICK f, r : f = RouteFreed(c) /\ r = TakenOff(c, f)
  OBVIOUS
<1>4. f \in RailType /\ Takes(rail, f, c) /\ f.last[c] = 0
  BY <1>1, <1>3, RouteFreedDoes
<1>5. Behaves(rail.crossing, f.crossing, c) /\ f.crossing.request # Engine(c)
  BY <1>3, RouteFreedMinds
<1>6. Counts(rail.crossing, c, tile[c]) /\ HeadTile(c) \notin CrossingTiles
  BY DEF Orderly, Crosses, HeadTile
<1>7. Counts(f.crossing, c, tile[c]) /\ Minds(rail.crossing, f.crossing, c)
  BY <1>5, <1>6, SameCount DEF Behaves
<1>8. /\ Minds(f.crossing, r.crossing, c) /\ \A i \in Nat : <<c, i>> \notin r.crossing.way2
      /\ r.crossing.request # Engine(c)
  BY <1>1, <1>3, <1>4, <1>5, <1>7, TakenOffMinds DEF Counts
<1>9. /\ r \in RailType /\ r.last = f.last
      /\ \A t \in Tiles : r.reserved[t] = IF t \in Own(c) THEN NoConvoy ELSE f.reserved[t]
  BY <1>3, <1>4, TakenOffDoes
<1>10. /\ start \in Seq(Tiles) /\ Len(start) > 1 /\ IsInjective(start) /\ Len(start) \in Nat
       /\ rt \in Routes /\ rt[1] = HeadTile(c) /\ start[1] \notin CrossingTiles
  <2>1. state[c] \notin Driving
    BY DEF Standing, Rolling, Driving, Waiting
  <2>2. start[1] \notin CrossingTiles
    BY <2>1, <1>0, NotOnCrossing
  <2> QED
    BY <2>2, <1>0 DEF Leads, RoutesTo
<1>11. /\ 1 \in 1 .. Wagons[c] /\ at[1] = 1 /\ DOMAIN ts = 1 .. Wagons[c]
       /\ \A i \in 1 .. Wagons[c] : at[i] = 1 /\ ts[i] = start[1]
  BY <1>2, ConvoyAssumption
<1>12. Counts(r.crossing, c, ts)
  BY <1>8, <1>10, <1>11 DEF Counts
<1>13. OnRoute(c, start, ts, at) /\ Way(start, at[1]) /\ at[1] < Len(start)
  BY <1>10, <1>11 DEF OnRoute, Way
<1>14. Starts(r, c, start, at[1])
  <2>1. ClearAround(start, h)
    BY <1>0, <1>10, ClearAlong
  <2>2. h = 2 => start[2] \notin CrossingTiles
    <3>1. SUFFICES ASSUME h = 2 PROVE start[2] = HeadTile(c)
      BY <1>6
    <3>2. 2 \in h .. Len(start) /\ 2 - h + 1 = 1
      BY <3>1, <1>10
    <3> QED
      BY <3>2, <1>0, <1>10 DEF Along
  <2>3. ClearAround(start, 1)
    <3>1. SUFFICES ASSUME NEW p \in 2 .. Len(start), start[p] \in CrossingTiles
                   PROVE  p < Len(start) - 1 /\ Signals[start[p - 1]] = "none"
      BY DEF ClearAround
    <3>2. p \in h + 1 .. Len(start)
      BY <3>1, <2>2, <1>0, <1>10
    <3> QED
      BY <3>1, <3>2, <2>1 DEF ClearAround
  <2> QED
    BY <2>3, <1>8, <1>10, <1>11 DEF Starts
<1>15. Takes(rail, r, c)
  <2>1. \A t \in Own(c) : rail.reserved[t] = c
    <3>1. \A i \in 1 .. Wagons[c] : rail.reserved[tile[c][i]] = c
      BY <1>1 DEF AllSecure, Secure
    <3>2. DOMAIN tile[c] = 1 .. Wagons[c]
      BY <1>1, RollingTrain DEF Placed, Coupling
    <3> QED
      BY <3>1, <3>2 DEF Own
  <2> QED
    BY <2>1, <1>4, <1>9 DEF Takes
<1>16. KeepsOthers(c)
  BY <1>1, StartsAfreshSteps
<1>17. Minds(rail.crossing, r.crossing, c)
  BY <1>7, <1>8, MindsTwice
<1>18. SetOff(c, r, start, at, ts) /\ r.last[c] = 0
  BY <1>2, <1>3, <1>4, <1>9
<1> QED
  BY <1>9, <1>12, <1>13, <1>14, <1>15, <1>16, <1>17, <1>18, SetOffIsOrderly

LEMMA RerouteIsOrderly ==
    ASSUME CrossingStandsAlone, SearchesSucceed, Trains, AllSecure, Orderly, InTime,
           NEW c \in Convoys, Reroute(c)
    PROVE  Orderly'
<1>1. state[c] \in Standing
  BY DEF Reroute, Standing, States, Rolling, Waiting
<1>2. PICK goal \in Goals[c] \ {HeadTile(c)} :
         \/ NoRoute(c, goal)
         \/ \E rt \in RoutesTo(c, goal) : GoesOn(c, rt) \/ StartsAfresh(c, rt)
  BY DEF Reroute
<1>3. CASE NoRoute(c, goal)
  BY <1>1, <1>3, NoRouteIsOrderly
<1>4. ASSUME NEW rt \in RoutesTo(c, goal), GoesOn(c, rt) PROVE Orderly'
  BY <1>1, <1>4, GoesOnIsOrderly
<1>5. ASSUME NEW rt \in RoutesTo(c, goal), StartsAfresh(c, rt) PROVE Orderly'
  BY <1>1, <1>5, StartsAfreshIsOrderly
<1> QED
  BY <1>2, <1>3, <1>4, <1>5

-----------------------------------------------------------------------------
(* Trains that are sold.                                                   *)

\* A train gives up what it asked for before it is taken off the map.
LEMMA GivesUp ==
    ASSUME Trains, AllSecure, Orderly, NEW c \in Convoys, state[c] # "SELF_DESTRUCT",
           NEW start, start = TailIndex(c) + 1, NEW all, all = FALSE,
           NEW f, f = IF HeadIndex(c) + 1 < Len(route[c]) - 1
                      THEN BlockUnreserve(rail, c, route[c], start, all) ELSE rail
    PROVE  /\ Minds(rail.crossing, f.crossing, c) /\ f.crossing.way2 \subseteq rail.crossing.way2
           /\ f.crossing.request # Engine(c)
<1>1. PICK rt, h, ts, at, n : /\ rt = route[c] /\ h = HeadIndex(c) /\ ts = tile[c] /\ at = index[c]
                              /\ n = Wagons[c]
  OBVIOUS
<1>2. /\ rt \in Seq(Tiles) /\ Len(rt) \in Nat /\ h \in Nat \ {0} /\ start \in Nat \ {0}
      /\ n \in Nat \ {0} /\ h = at[1] /\ start = at[n] + 1 /\ start <= h + 1
      /\ Placed(c, state[c], rt, ts, at) /\ rail \in RailType
  <2>1. h = at[1] /\ start = at[n] + 1 /\ rail \in RailType
    BY <1>1 DEF Trains, TypeOK, HeadIndex, TailIndex
  <2>2. /\ route[c] \in Seq(Tiles) /\ Len(route[c]) \in Nat \ {0} /\ Wagons[c] \in Nat \ {0}
        /\ HeadIndex(c) \in Nat \ {0} /\ TailIndex(c) \in Nat \ {0}
        /\ TailIndex(c) <= HeadIndex(c)
        /\ Placed(c, state[c], route[c], tile[c], index[c])
    BY RollingTrain
  <2>3. start = TailIndex(c) + 1 /\ start \in Nat \ {0} /\ start <= h + 1
    BY <1>1, <2>2
  <2>4. Placed(c, state[c], rt, ts, at)
    BY <1>1, <2>2
  <2> QED
    BY <2>1, <2>2, <2>3, <2>4, <1>1
<1>3. Awaited(rail, c, rt, h)
  BY <1>1, AllAwaited
<1>4. CASE h + 1 < Len(rt) - 1
  <2>1. f = BlockUnreserve(rail, c, rt, start, all) /\ all \in BOOLEAN
    BY <1>1, <1>4
  <2>2. Leaves(rail, f, c, rt, start, all)
    BY <2>1, <1>2, BlockUnreserveLeaves
  <2>3. CASE f.crossing = ReleaseCrossing2(rail.crossing, {Engine(c)})
    <3>1. PICK V, new : V = {Engine(c)} /\ new = f.crossing
      OBVIOUS
    <3>2. V \in SUBSET ({c} \X Nat) /\ rail.crossing \in CrossingLogic(Vehicles)
      BY <3>1, <1>2 DEF Engine, RailType
    <3>3. new = ReleaseCrossing2(rail.crossing, V)
      BY <3>1, <2>3
    <3>4. /\ Minds(rail.crossing, new, c) /\ new.way2 = rail.crossing.way2 \ V
          /\ new.request = IF rail.crossing.request \in V THEN NoVehicle ELSE rail.crossing.request
      BY <3>2, <3>3, ReleaseMinds
    <3> QED
      BY <3>1, <3>4, EngineIsOne
  <2>4. CASE f.crossing # ReleaseCrossing2(rail.crossing, {Engine(c)})
    <3>1. f.crossing = rail.crossing
      BY <2>2, <2>4 DEF Leaves
    <3>2. rail.crossing.request # Engine(c)
      <4>1. SUFFICES ASSUME NEW p \in h + 1 .. Len(rt), rt[p] \in CrossingTiles,
                            HeldTo(rail, c, rt, h, p)
                     PROVE  FALSE
        BY <1>3 DEF Awaited
      <4>2. ASSUME NEW i \in start .. p PROVE rail.reserved[rt[i]] = c
        <5>1. CASE i \in h + 1 .. p
          BY <5>1, <4>1 DEF HeldTo
        <5>2. CASE i \notin h + 1 .. p
          <6>1. i \in at[n] .. at[1]
            <7>1. at[n] \in Nat
              BY <1>1, <1>2, RollingTrain DEF TailIndex
            <7> QED
              BY <7>1, <5>2, <4>1, <1>2
          <6>2. Coupled(n, at)
            BY <1>1, <1>2 DEF Placed, Coupling
          <6>3. PICK j \in 1 .. n : at[j] = i
            BY <6>1, <6>2, <1>2, CoupledCover
          <6>4. ts[j] = rt[i]
            <7>1. PICK l : l = Len(rt)
              OBVIOUS
            <7>2. l \in Nat /\ h + 1 < l - 1 /\ h \in Nat
              BY <7>1, <1>2, <1>4
            <7>3. Len(rt) # 1
              BY <7>1, <7>2
            <7>4. OnRoute(c, rt, ts, at)
              BY <7>3, <1>2 DEF Placed
            <7> QED
              BY <7>4, <6>3, <1>1 DEF OnRoute
          <6>5. rail.reserved[ts[j]] = c
            BY <6>3, <1>1 DEF AllSecure, Secure
          <6> QED
            BY <6>4, <6>5
        <5> QED
          BY <5>1, <5>2
      <4>3. p \in start .. Len(rt)
        BY <4>1, <1>2
      <4> QED
        BY <4>1, <4>2, <4>3, <2>2, <2>4 DEF Leaves
    <3> QED
      BY <3>1, <3>2, MindsNothing
  <2> QED
    BY <2>3, <2>4
<1>5. CASE ~(h + 1 < Len(rt) - 1)
  <2>1. f = rail
    BY <1>1, <1>5
  <2>2. rail.crossing.request # Engine(c)
    <3>1. SUFFICES ASSUME NEW p \in h + 1 .. Len(rt), p < Len(rt) - 1 PROVE FALSE
      BY <1>3 DEF Awaited
    <3> QED
      BY <3>1, <1>2, <1>5
  <2> QED
    BY <2>1, <2>2, MindsNothing
<1> QED
  BY <1>4, <1>5

LEMMA DestroyIsOrderly ==
    ASSUME Trains, AllSecure, Orderly, NEW c \in Convoys, Destroy(c)
    PROVE  Orderly'
<1>1. PICK st, rt, ts, at : st = "SELF_DESTRUCT" /\ rt = <<>> /\ ts = <<>> /\ at = <<>>
  OBVIOUS
<1>2. /\ state' = [state EXCEPT ![c] = st] /\ route' = [route EXCEPT ![c] = rt]
      /\ tile' = [tile EXCEPT ![c] = ts] /\ index' = [index EXCEPT ![c] = at]
      /\ signal' = signal /\ rail' = Destroyed(c)
  BY <1>1 DEF Destroy
<1>3. state[c] # "SELF_DESTRUCT" /\ rail \in RailType
  BY DEF Destroy, States, Waiting, Trains, TypeOK
<1>4. PICK start, all : start = TailIndex(c) + 1 /\ all = FALSE
  OBVIOUS
<1>5. PICK f : f = IF HeadIndex(c) + 1 < Len(route[c]) - 1
                   THEN BlockUnreserve(rail, c, route[c], start, all) ELSE rail
  OBVIOUS
<1>6. /\ Minds(rail.crossing, f.crossing, c) /\ f.crossing.way2 \subseteq rail.crossing.way2
      /\ f.crossing.request # Engine(c)
  BY <1>3, <1>4, <1>5, GivesUp
<1>7. f \in RailType
  <2>1. CASE HeadIndex(c) + 1 < Len(route[c]) - 1
    <3>1. f = BlockUnreserve(rail, c, route[c], start, all)
      BY <2>1, <1>5
    <3>2. start \in Nat \ {0} /\ Len(route[c]) > 0 /\ route[c] \in Seq(Tiles)
      BY <1>3, <1>4, RollingTrain
    <3>3. all \in BOOLEAN
      BY <1>4
    <3>4. Frees(rail, f, c, route[c], start)
      BY <3>1, <3>2, <3>3, <1>3, BlockUnreserveDoes
    <3> QED
      BY <3>4 DEF Frees
  <2>2. CASE ~(HeadIndex(c) + 1 < Len(route[c]) - 1)
    BY <2>2, <1>3, <1>5
  <2> QED
    BY <2>1, <2>2
<1>8. PICK o, g, k, q : /\ o = TakenOff(c, f) /\ g = FreeTiles(o, c, Tiles)
                        /\ k = SetLast(g, c, 0) /\ q = SetStop(k, c, 0)
  OBVIOUS
<1>9. rail' = q
  BY <1>2, <1>4, <1>5, <1>8 DEF Destroyed
<1>10. /\ Minds(f.crossing, o.crossing, c) /\ \A i \in Nat : <<c, i>> \notin o.crossing.way2
       /\ o.crossing.request # Engine(c)
  <2>1. Counts(rail.crossing, c, tile[c])
    BY DEF Orderly, Crosses
  <2>2. \A i \in Nat : <<c, i>> \in f.crossing.way2 =>
           i \in DOMAIN tile[c] /\ tile[c][i] \in CrossingTiles
    BY <2>1, <1>6 DEF Counts
  <2> QED
    BY <2>2, <1>3, <1>6, <1>7, <1>8, TakenOffMinds
<1>11. q.crossing = o.crossing
  <2>1. g.crossing = o.crossing
    BY <1>8 DEF FreeTiles
  <2>2. k.crossing = g.crossing
    BY <1>8 DEF SetLast
  <2>3. q.crossing = k.crossing
    BY <1>8 DEF SetStop
  <2> QED
    BY <2>1, <2>2, <2>3
<1>12. KeepsOthers(c) /\ q \in RailType
  <2>1. AllSecure /\ Trains' /\ (AllSecure => KeepsOthers(c))
    BY DestroySteps
  <2> QED
    BY <2>1, <1>9 DEF Trains, TypeOK
<1>13. Takes(rail, q, c) /\ SameIndices(rail, q, c)
  BY <1>9, <1>12 DEF KeepsOthers
<1>14. Crosses(q, c, st, rt, ts, at)
  BY <1>1, <1>10, <1>11 DEF Crosses, Counts, Driving, Standing, States, Waiting
<1>15. Minds(rail.crossing, q.crossing, c)
  BY <1>6, <1>10, <1>11, MindsTwice
<1> QED
  BY <1>2, <1>9, <1>12, <1>13, <1>14, <1>15, OneTrainCrosses

-----------------------------------------------------------------------------
(* Games that are loaded.                                                  *)

\* nobody asked, and the trains are in order
Rests(r) ==
    /\ r \in RailType /\ RoadWaits(r.crossing) /\ r.crossing.request = NoVehicle
    /\ \A d \in Convoys : Crosses(r, d, state[d], route[d], tile[d], index[d])

\* A train that drove and lost its reservations finds its next stop again.
LEMMA RenewedDrives ==
    ASSUME NEW c \in Convoys, NEW r \in RailType, NEW rt, NEW h, Way(rt, h), Drives(r, c, rt, h),
           r.last[c] = 0, r.stop[c] = h, r.crossing.request = NoVehicle,
           NEW q, q = GoUpTo(BlockReserve(r, c, rt, rt[h], h), c, rt).r
    PROVE  /\ Drives(q, c, rt, h) /\ q.crossing = r.crossing
           /\ q \in RailType /\ Takes(r, q, c) /\ SameIndices(r, q, c)
<1>1. PICK s, e : s = h /\ e = GoUpTo(BlockReserve(r, c, rt, rt[h], h), c, rt)
  OBVIOUS
<1>2. Len(rt) \in Nat /\ h \in Nat \ {0} /\ h <= Len(rt)
  BY WayTiles
<1>3. s \in h .. Len(rt) /\ (h = s + 1 \/ (h = h /\ s = h))
  BY <1>1, <1>2
<1>4. Cleared(r, e, c, rt, h, s)
  BY <1>1, <1>3, GoOnDoes
<1>5. Heeds(r, e, c, rt, s) /\ e.r.crossing = r.crossing
  BY <1>1, <1>3, GoOnHeeds
<1>6. q = e.r
  BY <1>1
<1>7. q \in RailType /\ Takes(r, q, c) /\ SameIndices(r, q, c)
  BY <1>4, <1>6 DEF Cleared, Does
<1>8. Comes(q, c, rt, h)
  BY <1>5, <1>6, EngineIsOne DEF Comes
<1>9. PICK n, last : n = q.stop[c] /\ last = q.last[c]
  OBVIOUS
<1>10. n \in Nat /\ last \in Nat
  BY <1>7, <1>9 DEF RailType
<1>11. CASE e.ok
  <2>1. /\ \/ n = 0 \/ n = Len(rt) - 1
           \/ n \in h + 1 .. Len(rt) /\ (signal[rt[n]] # "none" \/ rt[n] \in CrossingTiles)
        /\ \A p \in h + 1 .. Len(rt) : rt[p] \in CrossingTiles => n # 0 /\ n <= p
    BY <1>1, <1>5, <1>6, <1>9, <1>11 DEF Heeds, StopAhead
  <2>2. last # 0
    BY <1>1, <1>2, <1>4, <1>6, <1>9, <1>11 DEF Cleared
  <2>3. Granted(q, c, rt, h)
    <3>1. SUFFICES ASSUME NEW p \in h + 1 .. Len(rt), rt[p] \in CrossingTiles PROVE ~(n = 0 \/ p < n)
      BY <1>9 DEF Granted
    <3> QED
      BY <3>1, <2>1, <1>2, <1>10
  <2>4. Stops(q, c, rt, h)
    <3>1. \/ n = 0 \/ n = Len(rt) - 1
          \/ n \in h .. Len(rt) /\ signal[rt[n]] # "none"
          \/ n \in h + 1 .. Len(rt) /\ rt[n] \in CrossingTiles
      BY <2>1, <1>2
    <3> QED
      BY <3>1, <2>2, <1>9 DEF Stops
  <2> QED
    BY <2>3, <2>4, <1>5, <1>6, <1>7, <1>8 DEF Drives
<1>12. CASE ~e.ok
  <2>1. n = h
    BY <1>4, <1>6, <1>9, <1>12 DEF Cleared
  <2>2. signal[rt[h]] # "none"
    BY DEF Drives, Stops
  <2>3. Granted(q, c, rt, h)
    <3>1. SUFFICES ASSUME NEW p \in h + 1 .. Len(rt) PROVE ~(n = 0 \/ p < n)
      BY <1>9 DEF Granted
    <3> QED
      BY <3>1, <2>1, <1>2
  <2>4. Stops(q, c, rt, h)
    <3>1. h \in h .. Len(rt)
      BY <1>2
    <3> QED
      BY <3>1, <2>1, <2>2, <1>9 DEF Stops
  <2> QED
    BY <2>3, <2>4, <1>5, <1>6, <1>7, <1>8 DEF Drives
<1> QED
  BY <1>11, <1>12

LEMMA RenewedRests ==
    ASSUME Trains, NEW c \in Convoys, NEW r, Rests(r), NEW q, q = Renewed(r, c)
    PROVE  Rests(q)
<1>1. r \in RailType /\ Crosses(r, c, state[c], route[c], tile[c], index[c])
  BY DEF Rests
<1>2. CASE state[c] = "SELF_DESTRUCT" \/ r.last[c] # 0
  <2>1. q = r
    BY <1>2 DEF Renewed
  <2> QED
    BY <2>1
<1>3. CASE state[c] # "SELF_DESTRUCT" /\ r.last[c] = 0
  <2>1. PICK st, rt, ts, at, h : /\ st = state[c] /\ rt = route[c] /\ ts = tile[c]
                                 /\ at = index[c] /\ h = HeadIndex(c)
    OBVIOUS
  <2>2. h \in Nat /\ h = at[1] /\ Crosses(r, c, st, rt, ts, at)
    BY <1>1, <1>3, <2>1, RollingTrain DEF HeadIndex
  <2>3. PICK p : p = SetStop(r, c, h)
    OBVIOUS
  <2>4. /\ p \in RailType /\ p.stop[c] = h /\ p.last = r.last /\ p.reserved = r.reserved
        /\ p.crossing = r.crossing /\ Takes(r, p, c) /\ SameIndices(r, p, c)
    <3>1. /\ Does(r, p, c, rt, h) /\ p.stop[c] = h /\ p.last = r.last /\ p.reserved = r.reserved
          /\ p.crossing = r.crossing
      BY <1>1, <2>2, <2>3, SetStopDoes
    <3> QED
      BY <3>1 DEF Does
  <2>5. ASSUME st \in Driving PROVE Drives(p, c, rt, h)
    <3>1. Drives(r, c, rt, h) /\ r.stop[c] = h
      BY <1>3, <2>2, <2>5 DEF Crosses, Drives, Stops
    <3> QED
      BY <3>1, <2>4 DEF Drives, Comes, HeldTo, Granted, Stops
  <2>6. /\ q \in RailType /\ q.crossing = r.crossing /\ Takes(r, q, c) /\ SameIndices(r, q, c)
        /\ st \in Driving => Drives(q, c, rt, h)
    <3>1. CASE st # "DRIVING"
      <4>1. q = p
        BY <1>3, <2>1, <2>3, <3>1 DEF Renewed
      <4> QED
        BY <4>1, <2>4, <2>5
    <3>2. CASE st = "DRIVING"
      <4>1. Way(rt, h) /\ rt[h] = HeadTile(c)
        BY <1>3, <2>1, <3>2, RollingTrain DEF Rolling
      <4>2. q = GoUpTo(BlockReserve(p, c, rt, rt[h], h), c, rt).r
        BY <1>3, <2>1, <2>3, <3>2, <4>1 DEF Renewed
      <4>3. /\ Drives(p, c, rt, h) /\ p.last[c] = 0 /\ p.crossing.request = NoVehicle
            /\ p \in RailType /\ p.stop[c] = h /\ Way(rt, h)
        BY <1>3, <2>4, <2>5, <3>2, <4>1 DEF Driving, Rests
      <4>4. /\ Drives(q, c, rt, h) /\ q.crossing = p.crossing
            /\ q \in RailType /\ Takes(p, q, c) /\ SameIndices(p, q, c)
        BY <4>2, <4>3, RenewedDrives
      <4>5. Takes(r, q, c) /\ SameIndices(r, q, c)
        BY <4>4, <2>4 DEF Takes, SameIndices
      <4> QED
        BY <4>4, <4>5, <2>4
    <3> QED
      BY <3>1, <3>2
  <2>7. Crosses(q, c, st, rt, ts, at)
    <3>1. Awaited(q, c, rt, h)
      BY <2>6, EngineIsOne DEF Awaited, Rests
    <3> QED
      BY <3>1, <2>2, <2>6 DEF Crosses, Starts
  <2>8. ASSUME NEW d \in Convoys, d # c
        PROVE  Crosses(q, d, state[d], route[d], tile[d], index[d])
    <3>1. Minds(r.crossing, q.crossing, c)
      BY <2>6, MindsNothing
    <3>2. Crosses(r, d, state[d], route[d], tile[d], index[d])
      BY DEF Rests
    <3> QED
      BY <3>1, <3>2, <2>6, <2>8, <1>1, OtherCrosses
  <2> QED
    BY <2>1, <2>6, <2>7, <2>8 DEF Rests
<1> QED
  BY <1>2, <1>3

LEMMA LoadsRests ==
    ASSUME Trains, Orderly, rail.crossing.request = NoVehicle, NEW r, Loads(r)
    PROVE  Rests(r)
<1>1. /\ r \in RailType /\ r.last = rail.last /\ r.stop = rail.stop
      /\ r.crossing = RecalcState(rail.crossing, OnCrossing)
      /\ rail.crossing \in CrossingLogic(Vehicles)
  BY DEF Loads, Trains, TypeOK, RailType
<1>2. /\ r.crossing.way2 = OnCrossing /\ r.crossing.way1 = rail.crossing.way1
      /\ r.crossing.request = NoVehicle
  BY <1>1 DEF RecalcState, CrossingLogic
<1>3. \A c \in Convoys : Counts(rail.crossing, c, tile[c]) /\ DOMAIN tile[c] \in SUBSET Nat
  BY DEF Orderly, Crosses, Trains, TypeOK
<1>4. RoadWaits(r.crossing)
  <2>1. OnCrossing \subseteq rail.crossing.way2
    <3>1. SUFFICES ASSUME NEW v \in OnCrossing PROVE v \in rail.crossing.way2
      OBVIOUS
    <3>2. PICK c, i : c = v[1] /\ i = v[2]
      OBVIOUS
    <3>3. c \in Convoys /\ i \in DOMAIN tile[c] /\ tile[c][i] \in CrossingTiles /\ v = <<c, i>>
      BY <3>2 DEF OnCrossing
    <3> QED
      BY <3>3, <1>3 DEF Counts
  <2> QED
    BY <2>1, <1>2 DEF RoadWaits, Orderly
<1>5. ASSUME NEW c \in Convoys PROVE Crosses(r, c, state[c], route[c], tile[c], index[c])
  <2>1. PICK st, rt, ts, at, h : /\ st = state[c] /\ rt = route[c] /\ ts = tile[c]
                                 /\ at = index[c] /\ h = at[1]
    OBVIOUS
  <2>2. Crosses(rail, c, st, rt, ts, at)
    BY <2>1 DEF Orderly
  <2>3. Counts(r.crossing, c, ts)
    <3>1. SUFFICES ASSUME NEW i \in Nat
                   PROVE  <<c, i>> \in OnCrossing <=> i \in DOMAIN ts /\ ts[i] \in CrossingTiles
      BY <1>2 DEF Counts
    <3>2. <<c, i>>[1] = c /\ <<c, i>>[2] = i
      OBVIOUS
    <3>3. i \in DOMAIN ts => <<c, i>> \in Convoys \X UNION {DOMAIN tile[d] : d \in Convoys}
      BY <2>1
    <3> QED
      BY <3>2, <3>3, <2>1 DEF OnCrossing
  <2>4. r.crossing.request # Engine(c) /\ rail.crossing.request # Engine(c)
    BY <1>2, EngineIsOne
  <2>5. Comes(r, c, rt, h) /\ Awaited(r, c, rt, h)
    BY <2>4 DEF Comes, Awaited
  <2>6. st \in Driving => Drives(r, c, rt, h)
    <3>1. SUFFICES ASSUME Drives(rail, c, rt, h) PROVE Drives(r, c, rt, h)
      BY <2>1, <2>2 DEF Crosses
    <3>2. Granted(r, c, rt, h)
      BY <3>1, <2>4, <1>1 DEF Drives, Granted
    <3>3. Stops(r, c, rt, h)
      BY <3>1, <1>1 DEF Drives, Stops
    <3> QED
      BY <3>1, <3>2, <3>3, <2>5 DEF Drives
  <2>7. st = "CAN_START" => Starts(r, c, rt, h)
    BY <2>1, <2>2, <2>4 DEF Crosses, Starts
  <2> QED
    BY <2>1, <2>2, <2>3, <2>4, <2>5, <2>6, <2>7 DEF Crosses
<1> QED
  BY <1>1, <1>2, <1>4, <1>5 DEF Rests

LEMMA LoadIsOrderly ==
    ASSUME AnyTime = FALSE, Trains, Orderly, Load
    PROVE  Orderly'
<1>1. PICK loaded : Loads(loaded) /\ rail' = Finished(loaded)
  BY LoadIs
<1>2. rail.crossing.request = NoVehicle
  BY DEF Load
<1>3. Rests(loaded)
  BY <1>1, <1>2, LoadsRests
<1>4. PICK Good : Good = {r \in RailType : Rests(r)}
  OBVIOUS
<1>5. loaded \in Good
  BY <1>3, <1>4 DEF Rests
<1>6. ASSUME NEW r \in Good, NEW c \in Convoys PROVE Renewed(r, c) \in Good
  <2>1. PICK o : o = Renewed(r, c)
    OBVIOUS
  <2>2. Rests(o)
    BY <2>1, <1>4, RenewedRests
  <2> QED
    BY <2>1, <2>2, <1>4 DEF Rests
<1>7. PICK q : q = Finished(loaded)
  OBVIOUS
<1>8. Rests(q)
  BY <1>4, <1>5, <1>6, <1>7, FinishedStaysIn
<1>9. \A d \in Convoys : Crosses(q, d, state'[d], route'[d], tile'[d], index'[d])
  BY <1>8, LoadIs DEF Rests
<1>10. RoadWaits(q.crossing) /\ signal' = signal
  BY <1>8, LoadIs DEF Rests
<1>11. rail' = q
  BY <1>1, <1>7
<1> QED
  BY <1>9, <1>10, <1>11, OrderlyAfter

-----------------------------------------------------------------------------
(* Cars, signals, and every step.                                          *)

\* Cars do not count for the trains.
LEMMA SameForTrains ==
    ASSUME NEW r, NEW q, NEW c, NEW st, NEW rt, NEW ts, NEW at, Crosses(r, c, st, rt, ts, at),
           q.last = r.last, q.stop = r.stop, q.reserved = r.reserved,
           q.crossing.way2 = r.crossing.way2, q.crossing.request = r.crossing.request
    PROVE  Crosses(q, c, st, rt, ts, at)
<1>1. Drives(r, c, rt, at[1]) => Drives(q, c, rt, at[1])
  BY DEF Drives, Comes, HeldTo, Granted, Stops
<1>2. Awaited(r, c, rt, at[1]) => Awaited(q, c, rt, at[1])
  BY DEF Awaited, HeldTo
<1> QED
  BY <1>1, <1>2 DEF Crosses, Counts, Starts

LEMMA CarIsOrderly ==
    ASSUME Trains, Orderly, NEW v \in Cars, CarEnters(v) \/ CarLeaves(v)
    PROVE  Orderly'
<1>1. rail \in RailType /\ rail.crossing \in CrossingLogic(Vehicles) /\ RoadWaits(rail.crossing)
  BY DEF Trains, TypeOK, RailType, Orderly
<1>2. PICK cr : /\ \/ cr = AddToCrossing1(rail.crossing, v) /\ CarEnters(v)
                   \/ cr = ReleaseCrossing1(rail.crossing, v) /\ CarLeaves(v)
                /\ rail' = [rail EXCEPT !.crossing = cr]
                /\ UNCHANGED <<signal, state, route, tile, index>>
  BY DEF CarEnters, CarLeaves
<1>3. RoadWaits(cr) /\ cr.way2 = rail.crossing.way2 /\ cr.request = rail.crossing.request
  <2>1. CASE cr = AddToCrossing1(rail.crossing, v) /\ CarEnters(v)
    <3>1. cr.way2 = rail.crossing.way2 /\ cr.request = rail.crossing.request
      BY <2>1, <1>1 DEF AddToCrossing1, CrossingLogic
    <3>2. rail.crossing.way2 = {} /\ rail.crossing.state = "open"
      BY <2>1 DEF CarEnters, MayCross1
    <3> QED
      BY <3>1, <3>2, <1>1 DEF RoadWaits
  <2>2. CASE cr = ReleaseCrossing1(rail.crossing, v) /\ CarLeaves(v)
    <3>1. /\ cr.way2 = rail.crossing.way2 /\ cr.request = rail.crossing.request
          /\ cr.way1 = rail.crossing.way1 \ {v}
      BY <2>2, <1>1 DEF ReleaseCrossing1, CrossingLogic
    <3>2. rail.crossing.way1 # {}
      BY <2>2 DEF CarLeaves
    <3> QED
      BY <3>1, <3>2, <1>1 DEF RoadWaits
  <2> QED
    BY <1>2, <2>1, <2>2
<1>4. PICK q : q = [rail EXCEPT !.crossing = cr]
  OBVIOUS
<1>5. q.last = rail.last /\ q.stop = rail.stop /\ q.reserved = rail.reserved /\ q.crossing = cr
  BY <1>1, <1>4 DEF RailType
<1>6. \A d \in Convoys : Crosses(q, d, state[d], route[d], tile[d], index[d])
  BY <1>3, <1>5, SameForTrains DEF Orderly
<1>7. \A d \in Convoys : Crosses(q, d, state'[d], route'[d], tile'[d], index'[d])
  BY <1>2, <1>6
<1>8. rail' = q /\ signal' = signal
  BY <1>2, <1>4
<1>9. RoadWaits(q.crossing)
  BY <1>3, <1>5
<1> QED
  BY <1>7, <1>8, <1>9, OrderlyAfter

LEMMA SignalIsOrderly ==
    ASSUME AnyTime = FALSE, Trains, Orderly, NEW t \in Tiles, SignalRemoved(t)
    PROVE  Orderly'
<1>1. /\ signal' = [signal EXCEPT ![t] = "none"] /\ UNCHANGED <<state, route, tile, index, rail>>
      /\ \A c \in Convoys : \A i \in DOMAIN route[c] : route[c][i] = t => rail.stop[c] # i
      /\ signal \in [Tiles -> {"none", "normal", "pre"}]
  BY DEF SignalRemoved, Trains, TypeOK
<1>2. ASSUME NEW c \in Convoys, state[c] \in Driving, Drives(rail, c, route[c], index[c][1])
      PROVE  Drives(rail, c, route[c], index[c][1])'
  <2>1. PICK rt, h, n : rt = route[c] /\ h = index[c][1] /\ n = rail.stop[c]
    OBVIOUS
  <2>2. Way(rt, h)
    <3>1. state[c] # "SELF_DESTRUCT" /\ state[c] \in Rolling
      BY <1>2 DEF Driving, Rolling, Waiting
    <3> QED
      BY <3>1, <2>1, RollingTrain DEF HeadIndex
  <2>3. /\ Len(rt) \in Nat /\ h \in Nat \ {0} /\ h <= Len(rt) /\ DOMAIN rt = 1 .. Len(rt)
        /\ \A i \in 1 .. Len(rt) : rt[i] \in Tiles
    BY <2>2, WayTiles DEF Way
  <2>4. \A i \in 1 .. Len(rt) : i = n => signal'[rt[i]] = signal[rt[i]]
    BY <2>1, <2>3, <1>1
  <2>5. /\ h < Len(rt) => \/ n = 0 \/ n = Len(rt) - 1
                          \/ n \in h .. Len(rt) /\ signal[rt[n]] # "none"
                          \/ n \in h + 1 .. Len(rt) /\ rt[n] \in CrossingTiles
        /\ rail.last[c] = 0 => n = h /\ signal[rt[h]] # "none"
    BY <2>1, <1>2 DEF Drives, Stops
  <2>6. /\ h < Len(rt) => \/ n = 0 \/ n = Len(rt) - 1
                          \/ n \in h .. Len(rt) /\ signal'[rt[n]] # "none"
                          \/ n \in h + 1 .. Len(rt) /\ rt[n] \in CrossingTiles
        /\ rail.last[c] = 0 => n = h /\ signal'[rt[h]] # "none"
    <3>1. n \in h .. Len(rt) => signal'[rt[n]] = signal[rt[n]]
      BY <2>3, <2>4
    <3>2. h \in h .. Len(rt)
      BY <2>3
    <3> QED
      BY <2>5, <3>1, <3>2
  <2>7. /\ ClearAround(rt, h) /\ (rt[h] \in CrossingTiles => h < Len(rt) - 1)
        /\ Comes(rail, c, rt, h) /\ Granted(rail, c, rt, h)
    BY <2>1, <1>2 DEF Drives
  <2>8. Stops(rail, c, route[c], index[c][1])'
    BY <2>1, <2>6, <1>1 DEF Stops
  <2> QED
    BY <2>1, <2>7, <2>8, <1>1 DEF Drives, ClearAround, Comes, HeldTo, Granted
<1>3. ASSUME NEW c \in Convoys
      PROVE  Crosses(rail, c, state[c], route[c], tile[c], index[c])'
  <2>1. Crosses(rail, c, state[c], route[c], tile[c], index[c])
    BY DEF Orderly
  <2>2. state'[c] \in Driving => Drives(rail, c, route[c], index[c][1])'
    BY <2>1, <1>1, <1>2 DEF Crosses
  <2> QED
    BY <2>1, <2>2, <1>1 DEF Crosses, Counts, Starts, ClearAround, Awaited, HeldTo
<1>4. RoadWaits(rail.crossing)'
  BY <1>1 DEF Orderly, RoadWaits
<1> QED
  BY <1>3, <1>4 DEF Orderly

LEMMA StutteringIsOrderly == ASSUME Orderly, UNCHANGED vars PROVE Orderly'
  BY DEF vars, Orderly, RoadWaits, Crosses, Counts, Starts, Drives, ClearAround, Comes, HeldTo,
       Granted, Stops, Awaited

LEMMA InitIsOrderly == ASSUME CrossingStandsAlone, Init PROVE Orderly
<1>1. rail.crossing = NewCrossing /\ NoVehicle = NewCrossing.request
  BY DEF Init, NewCrossing
<1>2. /\ rail.crossing.way2 = {} /\ rail.crossing.request = NoVehicle
      /\ \A c \in Convoys : rail.crossing.request # Engine(c)
  BY <1>1, EngineIsOne DEF NewCrossing
<1>3. RoadWaits(rail.crossing)
  BY <1>2 DEF RoadWaits
<1>4. ASSUME NEW c \in Convoys PROVE Crosses(rail, c, state[c], route[c], tile[c], index[c])
  <2>1. /\ state[c] = "LOADING" /\ Wagons[c] \in Nat \ {0} /\ DOMAIN tile[c] = 1 .. Wagons[c]
        /\ \A i \in 1 .. Wagons[c] : tile[c][i] \notin CrossingTiles
    BY ConvoyAssumption DEF Init, CrossingStandsAlone
  <2>2. Counts(rail.crossing, c, tile[c])
    BY <2>1, <1>2 DEF Counts
  <2>3. tile[c][1] \notin CrossingTiles
    BY <2>1
  <2> QED
    BY <2>1, <2>2, <2>3, <1>2 DEF Crosses, Driving, Awaited
<1> QED
  BY <1>3, <1>4 DEF Orderly

LEMMA EveryStepIsOrderly ==
    ASSUME SearchesSucceed, CrossingStandsAlone, AnyTime = FALSE, Trains, AllSecure, Orderly,
           InTime, [Next]_vars
    PROVE  Orderly'
<1>1. ASSUME NEW c \in Convoys, Proceed(c) PROVE Orderly'
  BY <1>1, ProceedIsOrderly
<1>2. ASSUME NEW c \in Convoys, HeadHops(c) PROVE Orderly'
  BY <1>2, HeadHopsIsOrderly
<1>3. ASSUME NEW c \in Convoys, FollowerHops(c) PROVE Orderly'
  BY <1>3, FollowerHopsIsOrderly
<1>4. ASSUME NEW c \in Convoys, Arrives(c) \/ Loaded(c) \/ NewSchedule(c) PROVE Orderly'
  BY <1>4, StandingIsOrderly
<1>5. ASSUME NEW c \in Convoys, Reroute(c) PROVE Orderly'
  BY <1>5, RerouteIsOrderly
<1>6. ASSUME NEW c \in Convoys, Destroy(c) PROVE Orderly'
  BY <1>6, DestroyIsOrderly
<1>7. ASSUME Load PROVE Orderly'
  BY <1>7, LoadIsOrderly
<1>8. ASSUME NEW v \in Cars, CarEnters(v) \/ CarLeaves(v) PROVE Orderly'
  BY <1>8, CarIsOrderly
<1>9. ASSUME NEW t \in Tiles, SignalRemoved(t) PROVE Orderly'
  BY <1>9, SignalIsOrderly
<1>10. ASSUME UNCHANGED vars PROVE Orderly'
  BY <1>10, StutteringIsOrderly
<1> QED
  BY <1>1, <1>2, <1>3, <1>4, <1>5, <1>6, <1>7, <1>8, <1>9, <1>10 DEF Next, TrainStep

LEMMA StaysInOrder ==
    ASSUME SearchesSucceed, CrossingStandsAlone, AnyTime = FALSE
    PROVE  Spec => [](Trains /\ AllSecure /\ Orderly /\ InTime)
<1>1. Init => Trains /\ AllSecure /\ Orderly /\ InTime
  BY InitSecure, InitIsOrderly, InitInTime
<1>2. (Trains /\ AllSecure /\ Orderly /\ InTime) /\ [Next]_vars
         => (Trains /\ AllSecure /\ Orderly /\ InTime)'
  BY EveryStep, EveryStepIsOrderly, EveryStepInTime
<1> QED
  BY <1>1, <1>2, PTL DEF Spec

LEMMA NoCarWhereATrainIs == ASSUME Trains, Orderly PROVE TrainsMeetNoCars
<1> SUFFICES ASSUME NEW c \in Convoys, NEW t \in Own(c), t \in CrossingTiles
             PROVE  rail.crossing.way1 = {}
  BY DEF TrainsMeetNoCars
<1>1. PICK i \in DOMAIN tile[c] : t = tile[c][i]
  BY DEF Own
<1>2. i \in Nat
  BY DEF Trains, TypeOK
<1>3. <<c, i>> \in rail.crossing.way2
  BY <1>1, <1>2 DEF Orderly, Crosses, Counts
<1> QED
  BY <1>3 DEF Orderly, RoadWaits

LEMMA SomebodyComes == ASSUME Trains, Orderly PROVE RequestIsForSomebody
<1> SUFFICES ASSUME rail.crossing.request # NoVehicle
             PROVE  LET c == rail.crossing.request[1]
                    IN  \E i \in DOMAIN route[c] : i > HeadIndex(c) /\ route[c][i] \in CrossingTiles
  BY DEF RequestIsForSomebody
<1>1. PICK c \in Convoys : rail.crossing.request = Engine(c)
  BY DEF Orderly, RoadWaits
<1>2. rail.crossing.request[1] = c
  BY <1>1 DEF Engine
<1>3. state[c] # "SELF_DESTRUCT"
  BY <1>1 DEF Orderly, Crosses
<1>4. PICK p \in HeadIndex(c) + 1 .. Len(route[c]) : route[c][p] \in CrossingTiles
  BY <1>1, <1>3, AllAwaited DEF Awaited
<1>5. p \in DOMAIN route[c] /\ p > HeadIndex(c)
  BY <1>3, RollingTrain
<1> QED
  BY <1>2, <1>4, <1>5

(* No car is on the crossing while a train is on it: on every layout where *)
(* a route with the crossing has no signal on it or in front of it and     *)
(* goes on behind it, and searches succeed, as long as players change no   *)
(* schedule of a train on the crossing and no signal that a train comes    *)
(* to, and no game is loaded while a train has asked for the crossing.     *)
THEOREM TrainsNeverMeetCars ==
    ASSUME SearchesSucceed, CrossingStandsAlone, AnyTime = FALSE PROVE Spec => []TrainsMeetNoCars
<1>1. Trains /\ AllSecure /\ Orderly => TrainsMeetNoCars
  BY NoCarWhereATrainIs
<1> QED
  BY <1>1, StaysInOrder, PTL

(* A crossing that is closed for a train waits for one that still comes to *)
(* it, on the same layouts: every train that gives its way back, is sold   *)
(* or sent somewhere else takes its request back.                          *)
THEOREM RequestsAreKept ==
    ASSUME SearchesSucceed, CrossingStandsAlone, AnyTime = FALSE PROVE Spec => []RequestIsForSomebody
<1>1. Trains /\ AllSecure /\ Orderly => RequestIsForSomebody
  BY SomebodyComes
<1> QED
  BY <1>1, StaysInOrder, PTL
=============================================================================
