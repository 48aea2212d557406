----------------------------- MODULE NetLogProofs -----------------------------
(***************************************************************************)
(* Proofs about the worlds of NetLockstep, for any number of clients and   *)
(* any bounds: no client leaves the world of the server (Lockstep).        *)
(*                                                                         *)
(* The invariant speaks of a log F that goes on behind the server's world: *)
(* what the queued commands will add to it, up to the first reload among   *)
(* them, which cuts the rest away.  Each command on its way to a client    *)
(* has its place in F, or was cut away by a reload in front of it.  The    *)
(* world of a client is a part of F, and what F holds behind it, as far as *)
(* the client has heard of the time, is on its way to the client.          *)
(***************************************************************************)
EXTENDS NetOrderProofs

-----------------------------------------------------------------------------
(* Logs.                                                                   *)

\* the world v is the beginning of w
Agree(v, w) == Len(v) <= Len(w) /\ \A i \in 1 .. Len(v) : v[i] = w[i]

IsReload(x) == \E k \in Nat : x = Reload(k)

\* the last reload in the first n inputs is the one for the map counter k
MapIs(w, n, k) ==
    /\ \A p \in 1 .. n : \A x \in Nat : w[p] = Reload(x) => x <= k
    /\ k = 0 \/ \E p \in 1 .. n : w[p] = Reload(k)

\* map counters grow from reload to reload, up to n
Rising(w, n) ==
    \A p \in 1 .. Len(w) : \A x \in Nat : w[p] = Reload(x) =>
        /\ 0 < x /\ x <= n
        /\ \A q \in 1 .. p - 1 : \A y \in Nat : w[q] = Reload(y) => y < x

\* the command m is input m.at + 1 of the log F
Right(F, m) ==
    /\ m.at < Len(F) /\ F[m.at + 1] = InputOf(m)
    /\ Frames(F, m.at) = m.step /\ MapIs(F, m.at, m.map)

\* a reload of the world m was made for has come in front of it
CutAway(F, m) ==
    \E p \in 0 .. m.at :
        /\ p < Len(F) /\ IsReload(F[p + 1])
        /\ Frames(F, p) <= m.step /\ MapIs(F, p, m.map)

Placed(F, m) == Right(F, m) \/ CutAway(F, m)

-----------------------------------------------------------------------------
(* The log of the server.                                                  *)

\* no reload is queued in front of command i
First(i) == \A j \in 1 .. i - 1 : sQueue[j].type # "SYNC"

\* F is the server's world and what is sure to come behind it
Coming(F) ==
    /\ Agree(sWorld, F) /\ Rising(F, nMaps)
    /\ MapIs(sWorld, Len(sWorld), sMap)
    /\ \A i \in 1 .. Len(sQueue) :
          /\ sQueue[i].step > 0
          /\ First(i) => Right(F, sQueue[i])
          /\ ~First(i) => CutAway(F, sQueue[i])
    /\ \A p \in Len(sWorld) + 1 .. Len(F) :
          F[p] = Frame \/ \E i \in 1 .. Len(sQueue) : First(i) /\ p = sQueue[i].at + 1
    /\ \/ Len(F) = Len(sWorld)
       \/ \E i \in 1 .. Len(sQueue) : First(i) /\ Len(F) = sQueue[i].at + 1

-----------------------------------------------------------------------------
(* The clients.                                                            *)

\* whoever has M coming, may get more if live, and may run up to base hears of step n
Hears(M, live, base, n) ==
    live \/ n <= base \/ \E a \in M : Announces(a) /\ n <= a.sstep

\* The world w, after k frames and with the map counter map, is part of the log F.  What F
\* holds behind it comes with M, and what of M is made for this map is not yet in w.
Follows(F, w, k, map, base, M, live) ==
    /\ Agree(w, F) /\ Frames(F, Len(w)) = k /\ 0 < k /\ k <= base
    /\ MapIs(F, Len(w), map)
    /\ \A p \in Len(w) + 1 .. Len(F) :
          F[p] # Frame /\ Hears(M, live, base, Frames(F, p)) =>
              \E m \in M : Command(m) /\ Right(F, m) /\ m.at = p - 1
    /\ \A m \in M : Command(m) /\ m.map = map => Len(w) <= m.at

InStep(c) == sState[c] = "playing"
Pending(c) == Elems(cQueue[c]) \cup Elems(wire[c]) \cup Elems(sendq[c])

PlacedOK(F, c) == \A m \in Pending(c) : Command(m) => Placed(F, m)

\* what is on the wire w behind i
Behind(w, i) == {w[j] : j \in i + 1 .. Len(w)}

\* a game that the client will load, and the NWC_READY behind it
GameFollows(F, w, mode, s, live) ==
    \A i \in 1 .. Len(w) : Live(w, mode, i) =>
        /\ i < Len(w) /\ w[i + 1].type = "READY"
        /\ Follows(F, Append(w[i].world, Reload(w[i].reload)), w[i + 1].step, w[i + 1].map,
                   w[i + 1].step, Behind(w, i) \cup Elems(s), live)

Lone(s) == \A i, j \in 1 .. Len(s) : s[i].type = "READY" /\ s[j].type = "READY" => i = j

\* at most one NWC_READY goes round, and only while the client is paused
ReadyOK(c) ==
    /\ Lone(up[c]) /\ Lone(wire[c])
    /\ ~(Has(up[c], {"READY"}) /\ Has(wire[c], {"READY"}))
    /\ Has(up[c], {"READY"}) \/ Has(wire[c], {"READY"}) => cPaused[c]

\* a client that has loaded the game and waits to be told the step
LoadedOK(F, c) ==
    /\ cPaused[c] /\ cQueue[c] = <<>>
    /\ wire[c] # <<>> /\ Head(wire[c]).type = "READY"
    /\ Follows(F, cWorld[c], Head(wire[c]).step, Head(wire[c]).map, Head(wire[c]).step,
               Pending(c), InStep(c))

\* a client that knows its step
RunningOK(F, c) ==
    /\ Follows(F, cWorld[c], cStep[c], cMap[c], cBarrier[c], Pending(c), InStep(c))
    /\ \A m \in Elems(wire[c]) \cup Elems(up[c]) :
          m.type = "READY" => m.step = cStep[c] /\ m.map = cMap[c]
    /\ cPaused[c] => \A x \in Elems(cQueue[c]) : x.step > cStep[c]

PlayerOK(F, c) ==
    /\ ReadyOK(c)
    /\ cStep[c] = 0 => LoadedOK(F, c)
    /\ cStep[c] > 0 => RunningOK(F, c)

Along(F, c) ==
    /\ PlacedOK(F, c)
    /\ GameFollows(F, wire[c], cMode[c], sendq[c], InStep(c))
    /\ cMode[c] = "playing" /\ ~lost[c] => PlayerOK(F, c)

\* while the server pauses nobody hears of the step at which it stands
IdleOK(c) ==
    sPaused =>
        /\ sState[c] # "playing"
        /\ sStep > 0 =>
              /\ cBarrier[c] < sStep
              /\ \A m \in Elems(cQueue[c]) \cup Elems(wire[c]) : Announces(m) => m.sstep < sStep
              /\ \A m \in Elems(wire[c]) \cup Elems(up[c]) : m.type = "READY" => m.step < sStep

IdleInv == \A c \in Clients : IdleOK(c)
AlongInv == \E F \in Worlds : Coming(F) /\ \A c \in Clients : Along(F, c)

-----------------------------------------------------------------------------
(* Facts about logs.                                                       *)

LEMMA ReloadTags ==
    /\ \A x, y : Reload(x) = Reload(y) => x = y
    /\ \A k \in Nat : IsReload(Reload(k)) /\ Reload(k) # Frame
    /\ \A n : ~IsReload(Tool(n)) /\ Tool(n) # Frame
    /\ ~IsReload(Frame)
BY DEF IsReload, Reload, Tool, Frame

\* what a command adds to the log
LEMMA InputTypes ==
    ASSUME NEW m \in ToolMsgs \cup SyncMsgs
    PROVE  /\ m.type = "TOOL" => InputOf(m) = Tool(m.tool) /\ ~IsReload(InputOf(m))
           /\ m.type = "SYNC" => /\ InputOf(m) = Reload(m.newmap) /\ m.newmap \in Nat
                                 /\ IsReload(InputOf(m))
           /\ m.type \in {"TOOL", "SYNC"}
           /\ InputOf(m) # Frame /\ InputOf(m) \in Inputs
<1>1. CASE m \in ToolMsgs
  <2>1. m.type = "TOOL" /\ m.tool \in Nat
    BY <1>1 DEF ToolMsgs
  <2>2. InputOf(m) = Tool(m.tool)
    BY <2>1 DEF InputOf
  <2>3. Tool(m.tool) \in Inputs
    BY <2>1 DEF Tool, Inputs
  <2> QED
    BY <2>1, <2>2, <2>3, ReloadTags
<1>2. CASE m \in SyncMsgs
  <2>1. m.type = "SYNC" /\ m.newmap \in Nat
    BY <1>2 DEF SyncMsgs
  <2>2. InputOf(m) = Reload(m.newmap)
    BY <2>1 DEF InputOf
  <2>3. Reload(m.newmap) \in Inputs
    BY <2>1 DEF Reload, Inputs
  <2> QED
    BY <2>1, <2>2, <2>3, ReloadTags
<1> QED
  BY <1>1, <1>2

LEMMA MapLocal ==
    ASSUME NEW v, NEW w, NEW n \in Nat, \A i \in 1 .. n : v[i] = w[i], NEW k, MapIs(v, n, k)
    PROVE  MapIs(w, n, k)
<1>1. \A p \in 1 .. n : \A x \in Nat : w[p] = Reload(x) => x <= k
  BY DEF MapIs
<1>2. k = 0 \/ \E p \in 1 .. n : w[p] = Reload(k)
  BY DEF MapIs
<1> QED
  BY <1>1, <1>2 DEF MapIs

\* The map counter of a log grows with it, and is what it is.
LEMMA MapGrows ==
    ASSUME NEW w, NEW m \in Nat, NEW n \in Nat, m <= n, NEW k \in Nat, NEW l \in Nat,
           MapIs(w, m, k), MapIs(w, n, l)
    PROVE  k <= l /\ (m = n => k = l)
<1>1. k <= l
  <2>1. CASE k = 0
    BY <2>1
  <2>2. CASE k # 0
    <3>1. PICK p \in 1 .. m : w[p] = Reload(k)
      BY <2>2 DEF MapIs
    <3>2. p \in 1 .. n
      BY <3>1
    <3> QED
      BY <3>1, <3>2 DEF MapIs
  <2> QED
    BY <2>1, <2>2
<1>2. ASSUME m = n PROVE l <= k
  <2>1. CASE l = 0
    BY <2>1
  <2>2. CASE l # 0
    <3>1. PICK p \in 1 .. n : w[p] = Reload(l)
      BY <2>2 DEF MapIs
    <3> QED
      BY <3>1, <1>2 DEF MapIs
  <2> QED
    BY <2>1, <2>2
<1> QED
  BY <1>1, <1>2

\* The next input changes it if it is a reload.
LEMMA MapNext ==
    ASSUME NEW w, NEW n \in Nat, NEW k \in Nat, MapIs(w, n, k)
    PROVE  ~IsReload(w[n + 1]) => MapIs(w, n + 1, k)
<1> SUFFICES ASSUME ~IsReload(w[n + 1]) PROVE MapIs(w, n + 1, k)
  OBVIOUS
<1>1. \A p \in 1 .. n + 1 : p \in 1 .. n \/ p = n + 1
  OBVIOUS
<1>2. \A p \in 1 .. n + 1 : \A x \in Nat : w[p] = Reload(x) => x <= k
  BY <1>1 DEF MapIs, IsReload
<1>3. k = 0 \/ \E p \in 1 .. n + 1 : w[p] = Reload(k)
  <2>1. \A p \in 1 .. n : p \in 1 .. n + 1
    OBVIOUS
  <2> QED
    BY <2>1 DEF MapIs
<1> QED
  BY <1>2, <1>3 DEF MapIs

LEMMA MapReloads ==
    ASSUME NEW w, NEW b, Rising(w, b), NEW n \in Nat, n + 1 <= Len(w), Len(w) \in Nat,
           NEW x \in Nat, w[n + 1] = Reload(x)
    PROVE  /\ MapIs(w, n + 1, x) /\ 0 < x /\ x <= b
           /\ \A k \in Nat : MapIs(w, n, k) => k < x
<1>0. n + 1 \in 1 .. Len(w)
  OBVIOUS
<1>1. 0 < x /\ x <= b /\ \A q \in 1 .. n : \A y \in Nat : w[q] = Reload(y) => y < x
  <2>1. (n + 1) - 1 = n
    OBVIOUS
  <2> QED
    BY <1>0, <2>1 DEF Rising
<1>2. \A p \in 1 .. n + 1 : \A y \in Nat : w[p] = Reload(y) => y <= x
  <2> SUFFICES ASSUME NEW p \in 1 .. n + 1, NEW y \in Nat, w[p] = Reload(y) PROVE y <= x
    OBVIOUS
  <2>1. CASE p \in 1 .. n
    BY <2>1, <1>1
  <2>2. CASE p = n + 1
    BY <2>2, ReloadTags
  <2> QED
    BY <2>1, <2>2
<1>3. \A k \in Nat : MapIs(w, n, k) => k < x
  <2> SUFFICES ASSUME NEW k \in Nat, MapIs(w, n, k) PROVE k < x
    OBVIOUS
  <2> QED
    BY <1>1 DEF MapIs
<1>4. n + 1 \in 1 .. n + 1
  OBVIOUS
<1> QED
  BY <1>1, <1>2, <1>3, <1>4 DEF MapIs

\* Without a reload in between, the map counter is the same.
LEMMA MapBetween ==
    ASSUME NEW w, NEW m \in Nat, NEW n \in Nat, m <= n, NEW k \in Nat, MapIs(w, m, k),
           \A p \in m + 1 .. n : ~IsReload(w[p])
    PROVE  MapIs(w, n, k)
<1>1. \A p \in 1 .. n : p \in 1 .. m \/ p \in m + 1 .. n
  OBVIOUS
<1>2. \A p \in 1 .. n : \A x \in Nat : w[p] = Reload(x) => x <= k
  BY <1>1 DEF MapIs, IsReload
<1>3. \A p \in 1 .. m : p \in 1 .. n
  OBVIOUS
<1> QED
  BY <1>2, <1>3 DEF MapIs

\* What no frame separates.
LEMMA NoFrameBetween ==
    ASSUME NEW w, NEW m \in Nat, NEW n \in Nat, m <= n, Frames(w, m) = Frames(w, n)
    PROVE  \A p \in m + 1 .. n : w[p] # Frame /\ Frames(w, p) = Frames(w, m)
<1> SUFFICES ASSUME NEW p \in m + 1 .. n
             PROVE  w[p] # Frame /\ Frames(w, p) = Frames(w, m)
  OBVIOUS
<1>1. p \in Nat /\ m < p /\ p <= n
  OBVIOUS
<1>2. Frames(w, m) \in Nat /\ Frames(w, p) \in Nat /\ Frames(w, n) \in Nat
  BY <1>1, FramesType
<1>3. Frames(w, m) <= Frames(w, p) /\ Frames(w, p) <= Frames(w, n)
  BY <1>1, FramesMonotone
<1>4. w[p] = Frame => Frames(w, m) < Frames(w, p)
  BY <1>1, FramesMonotone
<1> QED
  BY <1>2, <1>3, <1>4

\* A log that goes on keeps what was said of it.
LEMMA AgreeFacts ==
    ASSUME NEW v \in Worlds, NEW w \in Worlds, Agree(v, w)
    PROVE  /\ Len(v) \in Nat /\ Len(w) \in Nat /\ Len(v) <= Len(w)
           /\ \A n \in 0 .. Len(v) : Frames(v, n) = Frames(w, n)
           /\ \A n \in 0 .. Len(v) : \A k : MapIs(v, n, k) <=> MapIs(w, n, k)
<1>1. Len(v) \in Nat /\ Len(w) \in Nat
  BY DEF Worlds
<1>2. ASSUME NEW n \in 0 .. Len(v)
      PROVE  Frames(v, n) = Frames(w, n) /\ \A k : MapIs(v, n, k) <=> MapIs(w, n, k)
  <2>1. n \in Nat /\ \A i \in 1 .. n : v[i] = w[i]
    BY <1>1, <1>2 DEF Agree
  <2>2. \A i \in 1 .. n : w[i] = v[i]
    BY <2>1
  <2>3. ASSUME NEW k PROVE MapIs(v, n, k) => MapIs(w, n, k)
    BY <2>1, MapLocal
  <2>4. ASSUME NEW k PROVE MapIs(w, n, k) => MapIs(v, n, k)
    BY <2>1, <2>2, MapLocal
  <2> QED
    BY <2>1, <2>3, <2>4, FramesLocal
<1> QED
  BY <1>1, <1>2 DEF Agree

LEMMA AgreeTransitive ==
    ASSUME NEW u \in Worlds, NEW v \in Worlds, NEW w \in Worlds, Agree(u, v), Agree(v, w)
    PROVE  Agree(u, w)
<1>1. Len(u) \in Nat /\ Len(v) \in Nat /\ Len(w) \in Nat
  BY DEF Worlds
<1> QED
  BY <1>1 DEF Agree

LEMMA AgreeAppend ==
    ASSUME NEW w \in Worlds, NEW x \in Inputs
    PROVE  /\ Append(w, x) \in Worlds /\ Agree(w, Append(w, x)) /\ Agree(w, w)
           /\ Len(Append(w, x)) = Len(w) + 1 /\ Len(w) \in Nat
           /\ Append(w, x)[Len(w) + 1] = x
           /\ \A p \in 1 .. Len(w) : Append(w, x)[p] = w[p]
BY DEF Worlds, Agree

\* the number of a place and of a step
Numbered(m) == m.at \in Nat /\ m.step \in Nat /\ m.map \in Nat

LEMMA PlacedStays ==
    ASSUME NEW F \in Worlds, NEW G \in Worlds, Agree(F, G), NEW m, Numbered(m)
    PROVE  /\ Right(F, m) => Right(G, m)
           /\ CutAway(F, m) => CutAway(G, m)
           /\ Placed(F, m) => Placed(G, m)
<1>0. Len(F) \in Nat /\ Len(G) \in Nat /\ Len(F) <= Len(G)
  BY AgreeFacts
<1>1. ASSUME Right(F, m) PROVE Right(G, m)
  <2>1. m.at < Len(F) /\ m.at \in 0 .. Len(F) /\ m.at + 1 \in 1 .. Len(F)
    BY <1>0, <1>1 DEF Right, Numbered
  <2>2. G[m.at + 1] = F[m.at + 1]
    BY <2>1 DEF Agree
  <2>3. Frames(G, m.at) = Frames(F, m.at) /\ MapIs(G, m.at, m.map)
    BY <2>1, <1>1, AgreeFacts DEF Right
  <2>4. m.at < Len(G)
    BY <2>1, <1>0
  <2> QED
    BY <1>1, <2>2, <2>3, <2>4 DEF Right
<1>2. ASSUME CutAway(F, m) PROVE CutAway(G, m)
  <2>1. PICK p \in 0 .. m.at : /\ p < Len(F) /\ IsReload(F[p + 1])
                               /\ Frames(F, p) <= m.step /\ MapIs(F, p, m.map)
    BY <1>2 DEF CutAway
  <2>2. p \in 0 .. Len(F) /\ p + 1 \in 1 .. Len(F) /\ p < Len(G)
    BY <2>1, <1>0 DEF Numbered
  <2>3. G[p + 1] = F[p + 1]
    BY <2>2 DEF Agree
  <2>4. Frames(G, p) = Frames(F, p) /\ MapIs(G, p, m.map)
    BY <2>1, <2>2, AgreeFacts
  <2> QED
    BY <2>1, <2>2, <2>3, <2>4 DEF CutAway
<1> QED
  BY <1>1, <1>2 DEF Placed

\* What another input does to a log.
LEMMA MapAppend ==
    ASSUME NEW w \in Worlds, NEW x \in Inputs, NEW k \in Nat, MapIs(w, Len(w), k), ~IsReload(x)
    PROVE  MapIs(Append(w, x), Len(Append(w, x)), k)
<1> DEFINE v == Append(w, x)
<1>1. /\ v \in Worlds /\ Agree(w, v) /\ Len(w) \in Nat /\ Len(v) = Len(w) + 1
      /\ v[Len(w) + 1] = x
  BY AgreeAppend
<1> HIDE DEF v
<1>2. Len(w) \in 0 .. Len(w)
  BY <1>1
<1>3. MapIs(v, Len(w), k)
  BY <1>1, <1>2, AgreeFacts
<1>4. MapIs(v, Len(w) + 1, k)
  BY <1>1, <1>3, MapNext
<1>5. MapIs(v, Len(v), k)
  BY <1>1, <1>4
<1> QED
  BY <1>5 DEF v

LEMMA RisingAppend ==
    ASSUME NEW w \in Worlds, NEW b \in Nat, NEW d \in Nat, b <= d, Rising(w, b), NEW x \in Inputs
    PROVE  /\ Rising(w, d)
           /\ ~IsReload(x) => Rising(Append(w, x), d)
           /\ b < d /\ x = Reload(d) => Rising(Append(w, x), d)
<1> DEFINE v == Append(w, x)
<1>1. /\ Len(w) \in Nat /\ Len(v) = Len(w) + 1 /\ v[Len(w) + 1] = x
      /\ \A p \in 1 .. Len(w) : v[p] = w[p]
  BY AgreeAppend
<1> HIDE DEF v
<1>2. \A p \in 1 .. Len(w) : \A y \in Nat : w[p] = Reload(y) =>
         /\ 0 < y /\ y <= b /\ y <= d
         /\ \A q \in 1 .. p - 1 : \A z \in Nat : w[q] = Reload(z) => z < y
  BY DEF Rising
<1>3. Rising(w, d)
  BY <1>2 DEF Rising
<1>4. \A p \in 1 .. Len(v) : p \in 1 .. Len(w) \/ p = Len(w) + 1
  BY <1>1
<1>5. ASSUME NEW p \in 1 .. Len(w), NEW y \in Nat, v[p] = Reload(y)
      PROVE  /\ 0 < y /\ y <= d
             /\ \A q \in 1 .. p - 1 : \A z \in Nat : v[q] = Reload(z) => z < y
  <2>1. w[p] = Reload(y) /\ \A q \in 1 .. p - 1 : v[q] = w[q]
    BY <1>1, <1>5
  <2> QED
    BY <2>1, <1>2
<1>6. ASSUME ~IsReload(x) PROVE Rising(v, d)
  <2>1. \A y \in Nat : v[Len(w) + 1] # Reload(y)
    BY <1>1, <1>6 DEF IsReload
  <2> QED
    BY <2>1, <1>4, <1>5 DEF Rising
<1>7. ASSUME b < d, x = Reload(d) PROVE Rising(v, d)
  <2>1. ASSUME NEW p \in 1 .. Len(v), NEW y \in Nat, v[p] = Reload(y)
        PROVE  /\ 0 < y /\ y <= d
               /\ \A q \in 1 .. p - 1 : \A z \in Nat : v[q] = Reload(z) => z < y
    <3>1. CASE p \in 1 .. Len(w)
      BY <3>1, <2>1, <1>5
    <3>2. CASE p = Len(w) + 1
      <4>1. y = d
        BY <3>2, <2>1, <1>1, <1>7, ReloadTags
      <4>2. p - 1 = Len(w)
        BY <3>2, <1>1
      <4>3. \A q \in 1 .. Len(w) : \A z \in Nat : v[q] = Reload(z) => z < d
        <5> SUFFICES ASSUME NEW q \in 1 .. Len(w), NEW z \in Nat, v[q] = Reload(z)
                     PROVE  z < d
          OBVIOUS
        <5>1. w[q] = Reload(z)
          BY <1>1
        <5>2. z <= b
          BY <5>1, <1>2
        <5> QED
          BY <5>2, <1>7
      <4>4. 0 < d
        BY <1>7
      <4> QED
        BY <4>1, <4>2, <4>3, <4>4
    <3> QED
      BY <3>1, <3>2, <1>4
  <2> QED
    BY <2>1 DEF Rising
<1>8. (~IsReload(x) => Rising(v, d)) /\ (b < d /\ x = Reload(d) => Rising(v, d))
  BY <1>6, <1>7
<1> QED
  BY <1>3, <1>8 DEF v

LEMMA RisingPrefix ==
    ASSUME NEW v \in Worlds, NEW w \in Worlds, Agree(v, w), NEW b, Rising(w, b)
    PROVE  Rising(v, b)
<1>1. Len(v) \in Nat /\ Len(w) \in Nat /\ Len(v) <= Len(w)
  BY AgreeFacts
<1> SUFFICES ASSUME NEW p \in 1 .. Len(v), NEW x \in Nat, v[p] = Reload(x)
             PROVE  /\ 0 < x /\ x <= b
                    /\ \A q \in 1 .. p - 1 : \A y \in Nat : v[q] = Reload(y) => y < x
  BY DEF Rising
<1>2. p \in 1 .. Len(w) /\ w[p] = Reload(x)
  BY <1>1 DEF Agree
<1>3. \A q \in 1 .. p - 1 : w[q] = v[q]
  BY <1>1 DEF Agree
<1> QED
  BY <1>2, <1>3 DEF Rising

-----------------------------------------------------------------------------
(* The log along the steps of the server.                                  *)

LEMMA QueueFacts ==
    ASSUME IInv, SInv, LogInv
    PROVE  /\ sQueue \in Seq(ToolMsgs \cup SyncMsgs) /\ Len(sQueue) \in Nat
           /\ sStep \in Nat /\ sMap \in Nat /\ nMaps \in Nat /\ sWorld \in Worlds
           /\ Len(sWorld) \in Nat /\ Frames(sWorld, Len(sWorld)) = sStep /\ sMap <= nMaps
           /\ \A i \in 1 .. Len(sQueue) :
                 /\ sQueue[i] \in ToolMsgs \cup SyncMsgs /\ Numbered(sQueue[i])
                 /\ sQueue[i].map = sMap /\ sQueue[i].step \in {sStep, sStep + 1}
                 /\ sQueue[i].at = Len(sWorld) + i - 1 + (sQueue[i].step - sStep)
                 /\ \A j \in 1 .. i : sQueue[j].step <= sQueue[i].step
<1>1. /\ sQueue \in Seq(ToolMsgs \cup SyncMsgs) /\ Len(sQueue) \in Nat
      /\ sStep \in Nat /\ sMap \in Nat /\ nMaps \in Nat /\ sWorld \in Worlds
      /\ Len(sWorld) \in Nat
  BY DEF IInv, ServerOK, RecordsOK, Worlds
<1>2. Frames(sWorld, Len(sWorld)) = sStep /\ sMap <= nMaps
  BY DEF LogInv
<1>3. ASSUME NEW i \in 1 .. Len(sQueue)
      PROVE  /\ sQueue[i] \in ToolMsgs \cup SyncMsgs /\ Numbered(sQueue[i])
             /\ sQueue[i].map = sMap /\ sQueue[i].step \in {sStep, sStep + 1}
             /\ sQueue[i].at = Len(sWorld) + i - 1 + (sQueue[i].step - sStep)
             /\ \A j \in 1 .. i : sQueue[j].step <= sQueue[i].step
  <2>1. sQueue[i] \in ToolMsgs \cup SyncMsgs
    BY <1>1
  <2>2. Numbered(sQueue[i])
    BY <2>1 DEF Numbered, ToolMsgs, SyncMsgs
  <2>3. sQueue[i].map = sMap /\ sQueue[i].step \in {sStep, sStep + 1}
    BY DEF SInv, QueueIsCurrent
  <2>4. sQueue[i].at = Len(sWorld) + i - 1 + (sQueue[i].step - sStep)
    BY DEF LogInv, QueuePlaced
  <2>5. ASSUME NEW j \in 1 .. i PROVE sQueue[j].step <= sQueue[i].step
    <3>1. CASE j = i
      BY <3>1, <2>2 DEF Numbered
    <3>2. CASE j # i
      <4>1. j \in 1 .. Len(sQueue) /\ j < i
        BY <3>2, <1>1
      <4> QED
        BY <4>1 DEF SInv, QueueIsSorted
    <3> QED
      BY <3>1, <3>2
  <2> QED
    BY <2>1, <2>2, <2>3, <2>4, <2>5
<1> QED
  BY <1>1, <1>2, <1>3

\* the places of the queued commands that no reload cuts away
LEMMA ComingPlaces ==
    ASSUME IInv, SInv, LogInv, NEW F \in Worlds, Coming(F)
    PROVE  /\ Len(F) \in Nat /\ Len(sWorld) <= Len(F)
           /\ \A i \in 1 .. Len(sQueue) : First(i) =>
                 /\ Len(sWorld) + i <= sQueue[i].at + 1 /\ sQueue[i].at + 1 <= Len(F)
                 /\ F[sQueue[i].at + 1] = InputOf(sQueue[i])
                 /\ Frames(F, sQueue[i].at) = sQueue[i].step
           /\ First(1)
           /\ Len(F) = Len(sWorld) => Len(sQueue) = 0
           /\ Frames(F, Len(sWorld)) = sStep /\ MapIs(F, Len(sWorld), sMap)
<1>1. Len(F) \in Nat /\ Len(sWorld) <= Len(F) /\ Len(sWorld) \in Nat
  BY QueueFacts, AgreeFacts DEF Coming
<1>2. ASSUME NEW i \in 1 .. Len(sQueue), First(i)
      PROVE  /\ Len(sWorld) + i <= sQueue[i].at + 1 /\ sQueue[i].at + 1 <= Len(F)
             /\ F[sQueue[i].at + 1] = InputOf(sQueue[i])
             /\ Frames(F, sQueue[i].at) = sQueue[i].step
  <2>1. Right(F, sQueue[i])
    BY <1>2 DEF Coming
  <2>2. /\ sQueue[i].at = Len(sWorld) + i - 1 + (sQueue[i].step - sStep)
        /\ sQueue[i].step \in {sStep, sStep + 1} /\ sStep \in Nat /\ sQueue[i].at \in Nat
    BY QueueFacts DEF Numbered
  <2>3. sQueue[i].at < Len(F) /\ F[sQueue[i].at + 1] = InputOf(sQueue[i])
        /\ Frames(F, sQueue[i].at) = sQueue[i].step
    BY <2>1 DEF Right
  <2> QED
    BY <2>2, <2>3, <1>1
<1>3. First(1)
  BY DEF First
<1>4. ASSUME Len(F) = Len(sWorld), Len(sQueue) # 0 PROVE FALSE
  <2>1. 1 \in 1 .. Len(sQueue) /\ sQueue[1].at \in Nat
    BY <1>4, QueueFacts DEF Numbered
  <2>2. Len(sWorld) + 1 <= sQueue[1].at + 1 /\ sQueue[1].at + 1 <= Len(F)
    BY <2>1, <1>2, <1>3
  <2> QED
    BY <2>1, <2>2, <1>4, <1>1
<1>5. Frames(F, Len(sWorld)) = sStep /\ MapIs(F, Len(sWorld), sMap)
  <2>1. Len(sWorld) \in 0 .. Len(sWorld) /\ sWorld \in Worlds /\ Agree(sWorld, F)
    BY <1>1, QueueFacts DEF Coming
  <2>2. MapIs(sWorld, Len(sWorld), sMap) /\ Frames(sWorld, Len(sWorld)) = sStep
    BY QueueFacts DEF Coming
  <2> QED
    BY <2>1, <2>2, AgreeFacts
<1> QED
  BY <1>1, <1>2, <1>3, <1>4, <1>5

\* A frame: the log goes on with it, if nothing else was coming.
LEMMA ComingFrame ==
    ASSUME IInv, SInv, LogInv, NEW F \in Worlds, Coming(F), ServerFrame
    PROVE  \E G \in Worlds : Coming(G)' /\ Agree(F, G) /\ \A p \in Len(F) + 1 .. Len(G) : G[p] = Frame
<1>1. /\ sWorld' = Append(sWorld, Frame) /\ sQueue' = sQueue /\ sMap' = sMap /\ nMaps' = nMaps
      /\ ~HasDue(sQueue, sStep)
  BY DEF ServerFrame, counters
<1>2. Frame \in Inputs /\ ~IsReload(Frame)
  BY ReloadTags DEF Frame, Inputs
<1>3. /\ sWorld' \in Worlds /\ Agree(sWorld, sWorld') /\ Len(sWorld') = Len(sWorld) + 1
      /\ Len(sWorld) \in Nat /\ sWorld'[Len(sWorld) + 1] = Frame
      /\ \A p \in 1 .. Len(sWorld) : sWorld'[p] = sWorld[p]
  BY <1>1, <1>2, QueueFacts, AgreeAppend
<1>4. MapIs(sWorld', Len(sWorld'), sMap')
  <2>1. MapIs(sWorld, Len(sWorld), sMap) /\ sMap \in Nat /\ sWorld \in Worlds
    BY QueueFacts DEF Coming
  <2> QED
    BY <2>1, <1>1, <1>2, MapAppend
<1>5. /\ Len(F) \in Nat /\ Len(sWorld) <= Len(F)
      /\ \A p \in 1 .. Len(sWorld) : sWorld[p] = F[p]
      /\ Rising(F, nMaps) /\ nMaps \in Nat
  BY ComingPlaces, QueueFacts DEF Coming, Agree
<1>6. CASE Len(F) = Len(sWorld)
  <2> DEFINE G == Append(F, Frame)
  <2>1. /\ G \in Worlds /\ Agree(F, G) /\ Len(G) = Len(F) + 1 /\ G[Len(F) + 1] = Frame
        /\ \A p \in 1 .. Len(F) : G[p] = F[p]
    BY <1>2, AgreeAppend
  <2>2. Rising(G, nMaps)
    BY <1>5, <1>2, RisingAppend
  <2> HIDE DEF G
  <2>3. Len(sQueue) = 0
    BY <1>6, ComingPlaces
  <2>4. Agree(sWorld', G)
    <3>1. \A p \in 1 .. Len(sWorld') : p \in 1 .. Len(sWorld) \/ p = Len(sWorld) + 1
      BY <1>3
    <3>2. ASSUME NEW p \in 1 .. Len(sWorld') PROVE sWorld'[p] = G[p]
      BY <3>1, <2>1, <1>3, <1>5, <1>6
    <3> QED
      BY <3>2, <2>1, <1>3, <1>6 DEF Agree
  <2>5. Len(G) = Len(sWorld')
    BY <2>1, <1>3, <1>6
  <2>6. Coming(G)'
    <3>1. Agree(sWorld', G) /\ Rising(G, nMaps')
      BY <2>4, <2>2, <1>1
    <3>2. \A i : i \notin 1 .. Len(sQueue')
      BY <2>3, <1>1
    <3>3. \A p : p \notin Len(sWorld') + 1 .. Len(G)
      BY <2>5, <1>3
    <3> QED
      BY <3>1, <3>2, <3>3, <1>4, <2>5 DEF Coming
  <2>7. \A p \in Len(F) + 1 .. Len(G) : G[p] = Frame
    BY <2>1, <1>5
  <2> QED
    BY <2>1, <2>6, <2>7
<1>7. CASE Len(F) # Len(sWorld)
  <2>1. \A i \in 1 .. Len(sQueue) : Len(sWorld) + i <= sQueue[i].at
    <3> SUFFICES ASSUME NEW i \in 1 .. Len(sQueue) PROVE Len(sWorld) + i <= sQueue[i].at
      OBVIOUS
    <3>1. sQueue # <<>> /\ Head(sQueue) = sQueue[1] /\ 1 \in 1 .. i /\ 1 \in 1 .. Len(sQueue)
      BY QueueFacts
    <3>2. ~(sQueue[1].step <= sStep) /\ sQueue[1].step <= sQueue[i].step
      BY <3>1, <1>1, QueueFacts DEF HasDue
    <3>3. /\ sQueue[1].step \in {sStep, sStep + 1} /\ sQueue[i].step \in {sStep, sStep + 1}
          /\ sStep \in Nat /\ sQueue[i].at = Len(sWorld) + i - 1 + (sQueue[i].step - sStep)
      BY <3>1, QueueFacts
    <3>4. sQueue[i].step = sStep + 1
      BY <3>2, <3>3
    <3> QED
      BY <3>3, <3>4, <1>3
  <2>2. F[Len(sWorld) + 1] = Frame
    <3>1. Len(sWorld) + 1 \in Len(sWorld) + 1 .. Len(F)
      BY <1>7, <1>5, <1>3
    <3>2. ~\E i \in 1 .. Len(sQueue) : First(i) /\ Len(sWorld) + 1 = sQueue[i].at + 1
      <4> SUFFICES ASSUME NEW i \in 1 .. Len(sQueue), Len(sWorld) + 1 = sQueue[i].at + 1
                   PROVE  FALSE
        OBVIOUS
      <4>1. Len(sWorld) + i <= sQueue[i].at /\ sQueue[i].at \in Nat
        BY <2>1, QueueFacts DEF Numbered
      <4> QED
        BY <4>1, <1>3
    <3> QED
      BY <3>1, <3>2 DEF Coming
  <2>3. Agree(sWorld', F)
    <3>1. \A p \in 1 .. Len(sWorld') : p \in 1 .. Len(sWorld) \/ p = Len(sWorld) + 1
      BY <1>3
    <3>2. ASSUME NEW p \in 1 .. Len(sWorld') PROVE sWorld'[p] = F[p]
      BY <3>1, <2>2, <1>3, <1>5
    <3>3. Len(sWorld') <= Len(F)
      BY <1>3, <1>5, <1>7
    <3> QED
      BY <3>2, <3>3 DEF Agree
  <2>4. \A i : First(i)' <=> First(i)
    BY <1>1 DEF First
  <2>5. \A p \in Len(sWorld') + 1 .. Len(F) : p \in Len(sWorld) + 1 .. Len(F)
    BY <1>3
  <2>6. \E i \in 1 .. Len(sQueue) : First(i) /\ Len(F) = sQueue[i].at + 1
    BY <1>7 DEF Coming
  <2>7. Coming(F)'
    <3>1. Agree(sWorld', F) /\ Rising(F, nMaps')
      BY <2>3, <1>5, <1>1
    <3>2. \A i \in 1 .. Len(sQueue') :
             /\ sQueue'[i].step > 0
             /\ First(i)' => Right(F, sQueue'[i])
             /\ ~First(i)' => CutAway(F, sQueue'[i])
      BY <1>1, <2>4 DEF Coming
    <3>3. \A p \in Len(sWorld') + 1 .. Len(F) :
             F[p] = Frame \/ \E i \in 1 .. Len(sQueue') : First(i)' /\ p = sQueue'[i].at + 1
      BY <1>1, <2>4, <2>5 DEF Coming
    <3>4. \E i \in 1 .. Len(sQueue') : First(i)' /\ Len(F) = sQueue'[i].at + 1
      BY <1>1, <2>4, <2>6
    <3> QED
      BY <3>1, <3>2, <3>3, <3>4, <1>4 DEF Coming, Right, CutAway, IsReload
  <2>8. Agree(F, F) /\ \A p \in Len(F) + 1 .. Len(F) : F[p] = Frame
    BY <1>5 DEF Agree
  <2> QED
    BY <2>7, <2>8
<1> QED
  BY <1>6, <1>7

\* A tool is run: it was the next input of the log.
LEMMA ComingRunsTool ==
    ASSUME IInv, SInv, LogInv, NEW F \in Worlds, Coming(F), ServerRunsTool
    PROVE  Coming(F)'
<1> DEFINE t == Head(sQueue)
<1>1. /\ sWorld' = Append(sWorld, Tool(t.tool)) /\ sQueue' = Tail(sQueue)
      /\ sMap' = sMap /\ nMaps' = nMaps /\ t.type = "TOOL" /\ sQueue # <<>>
  BY ServerRunsDueTool
<1>2. t = sQueue[1] /\ 1 \in 1 .. Len(sQueue) /\ t.step = sStep
  BY DueCommandRuns DEF ServerRunsTool
<1>3. /\ t \in ToolMsgs \cup SyncMsgs /\ t.at = Len(sWorld) /\ Len(sWorld) \in Nat
      /\ InputOf(t) \in Inputs /\ ~IsReload(InputOf(t)) /\ InputOf(t) = Tool(t.tool)
  <2>1. /\ t \in ToolMsgs \cup SyncMsgs /\ t.at = Len(sWorld) + 1 - 1 + (t.step - sStep)
        /\ Len(sWorld) \in Nat /\ sStep \in Nat
    BY <1>2, QueueFacts
  <2>2. t.at = Len(sWorld)
    BY <2>1, <1>2
  <2> QED
    BY <2>1, <2>2, <1>1, InputTypes
<1>4. /\ Len(sWorld) + 1 <= Len(F) /\ F[Len(sWorld) + 1] = InputOf(t) /\ Len(F) \in Nat
      /\ \A p \in 1 .. Len(sWorld) : sWorld[p] = F[p]
  BY <1>2, <1>3, ComingPlaces DEF Coming, Agree
<1> HIDE DEF t
<1>5. /\ Len(sWorld') = Len(sWorld) + 1 /\ sWorld'[Len(sWorld) + 1] = InputOf(t)
      /\ \A p \in 1 .. Len(sWorld) : sWorld'[p] = sWorld[p]
  BY <1>1, <1>3, QueueFacts, AgreeAppend
<1>6. Agree(sWorld', F)
  <2>1. \A p \in 1 .. Len(sWorld') : p \in 1 .. Len(sWorld) \/ p = Len(sWorld) + 1
    BY <1>5, <1>3
  <2>2. ASSUME NEW p \in 1 .. Len(sWorld') PROVE sWorld'[p] = F[p]
    BY <2>1, <1>4, <1>5
  <2> QED
    BY <2>2, <1>4, <1>5 DEF Agree
<1>7. MapIs(sWorld', Len(sWorld'), sMap')
  <2>1. MapIs(sWorld, Len(sWorld), sMap) /\ sMap \in Nat /\ sWorld \in Worlds
    BY QueueFacts DEF Coming
  <2> QED
    BY <2>1, <1>1, <1>3, MapAppend
<1>8. /\ Len(sQueue) \in Nat /\ Len(sQueue') = Len(sQueue) - 1
      /\ \A i \in 1 .. Len(sQueue') : sQueue'[i] = sQueue[i + 1] /\ i + 1 \in 1 .. Len(sQueue)
  BY <1>1, QueueFacts
<1>9. \A i \in 1 .. Len(sQueue') : First(i)' <=> First(i + 1)
  <2> SUFFICES ASSUME NEW i \in 1 .. Len(sQueue') PROVE First(i)' <=> First(i + 1)
    OBVIOUS
  <2>1. ASSUME First(i)' PROVE First(i + 1)
    <3> SUFFICES ASSUME NEW j \in 1 .. (i + 1) - 1 PROVE sQueue[j].type # "SYNC"
      BY DEF First
    <3>1. CASE j = 1
      BY <3>1, <1>1, <1>2
    <3>2. CASE j # 1
      <4>1. j - 1 \in 1 .. i - 1 /\ j - 1 \in 1 .. Len(sQueue') /\ (j - 1) + 1 = j
        BY <3>2, <1>8
      <4>2. sQueue'[j - 1].type # "SYNC"
        BY <4>1, <2>1 DEF First
      <4> QED
        BY <4>1, <4>2, <1>8
    <3> QED
      BY <3>1, <3>2
  <2>2. ASSUME First(i + 1) PROVE First(i)'
    <3> SUFFICES ASSUME NEW j \in 1 .. i - 1 PROVE sQueue'[j].type # "SYNC"
      BY DEF First
    <3>1. j + 1 \in 1 .. (i + 1) - 1 /\ j \in 1 .. Len(sQueue')
      BY <1>8
    <3> QED
      BY <3>1, <2>2, <1>8 DEF First
  <2> QED
    BY <2>1, <2>2
<1>10. ASSUME NEW p \in Nat, p > Len(sWorld'),
              \E i \in 1 .. Len(sQueue) : First(i) /\ p = sQueue[i].at + 1
       PROVE  \E i \in 1 .. Len(sQueue') : First(i)' /\ p = sQueue'[i].at + 1
  <2>1. PICK i \in 1 .. Len(sQueue) : First(i) /\ p = sQueue[i].at + 1
    BY <1>10
  <2>2. i # 1
    BY <2>1, <1>10, <1>2, <1>3, <1>5
  <2>3. i - 1 \in 1 .. Len(sQueue') /\ (i - 1) + 1 = i
    BY <2>2, <1>8
  <2>4. First(i - 1)' /\ sQueue'[i - 1] = sQueue[i]
    BY <2>1, <2>3, <1>8, <1>9
  <2> QED
    BY <2>1, <2>3, <2>4
<1>11. \A i \in 1 .. Len(sQueue') :
          /\ sQueue'[i].step > 0
          /\ First(i)' => Right(F, sQueue'[i])
          /\ ~First(i)' => CutAway(F, sQueue'[i])
  BY <1>8, <1>9 DEF Coming
<1>12. \A p \in Len(sWorld') + 1 .. Len(F) :
          F[p] = Frame \/ \E i \in 1 .. Len(sQueue') : First(i)' /\ p = sQueue'[i].at + 1
  <2> SUFFICES ASSUME NEW p \in Len(sWorld') + 1 .. Len(F), F[p] # Frame
               PROVE  \E i \in 1 .. Len(sQueue') : First(i)' /\ p = sQueue'[i].at + 1
    OBVIOUS
  <2>1. p \in Len(sWorld) + 1 .. Len(F) /\ p \in Nat /\ p > Len(sWorld')
    BY <1>3, <1>4, <1>5
  <2> QED
    BY <2>1, <1>10 DEF Coming
<1>13. \/ Len(F) = Len(sWorld')
       \/ \E i \in 1 .. Len(sQueue') : First(i)' /\ Len(F) = sQueue'[i].at + 1
  <2> SUFFICES ASSUME Len(F) # Len(sWorld')
               PROVE  \E i \in 1 .. Len(sQueue') : First(i)' /\ Len(F) = sQueue'[i].at + 1
    OBVIOUS
  <2>1. Len(F) > Len(sWorld') /\ Len(F) # Len(sWorld)
    BY <1>3, <1>4, <1>5
  <2>2. \E i \in 1 .. Len(sQueue) : First(i) /\ Len(F) = sQueue[i].at + 1
    BY <2>1 DEF Coming
  <2> QED
    BY <2>1, <2>2, <1>4, <1>10
<1>14. Rising(F, nMaps')
  BY <1>1 DEF Coming
<1> QED
  BY <1>6, <1>7, <1>11, <1>12, <1>13, <1>14 DEF Coming, Right, CutAway, IsReload

\* After a reload nothing is queued, and the log is the world.
LEMMA ComingReloaded ==
    ASSUME NEW F \in Worlds, sWorld' = F, sQueue' = <<>>, Rising(F, nMaps'),
           MapIs(F, Len(F), sMap')
    PROVE  Coming(F)'
<1>1. Agree(sWorld', F) /\ Len(F) = Len(sWorld') /\ Len(F) \in Nat
  BY DEF Agree, Worlds
<1>2. \A i : i \notin 1 .. Len(sQueue')
  OBVIOUS
<1>3. \A p : p \notin Len(sWorld') + 1 .. Len(F)
  BY <1>1
<1> QED
  BY <1>1, <1>2, <1>3 DEF Coming

\* A reload that was queued ends the log.
LEMMA ComingRunsSync ==
    ASSUME IInv, SInv, LogInv, NEW F \in Worlds, Coming(F), NEW new \in Nat,
           ServerReloads(new), RunsSync(new)
    PROVE  Coming(F)' /\ sWorld' = F
<1> DEFINE t == Head(sQueue)
<1>1. /\ sWorld' = Append(sWorld, Reload(new)) /\ sQueue' = <<>> /\ sMap' = new
      /\ nMaps' = nMaps /\ t.type = "SYNC" /\ new = t.newmap
  BY DEF ServerReloads, RunsSync
<1>2. t = sQueue[1] /\ 1 \in 1 .. Len(sQueue) /\ t.step = sStep
  BY DueCommandRuns DEF RunsSync
<1>3. t.at = Len(sWorld) /\ Len(sWorld) \in Nat /\ InputOf(t) = Reload(new) /\ Reload(new) \in Inputs
  <2>1. /\ t \in ToolMsgs \cup SyncMsgs /\ t.at = Len(sWorld) + 1 - 1 + (t.step - sStep)
        /\ Len(sWorld) \in Nat /\ sStep \in Nat
    BY <1>2, QueueFacts
  <2>2. t.at = Len(sWorld)
    BY <2>1, <1>2
  <2> QED
    BY <2>1, <2>2, <1>1, InputTypes
<1>4. /\ Len(sWorld) + 1 <= Len(F) /\ F[Len(sWorld) + 1] = Reload(new) /\ Len(F) \in Nat
      /\ \A p \in 1 .. Len(sWorld) : sWorld[p] = F[p]
  BY <1>2, <1>3, ComingPlaces DEF Coming, Agree
<1> HIDE DEF t
<1>5. Len(F) = Len(sWorld) + 1
  <2>1. Len(F) # Len(sWorld)
    BY <1>3, <1>4
  <2>2. PICK i \in 1 .. Len(sQueue) : First(i) /\ Len(F) = sQueue[i].at + 1
    BY <2>1 DEF Coming
  <2>3. i = 1
    <3> SUFFICES ASSUME i # 1 PROVE FALSE
      OBVIOUS
    <3>1. 1 \in 1 .. i - 1
      BY QueueFacts
    <3> QED
      BY <3>1, <2>2, <1>1, <1>2 DEF First
  <2> QED
    BY <2>2, <2>3, <1>2, <1>3
<1>6. F = Append(sWorld, Reload(new))
  <2> DEFINE v == Append(sWorld, Reload(new))
  <2>1. /\ v \in Worlds /\ Len(v) = Len(sWorld) + 1 /\ v[Len(sWorld) + 1] = Reload(new)
        /\ \A p \in 1 .. Len(sWorld) : v[p] = sWorld[p]
    BY <1>3, QueueFacts, AgreeAppend
  <2> HIDE DEF v
  <2>2. \A p \in 1 .. Len(F) : p \in 1 .. Len(sWorld) \/ p = Len(sWorld) + 1
    BY <1>3, <1>5
  <2>3. \A p \in 1 .. Len(F) : F[p] = v[p]
    BY <2>1, <2>2, <1>4
  <2>4. F = v
    BY <2>1, <2>3, <1>5 DEF Worlds
  <2> QED
    BY <2>4 DEF v
<1>7. Rising(F, nMaps')
  BY <1>1 DEF Coming
<1>8. MapIs(F, Len(F), sMap')
  <2>1. Rising(F, nMaps) /\ Len(sWorld) + 1 <= Len(F)
    BY <1>4 DEF Coming
  <2>2. MapIs(F, Len(sWorld) + 1, new)
    BY <2>1, <1>3, <1>4, MapReloads
  <2> QED
    BY <2>2, <1>1, <1>5
<1> QED
  BY <1>1, <1>6, <1>7, <1>8, ComingReloaded

\* A reload that was not queued replaces what was coming.
LEMMA ComingForced ==
    ASSUME IInv, SInv, LogInv, NEW F \in Worlds, Coming(F), NEW new \in Nat,
           ServerReloads(new), ForcedNow(new)
    PROVE  \E G \in Worlds : Coming(G)' /\ G = Append(sWorld, Reload(new))
<1>1. /\ sWorld' = Append(sWorld, Reload(new)) /\ sQueue' = <<>> /\ sMap' = new
      /\ new = nMaps + 1 /\ nMaps' = new
  BY DEF ServerReloads, ForcedNow
<1>2. sWorld \in Worlds /\ nMaps \in Nat /\ Agree(sWorld, F) /\ Rising(F, nMaps)
  BY QueueFacts DEF Coming
<1>3. Rising(sWorld, nMaps)
  BY <1>2, RisingPrefix
<1>4. Reload(new) \in Inputs
  BY DEF Reload, Inputs
<1>0. PICK G \in Worlds : G = Append(sWorld, Reload(new))
  BY <1>2, <1>4, AgreeAppend
<1>5. Rising(G, new)
  BY <1>0, <1>1, <1>2, <1>3, <1>4, RisingAppend
<1>6. /\ Len(G) = Len(sWorld) + 1 /\ G[Len(sWorld) + 1] = Reload(new)
      /\ Len(sWorld) \in Nat
  BY <1>0, <1>2, <1>4, AgreeAppend
<1>7. MapIs(G, Len(G), new)
  <2>1. MapIs(G, Len(sWorld) + 1, new)
    BY <1>5, <1>6, MapReloads
  <2> QED
    BY <2>1, <1>6
<1>8. sWorld' = G
  BY <1>0, <1>1
<1>9. Coming(G)'
  BY <1>1, <1>5, <1>6, <1>7, <1>8, ComingReloaded
<1> QED
  BY <1>0, <1>9

\* While no reload is queued a command that is scheduled is the next input of the log, or there
\* is one frame in front of it.
LEMMA LogEnd ==
    ASSUME IInv, SInv, LogInv, NEW F \in Worlds, Coming(F),
           \A i \in 1 .. Len(sQueue) : sQueue[i].type # "SYNC"
    PROVE  \E H \in Worlds :
              /\ Agree(F, H) /\ \A p \in Len(F) + 1 .. Len(H) : H[p] = Frame
              /\ Len(H) = Place /\ Frames(H, Len(H)) = sStep + 1
              /\ Rising(H, nMaps) /\ MapIs(H, Len(H), sMap)
<1> DEFINE n == Len(sQueue)
<1>1. n \in Nat /\ Len(sWorld) \in Nat /\ sStep \in Nat /\ sMap \in Nat /\ nMaps \in Nat
  BY QueueFacts
<1>2. Len(F) \in Nat /\ Len(sWorld) <= Len(F) /\ Rising(F, nMaps)
  BY ComingPlaces DEF Coming
<1>3. \A i \in 1 .. n : First(i)
  BY <1>1 DEF First
<1>4. MapIs(F, Len(F), sMap)
  <2>1. ASSUME NEW p \in Len(sWorld) + 1 .. Len(F) PROVE ~IsReload(F[p])
    <3>1. CASE F[p] = Frame
      BY <3>1, ReloadTags
    <3>2. CASE F[p] # Frame
      <4>1. PICK i \in 1 .. n : First(i) /\ p = sQueue[i].at + 1
        BY <3>2 DEF Coming
      <4>2. F[p] = InputOf(sQueue[i]) /\ sQueue[i] \in ToolMsgs \cup SyncMsgs
        BY <4>1, ComingPlaces, QueueFacts
      <4>3. sQueue[i].type = "TOOL"
        BY <4>2, InputTypes
      <4> QED
        BY <4>2, <4>3, InputTypes
    <3> QED
      BY <3>1, <3>2
  <2>2. MapIs(F, Len(sWorld), sMap)
    BY ComingPlaces
  <2> QED
    BY <2>1, <2>2, <1>1, <1>2, MapBetween
<1>5. \/ Len(F) = Place - 1 /\ Frames(F, Len(F)) = sStep
      \/ Len(F) = Place /\ Frames(F, Len(F)) = sStep + 1
  <2>1. CASE n = 0
    <3>1. Len(F) = Len(sWorld)
      BY <2>1 DEF Coming
    <3>2. Len(F) = Place - 1
      BY <3>1, <2>1, <1>1 DEF Place
    <3>3. Frames(F, Len(sWorld)) = sStep
      BY ComingPlaces
    <3> QED
      BY <3>1, <3>2, <3>3
  <2>2. CASE n # 0
    <3>1. n \in 1 .. n
      BY <2>2, <1>1
    <3>2. Len(F) # Len(sWorld)
      BY <2>2, ComingPlaces
    <3>3. PICK i \in 1 .. n : First(i) /\ Len(F) = sQueue[i].at + 1
      BY <3>2 DEF Coming
    <3>4. sQueue[n].at + 1 <= Len(F)
      BY <3>1, <1>3, ComingPlaces
    <3>5. /\ sQueue[n].at = Len(sWorld) + n - 1 + (sQueue[n].step - sStep)
          /\ sQueue[i].at = Len(sWorld) + i - 1 + (sQueue[i].step - sStep)
          /\ sQueue[i].step <= sQueue[n].step
          /\ sQueue[n].step \in {sStep, sStep + 1} /\ sQueue[i].step \in {sStep, sStep + 1}
      BY <3>1, <3>3, QueueFacts
    <3>6. Len(F) = sQueue[n].at + 1
      BY <3>1, <3>3, <3>4, <3>5, <1>1
    <3>7. sQueue[n] \in ToolMsgs \cup SyncMsgs /\ sQueue[n].at \in Nat
      BY <3>1, QueueFacts DEF Numbered
    <3>8. /\ F[sQueue[n].at + 1] = InputOf(sQueue[n]) /\ InputOf(sQueue[n]) # Frame
          /\ Frames(F, sQueue[n].at) = sQueue[n].step
      BY <3>1, <3>7, <1>3, ComingPlaces, InputTypes
    <3>9. Frames(F, Len(F)) = sQueue[n].step
      BY <3>6, <3>7, <3>8, FramesStep
    <3>10. Place = Len(sWorld) + n + 1
      BY DEF Place
    <3>11. CASE sQueue[n].step = sStep
      BY <3>5, <3>6, <3>9, <3>10, <3>11, <1>1
    <3>12. CASE sQueue[n].step = sStep + 1
      BY <3>5, <3>6, <3>9, <3>10, <3>12, <1>1
    <3> QED
      BY <3>5, <3>11, <3>12
  <2> QED
    BY <2>1, <2>2
<1>6. CASE Len(F) = Place /\ Frames(F, Len(F)) = sStep + 1
  <2>1. Agree(F, F) /\ \A p \in Len(F) + 1 .. Len(F) : F[p] = Frame
    BY <1>2 DEF Agree
  <2> QED
    BY <2>1, <1>2, <1>4, <1>6
<1>7. CASE Len(F) = Place - 1 /\ Frames(F, Len(F)) = sStep
  <2> DEFINE H == Append(F, Frame)
  <2>1. Frame \in Inputs /\ ~IsReload(Frame)
    BY ReloadTags DEF Frame, Inputs
  <2>2. /\ H \in Worlds /\ Agree(F, H) /\ Len(H) = Len(F) + 1 /\ H[Len(F) + 1] = Frame
    BY <2>1, AgreeAppend
  <2>3. Rising(H, nMaps) /\ MapIs(H, Len(H), sMap)
    BY <2>1, <1>1, <1>2, <1>4, RisingAppend, MapAppend
  <2>4. Frames(H, Len(F) + 1) = Frames(F, Len(F)) + 1
    BY FramesAppend
  <2> HIDE DEF H
  <2>5. Len(H) = Place /\ Frames(H, Len(H)) = sStep + 1
    <3>1. Place \in Nat
      BY <1>1 DEF Place
    <3> QED
      BY <3>1, <2>2, <2>4, <1>7
  <2>6. \A p \in Len(F) + 1 .. Len(H) : H[p] = Frame
    BY <2>2, <1>2
  <2> QED
    BY <2>2, <2>3, <2>5, <2>6
<1> QED
  BY <1>5, <1>6, <1>7

\* A command is scheduled: it goes to the end of the log, or was cut away already.
LEMMA ComingSchedules ==
    ASSUME IInv, SInv, LogInv, NEW F \in Worlds, Coming(F), NEW m, Schedules(m)
    PROVE  \E G \in Worlds :
              /\ Coming(G)' /\ Agree(F, G) /\ Len(F) <= m.at /\ Placed(G, m)
              /\ \A p \in Len(F) + 1 .. Len(G) : G[p] = Frame \/ (Right(G, m) /\ m.at = p - 1)
<1>0. PICK n \in Nat : n = Len(sQueue)
  BY QueueFacts
<1> USE <1>0
<1>1. /\ n \in Nat /\ Len(sWorld) \in Nat /\ sStep \in Nat /\ sMap \in Nat /\ nMaps \in Nat
      /\ sQueue \in Seq(ToolMsgs \cup SyncMsgs)
  BY QueueFacts
<1>2. /\ m \in ToolMsgs \cup SyncMsgs /\ m.step = sStep + 1 /\ m.map = sMap
      /\ m.at = Place /\ Place = Len(sWorld) + n + 1 /\ m.at \in Nat
      /\ sWorld' = sWorld /\ sMap' = sMap
      /\ m.type = "SYNC" => m.newmap = nMaps + 1 /\ nMaps' = nMaps + 1
      /\ m.type = "TOOL" => nMaps' = nMaps
  BY <1>1 DEF Schedules, Place
<1>3. sQueue' = Append(sQueue, m)
  BY ScheduleAppends
<1>4. /\ Len(sQueue') = n + 1 /\ sQueue'[n + 1] = m
      /\ \A i \in 1 .. n : sQueue'[i] = sQueue[i]
      /\ \A i \in 1 .. n + 1 : i \in 1 .. n \/ i = n + 1
  BY <1>1, <1>3
<1>5. \A i \in 1 .. n : First(i)' <=> First(i)
  BY <1>1, <1>4 DEF First
<1>6. First(n + 1)' <=> \A i \in 1 .. n : sQueue[i].type # "SYNC"
  BY <1>1, <1>4 DEF First
<1>7. Numbered(m)
  BY <1>1, <1>2 DEF Numbered
<1>8. Len(F) \in Nat /\ Len(sWorld) <= Len(F) /\ Rising(F, nMaps) /\ Agree(sWorld, F)
  BY ComingPlaces DEF Coming
<1>9. \A i \in 1 .. n : Numbered(sQueue[i]) /\ sQueue[i].at <= m.at /\ sQueue[i].at + 1 <= m.at
  <2> SUFFICES ASSUME NEW i \in 1 .. n
               PROVE  Numbered(sQueue[i]) /\ sQueue[i].at <= m.at /\ sQueue[i].at + 1 <= m.at
    OBVIOUS
  <2>1. /\ Numbered(sQueue[i]) /\ sQueue[i].step \in {sStep, sStep + 1}
        /\ sQueue[i].at = Len(sWorld) + i - 1 + (sQueue[i].step - sStep)
    BY QueueFacts
  <2> QED
    BY <2>1, <1>1, <1>2
<1>10. Len(F) <= m.at
  <2>1. CASE Len(F) = Len(sWorld)
    BY <2>1, <1>1, <1>2
  <2>2. CASE Len(F) # Len(sWorld)
    <3>1. PICK i \in 1 .. n : Len(F) = sQueue[i].at + 1
      BY <2>2 DEF Coming
    <3> QED
      BY <3>1, <1>9
  <2> QED
    BY <2>1, <2>2
<1>11. Rising(F, nMaps')
  <2>1. nMaps' = nMaps \/ nMaps' = nMaps + 1
    BY <1>2, InputTypes
  <2>2. CASE nMaps' = nMaps
    BY <2>2, <1>8
  <2>3. CASE nMaps' = nMaps + 1
    <3>1. \A p \in 1 .. Len(F) : \A x \in Nat : F[p] = Reload(x) =>
             /\ 0 < x /\ x <= nMaps /\ x <= nMaps + 1
             /\ \A q \in 1 .. p - 1 : \A y \in Nat : F[q] = Reload(y) => y < x
      BY <1>1, <1>8 DEF Rising
    <3> QED
      BY <3>1, <2>3 DEF Rising
  <2> QED
    BY <2>1, <2>2, <2>3
<1>12. MapIs(sWorld', Len(sWorld'), sMap')
  BY <1>2 DEF Coming
<1>13. CASE \E i \in 1 .. n : sQueue[i].type = "SYNC"
  <2>1. PICK k \in 1 .. n : sQueue[k].type = "SYNC" /\ First(k)
    <3> DEFINE T == {i \in 1 .. n : sQueue[i].type = "SYNC"}
    <3>1. T \in SUBSET Nat /\ T # {}
      BY <1>13
    <3>2. PICK k \in T : \A j \in T : k <= j
      BY <3>1, LeastNumber
    <3>3. \A j \in 1 .. k - 1 : j \in 1 .. n /\ ~(k <= j)
      BY <3>2, <1>1
    <3>4. First(k)
      BY <3>2, <3>3 DEF First
    <3> QED
      BY <3>2, <3>4
  <2>2. CutAway(F, m)
    <3>1. Right(F, sQueue[k]) /\ sQueue[k].map = sMap /\ sQueue[k].step <= m.step
      <4>1. sQueue[k].map = sMap /\ sQueue[k].step \in {sStep, sStep + 1}
        BY <2>1, QueueFacts
      <4> QED
        BY <2>1, <4>1, <1>1, <1>2 DEF Coming
    <3>2. /\ sQueue[k].at < Len(F) /\ F[sQueue[k].at + 1] = InputOf(sQueue[k])
          /\ Frames(F, sQueue[k].at) = sQueue[k].step /\ MapIs(F, sQueue[k].at, sQueue[k].map)
      BY <3>1 DEF Right
    <3>3. IsReload(InputOf(sQueue[k]))
      BY <2>1, QueueFacts, InputTypes
    <3>4. sQueue[k].at \in 0 .. m.at
      BY <2>1, <1>2, <1>9 DEF Numbered
    <3>5. IsReload(F[sQueue[k].at + 1]) /\ Frames(F, sQueue[k].at) <= m.step
          /\ MapIs(F, sQueue[k].at, m.map)
      BY <3>1, <3>2, <3>3, <1>2
    <3> QED
      BY <3>2, <3>4, <3>5 DEF CutAway
  <2>3. ~First(n + 1)'
    BY <2>1, <1>6
  <2>4. \A i \in 1 .. Len(sQueue') :
           /\ sQueue'[i].step > 0
           /\ First(i)' => Right(F, sQueue'[i])
           /\ ~First(i)' => CutAway(F, sQueue'[i])
    <3> SUFFICES ASSUME NEW i \in 1 .. Len(sQueue')
                 PROVE  /\ sQueue'[i].step > 0
                        /\ First(i)' => Right(F, sQueue'[i])
                        /\ ~First(i)' => CutAway(F, sQueue'[i])
      OBVIOUS
    <3>1. CASE i \in 1 .. n
      BY <3>1, <1>4, <1>5 DEF Coming
    <3>2. CASE i = n + 1
      <4>1. sQueue'[i] = m /\ m.step > 0
        BY <3>2, <1>1, <1>2, <1>4
      <4> QED
        BY <4>1, <3>2, <2>2, <2>3
    <3> QED
      BY <3>1, <3>2, <1>4
  <2>5. \A i \in 1 .. n : i \in 1 .. Len(sQueue')
    BY <1>1, <1>4
  <2>6. \A p \in Len(sWorld') + 1 .. Len(F) :
           F[p] = Frame \/ \E i \in 1 .. Len(sQueue') : First(i)' /\ p = sQueue'[i].at + 1
    BY <1>2, <1>4, <1>5, <2>5 DEF Coming
  <2>7. \/ Len(F) = Len(sWorld')
        \/ \E i \in 1 .. Len(sQueue') : First(i)' /\ Len(F) = sQueue'[i].at + 1
    BY <1>2, <1>4, <1>5, <2>5 DEF Coming
  <2>8. Agree(sWorld', F)
    BY <1>2, <1>8
  <2>9. Coming(F)'
    BY <2>4, <2>6, <2>7, <2>8, <1>11, <1>12 DEF Coming, Right, CutAway, IsReload
  <2>10. Agree(F, F) /\ \A p : p \notin Len(F) + 1 .. Len(F)
    BY <1>8 DEF Agree
  <2> QED
    BY <2>2, <2>9, <2>10, <1>10 DEF Placed
<1>14. CASE \A i \in 1 .. n : sQueue[i].type # "SYNC"
  <2>1. PICK H \in Worlds :
              /\ Agree(F, H) /\ \A p \in Len(F) + 1 .. Len(H) : H[p] = Frame
              /\ Len(H) = Place /\ Frames(H, Len(H)) = sStep + 1
              /\ Rising(H, nMaps) /\ MapIs(H, Len(H), sMap)
    BY <1>14, LogEnd
  <2> DEFINE G == Append(H, InputOf(m))
  <2>2. InputOf(m) \in Inputs /\ InputOf(m) # Frame
    BY <1>2, InputTypes
  <2>3. /\ G \in Worlds /\ Agree(H, G) /\ Len(G) = Len(H) + 1 /\ G[Len(H) + 1] = InputOf(m)
        /\ \A p \in 1 .. Len(H) : G[p] = H[p]
    BY <2>2, AgreeAppend
  <2>4. Rising(G, nMaps')
    <3>1. CASE m.type = "TOOL"
      <4>1. ~IsReload(InputOf(m)) /\ nMaps' = nMaps
        BY <3>1, <1>2, InputTypes
      <4> QED
        BY <4>1, <2>1, <2>2, <1>1, RisingAppend
    <3>2. CASE m.type = "SYNC"
      <4>1. InputOf(m) = Reload(nMaps + 1) /\ nMaps' = nMaps + 1
        BY <3>2, <1>2, InputTypes
      <4> QED
        BY <4>1, <2>1, <2>2, <1>1, RisingAppend
    <3> QED
      BY <3>1, <3>2, <1>2, InputTypes
  <2> HIDE DEF G
  <2>5. Agree(F, G)
    BY <2>1, <2>3, AgreeTransitive
  <2>6. Right(G, m)
    <3>1. Len(H) = m.at /\ Len(H) \in 0 .. Len(H)
      BY <2>1, <1>2
    <3>2. Frames(G, m.at) = sStep + 1 /\ MapIs(G, m.at, sMap)
      BY <3>1, <2>1, <2>3, AgreeFacts
    <3>3. m.at < Len(G) /\ G[m.at + 1] = InputOf(m)
      BY <3>1, <2>3, <1>2
    <3> QED
      BY <3>2, <3>3, <1>2 DEF Right
  <2>7. First(n + 1)'
    BY <1>6, <1>14
  <2>8. \A i \in 1 .. Len(sQueue') :
           /\ sQueue'[i].step > 0
           /\ First(i)' => Right(G, sQueue'[i])
           /\ ~First(i)' => CutAway(G, sQueue'[i])
    <3> SUFFICES ASSUME NEW i \in 1 .. Len(sQueue')
                 PROVE  /\ sQueue'[i].step > 0
                        /\ First(i)' => Right(G, sQueue'[i])
                        /\ ~First(i)' => CutAway(G, sQueue'[i])
      OBVIOUS
    <3>1. CASE i \in 1 .. n
      <4>1. /\ sQueue[i].step > 0
            /\ First(i) => Right(F, sQueue[i])
            /\ ~First(i) => CutAway(F, sQueue[i])
        BY <3>1 DEF Coming
      <4>2. Numbered(sQueue[i])
        BY <3>1, <1>9
      <4>3. (Right(F, sQueue[i]) => Right(G, sQueue[i])) /\ (CutAway(F, sQueue[i]) => CutAway(G, sQueue[i]))
        BY <4>2, <2>3, <2>5, PlacedStays
      <4> QED
        BY <4>1, <4>3, <3>1, <1>4, <1>5
    <3>2. CASE i = n + 1
      <4>1. sQueue'[i] = m /\ m.step > 0
        BY <3>2, <1>1, <1>2, <1>4
      <4> QED
        BY <4>1, <3>2, <2>6, <2>7
    <3> QED
      BY <3>1, <3>2, <1>4
  <2>9. \A i \in 1 .. n : i \in 1 .. Len(sQueue')
    BY <1>1, <1>4
  <2>10. Len(G) = m.at + 1 /\ Len(H) \in Nat /\ Len(F) <= Len(H)
    BY <2>1, <2>3, <1>2, AgreeFacts
  <2>11. n + 1 \in 1 .. Len(sQueue')
    BY <1>1, <1>4
  <2>12. \A p \in Len(sWorld') + 1 .. Len(G) :
           G[p] = Frame \/ \E i \in 1 .. Len(sQueue') : First(i)' /\ p = sQueue'[i].at + 1
    <3> SUFFICES ASSUME NEW p \in Len(sWorld) + 1 .. Len(G), G[p] # Frame
                 PROVE  \E i \in 1 .. Len(sQueue') : First(i)' /\ p = sQueue'[i].at + 1
      BY <1>2
    <3>1. p \in Len(sWorld) + 1 .. Len(F) \/ p \in Len(F) + 1 .. Len(H) \/ p = Len(H) + 1
      BY <2>3, <2>10, <1>1, <1>8
    <3>2. CASE p \in Len(sWorld) + 1 .. Len(F)
      <4>1. p \in 1 .. Len(F)
        BY <3>2, <1>1, <1>8
      <4>2. F[p] # Frame
        BY <4>1, <2>5 DEF Agree
      <4>3. PICK i \in 1 .. n : First(i) /\ p = sQueue[i].at + 1
        BY <4>2, <3>2 DEF Coming
      <4> QED
        BY <4>3, <2>9, <1>4, <1>5
    <3>3. CASE p \in Len(F) + 1 .. Len(H)
      <4>1. p \in 1 .. Len(H)
        BY <3>3, <1>8
      <4> QED
        BY <4>1, <3>3, <2>1, <2>3
    <3>4. CASE p = Len(H) + 1
      BY <3>4, <2>3, <2>7, <2>10, <2>11, <1>4
    <3> QED
      BY <3>1, <3>2, <3>3, <3>4
  <2>13. \E i \in 1 .. Len(sQueue') : First(i)' /\ Len(G) = sQueue'[i].at + 1
    BY <2>7, <2>10, <2>11, <1>4
  <2>14. Agree(sWorld', G)
    BY <1>2, <1>8, <2>3, <2>5, QueueFacts, AgreeTransitive
  <2>15. Coming(G)'
    BY <2>4, <2>8, <2>12, <2>13, <2>14, <1>12 DEF Coming, Right, CutAway, IsReload
  <2>16. \A p \in Len(F) + 1 .. Len(G) : G[p] = Frame \/ (Right(G, m) /\ m.at = p - 1)
    <3> SUFFICES ASSUME NEW p \in Len(F) + 1 .. Len(G)
                 PROVE  G[p] = Frame \/ (Right(G, m) /\ m.at = p - 1)
      OBVIOUS
    <3>1. CASE p \in Len(F) + 1 .. Len(H)
      <4>1. p \in 1 .. Len(H)
        BY <3>1, <1>8
      <4> QED
        BY <4>1, <3>1, <2>1, <2>3
    <3>2. CASE p = Len(H) + 1
      BY <3>2, <2>6, <2>1, <1>2
    <3>3. p \in Len(F) + 1 .. Len(H) \/ p = Len(H) + 1
      BY <2>3, <2>10, <1>8
    <3> QED
      BY <3>1, <3>2, <3>3
  <2> QED
    BY <2>3, <2>5, <2>6, <2>15, <2>16, <1>10 DEF Placed
<1> QED
  BY <1>13, <1>14

\* what a step makes of the log F
Goes(F, G) ==
    /\ UNCHANGED core => G = F
    /\ \/ /\ Agree(F, G)
          /\ \A p \in Len(F) + 1 .. Len(G) :
                G[p] # Frame => \E m : Schedules(m) /\ Right(G, m) /\ m.at = p - 1
       \/ \E new \in Nat : ServerReloads(new) /\ ForcedNow(new) /\ G = Append(sWorld, Reload(new))
    /\ \A new \in Nat : ServerReloads(new) /\ RunsSync(new) => G = F /\ sWorld' = F
    /\ \A m : Schedules(m) => Len(F) <= m.at /\ Placed(G, m)

\* The steps of the server tell themselves apart by the queue and the map counters.
LEMMA Kinds ==
    ASSUME IInv, SInv, LogInv
    PROVE  /\ UNCHANGED core => sMap' = sMap /\ sQueue' = sQueue /\ Len(sQueue') = Len(sQueue)
           /\ ServerFrame => sMap' = sMap /\ sQueue' = sQueue /\ sStep' = sStep + 1 /\ sStep' # sStep
           /\ ServerRunsTool => sMap' = sMap /\ Len(sQueue') < Len(sQueue)
           /\ \A m : Schedules(m) => /\ sMap' = sMap /\ sQueue' = Append(sQueue, m)
                                     /\ Len(sQueue') = Len(sQueue) + 1
                                     /\ sQueue'[Len(sQueue) + 1] = m
           /\ \A new \in Nat : Reloads(new) =>
                 sMap < sMap' /\ sMap' = new /\ sMap' # sMap /\ Len(sQueue') = 0
           /\ \A new : RunsSync(new) => nMaps' = nMaps
           /\ \A new : ForcedNow(new) => nMaps' # nMaps
           /\ Len(sQueue) \in Nat
<1>1. sQueue \in Seq(ToolMsgs \cup SyncMsgs) /\ Len(sQueue) \in Nat /\ sStep \in Nat
      /\ sMap \in Nat /\ nMaps \in Nat /\ sMap <= nMaps
  BY QueueFacts
<1>2. UNCHANGED core => sMap' = sMap /\ sQueue' = sQueue /\ Len(sQueue') = Len(sQueue)
  BY DEF core
<1>3. ServerFrame => sMap' = sMap /\ sQueue' = sQueue /\ sStep' = sStep + 1 /\ sStep' # sStep
  BY <1>1 DEF ServerFrame
<1>4. ServerRunsTool => sMap' = sMap /\ Len(sQueue') < Len(sQueue)
  <2> SUFFICES ASSUME ServerRunsTool PROVE sMap' = sMap /\ Len(sQueue') < Len(sQueue)
    OBVIOUS
  <2>1. sMap' = sMap /\ sQueue' = Tail(sQueue) /\ sQueue # <<>>
    BY ServerRunsDueTool
  <2>2. Len(Tail(sQueue)) = Len(sQueue) - 1
    BY <1>1, <2>1
  <2> QED
    BY <1>1, <2>1, <2>2
<1>5. ASSUME NEW m, Schedules(m)
      PROVE  /\ sMap' = sMap /\ sQueue' = Append(sQueue, m)
             /\ Len(sQueue') = Len(sQueue) + 1 /\ sQueue'[Len(sQueue) + 1] = m
  <2>1. sQueue' = Append(sQueue, m)
    BY <1>5, ScheduleAppends
  <2>2. sMap' = sMap
    BY <1>5 DEF Schedules
  <2> QED
    BY <1>1, <2>1, <2>2
<1>6. ASSUME NEW new \in Nat, Reloads(new)
      PROVE  sMap < sMap' /\ sMap' = new /\ sMap' # sMap /\ Len(sQueue') = 0
  <2>1. sMap' = new /\ sQueue' = <<>>
    BY <1>6 DEF Reloads, ServerReloads
  <2>2. sMap < new
    <3>1. CASE ForcedNow(new)
      BY <3>1, <1>1 DEF ForcedNow
    <3>2. CASE RunsSync(new)
      <4>1. /\ Head(sQueue) = sQueue[1] /\ 1 \in 1 .. Len(sQueue) /\ Head(sQueue).map = sMap
            /\ Head(sQueue).type = "SYNC" /\ new = Head(sQueue).newmap
        BY <3>2, DueCommandRuns DEF RunsSync
      <4>2. sQueue[1].map < sQueue[1].newmap
        BY <4>1 DEF LogInv, QueueReports
      <4> QED
        BY <4>1, <4>2
    <3> QED
      BY <3>1, <3>2, <1>6 DEF Reloads
  <2> QED
    BY <2>1, <2>2, <1>1
<1>7. \A new : (RunsSync(new) => nMaps' = nMaps) /\ (ForcedNow(new) => nMaps' # nMaps)
  BY <1>1 DEF RunsSync, ForcedNow
<1> QED
  BY <1>1, <1>2, <1>3, <1>4, <1>5, <1>6, <1>7

\* only a step that schedules a command schedules one
LEMMA NothingScheduled ==
    ASSUME IInv, SInv, LogInv,
           UNCHANGED core \/ ServerFrame \/ ServerRunsTool \/ \E new \in Nat : Reloads(new)
    PROVE  \A m : ~Schedules(m)
<1> SUFFICES ASSUME NEW m, Schedules(m) PROVE FALSE
  OBVIOUS
<1>1. Len(sQueue') = Len(sQueue) + 1 /\ Len(sQueue) \in Nat /\ sMap' = sMap
  BY Kinds
<1>2. Len(sQueue') = Len(sQueue) \/ Len(sQueue') < Len(sQueue) \/ sMap' # sMap
  BY Kinds
<1> QED
  BY <1>1, <1>2

LEMMA LogGoes ==
    ASSUME IInv, SInv, LogInv, NEW F \in Worlds, Coming(F), [Next]_vars
    PROVE  \E G \in Worlds : Coming(G)' /\ Goes(F, G)
<1>0. Agree(F, F) /\ \A p : p \notin Len(F) + 1 .. Len(F)
  BY DEF Agree, Worlds
<1>1. CASE UNCHANGED core
  <2>1. Coming(F)'
    <3>1. sWorld' = sWorld /\ sQueue' = sQueue /\ nMaps' = nMaps /\ sMap' = sMap
      BY <1>1 DEF core
    <3> QED
      BY <3>1 DEF Coming, First, Right, CutAway, IsReload
  <2>2. \A m : ~Schedules(m)
    BY <1>1, NothingScheduled
  <2>3. \A new \in Nat : ~(ServerReloads(new) /\ RunsSync(new))
    BY <1>1, Kinds DEF Reloads
  <2> QED
    BY <2>1, <2>2, <2>3, <1>0 DEF Goes
<1>2. CASE ServerFrame
  <2>1. PICK G \in Worlds : /\ Coming(G)' /\ Agree(F, G)
                            /\ \A p \in Len(F) + 1 .. Len(G) : G[p] = Frame
    BY <1>2, ComingFrame
  <2>2. \A m : ~Schedules(m)
    BY <1>2, NothingScheduled
  <2>3. \A new \in Nat : ~(ServerReloads(new) /\ RunsSync(new))
    BY <1>2, Kinds DEF Reloads
  <2>4. ~UNCHANGED core
    BY <1>2, Kinds DEF core
  <2> QED
    BY <2>1, <2>2, <2>3, <2>4 DEF Goes
<1>3. ASSUME NEW m \in ToolMsgs \cup SyncMsgs, Schedules(m)
      PROVE  \E G \in Worlds : Coming(G)' /\ Goes(F, G)
  <2>1. PICK G \in Worlds :
              /\ Coming(G)' /\ Agree(F, G) /\ Len(F) <= m.at /\ Placed(G, m)
              /\ \A p \in Len(F) + 1 .. Len(G) : G[p] = Frame \/ (Right(G, m) /\ m.at = p - 1)
    BY <1>3, ComingSchedules
  <2>2. \A x : Schedules(x) => x = m
    BY <1>3, Kinds
  <2>3. \A new \in Nat : ~(ServerReloads(new) /\ RunsSync(new))
    BY <1>3, Kinds DEF Reloads
  <2>4. ~UNCHANGED core
    <3>1. Len(sQueue') = Len(sQueue) + 1 /\ Len(sQueue) \in Nat
      BY <1>3, Kinds
    <3> QED
      BY <3>1 DEF core
  <2> QED
    BY <1>3, <2>1, <2>2, <2>3, <2>4 DEF Goes
<1>4. CASE ServerRunsTool
  <2>1. Coming(F)'
    BY <1>4, ComingRunsTool
  <2>2. \A m : ~Schedules(m)
    BY <1>4, NothingScheduled
  <2>3. \A new \in Nat : ~(ServerReloads(new) /\ RunsSync(new))
    BY <1>4, Kinds DEF Reloads
  <2> QED
    BY <2>1, <2>2, <2>3, <1>0 DEF Goes
<1>5. ASSUME NEW new \in Nat, Reloads(new)
      PROVE  \E G \in Worlds : Coming(G)' /\ Goes(F, G)
  <2>1. \A m : ~Schedules(m)
    BY <1>5, NothingScheduled
  <2>2. ServerReloads(new) /\ ~UNCHANGED core
    BY <1>5, Kinds DEF Reloads, core
  <2>3. CASE RunsSync(new)
    <3>1. Coming(F)' /\ sWorld' = F
      BY <2>2, <2>3, ComingRunsSync
    <3> QED
      BY <3>1, <2>1, <1>0 DEF Goes
  <2>4. CASE ForcedNow(new)
    <3>1. PICK G \in Worlds : Coming(G)' /\ G = Append(sWorld, Reload(new))
      BY <2>2, <2>4, ComingForced
    <3>2. \A x \in Nat : ~(ServerReloads(x) /\ RunsSync(x))
      BY <2>4, Kinds
    <3> QED
      BY <3>1, <3>2, <2>1, <2>2, <2>4 DEF Goes
  <2> QED
    BY <2>3, <2>4, <1>5 DEF Reloads
<1> QED
  BY <1>1, <1>2, <1>3, <1>4, <1>5, NextIsGlobal

-----------------------------------------------------------------------------
(* What keeps a world part of the log.                                     *)

LEMMA CommandNumbers ==
    ASSUME NEW m \in ToClientMsgs, Command(m)
    PROVE  /\ m \in ToolMsgs \cup SyncMsgs /\ Numbered(m)
           /\ m.at \in Nat /\ m.step \in Nat /\ m.map \in Nat
<1>1. m \in ToolMsgs \cup SyncMsgs
  BY MessageTypes DEF Command
<1> QED
  BY <1>1 DEF ToolMsgs, SyncMsgs, Numbered

\* The log goes on, messages come and go, and of those that go none is needed.
LEMMA FollowsMoves ==
    ASSUME NEW F \in Worlds, NEW G \in Worlds, Agree(F, G), NEW w \in Worlds, NEW k, NEW map,
           NEW base, NEW later \in Nat, NEW M \in SUBSET ToClientMsgs, NEW N, NEW live, NEW then,
           Follows(F, w, k, map, base, M, live), k <= later,
           \A n \in Nat : Hears(N, then, later, n) => Hears(M, live, base, n),
           \A m \in M : Command(m) /\ Right(F, m) /\ Len(w) <= m.at
                           /\ Hears(N, then, later, m.step) => m \in N,
           \A m \in N : Command(m) /\ m \notin M => Len(w) <= m.at,
           \A p \in Len(F) + 1 .. Len(G) : G[p] # Frame /\ Hears(N, then, later, Frames(G, p)) =>
              \E m \in N : Command(m) /\ Right(G, m) /\ m.at = p - 1
    PROVE  Follows(G, w, k, map, later, N, then)
<1>1. Len(F) \in Nat /\ Len(G) \in Nat /\ Len(w) \in Nat /\ Len(F) <= Len(G)
  BY AgreeFacts DEF Worlds
<1>2. /\ Agree(w, F) /\ Frames(F, Len(w)) = k /\ 0 < k
      /\ MapIs(F, Len(w), map)
      /\ \A p \in Len(w) + 1 .. Len(F) : F[p] # Frame /\ Hears(M, live, base, Frames(F, p)) =>
            \E m \in M : Command(m) /\ Right(F, m) /\ m.at = p - 1
      /\ \A m \in M : Command(m) /\ m.map = map => Len(w) <= m.at
  BY DEF Follows
<1>3. Len(w) \in 0 .. Len(F)
  BY <1>1, <1>2 DEF Agree
<1>4. Agree(w, G)
  BY <1>2, AgreeTransitive
<1>5. Frames(G, Len(w)) = k /\ MapIs(G, Len(w), map)
  BY <1>2, <1>3, AgreeFacts
<1>6. ASSUME NEW p \in Len(w) + 1 .. Len(G), G[p] # Frame, Hears(N, then, later, Frames(G, p))
      PROVE  \E m \in N : Command(m) /\ Right(G, m) /\ m.at = p - 1
  <2>1. CASE p \in Len(F) + 1 .. Len(G)
    BY <2>1, <1>6
  <2>2. CASE p \notin Len(F) + 1 .. Len(G)
    <3>1. p \in Len(w) + 1 .. Len(F) /\ p \in 1 .. Len(F) /\ p - 1 \in Nat /\ (p - 1) + 1 = p /\ p \in 0 .. Len(F)
      BY <2>2, <1>1
    <3>2. F[p] # Frame /\ Frames(G, p) = Frames(F, p) /\ Frames(F, p) \in Nat
      <4>1. F[p] # Frame
        BY <3>1, <1>6 DEF Agree
      <4>2. Frames(G, p) = Frames(F, p)
        BY <3>1, AgreeFacts
      <4>3. p \in Nat
        BY <3>1, <1>1
      <4> QED
        BY <4>1, <4>2, <4>3, FramesType
    <3>3. Hears(M, live, base, Frames(F, p))
      BY <3>2, <1>6
    <3>4. PICK m \in M : Command(m) /\ Right(F, m) /\ m.at = p - 1
      BY <3>1, <3>2, <3>3, <1>2
    <3>5. Numbered(m)
      BY <3>4, CommandNumbers
    <3>6. m.step = Frames(F, p)
      <4>1. Frames(F, (p - 1) + 1) = Frames(F, p - 1)
        BY <3>1, <3>2, FramesStep
      <4> QED
        BY <4>1, <3>1, <3>4 DEF Right
    <3>7. Len(w) <= m.at
      BY <3>1, <3>4, <1>1
    <3>8. m \in N
      BY <3>2, <3>4, <3>6, <3>7, <1>6
    <3>9. Right(G, m)
      BY <3>4, <3>5, PlacedStays
    <3> QED
      BY <3>4, <3>8, <3>9
  <2> QED
    BY <2>1, <2>2
<1>7. \A m \in N : Command(m) /\ m.map = map => Len(w) <= m.at
  BY <1>2
<1> QED
  BY <1>2, <1>4, <1>5, <1>6, <1>7 DEF Follows

\* What is coming is replaced: that is nothing to who has not heard of that step.
LEMMA FollowsForced ==
    ASSUME NEW F \in Worlds, NEW G \in Worlds, NEW v \in Worlds, Agree(v, F), Agree(v, G),
           NEW w \in Worlds, NEW k \in Nat, NEW map, NEW base \in Nat,
           NEW M \in SUBSET ToClientMsgs, NEW live, Follows(F, w, k, map, base, M, live),
           ~live, base < Frames(v, Len(v)),
           \A a \in M : Announces(a) => a.sstep < Frames(v, Len(v))
    PROVE  Follows(G, w, k, map, base, M, live)
<1> DEFINE s == Frames(v, Len(v))
<1>1. /\ Len(F) \in Nat /\ Len(G) \in Nat /\ Len(w) \in Nat /\ Len(v) \in Nat
      /\ Len(v) <= Len(F) /\ Len(v) <= Len(G) /\ s \in Nat
  <2>1. Len(v) \in Nat /\ Len(w) \in Nat
    BY DEF Worlds
  <2>2. s \in Nat
    BY <2>1, FramesType
  <2> QED
    BY <2>1, <2>2, AgreeFacts
<1>2. /\ Agree(w, F) /\ Frames(F, Len(w)) = k /\ 0 < k /\ k <= base
      /\ MapIs(F, Len(w), map)
      /\ \A p \in Len(w) + 1 .. Len(F) : F[p] # Frame /\ Hears(M, live, base, Frames(F, p)) =>
            \E m \in M : Command(m) /\ Right(F, m) /\ m.at = p - 1
      /\ \A m \in M : Command(m) /\ m.map = map => Len(w) <= m.at
  BY DEF Follows
<1>3. Frames(F, Len(v)) = s /\ Frames(G, Len(v)) = s
  <2>1. Len(v) \in 0 .. Len(v)
    BY <1>1
  <2> QED
    BY <2>1, AgreeFacts
<1>4. \A n \in Nat : Hears(M, live, base, n) => n < s
  <2> SUFFICES ASSUME NEW n \in Nat, Hears(M, live, base, n) PROVE n < s
    OBVIOUS
  <2>1. CASE n <= base
    BY <2>1, <1>1
  <2>2. CASE ~(n <= base)
    <3>1. PICK a \in M : Announces(a) /\ n <= a.sstep
      BY <2>2 DEF Hears
    <3>2. a.sstep \in Nat /\ a.sstep < s
      BY <3>1, MessageNumbers
    <3> QED
      BY <3>1, <3>2, <1>1
  <2> QED
    BY <2>1, <2>2
<1> HIDE DEF s
<1>5. Len(w) < Len(v)
  <2> SUFFICES ASSUME Len(v) <= Len(w) PROVE FALSE
    BY <1>1
  <2>1. Frames(F, Len(v)) <= Frames(F, Len(w))
    BY <1>1, FramesMonotone
  <2>2. k < s
    <3>1. base < s
      BY DEF s
    <3> QED
      BY <3>1, <1>1, <1>2
  <2> QED
    BY <2>1, <2>2, <1>1, <1>2, <1>3
<1>6. \A p \in 1 .. Len(v) : F[p] = v[p] /\ G[p] = v[p]
  BY DEF Agree
<1>7. Agree(w, G)
  BY <1>1, <1>2, <1>5, <1>6 DEF Agree
<1>8. ASSUME NEW n \in 0 .. Len(v)
      PROVE  Frames(G, n) = Frames(F, n) /\ \A l : MapIs(G, n, l) <=> MapIs(F, n, l)
  <2>1. Frames(v, n) = Frames(F, n) /\ Frames(v, n) = Frames(G, n)
    BY <1>8, AgreeFacts
  <2>2. \A l : (MapIs(v, n, l) <=> MapIs(F, n, l)) /\ (MapIs(v, n, l) <=> MapIs(G, n, l))
    BY <1>8, AgreeFacts
  <2> QED
    BY <2>1, <2>2
<1>9. Frames(G, Len(w)) = k /\ MapIs(G, Len(w), map)
  <2>1. Len(w) \in 0 .. Len(v)
    BY <1>1, <1>5
  <2> QED
    BY <2>1, <1>2, <1>8
<1>10. ASSUME NEW p \in Len(w) + 1 .. Len(G), G[p] # Frame, Hears(M, live, base, Frames(G, p))
       PROVE  \E m \in M : Command(m) /\ Right(G, m) /\ m.at = p - 1
  <2>1. p \in Nat /\ Frames(G, p) \in Nat /\ Frames(G, p) < s
    <3>1. p \in Nat
      BY <1>1
    <3> QED
      BY <3>1, <1>4, <1>10, FramesType
  <2>2. p <= Len(v)
    <3> SUFFICES ASSUME Len(v) <= p PROVE FALSE
      BY <2>1, <1>1
    <3>1. Frames(G, Len(v)) <= Frames(G, p)
      BY <2>1, <1>1, FramesMonotone
    <3> QED
      BY <3>1, <2>1, <1>1, <1>3
  <2>3. p \in Len(w) + 1 .. Len(F) /\ p \in 1 .. Len(v) /\ p \in 0 .. Len(v)
    BY <2>1, <2>2, <1>1
  <2>4. PICK m \in M : Command(m) /\ Right(F, m) /\ m.at = p - 1
    BY <2>3, <1>2, <1>6, <1>8, <1>10
  <2>5. m.at + 1 = p /\ m.at \in 0 .. Len(v) /\ m.at < Len(G)
    BY <2>1, <2>2, <2>3, <2>4, <1>1
  <2>6. Right(G, m)
    <3>1. G[m.at + 1] = F[m.at + 1]
      BY <2>3, <2>5, <1>6
    <3> QED
      BY <3>1, <2>4, <2>5, <1>8 DEF Right
  <2> QED
    BY <2>4, <2>6
<1> QED
  BY <1>2, <1>7, <1>9, <1>10 DEF Follows

\* A due command of the world that runs is the next input of the log.
LEMMA HeadIsNext ==
    ASSUME NEW F \in Worlds, NEW b, Rising(F, b), NEW w \in Worlds, NEW k \in Nat,
           NEW map \in Nat, NEW base \in Nat, NEW M \in SUBSET ToClientMsgs, NEW live,
           Follows(F, w, k, map, base, M, live),
           NEW m \in M, Command(m), m.step = k, m.map = map, Placed(F, m),
           \A y \in M : Command(y) => y = m \/ Earlier(m, y)
    PROVE  Right(F, m) /\ m.at = Len(w)
<1>1. Len(F) \in Nat /\ Len(w) \in Nat /\ Len(w) <= Len(F) /\ Numbered(m) /\ m.at \in Nat
  <2>1. Numbered(m)
    BY CommandNumbers
  <2> QED
    BY <2>1 DEF Worlds, Follows, Agree, Numbered
<1>2. /\ Frames(F, Len(w)) = k /\ k <= base /\ MapIs(F, Len(w), map)
      /\ \A p \in Len(w) + 1 .. Len(F) : F[p] # Frame /\ Hears(M, live, base, Frames(F, p)) =>
            \E y \in M : Command(y) /\ Right(F, y) /\ y.at = p - 1
      /\ Len(w) <= m.at
  BY DEF Follows
<1>3. Len(w) < Len(F) /\ F[Len(w) + 1] # Frame
  <2>1. CASE Right(F, m)
    <3>1. m.at < Len(F) /\ F[m.at + 1] = InputOf(m) /\ Frames(F, m.at) = k
      BY <2>1 DEF Right
    <3>2. CASE m.at = Len(w)
      BY <3>1, <3>2, CommandNumbers, InputTypes
    <3>3. CASE m.at # Len(w)
      <4>1. Len(w) + 1 \in Len(w) + 1 .. m.at
        BY <3>3, <1>1, <1>2
      <4>2. F[Len(w) + 1] # Frame
        BY <4>1, <3>1, <1>1, <1>2, NoFrameBetween
      <4> QED
        BY <4>2, <3>1, <1>1, <1>2
    <3> QED
      BY <3>2, <3>3
  <2>2. CASE CutAway(F, m)
    <3>1. PICK p \in 0 .. m.at : /\ p < Len(F) /\ IsReload(F[p + 1])
                                 /\ Frames(F, p) <= m.step /\ MapIs(F, p, m.map)
      BY <2>2 DEF CutAway
    <3>2. p \in Nat
      BY <1>1
    <3>3. CASE p < Len(w)
      <4>1. PICK x \in Nat : F[p + 1] = Reload(x)
        BY <3>1 DEF IsReload
      <4>2. map < x
        <5>1. p + 1 <= Len(F)
          BY <3>1, <3>2, <1>1
        <5> QED
          BY <5>1, <4>1, <3>1, <3>2, <1>1, MapReloads
      <4>3. x <= map
        <5>1. p + 1 \in 1 .. Len(w)
          BY <3>2, <3>3, <1>1
        <5> QED
          BY <5>1, <4>1, <1>2 DEF MapIs
      <4> QED
        BY <4>1, <4>2, <4>3
    <3>4. CASE p = Len(w)
      BY <3>1, <3>4, ReloadTags
    <3>5. CASE Len(w) < p
      <4>0. Frames(F, p) \in Nat /\ Len(w) <= p
        <5>1. Frames(F, p) \in Nat
          BY <3>2, FramesType
        <5>2. Len(w) <= p
          BY <3>2, <3>5, <1>1
        <5> QED
          BY <5>1, <5>2
      <4>1. Frames(F, Len(w)) <= Frames(F, p) /\ Frames(F, p) \in Nat
        BY <4>0, <3>2, <1>1, FramesMonotone
      <4>2. Frames(F, p) = k
        BY <4>1, <3>1, <1>2
      <4>3. Len(w) + 1 \in Len(w) + 1 .. p
        BY <3>2, <3>5, <1>1
      <4>4. F[Len(w) + 1] # Frame
        BY <4>2, <4>3, <3>2, <3>5, <1>1, <1>2, NoFrameBetween
      <4> QED
        BY <4>4, <3>1, <3>2, <3>5, <1>1
    <3> QED
      BY <3>2, <3>3, <3>4, <3>5, <1>1
  <2> QED
    BY <2>1, <2>2 DEF Placed
<1>4. PICK y \in M : Command(y) /\ Right(F, y) /\ y.at = Len(w)
  <2>1. Frames(F, Len(w) + 1) = k
    BY <1>1, <1>2, <1>3, FramesStep
  <2>2. Len(w) + 1 \in Len(w) + 1 .. Len(F) /\ (Len(w) + 1) - 1 = Len(w)
    BY <1>1, <1>3
  <2>3. Hears(M, live, base, k)
    BY <1>2 DEF Hears
  <2> QED
    BY <2>1, <2>2, <2>3, <1>2, <1>3
<1>5. y = m
  <2> SUFFICES ASSUME y # m PROVE FALSE
    OBVIOUS
  <2>1. Earlier(m, y)
    BY <1>4
  <2>2. y.map = map
    <3>1. y.map \in Nat
      BY <1>4, CommandNumbers
    <3>2. MapIs(F, Len(w), y.map)
      BY <1>4 DEF Right
    <3> QED
      BY <3>1, <3>2, <1>1, <1>2, MapGrows
  <2>3. m.at < y.at
    BY <2>1, <2>2, <1>4 DEF Earlier
  <2> QED
    BY <2>3, <1>1, <1>2, <1>4
<1> QED
  BY <1>4, <1>5

\* The command is run, which is no reload.
LEMMA FollowsTool ==
    ASSUME NEW F \in Worlds, NEW w \in Worlds, NEW k \in Nat,
           NEW map \in Nat, NEW base \in Nat, NEW M \in SUBSET ToClientMsgs, NEW live,
           Follows(F, w, k, map, base, M, live),
           NEW m \in M, Right(F, m), m.at = Len(w), Command(m), m.type = "TOOL",
           NEW N, M = N \cup {m}, \A y \in N : Command(y) => Earlier(m, y), m.map = map
    PROVE  Follows(F, Append(w, InputOf(m)), k, map, base, N, live)
<1>1. /\ Len(F) \in Nat /\ Len(w) \in Nat /\ m.at < Len(F) /\ F[Len(w) + 1] = InputOf(m)
  BY DEF Worlds, Right
<1>2. InputOf(m) \in Inputs /\ InputOf(m) # Frame /\ ~IsReload(InputOf(m))
  BY CommandNumbers, InputTypes
<1> DEFINE v == Append(w, InputOf(m))
<1>3. /\ v \in Worlds /\ Len(v) = Len(w) + 1 /\ v[Len(w) + 1] = InputOf(m)
      /\ \A p \in 1 .. Len(w) : v[p] = w[p]
  BY <1>2, AgreeAppend
<1> HIDE DEF v
<1>4. /\ Agree(w, F) /\ Frames(F, Len(w)) = k /\ 0 < k /\ k <= base
      /\ MapIs(F, Len(w), map)
      /\ \A p \in Len(w) + 1 .. Len(F) : F[p] # Frame /\ Hears(M, live, base, Frames(F, p)) =>
            \E y \in M : Command(y) /\ Right(F, y) /\ y.at = p - 1
      /\ \A y \in M : Command(y) /\ y.map = map => Len(w) <= y.at
  BY DEF Follows
<1>5. Agree(v, F)
  <2>1. \A p \in 1 .. Len(v) : p \in 1 .. Len(w) \/ p = Len(w) + 1
    BY <1>1, <1>3
  <2>2. Len(v) <= Len(F)
    BY <1>1, <1>3
  <2> QED
    BY <2>1, <2>2, <1>1, <1>3, <1>4 DEF Agree
<1>6. Frames(F, Len(v)) = k /\ MapIs(F, Len(v), map)
  BY <1>1, <1>2, <1>3, <1>4, FramesStep, MapNext
<1>7. \A n : Hears(N, live, base, n) => Hears(M, live, base, n)
  BY DEF Hears
<1>8. ASSUME NEW p \in Len(v) + 1 .. Len(F), F[p] # Frame, Hears(N, live, base, Frames(F, p))
      PROVE  \E y \in N : Command(y) /\ Right(F, y) /\ y.at = p - 1
  <2>1. p \in Len(w) + 1 .. Len(F) /\ p - 1 # Len(w)
    BY <1>1, <1>3
  <2>2. PICK y \in M : Command(y) /\ Right(F, y) /\ y.at = p - 1
    BY <2>1, <1>4, <1>7, <1>8
  <2>3. y # m
    BY <2>1, <2>2
  <2> QED
    BY <2>2, <2>3
<1>9. ASSUME NEW y \in N, Command(y), y.map = map PROVE Len(v) <= y.at
  <2>1. Earlier(m, y)
    BY <1>9
  <2>2. y.at \in Nat
    BY <1>9, CommandNumbers
  <2>3. m.at < y.at
    BY <2>1, <1>9 DEF Earlier
  <2> QED
    BY <2>2, <2>3, <1>1, <1>3
<1>10. Follows(F, v, k, map, base, N, live)
  BY <1>4, <1>5, <1>6, <1>8, <1>9 DEF Follows
<1> QED
  BY <1>10 DEF v

\* A due command that was made for another map is none that is needed.
LEMMA OtherMapIsNotNeeded ==
    ASSUME NEW F \in Worlds, NEW b, Rising(F, b), NEW w \in Worlds, NEW k \in Nat,
           NEW map \in Nat, NEW base \in Nat, NEW M \in SUBSET ToClientMsgs, NEW live,
           Follows(F, w, k, map, base, M, live),
           NEW m \in M, Command(m), m.step = k, m.map # map,
           \A y \in M : Command(y) => y = m \/ Earlier(m, y),
           \A y \in M : y.type = "SYNC" => y.map < y.newmap
    PROVE  ~(Right(F, m) /\ Len(w) <= m.at)
<1> SUFFICES ASSUME Right(F, m), Len(w) <= m.at PROVE FALSE
  OBVIOUS
<1>1. Len(F) \in Nat /\ Len(w) \in Nat /\ Numbered(m) /\ m.at \in Nat /\ m.map \in Nat
  BY CommandNumbers DEF Worlds
<1>2. /\ Frames(F, Len(w)) = k /\ k <= base /\ MapIs(F, Len(w), map)
      /\ \A p \in Len(w) + 1 .. Len(F) : F[p] # Frame /\ Hears(M, live, base, Frames(F, p)) =>
            \E y \in M : Command(y) /\ Right(F, y) /\ y.at = p - 1
  BY DEF Follows
<1>3. m.at < Len(F) /\ Frames(F, m.at) = k /\ MapIs(F, m.at, m.map)
  BY DEF Right
<1>4. PICK p \in Len(w) + 1 .. m.at : IsReload(F[p])
  <2> SUFFICES ASSUME \A p \in Len(w) + 1 .. m.at : ~IsReload(F[p]) PROVE FALSE
    OBVIOUS
  <2>1. MapIs(F, m.at, map)
    BY <1>1, <1>2, MapBetween
  <2> QED
    BY <2>1, <1>1, <1>3, MapGrows
<1>5. p \in Nat /\ p \in Len(w) + 1 .. Len(F) /\ p - 1 \in Nat /\ p \in 1 .. m.at
  BY <1>1, <1>3
<1>6. F[p] # Frame /\ Frames(F, p) = k
  BY <1>1, <1>2, <1>3, NoFrameBetween
<1>7. PICK y \in M : Command(y) /\ Right(F, y) /\ y.at = p - 1
  <2>1. Hears(M, live, base, k)
    BY <1>2 DEF Hears
  <2> QED
    BY <2>1, <1>2, <1>5, <1>6
<1>8. y.type = "SYNC" /\ y.newmap \in Nat /\ F[p] = Reload(y.newmap) /\ y.map \in Nat
  <2>1. F[p] = InputOf(y)
    BY <1>5, <1>7 DEF Right
  <2>2. y \in ToolMsgs \cup SyncMsgs /\ y.map \in Nat
    BY <1>7, CommandNumbers
  <2>3. y.type # "TOOL"
    BY <2>1, <2>2, <1>4, InputTypes
  <2> QED
    BY <2>1, <2>2, <2>3, InputTypes
<1>9. y.newmap <= m.map
  BY <1>3, <1>5, <1>8 DEF MapIs
<1>10. y # m
  BY <1>1, <1>5, <1>7
<1>11. m.map <= y.map
  BY <1>7, <1>10 DEF Earlier
<1>12. y.map < y.newmap
  BY <1>8
<1> QED
  BY <1>1, <1>8, <1>9, <1>11, <1>12

\* A reload is run: of the commands it drops none is behind it in the log.
LEMMA FollowsSync ==
    ASSUME NEW F \in Worlds, NEW b, Rising(F, b), NEW w \in Worlds, NEW k \in Nat,
           NEW map \in Nat, NEW base \in Nat, NEW M \in SUBSET ToClientMsgs, NEW live,
           Follows(F, w, k, map, base, M, live),
           NEW m \in M, Right(F, m), m.at = Len(w), Command(m), m.type = "SYNC",
           NEW N, NEW D, M = N \cup D, \A y \in D : Command(y) => y.map = map,
           \A y \in N : Command(y) => Placed(F, y)
    PROVE  Follows(F, Append(w, InputOf(m)), k, m.newmap, k, N, live)
<1>1. /\ Len(F) \in Nat /\ Len(w) \in Nat /\ m.at < Len(F) /\ F[Len(w) + 1] = InputOf(m)
  BY DEF Worlds, Right
<1>2. InputOf(m) \in Inputs /\ InputOf(m) = Reload(m.newmap) /\ m.newmap \in Nat
  BY CommandNumbers, InputTypes
<1> DEFINE v == Append(w, InputOf(m))
<1>3. /\ v \in Worlds /\ Len(v) = Len(w) + 1 /\ v[Len(w) + 1] = InputOf(m)
      /\ \A p \in 1 .. Len(w) : v[p] = w[p]
  BY <1>2, AgreeAppend
<1> HIDE DEF v
<1>4. /\ Agree(w, F) /\ Frames(F, Len(w)) = k /\ 0 < k /\ k <= base
      /\ MapIs(F, Len(w), map)
      /\ \A p \in Len(w) + 1 .. Len(F) : F[p] # Frame /\ Hears(M, live, base, Frames(F, p)) =>
            \E y \in M : Command(y) /\ Right(F, y) /\ y.at = p - 1
  BY DEF Follows
<1>5. Agree(v, F)
  <2>1. \A p \in 1 .. Len(v) : p \in 1 .. Len(w) \/ p = Len(w) + 1
    BY <1>1, <1>3
  <2>2. Len(v) <= Len(F)
    BY <1>1, <1>3
  <2> QED
    BY <2>1, <2>2, <1>1, <1>3, <1>4 DEF Agree
<1>6. Frames(F, Len(v)) = k
  BY <1>1, <1>2, <1>3, <1>4, ReloadTags, FramesStep
<1>7. MapIs(F, Len(v), m.newmap) /\ map < m.newmap
  <2>1. Len(w) + 1 <= Len(F) /\ F[Len(w) + 1] = Reload(m.newmap)
    BY <1>1, <1>2
  <2> QED
    BY <2>1, <1>1, <1>2, <1>3, <1>4, MapReloads
<1>8. \A n \in Nat : Hears(N, live, k, n) => Hears(M, live, base, n)
  BY <1>4 DEF Hears
<1>9. ASSUME NEW p \in Len(v) + 1 .. Len(F), F[p] # Frame, Hears(N, live, k, Frames(F, p))
      PROVE  \E y \in N : Command(y) /\ Right(F, y) /\ y.at = p - 1
  <2>1. p \in Len(w) + 1 .. Len(F) /\ p \in Nat /\ p - 1 \in Nat /\ Len(v) <= p - 1
    BY <1>1, <1>3
  <2>2. Frames(F, p) \in Nat
    BY <2>1, FramesType
  <2>3. PICK y \in M : Command(y) /\ Right(F, y) /\ y.at = p - 1
    BY <2>1, <2>2, <1>4, <1>8, <1>9
  <2>4. m.newmap <= y.map
    <3>1. y.map \in Nat /\ MapIs(F, y.at, y.map)
      BY <2>3, CommandNumbers DEF Right
    <3>2. Len(v) \in Nat
      BY <1>1, <1>3
    <3> QED
      BY <3>1, <3>2, <2>1, <2>3, <1>2, <1>7, MapGrows
  <2>5. y \notin D
    <3>1. y.map # map
      BY <2>3, <2>4, <1>2, <1>7, CommandNumbers
    <3> QED
      BY <3>1, <2>3
  <2> QED
    BY <2>3, <2>5
<1>10. ASSUME NEW y \in N, Command(y), y.map = m.newmap PROVE Len(v) <= y.at
  <2>1. y.at \in Nat /\ Len(v) \in Nat
    BY <1>1, <1>3, <1>10, CommandNumbers
  <2>2. ASSUME NEW p \in Nat, MapIs(F, p, m.newmap) PROVE Len(v) <= p
    <3> SUFFICES ASSUME p < Len(v) PROVE FALSE
      BY <2>1
    <3>1. p <= Len(w)
      BY <1>1, <1>3
    <3>2. m.newmap <= map
      BY <3>1, <2>2, <1>1, <1>2, <1>4, MapGrows
    <3> QED
      BY <3>2, <1>2, <1>7
  <2>3. CASE Right(F, y)
    BY <2>1, <2>2, <2>3, <1>10 DEF Right
  <2>4. CASE CutAway(F, y)
    <3>1. PICK p \in 0 .. y.at : MapIs(F, p, y.map)
      BY <2>4 DEF CutAway
    <3>2. p \in Nat /\ p <= y.at
      BY <2>1
    <3>3. Len(v) <= p
      BY <3>1, <3>2, <2>2, <1>10
    <3> QED
      BY <3>2, <3>3, <2>1
  <2> QED
    BY <2>3, <2>4, <1>10 DEF Placed
<1>11. k <= k
  BY <1>4
<1>12. Follows(F, v, k, m.newmap, k, N, live)
  BY <1>4, <1>5, <1>6, <1>7, <1>9, <1>10, <1>11 DEF Follows
<1> QED
  BY <1>12 DEF v

\* Another frame: all that comes is later, so it was the next input of the log.
LEMMA FollowsFrame ==
    ASSUME NEW F \in Worlds, NEW b, Rising(F, b), NEW w \in Worlds, NEW k \in Nat,
           NEW map \in Nat, NEW base \in Nat, NEW M \in SUBSET ToClientMsgs, NEW live,
           Follows(F, w, k, map, base, M, live), k < base, Len(w) < Len(F),
           \A y \in M : Command(y) => Placed(F, y) /\ k < y.step
    PROVE  Follows(F, Append(w, Frame), k + 1, map, base, M, live)
<1>1. Len(F) \in Nat /\ Len(w) \in Nat
  BY DEF Worlds
<1>2. /\ Agree(w, F) /\ Frames(F, Len(w)) = k /\ 0 < k /\ k <= base
      /\ MapIs(F, Len(w), map)
      /\ \A p \in Len(w) + 1 .. Len(F) : F[p] # Frame /\ Hears(M, live, base, Frames(F, p)) =>
            \E y \in M : Command(y) /\ Right(F, y) /\ y.at = p - 1
      /\ \A y \in M : Command(y) /\ y.map = map => Len(w) <= y.at
  BY DEF Follows
<1>3. F[Len(w) + 1] = Frame
  <2> SUFFICES ASSUME F[Len(w) + 1] # Frame PROVE FALSE
    OBVIOUS
  <2>1. Frames(F, Len(w) + 1) = k
    BY <1>1, <1>2, FramesStep
  <2>2. Len(w) + 1 \in Len(w) + 1 .. Len(F) /\ (Len(w) + 1) - 1 = Len(w)
    BY <1>1
  <2>3. Hears(M, live, base, k)
    BY <1>2 DEF Hears
  <2>4. PICK y \in M : Command(y) /\ Right(F, y) /\ y.at = Len(w)
    BY <2>1, <2>2, <2>3, <1>2
  <2>5. y.step = k /\ k < y.step
    BY <2>4, <1>2 DEF Right
  <2> QED
    BY <2>5
<1> DEFINE v == Append(w, Frame)
<1>4. /\ v \in Worlds /\ Len(v) = Len(w) + 1 /\ v[Len(w) + 1] = Frame
      /\ \A p \in 1 .. Len(w) : v[p] = w[p]
  <2>1. Frame \in Inputs
    BY DEF Frame, Inputs
  <2> QED
    BY <2>1, AgreeAppend
<1> HIDE DEF v
<1>5. Agree(v, F)
  <2>1. \A p \in 1 .. Len(v) : p \in 1 .. Len(w) \/ p = Len(w) + 1
    BY <1>1, <1>4
  <2>2. Len(v) <= Len(F)
    BY <1>1, <1>4
  <2> QED
    BY <2>1, <2>2, <1>1, <1>2, <1>3, <1>4 DEF Agree
<1>6. Frames(F, Len(v)) = k + 1 /\ MapIs(F, Len(v), map)
  BY <1>1, <1>2, <1>3, <1>4, ReloadTags, FramesStep, MapNext
<1>7. \A p \in Len(v) + 1 .. Len(F) : p \in Len(w) + 1 .. Len(F)
  BY <1>1, <1>4
<1>8. ASSUME NEW y \in M, Command(y), y.map = map PROVE Len(v) <= y.at
  <2>1. y.at \in Nat /\ Len(w) <= y.at
    BY <1>2, <1>8, CommandNumbers
  <2> SUFFICES ASSUME y.at = Len(w) PROVE FALSE
    BY <2>1, <1>1, <1>4
  <2>2. CASE Right(F, y)
    <3>1. F[Len(w) + 1] = InputOf(y)
      BY <2>2 DEF Right
    <3>2. InputOf(y) # Frame
      BY <1>8, CommandNumbers, InputTypes
    <3> QED
      BY <3>1, <3>2, <1>3
  <2>3. CASE CutAway(F, y)
    <3>1. PICK p \in 0 .. y.at : /\ p < Len(F) /\ IsReload(F[p + 1]) /\ MapIs(F, p, y.map)
      BY <2>3 DEF CutAway
    <3>2. p \in Nat /\ p <= Len(w)
      BY <2>1
    <3>3. p # Len(w)
      BY <3>1, <1>3, ReloadTags
    <3>4. PICK x \in Nat : F[p + 1] = Reload(x)
      BY <3>1 DEF IsReload
    <3>5. map < x
      <4>1. p + 1 <= Len(F)
        BY <3>1, <3>2, <1>1
      <4> QED
        BY <4>1, <3>1, <3>2, <3>4, <1>1, <1>8, MapReloads
    <3>6. x <= map
      <4>1. p + 1 \in 1 .. Len(w)
        BY <3>2, <3>3, <1>1
      <4> QED
        BY <4>1, <3>4, <1>2 DEF MapIs
    <3> QED
      BY <3>4, <3>5, <3>6
  <2> QED
    BY <2>2, <2>3, <1>8 DEF Placed
<1>9. 0 < k + 1 /\ k + 1 <= base
  BY <1>2
<1>10. Follows(F, v, k + 1, map, base, M, live)
  BY <1>2, <1>5, <1>6, <1>7, <1>8, <1>9 DEF Follows
<1> QED
  BY <1>10 DEF v

-----------------------------------------------------------------------------
(* What is on its way to a client, as sets.                                *)

\* what a step may bring into the streams of c
New(c, m) == Untimed(m) \/ Schedules(m) \/ (Announces(m) /\ ServerFrame)

LEMMA UntimedIsNoCommand ==
    /\ \A m : Untimed(m) => ~Command(m) /\ ~Announces(m)
    /\ \A m : Announces(m) => ~Command(m)
    /\ Untimed(Close) /\ Close.type # "READY"
BY DEF Untimed, Command, Announces, Close

\* What the server does to the streams of a client.
LEMMA ServerSets ==
    ASSUME IInv, NEW c \in Clients, ServerSide(c)
    PROVE  /\ \A m \in Pending(c)' : m \in Pending(c) \/ New(c, m)
           /\ \A m \in Elems(wire'[c]) : m \in Pending(c) \/ Untimed(m)
           /\ \A m \in Elems(wire'[c]) \cup Elems(up'[c]) : m.type = "READY" =>
                 \/ m \in Elems(wire[c]) \cup Elems(up[c])
                 \/ \E new \in Nat : Reloads(new)
           /\ sState'[c] = "playing" => sState[c] = "playing" \/ \E new \in Nat : Reloads(new)
<1>1. PICK W, S, U, Q : /\ W = Elems(wire[c]) /\ S = Elems(sendq[c]) /\ U = Elems(up[c])
                        /\ Q = Elems(cQueue[c])
  OBVIOUS
<1>2. /\ wire[c] \in Seq(ToClientMsgs) /\ up[c] \in Seq(ToServerMsgs)
      /\ sendq[c] \in Seq(BroadcastMsgs)
  BY LocalTypes
<1>3. Elems(cQueue'[c]) = Q
  BY <1>1, ServerSideKeepsMachine DEF Machine
<1>4. Pending(c) = Q \cup W \cup S
  BY <1>1 DEF Pending
<1> DEFINE Goal == /\ \A m \in Pending(c)' : m \in Pending(c) \/ New(c, m)
                   /\ \A m \in Elems(wire'[c]) : m \in Pending(c) \/ Untimed(m)
                   /\ \A m \in Elems(wire'[c]) \cup Elems(up'[c]) : m.type = "READY" =>
                         \/ m \in W \cup U
                         \/ \E new \in Nat : Reloads(new)
                   /\ sState'[c] = "playing" => sState[c] = "playing" \/ \E new \in Nat : Reloads(new)
<1>5. ASSUME NEW X, \A x \in X : New(c, x), NEW Y, \A y \in Y : Untimed(y),
             Elems(sendq'[c]) \subseteq S \cup X, Elems(wire'[c]) \subseteq W \cup S \cup Y,
             \A m \in Elems(wire'[c]) \cup Elems(up'[c]) : m.type = "READY" =>
                         \/ m \in W \cup U
                         \/ \E new \in Nat : Reloads(new),
             sState'[c] = "playing" => sState[c] = "playing" \/ \E new \in Nat : Reloads(new)
      PROVE  Goal
  <2>1. Pending(c)' = Q \cup Elems(wire'[c]) \cup Elems(sendq'[c])
    BY <1>3 DEF Pending
  <2>2. \A y \in Y : New(c, y)
    BY <1>5 DEF New
  <2>3. \A m \in Pending(c)' : m \in Pending(c) \/ New(c, m)
    BY <1>4, <1>5, <2>1, <2>2
  <2>4. \A m \in Elems(wire'[c]) : m \in Pending(c) \/ Untimed(m)
    BY <1>4, <1>5
  <2> QED
    BY <1>5, <2>3, <2>4
<1> SUFFICES Goal
  BY <1>1
<1> HIDE DEF Goal
<1>6. \A x : /\ Elems(Append(sendq[c], x)) = S \cup {x}
             /\ Elems(Append(wire[c], x)) = W \cup {x}
             /\ wire[c] \o <<x>> = Append(wire[c], x)
  <2>1. \A x : wire[c] \o <<x>> = Append(wire[c], x)
    BY <1>2
  <2>2. \A x : Elems(Append(sendq[c], x)) = S \cup {x}
    BY <1>1, <1>2, ElemsParts
  <2>3. \A x : Elems(Append(wire[c], x)) = W \cup {x}
    BY <1>1, <1>2, ElemsParts
  <2> QED
    BY <2>1, <2>2, <2>3
<1>7. up[c] # <<>> => U = Elems(Tail(up[c])) \cup {Head(up[c])}
  BY <1>1, <1>2, ElemsParts
<1>8. Elems(<<>>) = {}
  BY DEF Elems
<1>9. CASE FrameStep(c)
  <2>1. PICK a \in Announcements(sStep + 1, Append(sWorld, Frame)) : sendq'[c] = Queued(c, a)
    BY <1>9 DEF FrameStep
  <2>2. New(c, a)
    <3>1. Announces(a)
      BY <2>1 DEF Announcements, Announces
    <3> QED
      BY <1>9, <3>1 DEF New, FrameStep
  <2>3. Elems(sendq'[c]) \subseteq S \cup {a}
    BY <1>1, <1>6, <2>1 DEF Queued
  <2>4. wire'[c] = wire[c] /\ up'[c] = up[c] /\ sState'[c] = sState[c]
    BY <1>9 DEF FrameStep
  <2> DEFINE X == {a}
             Y == {}
  <2>5. /\ \A x \in X : New(c, x)
        /\ \A y \in Y : Untimed(y)
        /\ Elems(sendq'[c]) \subseteq S \cup X /\ Elems(wire'[c]) \subseteq W \cup S \cup Y
    BY <1>1, <2>2, <2>3, <2>4
  <2> HIDE DEF X, Y
  <2> QED
    BY <1>1, <1>5, <2>4, <2>5
<1>10. CASE ScheduleStep(c)
  <2>1. PICK m : /\ Schedules(m) /\ sendq'[c] = Queued(c, m)
                 /\ \/ UNCHANGED <<up[c], wire[c]>>
                    \/ up[c] # <<>> /\ up'[c] = Tail(up[c]) /\ wire'[c] = wire[c]
                    \/ /\ up[c] # <<>> /\ up'[c] = Tail(up[c])
                       /\ wire'[c] = Written(c, <<[type |-> "JOIN", answer |-> TRUE,
                                                   newmap |-> m.newmap]>>)
    BY <1>10 DEF ScheduleStep
  <2> DEFINE j == [type |-> "JOIN", answer |-> TRUE, newmap |-> m.newmap]
  <2>2. j.type = "JOIN" /\ Untimed(j)
    BY DEF Untimed
  <2>3. /\ up'[c] = up[c] \/ (up[c] # <<>> /\ up'[c] = Tail(up[c]))
        /\ wire'[c] = wire[c] \/ wire'[c] = wire[c] \o <<j>>
    BY <2>1 DEF Written
  <2> HIDE DEF j
  <2>4. Elems(sendq'[c]) \subseteq S \cup {m}
    BY <1>1, <1>6, <2>1 DEF Queued
  <2>5. Elems(wire'[c]) \subseteq W \cup {j} /\ Elems(up'[c]) \subseteq U
    BY <1>1, <1>6, <1>7, <2>3
  <2>6. sState'[c] = sState[c]
    BY <1>10 DEF ScheduleStep
  <2> DEFINE X == {m}
             Y == {j}
  <2>7. /\ \A x \in X : New(c, x)
        /\ \A y \in Y : Untimed(y)
        /\ Elems(sendq'[c]) \subseteq S \cup X /\ Elems(wire'[c]) \subseteq W \cup S \cup Y
    BY <2>1, <2>2, <2>4, <2>5 DEF New
  <2> HIDE DEF X, Y
  <2>8. \A y \in Elems(wire'[c]) \cup Elems(up'[c]) : y.type = "READY" => y \in W \cup U
    BY <2>2, <2>5
  <2> QED
    BY <1>5, <2>6, <2>7, <2>8
<1>11. ASSUME UNCHANGED <<wire[c], sendq[c], up[c], sState[c]>> PROVE Goal
  <2> DEFINE X == {}
             Y == {}
  <2>1. /\ \A x \in X : New(c, x)
        /\ \A y \in Y : Untimed(y)
        /\ Elems(sendq'[c]) \subseteq S \cup X /\ Elems(wire'[c]) \subseteq W \cup S \cup Y
        /\ \A y \in Elems(wire'[c]) \cup Elems(up'[c]) : y.type = "READY" => y \in W \cup U
    BY <1>1, <1>11
  <2> HIDE DEF X, Y
  <2> QED
    BY <1>5, <1>11, <2>1
<1>12. ASSUME NEW why, CutOff(c, why) PROVE Goal
  <2>1. /\ sendq'[c] = <<>> /\ up'[c] = <<>> /\ sState'[c] = "inactive"
        /\ wire'[c] = <<>> \/ wire'[c] = Append(wire[c], Close)
    BY <1>12 DEF CutOff
  <2> DEFINE X == {}
             Y == {Close}
  <2>2. /\ \A x \in X : New(c, x)
        /\ \A y \in Y : Untimed(y)
        /\ Elems(sendq'[c]) \subseteq S \cup X /\ Elems(wire'[c]) \subseteq W \cup Y
        /\ Elems(up'[c]) = {}
    BY <1>6, <1>8, <2>1, UntimedIsNoCommand
  <2>3. \A y \in Elems(wire'[c]) \cup Elems(up'[c]) : y.type = "READY" => y \in W \cup U
    BY <2>2, UntimedIsNoCommand
  <2> HIDE DEF X, Y
  <2> QED
    BY <1>5, <2>1, <2>2, <2>3
<1>13. CASE ReloadStep(c)
  <2>1. PICK new \in Nat :
           /\ Reloads(new)
           /\ \/ UNCHANGED <<Slot(c), wire[c]>>
              \/ CutOff(c, "left")
              \/ /\ \E ms \in GameReplies(GameMsg(new), ReadyMsg(new)) : wire'[c] = Written(c, ms)
                 /\ UNCHANGED <<sendq[c], up[c]>>
    BY <1>13 DEF ReloadStep
  <2>2. CASE UNCHANGED <<Slot(c), wire[c]>>
    BY <1>11, <2>2 DEF Slot
  <2>3. CASE CutOff(c, "left")
    BY <1>12, <2>3
  <2>4. ASSUME NEW ms \in GameReplies(GameMsg(new), ReadyMsg(new)), wire'[c] = Written(c, ms),
               UNCHANGED <<sendq[c], up[c]>>
        PROVE  Goal
    <3>0. PICK g, r : g = GameMsg(new) /\ r = ReadyMsg(new)
      OBVIOUS
    <3>1. Untimed(g) /\ Untimed(r) /\ ms \in {<<g, r>>, <<g>>, <<r>>, <<>>}
      BY <2>4, <3>0, GameTypes DEF GameReplies, Untimed
    <3>2. /\ wire[c] \o <<g, r>> = Append(Append(wire[c], g), r)
          /\ wire[c] \o <<>> = wire[c]
      BY <1>2
    <3>3. Elems(Append(Append(wire[c], g), r)) = W \cup {g, r}
      <4>1. g \in ToClientMsgs
        BY <3>0, GameTypes
      <4>2. Append(wire[c], g) \in Seq(ToClientMsgs)
        BY <1>2, <4>1
      <4>3. Elems(Append(Append(wire[c], g), r)) = Elems(Append(wire[c], g)) \cup {r}
        BY <4>2, ElemsParts
      <4> QED
        BY <1>6, <4>3
    <3>4. wire'[c] \in {wire[c], Append(wire[c], g), Append(wire[c], r), Append(Append(wire[c], g), r)}
      BY <1>6, <2>4, <3>1, <3>2 DEF Written
    <3>5. Elems(wire'[c]) \subseteq W \cup {g, r}
      <4>1. Elems(Append(wire[c], g)) = W \cup {g} /\ Elems(Append(wire[c], r)) = W \cup {r}
        BY <1>6
      <4> QED
        BY <1>1, <3>3, <3>4, <4>1
    <3> DEFINE X == {}
               Y == {g, r}
    <3>6. /\ \A x \in X : New(c, x)
          /\ \A y \in Y : Untimed(y)
          /\ Elems(sendq'[c]) \subseteq S \cup X /\ Elems(wire'[c]) \subseteq W \cup S \cup Y
      BY <1>1, <2>4, <3>1, <3>5
    <3> HIDE DEF X, Y
    <3> QED
      BY <1>5, <2>1, <3>6
  <2> QED
    BY <2>1, <2>2, <2>3, <2>4
<1>14. CASE AnswerStep(c)
  <2> DEFINE j == [type |-> "JOIN", answer |-> FALSE, newmap |-> 0]
  <2>1. Untimed(j) /\ j.type # "READY"
    BY DEF Untimed
  <2>2. /\ up[c] # <<>> /\ up'[c] = Tail(up[c]) /\ sendq'[c] = sendq[c] /\ sState'[c] = sState[c]
        /\ \/ wire'[c] = wire[c] \/ wire'[c] = wire[c] \o <<j>>
           \/ wire'[c] = wire[c] \o <<Head(up[c])>> /\ Head(up[c]).type = "READY"
    BY <1>14 DEF AnswerStep, Written
  <2> HIDE DEF j
  <2>3. PICK x : /\ Untimed(x) /\ (x.type = "READY" => x \in U)
                 /\ Elems(wire'[c]) \subseteq W \cup {x}
    <3>1. CASE wire'[c] = wire[c] \o <<Head(up[c])>> /\ Head(up[c]).type = "READY"
      <4>1. Elems(wire'[c]) = W \cup {Head(up[c])}
        BY <1>6, <3>1
      <4>2. Head(up[c]) \in U /\ Untimed(Head(up[c]))
        BY <1>7, <2>2, <3>1 DEF Untimed
      <4> QED
        BY <4>1, <4>2
    <3>2. CASE wire'[c] = wire[c] \/ wire'[c] = wire[c] \o <<j>>
      <4>1. wire'[c] = wire[c] \/ wire'[c] = Append(wire[c], j)
        BY <1>6, <3>2
      <4>2. Elems(Append(wire[c], j)) = W \cup {j}
        BY <1>6
      <4>3. Elems(wire'[c]) \subseteq W \cup {j}
        BY <1>1, <4>1, <4>2
      <4> QED
        BY <2>1, <4>3
    <3> QED
      BY <2>2, <3>1, <3>2
  <2> DEFINE X == {}
             Y == {x}
  <2>4. /\ \A y \in X : New(c, y)
        /\ \A y \in Y : Untimed(y)
        /\ Elems(sendq'[c]) \subseteq S \cup X /\ Elems(wire'[c]) \subseteq W \cup S \cup Y
        /\ \A y \in Elems(wire'[c]) \cup Elems(up'[c]) : y.type = "READY" => y \in W \cup U
    BY <1>1, <1>7, <2>2, <2>3
  <2> HIDE DEF X, Y
  <2> QED
    BY <1>5, <2>2, <2>4
<1>15. CASE FlushStep(c)
  <2>1. /\ sendq[c] # <<>> /\ sendq'[c] = Tail(sendq[c]) /\ up'[c] = up[c] /\ sState'[c] = sState[c]
        /\ wire'[c] = wire[c] \/ wire'[c] = wire[c] \o <<Head(sendq[c])>>
    BY <1>15 DEF FlushStep, Written
  <2>2. S = Elems(sendq'[c]) \cup {Head(sendq[c])}
    BY <1>1, <1>2, <2>1, ElemsParts
  <2>3. Elems(wire'[c]) \subseteq W \cup {Head(sendq[c])}
    BY <1>1, <1>6, <2>1
  <2>4. Head(sendq[c]).type # "READY"
    <3>1. Head(sendq[c]) \in BroadcastMsgs
      BY <1>2, <2>1, HeadTailType
    <3> QED
      BY <3>1 DEF BroadcastMsgs, TimeMsgs, CheckMsgs, ToolMsgs, SyncMsgs
  <2> DEFINE X == {}
             Y == {}
  <2>5. /\ \A y \in X : New(c, y)
        /\ \A y \in Y : Untimed(y)
        /\ Elems(sendq'[c]) \subseteq S \cup X /\ Elems(wire'[c]) \subseteq W \cup S \cup Y
        /\ \A y \in Elems(wire'[c]) \cup Elems(up'[c]) : y.type = "READY" => y \in W \cup U
    BY <1>1, <2>1, <2>2, <2>3, <2>4
  <2> HIDE DEF X, Y
  <2> QED
    BY <1>5, <2>1, <2>5
<1>16. CASE CutStep(c)
  BY <1>12, <1>16 DEF CutStep
<1>17. CASE RunStep(c)
  BY <1>11, <1>17 DEF RunStep, Slot
<1> QED
  BY <1>9, <1>10, <1>13, <1>14, <1>15, <1>16, <1>17 DEF ServerSide

\* What a client does to them: nothing new comes.
LEMMA ClientSets ==
    ASSUME IInv, StreamInv, NEW c \in Clients, ClientSide(c)
    PROVE  /\ Elems(cQueue'[c]) \cup Elems(wire'[c]) \subseteq Elems(cQueue[c]) \cup Elems(wire[c])
           /\ Elems(sendq'[c]) \subseteq Elems(sendq[c])
           /\ \A m \in Elems(wire'[c]) \cup Elems(up'[c]) : m.type = "READY" =>
                 m \in Elems(wire[c]) \cup Elems(up[c]) \/ m.step = cStep[c]
           /\ \/ cBarrier'[c] <= cBarrier[c]
              \/ \E a \in Elems(wire[c]) : Announces(a) /\ cBarrier'[c] = a.sstep
              \/ \E m \in Elems(wire[c]) : m.type = "READY" /\ cBarrier'[c] = m.step
           /\ sState'[c] = "playing" => sState[c] = "playing"
<1>1. PICK W, S, U, Q : /\ W = Elems(wire[c]) /\ S = Elems(sendq[c]) /\ U = Elems(up[c])
                        /\ Q = Elems(cQueue[c])
  OBVIOUS
<1>2. /\ wire[c] \in Seq(ToClientMsgs) /\ up[c] \in Seq(ToServerMsgs)
      /\ sendq[c] \in Seq(BroadcastMsgs) /\ cQueue[c] \in Seq(QueuedMsgs)
      /\ cBarrier[c] \in Nat /\ cStep[c] \in Nat /\ cStep[c] <= cBarrier[c]
  BY LocalTypes
<1> DEFINE Goal == /\ Elems(cQueue'[c]) \cup Elems(wire'[c]) \subseteq Q \cup W
                   /\ Elems(sendq'[c]) \subseteq S
                   /\ \A m \in Elems(wire'[c]) \cup Elems(up'[c]) : m.type = "READY" =>
                         m \in W \cup U \/ m.step = cStep[c]
                   /\ \/ cBarrier'[c] <= cBarrier[c]
                      \/ \E a \in W : Announces(a) /\ cBarrier'[c] = a.sstep
                      \/ \E m \in W : m.type = "READY" /\ cBarrier'[c] = m.step
                   /\ sState'[c] = "playing" => sState[c] = "playing"
<1> SUFFICES Goal
  BY <1>1
<1>3. Elems(<<>>) = {} /\ \A x : Elems(<<x>>) = {x}
  BY DEF Elems
<1>4. wire[c] # <<>> => W = Elems(Tail(wire[c])) \cup {Head(wire[c])}
  BY <1>1, <1>2, ElemsParts
<1>5. cQueue[c] # <<>> => Q = Elems(Tail(cQueue[c])) \cup {Head(cQueue[c])}
  BY <1>1, <1>2, ElemsParts
<1>6. \A x : Elems(Append(up[c], x)) = U \cup {x}
  BY <1>1, <1>2, ElemsParts
<1>7. \A x : Elems(Append(cQueue[c], x)) = Q \cup {x}
  BY <1>1, <1>2, ElemsParts
<1>8. CASE ConnectStep(c)
  <2>1. /\ cQueue'[c] = cQueue[c] /\ wire'[c] = <<>> /\ sendq'[c] = <<>>
        /\ up'[c] = <<JoinRequest>> /\ cBarrier'[c] = cBarrier[c] /\ sState'[c] # "playing"
    BY <1>8 DEF ConnectStep
  <2>2. Elems(wire'[c]) = {} /\ Elems(sendq'[c]) = {} /\ Elems(up'[c]) = {JoinRequest}
    BY <1>3, <2>1
  <2>3. JoinRequest.type # "READY"
    BY DEF JoinRequest
  <2>4. cBarrier'[c] <= cBarrier[c] /\ Elems(cQueue'[c]) = Q
    BY <1>1, <1>2, <2>1
  <2>5. \A m \in Elems(wire'[c]) \cup Elems(up'[c]) : m.type # "READY"
    BY <2>2, <2>3
  <2> QED
    BY <2>1, <2>2, <2>4, <2>5
<1>9. CASE GoneStep(c)
  <2>1. /\ cQueue'[c] = <<>> /\ wire'[c] = <<>> /\ sendq'[c] = sendq[c]
        /\ up'[c] = <<>> \/ up'[c] = Append(up[c], Close)
        /\ cBarrier'[c] = 0 /\ sState'[c] = sState[c]
    BY <1>9 DEF GoneStep
  <2>2. Elems(wire'[c]) = {} /\ Elems(cQueue'[c]) = {} /\ Elems(up'[c]) \subseteq U \cup {Close}
    <3>1. Elems(Append(up[c], Close)) = U \cup {Close}
      BY <1>6
    <3> QED
      BY <1>3, <2>1, <3>1
  <2>3. Close.type # "READY"
    BY UntimedIsNoCommand
  <2> QED
    BY <1>1, <1>2, <2>1, <2>2, <2>3
<1>10. CASE ReadStep(c)
  <2>1. /\ wire[c] # <<>> /\ wire'[c] = Tail(wire[c])
        /\ sendq'[c] = sendq[c] /\ up'[c] = up[c] /\ sState'[c] = sState[c]
    BY <1>10 DEF ReadStep, Slot
  <2>2. PICK h : h = Head(wire[c])
    OBVIOUS
  <2>3. h \in W /\ Elems(wire'[c]) \subseteq W
    BY <1>4, <2>1, <2>2
  <2>4. Elems(cQueue'[c]) \subseteq Q \cup {h}
    <3>1. \/ cQueue'[c] = cQueue[c] \/ cQueue'[c] = <<>>
          \/ /\ h.type \in {"CHECK", "TOOL", "SYNC"}
             /\ cQueue'[c] = Insert(cQueue[c], h)
      BY <1>10, <2>2 DEF ReadStep, Accepted, Skipped, Machine, Loaded, TimeRead, CommandQueued,
                         Unpaused, ClientReads
    <3>2. CASE h.type \in {"CHECK", "TOOL", "SYNC"} /\ cQueue'[c] = Insert(cQueue[c], h)
      <4>1. cQueue'[c] = Append(cQueue[c], h)
        BY <2>1, <2>2, <3>2, ReadIsAppend DEF StreamInv, IsQueued
      <4> QED
        BY <1>7, <4>1
    <3>3. CASE cQueue'[c] = cQueue[c] \/ cQueue'[c] = <<>>
      BY <1>1, <1>3, <3>3
    <3> QED
      BY <3>1, <3>2, <3>3
  <2>5. \/ cBarrier'[c] <= cBarrier[c]
        \/ Announces(h) /\ cBarrier'[c] = h.sstep
        \/ h.type = "READY" /\ cBarrier'[c] = h.step
    <3>1. cBarrier[c] <= cBarrier[c] /\ 0 <= cBarrier[c]
      BY <1>2
    <3>2. CASE Accepted(c)
      BY <3>1, <3>2 DEF Accepted
    <3>3. CASE Skipped(c)
      BY <3>1, <3>3 DEF Skipped, Machine
    <3>4. CASE Loaded(c)
      BY <3>1, <3>4 DEF Loaded
    <3>5. CASE TimeRead(c)
      BY <2>2, <3>1, <3>5 DEF TimeRead, ClientReads, RaisedBarrier, Announces
    <3>6. CASE CommandQueued(c)
      BY <3>1, <3>6 DEF CommandQueued
    <3>7. CASE Unpaused(c)
      BY <2>2, <3>7 DEF Unpaused, ClientReads
    <3> QED
      BY <1>10, <3>2, <3>3, <3>4, <3>5, <3>6, <3>7 DEF ReadStep
  <2> QED
    BY <1>1, <2>1, <2>3, <2>4, <2>5
<1>11. CASE PopStep(c)
  <2>1. /\ cQueue[c] # <<>> /\ cQueue'[c] = Tail(cQueue[c])
        /\ UNCHANGED <<wire[c], sendq[c], up[c], sState[c], cBarrier[c]>>
    BY <1>11 DEF PopStep, Slot, HasDue
  <2> QED
    BY <1>1, <1>2, <1>5, <2>1
<1>12. CASE SyncStep(c)
  <2> DEFINE r == [type |-> "READY", step |-> cStep[c], map |-> Head(cQueue[c]).newmap,
                   chk |-> ListAt(cLists[c], cStep[c])]
  <2>1. r.step = cStep[c]
    OBVIOUS
  <2>2. /\ cQueue'[c] = <<>> /\ cBarrier'[c] = cStep[c]
        /\ up'[c] = up[c] \/ up'[c] = Append(up[c], r)
        /\ UNCHANGED <<wire[c], sendq[c], sState[c]>>
    BY <1>12 DEF SyncStep
  <2> HIDE DEF r
  <2>3. Elems(cQueue'[c]) = {} /\ Elems(up'[c]) \subseteq U \cup {r}
    <3>1. Elems(Append(up[c], r)) = U \cup {r}
      BY <1>6
    <3> QED
      BY <1>1, <1>3, <2>2, <3>1
  <2> QED
    BY <1>1, <1>2, <2>1, <2>2, <2>3
<1>13. CASE AdvanceStep(c)
  BY <1>1, <1>2, <1>13 DEF AdvanceStep, Slot
<1>14. CASE RequestStep(c)
  <2>1. PICK m : m.type = "TOOL" /\ up'[c] = Append(up[c], m)
    <3>1. PICK n : up'[c] = Append(up[c],
             [type |-> "TOOL", step |-> cStep[c], map |-> cMap[c],
              lstep |-> cStep[c], lchk |-> ListAt(cLists[c], cStep[c]), tool |-> n, at |-> 0])
      BY <1>14 DEF RequestStep
    <3> QED
      BY <3>1
  <2>2. /\ UNCHANGED <<cQueue[c], wire[c], sendq[c], sState[c], cBarrier[c]>>
        /\ Elems(up'[c]) = U \cup {m}
    BY <1>6, <1>14, <2>1 DEF RequestStep, Machine
  <2> QED
    BY <1>1, <1>2, <2>1, <2>2
<1> QED
  BY <1>8, <1>9, <1>10, <1>11, <1>12, <1>13, <1>14 DEF ClientSide

\* Of commands, only what the server schedules comes into the streams.
LEMMA PendingSteps ==
    ASSUME IInv, StreamInv, NEW c \in Clients, LocalStep(c)
    PROVE  \A m \in Pending(c)' : Command(m) => m \in Pending(c) \/ Schedules(m)
<1>1. CASE RestStep(c)
  BY <1>1 DEF RestStep, Machine, Slot, Pending
<1>2. CASE ServerSide(c)
  <2>1. \A m \in Pending(c)' : m \in Pending(c) \/ New(c, m)
    BY <1>2, ServerSets
  <2> QED
    BY <2>1, UntimedIsNoCommand DEF New
<1>3. CASE ClientSide(c)
  <2>1. Elems(cQueue'[c]) \cup Elems(wire'[c]) \subseteq Elems(cQueue[c]) \cup Elems(wire[c])
    BY <1>3, ClientSets
  <2>2. Elems(sendq'[c]) \subseteq Elems(sendq[c])
    BY <1>3, ClientSets
  <2>3. Pending(c)' = Elems(cQueue'[c]) \cup Elems(wire'[c]) \cup Elems(sendq'[c])
    BY DEF Pending
  <2> QED
    BY <2>1, <2>2, <2>3 DEF Pending
<1> QED
  BY <1>1, <1>2, <1>3 DEF LocalStep

-----------------------------------------------------------------------------
(* IdleInv.                                                                *)

LEMMA IdleSteps ==
    ASSUME IInv, SInv, LogInv, SlotInv, StreamInv, NEW c \in Clients, IdleOK(c),
           [Next]_vars, LocalStep(c)
    PROVE  IdleOK(c)'
<1> SUFFICES ASSUME sPaused'
             PROVE  /\ sState'[c] # "playing"
                    /\ sStep' > 0 =>
                          /\ cBarrier'[c] < sStep'
                          /\ \A m \in Elems(cQueue'[c]) \cup Elems(wire'[c]) :
                                Announces(m) => m.sstep < sStep'
                          /\ \A m \in Elems(wire'[c]) \cup Elems(up'[c]) :
                                m.type = "READY" => m.step < sStep'
  BY DEF IdleOK
<1>1. PICK W, U, Q, S : /\ W = Elems(wire[c]) /\ U = Elems(up[c]) /\ Q = Elems(cQueue[c])
                        /\ S = Elems(sendq[c])
  OBVIOUS
<1>2. /\ sStep \in Nat /\ cBarrier[c] \in Nat /\ cBarrier[c] <= sStep
      /\ cStep[c] \in Nat /\ cStep[c] <= cBarrier[c]
      /\ \A m \in W \cup U : m.type = "READY" => m.step \in Nat /\ m.step <= sStep
  BY <1>1, LocalTypes, ReadySteps
<1>3. \A m \in Q \cup W : Announces(m) => m.sstep \in Nat /\ m.sstep <= sStep
  <2>1. /\ DOMAIN cQueue[c] = 1 .. Len(cQueue[c]) /\ DOMAIN wire[c] = 1 .. Len(wire[c])
    BY LocalTypes
  <2>2. AllSent(cQueue[c]) /\ AllSent(wire[c])
    BY DEF StreamInv, StreamOK
  <2>3. \A m \in Q \cup W : Sent(m)
    BY <1>1, <2>1, <2>2 DEF Elems, AllSent
  <2> QED
    BY <1>2, <2>3 DEF Sent
<1>4. \A new : ~Reloads(new)
  BY DEF Reloads, ServerReloads
<1>5. CASE ServerFrame
  <2>1. sStep' = sStep + 1 /\ PlayingClients = {}
    BY <1>5 DEF ServerFrame
  <2>2. sState[c] # "playing"
    BY <2>1 DEF PlayingClients
  <2>3. FrameStep(c)
    BY <1>5, IndexedByClients, FrameIsLocal
  <2>4. /\ UNCHANGED <<sState[c], cBarrier[c], cQueue[c], wire[c], up[c]>>
    BY <2>3 DEF FrameStep, Machine
  <2>5. /\ cBarrier[c] < sStep + 1
        /\ \A m \in Q \cup W : Announces(m) => m.sstep < sStep + 1
        /\ \A m \in W \cup U : m.type = "READY" => m.step < sStep + 1
    BY <1>2, <1>3
  <2> QED
    BY <1>1, <2>1, <2>2, <2>4, <2>5
<1>6. CASE ~ServerFrame
  <2>1. sPaused /\ sStep' = sStep
    <3>1. UNCHANGED core \/ ServerRunsTool \/ \E m : Schedules(m)
      BY <1>4, <1>6, NextIsGlobal
    <3>2. UNCHANGED core => sPaused' = sPaused /\ sStep' = sStep
      BY DEF core
    <3>3. ServerRunsTool => sPaused' = sPaused /\ sStep' = sStep
      BY DEF ServerRunsTool
    <3>4. \A m : Schedules(m) => sPaused' = sPaused /\ sStep' = sStep
      <4>1. \A m \in ToolMsgs \cup SyncMsgs : m.type \in {"TOOL", "SYNC"}
        BY DEF ToolMsgs, SyncMsgs
      <4> QED
        BY <4>1 DEF Schedules
    <3> QED
      BY <3>1, <3>2, <3>3, <3>4
  <2>2. sState[c] # "playing" /\ sendq[c] = <<>>
    BY <2>1 DEF IdleOK, SlotInv, SlotOK
  <2>3. S = {}
    BY <1>1, <2>2 DEF Elems
  <2>4. sStep > 0 =>
           /\ cBarrier[c] < sStep
           /\ \A m \in Q \cup W : Announces(m) => m.sstep < sStep
           /\ \A m \in W \cup U : m.type = "READY" => m.step < sStep
    BY <1>1, <2>1 DEF IdleOK
  <2>5. CASE RestStep(c)
    BY <1>1, <2>1, <2>2, <2>4, <2>5 DEF RestStep, Machine, Slot
  <2>6. CASE ServerSide(c)
    <3>1. cBarrier'[c] = cBarrier[c] /\ cQueue'[c] = cQueue[c]
      BY <2>6, ServerSideKeepsMachine DEF Machine
    <3>2. \A m \in Elems(wire'[c]) : m \in Pending(c) \/ Untimed(m)
      BY <2>6, ServerSets
    <3>3. \A m \in Elems(wire'[c]) : Announces(m) => m \in Q \cup W
      BY <1>1, <2>3, <3>2, UntimedIsNoCommand DEF Pending
    <3>4. sState'[c] # "playing"
      BY <1>4, <2>2, <2>6, ServerSets
    <3>5. \A m \in Elems(wire'[c]) \cup Elems(up'[c]) : m.type = "READY" => m \in W \cup U
      BY <1>1, <1>4, <2>6, ServerSets
    <3> QED
      BY <1>1, <2>1, <2>4, <3>1, <3>3, <3>4, <3>5
  <2>7. CASE ClientSide(c)
    <3>1. Elems(cQueue'[c]) \cup Elems(wire'[c]) \subseteq Q \cup W
      BY <1>1, <2>7, ClientSets
    <3>2. \A m \in Elems(wire'[c]) \cup Elems(up'[c]) : m.type = "READY" =>
             m \in W \cup U \/ m.step = cStep[c]
      BY <1>1, <2>7, ClientSets
    <3>3. \/ cBarrier'[c] <= cBarrier[c]
          \/ \E a \in W : Announces(a) /\ cBarrier'[c] = a.sstep
          \/ \E m \in W : m.type = "READY" /\ cBarrier'[c] = m.step
      BY <1>1, <2>7, ClientSets
    <3>4. sState'[c] # "playing"
      BY <2>2, <2>7, ClientSets
    <3>5. sStep > 0 => cBarrier'[c] < sStep
      <4>1. cBarrier'[c] \in Nat
        BY NextIInv, LocalTypes DEF IInv, ClientOK
      <4> QED
        BY <1>2, <2>4, <3>3, <4>1
    <3>6. sStep > 0 => \A m \in Elems(wire'[c]) \cup Elems(up'[c]) : m.type = "READY" => m.step < sStep
      BY <1>2, <2>4, <3>2
    <3> QED
      BY <2>1, <2>4, <3>1, <3>4, <3>5, <3>6
  <2> QED
    BY <2>5, <2>6, <2>7 DEF LocalStep
<1> QED
  BY <1>5, <1>6

LEMMA NextIdleInv == IInv /\ SInv /\ LogInv /\ SlotInv /\ StreamInv /\ IdleInv /\ [Next]_vars => IdleInv'
<1> SUFFICES ASSUME IInv, SInv, LogInv, SlotInv, StreamInv, IdleInv, [Next]_vars, NEW c \in Clients
             PROVE  IdleOK(c)'
  BY DEF IdleInv
<1>1. LocalStep(c)
  BY NextIsLocal
<1> QED
  BY <1>1, IdleSteps DEF IdleInv

LEMMA InitIdleInv == Init => IdleInv
BY DEF Init, IdleInv, IdleOK

-----------------------------------------------------------------------------
(* Each command on its way has its place.                                  *)

\* A reload that replaces what was coming behind the world v cuts the commands away that had
\* their place there.
LEMMA PlacedForced ==
    ASSUME NEW F \in Worlds, NEW v \in Worlds, Agree(v, F), NEW x \in Nat,
           NEW G \in Worlds, G = Append(v, Reload(x)), NEW k \in Nat, MapIs(v, Len(v), k),
           NEW m, Numbered(m), m.map <= k, Placed(F, m)
    PROVE  Placed(G, m)
<1>0. PICK n \in Nat : n = Len(v)
  BY DEF Worlds
<1>1. /\ Agree(v, G) /\ Len(G) = n + 1 /\ G[n + 1] = Reload(x) /\ IsReload(G[n + 1])
  <2>1. Reload(x) \in Inputs /\ IsReload(Reload(x))
    BY ReloadTags DEF Reload, Inputs
  <2> QED
    BY <1>0, <2>1, AgreeAppend
<1>2. /\ Len(F) \in Nat /\ n <= Len(F)
      /\ \A p \in 0 .. n : /\ Frames(v, p) = Frames(F, p) /\ Frames(v, p) = Frames(G, p)
                           /\ \A y : MapIs(v, p, y) <=> MapIs(F, p, y)
                           /\ \A y : MapIs(v, p, y) <=> MapIs(G, p, y)
  BY <1>0, <1>1, AgreeFacts
<1>3. MapIs(F, n, k) /\ MapIs(G, n, k)
  BY <1>0, <1>2
<1>4. m.at \in Nat /\ m.step \in Nat /\ m.map \in Nat
  BY DEF Numbered
<1>5. ASSUME NEW p \in n .. m.at, MapIs(F, p, m.map), Frames(F, p) <= m.step
      PROVE  CutAway(G, m)
  <2>1. p \in Nat /\ n <= p
    BY <1>0, <1>4
  <2>2. m.map = k
    BY <1>3, <1>4, <1>5, <2>1, MapGrows
  <2>3. Frames(F, n) <= Frames(F, p)
    BY <2>1, FramesMonotone
  <2>4. Frames(F, n) \in Nat /\ Frames(F, p) \in Nat
    BY <2>1, FramesType
  <2>5. Frames(G, n) = Frames(F, n)
    BY <1>2, <1>0
  <2>6. n \in 0 .. m.at /\ n < Len(G) /\ Frames(G, n) <= m.step
    BY <1>1, <1>4, <1>5, <2>1, <2>3, <2>4, <2>5
  <2> QED
    BY <1>1, <1>3, <2>2, <2>6 DEF CutAway
<1>6. CASE Right(F, m)
  <2>1. CASE m.at < n
    <3>1. m.at \in 0 .. n /\ m.at + 1 \in 1 .. n /\ m.at < Len(v)
      BY <1>0, <1>4, <2>1
    <3>2. v[m.at + 1] = F[m.at + 1]
      BY <1>0, <3>1 DEF Agree
    <3>3. Right(v, m)
      BY <1>2, <1>6, <3>1, <3>2 DEF Right
    <3> QED
      BY <1>1, <3>3, PlacedStays DEF Placed
  <2>2. CASE ~(m.at < n)
    <3>1. m.at \in n .. m.at
      BY <1>4, <2>2
    <3>2. Frames(F, m.at) <= m.step /\ MapIs(F, m.at, m.map)
      BY <1>4, <1>6 DEF Right
    <3> QED
      BY <1>5, <3>1, <3>2 DEF Placed
  <2> QED
    BY <2>1, <2>2
<1>7. CASE CutAway(F, m)
  <2>1. PICK p \in 0 .. m.at : /\ p < Len(F) /\ IsReload(F[p + 1])
                               /\ Frames(F, p) <= m.step /\ MapIs(F, p, m.map)
    BY <1>7 DEF CutAway
  <2>2. CASE p < n
    <3>1. p \in 0 .. n /\ p + 1 \in 1 .. n /\ p < Len(v)
      BY <1>0, <1>4, <2>2
    <3>2. v[p + 1] = F[p + 1]
      BY <1>0, <3>1 DEF Agree
    <3>3. CutAway(v, m)
      BY <1>2, <2>1, <3>1, <3>2 DEF CutAway
    <3> QED
      BY <1>1, <3>3, PlacedStays DEF Placed
  <2>3. CASE ~(p < n)
    <3>1. p \in n .. m.at
      BY <1>4, <2>3
    <3> QED
      BY <1>5, <2>1, <3>1 DEF Placed
  <2> QED
    BY <2>2, <2>3
<1> QED
  BY <1>6, <1>7 DEF Placed

\* the messages on their way to c
LEMMA PendingFacts ==
    ASSUME IInv, StreamInv, NEW c \in Clients
    PROVE  /\ Pending(c) \subseteq ToClientMsgs
           /\ \A m \in Pending(c) : Sent(m)
<1>1. /\ cQueue[c] \in Seq(ToClientMsgs) /\ wire[c] \in Seq(ToClientMsgs)
      /\ sendq[c] \in Seq(ToClientMsgs)
  BY StreamTypes
<1>2. /\ DOMAIN cQueue[c] = 1 .. Len(cQueue[c]) /\ DOMAIN wire[c] = 1 .. Len(wire[c])
      /\ DOMAIN sendq[c] = 1 .. Len(sendq[c])
  BY <1>1
<1>3. AllSent(cQueue[c]) /\ AllSent(wire[c]) /\ AllSent(sendq[c])
  BY DEF StreamInv, StreamOK
<1>4. \A m \in Pending(c) : Sent(m)
  BY <1>2, <1>3 DEF Elems, AllSent, Pending
<1>5. Pending(c) \subseteq ToClientMsgs
  BY <1>1, <1>2 DEF Elems, Pending
<1> QED
  BY <1>4, <1>5

LEMMA PlacedSteps ==
    ASSUME IInv, SInv, LogInv, StreamInv, NEW c \in Clients, LocalStep(c),
           NEW F \in Worlds, NEW G \in Worlds, Coming(F), Goes(F, G), PlacedOK(F, c)
    PROVE  PlacedOK(G, c)'
<1> SUFFICES ASSUME NEW m \in Pending(c)', Command(m) PROVE Placed(G, m)
  BY DEF PlacedOK
<1>1. CASE Schedules(m)
  BY <1>1 DEF Goes
<1>2. CASE ~Schedules(m)
  <2>1. m \in Pending(c) /\ Placed(F, m)
    BY <1>2, PendingSteps DEF PlacedOK
  <2>2. Numbered(m) /\ m.map <= sMap
    BY <2>1, PendingFacts, CommandNumbers DEF Sent
  <2>3. CASE Agree(F, G)
    BY <2>1, <2>2, <2>3, PlacedStays
  <2>4. ASSUME NEW new \in Nat, G = Append(sWorld, Reload(new)) PROVE Placed(G, m)
    <3>1. sWorld \in Worlds /\ sMap \in Nat
      BY QueueFacts
    <3>2. Agree(sWorld, F) /\ MapIs(sWorld, Len(sWorld), sMap)
      BY DEF Coming
    <3> QED
      BY <2>1, <2>2, <2>4, <3>1, <3>2, PlacedForced
  <2> QED
    BY <2>3, <2>4 DEF Goes
<1> QED
  BY <1>1, <1>2

-----------------------------------------------------------------------------
(* What the server does to a world that is part of the log.                *)

\* the next reload was not queued
Forced == \E new \in Nat : ServerReloads(new) /\ ForcedNow(new)

\* Whoever hears what the server schedules still follows the log, and who does not has not
\* heard of the step for which it is.
LEMMA FollowsAlong ==
    ASSUME IInv, SInv, LogInv, NEW F \in Worlds, NEW G \in Worlds, Coming(F), Goes(F, G),
           NEW w \in Worlds, NEW k, NEW map, NEW base \in Nat, base <= sStep,
           NEW M \in SUBSET ToClientMsgs, NEW N, NEW live, NEW then,
           Follows(F, w, k, map, base, M, live), then => live,
           \A a \in M : Announces(a) => a.sstep <= sStep,
           \A x \in N : Command(x) /\ x \notin M => Schedules(x),
           \A x \in N : Announces(x) /\ x \notin M => then,
           \A m : Schedules(m) /\ then => m \in N,
           \A m \in M : Command(m) /\ m \notin N =>
              ~then /\ base < m.step /\ \A a \in N : Announces(a) => a.sstep < m.step,
           Forced => /\ ~live /\ N = M /\ base < sStep
                     /\ \A a \in M : Announces(a) => a.sstep < sStep
    PROVE  Follows(G, w, k, map, base, N, then)
<1>0. /\ sStep \in Nat /\ sWorld \in Worlds /\ Len(sWorld) \in Nat
      /\ Frames(sWorld, Len(sWorld)) = sStep
  BY QueueFacts
<1>1. CASE Forced /\ \E new \in Nat : G = Append(sWorld, Reload(new))
  <2>1. PICK new \in Nat : G = Append(sWorld, Reload(new))
    BY <1>1
  <2>2. Reload(new) \in Inputs
    BY DEF Reload, Inputs
  <2>3. Agree(sWorld, G) /\ Agree(sWorld, F)
    BY <1>0, <2>1, <2>2, AgreeAppend DEF Coming
  <2>4. PICK v \in Worlds : v = sWorld
    BY <1>0
  <2>5. /\ Agree(v, F) /\ Agree(v, G) /\ ~live /\ base < Frames(v, Len(v))
        /\ \A a \in M : Announces(a) => a.sstep < Frames(v, Len(v))
    BY <1>0, <1>1, <2>3, <2>4
  <2>6. k \in Nat
    <3>1. Len(w) \in Nat
      BY DEF Worlds
    <3> QED
      BY <3>1, FramesType DEF Follows
  <2>7. Follows(G, w, k, map, base, M, live)
    BY <2>5, <2>6, FollowsForced
  <2>8. N = M
    BY <1>1
  <2>9. \A n : Hears(N, then, base, n) => Hears(M, live, base, n)
    BY <2>8 DEF Hears
  <2> QED
    BY <2>7, <2>8, <2>9 DEF Follows
<1>2. CASE /\ Agree(F, G)
           /\ \A p \in Len(F) + 1 .. Len(G) :
                 G[p] # Frame => \E m : Schedules(m) /\ Right(G, m) /\ m.at = p - 1
  <2>1. Len(F) \in Nat /\ Len(G) \in Nat /\ Len(w) \in Nat /\ Len(w) <= Len(F) /\ k <= base
    BY AgreeFacts DEF Follows, Worlds
  <2>2. \A n \in Nat : Hears(N, then, base, n) => Hears(M, live, base, n)
    BY DEF Hears
  <2>3. ASSUME NEW m \in M, Command(m), Right(F, m), Hears(N, then, base, m.step)
        PROVE  m \in N
    <3> SUFFICES ASSUME m \notin N PROVE FALSE
      OBVIOUS
    <3>1. m.step \in Nat
      BY <2>3, CommandNumbers
    <3>2. ~then /\ base < m.step /\ \A a \in N : Announces(a) => a.sstep < m.step
      BY <2>3
    <3>3. PICK a \in N : Announces(a) /\ m.step <= a.sstep
      BY <2>3, <3>1, <3>2 DEF Hears
    <3>4. a \in M
      BY <3>2, <3>3
    <3>5. a.sstep \in Nat
      BY <3>3, <3>4, MessageNumbers
    <3> QED
      BY <3>1, <3>2, <3>3, <3>5
  <2>4. ASSUME NEW m \in N, Command(m), m \notin M PROVE Len(w) <= m.at
    <3>1. Schedules(m)
      BY <2>4
    <3>2. Len(F) <= m.at /\ m \in ToClientMsgs
      BY <3>1, CommandIsSent DEF Goes
    <3>3. m.at \in Nat
      BY <2>4, <3>2, CommandNumbers
    <3> QED
      BY <2>1, <3>2, <3>3
  <2>5. ASSUME NEW p \in Len(F) + 1 .. Len(G), G[p] # Frame, Hears(N, then, base, Frames(G, p))
        PROVE  \E m \in N : Command(m) /\ Right(G, m) /\ m.at = p - 1
    <3>1. PICK m : Schedules(m) /\ Right(G, m) /\ m.at = p - 1
      BY <1>2, <2>5
    <3>2. Command(m) /\ m.step = sStep + 1
      BY <3>1, CommandIsSent
    <3>3. p - 1 \in Nat /\ p = (p - 1) + 1
      BY <2>1
    <3>4. Frames(G, p) = Frames(G, p - 1)
      BY <2>5, <3>3, FramesStep
    <3>5. Frames(G, p) = sStep + 1
      BY <3>1, <3>2, <3>4 DEF Right
    <3>6. CASE then
      BY <3>1, <3>2, <3>6
    <3>7. CASE ~then
      <4>1. PICK a \in N : Announces(a) /\ sStep + 1 <= a.sstep
        BY <1>0, <2>5, <3>5, <3>7 DEF Hears
      <4>2. a \in M
        BY <3>7, <4>1
      <4>3. a.sstep \in Nat /\ a.sstep <= sStep
        BY <4>1, <4>2, MessageNumbers
      <4> QED
        BY <1>0, <4>1, <4>3
    <3> QED
      BY <3>6, <3>7
  <2> QED
    BY <1>2, <2>1, <2>2, <2>3, <2>4, <2>5, FollowsMoves
<1> QED
  BY <1>1, <1>2 DEF Goes, Forced

\* a reload that was not queued is a step of its own
LEMMA ForcedAlone ==
    ASSUME IInv, SInv, LogInv, Forced
    PROVE  /\ ~(UNCHANGED core) /\ ~ServerFrame /\ ~ServerRunsTool
           /\ \A m : ~Schedules(m)
           /\ \A new : ~RunsSync(new)
           /\ sPaused /\ PlayingClients = {}
<1>1. PICK new \in Nat : ServerReloads(new) /\ ForcedNow(new)
  BY DEF Forced
<1>2. Reloads(new)
  BY <1>1 DEF Reloads
<1>3. sMap' # sMap /\ nMaps' # nMaps
  BY <1>1, <1>2, Kinds
<1>4. sPaused /\ PlayingClients = {}
  BY <1>1 DEF ForcedNow
<1>5. ~(UNCHANGED core)
  BY <1>3, Kinds
<1>6. ~ServerFrame
  BY <1>3, Kinds
<1>7. ~ServerRunsTool
  BY <1>3, Kinds
<1>8. \A m : ~Schedules(m)
  BY <1>3, Kinds
<1>9. \A x : ~RunsSync(x)
  BY <1>3, Kinds
<1> QED
  BY <1>4, <1>5, <1>6, <1>7, <1>8, <1>9

\* the server may read what c sent, and may answer a request to join
Heard(c) ==
    /\ up'[c] = up[c] \/ (up[c] # <<>> /\ up'[c] = Tail(up[c]))
    /\ wire'[c] = wire[c] \/ \E x : x.type = "JOIN" /\ wire'[c] = Append(wire[c], x)

\* what the server may do for a client: nothing, ...
Quiet(c) ==
    /\ UNCHANGED <<sState[c], sendq[c]>>
    /\ Heard(c)
    /\ (\E m : Schedules(m)) => ~InStep(c)
    /\ Forced => ~InStep(c) /\ UNCHANGED <<wire[c], up[c]>>

\* ... send it something, ...
Gets(c, x) ==
    /\ InStep(c) /\ sState'[c] = sState[c]
    /\ sendq'[c] = Append(sendq[c], x)
    /\ Heard(c)
    /\ Announces(x) \/ Schedules(x)
    /\ \A m : Schedules(m) => m = x

\* ... send its NWC_READY back, ...
ReadyBack(c) ==
    /\ UNCHANGED <<sState[c], sendq[c]>>
    /\ up[c] # <<>> /\ Head(up[c]).type = "READY" /\ up'[c] = Tail(up[c])
    /\ wire'[c] = Append(wire[c], Head(up[c]))

\* ... close its slot, ...
Closed(c) ==
    /\ sState'[c] = "inactive" /\ sendq'[c] = <<>> /\ up'[c] = <<>>
    /\ wire'[c] = Append(wire[c], Close)

\* ... write what was queued, ...
Flushed(c) ==
    /\ UNCHANGED <<sState[c], up[c]>>
    /\ sendq[c] # <<>> /\ sendq'[c] = Tail(sendq[c])
    /\ wire'[c] = Append(wire[c], Head(sendq[c]))

\* ... or send it the game.
Given(c, new) ==
    /\ new \in Nat /\ ServerReloads(new) /\ RunsSync(new) /\ Head(sQueue).who = c
    /\ sState'[c] = "playing" /\ UNCHANGED <<sendq[c], up[c]>>
    /\ wire'[c] = Append(Append(wire[c], GameMsg(new)), ReadyMsg(new))

LEMMA ServerMoves ==
    ASSUME ~SendMayFail, IInv, SInv, LogInv, NEW c \in Clients, cMode[c] # "out", ServerSide(c)
    PROVE  \/ Quiet(c)
           \/ /\ ~Forced
              /\ \/ \E x : Gets(c, x)
                 \/ /\ \A m : ~Schedules(m)
                    /\ ReadyBack(c) \/ Closed(c) \/ Flushed(c) \/ \E new : Given(c, new)
<1>1. /\ wire[c] \in Seq(ToClientMsgs) /\ sendq[c] \in Seq(BroadcastMsgs)
  BY LocalTypes
<1>2. \A x : Written(c, <<x>>) = Append(wire[c], x)
  <2>1. \A x : wire[c] \o <<x>> = Append(wire[c], x)
    BY <1>1
  <2> QED
    BY <2>1 DEF Written
<1>3. PlayingClients = {} => ~InStep(c)
  BY DEF PlayingClients, InStep
<1>4. CASE FrameStep(c)
  <2>1. PICK a \in Announcements(sStep + 1, Append(sWorld, Frame)) : sendq'[c] = Queued(c, a)
    BY <1>4 DEF FrameStep
  <2>2. Announces(a)
    BY <2>1 DEF Announcements, Announces
  <2>3. /\ Heard(c) /\ sState'[c] = sState[c] /\ ServerFrame
    BY <1>4 DEF FrameStep, Heard
  <2>4. ~Forced /\ \A m : ~Schedules(m)
    BY <2>3, ForcedAlone, NothingScheduled
  <2>5. CASE InStep(c)
    <3>1. Gets(c, a)
      BY <2>1, <2>2, <2>3, <2>4, <2>5 DEF Gets, InStep, Queued
    <3> QED
      BY <2>4, <3>1
  <2>6. CASE ~InStep(c)
    BY <2>1, <2>3, <2>4, <2>6 DEF Quiet, InStep, Queued
  <2> QED
    BY <2>5, <2>6
<1>5. CASE ScheduleStep(c)
  <2>1. PICK m : /\ Schedules(m) /\ sendq'[c] = Queued(c, m)
                 /\ \/ UNCHANGED <<up[c], wire[c]>>
                    \/ up[c] # <<>> /\ up'[c] = Tail(up[c]) /\ wire'[c] = wire[c]
                    \/ /\ up[c] # <<>> /\ up'[c] = Tail(up[c])
                       /\ wire'[c] = Written(c, <<[type |-> "JOIN", answer |-> TRUE,
                                                   newmap |-> m.newmap]>>)
    BY <1>5 DEF ScheduleStep
  <2> DEFINE j == [type |-> "JOIN", answer |-> TRUE, newmap |-> m.newmap]
  <2>2. j.type = "JOIN"
    OBVIOUS
  <2>3. /\ up'[c] = up[c] \/ (up[c] # <<>> /\ up'[c] = Tail(up[c]))
        /\ wire'[c] = wire[c] \/ wire'[c] = Append(wire[c], j)
    BY <1>2, <2>1
  <2> HIDE DEF j
  <2>4. Heard(c) /\ sState'[c] = sState[c]
    BY <1>5, <2>2, <2>3 DEF Heard, ScheduleStep
  <2>5. ~Forced
    BY <2>1, ForcedAlone
  <2>6. ASSUME NEW x, Schedules(x) PROVE x = m
    <3>1. sQueue'[Len(sQueue) + 1] = m /\ sQueue'[Len(sQueue) + 1] = x
      BY <2>1, <2>6, Kinds
    <3> QED
      BY <3>1
  <2>7. CASE InStep(c)
    <3>1. Gets(c, m)
      BY <2>1, <2>4, <2>6, <2>7 DEF Gets, InStep, Queued
    <3> QED
      BY <2>5, <3>1
  <2>8. CASE ~InStep(c)
    BY <2>1, <2>4, <2>5, <2>8 DEF Quiet, InStep, Queued
  <2> QED
    BY <2>7, <2>8
<1>6. CASE RunStep(c)
  <2>1. ServerRunsTool /\ UNCHANGED <<sState[c], sendq[c], wire[c], up[c]>>
    BY <1>6 DEF RunStep, Slot
  <2>2. \A m : ~Schedules(m)
    BY <2>1, NothingScheduled
  <2>3. ~Forced
    BY <2>1, ForcedAlone
  <2> QED
    BY <2>1, <2>2, <2>3 DEF Quiet, Heard
<1>7. ASSUME NEW why, CutOff(c, why) PROVE Closed(c)
  BY <1>7 DEF CutOff, Closed
<1>8. CASE ReloadStep(c)
  <2>1. PICK new \in Nat :
           /\ Reloads(new)
           /\ \/ UNCHANGED <<Slot(c), wire[c], fate[c]>>
              \/ /\ RunsSync(new) /\ sState[c] # "inactive" /\ Head(sQueue).who = c
                 /\ \/ CutOff(c, "left")
                    \/ \E ms \in GameReplies(GameMsg(new), ReadyMsg(new)) :
                          /\ wire'[c] = Written(c, ms)
                          /\ sState'[c] = IF ReadyMsg(new) \in Elems(ms) THEN "playing"
                                                                        ELSE sState[c]
                          /\ UNCHANGED <<sendq[c], up[c], fate[c]>>
    BY <1>8 DEF ReloadStep
  <2>2. \A m : ~Schedules(m)
    BY <2>1, NothingScheduled
  <2>3. CASE UNCHANGED <<Slot(c), wire[c], fate[c]>>
    <3>1. Forced => ~InStep(c)
      BY <1>3, ForcedAlone
    <3> QED
      BY <2>2, <2>3, <3>1 DEF Quiet, Heard, Slot
  <2>4. CASE RunsSync(new) /\ CutOff(c, "left")
    BY <1>7, <2>2, <2>4, ForcedAlone
  <2>5. ASSUME RunsSync(new), Head(sQueue).who = c,
               NEW ms \in GameReplies(GameMsg(new), ReadyMsg(new)), wire'[c] = Written(c, ms),
               sState'[c] = IF ReadyMsg(new) \in Elems(ms) THEN "playing" ELSE sState[c],
               UNCHANGED <<sendq[c], up[c]>>
        PROVE  Given(c, new)
    <3>0. PICK g, r : g = GameMsg(new) /\ r = ReadyMsg(new)
      OBVIOUS
    <3>1. ms = <<g, r>>
      BY <2>5, <3>0 DEF GameReplies
    <3>2. r \in Elems(ms)
      <4>1. DOMAIN ms = 1 .. 2 /\ ms[2] = r
        BY <3>1
      <4> QED
        BY <4>1 DEF Elems
    <3>3. g \in ToClientMsgs /\ r \in ToClientMsgs
      BY <3>0, GameTypes
    <3>4. wire[c] \o <<g, r>> = Append(Append(wire[c], g), r)
      BY <1>1, <3>3
    <3>5. wire'[c] = Append(Append(wire[c], g), r)
      BY <2>5, <3>1, <3>4 DEF Written
    <3>6. ServerReloads(new)
      BY <2>1 DEF Reloads
    <3> QED
      BY <2>5, <3>0, <3>2, <3>5, <3>6 DEF Given
  <2>6. RunsSync(new) => ~Forced
    BY ForcedAlone
  <2> QED
    BY <2>1, <2>2, <2>3, <2>4, <2>5, <2>6
<1>9. UNCHANGED core => ~Forced /\ \A m : ~Schedules(m)
  BY ForcedAlone, NothingScheduled
<1>10. CASE CutStep(c)
  BY <1>7, <1>9, <1>10 DEF CutStep
<1>11. CASE AnswerStep(c)
  <2> DEFINE j == [type |-> "JOIN", answer |-> FALSE, newmap |-> 0]
  <2>1. j.type = "JOIN"
    OBVIOUS
  <2>2. /\ up[c] # <<>> /\ up'[c] = Tail(up[c]) /\ sendq'[c] = sendq[c] /\ sState'[c] = sState[c]
        /\ \/ wire'[c] = wire[c] \/ wire'[c] = Append(wire[c], j)
           \/ wire'[c] = Append(wire[c], Head(up[c])) /\ Head(up[c]).type = "READY"
        /\ UNCHANGED core
    BY <1>2, <1>11 DEF AnswerStep
  <2> HIDE DEF j
  <2>3. CASE wire'[c] = wire[c] \/ wire'[c] = Append(wire[c], j)
    <3>1. Heard(c)
      BY <2>1, <2>2, <2>3 DEF Heard
    <3> QED
      BY <1>9, <2>2, <3>1 DEF Quiet
  <2>4. CASE wire'[c] = Append(wire[c], Head(up[c])) /\ Head(up[c]).type = "READY"
    <3>1. ReadyBack(c)
      BY <2>2, <2>4 DEF ReadyBack
    <3> QED
      BY <1>9, <2>2, <3>1
  <2> QED
    BY <2>2, <2>3, <2>4
<1>12. CASE FlushStep(c)
  <2>1. /\ sendq[c] # <<>> /\ sendq'[c] = Tail(sendq[c]) /\ up'[c] = up[c] /\ sState'[c] = sState[c]
        /\ wire'[c] = Append(wire[c], Head(sendq[c])) /\ UNCHANGED core
    BY <1>2, <1>12 DEF FlushStep
  <2> QED
    BY <1>9, <2>1 DEF Flushed
<1> QED
  BY <1>4, <1>5, <1>6, <1>8, <1>10, <1>11, <1>12 DEF ServerSide

\* Whatever the server does for a client that has A and its send queue coming, the client still
\* follows the log; B is what is then in front of the send queue.
LEMMA FollowsServer ==
    ASSUME ~SendMayFail, IInv, SInv, LogInv, SlotInv, StreamInv,
           NEW F \in Worlds, NEW G \in Worlds, Coming(F), Goes(F, G),
           NEW c \in Clients, cMode[c] # "out", ServerSide(c), \A new : ~Given(c, new),
           NEW w \in Worlds, NEW k, NEW map, NEW base \in Nat, base <= sStep,
           NEW A \in SUBSET ToClientMsgs, NEW B,
           Follows(F, w, k, map, base, A \cup Elems(sendq[c]), InStep(c)),
           \A m \in Elems(sendq[c]) : LaterMsg(m, base),
           \A a \in A : Announces(a) => a.sstep <= sStep /\ \A m \in Elems(sendq[c]) : Earlier(a, m),
           sPaused => base < sStep /\ \A a \in A : Announces(a) => a.sstep < sStep,
           \/ wire'[c] = wire[c] /\ B = A
           \/ \E x : wire'[c] = Append(wire[c], x) /\ B = A \cup {x}
    PROVE  Follows(G, w, k, map, base, B \cup Elems(sendq'[c]), InStep(c)')
<1>1. PICK S, T : S = Elems(sendq[c]) /\ T = Elems(sendq'[c])
  OBVIOUS
<1>2. /\ wire[c] \in Seq(ToClientMsgs) /\ sendq[c] \in Seq(ToClientMsgs) /\ sStep \in Nat
  BY LocalTypes, StreamTypes
<1>3. S \in SUBSET ToClientMsgs /\ \A x : Elems(Append(sendq[c], x)) = S \cup {x}
  BY <1>1, <1>2, ElemsParts
<1>4. /\ \A x : Append(wire[c], x) # wire[c]
      /\ \A x, y : Append(wire[c], x) = Append(wire[c], y) => x = y
  <2>1. \A x : Len(Append(wire[c], x)) = Len(wire[c]) + 1 /\ Append(wire[c], x)[Len(wire[c]) + 1] = x
               /\ Len(wire[c]) \in Nat
    BY <1>2
  <2>2. \A x : Len(Append(wire[c], x)) # Len(wire[c])
    BY <2>1
  <2> QED
    BY <2>1, <2>2
<1>5. \A a \in A \cup S : Announces(a) => a.sstep <= sStep
  <2>1. \A a \in S : Sent(a)
    BY <1>1, PendingFacts DEF Pending
  <2> QED
    BY <1>2, <2>1 DEF Sent
<1>6. PICK live, then : live = InStep(c) /\ then = InStep(c)'
  OBVIOUS
<1>7. Follows(F, w, k, map, base, A \cup S, live)
  BY <1>1, <1>6
<1>8. ASSUME then => live,
             \A x \in B \cup T : Command(x) /\ x \notin A \cup S => Schedules(x),
             \A x \in B \cup T : Announces(x) /\ x \notin A \cup S => then,
             \A m : Schedules(m) /\ then => m \in B \cup T,
             \A m \in A \cup S : Command(m) /\ m \notin B \cup T =>
                ~then /\ base < m.step /\ \A a \in B \cup T : Announces(a) => a.sstep < m.step,
             Forced => ~live /\ B = A /\ T = S
      PROVE  Follows(G, w, k, map, base, B \cup T, then)
  <2>1. PICK M \in SUBSET ToClientMsgs : M = A \cup S
    BY <1>3
  <2>10. PICK N : N = B \cup T
    OBVIOUS
  <2>2. Forced => /\ ~live /\ N = M /\ base < sStep
                  /\ \A a \in M : Announces(a) => a.sstep < sStep
    <3>1. Forced => sPaused
      BY ForcedAlone
    <3>2. Forced => S = {}
      <4>1. Forced => sendq[c] = <<>>
        BY <1>6, <1>8 DEF SlotInv, SlotOK, InStep
      <4> QED
        BY <1>1, <4>1 DEF Elems
    <3> QED
      BY <1>8, <2>1, <2>10, <3>1, <3>2
  <2>3. /\ Follows(F, w, k, map, base, M, live)
        /\ \A a \in M : Announces(a) => a.sstep <= sStep
        /\ \A x \in N : Command(x) /\ x \notin M => Schedules(x)
        /\ \A x \in N : Announces(x) /\ x \notin M => then
        /\ \A m : Schedules(m) /\ then => m \in N
        /\ \A m \in M : Command(m) /\ m \notin N =>
              ~then /\ base < m.step /\ \A a \in N : Announces(a) => a.sstep < m.step
    BY <1>5, <1>7, <1>8, <2>1, <2>10
  <2>4. Follows(G, w, k, map, base, N, then)
    BY <1>8, <2>2, <2>3, FollowsAlong
  <2> QED
    BY <2>10, <2>4
<1> DEFINE Goal == Follows(G, w, k, map, base, B \cup T, then)
<1> SUFFICES Goal
  BY <1>1, <1>6
<1> HIDE DEF Goal
<1>9. Heard(c) => /\ A \subseteq B
                  /\ \A x \in B : x \in A \/ (~Command(x) /\ ~Announces(x))
  <2>1. \A x : x.type = "JOIN" => ~Command(x) /\ ~Announces(x)
    BY DEF Command, Announces
  <2> QED
    BY <1>4, <2>1 DEF Heard
<1>10. CASE Quiet(c)
  <2>1. T = S /\ then = live /\ Heard(c)
    BY <1>1, <1>6, <1>10 DEF Quiet, InStep
  <2>2. Forced => ~live /\ B = A
    BY <1>4, <1>6, <1>10 DEF Quiet
  <2>3. \A m : ~(Schedules(m) /\ then)
    BY <1>6, <1>10, <2>1 DEF Quiet
  <2>4. Follows(G, w, k, map, base, B \cup T, then)
    BY <1>8, <1>9, <2>1, <2>2, <2>3
  <2> QED
    BY <2>4 DEF Goal
<1>11. ASSUME NEW x, Gets(c, x), ~Forced PROVE Goal
  <2>1. T = S \cup {x} /\ Heard(c) /\ live /\ then
    BY <1>1, <1>3, <1>6, <1>11 DEF Gets, InStep
  <2>2. \A m : Schedules(m) => m = x
    BY <1>11 DEF Gets
  <2>3. Command(x) => Schedules(x)
    BY <1>11, UntimedIsNoCommand DEF Gets
  <2>4. Follows(G, w, k, map, base, B \cup T, then)
    BY <1>8, <1>9, <1>11, <2>1, <2>2, <2>3
  <2> QED
    BY <2>4 DEF Goal
<1>12. ASSUME ~Forced, \A m : ~Schedules(m), ReadyBack(c) PROVE Goal
  <2>1. T = S /\ then = live /\ wire'[c] = Append(wire[c], Head(up[c])) /\ Head(up[c]).type = "READY"
    BY <1>1, <1>6, <1>12 DEF ReadyBack, InStep
  <2>2. B = A \cup {Head(up[c])}
    BY <1>4, <2>1
  <2>3. ~Command(Head(up[c])) /\ ~Announces(Head(up[c]))
    BY <2>1 DEF Command, Announces
  <2>4. Follows(G, w, k, map, base, B \cup T, then)
    BY <1>8, <1>12, <2>1, <2>2, <2>3
  <2> QED
    BY <2>4 DEF Goal
<1>13. ASSUME ~Forced, \A m : ~Schedules(m), Closed(c) PROVE Goal
  <2>1. T = {} /\ ~then /\ wire'[c] = Append(wire[c], Close)
    <3>1. Elems(<<>>) = {}
      BY DEF Elems
    <3> QED
      BY <1>1, <1>6, <1>13, <3>1 DEF Closed, InStep
  <2>2. B = A \cup {Close}
    BY <1>4, <2>1
  <2>3. ~Command(Close) /\ ~Announces(Close)
    BY UntimedIsNoCommand
  <2>4. ASSUME NEW m \in S, Command(m)
        PROVE  base < m.step /\ \A a \in A : Announces(a) => a.sstep < m.step
    <3>1. m.step > base /\ m.step \in Nat
      BY <1>1, <1>3, <2>4, CommandNumbers DEF LaterMsg
    <3>2. \A a \in A : Announces(a) => Earlier(a, m)
      BY <1>1, <2>4
    <3>3. base < m.step
      BY <3>1
    <3> QED
      BY <2>4, <3>2, <3>3 DEF Earlier
  <2>5. ~Announces(Close) /\ \A m \in A \cup S : m \notin B \cup T => m \in S
    BY <2>2, <2>3
  <2>6. \A m \in A \cup S : Command(m) /\ m \notin B \cup T =>
                ~then /\ base < m.step /\ \A a \in B \cup T : Announces(a) => a.sstep < m.step
    BY <2>1, <2>2, <2>4, <2>5
  <2>7. \A x \in B \cup T : x \notin A \cup S => ~Command(x) /\ ~Announces(x)
    BY <2>1, <2>2, <2>3
  <2>8. Follows(G, w, k, map, base, B \cup T, then)
    BY <1>8, <1>13, <2>1, <2>6, <2>7
  <2> QED
    BY <2>8 DEF Goal
<1>14. ASSUME ~Forced, \A m : ~Schedules(m), Flushed(c) PROVE Goal
  <2>1. /\ sendq[c] # <<>> /\ sendq'[c] = Tail(sendq[c]) /\ then = live
        /\ wire'[c] = Append(wire[c], Head(sendq[c]))
    BY <1>6, <1>14 DEF Flushed, InStep
  <2>2. B = A \cup {Head(sendq[c])}
    BY <1>4, <2>1
  <2>3. S = T \cup {Head(sendq[c])}
    BY <1>1, <1>2, <2>1, ElemsParts
  <2>4. B \cup T = A \cup S
    BY <2>2, <2>3
  <2>5. Follows(G, w, k, map, base, B \cup T, then)
    BY <1>8, <1>14, <2>1, <2>4
  <2> QED
    BY <2>5 DEF Goal
<1> QED
  BY <1>10, <1>11, <1>12, <1>13, <1>14, ServerMoves

-----------------------------------------------------------------------------
(* The NWC_READY that goes to the server and back.                         *)

LEMMA LoneParts ==
    ASSUME NEW S, NEW s \in Seq(S)
    PROVE  /\ Lone(<<>>) /\ \A T : ~Has(<<>>, T)
           /\ \A T : Has(s, T) <=> \E m \in Elems(s) : m.type \in T
           /\ \A x : x.type # "READY" =>
                 /\ Lone(s) => Lone(Append(s, x))
                 /\ Has(Append(s, x), {"READY"}) => Has(s, {"READY"})
           /\ \A x : ~Has(s, {"READY"}) => Lone(Append(s, x))
           /\ s # <<>> =>
                 /\ Lone(s) => Lone(Tail(s))
                 /\ \A T : Has(Tail(s), T) => Has(s, T)
                 /\ Head(s).type = "READY" => Has(s, {"READY"})
                 /\ Lone(s) /\ Head(s).type = "READY" => ~Has(Tail(s), {"READY"})
<1>1. Lone(<<>>) /\ \A T : ~Has(<<>>, T)
  BY DEF Lone, Has
<1>2. \A T : Has(s, T) <=> \E m \in Elems(s) : m.type \in T
  BY DEF Has, Elems
<1>3. ASSUME NEW x
      PROVE  /\ Append(s, x)[Len(s) + 1] = x /\ Len(Append(s, x)) = Len(s) + 1
             /\ \A i \in 1 .. Len(s) : Append(s, x)[i] = s[i]
             /\ Len(s) \in Nat
  OBVIOUS
<1>4. ASSUME NEW x, x.type # "READY"
      PROVE  /\ Lone(s) => Lone(Append(s, x))
             /\ Has(Append(s, x), {"READY"}) => Has(s, {"READY"})
  <2>1. \A i \in 1 .. Len(Append(s, x)) : Append(s, x)[i].type = "READY" =>
           i \in 1 .. Len(s) /\ s[i].type = "READY"
    BY <1>3, <1>4
  <2> QED
    BY <2>1 DEF Lone, Has
<1>5. ASSUME NEW x, ~Has(s, {"READY"}) PROVE Lone(Append(s, x))
  <2>1. \A i \in 1 .. Len(Append(s, x)) : Append(s, x)[i].type = "READY" => i = Len(s) + 1
    BY <1>3, <1>5 DEF Has
  <2> QED
    BY <2>1 DEF Lone
<1>6. ASSUME s # <<>>
      PROVE  /\ Lone(s) => Lone(Tail(s))
             /\ \A T : Has(Tail(s), T) => Has(s, T)
             /\ Head(s).type = "READY" => Has(s, {"READY"})
             /\ Lone(s) /\ Head(s).type = "READY" => ~Has(Tail(s), {"READY"})
  <2>1. /\ Len(Tail(s)) = Len(s) - 1 /\ Len(s) \in Nat /\ Len(s) > 0
        /\ \A i \in 1 .. Len(Tail(s)) : Tail(s)[i] = s[i + 1] /\ i + 1 \in 1 .. Len(s)
        /\ Head(s) = s[1]
    BY <1>6
  <2>2. Lone(s) => Lone(Tail(s))
    <3>1. ASSUME Lone(s), NEW i \in 1 .. Len(Tail(s)), NEW j \in 1 .. Len(Tail(s)),
                 Tail(s)[i].type = "READY", Tail(s)[j].type = "READY"
          PROVE  i = j
      <4>1. s[i + 1].type = "READY" /\ s[j + 1].type = "READY"
        BY <3>1, <2>1
      <4>2. i + 1 = j + 1
        BY <3>1, <4>1, <2>1 DEF Lone
      <4> QED
        BY <4>2
    <3> QED
      BY <3>1 DEF Lone
  <2>3. \A T : Has(Tail(s), T) => Has(s, T)
    BY <2>1 DEF Has
  <2>4. Head(s).type = "READY" => Has(s, {"READY"})
    BY <2>1 DEF Has
  <2>5. ASSUME Lone(s), Head(s).type = "READY", Has(Tail(s), {"READY"}) PROVE FALSE
    <3>1. PICK i \in 1 .. Len(Tail(s)) : Tail(s)[i].type = "READY"
      BY <2>5 DEF Has
    <3>2. s[i + 1].type = "READY" /\ i + 1 \in 1 .. Len(s) /\ 1 \in 1 .. Len(s) /\ s[1].type = "READY"
      BY <3>1, <2>1, <2>5
    <3>3. i + 1 = 1
      BY <3>2, <2>5 DEF Lone
    <3> QED
      BY <3>3
  <2> QED
    BY <2>2, <2>3, <2>4, <2>5
<1> QED
  BY <1>1, <1>2, <1>4, <1>5, <1>6

\* what the server broadcasts is no answer
LEMMA BroadcastIsNoReady ==
    ASSUME IInv, NEW c \in Clients
    PROVE  \A m \in Elems(sendq[c]) : m.type \notin {"READY", "GAME", "JOIN", "CLOSE"}
<1>1. sendq[c] \in Seq(BroadcastMsgs)
  BY LocalTypes
<1>2. Elems(sendq[c]) \subseteq BroadcastMsgs
  BY <1>1, ElemsParts
<1> QED
  BY <1>2 DEF BroadcastMsgs, TimeMsgs, CheckMsgs, ToolMsgs, SyncMsgs

\* Unless it sends a game, the server writes one message at the most, and an NWC_READY is the
\* one that the client sent.
LEMMA WireGrows ==
    ASSUME ~SendMayFail, IInv, SInv, LogInv, NEW c \in Clients, cMode[c] # "out", ServerSide(c),
           \A new : ~Given(c, new)
    PROVE  \/ /\ wire'[c] = wire[c]
              /\ up'[c] = up[c] \/ (up[c] # <<>> /\ up'[c] = Tail(up[c]))
           \/ \E x : /\ wire'[c] = Append(wire[c], x)
                     /\ x.type \notin {"READY", "GAME"}
                     /\ up'[c] = up[c] \/ (up[c] # <<>> /\ up'[c] = Tail(up[c])) \/ up'[c] = <<>>
           \/ ReadyBack(c)
<1>1. Heard(c) => \/ /\ wire'[c] = wire[c]
                     /\ up'[c] = up[c] \/ (up[c] # <<>> /\ up'[c] = Tail(up[c]))
                  \/ \E x : /\ wire'[c] = Append(wire[c], x)
                            /\ x.type \notin {"READY", "GAME"}
                            /\ up'[c] = up[c] \/ (up[c] # <<>> /\ up'[c] = Tail(up[c]))
  BY DEF Heard
<1>2. CASE Quiet(c) \/ \E x : Gets(c, x)
  BY <1>1, <1>2 DEF Quiet, Gets
<1>3. CASE Closed(c)
  BY <1>3, UntimedIsNoCommand DEF Closed, Close
<1>4. CASE Flushed(c)
  <2>1. sendq[c] \in Seq(BroadcastMsgs)
    BY LocalTypes
  <2>2. Head(sendq[c]) \in Elems(sendq[c])
    BY <2>1, <1>4, ElemsParts DEF Flushed
  <2>3. Head(sendq[c]).type \notin {"READY", "GAME"}
    BY <2>2, BroadcastIsNoReady
  <2> QED
    BY <2>3, <1>4 DEF Flushed
<1> QED
  BY <1>2, <1>3, <1>4, ServerMoves

LEMMA ReadyServerSide ==
    ASSUME ~SendMayFail, IInv, SInv, LogInv, NEW c \in Clients, cMode[c] # "out", ServerSide(c),
           \A new : ~Given(c, new), ReadyOK(c)
    PROVE  /\ ReadyOK(c)'
           /\ \A m \in Elems(wire'[c]) \cup Elems(up'[c]) : m.type = "READY" =>
                 m \in Elems(wire[c]) \cup Elems(up[c])
<1>1. /\ wire[c] \in Seq(ToClientMsgs) /\ up[c] \in Seq(ToServerMsgs)
      /\ cPaused'[c] = cPaused[c]
  BY LocalTypes, ServerSideKeepsMachine DEF Machine
<1>2. ASSUME NEW u, u = up'[c], u = up[c] \/ (up[c] # <<>> /\ u = Tail(up[c])) \/ u = <<>>
      PROVE  /\ Lone(u) /\ (Has(u, {"READY"}) => Has(up[c], {"READY"}))
             /\ Elems(u) \subseteq Elems(up[c])
  <2>1. Lone(up[c])
    BY DEF ReadyOK
  <2>2. up[c] # <<>> => Elems(Tail(up[c])) \subseteq Elems(up[c])
    BY <1>1, ElemsParts
  <2>3. Elems(<<>>) = {}
    BY <1>1, ElemsParts
  <2> QED
    BY <2>1, <2>2, <2>3, <1>1, <1>2, LoneParts
<1>3. CASE /\ wire'[c] = wire[c]
           /\ up'[c] = up[c] \/ (up[c] # <<>> /\ up'[c] = Tail(up[c]))
  <2>1. PICK u : u = up'[c]
    OBVIOUS
  <2>2. /\ Lone(up'[c]) /\ (Has(up'[c], {"READY"}) => Has(up[c], {"READY"}))
        /\ Elems(up'[c]) \subseteq Elems(up[c])
    BY <2>1, <1>2, <1>3
  <2> QED
    BY <2>2, <1>1, <1>3 DEF ReadyOK
<1>4. CASE \E x : /\ wire'[c] = Append(wire[c], x)
                  /\ x.type \notin {"READY", "GAME"}
                  /\ up'[c] = up[c] \/ (up[c] # <<>> /\ up'[c] = Tail(up[c])) \/ up'[c] = <<>>
  <2>1. PICK x : /\ wire'[c] = Append(wire[c], x)
                 /\ x.type \notin {"READY", "GAME"}
                 /\ up'[c] = up[c] \/ (up[c] # <<>> /\ up'[c] = Tail(up[c])) \/ up'[c] = <<>>
    BY <1>4
  <2>2. PICK u : u = up'[c]
    OBVIOUS
  <2>3. /\ Lone(up'[c]) /\ (Has(up'[c], {"READY"}) => Has(up[c], {"READY"}))
        /\ Elems(up'[c]) \subseteq Elems(up[c])
    BY <2>1, <2>2, <1>2
  <2>4. /\ Lone(wire'[c]) /\ (Has(wire'[c], {"READY"}) => Has(wire[c], {"READY"}))
    BY <2>1, <1>1, LoneParts DEF ReadyOK
  <2>5. Elems(wire'[c]) = Elems(wire[c]) \cup {x}
    BY <2>1, <1>1, ElemsParts
  <2> QED
    BY <2>1, <2>3, <2>4, <2>5, <1>1 DEF ReadyOK
<1>5. CASE ReadyBack(c)
  <2>1. PICK x : x = Head(up[c])
    OBVIOUS
  <2>2. /\ up[c] # <<>> /\ x.type = "READY" /\ up'[c] = Tail(up[c]) /\ wire'[c] = Append(wire[c], x)
    BY <2>1, <1>5 DEF ReadyBack
  <2>3. /\ Has(up[c], {"READY"}) /\ ~Has(Tail(up[c]), {"READY"}) /\ Lone(Tail(up[c]))
        /\ Elems(up[c]) = Elems(Tail(up[c])) \cup {x}
    BY <2>1, <2>2, <1>1, LoneParts, ElemsParts DEF ReadyOK
  <2>4. ~Has(wire[c], {"READY"}) /\ cPaused[c]
    BY <2>3 DEF ReadyOK
  <2>5. Lone(Append(wire[c], x)) /\ Elems(Append(wire[c], x)) = Elems(wire[c]) \cup {x}
    BY <2>4, <1>1, LoneParts, ElemsParts
  <2> QED
    BY <2>2, <2>3, <2>4, <2>5, <1>1 DEF ReadyOK
<1> QED
  BY <1>3, <1>4, <1>5, WireGrows

-----------------------------------------------------------------------------
(* The server's steps, and a client that plays.                            *)

\* what is in front of the send queue of c was sent before it
LEMMA InFrontOfSendq ==
    ASSUME IInv, StreamInv, NEW c \in Clients
    PROVE  /\ Elems(cQueue[c]) \cup Elems(wire[c]) \in SUBSET ToClientMsgs
           /\ \A a \in Elems(cQueue[c]) \cup Elems(wire[c]) :
                 /\ Announces(a) => a.sstep <= sStep
                 /\ \A m \in Elems(sendq[c]) : Earlier(a, m)
           /\ \A a \in Elems(cQueue[c]) : \A m \in Elems(wire[c]) : Earlier(a, m)
<1>1. PICK q, w, s : q = cQueue[c] /\ w = wire[c] /\ s = sendq[c]
  OBVIOUS
<1>2. q \in Seq(ToClientMsgs) /\ w \in Seq(ToClientMsgs) /\ s \in Seq(ToClientMsgs)
  BY <1>1, StreamTypes
<1>3. Ordered(q, w, s) /\ AllSent(q) /\ AllSent(w)
  BY <1>1 DEF StreamInv, StreamOK
<1>4. Elems(q) \subseteq ToClientMsgs /\ Elems(w) \subseteq ToClientMsgs
  BY <1>2, ElemsParts
<1>5. /\ \A a \in Elems(q) : \E i \in 1 .. Len(q) : a = q[i]
      /\ \A a \in Elems(w) : \E i \in 1 .. Len(w) : a = w[i]
      /\ \A a \in Elems(s) : \E i \in 1 .. Len(s) : a = s[i]
  BY <1>2 DEF Elems
<1>6. \A a \in Elems(q) : Sent(a) /\ \A m \in Elems(s) : Earlier(a, m)
  BY <1>3, <1>5 DEF Ordered, Before, AllSent
<1>7. \A a \in Elems(w) : Sent(a) /\ \A m \in Elems(s) : Earlier(a, m)
  BY <1>3, <1>5 DEF Ordered, Before, AllSent
<1>8. \A a \in Elems(q) : \A m \in Elems(w) : Earlier(a, m)
  BY <1>3, <1>5 DEF Ordered, Before
<1>9. \A a : Sent(a) /\ Announces(a) => a.sstep <= sStep
  <2>1. sStep \in Nat
    BY LocalTypes
  <2> QED
    BY <2>1 DEF Sent
<1> QED
  BY <1>1, <1>4, <1>6, <1>7, <1>8, <1>9

\* a game goes only to who waits for it
LEMMA PlayersGetNoGame ==
    ASSUME IInv, SInv, LogInv, JoinInv, NEW c \in Clients, cMode[c] = "playing"
    PROVE  \A new : ~Given(c, new)
<1>1. ~SyncFor(c)
  BY DEF JoinInv, JoinOK
<1> QED
  BY <1>1, SyncForSteps DEF Given

LEMMA PlayerFollows ==
    ASSUME ~SendMayFail, IInv, SInv, LogInv, SlotInv, StreamInv, JoinInv,
           NEW F \in Worlds, NEW G \in Worlds, Coming(F), Goes(F, G),
           NEW c \in Clients, cMode[c] = "playing", ServerSide(c), IdleOK(c),
           NEW w \in Worlds, NEW k, NEW map, NEW base \in Nat, base <= sStep,
           Follows(F, w, k, map, base, Pending(c), InStep(c)),
           \A m \in Elems(sendq[c]) : LaterMsg(m, base),
           sPaused /\ sStep > 0 => base < sStep
    PROVE  Follows(G, w, k, map, base, Pending(c)', InStep(c)')
<1>1. cMode[c] # "out" /\ \A new : ~Given(c, new)
  BY PlayersGetNoGame
<1>2. PICK A, S : A = Elems(cQueue[c]) \cup Elems(wire[c]) /\ S = Elems(sendq[c])
  OBVIOUS
<1>3. /\ A \in SUBSET ToClientMsgs
      /\ \A a \in A : Announces(a) => a.sstep <= sStep /\ \A m \in Elems(sendq[c]) : Earlier(a, m)
  BY <1>2, InFrontOfSendq
<1>4. Follows(F, w, k, map, base, A \cup Elems(sendq[c]), InStep(c))
  BY <1>2 DEF Pending
<1>5. sStep > 0
  <2>1. 0 < k /\ k <= base /\ Frames(F, Len(w)) = k
    BY <1>4 DEF Follows
  <2>2. Len(w) \in Nat
    BY DEF Worlds
  <2>3. k \in Nat
    BY <2>1, <2>2, FramesType
  <2>4. sStep \in Nat
    BY LocalTypes
  <2> QED
    BY <2>1, <2>3, <2>4
<1>6. sPaused => base < sStep /\ \A a \in A : Announces(a) => a.sstep < sStep
  BY <1>2, <1>5 DEF IdleOK
<1>7. wire'[c] = wire[c] \/ \E x : wire'[c] = Append(wire[c], x)
  BY <1>1, WireGrows DEF ReadyBack
<1>8. cQueue'[c] = cQueue[c] /\ wire[c] \in Seq(ToClientMsgs)
  BY LocalTypes, ServerSideKeepsMachine DEF Machine
<1>9. CASE wire'[c] = wire[c]
  <2>1. Follows(G, w, k, map, base, A \cup Elems(sendq'[c]), InStep(c)')
    BY <1>1, <1>3, <1>4, <1>6, <1>9, FollowsServer
  <2>2. Pending(c)' = A \cup Elems(sendq'[c])
    BY <1>2, <1>8, <1>9 DEF Pending
  <2> QED
    BY <2>1, <2>2
<1>10. CASE \E x : wire'[c] = Append(wire[c], x)
  <2>1. PICK x : wire'[c] = Append(wire[c], x)
    BY <1>10
  <2>2. PICK B : B = A \cup {x}
    OBVIOUS
  <2>3. Follows(G, w, k, map, base, B \cup Elems(sendq'[c]), InStep(c)')
    BY <1>1, <1>3, <1>4, <1>6, <2>1, <2>2, FollowsServer
  <2>4. Elems(Append(wire[c], x)) = Elems(wire[c]) \cup {x}
    BY <1>8, ElemsParts
  <2>5. Pending(c)' = B \cup Elems(sendq'[c])
    BY <1>2, <1>8, <2>1, <2>2, <2>4 DEF Pending
  <2> QED
    BY <2>3, <2>5
<1> QED
  BY <1>7, <1>9, <1>10

LEMMA PlayerServerSide ==
    ASSUME ~SendMayFail, IInv, SInv, LogInv, SlotInv, StreamInv, JoinInv, OrderInv, IdleInv,
           NEW F \in Worlds, NEW G \in Worlds, Coming(F), Goes(F, G),
           NEW c \in Clients, cMode[c] = "playing", ServerSide(c), PlayerOK(F, c)
    PROVE  PlayerOK(G, c)'
<1>1. cMode[c] # "out" /\ (\A new : ~Given(c, new)) /\ IdleOK(c) /\ Plays(c)
  BY PlayersGetNoGame DEF OrderInv, OrderOK, IdleInv
<1>2. /\ ReadyOK(c)'
      /\ \A m \in Elems(wire'[c]) \cup Elems(up'[c]) : m.type = "READY" =>
            m \in Elems(wire[c]) \cup Elems(up[c])
  BY <1>1, ReadyServerSide DEF PlayerOK
<1>3. /\ cStep'[c] = cStep[c] /\ cBarrier'[c] = cBarrier[c] /\ cPaused'[c] = cPaused[c]
      /\ cMap'[c] = cMap[c] /\ cWorld'[c] = cWorld[c] /\ cQueue'[c] = cQueue[c]
  BY ServerSideKeepsMachine DEF Machine
<1>4. /\ wire[c] \in Seq(ToClientMsgs) /\ cWorld[c] \in Worlds /\ cStep[c] \in Nat
      /\ cBarrier[c] \in Nat /\ cBarrier[c] <= sStep
  BY LocalTypes
<1>5. ASSUME cStep[c] = 0 PROVE LoadedOK(G, c)'
  <2>1. LoadedOK(F, c)
    BY <1>5 DEF PlayerOK
  <2>2. PICK r : r = Head(wire[c])
    OBVIOUS
  <2>3. /\ r \in Elems(wire[c]) /\ r.type = "READY"
    BY <2>1, <2>2, <1>4, ElemsParts DEF LoadedOK
  <2>4. /\ r.step \in Nat /\ r.step <= sStep
    BY <2>3, LocalTypes, ReadySteps
  <2>5. AllLater(Elems(wire[c]) \cup Elems(sendq[c]), r.step)
    BY <1>1, <2>3 DEF Plays, PlayOK
  <2>6. sPaused /\ sStep > 0 => r.step < sStep
    BY <1>1, <2>3 DEF IdleOK
  <2>7. Follows(F, cWorld[c], r.step, r.map, r.step, Pending(c), InStep(c))
    BY <2>1, <2>2 DEF LoadedOK
  <2>8. \A m \in Elems(sendq[c]) : LaterMsg(m, r.step)
    BY <2>5 DEF AllLater
  <2>9. Follows(G, cWorld[c], r.step, r.map, r.step, Pending(c)', InStep(c)')
    BY <1>1, <1>4, <2>4, <2>6, <2>7, <2>8, PlayerFollows
  <2>10. wire'[c] # <<>> /\ Head(wire'[c]) = r
    <3>1. wire[c] # <<>>
      BY <2>1 DEF LoadedOK
    <3>2. \A x : Append(wire[c], x) # <<>> /\ Head(Append(wire[c], x)) = Head(wire[c])
      BY <3>1, <1>4
    <3> QED
      BY <3>1, <3>2, <2>2, <1>1, WireGrows DEF ReadyBack
  <2> QED
    BY <2>1, <2>3, <2>9, <2>10, <1>3 DEF LoadedOK
<1>6. ASSUME cStep[c] > 0 PROVE RunningOK(G, c)'
  <2>1. RunningOK(F, c)
    BY <1>6 DEF PlayerOK
  <2>2. PICK b : b = cBarrier[c]
    OBVIOUS
  <2>3. AllLater(Elems(wire[c]) \cup Elems(sendq[c]), b)
    BY <1>1, <2>2 DEF Plays, PlayOK
  <2>4. sPaused /\ sStep > 0 => b < sStep
    BY <1>1, <2>2 DEF IdleOK
  <2>5. Follows(F, cWorld[c], cStep[c], cMap[c], b, Pending(c), InStep(c))
    BY <2>1, <2>2 DEF RunningOK
  <2>6. \A m \in Elems(sendq[c]) : LaterMsg(m, b)
    BY <2>3 DEF AllLater
  <2>7. Follows(G, cWorld[c], cStep[c], cMap[c], b, Pending(c)', InStep(c)')
    BY <1>1, <1>4, <2>2, <2>4, <2>5, <2>6, PlayerFollows
  <2> QED
    BY <2>1, <2>2, <2>7, <1>2, <1>3 DEF RunningOK
<1> QED
  BY <1>2, <1>3, <1>5, <1>6 DEF PlayerOK

-----------------------------------------------------------------------------
(* The server's steps, and a client that joins.                            *)

LEMMA NoLiveGame ==
    ASSUME NEW w, NEW mode, NEW i, Live(w, mode, i)
    PROVE  /\ mode \in {"joining", "waiting"} /\ w[i].type = "GAME"
           /\ i \in 1 .. Len(w) => GameComes(w, mode)
<1>1. mode \in {"joining", "waiting"} /\ w[i].type = "GAME" /\ Reached(w, mode, i)
  BY DEF Live, Reached
<1> QED
  BY <1>1 DEF GameComes

LEMMA GameFacts ==
    ASSUME NEW m \in ToClientMsgs, m.type = "GAME"
    PROVE  Append(m.world, Reload(m.reload)) \in Worlds
<1>1. m \in GameMsgs
  BY MessageTypes
<1>2. m.world \in Worlds /\ m.reload \in Nat
  BY <1>1 DEF GameMsgs
<1> QED
  BY <1>2, AppendWorld

\* what is behind i on a wire
LEMMA BehindParts ==
    ASSUME NEW S, NEW w \in Seq(S), NEW i \in 1 .. Len(w)
    PROVE  /\ Behind(w, i) \subseteq Elems(w)
           /\ \A x : Behind(Append(w, x), i) = Behind(w, i) \cup {x}
           /\ \A m \in Behind(w, i) : \E j \in i + 1 .. Len(w) : m = w[j]
<1>1. Behind(w, i) \subseteq Elems(w) /\ \A m \in Behind(w, i) : \E j \in i + 1 .. Len(w) : m = w[j]
  BY DEF Behind, Elems
<1>2. ASSUME NEW x PROVE Behind(Append(w, x), i) = Behind(w, i) \cup {x}
  <2>1. /\ Append(w, x)[Len(w) + 1] = x /\ Len(Append(w, x)) = Len(w) + 1 /\ Len(w) \in Nat
        /\ \A j \in 1 .. Len(w) : Append(w, x)[j] = w[j]
    OBVIOUS
  <2>2. i + 1 .. Len(Append(w, x)) = (i + 1 .. Len(w)) \cup {Len(w) + 1}
    BY <2>1
  <2>3. \A j \in i + 1 .. Len(w) : Append(w, x)[j] = w[j]
    BY <2>1
  <2> QED
    BY <2>1, <2>2, <2>3 DEF Behind
<1> QED
  BY <1>1, <1>2

\* a message that is no game adds none
LEMMA LiveAppend ==
    ASSUME NEW S, NEW w \in Seq(S), NEW mode, NEW x, x.type # "GAME",
           NEW i \in 1 .. Len(Append(w, x)), Live(Append(w, x), mode, i)
    PROVE  i \in 1 .. Len(w) /\ Live(w, mode, i)
<1>1. /\ Append(w, x)[Len(w) + 1] = x /\ Len(Append(w, x)) = Len(w) + 1 /\ Len(w) \in Nat
      /\ \A j \in 1 .. Len(w) : Append(w, x)[j] = w[j]
  OBVIOUS
<1>2. Append(w, x)[i].type = "GAME"
  BY DEF Live
<1>3. i \in 1 .. Len(w)
  BY <1>1, <1>2
<1>4. \A j \in 1 .. i : Append(w, x)[j] = w[j]
  BY <1>1, <1>3
<1> QED
  BY <1>3, <1>4 DEF Live

LEMMA GameServerSide ==
    ASSUME ~SendMayFail, IInv, SInv, LogInv, SlotInv, StreamInv, OrderInv, IdleInv,
           NEW F \in Worlds, NEW G \in Worlds, Coming(F), Goes(F, G),
           NEW c \in Clients, ServerSide(c), \A new : ~Given(c, new),
           GameFollows(F, wire[c], cMode[c], sendq[c], InStep(c))
    PROVE  GameFollows(G, wire[c], cMode[c], sendq[c], InStep(c))'
<1>1. cMode'[c] = cMode[c] /\ OrderOK(c) /\ IdleOK(c)
  BY ServerSideKeepsMachine DEF Machine, OrderInv, IdleInv
<1>2. PICK w, s, mode : w = wire[c] /\ s = sendq[c] /\ mode = cMode[c]
  OBVIOUS
<1>3. w \in Seq(ToClientMsgs)
  BY <1>2, LocalTypes
<1>4. PICK v, t : v = wire'[c] /\ t = sendq'[c]
  OBVIOUS
<1>5. SUFFICES ASSUME NEW i \in 1 .. Len(v), Live(v, mode, i)
               PROVE  /\ i < Len(v) /\ v[i + 1].type = "READY"
                      /\ Follows(G, Append(v[i].world, Reload(v[i].reload)), v[i + 1].step,
                                 v[i + 1].map, v[i + 1].step, Behind(v, i) \cup Elems(t),
                                 InStep(c)')
  BY <1>1, <1>2, <1>4 DEF GameFollows
<1>6. mode \in {"joining", "waiting"}
  BY <1>5, NoLiveGame
<1>7. v = w \/ \E x : v = Append(w, x) /\ x.type # "GAME"
  <2>1. up[c] \in Seq(ToServerMsgs)
    BY LocalTypes
  <2> QED
    BY <2>1, <1>2, <1>4, <1>6, WireGrows DEF ReadyBack
<1>8. i \in 1 .. Len(w) /\ Live(w, mode, i)
  BY <1>3, <1>5, <1>7, LiveAppend
<1>9. PICK g, r : g = w[i] /\ r = w[i + 1]
  OBVIOUS
<1>10. /\ i < Len(w) /\ r.type = "READY"
       /\ Follows(F, Append(g.world, Reload(g.reload)), r.step, r.map, r.step,
                  Behind(w, i) \cup Elems(s), InStep(c))
  BY <1>2, <1>8, <1>9 DEF GameFollows
<1>11. /\ i \in Nat /\ i + 1 \in 1 .. Len(w) /\ g \in ToClientMsgs /\ g.type = "GAME"
       /\ r \in Elems(w) /\ r \in Behind(w, i)
  <2>1. Len(w) \in Nat
    BY <1>3
  <2>2. i \in Nat /\ i + 1 \in 1 .. Len(w) /\ i + 1 \in i + 1 .. Len(w)
    BY <1>8, <1>10, <2>1
  <2> QED
    BY <1>3, <1>8, <1>9, <2>2 DEF Elems, Behind, Live
<1>12. Append(g.world, Reload(g.reload)) \in Worlds
  BY <1>11, GameFacts
<1>13. r.step \in Nat /\ r.step <= sStep
  BY <1>2, <1>10, <1>11, ReadySteps, LocalTypes
<1>14. \A m \in Elems(s) : LaterMsg(m, r.step)
  <2>1. i + 1 \in i + 1 .. Len(w)
    BY <1>3, <1>10, <1>11
  <2> QED
    BY <1>1, <1>2, <1>8, <1>9, <1>10, <2>1 DEF OrderOK, GameOK, AllLater
<1>15. PICK A : A = Behind(w, i)
  OBVIOUS
<1>16. /\ A \in SUBSET ToClientMsgs /\ A \subseteq Elems(wire[c])
       /\ \A a \in A : Announces(a) => a.sstep <= sStep /\ \A m \in Elems(sendq[c]) : Earlier(a, m)
  <2>1. A \subseteq Elems(wire[c])
    BY <1>2, <1>3, <1>8, <1>15, BehindParts
  <2> QED
    BY <2>1, InFrontOfSendq
<1>17. sPaused => r.step < sStep /\ \A a \in A : Announces(a) => a.sstep < sStep
  <2>1. 0 < r.step /\ sStep \in Nat
    BY <1>10, LocalTypes DEF Follows
  <2>2. sStep > 0
    BY <2>1, <1>13
  <2> QED
    BY <2>2, <1>1, <1>2, <1>10, <1>11, <1>16 DEF IdleOK
<1>18. Follows(F, Append(g.world, Reload(g.reload)), r.step, r.map, r.step, A \cup Elems(sendq[c]),
               InStep(c))
  BY <1>10, <1>15, <1>2
<1>19. CASE v = w
  <2>1. Follows(G, Append(g.world, Reload(g.reload)), r.step, r.map, r.step,
                A \cup Elems(sendq'[c]), InStep(c)')
    BY <1>2, <1>4, <1>6, <1>12, <1>13, <1>14, <1>16, <1>17, <1>18, <1>19, FollowsServer
  <2> QED
    BY <2>1, <1>4, <1>9, <1>10, <1>15, <1>19
<1>20. CASE \E x : v = Append(w, x) /\ x.type # "GAME"
  <2>1. PICK x : v = Append(w, x)
    BY <1>20
  <2>2. PICK B : B = A \cup {x}
    OBVIOUS
  <2>3. Follows(G, Append(g.world, Reload(g.reload)), r.step, r.map, r.step,
                B \cup Elems(sendq'[c]), InStep(c)')
    BY <1>2, <1>4, <1>6, <1>12, <1>13, <1>14, <1>16, <1>17, <1>18, <2>1, <2>2, FollowsServer
  <2>4. Behind(Append(w, x), i) = Behind(w, i) \cup {x}
    BY <1>3, <1>8, BehindParts
  <2>5. Len(v) = Len(w) + 1 /\ v[i] = g /\ v[i + 1] = r /\ i < Len(v)
    <3>1. /\ Len(Append(w, x)) = Len(w) + 1 /\ Len(w) \in Nat
          /\ \A j \in 1 .. Len(w) : Append(w, x)[j] = w[j]
      BY <1>3
    <3> QED
      BY <3>1, <2>1, <1>8, <1>9, <1>10, <1>11
  <2> QED
    BY <2>1, <2>2, <2>3, <2>4, <2>5, <1>4, <1>10, <1>15
<1> QED
  BY <1>7, <1>19, <1>20

\* The game is sent: it is the log, and nothing else is on its way to the client.
LEMMA GameGiven ==
    ASSUME IInv, SInv, LogInv, SlotInv, JoinInv, OrderInv,
           NEW F \in Worlds, NEW G \in Worlds, Coming(F), Goes(F, G),
           NEW c \in Clients, cMode'[c] = cMode[c], NEW new, Given(c, new)
    PROVE  GameFollows(G, wire[c], cMode[c], sendq[c], InStep(c))'
<1>1. JoinOK(c) /\ OrderOK(c) /\ SlotOK(c)
  BY DEF JoinInv, OrderInv, SlotInv
<1>2. PICK w, mode : w = wire[c] /\ mode = cMode[c]
  OBVIOUS
<1>3. w \in Seq(ToClientMsgs) /\ Len(w) \in Nat
  BY <1>2, LocalTypes
<1>4. PICK g, r, v : g = GameMsg(new) /\ r = ReadyMsg(new) /\ v = Append(Append(w, g), r)
  OBVIOUS
<1>5. /\ new \in Nat /\ ServerReloads(new) /\ RunsSync(new) /\ Head(sQueue).who = c
      /\ sState'[c] = "playing" /\ sendq'[c] = sendq[c] /\ wire'[c] = v
  BY <1>2, <1>4 DEF Given
<1>6. /\ g \in ToClientMsgs /\ g.type = "GAME" /\ g.world = sWorld /\ g.reload = new
      /\ r.type = "READY" /\ r.step = sStep /\ r.map = new
  BY <1>4, <1>5, GameTypes
<1>7. /\ Len(v) = Len(w) + 2 /\ v[Len(w) + 1] = g /\ v[Len(w) + 2] = r
      /\ \A j \in 1 .. Len(w) : v[j] = w[j]
  BY <1>3, <1>4, <1>6
<1>8. ~GameComes(w, mode)
  BY <1>1, <1>2, <1>5, SyncForSteps DEF JoinOK
<1>9. SUFFICES ASSUME NEW i \in 1 .. Len(v), Live(v, mode, i)
               PROVE  /\ i < Len(v) /\ v[i + 1].type = "READY"
                      /\ Follows(G, Append(v[i].world, Reload(v[i].reload)), v[i + 1].step,
                                 v[i + 1].map, v[i + 1].step, Behind(v, i) \cup Elems(sendq[c]),
                                 InStep(c)')
  BY <1>2, <1>5 DEF GameFollows
<1>10. mode \in {"joining", "waiting"} /\ v[i].type = "GAME"
  BY <1>9, NoLiveGame
<1>11. i = Len(w) + 1
  <2>1. ASSUME i \in 1 .. Len(w) PROVE FALSE
    <3>1. \A j \in 1 .. i : v[j] = w[j]
      BY <2>1, <1>3, <1>7
    <3>2. Live(w, mode, i)
      BY <3>1, <1>9, <2>1 DEF Live
    <3> QED
      BY <3>2, <2>1, <1>8, NoLiveGame
  <2>2. i # Len(w) + 2
    BY <1>6, <1>7, <1>10
  <2> QED
    BY <2>1, <2>2, <1>3, <1>7, <1>9
<1>12. sState[c] # "playing"
  <2>1. SUFFICES ASSUME Has(w, {"GAME"}) PROVE FALSE
    BY <1>1, <1>2, <1>10 DEF OrderOK
  <2>2. PICK h \in 1 .. Len(w) : w[h].type = "GAME"
    BY <2>1 DEF Has
  <2>3. mode = "joining"
    BY <2>2, <1>8, <1>10 DEF GameComes, Reached
  <2>4. PICK j \in 1 .. i - 1 : Accepts(v[j]) /\ \A k \in 1 .. j - 1 : v[k].type # "GAME"
    BY <2>3, <1>9 DEF Live
  <2>5. j \in 1 .. Len(w) /\ v[j] = w[j] /\ v[h] = w[h]
    BY <2>2, <2>4, <1>3, <1>7, <1>11
  <2>6. w[j].type = "JOIN" /\ Accepts(w[j])
    BY <2>4, <2>5 DEF Accepts
  <2>7. h # j /\ ~(h \in 1 .. j - 1)
    BY <2>2, <2>4, <2>5, <2>6
  <2>8. j \in 1 .. h - 1
    BY <2>2, <2>5, <2>7, <1>3
  <2> QED
    BY <2>2, <2>6, <2>8, <1>8 DEF GameComes, Reached
<1>13. sendq[c] = <<>>
  BY <1>1, <1>12 DEF SlotOK
<1>14. Behind(v, i) \cup Elems(sendq[c]) = {r}
  <2>1. Elems(sendq[c]) = {}
    BY <1>13 DEF Elems
  <2>2. i + 1 .. Len(v) = {Len(w) + 2}
    BY <1>3, <1>7, <1>11
  <2>3. Behind(v, i) = {r}
    BY <2>2, <1>7 DEF Behind
  <2> QED
    BY <2>1, <2>3
<1>15. G = F /\ sWorld' = F /\ F = Append(sWorld, Reload(new))
  BY <1>5 DEF Goes, ServerReloads
<1>16. /\ sWorld \in Worlds /\ Len(sWorld) \in Nat /\ Len(F) = Len(sWorld) + 1
       /\ F[Len(sWorld) + 1] = Reload(new)
  BY <1>15, QueueFacts
<1>17. Frames(F, Len(F)) = sStep
  <2>1. Frames(sWorld, Len(sWorld)) = sStep
    BY DEF LogInv
  <2> QED
    BY <2>1, <1>5, <1>15, <1>16, FramesAppend, ReloadTags
<1>18. sStep \in Nat /\ 0 < sStep
  <2>1. sQueue # <<>> /\ Head(sQueue).step <= sStep
    BY <1>5 DEF RunsSync, HasDue
  <2>2. sQueue \in Seq(ToolMsgs \cup SyncMsgs) /\ sStep \in Nat
    BY QueueFacts
  <2>3. 1 \in 1 .. Len(sQueue) /\ Head(sQueue) = sQueue[1] /\ sQueue[1].step \in Nat
    BY <2>1, <2>2, QueueFacts DEF Numbered
  <2>4. sQueue[1].step > 0
    BY <2>3 DEF Coming
  <2> QED
    BY <2>1, <2>2, <2>3, <2>4
<1>19. MapIs(F, Len(F), new)
  <2>1. Rising(F, nMaps)
    BY DEF Coming
  <2> QED
    BY <2>1, <1>5, <1>16, MapReloads
<1>20. ~Command(r)
  BY <1>6 DEF Command
<1>21. Follows(G, F, sStep, new, sStep, {r}, InStep(c)')
  <2>1. Agree(F, F)
    BY <1>16 DEF Agree
  <2>2. Len(F) + 1 .. Len(F) = {}
    BY <1>16
  <2> QED
    BY <2>1, <2>2, <1>15, <1>17, <1>18, <1>19, <1>20 DEF Follows
<1>22. v[i] = g /\ v[i + 1] = r /\ i < Len(v)
  BY <1>3, <1>7, <1>11
<1>23. Append(v[i].world, Reload(v[i].reload)) = F
  BY <1>6, <1>15, <1>22
<1>24. v[i + 1].step = sStep /\ v[i + 1].map = new /\ v[i + 1].type = "READY"
  BY <1>6, <1>22
<1> QED
  BY <1>14, <1>21, <1>22, <1>23, <1>24

-----------------------------------------------------------------------------
(* The client's steps, and the game it waits for.                          *)

LEMMA LiveTail ==
    ASSUME NEW S, NEW w \in Seq(S), w # <<>>, NEW mode, NEW next,
           \/ next = mode /\ Head(w).type # "GAME"
           \/ mode = "joining" /\ next = "waiting" /\ Accepts(Head(w)),
           NEW i \in 1 .. Len(Tail(w)), Live(Tail(w), next, i)
    PROVE  /\ i + 1 \in 1 .. Len(w) /\ Live(w, mode, i + 1)
           /\ Tail(w)[i] = w[i + 1]
           /\ i + 1 < Len(w) => i < Len(Tail(w)) /\ Tail(w)[i + 1] = w[i + 2]
           /\ Behind(Tail(w), i) = Behind(w, i + 1)
<1>1. /\ Len(Tail(w)) = Len(w) - 1 /\ Len(w) \in Nat /\ Len(w) > 0 /\ Head(w) = w[1]
      /\ \A j \in 1 .. Len(Tail(w)) : Tail(w)[j] = w[j + 1]
  OBVIOUS
<1>2. i \in Nat /\ i + 1 \in 1 .. Len(w) /\ Tail(w)[i] = w[i + 1] /\ w[i + 1].type = "GAME"
  BY <1>1 DEF Live
<1>3. i + 1 < Len(w) => i < Len(Tail(w)) /\ Tail(w)[i + 1] = w[i + 2]
  <2>1. SUFFICES ASSUME i + 1 < Len(w) PROVE i < Len(Tail(w)) /\ Tail(w)[i + 1] = w[i + 2]
    OBVIOUS
  <2>2. i + 1 \in 1 .. Len(Tail(w)) /\ i < Len(Tail(w))
    BY <2>1, <1>1, <1>2
  <2>3. Tail(w)[i + 1] = w[(i + 1) + 1]
    BY <2>2, <1>1
  <2>4. (i + 1) + 1 = i + 2
    BY <1>2
  <2> QED
    BY <2>2, <2>3, <2>4
<1>4. Behind(Tail(w), i) = Behind(w, i + 1)
  <2>1. ASSUME NEW j \in i + 1 .. Len(Tail(w))
        PROVE  Tail(w)[j] = w[j + 1] /\ j + 1 \in (i + 1) + 1 .. Len(w)
    BY <1>1, <1>2
  <2>2. ASSUME NEW j \in (i + 1) + 1 .. Len(w)
        PROVE  j - 1 \in i + 1 .. Len(Tail(w)) /\ Tail(w)[j - 1] = w[j]
    <3>1. j - 1 \in i + 1 .. Len(Tail(w)) /\ j - 1 \in 1 .. Len(Tail(w)) /\ (j - 1) + 1 = j
      BY <1>1, <1>2
    <3> QED
      BY <3>1, <1>1
  <2> QED
    BY <2>1, <2>2 DEF Behind
<1>5. Live(w, mode, i + 1)
  <2>1. CASE mode = "joining" /\ next = "waiting" /\ Accepts(Head(w))
    <3>1. 1 \in 1 .. (i + 1) - 1 /\ Accepts(w[1]) /\ 1 .. 1 - 1 = {}
      BY <2>1, <1>1, <1>2
    <3> QED
      BY <3>1, <2>1, <1>2 DEF Live
  <2>2. CASE next = mode /\ mode = "waiting"
    BY <2>2, <1>2 DEF Live
  <2>3. CASE next = mode /\ mode # "waiting" /\ Head(w).type # "GAME"
    <3>1. mode = "joining"
      BY <2>3 DEF Live
    <3>2. PICK j \in 1 .. i - 1 : /\ Accepts(Tail(w)[j])
                                  /\ \A h \in 1 .. j - 1 : Tail(w)[h].type # "GAME"
      BY <2>3, <3>1 DEF Live
    <3>3. /\ j + 1 \in 1 .. (i + 1) - 1 /\ j \in 1 .. Len(Tail(w)) /\ j \in Nat
      BY <3>2, <1>1, <1>2
    <3>4. Accepts(w[j + 1])
      BY <3>2, <3>3, <1>1
    <3>5. ASSUME NEW h \in 1 .. (j + 1) - 1 PROVE w[h].type # "GAME"
      <4>1. CASE h = 1
        BY <4>1, <1>1, <2>3
      <4>2. CASE h # 1
        <5>1. h - 1 \in 1 .. j - 1 /\ h - 1 \in 1 .. Len(Tail(w)) /\ (h - 1) + 1 = h
          BY <4>2, <3>3, <1>1
        <5>2. Tail(w)[h - 1] = w[h]
          BY <5>1, <1>1
        <5> QED
          BY <5>1, <5>2, <3>2
      <4> QED
        BY <4>1, <4>2
    <3> QED
      BY <3>1, <3>3, <3>4, <3>5, <1>2 DEF Live
  <2> QED
    BY <2>1, <2>2, <2>3
<1> QED
  BY <1>2, <1>3, <1>4, <1>5

LEMMA GameClientSide ==
    ASSUME IInv, NEW F \in Worlds, NEW c \in Clients, ClientSide(c),
           GameFollows(F, wire[c], cMode[c], sendq[c], InStep(c))
    PROVE  GameFollows(F, wire[c], cMode[c], sendq[c], InStep(c))'
<1>1. CASE cMode'[c] \notin {"joining", "waiting"}
  BY <1>1, NoLiveGame DEF GameFollows
<1>2. CASE ConnectStep(c)
  <2>1. Len(wire'[c]) = 0
    BY <1>2 DEF ConnectStep
  <2> QED
    BY <2>1 DEF GameFollows
<1>3. CASE ReadStep(c) /\ (Accepted(c) \/ Skipped(c))
  <2>1. PICK w, s, mode, next : /\ w = wire[c] /\ s = sendq[c] /\ mode = cMode[c]
                                /\ next = cMode'[c]
    OBVIOUS
  <2>2. w \in Seq(ToClientMsgs) /\ w # <<>> /\ wire'[c] = Tail(w) /\ sendq'[c] = s
    BY <2>1, <1>3, LocalTypes DEF ReadStep, Slot
  <2>3. InStep(c)' = InStep(c)
    BY <1>3 DEF ReadStep, Slot, InStep
  <2>4. \/ next = mode /\ Head(w).type # "GAME"
        \/ mode = "joining" /\ next = "waiting" /\ Accepts(Head(w))
    BY <2>1, <1>3 DEF Accepted, Skipped, ClientReads, Machine, Accepts
  <2>5. ASSUME NEW i \in 1 .. Len(Tail(w)), Live(Tail(w), next, i)
        PROVE  /\ i < Len(Tail(w)) /\ Tail(w)[i + 1].type = "READY"
               /\ Follows(F, Append(Tail(w)[i].world, Reload(Tail(w)[i].reload)),
                          Tail(w)[i + 1].step, Tail(w)[i + 1].map, Tail(w)[i + 1].step,
                          Behind(Tail(w), i) \cup Elems(s), InStep(c)')
    <3>1. /\ i + 1 \in 1 .. Len(w) /\ Live(w, mode, i + 1)
          /\ Tail(w)[i] = w[i + 1]
          /\ i + 1 < Len(w) => i < Len(Tail(w)) /\ Tail(w)[i + 1] = w[i + 2]
          /\ Behind(Tail(w), i) = Behind(w, i + 1)
      BY <2>2, <2>4, <2>5, LiveTail
    <3>2. (i + 1) + 1 = i + 2
      OBVIOUS
    <3>3. /\ i + 1 < Len(w) /\ w[i + 2].type = "READY"
          /\ Follows(F, Append(w[i + 1].world, Reload(w[i + 1].reload)), w[i + 2].step,
                     w[i + 2].map, w[i + 2].step, Behind(w, i + 1) \cup Elems(s), InStep(c))
      BY <3>1, <3>2, <2>1 DEF GameFollows
    <3> QED
      BY <3>1, <3>3, <2>3
  <2> QED
    BY <2>1, <2>2, <2>5 DEF GameFollows
<1> QED
  BY <1>1, <1>2, <1>3 DEF ClientSide, GoneStep, ReadStep, Loaded, TimeRead, CommandQueued,
     Unpaused, PopStep, SyncStep, AdvanceStep, RequestStep, ClientReads, Due, Machine

\* It loads the game.
LEMMA PlayerLoads ==
    ASSUME IInv, JoinInv, NEW F \in Worlds, NEW c \in Clients, ReadStep(c), Loaded(c),
           GameFollows(F, wire[c], cMode[c], sendq[c], InStep(c))
    PROVE  PlayerOK(F, c)'
<1>1. PICK w, s : w = wire[c] /\ s = sendq[c]
  OBVIOUS
<1>2. /\ w \in Seq(ToClientMsgs) /\ w # <<>> /\ up[c] \in Seq(ToServerMsgs)
      /\ wire'[c] = Tail(w) /\ sendq'[c] = s /\ up'[c] = up[c]
      /\ cMode[c] = "waiting" /\ Head(w).type = "GAME"
      /\ cWorld'[c] = Append(Head(w).world, Reload(Head(w).reload))
      /\ cStep'[c] = 0 /\ cPaused'[c] = TRUE /\ cQueue'[c] = <<>>
  BY <1>1, LocalTypes DEF ReadStep, Loaded, ClientReads, Slot
<1>3. InStep(c)' = InStep(c)
  BY DEF ReadStep, Slot, InStep
<1>4. /\ Len(w) \in Nat /\ Len(w) > 0 /\ Head(w) = w[1] /\ Len(Tail(w)) = Len(w) - 1
      /\ \A j \in 1 .. Len(Tail(w)) : Tail(w)[j] = w[j + 1]
  BY <1>2
<1>5. Live(w, cMode[c], 1) /\ 1 \in 1 .. Len(w)
  BY <1>2, <1>4 DEF Live
<1>6. /\ 1 < Len(w) /\ w[2].type = "READY"
      /\ Follows(F, cWorld'[c], w[2].step, w[2].map, w[2].step, Behind(w, 1) \cup Elems(s),
                 InStep(c))
  <2>1. 1 + 1 = 2
    OBVIOUS
  <2>2. /\ 1 < Len(w) /\ w[1 + 1].type = "READY"
        /\ Follows(F, Append(w[1].world, Reload(w[1].reload)), w[1 + 1].step, w[1 + 1].map,
                   w[1 + 1].step, Behind(w, 1) \cup Elems(s), InStep(c))
    BY <1>1, <1>5 DEF GameFollows
  <2>3. cWorld'[c] = Append(w[1].world, Reload(w[1].reload))
    BY <1>2, <1>4
  <2> QED
    BY <2>1, <2>2, <2>3
<1>7. Tail(w) # <<>> /\ Head(Tail(w)) = w[2]
  <2>1. 1 \in 1 .. Len(Tail(w)) /\ 1 + 1 = 2
    BY <1>4, <1>6
  <2>2. Tail(w)[1] = w[1 + 1]
    BY <2>1, <1>4
  <2>3. Tail(w)[1] = w[2]
    BY <2>1, <2>2
  <2>4. Tail(w) \in Seq(ToClientMsgs)
    BY <1>2
  <2>5. Tail(w) # <<>> /\ Head(Tail(w)) = Tail(w)[1]
    <3>1. \A t \in Seq(ToClientMsgs) : 1 \in 1 .. Len(t) => t # <<>> /\ Head(t) = t[1]
      OBVIOUS
    <3> QED
      BY <3>1, <2>1, <2>4
  <2> QED
    BY <2>3, <2>5
<1>8. Behind(w, 1) = Elems(Tail(w))
  <2>1. ASSUME NEW j \in 1 + 1 .. Len(w)
        PROVE  j - 1 \in 1 .. Len(Tail(w)) /\ Tail(w)[j - 1] = w[j]
    <3>1. j - 1 \in 1 .. Len(Tail(w)) /\ (j - 1) + 1 = j
      BY <1>4
    <3> QED
      BY <3>1, <1>4
  <2>2. \A j \in 1 .. Len(Tail(w)) : j + 1 \in 1 + 1 .. Len(w) /\ Tail(w)[j] = w[j + 1]
    BY <1>4
  <2>3. DOMAIN Tail(w) = 1 .. Len(Tail(w))
    BY <1>2
  <2>4. Behind(w, 1) \subseteq Elems(Tail(w))
    BY <2>1, <2>3 DEF Behind, Elems
  <2>5. Elems(Tail(w)) \subseteq Behind(w, 1)
    <3>1. ASSUME NEW m \in Elems(Tail(w)) PROVE m \in Behind(w, 1)
      <4>1. PICK j \in 1 .. Len(Tail(w)) : m = Tail(w)[j]
        BY <2>3 DEF Elems
      <4>2. j + 1 \in 1 + 1 .. Len(w) /\ m = w[j + 1]
        BY <4>1, <2>2
      <4> QED
        BY <4>2 DEF Behind
    <3> QED
      BY <3>1
  <2> QED
    BY <2>4, <2>5
<1>9. Pending(c)' = Behind(w, 1) \cup Elems(s)
  <2>1. Elems(<<>>) = {}
    BY DEF Elems
  <2> QED
    BY <2>1, <1>2, <1>8 DEF Pending
<1>10. LoadedOK(F, c)'
  BY <1>2, <1>3, <1>6, <1>7, <1>9 DEF LoadedOK
<1>11. /\ ~Has(up[c], {"READY"})
       /\ \A j \in 1 .. Len(Tail(w)) : Tail(w)[j].type = "READY" => j = 1
  <2>1. JoinOK(c)
    BY DEF JoinInv
  <2>2. ~Has(up[c], {"READY"}) /\ GamesAlone(w, "waiting")
    BY <2>1, <1>1, <1>2 DEF JoinOK
  <2>3. PICK next : next = "waiting"
    OBVIOUS
  <2> QED
    BY <2>2, <2>3, <1>2, GamesRead
<1>12. ReadyOK(c)'
  BY <1>2, <1>11 DEF ReadyOK, Lone, Has
<1> QED
  BY <1>2, <1>10, <1>12 DEF PlayerOK

-----------------------------------------------------------------------------
(* The client's steps, when it plays.                                      *)

\* what Plays says of the streams
LEMMA PlayFacts ==
    ASSUME IInv, OrderInv, NEW c \in Clients, cMode[c] = "playing"
    PROVE  /\ \A m \in Elems(wire[c]) \cup Elems(sendq[c]) : LaterMsg(m, cBarrier[c])
           /\ \A x \in Elems(cQueue[c]) : x.step >= cStep[c]
<1>1. Plays(c)
  BY DEF OrderInv, OrderOK
<1> QED
  BY <1>1 DEF Plays, PlayOK, AllLater

\* Whoever reads a message that is no NWC_READY knows its step.
LEMMA RunsAlready ==
    ASSUME IInv, NEW F, NEW c \in Clients, PlayerOK(F, c),
           \/ cQueue[c] # <<>>
           \/ ~cPaused[c]
           \/ wire[c] # <<>> /\ Head(wire[c]).type # "READY"
    PROVE  cStep[c] > 0 /\ RunningOK(F, c) /\ ReadyOK(c)
<1>1. cStep[c] \in Nat
  BY LocalTypes
<1> QED
  BY <1>1 DEF PlayerOK, LoadedOK

\* Reading what is no NWC_READY leaves the commands as they are.
LEMMA PlayerReadsStream ==
    ASSUME IInv, StreamInv, OrderInv, NEW F \in Worlds, NEW c \in Clients, ReadStep(c),
           TimeRead(c) \/ CommandQueued(c), PlayerOK(F, c)
    PROVE  PlayerOK(F, c)'
<1>1. PICK q, w, s, x, b : /\ q = cQueue[c] /\ w = wire[c] /\ s = sendq[c] /\ x = Head(w)
                           /\ b = cBarrier[c]
  OBVIOUS
<1>2. /\ cMode[c] = "playing" /\ w # <<>> /\ wire'[c] = Tail(w) /\ sendq'[c] = s
      /\ x.type \in {"STEP", "CHECK", "TOOL", "SYNC"} /\ x.type # "READY"
      /\ cStep'[c] = cStep[c] /\ cPaused'[c] = cPaused[c] /\ cMap'[c] = cMap[c]
      /\ cWorld'[c] = cWorld[c] /\ up'[c] = up[c] /\ InStep(c)' = InStep(c)
  BY <1>1 DEF ReadStep, TimeRead, CommandQueued, ClientReads, Slot, InStep
<1>3. /\ q \in Seq(ToClientMsgs) /\ w \in Seq(ToClientMsgs) /\ up[c] \in Seq(ToServerMsgs)
      /\ cWorld[c] \in Worlds /\ cStep[c] \in Nat /\ b \in Nat /\ cStep[c] <= b
  BY <1>1, StreamTypes, LocalTypes
<1>4. cStep[c] > 0 /\ RunningOK(F, c) /\ ReadyOK(c)
  BY <1>1, <1>2, RunsAlready
<1>5. /\ x \in Elems(w) /\ x \in ToClientMsgs /\ Elems(w) = Elems(Tail(w)) \cup {x}
  <2>1. Elems(w) = Elems(Tail(w)) \cup {x} /\ Elems(w) \subseteq ToClientMsgs
    BY <1>1, <1>2, <1>3, ElemsParts
  <2> QED
    BY <2>1
<1>6. LaterMsg(x, b) /\ Sent(x)
  <2>1. x \in Pending(c)
    BY <1>1, <1>5 DEF Pending
  <2> QED
    BY <2>1, <1>1, <1>2, <1>5, PlayFacts, PendingFacts
<1>7. /\ Announces(x) => x.sstep > b /\ x.sstep \in Nat
      /\ IsQueued(x) => x.step > b
  <2>1. Announces(x) => x.sstep \in Nat
    BY <1>5, MessageNumbers
  <2>2. Command(x) => x.step > b
    BY <1>6 DEF LaterMsg
  <2>3. Announces(x) => x.sstep > b
    BY <1>6 DEF LaterMsg
  <2>4. x.type = "CHECK" => x.step = x.sstep + 1 /\ Announces(x)
    BY <1>6 DEF Sent, Announces
  <2>5. x.type = "CHECK" => x.step > b
    BY <2>1, <2>3, <2>4, <1>3
  <2> QED
    BY <2>1, <2>2, <2>3, <2>5 DEF IsQueued, Command
<1>8. PICK r, d : r = cQueue'[c] /\ d = cBarrier'[c]
  OBVIOUS
<1>9. r = q \/ (r = Append(q, x) /\ IsQueued(x))
  <2>1. IsQueued(x) => Insert(q, x) = Append(q, x)
    BY <1>1, <1>2, ReadIsAppend DEF StreamInv
  <2> QED
    BY <2>1, <1>1, <1>2, <1>8 DEF TimeRead, CommandQueued, ClientReads, IsQueued
<1>10. Command(x) => r = Append(q, x)
  <2>1. ASSUME Command(x) PROVE CommandQueued(c) /\ IsQueued(x)
    BY <2>1, <1>1 DEF TimeRead, ClientReads, Command, IsQueued
  <2>2. ASSUME Command(x) PROVE r = Insert(q, x)
    BY <2>1, <2>2, <1>1, <1>8 DEF CommandQueued
  <2> QED
    BY <2>1, <2>2, <1>1, <1>2, ReadIsAppend DEF StreamInv
<1>11. d = b \/ (Announces(x) /\ d = x.sstep)
  BY <1>1, <1>8 DEF TimeRead, CommandQueued, RaisedBarrier, ClientReads, Announces
<1>12. d \in Nat /\ b <= d
  BY <1>3, <1>7, <1>11
<1>13. PICK M, N : /\ M = Pending(c)
                   /\ N = (Elems(r) \cup Elems(Tail(w))) \cup Elems(s)
  OBVIOUS
<1>14. /\ N \subseteq M /\ \A m \in M : Command(m) => m \in N
       /\ \A m \in M : m \in N \/ m = x
       /\ x \in M
       /\ \A m \in Elems(r) : m \in Elems(q) \/ (m = x /\ IsQueued(x))
  <2>1. M = Elems(q) \cup (Elems(Tail(w)) \cup {x}) \cup Elems(s)
    BY <1>1, <1>5, <1>13 DEF Pending
  <2>2. r = Append(q, x) => Elems(r) = Elems(q) \cup {x}
    BY <1>3, ElemsParts
  <2> QED
    BY <2>1, <2>2, <1>9, <1>10, <1>13
<1>15. Follows(F, cWorld[c], cStep[c], cMap[c], d, N, InStep(c))
  <2>1. Follows(F, cWorld[c], cStep[c], cMap[c], b, M, InStep(c))
    BY <1>1, <1>4, <1>13 DEF RunningOK
  <2>2. M \in SUBSET ToClientMsgs
    BY <1>13, PendingFacts
  <2>3. ASSUME NEW n \in Nat, Hears(N, InStep(c), d, n) PROVE Hears(M, InStep(c), b, n)
    <3>1. CASE n <= d /\ Announces(x) /\ d = x.sstep
      BY <3>1, <1>14 DEF Hears
    <3>2. CASE ~(n <= d)
      BY <2>3, <3>2, <1>14 DEF Hears
    <3>3. CASE d = b
      BY <2>3, <3>3, <1>14 DEF Hears
    <3> QED
      BY <3>1, <3>2, <3>3, <1>11
  <2>4. Agree(F, F) /\ Len(F) + 1 .. Len(F) = {}
    <3>1. Len(F) \in Nat
      BY DEF Worlds
    <3> QED
      BY <3>1 DEF Agree
  <2>5. cStep[c] <= d
    BY <1>3, <1>12
  <2>6. \A p \in Len(F) + 1 .. Len(F) : F[p] # Frame /\ Hears(N, InStep(c), d, Frames(F, p)) =>
           \E m \in N : Command(m) /\ Right(F, m) /\ m.at = p - 1
    BY <2>4
  <2> QED
    BY <2>1, <2>2, <2>3, <2>4, <2>5, <2>6, <1>3, <1>12, <1>14, FollowsMoves
<1>16. RunningOK(F, c)'
  <2>1. Pending(c)' = N
    BY <1>2, <1>8, <1>13 DEF Pending
  <2>2. Follows(F, cWorld[c], cStep[c], cMap[c], cBarrier[c], Pending(c), InStep(c))'
    BY <2>1, <1>2, <1>8, <1>15
  <2>3. \A m \in Elems(Tail(w)) \cup Elems(up[c]) :
           m.type = "READY" => m.step = cStep[c] /\ m.map = cMap[c]
    BY <1>1, <1>4, <1>5 DEF RunningOK
  <2>4. ASSUME cPaused[c], NEW m \in Elems(r) PROVE m.step > cStep[c]
    <3>1. CASE m \in Elems(q)
      BY <3>1, <2>4, <1>1, <1>4 DEF RunningOK
    <3>2. CASE m = x /\ IsQueued(x)
      <4>1. m.step \in Nat /\ m.step > b
        BY <3>2, <1>5, <1>7, MessageNumbers
      <4> QED
        BY <4>1, <1>3
    <3> QED
      BY <3>1, <3>2, <1>14
  <2> QED
    BY <2>2, <2>3, <2>4, <1>2, <1>8 DEF RunningOK
<1>17. ReadyOK(c)'
  <2>1. Lone(Tail(w)) /\ (Has(Tail(w), {"READY"}) => Has(w, {"READY"}))
    BY <1>1, <1>2, <1>3, <1>4, LoneParts DEF ReadyOK
  <2> QED
    BY <2>1, <1>1, <1>2, <1>4 DEF ReadyOK
<1> QED
  BY <1>2, <1>4, <1>16, <1>17 DEF PlayerOK

\* what is not needed goes, nothing comes, and the client may run no further than before
LEMMA FollowsLess ==
    ASSUME NEW F \in Worlds, NEW w \in Worlds, NEW k, NEW map, NEW base \in Nat,
           NEW later \in Nat, NEW M \in SUBSET ToClientMsgs, NEW N, NEW live,
           Follows(F, w, k, map, base, M, live), k <= later, later <= base, N \subseteq M,
           \A m \in M : Command(m) /\ Right(F, m) /\ Len(w) <= m.at => m \in N
    PROVE  Follows(F, w, k, map, later, N, live)
<1>1. ASSUME NEW n \in Nat, Hears(N, live, later, n) PROVE Hears(M, live, base, n)
  BY <1>1 DEF Hears
<1>2. Agree(F, F) /\ Len(F) + 1 .. Len(F) = {}
  <2>1. Len(F) \in Nat
    BY DEF Worlds
  <2> QED
    BY <2>1 DEF Agree
<1>3. \A p \in Len(F) + 1 .. Len(F) : F[p] # Frame /\ Hears(N, live, later, Frames(F, p)) =>
         \E m \in N : Command(m) /\ Right(F, m) /\ m.at = p - 1
  BY <1>2
<1> QED
  BY <1>1, <1>2, <1>3, FollowsMoves

\* Reading NWC_READY tells the client its step.
LEMMA PlayerUnpauses ==
    ASSUME IInv, StreamInv, NEW F \in Worlds, NEW c \in Clients, ReadStep(c), Unpaused(c),
           PlayerOK(F, c)
    PROVE  PlayerOK(F, c)'
<1>1. PICK q, w, s, x, b : /\ q = cQueue[c] /\ w = wire[c] /\ s = sendq[c] /\ x = Head(w)
                           /\ b = cBarrier[c]
  OBVIOUS
<1>2. /\ w # <<>> /\ wire'[c] = Tail(w) /\ sendq'[c] = s /\ x.type = "READY" /\ x.map = cMap[c]
      /\ cStep'[c] = x.step /\ cBarrier'[c] = x.step /\ ~cPaused'[c] /\ cMap'[c] = cMap[c]
      /\ cWorld'[c] = cWorld[c] /\ cQueue'[c] = q /\ up'[c] = up[c] /\ InStep(c)' = InStep(c)
  BY <1>1 DEF ReadStep, Unpaused, ClientReads, Slot, InStep
<1>3. /\ q \in Seq(ToClientMsgs) /\ w \in Seq(ToClientMsgs) /\ up[c] \in Seq(ToServerMsgs)
      /\ cWorld[c] \in Worlds /\ cStep[c] \in Nat /\ b \in Nat /\ cStep[c] <= b
  BY <1>1, StreamTypes, LocalTypes
<1>4. x \in Elems(w) /\ Elems(w) = Elems(Tail(w)) \cup {x}
  BY <1>1, <1>2, <1>3, ElemsParts
<1>5. x.step \in Nat
  BY <1>1, <1>2, <1>4, ReadySteps, LocalTypes
<1>6. /\ ~Has(Tail(w), {"READY"}) /\ ~Has(up[c], {"READY"}) /\ Lone(Tail(w)) /\ Lone(up[c])
  BY <1>1, <1>2, <1>3, LoneParts DEF PlayerOK, ReadyOK
<1>7. ReadyOK(c)'
  BY <1>2, <1>6 DEF ReadyOK
<1>8. PICK M, N : /\ M = Pending(c)
                  /\ N = (Elems(q) \cup Elems(Tail(w))) \cup Elems(s)
  OBVIOUS
<1>9. M = N \cup {x} /\ M \in SUBSET ToClientMsgs
  BY <1>1, <1>4, <1>8, PendingFacts DEF Pending
<1>10. ~Command(x)
  BY <1>2 DEF Command
<1>11. \E base \in Nat : /\ Follows(F, cWorld[c], x.step, cMap[c], base, M, InStep(c))
                         /\ x.step <= base
  <2>1. CASE cStep[c] = 0
    <3>1. Follows(F, cWorld[c], x.step, cMap[c], x.step, M, InStep(c))
      BY <2>1, <1>1, <1>2, <1>8 DEF PlayerOK, LoadedOK
    <3> QED
      BY <3>1, <1>5
  <2>2. CASE cStep[c] > 0
    <3>1. /\ Follows(F, cWorld[c], cStep[c], cMap[c], b, M, InStep(c))
          /\ x.step = cStep[c]
      BY <2>2, <1>1, <1>2, <1>4, <1>8 DEF PlayerOK, RunningOK
    <3> QED
      BY <3>1, <1>3
  <2> QED
    BY <2>1, <2>2, <1>3
<1>12. PICK base \in Nat : /\ Follows(F, cWorld[c], x.step, cMap[c], base, M, InStep(c))
                           /\ x.step <= base
  BY <1>11
<1>13. Follows(F, cWorld[c], x.step, cMap[c], x.step, N, InStep(c)) /\ x.step > 0
  <2>1. \A m \in M : Command(m) /\ Right(F, m) /\ Len(cWorld[c]) <= m.at => m \in N
    BY <1>9, <1>10
  <2>2. N \subseteq M /\ x.step <= x.step
    BY <1>5, <1>9
  <2>3. Follows(F, cWorld[c], x.step, cMap[c], x.step, N, InStep(c))
    BY <2>1, <2>2, <1>3, <1>5, <1>9, <1>12, FollowsLess
  <2> QED
    BY <2>3, <1>5 DEF Follows
<1>14. RunningOK(F, c)'
  <2>1. Pending(c)' = N
    BY <1>2, <1>8 DEF Pending
  <2>2. Follows(F, cWorld[c], cStep[c], cMap[c], cBarrier[c], Pending(c), InStep(c))'
    BY <2>1, <1>2, <1>13
  <2>3. \A m \in Elems(Tail(w)) \cup Elems(up[c]) : m.type # "READY"
    <3>1. Tail(w) \in Seq(ToClientMsgs)
      BY <1>2, <1>3
    <3> QED
      BY <3>1, <1>3, <1>6, LoneParts
  <2> QED
    BY <2>2, <2>3, <1>2 DEF RunningOK
<1> QED
  BY <1>2, <1>7, <1>13, <1>14 DEF PlayerOK

\* The first queued command is earlier than all that comes behind it.
LEMMA QueueHead ==
    ASSUME IInv, StreamInv, NEW c \in Clients, cQueue[c] # <<>>
    PROVE  /\ Head(cQueue[c]) \in Elems(cQueue[c]) /\ IsQueued(Head(cQueue[c]))
           /\ Elems(Tail(cQueue[c])) \subseteq Elems(cQueue[c])
           /\ Pending(c) = (Elems(Tail(cQueue[c])) \cup Elems(wire[c]) \cup Elems(sendq[c]))
                              \cup {Head(cQueue[c])}
           /\ \A y \in Elems(Tail(cQueue[c])) \cup Elems(wire[c]) \cup Elems(sendq[c]) :
                 Earlier(Head(cQueue[c]), y)
           /\ \A y \in Elems(cQueue[c]) : y = Head(cQueue[c]) \/ Earlier(Head(cQueue[c]), y)
<1>1. PICK q, m, t : q = cQueue[c] /\ m = Head(q) /\ t = Tail(q)
  OBVIOUS
<1>2. q \in Seq(ToClientMsgs) /\ q # <<>> /\ t \in Seq(ToClientMsgs)
      /\ \A i \in 1 .. Len(q) : IsQueued(q[i])
  BY <1>1, StreamTypes
<1>3. Elems(q) = Elems(t) \cup {m}
  BY <1>1, <1>2, ElemsParts
<1>4. InOrder(q)
  BY <1>1 DEF StreamInv, StreamOK, Ordered
<1>5. \A j \in 1 .. Len(t) : Earlier(m, t[j])
  BY <1>1, <1>2, <1>4, TailOrdered
<1>6. \A y \in Elems(t) : Earlier(m, y)
  <2>1. \A y \in Elems(t) : \E j \in 1 .. Len(t) : y = t[j]
    BY <1>2 DEF Elems
  <2> QED
    BY <2>1, <1>5
<1>7. IsQueued(m)
  <2>1. 1 \in 1 .. Len(q) /\ m = q[1]
    BY <1>1, <1>2
  <2> QED
    BY <2>1, <1>2
<1>8. \A y \in Elems(wire[c]) \cup Elems(sendq[c]) : Earlier(m, y)
  <2>1. m \in Elems(cQueue[c])
    BY <1>1, <1>3
  <2> QED
    BY <2>1, InFrontOfSendq
<1> QED
  BY <1>1, <1>3, <1>6, <1>7, <1>8 DEF Pending

\* A client that has something due is not paused, and it is due for this step.
LEMMA DueNow ==
    ASSUME IInv, StreamInv, OrderInv, NEW F, NEW c \in Clients, cMode[c] = "playing",
           HasDue(cQueue[c], cStep[c]), PlayerOK(F, c)
    PROVE  /\ cStep[c] > 0 /\ RunningOK(F, c) /\ ReadyOK(c) /\ ~cPaused[c]
           /\ Head(cQueue[c]).step = cStep[c] /\ cQueue[c] # <<>>
<1>1. cQueue[c] # <<>> /\ Head(cQueue[c]).step <= cStep[c]
  BY DEF HasDue
<1>2. cStep[c] > 0 /\ RunningOK(F, c) /\ ReadyOK(c)
  BY <1>1, RunsAlready
<1>3. Head(cQueue[c]) \in Elems(cQueue[c]) /\ IsQueued(Head(cQueue[c]))
  BY <1>1, QueueHead
<1>4. Head(cQueue[c]).step >= cStep[c]
  BY <1>3, PlayFacts
<1>5. Head(cQueue[c]).step \in Nat /\ cStep[c] \in Nat
  <2>1. Head(cQueue[c]) \in ToClientMsgs
    BY <1>3, PendingFacts DEF Pending
  <2> QED
    BY <2>1, <1>3, MessageNumbers, LocalTypes
<1>6. Head(cQueue[c]).step = cStep[c]
  BY <1>1, <1>4, <1>5
<1>7. ~cPaused[c]
  <2>1. ~(Head(cQueue[c]).step > cStep[c])
    BY <1>5, <1>6
  <2> QED
    BY <2>1, <1>2, <1>3 DEF RunningOK
<1> QED
  BY <1>1, <1>2, <1>6, <1>7

\* A due command that is run adds the next input of the log; one that is not run is not needed.
LEMMA PlayerPops ==
    ASSUME IInv, StreamInv, OrderInv, NEW F \in Worlds, Coming(F), NEW c \in Clients,
           PopStep(c), PlacedOK(F, c), PlayerOK(F, c)
    PROVE  PlayerOK(F, c)'
<1>1. PICK q, m, w, k, map, b : /\ q = cQueue[c] /\ m = Head(q) /\ w = cWorld[c]
                                /\ k = cStep[c] /\ map = cMap[c] /\ b = cBarrier[c]
  OBVIOUS
<1>2. /\ cMode[c] = "playing" /\ HasDue(cQueue[c], cStep[c]) /\ cQueue'[c] = Tail(q)
      /\ cStep'[c] = k /\ cBarrier'[c] = b /\ cPaused'[c] = cPaused[c] /\ cMap'[c] = map
      /\ up'[c] = up[c] /\ wire'[c] = wire[c] /\ sendq'[c] = sendq[c] /\ InStep(c)' = InStep(c)
  BY <1>1 DEF PopStep, Slot, InStep
<1>3. /\ k > 0 /\ RunningOK(F, c) /\ ReadyOK(c) /\ ~cPaused[c] /\ m.step = k /\ q # <<>>
  BY <1>1, <1>2, DueNow
<1>4. w \in Worlds /\ k \in Nat /\ map \in Nat /\ b \in Nat
  BY <1>1, LocalTypes
<1>5. PICK M, N : M = Pending(c) /\ N = Elems(Tail(q)) \cup Elems(wire[c]) \cup Elems(sendq[c])
  OBVIOUS
<1>6. /\ M = N \cup {m} /\ IsQueued(m) /\ M \in SUBSET ToClientMsgs
      /\ \A y \in N : Earlier(m, y)
      /\ \A y \in M : Command(y) => Placed(F, y)
      /\ \A y \in M : y.type = "SYNC" => y.map < y.newmap
  <2>1. \A y \in M : Command(y) => Placed(F, y)
    BY <1>5 DEF PlacedOK
  <2>2. M \in SUBSET ToClientMsgs /\ \A y \in M : Sent(y)
    BY <1>5, PendingFacts
  <2>3. \A y \in M : y.type = "SYNC" => y.map < y.newmap
    BY <2>2 DEF Sent
  <2> QED
    BY <2>1, <2>2, <2>3, <1>1, <1>3, <1>5, QueueHead
<1>7. Follows(F, w, k, map, b, M, InStep(c)) /\ k <= b
  BY <1>1, <1>3, <1>5 DEF RunningOK, Follows
<1>8. Rising(F, nMaps)
  BY DEF Coming
<1>9. m \in M /\ N \subseteq M /\ \A y \in M : Command(y) => y = m \/ Earlier(m, y)
  BY <1>6
<1>10. Follows(F, cWorld'[c], k, map, b, N, InStep(c))
  <2>1. ASSUME cWorld'[c] = w, Command(m) => m.map # map
        PROVE  Follows(F, cWorld'[c], k, map, b, N, InStep(c))
    <3>1. ~(Command(m) /\ Right(F, m) /\ Len(w) <= m.at)
      BY <2>1, <1>3, <1>4, <1>6, <1>7, <1>8, <1>9, OtherMapIsNotNeeded
    <3>2. \A y \in M : Command(y) /\ Right(F, y) /\ Len(w) <= y.at => y \in N
      BY <3>1, <1>6
    <3>3. b <= b
      BY <1>4
    <3> QED
      BY <2>1, <3>2, <3>3, <1>4, <1>6, <1>7, <1>9, FollowsLess
  <2>2. CASE Dropped(c)
    <3>1. cWorld'[c] = w
      BY <2>2, <1>1 DEF Dropped
    <3>2. ~(m.step < k)
      BY <1>3, <1>4
    <3>3. Command(m) => m.map # map
      BY <2>2, <3>2, <1>1 DEF Dropped, SameWorld
    <3> QED
      BY <2>1, <3>1, <3>3
  <2>3. CASE Checked(c)
    <3>1. cWorld'[c] = w /\ ~Command(m)
      BY <2>3, <1>1 DEF Checked, Command
    <3> QED
      BY <2>1, <3>1
  <2>4. CASE ToolRun(c)
    <3>1. /\ cWorld'[c] = Append(w, Tool(m.tool)) /\ m.type = "TOOL" /\ m.map = map
      BY <2>4, <1>1 DEF ToolRun, ClientRuns, Runs, SameWorld
    <3>2. Command(m) /\ InputOf(m) = Tool(m.tool)
      BY <3>1 DEF Command, InputOf
    <3>3. Right(F, m) /\ m.at = Len(w)
      <4>1. Placed(F, m) /\ Follows(F, w, k, map, b, M, InStep(c)) /\ m \in M
        BY <3>2, <1>6, <1>7, <1>9
      <4>2. M \in SUBSET ToClientMsgs /\ \A y \in M : Command(y) => y = m \/ Earlier(m, y)
        BY <1>6, <1>9
      <4> QED
        BY <4>1, <4>2, <3>1, <3>2, <1>3, <1>4, <1>8, HeadIsNext
    <3>4. Follows(F, Append(w, InputOf(m)), k, map, b, N, InStep(c))
      BY <3>1, <3>2, <3>3, <1>4, <1>6, <1>7, <1>9, FollowsTool
    <3> QED
      BY <3>1, <3>2, <3>4
  <2> QED
    BY <2>2, <2>3, <2>4 DEF PopStep
<1>11. RunningOK(F, c)'
  <2>1. Pending(c)' = N
    BY <1>2, <1>5 DEF Pending
  <2>2. Follows(F, cWorld[c], cStep[c], cMap[c], cBarrier[c], Pending(c), InStep(c))'
    BY <2>1, <1>2, <1>10
  <2> QED
    BY <2>2, <1>1, <1>2, <1>3 DEF RunningOK
<1>12. ReadyOK(c)'
  BY <1>2, <1>3 DEF ReadyOK
<1> QED
  BY <1>2, <1>3, <1>11, <1>12 DEF PlayerOK

\* A reload, which drops nothing that the client needs.
LEMMA PlayerReloads ==
    ASSUME IInv, StreamInv, OrderInv, NEW F \in Worlds, Coming(F), NEW c \in Clients,
           SyncStep(c), ~lost'[c], PlacedOK(F, c), PlayerOK(F, c)
    PROVE  PlayerOK(F, c)'
<1>1. PICK q, m, w, k, map, b : /\ q = cQueue[c] /\ m = Head(q) /\ w = cWorld[c]
                                /\ k = cStep[c] /\ map = cMap[c] /\ b = cBarrier[c]
  OBVIOUS
<1>2. /\ cMode[c] = "playing" /\ HasDue(cQueue[c], cStep[c]) /\ m.type = "SYNC" /\ m.map = map
      /\ cWorld'[c] = Append(w, Reload(m.newmap)) /\ cQueue'[c] = <<>> /\ cPaused'[c] = TRUE
      /\ cStep'[c] = k /\ cBarrier'[c] = k /\ cMap'[c] = m.newmap
      /\ wire'[c] = wire[c] /\ sendq'[c] = sendq[c] /\ InStep(c)' = InStep(c)
      /\ ~LosesCommands(c)
  BY <1>1 DEF SyncStep, Due, ClientRuns, Runs, SameWorld, InStep
<1>3. /\ k > 0 /\ RunningOK(F, c) /\ ReadyOK(c) /\ ~cPaused[c] /\ m.step = k /\ q # <<>>
  BY <1>1, <1>2, DueNow
<1>4. w \in Worlds /\ k \in Nat /\ map \in Nat /\ b \in Nat
  BY <1>1, LocalTypes
<1>5. PICK M, N, D : /\ M = Pending(c) /\ N = Elems(wire[c]) \cup Elems(sendq[c])
                     /\ D = Elems(q)
  OBVIOUS
<1>6. /\ M = N \cup D /\ m \in M /\ M \in SUBSET ToClientMsgs
      /\ \A y \in M : Command(y) => Placed(F, y)
      /\ \A y \in M : Command(y) => y = m \/ Earlier(m, y)
  <2>1. \A y \in M : Command(y) => Placed(F, y)
    BY <1>5 DEF PlacedOK
  <2>2. M \in SUBSET ToClientMsgs
    BY <1>5, PendingFacts
  <2>3. M = N \cup D
    BY <1>1, <1>5 DEF Pending
  <2>4. M = (Elems(Tail(q)) \cup Elems(wire[c]) \cup Elems(sendq[c])) \cup {m}
    BY <1>1, <1>3, <1>5, QueueHead
  <2>5. \A y \in Elems(Tail(q)) \cup Elems(wire[c]) \cup Elems(sendq[c]) : Earlier(m, y)
    BY <1>1, <1>3, QueueHead
  <2> QED
    BY <2>1, <2>2, <2>3, <2>4, <2>5
<1>7. \A y \in D : Command(y) => y.map = map
  <2>1. q \in Seq(ToClientMsgs)
    BY <1>1, StreamTypes
  <2>2. D = Elems(Tail(q)) \cup {m}
    BY <2>1, <1>1, <1>3, <1>5, ElemsParts
  <2>3. Elems(QueueAfterLoad(Tail(q))) = {}
    BY DEF QueueAfterLoad, Elems
  <2>4. \A y \in Elems(Tail(q)) : y.type = "CHECK" \/ y.map = map
    BY <2>3, <1>1, <1>2 DEF LosesCommands
  <2> QED
    BY <2>2, <2>4, <1>2 DEF Command
<1>8. Follows(F, w, k, map, b, M, InStep(c))
  BY <1>1, <1>3, <1>5 DEF RunningOK
<1>9. Rising(F, nMaps)
  BY DEF Coming
<1>10. Command(m) /\ InputOf(m) = Reload(m.newmap)
  BY <1>2 DEF Command, InputOf
<1>11. Right(F, m) /\ m.at = Len(w)
  <2>1. Placed(F, m) /\ m \in M
    BY <1>6, <1>10
  <2>2. M \in SUBSET ToClientMsgs /\ \A y \in M : Command(y) => y = m \/ Earlier(m, y)
    BY <1>6
  <2>3. m.map = map /\ m.step = k
    BY <1>2, <1>3
  <2> QED
    BY <2>1, <2>2, <2>3, <1>4, <1>8, <1>9, <1>10, HeadIsNext
<1>12. Follows(F, Append(w, InputOf(m)), k, m.newmap, k, N, InStep(c))
  BY <1>2, <1>4, <1>6, <1>7, <1>8, <1>9, <1>10, <1>11, FollowsSync
<1>13. /\ ~Has(up[c], {"READY"}) /\ ~Has(wire[c], {"READY"}) /\ Lone(wire[c]) /\ Lone(up[c])
       /\ wire[c] \in Seq(ToClientMsgs) /\ up[c] \in Seq(ToServerMsgs)
  BY <1>3, LocalTypes DEF ReadyOK
<1>14. \/ up'[c] = up[c]
       \/ \E r : up'[c] = Append(up[c], r) /\ r.step = k /\ r.map = m.newmap
  BY <1>1 DEF SyncStep
<1>15. ReadyOK(c)'
  <2>1. Lone(up'[c])
    <3>1. \A r : Lone(Append(up[c], r))
      BY <1>13, LoneParts
    <3> QED
      BY <3>1, <1>13, <1>14
  <2> QED
    BY <2>1, <1>2, <1>13 DEF ReadyOK
<1>16. \A y \in Elems(wire'[c]) \cup Elems(up'[c]) :
          y.type = "READY" => y.step = k /\ y.map = m.newmap
  <2>1. \A y \in Elems(wire[c]) \cup Elems(up[c]) : y.type # "READY"
    BY <1>13, LoneParts
  <2>2. \A r : Elems(Append(up[c], r)) = Elems(up[c]) \cup {r}
    BY <1>13, ElemsParts
  <2>3. CASE up'[c] = up[c]
    BY <2>1, <2>3, <1>2
  <2>4. CASE \E r : up'[c] = Append(up[c], r) /\ r.step = k /\ r.map = m.newmap
    <3>1. PICK r : up'[c] = Append(up[c], r) /\ r.step = k /\ r.map = m.newmap
      BY <2>4
    <3>2. Elems(up'[c]) = Elems(up[c]) \cup {r}
      BY <3>1, <2>2
    <3> QED
      BY <3>1, <3>2, <2>1, <1>2
  <2> QED
    BY <2>3, <2>4, <1>14
<1>17. RunningOK(F, c)'
  <2>1. Elems(<<>>) = {}
    BY DEF Elems
  <2>2. Pending(c)' = N
    BY <2>1, <1>2, <1>5 DEF Pending
  <2>3. Follows(F, cWorld[c], cStep[c], cMap[c], cBarrier[c], Pending(c), InStep(c))'
    BY <2>2, <1>2, <1>10, <1>12
  <2> QED
    BY <2>1, <2>3, <1>2, <1>16 DEF RunningOK
<1> QED
  BY <1>2, <1>3, <1>15, <1>17 DEF PlayerOK

\* A frame: nothing else is due, and the server has run the frame.
LEMMA PlayerAdvances ==
    ASSUME IInv, SInv, LogInv, StreamInv, OrderInv, NEW F \in Worlds, Coming(F),
           NEW c \in Clients, AdvanceStep(c), PlacedOK(F, c), PlayerOK(F, c)
    PROVE  PlayerOK(F, c)'
<1>1. PICK q, w, k, map, b : /\ q = cQueue[c] /\ w = cWorld[c]
                             /\ k = cStep[c] /\ map = cMap[c] /\ b = cBarrier[c]
  OBVIOUS
<1>2. /\ cMode[c] = "playing" /\ ~HasDue(q, k) /\ ~cPaused[c] /\ k < b
      /\ cWorld'[c] = Append(w, Frame) /\ cStep'[c] = k + 1
      /\ cBarrier'[c] = b /\ cPaused'[c] = cPaused[c] /\ cMap'[c] = map /\ cQueue'[c] = q
      /\ up'[c] = up[c] /\ wire'[c] = wire[c] /\ sendq'[c] = sendq[c] /\ InStep(c)' = InStep(c)
  BY <1>1 DEF AdvanceStep, MayAdvance, Slot, InStep
<1>3. /\ k > 0 /\ RunningOK(F, c) /\ ReadyOK(c)
  BY <1>1, <1>2, RunsAlready
<1>4. w \in Worlds /\ k \in Nat /\ map \in Nat /\ b \in Nat /\ b <= sStep /\ sStep \in Nat
  BY <1>1, LocalTypes
<1>5. PICK M : M = Pending(c)
  OBVIOUS
<1>6. /\ M \in SUBSET ToClientMsgs /\ Follows(F, w, k, map, b, M, InStep(c))
      /\ Rising(F, nMaps)
  BY <1>1, <1>3, <1>5, PendingFacts DEF RunningOK, Coming
<1>7. Len(w) < Len(F)
  <2>1. Agree(w, F) /\ Frames(F, Len(w)) = k
    BY <1>6 DEF Follows
  <2>2. Len(w) \in Nat /\ Len(F) \in Nat /\ Len(sWorld) \in Nat /\ Len(sWorld) <= Len(F)
        /\ Frames(F, Len(sWorld)) = sStep
    BY <1>4, ComingPlaces, QueueFacts DEF Worlds
  <2>3. SUFFICES ASSUME Len(F) <= Len(w) PROVE FALSE
    BY <2>2
  <2>4. Len(sWorld) <= Len(w)
    BY <2>2, <2>3
  <2>5. Frames(F, Len(sWorld)) <= Frames(F, Len(w))
    BY <2>2, <2>4, FramesMonotone
  <2> QED
    BY <2>1, <2>2, <2>5, <1>2, <1>4
<1>8. ASSUME NEW y \in M, Command(y) PROVE Placed(F, y) /\ k < y.step
  <2>1. Placed(F, y)
    BY <1>5, <1>8 DEF PlacedOK
  <2>2. y \in ToClientMsgs /\ y.step \in Nat /\ IsQueued(y)
    BY <1>6, <1>8, MessageNumbers
  <2>3. CASE y \in Elems(wire[c]) \cup Elems(sendq[c])
    <3>1. LaterMsg(y, b)
      BY <2>3, <1>1, <1>2, PlayFacts
    <3> QED
      BY <2>1, <2>2, <3>1, <1>2, <1>4, <1>8 DEF LaterMsg
  <2>4. CASE y \in Elems(q)
    <3>1. q # <<>>
      BY <2>4 DEF Elems
    <3>2. PICK h : h = Head(q)
      OBVIOUS
    <3>3. h \in Elems(q) /\ IsQueued(h) /\ (y = h \/ Earlier(h, y))
      BY <2>4, <3>1, <3>2, <1>1, QueueHead
    <3>4. h.step \in Nat
      <4>1. h \in ToClientMsgs
        BY <3>3, <1>1, PendingFacts DEF Pending
      <4> QED
        BY <4>1, <3>3, MessageNumbers
    <3>5. k < h.step
      BY <3>1, <3>2, <3>4, <1>2, <1>4 DEF HasDue
    <3>6. h.step <= y.step
      BY <3>3, <3>4, <2>2 DEF Earlier
    <3> QED
      BY <2>1, <2>2, <3>4, <3>5, <3>6, <1>4
  <2> QED
    BY <2>3, <2>4, <1>1, <1>5 DEF Pending
<1>9. Follows(F, Append(w, Frame), k + 1, map, b, M, InStep(c))
  BY <1>2, <1>4, <1>6, <1>7, <1>8, FollowsFrame
<1>10. /\ ~Has(up[c], {"READY"}) /\ ~Has(wire[c], {"READY"})
       /\ wire[c] \in Seq(ToClientMsgs) /\ up[c] \in Seq(ToServerMsgs)
  BY <1>2, <1>3, LocalTypes DEF ReadyOK
<1>11. \A y \in Elems(wire[c]) \cup Elems(up[c]) : y.type # "READY"
  BY <1>10, LoneParts
<1>12. RunningOK(F, c)'
  <2>1. Pending(c)' = M
    BY <1>1, <1>2, <1>5 DEF Pending
  <2>2. Follows(F, cWorld[c], cStep[c], cMap[c], cBarrier[c], Pending(c), InStep(c))'
    BY <2>1, <1>2, <1>9
  <2> QED
    BY <2>2, <1>2, <1>11 DEF RunningOK
<1>13. ReadyOK(c)'
  BY <1>2, <1>3 DEF ReadyOK
<1>14. cStep'[c] # 0
  BY <1>2, <1>4
<1> QED
  BY <1>12, <1>13, <1>14 DEF PlayerOK

\* A tool that goes to the server.
LEMMA PlayerRequests ==
    ASSUME IInv, NEW F, NEW c \in Clients, RequestStep(c), PlayerOK(F, c)
    PROVE  PlayerOK(F, c)'
<1>1. PICK x : up'[c] = Append(up[c], x) /\ x.type = "TOOL"
  BY DEF RequestStep
<1>2. up[c] \in Seq(ToServerMsgs)
  BY LocalTypes
<1>3. /\ UNCHANGED Machine(c) /\ sendq'[c] = sendq[c] /\ wire'[c] = wire[c]
      /\ InStep(c)' = InStep(c)
  BY DEF RequestStep, InStep
<1>4. ReadyOK(c)'
  BY <1>1, <1>2, <1>3, LoneParts DEF PlayerOK, ReadyOK, Machine
<1>5. Elems(Append(up[c], x)) = Elems(up[c]) \cup {x}
  BY <1>2, ElemsParts
<1>6. Pending(c)' = Pending(c)
  BY <1>3 DEF Pending, Machine
<1>7. cStep[c] > 0 /\ RunningOK(F, c) => RunningOK(F, c)'
  BY <1>1, <1>3, <1>5, <1>6 DEF RunningOK, Machine
<1>8. LoadedOK(F, c) => LoadedOK(F, c)'
  BY <1>3, <1>6 DEF LoadedOK, Machine
<1> QED
  BY <1>3, <1>4, <1>7, <1>8 DEF PlayerOK, Machine

-----------------------------------------------------------------------------
(* AlongInv along the steps.                                               *)

LEMMA AlongServerSide ==
    ASSUME ~SendMayFail, IInv, SInv, LogInv, SlotInv, StreamInv, JoinInv, OrderInv, IdleInv,
           NEW F \in Worlds, NEW G \in Worlds, Coming(F), Goes(F, G),
           NEW c \in Clients, ServerSide(c), Along(F, c)
    PROVE  Along(G, c)'
<1>1. PlacedOK(G, c)'
  BY PlacedSteps DEF LocalStep, Along
<1>2. cMode'[c] = cMode[c] /\ lost'[c] = lost[c]
  BY ServerSideKeepsMachine DEF Machine
<1>3. GameFollows(G, wire[c], cMode[c], sendq[c], InStep(c))'
  <2>1. CASE \E new : Given(c, new)
    BY <2>1, <1>2, GameGiven
  <2>2. CASE \A new : ~Given(c, new)
    BY <2>2, GameServerSide DEF Along
  <2> QED
    BY <2>1, <2>2
<1>4. cMode[c] = "playing" /\ ~lost[c] => PlayerOK(G, c)'
  BY PlayerServerSide DEF Along
<1> QED
  BY <1>1, <1>2, <1>3, <1>4 DEF Along

LEMMA AlongClientSide ==
    ASSUME ~SendMayFail, IInv, SInv, LogInv, SlotInv, StreamInv, JoinInv, OrderInv, IdleInv,
           NEW F \in Worlds, Coming(F), Goes(F, F), NEW c \in Clients, ClientSide(c), Along(F, c)
    PROVE  Along(F, c)'
<1>1. PlacedOK(F, c)'
  BY PlacedSteps DEF LocalStep, Along
<1>2. GameFollows(F, wire[c], cMode[c], sendq[c], InStep(c))'
  BY GameClientSide DEF Along
<1>3. ASSUME cMode'[c] = "playing", ~lost'[c] PROVE PlayerOK(F, c)'
  <2>1. CASE ReadStep(c)
    <3>1. lost'[c] = lost[c]
      BY <2>1 DEF ReadStep, Records
    <3>2. CASE Loaded(c)
      BY <2>1, <3>2, PlayerLoads DEF Along
    <3>3. CASE TimeRead(c) \/ CommandQueued(c)
      <4>1. PlayerOK(F, c)
        BY <3>1, <3>3, <1>3 DEF Along, TimeRead, CommandQueued, ClientReads
      <4> QED
        BY <2>1, <3>3, <4>1, PlayerReadsStream
    <3>4. CASE Unpaused(c)
      <4>1. PlayerOK(F, c)
        BY <3>1, <3>4, <1>3 DEF Along, Unpaused, ClientReads
      <4> QED
        BY <2>1, <3>4, <4>1, PlayerUnpauses
    <3>5. ~Accepted(c) /\ ~Skipped(c)
      BY <1>3 DEF Accepted, Skipped, Machine
    <3> QED
      BY <2>1, <3>2, <3>3, <3>4, <3>5 DEF ReadStep
  <2>2. CASE PopStep(c)
    <3>1. PlayerOK(F, c)
      BY <2>2, <1>3 DEF PopStep, Records, Along
    <3> QED
      BY <2>2, <3>1, PlayerPops DEF Along
  <2>3. CASE SyncStep(c)
    <3>1. cMode[c] = "playing" /\ lost[c] = FALSE
      <4>1. lost[c] \in BOOLEAN
        BY LocalTypes
      <4> QED
        BY <4>1, <2>3, <1>3 DEF SyncStep, Due
    <3>2. PlayerOK(F, c)
      BY <3>1 DEF Along
    <3> QED
      BY <2>3, <3>2, <1>3, PlayerReloads DEF Along
  <2>4. CASE AdvanceStep(c)
    <3>1. PlayerOK(F, c)
      BY <2>4, <1>3 DEF AdvanceStep, Records, Along
    <3> QED
      BY <2>4, <3>1, PlayerAdvances DEF Along
  <2>5. CASE RequestStep(c)
    <3>1. PlayerOK(F, c)
      BY <2>5, <1>3 DEF RequestStep, Records, Along
    <3> QED
      BY <2>5, <3>1, PlayerRequests
  <2>6. ~ConnectStep(c) /\ ~GoneStep(c)
    BY <1>3 DEF ConnectStep, GoneStep
  <2> QED
    BY <2>1, <2>2, <2>3, <2>4, <2>5, <2>6 DEF ClientSide
<1> QED
  BY <1>1, <1>2, <1>3 DEF Along

LEMMA AlongSteps ==
    ASSUME ~SendMayFail, IInv, SInv, LogInv, SlotInv, StreamInv, JoinInv, OrderInv, IdleInv,
           NEW F \in Worlds, NEW G \in Worlds, Coming(F), Goes(F, G),
           NEW c \in Clients, LocalStep(c), Along(F, c)
    PROVE  Along(G, c)'
<1>1. CASE RestStep(c)
  <2>1. G = F
    BY <1>1 DEF RestStep, Goes
  <2>2. /\ cMode'[c] = cMode[c] /\ cStep'[c] = cStep[c] /\ cBarrier'[c] = cBarrier[c]
        /\ cPaused'[c] = cPaused[c] /\ cMap'[c] = cMap[c] /\ cWorld'[c] = cWorld[c]
        /\ cQueue'[c] = cQueue[c] /\ wire'[c] = wire[c] /\ sendq'[c] = sendq[c]
        /\ up'[c] = up[c] /\ sState'[c] = sState[c] /\ lost'[c] = lost[c]
    BY <1>1 DEF RestStep, Machine, Slot, Records
  <2>3. Pending(c)' = Pending(c) /\ InStep(c)' = InStep(c)
    BY <2>2 DEF Pending, InStep
  <2>4. PlayerOK(F, c) => PlayerOK(F, c)'
    BY <2>2, <2>3 DEF PlayerOK, ReadyOK, LoadedOK, RunningOK
  <2> QED
    BY <2>1, <2>2, <2>3, <2>4 DEF Along, PlacedOK
<1>2. CASE ServerSide(c)
  BY <1>2, AlongServerSide
<1>3. CASE ClientSide(c)
  <2>1. UNCHANGED core
    BY <1>3 DEF ClientSide, ConnectStep, GoneStep, ReadStep, PopStep, SyncStep, AdvanceStep,
       RequestStep
  <2>2. G = F
    BY <2>1 DEF Goes
  <2> QED
    BY <1>3, <2>2, AlongClientSide
<1> QED
  BY <1>1, <1>2, <1>3 DEF LocalStep

LEMMA NextAlongInv ==
    ASSUME ~SendMayFail
    PROVE  IInv /\ SInv /\ LogInv /\ SlotInv /\ StreamInv /\ JoinInv /\ OrderInv /\ IdleInv
              /\ AlongInv /\ [Next]_vars
              => AlongInv'
<1> SUFFICES ASSUME IInv, SInv, LogInv, SlotInv, StreamInv, JoinInv, OrderInv, IdleInv,
                    AlongInv, [Next]_vars
             PROVE  AlongInv'
  OBVIOUS
<1>1. PICK F \in Worlds : Coming(F) /\ \A c \in Clients : Along(F, c)
  BY DEF AlongInv
<1>2. PICK G \in Worlds : Coming(G)' /\ Goes(F, G)
  BY <1>1, LogGoes
<1>3. ASSUME NEW c \in Clients PROVE Along(G, c)'
  <2>1. LocalStep(c)
    BY NextIsLocal
  <2> QED
    BY <1>1, <1>2, <2>1, AlongSteps
<1> QED
  BY <1>2, <1>3 DEF AlongInv

LEMMA InitAlongInv == Init => AlongInv
<1> SUFFICES ASSUME Init PROVE AlongInv
  OBVIOUS
<1>1. PICK F \in Worlds : F = <<>>
  <2>1. <<>> \in Seq(Inputs)
    OBVIOUS
  <2> QED
    BY <2>1 DEF Worlds
<1>2. Len(F) = 0 /\ 1 .. 0 = {} /\ 0 + 1 .. 0 = {}
  BY <1>1
<1>3. Coming(F)
  <2>1. sWorld = F /\ sQueue = F /\ sMap = 0
    BY <1>1 DEF Init
  <2> QED
    BY <2>1, <1>2 DEF Coming, Agree, Rising, MapIs
<1>4. ASSUME NEW c \in Clients PROVE Along(F, c)
  <2>1. /\ cMode[c] = "out" /\ cQueue[c] = F /\ wire[c] = F /\ sendq[c] = F
    BY <1>1 DEF Init
  <2>2. Pending(c) = {}
    BY <2>1, <1>1 DEF Pending, Elems
  <2>3. GameFollows(F, wire[c], cMode[c], sendq[c], InStep(c))
    BY <2>1, <1>2 DEF GameFollows
  <2> QED
    BY <2>1, <2>2, <2>3 DEF Along, PlacedOK
<1> QED
  BY <1>3, <1>4 DEF AlongInv

-----------------------------------------------------------------------------
(* Lockstep.                                                               *)

LEMMA PrefixByInputs ==
    ASSUME NEW v \in Worlds, NEW w \in Worlds, Agree(v, w)
    PROVE  IsPrefixOf(v, w)
<1>1. Len(v) \in Nat /\ Len(w) \in Nat /\ Len(v) <= Len(w) /\ \A i \in 1 .. Len(v) : v[i] = w[i]
  BY DEF Agree, Worlds
<1>2. v \in Seq(Inputs) /\ w \in Seq(Inputs)
  BY DEF Worlds
<1>3. SubSeq(w, 1, Len(v)) = v
  BY <1>1, <1>2
<1> QED
  BY <1>1, <1>3 DEF IsPrefixOf

\* the commands that are due, up to a reload
Settled(i) ==
    /\ \A j \in 1 .. i : sQueue[j].step <= sStep
    /\ First(i)

\* The settled world is the server's world and the inputs of these commands behind it.
LEMMA SettledParts ==
    ASSUME IInv, SInv, LogInv
    PROVE  \E d \in Nat :
              /\ d <= Len(sQueue)
              /\ \A i \in 1 .. Len(sQueue) : Settled(i) <=> i <= d
              /\ SettledWorld \in Worlds /\ Len(SettledWorld) = Len(sWorld) + d
              /\ \A p \in 1 .. Len(sWorld) : SettledWorld[p] = sWorld[p]
              /\ \A i \in 1 .. d : SettledWorld[Len(sWorld) + i] = InputOf(sQueue[i])
<1>1. /\ sQueue \in Seq(ToolMsgs \cup SyncMsgs) /\ Len(sQueue) \in Nat
      /\ sWorld \in Worlds /\ Len(sWorld) \in Nat
  BY QueueFacts
<1>2. PICK n \in Nat : n = Len(sQueue)
  BY <1>1
<1>3. PICK T : T = {i \in 1 .. n + 1 : i = n + 1 \/ ~Settled(i)}
  OBVIOUS
<1>4. T \in SUBSET Nat /\ T # {}
  BY <1>2, <1>3
<1>5. PICK e \in T : \A j \in T : e <= j
  BY <1>4, LeastNumber
<1>6. PICK d \in Nat : d = e - 1
  BY <1>2, <1>3, <1>5
<1>7. d <= n
  BY <1>2, <1>3, <1>5, <1>6
<1>8. \A i \in 1 .. n : Settled(i) <=> i <= d
  <2>1. ASSUME NEW i \in 1 .. n, i <= d PROVE Settled(i)
    BY <2>1, <1>2, <1>3, <1>5, <1>6
  <2>2. ASSUME NEW i \in 1 .. n, Settled(i), ~(i <= d) PROVE FALSE
    <3>1. e <= i /\ e \in 1 .. n
      BY <2>2, <1>2, <1>3, <1>5, <1>6
    <3>2. Settled(e)
      BY <2>2, <3>1 DEF Settled, First
    <3> QED
      BY <3>1, <3>2, <1>2, <1>3, <1>5
  <2> QED
    BY <2>1, <2>2
<1>9. {i \in DOMAIN sQueue : /\ \A j \in 1 .. i : sQueue[j].step <= sStep
                             /\ \A j \in 1 .. i - 1 : sQueue[j].type # "SYNC"} = 1 .. d
  <2>1. DOMAIN sQueue = 1 .. n
    BY <1>1, <1>2
  <2>2. \A i \in 1 .. n : Settled(i) <=> /\ \A j \in 1 .. i : sQueue[j].step <= sStep
                                         /\ \A j \in 1 .. i - 1 : sQueue[j].type # "SYNC"
    BY DEF Settled, First
  <2>3. \A i : i \in 1 .. d <=> i \in 1 .. n /\ i <= d
    BY <1>7
  <2> QED
    BY <2>1, <2>2, <2>3, <1>8
<1>10. PICK t : t = [i \in 1 .. d |-> InputOf(sQueue[i])]
  OBVIOUS
<1>11. \A i \in 1 .. d : InputOf(sQueue[i]) \in Inputs
  <2>1. \A i \in 1 .. d : sQueue[i] \in ToolMsgs \cup SyncMsgs
    BY <1>1, <1>2, <1>7
  <2> QED
    BY <2>1, InputTypes
<1>12. t \in Worlds /\ Len(t) = d /\ \A i \in 1 .. d : t[i] = InputOf(sQueue[i])
  BY <1>10, <1>11 DEF Worlds
<1>13. SettledWorld = sWorld \o t
  BY <1>9, <1>10 DEF SettledWorld
<1>14. /\ sWorld \o t \in Worlds /\ Len(sWorld \o t) = Len(sWorld) + d
       /\ \A p \in 1 .. Len(sWorld) : (sWorld \o t)[p] = sWorld[p]
       /\ \A i \in 1 .. d : (sWorld \o t)[Len(sWorld) + i] = t[i]
  BY <1>1, <1>12 DEF Worlds
<1> QED
  BY <1>2, <1>7, <1>8, <1>12, <1>13, <1>14

\* What the log holds up to the server's step is settled.
LEMMA LogIsSettled ==
    ASSUME IInv, SInv, LogInv, NEW F \in Worlds, Coming(F), NEW w \in Worlds, Agree(w, F),
           Frames(F, Len(w)) <= sStep
    PROVE  Agree(w, SettledWorld) /\ SettledWorld \in Worlds
<1>1. PICK d \in Nat :
         /\ d <= Len(sQueue)
         /\ \A i \in 1 .. Len(sQueue) : Settled(i) <=> i <= d
         /\ SettledWorld \in Worlds /\ Len(SettledWorld) = Len(sWorld) + d
         /\ \A p \in 1 .. Len(sWorld) : SettledWorld[p] = sWorld[p]
         /\ \A i \in 1 .. d : SettledWorld[Len(sWorld) + i] = InputOf(sQueue[i])
  BY SettledParts
<1>2. PICK l \in Nat, k \in Nat : l = Len(sWorld) /\ k = Len(w)
  BY QueueFacts DEF Worlds
<1>3. /\ k <= Len(F) /\ l <= Len(F) /\ Len(F) \in Nat /\ sStep \in Nat
      /\ \A p \in 1 .. k : w[p] = F[p]
      /\ \A p \in 1 .. l : sWorld[p] = F[p]
      /\ Frames(F, l) = sStep
  BY <1>2, ComingPlaces, QueueFacts DEF Agree, Coming
<1>4. ASSUME NEW p \in l + 1 .. k
      PROVE  p - l \in 1 .. d /\ F[p] = InputOf(sQueue[p - l])
  <2>1. p \in Nat /\ p - 1 \in Nat /\ l <= p - 1 /\ p - 1 < k /\ p <= k /\ l <= p
    BY <1>2
  <2>2. Frames(F, l) <= Frames(F, p - 1) /\ Frames(F, p - 1) <= Frames(F, k)
    BY <1>2, <2>1, FramesMonotone
  <2>3. Frames(F, l) <= Frames(F, k) /\ Frames(F, k) \in Nat /\ Frames(F, p - 1) \in Nat
    <3>1. k \in Nat /\ l <= k
      BY <1>2, <2>1
    <3>2. Frames(F, k) \in Nat /\ Frames(F, p - 1) \in Nat
      BY <2>1, <3>1, FramesType
    <3> QED
      BY <1>2, <3>1, <3>2, FramesMonotone
  <2>4. Frames(F, k) = sStep /\ Frames(F, p - 1) = sStep
    BY <1>2, <1>3, <2>2, <2>3
  <2>5. F[p] # Frame
    <3>1. l <= k /\ Frames(F, l) = Frames(F, k)
      BY <1>3, <2>1, <2>4, <1>2
    <3> QED
      BY <3>1, <1>2, NoFrameBetween
  <2>6. p \in Len(sWorld) + 1 .. Len(F)
    BY <1>2, <1>3, <2>1
  <2>7. PICK i \in 1 .. Len(sQueue) : First(i) /\ p = sQueue[i].at + 1
    BY <2>5, <2>6 DEF Coming
  <2>8. Right(F, sQueue[i])
    BY <2>7 DEF Coming
  <2>9. /\ sQueue[i].at \in Nat /\ sQueue[i].step \in Nat
        /\ sQueue[i].at = Len(sWorld) + i - 1 + (sQueue[i].step - sStep)
        /\ \A j \in 1 .. i : sQueue[j].step <= sQueue[i].step
    BY QueueFacts DEF Numbered
  <2>10. sQueue[i].at = p - 1
    BY <2>1, <2>7, <2>9
  <2>11. sQueue[i].step = sStep
    BY <2>4, <2>8, <2>10 DEF Right
  <2>12. i = p - l
    BY <1>2, <1>3, <2>1, <2>9, <2>10, <2>11
  <2>13. Settled(i)
    BY <2>7, <2>9, <2>11 DEF Settled
  <2>14. i <= d
    BY <2>13, <1>1
  <2>15. F[p] = InputOf(sQueue[i])
    BY <2>7, <2>8 DEF Right
  <2>16. i \in 1 .. d
    BY <2>14
  <2> QED
    BY <2>12, <2>15, <2>16
<1>5. ASSUME NEW p \in 1 .. k PROVE SettledWorld[p] = w[p] /\ p <= Len(SettledWorld)
  <2>1. CASE p <= l
    <3>1. p \in 1 .. l /\ p <= l + d
      BY <2>1, <1>2
    <3>2. SettledWorld[p] = F[p] /\ w[p] = F[p]
      BY <3>1, <1>1, <1>2, <1>3
    <3> QED
      BY <3>1, <3>2, <1>1, <1>2
  <2>2. CASE l < p
    <3>1. PICK i \in Int : i = p - l
      BY <1>2
    <3>2. i \in 1 .. d /\ F[p] = InputOf(sQueue[i])
      BY <2>2, <3>1, <1>2, <1>4
    <3>3. p = l + i /\ p <= l + d
      BY <3>1, <3>2, <1>2
    <3>4. SettledWorld[p] = F[p]
      BY <3>2, <3>3, <1>1, <1>2
    <3> QED
      BY <3>3, <3>4, <1>1, <1>2, <1>3
  <2> QED
    BY <2>1, <2>2, <1>2
<1>6. k <= Len(SettledWorld)
  <2>1. CASE k = 0
    BY <2>1, <1>1, <1>2
  <2>2. CASE k # 0
    <3>1. k \in 1 .. k
      BY <2>2, <1>2
    <3> QED
      BY <3>1, <1>5
  <2> QED
    BY <2>1, <2>2
<1> QED
  BY <1>1, <1>2, <1>5, <1>6 DEF Agree

\* The world of a player is part of the log, up to the server's step.
LEMMA PlayerInLog ==
    ASSUME IInv, NEW F \in Worlds, NEW c \in Clients, PlayerOK(F, c)
    PROVE  Agree(cWorld[c], F) /\ Frames(F, Len(cWorld[c])) <= sStep
<1>1. /\ cStep[c] \in Nat /\ cBarrier[c] \in Nat /\ sStep \in Nat /\ cStep[c] <= cBarrier[c]
      /\ cBarrier[c] <= sStep /\ wire[c] \in Seq(ToClientMsgs)
  BY LocalTypes
<1>2. CASE cStep[c] = 0
  <2>1. LoadedOK(F, c)
    BY <1>2 DEF PlayerOK
  <2>2. Head(wire[c]) \in Elems(wire[c])
    BY <2>1, <1>1, ElemsParts DEF LoadedOK
  <2>3. Head(wire[c]).step <= sStep
    BY <2>1, <2>2, <1>1, ReadySteps DEF LoadedOK
  <2> QED
    BY <2>1, <2>3 DEF LoadedOK, Follows
<1>3. CASE cStep[c] > 0
  <2>1. RunningOK(F, c)
    BY <1>3 DEF PlayerOK
  <2>2. cStep[c] <= sStep
    BY <1>1
  <2> QED
    BY <2>1, <2>2 DEF RunningOK, Follows
<1> QED
  BY <1>1, <1>2, <1>3

LEMMA AlongIsLockstep == IInv /\ SInv /\ LogInv /\ AlongInv => Lockstep
<1> SUFFICES ASSUME IInv, SInv, LogInv, AlongInv, NEW c \in Clients,
                    cMode[c] = "playing" /\ ~lost[c]
             PROVE  IsPrefixOf(cWorld[c], SettledWorld)
  BY DEF Lockstep
<1>1. PICK F \in Worlds : Coming(F) /\ Along(F, c)
  BY DEF AlongInv
<1>2. PlayerOK(F, c)
  BY <1>1 DEF Along
<1>3. Agree(cWorld[c], F) /\ Frames(F, Len(cWorld[c])) <= sStep /\ cWorld[c] \in Worlds
  BY <1>2, PlayerInLog, LocalTypes
<1>4. Agree(cWorld[c], SettledWorld) /\ SettledWorld \in Worlds
  BY <1>1, <1>3, LogIsSettled
<1> QED
  BY <1>3, <1>4, PrefixByInputs

\* No client leaves the world of the server, if no direct send fails: whatever the order in
\* which tools, syncs, announcements, games and NWC_READYs are sent, written and read, the world
\* of a client that plays is the beginning of the world the server has when it has run what is
\* due, unless the client's own reload dropped commands of the world behind it.
THEOREM ClientsStayInStep ==
    ASSUME ~SendMayFail PROVE Spec => []Lockstep
<1> DEFINE Inv == /\ IInv /\ SInv /\ LogInv /\ SlotInv /\ StreamInv /\ JoinInv /\ OrderInv
                  /\ IdleInv /\ AlongInv
<1>1. Init => Inv
  BY InitIInv, InitSInv, InitLogInv, InitSlotInv, InitStreamInv, InitJoinInv, InitOrderInv,
     InitIdleInv, InitAlongInv
<1>2. Inv /\ [Next]_vars => Inv'
  BY NextIInv, NextSInv, NextLogInv, NextSlotInv, NextStreamInv, NextJoinInv, NextOrderInv,
     NextIdleInv, NextAlongInv
<1>3. Inv => Lockstep
  BY AlongIsLockstep
<1> QED
  BY <1>1, <1>2, <1>3, PTL DEF Spec

=============================================================================
