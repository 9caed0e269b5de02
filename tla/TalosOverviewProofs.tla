------------------------- MODULE TalosOverviewProofs -------------------------
(***************************************************************************)
(* How old an answer of the Talos overview may be, for any ttls and any    *)
(* length of the requests: a value ages in the node's, the config's and    *)
(* the overview's cache in turn, and in the computations between them,     *)
(* however many certificates there are.                                    *)
(***************************************************************************)
EXTENDS TalosOverview, TLAPS

States == {"empty", "good", "bad"}
Value == [state : States, from : Nat]
Entry == [state : States, from : Nat, stored : Nat, expires : Nat]
Overview == [state : States, from : Nat, schematic : BOOLEAN, stored : Nat, expires : Nat]
Build == [phase : {"off", "node", "disk", "ip"}, since : Nat, node : Value]
Gather == [on : BOOLEAN, since : Nat, reading : BOOLEAN, version : Value, config : Value,
           certs : 0..Certs, certSince : Nat]

TypeOK ==
  /\ now \in Nat
  /\ node \in Entry /\ config \in Entry /\ overview \in Overview /\ served \in Overview
  /\ fetch \in [on : BOOLEAN, since : Nat]
  /\ build \in Build /\ gather \in Gather

\* How old an entry that is still served may be.
Kept(state) == Ttl(state) - 1

\* The commands that ended when c certificates are still to be read.
Spent(c) == (Certs - c) * Slow

NodeInv == node.state # "empty" => node.expires <= node.from + Ttl(node.state)

ConfigInv ==
  config.state # "empty" =>
    /\ config.stored <= config.from + Kept(config.state) + 2 * Slow
    /\ config.expires = config.stored + Ttl(config.state)

OverviewInv ==
  overview.state # "empty" =>
    /\ overview.stored <= overview.from + 2 * Kept(overview.state) + 2 * Slow + Wait
    /\ overview.expires = overview.stored + Ttl(overview.state)

ServedInv == served.stored <= served.from + 3 * Kept(served.state) + 2 * Slow + Wait

FetchInv == fetch.on => fetch.since <= now /\ now <= fetch.since + Slow

\* A file read after the node object at most, `ip` starts.
BuildInv ==
  build.phase \in AfterNode =>
    /\ build.since <= build.node.from + Kept(build.node.state)
                       + IF build.phase = "ip" THEN Slow ELSE 0
    /\ now <= build.since + Slow

\* The version comes a file read and a fetch after the start at most, the last
\* certificate a command each.  The config is at most two caches and a build old at the
\* start, or it comes later and ends the wait.
GatherInv ==
  gather.on =>
    /\ gather.since <= now
    /\ gather.reading => now <= gather.since + Slow
    /\ ~gather.reading /\ gather.version = Absent =>
         fetch.on /\ fetch.since <= gather.since + Slow
    /\ gather.config # Absent =>
         gather.since <= gather.config.from + 2 * Kept(gather.config.state) + 2 * Slow
    /\ gather.certSince <= now /\ gather.certSince <= gather.since + Spent(gather.certs)
    /\ gather.certs > 0 => now <= gather.certSince + Slow
    /\ Complete => now <= gather.config.from + 2 * Kept(gather.config.state) + 2 * Slow + Wait

Inv ==
  /\ TypeOK
  /\ NodeInv /\ ConfigInv /\ OverviewInv /\ ServedInv
  /\ FetchInv /\ BuildInv /\ GatherInv

-----------------------------------------------------------------------------
(* Types.                                                                    *)

\* A result is kept for a while, a degraded one no longer than retry_after.
LEMMA TtlType ==
  ASSUME NEW state \in States
  PROVE  /\ Ttl(state) \in Nat /\ Ttl(state) >= 1 /\ Ttl(state) <= Seconds
         /\ state # "good" => Ttl(state) <= RetryAfter
         /\ Kept(state) \in Nat /\ Ttl(state) = Kept(state) + 1
BY TalosAssumption DEF Ttl, States, Kept

LEMMA TimesMore == ASSUME NEW a \in Nat, NEW b \in Nat, NEW s \in Nat
                   PROVE  (a + b) * s = a * s + b * s /\ a * s \in Nat /\ b * s \in Nat
OBVIOUS

\* A command more is at most Slow more, and all of them are within the wait.
LEMMA SpentFacts ==
  /\ Wait \in Nat /\ 2 * Slow <= Wait /\ Slow \in Nat
  /\ \A c \in 0..Certs : /\ Spent(c) \in Nat
                         /\ c > 0 => Spent(c - 1) = Spent(c) + Slow /\ Spent(c) + Slow <= Wait
<1>1. Slow \in Nat /\ Certs \in Nat
  BY TalosAssumption
<1>2. Wait \in Nat /\ 2 * Slow <= Wait /\ Certs * Slow <= Wait
  <2>1. CASE Certs > 2
    <3>1. PICK d \in Nat : Certs = 2 + d
      <4>1. Certs - 2 \in Nat /\ Certs = 2 + (Certs - 2)
        BY <1>1, <2>1
      <4>2. QED
        BY <4>1
    <3>2. Certs * Slow = 2 * Slow + d * Slow /\ d * Slow \in Nat /\ Certs * Slow \in Nat
      BY <1>1, <3>1, TimesMore
    <3>3. Wait = Certs * Slow
      BY <2>1 DEF Wait
    <3>4. QED
      BY <1>1, <3>2, <3>3
  <2>2. CASE ~(Certs > 2)
    <3>1. PICK d \in Nat : 2 = Certs + d
      <4>1. 2 - Certs \in Nat /\ 2 = Certs + (2 - Certs)
        BY <1>1, <2>2
      <4>2. QED
        BY <4>1
    <3>2. 2 * Slow = Certs * Slow + d * Slow /\ d * Slow \in Nat /\ Certs * Slow \in Nat
      BY <1>1, <3>1, TimesMore
    <3>3. Wait = 2 * Slow
      BY <2>2 DEF Wait
    <3>4. QED
      BY <1>1, <3>2, <3>3
  <2>3. QED
    BY <2>1, <2>2
<1>3. ASSUME NEW c \in 0..Certs
      PROVE  /\ Spent(c) \in Nat
             /\ c > 0 => Spent(c - 1) = Spent(c) + Slow /\ Spent(c) + Slow <= Wait
  <2>1. PICK a \in Nat : a = Certs - c
    BY <1>1
  <2>2. Spent(c) = a * Slow /\ a * Slow \in Nat
    BY <1>1, <2>1, TimesMore DEF Spent
  <2>3. SUFFICES ASSUME c > 0
                 PROVE  Spent(c - 1) = Spent(c) + Slow /\ Spent(c) + Slow <= Wait
    BY <2>2
  <2>4. Certs - (c - 1) = a + 1
    BY <1>1, <2>1
  <2>5. Spent(c - 1) = a * Slow + 1 * Slow
    BY <1>1, <2>4, TimesMore DEF Spent
  <2>6. PICK d \in Nat : Certs = (a + 1) + d
    <3>1. c - 1 \in Nat /\ Certs = (a + 1) + (c - 1)
      BY <1>1, <2>1, <2>3
    <3>2. QED
      BY <3>1
  <2>7. Certs * Slow = (a + 1) * Slow + d * Slow /\ d * Slow \in Nat /\ (a + 1) * Slow \in Nat
    BY <1>1, <2>6, TimesMore
  <2>8. (a + 1) * Slow = a * Slow + Slow
    BY <1>1, TimesMore
  <2>9. QED
    BY <1>1, <1>2, <2>2, <2>5, <2>7, <2>8
<1>4. QED
  BY <1>1, <1>2, <1>3

LEMMA ValueTypes ==
  /\ Absent \in Value /\ Off \in Build /\ NoGather \in Gather
  /\ \A e \in Entry : ValueOf(e) \in Value
BY TalosAssumption DEF Absent, Value, Off, Build, NoGather, Gather, Entry, ValueOf, States

\* A cached value is not the mark of one that has not come yet.
LEMMA FreshValue ==
  ASSUME NEW e \in Entry, Fresh(e)
  PROVE  /\ ValueOf(e) \in Value /\ ValueOf(e) # Absent
         /\ ValueOf(e).state = e.state /\ ValueOf(e).from = e.from
         /\ e.state # "empty" /\ now < e.expires
<1>1. e.state # "empty" /\ now < e.expires
  BY DEF Fresh
<1>2. ValueOf(e).state = e.state /\ ValueOf(e).from = e.from /\ ValueOf(e) \in Value
  BY DEF ValueOf, Value, Entry
<1>3. Absent.state = "empty"
  BY DEF Absent
<1>4. QED
  BY <1>1, <1>2, <1>3

LEMMA InitInv == Init => Inv
<1> SUFFICES ASSUME Init PROVE Inv
  OBVIOUS
<1>1. TypeOK
  BY ValueTypes DEF Init, TypeOK, Empty, NoOverview, Entry, Overview, States
<1>2. ServedInv
  BY TtlType, SpentFacts DEF Init, ServedInv, NoOverview, States
<1>3. NodeInv /\ ConfigInv /\ OverviewInv
  BY DEF Init, NodeInv, ConfigInv, OverviewInv, Empty, NoOverview
<1>4. FetchInv /\ BuildInv /\ GatherInv
  BY DEF Init, FetchInv, BuildInv, GatherInv, Off, NoGather, AfterNode
<1>5. QED
  BY <1>1, <1>2, <1>3, <1>4 DEF Inv

LEMMA JoinFetchType == TypeOK /\ JoinFetch => fetch' \in [on : BOOLEAN, since : Nat]
BY DEF TypeOK, JoinFetch

\* A fetch that is joined has not run for longer than it may.
LEMMA JoinFetchInv ==
  ASSUME TypeOK, FetchInv, now' = now, JoinFetch
  PROVE  FetchInv' /\ fetch'.on
<1>1. CASE fetch.on
  BY <1>1 DEF JoinFetch, FetchInv
<1>2. CASE ~fetch.on
  <2>1. fetch'.on /\ fetch'.since = now
    BY <1>2 DEF JoinFetch
  <2>2. QED
    BY <2>1, TalosAssumption DEF FetchInv, TypeOK
<1>3. QED
  BY <1>1, <1>2

LEMMA BuildingKeeps ==
  ASSUME TypeOK, NodeInv, FetchInv, now' = now, Building
  PROVE  /\ build' \in Build /\ fetch' \in [on : BOOLEAN, since : Nat]
         /\ BuildInv' /\ FetchInv' /\ (fetch.on => fetch' = fetch)
<1>1. CASE Fresh(node)
  <2>1. /\ fetch' = fetch
        /\ \E phase \in AfterNode : build' = NodeHere(ValueOf(node), phase)
    BY <1>1 DEF Building
  <2>2. /\ ValueOf(node) \in Value /\ ValueOf(node).state = node.state
        /\ ValueOf(node).from = node.from /\ now < node.expires
        /\ node.expires <= node.from + Ttl(node.state)
    BY <1>1, FreshValue DEF TypeOK, NodeInv
  <2>3. node.state \in States /\ node.from \in Nat /\ node.expires \in Nat /\ now \in Nat
    BY DEF TypeOK, Entry
  <2>4. now <= node.from + Kept(node.state)
    BY <2>2, <2>3, TtlType
  <2>5. BuildInv'
    <3>1. build'.since = now /\ build'.node.from = node.from /\ build'.node.state = node.state
      BY <2>1, <2>2 DEF NodeHere
    <3>2. QED
      BY <2>3, <2>4, <3>1, TtlType, TalosAssumption DEF BuildInv, Kept, Ttl
  <2>6. QED
    BY <2>1, <2>2, <2>3, <2>5 DEF Build, TypeOK, FetchInv, NodeHere, AfterNode
<1>2. CASE ~Fresh(node)
  <2>1. build' = [phase |-> "node", since |-> now, node |-> Absent] /\ JoinFetch
    BY <1>2 DEF Building
  <2>2. build' \in Build /\ BuildInv'
    BY <2>1, ValueTypes DEF Build, BuildInv, TypeOK, AfterNode
  <2>3. QED
    BY <2>1, <2>2, JoinFetchType, JoinFetchInv DEF JoinFetch
<1>3. QED
  BY <1>1, <1>2

-----------------------------------------------------------------------------
(* The steps.                                                                *)

LEMMA TickKeeps == ASSUME Inv, Tick PROVE Inv'
<1>1. TypeOK /\ now' = now + 1 /\ UNCHANGED <<node, config, overview, fetch, build, gather, served>>
  BY DEF Inv, Tick, caches
<1>2. TypeOK'
  BY <1>1 DEF TypeOK
<1>3. NodeInv' /\ ConfigInv' /\ OverviewInv' /\ ServedInv'
  BY <1>1 DEF Inv, NodeInv, ConfigInv, OverviewInv, ServedInv, Kept, Ttl
<1>4. FetchInv'
  BY <1>1, TalosAssumption DEF Inv, Tick, FetchInv, TypeOK
<1>5. BuildInv'
  BY <1>1, TalosAssumption DEF Inv, Tick, BuildInv, AfterNode, TypeOK, Build, Kept, Ttl
<1>6. GatherInv'
  <2>1. SUFFICES ASSUME gather.on PROVE GatherInv'
    BY <1>1 DEF GatherInv
  <2>2. gather.since \in Nat /\ gather.config.from \in Nat /\ gather.config.state \in States
    BY <1>1 DEF TypeOK, Gather, Value
  <2>3. Kept(gather.config.state) \in Nat /\ now \in Nat /\ Slow \in Nat
    BY <1>1, <2>2, TtlType, TalosAssumption DEF TypeOK
  <2>4. /\ gather.reading => now + 1 <= gather.since + Slow
        /\ gather.certs > 0 => now + 1 <= gather.certSince + Slow
        /\ gather.certSince \in Nat
    BY <1>1, <2>2, <2>3 DEF Tick, TypeOK, Gather
  <2>5. ~Complete'
    BY <1>1 DEF Complete, Tick
  <2>6. gather.since <= now + 1 /\ gather.certSince <= now + 1
    BY <2>1, <2>2, <2>3, <2>4 DEF Inv, GatherInv
  <2>7. QED
    BY <1>1, <2>1, <2>4, <2>5, <2>6 DEF Inv, GatherInv, Kept, Ttl, Spent
<1>7. QED
  BY <1>2, <1>3, <1>4, <1>5, <1>6 DEF Inv

\* The caches are not touched and no time passes.
LEMMA CachesStay ==
  ASSUME Inv, UNCHANGED <<now, caches, served>>
  PROVE  /\ NodeInv' /\ ConfigInv' /\ OverviewInv' /\ ServedInv'
         /\ fetch' \in [on : BOOLEAN, since : Nat] /\ build' \in Build /\ gather' \in Gather
              => TypeOK'
BY DEF Inv, TypeOK, caches, NodeInv, ConfigInv, OverviewInv, ServedInv, Kept, Ttl

\* The overview that is being built is not touched, and a fetch it waits for runs on.
LEMMA GatherStays ==
  ASSUME Inv, UNCHANGED <<now, gather>>, fetch.on => fetch' = fetch
  PROVE  GatherInv'
BY DEF Inv, GatherInv, Complete, Kept, Ttl, Spent

LEMMA AskConfigKeeps == ASSUME Inv, AskConfig PROVE Inv'
<1>1. TypeOK /\ Building /\ UNCHANGED <<now, caches, gather, served>>
  BY DEF Inv, AskConfig
<1>2. /\ build' \in Build /\ fetch' \in [on : BOOLEAN, since : Nat]
      /\ BuildInv' /\ FetchInv' /\ (fetch.on => fetch' = fetch)
  BY <1>1, BuildingKeeps DEF Inv
<1>3. GatherInv'
  BY <1>1, <1>2, GatherStays
<1>4. TypeOK'
  BY <1>1, <1>2, CachesStay DEF TypeOK
<1>5. QED
  BY <1>1, <1>2, <1>3, <1>4, CachesStay DEF Inv

LEMMA ServeOverviewKeeps == ASSUME Inv, ServeOverview PROVE Inv'
<1>1. /\ TypeOK /\ overview.state # "empty" /\ now < overview.expires
      /\ served' = [overview EXCEPT !.stored = now]
      /\ UNCHANGED <<now, node, config, overview, fetch, build, gather>>
  BY DEF Inv, ServeOverview, Fresh, caches
<1>2. TypeOK'
  BY <1>1 DEF TypeOK, Overview
<1>3. ServedInv'
  <2>1. /\ overview.state \in States /\ overview.from \in Nat /\ overview.stored \in Nat
        /\ overview.expires \in Nat /\ now \in Nat
        /\ served'.stored = now /\ served'.from = overview.from /\ served'.state = overview.state
    BY <1>1 DEF TypeOK, Overview
  <2>2. /\ overview.stored <= overview.from + 2 * Kept(overview.state) + 2 * Slow + Wait
        /\ overview.expires = overview.stored + Ttl(overview.state)
    BY <1>1 DEF Inv, OverviewInv
  <2>3. now <= overview.from + 3 * Kept(overview.state) + 2 * Slow + Wait
    BY <1>1, <2>1, <2>2, TtlType, SpentFacts
  <2>4. QED
    BY <2>1, <2>3 DEF ServedInv, Kept, Ttl
<1>4. NodeInv' /\ ConfigInv' /\ OverviewInv' /\ FetchInv' /\ BuildInv' /\ GatherInv'
  BY <1>1 DEF Inv, NodeInv, ConfigInv, OverviewInv, FetchInv, BuildInv, GatherInv, Complete, Kept,
              Ttl, Spent
<1>5. QED
  BY <1>2, <1>3, <1>4 DEF Inv

LEMMA AskOverviewKeeps == ASSUME Inv, AskOverview PROVE Inv'
<1>0. PICK n \in 0..Certs :
        gather' = [on |-> TRUE, since |-> now, reading |-> TRUE, version |-> Absent,
                   config |-> IF Fresh(config) THEN ValueOf(config) ELSE Absent,
                   certs |-> n, certSince |-> now]
  BY DEF AskOverview
<1>1. /\ TypeOK /\ UNCHANGED <<now, caches, served>>
      /\ IF Fresh(config) \/ build.phase # "off" THEN UNCHANGED <<fetch, build>> ELSE Building
  BY DEF Inv, AskOverview
<1>2. /\ build' \in Build /\ fetch' \in [on : BOOLEAN, since : Nat] /\ BuildInv' /\ FetchInv'
  <2>1. CASE Fresh(config) \/ build.phase # "off"
    <3>1. UNCHANGED <<now, fetch, build>>
      BY <1>1, <2>1
    <3>2. QED
      BY <1>1, <3>1 DEF Inv, TypeOK, BuildInv, FetchInv, Kept, Ttl
  <2>2. CASE ~(Fresh(config) \/ build.phase # "off")
    BY <1>1, <2>2, BuildingKeeps DEF Inv
  <2>3. QED
    BY <2>1, <2>2
<1>3. gather' \in Gather
  BY <1>0, <1>1, ValueTypes DEF Gather, TypeOK
<1>4. /\ gather'.on /\ gather'.reading /\ gather'.since = now /\ gather'.version = Absent
      /\ gather'.config = IF Fresh(config) THEN ValueOf(config) ELSE Absent
      /\ gather'.certs = n /\ gather'.certSince = now
  BY <1>0
<1>5. Fresh(config) => now <= config.from + 2 * Kept(config.state) + 2 * Slow
  <2>1. SUFFICES ASSUME Fresh(config) PROVE now <= config.from + 2 * Kept(config.state) + 2 * Slow
    OBVIOUS
  <2>2. /\ config.state \in States /\ config.from \in Nat /\ config.stored \in Nat
        /\ config.expires \in Nat /\ now \in Nat
    BY <1>1 DEF TypeOK, Entry
  <2>3. config.state # "empty" /\ now < config.expires
    BY <2>1 DEF Fresh
  <2>4. /\ config.stored <= config.from + Kept(config.state) + 2 * Slow
        /\ config.expires = config.stored + Ttl(config.state)
    BY <2>3 DEF Inv, ConfigInv
  <2>5. QED
    BY <2>2, <2>3, <2>4, TtlType, TalosAssumption
<1>6. gather'.config # Absent => 
         now <= gather'.config.from + 2 * Kept(gather'.config.state) + 2 * Slow
  <2>1. CASE Fresh(config)
    BY <1>1, <1>4, <1>5, <2>1, FreshValue DEF TypeOK
  <2>2. CASE ~Fresh(config)
    BY <1>4, <2>2
  <2>3. QED
    BY <2>1, <2>2
<1>7. GatherInv'
  <2>1. now \in Nat /\ Spent(n) \in Nat /\ Slow \in Nat
    BY <1>1, SpentFacts DEF TypeOK
  <2>2. now <= now + Spent(n) /\ now <= now + Slow
    BY <2>1
  <2>3. QED
    BY <1>1, <1>4, <1>6, <2>1, <2>2 DEF GatherInv, Complete, Kept, Ttl, Spent
<1>8. QED
  BY <1>1, <1>2, <1>3, <1>7, CachesStay DEF Inv

LEMMA VersionReadKeeps == ASSUME Inv, VersionRead PROVE Inv'
<1>1. /\ TypeOK /\ UNCHANGED <<now, caches, build, served>> /\ gather.on /\ gather.reading
      /\ gather' = [gather EXCEPT !.reading = FALSE,
                                  !.version = IF Fresh(node) THEN ValueOf(node) ELSE Absent]
      /\ IF Fresh(node) THEN UNCHANGED fetch ELSE JoinFetch
  BY DEF Inv, VersionRead
<1>2. fetch' \in [on : BOOLEAN, since : Nat] /\ FetchInv' /\ (~Fresh(node) => fetch'.on)
  <2>1. CASE Fresh(node)
    BY <1>1, <2>1 DEF Inv, FetchInv, TypeOK
  <2>2. CASE ~Fresh(node)
    BY <1>1, <2>2, JoinFetchInv, JoinFetchType DEF Inv
  <2>3. QED
    BY <2>1, <2>2
<1>3. gather' \in Gather
  BY <1>1, ValueTypes DEF Gather, TypeOK
<1>4. /\ gather'.on /\ ~gather'.reading /\ gather'.since = gather.since
      /\ gather'.config = gather.config
      /\ gather'.certs = gather.certs /\ gather'.certSince = gather.certSince
      /\ gather'.version = Absent => ~Fresh(node)
  BY <1>1, FreshValue DEF TypeOK, Gather
<1>5. /\ gather.since <= now /\ now <= gather.since + Slow
      /\ gather.config # Absent =>
           gather.since <= gather.config.from + 2 * Kept(gather.config.state) + 2 * Slow
      /\ gather.certSince <= now /\ gather.certSince <= gather.since + Spent(gather.certs)
      /\ gather.certs > 0 => now <= gather.certSince + Slow
  BY <1>1 DEF Inv, GatherInv
<1>6. /\ gather.since \in Nat /\ gather.config.from \in Nat /\ gather.config.state \in States
      /\ Kept(gather.config.state) \in Nat /\ now \in Nat /\ Slow \in Nat
      /\ fetch'.since \in Nat /\ Wait \in Nat /\ 2 * Slow <= Wait
  BY <1>1, <1>2, TtlType, SpentFacts DEF TypeOK, Gather, Value
<1>7. fetch'.on => fetch'.since <= now
  BY <1>1, <1>2 DEF FetchInv
<1>8. GatherInv'
  <2>1. gather'.version = Absent => fetch'.on /\ fetch'.since <= gather'.since + Slow
    BY <1>2, <1>4, <1>5, <1>6, <1>7
  <2>2. gather.config # Absent =>
          now <= gather.config.from + 2 * Kept(gather.config.state) + 2 * Slow + Wait
    BY <1>5, <1>6
  <2>3. QED
    BY <1>1, <1>4, <1>5, <2>1, <2>2 DEF GatherInv, Complete, Kept, Ttl, Spent
<1>9. BuildInv'
  BY <1>1 DEF Inv, BuildInv, Kept, Ttl
<1>10. QED
  BY <1>1, <1>2, <1>3, <1>8, <1>9, CachesStay DEF Inv, TypeOK

\* Every certificate takes a command of its own.
LEMMA CertReadKeeps == ASSUME Inv, CertRead PROVE Inv'
<1>1. /\ TypeOK /\ UNCHANGED <<now, caches, fetch, build, served>> /\ gather.on /\ gather.certs > 0
      /\ gather' = [gather EXCEPT !.certs = @ - 1, !.certSince = now]
  BY DEF Inv, CertRead
<1>2. /\ gather \in Gather /\ gather.certs \in 0..Certs /\ gather.certs - 1 \in 0..Certs
      /\ now \in Nat
  BY <1>1, TalosAssumption DEF TypeOK, Gather
<1>3. gather' \in Gather
  BY <1>1, <1>2 DEF Gather
<1>4. /\ gather'.on /\ gather'.reading = gather.reading /\ gather'.version = gather.version
      /\ gather'.since = gather.since /\ gather'.config = gather.config
      /\ gather'.certs = gather.certs - 1 /\ gather'.certSince = now
  BY <1>1, <1>2 DEF Gather
<1>5. /\ gather.since <= now
      /\ gather.config # Absent =>
           gather.since <= gather.config.from + 2 * Kept(gather.config.state) + 2 * Slow
      /\ gather.certSince <= gather.since + Spent(gather.certs)
      /\ now <= gather.certSince + Slow
  BY <1>1 DEF Inv, GatherInv
<1>6. PICK c \in 0..Certs : c = gather.certs
  BY <1>2
<1>7. /\ Spent(c) \in Nat /\ Spent(c - 1) = Spent(c) + Slow /\ Spent(c) + Slow <= Wait
      /\ Wait \in Nat /\ Slow \in Nat
  BY <1>1, <1>6, SpentFacts
<1>8. /\ gather.since \in Nat /\ gather.certSince \in Nat /\ gather.config.from \in Nat
      /\ gather.config.state \in States /\ Kept(gather.config.state) \in Nat
  BY <1>2, TtlType DEF Gather, Value
<1>9. now <= gather.since + Spent(c - 1)
  BY <1>2, <1>5, <1>6, <1>7, <1>8
<1>10. gather.config # Absent =>
         now <= gather.config.from + 2 * Kept(gather.config.state) + 2 * Slow + Wait
  BY <1>2, <1>5, <1>6, <1>7, <1>8
<1>11. GatherInv'
  <2>1. now <= now + Slow
    BY <1>2, <1>7
  <2>2. /\ gather'.certSince <= now /\ gather'.certSince <= gather'.since + Spent(gather.certs)'
        /\ gather'.certs > 0 => now <= gather'.certSince + Slow
    BY <1>2, <1>4, <1>6, <1>9, <2>1 DEF Spent
  <2>3. QED
    BY <1>1, <1>4, <1>5, <1>10, <2>2 DEF Inv, GatherInv, Complete, Kept, Ttl
<1>12. FetchInv' /\ BuildInv'
  BY <1>1 DEF Inv, FetchInv, BuildInv, Kept, Ttl
<1>13. QED
  BY <1>1, <1>3, <1>11, <1>12, CachesStay DEF Inv, TypeOK

LEMMA DiskReadKeeps == ASSUME Inv, DiskRead PROVE Inv'
<1>1. /\ TypeOK /\ UNCHANGED <<now, caches, fetch, gather, served>> /\ build.phase = "disk"
      /\ build' = [build EXCEPT !.phase = "ip", !.since = now]
  BY DEF Inv, DiskRead
<1>2. /\ build' \in Build /\ build'.phase = "ip" /\ build'.since = now
      /\ build'.node = build.node
  BY <1>1 DEF TypeOK, Build
<1>3. /\ build.since \in Nat /\ build.node.from \in Nat /\ build.node.state \in States
      /\ now \in Nat /\ Slow \in Nat /\ Kept(build.node.state) \in Nat
  BY <1>1, TtlType, TalosAssumption DEF TypeOK, Build, Value
<1>4. build.since <= build.node.from + Kept(build.node.state) /\ now <= build.since + Slow
  BY <1>1, <1>3 DEF Inv, BuildInv, AfterNode
<1>5. now <= build.node.from + Kept(build.node.state) + Slow /\ now <= now + Slow
  BY <1>3, <1>4
<1>6. BuildInv'
  BY <1>1, <1>2, <1>5 DEF BuildInv, Kept, Ttl
<1>7. FetchInv' /\ GatherInv'
  BY <1>1, GatherStays DEF Inv, FetchInv
<1>8. QED
  BY <1>1, <1>2, <1>6, <1>7, CachesStay DEF Inv, TypeOK

\* The result of a fetch is as new as it can be, and comes in time for the version.
LEMMA FetchEndsKeeps == ASSUME Inv, FetchEnds PROVE Inv'
<1>1. PICK state \in {"good", "bad"} : state = IF apiUp THEN "good" ELSE "bad"
  OBVIOUS
<1>2. PICK value : value = [state |-> state, from |-> now]
  OBVIOUS
<1>3. /\ TypeOK /\ fetch.on /\ UNCHANGED <<now, config, overview, served>>
      /\ node' = [state |-> state, from |-> now, stored |-> now, expires |-> now + Ttl(state)]
      /\ fetch' = [fetch EXCEPT !.on = FALSE]
      /\ \E phase \in AfterNode :
           build' = IF build.phase = "node" THEN NodeHere(value, phase) ELSE build
      /\ gather' = IF gather.on /\ ~gather.reading /\ gather.version = Absent
                     THEN [gather EXCEPT !.version = value] ELSE gather
  BY <1>1, <1>2 DEF Inv, FetchEnds
<1>4. /\ state \in States /\ value \in Value /\ value # Absent
      /\ value.from = now /\ value.state = state /\ now \in Nat
      /\ Ttl(state) \in Nat /\ Kept(state) \in Nat /\ Ttl(state) = Kept(state) + 1
  BY <1>1, <1>2, <1>3, TtlType DEF States, Value, Absent, TypeOK
<1>5. TypeOK'
  <2>1. node' \in Entry /\ fetch' \in [on : BOOLEAN, since : Nat]
    <3>1. now + Ttl(state) \in Nat
      BY <1>4
    <3>2. node' \in Entry
      BY <1>3, <1>4, <3>1 DEF Entry
    <3>3. QED
      BY <1>3, <3>2 DEF TypeOK
  <2>2. build' \in Build
    BY <1>3, <1>4 DEF Build, TypeOK, NodeHere, AfterNode
  <2>3. gather' \in Gather
    BY <1>3, <1>4 DEF Gather, TypeOK
  <2>4. QED
    BY <1>3, <2>1, <2>2, <2>3 DEF TypeOK
<1>6. NodeInv'
  BY <1>3, <1>4 DEF NodeInv, Ttl
<1>7. ConfigInv' /\ OverviewInv' /\ ServedInv'
  BY <1>3 DEF Inv, ConfigInv, OverviewInv, ServedInv, Kept, Ttl
<1>8. ~fetch'.on
  BY <1>3 DEF TypeOK
<1>9. BuildInv'
  <2>1. CASE build.phase = "node"
    <3>1. build'.since = now /\ build'.node = value
      BY <1>3, <2>1 DEF NodeHere
    <3>2. QED
      BY <1>3, <1>4, <3>1, TalosAssumption DEF BuildInv, Kept, Ttl
  <2>2. CASE build.phase # "node"
    BY <1>3, <2>2 DEF Inv, BuildInv, Kept, Ttl
  <2>3. QED
    BY <2>1, <2>2
<1>10. GatherInv'
  <2>1. CASE gather.on /\ ~gather.reading /\ gather.version = Absent
    <3>1. /\ gather'.on /\ ~gather'.reading /\ gather'.version = value
          /\ gather'.since = gather.since /\ gather'.config = gather.config
          /\ gather'.certs = gather.certs /\ gather'.certSince = gather.certSince
      BY <1>3, <2>1 DEF TypeOK, Gather
    <3>2. /\ fetch.since <= gather.since + Slow /\ now <= fetch.since + Slow
          /\ gather.since <= now
          /\ gather.config # Absent =>
               gather.since <= gather.config.from + 2 * Kept(gather.config.state) + 2 * Slow
          /\ gather.certSince <= now /\ gather.certSince <= gather.since + Spent(gather.certs)
          /\ gather.certs > 0 => now <= gather.certSince + Slow
      BY <1>3, <2>1 DEF Inv, GatherInv, FetchInv
    <3>3. /\ gather.since \in Nat /\ gather.config.from \in Nat /\ gather.config.state \in States
          /\ Kept(gather.config.state) \in Nat /\ Slow \in Nat /\ fetch.since \in Nat
          /\ Wait \in Nat /\ 2 * Slow <= Wait
      BY <1>3, TtlType, SpentFacts DEF TypeOK, Gather, Value
    <3>4. gather.config # Absent =>
            now <= gather.config.from + 2 * Kept(gather.config.state) + 2 * Slow + Wait
      BY <1>4, <3>2, <3>3
    <3>5. QED
      BY <1>3, <1>4, <3>1, <3>2, <3>4 DEF GatherInv, Complete, Kept, Ttl, Spent
  <2>2. CASE ~(gather.on /\ ~gather.reading /\ gather.version = Absent)
    BY <1>3, <2>2 DEF Inv, GatherInv, Complete, Kept, Ttl, Spent
  <2>3. QED
    BY <2>1, <2>2
<1>11. FetchInv'
  BY <1>8 DEF FetchInv
<1>12. QED
  BY <1>5, <1>6, <1>7, <1>9, <1>10, <1>11 DEF Inv

\* A config that is complete is one cache entry, a file read and a command old at most.
LEMMA BuildEndsKeeps == ASSUME Inv, BuildEnds PROVE Inv'
<1>1. /\ TypeOK /\ build.phase = "ip" /\ UNCHANGED <<now, node, overview, fetch, served>>
      /\ config' = [state |-> build.node.state, from |-> build.node.from, stored |-> now,
                    expires |-> now + Ttl(build.node.state)]
      /\ build' = Off
      /\ gather' = IF gather.on /\ gather.config = Absent
                     THEN [gather EXCEPT !.config = build.node] ELSE gather
  BY DEF Inv, BuildEnds
<1>2. /\ build.node \in Value /\ build.node.state \in States /\ build.node.from \in Nat
      /\ build.since \in Nat /\ now \in Nat /\ Slow \in Nat
      /\ Ttl(build.node.state) \in Nat /\ Kept(build.node.state) \in Nat
  BY <1>1, TtlType, TalosAssumption DEF TypeOK, Build, Value
<1>3. now <= build.node.from + Kept(build.node.state) + 2 * Slow
  BY <1>1, <1>2 DEF Inv, BuildInv, AfterNode
<1>4. TypeOK'
  <2>1. config' \in Entry
    BY <1>1, <1>2 DEF Entry
  <2>2. gather' \in Gather
    BY <1>1, <1>2 DEF Gather, TypeOK
  <2>3. QED
    BY <1>1, <2>1, <2>2, ValueTypes DEF TypeOK
<1>5. ConfigInv'
  <2>1. /\ config'.state = build.node.state /\ config'.from = build.node.from
        /\ config'.stored = now /\ config'.expires = now + Ttl(build.node.state)
    BY <1>1
  <2>2. QED
    BY <1>3, <2>1 DEF ConfigInv, Kept, Ttl
<1>6. NodeInv' /\ OverviewInv' /\ ServedInv' /\ FetchInv'
  BY <1>1 DEF Inv, NodeInv, OverviewInv, ServedInv, FetchInv, Kept, Ttl
<1>7. BuildInv'
  BY <1>1 DEF BuildInv, Off, AfterNode
<1>8. GatherInv'
  <2>1. CASE gather.on /\ gather.config = Absent
    <3>1. /\ gather'.on /\ gather'.reading = gather.reading /\ gather'.version = gather.version
          /\ gather'.since = gather.since /\ gather'.config = build.node
          /\ gather'.certs = gather.certs /\ gather'.certSince = gather.certSince
      BY <1>1, <2>1 DEF TypeOK, Gather
    <3>2. /\ gather.since <= now
          /\ gather.reading => now <= gather.since + Slow
          /\ ~gather.reading /\ gather.version = Absent =>
               fetch.on /\ fetch.since <= gather.since + Slow
          /\ gather.certSince <= now /\ gather.certSince <= gather.since + Spent(gather.certs)
          /\ gather.certs > 0 => now <= gather.certSince + Slow
      BY <2>1 DEF Inv, GatherInv
    <3>3. gather.since \in Nat /\ Wait \in Nat
      BY <1>1, SpentFacts DEF TypeOK, Gather
    <3>4. /\ gather.since <= build.node.from + 2 * Kept(build.node.state) + 2 * Slow
          /\ now <= build.node.from + 2 * Kept(build.node.state) + 2 * Slow + Wait
      BY <1>2, <1>3, <3>2, <3>3
    <3>5. QED
      BY <1>1, <3>1, <3>2, <3>4 DEF GatherInv, Complete, Kept, Ttl, Spent
  <2>2. CASE ~(gather.on /\ gather.config = Absent)
    BY <1>1, <2>2 DEF Inv, GatherInv, Complete, Kept, Ttl, Spent
  <2>3. QED
    BY <2>1, <2>2
<1>9. QED
  BY <1>4, <1>5, <1>6, <1>7, <1>8 DEF Inv

LEMMA OverviewEndsKeeps == ASSUME Inv, OverviewEnds PROVE Inv'
<1>1. PICK new : new = [state |-> gather.config.state, from |-> gather.config.from,
                        schematic |-> gather.version.state = "good", stored |-> now,
                        expires |-> now + Ttl(gather.config.state)]
  OBVIOUS
<1>2. /\ TypeOK /\ Complete /\ UNCHANGED <<now, node, config, fetch, build>>
      /\ overview' = new /\ served' = new /\ gather' = NoGather
  BY <1>1 DEF Inv, OverviewEnds, Judged
<1>3. /\ gather.config.state \in States /\ gather.config.from \in Nat
      /\ now \in Nat /\ Slow \in Nat /\ Wait \in Nat
      /\ Ttl(gather.config.state) \in Nat /\ Kept(gather.config.state) \in Nat
  BY <1>2, TtlType, SpentFacts DEF TypeOK, Gather, Value
<1>4. /\ new \in Overview
      /\ new.state = gather.config.state /\ new.from = gather.config.from /\ new.stored = now
      /\ new.expires = now + Ttl(gather.config.state)
  BY <1>1, <1>3 DEF Overview
<1>5. TypeOK'
  BY <1>2, <1>4, ValueTypes DEF TypeOK
<1>6. now <= gather.config.from + 2 * Kept(gather.config.state) + 2 * Slow + Wait
  BY <1>2 DEF Inv, GatherInv, Complete
<1>7. OverviewInv' /\ ServedInv'
  <2>1. new.stored <= new.from + 2 * Kept(new.state) + 2 * Slow + Wait
    BY <1>4, <1>6
  <2>2. new.stored <= new.from + 3 * Kept(new.state) + 2 * Slow + Wait
    BY <1>3, <1>4, <1>6
  <2>3. QED
    BY <1>2, <1>4, <2>1, <2>2 DEF OverviewInv, ServedInv, Kept, Ttl
<1>8. NodeInv' /\ ConfigInv' /\ FetchInv' /\ BuildInv'
  BY <1>2 DEF Inv, NodeInv, ConfigInv, FetchInv, BuildInv, Kept, Ttl
<1>9. GatherInv'
  BY <1>2 DEF GatherInv, NoGather
<1>10. QED
  BY <1>5, <1>7, <1>8, <1>9 DEF Inv

LEMMA OverviewRaisesKeeps == ASSUME Inv, OverviewRaises PROVE Inv'
<1>1. UNCHANGED <<now, caches, fetch, build, served>> /\ gather' = NoGather
  BY DEF OverviewRaises
<1>2. FetchInv' /\ BuildInv' /\ GatherInv'
  BY <1>1 DEF Inv, FetchInv, BuildInv, GatherInv, NoGather, Kept, Ttl
<1>3. QED
  BY <1>1, <1>2, CachesStay, ValueTypes DEF Inv, TypeOK

LEMMA LeftVersionReadKeeps == ASSUME Inv, LeftVersionRead PROVE Inv'
<1>1. UNCHANGED <<now, caches, build, gather, served>> /\ (UNCHANGED fetch \/ JoinFetch)
  BY DEF LeftVersionRead
<1>2. fetch' \in [on : BOOLEAN, since : Nat] /\ FetchInv' /\ (fetch.on => fetch' = fetch)
  <2>1. CASE UNCHANGED fetch
    BY <1>1, <2>1 DEF Inv, TypeOK, FetchInv
  <2>2. CASE JoinFetch
    BY <1>1, <2>2, JoinFetchType, JoinFetchInv DEF Inv, JoinFetch
  <2>3. QED
    BY <1>1, <2>1, <2>2
<1>3. BuildInv' /\ GatherInv'
  BY <1>1, <1>2, GatherStays DEF Inv, BuildInv, Kept, Ttl
<1>4. QED
  BY <1>1, <1>2, <1>3, CachesStay DEF Inv, TypeOK

LEMMA NextKeeps == Inv /\ [Next]_vars => Inv'
<1> SUFFICES ASSUME Inv, [Next]_vars PROVE Inv'
  OBVIOUS
<1>1. CASE Api
  <2>1. UNCHANGED <<now, caches, fetch, build, gather, served>>
    BY <1>1 DEF Api
  <2>2. FetchInv' /\ BuildInv' /\ GatherInv'
    BY <2>1, GatherStays DEF Inv, FetchInv, BuildInv, Kept, Ttl
  <2>3. QED
    BY <2>1, <2>2, CachesStay DEF Inv, TypeOK
<1>2. CASE UNCHANGED vars
  <2>1. UNCHANGED <<now, caches, fetch, build, gather, served>>
    BY <1>2 DEF vars
  <2>2. FetchInv' /\ BuildInv' /\ GatherInv'
    BY <2>1, GatherStays DEF Inv, FetchInv, BuildInv, Kept, Ttl
  <2>3. QED
    BY <2>1, <2>2, CachesStay DEF Inv, TypeOK
<1>3. QED
  BY <1>1, <1>2, TickKeeps, AskConfigKeeps, ServeOverviewKeeps, AskOverviewKeeps,
     VersionReadKeeps, CertReadKeeps, FetchEndsKeeps, DiskReadKeeps, BuildEndsKeeps, OverviewEndsKeeps, OverviewRaisesKeeps,
     LeftVersionReadKeeps DEF Next

-----------------------------------------------------------------------------
(* The theorems.                                                             *)

\* The ages of the three cache entries, of the two computations in between and of the
\* answer given last, each bounded by those it is made from.
THEOREM Invariant == Spec => []Inv
BY InitInv, NextKeeps, PTL DEF Spec

LEMMA AnswerAge ==
  ASSUME Inv
  PROVE  BlipForgotten /\ AgeBounded
<1>1. /\ served.state \in States /\ served.stored \in Nat /\ served.from \in Nat
      /\ served.stored <= served.from + 3 * Kept(served.state) + 2 * Slow + Wait
  BY DEF Inv, ServedInv, TypeOK, Overview
<1>2. /\ Kept(served.state) \in Nat /\ Kept(served.state) <= Seconds - 1
      /\ served.state # "good" => Kept(served.state) <= RetryAfter - 1
      /\ Slow \in Nat /\ Wait \in Nat /\ Seconds \in Nat /\ RetryAfter \in Nat
  BY <1>1, TtlType, SpentFacts, TalosAssumption
<1>3. served.stored - served.from <= 3 * (Seconds - 1) + 2 * Slow + Wait
  BY <1>1, <1>2
<1>4. served.state = "bad" => served.stored - served.from <=
        3 * (RetryAfter - 1) + 2 * Slow + Wait
  BY <1>1, <1>2
<1>5. QED
  BY <1>3, <1>4 DEF BlipForgotten, AgeBounded, Oldest

\* An answer without the node object rests on a failed fetch three retry periods and
\* the waits between the caches old at most, whatever the ttls and however many
\* certificates are read meanwhile.
THEOREM BlipIsForgotten == Spec => []BlipForgotten
BY Invariant, AnswerAge, PTL

\* The caches of the node object, the config and the overview add up to no more than
\* three ttls and the waits between them.
THEOREM AgeIsBounded == Spec => []AgeBounded
BY Invariant, AnswerAge, PTL
=============================================================================
