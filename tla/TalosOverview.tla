---------------------------- MODULE TalosOverview ----------------------------
(***************************************************************************)
(* The Talos section of the dashboard (app/collectors/talos.py): an        *)
(* overview built from the version, which reads the node object, and the   *)
(* machine config, which reads it too.  The node object, the config and    *)
(* the overview are each cached by ttl_cache, so a value passes through up *)
(* to three caches, each with its own clock; the version is not cached.    *)
(* The overview also waits for the certificates, which are read one        *)
(* command after the other.                                                *)
(* Each cache runs at most one computation at a time (module TtlCache).    *)
(***************************************************************************)
EXTENDS Naturals, FiniteSets

CONSTANTS
  Seconds,     (* ttl of a good result, 300 s                                *)
  RetryAfter,  (* ttl of a degraded one, 10 s                                *)
  Slow,        (* longest time one request, command or file read takes       *)
  Certs,       (* most certificates a scan finds, one command each           *)
  MaxTime      (* model bound: last clock reading                            *)

ASSUME TalosAssumption ==
  /\ Seconds \in Nat \ {0} /\ RetryAfter \in Nat \ {0} /\ Slow \in Nat
  /\ Certs \in Nat /\ MaxTime \in Nat

VARIABLES
  now,       (* time.monotonic()                                             *)
  apiUp,     (* does the API server answer                                   *)
  node,      (* cache entry of _node_object                                  *)
  config,    (* cache entry of collect_talos_machine_config                  *)
  overview,  (* cache entry of collect_talos                                 *)
  fetch,     (* the running computation of the node object, since when       *)
  build,     (* the running computation of the config                        *)
  gather,    (* the running computation of the overview                      *)
  left,      (* does a version whose overview gave up still read its file    *)
  served     (* the overview last answered, and when                         *)

caches == <<node, config, overview>>
vars == <<now, apiUp, caches, fetch, build, gather, left, served>>

\* good: the node object was there.  from: when the API server last answered
\* for it, or failed to.
Empty == [state |-> "empty", from |-> 0, stored |-> 0, expires |-> 0]
Absent == [state |-> "empty", from |-> 0]
NoOverview == [state |-> "empty", from |-> 0, schematic |-> FALSE, stored |-> 0,
               expires |-> 0]
Off == [phase |-> "off", since |-> 0, node |-> Absent]
NoGather == [on |-> FALSE, since |-> 0, reading |-> FALSE, version |-> Absent,
             config |-> Absent, certs |-> 0, certSince |-> 0]

Init ==
  /\ now = 0
  /\ apiUp \in BOOLEAN
  /\ node = Empty /\ config = Empty /\ overview = NoOverview
  /\ fetch = [on |-> FALSE, since |-> 0]
  /\ build = Off
  /\ gather = NoGather
  /\ left = FALSE
  /\ served = NoOverview

-----------------------------------------------------------------------------
\* Mutant: an entry never expires.
FreshForever(e) == e.state # "empty"

\* ttl_cache: the entry is there and has not expired.
Fresh(e) == e.state # "empty" /\ now < e.expires
ValueOf(e) == [state |-> e.state, from |-> e.from]

\* ttl_cache: a result cache_if rejects is kept for retry_after only.
Ttl(state) == IF state = "good" \/ Seconds < RetryAfter THEN Seconds ELSE RetryAfter

\* Version, config and certificates are there: the overview waits for nothing else.
Complete ==
  gather.on /\ gather.version # Absent /\ gather.config # Absent /\ gather.certs = 0

\* Time passes while requests, commands and file reads run, each up to its timeout.
Tick ==
  /\ now < MaxTime
  /\ fetch.on => now - fetch.since < Slow
  /\ build.phase \in {"disk", "ip"} => now - build.since < Slow
  /\ gather.reading => now - gather.since < Slow
  /\ gather.certs > 0 => now - gather.certSince < Slow
  /\ ~Complete
  /\ now' = now + 1
  /\ UNCHANGED <<apiUp, caches, fetch, build, gather, left, served>>

\* The API server restarts, or comes back.
Api ==
  /\ apiUp' = ~apiUp
  /\ UNCHANGED <<now, caches, fetch, build, gather, served, left>>

\* A caller of _node_object joins the running fetch or starts one.
JoinFetch == fetch' = IF fetch.on THEN fetch ELSE [on |-> TRUE, since |-> now]

\* The node object is there: the config reads the kernel command line unless sysfs
\* names the install disk, and then runs `ip`.
NodeHere(value, phase) == [phase |-> phase, since |-> now, node |-> value]
AfterNode == {"disk", "ip"}

\* collect_talos_machine_config starts: it asks for the node object first.
Building ==
  IF Fresh(node)
    THEN /\ \E phase \in AfterNode : build' = NodeHere(ValueOf(node), phase)
         /\ UNCHANGED fetch
    ELSE build' = [phase |-> "node", since |-> now, node |-> Absent] /\ JoinFetch

\* GET /api/talos/config with no fresh config and nobody building one.
AskConfig ==
  /\ ~Fresh(config) /\ build.phase = "off"
  /\ Building
  /\ UNCHANGED <<now, apiUp, caches, gather, served, left>>

\* GET /api/talos with a fresh overview.
ServeOverview ==
  /\ Fresh(overview)
  /\ served' = [overview EXCEPT !.stored = now]
  /\ UNCHANGED <<now, apiUp, caches, fetch, build, gather, left>>

\* GET /api/talos without one: gather starts the version, which reads a file
\* first, the config, which may be a hit, running already or starts now, and the
\* certificates, of which a scan reads some, and none if they are cached.
AskOverview ==
  /\ ~Fresh(overview) /\ ~gather.on
  /\ \E n \in 0..Certs :
       gather' = [on |-> TRUE, since |-> now, reading |-> TRUE, version |-> Absent,
                  config |-> IF Fresh(config) THEN ValueOf(config) ELSE Absent,
                  certs |-> n, certSince |-> now]
  /\ IF Fresh(config) \/ build.phase # "off" THEN UNCHANGED <<fetch, build>> ELSE Building
  /\ UNCHANGED <<now, apiUp, caches, served, left>>

\* The version has read os-release and asks for the node object.
VersionRead ==
  /\ gather.on /\ gather.reading
  /\ gather' = [gather EXCEPT !.reading = FALSE,
                              !.version = IF Fresh(node) THEN ValueOf(node) ELSE Absent]
  /\ IF Fresh(node) THEN UNCHANGED fetch ELSE JoinFetch
  /\ UNCHANGED <<now, apiUp, caches, build, served, left>>

\* One openssl command ends; the next starts.
CertRead ==
  /\ gather.on /\ gather.certs > 0
  /\ gather' = [gather EXCEPT !.certs = @ - 1, !.certSince = now]
  /\ UNCHANGED <<now, apiUp, caches, fetch, build, left, served>>

\* The request to the API server ends; _k8s_get turns an error into None.
\* Whoever waits for the node object gets the result.
FetchEnds ==
  LET state == IF apiUp THEN "good" ELSE "bad"
      value == [state |-> state, from |-> now]
  IN  /\ fetch.on
      /\ node' = [state |-> state, from |-> now, stored |-> now, expires |-> now + Ttl(state)]
      /\ fetch' = [fetch EXCEPT !.on = FALSE]
      /\ \E phase \in AfterNode :
           build' = IF build.phase = "node" THEN NodeHere(value, phase) ELSE build
      /\ gather' = IF gather.on /\ ~gather.reading /\ gather.version = Absent
                     THEN [gather EXCEPT !.version = value] ELSE gather
      /\ UNCHANGED <<now, apiUp, config, overview, served, left>>

\* The command line is read; `ip` starts.
DiskRead ==
  /\ build.phase = "disk"
  /\ build' = [build EXCEPT !.phase = "ip", !.since = now]
  /\ UNCHANGED <<now, apiUp, caches, fetch, gather, left, served>>

\* Mutant: the overview that waits for somebody else's config is not woken.
BuildEndsUnshared ==
  /\ build.phase = "ip"
  /\ config' = [state |-> build.node.state, from |-> build.node.from, stored |-> now,
                expires |-> now + Ttl(build.node.state)]
  /\ build' = Off
  /\ UNCHANGED <<now, apiUp, node, overview, fetch, gather, served, left>>

\* The config is complete: config_available says whether the node was there.
BuildEnds ==
  /\ build.phase = "ip"
  /\ config' = [state |-> build.node.state, from |-> build.node.from, stored |-> now,
                expires |-> now + Ttl(build.node.state)]
  /\ build' = Off
  /\ gather' = IF gather.on /\ gather.config = Absent
                 THEN [gather EXCEPT !.config = build.node] ELSE gather
  /\ UNCHANGED <<now, apiUp, node, overview, fetch, served, left>>

\* Mutant: the overview is kept by its version, not by its config.
JudgedByVersion(version, cfg) == version.state

\* cache_if of collect_talos looks at the config only.
Judged(version, cfg) == cfg.state

\* All parts are there: the overview is cached and answered.
OverviewEnds ==
  LET state == Judged(gather.version, gather.config)
      new == [state |-> gather.config.state, from |-> gather.config.from,
              schematic |-> gather.version.state = "good", stored |-> now,
              expires |-> now + Ttl(state)]
  IN  /\ Complete
      /\ overview' = new
      /\ served' = new
      /\ gather' = NoGather
      /\ UNCHANGED <<now, apiUp, node, config, fetch, build, left>>

\* collect_talos_certificates raises: gather passes the exception on at once,
\* nothing is cached, and what was started runs on.
OverviewRaises ==
  /\ gather.on
  /\ gather' = NoGather
  /\ left' = (left \/ gather.reading)
  /\ UNCHANGED <<now, apiUp, caches, fetch, build, served>>

\* The version of such an overview asks for the node object, for nobody.
LeftVersionRead ==
  /\ left
  /\ left' = FALSE
  /\ IF Fresh(node) THEN UNCHANGED fetch ELSE JoinFetch
  /\ UNCHANGED <<now, apiUp, caches, build, gather, served>>

Next ==
  \/ Tick \/ Api
  \/ AskConfig \/ AskOverview \/ ServeOverview
  \/ VersionRead \/ CertRead \/ FetchEnds \/ DiskRead \/ BuildEnds \/ OverviewEnds
  \/ OverviewRaises \/ LeftVersionRead

Spec == Init /\ [][Next]_vars
Fairness == /\ WF_vars(VersionRead) /\ WF_vars(CertRead) /\ WF_vars(FetchEnds)
            /\ WF_vars(DiskRead) /\ WF_vars(BuildEnds) /\ WF_vars(OverviewEnds)
FairSpec == Spec /\ Fairness

-----------------------------------------------------------------------------
\* How old an answer may get when its entries live for ttl: it is the last
\* moment of the node's, the config's and the overview's entry in turn.  In between
\* the config read a file and ran a command, and the overview waited for the version,
\* a file read and a fetch, or for the certificates, a command each.
Wait == (IF Certs > 2 THEN Certs ELSE 2) * Slow
Oldest(ttl) == 3 * (ttl - 1) + 2 * Slow + Wait

\* "A failed fetch is retried after a few seconds rather than making a control
\* plane read as a worker for 5 minutes" (talos.py:41): the retries of the
\* three caches add up, so an answer without the node object may rest on a
\* failure three retry periods old, and never on an older one.
BlipForgotten ==
  served.state = "bad" => served.stored - served.from <= Oldest(RetryAfter)

\* An answer is at most three ttls and the computations between them old.
AgeBounded == served.stored - served.from <= Oldest(Seconds)

\* "caching here would pin an empty schematic for the full TTL after an API
\* blip": an overview whose schematic is empty is kept for retry_after only.
EmptySchematicNotPinned ==
  overview.state # "empty" /\ ~overview.schematic
    => overview.expires <= overview.stored + RetryAfter

\* An overview that is being built is answered or given up: what it waits for
\* (a fetch it joined, a config somebody else builds) always comes.
OverviewAnswered == gather.on ~> ~gather.on
=============================================================================
