# Verification of the node debug dashboard

TLA+ models of the parts of the node debug dashboard in which order, failure and
concurrency decide whether it is correct, TLC runs that check them on small
instances, and TLAPS proofs of the main properties for every instance.
`PROJECT.json` lists components, runs, mutants, findings, hazards, theorems and,
for every definition that models code, the lines it models.

## 1. The system

The dashboard is one Python process (FastAPI under `uvicorn --workers 1`) per
Kubernetes node, a page in plain JavaScript, an entrypoint that may also run sshd,
and a set of shell diagnostics. All Python code runs on one asyncio event loop, so
code between two `await`s is atomic and everything else interleaves.

| Component | State it keeps | Operations | What is hard |
|---|---|---|---|
| `ttl_cache` (`app/collectors/base.py`) | per function: entries, locks, failures | call, `cache_clear` | many callers miss at once; failure, expiry or cancellation while others queue; eviction |
| `run_command` (`base.py`) | child process and its pipes | run, time out, kill the group, reap | timeout against exit; children that survive SIGKILL |
| collectors (`app/collectors/*.py`) | nothing but their cache entry; processes keep CPU samples | one coroutine each | errors read as empty values; several reads of one changing thing |
| Talos collector (`talos.py`) | three nested caches | node object, version, config, overview | one answer mixes reads of different moments; ages add up |
| warnings (`routers/warnings.py`) | `_counters`, last value and last increase per counter | `GET /api/warnings` | overlapping requests with samples of different age; partial failure |
| sections, overview, hardware routers (`routers/`) | none | gather collectors, degrade failed ones to null | partial failure |
| HTTP clients (`httpclient.py`) | clients, certificate stamps, retired clients | get, rotate, close | rotation in the middle of a build; shutdown |
| authentication (`auth.py`) | none | accept or refuse a request | none over time |
| log WebSocket (`routers/containers.py`) | a tail process per socket | accept, stream, end | client, pump, tail and shutdown end in any order |
| page refresh (`static/app.js`) | timer, page, role, error bar, open sections | refresh, click, toggle | hung requests, partial failure, user input during a refresh |
| log viewer (`static/app.js`) | current socket, buffer, text | open, close, socket events, flush | events of a socket that was replaced |
| entrypoint (`entrypoint.sh`) | two child processes | start, supervise, stop | a signal at any moment |
| diagnostics (`scripts/`), SSH, Helm chart | none | print, repair, configure | checks that are stale after a prompt |

**How they interact.** The page fetches `/api/sections/<name>` for eleven sections
every ten seconds, in two waves. A section awaits one collector or gathers several;
nearly all collectors are wrapped by `ttl_cache`, and several are shared between
sections. So a refresh is a burst of concurrent calls into a few caches. Collectors
run commands (`run_command`), read host files (`read_file`, which turns an error into
the empty string) and ask the API server (`_k8s_get`, which turns an error into
`None`). What makes each part correct: a cache does the work once and serves nothing
too old; an aggregate answer says what failed; a severity follows what the kernel
counted; a process that was started ends; the page never shows old data as new and
never stops refreshing.

## 2. Modules

| Module | Models | Kind |
|---|---|---|
| `TtlCache` | the `ttl_cache` wrapper and the `asyncio.Lock` under it | component |
| `SharedWork` | what `ttl_cache` promises: at most one computation per key, its result shared while fresh | abstract specification |
| `CommandRunner` | `run_command`, the kill and the reaping of its process group, and the SMART probe's scan of `/proc` | component and kernel |
| `HttpClients` | the tables of HTTP clients, certificate rotation, shutdown, and the requests of the Kubernetes collector | component and its users |
| `ProcessTable` | passes over `/proc` in executor threads, the CPU samples and the cut of the table | component and kernel |
| `WarningCounters` | overlapping `GET /api/warnings` over cached samples, and the `_counters` table | composition of collectors and aggregation |
| `SmartReport`, `HostReadings`, `ClusterReadings` | what the collectors make of drives; of sensors, filesystems and kernel log; of certificates, etcd and conditions | operators |
| `NodeWarnings` | the answer of `GET /api/warnings` from these, with failing collectors | composition of the operators |
| `TalosOverview` | node object, config, version and overview with their caches | composition of caches |
| `DashboardRefresh` | the refresh loop of the page against a server that answers, fails or hangs | component |
| `LogStream` | log viewer, WebSocket, handler and tail | composition of both ends |
| `TtlCacheProofs`, `CommandRunnerProofs`, `DashboardRefreshProofs`, `HttpClientsProofs`, `ProcessTableProofs`, `TalosOverviewProofs`, `LogStreamProofs` | theorems about the module of that name | proofs |
| `WarningCountersProofs` | theorems about both halves of `GET /api/warnings`: `WarningCounters` and `NodeWarnings`, which it both extends | proofs |
| `MC...` | instances for TLC | model checking |

### TtlCache
`cache`, `locks` and `failures` are the decorator's dictionaries; `owner` and
`waiters` are the `asyncio.Lock` objects, first come first served. A caller is idle,
suspended in `async with lock` (`queued`) or inside the wrapped function
(`computing`). `Hit` and `Miss` are the wrapper up to its first await, `HoldHit`,
`HoldShare` and `HoldCompute` what it does with the lock, `Computed` and `Raised` the
end of the work with eviction and trimming, `Cancelled` a cancellation at either
await, `Clear` is `cache_clear`. A result is reduced to what `cache_if` says of it and
when it was computed. A lock object that nobody refers to any more may be allocated
again. `Raised` advances the clock: `time.monotonic()` has nanosecond resolution, so
a call that arrives after an exception was recorded reads a later time.
`SharedWork` has neither locks nor queues; the refinement maps its `running` to the
callers that are computing.

### CommandRunner
A process group is known by the pid of its leader, with the command line, the state of
the leader (`run`, `zombie`, waited for), whether something it forked still runs, what
`_kill_group` did to it and whether our end of its pipes is open. A caller is at one of
the awaits of the probe or of `run_command`: the listing of `/proc` and the reading of
each `cmdline` happen in a thread, pid by pid, while others launch, exit and are
killed; then launch, `communicate`, and `_reap`. `TimesOut` and `Finished` race;
`CancelledEarly` and `CancelledLate` are a cancellation at any of the awaits. `Hang` and
`Recover` are the device: a command on a hung device cannot exit, killed or not. `Watch`
is asyncio's child watcher, which may wait for the leader before the caller gives up.
The caller is a coroutine that runs one command at a time. A `/proc` that cannot be
listed is taken by the code for one without processes (`ListFails`); a child launched on
such a listing has no owner, which exempts it from `NoPileUp`.

### HttpClients
`clients`, `stamps` and `retired` are the module's tables. Contents of the certificate
files are versions. Building a client does not suspend, so no coroutine runs in between,
but whoever rotates the files does: a client is built from contents at least as new as
its stamp. A request takes its client and sends in one step with the choice of the token
and of the fallback, and ends later. `close_clients` closes one client after the other
with an await between, and clears the tables at the end.

### ProcessTable
The kernel ticks, forks, exits and reuses pids. A pass is its locals: the samples it
compares with, the pids still to read and the rows so far. It reads `stat` and the rest
of a process in separate steps, since the process may be gone in between; then it
replaces `_prev_samples` and cuts the table. Python's `sorted` is stable, so a row has a
place: the number of rows ahead of it, which have more or came earlier with as much
(`Ahead`, `Place`); the cut takes the rows with a place below the limit. A thread whose
request was cancelled goes on beside the next pass. Rates are in ticks per second, rounded down.

### WarningCounters
A collector is a cache entry and the queue of its lock, whose head computes when the
collector is `busy`. `Arrive` is a request up to its first await: it takes what is fresh
without a lock and queues for the rest. `Poll` is a caller from another router, of which
only the entry it leaves behind matters. `Complete` ends a computation with a sample of
the kernel's counters or an exception, and releases the lock; `Wake` lets the next of the
queue have it, in a turn of the event loop of its own: it takes the new entry, shares the
exception (`raised`) or computes. Between two such turns others run, so a request that
finds everything fresh may pass one that is still to be woken and holds an older sample of
the other collector. A request whose collectors have all answered is `ready`; from there
on every request takes the same number of turns (`gather`'s callbacks), so they resume in
that order. `Aggregate` is `get_warnings` after `gather_sections`, which does not suspend;
`Reported` is what its answer says of a counter. The table starts to follow an interface
(`since`) with a sample that is not from before it last went away. The collectors without
counters only delay, as `nics` and `memory` do for each other. A sample is taken at one moment. `Faults` says whether `/sys` may refuse a
listing or a read: a refused NIC counter reads 0, a memory controller that cannot be
read is left out of the sum.

### SmartReport, HostReadings, ClusterReadings, NodeWarnings
Pure operators from what smartctl, df, `/proc/self/mountinfo`, the kernel log, sysfs,
openssl, etcd and the API server say to the list of warnings. A drive, a mount, a log
line, a certificate are records of the fields the code decides on; text patterns are
sets of the rules a line hits. Where the order of a list decides something (the lines of
mountinfo, of the log, the certificates) it is a function of the position; where it does
not, it is a set. `GetWarnings` answers once with any set of collectors failing: nothing
here is remembered between answers. `WellFormed` says what the properties may take for
granted of a node: `lsblk` lists a drive once, every mounted device has a usage, figures
are numbers or `Unknown`, a certificate has one path, and only the kubelet's is known by
two names.

### TalosOverview
Three cache entries and the one running computation of each. `from` is the moment the
API server answered, or failed, for the node object a value rests on. Time passes
while something runs: `Slow` is the longest one request, one command or one file read
takes, its reaping included. (The code gives file reads no timeout; the bounds assume they
end as soon.) The certificate scan is one command after the other (`CertRead`), each with
its own `Slow`, at most `Certs` of them; the config reads a file (`DiskRead`) unless sysfs
names the install disk, and then runs `ip`. When `collect_talos` gives up because
one of its parts raised, what it started runs on (`left`).

### DashboardRefresh
`phase` is the await `fetchOverview` is suspended at; each section's answer is one of
what `fetchSection` distinguishes; `drawn` says whether its markup is from this
refresh. Rendering, restoring the open sections and updating the role happen in one
step, as in the code. The ten one-second ticks of the countdown are one action. The
`catch` of `fetchOverview` is not modelled: outside `renderSection` nothing throws on
a payload the server sends.

### LogStream
Every opening of the viewer is a socket with its own client state, buffer, flush
timer, frames on the wire, handler and tail process. The browser drops the events of
a socket whose handlers were detached; its flush timer still fires. The text is one
sequence of lines (`text`) with the places where its text nodes begin (`starts`): a
flush appends its lines as one node, and drops whole nodes from the front while the
rest is too long. Lines are numbered, and text length is counted in lines.

## 3. Runs

| Run | Expected | Shows |
|---|---|---|
| `cache_shared` | pass | one key, three callers: `SingleFlight`, `NoRerunAfterFailure`, `RaisedWhileWaiting`, `ServedFresh`, the wrapper implements `SharedWork`, and `EveryCallEnds` whoever fails or is cancelled |
| `commands` | pass | `NoPileUp` on a dead drive, `PipesReleased`, `KilledOnReturn`, and `CallReturns` though the child never dies |
| `http_clients` | pass | `UsesCurrentFiles` across rotations, `InFlightStaysOpen`, `NoneLost`, `TokenOnlyVerified` |
| `process_table` | pass | `OwnDelta` and `NoSampleRefused` with reused pids and overlapping passes, `OneSamplePerPid`, `BusiestListed` |
| `error_counters` | pass | `OnlyRealIncreases`, `RiseReported`, `ForgetsOnlyTheGone`, whatever order samples are applied in, for an interface and for a sum over memory controllers |
| `late_sample` | violation | an older sample applied late is taken for a counter that was reset |
| `node_warnings` | pass | `DriveJudged`, `FullDiskOnce`, `CertWarnedOnce`, `KernelFaultCountedOnce`, `EtcdFlagged`, `FailureCostsOneSource`, each against a statement of what the readings deserve |
| `talos_overview` | pass | bounds on the age of good and failed answers, tight in this instance; every overview is answered |
| `talos_schematic` | violation | an empty schematic is kept for the full ttl |
| `dashboard_page` | pass | stale sections are announced, toggles kept, role right, refreshing never stops |
| `dashboard_role` | violation | an empty node object turns a control plane into a worker |
| `log_stream` | pass | own lines, no gap, bounded text, no orphaned tail, and a tail whose client left ends |

**Bounds.** Time runs to the few units in which every ttl can expire and be renewed
(`MaxTime` is a full ttl in `cache_shared`). `talos_overview` bounds no time at all: its
view replaces clock readings by ages and remaining lifetimes, of which there are finitely
many, and `MaxTime` is out of reach. Three certificates make the scan longer than the
file read and the fetch of the version; lowering `Oldest` by one makes both age properties
fail, so the bounds are reached. Three callers give one that computes, one that queues and one that
arrives late; two requests overlap in every way two can. `commands` has two callers, two
pids, a drive and a command that forks: one pid can be stuck while the other is
launched, killed, waited for and reused. `http_clients` has two requests, three clients
and up to five versions written, so a file changes between stat and build and again with
the old client in flight. `process_table` has two pids, one of which is reused, and three
passes on two threads, cut to one process by memory and one by CPU. `error_counters`
checks a node with one interface and a node with one ECC sum; both together are out of
TLC's reach, and the table's rows do not interact. Its caller from another router asks for
the collector of the node's counters when nobody else does (`FewPolls`), which is what it
takes to renew an entry behind a waiting request; its view leaves out the parts of samples
and expired entries that no later step reads. `node_warnings` varies one part of a
quiet node at a time around the limits the code compares with, plus a node with
everything wrong, with up to two collectors failing. Two sockets are the one that is
replaced and the one that replaces it; `LogMax = 1` line with up to two lines and two
notices trims at every flush. The sections of the page are the three that carry the role
and an aggregate, with a foldable one in each wave. Requests and threads are symmetric
where symmetry sets are used; no liveness run uses symmetry. `LogStream`, `HttpClients`,
`ProcessTable` and `NodeWarnings` allow a final state: every socket, version, pass or the
answer used up.

The larger runs: `process_table` 4.0 million distinct states, `error_counters` 2.9 million,
`http_clients` 1.4 million, `log_stream` 0.6 million; each takes one to four minutes
with two workers. `error_counters` runs three units of time with a window of two: a
rise, its report and its ageing out of the window fit, and the theorems of
`WarningCountersProofs` cover longer times.

**Fairness.** `cache_shared`: a woken coroutine resumes and a wrapped function returns or
raises; every collector's commands and requests have timeouts. No fairness on arrivals
or cancellation. `commands`: the thread, the timers and the event loop go on with every
call; no process has to exit and no device to answer. `talos_overview`: as for the cache,
for file reads, requests and commands. `dashboard_page`: browser timers fire and settled
promises resume; the server owes nothing, only the abort timer of `fetchSection` ends a
hung request. `log_stream`: the event loop runs the handler's tasks and a killed `tail`
dies; no client has to leave, no tail has to print.

**Mutants.** Every property of every passing run has a mutated definition, kept next to
the original and marked `Mutant`, that breaks it.

## 4. Proofs

`TtlCacheProofs`, for every set of callers and locks, every finite set of keys and all
ttls (`CacheAssumption`):

- `TypeCorrect`: `Spec => []TypeOK`.
- `SingleFlightHolds`: `FitsCache => (Spec => []SingleFlight)`. Mutual exclusion is
  not inductive by itself. `LockInv` adds that all calls of a key in flight refer to
  the lock the dictionary has for it (`OneLockPerKey`) and that whoever computes owns
  the lock it queued on (`ComputingOwns`). An eviction breaks the first part; with
  `FitsCache` (no more keys than `maxsize`) lemma `NoEviction` rules it out. Every
  decorated collector is called without arguments, so as deployed there is one key.
  Without the assumption the property is false (observation 1 below).
- `FailureShared`: whoever computes arrived after the last failure of its key.
- `OutcomesRight`: `RaisedWhileWaiting` and `ServedFresh`, with or without evictions,
  from `OutcomeInv`: an entry expires within the ttl its quality earns.
- `PromiseKept`: the refinement of `SharedWork`, step by step, under `FitsCache`.

`CommandRunnerProofs`, for any callers, commands and pids (`CommandsAssumption`):

- `RunnerTypeCorrect`, `NeverPilesUp` (`NoPileUp`), `PipesAreReleased`
  (`PipesReleased`) and `NothingOrphaned` (`KilledOnReturn`), from one invariant. None of
  them is inductive. For `NoPileUp`, `ScanInv` follows the scan: while a caller reads
  `/proc`, a smartctl of its own for the drive is among the pids it has not read, and once
  the scan is over there is none; only the caller itself could start one meanwhile. For
  `KilledOnReturn`, `ReapInv` says that from the timeout on whatever runs was killed or
  spared, so nothing forks any more. `HoldInv` says that no child has two callers.

`DashboardRefreshProofs`, for any sections (`DashboardAssumption`):

- `PageTypeCorrect`, `StaleNeverFresh` (`StaleFlagged` and `AllFailedIsTrue`) and
  `TogglesAreKept`. These speak of the page after a refresh; `Inv` says what it is in
  the middle of one: who may be pending, that everyone asked and not pending has
  answered, that a section whose turn is over has new markup exactly when its renderer
  got through, and that before the first data nothing older is on the page.
- `RoleIsRight`: the role badge is right when the kubernetes section always carries the
  node's labels; `dashboard_role` shows that the assumption is needed.

`HttpClientsProofs`, for any requests, any number of clients and rotations
(`ClientsAssumption`):

- `ClientsTypeCorrect`, `FilesAreCurrent` (`UsesCurrentFiles`), `StaysOpen`
  (`InFlightStaysOpen`), `NoClientLost` (`NoneLost`) and `TokenStaysHome`
  (`TokenOnlyVerified`). The lemmas on a lookup say that it refuses, keeps a client that
  is current, or builds one; and that it closes nothing. `TableInv` is what makes a kept
  client current: its files are at least as new as its stamp, although they may change
  between the stat and the reading. `CallInv` and `ClosedLate` carry a request from its
  lookup to its answer.

`ProcessTableProofs`, for any pids, threads, sizes and passes (`TableAssumption`):

- `TableTypeCorrect`, `MeasuresItself` (`OwnDelta`), `UsesEverySample`
  (`NoSampleRefused`) and `SamplesBounded` (`OneSamplePerPid`). `Sound` says what every
  sample promises, in the table or in a pass: it is kept under the start time of its
  process, and as long as that process runs it has used no less CPU than the sample says.
  `KernelInv` is the fact about the kernel it rests on: a pid that is taken again gets a
  later start time. `PassInv` follows a pass: it compares with samples that were there
  before it began, and has none yet of the pids it still has to read.

`TalosOverviewProofs`, for any ttls, any length of a request or command and any number of
certificates (`TalosAssumption`: both ttls are positive, as the code's 300 and 10 seconds
are):

- `BlipIsForgotten` and `AgeIsBounded`, from one inductive bound. A value grows old in the
  node's cache, the config's and the overview's, and in the computations between them.
  `NodeInv`, `ConfigInv`, `OverviewInv` and `ServedInv` bound the age of what has passed
  one, two or three caches; `FetchInv`, `BuildInv` and `GatherInv` bound it while something
  is under way. The delicate part is `GatherInv`: the overview waits for a config and for
  a version which may each be somebody else's, and for the certificates, of which those
  still to be read each have a `Slow` left; it is bounded by whichever is later (`Wait`).

`WarningCountersProofs`, for any requests, interfaces, memory controllers, nodes and faults
(`CountersAssumption`):

- `CountersTypeCorrect`, `IncreasesAreReal` (`OnlyRealIncreases`), `RiseIsReported`
  (`RiseReported`) and `OnlyTheGoneForgotten` (`ForgetsOnlyTheGone`). Samples may be applied in any
  order, so nothing rests on it: the invariant speaks of every sample that is still in play,
  cached or held by a request (`InPlay`). `Settled` says that while the kernel's counter has
  not gone up since a value was read, it and every later sample still show that value or a
  reset; `Sane` adds that no sample shows more than the kernel counted. `RowOf` says the same
  of the row, and that a row that shows a rise was marked when it did: a row that an older
  sample has overwritten shows less than the kernel and needs no mark.

`LogStreamProofs`, for any number of sockets and lines and any bound on the text
(`LogAssumption`):

- `StreamTypeCorrect`, `ShowsItsOwn` (`OwnLines`), `ShowsTheEnd` (`NoGap`),
  `TextStaysBounded` (`TextBounded`) and `NoTailLeft` (`NoOrphan`). `Frames` says that the
  frames on a socket's wire are the lines the handler sent and the viewer has not got yet,
  in order; `Follow` that after a line on the page come all later ones once each, which
  `lines` cut at the front keep. `TextInv` relates `size`, which the page counts itself, to
  the text it measures: the placeholder shown while connecting is not counted, so they differ
  by one at most. `TailOf` follows the handler from the spawn through its `finally`.

`ProcessTableProofs` on the cut:

- `BusiestAreListed` (`BusiestListed`). `RowsInv` says that a pass has at most one row of
  a pid. The rest is about the sort, with any number of ties: `Ahead` is a strict order
  (`AheadOrder`), so places differ and none is left out (`PlaceStrict`, `PlaceOnto`), the
  sorted list holds every row it is given once (`SortedLists`), and a row that is not among
  the largest has all of them at or above it (`LargestOutdo`).

`WarningCountersProofs` on the rest of the answer, for any set of nodes that are
`WellFormed` (`WarningsAssumption`), with any number of drives, filesystems, certificates
and log lines, any figures and any collectors failing:

- `DrivesJudged`, `EtcdIsFlagged`, `FailureIsContained`, `CertsWarnedOnce`,
  `KernelFaultsCountedOnce` and `FullDisksToldOnce`, one for each property of
  `node_warnings`. An answer is computed in one step, so the invariant is short (`Given`);
  lemma `Sorted` gives each source its part of the answer, and the work is in what the
  collectors compute. A drive: whatever figure the code picks for the life that is left is
  one of those the drive gave (`WearIsLeft`), so when they agree the verdict agrees with
  them (`WearAgrees`). etcd: the percentage is rounded to a tenth, which moves no limit
  by more than the property allows (`AtLeast`, `Below`, `Tenths`). Certificates: one name
  stands for all of one file, and each directory is left to one of the two collectors
  (`FirstName`, `CertOnce`, `CertTold`). The log: of the rules a fault matches there is
  exactly one first (`OneRule`). Filesystems: of the mounts of a device one is kept, the
  first of the shortest, and unless another device hides it df prints it (`OneKept`,
  `OneUsage`).
  `FailureIsContained` needs no assumption on the node.
  The specification of `NodeWarnings` is called `AnswerSpec`, so that the two halves of the
  endpoint can stand side by side in one module.

Every invariant and every safety property of a step that a passing run checks is a theorem.
Only model-checked are the five liveness properties (`EveryCallEnds`, `CallReturns`,
`OverviewAnswered`, `RefreshGoesOn`, `TailEnds`), which need fairness and ENABLED, out of
the prover's reach; and what the three violation runs refute has, of course, no proof.

Not proved because it is an induction over data: that `CollectSensors`, a fold over the
thermal zones, lists what it should. No property speaks of it; `FailureIsContained` says
only that its warnings come and go with its collector.

## 5. Findings

Shown by a run:

1. `talos.py:302` (`talos_schematic`): an overview with an empty schematic is cached for
   the full ttl.
2. `app.js:154` (`dashboard_role`): the header of a control plane shows `worker` while the
   API server is away, because an empty `labels` object is truthy.
3. `warnings.py:49` (`late_sample`): a request holds a NIC sample from the cache and queues
   for another collector. Meanwhile the counter rises, its entry is computed again, and the
   other collector's result is stored. A second request that now finds everything fresh
   takes no lock (`base.py:142`) and aggregates first; the first is woken later and applies
   its older, smaller value. That passes for "reset (driver reload) and already non-zero
   again", and the next sample counts as an increase once more. `error_counters` shows what
   holds in spite of it: a newer sample is never mistaken, and no rise is missed.

Observations made while modelling. The models include the behaviour, and the properties
state what holds in spite of it:

1. `base.py:175`: an eviction pops the lock of a key that is being computed. Not
   reachable with the deployed collectors, which take no arguments.
2. `base.py`, `_kill_group` returns early once the child was waited for, so a helper it
   forked is spared.
3. `storage.py:85`: a smartctl of a concurrent, healthy probe is reported as one an
   earlier probe left behind; and a `/proc` that cannot be listed counts as one without
   processes.
4. `network.py:32`: `collect_nics` answers a listing error with an empty list, and
   `get_warnings` forgets the counters of every interface.
5. `memory.py:112`: a memory controller that cannot be read once is left out of the sum.
   The drop passes for a reset, and the next good read for an increase: full severity for
   the whole window without a new error. `network.py:52` reads 0, so only the next good
   read counts.
6. `httpclient.py`: a client built while `close_clients` awaits is cleared unclosed.
7. `processes.py:271`: a process that is gone after its `stat` was read is listed with
   no memory, where the comment says it is skipped.
8. `warnings.py:288`: a certificate under `/system/secrets/kubernetes` that the Talos scan
   could not read is not reported, though the Kubernetes scan read it: only a failure of
   the whole Talos collector lifts the exclusion.
9. A kernel log that cannot be read, an `lsblk` that fails (`storage.py:39`), an API server
   that does not answer and a hung `df` on the host yield no warnings and no word of it;
   the etcd quota is not looked at once etcd is unhealthy.
10. `processes.py:282`: the busiest processes are appended in the order of their CPU usage,
   though the comment at line 277 and the docstring at `routers/processes.py:12` say
   "ordered by memory".

## 6. Plan

Done: the modules above. Models to follow: `Supervisor` (`entrypoint.sh` with TERM at any
moment) and the repair guard of `ndiag-fsck`, whose checks are stale after the prompt.

Proofs to follow: the safety of these two models.

## 7. Not modelled

Authentication decides on one request's headers and keeps nothing. The container and
hardware collectors, the overview and hardware routers, response models, start-up wiring,
renderers, theme and cluster list, SSH configuration, the message of the day, the
read-only `kdiag-*` and most `ndiag-*` scripts and the Helm chart keep no state, decide
nothing from what they read and print it as it is. In modelled parts, parsing is reduced
to the fields decisions depend on: names, sizes, serial numbers, masked command lines and
message texts are left out. Two hazards have no model yet (`entrypoint.sh`,
`ndiag-fsck`); `PROJECT.json` lists them with the reason. A mount hides another in
`HostReadings` when it has the same path; one on a parent path is not modelled.
