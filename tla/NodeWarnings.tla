---------------------------- MODULE NodeWarnings ----------------------------
(***************************************************************************)
(* GET /api/warnings of app/routers/warnings.py: what is wrong with the    *)
(* node, put together from the collectors, any of which may raise.  The    *)
(* counters of memory and network cards, which remember earlier answers,   *)
(* are the subject of WarningCounters; AnswerSpec is the specification     *)
(* here, as Spec is there.                                                 *)
(***************************************************************************)
EXTENDS HostReadings, ClusterReadings

CONSTANTS
  Inputs,      (* what the collectors of a node may find                       *)
  MaxFailing   (* model bound: collectors that raise at the same time          *)

\* What the collectors of one node may find.  lsblk lists a drive once; a line of
\* mountinfo has the length of its mount point; a certificate has one path, and only the
\* kubelet keeps a file under two names, with one content; a figure that is no number is
\* Unknown.
IsDrive(d) ==
  /\ d.outcome \in {"no device", "busy", "silent", "text", "odd", "raised", "json"}
  /\ d.remote \in BOOLEAN /\ d.asleep \in BOOLEAN
  /\ \A id \in DOMAIN d.attrs : d.attrs[id] \in Nat
  /\ d.nvmeUsed \in Nat \cup {Unknown} /\ d.endurance \in Nat \cup {Unknown}

IsView(view) ==
  /\ DOMAIN view.mounts = 1..Len(view.mounts) /\ Len(view.mounts) \in Nat
  /\ \A i \in DOMAIN view.mounts : view.mounts[i].length \in Nat
  /\ \A i \in DOMAIN view.mounts : view.mounts[i].dev \in DOMAIN view.used
  /\ \A dev \in DOMAIN view.used : view.used[dev] \in Nat \cup {Unknown}

AreCerts(certs) ==
  /\ DOMAIN certs = 1..Len(certs) /\ Len(certs) \in Nat
  /\ \A i \in DOMAIN certs :
       /\ certs[i].dir \in K8sDirs \cup DOMAIN TalosDirs
       /\ certs[i].k8sReads \in BOOLEAN /\ certs[i].talosReads \in BOOLEAN
       /\ certs[i].days \in Int
  /\ \A i, j \in DOMAIN certs : i # j =>
       /\ certs[i].name # certs[j].name
       /\ certs[i].file = certs[j].file =>
            /\ certs[i].dir = "kubelet" /\ certs[j].dir = "kubelet"
            /\ certs[i].days = certs[j].days /\ certs[i].talosReads = certs[j].talosReads

IsLog(log) ==
  /\ log.format \in {"iso", "plain", "unreadable"} /\ log.bootKnown \in BOOLEAN
  /\ \A i \in DOMAIN log.lines :
       /\ log.lines[i].stamped \in BOOLEAN /\ log.lines[i].age \in Nat
       /\ log.lines[i].patterns \subseteq DOMAIN Rules

WellFormed(n) ==
  /\ \A d \in n.drives : IsDrive(d)
  /\ \A d, e \in n.drives : d.name = e.name => d = e
  /\ IsView(n.disks.host) /\ IsView(n.disks.container)
  /\ AreCerts(n.certs) /\ IsLog(n.log)
  /\ n.etcd.size \in Nat /\ n.etcd.inUse \in Nat /\ n.etcd.quota \in Nat

ASSUME WarningsAssumption == MaxFailing \in Nat /\ \A n \in Inputs : WellFormed(n)

Sources == {"dmesg", "smart", "sensors", "disk_usage", "k8s_certs", "talos_certs", "components",
            "k8s_node"}

VARIABLES
  node,     (* what there is to find                                          *)
  failing,  (* the collectors that raised                                     *)
  asked,    (* the answer was given                                           *)
  answer    (* the warnings returned                                          *)

answerVars == <<node, failing, asked, answer>>

AnswerInit ==
  /\ node \in Inputs
  /\ failing = {} /\ asked = FALSE /\ answer = {}

\* gather_sections: a collector that failed yields nothing.
Section(s, found, failed) == IF s \in failed THEN {} ELSE found

\* Mutant: a collector that failed is passed over.
MissingNone(failed) == {}

\* What could not be collected is said.
Missing(failed) == {Warning("warning", "dashboard", "missing", s) : s \in failed}

\* get_warnings
Warnings(n, failed) ==
  LET smart == Section("smart", CollectAllSmart(n.drives), failed)
      sensors == Section("sensors", CollectSensors(n.sensors), failed)
      disks == Section("disk_usage", CollectDiskUsage(n.disks), failed)
      k8sCerts == Section("k8s_certs", CollectK8sCerts(n.certs), failed)
      talosCerts == Section("talos_certs", CollectTalosCerts(n.certs), failed)
      etcd == Section("components", CollectEtcd(n.etcd), failed)
      conditions == Section("k8s_node", CollectConditions(n.object), failed)
  IN  Missing(failed)
      \cup If(~n.etcd.hostNetwork, Warning("info", "dashboard", "hostNetwork", "node"))
      \cup Section("dmesg", CollectDmesg(n.log), failed)
      \cup (UNION {SmartWarnings(r) : r \in smart})
      \cup (UNION {SensorWarnings(t) : t \in sensors})
      \cup (UNION {DiskWarnings(u) : u \in disks})
      \cup (UNION {CertWarnings(c, "k8s_certs") :
                     c \in {c \in k8sCerts : K8sCertShown(c, "talos_certs" \in failed)}})
      \cup (UNION {CertWarnings(c, "talos_certs") : c \in talosCerts})
      \cup (UNION {EtcdWarnings(severity) : severity \in etcd})
      \cup (UNION {ConditionWarnings(c) : c \in conditions})

\* Nothing here is remembered from one answer to the next: one is enough.
GetWarnings ==
  /\ ~asked /\ asked' = TRUE
  /\ \E failed \in SUBSET Sources :
       /\ Cardinality(failed) <= MaxFailing
       /\ failing' = failed
       /\ answer' = Warnings(node, failed)
  /\ UNCHANGED node

AnswerSpec == AnswerInit /\ [][GetWarnings]_answerVars

-----------------------------------------------------------------------------
(* The properties are about every answer.                                    *)

\* "must not page anyone", "the dying one": a drive of this machine is reported as
\* failed, unreadable or worn exactly when it is.  A verdict counts where SMART is
\* enabled; a drive that sleeps is not unreadable; when its figures for the life left
\* agree on less or not less than 20 percent, so does the answer.
DriveJudged ==
  asked /\ "smart" \notin failing => \A d \in node.drives :
       LET said(what) == \E w \in answer : w.source = "smart" /\ w.what = what /\ w.on = d.name
           json == d.outcome = "json"
           left == {d.attrs[id] : id \in DOMAIN d.attrs \cap {177, 231, 233, 202, 169}}
                   \cup {100 - used : used \in {d.nvmeUsed, d.endurance} \ {Unknown}}
       IN  IF d.remote \/ d.outcome = "no device"
           THEN \A w \in answer : w.source = "smart" => w.on # d.name
           ELSE /\ said("failed") <=> json /\ d.enabled # "no" /\ (d.passed = "no" \/ 3 \in d.exit)
                /\ said("not readable") <=>
                     \/ d.outcome \in {"busy", "odd", "raised"}
                     \/ ~d.asleep /\ (json => 1 \in d.exit)
                /\ json /\ left # {} /\ (\A n \in left : n < 20) => said("wear")
                /\ (\A n \in left : n >= 20) => ~said("wear")

\* A writable filesystem of the host that fills up is reported once, however often it
\* is mounted, with the severity of its usage; one that is only mounted read-only, in
\* the container's view too, is not.  (df answers, and no other filesystem hides a
\* mount of it.)
FullDiskOnce ==
  asked /\ "disk_usage" \notin failing /\ ~node.disks.host.hung =>
       LET host == node.disks.host
           lines(dev) == {m \in ToSet(host.mounts) : m.dev = dev}
           others(dev) == {m \in ToSet(node.disks.container.mounts) : m.dev = dev}
           fillable(dev) == \E m \in lines(dev) : ~m.ro /\ m.type = "disk"
           hidden(dev) == \E m \in lines(dev), o \in ToSet(host.mounts) :
                            m.mount = o.mount /\ o.dev # dev
           told(dev) == {w \in answer : w.source = "disk" /\ w.on = dev}
       IN  \A dev \in DOMAIN host.used :
             /\ (\A m \in lines(dev) \cup others(dev) : m.ro \/ m.type = "skip") => told(dev) = {}
             /\ host.used[dev] # Unknown /\ fillable(dev) /\ ~hidden(dev) =>
                  /\ Cardinality(told(dev)) = IF host.used[dev] >= 85 THEN 1 ELSE 0
                  /\ \A w \in told(dev) : w.severity = "critical" <=> host.used[dev] >= 95

\* "one expiring cert must raise one warning": never two, whichever collector fails,
\* and one whenever a collector that did not fail could read it - short of the Talos
\* collector missing a file the other one read.
CertWarnedOnce ==
  asked => \A c \in ToSet(node.certs) :
       LET twins == {d \in ToSet(node.certs) : d.file = c.file}
           told == {w \in answer : /\ w.source \in {"k8s_certs", "talos_certs"}
                                   /\ \E d \in twins : w.on = d.name}
           read == \/ "talos_certs" \notin failing /\ c.dir \in {"secrets", "kubelet"} /\ c.talosReads
                   \/ "k8s_certs" \notin failing /\ c.dir \in K8sDirs /\ c.k8sReads
           missed == c.dir = "secrets" /\ "talos_certs" \notin failing /\ ~c.talosReads
       IN  /\ Cardinality(told) <= 1
           /\ c.days < 90 /\ read /\ ~missed => told # {}
           /\ c.days >= 90 => told = {}

\* "Every rule matches an error event": the events of the last WindowHours, and those
\* of which the time is not known, are each counted once, and no banner is.
KernelFaultCountedOnce ==
  asked /\ "dmesg" \notin failing /\ node.log.format # "unreadable" =>
       \A i \in DOMAIN node.log.lines :
         LET l == node.log.lines[i]
             fault == \E rule \in l.patterns : rule \notin l.excludes
             dated == l.stamped /\ (node.log.format = "iso" \/ node.log.bootKnown)
             counts == {w \in answer : w.source = "dmesg" /\ i \in w.events}
         IN  Cardinality(counts) = IF fault /\ (dated => l.age <= WindowHours) THEN 1 ELSE 0

\* "flag it before it gets there": an etcd that answers is reported as critical from
\* 80 percent of its quota on, reported or not, and not at all below 49.
EtcdFlagged ==
  asked /\ "components" \notin failing =>
       LET e == node.etcd
           quota == IF e.quota = 0 THEN DefaultQuota ELSE e.quota
           said == {w.severity : w \in {w \in answer : w.source = "components"}}
       IN  /\ e.hostNetwork /\ e.health = "healthy" /\ e.answers /\ 5 * e.size >= 4 * quota
                => said = {"critical"}
           /\ 100 * e.size < 49 * quota => said = {}

\* "rather than taking every other subsystem's warnings down with it": a collector
\* that fails costs its own warnings, says so once, and changes no other's - except
\* that the Kubernetes collector speaks for the Talos one.
FailureCostsOneSource ==
  asked =>
       LET from(warnings, s) == {w \in warnings : w.source = s}
           whole == Warnings(node, {})
       IN  /\ \A s \in {"dmesg", "smart", "disk", "temperature", "components", "k8s_node", "talos_certs"} :
                LET source == IF s = "disk" THEN "disk_usage"
                              ELSE IF s = "temperature" THEN "sensors" ELSE s
                IN  from(answer, s) = IF source \in failing THEN {} ELSE from(whole, s)
           /\ {w.on : w \in {w \in from(answer, "dashboard") : w.what = "missing"}} = failing
=============================================================================
