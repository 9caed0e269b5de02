-------------------------- MODULE ClusterReadings --------------------------
(***************************************************************************)
(* What the collectors make of the certificates, of etcd and of the Node   *)
(* object (app/collectors/kubernetes.py, talos.py), and the warnings       *)
(* app/routers/warnings.py raises from them.                               *)
(***************************************************************************)
EXTENDS SmartReport

-----------------------------------------------------------------------------
(* Certificates.  One has the directory it is in, the file behind it (its    *)
(* own name unless it is a link), the days it is valid (negative once it     *)
(* expired, NoDate when its date cannot be parsed), and whether openssl could *)
(* read it when the Kubernetes and when the Talos collector asked.           *)

NoDate == 1000000
K8sDirs == {"pki", "etcd", "secrets"}
TalosDirs == [secrets |-> 1, kubelet |-> 2]   \* in the order of the search

ExpirySeverity(days) == IF days >= 90 THEN "ok"
                        ELSE IF days >= 30 THEN "warning" ELSE "critical"

\* collect_k8s_certificates
CollectK8sCerts(certs) == {c \in ToSet(certs) : c.dir \in K8sDirs /\ c.k8sReads}

\* The certificates of the Talos directories, and which of two of them is found first.
TalosFinds(certs) == {i \in DOMAIN certs : certs[i].dir \in DOMAIN TalosDirs}
Before(certs, i, j) ==
  \/ TalosDirs[certs[i].dir] < TalosDirs[certs[j].dir]
  \/ certs[i].dir = certs[j].dir /\ i < j

\* collect_talos_certificates: each file once, under the first name it has.
CollectTalosCerts(certs) ==
  LET finds == TalosFinds(certs)
      first(i) == \A j \in finds : certs[j].file = certs[i].file => ~Before(certs, j, i)
  IN  {certs[i] : i \in {i \in finds : first(i) /\ certs[i].talosReads}}

CertWarnings(c, collector) ==
  If(ExpirySeverity(c.days) # "ok",
     Warning(ExpirySeverity(c.days), collector, "expires", c.name))

\* Mutant: the directory both collectors scan is left to Talos even when it failed.
K8sCertShownNever(c, talosFailed) == c.dir # "secrets"

\* Of the directory both scan, the Talos collector's finding is shown unless it
\* failed.
K8sCertShown(c, talosFailed) == talosFailed \/ c.dir # "secrets"

-----------------------------------------------------------------------------
(* etcd.  Sizes are in units of which the default quota has DefaultQuota.    *)

DefaultQuota == 20

\* Mutant: without a reported quota there is nothing to compare with.
QuotaReported(etcd) == IF etcd.quota = 0 THEN 1000 * DefaultQuota ELSE etcd.quota

Quota(etcd) == IF etcd.quota = 0 THEN DefaultQuota ELSE etcd.quota

\* Percent of the quota, in tenths.
QuotaTenths(etcd) == (2000 * etcd.size + Quota(etcd)) \div (2 * Quota(etcd))

\* _parse_etcd_status: defrag_severity
DefragSeverity(etcd) ==
  IF QuotaTenths(etcd) >= 800 THEN "critical"
  ELSE IF QuotaTenths(etcd) >= 500 /\ Max0(etcd.size - etcd.inUse) > etcd.inUse THEN "warning"
  ELSE "ok"

\* collect_k8s_components: only an etcd that says it is healthy is asked for its
\* status, and without an answer its severity is the default.
CollectEtcd(etcd) ==
  IF etcd.hostNetwork /\ etcd.health = "healthy"
  THEN {IF etcd.answers THEN DefragSeverity(etcd) ELSE "ok"} ELSE {}

EtcdWarnings(severity) ==
  If(severity # "ok", Warning(severity, "components", "quota", "etcd"))

-----------------------------------------------------------------------------
(* The Node object; none is read without its name or an answer of the API.    *)

CollectConditions(object) == IF object.read THEN object.conditions ELSE {}

ConditionWarnings(c) ==
  LET warn(severity) == Warning(severity, "k8s_node", c.type, "node")
  IN  IF c.type = "Ready" THEN If(c.status # "True", warn("critical"))
      ELSE If(c.type \in {"MemoryPressure", "DiskPressure", "PIDPressure"} /\ c.status = "True",
              warn("warning"))
=============================================================================
