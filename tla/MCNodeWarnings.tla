--------------------------- MODULE MCNodeWarnings ---------------------------
(* Inputs for NodeWarnings: a node without trouble, with one part varied at a *)
(* time around the limits the code compares with.                            *)
EXTENDS NodeWarnings

Mount(dev, type, ro, mount, length) ==
  [dev |-> dev, type |-> type, ro |-> ro, mount |-> mount, length |-> length]
View(mounts, used) == [mounts |-> mounts, used |-> used, hung |-> FALSE]

\* A drive that reports nothing out of the ordinary.
QuietDrive ==
  [name |-> "sda", remote |-> FALSE, outcome |-> "json", exit |-> {}, passed |-> "yes",
   enabled |-> "yes", asleep |-> FALSE, attrs |-> [id \in {} |-> 0], endurance |-> Unknown,
   defects |-> Unknown, nvmeUsed |-> Unknown, temp |-> Unknown, nvmeTemp |-> Unknown]

Quiet ==
  [drives |-> {QuietDrive},
   sensors |-> [chips |-> <<>>, zones |-> <<>>],
   disks |-> [host |-> View(<<Mount("d1", "disk", FALSE, "/var", 4)>>, [d1 |-> 10]),
              container |-> View(<<Mount("o1", "overlay", FALSE, "/", 1)>>, [o1 |-> 10])],
   log |-> [format |-> "iso", bootKnown |-> TRUE, lines |-> <<>>],
   certs |-> <<>>,
   etcd |-> [hostNetwork |-> TRUE, health |-> "healthy", answers |-> TRUE, size |-> 1,
             inUse |-> 1, quota |-> 0],
   object |-> [read |-> TRUE, conditions |-> {[type |-> "Ready", status |-> "True"]}]]

-----------------------------------------------------------------------------
OneAttr(ids, value) == [id \in ids |-> value]

Drives ==
  {[QuietDrive EXCEPT !.name = "sdb", !.exit = e, !.passed = p, !.enabled = n, !.asleep = a] :
     e \in SUBSET {1, 3, 4, 7}, p \in {"yes", "no", "unknown"}, n \in {"yes", "no", "unknown"},
     a \in BOOLEAN}
  \cup {[QuietDrive EXCEPT !.name = "sdb", !.outcome = o, !.asleep = a, !.remote = r] :
          o \in {"no device", "busy", "silent", "text", "odd", "raised", "json"}, a \in BOOLEAN,
          r \in BOOLEAN}
  \cup {[QuietDrive EXCEPT !.name = "sdb", !.attrs = w, !.endurance = e, !.nvmeUsed = u] :
          w \in {OneAttr({}, 0), OneAttr({202}, 19), OneAttr({202}, 20),
                 [id \in {231, 177} |-> IF id = 231 THEN 5 ELSE 50]},
          e \in {Unknown, 80, 81}, u \in {Unknown, 80, 81, 255}}
  \cup {[QuietDrive EXCEPT !.name = "sdb", !.attrs = w, !.defects = f, !.temp = t, !.nvmeTemp = n] :
          w \in {OneAttr({}, 0), OneAttr({5, 197, 198}, 0), OneAttr({5, 197, 198}, 1)},
          f \in {Unknown, 0, 2}, t \in {Unknown, 60, 61, 71}, n \in {Unknown, 70}}

Sensors ==
  [chips : {<<[name |-> "cpu", label |-> "temp1", value |-> v, critical |-> c, warning |-> w]>> :
              v \in {Unknown, 79, 80, 90}, c \in {Unknown, 0, 90}, w \in {Unknown, 0, 80}},
   zones : {<<>>, <<[type |-> "acpitz", value |-> 50], [type |-> "acpitz", value |-> 99]>>,
            <<[type |-> "cpu", value |-> 99]>>}]

Lines == {Mount(d, k[1], k[2], m, IF m = "/var" THEN 4 ELSE 8) :
            d \in {"d1", "d2"}, k \in {<<"disk", FALSE>>, <<"disk", TRUE>>, <<"skip", FALSE>>},
            m \in {"/var", "/var/lib"}}
Container == View(<<Mount("o1", "overlay", FALSE, "/", 1), Mount("o2", "overlay", FALSE, "/x", 2)>>,
                  [o1 |-> 85, o2 |-> 99])
Disks ==
  {[host |-> View(<<l, m>>, [d1 |-> a, d2 |-> b]), container |-> Container] :
     l \in Lines, m \in Lines, a \in {84, 85, 95}, b \in {Unknown, 94}}
  \cup {[host |-> [Quiet.disks.host EXCEPT !.hung = TRUE], container |-> Container]}

LogLines ==
  {[stamped |-> s[1], age |-> s[2], patterns |-> p, excludes |-> x] :
     s \in {<<FALSE, 0>>, <<TRUE, 168>>, <<TRUE, 169>>}, p \in {{}, {1}, {2, 3}}, x \in {{}, {1, 2}}}
Logs == {[format |-> f, bootKnown |-> b, lines |-> <<l, m>>] :
           f \in {"iso", "plain"}, b \in BOOLEAN, l \in LogLines, m \in LogLines}
        \cup {[format |-> "unreadable", bootKnown |-> TRUE, lines |-> <<l>>] : l \in LogLines}

Cert(name, dir, file, days, k, t) ==
  [name |-> name, dir |-> dir, file |-> file, days |-> days, k8sReads |-> k, talosReads |-> t]
Certs ==
  {<<Cert("a", dir, "a", d, k, t), Cert("b", "kubelet", "b", d, k, t)>> :
     dir \in {"pki", "etcd", "secrets", "kubelet"}, d \in {NoDate, -1, 29, 30, 89, 90},
     k \in BOOLEAN, t \in BOOLEAN}
  \cup {<<Cert("a", "kubelet", "a", d, k, t), Cert("b", "kubelet", "a", d, k, t)>> :
          d \in {29, 90}, k \in BOOLEAN, t \in BOOLEAN}

Etcds == [hostNetwork : BOOLEAN, health : {"unknown", "unhealthy", "healthy"}, answers : BOOLEAN,
          size : {0, 9, 10, 15, 16}, inUse : {0, 4, 5, 8}, quota : {0, 10, 40}]

Objects == [read : BOOLEAN,
            conditions : {{[type |-> t, status |-> s]} :
                            t \in {"Ready", "DiskPressure", "NetworkUnavailable"},
                            s \in {"True", "False", "Unknown"}}]

\* Everything at once, so that a failing collector has others to spare.
Troubled ==
  [Quiet EXCEPT !.drives = {[QuietDrive EXCEPT !.passed = "no"]},
                !.disks.host.used.d1 = 99,
                !.log.lines = <<[stamped |-> TRUE, age |-> 1, patterns |-> {7}, excludes |-> {}]>>,
                !.certs = <<Cert("a", "secrets", "a", 3, TRUE, TRUE), Cert("b", "pki", "b", 3, TRUE, TRUE)>>,
                !.etcd.size = 19,
                !.object.conditions = {[type |-> "Ready", status |-> "False"]}]

Cases ==
  {Troubled}
  \cup {[Quiet EXCEPT !.drives = {QuietDrive, d}] : d \in Drives}
  \cup {[Quiet EXCEPT !.sensors = s] : s \in Sensors}
  \cup {[Quiet EXCEPT !.disks = d] : d \in Disks}
  \cup {[Quiet EXCEPT !.log = l] : l \in Logs}
  \cup {[Quiet EXCEPT !.certs = c] : c \in Certs}
  \cup {[Quiet EXCEPT !.etcd = e] : e \in Etcds}
  \cup {[Quiet EXCEPT !.object = o] : o \in Objects}
=============================================================================
