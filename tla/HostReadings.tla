---------------------------- MODULE HostReadings ----------------------------
(***************************************************************************)
(* What the collectors make of the node's sensors, filesystems and kernel  *)
(* log (app/collectors/sensors.py, storage.py, dmesg.py), and the warnings *)
(* app/routers/warnings.py raises from them.                               *)
(***************************************************************************)
EXTENDS SmartReport

-----------------------------------------------------------------------------
(* Sensors.  A temperature of a chip has its value and its limits in degrees, *)
(* Unknown where the file is absent or not a number; a fan or voltage reading *)
(* has no limits and raises nothing.                                         *)

Alarm(t) == \/ t.critical \notin {Unknown, 0} /\ t.value >= t.critical
            \/ t.warning \notin {Unknown, 0} /\ t.value >= t.warning

\* A thermal zone is listed unless a temperature before it has its type for a name
\* or label; it has no limits.
ZoneReading(zone) == [name |-> "thermal_zone", label |-> zone.type, value |-> zone.value,
                      critical |-> Unknown, warning |-> Unknown, alarm |-> FALSE]

CollectSensors(sensors) ==
  LET chips == [i \in DOMAIN sensors.chips |-> sensors.chips[i] @@ [alarm |-> Alarm(sensors.chips[i])]]
      add(readings, zone) ==
        IF zone.value = Unknown \/ \E i \in DOMAIN readings :
                                     zone.type \in {readings[i].name, readings[i].label}
        THEN readings ELSE Append(readings, ZoneReading(zone))
  IN  ToSet(FoldLeft(add, SelectSeq(chips, LAMBDA t : t.value # Unknown), sensors.zones))

SensorWarnings(t) ==
  If(t.alarm, Warning(IF t.critical \notin {Unknown, 0} /\ t.value >= t.critical
                      THEN "critical" ELSE "warning", "temperature", "hot", t.label))

-----------------------------------------------------------------------------
(* Filesystems.  A line of mountinfo has the device, the type of the         *)
(* filesystem (skip for _DF_SKIP_TYPES), ro, the mount point and its length. *)

\* Mutant: a filesystem is known by where it is mounted.
SameFilesystemMount(a, b) == a.mount = b.mount

SameFilesystem(a, b) == a.dev = b.dev

\* The overlay on "/"; the others only mirror the filesystem underneath.
Root(line) == line.type = "overlay" /\ ~line.ro /\ line.mount = "/"

\* The lines of filesystems that can fill up; of overlays, the first on "/".
Fillable(lines) ==
  {i \in DOMAIN lines :
     /\ lines[i].type # "skip" /\ ~lines[i].ro
     /\ lines[i].type = "overlay" => Root(lines[i]) /\ \A j \in 1..(i - 1) : ~Root(lines[j])}

\* parse_mountinfo: of each filesystem, the first of its shortest mount points.
ParseMountinfo(lines) ==
  {i \in Fillable(lines) :
     \A j \in Fillable(lines) : SameFilesystem(lines[j], lines[i]) =>
       \/ lines[i].length < lines[j].length
       \/ lines[i].length = lines[j].length /\ i <= j}

DiskSeverity(percent) ==
  IF percent >= 95 THEN "critical" ELSE IF percent >= 85 THEN "warning" ELSE "ok"

\* Where a filesystem stands in the dictionary: it entered with its first line.
Entered(lines, i) == Min({j \in Fillable(lines) : SameFilesystem(lines[j], lines[i])})

\* _df: what df prints for the mounts kept, of which the last on a path hides the
\* others.  A filesystem that cannot be asked has no line, one without blocks is left
\* out; hung, df prints nothing before its timeout.
Df(view) ==
  LET lines == view.mounts
      kept == ParseMountinfo(lines)
      top(i) == \A j \in kept : lines[j].mount = lines[i].mount => Entered(lines, j) <= Entered(lines, i)
  IN  {[mount |-> lines[i].mount, filesystem |-> lines[i].dev,
        severity |-> DiskSeverity(view.used[lines[i].dev])] :
         i \in {i \in kept : top(i) /\ ~view.hung /\ view.used[lines[i].dev] # Unknown}}

\* collect_disk_usage: the host's mounts, or the container's when df has nothing.
CollectDiskUsage(disks) == IF Df(disks.host) # {} THEN Df(disks.host) ELSE Df(disks.container)

DiskWarnings(u) ==
  If(u.severity # "ok", Warning(u.severity, "disk", u.mount, u.filesystem))

-----------------------------------------------------------------------------
(* The kernel log.  A line has its age in hours, whether its stamp can be     *)
(* read and, for its message, the rules of which it matches a pattern and    *)
(* those of which it matches an exclusion.                                   *)

\* RULES, in order.
Rules == <<"machine check exception", "machine check event", "uncorrectable ECC", "correctable ECC",
           "lockup", "throttling", "disk I/O", "AER uncorrected", "AER corrected">>
RuleSources == <<"memory", "memory", "memory", "memory", "cpu", "cpu", "disk", "pcie", "pcie">>
CriticalRules == {1, 3, 5, 7, 8}
WindowHours == 168 \* DMESG_WINDOW_HOURS

Matches(rule, line) == rule \notin line.excludes /\ rule \in line.patterns

\* parse_line: seconds since boot say nothing while the boot time is not known.
Age(line, log) == IF ~line.stamped \/ (log.format = "plain" /\ ~log.bootKnown)
                  THEN Unknown ELSE line.age

\* Mutant: a line counts for every rule it matches.
RuleOfEvery(rule, line) == Matches(rule, line)

\* A line counts for the first rule it matches.
RuleOf(rule, line) == Matches(rule, line) /\ \A r \in 1..(rule - 1) : ~Matches(r, line)

\* scan: a line whose age is not known is kept.
Scan(log) ==
  LET recent == {i \in DOMAIN log.lines : Age(log.lines[i], log) <= WindowHours}
      hits(rule) == {i \in recent : RuleOf(rule, log.lines[i])}
  IN  {[Warning(IF rule \in CriticalRules THEN "critical" ELSE "warning", "dmesg",
                RuleSources[rule], Rules[rule]) EXCEPT !.events = hits(rule)] :
         rule \in {rule \in DOMAIN Rules : hits(rule) # {}}}

\* collect_dmesg_warnings: with ISO stamps, or plain, or nothing.
CollectDmesg(log) == IF log.format = "unreadable" THEN {} ELSE Scan(log)
=============================================================================
