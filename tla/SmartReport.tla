---------------------------- MODULE SmartReport ----------------------------
(***************************************************************************)
(* What app/collectors/storage.py makes of smartctl's answer for a drive,  *)
(* and the warnings app/routers/warnings.py raises from it.  A list whose  *)
(* order nobody looks at is a set.                                         *)
(*                                                                         *)
(* A drive is a record: what lsblk says of it (remote), how the query went *)
(* (outcome) and the fields of the JSON it printed, Unknown where absent   *)
(* or not a number; exit is the set of bits of smartctl's exit status.     *)
(***************************************************************************)
EXTENDS Integers, Sequences, SequencesExt, FiniteSetsExt

Unknown == -1
Warning(severity, source, what, on) ==
  [severity |-> severity, source |-> source, what |-> what, on |-> on, events |-> {}]
If(condition, warning) == IF condition THEN {warning} ELSE {}
Max0(n) == IF n < 0 THEN 0 ELSE n

\* SmartHealth, as its defaults leave it.
NotReported ==
  [device |-> "sda", passed |-> "unknown", error |-> FALSE, standby |-> FALSE, issues |-> {},
   realloc |-> Unknown, pending |-> Unknown, offline |-> Unknown, wear |-> Unknown,
   temp |-> Unknown]

-----------------------------------------------------------------------------
(* parse_smart                                                               *)

ExitFailing == 3
ExitOpen == 1
\* _SMARTCTL_ISSUES
Issues == [bit \in 4..7 |-> CASE bit = 4 -> "prefail attribute" [] bit = 5 -> "past threshold"
                               [] bit = 6 -> "error log" [] bit = 7 -> "self-test log"]

\* Mutant: SMART only has to be advertised.
HealthAdvertised(d) == IF ExitFailing \in d.exit THEN "no" ELSE d.passed

\* The verdict, which counts only where SMART is enabled.
Health(d) ==
  IF d.enabled = "no" THEN "unknown"
  ELSE IF ExitFailing \in d.exit THEN "no" ELSE d.passed

WearIds == <<177, 231, 233, 202, 169>>   \* _WEAR_ATTRS, by preference

Attr(d, id) == IF id \in DOMAIN d.attrs THEN d.attrs[id] ELSE Unknown

\* Life left: NVMe's own figure, the preferred vendor attribute, or the device
\* statistics.
Wear(d) ==
  LET vendor == {i \in DOMAIN WearIds : WearIds[i] \in DOMAIN d.attrs}
  IN  IF d.nvmeUsed # Unknown THEN Max0(100 - d.nvmeUsed)
      ELSE IF vendor # {} THEN d.attrs[WearIds[Min(vendor)]]
      ELSE IF d.endurance # Unknown THEN Max0(100 - d.endurance)
      ELSE Unknown

ParseSmart(d) ==
  [device  |-> d.name,
   passed  |-> Health(d),
   error   |-> ExitOpen \in d.exit /\ ~d.asleep,
   standby |-> d.asleep,
   issues  |-> {Issues[bit] : bit \in d.exit \cap DOMAIN Issues},
   realloc |-> IF Attr(d, 5) # Unknown THEN Attr(d, 5) ELSE d.defects,
   pending |-> Attr(d, 197),
   offline |-> Attr(d, 198),
   wear    |-> Wear(d),
   temp    |-> IF d.temp # Unknown THEN d.temp ELSE d.nvmeTemp]

-----------------------------------------------------------------------------
(* The collectors.                                                           *)

\* collect_smart_for_device and the entry collect_all_smart makes of it: no device
\* node, a smartctl still running, no output (a timeout), output that is not JSON,
\* either of the two with the standby notice, JSON that cannot be parsed, an
\* exception, JSON.
DriveReports(d) ==
  LET failed == [NotReported EXCEPT !.device = d.name, !.error = TRUE]
  IN  CASE d.outcome = "no device" -> {}
        [] d.outcome \in {"busy", "odd", "raised"} -> {failed}
        [] d.outcome \in {"silent", "text"} ->
             {IF d.asleep THEN [NotReported EXCEPT !.device = d.name, !.standby = TRUE]
               ELSE failed}
        [] d.outcome = "json" -> {ParseSmart(d)}

\* smart_candidates: not the drives of another machine, nor virtual ones.
SmartCandidates(drives) == {d \in drives : ~d.remote}

CollectAllSmart(drives) == UNION {DriveReports(d) : d \in SmartCandidates(drives)}

-----------------------------------------------------------------------------
(* The warnings.                                                             *)

CriticalIssues == {Issues[4], Issues[7]}   \* _CRITICAL_SMART_ISSUES

SmartWarnings(r) ==
  LET warn(severity, what) == Warning(severity, "smart", what, r.device)
  IN  If(r.passed = "no", warn("critical", "failed"))
      \cup If(r.error /\ ~r.standby, warn("warning", "not readable"))
      \cup If(r.pending > 0, warn("warning", "pending"))
      \cup If(r.offline > 0, warn("critical", "offline"))
      \cup {warn(IF issue \in CriticalIssues THEN "critical" ELSE "warning", issue) :
              issue \in r.issues}
      \cup If(r.realloc > 0, warn("warning", "reallocated"))
      \cup If(r.wear # Unknown /\ r.wear < 20, warn("warning", "wear"))
      \cup If(r.temp > 60, warn(IF r.temp > 70 THEN "critical" ELSE "warning", "temperature"))
=============================================================================
