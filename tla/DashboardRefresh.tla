-------------------------- MODULE DashboardRefresh --------------------------
(***************************************************************************)
(* The refresh loop of the dashboard page (app/static/app.js).  A refresh  *)
(* fetches the fast sections in parallel, renders them, fetches the slow   *)
(* ones, renders those and arms the countdown to the next refresh.  The    *)
(* user clicks and the server answers, fails or hangs at any moment; a     *)
(* block between two awaits runs without interruption.                     *)
(***************************************************************************)
EXTENDS Naturals, FiniteSets

CONSTANTS
  OtherFast,   (* FAST_SECTIONS besides node and cluster_nodes               *)
  OtherSlow,   (* SLOW_SECTIONS besides kubernetes                           *)
  Aggregates,  (* sections that answer 200 with a list of failed collectors  *)
  Foldable,    (* sections with a <details> the user opens and closes        *)
  Role,        (* the role this node really has                              *)
  Faults       (* "labels": the kubernetes section may lack the node object  *)

Fast == {"node", "cluster_nodes"} \cup OtherFast
SlowSections == {"kubernetes"} \cup OtherSlow
Sections == Fast \cup SlowSections

ASSUME DashboardAssumption ==
  /\ Fast \cap SlowSections = {}
  /\ Aggregates \subseteq OtherFast \cup OtherSlow
  /\ Foldable \subseteq Sections
  /\ Role \in {"control-plane", "worker"}
  /\ Faults \subseteq {"labels"}

VARIABLES
  phase,    (* "idle", or which await fetchOverview is at                     *)
  pending,  (* sections whose request is out                                  *)
  answers,  (* section -> what this refresh got for it                        *)
  timer,    (* is the countdown running                                       *)
  drawn,    (* section -> which refresh its markup comes from                 *)
  first,    (* isFirstRender                                                  *)
  open,     (* section -> is its <details> open                               *)
  wish,     (* section -> what the user last chose (history)                  *)
  role,     (* nodeRole                                                       *)
  badge,    (* the role the header shows                                      *)
  bar       (* what the error bar says                                        *)

net == <<pending, answers>>
page == <<drawn, first, open, wish, role, badge, bar>>
vars == <<phase, net, timer, page>>

\* "empty": the section is fine but the API server did not answer for it.
\* "trips": the payload makes the renderer throw.
Data == {"ok", "empty", "partial", "trips"}
Failed == {"failed", "denied"}

AnswersOf(s) ==
  {"ok", "trips", "failed", "denied"}
    \cup (IF s \in Aggregates THEN {"partial"} ELSE {})
    \cup (IF s = "cluster_nodes" \/ (s = "kubernetes" /\ "labels" \in Faults)
            THEN {"empty"} ELSE {})

Roles == {"none", "control-plane", "worker"}

TypeOK ==
  /\ phase \in {"idle", "fast", "slow"}
  /\ pending \subseteq Sections
  /\ answers \in [Sections -> {"none"} \cup Data \cup Failed]
  /\ drawn \in [Sections -> {"never", "before", "now"}]
  /\ first \in BOOLEAN
  /\ open \in [Sections -> BOOLEAN] /\ wish \in [Sections -> BOOLEAN]
  /\ role \in Roles /\ badge \in Roles
  /\ bar \in {"none", "some", "all", "denied"}
  /\ timer <=> phase = "idle"   \* one way to the next refresh, never two or none

\* DOMContentLoaded calls fetchOverview.
Init ==
  /\ phase = "fast"
  /\ pending = Fast
  /\ answers = [s \in Sections |-> "none"]
  /\ timer = FALSE
  /\ drawn = [s \in Sections |-> "never"]
  /\ first = TRUE
  /\ open = [s \in Sections |-> FALSE]
  /\ wish = [s \in Sections |-> FALSE]
  /\ role = "none" /\ badge = "none"
  /\ bar = "none"

-----------------------------------------------------------------------------
\* fetchOverview up to its first await.
Begin ==
  /\ phase' = "fast"
  /\ timer' = FALSE
  /\ pending' = Fast
  /\ answers' = [s \in Sections |-> "none"]
  /\ drawn' = [s \in Sections |-> IF drawn[s] = "now" THEN "before" ELSE drawn[s]]
  /\ UNCHANGED <<first, open, wish, role, badge, bar>>

\* The countdown reaches zero.
Fire == timer /\ Begin

\* The Refresh button; a refresh under way is left alone.
Click == phase = "idle" /\ Begin

\* The user opens or closes a section.
Toggle(s) ==
  /\ s \in Foldable /\ drawn[s] # "never"
  /\ open' = [open EXCEPT ![s] = ~@]
  /\ wish' = [wish EXCEPT ![s] = ~open[s]]
  /\ UNCHANGED <<phase, net, timer, drawn, first, role, badge, bar>>

\* fetchSection settles.
Settle(s, a) ==
  /\ s \in pending
  /\ pending' = pending \ {s}
  /\ answers' = [answers EXCEPT ![s] = a]
  /\ UNCHANGED <<phase, timer, page>>

\* The server answers or the connection breaks.
Answer(s) == \E a \in AnswersOf(s) : Settle(s, a)

\* Mutant: the abort timer was cleared, the request hangs.
ExpireNever(s) == s \in pending /\ UNCHANGED vars

\* SECTION_TIMEOUT_MS passes: the request is aborted.
Expire(s) == Settle(s, "failed")

-----------------------------------------------------------------------------
Got(s) == answers[s] \in Data

\* The section's renderer runs and does not throw.
Rendered(s) == Got(s) /\ answers[s] # "trips"

Redraw(sections) ==
  [s \in Sections |-> IF s \in sections /\ Rendered(s) THEN "now" ELSE drawn[s]]

\* Mutant: the open state is not restored after the markup was replaced.
RestoredNever(sections) ==
  [s \in Sections |-> IF s \in sections /\ Rendered(s) THEN FALSE ELSE open[s]]

\* New markup is closed; restoreOpenState then applies what saveOpenState took
\* from the old markup in the same block, except on the first render.
Restored(sections) ==
  [s \in Sections |-> IF s \in sections /\ Rendered(s) /\ (first \/ drawn[s] = "never")
                        THEN FALSE ELSE open[s]]

\* Mutant: a node list without this node reads as a worker.
RoleOfListDefault ==
  IF ~Got("cluster_nodes") THEN role
  ELSE IF answers["cluster_nodes"] = "empty" THEN "worker" ELSE Role

\* The role from the node list, kept when the list lacks this node.
RoleOfList ==
  IF Got("cluster_nodes") /\ answers["cluster_nodes"] # "empty" THEN Role ELSE role

\* The role from the node's labels; {} is truthy, so an empty node object
\* passes the test and reads as a worker.
RoleOfLabels ==
  IF ~(Got("node") /\ Got("kubernetes")) THEN role
  ELSE IF answers["kubernetes"] = "empty" THEN "worker" ELSE Role

\* All fast sections have settled: they are rendered and the slow ones fetched.
FastDone ==
  /\ phase = "fast" /\ pending = {}
  /\ phase' = "slow"
  /\ pending' = SlowSections
  /\ drawn' = Redraw(Fast)
  /\ open' = Restored(Fast)
  /\ role' = RoleOfList
  /\ badge' = IF Got("node") THEN role' ELSE badge
  /\ UNCHANGED <<answers, timer, first, wish, bar>>

\* Mutant: a renderer that throws is logged and not reported.
FailuresOfFetch == {s \in Sections : answers[s] \in Failed \cup {"partial"}}

\* What fetchSection and renderSection pushed.
Failures == {s \in Sections : answers[s] \in Failed \cup {"partial", "trips"}}

\* reportFailures: the bar goes away only when nothing failed.
Reported(gotData) ==
  IF Failures = {} THEN "none"
  ELSE IF \E s \in Failures : answers[s] = "denied" THEN "denied"
  ELSE IF gotData THEN "some" ELSE "all"

\* All slow sections have settled: they are rendered, failures are reported and
\* the countdown starts.
SlowDone ==
  LET gotData == \E s \in Sections : Got(s)
  IN  /\ phase = "slow" /\ pending = {}
      /\ phase' = "idle"
      /\ timer' = TRUE
      /\ drawn' = Redraw(SlowSections)
      /\ open' = Restored(SlowSections)
      /\ role' = RoleOfLabels
      /\ badge' = IF Got("node") /\ Got("kubernetes") THEN role' ELSE badge
      /\ first' = (first /\ ~gotData)
      /\ bar' = Reported(gotData)
      /\ UNCHANGED <<net, wish>>

Next ==
  \/ Fire \/ Click \/ FastDone \/ SlowDone
  \/ \E s \in Sections : Toggle(s) \/ Answer(s) \/ Expire(s)

Spec == Init /\ [][Next]_vars

\* Browser timers fire and settled promises resume; the server owes nothing.
FairSpec ==
  /\ Spec
  /\ WF_vars(Fire) /\ WF_vars(FastDone) /\ WF_vars(SlowDone)
  /\ \A s \in Sections : WF_vars(Expire(s))

-----------------------------------------------------------------------------
\* "surfaces them so stale data is never presented as fresh" (app.js:177): when
\* a refresh is over, a section still shown from an earlier one, or one with a
\* failed collector, is announced by the error bar.
StaleFlagged ==
  phase = "idle" =>
    \A s \in Sections : drawn[s] = "before" \/ answers[s] = "partial" => bar # "none"

\* "all sections failed, data shown is stale" (app.js:193) is only said when it is
\* true: then nothing on the page comes from this refresh.
AllFailedIsTrue == phase = "idle" /\ bar = "all" => \A s \in Sections : drawn[s] # "now"

\* "toggles made while the requests were in flight are kept" (app.js:109): a
\* section stays as the user left it however many times it is rendered again.
TogglesKept == open = wish

\* "Kept across refreshes so a cycle that lacks the data does not fall back to a
\* wrong default" (app.js:72): the header shows this node's role or none.
RoleRight == badge \in {"none", Role}

\* The page keeps refreshing although the server may hang on any request and the
\* user may click at any moment.
RefreshGoesOn == []<>(phase = "fast") /\ []<>(phase = "idle")
=============================================================================
