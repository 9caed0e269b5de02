----------------------- MODULE DashboardRefreshProofs -----------------------
(***************************************************************************)
(* Proofs about DashboardRefresh, for any sections.  The properties speak  *)
(* of the page between two refreshes; the inductive invariant Inv says     *)
(* what the page and the answers are in the middle of one.                 *)
(***************************************************************************)
EXTENDS DashboardRefresh, TLAPS

\* Only the sections of the current phase have a request out.
PendingInv ==
  /\ phase = "fast" => pending \subseteq Fast
  /\ phase = "slow" => pending \subseteq SlowSections
  /\ phase = "idle" => pending = {}

Asked == IF phase = "fast" THEN Fast ELSE Sections

\* A section that was asked for and is not pending has its answer.
SettledInv ==
  /\ \A s \in Asked \ pending : answers[s] # "none"
  /\ answers["kubernetes"] = "empty" => "labels" \in Faults

\* The markup of a section whose turn is over is new exactly when its renderer
\* got through.
DrawnInv ==
  \A s \in Sections :
    LET over == phase = "idle" \/ (phase = "slow" /\ s \in Fast)
    IN  /\ drawn[s] = "now" => over /\ Rendered(s)
        /\ drawn[s] = "before" /\ over => ~Rendered(s)

\* Before the first data nothing is on the page but what this refresh drew.
FirstInv ==
  first => \A s \in Sections :
             drawn[s] = "never" \/ (phase = "slow" /\ s \in Fast /\ Got(s))

\* A section that was never drawn is closed.
ClosedInv == \A s \in Sections : drawn[s] = "never" => ~open[s]

\* The role is known or right.
RoleInv == "labels" \notin Faults => role \in {"none", Role} /\ badge \in {"none", Role}

Inv ==
  /\ TypeOK /\ PendingInv /\ SettledInv /\ DrawnInv /\ FirstInv /\ ClosedInv /\ RoleInv
  /\ TogglesKept /\ StaleFlagged /\ AllFailedIsTrue
-----------------------------------------------------------------------------
\* fetchOverview starts from the state DOMContentLoaded finds.
LEMMA InitInv == Init => Inv
<1> SUFFICES ASSUME Init PROVE Inv
  OBVIOUS
<1> USE DEF Init
<1>1. TypeOK
  BY DEF TypeOK, Roles, Fast, Sections
<1>2. PendingInv /\ SettledInv
  BY DEF PendingInv, SettledInv, Asked, Sections, SlowSections, Fast
<1>3. DrawnInv /\ FirstInv /\ ClosedInv
  BY DEF DrawnInv, FirstInv, ClosedInv
<1>4. RoleInv /\ TogglesKept /\ StaleFlagged /\ AllFailedIsTrue
  BY DEF RoleInv, TogglesKept, StaleFlagged, AllFailedIsTrue
<1>5. QED
  BY <1>1, <1>2, <1>3, <1>4 DEF Inv

\* A refresh starts: every section on the page is from an earlier one.
LEMMA BeginInv ==
  ASSUME Inv, phase = "idle", Begin
  PROVE  Inv'
<1> USE DEF Begin
<1>1. TypeOK'
  BY DEF Inv, TypeOK, Sections, Fast
<1>2. PendingInv' /\ SettledInv'
  BY DEF PendingInv, SettledInv, Asked, Sections, SlowSections, Fast
<1>3. DrawnInv'
  BY DEF Inv, TypeOK, DrawnInv
<1>4. FirstInv' /\ ClosedInv'
  BY DEF Inv, FirstInv, ClosedInv
<1>5. RoleInv' /\ TogglesKept' /\ StaleFlagged' /\ AllFailedIsTrue'
  BY DEF Inv, RoleInv, TogglesKept, StaleFlagged, AllFailedIsTrue
<1>6. QED
  BY <1>1, <1>2, <1>3, <1>4, <1>5 DEF Inv

\* The user opens or closes a section that is on the page.
LEMMA ToggleInv ==
  ASSUME Inv, NEW s \in Sections, Toggle(s)
  PROVE  Inv'
<1> USE DEF Toggle, net
<1>1. TypeOK'
  BY DEF Inv, TypeOK
<1>2. PendingInv' /\ SettledInv'
  BY DEF Inv, PendingInv, SettledInv, Asked
<1>3. DrawnInv' /\ FirstInv'
  BY DEF Inv, DrawnInv, FirstInv, Rendered, Got
<1>4. ClosedInv'
  BY DEF Inv, TypeOK, ClosedInv
<1>5. TogglesKept'
  BY DEF Inv, TypeOK, TogglesKept
<1>6. RoleInv' /\ StaleFlagged' /\ AllFailedIsTrue'
  BY DEF Inv, RoleInv, StaleFlagged, AllFailedIsTrue
<1>7. QED
  BY <1>1, <1>2, <1>3, <1>4, <1>5, <1>6 DEF Inv

\* A request settles with an answer its section can give.
LEMMA SettleInv ==
  ASSUME Inv, NEW s \in Sections, NEW a \in AnswersOf(s), Settle(s, a)
  PROVE  Inv'
<1> USE DEF Settle, page
<1>1. /\ a \in Data \cup Failed
      /\ s = "kubernetes" /\ a = "empty" => "labels" \in Faults
  BY DEF AnswersOf, Data, Failed
<1>2. TypeOK'
  BY <1>1 DEF Inv, TypeOK
<1>3. PendingInv'
  BY DEF Inv, PendingInv
<1>4. SettledInv'
  <2>1. a # "none"
    BY <1>1 DEF Data, Failed
  <2>2. Asked' = Asked /\ "kubernetes" \in Sections
    BY DEF Asked, Sections, SlowSections
  <2>3. Asked \subseteq Sections
    BY DEF Asked, Sections
  <2>4. QED
    BY <1>1, <2>1, <2>2, <2>3 DEF Inv, TypeOK, SettledInv
<1>5. phase # "idle" /\ (phase = "slow" => s \notin Fast)
  BY DashboardAssumption DEF Inv, PendingInv
<1>6. DrawnInv' /\ FirstInv'
  BY <1>5 DEF Inv, TypeOK, DrawnInv, FirstInv, Rendered, Got
<1>7. ClosedInv' /\ RoleInv' /\ TogglesKept' /\ StaleFlagged' /\ AllFailedIsTrue'
  BY <1>5 DEF Inv, ClosedInv, RoleInv, TogglesKept, StaleFlagged, AllFailedIsTrue
<1>8. QED
  BY <1>2, <1>3, <1>4, <1>6, <1>7 DEF Inv

\* The fast sections are rendered.
LEMMA FastDoneInv ==
  ASSUME Inv, FastDone
  PROVE  Inv'
<1> USE DEF FastDone
<1>1. /\ drawn' = Redraw(Fast) /\ open' = Restored(Fast)
      /\ \A s \in Sections : drawn[s] # "now"
  BY DEF Inv, DrawnInv
<1>2. TypeOK'
  <2>1. drawn' \in [Sections -> {"never", "before", "now"}]
    BY DEF Inv, TypeOK, Redraw
  <2>2. open' \in [Sections -> BOOLEAN]
    BY DEF Inv, TypeOK, Restored
  <2>3. role' \in Roles /\ badge' \in Roles
    BY DashboardAssumption DEF Inv, TypeOK, RoleOfList, Roles
  <2>4. QED
    BY <2>1, <2>2, <2>3 DEF Inv, TypeOK, Sections
<1>3. PendingInv' /\ SettledInv'
  BY DEF Inv, PendingInv, SettledInv, Asked, Sections
<1>4. DrawnInv'
  BY <1>1 DEF DrawnInv, Redraw, Rendered, Got
<1>5. FirstInv'
  BY DEF Inv, FirstInv, Redraw, Rendered, Got
<1>6. ClosedInv'
  BY DEF Inv, ClosedInv, Redraw, Restored
<1>7. TogglesKept'
  <2>1. \A s \in Sections : Restored(Fast)[s] = open[s]
    BY DEF Inv, TypeOK, FirstInv, ClosedInv, Restored
  <2>2. Restored(Fast) = open
    BY <2>1 DEF Inv, TypeOK, Restored
  <2>3. QED
    BY <2>2 DEF Inv, TogglesKept
<1>8. RoleInv'
  BY DEF Inv, RoleInv, RoleOfList
<1>9. StaleFlagged' /\ AllFailedIsTrue'
  BY DEF StaleFlagged, AllFailedIsTrue
<1>10. QED
  BY <1>2, <1>3, <1>4, <1>5, <1>6, <1>7, <1>8, <1>9 DEF Inv

\* The slow sections are rendered and the refresh reports.
LEMMA SlowDoneInv ==
  ASSUME Inv, SlowDone
  PROVE  Inv'
<1> DEFINE gotData == \E s \in Sections : Got(s)
<1>1. /\ phase = "slow" /\ pending = {} /\ phase' = "idle" /\ timer' = TRUE
      /\ drawn' = Redraw(SlowSections) /\ open' = Restored(SlowSections)
      /\ role' = RoleOfLabels
      /\ badge' = IF Got("node") /\ Got("kubernetes") THEN role' ELSE badge
      /\ first' = (first /\ ~gotData)
      /\ bar' = Reported(gotData)
      /\ pending' = pending /\ answers' = answers /\ wish' = wish
  BY DEF SlowDone, net
<1> HIDE DEF gotData
<1>2. TypeOK'
  <2>1. drawn' \in [Sections -> {"never", "before", "now"}]
    BY <1>1 DEF Inv, TypeOK, Redraw
  <2>2. open' \in [Sections -> BOOLEAN]
    BY <1>1 DEF Inv, TypeOK, Restored
  <2>3. role' \in Roles /\ badge' \in Roles
    BY <1>1, DashboardAssumption DEF Inv, TypeOK, RoleOfLabels, Roles
  <2>4. bar' \in {"none", "some", "all", "denied"}
    BY <1>1 DEF Reported
  <2>5. first' \in BOOLEAN
    BY <1>1
  <2>6. QED
    BY <1>1, <2>1, <2>2, <2>3, <2>4, <2>5 DEF Inv, TypeOK
<1>3. PendingInv' /\ SettledInv'
  BY <1>1 DEF Inv, PendingInv, SettledInv, Asked
<1>4. \A s \in Sections : s \in Fast <=> s \notin SlowSections
  BY DashboardAssumption DEF Sections
<1>5. DrawnInv'
  BY <1>1, <1>4 DEF Inv, TypeOK, DrawnInv, Redraw, Rendered, Got
<1>6. FirstInv'
  BY <1>1 DEF Inv, FirstInv, Redraw, Rendered, gotData
<1>7. ClosedInv'
  BY <1>1 DEF Inv, ClosedInv, Redraw, Restored
<1>8. TogglesKept'
  <2>1. \A s \in Sections : Restored(SlowSections)[s] = open[s]
    BY <1>1, <1>4 DEF Inv, TypeOK, FirstInv, ClosedInv, Restored
  <2>2. Restored(SlowSections) = open
    BY <2>1 DEF Inv, TypeOK, Restored
  <2>3. QED
    BY <1>1, <2>2 DEF Inv, TogglesKept
<1>9. RoleInv'
  BY <1>1 DEF Inv, RoleInv, SettledInv, RoleOfLabels
<1>10. StaleFlagged'
  <2>1. \A s \in Sections : drawn'[s] = "before" \/ answers[s] = "partial" => s \in Failures
    BY <1>1, <1>5 DEF Inv, TypeOK, DrawnInv, SettledInv, Asked, Failures, Rendered, Got,
                      Data, Failed
  <2>2. Failures # {} => bar' # "none"
    BY <1>1 DEF Reported
  <2>3. QED
    BY <1>1, <2>1, <2>2 DEF StaleFlagged
<1>11. AllFailedIsTrue'
  <2>1. bar' = "all" => ~gotData
    BY <1>1 DEF Reported
  <2>2. \A s \in Sections : drawn'[s] = "now" => gotData
    BY <1>1, <1>5 DEF DrawnInv, Rendered, Got, gotData
  <2>3. QED
    BY <2>1, <2>2 DEF AllFailedIsTrue
<1>12. QED
  BY <1>2, <1>3, <1>5, <1>6, <1>7, <1>8, <1>9, <1>10, <1>11 DEF Inv

\* Every step of the page, and no step, keeps the invariant.
LEMMA StepInv == Inv /\ [Next]_vars => Inv'
<1> SUFFICES ASSUME Inv, [Next]_vars PROVE Inv'
  OBVIOUS
<1>1. CASE Fire
  BY <1>1, BeginInv DEF Fire, Inv, TypeOK
<1>2. CASE Click
  BY <1>2, BeginInv DEF Click
<1>3. CASE FastDone
  BY <1>3, FastDoneInv
<1>4. CASE SlowDone
  BY <1>4, SlowDoneInv
<1>5. ASSUME NEW s \in Sections, Toggle(s) PROVE Inv'
  BY <1>5, ToggleInv
<1>6. ASSUME NEW s \in Sections, Answer(s) PROVE Inv'
  BY <1>6, SettleInv DEF Answer
<1>7. ASSUME NEW s \in Sections, Expire(s) PROVE Inv'
  BY <1>7, SettleInv DEF Expire, AnswersOf
<1>8. CASE UNCHANGED vars
  BY <1>8 DEF vars, net, page, Inv, TypeOK, PendingInv, SettledInv, Asked, DrawnInv,
              FirstInv, ClosedInv, RoleInv, TogglesKept, StaleFlagged, AllFailedIsTrue,
              Rendered, Got
<1>9. QED
  BY <1>1, <1>2, <1>3, <1>4, <1>5, <1>6, <1>7, <1>8 DEF Next

\* The page's variables stay well typed, and the countdown runs exactly between
\* two refreshes: fetchOverview and resetCountdown never leave two, or none.
THEOREM PageTypeCorrect == Spec => []TypeOK
<1>1. Inv => TypeOK
  BY DEF Inv
<1>2. QED
  BY InitInv, StepInv, <1>1, PTL DEF Spec

\* Whatever fails, a section that is stale after a refresh is announced by
\* reportFailures, and "all sections failed" is said only when it is so.
THEOREM StaleNeverFresh == Spec => [](StaleFlagged /\ AllFailedIsTrue)
<1>1. Inv => StaleFlagged /\ AllFailedIsTrue
  BY DEF Inv
<1>2. QED
  BY InitInv, StepInv, <1>1, PTL DEF Spec

\* saveOpenState and restoreOpenState keep every section as the user left it.
THEOREM TogglesAreKept == Spec => []TogglesKept
<1>1. Inv => TogglesKept
  BY DEF Inv
<1>2. QED
  BY InitInv, StepInv, <1>1, PTL DEF Spec

\* While the kubernetes section has the node's labels, nodeRole is never wrong.
THEOREM RoleIsRight == "labels" \notin Faults => (Spec => []RoleRight)
<1> SUFFICES ASSUME "labels" \notin Faults PROVE Spec => []RoleRight
  OBVIOUS
<1>1. Inv => RoleRight
  BY DEF Inv, RoleInv, RoleRight
<1>2. QED
  BY InitInv, StepInv, <1>1, PTL DEF Spec
=============================================================================
