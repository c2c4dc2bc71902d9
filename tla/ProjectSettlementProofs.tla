---------------------- MODULE ProjectSettlementProofs ----------------------
(***************************************************************************)
(* Theorems about ProjectSettlement, for every number of sessions and of   *)
(* expenses, for all periods, calendars and versions, and for both values  *)
(* of the setting that waives open expenses.                               *)
(***************************************************************************)
EXTENDS ProjectSettlement, TLAPS

HoldsProject == {"submitRow", "submitJudge", "recheck", "complete"}
HoldsSettlement == {"first", "hook", "recheck", "complete"}

\* The steps of a request that come after a lock are taken while it is held.
LocksAreHeld ==
    \A s \in Sessions :
        /\ session[s].pc \in HoldsProject => lock["project"] = s
        /\ session[s].pc \in HoldsSettlement => lock["settlement"] = s

\* What a request has read, as far as its next steps rely on it.
RequestsAreComplete ==
    \A s \in Sessions :
        /\ session[s].pc \in {"submit", "submitRow", "submitJudge"} => session[s].doc \in Expenses
        /\ session[s].pc = "period" =>
              /\ session[s].input \in Periods
              /\ session[s].day \in Days /\ session[s].day <= today

\* The version under which a settlement is submitted is of a document that may
\* be submitted, or no longer the current one.
SubmissionsAreDue ==
    \A s \in Sessions : session[s].pc \in {"first", "resubmit"} =>
        /\ session[s].expected <= settlement.version /\ session[s].expected < MaxVersion
        /\ session[s].expected = settlement.version =>
              settlement.status \notin {"submitted", "approved"}

\* The settlement stays in review while its approval waits and checks.
ApprovalsAreOpen ==
    \A s \in Sessions : session[s].pc \in {"hook", "recheck", "complete"} =>
        settlement.status = "submitted" /\ settlement.version < MaxVersion

\* Between the checks of an approval and its commit the project stays clean.
ChecksStillHold ==
    \A s \in Sessions : session[s].pc = "complete" /\ checked =>
        project.status = "settling" /\ Clean

IInv ==
    /\ TypeOK
    /\ LocksAreHeld
    /\ RequestsAreComplete
    /\ SubmissionsAreDue
    /\ ApprovalsAreOpen
    /\ ChecksStillHold
    /\ CompletionFollowsApproval
    /\ CheckedCompletionIsClean
    /\ SettledProjectsHaveEnded
    /\ ClosedExpensesAreOver

\* What CompletedProjectsAreFrozen says of one step.
Frozen ==
    project.status = "completed" =>
        /\ UNCHANGED project
        /\ \A e \in Expenses : expense'[e].status = "submitted" => expense[e].status = "submitted"

-----------------------------------------------------------------------------
(* The judgements on a project row. *)

LEMMA GateKeepsType ==
    ASSUME NEW row \in Project, NEW day
    PROVE  LoadProjectForGate(row, day) \in Project
BY DEF LoadProjectForGate, AllowsAutoSettle, Project, Statuses

LEMMA SaveKeepsType ==
    ASSUME NEW row \in Project, NEW input \in Periods, NEW day
    PROVE  ResolvePeriodSave(row, input, day) \in Project
BY PeriodsArePeriods DEF ResolvePeriodSave, SavedEnd, Project, Period, Statuses

-----------------------------------------------------------------------------
(* Sessions and locks. *)

\* The end of a request idles its session and frees its rows, and no others.
LEMMA EndFreesRows ==
    ASSUME TypeOK, NEW s \in Sessions, End(s)
    PROVE  /\ session' \in [Sessions -> Session]
           /\ lock' \in [Rows -> Sessions \cup {None}]
           /\ session'[s].pc = "idle"
           /\ \A t \in Sessions \ {s} : session'[t] = session[t]
           /\ \A row \in Rows, t \in Sessions \ {s} : lock[row] = t => lock'[row] = t
<1>1. Idle \in Session
  BY BoundsArePositive DEF Idle, Session, Dates
<1>2. session' = [session EXCEPT ![s] = Idle]
  BY DEF End
<1>3. lock' = [row \in Rows |-> IF lock[row] = s THEN None ELSE lock[row]]
  BY DEF End, Release
<1>4. /\ session' \in [Sessions -> Session]
      /\ session'[s].pc = "idle"
      /\ \A t \in Sessions \ {s} : session'[t] = session[t]
  BY <1>1, <1>2 DEF TypeOK, Idle
<1>5. /\ lock' \in [Rows -> Sessions \cup {None}]
      /\ \A row \in Rows, t \in Sessions \ {s} : lock[row] = t => lock'[row] = t
  BY <1>3 DEF TypeOK
<1> QED BY <1>4, <1>5

\* Every step keeps the types.
LEMMA StepKeepsType ==
    ASSUME IInv, [Next]_vars
    PROVE  TypeOK'
<1> USE PeriodsArePeriods, NoneIsNothing, RowsAreApart, BoundsArePositive DEF IInv, TypeOK, Session, Idle, Rows, Take, Release, Move, End
<1>1. ASSUME NextDay
      PROVE  TypeOK'
  BY <1>1 DEF NextDay, Days
<1>2. ASSUME ApplyAutoSettlement
      PROVE  TypeOK'
  BY <1>2, GateKeepsType DEF ApplyAutoSettlement
<1>3. ASSUME NEW to \in Statuses, ChangeProjectStatus(to)
      PROVE  TypeOK'
  BY <1>3 DEF ChangeProjectStatus, Project
<1>4. ASSUME NEW s \in Sessions, SavePeriod(s)
      PROVE  TypeOK'
  <2>1. project' \in Project
    <3>1. LoadProjectForGate(project, today) \in Project
      BY GateKeepsType
    <3>2. session[s].input \in Periods
      BY <1>4 DEF SavePeriod, RequestsAreComplete
    <3>3. \A day : ResolvePeriodSave(LoadProjectForGate(project, today), session[s].input, day) \in Project
      BY <3>1, <3>2, SaveKeepsType
    <3>4. \A day : LoadProjectForGate(ResolvePeriodSave(LoadProjectForGate(project, today),
                                          session[s].input, day), today) \in Project
      BY <3>3, GateKeepsType
    <3> QED BY <1>4, <3>4 DEF SavePeriod
  <2>2. End(s) /\ UNCHANGED <<today, settlement, expense, checked>>
    BY <1>4 DEF SavePeriod
  <2> HIDE DEF End
  <2> QED BY <2>1, <2>2, EndFreesRows
<1>5. ASSUME NEW s \in Sessions, NEW input \in Periods, NEW lead \in BOOLEAN, BeginPeriod(s, input, lead)
      PROVE  TypeOK'
  BY <1>5 DEF BeginPeriod, Dates
<1>6. ASSUME NEW s \in Sessions, NEW e \in Expenses, BeginSubmitExpense(s, e)
      PROVE  TypeOK'
  BY <1>6 DEF BeginSubmitExpense
<1>7. ASSUME NEW s \in Sessions, LockProjectOfExpense(s)
      PROVE  TypeOK'
  BY <1>7 DEF LockProjectOfExpense
<1>8. ASSUME NEW s \in Sessions, LockExpense(s)
      PROVE  TypeOK'
  BY <1>8 DEF LockExpense, RequestsAreComplete
<1>9. ASSUME NEW s \in Sessions, SubmitExpense(s)
      PROVE  TypeOK'
  <2>1. expense' \in [Expenses -> Expense]
    <3>1. session[s].doc \in Expenses
      BY <1>9 DEF SubmitExpense, RequestsAreComplete
    <3>2. [expense EXCEPT ![session[s].doc].status = "submitted"] \in [Expenses -> Expense]
      BY <3>1 DEF Expense, DocumentStatuses
    <3> QED BY <1>9, <3>2 DEF SubmitExpense
  <2>2. End(s) /\ UNCHANGED <<today, project, settlement, checked>>
    BY <1>9 DEF SubmitExpense
  <2> HIDE DEF End
  <2> QED BY <2>1, <2>2, EndFreesRows
<1>10. ASSUME NEW e \in Expenses, NEW status \in DocumentStatuses, DecideExpense(e, status)
      PROVE  TypeOK'
  BY <1>10 DEF DecideExpense, Expense
<1>11. ASSUME NEW e \in Expenses, CloseExpense(e)
      PROVE  TypeOK'
  <2>1. [expense EXCEPT ![e].closed = TRUE] \in [Expenses -> Expense]
    BY DEF Expense
  <2> QED BY <1>11, <2>1 DEF CloseExpense
<1>12. ASSUME NEW s \in Sessions, BeginSettlement(s)
      PROVE  TypeOK'
  BY <1>12 DEF BeginSettlement
<1>13. ASSUME NEW s \in Sessions, InsertSettlement(s)
      PROVE  TypeOK'
  BY <1>13 DEF InsertSettlement
<1>14. ASSUME NEW s \in Sessions, CheckSettlement(s)
      PROVE  TypeOK'
  <2>1. CASE End(s)
    BY <1>14, <2>1, EndFreesRows DEF CheckSettlement
  <2>2. CASE ~ End(s)
    BY <1>14, <2>2 DEF CheckSettlement, Document
  <2> QED BY <2>1, <2>2
<1>15. ASSUME NEW s \in Sessions, SubmitSettlement(s)
      PROVE  TypeOK'
  <2>1. settlement' \in Document
    BY <1>15 DEF SubmitSettlement, Document, SubmissionsAreDue, DocumentStatuses
  <2>2. End(s) /\ UNCHANGED <<today, project, expense, checked>>
    BY <1>15 DEF SubmitSettlement
  <2> HIDE DEF End
  <2> QED BY <2>1, <2>2, EndFreesRows
<1>16. ASSUME NEW s \in Sessions, ApproveSettlement(s)
      PROVE  TypeOK'
  BY <1>16 DEF ApproveSettlement
<1>17. ASSUME NEW s \in Sessions, HookLocksProject(s)
      PROVE  TypeOK'
  BY <1>17 DEF HookLocksProject
<1>18. ASSUME NEW s \in Sessions, HookChecks(s)
      PROVE  TypeOK'
  <2>1. CASE End(s)
    BY <1>18, <2>1, EndFreesRows DEF HookChecks
  <2>2. CASE ~ End(s)
    <3>1. checked' \in BOOLEAN
      BY Zenon, <1>18, <2>2 DEF HookChecks
    <3> QED BY <1>18, <2>2, <3>1 DEF HookChecks
  <2> QED BY <2>1, <2>2
<1>19. ASSUME NEW s \in Sessions, CompleteProject(s)
      PROVE  TypeOK'
  <2>1. LoadProjectForGate(project, today) \in Project
    BY GateKeepsType
  <2>2. project' \in Project
    BY <1>19, <2>1 DEF CompleteProject, Project, Statuses
  <2>3. settlement' \in Document
    BY <1>19 DEF CompleteProject, Document, DocumentStatuses, ApprovalsAreOpen
  <2>4. End(s) /\ UNCHANGED <<today, expense, checked>>
    BY <1>19 DEF CompleteProject
  <2> HIDE DEF End
  <2> QED BY <2>2, <2>3, <2>4, EndFreesRows
<1>20. ASSUME NEW status \in Returned, ReturnSettlement(status)
      PROVE  TypeOK'
  BY <1>20 DEF ReturnSettlement, Document, Returned, DocumentStatuses
<1>21. ASSUME NEW s \in Sessions, LockTimeout(s)
      PROVE  TypeOK'
  <2>1. End(s) /\ UNCHANGED <<today, project, settlement, expense, checked>>
    BY <1>21 DEF LockTimeout
  <2> HIDE DEF End
  <2> QED BY <2>1, EndFreesRows
<1>22. ASSUME UNCHANGED vars
      PROVE  TypeOK'
  BY <1>22 DEF vars
<1> HIDE PeriodsArePeriods, NoneIsNothing, RowsAreApart, BoundsArePositive DEF IInv, TypeOK, Session, Idle, Rows, Take, Release, Move, End
<1> QED
  BY <1>1, <1>2, <1>3, <1>4, <1>5, <1>6, <1>7, <1>8, <1>9, <1>10, <1>11, <1>12, <1>13, <1>14, <1>15, <1>16, <1>17, <1>18, <1>19, <1>20, <1>21, <1>22
     DEF Next, ProjectSteps, ExpenseSteps, SettlementSteps

\* Every step keeps the locks with the requests that rely on them.
LEMMA StepKeepsLocks ==
    ASSUME IInv, [Next]_vars
    PROVE  LocksAreHeld'
<1> USE PeriodsArePeriods, NoneIsNothing, RowsAreApart, BoundsArePositive DEF IInv, TypeOK, LocksAreHeld, HoldsProject, HoldsSettlement, Session, Idle, Rows, Take, Release, Move, End
<1>1. ASSUME NextDay
      PROVE  LocksAreHeld'
  BY <1>1 DEF NextDay
<1>2. ASSUME ApplyAutoSettlement
      PROVE  LocksAreHeld'
  BY <1>2 DEF ApplyAutoSettlement
<1>3. ASSUME NEW to \in Statuses, ChangeProjectStatus(to)
      PROVE  LocksAreHeld'
  BY <1>3 DEF ChangeProjectStatus
<1>4. ASSUME NEW s \in Sessions, SavePeriod(s)
      PROVE  LocksAreHeld'
  BY <1>4 DEF SavePeriod
<1>5. ASSUME NEW s \in Sessions, NEW input \in Periods, NEW lead \in BOOLEAN, BeginPeriod(s, input, lead)
      PROVE  LocksAreHeld'
  BY <1>5 DEF BeginPeriod
<1>6. ASSUME NEW s \in Sessions, NEW e \in Expenses, BeginSubmitExpense(s, e)
      PROVE  LocksAreHeld'
  BY <1>6 DEF BeginSubmitExpense
<1>7. ASSUME NEW s \in Sessions, LockProjectOfExpense(s)
      PROVE  LocksAreHeld'
  BY <1>7 DEF LockProjectOfExpense
<1>8. ASSUME NEW s \in Sessions, LockExpense(s)
      PROVE  LocksAreHeld'
  BY <1>8 DEF LockExpense, RequestsAreComplete
<1>9. ASSUME NEW s \in Sessions, SubmitExpense(s)
      PROVE  LocksAreHeld'
  BY <1>9 DEF SubmitExpense
<1>10. ASSUME NEW e \in Expenses, NEW status \in DocumentStatuses, DecideExpense(e, status)
      PROVE  LocksAreHeld'
  BY <1>10 DEF DecideExpense
<1>11. ASSUME NEW e \in Expenses, CloseExpense(e)
      PROVE  LocksAreHeld'
  BY <1>11 DEF CloseExpense
<1>12. ASSUME NEW s \in Sessions, BeginSettlement(s)
      PROVE  LocksAreHeld'
  BY <1>12 DEF BeginSettlement
<1>13. ASSUME NEW s \in Sessions, InsertSettlement(s)
      PROVE  LocksAreHeld'
  BY <1>13 DEF InsertSettlement
<1>14. ASSUME NEW s \in Sessions, CheckSettlement(s)
      PROVE  LocksAreHeld'
  BY <1>14 DEF CheckSettlement
<1>15. ASSUME NEW s \in Sessions, SubmitSettlement(s)
      PROVE  LocksAreHeld'
  BY <1>15 DEF SubmitSettlement
<1>16. ASSUME NEW s \in Sessions, ApproveSettlement(s)
      PROVE  LocksAreHeld'
  BY <1>16 DEF ApproveSettlement
<1>17. ASSUME NEW s \in Sessions, HookLocksProject(s)
      PROVE  LocksAreHeld'
  BY <1>17 DEF HookLocksProject
<1>18. ASSUME NEW s \in Sessions, HookChecks(s)
      PROVE  LocksAreHeld'
  BY <1>18 DEF HookChecks
<1>19. ASSUME NEW s \in Sessions, CompleteProject(s)
      PROVE  LocksAreHeld'
  BY <1>19 DEF CompleteProject
<1>20. ASSUME NEW status \in Returned, ReturnSettlement(status)
      PROVE  LocksAreHeld'
  BY <1>20 DEF ReturnSettlement
<1>21. ASSUME NEW s \in Sessions, LockTimeout(s)
      PROVE  LocksAreHeld'
  BY <1>21 DEF LockTimeout
<1>22. ASSUME UNCHANGED vars
      PROVE  LocksAreHeld'
  BY <1>22 DEF vars
<1> HIDE PeriodsArePeriods, NoneIsNothing, RowsAreApart, BoundsArePositive DEF IInv, TypeOK, LocksAreHeld, HoldsProject, HoldsSettlement, Session, Idle, Rows, Take, Release, Move, End
<1> QED
  BY <1>1, <1>2, <1>3, <1>4, <1>5, <1>6, <1>7, <1>8, <1>9, <1>10, <1>11, <1>12, <1>13, <1>14, <1>15, <1>16, <1>17, <1>18, <1>19, <1>20, <1>21, <1>22
     DEF Next, ProjectSteps, ExpenseSteps, SettlementSteps

\* Every step keeps what a request has read.
LEMMA StepKeepsRequests ==
    ASSUME IInv, [Next]_vars
    PROVE  RequestsAreComplete'
<1> USE PeriodsArePeriods, NoneIsNothing, RowsAreApart, BoundsArePositive DEF IInv, TypeOK, RequestsAreComplete, Session, Idle, Take, Release, Move, End, Days
<1>1. ASSUME NextDay
      PROVE  RequestsAreComplete'
  BY <1>1 DEF NextDay
<1>2. ASSUME ApplyAutoSettlement
      PROVE  RequestsAreComplete'
  BY <1>2 DEF ApplyAutoSettlement
<1>3. ASSUME NEW to \in Statuses, ChangeProjectStatus(to)
      PROVE  RequestsAreComplete'
  BY <1>3 DEF ChangeProjectStatus
<1>4. ASSUME NEW s \in Sessions, SavePeriod(s)
      PROVE  RequestsAreComplete'
  BY <1>4 DEF SavePeriod
<1>5. ASSUME NEW s \in Sessions, NEW input \in Periods, NEW lead \in BOOLEAN, BeginPeriod(s, input, lead)
      PROVE  RequestsAreComplete'
  BY <1>5 DEF BeginPeriod
<1>6. ASSUME NEW s \in Sessions, NEW e \in Expenses, BeginSubmitExpense(s, e)
      PROVE  RequestsAreComplete'
  BY <1>6 DEF BeginSubmitExpense
<1>7. ASSUME NEW s \in Sessions, LockProjectOfExpense(s)
      PROVE  RequestsAreComplete'
  BY <1>7 DEF LockProjectOfExpense
<1>8. ASSUME NEW s \in Sessions, LockExpense(s)
      PROVE  RequestsAreComplete'
  BY <1>8 DEF LockExpense
<1>9. ASSUME NEW s \in Sessions, SubmitExpense(s)
      PROVE  RequestsAreComplete'
  BY <1>9 DEF SubmitExpense
<1>10. ASSUME NEW e \in Expenses, NEW status \in DocumentStatuses, DecideExpense(e, status)
      PROVE  RequestsAreComplete'
  BY <1>10 DEF DecideExpense
<1>11. ASSUME NEW e \in Expenses, CloseExpense(e)
      PROVE  RequestsAreComplete'
  BY <1>11 DEF CloseExpense
<1>12. ASSUME NEW s \in Sessions, BeginSettlement(s)
      PROVE  RequestsAreComplete'
  BY <1>12 DEF BeginSettlement
<1>13. ASSUME NEW s \in Sessions, InsertSettlement(s)
      PROVE  RequestsAreComplete'
  BY <1>13 DEF InsertSettlement
<1>14. ASSUME NEW s \in Sessions, CheckSettlement(s)
      PROVE  RequestsAreComplete'
  BY <1>14 DEF CheckSettlement
<1>15. ASSUME NEW s \in Sessions, SubmitSettlement(s)
      PROVE  RequestsAreComplete'
  BY <1>15 DEF SubmitSettlement
<1>16. ASSUME NEW s \in Sessions, ApproveSettlement(s)
      PROVE  RequestsAreComplete'
  BY <1>16 DEF ApproveSettlement
<1>17. ASSUME NEW s \in Sessions, HookLocksProject(s)
      PROVE  RequestsAreComplete'
  BY <1>17 DEF HookLocksProject
<1>18. ASSUME NEW s \in Sessions, HookChecks(s)
      PROVE  RequestsAreComplete'
  BY <1>18 DEF HookChecks
<1>19. ASSUME NEW s \in Sessions, CompleteProject(s)
      PROVE  RequestsAreComplete'
  BY <1>19 DEF CompleteProject
<1>20. ASSUME NEW status \in Returned, ReturnSettlement(status)
      PROVE  RequestsAreComplete'
  BY <1>20 DEF ReturnSettlement
<1>21. ASSUME NEW s \in Sessions, LockTimeout(s)
      PROVE  RequestsAreComplete'
  BY <1>21 DEF LockTimeout
<1>22. ASSUME UNCHANGED vars
      PROVE  RequestsAreComplete'
  BY <1>22 DEF vars
<1> HIDE PeriodsArePeriods, NoneIsNothing, RowsAreApart, BoundsArePositive DEF IInv, TypeOK, RequestsAreComplete, Session, Idle, Take, Release, Move, End, Days
<1> QED
  BY <1>1, <1>2, <1>3, <1>4, <1>5, <1>6, <1>7, <1>8, <1>9, <1>10, <1>11, <1>12, <1>13, <1>14, <1>15, <1>16, <1>17, <1>18, <1>19, <1>20, <1>21, <1>22
     DEF Next, ProjectSteps, ExpenseSteps, SettlementSteps

\* Every step keeps the submissions of settlements due.
LEMMA StepKeepsSubmissions ==
    ASSUME IInv, [Next]_vars
    PROVE  SubmissionsAreDue'
<1> USE PeriodsArePeriods, NoneIsNothing, RowsAreApart, BoundsArePositive DEF IInv, TypeOK, SubmissionsAreDue, Session, Document, Idle, Take, Release, Move, End
<1>1. ASSUME NextDay
      PROVE  SubmissionsAreDue'
  BY <1>1 DEF NextDay
<1>2. ASSUME ApplyAutoSettlement
      PROVE  SubmissionsAreDue'
  BY <1>2 DEF ApplyAutoSettlement
<1>3. ASSUME NEW to \in Statuses, ChangeProjectStatus(to)
      PROVE  SubmissionsAreDue'
  BY <1>3 DEF ChangeProjectStatus
<1>4. ASSUME NEW s \in Sessions, SavePeriod(s)
      PROVE  SubmissionsAreDue'
  BY <1>4 DEF SavePeriod
<1>5. ASSUME NEW s \in Sessions, NEW input \in Periods, NEW lead \in BOOLEAN, BeginPeriod(s, input, lead)
      PROVE  SubmissionsAreDue'
  BY <1>5 DEF BeginPeriod
<1>6. ASSUME NEW s \in Sessions, NEW e \in Expenses, BeginSubmitExpense(s, e)
      PROVE  SubmissionsAreDue'
  BY <1>6 DEF BeginSubmitExpense
<1>7. ASSUME NEW s \in Sessions, LockProjectOfExpense(s)
      PROVE  SubmissionsAreDue'
  BY <1>7 DEF LockProjectOfExpense
<1>8. ASSUME NEW s \in Sessions, LockExpense(s)
      PROVE  SubmissionsAreDue'
  BY <1>8 DEF LockExpense
<1>9. ASSUME NEW s \in Sessions, SubmitExpense(s)
      PROVE  SubmissionsAreDue'
  BY <1>9 DEF SubmitExpense
<1>10. ASSUME NEW e \in Expenses, NEW status \in DocumentStatuses, DecideExpense(e, status)
      PROVE  SubmissionsAreDue'
  BY <1>10 DEF DecideExpense
<1>11. ASSUME NEW e \in Expenses, CloseExpense(e)
      PROVE  SubmissionsAreDue'
  BY <1>11 DEF CloseExpense
<1>12. ASSUME NEW s \in Sessions, BeginSettlement(s)
      PROVE  SubmissionsAreDue'
  BY <1>12 DEF BeginSettlement
<1>13. ASSUME NEW s \in Sessions, InsertSettlement(s)
      PROVE  SubmissionsAreDue'
  BY <1>13 DEF InsertSettlement
<1>14. ASSUME NEW s \in Sessions, CheckSettlement(s)
      PROVE  SubmissionsAreDue'
  BY <1>14 DEF CheckSettlement
<1>15. ASSUME NEW s \in Sessions, SubmitSettlement(s)
      PROVE  SubmissionsAreDue'
  BY <1>15 DEF SubmitSettlement
<1>16. ASSUME NEW s \in Sessions, ApproveSettlement(s)
      PROVE  SubmissionsAreDue'
  BY <1>16 DEF ApproveSettlement
<1>17. ASSUME NEW s \in Sessions, HookLocksProject(s)
      PROVE  SubmissionsAreDue'
  BY <1>17 DEF HookLocksProject
<1>18. ASSUME NEW s \in Sessions, HookChecks(s)
      PROVE  SubmissionsAreDue'
  BY <1>18 DEF HookChecks
<1>19. ASSUME NEW s \in Sessions, CompleteProject(s)
      PROVE  SubmissionsAreDue'
  BY <1>19 DEF CompleteProject, ApprovalsAreOpen
<1>20. ASSUME NEW status \in Returned, ReturnSettlement(status)
      PROVE  SubmissionsAreDue'
  BY <1>20 DEF ReturnSettlement
<1>21. ASSUME NEW s \in Sessions, LockTimeout(s)
      PROVE  SubmissionsAreDue'
  BY <1>21 DEF LockTimeout
<1>22. ASSUME UNCHANGED vars
      PROVE  SubmissionsAreDue'
  BY <1>22 DEF vars
<1> HIDE PeriodsArePeriods, NoneIsNothing, RowsAreApart, BoundsArePositive DEF IInv, TypeOK, SubmissionsAreDue, Session, Document, Idle, Take, Release, Move, End
<1> QED
  BY <1>1, <1>2, <1>3, <1>4, <1>5, <1>6, <1>7, <1>8, <1>9, <1>10, <1>11, <1>12, <1>13, <1>14, <1>15, <1>16, <1>17, <1>18, <1>19, <1>20, <1>21, <1>22
     DEF Next, ProjectSteps, ExpenseSteps, SettlementSteps

\* Every step keeps the approvals open.
LEMMA StepKeepsApprovals ==
    ASSUME IInv, [Next]_vars
    PROVE  ApprovalsAreOpen'
<1> USE PeriodsArePeriods, NoneIsNothing, RowsAreApart, BoundsArePositive DEF IInv, TypeOK, ApprovalsAreOpen, LocksAreHeld, HoldsSettlement, Session, Document, Idle, Take, Release, Move, End
<1>1. ASSUME NextDay
      PROVE  ApprovalsAreOpen'
  BY <1>1 DEF NextDay
<1>2. ASSUME ApplyAutoSettlement
      PROVE  ApprovalsAreOpen'
  BY <1>2 DEF ApplyAutoSettlement
<1>3. ASSUME NEW to \in Statuses, ChangeProjectStatus(to)
      PROVE  ApprovalsAreOpen'
  BY <1>3 DEF ChangeProjectStatus
<1>4. ASSUME NEW s \in Sessions, SavePeriod(s)
      PROVE  ApprovalsAreOpen'
  BY <1>4 DEF SavePeriod
<1>5. ASSUME NEW s \in Sessions, NEW input \in Periods, NEW lead \in BOOLEAN, BeginPeriod(s, input, lead)
      PROVE  ApprovalsAreOpen'
  BY <1>5 DEF BeginPeriod
<1>6. ASSUME NEW s \in Sessions, NEW e \in Expenses, BeginSubmitExpense(s, e)
      PROVE  ApprovalsAreOpen'
  BY <1>6 DEF BeginSubmitExpense
<1>7. ASSUME NEW s \in Sessions, LockProjectOfExpense(s)
      PROVE  ApprovalsAreOpen'
  BY <1>7 DEF LockProjectOfExpense
<1>8. ASSUME NEW s \in Sessions, LockExpense(s)
      PROVE  ApprovalsAreOpen'
  BY <1>8 DEF LockExpense
<1>9. ASSUME NEW s \in Sessions, SubmitExpense(s)
      PROVE  ApprovalsAreOpen'
  BY <1>9 DEF SubmitExpense
<1>10. ASSUME NEW e \in Expenses, NEW status \in DocumentStatuses, DecideExpense(e, status)
      PROVE  ApprovalsAreOpen'
  BY <1>10 DEF DecideExpense
<1>11. ASSUME NEW e \in Expenses, CloseExpense(e)
      PROVE  ApprovalsAreOpen'
  BY <1>11 DEF CloseExpense
<1>12. ASSUME NEW s \in Sessions, BeginSettlement(s)
      PROVE  ApprovalsAreOpen'
  BY <1>12 DEF BeginSettlement
<1>13. ASSUME NEW s \in Sessions, InsertSettlement(s)
      PROVE  ApprovalsAreOpen'
  BY <1>13 DEF InsertSettlement
<1>14. ASSUME NEW s \in Sessions, CheckSettlement(s)
      PROVE  ApprovalsAreOpen'
  BY <1>14 DEF CheckSettlement
<1>15. ASSUME NEW s \in Sessions, SubmitSettlement(s)
      PROVE  ApprovalsAreOpen'
  BY <1>15 DEF SubmitSettlement, SubmissionsAreDue
<1>16. ASSUME NEW s \in Sessions, ApproveSettlement(s)
      PROVE  ApprovalsAreOpen'
  BY <1>16 DEF ApproveSettlement
<1>17. ASSUME NEW s \in Sessions, HookLocksProject(s)
      PROVE  ApprovalsAreOpen'
  BY <1>17 DEF HookLocksProject
<1>18. ASSUME NEW s \in Sessions, HookChecks(s)
      PROVE  ApprovalsAreOpen'
  BY <1>18 DEF HookChecks
<1>19. ASSUME NEW s \in Sessions, CompleteProject(s)
      PROVE  ApprovalsAreOpen'
  BY <1>19 DEF CompleteProject
<1>20. ASSUME NEW status \in Returned, ReturnSettlement(status)
      PROVE  ApprovalsAreOpen'
  BY <1>20 DEF ReturnSettlement
<1>21. ASSUME NEW s \in Sessions, LockTimeout(s)
      PROVE  ApprovalsAreOpen'
  BY <1>21 DEF LockTimeout
<1>22. ASSUME UNCHANGED vars
      PROVE  ApprovalsAreOpen'
  BY <1>22 DEF vars
<1> HIDE PeriodsArePeriods, NoneIsNothing, RowsAreApart, BoundsArePositive DEF IInv, TypeOK, ApprovalsAreOpen, LocksAreHeld, HoldsSettlement, Session, Document, Idle, Take, Release, Move, End
<1> QED
  BY <1>1, <1>2, <1>3, <1>4, <1>5, <1>6, <1>7, <1>8, <1>9, <1>10, <1>11, <1>12, <1>13, <1>14, <1>15, <1>16, <1>17, <1>18, <1>19, <1>20, <1>21, <1>22
     DEF Next, ProjectSteps, ExpenseSteps, SettlementSteps

\* Every step keeps what an approval has checked.
LEMMA StepKeepsChecks ==
    ASSUME IInv, [Next]_vars
    PROVE  ChecksStillHold'
<1> USE PeriodsArePeriods, NoneIsNothing, RowsAreApart, BoundsArePositive DEF IInv, TypeOK, ChecksStillHold, LocksAreHeld, HoldsProject, Clean, InReview, Blocked, OpenExpenses, Session, Idle, Take, Release, Move, End
<1>1. ASSUME NextDay
      PROVE  ChecksStillHold'
  BY <1>1 DEF NextDay
<1>2. ASSUME ApplyAutoSettlement
      PROVE  ChecksStillHold'
  BY <1>2 DEF ApplyAutoSettlement
<1>3. ASSUME NEW to \in Statuses, ChangeProjectStatus(to)
      PROVE  ChecksStillHold'
  BY <1>3 DEF ChangeProjectStatus
<1>4. ASSUME NEW s \in Sessions, SavePeriod(s)
      PROVE  ChecksStillHold'
  BY <1>4 DEF SavePeriod
<1>5. ASSUME NEW s \in Sessions, NEW input \in Periods, NEW lead \in BOOLEAN, BeginPeriod(s, input, lead)
      PROVE  ChecksStillHold'
  BY <1>5 DEF BeginPeriod
<1>6. ASSUME NEW s \in Sessions, NEW e \in Expenses, BeginSubmitExpense(s, e)
      PROVE  ChecksStillHold'
  BY <1>6 DEF BeginSubmitExpense
<1>7. ASSUME NEW s \in Sessions, LockProjectOfExpense(s)
      PROVE  ChecksStillHold'
  BY <1>7 DEF LockProjectOfExpense
<1>8. ASSUME NEW s \in Sessions, LockExpense(s)
      PROVE  ChecksStillHold'
  BY <1>8 DEF LockExpense
<1>9. ASSUME NEW s \in Sessions, SubmitExpense(s)
      PROVE  ChecksStillHold'
  BY <1>9 DEF SubmitExpense, RequestsAreComplete, Expense
<1>10. ASSUME NEW e \in Expenses, NEW status \in DocumentStatuses, DecideExpense(e, status)
      PROVE  ChecksStillHold'
  BY <1>10 DEF DecideExpense
<1>11. ASSUME NEW e \in Expenses, CloseExpense(e)
      PROVE  ChecksStillHold'
  BY <1>11 DEF CloseExpense
<1>12. ASSUME NEW s \in Sessions, BeginSettlement(s)
      PROVE  ChecksStillHold'
  BY <1>12 DEF BeginSettlement
<1>13. ASSUME NEW s \in Sessions, InsertSettlement(s)
      PROVE  ChecksStillHold'
  BY <1>13 DEF InsertSettlement
<1>14. ASSUME NEW s \in Sessions, CheckSettlement(s)
      PROVE  ChecksStillHold'
  BY <1>14 DEF CheckSettlement
<1>15. ASSUME NEW s \in Sessions, SubmitSettlement(s)
      PROVE  ChecksStillHold'
  BY <1>15 DEF SubmitSettlement
<1>16. ASSUME NEW s \in Sessions, ApproveSettlement(s)
      PROVE  ChecksStillHold'
  BY <1>16 DEF ApproveSettlement
<1>17. ASSUME NEW s \in Sessions, HookLocksProject(s)
      PROVE  ChecksStillHold'
  BY <1>17 DEF HookLocksProject
<1>18. ASSUME NEW s \in Sessions, HookChecks(s)
      PROVE  ChecksStillHold'
  <2>1. CASE project.status = "settling" /\ Refuses
    BY <1>18, <2>1 DEF HookChecks
  <2>2. CASE ~ (project.status = "settling" /\ Refuses)
    <3>1. checked' = (project.status = "settling")
      BY <1>18, <2>2 DEF HookChecks
    <3>2. \A t \in Sessions : session'[t].pc = "complete" => t = s
      BY <1>18, <2>2 DEF HookChecks, Rows
    <3>3. checked' => Clean
      BY <3>1, <2>2 DEF Refuses
    <3> QED BY <1>18, <3>1, <3>2, <3>3 DEF HookChecks
  <2> QED BY <2>1, <2>2
<1>19. ASSUME NEW s \in Sessions, CompleteProject(s)
      PROVE  ChecksStillHold'
  BY <1>19 DEF CompleteProject
<1>20. ASSUME NEW status \in Returned, ReturnSettlement(status)
      PROVE  ChecksStillHold'
  BY <1>20 DEF ReturnSettlement
<1>21. ASSUME NEW s \in Sessions, LockTimeout(s)
      PROVE  ChecksStillHold'
  BY <1>21 DEF LockTimeout
<1>22. ASSUME UNCHANGED vars
      PROVE  ChecksStillHold'
  BY <1>22 DEF vars
<1> HIDE PeriodsArePeriods, NoneIsNothing, RowsAreApart, BoundsArePositive DEF IInv, TypeOK, ChecksStillHold, LocksAreHeld, HoldsProject, Clean, InReview, Blocked, OpenExpenses, Session, Idle, Take, Release, Move, End
<1> QED
  BY <1>1, <1>2, <1>3, <1>4, <1>5, <1>6, <1>7, <1>8, <1>9, <1>10, <1>11, <1>12, <1>13, <1>14, <1>15, <1>16, <1>17, <1>18, <1>19, <1>20, <1>21, <1>22
     DEF Next, ProjectSteps, ExpenseSteps, SettlementSteps

\* Every step keeps completion and final approval together.
LEMMA StepKeepsCompletion ==
    ASSUME IInv, [Next]_vars
    PROVE  CompletionFollowsApproval'
<1> USE PeriodsArePeriods, NoneIsNothing, RowsAreApart, BoundsArePositive DEF IInv, TypeOK, CompletionFollowsApproval, Session, Document, LoadProjectForGate, AllowsAutoSettle
<1>1. ASSUME NextDay
      PROVE  CompletionFollowsApproval'
  BY <1>1 DEF NextDay
<1>2. ASSUME ApplyAutoSettlement
      PROVE  CompletionFollowsApproval'
  BY <1>2 DEF ApplyAutoSettlement, Project
<1>3. ASSUME NEW to \in Statuses, ChangeProjectStatus(to)
      PROVE  CompletionFollowsApproval'
  BY <1>3 DEF ChangeProjectStatus, ManualTransitions, Project
<1>4. ASSUME NEW s \in Sessions, SavePeriod(s)
      PROVE  CompletionFollowsApproval'
  <2>1. project'.status = "completed" <=> project.status = "completed"
    BY <1>4 DEF SavePeriod, PeriodEditRights, ResolvePeriodSave, Project
  <2> QED BY <1>4, <2>1 DEF SavePeriod
<1>5. ASSUME NEW s \in Sessions, NEW input \in Periods, NEW lead \in BOOLEAN, BeginPeriod(s, input, lead)
      PROVE  CompletionFollowsApproval'
  BY <1>5 DEF BeginPeriod
<1>6. ASSUME NEW s \in Sessions, NEW e \in Expenses, BeginSubmitExpense(s, e)
      PROVE  CompletionFollowsApproval'
  BY <1>6 DEF BeginSubmitExpense
<1>7. ASSUME NEW s \in Sessions, LockProjectOfExpense(s)
      PROVE  CompletionFollowsApproval'
  BY <1>7 DEF LockProjectOfExpense
<1>8. ASSUME NEW s \in Sessions, LockExpense(s)
      PROVE  CompletionFollowsApproval'
  BY <1>8 DEF LockExpense
<1>9. ASSUME NEW s \in Sessions, SubmitExpense(s)
      PROVE  CompletionFollowsApproval'
  BY <1>9 DEF SubmitExpense
<1>10. ASSUME NEW e \in Expenses, NEW status \in DocumentStatuses, DecideExpense(e, status)
      PROVE  CompletionFollowsApproval'
  BY <1>10 DEF DecideExpense
<1>11. ASSUME NEW e \in Expenses, CloseExpense(e)
      PROVE  CompletionFollowsApproval'
  BY <1>11 DEF CloseExpense
<1>12. ASSUME NEW s \in Sessions, BeginSettlement(s)
      PROVE  CompletionFollowsApproval'
  BY <1>12 DEF BeginSettlement
<1>13. ASSUME NEW s \in Sessions, InsertSettlement(s)
      PROVE  CompletionFollowsApproval'
  BY <1>13 DEF InsertSettlement
<1>14. ASSUME NEW s \in Sessions, CheckSettlement(s)
      PROVE  CompletionFollowsApproval'
  BY <1>14 DEF CheckSettlement
<1>15. ASSUME NEW s \in Sessions, SubmitSettlement(s)
      PROVE  CompletionFollowsApproval'
  BY <1>15 DEF SubmitSettlement, SubmissionsAreDue
<1>16. ASSUME NEW s \in Sessions, ApproveSettlement(s)
      PROVE  CompletionFollowsApproval'
  BY <1>16 DEF ApproveSettlement
<1>17. ASSUME NEW s \in Sessions, HookLocksProject(s)
      PROVE  CompletionFollowsApproval'
  BY <1>17 DEF HookLocksProject
<1>18. ASSUME NEW s \in Sessions, HookChecks(s)
      PROVE  CompletionFollowsApproval'
  BY <1>18 DEF HookChecks
<1>19. ASSUME NEW s \in Sessions, CompleteProject(s)
      PROVE  CompletionFollowsApproval'
  BY <1>19 DEF CompleteProject, Project, ApprovalsAreOpen
<1>20. ASSUME NEW status \in Returned, ReturnSettlement(status)
      PROVE  CompletionFollowsApproval'
  BY <1>20 DEF ReturnSettlement, Returned
<1>21. ASSUME NEW s \in Sessions, LockTimeout(s)
      PROVE  CompletionFollowsApproval'
  BY <1>21 DEF LockTimeout
<1>22. ASSUME UNCHANGED vars
      PROVE  CompletionFollowsApproval'
  BY <1>22 DEF vars
<1> HIDE PeriodsArePeriods, NoneIsNothing, RowsAreApart, BoundsArePositive DEF IInv, TypeOK, CompletionFollowsApproval, Session, Document, LoadProjectForGate, AllowsAutoSettle
<1> QED
  BY <1>1, <1>2, <1>3, <1>4, <1>5, <1>6, <1>7, <1>8, <1>9, <1>10, <1>11, <1>12, <1>13, <1>14, <1>15, <1>16, <1>17, <1>18, <1>19, <1>20, <1>21, <1>22
     DEF Next, ProjectSteps, ExpenseSteps, SettlementSteps

\* Every step keeps a checked and completed project clean.
LEMMA StepKeepsClean ==
    ASSUME IInv, [Next]_vars
    PROVE  CheckedCompletionIsClean'
<1> USE PeriodsArePeriods, NoneIsNothing, RowsAreApart, BoundsArePositive DEF IInv, TypeOK, CheckedCompletionIsClean, Clean, InReview, Blocked, OpenExpenses
<1>1. ASSUME NextDay
      PROVE  CheckedCompletionIsClean'
  BY <1>1 DEF NextDay
<1>2. ASSUME ApplyAutoSettlement
      PROVE  CheckedCompletionIsClean'
  BY <1>2 DEF ApplyAutoSettlement, LoadProjectForGate, AllowsAutoSettle, Project
<1>3. ASSUME NEW to \in Statuses, ChangeProjectStatus(to)
      PROVE  CheckedCompletionIsClean'
  BY <1>3 DEF ChangeProjectStatus, ManualTransitions, Project
<1>4. ASSUME NEW s \in Sessions, SavePeriod(s)
      PROVE  CheckedCompletionIsClean'
  <2>1. project'.status = "completed" <=> project.status = "completed"
    BY <1>4 DEF SavePeriod, PeriodEditRights, ResolvePeriodSave, Project, LoadProjectForGate, AllowsAutoSettle
  <2> QED BY <1>4, <2>1 DEF SavePeriod
<1>5. ASSUME NEW s \in Sessions, NEW input \in Periods, NEW lead \in BOOLEAN, BeginPeriod(s, input, lead)
      PROVE  CheckedCompletionIsClean'
  BY <1>5 DEF BeginPeriod
<1>6. ASSUME NEW s \in Sessions, NEW e \in Expenses, BeginSubmitExpense(s, e)
      PROVE  CheckedCompletionIsClean'
  BY <1>6 DEF BeginSubmitExpense
<1>7. ASSUME NEW s \in Sessions, LockProjectOfExpense(s)
      PROVE  CheckedCompletionIsClean'
  BY <1>7 DEF LockProjectOfExpense
<1>8. ASSUME NEW s \in Sessions, LockExpense(s)
      PROVE  CheckedCompletionIsClean'
  BY <1>8 DEF LockExpense
<1>9. ASSUME NEW s \in Sessions, SubmitExpense(s)
      PROVE  CheckedCompletionIsClean'
  BY <1>9 DEF SubmitExpense, MaySubmit, RequestsAreComplete, Expense
<1>10. ASSUME NEW e \in Expenses, NEW status \in DocumentStatuses, DecideExpense(e, status)
      PROVE  CheckedCompletionIsClean'
  BY <1>10 DEF DecideExpense, Expense
<1>11. ASSUME NEW e \in Expenses, CloseExpense(e)
      PROVE  CheckedCompletionIsClean'
  BY <1>11 DEF CloseExpense, Expense
<1>12. ASSUME NEW s \in Sessions, BeginSettlement(s)
      PROVE  CheckedCompletionIsClean'
  BY <1>12 DEF BeginSettlement
<1>13. ASSUME NEW s \in Sessions, InsertSettlement(s)
      PROVE  CheckedCompletionIsClean'
  BY <1>13 DEF InsertSettlement
<1>14. ASSUME NEW s \in Sessions, CheckSettlement(s)
      PROVE  CheckedCompletionIsClean'
  BY <1>14 DEF CheckSettlement
<1>15. ASSUME NEW s \in Sessions, SubmitSettlement(s)
      PROVE  CheckedCompletionIsClean'
  BY <1>15 DEF SubmitSettlement
<1>16. ASSUME NEW s \in Sessions, ApproveSettlement(s)
      PROVE  CheckedCompletionIsClean'
  BY <1>16 DEF ApproveSettlement
<1>17. ASSUME NEW s \in Sessions, HookLocksProject(s)
      PROVE  CheckedCompletionIsClean'
  BY <1>17 DEF HookLocksProject
<1>18. ASSUME NEW s \in Sessions, HookChecks(s)
      PROVE  CheckedCompletionIsClean'
  BY <1>18 DEF HookChecks, CompletionFollowsApproval, ApprovalsAreOpen, Session, Document
<1>19. ASSUME NEW s \in Sessions, CompleteProject(s)
      PROVE  CheckedCompletionIsClean'
  BY <1>19 DEF CompleteProject, ChecksStillHold, Session
<1>20. ASSUME NEW status \in Returned, ReturnSettlement(status)
      PROVE  CheckedCompletionIsClean'
  BY <1>20 DEF ReturnSettlement
<1>21. ASSUME NEW s \in Sessions, LockTimeout(s)
      PROVE  CheckedCompletionIsClean'
  BY <1>21 DEF LockTimeout
<1>22. ASSUME UNCHANGED vars
      PROVE  CheckedCompletionIsClean'
  BY <1>22 DEF vars
<1> HIDE PeriodsArePeriods, NoneIsNothing, RowsAreApart, BoundsArePositive DEF IInv, TypeOK, CheckedCompletionIsClean, Clean, InReview, Blocked, OpenExpenses
<1> QED
  BY <1>1, <1>2, <1>3, <1>4, <1>5, <1>6, <1>7, <1>8, <1>9, <1>10, <1>11, <1>12, <1>13, <1>14, <1>15, <1>16, <1>17, <1>18, <1>19, <1>20, <1>21, <1>22
     DEF Next, ProjectSteps, ExpenseSteps, SettlementSteps

\* Every step keeps a settling or completed project past its end.
LEMMA StepKeepsEnds ==
    ASSUME IInv, [Next]_vars
    PROVE  SettledProjectsHaveEnded'
<1> USE PeriodsArePeriods, NoneIsNothing, RowsAreApart, BoundsArePositive DEF IInv, TypeOK, SettledProjectsHaveEnded, Project, Dates, Days, LoadProjectForGate, AllowsAutoSettle
<1>1. ASSUME NextDay
      PROVE  SettledProjectsHaveEnded'
  BY <1>1 DEF NextDay
<1>2. ASSUME ApplyAutoSettlement
      PROVE  SettledProjectsHaveEnded'
  BY <1>2 DEF ApplyAutoSettlement
<1>3. ASSUME NEW to \in Statuses, ChangeProjectStatus(to)
      PROVE  SettledProjectsHaveEnded'
  BY <1>3 DEF ChangeProjectStatus, ManualTransitions
<1>4. ASSUME NEW s \in Sessions, SavePeriod(s)
      PROVE  SettledProjectsHaveEnded'
  <2> DEFINE row == LoadProjectForGate(project, today)
             input == session[s].input
             rights == PeriodEditRights(row.status, session[s].lead)
             Saved(day) == ResolvePeriodSave(row, input, day)
  <2>1. /\ row \in Project /\ input \in Periods
        /\ session[s].day \in Days
    BY <1>4, GateKeepsType DEF SavePeriod, RequestsAreComplete
  <2>2. ASSUME NEW day \in session[s].day..today, rights # "none",
               ValidPeriodChange(row, rights, input, day),
               Saved(day).status \in {"settling", "completed"}
        PROVE  Saved(day).end # None /\ Saved(day).end < today
    <3>1. row.status = "settling"
      BY <2>2, <2>1 DEF ResolvePeriodSave, PeriodEditRights
    <3>2. SavedEnd(row.status, input) \in Days
      BY <2>1, <2>2, <3>1 DEF ValidPeriodChange, SavedEnd, Progressed, Period
    <3> QED BY <2>1, <2>2, <3>1, <3>2 DEF ResolvePeriodSave
  <2>3. \A day : Saved(day) \in Project
    BY <2>1, SaveKeepsType
  <2>4. PICK day \in session[s].day..today :
           \/ project' = project
           \/ /\ rights # "none" /\ ValidPeriodChange(row, rights, input, day)
              /\ project' = LoadProjectForGate(Saved(day), today)
    BY <1>4 DEF SavePeriod
  <2>5. today' = today
    BY <1>4 DEF SavePeriod
  <2> QED BY <2>2, <2>3, <2>4, <2>5
<1>5. ASSUME NEW s \in Sessions, NEW input \in Periods, NEW lead \in BOOLEAN, BeginPeriod(s, input, lead)
      PROVE  SettledProjectsHaveEnded'
  BY <1>5 DEF BeginPeriod
<1>6. ASSUME NEW s \in Sessions, NEW e \in Expenses, BeginSubmitExpense(s, e)
      PROVE  SettledProjectsHaveEnded'
  BY <1>6 DEF BeginSubmitExpense
<1>7. ASSUME NEW s \in Sessions, LockProjectOfExpense(s)
      PROVE  SettledProjectsHaveEnded'
  BY <1>7 DEF LockProjectOfExpense
<1>8. ASSUME NEW s \in Sessions, LockExpense(s)
      PROVE  SettledProjectsHaveEnded'
  BY <1>8 DEF LockExpense
<1>9. ASSUME NEW s \in Sessions, SubmitExpense(s)
      PROVE  SettledProjectsHaveEnded'
  BY <1>9 DEF SubmitExpense
<1>10. ASSUME NEW e \in Expenses, NEW status \in DocumentStatuses, DecideExpense(e, status)
      PROVE  SettledProjectsHaveEnded'
  BY <1>10 DEF DecideExpense
<1>11. ASSUME NEW e \in Expenses, CloseExpense(e)
      PROVE  SettledProjectsHaveEnded'
  BY <1>11 DEF CloseExpense
<1>12. ASSUME NEW s \in Sessions, BeginSettlement(s)
      PROVE  SettledProjectsHaveEnded'
  BY <1>12 DEF BeginSettlement
<1>13. ASSUME NEW s \in Sessions, InsertSettlement(s)
      PROVE  SettledProjectsHaveEnded'
  BY <1>13 DEF InsertSettlement
<1>14. ASSUME NEW s \in Sessions, CheckSettlement(s)
      PROVE  SettledProjectsHaveEnded'
  BY <1>14 DEF CheckSettlement
<1>15. ASSUME NEW s \in Sessions, SubmitSettlement(s)
      PROVE  SettledProjectsHaveEnded'
  BY <1>15 DEF SubmitSettlement
<1>16. ASSUME NEW s \in Sessions, ApproveSettlement(s)
      PROVE  SettledProjectsHaveEnded'
  BY <1>16 DEF ApproveSettlement
<1>17. ASSUME NEW s \in Sessions, HookLocksProject(s)
      PROVE  SettledProjectsHaveEnded'
  BY <1>17 DEF HookLocksProject
<1>18. ASSUME NEW s \in Sessions, HookChecks(s)
      PROVE  SettledProjectsHaveEnded'
  BY <1>18 DEF HookChecks
<1>19. ASSUME NEW s \in Sessions, CompleteProject(s)
      PROVE  SettledProjectsHaveEnded'
  BY <1>19 DEF CompleteProject
<1>20. ASSUME NEW status \in Returned, ReturnSettlement(status)
      PROVE  SettledProjectsHaveEnded'
  BY <1>20 DEF ReturnSettlement
<1>21. ASSUME NEW s \in Sessions, LockTimeout(s)
      PROVE  SettledProjectsHaveEnded'
  BY <1>21 DEF LockTimeout
<1>22. ASSUME UNCHANGED vars
      PROVE  SettledProjectsHaveEnded'
  BY <1>22 DEF vars
<1> HIDE PeriodsArePeriods, NoneIsNothing, RowsAreApart, BoundsArePositive DEF IInv, TypeOK, SettledProjectsHaveEnded, Project, Dates, Days, LoadProjectForGate, AllowsAutoSettle
<1> QED
  BY <1>1, <1>2, <1>3, <1>4, <1>5, <1>6, <1>7, <1>8, <1>9, <1>10, <1>11, <1>12, <1>13, <1>14, <1>15, <1>16, <1>17, <1>18, <1>19, <1>20, <1>21, <1>22
     DEF Next, ProjectSteps, ExpenseSteps, SettlementSteps

\* Every step keeps closed expenses over.
LEMMA StepKeepsClosed ==
    ASSUME IInv, [Next]_vars
    PROVE  ClosedExpensesAreOver'
<1> USE PeriodsArePeriods, NoneIsNothing, RowsAreApart, BoundsArePositive DEF IInv, TypeOK, ClosedExpensesAreOver, Expense
<1>1. ASSUME NextDay
      PROVE  ClosedExpensesAreOver'
  BY <1>1 DEF NextDay
<1>2. ASSUME ApplyAutoSettlement
      PROVE  ClosedExpensesAreOver'
  BY <1>2 DEF ApplyAutoSettlement
<1>3. ASSUME NEW to \in Statuses, ChangeProjectStatus(to)
      PROVE  ClosedExpensesAreOver'
  BY <1>3 DEF ChangeProjectStatus
<1>4. ASSUME NEW s \in Sessions, SavePeriod(s)
      PROVE  ClosedExpensesAreOver'
  BY <1>4 DEF SavePeriod
<1>5. ASSUME NEW s \in Sessions, NEW input \in Periods, NEW lead \in BOOLEAN, BeginPeriod(s, input, lead)
      PROVE  ClosedExpensesAreOver'
  BY <1>5 DEF BeginPeriod
<1>6. ASSUME NEW s \in Sessions, NEW e \in Expenses, BeginSubmitExpense(s, e)
      PROVE  ClosedExpensesAreOver'
  BY <1>6 DEF BeginSubmitExpense
<1>7. ASSUME NEW s \in Sessions, LockProjectOfExpense(s)
      PROVE  ClosedExpensesAreOver'
  BY <1>7 DEF LockProjectOfExpense
<1>8. ASSUME NEW s \in Sessions, LockExpense(s)
      PROVE  ClosedExpensesAreOver'
  BY <1>8 DEF LockExpense
<1>9. ASSUME NEW s \in Sessions, SubmitExpense(s)
      PROVE  ClosedExpensesAreOver'
  BY <1>9 DEF SubmitExpense, MaySubmit, RequestsAreComplete
<1>10. ASSUME NEW e \in Expenses, NEW status \in DocumentStatuses, DecideExpense(e, status)
      PROVE  ClosedExpensesAreOver'
  BY <1>10 DEF DecideExpense, Returned
<1>11. ASSUME NEW e \in Expenses, CloseExpense(e)
      PROVE  ClosedExpensesAreOver'
  BY <1>11 DEF CloseExpense
<1>12. ASSUME NEW s \in Sessions, BeginSettlement(s)
      PROVE  ClosedExpensesAreOver'
  BY <1>12 DEF BeginSettlement
<1>13. ASSUME NEW s \in Sessions, InsertSettlement(s)
      PROVE  ClosedExpensesAreOver'
  BY <1>13 DEF InsertSettlement
<1>14. ASSUME NEW s \in Sessions, CheckSettlement(s)
      PROVE  ClosedExpensesAreOver'
  BY <1>14 DEF CheckSettlement
<1>15. ASSUME NEW s \in Sessions, SubmitSettlement(s)
      PROVE  ClosedExpensesAreOver'
  BY <1>15 DEF SubmitSettlement
<1>16. ASSUME NEW s \in Sessions, ApproveSettlement(s)
      PROVE  ClosedExpensesAreOver'
  BY <1>16 DEF ApproveSettlement
<1>17. ASSUME NEW s \in Sessions, HookLocksProject(s)
      PROVE  ClosedExpensesAreOver'
  BY <1>17 DEF HookLocksProject
<1>18. ASSUME NEW s \in Sessions, HookChecks(s)
      PROVE  ClosedExpensesAreOver'
  BY <1>18 DEF HookChecks
<1>19. ASSUME NEW s \in Sessions, CompleteProject(s)
      PROVE  ClosedExpensesAreOver'
  BY <1>19 DEF CompleteProject
<1>20. ASSUME NEW status \in Returned, ReturnSettlement(status)
      PROVE  ClosedExpensesAreOver'
  BY <1>20 DEF ReturnSettlement
<1>21. ASSUME NEW s \in Sessions, LockTimeout(s)
      PROVE  ClosedExpensesAreOver'
  BY <1>21 DEF LockTimeout
<1>22. ASSUME UNCHANGED vars
      PROVE  ClosedExpensesAreOver'
  BY <1>22 DEF vars
<1> HIDE PeriodsArePeriods, NoneIsNothing, RowsAreApart, BoundsArePositive DEF IInv, TypeOK, ClosedExpensesAreOver, Expense
<1> QED
  BY <1>1, <1>2, <1>3, <1>4, <1>5, <1>6, <1>7, <1>8, <1>9, <1>10, <1>11, <1>12, <1>13, <1>14, <1>15, <1>16, <1>17, <1>18, <1>19, <1>20, <1>21, <1>22
     DEF Next, ProjectSteps, ExpenseSteps, SettlementSteps

\* No step touches a completed project or submits an expense for it.
LEMMA StepFreezesCompleted ==
    ASSUME IInv, [Next]_vars
    PROVE  Frozen
<1> USE PeriodsArePeriods, NoneIsNothing, RowsAreApart, BoundsArePositive DEF IInv, TypeOK, Frozen, Expense
<1>1. ASSUME NextDay
      PROVE  Frozen
  BY <1>1 DEF NextDay
<1>2. ASSUME ApplyAutoSettlement
      PROVE  Frozen
  BY <1>2 DEF ApplyAutoSettlement, AllowsAutoSettle
<1>3. ASSUME NEW to \in Statuses, ChangeProjectStatus(to)
      PROVE  Frozen
  BY <1>3 DEF ChangeProjectStatus, ManualTransitions
<1>4. ASSUME NEW s \in Sessions, SavePeriod(s)
      PROVE  Frozen
  BY <1>4 DEF SavePeriod, PeriodEditRights, LoadProjectForGate, AllowsAutoSettle
<1>5. ASSUME NEW s \in Sessions, NEW input \in Periods, NEW lead \in BOOLEAN, BeginPeriod(s, input, lead)
      PROVE  Frozen
  BY <1>5 DEF BeginPeriod
<1>6. ASSUME NEW s \in Sessions, NEW e \in Expenses, BeginSubmitExpense(s, e)
      PROVE  Frozen
  BY <1>6 DEF BeginSubmitExpense
<1>7. ASSUME NEW s \in Sessions, LockProjectOfExpense(s)
      PROVE  Frozen
  BY <1>7 DEF LockProjectOfExpense
<1>8. ASSUME NEW s \in Sessions, LockExpense(s)
      PROVE  Frozen
  BY <1>8 DEF LockExpense
<1>9. ASSUME NEW s \in Sessions, SubmitExpense(s)
      PROVE  Frozen
  BY <1>9 DEF SubmitExpense, MaySubmit, RequestsAreComplete
<1>10. ASSUME NEW e \in Expenses, NEW status \in DocumentStatuses, DecideExpense(e, status)
      PROVE  Frozen
  BY <1>10 DEF DecideExpense, Returned
<1>11. ASSUME NEW e \in Expenses, CloseExpense(e)
      PROVE  Frozen
  BY <1>11 DEF CloseExpense
<1>12. ASSUME NEW s \in Sessions, BeginSettlement(s)
      PROVE  Frozen
  BY <1>12 DEF BeginSettlement
<1>13. ASSUME NEW s \in Sessions, InsertSettlement(s)
      PROVE  Frozen
  BY <1>13 DEF InsertSettlement
<1>14. ASSUME NEW s \in Sessions, CheckSettlement(s)
      PROVE  Frozen
  BY <1>14 DEF CheckSettlement
<1>15. ASSUME NEW s \in Sessions, SubmitSettlement(s)
      PROVE  Frozen
  BY <1>15 DEF SubmitSettlement
<1>16. ASSUME NEW s \in Sessions, ApproveSettlement(s)
      PROVE  Frozen
  BY <1>16 DEF ApproveSettlement
<1>17. ASSUME NEW s \in Sessions, HookLocksProject(s)
      PROVE  Frozen
  BY <1>17 DEF HookLocksProject
<1>18. ASSUME NEW s \in Sessions, HookChecks(s)
      PROVE  Frozen
  BY <1>18 DEF HookChecks
<1>19. ASSUME NEW s \in Sessions, CompleteProject(s)
      PROVE  Frozen
  BY <1>19 DEF CompleteProject, CompletionFollowsApproval, ApprovalsAreOpen
<1>20. ASSUME NEW status \in Returned, ReturnSettlement(status)
      PROVE  Frozen
  BY <1>20 DEF ReturnSettlement
<1>21. ASSUME NEW s \in Sessions, LockTimeout(s)
      PROVE  Frozen
  BY <1>21 DEF LockTimeout
<1>22. ASSUME UNCHANGED vars
      PROVE  Frozen
  BY <1>22 DEF vars
<1> HIDE PeriodsArePeriods, NoneIsNothing, RowsAreApart, BoundsArePositive DEF IInv, TypeOK, Frozen, Expense
<1> QED
  BY <1>1, <1>2, <1>3, <1>4, <1>5, <1>6, <1>7, <1>8, <1>9, <1>10, <1>11, <1>12, <1>13, <1>14, <1>15, <1>16, <1>17, <1>18, <1>19, <1>20, <1>21, <1>22
     DEF Next, ProjectSteps, ExpenseSteps, SettlementSteps

-----------------------------------------------------------------------------
(* The invariant and the theorems. *)

LEMMA InitEstablishes == Init => IInv
<1> SUFFICES ASSUME Init PROVE IInv
  OBVIOUS
<1>1. TypeOK
  <2>1. project \in Project
    BY DEF Init, Project, Statuses
  <2>2. settlement \in Document /\ expense \in [Expenses -> Expense]
    BY BoundsArePositive DEF Init, Document, Expense, DocumentStatuses
  <2>3. lock \in [Rows -> Sessions \cup {None}]
    BY DEF Init
  <2>4. Idle \in Session
    BY BoundsArePositive DEF Idle, Session, Dates
  <2>5. session \in [Sessions -> Session]
    BY <2>4 DEF Init
  <2>6. today \in Days
    BY BoundsArePositive DEF Init, Days
  <2>7. checked \in BOOLEAN
    BY Zenon DEF Init
  <2> QED BY <2>1, <2>2, <2>3, <2>5, <2>6, <2>7 DEF TypeOK
<1>2. \A s \in Sessions : session[s].pc = "idle"
  BY DEF Init, Idle
<1>3. LocksAreHeld /\ RequestsAreComplete /\ SubmissionsAreDue /\ ApprovalsAreOpen /\ ChecksStillHold
  BY <1>2 DEF LocksAreHeld, RequestsAreComplete, SubmissionsAreDue, ApprovalsAreOpen,
     ChecksStillHold, HoldsProject, HoldsSettlement
<1>4. CompletionFollowsApproval /\ CheckedCompletionIsClean /\ SettledProjectsHaveEnded
  BY DEF Init, CompletionFollowsApproval, CheckedCompletionIsClean, SettledProjectsHaveEnded
<1>5. ClosedExpensesAreOver
  BY DEF Init, ClosedExpensesAreOver
<1> QED BY <1>1, <1>3, <1>4, <1>5 DEF IInv

LEMMA StepKeepsInvariant == IInv /\ [Next]_vars => IInv'
<1> SUFFICES ASSUME IInv, [Next]_vars PROVE IInv'
  OBVIOUS
<1>1. TypeOK' /\ LocksAreHeld' /\ RequestsAreComplete'
  BY StepKeepsType, StepKeepsLocks, StepKeepsRequests
<1>2. SubmissionsAreDue' /\ ApprovalsAreOpen' /\ ChecksStillHold'
  BY StepKeepsSubmissions, StepKeepsApprovals, StepKeepsChecks
<1>3. CompletionFollowsApproval' /\ CheckedCompletionIsClean'
  BY StepKeepsCompletion, StepKeepsClean
<1>4. SettledProjectsHaveEnded' /\ ClosedExpensesAreOver'
  BY StepKeepsEnds, StepKeepsClosed
<1> QED BY <1>1, <1>2, <1>3, <1>4 DEF IInv

\* The inductive invariant holds of every state.
THEOREM InvariantHolds == Spec => []IInv
BY InitEstablishes, StepKeepsInvariant, PTL DEF Spec

\* Types: every row and every request keeps its shape.
THEOREM TypeCorrectness == Spec => []TypeOK
<1>1. IInv => TypeOK
  BY DEF IInv
<1> QED BY <1>1, InvariantHolds, PTL

\* A project is completed exactly when its settlement has its final approval.
THEOREM CompletionIsApproval == Spec => []CompletionFollowsApproval
<1>1. IInv => CompletionFollowsApproval
  BY DEF IInv
<1> QED BY <1>1, InvariantHolds, PTL

\* A project completed by an approval that ran its checks has no expense in
\* review, and no rejected one that the setting does not waive, from then on.
THEOREM CheckedCompletionStaysClean == Spec => []CheckedCompletionIsClean
<1>1. IInv => CheckedCompletionIsClean
  BY DEF IInv
<1> QED BY <1>1, InvariantHolds, PTL

\* A project is never settling or completed before the day it ends is over.
THEOREM SettlingFollowsTheEnd == Spec => []SettledProjectsHaveEnded
<1>1. IInv => SettledProjectsHaveEnded
  BY DEF IInv
<1> QED BY <1>1, InvariantHolds, PTL

\* A closed expense never comes back to review.
THEOREM ClosedStaysOver == Spec => []ClosedExpensesAreOver
<1>1. IInv => ClosedExpensesAreOver
  BY DEF IInv
<1> QED BY <1>1, InvariantHolds, PTL

\* Nothing changes a completed project, and no expense is submitted for it.
THEOREM CompletionIsFinal == Spec => CompletedProjectsAreFrozen
<1>1. IInv /\ [Next]_vars => [Frozen]_vars
  BY StepFreezesCompleted
<1>2. [Frozen]_vars => [project.status = "completed" =>
          /\ UNCHANGED project
          /\ \A e \in Expenses : expense'[e].status = "submitted" => expense[e].status = "submitted"]_vars
  BY DEF Frozen
<1> QED BY <1>1, <1>2, InvariantHolds, PTL DEF Spec, CompletedProjectsAreFrozen
=============================================================================
