-------------------------- MODULE ProjectSettlement --------------------------
(***************************************************************************)
(* The end of a project's life: its status and period (domain/projects),   *)
(* the settlement document whose final approval completes it               *)
(* (domain/settlements) and the expenses that must not be left open        *)
(* (domain/expenses, domain/pre-settle-check).                             *)
(*                                                                         *)
(* The requests run as transactions at READ COMMITTED that take row locks  *)
(* with SELECT ... FOR UPDATE or an UPDATE.  What a transaction has        *)
(* written is visible when it commits, so a session writes the rows in its *)
(* last step and holds the locks up to there.  A request that takes one    *)
(* row lock and waits for nothing while it holds it is one step, enabled   *)
(* when the row is free; a request that waits while it holds a row, or     *)
(* that uses later what it has read before, has a step for each.           *)
(*                                                                         *)
(* Left out: archived projects, the amounts and fields of an expense, the  *)
(* lines without a document and the missing revenue of the pre-settle      *)
(* check (taken as absent), and the earlier steps of a settlement's route. *)
(***************************************************************************)
EXTENDS Integers, FiniteSets

CONSTANTS
    Sessions,    \* concurrent requests
    Expenses,    \* the expense documents of the project
    Periods,     \* the pairs of a start and an end that are typed in
    AllowOpen,   \* the setting that waives open expenses in the check
    MaxDay,      \* bound on the calendar
    MaxVersion,  \* bound on the version of the settlement's instance
    None         \* no day, no session, no expense

Days == 1..MaxDay
Dates == Days \cup {None}
Period == [start : Dates, end : Dates]

ASSUME BoundsArePositive == MaxDay \in Nat \ {0} /\ MaxVersion \in Nat \ {0}
ASSUME PeriodsArePeriods == Periods \subseteq Period
ASSUME AllowOpenIsASetting == AllowOpen \in BOOLEAN
ASSUME NoneIsNothing == None \notin Int /\ None \notin Sessions /\ None \notin Expenses
ASSUME RowsAreApart == {"project", "settlement"} \cap Expenses = {}

VARIABLES
    today,       \* the day in Seoul
    project,     \* the row of projects: its status and its period
    settlement,  \* the row of approval_instances of the settlement document
    expense,     \* the state of every expense document
    lock,        \* which session holds which row
    session,     \* the requests under way
    checked      \* whether the final approval ran its checks (history)

vars == <<today, project, settlement, expense, lock, session, checked>>

Statuses == {"bidding", "in_progress", "settling", "completed", "lost"}
Progressed == {"in_progress", "settling", "completed"}
DocumentStatuses == {"draft", "submitted", "approved", "rejected", "withdrawn"}
Returned == {"rejected", "withdrawn"}

Project == [status : Statuses, start : Dates, end : Dates]
Document == [status : DocumentStatuses, version : 0..MaxVersion]
Expense == [status : DocumentStatuses, closed : BOOLEAN]
Rows == {"project", "settlement"} \cup Expenses

Idle == [pc |-> "idle", doc |-> None, seen |-> None, expected |-> 0, input |-> None,
         day |-> None, lead |-> FALSE]

-----------------------------------------------------------------------------
(* Rows and sessions. *)

Take(s, row) == lock[row] = None /\ lock' = [lock EXCEPT ![row] = s]

Release(s) == lock' = [row \in Rows |-> IF lock[row] = s THEN None ELSE lock[row]]

Move(s, pc) == session' = [session EXCEPT ![s].pc = pc]

\* Commit and rollback both end the request and free its rows.
End(s) == session' = [session EXCEPT ![s] = Idle] /\ Release(s)

\* The row a session must have for its next step.
Wanted(s) ==
    CASE session[s].pc \in {"submit", "period", "hook"} -> "project"
      [] session[s].pc = "submitRow"                    -> session[s].doc
      [] session[s].pc \in {"insert", "resubmit"}       -> "settlement"
      [] OTHER                                          -> None

WaitsFor(s, t) == s # t /\ Wanted(s) # None /\ lock[Wanted(s)] = t

-----------------------------------------------------------------------------
(* The day and the status of a project. *)

AllowsAutoSettle(row, day) ==
    row.status = "in_progress" /\ row.end # None /\ row.end < day

\* loadProjectForGate: the row as it is after the judgement of its end date.
LoadProjectForGate(row, day) ==
    IF AllowsAutoSettle(row, day) THEN [row EXCEPT !.status = "settling"] ELSE row

NextDay ==
    /\ today < MaxDay
    /\ today' = today + 1
    /\ UNCHANGED <<project, settlement, expense, lock, session, checked>>

\* A page or a list of projects is read: SKIP LOCKED passes over a held row.
ApplyAutoSettlement ==
    /\ lock["project"] = None
    /\ AllowsAutoSettle(project, today)
    /\ project' = LoadProjectForGate(project, today)
    /\ UNCHANGED <<today, settlement, expense, lock, session, checked>>

ManualTransitions ==
    {<<"bidding", "in_progress">>, <<"bidding", "lost">>, <<"lost", "in_progress">>}

\* A person changes the status; a project in progress has a whole period.
ChangeProjectStatus(to) ==
    /\ lock["project"] = None
    /\ <<project.status, to>> \in ManualTransitions
    /\ to = "in_progress" => project.start # None
    /\ project' = [project EXCEPT
           !.status = to,
           !.end = IF to = "in_progress" /\ project.end = None THEN project.start ELSE @]
    /\ UNCHANGED <<today, settlement, expense, lock, session, checked>>

-----------------------------------------------------------------------------
(* Saving a period (saveProjectLedger). *)

\* Mutant: the period of a completed project stays open to a team leader.
PeriodEditRightsOfLeader(status, lead) ==
    IF lead THEN "lead" ELSE IF status \notin {"settling", "completed"} THEN "pm" ELSE "none"

PeriodEditRights(status, lead) ==
    IF status = "completed" THEN "none"
    ELSE IF lead THEN "lead"
    ELSE IF status # "settling" THEN "pm" ELSE "none"

SavedEnd(status, input) ==
    IF input.end = None /\ status \in Progressed THEN input.start ELSE input.end

\* Mutant: the way back is judged on the field as typed, not as saved.
ResolvePeriodSaveAsTyped(row, input, day) ==
    LET end == SavedEnd(row.status, input)
        back == row.status = "settling" /\ input.end # None /\ input.end >= day
    IN  [status |-> IF back THEN "in_progress" ELSE row.status,
         start |-> input.start, end |-> end]

\* resolvePeriodSave: an end moved to today or later takes a project back.
ResolvePeriodSave(row, input, day) ==
    LET end == SavedEnd(row.status, input)
        back == row.status = "settling" /\ end # None /\ end >= day
    IN  [status |-> IF back THEN "in_progress" ELSE row.status,
         start |-> input.start, end |-> end]

ValidPeriodChange(row, rights, input, day) ==
    LET end == SavedEnd(row.status, input)
    IN  /\ row.status \in Progressed => input.start # None
        /\ input.start # None /\ end # None => input.start <= end
        /\ ~ (row.status = "in_progress" /\ rights = "pm" /\ end # None /\ end < day)

BeginPeriod(s, input, lead) ==
    /\ session[s] = Idle
    /\ session' = [session EXCEPT ![s] = [Idle EXCEPT !.pc = "period", !.seen = project,
           !.input = input, !.day = today, !.lead = lead]]
    /\ UNCHANGED <<today, project, settlement, expense, lock, checked>>

\* The day of the verdict was read before the lock; the two judgements of the
\* end date read it again.  A refusal rolls the first of them back as well.
SavePeriod(s) ==
    LET seen == session[s].seen
        input == session[s].input
        row == LoadProjectForGate(project, today)
        rights == PeriodEditRights(row.status, session[s].lead)
    IN  /\ session[s].pc = "period"
        /\ lock["project"] = None
        /\ \E day \in session[s].day..today :
              IF row = seen /\ rights # "none" /\ ValidPeriodChange(row, rights, input, day)
              THEN project' = LoadProjectForGate(ResolvePeriodSave(row, input, day), today)
              ELSE project' = project
        /\ End(s)
        /\ UNCHANGED <<today, settlement, expense, checked>>

-----------------------------------------------------------------------------
(* Expenses. *)

InReview == {e \in Expenses : expense[e].status = "submitted"}

\* What the pre-settle check counts as open: in review or rejected, not closed.
OpenExpenses == {e \in Expenses :
    ~ expense[e].closed /\ expense[e].status \in {"submitted", "rejected"}}

Blocked == ~ AllowOpen /\ OpenExpenses # {}

BeginSubmitExpense(s, e) ==
    /\ session[s] = Idle
    /\ session' = [session EXCEPT ![s] = [Idle EXCEPT !.pc = "submit", !.doc = e, !.seen = project]]
    /\ UNCHANGED <<today, project, settlement, expense, lock, checked>>

\* Mutant: the row of the project is read without a lock.
ReadProjectOfExpense(s) ==
    /\ session[s].pc = "submit"
    /\ Move(s, "submitRow")
    /\ UNCHANGED <<today, project, settlement, expense, lock, checked>>

LockProjectOfExpense(s) ==
    /\ session[s].pc = "submit"
    /\ Take(s, "project")
    /\ Move(s, "submitRow")
    /\ UNCHANGED <<today, project, settlement, expense, checked>>

LockExpense(s) ==
    /\ session[s].pc = "submitRow"
    /\ Take(s, session[s].doc)
    /\ Move(s, "submitJudge")
    /\ UNCHANGED <<today, project, settlement, expense, checked>>

\* Mutant: a closed document may be submitted again.
MaySubmitClosed(s) ==
    LET doc == expense[session[s].doc]
    IN  doc.status \in {"draft"} \cup Returned /\ project.status # "completed"

\* The refusals of submitExpense that the properties tell apart.
MaySubmit(s) ==
    LET doc == expense[session[s].doc]
    IN  /\ doc.status \in {"draft"} \cup Returned
        /\ ~ doc.closed
        /\ project.status # "completed"

SubmitExpense(s) ==
    /\ session[s].pc = "submitJudge"
    /\ expense' = IF MaySubmit(s)
                  THEN [expense EXCEPT ![session[s].doc].status = "submitted"] ELSE expense
    /\ End(s)
    /\ UNCHANGED <<today, project, settlement, checked>>

\* A final approval, a rejection or a withdrawal: no row of these but its own.
DecideExpense(e, status) ==
    /\ expense[e].status = "submitted"
    /\ status \in {"approved"} \cup Returned
    /\ expense' = [expense EXCEPT ![e].status = status]
    /\ UNCHANGED <<today, project, settlement, lock, session, checked>>

\* closeExpense: under the lock of the document's row alone.
CloseExpense(e) ==
    /\ lock[e] = None
    /\ ~ expense[e].closed /\ expense[e].status \in Returned
    /\ expense' = [expense EXCEPT ![e].closed = TRUE]
    /\ UNCHANGED <<today, project, settlement, lock, session, checked>>

-----------------------------------------------------------------------------
(* Submitting, returning and approving the settlement. *)

\* The transaction reads the status of the project without locking it.
BeginSettlement(s) ==
    /\ session[s] = Idle
    /\ project.status = "settling"
    /\ session' = [session EXCEPT ![s].pc = IF settlement.status = "draft" THEN "insert" ELSE "found"]
    /\ UNCHANGED <<today, project, settlement, expense, lock, checked>>

\* INSERT ... ON CONFLICT DO NOTHING waits for another that is inserting.
InsertSettlement(s) ==
    /\ session[s].pc = "insert"
    /\ Take(s, "settlement")
    /\ Move(s, "found")
    /\ UNCHANGED <<today, project, settlement, expense, checked>>

\* The instance is read, and the pre-settle check is made in this transaction
\* (a version at its bound ends the request).
CheckSettlement(s) ==
    /\ session[s].pc = "found"
    /\ IF settlement.status \in {"submitted", "approved"} \/ Blocked \/ settlement.version = MaxVersion
       THEN End(s)
       ELSE /\ session' = [session EXCEPT
                   ![s].pc = IF lock["settlement"] = s THEN "first" ELSE "resubmit",
                   ![s].expected = settlement.version]
            /\ UNCHANGED lock
    /\ UNCHANGED <<today, project, settlement, expense, checked>>

\* The insert, or the UPDATE of the version that was read.
SubmitSettlement(s) ==
    /\ \/ session[s].pc = "first"
       \/ session[s].pc = "resubmit" /\ lock["settlement"] = None
    /\ settlement' = IF settlement.version = session[s].expected
                     THEN [status |-> "submitted", version |-> settlement.version + 1]
                     ELSE settlement
    /\ End(s)
    /\ UNCHANGED <<today, project, expense, checked>>

\* A rejection or a withdrawal, refused when the version has moved.
ReturnSettlement(status) ==
    /\ lock["settlement"] = None
    /\ settlement.status = "submitted" /\ status \in Returned
    /\ settlement.version < MaxVersion
    /\ settlement' = [status |-> status, version |-> settlement.version + 1]
    /\ UNCHANGED <<today, project, expense, lock, session, checked>>

\* The final approval: the UPDATE of the instance, then the hook.
ApproveSettlement(s) ==
    /\ session[s] = Idle
    /\ settlement.status = "submitted" /\ settlement.version < MaxVersion
    /\ Take(s, "settlement")
    /\ Move(s, "hook")
    /\ UNCHANGED <<today, project, settlement, expense, checked>>

\* The hook locks the project row.
HookLocksProject(s) ==
    /\ session[s].pc = "hook"
    /\ Take(s, "project")
    /\ Move(s, "recheck")
    /\ UNCHANGED <<today, project, settlement, expense, checked>>

\* First the expenses in review, which nothing waives, then the check.
Refuses == InReview # {} \/ Blocked

\* The checks run on a row that is settling when it is locked, and only then.
HookChecks(s) ==
    /\ session[s].pc = "recheck"
    /\ IF project.status = "settling" /\ Refuses
       THEN End(s) /\ UNCHANGED checked
       ELSE /\ Move(s, "complete") /\ UNCHANGED lock
            /\ checked' = (project.status = "settling")
    /\ UNCHANGED <<today, project, settlement, expense>>

\* Mutant: the approval is committed although the project did not follow it.
CompleteProjectAfterwards(s) ==
    LET row == LoadProjectForGate(project, today)
    IN  /\ session[s].pc = "complete"
        /\ project' = IF row.status = "settling" THEN [row EXCEPT !.status = "completed"] ELSE project
        /\ settlement' = [status |-> "approved", version |-> settlement.version + 1]
        /\ End(s)
        /\ UNCHANGED <<today, expense, checked>>

\* changeProjectStatus judges the end date first; a refusal undoes the approval.
CompleteProject(s) ==
    LET row == LoadProjectForGate(project, today)
    IN  /\ session[s].pc = "complete"
        /\ IF row.status = "settling"
           THEN /\ project' = [row EXCEPT !.status = "completed"]
                /\ settlement' = [status |-> "approved", version |-> settlement.version + 1]
           ELSE UNCHANGED <<project, settlement>>
        /\ End(s)
        /\ UNCHANGED <<today, expense, checked>>

\* lock_timeout: a request that waits for a row is rolled back.
LockTimeout(s) ==
    /\ \E t \in Sessions : WaitsFor(s, t)
    /\ End(s)
    /\ UNCHANGED <<today, project, settlement, expense, checked>>

-----------------------------------------------------------------------------
Init ==
    /\ today = 1
    /\ project \in [status : {"bidding"}, start : Dates, end : Dates]
    /\ [start |-> project.start, end |-> project.end] \in Periods
    /\ settlement = [status |-> "draft", version |-> 0]
    /\ expense = [e \in Expenses |-> [status |-> "draft", closed |-> FALSE]]
    /\ lock = [row \in Rows |-> None]
    /\ session = [s \in Sessions |-> Idle]
    /\ checked = FALSE

ProjectSteps ==
    \/ NextDay
    \/ ApplyAutoSettlement
    \/ \E to \in Statuses : ChangeProjectStatus(to)
    \/ \E s \in Sessions : SavePeriod(s)
    \/ \E s \in Sessions, input \in Periods, lead \in BOOLEAN : BeginPeriod(s, input, lead)

ExpenseSteps ==
    \/ \E s \in Sessions, e \in Expenses : BeginSubmitExpense(s, e)
    \/ \E s \in Sessions : LockProjectOfExpense(s) \/ LockExpense(s) \/ SubmitExpense(s)
    \/ \E e \in Expenses, status \in DocumentStatuses : DecideExpense(e, status)
    \/ \E e \in Expenses : CloseExpense(e)

SettlementSteps ==
    \/ \E s \in Sessions : BeginSettlement(s) \/ InsertSettlement(s) \/ CheckSettlement(s)
    \/ \E s \in Sessions : SubmitSettlement(s) \/ ApproveSettlement(s)
    \/ \E s \in Sessions : HookLocksProject(s) \/ HookChecks(s) \/ CompleteProject(s)
    \/ \E status \in Returned : ReturnSettlement(status)
    \/ \E s \in Sessions : LockTimeout(s)

Next == ProjectSteps \/ ExpenseSteps \/ SettlementSteps

Spec == Init /\ [][Next]_vars
-----------------------------------------------------------------------------
(* Properties. *)

Session ==
    [pc : {"idle", "submit", "submitRow", "submitJudge", "period", "insert", "found",
           "first", "resubmit", "hook", "recheck", "complete"},
     doc : Expenses \cup {None}, seen : Project \cup {None}, expected : 0..MaxVersion,
     input : Periods \cup {None}, day : Dates, lead : BOOLEAN]

\* The rows and the requests have the shapes the schema and the code give them.
TypeOK ==
    /\ today \in Days
    /\ project \in Project
    /\ settlement \in Document
    /\ expense \in [Expenses -> Expense]
    /\ lock \in [Rows -> Sessions \cup {None}]
    /\ session \in [Sessions -> Session]
    /\ checked \in BOOLEAN

\* A project is completed exactly when its settlement is approved: the final
\* approval and the completion stand or fall together (onFinalApprovalInTx).
CompletionFollowsApproval ==
    project.status = "completed" <=> settlement.status = "approved"

\* No expense is in review or left rejected, unless the setting waives the latter.
Clean == InReview = {} /\ ~ Blocked

\* A project whose final approval found it settling is clean from then on:
\* no submission that was under way while the checks ran reaches review after
\* it (the project row is locked on both paths).
CheckedCompletionIsClean == project.status = "completed" /\ checked => Clean

\* What the code says of every final approval: "05 /review A8: ..." stops one
\* while an expense is in review, and a project that has gone back to progress
\* is refused (settlements/index.ts, above the hook).
CompletionIsClean == project.status = "completed" => Clean

\* A project is settling, and completed, only after the day it ends: an end
\* moved to today or later always takes it back to progress (resolvePeriodSave,
\* loadProjectForGate), whatever day the request had read before its lock.
SettledProjectsHaveEnded ==
    project.status \in {"settling", "completed"} => project.end # None /\ project.end < today

\* A closed expense stays over: a submission that read the document before it
\* was closed does not bring it back (closeExpense, submitExpense).
ClosedExpensesAreOver == \A e \in Expenses : expense[e].closed => expense[e].status \in Returned

\* A completed project takes no new expense, no new period and no other status,
\* also from requests that had read it before it was completed.
CompletedProjectsAreFrozen ==
    [][project.status = "completed" =>
          /\ UNCHANGED project
          /\ \A e \in Expenses : expense'[e].status = "submitted" => expense[e].status = "submitted"]_vars
=============================================================================
