--------------------------- MODULE LeaveRequests ---------------------------
(***************************************************************************)
(* Requests for leave: submission and resubmission under the lock of the   *)
(* drafter, the check against the other requests, and the number of a new  *)
(* request (DocumentNumbering), beside expenses that get numbers of their  *)
(* own.                                                                    *)
(*                                                                         *)
(* What is read before the transaction is the table of holidays; it may    *)
(* change before the check, which goes by what was read, and after it.  A  *)
(* request is for some consecutive days, whole or half; a quarter, or a    *)
(* day of work at home, counts as a whole day here, because the check      *)
(* treats it so.  All days are of one fiscal year: a request does not      *)
(* cross years.                                                            *)
(***************************************************************************)
EXTENDS DocumentNumbering

CONSTANTS
    Drafters,     \* people who ask for leave
    Leaves,       \* ids of requests for leave
    Days,         \* the days of the fiscal year
    HalfDays,     \* those of which one may take a half
    Nothing,      \* the absence of a person or a request
    LeaveKind,    \* the kind of document a leave is
    ExpenseKind,  \* another kind of document, numbered by project
    MaxVersion,   \* bound on the version of an approval instance
    MaxTables     \* bound on changes of the table of holidays

ASSUME NothingIsNothing == Nothing \notin Drafters \cup Leaves
ASSUME LeaveKindsAreKinds == LeaveKind \in Yearly /\ ExpenseKind \in ByProject
ASSUME DaysAreNumbers == HalfDays \subseteq Days /\ Days \subseteq Int /\ \A a, b \in Days : a..b \subseteq Days
ASSUME LeaveBounds == MaxVersion \in Nat /\ MaxTables \in Nat

VARIABLES
    leave,      \* leave[l]: the row of l and the state of its approval
    holidays,   \* the days that are no working days, by the table now
    call,       \* call[c]: where a request is, and what it has read
    tables      \* counts changes of the table, for the bound

leaveVars == <<leave, holidays, call, tables>>

vars == <<leave, holidays, call, tables, numberingVars>>

-----------------------------------------------------------------------------
Halves == {"whole", "am", "pm"}

\* Consecutive days; half a day is of one day.
Spans ==
    {s \in [days : {a..b : a, b \in Days}, half : Halves] :
        /\ s.days # {}
        /\ s.half # "whole" => \E day \in HalfDays : s.days = {day}}

NoSpan == [days |-> {}, half |-> "whole"]

\* `charged' is history: the working days it takes, by the table it was judged
\* with.
NoLeave == [drafter |-> Nothing, status |-> "none", version |-> 0,
            span |-> NoSpan, charged |-> {}]

Idle == [pc |-> "idle", leave |-> Nothing, drafter |-> Nothing, version |-> 0,
         span |-> NoSpan, table |-> {}]

Unused == {l \in Leaves : leave[l].status = "none"}

\* In review or approved.
Live(l) == leave[l].status \in {"in_review", "approved"}

\* Do two requests take the same working day, by a table?  Half a day in the
\* morning and one in the afternoon do not.
Overlap(s, t, table) ==
    /\ (s.days \cap t.days) \ table # {}
    /\ ~({s.half, t.half} = {"am", "pm"})

\* The requests of a drafter, other than the one of c, that stand in the way
\* of a span.
Hits(c, d, span) ==
    {l \in Leaves \ {call[c].leave} :
        /\ leave[l].drafter = d
        /\ Live(l)
        /\ Overlap(span, leave[l].span, call[c].table)}

\* Mutant: the lock is on the request, not on the drafter.
DrafterFreeForRequest(c, d) ==
    \A b \in Calls : call[b].pc = "checked" =>
        call[b].leave # call[c].leave \/ call[c].leave = Nothing

\* The advisory lock of the drafter, held to the end of the transaction.
DrafterFree(c, d) ==
    \A b \in Calls : call[b].pc = "checked" => call[b].drafter # d

-----------------------------------------------------------------------------
Init ==
    /\ NumberingInit
    /\ leave = [l \in Leaves |-> NoLeave]
    /\ holidays = {}
    /\ call = [c \in Calls |-> Idle]
    /\ tables = 0

Becomes(c, r) == call' = [call EXCEPT ![c] = r]

End(c) == Becomes(c, Idle)

\* Read before the transaction: the table of holidays, and the year of the
\* number, which is that of today.  Who asks for which days is decided where it
\* is used.
AskLeave(c) ==
    /\ call[c].pc = "idle"
    /\ Becomes(c, [call[c] EXCEPT !.pc = "read", !.table = holidays])
    /\ AskNumber(c, LeaveKind, year)
    /\ UNCHANGED <<leave, holidays, tables, year, start, counter, numbers, refused, late>>

\* A rejected request is asked for again, from a screen that shows it so, for
\* these or other days.  It keeps its number.
AskAgain(c, l) ==
    /\ call[c].pc = "idle"
    /\ leave[l].status = "rejected"
    /\ Becomes(c, [call[c] EXCEPT !.pc = "read", !.table = holidays,
                                 !.leave = l, !.version = leave[l].version])
    /\ UNCHANGED <<leave, holidays, tables, numberingVars>>

\* Another document is numbered; the rest of it is elsewhere.
AskExpense(c, p) ==
    /\ call[c].pc = "idle"
    /\ Becomes(c, [call[c] EXCEPT !.pc = "checked"])
    /\ AskNumber(c, ExpenseKind, p)
    /\ UNCHANGED <<leave, holidays, tables, year, start, counter, numbers, refused, late>>

\* The check, on what is committed when the lock is taken.
Clear(c, d, span) == Hits(c, d, span) = {}

\* A resubmission is a transition first, at the version on the screen.
StillRejected(c) ==
    LET l == call[c].leave
    IN  l # Nothing => leave[l].status = "rejected" /\ leave[l].version = call[c].version

\* A request is made again by its drafter; the days of any include a working
\* day, by the table that was read.
Asked(c, d, span) ==
    /\ call[c].pc = "read"
    /\ call[c].leave # Nothing => d = leave[call[c].leave].drafter
    /\ span.days \ call[c].table # {}
    /\ DrafterFree(c, d)

LockAndCheck(c, d, span) ==
    /\ Asked(c, d, span)
    /\ StillRejected(c)
    /\ Clear(c, d, span)
    /\ Becomes(c, [call[c] EXCEPT !.pc = "checked", !.drafter = d, !.span = span])
    /\ UNCHANGED <<leave, holidays, tables, numberingVars>>

\* Refused: the transaction, a transition included, is rolled back.
Refuse(c, d, span) ==
    /\ Asked(c, d, span)
    /\ ~(StillRejected(c) /\ Clear(c, d, span))
    /\ End(c)
    /\ DropNumber(c)
    /\ UNCHANGED <<leave, holidays, tables>>

Rewritten(l, row) == leave' = [leave EXCEPT ![l] = row]

Written(c, l) ==
    Rewritten(l, [drafter |-> call[c].drafter, status |-> "in_review",
                  version |-> leave[l].version + 1, span |-> call[c].span,
                  charged |-> call[c].span.days \ call[c].table])

\* A new request is committed with its number, its last write.
CommitLeave(c) ==
    /\ call[c].pc = "checked" /\ number[c].kind = LeaveKind
    /\ \E l \in Unused : Written(c, l)
    /\ IssueNumber(c)
    /\ End(c)
    /\ UNCHANGED <<holidays, tables>>

CommitExpense(c) ==
    /\ call[c].pc = "checked" /\ number[c].kind = ExpenseKind
    /\ IssueNumber(c)
    /\ End(c)
    /\ UNCHANGED <<leave, holidays, tables>>

\* Since the transition the row of the approval is locked.
CommitAgain(c) ==
    /\ call[c].pc = "checked" /\ call[c].leave # Nothing
    /\ leave[call[c].leave].version < MaxVersion
    /\ Written(c, call[c].leave)
    /\ End(c)
    /\ UNCHANGED <<holidays, tables, numberingVars>>

Numbering(c) ==
    /\ call[c].pc = "checked"
    /\ Count(c) \/ ReadStart(c)
    /\ UNCHANGED leaveVars

Fail(c) ==
    /\ call[c].pc = "checked"
    /\ ClashNumber(c) \/ DropNumber(c)
    /\ End(c)
    /\ UNCHANGED <<leave, holidays, tables>>

Act(c) ==
    \/ AskLeave(c)
    \/ \E l \in Leaves : AskAgain(c, l)
    \/ \E p \in Projects : AskExpense(c, p)
    \/ \E d \in Drafters, span \in Spans : LockAndCheck(c, d, span) \/ Refuse(c, d, span)
    \/ Numbering(c)
    \/ CommitLeave(c)
    \/ CommitExpense(c)
    \/ CommitAgain(c)
    \/ Fail(c)

\* Approval, rejection and withdrawal touch only the approval, and wait for
\* no lock of the drafter.  A withdrawn request is one that is rejected and
\* not made again.
Decide(l) ==
    /\ leave[l].status = "in_review"
    /\ leave[l].version < MaxVersion
    /\ \E status \in {"approved", "rejected"} :
          Rewritten(l, [leave[l] EXCEPT !.status = status, !.version = @ + 1])
    /\ UNCHANGED <<holidays, call, tables, numberingVars>>

ChangeTable(day) ==
    /\ tables < MaxTables
    /\ tables' = tables + 1
    /\ holidays' = IF day \in holidays THEN holidays \ {day} ELSE holidays \cup {day}
    /\ UNCHANGED <<leave, call, numberingVars>>

Settings ==
    /\ \/ TurnYear
       \/ \E k \in Kinds, first \in Starts : first # start[k] /\ SaveStart(k, first)
    /\ UNCHANGED leaveVars

Next ==
    \/ \E c \in Calls : Act(c)
    \/ \E l \in Leaves : Decide(l)
    \/ \E day \in Days : ChangeTable(day)
    \/ Settings

Spec == Init /\ [][Next]_vars

-----------------------------------------------------------------------------
(* Properties.                                                             *)

Rows ==
    [drafter : Drafters \cup {Nothing},
     status : {"none", "in_review", "approved", "rejected"}, version : Nat,
     span : Spans \cup {NoSpan}, charged : SUBSET Days]

Requests ==
    [pc : {"idle", "read", "checked"}, leave : Leaves \cup {Nothing},
     drafter : Drafters \cup {Nothing}, version : Nat, span : Spans \cup {NoSpan},
     table : SUBSET Days]

\* Every variable stays within its type.
TypeOK ==
    /\ NumberingTypeOK
    /\ leave \in [Leaves -> Rows]
    /\ holidays \subseteq Days
    /\ call \in [Calls -> Requests]

\* No working day is taken by two requests of a drafter that are in review or
\* approved, whatever the table of holidays was when each was judged; a
\* morning and an afternoon may share one (findLiveLeaveOverlap).
NoDayTakenTwice ==
    \A l, m \in Leaves :
        /\ l # m
        /\ leave[l].drafter = leave[m].drafter
        /\ {leave[l].status, leave[m].status} \subseteq {"in_review", "approved"}
        /\ leave[l].charged \cap leave[m].charged # {}
        => {leave[l].span.half, leave[m].span.half} = {"am", "pm"}
=============================================================================
