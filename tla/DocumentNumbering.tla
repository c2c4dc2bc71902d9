------------------------- MODULE DocumentNumbering -------------------------
(***************************************************************************)
(* How a document gets its number, as the last write of the transaction    *)
(* that makes it.  A number is the period, a counter of the period and an  *)
(* offset people may set: the first number of a kind.  The period of most  *)
(* kinds is the year in which the request began; that of an expense is its *)
(* project.                                                                *)
(*                                                                         *)
(* The row of a counter is locked from its increment to the end of the     *)
(* transaction.  A setting is saved in one transaction that holds the same *)
(* locks, so it is one step, possible when nobody else holds them.         *)
(*                                                                         *)
(* Prefix, digits and separator only decide how a number looks.            *)
(***************************************************************************)
EXTENDS Integers, FiniteSets

CONSTANTS
    Calls,      \* requests that make a document
    Yearly,     \* kinds of documents numbered by year
    ByProject,  \* kinds of documents numbered by project
    Projects,   \* numbers of projects
    Starts,     \* first numbers people may set
    MaxYear,    \* bound on the year, counted from 1
    MaxIssued   \* bound on the documents that get a number

Kinds == Yearly \cup ByProject

Years == 1..MaxYear

Periods == Years \cup Projects

ASSUME KindsAreOne == Yearly \cap ByProject = {} /\ "" \notin Yearly \cup ByProject
ASSUME ProjectsAreNoYears == Projects \cap Int = {}
ASSUME StartsAreNumbers == Starts \subseteq Nat /\ 1 \in Starts
ASSUME NumberingBounds == MaxYear \in Nat \ {0} /\ MaxIssued \in Nat

VARIABLES
    year,      \* the year now
    start,     \* start[k]: the first number set for the kind k
    counter,   \* counter[k][p]: documents of the kind k numbered in p;
               \* the row does not exist before there is one
    numbers,   \* the numbers documents have: kind, period and number
    number,    \* number[c]: what the transaction of c has done about a number
    refused,   \* history: the kinds and periods for which the unique index
               \* refused a number
    late       \* history: the kinds whose first number was set by a request
               \* of the year before

numberingVars == <<year, start, counter, numbers, number, refused, late>>

NoNumber == [step |-> "none", kind |-> "", period |-> 0, seq |-> 0, first |-> 0]

NumberingInit ==
    /\ year = 1
    /\ start = [k \in Kinds |-> 1]
    /\ counter = [k \in Kinds |-> [p \in Periods |-> 0]]
    /\ numbers = {}
    /\ number = [c \in Calls |-> NoNumber]
    /\ refused = {}
    /\ late = {}

-----------------------------------------------------------------------------
(* Locks.                                                                  *)

\* Calls that have incremented a counter and not ended.
Counting == {c \in Calls : number[c].step \in {"counted", "numbered"}}

RowFree(k, p) ==
    \A c \in Counting : <<number[c].kind, number[c].period>> # <<k, p>>

\* Mutant: a request for an expense does not share the row for all periods.
SharingNobody(k) == {}

\* Requests that share the row that stands for all projects: locking the row
\* of a project does not stop the request that writes the first one.
Sharing(k) == {c \in Counting : number[c].kind = k}

\* What saving a first number waits for: every request that is numbering a
\* document of a project, or the one on the counter of the year.
MayLock(k, y) ==
    IF k \in ByProject
      THEN /\ Sharing(k) = {}
           /\ \A p \in Projects : counter[k][p] > 0 => RowFree(k, p)
      ELSE RowFree(k, y)

\* Has any document got a number so far, by the locked rows?
Issued(k, y) ==
    IF k \in ByProject THEN \E p \in Projects : counter[k][p] >= 1
                       ELSE counter[k][y] >= 1

\* A lower first number would come upon numbers already given.
MayStart(k, y, first) == Issued(k, y) => first >= start[k]

-----------------------------------------------------------------------------
(* A request.                                                              *)

Takes(c, r) == number' = [number EXCEPT ![c] = r]

\* The period is taken before the transaction.
AskNumber(c, k, p) ==
    /\ Cardinality(numbers) + Cardinality({b \in Calls : number[b].step # "none"}) < MaxIssued
    /\ Takes(c, [NoNumber EXCEPT !.step = "asked", !.kind = k, !.period = p])

\* The counter is incremented, which locks its row and, before it, shares
\* the row for all periods.
Count(c) ==
    LET k == number[c].kind
        p == number[c].period
    IN  /\ number[c].step = "asked"
        /\ RowFree(k, p)
        /\ Takes(c, [number[c] EXCEPT !.step = "counted", !.seq = counter[k][p] + 1])
        /\ UNCHANGED <<year, start, counter, numbers, refused, late>>

\* The first number is read once the row is locked, not with the rest of the
\* format.
ReadStart(c) ==
    /\ number[c].step = "counted"
    /\ Takes(c, [number[c] EXCEPT !.step = "numbered", !.first = start[number[c].kind]])
    /\ UNCHANGED <<year, start, counter, numbers, refused, late>>

NumberOf(c) == <<number[c].kind, number[c].period, number[c].seq + number[c].first - 1>>

\* The document is written with its number.
IssueNumber(c) ==
    /\ number[c].step = "numbered"
    /\ NumberOf(c) \notin numbers
    /\ numbers' = numbers \cup {NumberOf(c)}
    /\ counter' = [counter EXCEPT ![number[c].kind][number[c].period] = number[c].seq]
    /\ Takes(c, NoNumber)
    /\ UNCHANGED <<year, start, refused, late>>

\* The unique index refuses the number, and the transaction is rolled back.
ClashNumber(c) ==
    /\ number[c].step = "numbered"
    /\ NumberOf(c) \in numbers
    /\ refused' = refused \cup {<<number[c].kind, number[c].period>>}
    /\ Takes(c, NoNumber)
    /\ UNCHANGED <<year, start, counter, numbers, late>>

\* Any other failure of the transaction: the counter is rolled back.
DropNumber(c) ==
    /\ Takes(c, NoNumber)
    /\ UNCHANGED <<year, start, counter, numbers, refused, late>>

-----------------------------------------------------------------------------
(* The setting and the calendar.                                           *)

\* The year may turn while the save of a setting waits for the row.
SaveStart(k, first) ==
    \E y \in {year - 1, year} \cap Years :
        /\ MayLock(k, y)
        /\ MayStart(k, y, first)
        /\ start' = [start EXCEPT ![k] = first]
        /\ late' = IF y < year /\ k \in Yearly THEN late \cup {k} ELSE late
        /\ UNCHANGED <<year, counter, numbers, number, refused>>

TurnYear ==
    /\ year < MaxYear
    /\ year' = year + 1
    /\ UNCHANGED <<start, counter, numbers, number, refused, late>>

-----------------------------------------------------------------------------
(* Properties.                                                             *)

Allocations ==
    [step : {"none", "asked", "counted", "numbered"}, kind : Kinds \cup {""},
     period : Periods \cup {0}, seq : Nat, first : Starts \cup {0}]

NumberingTypeOK ==
    /\ year \in Years
    /\ start \in [Kinds -> Starts]
    /\ counter \in [Kinds -> [Periods -> Nat]]
    /\ numbers \subseteq Kinds \X Periods \X Nat
    /\ number \in [Calls -> Allocations]
    /\ refused \subseteq Kinds \X Periods
    /\ late \subseteq Yearly

\* However the first number is set while documents are made, the unique index
\* refuses none of them.  The number of an expense is always new; so is that of
\* a year, unless the year ended while the request was under way, or while the
\* first number was being saved (assertSeqStartNotLowered looks at one year).
NumbersAreNew ==
    \A clash \in refused : clash[1] \in Yearly /\ (clash[2] < year \/ clash[1] \in late)
=============================================================================
