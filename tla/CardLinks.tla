----------------------------- MODULE CardLinks -----------------------------
(***************************************************************************)
(* Who may draw on a line of a project's quote: usages of a corporate card *)
(* and requests for a purchase on one side, expenses on the other.         *)
(*                                                                         *)
(* A line is copied into every later revision; the links stay on the copy  *)
(* they were made on and are followed along the copies.  A constant of     *)
(* Lines therefore stands for a line with all its copies, and <<l, r>> for *)
(* its copy in revision r.  Two rules are judged over all copies: a line   *)
(* has links of one side only, and what the card side takes stays within   *)
(* the execution amount of the current copy.                               *)
(*                                                                         *)
(* A request to the server reads first, outside of any transaction (a      *)
(* "form" below), then locks the project, the copies concerned and reads   *)
(* and judges again ("gated"), then writes if the row's version is the one *)
(* it read.  The overwriting of a usage by an evidence record locks copies *)
(* and the usage, never the project; moving an expense to another line     *)
(* locks nothing.                                                          *)
(*                                                                         *)
(* Left out: requests and usages that never touch a line, except as what a *)
(* line loses or gains; the customer's approval and the rights of people,  *)
(* which only refuse; cancelled lines; several instalments of one line;    *)
(* that a settling project takes no deletion and no revision.              *)
(*                                                                         *)
(* Amounts are supply amounts, except the estimate of a request, which     *)
(* includes VAT or not as the evidence type says.  That type is looked up  *)
(* whenever room is asked for, from the vendor of the copy the form names, *)
(* the vendor's usual type, the code table and the rates of the day.  A    *)
(* form reads all of it before the transaction, and it changes under no    *)
(* lock a gate waits for: whatever it is now, a form may have read any     *)
(* rate.  Nothing depends on it before the gate, which chooses it.         *)
(***************************************************************************)
EXTENDS Integers, FiniteSets, Functions

CONSTANTS
    Lines,       \* lines of the quote, each with its copies
    First,       \* those there are at first
    Usages,      \* rows of card usages
    Requests,    \* rows of purchase requests
    Expenses,    \* rows of expenses
    Sessions,    \* requests to the server at work
    Amounts,     \* amounts a person may enter
    Executions,  \* execution amounts of the lines there are at first
    Rates,       \* VAT that evidence types take out of an estimate, in percent
    Team,        \* the link to team costs instead of a line
    None,        \* the absence of a row
    MaxSeq,      \* bound on revisions
    MaxTurns     \* bound on what people start

ASSUME LinkNamesDiffer == Team \notin Lines /\ None \notin Usages \cup Requests \cup Expenses
ASSUME RowsDiffer == Usages \cap Requests = {} /\ Expenses \cap (Usages \cup Requests) = {}
ASSUME CardRowsAreFinite == IsFiniteSet(Usages \cup Requests)
ASSUME LinesAtFirst == First \subseteq Lines
ASSUME LinkAmounts == Amounts \cup Executions \subseteq Nat
ASSUME EvidenceRates == Rates \subseteq Nat
ASSUME LinkBounds == MaxSeq \in Nat \ {0} /\ MaxTurns \in Nat

VARIABLES
    completed,   \* whether the project is completed
    seq,         \* the number of the current revision
    line,        \* line[l]: the last copy of l, and its cells
    usage,       \* usage[u]: a card usage and its link
    request,     \* request[r]: a purchase request
    expense,     \* expense[e]: an expense and the state of its approval
    session,     \* session[s]: what a request to the server has read
    outrun,      \* history: lines overwritten without their current copy
    turns        \* counts what people start, for the bound

vars == <<completed, seq, line, usage, request, expense, session, outrun, turns>>

rows == <<completed, seq, line, usage, request, expense, outrun>>

-----------------------------------------------------------------------------
\* `tip' is the last revision with a copy, 0 as long as there is none.
NoLine == [tip |-> 0, archived |-> FALSE, execution |-> 0,
           online |-> FALSE, extra |-> FALSE]

QuoteLine(r, execution, online) ==
    [tip |-> r, archived |-> FALSE, execution |-> execution, online |-> online, extra |-> FALSE]

\* A line that is not in the quote, for one usage and its amount.
OutOfQuoteLine(r, execution) ==
    [tip |-> r, archived |-> FALSE, execution |-> execution, online |-> FALSE, extra |-> TRUE]

NoUsage == [state |-> "none", line |-> Team, at |-> 0, supply |-> 0,
            request |-> None, version |-> 0]

UsageOf(l, r, amount, req) ==
    [state |-> "live", line |-> l, at |-> r, supply |-> amount, request |-> req, version |-> 1]

\* `regret': cancelled by the one who asked, without a reason.
NoRequest == [state |-> "none", line |-> Team, at |-> 0, estimate |-> 0,
              regret |-> FALSE, version |-> 0]

NoExpense == [state |-> "none", line |-> Team, at |-> 0, version |-> 0]

Idle == [phase |-> "idle", job |-> "none", row |-> None, line |-> Team, at |-> 0,
         fixed |-> FALSE, capped |-> TRUE, amount |-> 0, rate |-> 0, seen |-> 0, locks |-> {}]

Init ==
    /\ completed = FALSE
    /\ seq = 1
    /\ \E x \in [First -> Executions], o \in [First -> BOOLEAN] :
          line = [l \in Lines |-> IF l \in First THEN QuoteLine(1, x[l], o[l]) ELSE NoLine]
    /\ \E u \in Usages, l \in First, a \in Amounts :
          /\ a <= line[l].execution
          /\ usage = [v \in Usages |-> IF v = u THEN UsageOf(l, 1, a, None) ELSE NoUsage]
    /\ request = [r \in Requests |-> NoRequest]
    /\ expense = [e \in Expenses |-> NoExpense]
    /\ session = [s \in Sessions |-> Idle]
    /\ outrun = {}
    /\ turns = 0

-----------------------------------------------------------------------------
(* What is read of a line and all its copies.                              *)

\* The current revision has a copy that is not deleted.
Reaches(l) == line[l].tip = seq /\ ~line[l].archived

Live(l) == {u \in Usages : usage[u].state = "live" /\ usage[u].line = l}

Asked(l) == {r \in Requests : request[r].state = "requested" /\ request[r].line = l}

\* Expenses with a number that are not closed, a returned one among them.
Numbered(l) ==
    {e \in Expenses : expense[e].state \in {"review", "returned", "approved"} /\ expense[e].line = l}

CardRows == Usages \cup Requests

\* An estimate without the VAT that is in it at a rate, rounded to the won.
EstimateSupply(estimate, rate) == (200 * estimate + 100 + rate) \div (2 * (100 + rate))

\* What a usage or a request takes of l, by the rate the estimates of l are
\* counted at.
TakenBy(l, row, rate) ==
    IF row \in Live(l) THEN usage[row].supply
    ELSE IF row \in Asked(l) THEN EstimateSupply(request[row].estimate, rate)
    ELSE 0

\* What the card side takes of l.
Spent(l, rate) == SumFunction([row \in CardRows |-> TakenBy(l, row, rate)])

\* The same without one row.
SpentBut(l, row, rate) == Spent(l, rate) - TakenBy(l, row, rate)

CardSideOpen(l) == Numbered(l) = {}

ExpenseSideOpen(l) == Live(l) = {} /\ Asked(l) = {}

\* A line of the quote, and no expense of others.
DoorOpen(l, others) == ~line[l].extra /\ others = {}

HasRoom(l, row, amount, rate) == SpentBut(l, row, rate) + amount <= line[l].execution

(* Locks: whoever is gated holds them until it has written.                *)

OwnsProject(s) == session[s].phase = "gated" /\ session[s].job # "overwrite"

ProjectFree == \A s \in Sessions : ~OwnsProject(s)

CopiesFree(copies) ==
    \A s \in Sessions : session[s].phase = "gated" => session[s].locks \cap copies = {}

UsageFree(u) ==
    \A s \in Sessions :
        ~(session[s].phase = "gated" /\ session[s].job = "overwrite" /\ session[s].row = u)

-----------------------------------------------------------------------------
(* Forms: what a request reads before its transaction.                     *)

Turn ==
    /\ turns < MaxTurns
    /\ turns' = turns + 1

Open(s) ==
    /\ session[s] = Idle
    /\ Turn
    /\ UNCHANGED rows

Filled(job, row, l, at, amount, seen, fixed, capped) ==
    [phase |-> "form", job |-> job, row |-> row, line |-> l, at |-> at, fixed |-> fixed,
     capped |-> capped, amount |-> amount, rate |-> 0, seen |-> seen, locks |-> {}]

Form(s, job, row, l, at, amount, seen) ==
    /\ Open(s)
    /\ session' = [session EXCEPT ![s] = Filled(job, row, l, at, amount, seen, FALSE, TRUE)]

FormRegister(s, l, amount) ==
    /\ ~completed
    /\ Reaches(l)
    /\ Form(s, "register", None, l, seq, amount, 0)

FormAsk(s, l, amount) ==
    /\ ~completed
    /\ Reaches(l)
    /\ Form(s, "ask", None, l, seq, amount, 0)

\* The form sends the stored copy if the link is left as it is, the current
\* copy otherwise; the cap is judged again unless the link stays and the
\* amount does not grow.
FormEdit(s, u, l, at, amount) ==
    LET same == l = usage[u].line /\ at = usage[u].at
    IN  /\ Open(s)
        /\ usage[u].state = "live"
        /\ same \/ (usage[u].request = None /\ ~completed /\ Reaches(l) /\ at = seq)
        /\ session' = [session EXCEPT ![s] =
                          Filled("edit", u, l, at, amount, usage[u].version,
                                 same, ~(same /\ amount <= usage[u].supply))]

\* Mutant: any usage may be deleted.
FormRemoveAny(s, u) ==
    /\ usage[u].state = "live"
    /\ Form(s, "remove", u, usage[u].line, usage[u].at, 0, usage[u].version)

\* A usage that completed a purchase has no deletion and keeps its link.
FormRemove(s, u) ==
    /\ usage[u].state = "live"
    /\ usage[u].request = None
    /\ Form(s, "remove", u, usage[u].line, usage[u].at, 0, usage[u].version)

FormRestore(s, u) ==
    /\ usage[u].state = "archived"
    /\ usage[u].line \in Lines
    /\ Form(s, "restore", u, usage[u].line, usage[u].at, usage[u].supply, usage[u].version)

FormBuy(s, r, amount) ==
    /\ request[r].state = "requested"
    /\ Form(s, "buy", r, request[r].line, request[r].at, amount, request[r].version)

FormCancel(s, r) ==
    /\ ~completed
    /\ Form(s, "cancel", r, request[r].line, request[r].at, 0, request[r].version)

FormUndo(s, r) ==
    /\ ~completed
    /\ request[r].state = "cancelled"
    /\ request[r].regret
    /\ Form(s, "undo", r, request[r].line, request[r].at, request[r].estimate, request[r].version)

\* The usage an evidence record matches, and the copies to lock: the stored
\* one and the one that is current when the chain is read.
FormOverwrite(s, u, amount) ==
    /\ Open(s)
    /\ usage[u].state = "live"
    /\ usage[u].line \in Lines
    /\ amount # usage[u].supply
    /\ session' = [session EXCEPT ![s] =
                      [Filled("overwrite", u, usage[u].line, usage[u].at, amount,
                              usage[u].version, FALSE, TRUE) EXCEPT
                         !.locks = {<<usage[u].line, usage[u].at>>} \cup
                             (IF Reaches(usage[u].line) THEN {<<usage[u].line, seq>>} ELSE {})]]

\* Moving an expense judges the line before it writes, and locks nothing; a
\* returned expense of a former copy shuts the door to itself.
FormMove(s, e, l) ==
    /\ ~completed
    /\ expense[e].state \in {"draft", "returned"}
    /\ <<l, seq>> # <<expense[e].line, expense[e].at>>
    /\ Reaches(l)
    /\ DoorOpen(l, Numbered(l))
    /\ Form(s, "move", e, l, seq, 0, expense[e].version)

\* A usage of a line is to become one of team costs, or of a new line that
\* is not in the quote.
FormLeave(s, u, amount) ==
    /\ usage[u].state = "live"
    /\ usage[u].line \in Lines
    /\ usage[u].request = None
    /\ Form(s, "leave", u, usage[u].line, seq, amount, usage[u].version)

\* Given up, refused by a condition that follows, or rolled back.
GiveUp(s) ==
    /\ session[s].phase # "idle"
    /\ session' = [session EXCEPT ![s] = Idle]
    /\ UNCHANGED <<rows, turns>>

-----------------------------------------------------------------------------
(* Gates: lock the project and the copies, then judge what is now there.   *)

Ready(s, job) == session[s].phase = "form" /\ session[s].job = job

\* Mutant: the current copy is not locked.
StoredCopy(s) == {<<session[s].line, session[s].at>>}

\* The copy the link is stored on, or will be, and the current one.
CopiesOf(s) == {<<session[s].line, session[s].at>>, <<session[s].line, seq>>}

\* What it wants fits beside what the rows but one take, at the rate its form
\* has read.
Wanted(s, rate) ==
    IF session[s].job \in {"ask", "undo"} THEN EstimateSupply(session[s].amount, rate)
    ELSE session[s].amount

Fits(s, row, rate) == HasRoom(session[s].line, row, Wanted(s, rate), rate)

Lock(s, rate) ==
    /\ ProjectFree
    /\ CopiesFree(CopiesOf(s))
    /\ session' = [session EXCEPT ![s].phase = "gated", ![s].locks = CopiesOf(s), ![s].rate = rate]
    /\ UNCHANGED <<rows, turns>>

\* A link that somebody chooses: the project is not completed and the copy
\* is still a current one.
ChosenLineStands(s) ==
    /\ ~completed
    /\ session[s].at = seq
    /\ Reaches(session[s].line)

GateRegister(s) ==
    /\ Ready(s, "register")
    /\ ChosenLineStands(s)
    /\ CardSideOpen(session[s].line)
    /\ \E v \in Rates : Fits(s, None, v) /\ Lock(s, v)

GateAsk(s) ==
    /\ Ready(s, "ask")
    /\ ChosenLineStands(s)
    /\ line[session[s].line].online
    /\ CardSideOpen(session[s].line)
    /\ \E v \in Rates : Fits(s, None, v) /\ Lock(s, v)

GateEdit(s) ==
    /\ Ready(s, "edit")
    /\ IF session[s].fixed THEN Reaches(session[s].line) ELSE ChosenLineStands(s)
    /\ CardSideOpen(session[s].line)
    /\ \E v \in Rates : (session[s].capped => Fits(s, session[s].row, v)) /\ Lock(s, v)

\* Mutant: the expenses of the line are not asked.
GateRestoreBesideExpense(s) ==
    /\ Ready(s, "restore")
    /\ Reaches(session[s].line)
    /\ \E v \in Rates : Fits(s, None, v) /\ Lock(s, v)

\* Mutant: the line is not asked for.
GateRestoreUnreached(s) ==
    /\ Ready(s, "restore")
    /\ CardSideOpen(session[s].line)
    /\ \E v \in Rates : Fits(s, None, v) /\ Lock(s, v)

GateRestore(s) ==
    /\ Ready(s, "restore")
    /\ Reaches(session[s].line)
    /\ CardSideOpen(session[s].line)
    /\ \E v \in Rates : Fits(s, None, v) /\ Lock(s, v)

\* A purchase for a completed project may exceed the execution amount.
GateBuy(s) ==
    /\ Ready(s, "buy")
    /\ Reaches(session[s].line)
    /\ request[session[s].row].state = "requested"
    /\ request[session[s].row].version = session[s].seen
    /\ CardSideOpen(session[s].line)
    /\ \E v \in Rates : (completed \/ Fits(s, session[s].row, v)) /\ Lock(s, v)

GateUndo(s) ==
    /\ Ready(s, "undo")
    /\ ~completed
    /\ Reaches(session[s].line)
    /\ line[session[s].line].online
    /\ CardSideOpen(session[s].line)
    /\ request[session[s].row].state = "cancelled"
    /\ request[session[s].row].regret
    /\ request[session[s].row].version = session[s].seen
    /\ \E v \in Rates : Fits(s, session[s].row, v) /\ Lock(s, v)

\* The usage is locked after the copies chosen before; then the chain is
\* read again.
GateOverwrite(s) ==
    LET u == session[s].row
        l == session[s].line
    IN  /\ Ready(s, "overwrite")
        /\ CopiesFree(session[s].locks)
        /\ UsageFree(u)
        /\ usage[u].state = "live"
        /\ usage[u].version = session[s].seen
        /\ usage[u].request = None
        /\ ~line[l].extra
        /\ ~completed
        /\ Reaches(l)
        /\ \E v \in Rates :
              /\ Fits(s, u, v)
              /\ session' = [session EXCEPT ![s].phase = "gated", ![s].rate = v]
        /\ outrun' = IF <<l, seq>> \in session[s].locks THEN outrun ELSE outrun \cup {l}
        /\ UNCHANGED <<completed, seq, line, usage, request, expense, turns>>

-----------------------------------------------------------------------------
(* Writes of those who passed a gate; every write ends the session.        *)

Gated(s, job) == session[s].phase = "gated" /\ session[s].job = job

End(s) == session' = [session EXCEPT ![s] = Idle]

WriteUsage(u, row) ==
    /\ usage' = [usage EXCEPT ![u] = row]
    /\ UNCHANGED <<completed, seq, line, expense, outrun, turns>>

Linked(s, req) == UsageOf(session[s].line, session[s].at, session[s].amount, req)

Register(s, u) ==
    /\ Gated(s, "register")
    /\ usage[u].state = "none"
    /\ WriteUsage(u, Linked(s, None))
    /\ End(s)
    /\ UNCHANGED request

Ask(s, r) ==
    /\ Gated(s, "ask")
    /\ request[r].state = "none"
    /\ request' = [request EXCEPT ![r] =
                      [state |-> "requested", line |-> session[s].line, at |-> session[s].at,
                       estimate |-> session[s].amount, regret |-> FALSE, version |-> 1]]
    /\ End(s)
    /\ UNCHANGED <<completed, seq, line, usage, expense, outrun, turns>>

\* The row still has the version the form saw, and nobody holds it.
UsageStands(s, state) ==
    /\ UsageFree(session[s].row)
    /\ usage[session[s].row].state = state
    /\ usage[session[s].row].version = session[s].seen

Edit(s) ==
    LET u == session[s].row
    IN  /\ Gated(s, "edit")
        /\ UsageStands(s, "live")
        /\ WriteUsage(u, [usage[u] EXCEPT !.line = session[s].line, !.at = session[s].at,
                                          !.supply = session[s].amount, !.version = @ + 1])
        /\ End(s)
        /\ UNCHANGED request

Restore(s) ==
    LET u == session[s].row
    IN  /\ Gated(s, "restore")
        /\ UsageStands(s, "archived")
        /\ WriteUsage(u, [usage[u] EXCEPT !.state = "live", !.version = @ + 1])
        /\ End(s)
        /\ UNCHANGED request

Buy(s, u) ==
    LET r == session[s].row
    IN  /\ Gated(s, "buy")
        /\ usage[u].state = "none"
        /\ request[r].state = "requested"
        /\ request[r].version = session[s].seen
        /\ WriteUsage(u, Linked(s, r))
        /\ request' = [request EXCEPT ![r].state = "purchased", ![r].version = @ + 1]
        /\ End(s)

Undo(s) ==
    LET r == session[s].row
    IN  /\ Gated(s, "undo")
        /\ request[r].state = "cancelled"
        /\ request[r].version = session[s].seen
        /\ request' = [request EXCEPT ![r].state = "requested", ![r].regret = FALSE,
                                      ![r].version = @ + 1]
        /\ End(s)
        /\ UNCHANGED <<completed, seq, line, usage, expense, outrun, turns>>

Overwrite(s) ==
    LET u == session[s].row
    IN  /\ Gated(s, "overwrite")
        /\ usage[u].version = session[s].seen
        /\ WriteUsage(u, [usage[u] EXCEPT !.supply = session[s].amount, !.version = @ + 1])
        /\ End(s)
        /\ UNCHANGED request

-----------------------------------------------------------------------------
(* Writes that only give room back, or take a line of their own: the       *)
(* project is locked, no copy is.                                          *)

Remove(s) ==
    LET u == session[s].row
    IN  /\ Ready(s, "remove")
        /\ usage[u].line \in Lines => ProjectFree
        /\ UsageStands(s, "live")
        /\ WriteUsage(u, [usage[u] EXCEPT !.state = "archived", !.version = @ + 1])
        /\ End(s)
        /\ UNCHANGED request

\* By the one who asked, who may take it back, or by a purchaser.
Cancel(s, own) ==
    LET r == session[s].row
    IN  /\ Ready(s, "cancel")
        /\ ProjectFree
        /\ ~completed
        /\ request[r].state = "requested"
        /\ request[r].version = session[s].seen
        /\ request' = [request EXCEPT ![r].state = "cancelled", ![r].regret = own,
                                      ![r].version = @ + 1]
        /\ End(s)
        /\ UNCHANGED <<completed, seq, line, usage, expense, outrun, turns>>

ToTeam(s) ==
    LET u == session[s].row
    IN  /\ Ready(s, "leave")
        /\ ProjectFree
        /\ UsageStands(s, "live")
        /\ WriteUsage(u, [usage[u] EXCEPT !.line = Team, !.at = 0, !.supply = session[s].amount,
                                          !.version = @ + 1])
        /\ End(s)
        /\ UNCHANGED request

\* A line that is not in the quote, made with its usage and for its amount.
ExtraLine(l, amount) ==
    /\ ProjectFree
    /\ line[l].tip = 0
    /\ line' = [line EXCEPT ![l] = OutOfQuoteLine(seq, amount)]

ToExtraLine(s, l) ==
    LET u == session[s].row
    IN  /\ Ready(s, "leave")
        /\ session[s].at = seq
        /\ ExtraLine(l, session[s].amount)
        /\ UsageStands(s, "live")
        /\ usage' = [usage EXCEPT ![u].line = l, ![u].at = seq, ![u].supply = session[s].amount,
                                  ![u].version = @ + 1]
        /\ End(s)
        /\ UNCHANGED <<completed, seq, request, expense, outrun, turns>>

RegisterExtra(u, l, amount) ==
    /\ Turn
    /\ usage[u].state = "none"
    /\ ExtraLine(l, amount)
    /\ usage' = [usage EXCEPT ![u] = UsageOf(l, seq, amount, None)]
    /\ UNCHANGED <<completed, seq, request, expense, session, outrun>>
-----------------------------------------------------------------------------
(* Expenses.                                                               *)

Draft(e, l) ==
    /\ Turn
    /\ ~completed
    /\ expense[e].state = "none"
    /\ Reaches(l)
    /\ DoorOpen(l, Numbered(l))
    /\ expense' = [expense EXCEPT ![e] = [state |-> "draft", line |-> l, at |-> seq, version |-> 1]]
    /\ UNCHANGED <<completed, seq, line, usage, request, session, outrun>>

\* Submitted, or again after its return: project, copy and expense locked.
Submit(e) ==
    LET l == expense[e].line
    IN  /\ Turn
        /\ ~completed
        /\ expense[e].state \in {"draft", "returned"}
        /\ ProjectFree
        /\ CopiesFree({<<l, expense[e].at>>})
        /\ expense[e].at = seq
        /\ Reaches(l)
        /\ DoorOpen(l, Numbered(l) \ {e})
        /\ ExpenseSideOpen(l)
        /\ ~line[l].online
        /\ expense' = [expense EXCEPT ![e].state = "review", ![e].version = @ + 1]
        /\ UNCHANGED <<completed, seq, line, usage, request, session, outrun>>

Decide(e, outcome) ==
    /\ expense[e].state = "review"
    /\ outcome \in {"returned", "approved"}
    /\ expense' = [expense EXCEPT ![e].state = outcome]
    /\ UNCHANGED <<completed, seq, line, usage, request, session, outrun, turns>>

Close(e) ==
    /\ expense[e].state = "returned"
    /\ expense' = [expense EXCEPT ![e].state = "closed", ![e].version = @ + 1]
    /\ UNCHANGED <<completed, seq, line, usage, request, session, outrun, turns>>

\* Goes by the version of the row alone; the foreign key waits for a copy
\* somebody holds.
Move(s) ==
    LET e == session[s].row
    IN  /\ Ready(s, "move")
        /\ expense[e].version = session[s].seen
        /\ CopiesFree({<<session[s].line, session[s].at>>})
        /\ expense' = [expense EXCEPT ![e].line = session[s].line, ![e].at = session[s].at,
                                      ![e].version = @ + 1]
        /\ End(s)
        /\ UNCHANGED <<completed, seq, line, usage, request, outrun, turns>>

-----------------------------------------------------------------------------
(* The quote, under the lock of the project.                               *)

AddLine(l, amount, online) ==
    /\ Turn
    /\ ~completed
    /\ ProjectFree
    /\ line[l].tip = 0
    /\ line' = [line EXCEPT ![l] = QuoteLine(seq, amount, online)]
    /\ UNCHANGED <<completed, seq, usage, request, expense, session, outrun>>

\* The execution amount is read-only under an expense, not under the card
\* side; the vendor, and with it the way to buy, may change.
EditLine(l, amount, online) ==
    /\ Turn
    /\ ~completed
    /\ ProjectFree
    /\ CopiesFree({<<l, seq>>})
    /\ Reaches(l)
    /\ amount # line[l].execution => Numbered(l) = {}
    /\ line' = [line EXCEPT ![l].execution = amount, ![l].online = online]
    /\ UNCHANGED <<completed, seq, usage, request, expense, session, outrun>>

DeleteLine(l) ==
    /\ Turn
    /\ ~completed
    /\ ProjectFree
    /\ CopiesFree({<<l, seq>>})
    /\ Reaches(l)
    /\ CardSideOpen(l)
    /\ ExpenseSideOpen(l)
    /\ line' = [line EXCEPT ![l].archived = TRUE]
    /\ UNCHANGED <<completed, seq, usage, request, expense, session, outrun>>

RestoreLine(l) ==
    /\ Turn
    /\ ~completed
    /\ ProjectFree
    /\ line[l].tip = seq
    /\ line[l].archived
    /\ line' = [line EXCEPT ![l].archived = FALSE]
    /\ UNCHANGED <<completed, seq, usage, request, expense, session, outrun>>

\* Every copy that is left is copied; the foreign key to it waits for whoever
\* holds it.
NewRevision ==
    /\ Turn
    /\ ~completed
    /\ seq < MaxSeq
    /\ ProjectFree
    /\ CopiesFree({<<l, seq>> : l \in {m \in Lines : Reaches(m)}})
    /\ seq' = seq + 1
    /\ line' = [l \in Lines |-> IF Reaches(l) THEN [line[l] EXCEPT !.tip = seq + 1] ELSE line[l]]
    /\ UNCHANGED <<completed, usage, request, expense, session, outrun>>

Complete ==
    /\ Turn
    /\ ~completed
    /\ ProjectFree
    /\ completed' = TRUE
    /\ UNCHANGED <<seq, line, usage, request, expense, session, outrun>>

-----------------------------------------------------------------------------
Fill(s) ==
    \/ \E l \in Lines, a \in Amounts :
          \/ FormRegister(s, l, a)
          \/ FormAsk(s, l, a)
          \/ \E u \in Usages, at \in 1..seq : FormEdit(s, u, l, at, a)
    \/ \E u \in Usages :
          \/ FormRemove(s, u)
          \/ FormRestore(s, u)
          \/ \E a \in Amounts : FormOverwrite(s, u, a) \/ FormLeave(s, u, a)
    \/ \E r \in Requests :
          \/ \E a \in Amounts : FormBuy(s, r, a)
          \/ FormCancel(s, r)
          \/ FormUndo(s, r)
    \/ \E e \in Expenses, l \in Lines : FormMove(s, e, l)

Judge(s) ==
    \/ GateRegister(s)
    \/ GateAsk(s)
    \/ GateEdit(s)
    \/ GateRestore(s)
    \/ GateBuy(s)
    \/ GateUndo(s)
    \/ GateOverwrite(s)

Write(s) ==
    \/ \E u \in Usages : Register(s, u) \/ Buy(s, u)
    \/ \E r \in Requests : Ask(s, r)
    \/ Edit(s)
    \/ Restore(s)
    \/ Undo(s)
    \/ Overwrite(s)
    \/ Remove(s)
    \/ \E own \in BOOLEAN : Cancel(s, own)
    \/ ToTeam(s)
    \/ \E l \in Lines : ToExtraLine(s, l)
    \/ Move(s)

Work ==
    \/ \E u \in Usages, l \in Lines, a \in Amounts : RegisterExtra(u, l, a)
    \/ \E e \in Expenses :
          \/ \E l \in Lines : Draft(e, l)
          \/ Submit(e)
          \/ \E outcome \in {"returned", "approved"} : Decide(e, outcome)
          \/ Close(e)

Quote ==
    \/ \E l \in Lines :
          \/ \E a \in Amounts, o \in BOOLEAN : AddLine(l, a, o) \/ EditLine(l, a, o)
          \/ DeleteLine(l)
          \/ RestoreLine(l)
    \/ NewRevision
    \/ Complete

Next ==
    \/ \E s \in Sessions : Fill(s) \/ GiveUp(s) \/ Judge(s) \/ Write(s)
    \/ Work
    \/ Quote

Spec == Init /\ [][Next]_vars

-----------------------------------------------------------------------------
(* Types.                                                                  *)

LineRows ==
    [tip : 0..MaxSeq, archived : BOOLEAN, execution : Nat, online : BOOLEAN, extra : BOOLEAN]

UsageRows ==
    [state : {"none", "live", "archived"}, line : Lines \cup {Team}, at : 0..MaxSeq,
     supply : Nat, request : Requests \cup {None}, version : Nat]

RequestRows ==
    [state : {"none", "requested", "purchased", "cancelled"}, line : Lines \cup {Team},
     at : 0..MaxSeq, estimate : Nat, regret : BOOLEAN, version : Nat]

ExpenseRows ==
    [state : {"none", "draft", "review", "returned", "approved", "closed"},
     line : Lines \cup {Team}, at : 0..MaxSeq, version : Nat]

UsageJobs == {"edit", "restore", "remove", "leave", "overwrite"}

RequestJobs == {"buy", "cancel", "undo"}

Jobs == {"none", "register", "ask", "move"} \cup UsageJobs \cup RequestJobs

\* A session works on a row of the kind its job is about.
SessionRows ==
    {x \in [phase : {"idle", "form", "gated"}, job : Jobs,
            row : Usages \cup Requests \cup Expenses \cup {None}, line : Lines \cup {Team},
            at : 0..MaxSeq, fixed : BOOLEAN, capped : BOOLEAN, amount : Nat, rate : Nat, seen : Nat,
            locks : SUBSET ((Lines \cup {Team}) \X (0..MaxSeq))] :
        /\ x.job \in UsageJobs => x.row \in Usages
        /\ x.job \in RequestJobs => x.row \in Requests
        /\ x.job = "move" => x.row \in Expenses}

TypeOK ==
    /\ completed \in BOOLEAN
    /\ seq \in 1..MaxSeq
    /\ line \in [Lines -> LineRows]
    /\ usage \in [Usages -> UsageRows]
    /\ request \in [Requests -> RequestRows]
    /\ expense \in [Expenses -> ExpenseRows]
    /\ session \in [Sessions -> SessionRows]
    /\ outrun \subseteq Lines \cup {Team}
    /\ turns \in Nat

-----------------------------------------------------------------------------
(* What the links keep.                                                    *)

\* No line has, over all its copies, an expense in review or approved and a
\* usage or an open request.  An expense may be returned, moved to a line of
\* the card side without being asked, and submitted again; a deleted usage or
\* a cancelled request may come back meanwhile; each of them asks only when
\* it holds the project.
OneSideOfALine ==
    \A l \in Lines :
        (\E e \in Expenses : expense[e].state \in {"review", "approved"} /\ expense[e].line = l)
            => Live(l) = {} /\ Asked(l) = {}

\* A request that is purchased has exactly one usage that paid for it, which
\* stays and stays linked to the line of the request; no other request has
\* one.
PurchasesArePaidOnce ==
    /\ \A r \in Requests : request[r].state = "purchased" =>
          \E u \in Usages : /\ usage[u].state = "live"
                            /\ usage[u].request = r
                            /\ usage[u].line = request[r].line
                            /\ usage[u].at = request[r].at
    /\ \A u \in Usages : usage[u].request # None => request[usage[u].request].state = "purchased"
    /\ \A u, v \in Usages : usage[u].request = usage[v].request /\ usage[u].request # None => u = v

\* A usage or an open request of a line can always be judged against an
\* execution amount: its line has a copy in the current revision.
LinksReachTheQuote ==
    \A l \in Lines : Live(l) # {} \/ Asked(l) # {} => Reaches(l)

\* No write makes what the card side takes of a line grow beyond the execution
\* amount, counted at the rate the writing request has read, except a purchase
\* completed for a completed project and the overwriting of a usage while only
\* a former copy of its line was locked.
RoomIsKept ==
    [][UNCHANGED <<usage, request>> \/
       \A l \in Lines \ outrun', v \in Rates :
          /\ \A s \in Sessions :
                session[s].phase = "gated" /\ session'[s] # session[s] => session[s].rate = v
          /\ Spent(l, v)' > Spent(l, v)
          /\ ~(completed /\ \E r \in Asked(l) : request'[r].state = "purchased")
          => Spent(l, v)' <= line'[l].execution]_vars

\* The same at every rate.  The code does not promise it: a rule that changes
\* between the reading and the writing, or afterwards, leaves a request counted
\* for less, or more, than it takes.
RoomIsKeptAtEveryRate ==
    [][UNCHANGED <<usage, request>> \/
       \A l \in Lines \ outrun', v \in Rates :
          /\ Spent(l, v)' > Spent(l, v)
          /\ ~(completed /\ \E r \in Asked(l) : request'[r].state = "purchased")
          => Spent(l, v)' <= line'[l].execution]_vars

=============================================================================
