-------------------------- MODULE CardLinksProofs --------------------------
(***************************************************************************)
(* What the links of a quote's lines keep, for any number of lines, rows,  *)
(* revisions and requests at work.                                         *)
(*                                                                         *)
(* A row's version is what carries a form's reading over to its write: as  *)
(* long as the version is the one the form saw, what it judged still       *)
(* holds.  The project's lock carries a gate's judgement over to its       *)
(* write: whoever deletes or copies a line, or submits an expense, waits   *)
(* for it; moving an expense does not, but moves none that is in review    *)
(* or approved.                                                            *)
(*                                                                         *)
(* The lock of a line's current copy does the same for the room a gate has *)
(* judged: until the write nobody else takes more of the line, and its     *)
(* execution amount stays.                                                 *)
(***************************************************************************)
EXTENDS CardLinks, FiniteSetTheorems, WellFoundedInduction, TLAPS

UnderWay(l) ==
    {e \in Expenses : expense[e].state \in {"review", "approved"} /\ expense[e].line = l}

\* Rows know a line there has been.
RowsOnLines ==
    /\ \A r \in Requests : request[r].state # "none" => request[r].line \in Lines
    /\ \A e \in Expenses : expense[e].line \in Lines => line[expense[e].line].tip # 0

\* What a form on a usage has read stands while the usage has its version.
UsageForm(s) ==
    LET u == session[s].row
    IN  session[s].job \in UsageJobs =>
          /\ usage[u].state # "none"
          /\ session[s].seen <= usage[u].version
          /\ session[s].seen = usage[u].version =>
               /\ session[s].job \in {"remove", "leave"} => usage[u].request = None
               /\ session[s].job = "edit" =>
                    usage[u].request = None
                      \/ (session[s].line = usage[u].line /\ session[s].at = usage[u].at)
               /\ session[s].job = "restore" => session[s].line = usage[u].line

\* A request for a purchase keeps its copy.
RequestForm(s) ==
    LET r == session[s].row
    IN  session[s].job \in {"buy", "undo"} =>
          /\ request[r].state # "none"
          /\ session[s].line = request[r].line
          /\ session[s].at = request[r].at

\* An expense a form was about to move is in nobody's review while it has
\* its version.
MoveForm(s) ==
    LET e == session[s].row
    IN  session[s].job = "move" =>
          /\ session[s].line \in Lines
          /\ line[session[s].line].tip # 0
          /\ expense[e].state # "none"
          /\ session[s].seen <= expense[e].version
          /\ session[s].seen = expense[e].version => expense[e].state \in {"draft", "returned"}

\* A form that wants a line names one.
LineForm(s) ==
    session[s].job \in {"register", "ask", "edit", "restore", "buy", "undo"} => session[s].line \in Lines

\* Where the project is held, the line reaches the quote and no expense of it
\* is under way.
GatesHold(s) ==
    OwnsProject(s) =>
       /\ session[s].line \in Lines
       /\ Reaches(session[s].line)
       /\ UnderWay(session[s].line) = {}

\* A session knows its row.
FormsHold == \A s \in Sessions : LineForm(s) /\ UsageForm(s) /\ RequestForm(s) /\ MoveForm(s)

IInv ==
    /\ TypeOK
    /\ RowsOnLines
    /\ FormsHold
    /\ \A s \in Sessions : GatesHold(s)
    /\ OneSideOfALine
    /\ PurchasesArePaidOnce
    /\ LinksReachTheQuote

-----------------------------------------------------------------------------
(* Types.                                                                  *)

Becomes(s, x) == session' = [session EXCEPT ![s] = x]

Linkable == Lines \cup {Team}

Revisions == 0..MaxSeq

LEMMA RowTypes ==
    /\ NoLine \in LineRows
    /\ NoUsage \in UsageRows
    /\ NoRequest \in RequestRows
    /\ NoExpense \in ExpenseRows
    /\ Idle \in SessionRows
BY LinkBounds DEF NoLine, NoUsage, NoRequest, NoExpense, Idle, LineRows, UsageRows, RequestRows,
                  ExpenseRows, SessionRows, Jobs, UsageJobs, RequestJobs

\* The fields of the rows, one by one.
LEMMA Fields ==
    ASSUME TypeOK
    PROVE  /\ seq \in Nat \ {0} /\ seq \in Revisions
           /\ \A u \in Usages : /\ usage[u].line \in Linkable /\ usage[u].at \in Revisions
                                /\ usage[u].supply \in Nat /\ usage[u].version \in Nat
                                /\ usage[u].request \in Requests \cup {None}
           /\ \A r \in Requests : /\ request[r].line \in Linkable /\ request[r].at \in Revisions
                                  /\ request[r].estimate \in Nat /\ request[r].version \in Nat
           /\ \A e \in Expenses : expense[e].line \in Linkable /\ expense[e].version \in Nat
           /\ \A s \in Sessions : /\ session[s].line \in Linkable /\ session[s].at \in Revisions
                                  /\ session[s].amount \in Nat /\ session[s].seen \in Nat
                                  /\ session[s].rate \in Nat
BY LinkBounds DEF TypeOK, UsageRows, RequestRows, ExpenseRows, SessionRows, Linkable, Revisions

LEMMA FilledIsRow ==
    ASSUME NEW job \in Jobs, NEW row \in Usages \cup Requests \cup Expenses \cup {None},
           NEW l \in Linkable, NEW at \in Revisions, NEW a \in Nat, NEW n \in Nat,
           NEW f \in BOOLEAN, NEW c \in BOOLEAN,
           job \in UsageJobs => row \in Usages,
           job \in RequestJobs => row \in Requests,
           job = "move" => row \in Expenses
    PROVE  Filled(job, row, l, at, a, n, f, c) \in SessionRows
BY DEF Filled, SessionRows, Linkable, Revisions

\* What the steps do to a row leaves it a row of its kind.
LEMMA SessionUpdates ==
    ASSUME NEW x \in SessionRows, NEW c \in SUBSET ((Lines \cup {Team}) \X (0..MaxSeq))
    PROVE  /\ [x EXCEPT !.locks = c] \in SessionRows
           /\ \A v \in Nat : /\ [x EXCEPT !.phase = "gated", !.rate = v] \in SessionRows
                             /\ [x EXCEPT !.phase = "gated", !.locks = c, !.rate = v] \in SessionRows
BY DEF SessionRows

LEMMA UsageUpdates ==
    ASSUME NEW x \in UsageRows, NEW l \in Linkable, NEW at \in Revisions, NEW a \in Nat
    PROVE  /\ [x EXCEPT !.line = l, !.at = at, !.supply = a, !.version = @ + 1] \in UsageRows
           /\ [x EXCEPT !.supply = a, !.version = @ + 1] \in UsageRows
           /\ [x EXCEPT !.state = "live", !.version = @ + 1] \in UsageRows
           /\ [x EXCEPT !.state = "archived", !.version = @ + 1] \in UsageRows
           /\ UsageOf(l, at, a, None) \in UsageRows
<1>1. x.version + 1 \in Nat
  BY DEF UsageRows
<1>2. [x EXCEPT !.line = l, !.at = at, !.supply = a, !.version = @ + 1] \in UsageRows
  BY <1>1 DEF UsageRows, Linkable, Revisions
<1>3. [x EXCEPT !.supply = a, !.version = @ + 1] \in UsageRows
  BY <1>1 DEF UsageRows, Linkable, Revisions
<1>4. [x EXCEPT !.state = "live", !.version = @ + 1] \in UsageRows
  BY <1>1 DEF UsageRows, Linkable, Revisions
<1>5. [x EXCEPT !.state = "archived", !.version = @ + 1] \in UsageRows
  BY <1>1 DEF UsageRows, Linkable, Revisions
<1>6. UsageOf(l, at, a, None) \in UsageRows
  BY DEF UsageRows, Linkable, Revisions, UsageOf
<1> QED
  BY <1>2, <1>3, <1>4, <1>5, <1>6

LEMMA RequestUpdates ==
    ASSUME NEW x \in RequestRows, NEW l \in Linkable, NEW at \in Revisions, NEW a \in Nat, NEW b \in BOOLEAN
    PROVE  /\ [x EXCEPT !.state = "purchased", !.version = @ + 1] \in RequestRows
           /\ [x EXCEPT !.state = "requested", !.regret = FALSE, !.version = @ + 1] \in RequestRows
           /\ [x EXCEPT !.state = "cancelled", !.regret = b, !.version = @ + 1] \in RequestRows
           /\ [state |-> "requested", line |-> l, at |-> at, estimate |-> a, regret |-> FALSE,
               version |-> 1] \in RequestRows
<1>1. x.version + 1 \in Nat
  BY DEF RequestRows
<1>2. [x EXCEPT !.state = "purchased", !.version = @ + 1] \in RequestRows
  BY <1>1 DEF RequestRows, Linkable, Revisions
<1>3. [x EXCEPT !.state = "requested", !.regret = FALSE, !.version = @ + 1] \in RequestRows
  BY <1>1 DEF RequestRows, Linkable, Revisions
<1>4. [x EXCEPT !.state = "cancelled", !.regret = b, !.version = @ + 1] \in RequestRows
  BY <1>1 DEF RequestRows, Linkable, Revisions
<1>5. [state |-> "requested", line |-> l, at |-> at, estimate |-> a, regret |-> FALSE, version |-> 1] \in RequestRows
  BY <1>1 DEF RequestRows, Linkable, Revisions
<1> QED
  BY <1>2, <1>3, <1>4, <1>5

LEMMA ExpenseUpdates ==
    ASSUME NEW x \in ExpenseRows, NEW l \in Linkable, NEW at \in Revisions,
           NEW state \in {"review", "returned", "approved", "closed"}
    PROVE  /\ [x EXCEPT !.state = state] \in ExpenseRows
           /\ [x EXCEPT !.state = state, !.version = @ + 1] \in ExpenseRows
           /\ [x EXCEPT !.line = l, !.at = at, !.version = @ + 1] \in ExpenseRows
           /\ [state |-> "draft", line |-> l, at |-> at, version |-> 1] \in ExpenseRows
<1>1. x.version + 1 \in Nat
  BY DEF ExpenseRows
<1>2. [x EXCEPT !.state = state] \in ExpenseRows
  BY <1>1 DEF ExpenseRows, Linkable, Revisions
<1>3. [x EXCEPT !.state = state, !.version = @ + 1] \in ExpenseRows
  BY <1>1 DEF ExpenseRows, Linkable, Revisions
<1>4. [x EXCEPT !.line = l, !.at = at, !.version = @ + 1] \in ExpenseRows
  BY <1>1 DEF ExpenseRows, Linkable, Revisions
<1>5. [state |-> "draft", line |-> l, at |-> at, version |-> 1] \in ExpenseRows
  BY <1>1 DEF ExpenseRows, Linkable, Revisions
<1> QED
  BY <1>2, <1>3, <1>4, <1>5

LEMMA LineUpdates ==
    ASSUME NEW x \in LineRows, NEW n \in Revisions, NEW a \in Nat, NEW b \in BOOLEAN
    PROVE  /\ [x EXCEPT !.execution = a, !.online = b] \in LineRows
           /\ [x EXCEPT !.archived = b] \in LineRows
           /\ [x EXCEPT !.tip = n] \in LineRows
           /\ QuoteLine(n, a, b) \in LineRows
           /\ OutOfQuoteLine(n, a) \in LineRows
BY DEF LineRows, Revisions, QuoteLine, OutOfQuoteLine

LEMMA FillTypes ==
    ASSUME TypeOK, NEW s \in Sessions, Fill(s)
    PROVE  /\ Turn /\ UNCHANGED rows
           /\ \E x \in SessionRows : Becomes(s, x)
<1> USE Fields, LinkAmounts, LinkBounds DEF Jobs, UsageJobs, RequestJobs
<1> DEFINE G == Turn /\ UNCHANGED rows /\ \E x \in SessionRows : Becomes(s, x)
<1>1. ASSUME NEW job \in Jobs, NEW row \in Usages \cup Requests \cup Expenses \cup {None},
             NEW l \in Linkable, NEW at \in Revisions, NEW a \in Nat, NEW n \in Nat,
             job \in UsageJobs => row \in Usages, job \in RequestJobs => row \in Requests,
             job = "move" => row \in Expenses, Form(s, job, row, l, at, a, n)
      PROVE  G
  BY <1>1, FilledIsRow DEF Form, Open, Becomes
<1>2. ASSUME NEW l \in Lines, NEW a \in Amounts, FormRegister(s, l, a) \/ FormAsk(s, l, a)
      PROVE  G
  BY <1>1, <1>2 DEF FormRegister, FormAsk, Linkable
<1>3. ASSUME NEW l \in Lines, NEW a \in Amounts, NEW u \in Usages, NEW at \in 1..seq, FormEdit(s, u, l, at, a)
      PROVE  G
  <2>1. at \in Revisions
    BY DEF Revisions
  <2> DEFINE same == l = usage[u].line /\ at = usage[u].at
             x == Filled("edit", u, l, at, a, usage[u].version, same, ~(same /\ a <= usage[u].supply))
  <2>2. same \in BOOLEAN /\ (~(same /\ a <= usage[u].supply)) \in BOOLEAN
    OBVIOUS
  <2>3. x \in SessionRows
    <3> HIDE DEF same
    <3> QED
      BY <2>1, <2>2, FilledIsRow DEF Linkable
  <2>4. Becomes(s, x) /\ Open(s)
    BY <1>3, Zenon DEF FormEdit, Becomes
  <2> HIDE DEF x
  <2> QED
    BY <2>3, <2>4 DEF Open
<1>4. ASSUME NEW u \in Usages, FormRemove(s, u) \/ FormRestore(s, u)
      PROVE  G
  BY <1>1, <1>4 DEF FormRemove, FormRestore
<1>5. ASSUME NEW u \in Usages, NEW a \in Amounts, FormOverwrite(s, u, a)
      PROVE  G
  <2> DEFINE x == Filled("overwrite", u, usage[u].line, usage[u].at, a, usage[u].version, FALSE, TRUE)
             c == {<<usage[u].line, usage[u].at>>} \cup
                     (IF Reaches(usage[u].line) THEN {<<usage[u].line, seq>>} ELSE {})
  <2>1. x \in SessionRows
    BY FilledIsRow
  <2>2. c \in SUBSET ((Lines \cup {Team}) \X (0..MaxSeq))
    BY DEF Linkable, Revisions
  <2> DEFINE y == [x EXCEPT !.locks = c]
  <2>3. y \in SessionRows
    <3> HIDE DEF x, c
    <3> QED
      BY <2>1, <2>2, SessionUpdates
  <2>4. Becomes(s, y) /\ Open(s)
    BY <1>5, Zenon DEF FormOverwrite, Becomes
  <2> HIDE DEF y
  <2> QED
    BY <2>3, <2>4 DEF Open
<1>6. ASSUME NEW u \in Usages, NEW a \in Amounts, FormLeave(s, u, a)
      PROVE  G
  BY <1>1, <1>6 DEF FormLeave
<1>7. ASSUME NEW r \in Requests, NEW a \in Amounts, FormBuy(s, r, a)
      PROVE  G
  BY <1>1, <1>7 DEF FormBuy
<1>8. ASSUME NEW r \in Requests, FormCancel(s, r) \/ FormUndo(s, r)
      PROVE  G
  BY <1>1, <1>8 DEF FormCancel, FormUndo
<1>9. ASSUME NEW e \in Expenses, NEW l \in Lines, FormMove(s, e, l)
      PROVE  G
  BY <1>1, <1>9 DEF FormMove, Linkable
<1> QED
  BY <1>2, <1>3, <1>4, <1>5, <1>6, <1>7, <1>8, <1>9 DEF Fill

-----------------------------------------------------------------------------
(* Types.                                                                  *)

LEMMA FillKeepsTypes ==
    ASSUME TypeOK, NEW s \in Sessions, Fill(s)
    PROVE  TypeOK'
<1>1. PICK x \in SessionRows : Becomes(s, x)
  BY FillTypes
<1>2. session' \in [Sessions -> SessionRows]
  BY <1>1 DEF TypeOK, Becomes
<1>3. Turn /\ UNCHANGED rows
  BY FillTypes
<1> QED
  BY <1>2, <1>3 DEF TypeOK, Turn, rows

LEMMA JudgeKeepsTypes ==
    ASSUME TypeOK, NEW s \in Sessions, Judge(s) \/ GiveUp(s)
    PROVE  TypeOK'
<1>1. session[s] \in SessionRows /\ session[s].line \in Linkable
  BY Fields DEF TypeOK
<1>2. CASE GiveUp(s)
  BY <1>2, RowTypes DEF GiveUp, TypeOK, rows
<1>3. ASSUME NEW v \in Rates, Lock(s, v)
      PROVE  TypeOK'
  <2> DEFINE c == CopiesOf(s)
  <2>1. c \in SUBSET ((Lines \cup {Team}) \X (0..MaxSeq))
    BY Fields DEF CopiesOf, Linkable, Revisions
  <2> HIDE DEF c
  <2>2. [session[s] EXCEPT !.phase = "gated", !.locks = c, !.rate = v] \in SessionRows
    BY <1>1, <2>1, SessionUpdates, EvidenceRates
  <2>3. session' \in [Sessions -> SessionRows]
    BY <1>3, <2>2 DEF Lock, TypeOK, c
  <2> QED
    BY <1>3, <2>3 DEF Lock, TypeOK, rows
<1>4. CASE GateOverwrite(s)
  <2>1. PICK v \in Rates : session' = [session EXCEPT ![s].phase = "gated", ![s].rate = v]
    BY <1>4 DEF GateOverwrite
  <2>2. session' \in [Sessions -> SessionRows]
    <3>1. [session[s] EXCEPT !.phase = "gated", !.rate = v] \in SessionRows
      BY <1>1, SessionUpdates, EvidenceRates
    <3> QED BY <2>1, <3>1 DEF TypeOK
  <2>3. outrun' \subseteq Lines \cup {Team}
    BY <1>1, <1>4 DEF GateOverwrite, TypeOK, Linkable
  <2> QED
    BY <1>4, <2>2, <2>3 DEF GateOverwrite, TypeOK
<1> QED
  BY <1>2, <1>3, <1>4 DEF Judge, GateRegister, GateAsk, GateEdit, GateRestore, GateBuy, GateUndo

LEMMA WriteKeepsTypes ==
    ASSUME TypeOK, NEW s \in Sessions, Write(s)
    PROVE  TypeOK'
<1> DEFINE row == session[s].row
           same == UNCHANGED <<completed, seq, expense, outrun, turns>>
<1>1. ASSUME End(s)
      PROVE  session' \in [Sessions -> SessionRows]
  BY <1>1, RowTypes DEF TypeOK, End
<1>2. ASSUME NEW u, NEW x, u \in Usages => x \in UsageRows, WriteUsage(u, x), End(s),
             request' \in [Requests -> RequestRows]
      PROVE  TypeOK'
  <2>1. usage' \in [Usages -> UsageRows]
    BY <1>2 DEF WriteUsage, TypeOK
  <2> QED
    BY <1>1, <1>2, <2>1 DEF WriteUsage, TypeOK
<1>3. /\ session[s] \in SessionRows
      /\ session[s].line \in Linkable
      /\ session[s].at \in Revisions
      /\ session[s].amount \in Nat
      /\ session[s].job \in RequestJobs => row \in Requests
      /\ session[s].job \in UsageJobs => row \in Usages
      /\ session[s].job = "move" => row \in Expenses
  BY Fields DEF TypeOK, SessionRows
<1>4. ASSUME NEW q \in Requests \cup {None}
      PROVE  Linked(s, q) \in UsageRows
  BY <1>3 DEF Linked, UsageOf, UsageRows, Linkable, Revisions
<1>5. ASSUME NEW u \in Usages, Register(s, u)
      PROVE  TypeOK'
  BY <1>2, <1>4, <1>5 DEF Register, TypeOK
<1>6. ASSUME NEW u \in Usages, Buy(s, u)
      PROVE  TypeOK'
  <2>1. row \in Requests
    BY <1>3, <1>6 DEF Buy, Gated, RequestJobs
  <2>2. Linked(s, row) \in UsageRows
    BY <1>4, <2>1
  <2>3. request' \in [Requests -> RequestRows]
    <3>1. [request[row] EXCEPT !.state = "purchased", !.version = @ + 1] \in RequestRows
      BY <2>1, <1>3, RequestUpdates DEF TypeOK
    <3> QED
      BY <1>6, <2>1, <3>1 DEF Buy, TypeOK
  <2> QED
    BY <1>2, <1>6, <2>2, <2>3 DEF Buy
<1>7. ASSUME NEW r \in Requests, Ask(s, r)
      PROVE  TypeOK'
  <2>1. request' \in [Requests -> RequestRows]
    BY <1>3, <1>7, RequestUpdates DEF Ask, TypeOK
  <2> QED
    BY <1>1, <1>7, <2>1 DEF Ask, TypeOK
<1>8. CASE Edit(s) \/ Restore(s) \/ Remove(s) \/ Overwrite(s)
  <2>1. row \in Usages
    BY <1>3, <1>8 DEF Edit, Restore, Remove, Overwrite, Gated, Ready, UsageJobs
  <2>2. usage[row] \in UsageRows /\ request \in [Requests -> RequestRows]
    BY <2>1 DEF TypeOK
  <2> QED
    BY <1>2, <1>3, <1>8, <2>2, UsageUpdates DEF Edit, Restore, Remove, Overwrite
<1>9. CASE ToTeam(s)
  <2>1. row \in Usages
    BY <1>3, <1>9 DEF ToTeam, Ready, UsageJobs
  <2>2. usage[row] \in UsageRows /\ request \in [Requests -> RequestRows]
    BY <2>1 DEF TypeOK
  <2>3. Team \in Linkable /\ 0 \in Revisions
    BY LinkBounds DEF Linkable, Revisions
  <2> QED
    BY <1>2, <1>3, <1>9, <2>2, <2>3, UsageUpdates DEF ToTeam
<1>10. ASSUME NEW own \in BOOLEAN, Undo(s) \/ Cancel(s, own)
       PROVE  TypeOK'
  <2>1. row \in Requests
    BY <1>3, <1>10 DEF Undo, Cancel, Gated, Ready, RequestJobs
  <2>2. request[row] \in RequestRows
    BY <2>1 DEF TypeOK
  <2>3. CASE Undo(s)
    <3>1. request' \in [Requests -> RequestRows]
      BY <1>3, <2>1, <2>2, <2>3, RequestUpdates DEF Undo, TypeOK
    <3> QED
      BY <1>1, <2>3, <3>1 DEF Undo, TypeOK
  <2>4. CASE Cancel(s, own)
    <3>1. [request[row] EXCEPT !.state = "cancelled", !.regret = own, !.version = @ + 1] \in RequestRows
      BY <1>3, <2>2, RequestUpdates
    <3>2. request' \in [Requests -> RequestRows]
      BY <2>1, <2>4, <3>1 DEF Cancel, TypeOK
    <3> QED
      BY <1>1, <2>4, <3>2 DEF Cancel, TypeOK
  <2> QED
    BY <1>10, <2>3, <2>4
<1>11. ASSUME NEW l \in Lines, ToExtraLine(s, l)
       PROVE  TypeOK'
  <2>1. row \in Usages /\ seq \in Revisions /\ l \in Linkable
    BY <1>3, <1>11, Fields DEF ToExtraLine, Ready, UsageJobs, Linkable
  <2>2. usage[row] \in UsageRows
    BY <2>1 DEF TypeOK
  <2>3. usage' \in [Usages -> UsageRows]
    BY <1>3, <1>11, <2>1, <2>2, UsageUpdates DEF ToExtraLine, TypeOK
  <2>4. line' \in [Lines -> LineRows]
    BY <1>3, <1>11, <2>1, RowTypes, LineUpdates DEF ToExtraLine, ExtraLine, TypeOK
  <2> QED
    BY <1>1, <1>11, <2>3, <2>4 DEF ToExtraLine, TypeOK
<1>12. CASE Move(s)
  <2>1. row \in Expenses
    BY <1>3, <1>12 DEF Move, Ready
  <2>2. expense[row] \in ExpenseRows
    BY <2>1 DEF TypeOK
  <2>3. expense' \in [Expenses -> ExpenseRows]
    BY <1>3, <1>12, <2>1, <2>2, ExpenseUpdates DEF Move, TypeOK
  <2> QED
    BY <1>1, <1>12, <2>3 DEF Move, TypeOK
<1> QED
  BY <1>5, <1>6, <1>7, <1>8, <1>9, <1>10, <1>11, <1>12 DEF Write

LEMMA WorkKeepsTypes ==
    ASSUME TypeOK, Work
    PROVE  TypeOK'
<1>1. seq \in Revisions /\ Lines \subseteq Linkable /\ Amounts \subseteq Nat /\ 1 \in Nat
  BY Fields, LinkAmounts DEF Linkable
<1>2. ASSUME Turn
      PROVE  turns' \in Nat
  BY <1>2 DEF Turn, TypeOK
<1>3. ASSUME NEW u \in Usages, NEW l \in Lines, NEW a \in Amounts, RegisterExtra(u, l, a)
      PROVE  TypeOK'
  <2>1. line' \in [Lines -> LineRows]
    BY <1>1, <1>3, RowTypes, LineUpdates DEF RegisterExtra, ExtraLine, TypeOK
  <2>2. usage' \in [Usages -> UsageRows]
    BY <1>1, <1>3, RowTypes, UsageUpdates DEF RegisterExtra, TypeOK
  <2> QED
    BY <1>2, <1>3, <2>1, <2>2 DEF RegisterExtra, TypeOK
<1>4. ASSUME NEW e \in Expenses, NEW l \in Lines, Draft(e, l)
      PROVE  TypeOK'
  <2>1. expense' \in [Expenses -> ExpenseRows]
    BY <1>1, <1>4 DEF Draft, TypeOK, ExpenseRows, Linkable, Revisions
  <2> QED
    BY <1>2, <1>4, <2>1 DEF Draft, TypeOK
<1>5. ASSUME NEW e \in Expenses, NEW x \in ExpenseRows, expense' = [expense EXCEPT ![e] = x]
      PROVE  expense' \in [Expenses -> ExpenseRows]
  BY <1>5 DEF TypeOK
<1>6. ASSUME NEW e \in Expenses
      PROVE  expense[e] \in ExpenseRows
  BY DEF TypeOK
<1>7. ASSUME NEW e \in Expenses, Submit(e)
      PROVE  TypeOK'
  <2>1. [expense[e] EXCEPT !.state = "review", !.version = @ + 1] \in ExpenseRows
    <3>1. Team \in Linkable /\ 0 \in Revisions
      BY LinkBounds DEF Linkable, Revisions
    <3> QED
      BY <1>6, <3>1, ExpenseUpdates
  <2> QED
    BY <1>2, <1>5, <1>7, <2>1 DEF Submit, TypeOK
<1>8. ASSUME NEW e \in Expenses, NEW outcome \in {"returned", "approved"}, Decide(e, outcome)
      PROVE  TypeOK'
  <2>1. [expense[e] EXCEPT !.state = outcome] \in ExpenseRows
    BY <1>6 DEF ExpenseRows
  <2> QED
    BY <1>5, <1>8, <2>1 DEF Decide, TypeOK
<1>9. ASSUME NEW e \in Expenses, Close(e)
      PROVE  TypeOK'
  <2>1. [expense[e] EXCEPT !.state = "closed", !.version = @ + 1] \in ExpenseRows
    <3>1. Team \in Linkable /\ 0 \in Revisions
      BY LinkBounds DEF Linkable, Revisions
    <3> QED
      BY <1>6, <3>1, ExpenseUpdates
  <2> QED
    BY <1>5, <1>9, <2>1 DEF Close, TypeOK
<1> QED
  BY <1>3, <1>4, <1>7, <1>8, <1>9 DEF Work

LEMMA QuoteKeepsTypes ==
    ASSUME TypeOK, Quote
    PROVE  TypeOK'
<1>1. seq \in Revisions /\ Amounts \subseteq Nat
  BY Fields, LinkAmounts
<1>2. ASSUME Turn
      PROVE  turns' \in Nat
  BY <1>2 DEF Turn, TypeOK
<1>3. ASSUME NEW l \in Lines, NEW x \in LineRows, line' = [line EXCEPT ![l] = x]
      PROVE  line' \in [Lines -> LineRows]
  BY <1>3 DEF TypeOK
<1>4. ASSUME NEW l \in Lines, NEW a \in Amounts, NEW o \in BOOLEAN, AddLine(l, a, o)
      PROVE  TypeOK'
  <2>1. QuoteLine(seq, a, o) \in LineRows
    BY <1>1, RowTypes, LineUpdates
  <2> QED
    BY <1>2, <1>3, <1>4, <2>1 DEF AddLine, TypeOK
<1>7. ASSUME NEW l \in Lines, NEW a \in Amounts, NEW o \in BOOLEAN, EditLine(l, a, o)
      PROVE  TypeOK'
  <2>1. [line[l] EXCEPT !.execution = a, !.online = o] \in LineRows
    BY <1>1, LineUpdates DEF TypeOK
  <2> QED
    BY <1>2, <1>3, <1>7, <2>1 DEF EditLine, TypeOK
<1>8. ASSUME NEW l \in Lines, DeleteLine(l) \/ RestoreLine(l)
      PROVE  TypeOK'
  <2>1. \A b \in BOOLEAN : [line[l] EXCEPT !.archived = b] \in LineRows
    BY DEF TypeOK, LineRows
  <2>2. line' \in [Lines -> LineRows]
    BY <1>3, <1>8, <2>1 DEF DeleteLine, RestoreLine
  <2> QED
    BY <1>2, <1>8, <2>2 DEF DeleteLine, RestoreLine, TypeOK
<1>5. CASE NewRevision
  <2>1. seq' \in 1..MaxSeq /\ seq + 1 \in Revisions
    BY <1>5, LinkBounds DEF NewRevision, TypeOK, Revisions
  <2>2. \A l \in Lines : [line[l] EXCEPT !.tip = seq + 1] \in LineRows
    BY <2>1, LineUpdates DEF TypeOK
  <2>3. line' \in [Lines -> LineRows]
    BY <1>5, <2>2 DEF NewRevision, TypeOK
  <2> QED
    BY <1>2, <1>5, <2>1, <2>3 DEF NewRevision, TypeOK
<1>6. CASE Complete
  BY <1>2, <1>6 DEF Complete, TypeOK
<1> QED
  BY <1>4, <1>5, <1>6, <1>7, <1>8 DEF Quote

LEMMA TypesAtFirst == Init => TypeOK
<1> SUFFICES ASSUME Init
             PROVE  TypeOK
  OBVIOUS
<1>1. line \in [Lines -> LineRows]
  <2>1. PICK x \in [First -> Executions], o \in [First -> BOOLEAN] :
          line = [l \in Lines |-> IF l \in First THEN QuoteLine(1, x[l], o[l]) ELSE NoLine]
    BY DEF Init
  <2>2. ASSUME NEW l \in First
        PROVE  QuoteLine(1, x[l], o[l]) \in LineRows
    <3>1. x[l] \in Nat /\ o[l] \in BOOLEAN /\ 1 \in Revisions
      BY LinkAmounts, LinkBounds DEF Revisions
    <3> QED
      BY <3>1, RowTypes, LineUpdates
  <2> QED
    BY <2>1, <2>2, RowTypes
<1>2. usage \in [Usages -> UsageRows]
  <2>1. PICK u \in Usages, l \in First, a \in Amounts :
          usage = [v \in Usages |-> IF v = u THEN UsageOf(l, 1, a, None) ELSE NoUsage]
    BY DEF Init
  <2>2. l \in Linkable /\ 1 \in Revisions /\ a \in Nat
    BY LinkAmounts, LinkBounds, LinesAtFirst DEF Linkable, Revisions
  <2>3. UsageOf(l, 1, a, None) \in UsageRows
    BY <2>2, RowTypes, UsageUpdates
  <2> QED
    BY <2>1, <2>3, RowTypes
<1>3. /\ request = [r \in Requests |-> NoRequest]
      /\ expense = [e \in Expenses |-> NoExpense]
      /\ session = [s \in Sessions |-> Idle]
  BY Zenon DEF Init
<1>4. /\ request \in [Requests -> RequestRows]
      /\ expense \in [Expenses -> ExpenseRows]
      /\ session \in [Sessions -> SessionRows]
  <2>1. request \in [Requests -> RequestRows]
    BY <1>3, RowTypes
  <2>2. expense \in [Expenses -> ExpenseRows]
    BY <1>3, RowTypes
  <2>3. session \in [Sessions -> SessionRows]
    BY <1>3, RowTypes
  <2> QED
    BY <2>1, <2>2, <2>3
<1>5. completed \in BOOLEAN /\ seq \in 1..MaxSeq /\ outrun \subseteq Lines \cup {Team} /\ turns \in Nat
  <2>1. completed = FALSE /\ seq = 1 /\ outrun = {} /\ turns = 0
    BY DEF Init
  <2>2. completed \in BOOLEAN
    BY <2>1, Zenon
  <2>3. seq \in 1..MaxSeq /\ turns \in Nat
    BY <2>1, LinkBounds
  <2>4. outrun \subseteq Lines \cup {Team}
    BY <2>1
  <2> QED
    BY <2>2, <2>3, <2>4
<1> QED
  BY <1>1, <1>2, <1>4, <1>5 DEF TypeOK

LEMMA TypesKept == TypeOK /\ [Next]_vars => TypeOK'
<1> SUFFICES ASSUME TypeOK, [Next]_vars
             PROVE  TypeOK'
  OBVIOUS
<1>1. CASE UNCHANGED vars
  BY <1>1 DEF TypeOK, vars
<1> QED
  BY <1>1, FillKeepsTypes, JudgeKeepsTypes, WriteKeepsTypes, WorkKeepsTypes,
     QuoteKeepsTypes DEF Next

\* Every row, line and session keeps its type, for any number of them.
THEOREM TypeCorrectness == Spec => []TypeOK
BY TypesAtFirst, TypesKept, PTL DEF Spec

-----------------------------------------------------------------------------
(* What every step does to the rows.                                       *)

\* A usage that changes gets a later version.
UsagesMove ==
    \A u \in Usages : usage[u].state # "none" =>
        \/ usage'[u] = usage[u]
        \/ usage'[u].version > usage[u].version /\ usage'[u].state # "none"

RequestsKeepCopies ==
    \A r \in Requests : request[r].state # "none" =>
        /\ request'[r].state # "none"
        /\ request'[r].line = request[r].line
        /\ request'[r].at = request[r].at

\* So does an expense, but for the decision that ends its review.
ExpensesMove ==
    \A e \in Expenses : expense[e].state # "none" =>
        \/ expense'[e] = expense[e]
        \/ /\ expense'[e].state # "none"
           /\ \/ expense'[e].version > expense[e].version
              \/ expense[e].state = "review" /\ expense'[e].version = expense[e].version

TipsStay == \A l \in Lines : line[l].tip # 0 => line'[l].tip # 0

\* Nothing happens to the lines, and no expense is submitted, while somebody
\* holds the project.
OwnersAreLeftAlone ==
    ~ProjectFree => /\ UNCHANGED <<seq, line>>
                    /\ \A l \in Lines : UnderWay(l)' \subseteq UnderWay(l)

CardSideGrows ==
    \A l \in Lines : \/ ExpenseSideOpen(l)'
                     \/ ~ExpenseSideOpen(l)
                     \/ Reaches(l)' /\ UnderWay(l)' = {}

ExpenseSideGrows ==
    \A l \in Lines : UnderWay(l)' \subseteq UnderWay(l) \/ ExpenseSideOpen(l)'

LinesGo == \A l \in Lines : Reaches(l) => Reaches(l)' \/ ExpenseSideOpen(l)'

StepFacts ==
    /\ UsagesMove
    /\ RequestsKeepCopies
    /\ ExpensesMove
    /\ TipsStay
    /\ OwnersAreLeftAlone
    /\ CardSideGrows
    /\ ExpenseSideGrows
    /\ LinesGo
    /\ RowsOnLines'
    /\ PurchasesArePaidOnce'

LEMMA QuietSteps ==
    ASSUME IInv, UNCHANGED <<seq, line, usage, request, expense>>
    PROVE  StepFacts
<1>1. UsagesMove /\ RequestsKeepCopies /\ ExpensesMove /\ TipsStay
  BY DEF UsagesMove, RequestsKeepCopies, ExpensesMove, TipsStay
<1>2. \A l \in Lines : /\ UnderWay(l)' = UnderWay(l)
                       /\ ExpenseSideOpen(l)' = ExpenseSideOpen(l)
                       /\ Reaches(l)' = Reaches(l)
  BY DEF UnderWay, ExpenseSideOpen, Live, Asked, Reaches
<1>3. OwnersAreLeftAlone /\ CardSideGrows /\ ExpenseSideGrows /\ LinesGo
  BY <1>2 DEF OwnersAreLeftAlone, CardSideGrows, ExpenseSideGrows, LinesGo
<1>4. RowsOnLines' /\ PurchasesArePaidOnce'
  BY DEF IInv, RowsOnLines, PurchasesArePaidOnce
<1> QED
  BY <1>1, <1>3, <1>4 DEF StepFacts

\* A usage that paid for a purchase is live and on the copy of its request.
LEMMA PaidUsages ==
    ASSUME IInv, NEW u \in Usages, usage[u].request # None
    PROVE  /\ usage[u].state = "live"
           /\ usage[u].request \in Requests
           /\ request[usage[u].request].state = "purchased"
<1>1. usage[u].request \in Requests
  BY Fields DEF IInv
<1>2. request[usage[u].request].state = "purchased"
  BY <1>1 DEF IInv, PurchasesArePaidOnce
<1>3. PICK v \in Usages : usage[v].state = "live" /\ usage[v].request = usage[u].request
  BY <1>1, <1>2 DEF IInv, PurchasesArePaidOnce
<1>4. u = v
  BY <1>3 DEF IInv, PurchasesArePaidOnce
<1> QED
  BY <1>1, <1>2, <1>3, <1>4

\* One usage changes, and not the request it paid for; the lines stay, or
\* one is added for it.
LEMMA UsageSteps ==
    ASSUME IInv, NEW u \in Usages, NEW x \in UsageRows,
           usage' = [usage EXCEPT ![u] = x], UNCHANGED <<seq, request, expense>>,
           x.state # "none",
           usage[u].state = "none" \/ x.version > usage[u].version,
           x.request = usage[u].request,
           usage[u].request # None =>
              x.state = "live" /\ x.line = usage[u].line /\ x.at = usage[u].at,
           \/ UNCHANGED line
           \/ \E l \in Lines : /\ ProjectFree
                               /\ line[l].tip = 0
                               /\ \A m \in Lines \ {l} : line'[m] = line[m]
                               /\ line'[l].tip = seq
                               /\ ~line'[l].archived,
           x.state = "live" /\ x.line \in Lines =>
              \/ usage[u].state = "live" /\ usage[u].line = x.line
              \/ Reaches(x.line)' /\ UnderWay(x.line) = {}
    PROVE  StepFacts
<1>1. \A v \in Usages : usage'[v] = IF v = u THEN x ELSE usage[v]
  BY DEF IInv, TypeOK
<1>2. UsagesMove
  BY <1>1 DEF UsagesMove
<1>3. RequestsKeepCopies /\ ExpensesMove
  BY DEF RequestsKeepCopies, ExpensesMove
<1>4. seq \in Nat \ {0}
  BY Fields DEF IInv
<1>5. TipsStay
  BY <1>4 DEF TipsStay
<1>6. \A l \in Lines : UnderWay(l)' = UnderWay(l) /\ Asked(l)' = Asked(l)
  BY DEF UnderWay, Asked
<1>7. \A l \in Lines : Reaches(l) => Reaches(l)'
  BY <1>4 DEF Reaches
<1>8. OwnersAreLeftAlone /\ ExpenseSideGrows /\ LinesGo
  BY <1>6, <1>7 DEF OwnersAreLeftAlone, ExpenseSideGrows, LinesGo
<1>9. CardSideGrows
  <2> SUFFICES ASSUME NEW l \in Lines, ~ExpenseSideOpen(l)', ExpenseSideOpen(l)
               PROVE  Reaches(l)' /\ UnderWay(l)' = {}
    BY DEF CardSideGrows
  <2>1. Live(l)' # {} /\ Live(l) = {}
    BY <1>6 DEF ExpenseSideOpen
  <2>2. PICK v \in Usages : usage'[v].state = "live" /\ usage'[v].line = l
    BY <2>1 DEF Live
  <2>3. v = u /\ x.state = "live" /\ x.line = l /\ ~(usage[u].state = "live" /\ usage[u].line = l)
    BY <1>1, <2>1, <2>2 DEF Live
  <2> QED
    BY <1>6, <2>3
<1>10. RowsOnLines'
  BY <1>5 DEF IInv, RowsOnLines, TipsStay
<1>11. PurchasesArePaidOnce'
  <2>1. \A v \in Usages : usage'[v].request = usage[v].request
    BY <1>1
  <2>2. \A v \in Usages : usage[v].request # None =>
           /\ usage[v].state = "live" => usage'[v].state = "live"
           /\ usage'[v].line = usage[v].line
           /\ usage'[v].at = usage[v].at
    BY <1>1
  <2>3. ASSUME NEW r \in Requests, request'[r].state = "purchased"
        PROVE  \E v \in Usages : /\ usage'[v].state = "live" /\ usage'[v].request = r
                                 /\ usage'[v].line = request'[r].line
                                 /\ usage'[v].at = request'[r].at
    <3>1. PICK v \in Usages : /\ usage[v].state = "live" /\ usage[v].request = r
                              /\ usage[v].line = request[r].line /\ usage[v].at = request[r].at
      BY <2>3 DEF IInv, PurchasesArePaidOnce
    <3>2. r # None
      BY LinkNamesDiffer
    <3> QED
      BY <2>1, <2>2, <3>1, <3>2
  <2>4. \A v \in Usages : usage'[v].request # None => request'[usage'[v].request].state = "purchased"
    BY <2>1 DEF IInv, PurchasesArePaidOnce
  <2>5. \A v, w \in Usages : usage'[v].request = usage'[w].request /\ usage'[v].request # None => v = w
    BY <2>1 DEF IInv, PurchasesArePaidOnce
  <2> QED
    BY <2>3, <2>4, <2>5 DEF PurchasesArePaidOnce
<1> QED
  BY <1>2, <1>3, <1>5, <1>8, <1>9, <1>10, <1>11 DEF StepFacts

LEMMA SessionFacts ==
    ASSUME IInv, NEW s \in Sessions
    PROVE  /\ session[s] \in SessionRows
           /\ session[s].line \in Linkable
           /\ session[s].at \in Revisions
           /\ session[s].amount \in Nat /\ session[s].rate \in Nat
           /\ session[s].seen \in Nat
           /\ session[s].job \in RequestJobs => session[s].row \in Requests
           /\ session[s].job \in UsageJobs => session[s].row \in Usages
           /\ session[s].job = "move" => session[s].row \in Expenses
           /\ LineForm(s) /\ UsageForm(s) /\ RequestForm(s) /\ MoveForm(s) /\ GatesHold(s)
BY Fields DEF IInv, TypeOK, FormsHold, SessionRows

\* A usage that is not there has paid for nothing.
LEMMA NewUsages ==
    ASSUME IInv, NEW u \in Usages, usage[u].state = "none"
    PROVE  usage[u].request = None
BY PaidUsages

LEMMA UsageWrites ==
    ASSUME IInv, NEW s \in Sessions,
           \/ \E u \in Usages : Register(s, u)
           \/ Edit(s) \/ Restore(s) \/ Overwrite(s) \/ Remove(s) \/ ToTeam(s)
    PROVE  StepFacts
<1> DEFINE row == session[s].row
           l == session[s].line
<1>1. ASSUME OwnsProject(s)
      PROVE  l \in Lines /\ Reaches(l) /\ UnderWay(l) = {}
  BY <1>1, SessionFacts DEF GatesHold
<1>2. ASSUME UNCHANGED <<seq, line>>
      PROVE  \A m \in Lines : Reaches(m)' = Reaches(m)
  BY <1>2 DEF Reaches
<1>3. \A u \in Usages : usage[u] \in UsageRows /\ usage[u].version \in Nat
  BY Fields DEF IInv, TypeOK
<1>4. ASSUME NEW u \in Usages, Register(s, u)
      PROVE  StepFacts
  <2> DEFINE x == Linked(s, None)
  <2>1. /\ x \in UsageRows
        /\ x.state = "live" /\ x.line = l /\ x.request = None
    BY SessionFacts DEF Linked, UsageOf, UsageRows, Linkable, Revisions
  <2>2. OwnsProject(s)
    BY <1>4 DEF Register, Gated, OwnsProject
  <2>3. /\ usage' = [usage EXCEPT ![u] = x]
        /\ UNCHANGED <<seq, request, expense, line>>
        /\ usage[u].state = "none"
    BY <1>4 DEF Register, WriteUsage
  <2> HIDE DEF x
  <2> QED
    BY <1>1, <1>2, <2>1, <2>2, <2>3, NewUsages, UsageSteps
<1>5. CASE Edit(s)
  <2> DEFINE x == [usage[row] EXCEPT !.line = l, !.at = session[s].at, !.supply = session[s].amount,
                                     !.version = @ + 1]
  <2>1. row \in Usages /\ OwnsProject(s) /\ session[s].job = "edit"
    BY <1>5, SessionFacts DEF Edit, Gated, UsageJobs, OwnsProject
  <2>2. usage[row].state = "live" /\ usage[row].version = session[s].seen
    BY <1>5 DEF Edit, UsageStands
  <2>3. usage[row].request # None => l = usage[row].line /\ session[s].at = usage[row].at
    BY <2>1, <2>2, SessionFacts DEF UsageForm, UsageJobs
  <2>4. x \in UsageRows
    BY <1>3, <2>1, SessionFacts, UsageUpdates
  <2>5. /\ x.state = usage[row].state /\ x.line = l /\ x.at = session[s].at
        /\ x.request = usage[row].request /\ x.version = usage[row].version + 1
    BY <1>3, <2>1 DEF UsageRows
  <2>6. usage' = [usage EXCEPT ![row] = x] /\ UNCHANGED <<seq, request, expense, line>>
    BY <1>5 DEF Edit, WriteUsage
  <2>7. x.version > usage[row].version
    BY <1>3, <2>1, <2>5
  <2> HIDE DEF x
  <2> QED
    BY <1>1, <1>2, <2>1, <2>2, <2>3, <2>4, <2>5, <2>6, <2>7, UsageSteps
<1>6. CASE Restore(s)
  <2> DEFINE x == [usage[row] EXCEPT !.state = "live", !.version = @ + 1]
  <2>1. row \in Usages /\ OwnsProject(s) /\ session[s].job = "restore"
    BY <1>6, SessionFacts DEF Restore, Gated, UsageJobs, OwnsProject
  <2>2. usage[row].state = "archived" /\ usage[row].version = session[s].seen
    BY <1>6 DEF Restore, UsageStands
  <2>3. l = usage[row].line
    BY <2>1, <2>2, SessionFacts DEF UsageForm, UsageJobs
  <2>4. x \in UsageRows
    BY <1>3, <2>1, SessionFacts, UsageUpdates
  <2>5. /\ x.state = "live" /\ x.line = l /\ x.at = usage[row].at
        /\ x.request = usage[row].request /\ x.version = usage[row].version + 1
    BY <1>3, <2>1, <2>3 DEF UsageRows
  <2>6. usage' = [usage EXCEPT ![row] = x] /\ UNCHANGED <<seq, request, expense, line>>
    BY <1>6 DEF Restore, WriteUsage
  <2>7. x.version > usage[row].version
    BY <1>3, <2>1, <2>5
  <2> HIDE DEF x
  <2> QED
    BY <1>1, <1>2, <2>1, <2>2, <2>3, <2>4, <2>5, <2>6, <2>7, UsageSteps
<1>7. CASE Overwrite(s)
  <2> DEFINE x == [usage[row] EXCEPT !.supply = session[s].amount, !.version = @ + 1]
  <2>1. row \in Usages
    BY <1>7, SessionFacts DEF Overwrite, Gated, UsageJobs
  <2>2. usage[row].state # "none"
    BY <1>7, <2>1, SessionFacts DEF Overwrite, Gated, UsageForm, UsageJobs
  <2>3. usage[row].request # None => usage[row].state = "live"
    BY <2>1, PaidUsages
  <2>4. x \in UsageRows
    BY <1>3, <2>1, SessionFacts, UsageUpdates
  <2>5. /\ x.state = usage[row].state /\ x.line = usage[row].line /\ x.at = usage[row].at
        /\ x.request = usage[row].request /\ x.version = usage[row].version + 1
    BY <1>3, <2>1 DEF UsageRows
  <2>6. usage' = [usage EXCEPT ![row] = x] /\ UNCHANGED <<seq, request, expense, line>>
    BY <1>7 DEF Overwrite, WriteUsage
  <2>7. x.version > usage[row].version
    BY <1>3, <2>1, <2>5
  <2> HIDE DEF x
  <2> QED
    BY <2>1, <2>2, <2>3, <2>4, <2>5, <2>6, <2>7, UsageSteps
<1>8. CASE Remove(s)
  <2> DEFINE x == [usage[row] EXCEPT !.state = "archived", !.version = @ + 1]
  <2>1. row \in Usages /\ session[s].job = "remove"
    BY <1>8, SessionFacts DEF Remove, Ready, UsageJobs
  <2>2. usage[row].state = "live" /\ usage[row].version = session[s].seen
    BY <1>8 DEF Remove, UsageStands
  <2>3. usage[row].request = None
    BY <2>1, <2>2, SessionFacts DEF UsageForm, UsageJobs
  <2>4. x \in UsageRows
    BY <1>3, <2>1, SessionFacts, UsageUpdates
  <2>5. /\ x.state = "archived" /\ x.request = usage[row].request
        /\ x.version = usage[row].version + 1
    BY <1>3, <2>1 DEF UsageRows
  <2>6. usage' = [usage EXCEPT ![row] = x] /\ UNCHANGED <<seq, request, expense, line>>
    BY <1>8 DEF Remove, WriteUsage
  <2>7. x.version > usage[row].version
    BY <1>3, <2>1, <2>5
  <2> HIDE DEF x
  <2> QED
    BY <2>1, <2>2, <2>3, <2>4, <2>5, <2>6, <2>7, UsageSteps
<1>9. CASE ToTeam(s)
  <2> DEFINE x == [usage[row] EXCEPT !.line = Team, !.at = 0, !.supply = session[s].amount, !.version = @ + 1]
  <2>1. row \in Usages /\ session[s].job = "leave"
    BY <1>9, SessionFacts DEF ToTeam, Ready, UsageJobs
  <2>2. usage[row].state = "live" /\ usage[row].version = session[s].seen
    BY <1>9 DEF ToTeam, UsageStands
  <2>3. usage[row].request = None
    BY <2>1, <2>2, SessionFacts DEF UsageForm, UsageJobs
  <2>4. x \in UsageRows
    <3>1. Team \in Linkable /\ 0 \in Revisions
      BY LinkBounds DEF Linkable, Revisions
    <3> QED
      BY <1>3, <2>1, <3>1, SessionFacts, UsageUpdates
  <2>5. /\ x.state = "live" /\ x.line = Team /\ x.request = usage[row].request
        /\ x.version = usage[row].version + 1
    BY <1>3, <2>1, <2>2 DEF UsageRows
  <2>6. usage' = [usage EXCEPT ![row] = x] /\ UNCHANGED <<seq, request, expense, line>>
    BY <1>9 DEF ToTeam, WriteUsage
  <2>7. x.version > usage[row].version
    BY <1>3, <2>1, <2>5
  <2> HIDE DEF x
  <2> QED
    BY <2>1, <2>2, <2>3, <2>4, <2>5, <2>6, <2>7, UsageSteps, LinkNamesDiffer
<1> QED
  BY <1>4, <1>5, <1>6, <1>7, <1>8, <1>9

LEMMA ExtraLines ==
    ASSUME IInv, NEW u \in Usages, NEW l \in Lines, NEW a \in Nat, ExtraLine(l, a), UNCHANGED seq
    PROVE  /\ ProjectFree /\ line[l].tip = 0
           /\ \A m \in Lines \ {l} : line'[m] = line[m]
           /\ line'[l].tip = seq /\ ~line'[l].archived
           /\ Reaches(l)' /\ UnderWay(l) = {}
<1>1. /\ ProjectFree /\ line[l].tip = 0
      /\ line' = [line EXCEPT ![l] = OutOfQuoteLine(seq, a)]
  BY DEF ExtraLine
<1>2. line'[l] = OutOfQuoteLine(seq, a) /\ \A m \in Lines \ {l} : line'[m] = line[m]
  BY <1>1 DEF IInv, TypeOK
<1>3. line'[l].tip = seq /\ ~line'[l].archived
  BY <1>2 DEF OutOfQuoteLine
<1>4. UnderWay(l) = {}
  BY <1>1 DEF UnderWay, IInv, RowsOnLines
<1> QED
  BY <1>1, <1>2, <1>3, <1>4 DEF Reaches

LEMMA ExtraWrites ==
    ASSUME IInv, NEW l \in Lines,
           \/ \E s \in Sessions : ToExtraLine(s, l)
           \/ \E u \in Usages, a \in Amounts : RegisterExtra(u, l, a)
    PROVE  StepFacts
<1>1. \A u \in Usages : usage[u] \in UsageRows /\ usage[u].version \in Nat
  BY Fields DEF IInv, TypeOK
<1>2. seq \in Revisions /\ l \in Linkable
  BY Fields DEF IInv, Linkable
<1>3. ASSUME NEW s \in Sessions, ToExtraLine(s, l)
      PROVE  StepFacts
  <2> DEFINE row == session[s].row
             x == [usage[row] EXCEPT !.line = l, !.at = seq, !.supply = session[s].amount, !.version = @ + 1]
  <2>1. row \in Usages /\ session[s].job = "leave"
    BY <1>3, SessionFacts DEF ToExtraLine, Ready, UsageJobs
  <2>2. usage[row].state = "live" /\ usage[row].version = session[s].seen
    BY <1>3 DEF ToExtraLine, UsageStands
  <2>3. usage[row].request = None
    BY <2>1, <2>2, SessionFacts DEF UsageForm, UsageJobs
  <2>4. x \in UsageRows
    BY <1>1, <1>2, <2>1, SessionFacts, UsageUpdates
  <2>5. /\ x.state = "live" /\ x.line = l /\ x.request = usage[row].request
        /\ x.version = usage[row].version + 1
    BY <1>1, <2>1, <2>2 DEF UsageRows
  <2>6. usage' = [usage EXCEPT ![row] = x] /\ UNCHANGED <<seq, request, expense>>
        /\ ExtraLine(l, session[s].amount)
    BY <1>3 DEF ToExtraLine
  <2>7. x.version > usage[row].version
    BY <1>1, <2>1, <2>5
  <2>8. /\ ProjectFree /\ line[l].tip = 0
        /\ \A m \in Lines \ {l} : line'[m] = line[m]
        /\ line'[l].tip = seq /\ ~line'[l].archived
        /\ Reaches(l)' /\ UnderWay(l) = {}
    BY <2>1, <2>6, SessionFacts, ExtraLines
  <2> HIDE DEF x
  <2> QED
    BY <2>1, <2>2, <2>3, <2>4, <2>5, <2>6, <2>7, <2>8, UsageSteps
<1>4. ASSUME NEW u \in Usages, NEW a \in Amounts, RegisterExtra(u, l, a)
      PROVE  StepFacts
  <2> DEFINE x == UsageOf(l, seq, a, None)
  <2>1. a \in Nat
    BY LinkAmounts
  <2>2. x \in UsageRows
    BY <1>1, <1>2, <2>1, UsageUpdates
  <2>3. x.state = "live" /\ x.line = l /\ x.request = None
    BY DEF UsageOf
  <2>4. /\ usage' = [usage EXCEPT ![u] = x] /\ UNCHANGED <<seq, request, expense>>
        /\ ExtraLine(l, a) /\ usage[u].state = "none"
    BY <1>4 DEF RegisterExtra
  <2>5. /\ ProjectFree /\ line[l].tip = 0
        /\ \A m \in Lines \ {l} : line'[m] = line[m]
        /\ line'[l].tip = seq /\ ~line'[l].archived
        /\ Reaches(l)' /\ UnderWay(l) = {}
    BY <2>1, <2>4, ExtraLines
  <2> HIDE DEF x
  <2> QED
    BY <2>2, <2>3, <2>4, <2>5, NewUsages, UsageSteps
<1> QED
  BY <1>3, <1>4

\* One request changes, and neither to nor from a purchase.
LEMMA RequestSteps ==
    ASSUME IInv, NEW r \in Requests, NEW x \in RequestRows,
           request' = [request EXCEPT ![r] = x], UNCHANGED <<seq, line, usage, expense>>,
           request[r].state # "purchased", x.state \notin {"none", "purchased"},
           x.line \in Lines,
           request[r].state # "none" => x.line = request[r].line /\ x.at = request[r].at,
           x.state = "requested" => Reaches(x.line) /\ UnderWay(x.line) = {}
    PROVE  StepFacts
<1>1. \A q \in Requests : request'[q] = IF q = r THEN x ELSE request[q]
  BY DEF IInv, TypeOK
<1>2. RequestsKeepCopies
  BY <1>1 DEF RequestsKeepCopies
<1>3. UsagesMove /\ ExpensesMove /\ TipsStay
  BY DEF UsagesMove, ExpensesMove, TipsStay
<1>4. \A l \in Lines : UnderWay(l)' = UnderWay(l) /\ Live(l)' = Live(l) /\ Reaches(l)' = Reaches(l)
  BY DEF UnderWay, Live, Reaches
<1>5. OwnersAreLeftAlone /\ ExpenseSideGrows /\ LinesGo
  BY <1>4 DEF OwnersAreLeftAlone, ExpenseSideGrows, LinesGo
<1>6. CardSideGrows
  <2> SUFFICES ASSUME NEW l \in Lines, ~ExpenseSideOpen(l)', ExpenseSideOpen(l)
               PROVE  Reaches(l)' /\ UnderWay(l)' = {}
    BY DEF CardSideGrows
  <2>1. Asked(l)' # {} /\ Asked(l) = {}
    BY <1>4 DEF ExpenseSideOpen
  <2>2. PICK q \in Requests : request'[q].state = "requested" /\ request'[q].line = l
    BY <2>1 DEF Asked
  <2>3. q = r
    BY <1>1, <2>1, <2>2 DEF Asked
  <2> QED
    BY <1>1, <1>4, <2>2, <2>3
<1>7. RowsOnLines'
  BY <1>1 DEF IInv, RowsOnLines
<1>8. PurchasesArePaidOnce'
  <2>1. \A q \in Requests : /\ request'[q].state = "purchased" <=> request[q].state = "purchased"
                            /\ request[q].state = "purchased" => request'[q] = request[q]
    BY <1>1
  <2>2. ASSUME NEW q \in Requests, request'[q].state = "purchased"
        PROVE  \E v \in Usages : /\ usage'[v].state = "live" /\ usage'[v].request = q
                                 /\ usage'[v].line = request'[q].line
                                 /\ usage'[v].at = request'[q].at
    BY <2>1, <2>2 DEF IInv, PurchasesArePaidOnce
  <2>3. ASSUME NEW v \in Usages, usage'[v].request # None
        PROVE  request'[usage'[v].request].state = "purchased"
    BY <2>1, <2>3, PaidUsages
  <2>4. \A v, w \in Usages : usage'[v].request = usage'[w].request /\ usage'[v].request # None => v = w
    BY DEF IInv, PurchasesArePaidOnce
  <2> QED
    BY <2>2, <2>3, <2>4 DEF PurchasesArePaidOnce
<1> QED
  BY <1>2, <1>3, <1>5, <1>6, <1>7, <1>8 DEF StepFacts

LEMMA RequestWrites ==
    ASSUME IInv, NEW s \in Sessions,
           \/ \E r \in Requests : Ask(s, r)
           \/ Undo(s)
           \/ \E own \in BOOLEAN : Cancel(s, own)
    PROVE  StepFacts
<1> DEFINE row == session[s].row
           l == session[s].line
<1>1. ASSUME OwnsProject(s)
      PROVE  l \in Lines /\ Reaches(l) /\ UnderWay(l) = {}
  BY <1>1, SessionFacts DEF GatesHold
<1>2. \A r \in Requests : request[r] \in RequestRows
  BY DEF IInv, TypeOK
<1>3. ASSUME NEW r \in Requests, Ask(s, r)
      PROVE  StepFacts
  <2> DEFINE x == [state |-> "requested", line |-> l, at |-> session[s].at,
                   estimate |-> session[s].amount, regret |-> FALSE, version |-> 1]
  <2>1. OwnsProject(s)
    BY <1>3 DEF Ask, Gated, OwnsProject
  <2>2. x \in RequestRows
    BY SessionFacts DEF RequestRows, Linkable, Revisions
  <2>3. /\ request' = [request EXCEPT ![r] = x] /\ UNCHANGED <<seq, line, usage, expense>>
        /\ request[r].state = "none"
    BY <1>3 DEF Ask
  <2>4. x.state = "requested" /\ x.line = l
    OBVIOUS
  <2> HIDE DEF x
  <2> QED
    BY <1>1, <2>1, <2>2, <2>3, <2>4, RequestSteps
<1>4. CASE Undo(s)
  <2> DEFINE x == [request[row] EXCEPT !.state = "requested", !.regret = FALSE, !.version = @ + 1]
  <2>1. row \in Requests /\ OwnsProject(s) /\ session[s].job = "undo"
    BY <1>4, SessionFacts DEF Undo, Gated, RequestJobs, OwnsProject
  <2>2. request[row].state = "cancelled"
    BY <1>4 DEF Undo
  <2>3. l = request[row].line
    BY <2>1, SessionFacts DEF RequestForm
  <2>4. x \in RequestRows
    BY <1>2, <2>1, SessionFacts, RequestUpdates
  <2>5. x.state = "requested" /\ x.line = request[row].line /\ x.at = request[row].at
    BY <1>2, <2>1 DEF RequestRows
  <2>6. request' = [request EXCEPT ![row] = x] /\ UNCHANGED <<seq, line, usage, expense>>
    BY <1>4 DEF Undo
  <2> HIDE DEF x
  <2> QED
    BY <1>1, <2>1, <2>2, <2>3, <2>4, <2>5, <2>6, RequestSteps
<1>5. ASSUME NEW own \in BOOLEAN, Cancel(s, own)
      PROVE  StepFacts
  <2> DEFINE x == [request[row] EXCEPT !.state = "cancelled", !.regret = own, !.version = @ + 1]
  <2>1. row \in Requests
    BY <1>5, SessionFacts DEF Cancel, Ready, RequestJobs
  <2>2. request[row].state = "requested"
    BY <1>5 DEF Cancel
  <2>3. request[row].line \in Lines
    BY <2>1, <2>2 DEF IInv, RowsOnLines
  <2>4. x \in RequestRows
    BY <1>2, <2>1, SessionFacts, RequestUpdates
  <2>5. x.state = "cancelled" /\ x.line = request[row].line /\ x.at = request[row].at
    BY <1>2, <2>1 DEF RequestRows
  <2>6. request' = [request EXCEPT ![row] = x] /\ UNCHANGED <<seq, line, usage, expense>>
    BY <1>5 DEF Cancel
  <2> HIDE DEF x
  <2> QED
    BY <2>1, <2>2, <2>3, <2>4, <2>5, <2>6, RequestSteps
<1> QED
  BY <1>3, <1>4, <1>5

\* The purchase of a request and the usage that pays for it.
LEMMA Purchases ==
    ASSUME IInv, NEW s \in Sessions, NEW u \in Usages, Buy(s, u)
    PROVE  StepFacts
<1> DEFINE r == session[s].row
           x == Linked(s, r)
           y == [request[r] EXCEPT !.state = "purchased", !.version = @ + 1]
<1>1. r \in Requests /\ OwnsProject(s) /\ session[s].job = "buy"
  BY SessionFacts DEF Buy, Gated, RequestJobs, OwnsProject
<1>2. /\ session[s].line \in Lines /\ Reaches(session[s].line) /\ UnderWay(session[s].line) = {}
      /\ session[s].line = request[r].line /\ session[s].at = request[r].at
  BY <1>1, SessionFacts DEF GatesHold, RequestForm
<1>3. /\ usage' = [usage EXCEPT ![u] = x] /\ request' = [request EXCEPT ![r] = y]
      /\ UNCHANGED <<seq, line, expense>>
      /\ usage[u].state = "none" /\ request[r].state = "requested"
  BY DEF Buy, WriteUsage
<1>4. /\ x.state = "live" /\ x.line = request[r].line /\ x.at = request[r].at /\ x.request = r
  BY <1>2 DEF Linked, UsageOf
<1>5. request[r] \in RequestRows
  BY <1>1 DEF IInv, TypeOK
<1>6. y.state = "purchased" /\ y.line = request[r].line /\ y.at = request[r].at
  BY <1>5 DEF RequestRows
<1> HIDE DEF x, y
<1>7. \A v \in Usages : usage'[v] = IF v = u THEN x ELSE usage[v]
  BY <1>3 DEF IInv, TypeOK
<1>8. \A q \in Requests : request'[q] = IF q = r THEN y ELSE request[q]
  BY <1>3 DEF IInv, TypeOK
<1>9. UsagesMove /\ RequestsKeepCopies /\ ExpensesMove /\ TipsStay
  BY <1>3, <1>6, <1>7, <1>8 DEF UsagesMove, RequestsKeepCopies, ExpensesMove, TipsStay
<1>10. \A l \in Lines : UnderWay(l)' = UnderWay(l) /\ Reaches(l)' = Reaches(l)
  BY <1>3 DEF UnderWay, Reaches
<1>11. OwnersAreLeftAlone /\ ExpenseSideGrows /\ LinesGo
  BY <1>3, <1>10 DEF OwnersAreLeftAlone, ExpenseSideGrows, LinesGo
<1>12. CardSideGrows
  <2> SUFFICES ASSUME NEW l \in Lines, ~ExpenseSideOpen(l)', ExpenseSideOpen(l)
               PROVE  Reaches(l)' /\ UnderWay(l)' = {}
    BY DEF CardSideGrows
  <2>1. Live(l) = {} /\ Asked(l) = {}
    BY DEF ExpenseSideOpen
  <2>2. Asked(l)' = {}
    BY <1>6, <1>8, <2>1 DEF Asked
  <2>3. PICK v \in Usages : usage'[v].state = "live" /\ usage'[v].line = l
    BY <2>2 DEF ExpenseSideOpen, Live
  <2>4. v = u
    BY <1>7, <2>1, <2>3 DEF Live
  <2> QED
    BY <1>2, <1>4, <1>7, <1>10, <2>3, <2>4
<1>13. RowsOnLines'
  BY <1>3, <1>6, <1>8 DEF IInv, RowsOnLines
<1>14. \A v \in Usages : usage[v].request # r
  BY <1>1, <1>3, PaidUsages, LinkNamesDiffer
<1>15. usage[u].request = None
  BY <1>3, NewUsages
<1>16. PurchasesArePaidOnce'
  <2>1. ASSUME NEW q \in Requests, request'[q].state = "purchased"
        PROVE  \E v \in Usages : /\ usage'[v].state = "live" /\ usage'[v].request = q
                                 /\ usage'[v].line = request'[q].line
                                 /\ usage'[v].at = request'[q].at
    <3>1. CASE q = r
      BY <1>1, <1>4, <1>6, <1>7, <1>8, <3>1
    <3>2. CASE q # r
      <4>1. request'[q] = request[q]
        BY <1>8, <3>2
      <4>2. PICK v \in Usages : /\ usage[v].state = "live" /\ usage[v].request = q
                                /\ usage[v].line = request[q].line /\ usage[v].at = request[q].at
        BY <2>1, <4>1 DEF IInv, PurchasesArePaidOnce
      <4>3. v # u
        BY <1>3, <4>2
      <4> QED
        BY <1>7, <4>1, <4>2, <4>3
    <3> QED
      BY <3>1, <3>2
  <2>2. ASSUME NEW v \in Usages, usage'[v].request # None
        PROVE  request'[usage'[v].request].state = "purchased"
    BY <1>1, <1>4, <1>6, <1>7, <1>8, <2>2, PaidUsages
  <2>3. ASSUME NEW v \in Usages, NEW w \in Usages,
               usage'[v].request = usage'[w].request, usage'[v].request # None
        PROVE  v = w
    <3>1. CASE v # u /\ w # u
      BY <1>7, <2>3, <3>1 DEF IInv, PurchasesArePaidOnce
    <3>2. CASE v = u \/ w = u
      BY <1>4, <1>7, <1>14, <2>3, <3>2
    <3> QED
      BY <3>1, <3>2
  <2> QED
    BY <2>1, <2>2, <2>3 DEF PurchasesArePaidOnce
<1> QED
  BY <1>9, <1>11, <1>12, <1>13, <1>16 DEF StepFacts

\* One expense changes: to the side of a line that is open to it and under
\* nobody's lock, or without coming under way.
LEMMA ExpenseSteps ==
    ASSUME IInv, NEW e \in Expenses, NEW x \in ExpenseRows,
           expense' = [expense EXCEPT ![e] = x], UNCHANGED <<seq, line, usage, request>>,
           x.state # "none",
           expense[e].state # "none" =>
              \/ x.version > expense[e].version
              \/ expense[e].state = "review" /\ x.version = expense[e].version,
           x.line \in Lines => line[x.line].tip # 0,
           x.state \in {"review", "approved"} =>
              \/ expense[e].state \in {"review", "approved"} /\ x.line = expense[e].line
              \/ ProjectFree /\ ExpenseSideOpen(x.line)
    PROVE  StepFacts
<1>1. \A f \in Expenses : expense'[f] = IF f = e THEN x ELSE expense[f]
  BY DEF IInv, TypeOK
<1>2. ExpensesMove
  BY <1>1 DEF ExpensesMove
<1>3. UsagesMove /\ RequestsKeepCopies /\ TipsStay
  BY DEF UsagesMove, RequestsKeepCopies, TipsStay
<1>4. \A l \in Lines : ExpenseSideOpen(l)' = ExpenseSideOpen(l) /\ Reaches(l)' = Reaches(l)
  BY DEF ExpenseSideOpen, Live, Asked, Reaches
<1>5. ASSUME NEW l \in Lines
      PROVE  UnderWay(l)' \subseteq UnderWay(l) \/ (ProjectFree /\ ExpenseSideOpen(l))
  <2>1. CASE x.state \in {"review", "approved"} /\ x.line = l /\ ProjectFree /\ ExpenseSideOpen(x.line)
    BY <2>1
  <2>2. CASE ~(x.state \in {"review", "approved"} /\ x.line = l /\ ProjectFree /\ ExpenseSideOpen(x.line))
    <3> SUFFICES ASSUME NEW f \in UnderWay(l)'
                 PROVE  f \in UnderWay(l)
      OBVIOUS
    <3>1. f \in Expenses /\ expense'[f].state \in {"review", "approved"} /\ expense'[f].line = l
      BY DEF UnderWay
    <3> QED
      BY <1>1, <2>2, <3>1 DEF UnderWay
  <2> QED
    BY <2>1, <2>2
<1>6. OwnersAreLeftAlone /\ CardSideGrows /\ ExpenseSideGrows /\ LinesGo
  BY <1>4, <1>5 DEF OwnersAreLeftAlone, CardSideGrows, ExpenseSideGrows, LinesGo
<1>7. RowsOnLines'
  BY <1>1 DEF IInv, RowsOnLines
<1>8. PurchasesArePaidOnce'
  BY DEF IInv, PurchasesArePaidOnce
<1> QED
  BY <1>2, <1>3, <1>6, <1>7, <1>8 DEF StepFacts

LEMMA ExpenseWrites ==
    ASSUME IInv, NEW e \in Expenses,
           \/ \E l \in Lines : Draft(e, l)
           \/ Submit(e)
           \/ \E outcome \in {"returned", "approved"} : Decide(e, outcome)
           \/ Close(e)
    PROVE  StepFacts
<1>1. expense[e] \in ExpenseRows /\ expense[e].version \in Nat /\ seq \in Revisions /\ seq # 0
  BY Fields DEF IInv, TypeOK
<1>2. expense[e].line \in Lines => line[expense[e].line].tip # 0
  BY DEF IInv, RowsOnLines
<1>3. ASSUME NEW l \in Lines, Draft(e, l)
      PROVE  StepFacts
  <2> DEFINE x == [state |-> "draft", line |-> l, at |-> seq, version |-> 1]
  <2>1. /\ expense' = [expense EXCEPT ![e] = x] /\ UNCHANGED <<seq, line, usage, request>>
        /\ expense[e].state = "none" /\ Reaches(l)
    BY <1>3 DEF Draft
  <2>2. x \in ExpenseRows
    BY <1>1 DEF ExpenseRows, Revisions
  <2>3. x.state = "draft" /\ x.line = l
    OBVIOUS
  <2>4. line[l].tip # 0
    BY <1>1, <2>1 DEF Reaches
  <2> HIDE DEF x
  <2> QED
    BY <2>1, <2>2, <2>3, <2>4, ExpenseSteps
<1>4. CASE Submit(e)
  <2> DEFINE x == [expense[e] EXCEPT !.state = "review", !.version = @ + 1]
  <2>1. /\ expense' = [expense EXCEPT ![e] = x] /\ UNCHANGED <<seq, line, usage, request>>
        /\ ProjectFree /\ ExpenseSideOpen(expense[e].line)
    BY <1>4 DEF Submit
  <2>2. x \in ExpenseRows
    BY <1>1, expense[e].version + 1 \in Nat DEF ExpenseRows
  <2>3. x.state = "review" /\ x.line = expense[e].line /\ x.version > expense[e].version
    BY <1>1 DEF ExpenseRows
  <2> HIDE DEF x
  <2> QED
    BY <1>2, <2>1, <2>2, <2>3, ExpenseSteps
<1>5. ASSUME NEW outcome \in {"returned", "approved"}, Decide(e, outcome)
      PROVE  StepFacts
  <2> DEFINE x == [expense[e] EXCEPT !.state = outcome]
  <2>1. /\ expense' = [expense EXCEPT ![e] = x] /\ UNCHANGED <<seq, line, usage, request>>
        /\ expense[e].state = "review"
    BY <1>5 DEF Decide
  <2>2. x \in ExpenseRows
    BY <1>1 DEF ExpenseRows
  <2>3. x.state = outcome /\ x.line = expense[e].line /\ x.version = expense[e].version
    BY <1>1 DEF ExpenseRows
  <2> HIDE DEF x
  <2> QED
    BY <1>2, <2>1, <2>2, <2>3, ExpenseSteps
<1>6. CASE Close(e)
  <2> DEFINE x == [expense[e] EXCEPT !.state = "closed", !.version = @ + 1]
  <2>1. expense' = [expense EXCEPT ![e] = x] /\ UNCHANGED <<seq, line, usage, request>>
    BY <1>6 DEF Close
  <2>2. x \in ExpenseRows
    BY <1>1, expense[e].version + 1 \in Nat DEF ExpenseRows
  <2>3. x.state = "closed" /\ x.line = expense[e].line /\ x.version > expense[e].version
    BY <1>1 DEF ExpenseRows
  <2> HIDE DEF x
  <2> QED
    BY <1>2, <2>1, <2>2, <2>3, ExpenseSteps
<1> QED
  BY <1>3, <1>4, <1>5, <1>6

\* An expense that is moved is in nobody's review.
LEMMA Moves ==
    ASSUME IInv, NEW s \in Sessions, Move(s)
    PROVE  StepFacts
<1> DEFINE e == session[s].row
           l == session[s].line
           x == [expense[e] EXCEPT !.line = l, !.at = session[s].at, !.version = @ + 1]
<1>1. session[s].job = "move" /\ e \in Expenses
  BY SessionFacts DEF Move, Ready
<1>2. /\ expense' = [expense EXCEPT ![e] = x] /\ UNCHANGED <<seq, line, usage, request>>
      /\ expense[e].version = session[s].seen
  BY DEF Move
<1>3. l \in Lines /\ line[l].tip # 0 /\ expense[e].state \in {"draft", "returned"}
  BY <1>1, <1>2, SessionFacts DEF MoveForm
<1>4. expense[e] \in ExpenseRows /\ expense[e].version \in Nat
  BY <1>1, Fields DEF IInv, TypeOK
<1>5. x \in ExpenseRows
  BY <1>3, <1>4, SessionFacts, ExpenseUpdates
<1>6. x.state = expense[e].state /\ x.line = l /\ x.version > expense[e].version
  BY <1>4 DEF ExpenseRows
<1> HIDE DEF x
<1> QED
  BY <1>1, <1>2, <1>3, <1>5, <1>6, ExpenseSteps

\* The lines change while nobody holds the project.
LEMMA LineSteps ==
    ASSUME IInv, ProjectFree, UNCHANGED <<usage, request, expense>>,
           \A l \in Lines : /\ line[l].tip # 0 => line'[l].tip # 0
                            /\ Reaches(l) => Reaches(l)' \/ ExpenseSideOpen(l)
    PROVE  StepFacts
<1>1. UsagesMove /\ RequestsKeepCopies /\ ExpensesMove /\ TipsStay /\ OwnersAreLeftAlone
  BY DEF UsagesMove, RequestsKeepCopies, ExpensesMove, TipsStay, OwnersAreLeftAlone
<1>2. \A l \in Lines : UnderWay(l)' = UnderWay(l) /\ ExpenseSideOpen(l)' = ExpenseSideOpen(l)
  BY DEF UnderWay, ExpenseSideOpen, Live, Asked
<1>3. CardSideGrows /\ ExpenseSideGrows /\ LinesGo
  BY <1>2 DEF CardSideGrows, ExpenseSideGrows, LinesGo
<1>4. RowsOnLines' /\ PurchasesArePaidOnce'
  BY DEF IInv, RowsOnLines, PurchasesArePaidOnce
<1> QED
  BY <1>1, <1>3, <1>4 DEF StepFacts

LEMMA QuoteWrites ==
    ASSUME IInv, Quote
    PROVE  StepFacts
<1>1. seq \in Nat \ {0} /\ \A l \in Lines : line[l] \in LineRows
  BY Fields DEF IInv, TypeOK
<1>2. ASSUME NEW l \in Lines, NEW x \in LineRows, line' = [line EXCEPT ![l] = x], UNCHANGED seq,
             ProjectFree, UNCHANGED <<usage, request, expense>>,
             x.tip # 0,
             Reaches(l) => (x.tip = seq /\ ~x.archived) \/ ExpenseSideOpen(l)
      PROVE  StepFacts
  <2>1. \A m \in Lines : line'[m] = IF m = l THEN x ELSE line[m]
    BY <1>2 DEF IInv, TypeOK
  <2> QED
    BY <1>2, <2>1, LineSteps DEF Reaches
<1>3. ASSUME NEW l \in Lines, NEW a \in Amounts, NEW o \in BOOLEAN, AddLine(l, a, o)
      PROVE  StepFacts
  <2> DEFINE x == QuoteLine(seq, a, o)
  <2>1. /\ line' = [line EXCEPT ![l] = x] /\ UNCHANGED <<seq, usage, request, expense>>
        /\ ProjectFree /\ line[l].tip = 0
    BY <1>3 DEF AddLine
  <2>2. x \in LineRows /\ x.tip = seq /\ ~x.archived
    BY Fields, LinkAmounts DEF IInv, QuoteLine, LineRows, Revisions
  <2> HIDE DEF x
  <2> QED
    BY <1>1, <1>2, <2>1, <2>2
<1>4. ASSUME NEW l \in Lines, NEW a \in Amounts, NEW o \in BOOLEAN, EditLine(l, a, o)
      PROVE  StepFacts
  <2> DEFINE x == [line[l] EXCEPT !.execution = a, !.online = o]
  <2>1. /\ line' = [line EXCEPT ![l] = x] /\ UNCHANGED <<seq, usage, request, expense>>
        /\ ProjectFree /\ line[l].tip = seq /\ ~line[l].archived
    BY <1>4 DEF EditLine, Reaches
  <2>2. x \in LineRows /\ x.tip = line[l].tip /\ x.archived = line[l].archived
    BY <1>1, LinkAmounts DEF LineRows
  <2> HIDE DEF x
  <2> QED
    BY <1>1, <1>2, <2>1, <2>2
<1>5. ASSUME NEW l \in Lines, DeleteLine(l)
      PROVE  StepFacts
  <2> DEFINE x == [line[l] EXCEPT !.archived = TRUE]
  <2>1. /\ line' = [line EXCEPT ![l] = x] /\ UNCHANGED <<seq, usage, request, expense>>
        /\ ProjectFree /\ line[l].tip = seq /\ ExpenseSideOpen(l)
    BY <1>5 DEF DeleteLine, Reaches
  <2>2. x \in LineRows /\ x.tip = line[l].tip
    BY <1>1 DEF LineRows
  <2> HIDE DEF x
  <2> QED
    BY <1>1, <1>2, <2>1, <2>2
<1>6. ASSUME NEW l \in Lines, RestoreLine(l)
      PROVE  StepFacts
  <2> DEFINE x == [line[l] EXCEPT !.archived = FALSE]
  <2>1. /\ line' = [line EXCEPT ![l] = x] /\ UNCHANGED <<seq, usage, request, expense>>
        /\ ProjectFree /\ line[l].tip = seq
    BY <1>6 DEF RestoreLine
  <2>2. x \in LineRows /\ x.tip = line[l].tip /\ ~x.archived
    BY <1>1 DEF LineRows
  <2> HIDE DEF x
  <2> QED
    BY <1>1, <1>2, <2>1, <2>2
<1>7. CASE NewRevision
  <2>1. /\ seq' = seq + 1 /\ ProjectFree /\ UNCHANGED <<usage, request, expense>>
        /\ line' = [l \in Lines |-> IF Reaches(l) THEN [line[l] EXCEPT !.tip = seq + 1] ELSE line[l]]
    BY <1>7 DEF NewRevision
  <2>2. ASSUME NEW l \in Lines
        PROVE  /\ line[l].tip # 0 => line'[l].tip # 0
               /\ Reaches(l) => Reaches(l)'
    <3>1. CASE Reaches(l)
      <4>1. line'[l] = [line[l] EXCEPT !.tip = seq + 1]
        BY <2>1, <3>1
      <4>2. line'[l].tip = seq + 1 /\ line'[l].archived = line[l].archived
        BY <1>1, <4>1 DEF LineRows
      <4> QED
        BY <1>1, <2>1, <3>1, <4>2 DEF Reaches
    <3>2. CASE ~Reaches(l)
      <4>1. line'[l] = line[l]
        BY <2>1, <3>2
      <4> QED
        BY <3>2, <4>1
    <3> QED
      BY <3>1, <3>2
  <2> QED
    BY <2>1, <2>2, LineSteps
<1>8. CASE Complete
  BY <1>8, QuietSteps DEF Complete
<1> QED
  BY <1>3, <1>4, <1>5, <1>6, <1>7, <1>8 DEF Quote

LEMMA Steps == IInv /\ [Next]_vars => StepFacts
<1> SUFFICES ASSUME IInv, [Next]_vars
             PROVE  StepFacts
  OBVIOUS
<1>1. ASSUME NEW s \in Sessions, Fill(s) \/ GiveUp(s) \/ Judge(s)
      PROVE  StepFacts
  <2>1. CASE Fill(s)
    BY <2>1, QuietSteps DEF Fill, FormRegister, FormAsk, FormEdit, FormRemove, FormRestore, FormBuy,
                            FormCancel, FormUndo, FormOverwrite, FormMove, FormLeave, Form, Open, rows
  <2>2. CASE GiveUp(s)
    BY <2>2, QuietSteps DEF GiveUp, rows
  <2>3. CASE Judge(s)
    BY <2>3, QuietSteps DEF Judge, GateRegister, GateAsk, GateEdit, GateRestore, GateBuy, GateUndo,
                            GateOverwrite, Lock, rows
  <2> QED
    BY <1>1, <2>1, <2>2, <2>3
<1>2. ASSUME NEW s \in Sessions, Write(s)
      PROVE  StepFacts
  BY <1>2, UsageWrites, ExtraWrites, RequestWrites, Purchases, Moves DEF Write
<1>3. CASE Work
  BY <1>3, ExtraWrites, ExpenseWrites DEF Work
<1>4. CASE Quote
  BY <1>4, QuoteWrites
<1>5. CASE UNCHANGED vars
  BY <1>5, QuietSteps DEF vars
<1> QED
  BY <1>1, <1>2, <1>3, <1>4, <1>5 DEF Next

-----------------------------------------------------------------------------
(* What a session has read stands.                                         *)

FormHolds(s) == LineForm(s) /\ UsageForm(s) /\ RequestForm(s) /\ MoveForm(s)

\* While the session waits, by the versions and the lock of the project.
LEMMA WaitingSessions ==
    ASSUME IInv, TypeOK', StepFacts, NEW s \in Sessions, session'[s] = session[s]
    PROVE  FormHolds(s)' /\ GatesHold(s)'
<1>1. /\ FormHolds(s) /\ GatesHold(s) /\ session[s].seen \in Nat
      /\ session[s].job \in RequestJobs => session[s].row \in Requests
      /\ session[s].job \in UsageJobs => session[s].row \in Usages
      /\ session[s].job = "move" => session[s].row \in Expenses
  BY SessionFacts DEF FormHolds
<1>0. /\ \A u \in Usages : usage'[u].version \in Nat
      /\ \A e \in Expenses : expense'[e].version \in Nat
  BY DEF TypeOK, UsageRows, ExpenseRows
<1>2. LineForm(s)'
  BY <1>1 DEF FormHolds, LineForm
<1>3. UsageForm(s)'
  <2> SUFFICES ASSUME session[s].job \in UsageJobs
               PROVE  UsageForm(s)'
    BY DEF UsageForm
  <2> DEFINE u == session[s].row
  <2>1. u \in Usages /\ usage[u].version \in Nat /\ usage[u].state # "none"
        /\ session[s].seen <= usage[u].version
    BY <1>1, Fields DEF IInv, FormHolds, UsageForm
  <2>2. CASE usage'[u] = usage[u]
    BY <1>1, <2>2 DEF FormHolds, UsageForm
  <2>3. CASE usage'[u].version > usage[u].version /\ usage'[u].state # "none"
    <3>1. session[s].seen <= usage'[u].version /\ session[s].seen # usage'[u].version
      BY <1>0, <1>1, <2>1, <2>3
    <3> QED
      BY <2>3, <3>1 DEF UsageForm
  <2> QED
    BY <2>1, <2>2, <2>3 DEF StepFacts, UsagesMove
<1>4. RequestForm(s)'
  BY <1>1 DEF FormHolds, RequestForm, RequestJobs, StepFacts, RequestsKeepCopies
<1>5. MoveForm(s)'
  <2> SUFFICES ASSUME session[s].job = "move"
               PROVE  MoveForm(s)'
    BY DEF MoveForm
  <2> DEFINE e == session[s].row
  <2>1. /\ e \in Expenses /\ expense[e].version \in Nat /\ MoveForm(s)
        /\ expense[e].state # "none" /\ session[s].seen <= expense[e].version
        /\ session[s].line \in Lines /\ line'[session[s].line].tip # 0
    BY <1>1, Fields DEF IInv, FormHolds, MoveForm, StepFacts, TipsStay
  <2>2. CASE expense'[e] = expense[e]
    BY <2>1, <2>2 DEF MoveForm
  <2>3. CASE expense'[e].state # "none" /\ expense'[e].version > expense[e].version
    <3>1. session[s].seen <= expense'[e].version /\ session[s].seen # expense'[e].version
      BY <1>0, <1>1, <2>1, <2>3
    <3> QED
      BY <2>1, <2>3, <3>1 DEF MoveForm
  <2>4. CASE /\ expense'[e].state # "none"
             /\ expense[e].state = "review" /\ expense'[e].version = expense[e].version
    BY <2>1, <2>4 DEF MoveForm
  <2> QED
    BY <2>1, <2>2, <2>3, <2>4 DEF StepFacts, ExpensesMove
<1>6. GatesHold(s)'
  <2> SUFFICES ASSUME OwnsProject(s)
               PROVE  GatesHold(s)'
    BY DEF GatesHold, OwnsProject
  <2>1. ~ProjectFree
    BY DEF ProjectFree
  <2>2. /\ session[s].line \in Lines /\ Reaches(session[s].line) /\ UnderWay(session[s].line) = {}
    BY <1>1 DEF GatesHold
  <2>3. UNCHANGED <<seq, line>> /\ UnderWay(session[s].line)' = {}
    <3>1. UNCHANGED <<seq, line>> /\ \A l \in Lines : UnderWay(l)' \subseteq UnderWay(l)
      BY <2>1 DEF StepFacts, OwnersAreLeftAlone
    <3>2. UnderWay(session[s].line)' \subseteq {}
      BY <2>2, <3>1 DEF UnderWay
    <3> QED
      BY <3>1, <3>2
  <2> QED
    BY <2>2, <2>3 DEF GatesHold, Reaches, UnderWay
<1> QED
  BY <1>2, <1>3, <1>4, <1>5, <1>6 DEF FormHolds

LEMMA IdleSessions ==
    ASSUME NEW s \in Sessions, session[s] = Idle
    PROVE  FormHolds(s) /\ GatesHold(s)
BY DEF Idle, FormHolds, LineForm, UsageForm, RequestForm, MoveForm, GatesHold, OwnsProject, UsageJobs

\* When a form is filled, by what it read.
LEMMA FilledSessions ==
    ASSUME IInv, NEW s \in Sessions, Fill(s)
    PROVE  FormHolds(s)' /\ GatesHold(s)'
<1> USE DEF Form, Open, rows
<1>0. session \in [Sessions -> SessionRows]
  BY DEF IInv, TypeOK
<1>1. ASSUME session'[s].phase = "form"
      PROVE  GatesHold(s)'
  BY <1>1 DEF GatesHold, OwnsProject
<1>2. seq # 0 /\ \A u \in Usages : usage[u].version \in Nat
  BY Fields DEF IInv
<1>3. \A e \in Expenses : expense[e].version \in Nat
  BY Fields DEF IInv
<1>4. ASSUME NEW l \in Lines, NEW a \in Amounts,
             FormRegister(s, l, a) \/ FormAsk(s, l, a)
      PROVE  FormHolds(s)' /\ GatesHold(s)'
  <2>1. session'[s].phase = "form" /\ session'[s].job \in {"register", "ask"} /\ session'[s].line = l
    BY <1>4, <1>0 DEF FormRegister, FormAsk, Filled
  <2> QED
    BY <1>1, <2>1 DEF FormHolds, LineForm, UsageForm, RequestForm, MoveForm, UsageJobs
<1>5. ASSUME NEW u \in Usages, NEW l \in Lines, NEW at \in 1..seq, NEW a \in Amounts,
             FormEdit(s, u, l, at, a)
      PROVE  FormHolds(s)' /\ GatesHold(s)'
  <2>1. /\ session'[s].phase = "form" /\ session'[s].job = "edit" /\ session'[s].row = u
        /\ session'[s].line = l /\ session'[s].at = at /\ session'[s].seen = usage[u].version
    BY <1>5, <1>0 DEF FormEdit, Filled
  <2>2. /\ UNCHANGED usage /\ usage[u].state = "live"
        /\ usage[u].request = None \/ (l = usage[u].line /\ at = usage[u].at)
    BY <1>5 DEF FormEdit
  <2> QED
    BY <1>1, <1>2, <2>1, <2>2 DEF FormHolds, LineForm, UsageForm, RequestForm, MoveForm, UsageJobs
<1>6. ASSUME NEW u \in Usages,
             FormRemove(s, u) \/ \E a \in Amounts : FormLeave(s, u, a)
      PROVE  FormHolds(s)' /\ GatesHold(s)'
  <2>1. /\ session'[s].phase = "form" /\ session'[s].job \in {"remove", "leave"} /\ session'[s].row = u
        /\ session'[s].seen = usage[u].version
    BY <1>6, <1>0 DEF FormRemove, FormLeave, Filled
  <2>2. UNCHANGED usage /\ usage[u].state = "live" /\ usage[u].request = None
    BY <1>6 DEF FormRemove, FormLeave
  <2> QED
    BY <1>1, <1>2, <2>1, <2>2 DEF FormHolds, LineForm, UsageForm, RequestForm, MoveForm, UsageJobs
<1>7. ASSUME NEW u \in Usages, FormRestore(s, u)
      PROVE  FormHolds(s)' /\ GatesHold(s)'
  <2>1. /\ session'[s].phase = "form" /\ session'[s].job = "restore" /\ session'[s].row = u
        /\ session'[s].line = usage[u].line /\ session'[s].seen = usage[u].version
    BY <1>7, <1>0 DEF FormRestore, Filled
  <2>2. UNCHANGED usage /\ usage[u].state = "archived" /\ usage[u].line \in Lines
    BY <1>7 DEF FormRestore
  <2> QED
    BY <1>1, <1>2, <2>1, <2>2 DEF FormHolds, LineForm, UsageForm, RequestForm, MoveForm, UsageJobs
<1>8. ASSUME NEW u \in Usages, NEW a \in Amounts, FormOverwrite(s, u, a)
      PROVE  FormHolds(s)' /\ GatesHold(s)'
  <2>1. /\ session'[s].phase = "form" /\ session'[s].job = "overwrite" /\ session'[s].row = u
        /\ session'[s].seen = usage[u].version
    BY <1>8, <1>0 DEF FormOverwrite, Filled
  <2>2. UNCHANGED usage /\ usage[u].state = "live"
    BY <1>8 DEF FormOverwrite
  <2> QED
    BY <1>1, <1>2, <2>1, <2>2 DEF FormHolds, LineForm, UsageForm, RequestForm, MoveForm, UsageJobs
<1>9. ASSUME NEW r \in Requests, FormUndo(s, r) \/ \E a \in Amounts : FormBuy(s, r, a)
      PROVE  FormHolds(s)' /\ GatesHold(s)'
  <2>1. /\ session'[s].phase = "form" /\ session'[s].job \in {"undo", "buy"} /\ session'[s].row = r
        /\ session'[s].line = request[r].line /\ session'[s].at = request[r].at
    BY <1>9, <1>0 DEF FormUndo, FormBuy, Filled
  <2>2. UNCHANGED request /\ request[r].state # "none" /\ request[r].line \in Lines
    BY <1>9 DEF FormUndo, FormBuy, IInv, RowsOnLines
  <2> QED
    BY <1>1, <2>1, <2>2 DEF FormHolds, LineForm, UsageForm, RequestForm, MoveForm, UsageJobs
<1>10. ASSUME NEW r \in Requests, FormCancel(s, r)
       PROVE  FormHolds(s)' /\ GatesHold(s)'
  <2>1. session'[s].phase = "form" /\ session'[s].job = "cancel"
    BY <1>10, <1>0 DEF FormCancel, Filled
  <2> QED
    BY <1>1, <2>1 DEF FormHolds, LineForm, UsageForm, RequestForm, MoveForm, UsageJobs
<1>11. ASSUME NEW e \in Expenses, NEW l \in Lines, FormMove(s, e, l)
       PROVE  FormHolds(s)' /\ GatesHold(s)'
  <2>1. /\ session'[s].phase = "form" /\ session'[s].job = "move" /\ session'[s].row = e
        /\ session'[s].line = l /\ session'[s].seen = expense[e].version
    BY <1>11, <1>0 DEF FormMove, Filled
  <2>2. UNCHANGED <<line, expense>> /\ expense[e].state \in {"draft", "returned"} /\ line[l].tip # 0
    BY <1>2, <1>11 DEF FormMove, Reaches
  <2> QED
    BY <1>1, <1>3, <2>1, <2>2 DEF FormHolds, LineForm, UsageForm, RequestForm, MoveForm, UsageJobs
<1> QED
  BY <1>4, <1>5, <1>6, <1>7, <1>8, <1>9, <1>10, <1>11 DEF Fill

\* When it passes the gate, by what was judged there.
LEMMA JudgedSessions ==
    ASSUME IInv, NEW s \in Sessions, Judge(s)
    PROVE  FormHolds(s)' /\ GatesHold(s)'
<1>1. /\ UNCHANGED <<seq, line, usage, request, expense>>
      /\ \/ \E k : session' = [session EXCEPT ![s].phase = "gated", ![s].locks = k]
         \/ session' = [session EXCEPT ![s].phase = "gated"]
  BY DEF Judge, GateRegister, GateAsk, GateEdit, GateRestore, GateBuy, GateUndo, GateOverwrite, Lock, rows
<1>2. /\ session'[s].job = session[s].job /\ session'[s].row = session[s].row
      /\ session'[s].line = session[s].line /\ session'[s].at = session[s].at
      /\ session'[s].seen = session[s].seen
  BY <1>1 DEF IInv, TypeOK, SessionRows
<1>3. FormHolds(s)
  BY SessionFacts DEF FormHolds
<1>4. FormHolds(s)'
  BY <1>1, <1>2, <1>3 DEF FormHolds, LineForm, UsageForm, RequestForm, MoveForm
<1>5. GatesHold(s)'
  <2> SUFFICES ASSUME session[s].job # "overwrite"
               PROVE  GatesHold(s)'
    BY <1>2 DEF GatesHold, OwnsProject
  <2>1. /\ session[s].job \in {"register", "ask", "edit", "restore", "buy", "undo"}
        /\ Reaches(session[s].line) /\ CardSideOpen(session[s].line)
    BY DEF Judge, GateRegister, GateAsk, GateEdit, GateRestore, GateBuy, GateUndo, GateOverwrite,
           Ready, ChosenLineStands
  <2>2. session[s].line \in Lines
    BY <1>3, <2>1 DEF FormHolds, LineForm
  <2>3. UnderWay(session[s].line) = {}
    BY <2>1 DEF CardSideOpen, Numbered, UnderWay
  <2> QED
    BY <1>1, <1>2, <2>1, <2>2, <2>3 DEF GatesHold, Reaches, UnderWay
<1> QED
  BY <1>4, <1>5

LEMMA NextSessions ==
    ASSUME TypeOK, [Next]_vars, NEW s \in Sessions
    PROVE  session'[s] = session[s] \/ session'[s] = Idle \/ Fill(s) \/ Judge(s)
<1>0. session \in [Sessions -> SessionRows]
  BY DEF TypeOK
<1>1. ASSUME NEW t \in Sessions, Fill(t) \/ Judge(t)
      PROVE  s = t \/ session'[s] = session[s]
  <2>1. \E x : session' = [session EXCEPT ![t] = x]
    <3>1. CASE Fill(t)
      BY <3>1, FillTypes DEF Becomes
    <3>2. CASE Judge(t)
      BY <3>2 DEF Judge, GateRegister, GateAsk, GateEdit, GateRestore, GateBuy, GateUndo, GateOverwrite, Lock
    <3> QED
      BY <1>1, <3>1, <3>2
  <2> QED
    BY <1>0, <2>1
<1>2. ASSUME NEW t \in Sessions, GiveUp(t) \/ Write(t)
      PROVE  session'[s] = session[s] \/ session'[s] = Idle
  <2>1. session' = [session EXCEPT ![t] = Idle]
    BY <1>2 DEF GiveUp, Write, End, Register, Buy, Ask, Edit, Restore, Undo, Overwrite, Remove, Cancel,
                ToTeam, ToExtraLine, Move
  <2> QED
    BY <1>0, <2>1
<1>3. CASE Work \/ Quote \/ UNCHANGED vars
  BY <1>3 DEF Work, RegisterExtra, Draft, Submit, Decide, Close, Quote, AddLine, EditLine, DeleteLine,
              RestoreLine, NewRevision, Complete, vars
<1> QED
  BY <1>1, <1>2, <1>3 DEF Next

LEMMA Kept == IInv /\ [Next]_vars => IInv'
<1> SUFFICES ASSUME IInv, [Next]_vars
             PROVE  IInv'
  OBVIOUS
<1>1. TypeOK /\ TypeOK'
  BY TypesKept DEF IInv
<1>2. StepFacts
  BY Steps
<1>3. ASSUME NEW s \in Sessions
      PROVE  FormHolds(s)' /\ GatesHold(s)'
  <2>1. CASE session'[s] = session[s]
    BY <1>1, <1>2, <2>1, WaitingSessions
  <2>2. CASE session'[s] = Idle
    BY <2>2 DEF Idle, FormHolds, LineForm, UsageForm, RequestForm, MoveForm, GatesHold, OwnsProject,
                UsageJobs
  <2>3. CASE Fill(s)
    BY <2>3, FilledSessions
  <2>4. CASE Judge(s)
    BY <2>4, JudgedSessions
  <2> QED
    BY <1>1, <2>1, <2>2, <2>3, <2>4, NextSessions
<1>4. OneSideOfALine'
  <2>1. \A l \in Lines : ExpenseSideOpen(l)' \/ UnderWay(l)' = {}
    <3> SUFFICES ASSUME NEW l \in Lines, ~ExpenseSideOpen(l)'
                 PROVE  UnderWay(l)' = {}
      OBVIOUS
    <3>1. CASE ExpenseSideOpen(l)
      BY <1>2, <3>1 DEF StepFacts, CardSideGrows
    <3>2. CASE ~ExpenseSideOpen(l)
      <4>1. UnderWay(l) = {}
        BY <3>2 DEF IInv, OneSideOfALine, UnderWay, ExpenseSideOpen
      <4>2. UnderWay(l)' \subseteq UnderWay(l)
        BY <1>2 DEF StepFacts, ExpenseSideGrows
      <4> QED
        BY <4>1, <4>2
    <3> QED
      BY <3>1, <3>2
  <2> QED
    BY <2>1 DEF OneSideOfALine, UnderWay, ExpenseSideOpen
<1>5. LinksReachTheQuote'
  <2> SUFFICES ASSUME NEW l \in Lines, ~ExpenseSideOpen(l)'
               PROVE  Reaches(l)'
    BY DEF LinksReachTheQuote, ExpenseSideOpen
  <2>1. CASE ExpenseSideOpen(l)
    BY <1>2, <2>1 DEF StepFacts, CardSideGrows
  <2>2. CASE ~ExpenseSideOpen(l)
    BY <1>2, <2>2 DEF IInv, LinksReachTheQuote, ExpenseSideOpen, StepFacts, LinesGo
  <2> QED
    BY <2>1, <2>2
<1>6. RowsOnLines' /\ PurchasesArePaidOnce'
  BY <1>2 DEF StepFacts
<1> QED
  BY <1>1, <1>3, <1>4, <1>5, <1>6 DEF IInv, FormsHold, FormHolds

LEMMA AtFirst == Init => IInv
<1> SUFFICES ASSUME Init
             PROVE  IInv
  OBVIOUS
<1>1. TypeOK
  BY TypesAtFirst
<1>2. /\ seq = 1
      /\ request = [r \in Requests |-> NoRequest]
      /\ expense = [e \in Expenses |-> NoExpense]
      /\ session = [s \in Sessions |-> Idle]
  BY DEF Init
<1>3. PICK x \in [First -> Executions], o \in [First -> BOOLEAN] :
         line = [l \in Lines |-> IF l \in First THEN QuoteLine(1, x[l], o[l]) ELSE NoLine]
  BY DEF Init
<1>4. PICK u \in Usages, m \in First, a \in Amounts :
         usage = [v \in Usages |-> IF v = u THEN UsageOf(m, 1, a, None) ELSE NoUsage]
  BY DEF Init
<1>5. \A r \in Requests : request[r].state = "none"
  BY <1>2 DEF NoRequest
<1>6. \A e \in Expenses : expense[e].state = "none" /\ expense[e].line = Team
  BY <1>2 DEF NoExpense
<1>7. \A v \in Usages : /\ usage[v].request = None
                        /\ usage[v].state = "live" => usage[v].line = m
  BY <1>4 DEF NoUsage, UsageOf
<1>8. m \in Lines /\ Reaches(m)
  <2>1. m \in Lines
    BY LinesAtFirst
  <2>2. line[m] = QuoteLine(1, x[m], o[m])
    BY <1>3, <2>1
  <2> QED
    BY <1>2, <2>1, <2>2 DEF QuoteLine, Reaches
<1>9. RowsOnLines
  BY <1>5, <1>6, LinkNamesDiffer DEF RowsOnLines
<1>10. \A s \in Sessions : FormHolds(s) /\ GatesHold(s)
  BY <1>2, IdleSessions
<1>11. OneSideOfALine
  BY <1>6 DEF OneSideOfALine
<1>12. PurchasesArePaidOnce
  BY <1>5, <1>7 DEF PurchasesArePaidOnce
<1>13. LinksReachTheQuote
  BY <1>5, <1>7, <1>8 DEF LinksReachTheQuote, Live, Asked
<1> QED
  BY <1>1, <1>9, <1>10, <1>11, <1>12, <1>13 DEF IInv, FormsHold, FormHolds

\* The invariant of the links: rows know lines there have been, what a form
\* has read stands while its row has the version it saw, and who holds the
\* project holds it over a line that reaches the quote without an expense
\* under way.
THEOREM InvariantHolds == Spec => []IInv
BY AtFirst, Kept, PTL DEF Spec

\* A line of the quote never has an expense in review or approved beside a
\* usage of a corporate card or an open request, over all its copies, however
\* submissions, moves, restorations and revisions come together.
THEOREM SidesStayApart == Spec => []OneSideOfALine
<1>1. IInv => OneSideOfALine
  BY DEF IInv
<1> QED
  BY <1>1, InvariantHolds, PTL

\* Every purchased request has one usage that paid for it, live and on the
\* request's copy of the line, and no other request has any, whatever
\* completions, cancellations and edits meet.
THEOREM PurchasesStayPaid == Spec => []PurchasesArePaidOnce
<1>1. IInv => PurchasesArePaidOnce
  BY DEF IInv
<1> QED
  BY <1>1, InvariantHolds, PTL

\* A line with a usage or an open request has a copy in the current revision,
\* across deletions, restorations and revisions of the quote.
THEOREM LinksStayInTheQuote == Spec => []LinksReachTheQuote
<1>1. IInv => LinksReachTheQuote
  BY DEF IInv
<1> QED
  BY <1>1, InvariantHolds, PTL

-----------------------------------------------------------------------------
(* Sums.  SumFunction folds a function over its domain, taking one element *)
(* after the other in an order that depends on the domain alone.           *)

NatLess == {pair \in Nat \X Nat : pair[1] < pair[2]}

LEMMA NotLess ==
    ASSUME NEW x \in Nat, NEW y \in Nat, ~ (<<y, x>> \in NatLess)
    PROVE  x <= y
BY DEF NatLess

\* A non-empty set of numbers has a least element.
LEMMA LeastExists ==
    ASSUME NEW S \in SUBSET Nat, S # {}
    PROVE  \E x \in S : \A y \in S : x <= y
<1>1. OpToRel(<, Nat) = NatLess
  BY Zenon DEF OpToRel, NatLess
<1>2. IsWellFoundedOn(NatLess, Nat)
  BY <1>1, NatLessThanWellFounded, Zenon
<1>3. PICK x \in S : \A y \in S : ~ (<<y, x>> \in NatLess)
  BY <1>2, WFMin
<1>4. ASSUME NEW y \in S PROVE x <= y
  <2>1. ~ (<<y, x>> \in NatLess) /\ x \in Nat /\ y \in Nat
    BY <1>3
  <2>2. QED
    BY <2>1, NotLess
<1>5. QED
  BY <1>4

Pick(s) == CHOOSE x \in s : TRUE

\* The rest of a set once its first element is taken.
Rest(s) == s \ {Pick(s)}

\* g sums f over the parts of D.
Sums(g, f, D) ==
    g = [s \in SUBSET D |-> IF s = {} THEN 0 ELSE f[Pick(s)] + g[Rest(s)]]

LEMMA RestIsSmaller ==
    ASSUME NEW D, IsFiniteSet(D), NEW s \in SUBSET D, s # {}
    PROVE  /\ Pick(s) \in s /\ Rest(s) \in SUBSET D
           /\ Cardinality(s) \in Nat /\ Cardinality(Rest(s)) \in Nat
           /\ Cardinality(Rest(s)) < Cardinality(s)
<1>1. Pick(s) \in s
  BY DEF Pick
<1>2. IsFiniteSet(s) /\ IsFiniteSet(Rest(s)) /\ Rest(s) \in SUBSET D
  BY FS_Subset DEF Rest
<1>3. Cardinality(Rest(s)) = Cardinality(s) - 1
  BY <1>1, <1>2, FS_RemoveElement DEF Rest
<1>4. QED
  BY <1>1, <1>2, <1>3, FS_CardinalityType

\* There is such a sum: it is built up by the size of the parts.
LEMMA SumsExist ==
    ASSUME NEW D, IsFiniteSet(D), NEW f
    PROVE  \E g : Sums(g, f, D)
<1> DEFINE Small(n) == {s \in SUBSET D : Cardinality(s) <= n}
           Step(g, s) == IF s = {} THEN 0 ELSE f[Pick(s)] + g[Rest(s)]
           UpTo(g, n) == DOMAIN g = SUBSET D /\ \A s \in Small(n) : g[s] = Step(g, s)
           Bad == {n \in Nat : ~ \E g : UpTo(g, n)}
<1>1. ASSUME NEW n \in Nat, NEW g, UpTo(g, n)
      PROVE  \E h : UpTo(h, n + 1)
  <2> DEFINE h == [s \in SUBSET D |-> IF s \in Small(n) THEN g[s] ELSE Step(g, s)]
  <2>1. ASSUME NEW s \in Small(n + 1)
        PROVE  h[s] = Step(h, s)
    <3>1. CASE s = {}
      BY <1>1, <3>1
    <3>2. CASE s # {}
      <4>1. Rest(s) \in Small(n)
        BY <3>2, RestIsSmaller
      <4>2. h[Rest(s)] = g[Rest(s)]
        BY <4>1
      <4>3. h[s] = Step(g, s)
        BY <1>1
      <4>4. QED
        BY <3>2, <4>2, <4>3
    <3>3. QED
      BY <3>1, <3>2
  <2>2. DOMAIN h = SUBSET D
    OBVIOUS
  <2>3. UpTo(h, n + 1)
    BY <2>1, <2>2
  <2>4. QED
    BY <2>3
<1>2. \E g : UpTo(g, 0)
  <2> DEFINE g == [s \in SUBSET D |-> 0]
  <2>1. \A s \in Small(0) : s = {}
    BY FS_Subset, FS_EmptySet, FS_CardinalityType
  <2>2. UpTo(g, 0)
    BY <2>1
  <2>3. QED
    BY <2>2
<1> HIDE DEF UpTo
<1>3. Bad = {}
  <2>1. SUFFICES ASSUME Bad # {} PROVE FALSE
    OBVIOUS
  <2>2. PICK n \in Bad : \A m \in Bad : n <= m
    BY <2>1, LeastExists
  <2>3. n \in Nat /\ n # 0 /\ n - 1 \in Nat /\ n - 1 < n
    BY <1>2
  <2>4. PICK g : UpTo(g, n - 1)
    BY <2>2, <2>3
  <2>5. \E h : UpTo(h, n)
    <3>1. \E h : UpTo(h, (n - 1) + 1)
      BY <1>1, <2>3, <2>4
    <3>2. (n - 1) + 1 = n
      BY <2>3
    <3>3. QED
      BY <3>1, <3>2
  <2>6. QED
    BY <2>5
<1> USE DEF UpTo
<1>4. Cardinality(D) \in Nat
  BY FS_CardinalityType
<1>5. PICK g : UpTo(g, Cardinality(D))
  BY <1>3, <1>4
<1>6. \A s \in SUBSET D : s \in Small(Cardinality(D))
  BY FS_Subset
<1> DEFINE h == [s \in SUBSET D |-> g[s]]
<1>7. \A s \in SUBSET D : s # {} => Rest(s) \in SUBSET D
  BY DEF Rest
<1>8. \A s \in SUBSET D : h[s] = Step(h, s)
  BY <1>5, <1>6, <1>7
<1>9. h = [s \in SUBSET D |-> IF s = {} THEN 0 ELSE f[Pick(s)] + h[Rest(s)]]
  BY <1>8
<1>10. QED
  BY <1>9, Zenon DEF Sums

\* The library's sum is one.
LEMMA SumIsASum ==
    ASSUME NEW f, IsFiniteSet(DOMAIN f)
    PROVE  \E g : Sums(g, f, DOMAIN f) /\ SumFunction(f) = g[DOMAIN f]
<1> DEFINE g == CHOOSE h : Sums(h, f, DOMAIN f)
<1>1. Sums(g, f, DOMAIN f)
  BY SumsExist
<1>2. SumFunction(f) = g[DOMAIN f]
  BY DEF SumFunction, SumFunctionOnSet, FoldFunctionOnSet, MapThenFoldSet, Sums, Pick, Rest
<1>3. QED
  BY <1>1, <1>2

\* What holds of the empty part, and of a part when it holds of its rest,
\* holds of every part.
LEMMA PartByPart ==
    ASSUME NEW D, IsFiniteSet(D), NEW T, {} \in T,
           \A s \in SUBSET D : s # {} /\ Rest(s) \in T => s \in T
    PROVE  \A s \in SUBSET D : s \in T
<1> DEFINE Bad == {n \in Nat : \E s \in SUBSET D : Cardinality(s) = n /\ s \notin T}
<1>1. SUFFICES ASSUME Bad # {} PROVE FALSE
  <2>1. \A s \in SUBSET D : Cardinality(s) \in Nat
    BY FS_Subset, FS_CardinalityType
  <2>2. QED
    BY <2>1
<1>2. PICK n \in Bad : \A m \in Bad : n <= m
  BY <1>1, LeastExists
<1>3. PICK s \in SUBSET D : Cardinality(s) = n /\ s \notin T
  BY <1>2
<1>4. /\ s # {} /\ Rest(s) \in SUBSET D /\ Cardinality(Rest(s)) \in Nat
      /\ Cardinality(Rest(s)) < n /\ n \in Nat
  BY <1>3, RestIsSmaller
<1>5. Rest(s) \notin T
  BY <1>3, <1>4
<1>6. Cardinality(Rest(s)) \in Bad
  BY <1>4, <1>5
<1>7. QED
  BY <1>2, <1>4, <1>6

\* A sum of numbers moves with each of them.
LEMMA SumMoves ==
    ASSUME NEW D, IsFiniteSet(D), NEW f \in [D -> Int], NEW g \in [D -> Int], NEW x \in D,
           \A y \in D \ {x} : g[y] = f[y]
    PROVE  /\ SumFunction(f) \in Int
           /\ SumFunction(g) = SumFunction(f) - f[x] + g[x]
<1>1. PICK F : Sums(F, f, D) /\ SumFunction(f) = F[D]
  BY SumIsASum
<1>2. PICK G : Sums(G, g, D) /\ SumFunction(g) = G[D]
  BY SumIsASum
<1> DEFINE T == {s \in SUBSET D : /\ F[s] \in Int
                                  /\ G[s] = F[s] + (IF x \in s THEN g[x] - f[x] ELSE 0)}
<1>3. {} \in T
  BY <1>1, <1>2 DEF Sums
<1>4. ASSUME NEW s \in SUBSET D, s # {}, Rest(s) \in T
      PROVE  s \in T
  <2>1. F[s] = f[Pick(s)] + F[Rest(s)] /\ G[s] = g[Pick(s)] + G[Rest(s)]
    BY <1>1, <1>2, <1>4 DEF Sums
  <2>2. Pick(s) \in s /\ Pick(s) \in D
    BY <1>4 DEF Pick
  <2>3. /\ f[Pick(s)] \in Int /\ g[Pick(s)] \in Int /\ f[x] \in Int /\ g[x] \in Int
        /\ F[Rest(s)] \in Int
        /\ G[Rest(s)] = F[Rest(s)] + (IF x \in Rest(s) THEN g[x] - f[x] ELSE 0)
    BY <1>4, <2>2
  <2>4. CASE x = Pick(s)
    <3>1. x \in s /\ x \notin Rest(s)
      BY <2>2, <2>4 DEF Rest
    <3>2. QED
      BY <2>1, <2>3, <2>4, <3>1
  <2>5. CASE x # Pick(s)
    <3>1. (x \in s <=> x \in Rest(s)) /\ g[Pick(s)] = f[Pick(s)]
      BY <2>2, <2>5 DEF Rest
    <3>2. QED
      BY <2>1, <2>3, <3>1
  <2>6. QED
    BY <2>4, <2>5
<1>5. D \in T
  <2> HIDE DEF T
  <2>1. QED
    BY <1>3, <1>4, PartByPart
<1>6. QED
  BY <1>1, <1>2, <1>5

\* A sum grows with its summands.
LEMMA SumGrows ==
    ASSUME NEW D, IsFiniteSet(D), NEW f \in [D -> Int], NEW g \in [D -> Int],
           \A y \in D : f[y] <= g[y]
    PROVE  SumFunction(f) \in Int /\ SumFunction(g) \in Int /\ SumFunction(f) <= SumFunction(g)
<1>1. PICK F : Sums(F, f, D) /\ SumFunction(f) = F[D]
  BY SumIsASum
<1>2. PICK G : Sums(G, g, D) /\ SumFunction(g) = G[D]
  BY SumIsASum
<1> DEFINE T == {s \in SUBSET D : F[s] \in Int /\ G[s] \in Int /\ F[s] <= G[s]}
<1>3. {} \in T
  BY <1>1, <1>2 DEF Sums
<1>4. ASSUME NEW s \in SUBSET D, s # {}, Rest(s) \in T
      PROVE  s \in T
  <2>1. F[s] = f[Pick(s)] + F[Rest(s)] /\ G[s] = g[Pick(s)] + G[Rest(s)]
    BY <1>1, <1>2, <1>4 DEF Sums
  <2>2. Pick(s) \in D
    BY <1>4 DEF Pick
  <2>3. /\ f[Pick(s)] \in Int /\ g[Pick(s)] \in Int /\ f[Pick(s)] <= g[Pick(s)]
        /\ F[Rest(s)] \in Int /\ G[Rest(s)] \in Int /\ F[Rest(s)] <= G[Rest(s)]
    BY <1>4, <2>2
  <2>4. QED
    BY <2>1, <2>3
<1>5. D \in T
  <2> HIDE DEF T
  <2>1. QED
    BY <1>3, <1>4, PartByPart
<1>6. QED
  BY <1>1, <1>2, <1>5

\* A sum of nothing but zeros is zero.
LEMMA SumOfZeros ==
    ASSUME NEW D, IsFiniteSet(D), NEW f \in [D -> Int], \A y \in D : f[y] = 0
    PROVE  SumFunction(f) = 0
<1>1. PICK F : Sums(F, f, D) /\ SumFunction(f) = F[D]
  BY SumIsASum
<1> DEFINE T == {s \in SUBSET D : F[s] = 0}
<1>2. {} \in T
  BY <1>1 DEF Sums
<1>3. ASSUME NEW s \in SUBSET D, s # {}, Rest(s) \in T
      PROVE  s \in T
  <2>1. F[s] = f[Pick(s)] + F[Rest(s)]
    BY <1>1, <1>3 DEF Sums
  <2>2. Pick(s) \in D
    BY <1>3 DEF Pick
  <2>3. QED
    BY <1>3, <2>1, <2>2
<1>4. D \in T
  <2> HIDE DEF T
  <2>1. QED
    BY <1>2, <1>3, PartByPart
<1>5. QED
  BY <1>1, <1>4

-----------------------------------------------------------------------------
(* What the card side takes of a line.                                     *)

LEMMA EstimateTypes ==
    ASSUME NEW e \in Nat, NEW v \in Nat
    PROVE  EstimateSupply(e, v) \in Nat
<1>1. PICK x \in Nat, d \in Nat \ {0} : x = 200 * e + 100 + v /\ d = 2 * (100 + v)
  OBVIOUS
<1>2. x \div d \in Nat
  BY <1>1
<1> QED BY <1>1, <1>2 DEF EstimateSupply

LEMMA WantedTypes ==
    ASSUME TypeOK, NEW s \in Sessions, NEW v \in Nat
    PROVE  Wanted(s, v) \in Nat
BY Fields, EstimateTypes DEF Wanted

Taken(l, v) == [row \in CardRows |-> TakenBy(l, row, v)]

LEMMA TakenTypes ==
    ASSUME TypeOK, NEW l, NEW v \in Nat
    PROVE  /\ \A row : TakenBy(l, row, v) \in Nat
           /\ Taken(l, v) \in [CardRows -> Int]
           /\ \A row : row \notin CardRows => TakenBy(l, row, v) = 0
<1>1. \A row : TakenBy(l, row, v) \in Nat
  <2>1. /\ \A u \in Usages : usage[u].supply \in Nat
        /\ \A r \in Requests : EstimateSupply(request[r].estimate, v) \in Nat
    BY Fields, EstimateTypes
  <2> QED BY <2>1 DEF TakenBy, Live, Asked
<1>2. Taken(l, v) \in [CardRows -> Int]
  BY <1>1 DEF Taken
<1>3. \A row : row \notin CardRows => TakenBy(l, row, v) = 0
  BY DEF TakenBy, Live, Asked, CardRows
<1> QED BY <1>1, <1>2, <1>3

LEMMA TakenTypesNext ==
    ASSUME TypeOK', NEW l, NEW v \in Nat
    PROVE  /\ \A row : TakenBy(l, row, v)' \in Nat
           /\ Taken(l, v)' \in [CardRows -> Int]
           /\ \A row : row \notin CardRows => TakenBy(l, row, v)' = 0
<1>1. \A row : TakenBy(l, row, v)' \in Nat
  <2>1. /\ \A u \in Usages : usage'[u].supply \in Nat
        /\ \A r \in Requests : EstimateSupply(request'[r].estimate, v) \in Nat
    BY EstimateTypes DEF TypeOK, UsageRows, RequestRows
  <2> QED BY <2>1 DEF TakenBy, Live, Asked
<1>2. Taken(l, v)' \in [CardRows -> Int]
  BY <1>1 DEF Taken
<1>3. \A row : row \notin CardRows => TakenBy(l, row, v)' = 0
  BY DEF TakenBy, Live, Asked, CardRows
<1> QED BY <1>1, <1>2, <1>3

\* What the rows but one sum to.
Part(f, row) == IF row \in CardRows THEN f[row] ELSE 0

SumBut(f, row) == SumFunction(f) - Part(f, row)

LEMMA SumsOfOthers ==
    ASSUME NEW f \in [CardRows -> Int], NEW row,
           NEW h \in [CardRows -> Int], \A y \in CardRows : h[y] = IF y = row THEN 0 ELSE f[y]
    PROVE  SumFunction(f) \in Int /\ SumFunction(h) \in Int /\ SumFunction(h) = SumBut(f, row)
<1>1. IsFiniteSet(CardRows)
  BY CardRowsAreFinite DEF CardRows
<1>2. SumFunction(f) \in Int /\ SumFunction(h) \in Int
  BY <1>1, SumGrows
<1>3. CASE row \in CardRows
  <2>1. SumFunction(h) = SumFunction(f) - f[row] + h[row]
    BY <1>1, <1>3, SumMoves
  <2>2. h[row] = 0 /\ f[row] \in Int
    BY <1>3
  <2> QED BY <1>2, <1>3, <2>1, <2>2 DEF SumBut, Part
<1>4. CASE row \notin CardRows
  <2>1. h = f
    BY <1>4
  <2> QED BY <1>2, <1>4, <2>1 DEF SumBut, Part
<1> QED BY <1>2, <1>3, <1>4

\* Where the others take no more than before, they sum to no more.
LEMMA OthersGive ==
    ASSUME NEW f \in [CardRows -> Int], NEW g \in [CardRows -> Int], NEW row,
           \A y \in CardRows \ {row} : g[y] <= f[y]
    PROVE  SumBut(f, row) \in Int /\ SumBut(g, row) \in Int /\ SumBut(g, row) <= SumBut(f, row)
<1> DEFINE h == [y \in CardRows |-> IF y = row THEN 0 ELSE f[y]]
           k == [y \in CardRows |-> IF y = row THEN 0 ELSE g[y]]
<1>1. h \in [CardRows -> Int] /\ k \in [CardRows -> Int]
  OBVIOUS
<1>2. \A y \in CardRows : k[y] <= h[y]
  OBVIOUS
<1>3. \A y \in CardRows : h[y] = IF y = row THEN 0 ELSE f[y]
  OBVIOUS
<1>4. \A y \in CardRows : k[y] = IF y = row THEN 0 ELSE g[y]
  OBVIOUS
<1> HIDE DEF h, k
<1>5. SumFunction(h) = SumBut(f, row) /\ SumFunction(k) = SumBut(g, row)
  BY <1>1, <1>3, <1>4, SumsOfOthers
<1>6. SumFunction(h) \in Int /\ SumFunction(k) \in Int /\ SumFunction(k) <= SumFunction(h)
  BY <1>1, <1>2, CardRowsAreFinite, SumGrows DEF CardRows
<1> QED BY <1>5, <1>6

\* Where one row takes an amount, in place of another or anew, and the others
\* take no more than before, the sum is what the others had and the amount.
LEMMA OneTakes ==
    ASSUME NEW f \in [CardRows -> Int], NEW g \in [CardRows -> Int], NEW row,
           NEW x \in CardRows, NEW amount \in Int,
           g[x] <= amount, x = row \/ f[x] = 0,
           row \in CardRows /\ row # x => g[row] <= 0,
           \A y \in CardRows \ {x, row} : g[y] <= f[y]
    PROVE  /\ SumFunction(g) \in Int /\ SumBut(f, row) \in Int
           /\ SumFunction(g) <= SumBut(f, row) + amount
<1> DEFINE h == [y \in CardRows |-> IF y = row THEN 0 ELSE f[y]]
           k == [y \in CardRows |-> IF y = x THEN amount ELSE h[y]]
<1>1. h \in [CardRows -> Int] /\ k \in [CardRows -> Int]
  OBVIOUS
<1>2. \A y \in CardRows : h[y] = IF y = row THEN 0 ELSE f[y]
  OBVIOUS
<1>3. h[x] = 0 /\ k[x] = amount /\ \A y \in CardRows \ {x} : k[y] = h[y]
  OBVIOUS
<1>4. \A y \in CardRows : g[y] <= k[y]
  <2> SUFFICES ASSUME NEW y \in CardRows PROVE g[y] <= k[y]
    OBVIOUS
  <2>1. CASE y = x
    BY <2>1
  <2>2. CASE y # x /\ y = row
    BY <2>2
  <2>3. CASE y # x /\ y # row
    BY <2>3
  <2> QED BY <2>1, <2>2, <2>3
<1> HIDE DEF h, k
<1>5. SumFunction(h) = SumBut(f, row) /\ SumFunction(h) \in Int
  BY <1>1, <1>2, SumsOfOthers
<1>6. SumFunction(k) = SumFunction(h) - h[x] + k[x]
  BY <1>1, <1>3, CardRowsAreFinite, SumMoves DEF CardRows
<1>7. SumFunction(g) \in Int /\ SumFunction(k) \in Int /\ SumFunction(g) <= SumFunction(k)
  BY <1>1, <1>4, CardRowsAreFinite, SumGrows DEF CardRows
<1> QED BY <1>3, <1>5, <1>6, <1>7

LEMMA SpentIsSum ==
    ASSUME TypeOK, NEW l, NEW v \in Nat
    PROVE  /\ Spent(l, v) = SumFunction(Taken(l, v))
           /\ \A row : SpentBut(l, row, v) = SumBut(Taken(l, v), row)
           /\ Spent(l, v) \in Int
<1>1. Spent(l, v) = SumFunction(Taken(l, v))
  BY DEF Spent, Taken
<1>2. \A row : TakenBy(l, row, v) = Part(Taken(l, v), row)
  BY TakenTypes DEF Part, Taken
<1>3. Spent(l, v) \in Int
  BY <1>1, TakenTypes, CardRowsAreFinite, SumGrows DEF CardRows
<1> QED BY <1>1, <1>2, <1>3 DEF SpentBut, SumBut

LEMMA SpentIsSumNext ==
    ASSUME TypeOK', NEW l, NEW v \in Nat
    PROVE  /\ Spent(l, v)' = SumFunction(Taken(l, v)')
           /\ \A row : SpentBut(l, row, v)' = SumBut(Taken(l, v)', row)
           /\ Spent(l, v)' \in Int
<1>1. Spent(l, v)' = SumFunction(Taken(l, v)')
  BY DEF Spent, Taken
<1>2. \A row : TakenBy(l, row, v)' = Part(Taken(l, v)', row)
  BY TakenTypesNext DEF Part, Taken
<1>3. Spent(l, v)' \in Int
  BY <1>1, TakenTypesNext, CardRowsAreFinite, SumGrows DEF CardRows
<1>4. \A row : SpentBut(l, row, v)' = Spent(l, v)' - TakenBy(l, row, v)'
  BY DEF SpentBut
<1> QED BY <1>1, <1>2, <1>3, <1>4 DEF SumBut

-----------------------------------------------------------------------------
(* What a step does to what is taken of a line.                            *)

\* No row takes more than before.
GivesRoom(l, v) == \A y \in CardRows : TakenBy(l, y, v)' <= TakenBy(l, y, v)

\* The row x takes an amount, in place of `row' or anew, and no other more.
Takes(l, row, x, amount, v) ==
    /\ TakenBy(l, x, v)' <= amount
    /\ x = row \/ TakenBy(l, x, v) = 0
    /\ row # x => TakenBy(l, row, v)' = 0
    /\ \A y \in CardRows \ {x, row} : TakenBy(l, y, v)' <= TakenBy(l, y, v)

LEMMA GivenRoom ==
    ASSUME TypeOK, TypeOK', NEW l, NEW v \in Nat, GivesRoom(l, v)
    PROVE  Spent(l, v)' <= Spent(l, v) /\ \A row : SpentBut(l, row, v)' <= SpentBut(l, row, v)
<1>1. \A y \in CardRows : Taken(l, v)'[y] <= Taken(l, v)[y]
  BY DEF GivesRoom, Taken
<1>2. Taken(l, v) \in [CardRows -> Int] /\ Taken(l, v)' \in [CardRows -> Int]
  BY TakenTypes, TakenTypesNext
<1>3. SumFunction(Taken(l, v)') <= SumFunction(Taken(l, v))
  BY <1>1, <1>2, CardRowsAreFinite, SumGrows DEF CardRows
<1>4. \A row : SumBut(Taken(l, v)', row) <= SumBut(Taken(l, v), row)
  BY <1>1, <1>2, OthersGive
<1> QED BY <1>3, <1>4, SpentIsSum, SpentIsSumNext

LEMMA TakenRoom ==
    ASSUME TypeOK, TypeOK', NEW l, NEW v \in Nat, NEW row, NEW x \in CardRows, NEW amount \in Nat,
           Takes(l, row, x, amount, v)
    PROVE  Spent(l, v)' <= SpentBut(l, row, v) + amount
<1> DEFINE f == Taken(l, v)
           g == Taken(l, v)'
<1>1. f \in [CardRows -> Int] /\ g \in [CardRows -> Int]
  BY TakenTypes, TakenTypesNext
<1>2. \A y \in CardRows : f[y] = TakenBy(l, y, v) /\ g[y] = TakenBy(l, y, v)'
  BY DEF Taken
<1> HIDE DEF f, g
<1>3. /\ g[x] <= amount /\ (x = row \/ f[x] = 0)
      /\ row \in CardRows /\ row # x => g[row] <= 0
      /\ \A y \in CardRows \ {x, row} : g[y] <= f[y]
  BY <1>2 DEF Takes
<1>4. SumFunction(g) <= SumBut(f, row) + amount
  BY <1>1, <1>3, OneTakes
<1> QED BY <1>4, SpentIsSum, SpentIsSumNext DEF f, g

-----------------------------------------------------------------------------
(* What a gate has judged, and what keeps it.                              *)

\* What a form has read of the amounts stands while its row has the version
\* it saw.
RoomForm(s) ==
    LET row == session[s].row
        job == session[s].job
    IN  /\ job \in {"register", "ask"} => row = None
        /\ job = "overwrite" => session[s].line \in Lines
        /\ job = "undo" => session[s].amount = request[row].estimate
        /\ job \in UsageJobs /\ session[s].seen = usage[row].version =>
             /\ job = "edit" /\ ~session[s].capped =>
                  session[s].line = usage[row].line /\ session[s].amount <= usage[row].supply
             /\ job = "restore" => session[s].amount = usage[row].supply
             /\ job = "overwrite" => session[s].line = usage[row].line /\ usage[row].state = "live"

\* Whoever has passed the gate for a line, the outrun ones aside, holds its
\* current copy.
Holds(s, l) == session[s].phase = "gated" /\ session[s].line = l /\ l \notin outrun

LineLocked(s, l) == Holds(s, l) => l \in Lines /\ Reaches(l) /\ <<l, seq>> \in session[s].locks

LocksApart ==
    \A s, t \in Sessions :
        session[s].phase = "gated" /\ session[t].phase = "gated" /\ s # t =>
            session[s].locks \cap session[t].locks = {}

\* What it is about to write still fits beside what the others take, at the
\* rate it has read.
Waits(s, l) ==
    /\ Holds(s, l)
    /\ session[s].job = "edit" => session[s].capped
    /\ session[s].job = "buy" => ~completed

RoomJudged(s, l) == Waits(s, l) => HasRoom(l, session[s].row, Wanted(s, session[s].rate), session[s].rate)

RoomForms == \A s \in Sessions : RoomForm(s)

RoomInv ==
    /\ IInv
    /\ RoomForms
    /\ \A s \in Sessions : LineLocked(s, session[s].line) /\ RoomJudged(s, session[s].line)
    /\ LocksApart

\* One usage changes.
LEMMA OneUsage ==
    ASSUME IInv, NEW u \in Usages, NEW x, usage' = [usage EXCEPT ![u] = x], UNCHANGED request, NEW l,
           NEW v \in Nat
    PROVE  /\ \A y \in CardRows \ {u} : TakenBy(l, y, v)' <= TakenBy(l, y, v)
           /\ TakenBy(l, None, v)' = 0
           /\ TakenBy(l, u, v)' = IF x.state = "live" /\ x.line = l THEN x.supply ELSE 0
           /\ TakenBy(l, u, v) = IF usage[u].state = "live" /\ usage[u].line = l THEN usage[u].supply ELSE 0
<1>1. \A w \in Usages : usage'[w] = IF w = u THEN x ELSE usage[w]
  BY DEF IInv, TypeOK
<1>2. u \notin Requests /\ u # None /\ None \notin CardRows
  BY RowsDiffer, LinkNamesDiffer DEF CardRows
<1>3. \A y \in CardRows \ {u} : TakenBy(l, y, v)' = TakenBy(l, y, v)
  BY <1>1 DEF TakenBy, Live, Asked, CardRows
<1>4. \A y \in CardRows : TakenBy(l, y, v) \in Nat
  BY TakenTypes DEF IInv
<1>5. \A y \in CardRows \ {u} : TakenBy(l, y, v)' <= TakenBy(l, y, v)
  BY <1>3, <1>4
<1>6. TakenBy(l, None, v)' = 0
  BY <1>2 DEF TakenBy, Live, Asked, CardRows
<1>7. TakenBy(l, u, v)' = IF x.state = "live" /\ x.line = l THEN x.supply ELSE 0
  BY <1>1, <1>2 DEF TakenBy, Live, Asked
<1>8. TakenBy(l, u, v) = IF usage[u].state = "live" /\ usage[u].line = l THEN usage[u].supply ELSE 0
  BY <1>2 DEF TakenBy, Live, Asked
<1> QED BY <1>5, <1>6, <1>7, <1>8

\* One request changes.
LEMMA OneRequest ==
    ASSUME IInv, NEW r \in Requests, NEW x, request' = [request EXCEPT ![r] = x], UNCHANGED usage, NEW l,
           NEW v \in Nat
    PROVE  /\ \A y \in CardRows \ {r} : TakenBy(l, y, v)' <= TakenBy(l, y, v)
           /\ TakenBy(l, None, v)' = 0
           /\ TakenBy(l, r, v)' = IF x.state = "requested" /\ x.line = l THEN EstimateSupply(x.estimate, v) ELSE 0
           /\ TakenBy(l, r, v) = IF request[r].state = "requested" /\ request[r].line = l
                              THEN EstimateSupply(request[r].estimate, v) ELSE 0
<1>1. \A q \in Requests : request'[q] = IF q = r THEN x ELSE request[q]
  BY DEF IInv, TypeOK
<1>2. r \notin Usages /\ r # None /\ None \notin CardRows
  BY RowsDiffer, LinkNamesDiffer DEF CardRows
<1>3. \A y \in CardRows \ {r} : TakenBy(l, y, v)' = TakenBy(l, y, v)
  BY <1>1 DEF TakenBy, Live, Asked, CardRows
<1>4. \A y \in CardRows : TakenBy(l, y, v) \in Nat
  BY TakenTypes DEF IInv
<1>5. \A y \in CardRows \ {r} : TakenBy(l, y, v)' <= TakenBy(l, y, v)
  BY <1>3, <1>4
<1>6. TakenBy(l, None, v)' = 0
  BY <1>2 DEF TakenBy, Live, Asked, CardRows
<1>7. TakenBy(l, r, v)' = IF x.state = "requested" /\ x.line = l THEN EstimateSupply(x.estimate, v) ELSE 0
  BY <1>1, <1>2 DEF TakenBy, Live, Asked
<1>8. TakenBy(l, r, v) = IF request[r].state = "requested" /\ request[r].line = l
                      THEN EstimateSupply(request[r].estimate, v) ELSE 0
  BY <1>2 DEF TakenBy, Live, Asked
<1> QED BY <1>5, <1>6, <1>7, <1>8

LEMMA QuietGives ==
    ASSUME IInv, UNCHANGED <<usage, request>>, NEW l, NEW v \in Nat
    PROVE  GivesRoom(l, v)
<1>1. \A y \in CardRows : TakenBy(l, y, v) \in Nat
  BY TakenTypes DEF IInv
<1>2. \A y \in CardRows : TakenBy(l, y, v)' = TakenBy(l, y, v)
  BY DEF TakenBy, Live, Asked
<1> QED BY <1>1, <1>2 DEF GivesRoom

\* The step ends the session of a gate for l, and takes what was judged there.
Writes(s, l, v) ==
    /\ session[s].phase = "gated" /\ session[s].line = l /\ session'[s] = Idle
    /\ UNCHANGED <<line, outrun>>
    /\ session[s].job = "edit" => session[s].capped
    /\ session[s].job = "buy" /\ completed => \E r \in Asked(l) : request'[r].state = "purchased"
    /\ \E x \in CardRows, row \in CardRows \cup {None}, amount \in Nat :
          /\ row = session[s].row
          /\ session[s].rate = v => amount = Wanted(s, v)
          /\ Takes(l, row, x, amount, v)

\* The line is made with what it is for.
IsMade(l, v) == line[l].tip = 0 /\ Spent(l, v)' <= line'[l].execution

Judged(l, v) == GivesRoom(l, v) \/ (\E s \in Sessions : Writes(s, l, v)) \/ IsMade(l, v)

\* The writes of the card side, one line at a time.
LEMMA RegisterTakes ==
    ASSUME IInv, RoomForms, NEW s \in Sessions, NEW u \in Usages, Register(s, u), NEW l \in Lines,
           NEW v \in Nat
    PROVE  Judged(l, v)
<1>1. PICK amount \in Nat, m \in Linkable : amount = session[s].amount /\ m = session[s].line
  BY SessionFacts
<1>2. /\ session[s].phase = "gated" /\ session[s].job = "register" /\ session[s].row = None
      /\ usage[u].state = "none"
      /\ usage' = [usage EXCEPT ![u] = Linked(s, None)] /\ UNCHANGED <<request, line, outrun>>
      /\ session' = [session EXCEPT ![s] = Idle]
  BY DEF Register, Gated, WriteUsage, End, RoomForms, RoomForm
<1>3. PICK x : x = Linked(s, None)
  OBVIOUS
<1>4. x.state = "live" /\ x.line = m /\ x.supply = amount
  BY <1>1, <1>3 DEF Linked, UsageOf
<1>5. /\ \A y \in CardRows \ {u} : TakenBy(l, y, v)' <= TakenBy(l, y, v)
      /\ TakenBy(l, None, v)' = 0 /\ TakenBy(l, u, v) = 0
      /\ TakenBy(l, u, v)' = IF m = l THEN amount ELSE 0
  <2>1. usage' = [usage EXCEPT ![u] = x] /\ UNCHANGED request /\ usage[u].state # "live"
    BY <1>2, <1>3
  <2>2. /\ \A y \in CardRows \ {u} : TakenBy(l, y, v)' <= TakenBy(l, y, v)
        /\ TakenBy(l, None, v)' = 0
        /\ TakenBy(l, u, v)' = IF x.state = "live" /\ x.line = l THEN x.supply ELSE 0
        /\ TakenBy(l, u, v) = IF usage[u].state = "live" /\ usage[u].line = l THEN usage[u].supply ELSE 0
    BY <2>1, OneUsage
  <2> QED BY <1>4, <2>1, <2>2
<1>6. CASE m # l
  <2>1. GivesRoom(l, v)
    BY <1>5, <1>6 DEF GivesRoom
  <2> QED BY <2>1 DEF Judged
<1>7. CASE m = l
  <2>1. Takes(l, None, u, amount, v)
    BY <1>5, <1>7 DEF Takes
  <2>2. session'[s] = Idle
    BY <1>2 DEF IInv, TypeOK
  <2>3. Writes(s, l, v)
    BY <1>1, <1>2, <1>7, <2>1, <2>2 DEF Writes, CardRows, Wanted
  <2> QED BY <2>3 DEF Judged
<1> QED BY <1>6, <1>7

LEMMA AskTakes ==
    ASSUME IInv, RoomForms, NEW s \in Sessions, NEW r \in Requests, Ask(s, r), NEW l \in Lines,
           NEW v \in Nat
    PROVE  Judged(l, v)
<1>1. PICK amount \in Nat, m \in Linkable : amount = session[s].amount /\ m = session[s].line
  BY SessionFacts
<1>2. PICK x : /\ request' = [request EXCEPT ![r] = x]
               /\ x.state = "requested" /\ x.line = m /\ x.estimate = amount
  <2> DEFINE x == [state |-> "requested", line |-> session[s].line, at |-> session[s].at,
                   estimate |-> session[s].amount, regret |-> FALSE, version |-> 1]
  <2>1. request' = [request EXCEPT ![r] = x]
    BY DEF Ask
  <2>2. x.state = "requested" /\ x.line = m /\ x.estimate = amount
    BY <1>1
  <2> QED BY <2>1, <2>2
<1>3. /\ session[s].phase = "gated" /\ session[s].job = "ask" /\ session[s].row = None
      /\ request[r].state = "none"
      /\ UNCHANGED <<usage, line, outrun>>
      /\ session' = [session EXCEPT ![s] = Idle]
  BY DEF Ask, Gated, End, RoomForms, RoomForm
<1>4. PICK wanted \in Nat : wanted = EstimateSupply(amount, v)
  BY EstimateTypes
<1>5. /\ \A y \in CardRows \ {r} : TakenBy(l, y, v)' <= TakenBy(l, y, v)
      /\ TakenBy(l, None, v)' = 0 /\ TakenBy(l, r, v) = 0
      /\ TakenBy(l, r, v)' = IF m = l THEN wanted ELSE 0
  <2>1. request' = [request EXCEPT ![r] = x] /\ UNCHANGED usage /\ request[r].state # "requested"
    BY <1>2, <1>3
  <2>2. /\ \A y \in CardRows \ {r} : TakenBy(l, y, v)' <= TakenBy(l, y, v)
        /\ TakenBy(l, None, v)' = 0
        /\ TakenBy(l, r, v)' = IF x.state = "requested" /\ x.line = l THEN EstimateSupply(x.estimate, v) ELSE 0
        /\ TakenBy(l, r, v) = IF request[r].state = "requested" /\ request[r].line = l
                            THEN EstimateSupply(request[r].estimate, v) ELSE 0
    BY <2>1, OneRequest
  <2> QED BY <1>2, <1>4, <2>1, <2>2
<1>6. CASE m # l
  <2>1. GivesRoom(l, v)
    BY <1>5, <1>6 DEF GivesRoom
  <2> QED BY <2>1 DEF Judged
<1>7. CASE m = l
  <2>1. Takes(l, None, r, wanted, v)
    BY <1>5, <1>7 DEF Takes
  <2>2. session'[s] = Idle
    BY <1>3 DEF IInv, TypeOK
  <2>3. session[s].rate = v => wanted = Wanted(s, v)
    BY <1>1, <1>3, <1>4 DEF Wanted
  <2>4. Writes(s, l, v)
    BY <1>1, <1>3, <1>7, <2>1, <2>2, <2>3 DEF Writes, CardRows
  <2> QED BY <2>4 DEF Judged
<1> QED BY <1>6, <1>7

\* A session that writes the row it is about, under its own line.
LEMMA OwnRowTakes ==
    ASSUME IInv, TypeOK', NEW s \in Sessions, NEW l \in Lines, NEW v \in Nat,
           NEW row \in CardRows, row = session[s].row,
           NEW amount \in Nat, session[s].rate = v => amount = Wanted(s, v),
           session[s].phase = "gated", session[s].job # "buy",
           session' = [session EXCEPT ![s] = Idle], UNCHANGED <<line, outrun>>,
           \A y \in CardRows \ {row} : TakenBy(l, y, v)' <= TakenBy(l, y, v),
           session[s].line # l => TakenBy(l, row, v)' = 0,
           session[s].line = l => TakenBy(l, row, v)' = amount,
           session[s].line = l /\ session[s].job = "edit" /\ ~session[s].capped =>
              amount <= TakenBy(l, row, v)
    PROVE  Judged(l, v)
<1>0. TakenBy(l, row, v) \in Nat
  BY TakenTypes DEF IInv
<1>1. CASE session[s].line # l \/ (session[s].job = "edit" /\ ~session[s].capped)
  <2>1. TakenBy(l, row, v)' <= TakenBy(l, row, v)
    BY <1>0, <1>1
  <2>2. GivesRoom(l, v)
    BY <2>1 DEF GivesRoom
  <2> QED BY <2>2 DEF Judged
<1>2. CASE session[s].line = l /\ ~(session[s].job = "edit" /\ ~session[s].capped)
  <2>1. Takes(l, row, row, amount, v)
    BY <1>2 DEF Takes
  <2>2. session'[s] = Idle
    BY DEF IInv, TypeOK
  <2>3. Writes(s, l, v)
    BY <1>2, <2>1, <2>2 DEF Writes
  <2> QED BY <2>3 DEF Judged
<1> QED BY <1>1, <1>2

LEMMA EditTakes ==
    ASSUME IInv, TypeOK', RoomForms, NEW s \in Sessions, Edit(s) \/ Restore(s) \/ Overwrite(s),
           NEW l \in Lines, NEW v \in Nat
    PROVE  Judged(l, v)
<1>1. /\ session[s].job \in {"edit", "restore", "overwrite"} /\ session[s].phase = "gated"
      /\ session[s].job = "edit" => Edit(s)
      /\ session[s].job = "restore" => Restore(s)
      /\ session[s].job = "overwrite" => Overwrite(s)
  BY DEF Edit, Restore, Overwrite, Gated
<1>2. /\ session[s].row \in Usages
      /\ UsageForm(s) /\ RoomForm(s)
  BY <1>1, SessionFacts DEF UsageJobs, RoomForms
<1>3. PICK u \in Usages, amount \in Nat, m \in Linkable :
         u = session[s].row /\ amount = session[s].amount /\ m = session[s].line
  BY <1>2, SessionFacts
<1>4. usage[u].version = session[s].seen
  BY <1>1, <1>3 DEF Edit, Restore, Overwrite, UsageStands
<1>5. usage[u] \in UsageRows /\ usage[u].supply \in Nat
  BY Fields DEF IInv, TypeOK
<1>6. PICK x : /\ usage' = [usage EXCEPT ![u] = x]
               /\ x.state = "live" /\ x.line = m /\ x.supply = amount
  <2>1. CASE session[s].job = "edit"
    <3> DEFINE x == [usage[u] EXCEPT !.line = session[s].line, !.at = session[s].at,
                                     !.supply = session[s].amount, !.version = @ + 1]
    <3>1. usage' = [usage EXCEPT ![u] = x] /\ usage[u].state = "live"
      BY <1>1, <1>3, <2>1 DEF Edit, WriteUsage, UsageStands
    <3>2. x.state = "live" /\ x.line = m /\ x.supply = amount
      BY <1>3, <1>5, <3>1 DEF UsageRows
    <3> QED BY <3>1, <3>2
  <2>2. CASE session[s].job = "restore"
    <3> DEFINE x == [usage[u] EXCEPT !.state = "live", !.version = @ + 1]
    <3>1. usage' = [usage EXCEPT ![u] = x]
      BY <1>1, <1>3, <2>2 DEF Restore, WriteUsage
    <3>2. usage[u].line = m /\ usage[u].supply = amount
      BY <1>2, <1>3, <1>4, <2>2 DEF UsageForm, RoomForm, UsageJobs
    <3>3. x.state = "live" /\ x.line = m /\ x.supply = amount
      BY <1>5, <3>2 DEF UsageRows
    <3> QED BY <3>1, <3>3
  <2>3. CASE session[s].job = "overwrite"
    <3> DEFINE x == [usage[u] EXCEPT !.supply = session[s].amount, !.version = @ + 1]
    <3>1. usage' = [usage EXCEPT ![u] = x]
      BY <1>1, <1>3, <2>3 DEF Overwrite, WriteUsage
    <3>2. usage[u].line = m /\ usage[u].state = "live"
      BY <1>2, <1>3, <1>4, <2>3 DEF RoomForm, UsageJobs
    <3>3. x.state = "live" /\ x.line = m /\ x.supply = amount
      BY <1>3, <1>5, <3>2 DEF UsageRows
    <3> QED BY <3>1, <3>3
  <2> QED BY <1>1, <2>1, <2>2, <2>3
<1>7. /\ session' = [session EXCEPT ![s] = Idle] /\ UNCHANGED <<line, outrun, request>>
  BY <1>1 DEF Edit, Restore, Overwrite, WriteUsage, End
<1>8. /\ \A y \in CardRows \ {u} : TakenBy(l, y, v)' <= TakenBy(l, y, v)
      /\ TakenBy(l, u, v)' = IF m = l THEN amount ELSE 0
      /\ TakenBy(l, u, v) = IF usage[u].state = "live" /\ usage[u].line = l THEN usage[u].supply ELSE 0
  <2>1. usage' = [usage EXCEPT ![u] = x] /\ UNCHANGED request
    BY <1>6, <1>7
  <2>2. /\ \A y \in CardRows \ {u} : TakenBy(l, y, v)' <= TakenBy(l, y, v)
        /\ TakenBy(l, None, v)' = 0
        /\ TakenBy(l, u, v)' = IF x.state = "live" /\ x.line = l THEN x.supply ELSE 0
        /\ TakenBy(l, u, v) = IF usage[u].state = "live" /\ usage[u].line = l THEN usage[u].supply ELSE 0
    BY <2>1, OneUsage
  <2> QED BY <1>6, <2>2
<1>9. m = l /\ session[s].job = "edit" /\ ~session[s].capped => amount <= TakenBy(l, u, v)
  <2> SUFFICES ASSUME m = l, session[s].job = "edit", ~session[s].capped
               PROVE  amount <= TakenBy(l, u, v)
    OBVIOUS
  <2>1. usage[u].line = m /\ amount <= usage[u].supply
    BY <1>2, <1>3, <1>4 DEF RoomForm, UsageJobs
  <2>2. usage[u].state = "live"
    BY <1>1, <1>3 DEF Edit, UsageStands
  <2> QED BY <1>8, <2>1, <2>2
<1>10. u \in CardRows
  BY DEF CardRows
<1>11. session[s].job # "buy" /\ amount = Wanted(s, v)
  BY <1>1, <1>3 DEF Wanted
<1> QED BY <1>1, <1>3, <1>7, <1>8, <1>9, <1>10, <1>11, OwnRowTakes

LEMMA BuyTakes ==
    ASSUME IInv, RoomForms, NEW s \in Sessions, NEW u \in Usages, Buy(s, u), NEW l \in Lines,
           NEW v \in Nat
    PROVE  Judged(l, v)
<1>1. /\ session[s].phase = "gated" /\ session[s].job = "buy" /\ session[s].row \in Requests
      /\ session[s].line = request[session[s].row].line
  BY SessionFacts DEF Buy, Gated, RequestJobs, RequestForm
<1>2. PICK amount \in Nat, m \in Linkable, r \in Requests :
         amount = session[s].amount /\ m = session[s].line /\ r = session[s].row
  BY <1>1, SessionFacts
<1>3. PICK x : x = Linked(s, r)
  OBVIOUS
<1>4. x.state = "live" /\ x.line = m /\ x.supply = amount
  BY <1>2, <1>3 DEF Linked, UsageOf
<1>5. /\ usage' = [usage EXCEPT ![u] = x] /\ usage[u].state = "none" /\ request[r].state = "requested"
      /\ request' = [request EXCEPT ![r].state = "purchased", ![r].version = @ + 1]
      /\ session' = [session EXCEPT ![s] = Idle] /\ UNCHANGED <<line, outrun>>
  BY <1>2, <1>3 DEF Buy, WriteUsage, End
<1>6. \A w \in Usages : usage'[w] = IF w = u THEN x ELSE usage[w]
  BY <1>5 DEF IInv, TypeOK
<1>7. request'[r].state = "purchased" /\ \A q \in Requests \ {r} : request'[q] = request[q]
  BY <1>5 DEF IInv, TypeOK, RequestRows
<1>8. u \notin Requests /\ r \notin Usages /\ u # r
  BY RowsDiffer
<1>9. \A y \in CardRows \ {u, r} : TakenBy(l, y, v)' = TakenBy(l, y, v)
  BY <1>6, <1>7 DEF TakenBy, Live, Asked, CardRows
<1>10. /\ TakenBy(l, u, v)' = (IF m = l THEN amount ELSE 0) /\ TakenBy(l, u, v) = 0
       /\ TakenBy(l, r, v)' = 0
  BY <1>4, <1>5, <1>6, <1>7, <1>8 DEF TakenBy, Live, Asked
<1>11. \A y \in CardRows : TakenBy(l, y, v) \in Nat
  BY TakenTypes DEF IInv
<1>12. CASE m # l
  <2>1. GivesRoom(l, v)
    BY <1>9, <1>10, <1>11, <1>12 DEF GivesRoom
  <2> QED BY <2>1 DEF Judged
<1>13. CASE m = l
  <2>1. Takes(l, r, u, amount, v)
    BY <1>8, <1>9, <1>10, <1>11, <1>13 DEF Takes
  <2>2. session'[s] = Idle
    BY <1>5 DEF IInv, TypeOK
  <2>3. r \in Asked(l)
    BY <1>1, <1>2, <1>5, <1>13 DEF Asked
  <2>4. Writes(s, l, v)
    BY <1>1, <1>2, <1>5, <1>7, <1>13, <2>1, <2>2, <2>3 DEF Writes, CardRows, Wanted
  <2> QED BY <2>4 DEF Judged
<1> QED BY <1>12, <1>13

LEMMA UndoTakes ==
    ASSUME IInv, TypeOK', RoomForms, NEW s \in Sessions, Undo(s), NEW l \in Lines,
           NEW v \in Nat
    PROVE  Judged(l, v)
<1>1. /\ session[s].phase = "gated" /\ session[s].job = "undo" /\ session[s].row \in Requests
      /\ session[s].line = request[session[s].row].line
      /\ session[s].amount = request[session[s].row].estimate
  BY SessionFacts DEF Undo, Gated, RequestJobs, RequestForm, RoomForms, RoomForm
<1>2. PICK amount \in Nat, m \in Linkable, r \in Requests :
         amount = session[s].amount /\ m = session[s].line /\ r = session[s].row
  BY <1>1, SessionFacts
<1>3. PICK x : /\ request' = [request EXCEPT ![r] = x]
               /\ x.state = "requested" /\ x.line = m /\ x.estimate = amount
  <2> DEFINE x == [request[r] EXCEPT !.state = "requested", !.regret = FALSE, !.version = @ + 1]
  <2>1. request' = [request EXCEPT ![r] = x]
    BY <1>2 DEF Undo
  <2>2. request[r] \in RequestRows
    BY DEF IInv, TypeOK
  <2>3. x.state = "requested" /\ x.line = m /\ x.estimate = amount
    BY <1>1, <1>2, <2>2 DEF RequestRows
  <2> QED BY <2>1, <2>3
<1>4. session' = [session EXCEPT ![s] = Idle] /\ UNCHANGED <<line, outrun>> /\ UNCHANGED usage
  BY DEF Undo, End
<1>5. /\ \A y \in CardRows \ {r} : TakenBy(l, y, v)' <= TakenBy(l, y, v)
      /\ TakenBy(l, None, v)' = 0
      /\ TakenBy(l, r, v)' = IF x.state = "requested" /\ x.line = l THEN EstimateSupply(x.estimate, v) ELSE 0
      /\ TakenBy(l, r, v) = IF request[r].state = "requested" /\ request[r].line = l
                              THEN EstimateSupply(request[r].estimate, v) ELSE 0
  BY <1>3, <1>4, OneRequest
<1>6. r \in CardRows
  BY DEF CardRows
<1>7. PICK wanted \in Nat : wanted = EstimateSupply(amount, v)
  BY EstimateTypes
<1>8. session[s].rate = v => wanted = Wanted(s, v)
  BY <1>1, <1>2, <1>7 DEF Wanted
<1>9. TakenBy(l, r, v)' = IF m = l THEN wanted ELSE 0
  BY <1>3, <1>5, <1>7
<1> QED BY <1>1, <1>2, <1>4, <1>5, <1>6, <1>8, <1>9, OwnRowTakes

\* A usage is deleted or leaves its line, or a request is cancelled.
LEMMA LeavingGives ==
    ASSUME IInv, NEW s \in Sessions,
           Remove(s) \/ ToTeam(s) \/ \E own \in BOOLEAN : Cancel(s, own),
           NEW l \in Lines, NEW v \in Nat
    PROVE  GivesRoom(l, v)
<1>1. CASE Remove(s) \/ ToTeam(s)
  <2>1. PICK u \in Usages : u = session[s].row
    BY <1>1, SessionFacts DEF Remove, ToTeam, Ready, UsageJobs
  <2>2. usage[u] \in UsageRows
    BY DEF IInv, TypeOK
  <2>3. PICK x : usage' = [usage EXCEPT ![u] = x] /\ ~(x.state = "live" /\ x.line = l)
    <3>1. CASE Remove(s)
      <4> DEFINE x == [usage[u] EXCEPT !.state = "archived", !.version = @ + 1]
      <4>1. usage' = [usage EXCEPT ![u] = x]
        BY <2>1, <3>1 DEF Remove, WriteUsage
      <4>2. x.state # "live"
        BY <2>2 DEF UsageRows
      <4> QED BY <4>1, <4>2
    <3>2. CASE ToTeam(s)
      <4> DEFINE x == [usage[u] EXCEPT !.line = Team, !.at = 0, !.supply = session[s].amount,
                                       !.version = @ + 1]
      <4>1. usage' = [usage EXCEPT ![u] = x]
        BY <2>1, <3>2 DEF ToTeam, WriteUsage
      <4>2. x.line = Team
        BY <2>2 DEF UsageRows
      <4> QED BY <4>1, <4>2, LinkNamesDiffer
    <3> QED BY <1>1, <3>1, <3>2
  <2>4. UNCHANGED request
    BY <1>1 DEF Remove, ToTeam
  <2>5. /\ \A y \in CardRows \ {u} : TakenBy(l, y, v)' <= TakenBy(l, y, v)
        /\ TakenBy(l, None, v)' = 0
        /\ TakenBy(l, u, v)' = IF x.state = "live" /\ x.line = l THEN x.supply ELSE 0
        /\ TakenBy(l, u, v) = IF usage[u].state = "live" /\ usage[u].line = l THEN usage[u].supply ELSE 0
    BY <2>3, <2>4, OneUsage
  <2>6. TakenBy(l, u, v) \in Nat
    BY TakenTypes DEF IInv
  <2> QED BY <2>3, <2>5, <2>6 DEF GivesRoom
<1>2. CASE \E own \in BOOLEAN : Cancel(s, own)
  <2>1. PICK own \in BOOLEAN : Cancel(s, own)
    BY <1>2
  <2>2. PICK r \in Requests : r = session[s].row
    BY <2>1, SessionFacts DEF Cancel, Ready, RequestJobs
  <2>3. PICK x : request' = [request EXCEPT ![r] = x] /\ x.state # "requested"
    <3> DEFINE x == [request[r] EXCEPT !.state = "cancelled", !.regret = own, !.version = @ + 1]
    <3>1. request' = [request EXCEPT ![r] = x]
      BY <2>1, <2>2 DEF Cancel
    <3>2. request[r] \in RequestRows
      BY DEF IInv, TypeOK
    <3>3. x.state = "cancelled"
      BY <3>2 DEF RequestRows
    <3> QED BY <3>1, <3>3
  <2>4. UNCHANGED usage
    BY <2>1 DEF Cancel
  <2>5. /\ \A y \in CardRows \ {r} : TakenBy(l, y, v)' <= TakenBy(l, y, v)
        /\ TakenBy(l, None, v)' = 0
        /\ TakenBy(l, r, v)' = IF x.state = "requested" /\ x.line = l THEN EstimateSupply(x.estimate, v) ELSE 0
        /\ TakenBy(l, r, v) = IF request[r].state = "requested" /\ request[r].line = l
                              THEN EstimateSupply(request[r].estimate, v) ELSE 0
    BY <2>3, <2>4, OneRequest
  <2>6. TakenBy(l, r, v) \in Nat
    BY TakenTypes DEF IInv
  <2> QED BY <2>3, <2>5, <2>6 DEF GivesRoom
<1> QED BY <1>1, <1>2

\* A line that is made with its usage is made for its amount: nothing was
\* taken of it before.
LEMMA ExtraIsMade ==
    ASSUME IInv, TypeOK', NEW u \in Usages, NEW m \in Lines, NEW a \in Nat, ExtraLine(m, a),
           NEW x, usage' = [usage EXCEPT ![u] = x], UNCHANGED request,
           x.state = "live", x.line = m, x.supply = a,
           NEW l \in Lines, NEW v \in Nat
    PROVE  Judged(l, v)
<1>1. /\ \A y \in CardRows \ {u} : TakenBy(l, y, v)' <= TakenBy(l, y, v)
      /\ TakenBy(l, None, v)' = 0
      /\ TakenBy(l, u, v)' = IF x.state = "live" /\ x.line = l THEN x.supply ELSE 0
      /\ TakenBy(l, u, v) = IF usage[u].state = "live" /\ usage[u].line = l THEN usage[u].supply ELSE 0
  BY OneUsage
<1>2. TypeOK /\ \A y : TakenBy(l, y, v) \in Nat
  BY TakenTypes DEF IInv
<1>3. CASE m # l
  <2>1. GivesRoom(l, v)
    BY <1>1, <1>2, <1>3 DEF GivesRoom
  <2> QED BY <2>1 DEF Judged
<1>4. CASE m = l
  <2>1. line[l].tip = 0 /\ line'[l].execution = a
    BY <1>4 DEF ExtraLine, OutOfQuoteLine, IInv, TypeOK
  <2>2. ~Reaches(l)
    <3>1. seq # 0
      BY Fields DEF IInv
    <3> QED BY <2>1, <3>1 DEF Reaches
  <2>3. \A y \in CardRows : TakenBy(l, y, v) = 0
    BY <2>2 DEF IInv, LinksReachTheQuote, TakenBy
  <2>4. Taken(l, v) \in [CardRows -> Int] /\ \A y \in CardRows : Taken(l, v)[y] = 0
    BY <1>2, <2>3, TakenTypes DEF Taken
  <2>5. SumFunction(Taken(l, v)) = 0
    BY <2>4, CardRowsAreFinite, SumOfZeros DEF CardRows
  <2>6. SpentBut(l, None, v) = 0
    <3>1. TakenBy(l, None, v) = 0
      BY <1>2, TakenTypes, LinkNamesDiffer DEF CardRows
    <3> QED BY <1>2, <2>5, <3>1, SpentIsSum DEF SpentBut
  <2>7. u \in CardRows
    BY DEF CardRows
  <2>8. Takes(l, None, u, a, v)
    BY <1>1, <1>4, <2>3, <2>7 DEF Takes
  <2>9. Spent(l, v)' <= SpentBut(l, None, v) + a
    BY <1>2, <2>7, <2>8, TakenRoom
  <2>10. Spent(l, v)' \in Int
    BY SpentIsSumNext
  <2>11. IsMade(l, v)
    BY <2>1, <2>6, <2>9, <2>10 DEF IsMade
  <2> QED BY <2>11 DEF Judged
<1> QED BY <1>3, <1>4

LEMMA ExtraTakes ==
    ASSUME IInv, TypeOK', NEW m \in Lines, NEW l \in Lines, NEW v \in Nat,
           \/ \E s \in Sessions : ToExtraLine(s, m)
           \/ \E u \in Usages, a \in Amounts : RegisterExtra(u, m, a)
    PROVE  Judged(l, v)
<1>1. ASSUME NEW s \in Sessions, ToExtraLine(s, m)
      PROVE  Judged(l, v)
  <2>1. session[s].row \in Usages
    BY <1>1, SessionFacts DEF ToExtraLine, Ready, UsageJobs
  <2>2. PICK u \in Usages, a \in Nat : u = session[s].row /\ a = session[s].amount
    BY <2>1, SessionFacts
  <2>3. PICK n \in Nat : n = seq
    BY Fields DEF IInv
  <2> DEFINE x == [usage[u] EXCEPT !.line = m, !.at = n, !.supply = a, !.version = @ + 1]
  <2>4. usage' = [usage EXCEPT ![u] = x] /\ UNCHANGED request /\ ExtraLine(m, a) /\ usage[u].state = "live"
    BY <1>1, <2>2, <2>3 DEF ToExtraLine, UsageStands
  <2>5. usage[u] \in UsageRows
    BY DEF IInv, TypeOK
  <2>6. x.state = "live" /\ x.line = m /\ x.supply = a
    BY <2>4, <2>5 DEF UsageRows
  <2>7. PICK z : z = x
    OBVIOUS
  <2> HIDE DEF x
  <2>8. usage' = [usage EXCEPT ![u] = z] /\ z.state = "live" /\ z.line = m /\ z.supply = a
    BY <2>4, <2>6, <2>7
  <2> QED BY <2>4, <2>8, ExtraIsMade
<1>2. ASSUME NEW u \in Usages, NEW a \in Amounts, RegisterExtra(u, m, a)
      PROVE  Judged(l, v)
  <2>1. a \in Nat
    BY LinkAmounts
  <2>2. PICK x : x = UsageOf(m, seq, a, None)
    OBVIOUS
  <2>3. usage' = [usage EXCEPT ![u] = x] /\ UNCHANGED request /\ ExtraLine(m, a)
    BY <1>2, <2>2 DEF RegisterExtra
  <2>4. x.state = "live" /\ x.line = m /\ x.supply = a
    BY <2>2 DEF UsageOf
  <2> QED BY <2>1, <2>3, <2>4, ExtraIsMade
<1> QED BY <1>1, <1>2

\* Every step, one line at a time: nobody takes more of the line, or somebody
\* takes what a gate has judged, or the line is made for what is taken.
LEMMA StepJudged ==
    ASSUME IInv, RoomForms, [Next]_vars, NEW l \in Lines,
           NEW v \in Nat
    PROVE  Judged(l, v)
<1>1. TypeOK'
  BY TypesKept DEF IInv
<1>2. CASE UNCHANGED <<usage, request>>
  BY <1>2, QuietGives DEF Judged
<1>3. ASSUME NEW s \in Sessions, Write(s)
      PROVE  Judged(l, v)
  <2>1. CASE Remove(s) \/ ToTeam(s) \/ \E own \in BOOLEAN : Cancel(s, own)
    BY <2>1, LeavingGives DEF Judged
  <2>2. CASE Move(s)
    BY <1>2, <2>2 DEF Move
  <2>3. CASE Edit(s) \/ Restore(s) \/ Overwrite(s)
    BY <1>1, <2>3, EditTakes
  <2>4. CASE Undo(s)
    BY <1>1, <2>4, UndoTakes
  <2>5. CASE \E m \in Lines : ToExtraLine(s, m)
    BY <1>1, <2>5, ExtraTakes
  <2>6. CASE \E u \in Usages : Register(s, u) \/ Buy(s, u)
    BY <2>6, RegisterTakes, BuyTakes
  <2>7. CASE \E r \in Requests : Ask(s, r)
    BY <2>7, AskTakes
  <2> QED BY <1>3, <2>1, <2>2, <2>3, <2>4, <2>5, <2>6, <2>7 DEF Write
<1>4. ASSUME NEW s \in Sessions, Fill(s) \/ GiveUp(s) \/ Judge(s)
      PROVE  UNCHANGED <<usage, request>>
  <2>1. CASE Fill(s)
    BY <2>1, FillTypes DEF IInv, rows
  <2>2. CASE GiveUp(s) \/ Judge(s)
    BY <2>2 DEF GiveUp, Judge, GateRegister, GateAsk, GateEdit, GateRestore, GateBuy, GateUndo,
                GateOverwrite, Lock, rows
  <2> QED BY <1>4, <2>1, <2>2
<1>5. CASE Work
  <2>1. CASE \E u \in Usages, m \in Lines, a \in Amounts : RegisterExtra(u, m, a)
    BY <1>1, <2>1, ExtraTakes
  <2>2. CASE ~ \E u \in Usages, m \in Lines, a \in Amounts : RegisterExtra(u, m, a)
    BY <1>2, <1>5, <2>2 DEF Work, Draft, Submit, Decide, Close
  <2> QED BY <2>1, <2>2
<1>6. CASE Quote \/ UNCHANGED vars
  BY <1>2, <1>6 DEF Quote, AddLine, EditLine, DeleteLine, RestoreLine, NewRevision, Complete, vars
<1> QED BY <1>2, <1>3, <1>4, <1>5, <1>6 DEF Next

-----------------------------------------------------------------------------
(* Whoever holds the current copy of a line holds the line.                *)

LEMMA LockedLinesStay ==
    ASSUME IInv, [Next]_vars, NEW s \in Sessions, session[s].phase = "gated",
           NEW l \in Lines, Reaches(l), <<l, seq>> \in session[s].locks
    PROVE  seq' = seq /\ line'[l] = line[l]
<1>1. ASSUME NEW copies, CopiesFree(copies)
      PROVE  <<l, seq>> \notin copies
  BY <1>1 DEF CopiesFree
<1>2. line[l].tip # 0 /\ ~line[l].archived
  BY Fields DEF IInv, Reaches
<1>3. ASSUME NEW m, m # l, NEW x, line' = [line EXCEPT ![m] = x]
      PROVE  line'[l] = line[l]
  BY <1>3 DEF IInv, TypeOK
<1>4. ASSUME NEW m \in Lines, NEW a, ExtraLine(m, a)
      PROVE  line'[l] = line[l]
  BY <1>2, <1>3, <1>4 DEF ExtraLine
<1>5. ASSUME NEW m \in Lines, NEW a, NEW o, AddLine(m, a, o)
      PROVE  seq' = seq /\ line'[l] = line[l]
  BY <1>2, <1>3, <1>5 DEF AddLine
<1>6. ASSUME NEW m \in Lines, NEW a, NEW o, EditLine(m, a, o)
      PROVE  seq' = seq /\ line'[l] = line[l]
  <2>1. m # l
    BY <1>1, <1>6 DEF EditLine
  <2>2. PICK x : x = [line[m] EXCEPT !.execution = a, !.online = o]
    OBVIOUS
  <2>3. line' = [line EXCEPT ![m] = x]
    BY <1>6, <2>2 DEF EditLine
  <2> QED BY <1>3, <1>6, <2>1, <2>3 DEF EditLine
<1>7. ASSUME NEW m \in Lines, DeleteLine(m) \/ RestoreLine(m)
      PROVE  seq' = seq /\ line'[l] = line[l]
  <2>1. m # l
    BY <1>1, <1>2, <1>7 DEF DeleteLine, RestoreLine
  <2> QED BY <1>7, <2>1 DEF DeleteLine, RestoreLine, IInv, TypeOK
<1>8. ~NewRevision
  <2> SUFFICES ASSUME NewRevision PROVE FALSE
    OBVIOUS
  <2>1. <<l, seq>> \in {<<m, seq>> : m \in {n \in Lines : Reaches(n)}}
    OBVIOUS
  <2> QED BY <1>1, <2>1 DEF NewRevision
<1>9. ASSUME NEW t \in Sessions, Fill(t) \/ GiveUp(t) \/ Judge(t)
      PROVE  UNCHANGED <<seq, line>>
  <2>1. CASE Fill(t)
    BY <2>1, FillTypes DEF IInv, rows
  <2>2. CASE GiveUp(t) \/ Judge(t)
    BY <2>2 DEF GiveUp, Judge, GateRegister, GateAsk, GateEdit, GateRestore, GateBuy, GateUndo,
                GateOverwrite, Lock, rows
  <2> QED BY <1>9, <2>1, <2>2
<1>10. ASSUME NEW t \in Sessions, Write(t)
       PROVE  seq' = seq /\ line'[l] = line[l]
  <2>1. CASE \E m \in Lines : ToExtraLine(t, m)
    BY <1>4, <2>1 DEF ToExtraLine
  <2>2. CASE ~ \E m \in Lines : ToExtraLine(t, m)
    BY <1>10, <2>2 DEF Write, WriteUsage, Register, Buy, Ask, Edit, Restore, Undo, Overwrite, Remove,
                       Cancel, ToTeam, Move
  <2> QED BY <2>1, <2>2
<1>11. CASE Work
  <2>1. CASE \E u \in Usages, m \in Lines, a \in Amounts : RegisterExtra(u, m, a)
    BY <1>4, <2>1 DEF RegisterExtra
  <2>2. CASE ~ \E u \in Usages, m \in Lines, a \in Amounts : RegisterExtra(u, m, a)
    BY <1>11, <2>2 DEF Work, Draft, Submit, Decide, Close
  <2> QED BY <2>1, <2>2
<1>12. CASE Quote
  BY <1>5, <1>6, <1>7, <1>8, <1>12 DEF Quote, Complete
<1>13. CASE UNCHANGED vars
  BY <1>13 DEF vars
<1> QED BY <1>9, <1>10, <1>11, <1>12, <1>13 DEF Next

LEMMA EstimatesStay ==
    ASSUME IInv, [Next]_vars, NEW r \in Requests, request[r].state # "none"
    PROVE  request'[r].estimate = request[r].estimate
<1>0. \A q \in Requests : request[q] \in RequestRows
  BY DEF IInv, TypeOK
<1>2. CASE UNCHANGED request
  BY <1>2
<1>3. ASSUME NEW s \in Sessions, NEW u \in Usages, Buy(s, u)
      PROVE  request'[r].estimate = request[r].estimate
  BY <1>0, <1>3 DEF Buy, IInv, TypeOK, RequestRows
<1>4. ASSUME NEW s \in Sessions, NEW q \in Requests, Ask(s, q)
      PROVE  request'[r].estimate = request[r].estimate
  BY <1>4 DEF Ask, IInv, TypeOK
<1>5. ASSUME NEW s \in Sessions, Undo(s) \/ \E own \in BOOLEAN : Cancel(s, own)
      PROVE  request'[r].estimate = request[r].estimate
  <2> DEFINE q == session[s].row
             x(own) == [request[q] EXCEPT !.state = "cancelled", !.regret = own, !.version = @ + 1]
             y == [request[q] EXCEPT !.state = "requested", !.regret = FALSE, !.version = @ + 1]
  <2>1. q \in Requests
    BY <1>5, SessionFacts DEF Undo, Cancel, Gated, Ready, RequestJobs
  <2>2. y.estimate = request[q].estimate /\ \A own \in BOOLEAN : x(own).estimate = request[q].estimate
    BY <1>0, <2>1 DEF RequestRows
  <2>3. request' = [request EXCEPT ![q] = y] \/ \E own \in BOOLEAN : request' = [request EXCEPT ![q] = x(own)]
    BY <1>5 DEF Undo, Cancel
  <2>4. \E z : request' = [request EXCEPT ![q] = z] /\ z.estimate = request[q].estimate
    <3> HIDE DEF x, y, q
    <3> QED BY <2>2, <2>3
  <2> QED BY <2>1, <2>4 DEF IInv, TypeOK
<1>6. ASSUME NEW s \in Sessions, Write(s)
      PROVE  request'[r].estimate = request[r].estimate
  BY <1>2, <1>3, <1>4, <1>5, <1>6 DEF Write, WriteUsage, Register, Edit, Restore, Overwrite, Remove,
                                     ToTeam, ToExtraLine, Move
<1>7. ASSUME NEW s \in Sessions, Fill(s) \/ GiveUp(s) \/ Judge(s)
      PROVE  UNCHANGED request
  <2>1. CASE Fill(s)
    BY <2>1, FillTypes DEF IInv, rows
  <2>2. CASE GiveUp(s) \/ Judge(s)
    BY <2>2 DEF GiveUp, Judge, GateRegister, GateAsk, GateEdit, GateRestore, GateBuy, GateUndo,
                GateOverwrite, Lock, rows
  <2> QED BY <1>7, <2>1, <2>2
<1>8. CASE Work \/ Quote \/ UNCHANGED vars
  BY <1>2, <1>8 DEF Work, RegisterExtra, Draft, Submit, Decide, Close, Quote, AddLine, EditLine,
                    DeleteLine, RestoreLine, NewRevision, Complete, vars
<1> QED BY <1>2, <1>6, <1>7, <1>8 DEF Next

LEMMA NeverUndone ==
    ASSUME IInv, [Next]_vars
    PROVE  (completed => completed') /\ outrun \subseteq outrun'
<1>1. ASSUME NEW s \in Sessions, Fill(s) \/ GiveUp(s) \/ Judge(s)
      PROVE  (completed => completed') /\ outrun \subseteq outrun'
  <2>1. CASE Fill(s)
    BY <2>1, FillTypes DEF IInv, rows
  <2>2. CASE GiveUp(s) \/ Judge(s)
    BY <2>2 DEF GiveUp, Judge, GateRegister, GateAsk, GateEdit, GateRestore, GateBuy, GateUndo,
                GateOverwrite, Lock, rows
  <2> QED BY <1>1, <2>1, <2>2
<1>2. ASSUME NEW s \in Sessions, Write(s)
      PROVE  UNCHANGED <<completed, outrun>>
  BY <1>2 DEF Write, WriteUsage, Register, Buy, Ask, Edit, Restore, Undo, Overwrite, Remove, Cancel,
              ToTeam, ToExtraLine, Move
<1>3. CASE Quote
  <2>1. CASE Complete
    BY <2>1 DEF Complete
  <2>2. CASE ~Complete
    BY <1>3, <2>2 DEF Quote, AddLine, EditLine, DeleteLine, RestoreLine, NewRevision
  <2> QED BY <2>1, <2>2
<1>4. ASSUME Work \/ UNCHANGED vars
      PROVE  UNCHANGED <<completed, outrun>>
  BY <1>4 DEF Work, RegisterExtra, Draft, Submit, Decide, Close, vars
<1> QED BY <1>1, <1>2, <1>3, <1>4 DEF Next

-----------------------------------------------------------------------------
(* What a gate has judged stands until it is written.                      *)

LEMMA JudgeLocks ==
    ASSUME IInv, NEW s \in Sessions, Judge(s)
    PROVE  /\ CopiesFree(session'[s].locks)
           /\ \A t \in Sessions \ {s} : session'[t] = session[t]
           /\ session'[s].job = session[s].job /\ session'[s].row = session[s].row
           /\ session'[s].line = session[s].line /\ session'[s].amount = session[s].amount
           /\ session'[s].seen = session[s].seen /\ session'[s].capped = session[s].capped
           /\ UNCHANGED <<completed, seq, line, usage, request>>
           /\ session[s].job # "overwrite" =>
                UNCHANGED outrun /\ session'[s].locks = CopiesOf(s)
<1>1. session \in [Sessions -> SessionRows]
  BY DEF IInv, TypeOK
<1>2. CASE \E v \in Rates : Lock(s, v)
  <2>1. PICK k : k = CopiesOf(s)
    OBVIOUS
  <2>2. /\ \E v \in Rates : session' = [session EXCEPT ![s].phase = "gated", ![s].locks = k, ![s].rate = v]
        /\ CopiesFree(k)
        /\ UNCHANGED <<completed, seq, line, usage, request, outrun>>
    BY <1>2, <2>1 DEF Lock, rows
  <2>3. session'[s].locks = k
    BY <1>1, <2>2 DEF SessionRows
  <2> QED BY <1>1, <2>1, <2>2, <2>3 DEF SessionRows
<1>3. CASE GateOverwrite(s)
  <2>1. /\ \E v \in Rates : session' = [session EXCEPT ![s].phase = "gated", ![s].rate = v]
        /\ CopiesFree(session[s].locks)
        /\ session[s].job = "overwrite" /\ UNCHANGED <<completed, seq, line, usage, request>>
    BY <1>3 DEF GateOverwrite, Ready
  <2> QED BY <1>1, <2>1 DEF SessionRows
<1> QED BY <1>2, <1>3 DEF Judge, GateRegister, GateAsk, GateEdit, GateRestore, GateBuy, GateUndo

LEMMA FillIsForm ==
    ASSUME IInv, NEW s \in Sessions, Fill(s)
    PROVE  session'[s].phase = "form"
<1>1. session \in [Sessions -> SessionRows]
  BY DEF IInv, TypeOK
<1>2. CASE \E job, row, l, at, a, n : Form(s, job, row, l, at, a, n)
  BY <1>1, <1>2 DEF Form, Filled
<1>3. CASE \E u \in Usages, l \in Lines, at \in 1..seq, a \in Amounts : FormEdit(s, u, l, at, a)
  BY <1>1, <1>3 DEF FormEdit, Filled
<1>4. CASE \E u \in Usages, a \in Amounts : FormOverwrite(s, u, a)
  BY <1>1, <1>4 DEF FormOverwrite, Filled
<1> QED BY <1>2, <1>3, <1>4 DEF Fill, FormRegister, FormAsk, FormRemove, FormRestore, FormBuy,
           FormCancel, FormUndo, FormMove, FormLeave

LEMMA LocksStayApart ==
    ASSUME IInv, LocksApart, [Next]_vars
    PROVE  LocksApart'
<1> SUFFICES ASSUME NEW s \in Sessions, NEW t \in Sessions,
                    session'[s].phase = "gated", session'[t].phase = "gated", s # t
             PROVE  session'[s].locks \cap session'[t].locks = {}
  BY DEF LocksApart
<1>1. ASSUME NEW p \in Sessions, session'[p].phase = "gated"
      PROVE  session'[p] = session[p] \/ Judge(p)
  <2>1. ~Fill(p)
    BY <1>1, FillIsForm
  <2>2. session'[p] # Idle
    BY <1>1 DEF Idle
  <2> QED BY <2>1, <2>2, NextSessions DEF IInv
<1>2. CASE session'[s] = session[s] /\ session'[t] = session[t]
  BY <1>2 DEF LocksApart
<1>3. CASE Judge(s)
  BY <1>3, JudgeLocks DEF CopiesFree
<1>4. CASE Judge(t)
  BY <1>4, JudgeLocks DEF CopiesFree
<1> QED BY <1>1, <1>2, <1>3, <1>4

\* Who waits with a lock keeps its line, and the room that was judged.
LEMMA WaitersKeepRoom ==
    ASSUME RoomInv, [Next]_vars, NEW s \in Sessions, session'[s] = session[s],
           NEW l \in Linkable, l = session[s].line
    PROVE  LineLocked(s, l)' /\ RoomJudged(s, l)'
<1>1. IInv /\ TypeOK /\ TypeOK' /\ RoomForms /\ LocksApart
  BY TypesKept DEF RoomInv, IInv
<1>2. (completed => completed') /\ outrun \subseteq outrun'
  BY <1>1, NeverUndone
<1>3. SUFFICES ASSUME Holds(s, l)'
               PROVE  LineLocked(s, l)' /\ RoomJudged(s, l)'
  BY DEF LineLocked, RoomJudged, Waits
<1>4. Holds(s, l)
  BY <1>2, <1>3 DEF Holds
<1>5. l \in Lines /\ Reaches(l) /\ <<l, seq>> \in session[s].locks
  BY <1>4 DEF RoomInv, LineLocked
<1>6. seq' = seq /\ line'[l] = line[l]
  BY <1>1, <1>4, <1>5, LockedLinesStay DEF Holds
<1>7. LineLocked(s, l)'
  BY <1>5, <1>6 DEF LineLocked, Reaches
<1>8. ASSUME Waits(s, l)'
      PROVE  HasRoom(l, session[s].row, Wanted(s, session[s].rate), session[s].rate)'
  <2>1. Waits(s, l)
    BY <1>2, <1>4, <1>8 DEF Waits
  <2>2. PICK amount \in Nat, v \in Nat : amount = Wanted(s, v) /\ v = session[s].rate
    BY <1>1, SessionFacts, WantedTypes
  <2>3. PICK row : row = session[s].row
    OBVIOUS
  <2>4. HasRoom(l, row, amount, v)
    BY <2>3, <2>1, <2>2 DEF RoomInv, RoomJudged
  <2>5. ~IsMade(l, v)
    <3>1. line[l].tip # 0
      BY <1>1, <1>5, Fields DEF Reaches
    <3> QED BY <3>1 DEF IsMade
  <2>6. ASSUME NEW t \in Sessions, Writes(t, l, v)
        PROVE  FALSE
    <3>1. session[t].phase = "gated" /\ session[t].line = l /\ session'[t] = Idle /\ l \notin outrun
      BY <1>4, <2>6 DEF Writes, Holds
    <3>2. s # t
      BY <1>4, <3>1 DEF Holds, Idle
    <3>3. <<l, seq>> \in session[t].locks
      BY <3>1 DEF RoomInv, LineLocked, Holds
    <3> QED BY <1>1, <1>4, <1>5, <3>1, <3>2, <3>3 DEF LocksApart, Holds
  <2>7. GivesRoom(l, v)
    BY <1>1, <1>5, <2>5, <2>6, StepJudged DEF Judged
  <2>8. SpentBut(l, row, v)' <= SpentBut(l, row, v)
    BY <1>1, <2>7, GivenRoom
  <2>9. SpentBut(l, row, v) \in Int /\ SpentBut(l, row, v)' \in Int
    <3>1. Spent(l, v) \in Int /\ TakenBy(l, row, v) \in Nat /\ Spent(l, v)' \in Int /\ TakenBy(l, row, v)' \in Nat
      BY <1>1, SpentIsSum, SpentIsSumNext, TakenTypes, TakenTypesNext
    <3> QED BY <3>1 DEF SpentBut
  <2>10. line[l].execution \in Nat
    BY <1>1, <1>5 DEF TypeOK, LineRows
  <2>11. SpentBut(l, row, v)' + amount <= line'[l].execution
    BY <1>6, <2>4, <2>8, <2>9, <2>10 DEF HasRoom
  <2>12. HasRoom(l, row, amount, v)'
    BY <2>11 DEF HasRoom
  <2>13. Wanted(s, v)' = amount
    BY <2>2 DEF Wanted
  <2> QED BY <2>2, <2>3, <2>12, <2>13
<1> QED BY <1>7, <1>8 DEF RoomJudged

\* What a gate has found at the rate its form has read.
FoundRoom(s, v) ==
    /\ session[s].job \in {"register", "ask", "restore"} => Fits(s, None, v)
    /\ session[s].job = "edit" /\ session[s].capped => Fits(s, session[s].row, v)
    /\ session[s].job = "buy" => completed \/ Fits(s, session[s].row, v)
    /\ session[s].job \in {"undo", "overwrite"} => Fits(s, session[s].row, v)

LEMMA GatesFindRoom ==
    ASSUME IInv, NEW s \in Sessions, Judge(s)
    PROVE  \E v \in Nat : session'[s].rate = v /\ FoundRoom(s, v)
<1>0. session \in [Sessions -> SessionRows]
  BY DEF IInv, TypeOK
<1>1. ASSUME NEW v, Lock(s, v)
      PROVE  session'[s].rate = v
  <2>1. PICK k : session' = [session EXCEPT ![s].phase = "gated", ![s].locks = k, ![s].rate = v]
    BY <1>1 DEF Lock
  <2> QED BY <1>0, <2>1 DEF SessionRows
<1>2. CASE GateRegister(s) \/ GateAsk(s) \/ GateRestore(s)
  <2>1. PICK v \in Rates : Fits(s, None, v) /\ Lock(s, v)
    BY <1>2 DEF GateRegister, GateAsk, GateRestore
  <2>2. session[s].job \in {"register", "ask", "restore"}
    BY <1>2 DEF GateRegister, GateAsk, GateRestore, Ready
  <2> QED BY <1>1, <2>1, <2>2, EvidenceRates DEF FoundRoom
<1>3. CASE GateEdit(s)
  <2>1. PICK v \in Rates : (session[s].capped => Fits(s, session[s].row, v)) /\ Lock(s, v)
    BY <1>3 DEF GateEdit
  <2>2. session[s].job = "edit"
    BY <1>3 DEF GateEdit, Ready
  <2> QED BY <1>1, <2>1, <2>2, EvidenceRates DEF FoundRoom
<1>4. CASE GateBuy(s)
  <2>1. PICK v \in Rates : (completed \/ Fits(s, session[s].row, v)) /\ Lock(s, v)
    BY <1>4 DEF GateBuy
  <2>2. session[s].job = "buy"
    BY <1>4 DEF GateBuy, Ready
  <2> QED BY <1>1, <2>1, <2>2, EvidenceRates DEF FoundRoom
<1>5. CASE GateUndo(s)
  <2>1. PICK v \in Rates : Fits(s, session[s].row, v) /\ Lock(s, v)
    BY <1>5 DEF GateUndo
  <2>2. session[s].job = "undo"
    BY <1>5 DEF GateUndo, Ready
  <2> QED BY <1>1, <2>1, <2>2, EvidenceRates DEF FoundRoom
<1>6. CASE GateOverwrite(s)
  <2>1. PICK v \in Rates : /\ Fits(s, session[s].row, v)
                           /\ session' = [session EXCEPT ![s].phase = "gated", ![s].rate = v]
    BY <1>6 DEF GateOverwrite
  <2>2. session[s].job = "overwrite"
    BY <1>6 DEF GateOverwrite, Ready
  <2>3. session'[s].rate = v
    BY <1>0, <2>1 DEF SessionRows
  <2> QED BY <2>1, <2>2, <2>3, EvidenceRates DEF FoundRoom
<1> QED BY <1>2, <1>3, <1>4, <1>5, <1>6 DEF Judge

\* Who passes a gate takes the locks with it, and has judged the room.
LEMMA JudgesSeeRoom ==
    ASSUME RoomInv, NEW s \in Sessions, Judge(s), NEW l \in Linkable, l = session[s].line
    PROVE  LineLocked(s, l)' /\ RoomJudged(s, l)'
<1>1. IInv /\ RoomForm(s) /\ LineForm(s)
  BY SessionFacts DEF RoomInv, RoomForms
<1>2. /\ session'[s].job = session[s].job /\ session'[s].row = session[s].row
      /\ session'[s].line = session[s].line /\ session'[s].amount = session[s].amount
      /\ session'[s].capped = session[s].capped
      /\ UNCHANGED <<completed, seq, line, usage, request>>
      /\ session[s].job # "overwrite" => UNCHANGED outrun /\ session'[s].locks = CopiesOf(s)
  BY <1>1, JudgeLocks
<1>3. PICK v \in Nat : session'[s].rate = v /\ FoundRoom(s, v)
  BY <1>1, GatesFindRoom
<1>4. PICK amount \in Nat : amount = Wanted(s, v)
  BY <1>1, SessionFacts, WantedTypes DEF IInv
<1>5. PICK row : row = session[s].row
  OBVIOUS
<1>6. LineLocked(s, l)'
  <2>1. l \in Lines /\ Reaches(l)
    BY <1>1 DEF Judge, GateRegister, GateAsk, GateEdit, GateRestore, GateBuy, GateUndo, GateOverwrite,
                Ready, ChosenLineStands, LineForm, RoomForm
  <2>2. l \notin outrun' => <<l, seq>> \in session'[s].locks
    <3>1. CASE session[s].job # "overwrite"
      BY <1>2, <3>1 DEF CopiesOf
    <3>2. CASE session[s].job = "overwrite"
      <4>1. GateOverwrite(s)
        BY <3>2 DEF Judge, GateRegister, GateAsk, GateEdit, GateRestore, GateBuy, GateUndo, Ready
      <4>2. session'[s].locks = session[s].locks
        BY <1>1, <4>1 DEF GateOverwrite, IInv, TypeOK, SessionRows
      <4> QED BY <4>1, <4>2 DEF GateOverwrite
    <3> QED BY <3>1, <3>2
  <2> QED BY <1>2, <2>1, <2>2 DEF LineLocked, Holds, Reaches
<1>7. TakenBy(l, None, v) = 0 /\ TakenBy(l, row, v) \in Nat /\ Spent(l, v) \in Int
  BY <1>1, TakenTypes, SpentIsSum, LinkNamesDiffer DEF IInv, CardRows
<1>8. ASSUME Waits(s, l)'
      PROVE  HasRoom(l, row, amount, v)
  <2>1. CASE session[s].job \in {"register", "ask"}
    BY <1>1, <1>3, <1>5, <1>4, <2>1 DEF FoundRoom, RoomForm, Fits
  <2>2. CASE session[s].job = "edit"
    BY <1>2, <1>3, <1>5, <1>8, <1>4, <2>2 DEF FoundRoom, Waits, Fits
  <2>3. CASE session[s].job = "restore"
    <3>1. HasRoom(l, None, amount, v)
      BY <1>3, <1>4, <2>3 DEF FoundRoom, Fits
    <3>2. line[l].execution \in Nat
      BY <1>1, <2>3 DEF IInv, TypeOK, LineRows, LineForm
    <3> QED BY <1>7, <3>1, <3>2 DEF HasRoom, SpentBut
  <2>4. CASE session[s].job = "buy"
    BY <1>2, <1>3, <1>5, <1>8, <1>4, <2>4 DEF FoundRoom, Waits, Fits
  <2>5. CASE session[s].job \in {"undo", "overwrite"}
    BY <1>3, <1>5, <1>4, <2>5 DEF FoundRoom, Fits
  <2> QED
    BY <2>1, <2>2, <2>3, <2>4, <2>5 DEF Judge, GateRegister, GateAsk, GateEdit, GateRestore, GateBuy,
                                        GateUndo, GateOverwrite, Ready
<1>9. HasRoom(l, row, amount, v)' = HasRoom(l, row, amount, v)
  BY <1>2 DEF HasRoom, SpentBut, Spent, TakenBy, Live, Asked
<1>10. Wanted(s, v)' = amount
  BY <1>2, <1>4 DEF Wanted
<1>11. RoomJudged(s, l)'
  BY <1>2, <1>3, <1>5, <1>8, <1>9, <1>10 DEF RoomJudged
<1> QED BY <1>6, <1>11

LEMMA RoomFormsKept ==
    ASSUME IInv, RoomForms, [Next]_vars
    PROVE  RoomForms'
<1> SUFFICES ASSUME NEW s \in Sessions
             PROVE  RoomForm(s)'
  BY DEF RoomForms
<1>0. session \in [Sessions -> SessionRows] /\ RoomForm(s) /\ TypeOK
  BY DEF IInv, TypeOK, RoomForms
<1>1. CASE session'[s] = session[s]
  <2>1. PICK row : row = session[s].row
    OBVIOUS
  <2>2. session[s].job = "undo" => request'[row].estimate = request[row].estimate
    BY <2>1, EstimatesStay, SessionFacts DEF RequestForm, RequestJobs
  <2>3. session[s].job \in UsageJobs /\ session[s].seen = usage'[row].version =>
          usage'[row] = usage[row]
    <3> SUFFICES ASSUME session[s].job \in UsageJobs, session[s].seen = usage'[row].version
                 PROVE  usage'[row] = usage[row]
      OBVIOUS
    <3>1. row \in Usages /\ usage[row].state # "none" /\ session[s].seen <= usage[row].version
      BY <2>1, SessionFacts DEF UsageForm
    <3>2. usage[row].version \in Nat /\ session[s].seen \in Nat
      BY <3>1, SessionFacts, Fields DEF IInv
    <3>3. ~(usage'[row].version > usage[row].version)
      BY <3>1, <3>2
    <3> QED BY <3>1, <3>3, Steps DEF StepFacts, UsagesMove
  <2> QED BY <1>0, <1>1, <2>1, <2>2, <2>3 DEF RoomForm
<1>2. CASE session'[s] = Idle
  BY <1>2 DEF Idle, RoomForm, UsageJobs
<1>3. CASE Judge(s)
  <2>1. /\ session'[s].job = session[s].job /\ session'[s].row = session[s].row
        /\ session'[s].line = session[s].line /\ session'[s].amount = session[s].amount
        /\ session'[s].seen = session[s].seen /\ session'[s].capped = session[s].capped
        /\ UNCHANGED <<usage, request>>
    BY <1>3, JudgeLocks
  <2> QED BY <1>0, <2>1 DEF RoomForm
<1>4. CASE Fill(s)
  <2>1. UNCHANGED <<usage, request>>
    BY <1>4, FillTypes DEF IInv, rows
  <2>2. ASSUME NEW job, NEW row, NEW l, NEW at, NEW a, NEW n, Form(s, job, row, l, at, a, n)
        PROVE  /\ session'[s].job = job /\ session'[s].row = row /\ session'[s].line = l
               /\ session'[s].amount = a /\ session'[s].seen = n
    BY <1>0, <2>2 DEF Form, Filled
  <2>3. CASE \E l \in Lines, a \in Amounts : FormRegister(s, l, a) \/ FormAsk(s, l, a)
    BY <2>2, <2>3 DEF FormRegister, FormAsk, RoomForm, UsageJobs
  <2>4. CASE \E u \in Usages, l \in Lines, at \in 1..seq, a \in Amounts : FormEdit(s, u, l, at, a)
    <3>1. PICK u \in Usages, l \in Lines, at \in 1..seq, a \in Amounts : FormEdit(s, u, l, at, a)
      BY <2>4
    <3>2. /\ session'[s].job = "edit" /\ session'[s].row = u /\ session'[s].line = l
          /\ session'[s].amount = a
          /\ ~session'[s].capped => l = usage[u].line /\ a <= usage[u].supply
      <4> DEFINE same == l = usage[u].line /\ at = usage[u].at
                 c == ~(same /\ a <= usage[u].supply)
                 x == Filled("edit", u, l, at, a, usage[u].version, same, c)
      <4>1. session' = [session EXCEPT ![s] = x]
        BY <3>1, Zenon DEF FormEdit
      <4>2. session'[s] = x
        <5> HIDE DEF x
        <5> QED BY <1>0, <4>1
      <4>3. x.job = "edit" /\ x.row = u /\ x.line = l /\ x.amount = a /\ x.capped = c
        <5> HIDE DEF same, c
        <5> QED BY DEF Filled
      <4>4. ~c => l = usage[u].line /\ a <= usage[u].supply
        OBVIOUS
      <4> HIDE DEF x, c
      <4> QED BY <4>2, <4>3, <4>4
    <3> QED BY <2>1, <3>2 DEF RoomForm, UsageJobs
  <2>5. CASE \E u \in Usages : FormRemove(s, u) \/ \E a \in Amounts : FormLeave(s, u, a)
    BY <2>2, <2>5 DEF FormRemove, FormLeave, RoomForm, UsageJobs
  <2>6. CASE \E u \in Usages : FormRestore(s, u)
    BY <2>1, <2>2, <2>6 DEF FormRestore, RoomForm, UsageJobs
  <2>7. CASE \E u \in Usages, a \in Amounts : FormOverwrite(s, u, a)
    <3>1. PICK u \in Usages, a \in Amounts : FormOverwrite(s, u, a)
      BY <2>7
    <3>2. /\ session'[s].job = "overwrite" /\ session'[s].row = u /\ session'[s].line = usage[u].line
          /\ usage[u].line \in Lines /\ usage[u].state = "live"
      BY <1>0, <3>1 DEF FormOverwrite, Filled
    <3> QED BY <2>1, <3>2 DEF RoomForm, UsageJobs
  <2>8. CASE \E r \in Requests : FormCancel(s, r) \/ \E a \in Amounts : FormBuy(s, r, a)
    BY <2>2, <2>8 DEF FormCancel, FormBuy, RoomForm, UsageJobs
  <2>9. CASE \E r \in Requests : FormUndo(s, r)
    BY <2>1, <2>2, <2>9 DEF FormUndo, RoomForm, UsageJobs
  <2>10. CASE \E e \in Expenses, l \in Lines : FormMove(s, e, l)
    BY <2>2, <2>10 DEF FormMove, RoomForm, UsageJobs
  <2> QED BY <1>4, <2>3, <2>4, <2>5, <2>6, <2>7, <2>8, <2>9, <2>10 DEF Fill
<1> QED BY <1>0, <1>1, <1>2, <1>3, <1>4, NextSessions

LEMMA RoomKept == RoomInv /\ [Next]_vars => RoomInv'
<1> SUFFICES ASSUME RoomInv, [Next]_vars
             PROVE  RoomInv'
  OBVIOUS
<1>1. IInv' /\ RoomForms' /\ LocksApart'
  BY Kept, RoomFormsKept, LocksStayApart DEF RoomInv
<1>2. ASSUME NEW s \in Sessions
      PROVE  (LineLocked(s, session[s].line) /\ RoomJudged(s, session[s].line))'
  <2>1. PICK l \in Linkable : l = session[s].line
    BY SessionFacts DEF RoomInv
  <2>2. CASE session'[s] = session[s]
    BY <2>1, <2>2, WaitersKeepRoom
  <2>3. CASE Judge(s)
    <3>1. session'[s].line = l
      BY <2>1, <2>3, JudgeLocks DEF RoomInv
    <3>2. LineLocked(s, l)' /\ RoomJudged(s, l)'
      BY <2>1, <2>3, JudgesSeeRoom
    <3> QED BY <3>1, <3>2
  <2>4. CASE session'[s] = Idle \/ Fill(s)
    <3>1. session'[s].phase # "gated"
      BY <2>4, FillIsForm DEF Idle, RoomInv
    <3> QED BY <3>1 DEF LineLocked, RoomJudged, Waits, Holds
  <2> QED BY <2>2, <2>3, <2>4, NextSessions DEF RoomInv, IInv
<1> QED BY <1>1, <1>2 DEF RoomInv

LEMMA RoomAtFirst == Init => RoomInv
<1> SUFFICES ASSUME Init
             PROVE  RoomInv
  OBVIOUS
<1>1. IInv
  BY AtFirst
<1>2. \A s \in Sessions : session[s] = Idle
  BY DEF Init
<1>3. \A s \in Sessions : session[s].phase = "idle" /\ session[s].job = "none"
  BY <1>2 DEF Idle
<1> QED BY <1>1, <1>3 DEF RoomInv, RoomForms, RoomForm, LineLocked, RoomJudged, Waits, Holds, LocksApart,
           UsageJobs

LEMMA RoomSteps ==
    ASSUME RoomInv, [Next]_vars, NEW l \in Lines \ outrun', NEW v \in Rates, Spent(l, v)' > Spent(l, v),
           \A s \in Sessions :
              session[s].phase = "gated" /\ session'[s] # session[s] => session[s].rate = v,
           ~(completed /\ \E r \in Asked(l) : request'[r].state = "purchased")
    PROVE  Spent(l, v)' <= line'[l].execution
<1>1. IInv /\ TypeOK /\ TypeOK' /\ RoomForms /\ v \in Nat
  BY TypesKept, EvidenceRates DEF RoomInv, IInv
<1>2. Spent(l, v) \in Int /\ Spent(l, v)' \in Int /\ line[l].execution \in Nat
  BY <1>1, SpentIsSum, SpentIsSumNext DEF TypeOK, LineRows
<1>3. CASE GivesRoom(l, v)
  BY <1>1, <1>2, <1>3, GivenRoom
<1>4. ASSUME NEW s \in Sessions, Writes(s, l, v)
      PROVE  Spent(l, v)' <= line'[l].execution
  <2>1. PICK x \in CardRows, row \in CardRows \cup {None}, amount \in Nat :
           /\ row = session[s].row
           /\ session[s].rate = v => amount = Wanted(s, v)
           /\ Takes(l, row, x, amount, v)
    BY <1>4 DEF Writes
  <2>2. Holds(s, l)
    BY <1>4 DEF Writes, Holds
  <2>3. Waits(s, l) /\ session[s].rate = v
    BY <1>4, <2>2 DEF Writes, Waits, Idle
  <2>4. HasRoom(l, row, amount, v)
    BY <2>1, <2>2, <2>3 DEF RoomInv, RoomJudged, Holds
  <2>5. Spent(l, v)' <= SpentBut(l, row, v) + amount
    BY <1>1, <2>1, TakenRoom
  <2>6. SpentBut(l, row, v) \in Int
    <3>1. TakenBy(l, row, v) \in Nat
      BY <1>1, TakenTypes
    <3> QED BY <1>2, <3>1 DEF SpentBut
  <2> QED BY <1>2, <1>4, <2>4, <2>5, <2>6 DEF HasRoom, Writes
<1>5. CASE IsMade(l, v)
  BY <1>5 DEF IsMade
<1> QED BY <1>1, <1>3, <1>4, <1>5, StepJudged DEF Judged

\* Whatever is registered, asked, edited, restored, bought or overwritten, and
\* however it meets edits of the quote, what the card side takes of a line,
\* counted at the rate the writing request has read, does not grow beyond its
\* execution amount, the two exceptions of RoomIsKept aside: between a gate and
\* its write the line keeps its execution amount, and nobody else takes more
\* of it at any rate.
THEOREM RoomStaysKept == Spec => RoomIsKept
<1>1. RoomInv /\ [Next]_vars =>
        [UNCHANGED <<usage, request>> \/
         \A l \in Lines \ outrun', v \in Rates :
            /\ \A s \in Sessions :
                  session[s].phase = "gated" /\ session'[s] # session[s] => session[s].rate = v
            /\ Spent(l, v)' > Spent(l, v)
            /\ ~(completed /\ \E r \in Asked(l) : request'[r].state = "purchased")
            => Spent(l, v)' <= line'[l].execution]_vars
  BY RoomSteps
<1> QED
  BY <1>1, RoomAtFirst, RoomKept, PTL DEF Spec, RoomIsKept

=============================================================================
