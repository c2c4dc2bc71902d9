----------------------------- MODULE QuoteLines -----------------------------
(***************************************************************************)
(* The quote of one project: its revisions, the lines of each, the         *)
(* customer's approval of a revision, one expense written on a line, and   *)
(* the adjustment line that the payment of the expense keeps for the tax   *)
(* the company bears (the rule line).                                      *)
(*                                                                         *)
(* Every handler here locks the project row first, so each is one step.    *)
(* What is not protected by the lock is what a person saw before: the      *)
(* revision and the content a request names may be long gone.  A save of   *)
(* several rows is the same as several saves of one row, except that the   *)
(* code accepts all or none of them.                                       *)
(*                                                                         *)
(* `Amount' is the quoted amount of a line.  A line outside the quote is a *)
(* line of amount zero here: the code treats the two alike, but lets only  *)
(* the second ever get an amount.  The other cells of a line show only in  *)
(* its version.  Adjustment lines a person writes are left out: no other   *)
(* part depends on them.                                                   *)
(***************************************************************************)
EXTENDS Integers, Sequences, FiniteSets, FiniteSetsExt, Functions

CONSTANTS
    Lines,         \* ids of quote lines, each used at most once
    NoLine,        \* the absence of a line
    Amounts,       \* quoted amounts a person may enter
    Taxes,         \* taxes the company may bear for a payment, zero for none
    GateSettings,  \* does a submission need the customer's approval?  Both,
                   \* when the setting or the status of the project varies
    Reads,         \* the reads of the PM's page that are followed
    LineCap,       \* the configured number of live lines per revision
    MaxRevision,   \* bound on the number of revisions
    MaxVersion,    \* bound on the version of a line people write
    MaxSynced      \* bound on the version of a rule line

ASSUME NoLineIsNoLine == NoLine \notin Lines
ASSUME AmountsAreNumbers == Amounts \subseteq Nat /\ 0 \in Amounts
ASSUME TaxesAreNumbers == Taxes \subseteq Nat
ASSUME GateSettingsAreFlags == GateSettings \subseteq BOOLEAN
ASSUME SummaryIsRead == "summary" \in Reads /\ Reads \subseteq {"lines", "summary"}
ASSUME LineCapIsNumber == LineCap \in Nat
ASSUME BoundsArePositive ==
    /\ MaxRevision \in Nat \ {0}
    /\ MaxVersion \in Nat \ {0}
    /\ MaxSynced \in Nat \ {0}

VARIABLES
    status,    \* the project: "open" (any status before the settlement),
               \* "settling" or "completed"
    current,   \* its latest revision
    lines,     \* lines[l]: the row of the line l, revision 0 before it exists
    buried,    \* the archived rule lines, in the order they were archived
    approval,  \* approval[r]: does the customer's approval of r stand, and
               \* the total it was given for
    doc,       \* the expense: its state and its line; history: the amount
               \* of the line at its last submission, and the revision and
               \* the approval it was submitted under
    payment,   \* its live payment: is there one, and its tax
    screen     \* the PM's page: the revision it is of, the reads on their
               \* way, the lines it shows and the rows its summary counted

vars == <<status, current, lines, buried, approval, doc, payment, screen>>

-----------------------------------------------------------------------------
(* Rows.  `touched' is history: a person has edited or archived the line.  *)

Row(rev, amount, from) ==
    [rev |-> rev, amount |-> amount, version |-> 1, archived |-> FALSE,
     from |-> from, sourced |-> FALSE, synced |-> 0, touched |-> FALSE]

Unused == [Row(0, 0, NoLine) EXCEPT !.version = 0]

\* The rule line of a new tax.
RuleRow(tax) ==
    [Row(current, tax, NoLine) EXCEPT !.sourced = TRUE, !.synced = 1]

Free == {l \in Lines : lines[l].rev = 0}

OfRevision(r) == {l \in Lines : lines[l].rev = r}

Live(r) == {l \in OfRevision(r) : ~lines[l].archived}

\* Lines of the quote proper, the rule line not among them.
Quoted(r) == {l \in OfRevision(r) : ~lines[l].sourced}

LiveQuoted(r) == Live(r) \cap Quoted(r)

RuleLines == {l \in Lines : lines[l].sourced}

LiveRuleLines == {l \in RuleLines : ~lines[l].archived}

\* What each line adds to the total of a revision.
Priced(r) == [l \in Lines |-> IF l \in LiveQuoted(r) THEN lines[l].amount ELSE 0]

Total(r) == SumFunction(Priced(r))

\* A rule line somebody has edited or deleted since the rule last wrote it.
HandEdited(l) == lines[l].version # lines[l].synced

-----------------------------------------------------------------------------
(* What a person sees, and the token that stands for it in a request.      *)

Shown(r) ==
    {[id |-> l, version |-> lines[l].version, archived |-> lines[l].archived,
      amount |-> lines[l].amount] : l \in Quoted(r)}

\* Mutant: the token leaves out whether a line is archived.
TokenWithoutArchived(rows) == {<<x.id, x.version>> : x \in rows}

ContentToken(rows) == {<<x.id, x.version, x.archived>> : x \in rows}

TotalOf(rows) ==
    MapThenSumSet(LAMBDA x : x.amount, {x \in rows : ~x.archived})

Content(rows) == {<<x.id, x.amount>> : x \in {y \in rows : ~y.archived}}

NothingSeen == [rev |-> 0, left |-> {}, lines |-> {}, basis |-> {}]

-----------------------------------------------------------------------------
(* Which line a document holds.                                            *)

\* Does the set hold, with each of its lines, the line that was copied, if it
\* is live?
SourcesWithin(S) ==
    \A k \in S : \A j \in Lines : j = lines[k].from /\ ~lines[j].archived => j \in S

\* A line and the lines it was copied from, as far as they are live.
Chain(l) ==
    {k \in Lines : \A S \in SUBSET Lines : l \in S /\ SourcesWithin(S) => k \in S}

\* A numbered document that is not closed.
OpenDoc == doc.state \in {"in_review", "approved", "returned"}

\* Does the document hold this line of the current revision?
Linked(l) == OpenDoc /\ doc.line \in Chain(l)

HasLinkedDocuments == \E l \in Live(current) : Linked(l)

NoDoc ==
    [state |-> "draft", line |-> NoLine, amount |-> 0, rev |-> 0, gated |-> FALSE]

NoPayment == [live |-> FALSE, tax |-> 0]

Approved(r) == approval[r].on

NotApproved == [on |-> FALSE, total |-> 0]

-----------------------------------------------------------------------------
Init ==
    /\ status = "open"
    /\ current = 1
    /\ lines = [l \in Lines |-> Unused]
    /\ buried = <<>>
    /\ approval = [r \in 1..MaxRevision |-> NotApproved]
    /\ doc = NoDoc
    /\ payment = NoPayment
    /\ screen = NothingSeen

-----------------------------------------------------------------------------
(* What the gate project.line-edit lets a person do to the lines of the    *)
(* quote.                                                                  *)

RoomForOne == Cardinality(Live(current)) + 1 =< LineCap

\* Mutant: a duplicate is judged by its structure alone.
MayAddUnlocked(amount) ==
    /\ status # "completed"
    /\ status = "settling" => amount = 0
    /\ RoomForOne

\* May a line of this amount be added or brought back?
MayAdd(amount) ==
    /\ status # "completed"
    /\ status = "settling" => amount = 0
    /\ Approved(current) => amount = 0
    /\ RoomForOne

\* Which new amounts may a person give to a line?  Its own amount stands for
\* a change of another cell.
MayEdit(l, amount) ==
    IF amount = lines[l].amount
      THEN /\ status # "completed"
           /\ status = "settling" => ~Linked(l)
      ELSE /\ status = "open"
           /\ ~Approved(current)
           /\ ~Linked(l)

\* Mutant: a line with a document may be deleted.
MayArchiveLinked(l) ==
    /\ status = "open"
    /\ Approved(current) => lines[l].amount = 0

MayArchive(l) ==
    /\ status = "open"
    /\ ~Linked(l)
    /\ Approved(current) => lines[l].amount = 0

\* Mutant: only a live sibling stands in the way.
RestorableWithoutPayment == LiveRuleLines = {}

\* Mutant: only the payment is asked.
RestorableBesideSibling == payment.live

\* May a person bring a rule line back?
RestorableByHuman == LiveRuleLines = {} /\ payment.live

-----------------------------------------------------------------------------
(* Saving the quote.  The request names a revision and is refused unless   *)
(* it is the current one; a changed row is refused unless its version is.  *)

\* Lines a request may work on.
Editable == Live(current)

Rewrites(l, row) == lines' = [lines EXCEPT ![l] = row]

\* A new line, a copy of another line of the revision included.
AddLine(l, amount) ==
    /\ MayAdd(amount)
    /\ Rewrites(l, Row(current, amount, NoLine))
    /\ UNCHANGED <<status, current, buried, approval, doc, payment, screen>>

EditLine(l, amount) ==
    /\ ~lines[l].sourced
    /\ lines[l].version < MaxVersion
    /\ MayEdit(l, amount)
    /\ Rewrites(l, [lines[l] EXCEPT !.amount = amount, !.version = @ + 1])
    /\ UNCHANGED <<status, current, buried, approval, doc, payment, screen>>

\* Archiving by hand raises the version of a rule line only.
HumanArchiveVersion(l) == lines[l].version + (IF lines[l].sourced THEN 1 ELSE 0)

ArchiveLine(l) ==
    /\ ~lines[l].sourced
    /\ MayArchive(l)
    /\ Rewrites(l, [lines[l] EXCEPT !.archived = TRUE, !.version = HumanArchiveVersion(l)])
    /\ UNCHANGED <<status, current, buried, approval, doc, payment, screen>>

\* A person who may adjust edits the rule line, whatever the status is.
EditRuleLine(l) ==
    /\ lines[l].sourced
    /\ lines[l].version < MaxSynced
    /\ Rewrites(l, [lines[l] EXCEPT !.version = @ + 1, !.touched = TRUE])
    /\ UNCHANGED <<status, current, buried, approval, doc, payment, screen>>

ArchiveRuleLine(l) ==
    /\ lines[l].sourced
    /\ lines[l].version < MaxSynced
    /\ Rewrites(l, [lines[l] EXCEPT !.archived = TRUE, !.touched = TRUE,
                                !.version = HumanArchiveVersion(l)])
    /\ buried' = Append(buried, l)
    /\ UNCHANGED <<status, current, approval, doc, payment, screen>>

\* Bringing an archived line back, from the archive screen.
Restorable == OfRevision(current) \ Live(current)

RestoreLine(l) ==
    /\ ~lines[l].sourced
    /\ MayAdd(lines[l].amount)
    /\ Rewrites(l, [lines[l] EXCEPT !.archived = FALSE])
    /\ UNCHANGED <<status, current, buried, approval, doc, payment, screen>>

BuriedBut(n) ==
    [k \in 1..(Len(buried) - 1) |-> IF k < n THEN buried[k] ELSE buried[k + 1]]

RestoreRuleLine(l) ==
    /\ lines[l].sourced
    /\ RoomForOne
    /\ RestorableByHuman
    /\ Rewrites(l, [lines[l] EXCEPT !.archived = FALSE])
    /\ \E n \in DOMAIN buried : buried[n] = l /\ buried' = BuriedBut(n)
    /\ UNCHANGED <<status, current, approval, doc, payment, screen>>

Save ==
    \/ \E l \in Free, amount \in Amounts : AddLine(l, amount)
    \/ \E l \in Editable :
          \/ \E amount \in Amounts : EditLine(l, amount)
          \/ ArchiveLine(l)
          \/ EditRuleLine(l)
          \/ ArchiveRuleLine(l)

Restore == \E l \in Restorable : RestoreLine(l) \/ RestoreRuleLine(l)

-----------------------------------------------------------------------------
(* Revisions and the customer's approval.                                  *)

\* The row a line of the quote has in the next revision.
Copied(k) == Row(current + 1, lines[k].amount, k)

\* Mutant: the move counts as an edit.
MovedAsEdit(l) == [lines[l] EXCEPT !.rev = current + 1, !.version = @ + 1]

\* The rule line moves, archived or not; a move is nobody's edit.
Moved(l) ==
    [lines[l] EXCEPT !.rev = current + 1, !.version = @ + 1,
                     !.synced = IF HandEdited(l) THEN @ ELSE lines[l].version + 1]

\* Adjustment lines a new revision takes along.
Moving == OfRevision(current) \cap RuleLines

CreateRevision ==
    /\ current < MaxRevision
    /\ \A l \in Moving : lines[l].version < MaxSynced
    /\ status = "open"
    /\ LiveQuoted(current) # {}
    /\ \E copy \in Injection(LiveQuoted(current), Free) :
         lines' = [l \in Lines |->
                     IF l \in Range(copy) THEN Copied(AntiFunction(copy)[l])
                     ELSE IF l \in Moving THEN Moved(l)
                     ELSE lines[l]]
    /\ current' = current + 1
    /\ UNCHANGED <<status, buried, approval, doc, payment, screen>>

\* The PM opens a quote that is not approved yet: its revision is read first.
OpenQuote ==
    /\ ~Approved(current)
    /\ screen' = [NothingSeen EXCEPT !.rev = current, !.left = Reads]
    /\ UNCHANGED <<status, current, lines, buried, approval, doc, payment>>

\* Then the lines of the page and its summary, each on its own.
ReadOn(part) ==
    /\ part \in screen.left
    /\ screen' =
         IF part = "lines"
           THEN [screen EXCEPT !.left = @ \ {part}, !.lines = Content(Shown(screen.rev))]
           ELSE [screen EXCEPT !.left = @ \ {part}, !.basis = Shown(screen.rev)]
    /\ UNCHANGED <<status, current, lines, buried, approval, doc, payment>>

\* The PM records that the customer agreed to the quote on the page.  The
\* total and the token sent back are those of the summary; the page is drawn
\* again after it.
Approve ==
    /\ screen.left = {}
    /\ status # "completed"
    /\ screen.rev = current
    /\ LiveQuoted(current) # {}
    /\ TotalOf(screen.basis) = Total(current)
    /\ ContentToken(screen.basis) = ContentToken(Shown(current))
    /\ approval' = [approval EXCEPT ![current] = [on |-> TRUE, total |-> Total(current)]]
    /\ screen' = NothingSeen
    /\ UNCHANGED <<status, current, lines, buried, doc, payment>>

\* May the approval be taken back?
MayDisapprove == status # "completed" /\ ~HasLinkedDocuments

Disapprove ==
    /\ Approved(current)
    /\ MayDisapprove
    /\ approval' = [approval EXCEPT ![current] = NotApproved]
    /\ UNCHANGED <<status, current, lines, buried, doc, payment, screen>>

\* The status moves along its own rules.
ChangeStatus ==
    /\ status' \in {"open", "settling", "completed"} \ {status}
    /\ UNCHANGED <<current, lines, buried, approval, doc, payment, screen>>

-----------------------------------------------------------------------------
(* The expense.                                                            *)

\* The drafter moves the document to a line.  The line was live and current
\* when it was read; nothing holds it until the document is saved.
PickLine ==
    /\ doc.state \in {"draft", "returned"}
    /\ \E l \in Lines \ (RuleLines \cup Free \cup {doc.line}) : doc' = [doc EXCEPT !.line = l]
    /\ UNCHANGED <<status, current, lines, buried, approval, payment, screen>>

Submit(gateOn) ==
    /\ doc.state \in {"draft", "returned"}
    /\ status # "completed"
    /\ doc.line \in LiveQuoted(current)
    /\ gateOn => Approved(current)
    /\ doc' = [doc EXCEPT !.state = "in_review", !.amount = lines[doc.line].amount,
                          !.rev = current, !.gated = gateOn]
    /\ UNCHANGED <<status, current, lines, buried, approval, payment, screen>>

Decide ==
    /\ doc.state = "in_review"
    /\ \/ doc' = [doc EXCEPT !.state = "approved"]
       \/ doc' = [NoDoc EXCEPT !.state = "returned", !.line = doc.line]
    /\ UNCHANGED <<status, current, lines, buried, approval, payment, screen>>

Close ==
    /\ doc.state = "returned"
    /\ doc' = [doc EXCEPT !.state = "closed"]
    /\ UNCHANGED <<status, current, lines, buried, approval, payment, screen>>

-----------------------------------------------------------------------------
(* Payment and cancellation, with the rule line.                           *)

LastBuried == buried[Len(buried)]

\* Mutant: the archived rule line is not looked for.
DeletedNever == FALSE

\* A person deleted the line the rule wrote last.
DeletedByHand == buried # <<>> /\ HandEdited(LastBuried)

\* The rule archives its live line unless a person has edited it.
RuleArchives ==
    LET own == {l \in LiveRuleLines : ~HandEdited(l)}
    IN  /\ \A l \in own : lines[l].version < MaxSynced
        /\ lines' = [l \in Lines |->
                        IF l \in own
                          THEN [lines[l] EXCEPT !.archived = TRUE, !.version = @ + 1,
                                                !.synced = lines[l].version + 1]
                          ELSE lines[l]]
        /\ buried' = IF own = {} THEN buried ELSE Append(buried, CHOOSE l \in own : TRUE)

\* The rule rewrites its live line unless a person has edited it.
RuleUpdates(tax) ==
    /\ LiveRuleLines # {}
    /\ \A l \in LiveRuleLines : ~HandEdited(l) => lines[l].version < MaxSynced
    /\ lines' = [l \in Lines |->
                    IF l \in LiveRuleLines /\ ~HandEdited(l)
                      THEN [lines[l] EXCEPT !.amount = tax, !.version = @ + 1,
                                            !.synced = lines[l].version + 1]
                      ELSE lines[l]]
    /\ UNCHANGED buried

\* Without a live line it writes a new one, unless a person deleted the last.
RuleInserts(tax) ==
    /\ LiveRuleLines = {}
    /\ IF DeletedByHand
         THEN UNCHANGED lines
         ELSE \E l \in Free : Rewrites(l, RuleRow(tax))
    /\ UNCHANGED buried

SyncTaxAdjustmentLine(tax) ==
    IF tax = 0 THEN RuleArchives ELSE RuleUpdates(tax) \/ RuleInserts(tax)

Pay(tax) ==
    /\ doc.state = "approved"
    /\ ~payment.live
    /\ payment' = [live |-> TRUE, tax |-> tax]
    /\ SyncTaxAdjustmentLine(tax)
    /\ UNCHANGED <<status, current, approval, doc, screen>>

CancelPayment ==
    /\ payment.live
    /\ payment' = NoPayment
    /\ RuleArchives
    /\ UNCHANGED <<status, current, approval, doc, screen>>

-----------------------------------------------------------------------------
Next ==
    \/ Save
    \/ Restore
    \/ CreateRevision
    \/ OpenQuote
    \/ \E part \in Reads : ReadOn(part)
    \/ Approve
    \/ Disapprove
    \/ ChangeStatus
    \/ PickLine
    \/ \E gateOn \in GateSettings : Submit(gateOn)
    \/ Decide
    \/ Close
    \/ \E tax \in Taxes : Pay(tax)
    \/ CancelPayment

Spec == Init /\ [][Next]_vars

-----------------------------------------------------------------------------
(* Properties.                                                             *)

Rows ==
    [rev : 0..MaxRevision, amount : Nat, version : Nat, archived : BOOLEAN,
     from : Lines \cup {NoLine}, sourced : BOOLEAN, synced : Nat, touched : BOOLEAN]

\* Every variable stays within its type.
TypeOK ==
    /\ status \in {"open", "settling", "completed"}
    /\ current \in 1..MaxRevision
    /\ lines \in [Lines -> Rows]
    /\ buried \in Seq(Lines)
    /\ approval \in [1..MaxRevision -> [on : BOOLEAN, total : Nat]]
    /\ doc \in [state : {"draft", "in_review", "approved", "returned", "closed"},
                line : Lines \cup {NoLine}, amount : Nat, rev : 0..MaxRevision,
                gated : BOOLEAN]
    /\ payment \in [live : BOOLEAN, tax : Nat]
    /\ screen.rev \in 0..MaxRevision /\ screen.left \subseteq Reads

\* An expense has one live rule line at most: the partial unique index never
\* has to refuse a payment or a restore (restorableByHuman, quote-lines.ts).
OneLiveLine == \A k, l \in LiveRuleLines : k = l

\* A live rule line that no person has edited belongs to a payment that
\* stands, and every rule line is in the current revision, so that a restore
\* never writes to an earlier one (moveAdjustmentLines, releaseTaxAdjustmentLine).
RuleLineFollowsPayment ==
    /\ RuleLines \subseteq OfRevision(current)
    /\ \A l \in LiveRuleLines : ~lines[l].touched => payment.live

\* Two numbers on the row tell exactly whether a person has edited or deleted
\* a rule line, through every payment, cancellation, move and restore.
VersionsTellHands ==
    \A l \in RuleLines : HandEdited(l) <=> lines[l].touched

\* A line of the rule that nobody has edited carries the tax of the payment
\* that stands: the tax of a cancelled payment does not come back
\* (the comment of restorableByHuman).
NoCancelledTax ==
    \A l \in LiveRuleLines :
        ~lines[l].touched => payment.live /\ lines[l].amount = payment.tax

\* While a customer's approval stands, the total of the revision is the one
\* it was given for: no save, duplicate, deletion or restore moves it.
ApprovedTotalStands ==
    \A r \in 1..current : Approved(r) => Total(r) = approval[r].total

\* As long as a document is in review or approved, the current revision has a
\* live line that continues the line it was written on, at the amount it was
\* submitted for, and the customer's approval it was submitted under is not
\* taken back beneath it (linkedDocumentsByLine, project.line-edit,
\* quote.approval-toggle).
LinkedDocumentStands ==
    doc.state \in {"in_review", "approved"} =>
        /\ \E l \in LiveQuoted(current) :
              doc.line \in Chain(l) /\ lines[l].amount = doc.amount
        /\ doc.gated => Approved(doc.rev)

\* What the customer is recorded to have agreed to is, line by line, what the
\* summary on the PM's page counted, however old the page is: the token and
\* the total pin every amount, although an archived line comes back with its
\* version (setCustomerApproval, CONTENT_TOKEN).
ApprovedWhatWasCounted ==
    [][\A r \in 1..MaxRevision :
         ~approval[r].on /\ approval'[r].on =>
             screen.rev = r /\ Content(screen.basis) = Content(Shown(r))]_vars

\* The lines the PM was shown are those the customer is recorded to have
\* agreed to ("what the PM saw", setCustomerApproval).  Not so: the lines and
\* the summary are read apart.
ApprovedLinesWereShown ==
    [][\A r \in 1..MaxRevision :
         ~approval[r].on /\ approval'[r].on =>
             screen.lines = Content(Shown(r))]_vars

\* The lines of a revision no longer change once there is a later one.
PastRevisionsStand ==
    [][\A l \in Lines : lines[l].rev \in 1..(current - 1) => lines'[l] = lines[l]]_vars

\* Paying and cancelling leave alone what a person has edited, and do not
\* write again what a person has deleted (syncTaxAdjustmentLine).
RuleLeavesHandsAlone ==
    [][payment' # payment =>
         /\ \A l \in RuleLines : lines[l].touched => lines'[l] = lines[l]
         /\ LiveRuleLines = {} /\ buried # <<>> /\ lines[LastBuried].touched
               => lines' = lines]_vars
=============================================================================
