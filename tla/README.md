# Verification of the ERP: approvals, settlement, quotes, cards, evidence, payment, leave and notification

This directory is a TLA+ development of the ERP in this repository: modules that
model its core, TLC configurations that check them on small instances, and
theorems proved with TLAPS for every value of the constants.  Paths below are
relative to `src/`.

1. [The system](#1-the-system)
2. [Inventory](#2-inventory)
3. [How the modules are written](#3-how-the-modules-are-written)
4. [The modules](#4-the-modules)
5. [The runs](#5-the-runs)
6. [Fairness](#6-fairness)
7. [The theorems](#7-the-theorems)
8. [Where the code and its documents disagree](#8-where-the-code-and-its-documents-disagree)
9. [What is not modelled](#9-what-is-not-modelled)
10. [Plan](#10-plan)

## 1. The system

A company's back office: projects with quotes and budgets, documents that need
approval (expenses, settlements, leave, purchase requests, card usages), the
evidence the expenses rest on, their payment, and notifications to the people
whose turn it is.  It is a Next.js application over PostgreSQL, layered
`app/` (screens and routes) -> `domain/` (rules and transactions) ->
`repositories/` (queries) -> `db/` (schema, client).  `docs/ARCHITECTURE.md`
describes the layers, `docs/EXPENSES.md` the life of an expense.

What makes it hard is the same everywhere:

- **Several processes, one database.** Every request is a transaction at READ
  COMMITTED (`lib/db-transaction.ts`): two statements of one transaction may see
  different commits.  Protection is by hand: row locks (`FOR UPDATE`), optimistic
  versions (`UPDATE ... WHERE version = ...`), advisory locks, unique indexes.
- **Reads before the lock.** Screens, organisation snapshots, settings, the
  date, the approval status are often read before the row that protects the
  write is locked, and used after it.
- **Several rows per rule.** A rule such as "no project completes while an
  expense is in review" is about rows that different requests lock in
  different transactions; a global lock order (project, quote lines, document,
  then counters, files and records) keeps them from waiting in a circle, and a
  five-second `lock_timeout` ends what waits too long.
- **Human time.** A clerk confirms evidence on a screen that may be an hour
  old; an approver decides on a route that was fixed when other people were in
  office; a request is sent twice.
- **Two stores.** Files live in a bucket that knows no transaction: an object is
  moved first, its row is committed later, and what fails in between is
  compensated, or not.
- **The tick.** The notification tick is called by a scheduler over HTTP, talks
  to a mail server outside of any transaction and may overlap with itself or die
  anywhere.

## 2. Inventory

State, operations, interactions and the properties that make each part correct.
`PROJECT.json` lists the source files of each component and what is modelled.

| Component | State it keeps | Operations | Talks to | What must hold |
|---|---|---|---|---|
| Approvals (`domain/approvals`) | `approval_instances` (status, round, version), `approval_routes`, `approval_steps` | submit, approve, reject, withdraw, resubmit, insert the fallback step, show the possible actions | organisation and settings (reads), hooks of each kind of document in the same transaction | one person decides once per round; decisions are final; self-approval only where the rule allows it; the fallback seat ends a round; what the screen offers the server accepts |
| Settlements, project status (`domain/settlements`, `domain/projects`) | `projects.status`, period, the settlement's instance | submit, approve with gate and pre-settle check, return, automatic transition at the end date, save of the period | expenses (counts them), approvals (hook) | completed = approved settlement; nothing open under a completed project; nobody settles before the end |
| Expenses (`domain/expenses`) | `expenses` row with version and closing mark | draft, submit, resubmit, close, delete, restore | projects (gate), approvals, numbering, evidence | a closed expense stays over; no submission into a completed project |
| Evidence and reviews (`domain/evidence`, `domain/evidence-reviews`) | `upload_intents`, `files`, objects, `expense_evidence_reviews` | declare, put, complete, remove, void, confirm with a corrected amount, waive, confirm automatically, release | expenses (row lock, version), approvals (version), storage | one file per declared upload, with its object; nobody approves from the waiting list, or confirms from the payment list, what they did not see; a confirmation is about the evidence and amount of now |
| Evidence records and imports (`domain/evidence-records`, `domain/evidence-import`) | records, links, open checks, batches | attach, detach, flag after a cancellation, clear, register a workbook | evidence reviews (hook), cards, quotes | an open check stops an automatic confirmation |
| Payments (`domain/payments`) | `expense_payments`, schedule, tax adjustment line | view, complete, batch, cancel, schedule | expenses (row lock, version), quotes (adjustment line), reviews | one live payment; one look pays once; the amount stands while the payment does |
| Notification tick (`domain/notify`) | `notification_log`, `notify_tick_runs` | evaluate, insert, claim, send, record, give up, clean up | every kind of document (reads), SMTP | one mail a day; whole mails; honest outcomes; every tick ends |
| Notification kinds, rules, inbox | rules | conditions as queries, mark read | tick | each due condition has one row |
| Leave (`domain/leave`) | requests, adjustments | submit, resubmit, adjust | approvals, numbering, holidays | no working day taken twice (the balance is shown, and binds no request) |
| Document numbering (`domain/document-numbering`) | counter rows | take the next number, set the first number of a kind | expenses, leave and other documents | no number twice, whatever the first number is set to meanwhile |
| Card usages, purchase requests (`domain/corp-card-usages`, `domain/purchase-requests`) | usages and requests with versions, each linked to a copy of a quote line or to team costs | register, change, delete, restore, overwrite with a statement; ask, purchase, cancel, take the cancellation back | quotes (cap, lock of the copies), expenses (the other side of a line), records | a line serves the card side or expenses, never both; the card side stays within the execution amount; a purchase has one usage; every link can be judged |
| Quotes (`domain/quotes`) | revisions with the customer's approval, lines with versions | save, duplicate a revision, approve, archive, restore | expenses (linked documents), payments (the line of the rule) | an approved total stands; the amount under a document stands; a past revision stands; the rule's line follows the payment and yields to people |
| Revenue, reserves, issue requests | entries with versions | edit, request, decide | quotes, settlements | versions refuse stale edits |
| People, organisation, permissions, seats | users, roles, teams, divisions, matrix | appoint, retire, move, grant | approvals (candidates) | somebody can always administer |
| Accounts and sessions | users, attempts, sessions | log in, change the password | an external library | - |
| Certificates and personal data | events, submissions, objects | intake, review, purge | storage | purged data is gone |
| Vendors, bank transfer files | vendor rows | edit, render | payments (`FOR SHARE`) | - |
| Settings, code tables, custom fields, holidays | their rows | edit under advisory locks | approvals, tick | - |
| Lists, prints, status, helpers | none | read only | everything | - |
| Database layer, libraries | none | transactions, clients | everything | lock order without cycles |
| Screens, routes, deployment, scripts | none | forwarding | domain | - |

The behaviours that are hard to test, each at its line and with the properties
that would catch it going wrong, are the `hazards` of `PROJECT.json`.  A hazard
without a property says in its note why.

## 3. How the modules are written

**What is one step.**  PostgreSQL publishes a transaction's writes together.
A transaction that takes one row lock, waits for nothing while it holds it and
uses nothing read before it is one action, enabled when the row is free.
Whatever lets another request come between is a boundary between actions: a read
that is used later, a second lock that is waited for, a call to the outside.

**What is kept.**  Guards, early returns, error paths, the order of writes and
everything a handler calls that changes modelled state.  Names, wording, money
beyond the amounts a rule compares, and permission lookups are left out.

**Bounds.**  Constants whose names begin with `Max` cap what the code lets grow.
They stand in the guards, and each is named where it is declared.

**History.**  A few variables or fields exist only for properties: `checked`,
`found`, `cleaned`, `bundles`, `arrived`, `unheard`, `refused`, `late`, and
`covers`, `shown`, `known`, `checks` of a review, `touched` of a quote line,
`amount`, `rev` and `gated` of its document, `charged` of a leave, `outrun` of
`CardLinks`.  No guard reads one.

**Mutants.**  Next to some definitions stands a second one whose comment
begins with "Mutant": the bug a property is there to catch.  No specification
uses it.  `PROJECT.json` says which definition it stands in for and which
property TLC then finds violated.

## 4. The modules

| Module | Role |
|---|---|
| `ApprovalRoute` | pure part: candidates, walking a route, status machine |
| `Approval` | the approval service with concurrent requests |
| `ApprovalLedger` | what it promises: decisions taken one at a time |
| `ApprovalProofs` | theorems about `Approval` |
| `ProjectSettlement` | project status, settlement and expenses with row locks |
| `ProjectSettlementProofs` | theorems about it |
| `ExpensePayment` | one expense, its evidence, its review, its payment, its clerks |
| `ExpensePaymentProofs` | theorems about it |
| `EvidenceUpload` | from the declared upload over the object in the bucket to the row of the file |
| `EvidenceUploadProofs` | theorems about it |
| `QuoteLines` | revisions, lines, the customer's approval, a linked expense, and the line a payment owns |
| `QuoteLinesProofs` | theorems about it |
| `CardLinks` | card usages, purchase requests and expenses on the lines of a quote |
| `CardLinksProofs` | theorems about it |
| `DocumentNumbering` | how a document gets its number; used by modules of documents |
| `LeaveRequests` | requests for leave, composed with `DocumentNumbering` |
| `LeaveRequestsProofs` | theorems about both |
| `NotifyTick` | the notification tick |
| `NotifyTickProofs` | theorems about it |
| `MC...` | instances for TLC, one per specification that is run |

### ApprovalRoute and Approval

`ApprovalRoute` translates `domain/approvals/route.ts`: `ResolveHolders` (who
holds the role of a step in a snapshot of the organisation), `Candidates` (minus
the drafter where the rule says skip, minus those who have acted),
`WalkRoute` (the first step that is neither done, skipped nor empty; else the
fallback seat of the chief executive; else blocked), and the status machine
`Transitions`.  A route is a function from step index to step, because a step
that is switched off leaves its number free.

`Approval` is one document.  `instance` is its row, `routes` its rounds,
`org` and `config` are the organisation and the route settings in force, and `session[s]` is a request.  A request passes
through the points where the code lets others in:

| Action | Code |
|---|---|
| `OpenScreen` | the page is opened: the first query of `readGraph`, with the version the page sends back |
| `ReadOffer` | the routes with the second query, the organisation, and a button of those `possibleActions` offers |
| `ReadBefore` | organisation and, for a (re)submission, settings are read before the transaction |
| `ReadInstance`, `ReadRoutes` | the two statements of `readGraph`, then the verdict of `runTransition` |
| `Submit`, `Approve`, `Reject`, `Withdraw`, `Resubmit` | the conditional UPDATE and all writes after it, one transaction |
| `LoseRace`, `Fail` | the UPDATE finds another version; any refusal or error |
| `BumpInstanceVersion`, `ChangeOrg`, `ChangeConfig` | evidence added or removed meanwhile; the surroundings |

What an approver has seen of the evidence is no part of this module: the page
reads the files and the approval side by side, and `EvidenceUpload` has both.

`ApprovalLedger` has no requests, versions, steps or organisation: a status and
the decisions of each round, taken atomically.  `Approval` refines it under the
mapping `Ledger` (`DecisionsOf` forgets indices and roles), checked by TLC as
the property `KeepsTheLedger`.

### ProjectSettlement

The project's row, the settlement's instance, each expense document as status
plus closing mark, the day in Seoul, and the row locks (`lock`), because here
requests wait for a second row while they hold the first.

| Action | Code |
|---|---|
| `NextDay`, `ApplyAutoSettlement` | the calendar; the SKIP LOCKED transition when a list is read (`auto-transition.ts`) |
| `ChangeProjectStatus` | a manual transition (`status.ts`) |
| `BeginPeriod`, `SavePeriod` | `saveProjectLedger`: row and date are read before the lock |
| `BeginSubmitExpense`, `LockProjectOfExpense`, `LockExpense`, `SubmitExpense` | `submitExpense` in lock order |
| `DecideExpense`, `CloseExpense` | an approval outcome; `closeExpense` |
| `BeginSettlement`, `InsertSettlement`, `CheckSettlement`, `SubmitSettlement` | `submitSettlement`: unlocked project read, insert-or-find, pre-settle check, write |
| `ReturnSettlement` | rejection or withdrawal |
| `ApproveSettlement`, `HookLocksProject`, `HookChecks`, `CompleteProject` | final approval and its hook: lock, gate A8 and check if the row says settling, status change |
| `LockTimeout` | a waiting request is rolled back |

### ExpensePayment

One expense from draft to payment with the evidence it rests on.  `files`,
`links` and `flagged` are the evidence, `review` the confirmation or waiver,
`payments` every payment including cancelled ones, `screen[c]` what clerk `c`
has read, `flagging` a registration of cancelled card sales in progress.

Every transaction here takes the expense row FOR UPDATE and is one step, except
the registration of cancelled sales, which locks the row, reads the approval
status, works on other rows and only then flags the record (`StartFlagging`,
`FlagRecord`; `FlaggingRace` is its retry when the record was attached meanwhile).
The approval of the document does not take the expense row: `FinalApproval` may
fall between the two.

A screen is several reads with no transaction.  The page lists the files, then
reads the row, then amount and stamp (`PageFiles`, `PageRow`, `PageStamp`); the
dialog of the payment list reads the row, then the stamp, then lists the files
(`DialogRow`, `DialogStamp`, `DialogFiles`); a row of the list is one query
(`PickRow`).  `Confirm`, `Waive`, `Pay` and `Cancel` act on a screen of any age,
and leave it open: an answer may be lost and a request sent again.

The amount to pay is a function of the supply amount and the tax kind; the
model compares the supply amount.

### EvidenceUpload

One expense document and its files.  `intent`, `incoming`, `evidence` and `file`
are the declared uploads, the objects under their signed addresses (with
generations), the objects under final keys, and the rows.  `call[c]` is a
completion request; its steps are the places where the code lets others in.

| Action | Code |
|---|---|
| `RequestUpload`, `Put` | `requestEvidenceUpload`; the browser's PUT, any number of times |
| `Notify`, `ReadMetadata`, `ReadHead` | the intent, the object's metadata, its first bytes from the pinned generation |
| `Copy`, `DeleteSource` | the two halves of `move` |
| `LoadBefore`, `Lock`, `ReadOwner` | the document before the transaction, the locks it decides on, the document under them |
| `Attach`, `Compensate` | every check and write of the transaction; the deletion of the object after a failure |
| `Crash` | the server stops anywhere: a rollback, and no compensation |
| `OpenScreen`, `ReadOn` | what an approver looks at: the version and the files, two reads |
| `Submit`, `Approve`, `Return`, `EditType`, `SetPrivate`, `TurnProject`, `Remove`, `VoidFile` | what others do to the document meanwhile |

An approver looks through one of two doors (`Doors`).  The list of the documents
that wait for him (`sheet`) reads the instances first and the details of their
documents afterwards.  The page of the document (`page`) reads both side by side,
so its parts may arrive in either order.  `ShownTo` is what such a reader sees of
the files: private ones are left out for whoever may not see them.

`Attach` may commit without the server hearing of it.  The code then compensates,
and the row is left without its object: `FilesHaveObjects` excepts these files
(`unheard`) and no others.

### QuoteLines

The quote of one project, with one expense on one of its lines.  Every handler
locks the project's row before anything else, so each is one action; what races
is the page (`screen`), whose lines and summary are two reads (`Reads`) after that
of its revision; each may be of any earlier content.

| Action | Code |
|---|---|
| `Save`: `AddLine`, `EditLine`, `ArchiveLine`, `EditRuleLine`, `ArchiveRuleLine` | one row of `writeQuoteLinesInTx` under the gates of `rules/register.ts` |
| `Restore` | `restoreQuoteLine`, for a line of the quote or of the rule |
| `CreateRevision` | `createRevisionFromCurrent`: the quote's lines are copied, the rule's lines moved |
| `OpenQuote`, `ReadOn` | the page of the quote: the current revision, then its lines and its summary, in either order |
| `Approve`, `Disapprove` | `setCustomerApproval` with the summary's total and content token |
| `PickLine`, `Submit`, `Decide`, `Close` | the linked expense |
| `Pay`, `CancelPayment` | payment and cancellation, each with `syncTaxAdjustmentLine` or `releaseTaxAdjustmentLine` as part of its step |
| `ChangeStatus` | the project's status |

`Chain` follows a line back through the revisions (`lineage.ts`), which is how a
document written on an earlier revision holds the current one.  A rule line has
two numbers, `version` and `synced`; they differ exactly when a person has had a
hand in it (`HandEdited`), and everything the rule may do depends on that.

### CardLinks

The lines of one project's quote, the card usages and purchase requests linked to
them, and expenses on the same lines.  A link stays on the copy of a line it was
made on, and both rules about links are judged over all copies, so a constant of
`Lines` is a line *with* all its copies and `<<l, r>>` is its copy in revision `r`.
`session[s]` is a request to the server.  It reads without a lock (a *form*), locks
the project and then the copies, reads again and judges (a *gate*), and writes if
the row still has the version the form saw.

A usage takes its supply amount of the line.  An open request takes its estimate
less the VAT that is in it, which depends on the evidence type of the vendor of
the copy the form names, the code table and the tax rates of the day
(`loadLineRoomBasis`).  All of that is read before the transaction and may change
whenever it likes, so a form may have read any of `Rates`.  Nothing depends on what
it read before its gate, which is where the model chooses the rate and judges every
estimate on the line by it (`Fits`, `TakenBy`, `EstimateSupply`).

| Action | Code |
|---|---|
| `FormRegister`, `FormEdit`, `FormRemove`, `FormRestore` | what the operations of `domain/corp-card-usages` read before their transaction |
| `FormAsk`, `FormBuy`, `FormCancel`, `FormUndo` | the same for `domain/purchase-requests` |
| `FormLeave` | a usage is to go to team costs, or to a new line outside of the quote |
| `FormOverwrite` | the usage a statement matches, and the copies its chain had when it was read |
| `FormMove` | an expense is put on another line |
| `GateRegister`, `GateEdit`, `GateRestore`, `GateAsk`, `GateBuy`, `GateUndo` | project and copies locked, then line, side and cap judged |
| `GateOverwrite` | copies and usage locked, never the project; the chain is read again |
| `Register`, `Edit`, `Restore`, `Ask`, `Buy`, `Undo`, `Overwrite` | the conditional writes of those who passed |
| `Remove`, `Cancel`, `ToTeam`, `ToExtraLine`, `RegisterExtra` | transactions that lock the project and no copy |
| `Draft`, `Submit`, `Decide`, `Close`, `Move` | expenses; `Move` locks nothing and goes by the version |
| `AddLine`, `EditLine`, `DeleteLine`, `RestoreLine`, `NewRevision`, `Complete` | the quote and the project |
| `GiveUp` | any refusal or failure |

### DocumentNumbering and LeaveRequests

`DocumentNumbering` is the part of a document's transaction that gives it a number:
`AskNumber` before it, `Count` (the counter's row is locked), `ReadStart` (the first
number of the kind), `IssueNumber`, `ClashNumber` or `DropNumber` at its end;
`SaveStart` is the setting under its guard and `TurnYear` the calendar.  It has no
specification of its own: `LeaveRequests` conjoins its actions with those of the
documents, leaves numbered by year and expenses numbered by project.

| Action | Code |
|---|---|
| `AskLeave`, `AskAgain` | what `submitLeave` and `resubmitLeave` read before the transaction: the table of holidays, the year |
| `LockAndCheck`, `Refuse` | the drafter's advisory lock, then the overlap with committed requests |
| `Numbering` | `Count`, `ReadStart` within the transaction |
| `CommitLeave`, `CommitAgain`, `CommitExpense`, `Fail` | the end of the transaction |
| `Decide`, `ChangeTable`, `Settings` | approvals, the holidays' administrator, first numbers and the calendar |

### NotifyTick

`log` is the notification log, `runs` the records of ticks, `lock` the advisory
lock, `tick[t]` a request, `handled` the approval steps decided meanwhile.

| Action | Code |
|---|---|
| `Begin`, `FindLocked` | the request and its date; a busy try-lock answers 409 |
| `Evaluate`, `Commit` | the lock transaction: clean-up (may fail), conditions (may fail), at most `BatchMax` rows, the run |
| `SkipMail` | no mail server: waiting rows are written off |
| `StartMail`, `Claim`, `ClaimTimesOut` | top of the mail loop, `claimNextEmailBundle` under the lock |
| `Send`, `Record`, `Finish` | outside of any transaction; the outcome; the end of the run |
| `Die` | a deadline, an error, a stopped process, anywhere |
| `NextDay`, `HandleStep`, `InsertEvent`, `OpenInbox` | the surroundings |

Which notices a tick finds due is one nondeterministic choice: the queries of
each kind are not modelled.  The date of the claim is read before the wait for
the lock, so `OneMailADay` is about the day a mail is stamped with.

## 5. The runs

Each run is exhaustive.  States are distinct states.  The type invariants are proved
for every module that has proofs, so the runs spend their time on other
properties; that past revisions of a quote do not change is proved too, and is
not among the runs' properties.

| Run | Instance | Properties | States |
|---|---|---|---|
| `approval` | two requests; two routes with gaps, one that allows self-approval and one that skips the drafter's own step; a drafter who is chief executive, and an office that changes hands, so that the fallback seat decides; resubmission from a rejection and a withdrawal; one change of evidence meanwhile; version up to 3 | `WinnerReadCurrentRows`, `OneDecisionPerPerson`, `StatusMatchesDecisions`, `SelfApprovalIsSanctioned`, `FallbackEndsTheRound`, `OfferIsWhatIsAccepted`, `KeepsTheLedger` | 88,848 |
| `settlement` | two requests, one expense, three periods (past, perhaps past, open), three days, version up to 3, open expenses not waived | `CompletionFollowsApproval`, `CheckedCompletionIsClean`, `SettledProjectsHaveEnded`, `ClosedExpensesAreOver`, `CompletedProjectsAreFrozen` | 1,276,248 |
| `payment` | two clerks, one file, one record, two amounts, prepaid, version up to 5 | `ReviewFitsTheDocument`, `AutoConfirmationIsUnquestioned`, `OnePaymentPerLook`, `PaidAmountStands`, `DialogShowsWhatItConfirms` | 1,297,365 |
| `upload` | a drafter and another person; two declared uploads, two completion requests, two puts, two types of evidence, one edit (of the type, the type's privacy or the project's status); approval from the list of waiting documents; version up to 3 | `OneFilePerIntent`, `FilesHaveObjects`, `DecidedOnTheFilesSeen`, `AddedAsThingsStand` | 3,272,820 |
| `quotes` | three lines, two revisions, amounts and taxes 0 and 1, with and without the approval gate; versions up to 2, of rule lines up to 3 | `OneLiveLine`, `RuleLineFollowsPayment`, `VersionsTellHands`, `ApprovedTotalStands`, `LinkedDocumentStands`, `ApprovedWhatWasCounted`, `RuleLeavesHandsAlone` | 1,146,924 |
| `cards` | two lines, one of which may come later; two usages, one there at first; one request, one expense, two sessions; amounts 1 and 2 under an execution amount of 3; estimates counted with and without VAT; two revisions, four turns | `OneSideOfALine`, `PurchasesArePaidOnce`, `LinksReachTheQuote`, `RoomIsKept` | 901,351 |
| `leave` | one drafter with two tabs, two requests, two days of which the first may be halved, one change of the holidays; one project; first numbers 1 and 2, two years, two numbers; version up to 3 | `NoDayTakenTwice`, `NumbersAreNew` | 935,658 |
| `notify_tick` | two overlapping ticks, one approver, two notices, batch of one, a holiday and a business day, two runs | `OneMailADay`, `OutcomeIsHonest`, `MailsAreWhole`, `HandledStepsAreNotAnnounced` | 1,183,650 |
| `notify_tick_office` | two ticks, two recipients, notices inserted at any time, one day, two runs, fair | `CountersAddUp`, `TicksEnd` | 333,900 |
| `settlement_a8` | two requests, one expense, two periods | `CompletionIsClean`, violated | - |
| `payment_page` | one clerk, two files, one record | `PageShowsWhatItConfirms`, violated | - |
| `payment_check` | one clerk, one file, one record | `ConfirmationsKnowTheChecks`, violated | - |

What the passing runs show:

- **Approvals.**  `WinnerReadCurrentRows` is the reason the unlocked two-statement
  read is safe: a request that can still win its UPDATE has read the rows as they
  are.
  `OneDecisionPerPerson`, `StatusMatchesDecisions` and the refinement
  `KeepsTheLedger` say the rounds are a truthful record although the organisation
  changes under them.
  `OfferIsWhatIsAccepted` compares two separate functions of the code,
  `possibleActions` and the verdict of `runTransition`, in every state.
- **Settlement.**  The project's lock is where a submission of an expense and a
  final approval meet: `CheckedCompletionIsClean`.  `SettledProjectsHaveEnded`
  holds although the date of a save is read before its lock.
- **Payment.**  A confirmation is written by two paths and released by six;
  `ReviewFitsTheDocument` says it always is about the evidence and the amount
  the document has.  `OnePaymentPerLook` covers a double click, a batch sent
  again and a payment after a cancellation from an old screen.
- **Upload.**  The document is read before and under its locks, the object is
  pinned by its generation, and the intent is completed by a conditional update:
  together they make one file per upload, with the bytes that were checked
  (`OneFilePerIntent`, `FilesHaveObjects`).  A final approval needs neither lock; it
  is caught by the version of the instance, in both directions: a file added in
  review makes the list it is approved from old, because that list reads the
  version before the files (`DecidedOnTheFilesSeen`; of the page see section 8), and an
  upload
  that saw the document in review is refused once it is approved
  (`AddedAsThingsStand`).
- **Quotes.**  Six operations change lines, each with its own rule.  What they
  keep together is that an approved total does not move (`ApprovedTotalStands`), nor the
  amount under a document, however many revisions later (`LinkedDocumentStands`).
  An old page approves only what its summary counted, amount by amount
  (`ApprovedWhatWasCounted`); its lines are another read, see section 8.  The rule's
  line and people's hands respect each other.
- **Cards.**  A deletion gives a line's room back, and a cancellation too; either
  may be taken back after an expense has come to the line.  An expense may be
  moved without a lock onto a line of the card side.  Each asks again when it holds
  the project, so no line ever serves both sides (`OneSideOfALine`), a purchase has
  one usage that cannot leave it (`PurchasesArePaidOnce`), and a line with links
  stays in the current revision (`LinksReachTheQuote`).  `RoomIsKept` is judged at
  the VAT rate the writing request has read, for the code promises no more (section
  8), and at every rate when nobody's judgement is behind a write.  It states the two
  exceptions to the cap: a purchase after completion, which the code
  intends, and an overwriting that a new revision has outrun, which section 8
  describes.
- **Leave and numbers.**  A request is judged by a table of holidays read before
  the lock, yet no working day is charged twice, because each request is charged
  what it was judged with (`NoDayTakenTwice`).  The first number of a kind may be
  set at any moment without a number coming twice (`NumbersAreNew`), except
  across the turn of the year: a request or a save that began in the old year is
  guarded by that year's counter.  The unique index then refuses the document; the
  property names this exception.
- **Ticks.**  No mail twice, no half mails, counters that add up, and no
  outcome on record that did not happen, with deaths between any two steps.

Why these bounds suffice to meet the cases: every property is accompanied by a
mutant, a plausible bug TLC does find within the same bounds. Two requests make
every pairwise race on a row or a version; the theorems cover any number.
Version 3 allows submission and two decisions, or a decision, a
resubmission and its first decision; 3 in `leave` a submission, a rejection and a
resubmission; 5 in `payment`
allows submission, payment, cancellation and a second payment, or a confirmation
or an upload in place of one of them. Three days put a period's end before, at
and after today. Two runs give one tick whose evaluation another must respect,
and a holiday's tick between them. Three lines and two revisions give a line, its
copy and a rule line, or two rule lines, one deleted; two puts give an object
that is exchanged under a request. Four turns in `cards`
give every pair of operations a quarrel needs: delete a usage, draft an expense,
submit it, restore the usage; or register twice with a revision between form and
gate. A rate of 100 percent takes something out of an amount as small as 1 or 2;
with 0 beside it two requests may judge the same estimate differently. The
theorems cover any number and any rates. One expense is enough for the gate, which
only asks whether there is one. A prepaid document may do whatever another may,
and be paid earlier, so `Prepaid = TRUE` covers both. Sessions, ticks, clerks,
files, records, intents, calls, lines, leaves and usages are interchangeable and
declared symmetric, except where liveness is checked.  (The lines of `cards` are
not: one is there first.)

`CHECK_DEADLOCK FALSE` stands where the model really stops: an approved document
in `Approval`, a bounded number of runs and days in `NotifyTick`, and quotes,
links, uploads and leaves that nobody has to make.  The
settlement and payment runs check deadlock: no reachable combination of held
rows leaves everybody waiting.

## 6. Fairness

Only `TicksEnd` needs it.  `FairSpec` of `NotifyTick` has weak fairness of `Work(t)`: the
runtime carries a request on, a database statement returns or times out, and the
mail server answers or runs into its deadline (`email-phase.ts` bounds each
call).  There is no fairness on `Begin` (the scheduler may stop), on the
surroundings, or on `Die`, which may strike at any time.

## 7. The theorems

All theorems are proved from the constant assumptions stated in the modules
alone (`ASSUME` in `ApprovalRoute`, `Approval`, `ProjectSettlement`,
`ExpensePayment`, `EvidenceUpload`, `QuoteLines`, `CardLinks`,
`DocumentNumbering`, `LeaveRequests`, `NotifyTick`): any number of people,
sessions, expenses, periods, clerks, files, records, intents, lines, revisions,
days, projects, ticks and notices, and any bounds.  Each invariant follows from
an inductive invariant of the module, `IInv`: `Init => IInv`,
`IInv /\ [Next]_vars => IInv'`, and `IInv` implies the property.  Three modules
keep a second one on top of it, proved relative to the first (`Told`, `QuoteInv`,
`RoomInv`).  Nothing is assumed to be finite but what is counted or summed: the
notices of `NotifyTick`, the usages and requests of `CardLinks`.

**`ApprovalProofs`.**  `TypeCorrectness`, `WinnersAreCurrent`
(`WinnerReadCurrentRows`), `DecisionsAreUnique` (`OneDecisionPerPerson`),
`DecisionsAreFinal` (`HistoryIsFrozen`).  None of these is inductive: a request is
judged on rows read earlier.  `IInv` adds, for each request (`IsCoherent`), which
of its reads are current *as long as its version is* - every write moves
the version, so a request that can still win knows the present - that its
verdict was given on what it read (`IsRequest`), and, for each round
(`IsSoundRound`), that a step is decided exactly if it names who decided it.
Lemmas about the pure operators (candidates have not acted, a walk ends on an
undecided step, the status machine never goes back to a draft) carry the action
steps.

On top of it, `StoryHolds` keeps three properties together, because each step
needs all of them: `SelfApprovalsAreSanctioned` (`SelfApprovalIsSanctioned`),
`FallbackIsTheEnd` (`FallbackEndsTheRound`) and `StatusIsTruthful`
(`StatusMatchesDecisions`).  A request that wins judged the rows of now
(`WinnersAreCurrent`), so what it writes is what the walk over those rows
allows; the walk reaches the fallback seat only when every step is decided,
skipped or empty.  `OffersAreAccepted` (`OfferIsWhatIsAccepted`) compares the two
computations the code has of the same thing, event by event.
`RefinesTheLedger` (`KeepsTheLedger`) is the refinement of `ApprovalLedger`: a
winning transition maps to one atomic decision, submission, withdrawal or
resubmission of the ledger, everything else - reading, judging, losing, the
organisation - to a stutter.

**`ProjectSettlementProofs`.**  `TypeCorrectness`, `CompletionIsApproval`,
`CheckedCompletionStaysClean`, `SettlingFollowsTheEnd`, `ClosedStaysOver`,
`CompletionIsFinal` (an action property).  `IInv` adds who holds which row in
which phase (`LocksAreHeld`), what a waiting request knows (`RequestsAreComplete`,
`SubmissionsAreDue`, `ApprovalsAreOpen`) and the heart of it, `ChecksStillHold`:
between the checks of a final approval and its commit the project stays
settling and clean, because the approval holds the project's row and every
submission needs it.  The theorem covers both values of `AllowOpen`, TLC's
passing run the stricter one.

**`ExpensePaymentProofs`.**  `TypeCorrectness`, `ReviewsFit`,
`AutoConfirmationsStayUnquestioned`, `PaidAmountsStand`, `LooksPayOnce`,
`DialogsShowWhatTheyConfirm`.  `IInv` adds that waivers and payments belong to
approved documents (`WaiversFollowApproval`, `PaymentsFollowApproval`), that
every payment was asked for from a version older than the current one
(`PaymentsAreOlder`), that a dialog at the current version shows the files of
now (`DialogsAreCurrent`) and that a registration about to flag holds the document
it found (`FlaggingHolds`).  The lemma `StepMovesReview` splits every step into
the five things it can do to a review; the invariants about the review follow
case by case.

**`EvidenceUploadProofs`.**  `TypeCorrect`, `IntentsMakeOneFile`, `FilesKeepObjects`,
`ApprovedOnTheFilesSeen`, `FilesAddedAsThingsStand`.  `IInv` adds that a file's
intent is done and its request at an end (`FilesComplete`, `FilesEndRequests`), that
a pinned generation has the content that was checked (`GenerationsAreChecked`), that
what was copied is that (`CopiesAreChecked`), that what was read under the locks
stands *or the version has moved* (`OwnersAreLocked`: approvers take no lock, but
leave a trace the commit compares), and that an approver's list has an older
version than the instance or all files (`ScreensAreCurrent`), because it took the
version first.  Of the page the invariant says nothing more than that its version is
no newer.

**`LeaveRequestsProofs`, with the lemmas about `DocumentNumbering`.**  `TypeCorrectness`,
`DaysAreTakenOnce`, `NumbersAreNeverRefused`.  Every step of the composition is a step
of numbering or leaves it alone (`StepsAreNumberingSteps`), so the invariant of
numbering is proved once: who has counted holds its row, who has read the first
number has read the one that is set, and all numbers of a guarded period are
below its next (`CountersAreLocked`, `FirstsAreRead`, `NumbersAreBelow`).  The
part of leave adds that one request per drafter is past the lock and that what
it was checked against still stands in nobody's way (`ChecksStand`); decisions
only ever take a request out of the way.

**`QuoteLinesProofs`.**  `RuleLineIsUnique`, `RuleLineIsPaidAndCurrent`,
`HandsShowInVersions`, `PastRevisionsAreFixed`, `RuleRespectsHands`,
`ApprovalIsOfWhatWasCounted`.  `IInv` says of each rule line that it is in the current
revision and that its two numbers tell its history (`RuleRowRight`), of each
row a page has counted that its line is newer or still has that amount
(`ScreenIsOlder`), which is why a token of versions stands for amounts, and of a
page that what it counted is of its revision (`PageIsOfRevision`).

`ApprovedTotalIsKept` (`ApprovedTotalStands`) and `LinkedDocumentIsKept`
(`LinkedDocumentStands`) rest on `QuoteInv`, which adds that a line was copied from
one of an earlier revision the rule never wrote (`SourcesAreOlder`), that only
existing revisions are approved (`ApprovalsStand`) and what a document is
(`DocIsRight`).  Neither needs induction over data: the total is a sum of
`Priced(r)`, one summand per line, and no step changes a summand of an approved
revision, so the sum is of the same function; the chain of copies is the least
set that holds a line and, with each line, the one it was copied from, so a copy's
chain holds what its original's held.

**`NotifyTickProofs`.**  `TypeCorrectness`, `NobodyIsMailedTwice` (`OneMailADay`),
`RowsAreOwned`, `OutcomesAreHonest` (`OutcomeIsHonest`), `RunsAccountForTheirMails`
(`CountersAddUp`), and two action properties, `MailsHoldEverything`
(`MailsAreWhole`) and `DecidedStepsStayQuiet` (`HandledStepsAreNotAnnounced`).
`IInv` says row by row how the log and the mails agree (`MailsAreRows`), that two
ticks never count in the same run (`TicksAreApart`), that the mail a tick has in
hand is one of its own run whose rows still say "sending" (`TickSound`), and that
what the latest evaluation found is in the log, or its recipient is noted as
incomplete (`FoundIsLogged`), which is what a claim asks.  `Grows` is what all
steps outside the mail loop do to the log: rows appear, are read or written off,
and no row of a mail changes.  A run's mails are counted with the cardinality
theorems; that there is an oldest notice, and a latest run, follows from a least
number.

**`CardLinksProofs`.**  `TypeCorrectness`, `SidesStayApart`, `PurchasesStayPaid`,
`LinksStayInTheQuote`.  `IInv` adds that a row with a link has it on a line of the
quote (`RowsOnLines`), what a form knows of the row it is about (`FormsHold`: a
version seen is one the row had, and while the row still has it the row is as it
was), and the heart of it, `GatesHold`: between a gate and its write
the line is in the current revision and has no expense in review or approved,
because the gate holds the project, which every submission, deletion and
revision needs.
The overwriting does not hold the project; it changes an amount and no link,
so the three invariants do not rest on it.

`RoomStaysKept` (`RoomIsKept`) is about a sum over any finite number of rows, at the
rate the writing session has read (others that write take no more at any rate).  The
sum is the library's fold, which takes one row after the other; that it moves
with each summand (`SumMoves`) and grows with all of them (`SumGrows`) follows from a
smallest part for which it would not (`PartByPart`).  What remains is one line at
a time: in every step nobody takes more of the line (`GivesRoom`), or one session
takes what its gate has judged (`Writes`), or the line is made for its usage
(`IsMade`); `StepJudged` goes through the actions.  `RoomInv` carries the judgement
from the gate to the write.  A form's amount stands while its row has the
version it saw (`RoomForm`).  A gated session holds the current copy of its line
(`LineLocked`), so neither an edit, a deletion nor a revision reaches it
(`LockedLinesStay`), and locks are apart (`LocksApart`), so no other session is about
to take of the same line; hence the amount still fits (`RoomJudged`).  The
overwriting does hold the current copy, unless a revision has outrun it: the
exception in the property is where `LineLocked` ends.

**Only model-checked.**  `TicksEnd`, which is liveness and out of this prover's
reach; every other property of a passing run is stated by a theorem.

## 8. Where the code and its documents disagree

Each of the first three is a run TLC refutes, with the lines quoted in `PROJECT.json`.

- **`settlement_a8`.**  `domain/settlements/index.ts:91` says a project with an
  expense in review does not get its final approval.  The approval asks only
  while the locked row says settling (line 546).  A project whose settlement was
  submitted, whose period was then extended (back to in progress) and whose new
  end has passed skips the gate and the check, and the status change settles and
  completes it on the way.  `CheckedCompletionIsClean` is what does hold.
- **`payment_page`.**  The document page lists the files in its first batch of
  reads and takes the version and stamp in its second
  (`app/(app)/expenses/[id]/page.tsx:92,115`).  A file uploaded in between is in
  the stamp but not on the page, so a confirmation covers a file nobody saw.  The
  dialog of the payment list reads in the opposite order and keeps the rule
  (`DialogShowsWhatItConfirms`, proved).
- **`payment_check`.**  Flagging a record on an approved document shall release
  the confirmation *and* move the version (`domain/evidence/index.ts:992`), so
  that no old screen confirms again.  The status is read before the hook, and the
  final approval does not wait for the expense row: if it commits in between, the
  confirmation goes and the version stays.

Six more are of the same kind, found with the models and not among the runs:

- *A cancelled tax comes back.*  The condition for restoring a rule line by hand
  is there so that the tax of a cancelled payment does not come back
  (`repositories/quote-lines.ts:220`).  It asks whether a payment stands, not
  which: paid with one tax, cancelled and paid again with another, a person who
  deletes the second line and restores the first gets a live line that counts as
  untouched and carries the cancelled tax.  `NoCancelledTax` of `QuoteLines` says
  it does not; `tlc -config MCQuoteLinesRestore.cfg MCQuoteLines` finds the trace.
  `RuleLineFollowsPayment` is what holds.
- *An overwriting outrun by a revision.*  Overwriting a usage with a statement reads
  the chain of copies, then locks those it has read.  If a revision commits in
  between, the current copy is not locked and a registration may pass the same cap
  beside it, although `domain/evidence-import/index.ts:307` counts on the lock.
  The lines this happens to are in `outrun`, and `RoomIsKept` excepts them alone.
- *A returned expense on a card line.*  Moving a returned expense asks whether the
  line has other expenses, not whether it has usages
  (`domain/rules/register.ts:398`).  It cannot be submitted there, but its number
  counts: as long as it stays, the usages of the line cannot be changed and its
  purchase requests not be completed (`CardSideOpen`).
- *A file the page did not show.*  The page of a document asks for its files and for
  its approval side by side (`app/(app)/expenses/[id]/page.tsx:90`).  A file added
  between the two leaves the old files beside the new version, and the approval
  passes, although the version is moved so that the approval of whoever opened the
  document before is refused (`repositories/approvals.ts:151`).
  `PageDecidedOnTheFilesSeen` of `EvidenceUpload` says it is;
  `tlc -config MCEvidenceUploadPage.cfg MCEvidenceUpload` finds the trace.
- *Lines the page did not show.*  The page of a project reads the lines of the quote
  and its summary side by side (`app/(app)/projects/[id]/page.tsx:127` and `:151`).  The
  total and the token come from the summary, and are to be what the PM saw
  (`domain/quotes/revisions.ts:177`): a line edited between the two is approved
  with an amount the page did not show.  `ApprovedLinesWereShown` of `QuoteLines`
  says it is not; `tlc -config MCQuoteLinesPage.cfg MCQuoteLines` finds the trace.
- *Room by an old rule.*  What an estimate takes of a line is worked out by a rule
  read before the transaction (`domain/corp-card-usages/link-targets.ts:58`), for one
  request at a time.  If the vendor's evidence type or a rate changes, open requests
  take more than the execution amount without anybody having passed the cap, and a
  request judged by the old rule passes a cap that is to stop every amount a
  person enters (`domain/corp-card-usages/amounts.ts:57`).  `RoomIsKeptAtEveryRate`
  of `CardLinks` says it does not; `tlc -config MCCardLinksRate.cfg MCCardLinks`
  finds the trace.

## 9. What is not modelled

- *Approvals:* wording, DTOs, the settings screen's warnings, hooks of the single
  kinds except that of settlements.
- *Settlement:* archived projects; amounts and fields; the groups "lines
  without a document" and "missing revenue" of the pre-settle check, taken as
  absent; the earlier steps of the settlement's route.
- *Payment:* several documents at once; private files, which are not listed for every
  clerk; the saved payment date; the versions of the instance as an upload in review compares
  them (a refusal is no step); permissions; closing; the evidence date; the
  vendor and pair gates; changes of a record's amount; owners of evidence other
  than expenses.
- *Upload:* files of other owners; the expiry of an intent, which forbids a step
  nobody has to take; the bucket's clean-up of what is left over; permissions
  that change during a request.
- *Quotes:* adjustment lines people write, commission, exchange rates, sort order,
  copies between projects, several documents on one quote; lines that leave the
  quote are lines of amount zero.
- *Cards:* the cards themselves; replays of a request with the same key; rights and
  team-only links; that a settling project takes no deletion and no revision, and the
  customer's approval as a gate, which only refuse; cancelled lines; the units and
  methods of rounding VAT (a won, to the nearest); several
  instalments of one line; the numbers of usages; which statement matches which
  usage.
- *Leave and numbering:* the balance and its adjustments (shown, never a
  condition of a request); requests across fiscal years, which the code refuses;
  quarters of a day; numbers of card usages; how a number looks.
- *Lock order:* each module models the locks of its own component as the moment
  a step may be taken.  Cycles of waits across all handlers are left to the
  database's lock timeout, which every module has as a failure of the request.
  (`ProjectSettlement` alone waits while it holds, and checks deadlock.)
- *Tick:* the conditions of each kind; ties in the order of rows; the inbox
  beyond the read mark.
- Components with status `not_modelled` in `PROJECT.json`, each with its reason:
  read-only views, arithmetic helpers, rendering, scripts, external services, and
  those the plan lists.

PostgreSQL, object storage, SMTP and the session library are external: the
modules contain what the code relies on (atomic commits, row locks, unique
indexes, answers that may be lost).

## 10. Plan

Done, in this order: `ApprovalRoute` and `Approval` with `ApprovalLedger` (every
other document rests on them), `NotifyTick`, `ProjectSettlement`,
`ExpensePayment`, and their proofs; then `QuoteLines` (the adjustment
line and what it shares the quote with), `EvidenceUpload`, `DocumentNumbering`,
`LeaveRequests` and `CardLinks`, with their proofs.

What could come next, the most important first:

1. Abstract specifications beside `ApprovalLedger`, for a payment and for the
   links of a line, with their refinement and its proof.
2. What is left of the cards: which statement matches which usage
   (`domain/evidence-import`), and the pool of evidence that waits for its expense.
3. `CertPurge`: the purge of personal data against review and intake, over a
   bucket as in `EvidenceUpload`.
4. `SeatHolders`: the last administrator under its advisory lock.
5. `LockOrder`: the lock sequences of the handlers as data, and that sequences
   which respect one order cannot wait in a circle.
