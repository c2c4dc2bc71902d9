--------------------------- MODULE ExpensePayment ---------------------------
(***************************************************************************)
(* One expense from its draft to its payment, with the evidence it rests   *)
(* on.  The drafter and the registrars add files and attach evidence       *)
(* records; the payment clerks read a screen, confirm or waive the         *)
(* evidence, pay, and cancel a payment.  A clerk acts on what a screen     *)
(* showed some time ago: the document version and the stamp of the files   *)
(* that travel with the request are all that protects the row.             *)
(*                                                                         *)
(* Every transaction here takes the expense row FOR UPDATE and is one step *)
(* once it holds it, with one exception: registering a file of cancelled   *)
(* card sales locks the row, then works on other rows before it flags the  *)
(* record, and the approval of the document does not take that row.        *)
(* A screen is several reads with no transaction.                          *)
(***************************************************************************)
EXTENDS Integers, Sequences, FiniteSets, FiniteSetsExt

CONSTANTS
    Clerks,        \* sessions of people who may process payments
    Files,         \* files that may be uploaded, each at most once
    Records,       \* evidence records that may be attached
    Supplies,      \* supply amounts the document may carry
    RecordSupply,  \* the supply amount of each record
    Prepaid,       \* the document is prepaid: payable before its evidence
    MaxVersion     \* bound on the document version

ASSUME EvidenceKindsAreDistinct == Files \cap Records = {}
ASSUME SuppliesAreAmounts == Supplies \subseteq Nat
ASSUME RecordSupplyIsAmount == RecordSupply \in [Records -> Nat]
ASSUME PrepaidIsFlag == Prepaid \in BOOLEAN
ASSUME MaxVersionIsPositive == MaxVersion \in Nat \ {0}

VARIABLES
    status,    \* "editing" (draft, rejected, withdrawn), "in_review", "approved"
    version,   \* the version of the expense row
    supply,    \* its supply amount
    files,     \* files[f]: "new", "alive" or "gone" (removed or voided)
    links,     \* the records attached to the document now
    flagged,   \* the records with an open check ("needs check")
    review,    \* the evidence review of the document
    payments,  \* its payments, the cancelled ones included
    screen,    \* screen[c]: what the clerk c has read
    flagging   \* the registration that is about to flag a record

vars == <<status, version, supply, files, links, flagged, review, payments,
          screen, flagging>>

-----------------------------------------------------------------------------
(* The evidence and its review.                                            *)

Alive == {f \in Files : files[f] = "alive"}

Evidence == Alive \cup links

\* Records of the document that somebody still has to check.
OpenChecks == links \cap flagged

\* Of a review, `kind' and `amount' are columns.  The rest is history the
\* properties are about: who wrote it, what it covered, which files and
\* which open checks its writer had been shown, and which stood.
ReviewOf(kind, by, amount, shown, known) ==
    [kind |-> kind, by |-> by, amount |-> amount, covers |-> Evidence,
     shown |-> shown, known |-> known, checks |-> OpenChecks]

NoReview ==
    [kind |-> "none", by |-> "nobody", amount |-> 0, covers |-> {},
     shown |-> {}, known |-> {}, checks |-> {}]

Confirmed == review.kind = "confirmed"

Waived == review.kind = "waived"

\* A document whose evidence nobody has confirmed or waived.
Unconfirmed == Evidence # {} /\ ~Waived /\ ~Confirmed

\* May the evidence of the document carry a payment?
EvidenceGate ==
    /\ ~Unconfirmed
    /\ Evidence # {} \/ Prepaid \/ Waived

\* Does what is attached confirm itself?  Records only, none of them open,
\* that add up to the supply amount.
AutoConfirmEligible(attached, openChecks) ==
    /\ attached # {}
    /\ Alive = {}
    /\ openChecks = {}
    /\ MapThenSumSet(LAMBDA r : RecordSupply[r], attached) = supply

-----------------------------------------------------------------------------
(* Payments and screens.                                                   *)

Paid == \E i \in DOMAIN payments : payments[i].live

Nothing ==
    [kind |-> "none", at |-> "none", version |-> 0, supply |-> 0,
     stamp |-> {}, shown |-> {}, known |-> {}]

Ready(c, kinds) == screen[c].kind \in kinds /\ screen[c].at = "ready"

\* The request of a screen passes the version compare under the row lock.
Current(c) == screen[c].version = version

\* No other transaction holds the expense row.
RowFree == ~flagging.locked

NotFlagging == [rec |-> "none", locked |-> FALSE, status |-> "editing"]

Bump(n) ==
    /\ version + n =< MaxVersion
    /\ version' = version + n

-----------------------------------------------------------------------------
Init ==
    /\ status = "editing"
    /\ version = 1
    /\ supply \in Supplies
    /\ files = [f \in Files |-> "new"]
    /\ links = {}
    /\ flagged = {}
    /\ review = NoReview
    /\ payments = <<>>
    /\ screen = [c \in Clerks |-> Nothing]
    /\ flagging = NotFlagging

-----------------------------------------------------------------------------
(* The life of the document.                                               *)

SaveDraft ==
    /\ status = "editing"
    /\ RowFree
    /\ supply' \in Supplies \ {supply}
    /\ Bump(1)
    /\ UNCHANGED <<status, files, links, flagged, review, payments, screen, flagging>>

\* A document that comes up again loses the automatic confirmation of its
\* last round, the only kind an editable document can have.
Submit ==
    /\ status = "editing"
    /\ RowFree
    /\ status' = "in_review"
    /\ review' = IF Confirmed THEN NoReview ELSE review
    /\ Bump(1)
    /\ UNCHANGED <<supply, files, links, flagged, payments, screen, flagging>>

\* Approvals work on the instance and never touch the expense row.
FinalApproval ==
    /\ status = "in_review"
    /\ status' = "approved"
    /\ UNCHANGED <<version, supply, files, links, flagged, review, payments,
                   screen, flagging>>

RejectOrWithdraw ==
    /\ status = "in_review"
    /\ status' = "editing"
    /\ UNCHANGED <<version, supply, files, links, flagged, review, payments,
                   screen, flagging>>

-----------------------------------------------------------------------------
(* The evidence changes.                                                   *)

\* Mutant: only an approved document loses its review.
ReviewAfterChangeInApproved(st) == IF st = "approved" THEN NoReview ELSE review

\* The hook of every change: what becomes of the review, and how far the
\* version moves.  st is the approval status the transaction read.
ReviewAfterChange(st) == IF st = "editing" THEN review ELSE NoReview

\* Mutant: the version stays.
NoBumpAfterChange(st) == 0

BumpAfterChange(st) == IF st = "approved" THEN 1 ELSE 0

Upload(f) ==
    /\ RowFree
    /\ files[f] = "new"
    /\ files' = [files EXCEPT ![f] = "alive"]
    /\ review' = ReviewAfterChange(status)
    /\ Bump(BumpAfterChange(status))
    /\ UNCHANGED <<status, supply, links, flagged, payments, screen, flagging>>

\* An editable document loses files and records without a trace in its row;
\* in an approved one they are voided, and the hook runs.
DropFile(f) ==
    /\ RowFree
    /\ status # "in_review"
    /\ files[f] = "alive"
    /\ files' = [files EXCEPT ![f] = "gone"]
    /\ review' = ReviewAfterChange(status)
    /\ Bump(BumpAfterChange(status))
    /\ UNCHANGED <<status, supply, links, flagged, payments, screen, flagging>>

Detach(r) ==
    /\ RowFree
    /\ status # "in_review"
    /\ r \in links
    /\ links' = links \ {r}
    /\ review' = ReviewAfterChange(status)
    /\ Bump(BumpAfterChange(status))
    /\ UNCHANGED <<status, supply, files, flagged, payments, screen, flagging>>

\* The review the attaching transaction leaves when it confirms by itself.
AutoReview(attached) ==
    [NoReview EXCEPT !.kind = "confirmed", !.by = "auto", !.amount = supply,
                     !.covers = Alive \cup attached, !.shown = Alive]

\* The hook first, then the automatic confirmation, which only somebody who
\* may process payments can store and which moves the version of an approved
\* document a second time.
Attach(r, canConfirm) ==
    LET attached == links \cup {r}
        stores == /\ canConfirm
                  /\ status # "editing"
                  /\ ~Paid
                  /\ AutoConfirmEligible(attached, attached \cap flagged)
    IN  /\ RowFree
        /\ r \notin links
        /\ r \notin flagged
        /\ links' = attached
        /\ review' = IF stores THEN AutoReview(attached)
                               ELSE ReviewAfterChange(status)
        /\ Bump(BumpAfterChange(status) * (IF stores THEN 2 ELSE 1))
        /\ UNCHANGED <<status, supply, files, flagged, payments, screen, flagging>>

-----------------------------------------------------------------------------
(* The open checks of the records.                                         *)

\* The registration of a cancelled sale finds the record, locks the document
\* it is attached to, if any, and reads the approval status.
StartFlagging(r) ==
    /\ flagging = NotFlagging
    /\ r \notin flagged
    /\ flagging' = [rec |-> r, locked |-> r \in links, status |-> status]
    /\ UNCHANGED <<status, version, supply, files, links, flagged, review,
                   payments, screen>>

\* It works on cards and quotes, then flags the record and, on an unpaid
\* document, runs the hook with the status it read.
FlagRecord ==
    LET r == flagging.rec
        runsHook == flagging.locked /\ ~Paid
    IN  /\ flagging # NotFlagging
        /\ r \in links => flagging.locked
        /\ flagged' = flagged \cup {r}
        /\ review' = IF runsHook THEN ReviewAfterChange(flagging.status) ELSE review
        /\ Bump(IF runsHook THEN BumpAfterChange(flagging.status) ELSE 0)
        /\ flagging' = NotFlagging
        /\ UNCHANGED <<status, supply, files, links, payments, screen>>

\* Attached since it looked: the document is not locked, so everything is
\* rolled back and the registration starts over.
FlaggingRace ==
    /\ flagging # NotFlagging
    /\ flagging.rec \in links /\ ~flagging.locked
    /\ flagging' = NotFlagging
    /\ UNCHANGED <<status, version, supply, files, links, flagged, review,
                   payments, screen>>

ClearCheck(r) ==
    /\ r \in flagged
    /\ r \in links => RowFree
    /\ flagged' = flagged \ {r}
    /\ UNCHANGED <<status, version, supply, files, links, review, payments,
                   screen, flagging>>

-----------------------------------------------------------------------------
(* A clerk reads.  Three screens lead to a request: the document page, the *)
(* confirmation dialog of the payment list, and a row of the list itself.  *)

Show(c, fields) == screen' = [screen EXCEPT ![c] = fields]

Reading(c, kind, at) == screen[c].kind = kind /\ screen[c].at = at

DatabaseUnchanged ==
    UNCHANGED <<status, version, supply, files, links, flagged, review,
                payments, flagging>>

Leave(c) ==
    /\ screen[c] # Nothing
    /\ Show(c, Nothing)
    /\ DatabaseUnchanged

\* The page lists the files first, whatever the state of the document ...
PageFiles(c) ==
    /\ screen[c] = Nothing
    /\ Show(c, [Nothing EXCEPT !.kind = "page", !.at = "files", !.shown = Alive])
    /\ DatabaseUnchanged

\* ... then builds the payment view of an approved one: the row ...
PageRow(c) ==
    /\ Reading(c, "page", "files")
    /\ status = "approved"
    /\ Show(c, [screen[c] EXCEPT !.at = "row", !.version = version,
                                 !.known = OpenChecks])
    /\ DatabaseUnchanged

\* ... and after it the amount to pay and the stamp of the files.
PageStamp(c) ==
    /\ Reading(c, "page", "row")
    /\ Show(c, [screen[c] EXCEPT !.at = "ready", !.supply = supply, !.stamp = Alive])
    /\ DatabaseUnchanged

\* The dialog reads the row first ...
DialogRow(c) ==
    /\ screen[c] = Nothing
    /\ status = "approved"
    /\ Show(c, [Nothing EXCEPT !.kind = "dialog", !.at = "row", !.version = version,
                               !.supply = supply, !.known = OpenChecks])
    /\ DatabaseUnchanged

\* ... then the payment view, which must want a confirmation ...
DialogStamp(c) ==
    /\ Reading(c, "dialog", "row")
    /\ Unconfirmed
    /\ Show(c, [screen[c] EXCEPT !.at = "stamp", !.stamp = Alive])
    /\ DatabaseUnchanged

\* ... and lists the files last.
DialogFiles(c) ==
    /\ Reading(c, "dialog", "stamp")
    /\ Show(c, [screen[c] EXCEPT !.at = "ready", !.shown = Alive])
    /\ DatabaseUnchanged

\* A row of the payment list, picked for a batch.
PickRow(c) ==
    /\ screen[c] = Nothing
    /\ status = "approved"
    /\ Show(c, [Nothing EXCEPT !.kind = "row", !.at = "ready", !.version = version,
                               !.supply = supply])
    /\ DatabaseUnchanged

-----------------------------------------------------------------------------
(* A clerk acts.  The screen stays: an answer may be lost, a button pressed *)
(* twice, a batch sent again.                                              *)

\* Mutant: a paid document may be corrected.
CorrectionAnyTime(c, amount) == amount # supply => screen[c].kind = "page"

\* Only the page offers to correct the supply amount, and not once it is paid.
CorrectionAllowed(c, amount) ==
    amount # supply => screen[c].kind = "page" /\ ~Paid

Confirm(c, amount) ==
    /\ Ready(c, {"page", "dialog"})
    /\ RowFree /\ Current(c)
    /\ screen[c].stamp = Alive
    /\ status = "approved"
    /\ Evidence # {}
    /\ CorrectionAllowed(c, amount)
    /\ supply' = amount
    /\ review' = ReviewOf("confirmed", screen[c].kind, amount, screen[c].shown,
                          screen[c].known)
    /\ Bump(1)
    /\ UNCHANGED <<status, files, links, flagged, payments, screen, flagging>>

Waive(c) ==
    /\ Ready(c, {"page"})
    /\ RowFree /\ Current(c)
    /\ status = "approved"
    /\ Evidence = {}
    /\ ~Waived
    /\ review' = ReviewOf("waived", "page", 0, screen[c].shown, screen[c].known)
    /\ Bump(1)
    /\ UNCHANGED <<status, supply, files, links, flagged, payments, screen, flagging>>

\* Mutant: the payment does not compare the version.
PaymentAllowedUnversioned(c) ==
    ~Paid /\ status = "approved" /\ EvidenceGate /\ screen[c].supply = supply

\* What the payment judges on the locked row: no payment stands, the version
\* and the amount are those of the screen, approved, evidence in order.
PaymentAllowed(c) ==
    /\ ~Paid
    /\ Current(c)
    /\ status = "approved"
    /\ EvidenceGate
    /\ screen[c].supply = supply

\* `seen' is the version the request carried.
Pay(c) ==
    /\ Ready(c, {"page", "row"})
    /\ RowFree
    /\ PaymentAllowed(c)
    /\ payments' = Append(payments,
                          [seen |-> screen[c].version, gross |-> supply, live |-> TRUE])
    /\ Bump(1)
    /\ UNCHANGED <<status, supply, files, links, flagged, review, screen, flagging>>

\* Mutant: a cancelled payment leaves the review alone.
ReviewKeptAfterCancel == review

\* Records flagged while the document was paid take the confirmation with
\* them when the payment goes.
ReviewAfterCancel == IF OpenChecks # {} THEN NoReview ELSE review

\* The payment row stays, marked as cancelled.
Cancel(c) ==
    /\ Ready(c, {"page"})
    /\ RowFree /\ Current(c) /\ Paid
    /\ payments' = [i \in DOMAIN payments |-> [payments[i] EXCEPT !.live = FALSE]]
    /\ review' = ReviewAfterCancel
    /\ Bump(1)
    /\ UNCHANGED <<status, supply, files, links, flagged, screen, flagging>>

-----------------------------------------------------------------------------
Document == SaveDraft \/ Submit \/ FinalApproval \/ RejectOrWithdraw

EvidenceChange ==
    \/ \E f \in Files : Upload(f) \/ DropFile(f)
    \/ \E r \in Records : Detach(r) \/ ClearCheck(r) \/ StartFlagging(r)
    \/ \E r \in Records, canConfirm \in BOOLEAN : Attach(r, canConfirm)
    \/ FlagRecord
    \/ FlaggingRace

ClerkReads(c) ==
    \/ Leave(c)
    \/ PageFiles(c) \/ PageRow(c) \/ PageStamp(c)
    \/ DialogRow(c) \/ DialogStamp(c) \/ DialogFiles(c)
    \/ PickRow(c)

ClerkActs(c) ==
    \/ \E amount \in Supplies : Confirm(c, amount)
    \/ Waive(c)
    \/ Pay(c)
    \/ Cancel(c)

Next ==
    \/ Document
    \/ EvidenceChange
    \/ \E c \in Clerks : ClerkReads(c) \/ ClerkActs(c)

Spec == Init /\ [][Next]_vars

-----------------------------------------------------------------------------
(* Properties.                                                             *)

ReviewType ==
    [kind : {"none", "confirmed", "waived"},
     by : {"nobody", "auto", "page", "dialog"},
     amount : Nat, covers : SUBSET (Files \cup Records), shown : SUBSET Files,
     known : SUBSET Records, checks : SUBSET Records]

ScreenType ==
    [kind : {"none", "page", "dialog", "row"},
     at : {"none", "files", "row", "stamp", "ready"},
     version : Nat, supply : Nat, stamp : SUBSET Files, shown : SUBSET Files,
     known : SUBSET Records]

\* Every variable keeps its type; the version is a positive number.
TypeOK ==
    /\ status \in {"editing", "in_review", "approved"}
    /\ version \in 1 .. MaxVersion
    /\ supply \in Supplies
    /\ files \in [Files -> {"new", "alive", "gone"}]
    /\ links \in SUBSET Records
    /\ flagged \in SUBSET Records
    /\ review \in ReviewType
    /\ payments \in Seq([seen : Nat, gross : Nat, live : BOOLEAN])
    /\ screen \in [Clerks -> ScreenType]
    /\ flagging \in [rec : Records \cup {"none"}, locked : BOOLEAN,
                     status : {"editing", "in_review", "approved"}]

\* Outside an editable document a confirmation covers exactly the evidence
\* attached now and the supply amount it carries now, and a waiver stands
\* only where there is no evidence: every path that changes either releases
\* or refuses, before and after the payment (expenseApprovedEvidenceChange,
\* autoConfirmOnAttach, the correction lock of confirmEvidence).
ReviewFitsTheDocument ==
    status # "editing" =>
        /\ Confirmed => review.covers = Evidence /\ review.amount = supply
        /\ Waived => Evidence = {}

\* An automatic confirmation nobody looked at never carries a document with
\* an open check to its payment, however the flag, the attachment, the
\* approval and a cancelled payment interleave (flagCanceledOriginals,
\* autoConfirmOnAttach, cancelExpensePayment).
AutoConfirmationIsUnquestioned ==
    status # "editing" /\ ~Paid /\ Confirmed /\ review.by = "auto" => OpenChecks = {}

\* One look at the document pays at most once: two payments, one of them
\* cancelled since, were asked for from different versions, whatever is sent
\* again and by whom (completeExpensePayment, the snapshot of the batch).
OnePaymentPerLook ==
    \A i, j \in DOMAIN payments :
        payments[i].seen = payments[j].seen => i = j

\* While a payment stands the document keeps the supply amount the payment
\* was made for (supplyCorrectionKind refuses under the row lock).
PaidAmountStands ==
    \A i \in DOMAIN payments : payments[i].live => payments[i].gross = supply

\* A confirmation covers the files its screen showed.
ShowsWhatItConfirms(kind) ==
    review.by = kind /\ Confirmed => review.shown = review.covers \cap Files

\* The dialog of the payment list never confirms a file it did not show
\* (evidence-confirm-dialog.tsx, getEvidenceConfirmView).
DialogShowsWhatItConfirms == ShowsWhatItConfirms("dialog")

\* The document page never confirms a file it did not show
\* (payment-action-row.tsx: the stamp is that of the evidence the screen saw).
PageShowsWhatItConfirms == ShowsWhatItConfirms("page")

\* A person who confirms has read the document at a version that already
\* knew of every open check (flagging an unpaid approved document moves its
\* version: releaseConfirmationOnRecordFlag).
ConfirmationsKnowTheChecks ==
    Confirmed /\ review.by \in {"page", "dialog"} => review.checks \subseteq review.known
=============================================================================
