------------------------ MODULE ExpensePaymentProofs ------------------------
(***************************************************************************)
(* Theorems about ExpensePayment, for every number of clerks, files and    *)
(* records, for all amounts and versions, prepaid or not.                  *)
(***************************************************************************)
EXTENDS ExpensePayment, SequenceTheorems, TLAPS

\* A waiver is given to an approved document only, and approval is final.
WaiversFollowApproval == Waived => status = "approved"

\* So is a payment.
PaymentsFollowApproval == Paid => status = "approved"

\* A registration under way names a record, and while it holds the document
\* nobody submits it.
FlaggingHolds ==
    /\ flagging = NotFlagging \/ flagging.rec \in Records
    /\ flagging.locked /\ flagging.status = "editing" => status = "editing"

\* A payment moved the version it was asked for from.
PaymentsAreOlder == \A i \in DOMAIN payments : payments[i].seen < version

\* What a dialog shows is of the version it sends back, or of an older one.
DialogsAreCurrent ==
    \A c \in Clerks : screen[c].kind = "dialog" =>
        /\ status = "approved"
        /\ screen[c].version <= version
        /\ screen[c].at = "ready" /\ screen[c].version = version =>
              screen[c].shown = Alive

IInv ==
    /\ TypeOK
    /\ ReviewFitsTheDocument
    /\ AutoConfirmationIsUnquestioned
    /\ PaidAmountStands
    /\ OnePaymentPerLook
    /\ DialogShowsWhatItConfirms
    /\ WaiversFollowApproval
    /\ PaymentsFollowApproval
    /\ FlaggingHolds
    /\ PaymentsAreOlder
    /\ DialogsAreCurrent

-----------------------------------------------------------------------------
(* Facts about the parts of a state. *)

LEMMA EvidenceHasType ==
    ASSUME TypeOK
    PROVE  /\ Alive \subseteq Files
           /\ Evidence \subseteq Files \cup Records
           /\ OpenChecks \subseteq Records
           /\ Evidence \cap Files = Alive
           /\ supply \in Nat
BY EvidenceKindsAreDistinct, SuppliesAreAmounts DEF TypeOK, Alive, Evidence, OpenChecks

\* A version that moves stays in its bounds and never falls.
LEMMA BumpMovesUp ==
    ASSUME TypeOK, NEW n \in Nat, Bump(n)
    PROVE  /\ version' \in 1 .. MaxVersion
           /\ version' >= version
           /\ n > 0 => version' > version
BY MaxVersionIsPositive DEF TypeOK, Bump

LEMMA ChangeBumps ==
    ASSUME NEW st
    PROVE  /\ BumpAfterChange(st) \in {0, 1}
           /\ BumpAfterChange(st) \in Nat
           /\ st = "approved" => BumpAfterChange(st) = 1
BY DEF BumpAfterChange

LEMMA ReviewsHaveType ==
    ASSUME TypeOK
    PROVE  /\ NoReview \in ReviewType
           /\ \A st : ReviewAfterChange(st) \in ReviewType
           /\ \A attached \in SUBSET Records : AutoReview(attached) \in ReviewType
           /\ \A kind \in {"confirmed", "waived"}, by \in {"page", "dialog"}, amount \in Nat,
                 shown \in SUBSET Files, known \in SUBSET Records :
                    ReviewOf(kind, by, amount, shown, known) \in ReviewType
<1>1. NoReview \in ReviewType
  BY DEF NoReview, ReviewType
<1>2. \A st : ReviewAfterChange(st) \in ReviewType
  BY <1>1 DEF ReviewAfterChange, TypeOK
<1>3. ASSUME NEW attached \in SUBSET Records
      PROVE  AutoReview(attached) \in ReviewType
  BY EvidenceHasType DEF AutoReview, NoReview, ReviewType
<1>4. ASSUME NEW kind \in {"confirmed", "waived"}, NEW by \in {"page", "dialog"}, NEW amount \in Nat,
             NEW shown \in SUBSET Files, NEW known \in SUBSET Records
      PROVE  ReviewOf(kind, by, amount, shown, known) \in ReviewType
  BY EvidenceHasType DEF ReviewOf, ReviewType
<1> QED BY <1>1, <1>2, <1>3, <1>4

\* What confirms itself has no file and no open check.
LEMMA EligibleIsUnquestioned ==
    ASSUME NEW attached, NEW openChecks, AutoConfirmEligible(attached, openChecks)
    PROVE  Alive = {} /\ openChecks = {}
BY DEF AutoConfirmEligible

\* An attachment moves the version of an approved document, once or twice.
LEMMA AttachBumps ==
    ASSUME TypeOK, NEW r \in Records, NEW canConfirm \in BOOLEAN, Attach(r, canConfirm)
    PROVE  \E n \in Nat : Bump(n) /\ (status = "approved" => n > 0)
<1>1. \E k \in {1, 2} : Bump(BumpAfterChange(status) * k)
  BY DEF Attach
<1>2. PICK k \in {1, 2} : Bump(BumpAfterChange(status) * k)
  BY <1>1
<1>3. BumpAfterChange(status) * k \in Nat
  BY ChangeBumps
<1>4. status = "approved" => BumpAfterChange(status) * k > 0
  BY ChangeBumps
<1> QED BY <1>2, <1>3, <1>4

\* The review an attachment leaves.
LEMMA AttachReviews ==
    ASSUME NEW r \in Records, NEW canConfirm \in BOOLEAN, Attach(r, canConfirm)
    PROVE  \/ review' = ReviewAfterChange(status)
           \/ /\ review' = AutoReview(links \cup {r})
              /\ Alive = {}
              /\ (links \cup {r}) \cap flagged = {}
              /\ status # "editing"
<1> DEFINE stores == /\ canConfirm
                     /\ status # "editing"
                     /\ ~Paid
                     /\ AutoConfirmEligible(links \cup {r}, (links \cup {r}) \cap flagged)
<1>1. review' = IF stores THEN AutoReview(links \cup {r}) ELSE ReviewAfterChange(status)
  BY DEF Attach
<1>2. stores => Alive = {} /\ (links \cup {r}) \cap flagged = {}
  BY EligibleIsUnquestioned
<1> QED BY <1>1, <1>2

\* A payment list keeps its type when it grows and when it is cancelled.
LEMMA PaymentsHaveType ==
    ASSUME TypeOK
    PROVE  /\ \A p \in [seen : Nat, gross : Nat, live : BOOLEAN] :
                 Append(payments, p) \in Seq([seen : Nat, gross : Nat, live : BOOLEAN])
           /\ [i \in DOMAIN payments |-> [payments[i] EXCEPT !.live = FALSE]]
                 \in Seq([seen : Nat, gross : Nat, live : BOOLEAN])
<1> DEFINE P == [seen : Nat, gross : Nat, live : BOOLEAN]
           cancelled == [i \in DOMAIN payments |-> [payments[i] EXCEPT !.live = FALSE]]
<1>1. payments \in Seq(P)
  BY DEF TypeOK
<1> HIDE DEF P
<1>2. \A p \in P : Append(payments, p) \in Seq(P)
  BY <1>1
<1>3. Len(payments) \in Nat /\ DOMAIN payments = 1 .. Len(payments)
  BY <1>1
<1>4. \A i \in 1 .. Len(payments) : payments[i] \in P
  BY <1>1, ElementOfSeq
<1>5. \A i \in 1 .. Len(payments) : [payments[i] EXCEPT !.live = FALSE] \in P
  BY <1>4 DEF P
<1>6. cancelled \in [1 .. Len(payments) -> P]
  BY <1>3, <1>5
<1>7. cancelled \in Seq(P)
  BY <1>3, <1>6
<1> QED BY <1>2, <1>7 DEF P

\* A read leaves the database alone and one screen with a type.
LEMMA ReadsChangeOneScreen ==
    ASSUME TypeOK, NEW c \in Clerks, ClerkReads(c)
    PROVE  /\ DatabaseUnchanged
           /\ screen' \in [Clerks -> ScreenType]
           /\ \A d \in Clerks : d # c => screen'[d] = screen[d]
<1> DEFINE shows == \E fields \in ScreenType : Show(c, fields) /\ DatabaseUnchanged
<1>1. /\ Nothing \in ScreenType
      /\ screen[c] \in ScreenType
      /\ version \in Nat /\ supply \in Nat
      /\ Alive \in SUBSET Files /\ OpenChecks \in SUBSET Records
  BY EvidenceHasType DEF TypeOK, Nothing, ScreenType
<1>2. ASSUME Leave(c)
      PROVE  shows
  BY <1>1, <1>2 DEF Leave
<1>3. ASSUME PageFiles(c)
      PROVE  shows
  <2>1. [Nothing EXCEPT !.kind = "page", !.at = "files", !.shown = Alive] \in ScreenType
    BY <1>1 DEF ScreenType
  <2> QED BY <1>3, <2>1 DEF PageFiles
<1>4. ASSUME PageRow(c)
      PROVE  shows
  <2>1. [screen[c] EXCEPT !.at = "row", !.version = version, !.known = OpenChecks] \in ScreenType
    BY <1>1 DEF ScreenType
  <2> QED BY <1>4, <2>1 DEF PageRow
<1>5. ASSUME PageStamp(c)
      PROVE  shows
  <2>1. [screen[c] EXCEPT !.at = "ready", !.supply = supply, !.stamp = Alive] \in ScreenType
    BY <1>1 DEF ScreenType
  <2> QED BY <1>5, <2>1 DEF PageStamp
<1>6. ASSUME DialogRow(c)
      PROVE  shows
  <2>1. [Nothing EXCEPT !.kind = "dialog", !.at = "row", !.version = version,
                 !.supply = supply, !.known = OpenChecks] \in ScreenType
    BY <1>1 DEF ScreenType
  <2> QED BY <1>6, <2>1 DEF DialogRow
<1>7. ASSUME DialogStamp(c)
      PROVE  shows
  <2>1. [screen[c] EXCEPT !.at = "stamp", !.stamp = Alive] \in ScreenType
    BY <1>1 DEF ScreenType
  <2> QED BY <1>7, <2>1 DEF DialogStamp
<1>8. ASSUME DialogFiles(c)
      PROVE  shows
  <2>1. [screen[c] EXCEPT !.at = "ready", !.shown = Alive] \in ScreenType
    BY <1>1 DEF ScreenType
  <2> QED BY <1>8, <2>1 DEF DialogFiles
<1>9. ASSUME PickRow(c)
      PROVE  shows
  <2>1. [Nothing EXCEPT !.kind = "row", !.at = "ready", !.version = version,
                 !.supply = supply] \in ScreenType
    BY <1>1 DEF ScreenType
  <2> QED BY <1>9, <2>1 DEF PickRow
<1>10. shows
  BY <1>2, <1>3, <1>4, <1>5, <1>6, <1>7, <1>8, <1>9 DEF ClerkReads
<1>11. PICK fields \in ScreenType : screen' = [screen EXCEPT ![c] = fields] /\ DatabaseUnchanged
  BY <1>10 DEF Show
<1> QED BY <1>11 DEF TypeOK

-----------------------------------------------------------------------------
(* Types. *)

LEMMA StepKeepsType ==
    ASSUME IInv, [Next]_vars
    PROVE  TypeOK'
<1>1. TypeOK /\ FlaggingHolds
  BY DEF IInv
<1>2. ASSUME Document
      PROVE  TypeOK'
  <2>1. CASE SaveDraft
    <3>1. version' \in 1 .. MaxVersion
      BY <1>1, <2>1, BumpMovesUp DEF SaveDraft
    <3> QED BY <1>1, <2>1, <3>1 DEF SaveDraft, TypeOK
  <2>2. CASE Submit
    <3>1. version' \in 1 .. MaxVersion
      BY <1>1, <2>2, BumpMovesUp DEF Submit
    <3>2. review' \in ReviewType
      BY <1>1, <2>2, ReviewsHaveType DEF Submit, TypeOK
    <3> QED BY <1>1, <2>2, <3>1, <3>2 DEF Submit, TypeOK
  <2>3. CASE FinalApproval
    BY <1>1, <2>3 DEF FinalApproval, TypeOK
  <2>4. CASE RejectOrWithdraw
    BY <1>1, <2>4 DEF RejectOrWithdraw, TypeOK
  <2> QED BY <1>2, <2>1, <2>2, <2>3, <2>4 DEF Document
<1>3. ASSUME NEW f \in Files, Upload(f) \/ DropFile(f)
      PROVE  TypeOK'
  <2>1. version' \in 1 .. MaxVersion
    BY <1>1, <1>3, BumpMovesUp, ChangeBumps DEF Upload, DropFile
  <2>2. review' \in ReviewType
    BY <1>1, <1>3, ReviewsHaveType DEF Upload, DropFile
  <2>3. files' \in [Files -> {"new", "alive", "gone"}]
    BY <1>1, <1>3 DEF Upload, DropFile, TypeOK
  <2>4. UNCHANGED <<status, supply, links, flagged, payments, screen, flagging>>
    BY <1>3 DEF Upload, DropFile
  <2> QED BY <1>1, <2>1, <2>2, <2>3, <2>4 DEF TypeOK
<1>4. ASSUME NEW r \in Records, Detach(r)
      PROVE  TypeOK'
  <2>1. version' \in 1 .. MaxVersion
    BY <1>1, <1>4, BumpMovesUp, ChangeBumps DEF Detach
  <2>2. review' \in ReviewType
    BY <1>1, <1>4, ReviewsHaveType DEF Detach
  <2> QED BY <1>1, <1>4, <2>1, <2>2 DEF Detach, TypeOK
<1>5. ASSUME NEW r \in Records, NEW canConfirm \in BOOLEAN, Attach(r, canConfirm)
      PROVE  TypeOK'
  <2>1. version' \in 1 .. MaxVersion
    BY <1>1, <1>5, AttachBumps, BumpMovesUp
  <2>2. links \cup {r} \in SUBSET Records
    BY <1>1 DEF TypeOK
  <2>3. review' \in ReviewType
    BY <1>1, <1>5, <2>2, AttachReviews, ReviewsHaveType
  <2>4. links' = links \cup {r} /\ UNCHANGED <<status, supply, files, flagged, payments, screen, flagging>>
    BY <1>5 DEF Attach
  <2> QED BY <1>1, <2>1, <2>2, <2>3, <2>4 DEF TypeOK
<1>6. ASSUME NEW r \in Records, StartFlagging(r) \/ ClearCheck(r)
      PROVE  TypeOK'
  <2>1. CASE StartFlagging(r)
    <3>1. (r \in links) \in BOOLEAN /\ status \in {"editing", "in_review", "approved"}
      BY <1>1 DEF TypeOK
    <3>2. flagging' = [rec |-> r, locked |-> r \in links, status |-> status]
      BY <2>1 DEF StartFlagging
    <3>3. flagging' \in [rec : Records \cup {"none"}, locked : BOOLEAN,
                         status : {"editing", "in_review", "approved"}]
      BY <3>1, <3>2, Zenon
    <3> QED BY <1>1, <2>1, <3>3 DEF StartFlagging, TypeOK
  <2>2. CASE ClearCheck(r)
    BY <1>1, <2>2 DEF ClearCheck, TypeOK
  <2> QED BY <1>6, <2>1, <2>2
<1>7. ASSUME FlagRecord
      PROVE  TypeOK'
  <2>1. flagging.rec \in Records
    BY <1>1, <1>7 DEF FlagRecord, FlaggingHolds
  <2>2. version' \in 1 .. MaxVersion
    <3>1. \E n \in Nat : Bump(n)
      BY <1>7, ChangeBumps DEF FlagRecord
    <3> QED BY <1>1, <3>1, BumpMovesUp
  <2>3. review' \in ReviewType
    BY <1>1, <1>7, ReviewsHaveType DEF FlagRecord, TypeOK
  <2>4. /\ flagged' = flagged \cup {flagging.rec}
        /\ flagging' = NotFlagging
        /\ UNCHANGED <<status, supply, files, links, payments, screen>>
    BY <1>7 DEF FlagRecord
  <2> QED BY <1>1, <2>1, <2>2, <2>3, <2>4 DEF TypeOK, NotFlagging
<1>8. ASSUME FlaggingRace
      PROVE  TypeOK'
  BY <1>1, <1>8 DEF FlaggingRace, TypeOK, NotFlagging
<1>9. ASSUME NEW c \in Clerks, ClerkReads(c)
      PROVE  TypeOK'
  BY <1>1, <1>9, ReadsChangeOneScreen DEF TypeOK, DatabaseUnchanged
<1>10. ASSUME NEW c \in Clerks, ClerkActs(c)
       PROVE  TypeOK'
  <2> DEFINE look == screen[c]
  <2>1. /\ look.shown \in SUBSET Files /\ look.known \in SUBSET Records
        /\ look.version \in Nat /\ supply \in Nat
    BY <1>1, EvidenceHasType DEF TypeOK, ScreenType
  <2>2. version' \in 1 .. MaxVersion
    BY <1>1, <1>10, BumpMovesUp DEF ClerkActs, Confirm, Waive, Pay, Cancel
  <2>3. UNCHANGED <<status, files, links, flagged, screen, flagging>>
    BY <1>10 DEF ClerkActs, Confirm, Waive, Pay, Cancel
  <2>4. ASSUME NEW amount \in Supplies, Confirm(c, amount)
        PROVE  TypeOK'
    <3>1. look.kind \in {"page", "dialog"} /\ amount \in Nat
      BY <2>4, SuppliesAreAmounts DEF Confirm, Ready
    <3>2. review' \in ReviewType
      BY <1>1, <2>1, <2>4, <3>1, ReviewsHaveType DEF Confirm
    <3>3. supply' \in Supplies /\ UNCHANGED payments
      BY <2>4 DEF Confirm
    <3> QED BY <1>1, <2>2, <2>3, <3>2, <3>3 DEF TypeOK
  <2>5. CASE Waive(c)
    <3>1. review' \in ReviewType
      BY <1>1, <2>1, <2>5, ReviewsHaveType DEF Waive
    <3>2. UNCHANGED <<supply, payments>>
      BY <2>5 DEF Waive
    <3> QED BY <1>1, <2>2, <2>3, <3>1, <3>2 DEF TypeOK
  <2>6. CASE Pay(c)
    <3>1. payments' \in Seq([seen : Nat, gross : Nat, live : BOOLEAN])
      BY <1>1, <2>1, <2>6, PaymentsHaveType DEF Pay
    <3>2. UNCHANGED <<supply, review>>
      BY <2>6 DEF Pay
    <3> QED BY <1>1, <2>2, <2>3, <3>1, <3>2 DEF TypeOK
  <2>7. CASE Cancel(c)
    <3>1. payments' \in Seq([seen : Nat, gross : Nat, live : BOOLEAN])
      BY <1>1, <2>7, PaymentsHaveType DEF Cancel
    <3>2. review' \in ReviewType
      BY <1>1, <2>7, ReviewsHaveType DEF Cancel, ReviewAfterCancel, TypeOK
    <3>3. UNCHANGED supply
      BY <2>7 DEF Cancel
    <3> QED BY <1>1, <2>2, <2>3, <3>1, <3>2, <3>3 DEF TypeOK
  <2> QED BY <1>10, <2>4, <2>5, <2>6, <2>7 DEF ClerkActs
<1>11. CASE UNCHANGED vars
  BY <1>1, <1>11 DEF vars, TypeOK
<1> QED BY <1>2, <1>3, <1>4, <1>5, <1>6, <1>7, <1>8, <1>9, <1>10, <1>11 DEF Next, EvidenceChange

-----------------------------------------------------------------------------
(* The document: its status, its version and its files. *)

\* Approval is final, the version never falls, and the files of an approved
\* document do not change under one version.
LEMMA StepMovesDocument ==
    ASSUME IInv, [Next]_vars
    PROVE  /\ status = "approved" => status' = "approved"
           /\ version' >= version
           /\ status = "approved" /\ version' = version => Alive' = Alive
<1>1. TypeOK /\ version >= version
  BY DEF IInv, TypeOK
<1>2. ASSUME Document
      PROVE  status # "approved" /\ version' >= version
  BY <1>1, <1>2, BumpMovesUp DEF Document, SaveDraft, Submit, FinalApproval, RejectOrWithdraw
<1>3. ASSUME NEW f \in Files, Upload(f) \/ DropFile(f)
      PROVE  status' = status /\ version' >= version /\ (status = "approved" => version' > version)
  BY <1>1, <1>3, BumpMovesUp, ChangeBumps DEF Upload, DropFile
<1>4. ASSUME NEW r \in Records, Detach(r)
      PROVE  UNCHANGED <<status, files>> /\ version' >= version
  BY <1>1, <1>4, BumpMovesUp, ChangeBumps DEF Detach
<1>5. ASSUME NEW r \in Records, NEW canConfirm \in BOOLEAN, Attach(r, canConfirm)
      PROVE  UNCHANGED <<status, files>> /\ version' >= version
  <2>1. UNCHANGED <<status, files>>
    BY <1>5 DEF Attach
  <2> QED BY <1>1, <1>5, <2>1, AttachBumps, BumpMovesUp
<1>6. ASSUME NEW r \in Records, StartFlagging(r) \/ ClearCheck(r)
      PROVE  UNCHANGED <<status, version, files>>
  BY <1>6 DEF StartFlagging, ClearCheck
<1>7. ASSUME FlagRecord
      PROVE  UNCHANGED <<status, files>> /\ version' >= version
  <2>1. \E n \in Nat : Bump(n)
    BY <1>7, ChangeBumps DEF FlagRecord
  <2>2. UNCHANGED <<status, files>>
    BY <1>7 DEF FlagRecord
  <2> QED BY <1>1, <2>1, <2>2, BumpMovesUp
<1>8. ASSUME FlaggingRace
      PROVE  UNCHANGED <<status, version, files>>
  BY <1>8 DEF FlaggingRace
<1>9. ASSUME NEW c \in Clerks, ClerkReads(c)
      PROVE  UNCHANGED <<status, version, files>>
  BY <1>1, <1>9, ReadsChangeOneScreen DEF DatabaseUnchanged
<1>10. ASSUME NEW c \in Clerks, ClerkActs(c)
       PROVE  UNCHANGED <<status, files>> /\ version' >= version
  BY <1>1, <1>10, BumpMovesUp DEF ClerkActs, Confirm, Waive, Pay, Cancel
<1>11. ASSUME UNCHANGED vars
       PROVE  UNCHANGED <<status, version, files>>
  BY <1>11 DEF vars
<1>12. TypeOK'
  BY StepKeepsType
<1>13. UNCHANGED files => Alive' = Alive
  BY DEF Alive
<1>14. version' > version => version' # version
  BY <1>1, <1>12 DEF TypeOK
<1>15. \/ status # "approved" /\ version' >= version
       \/ status' = status /\ version' >= version /\ (status = "approved" => version' > version)
       \/ UNCHANGED <<status, files>> /\ version' >= version
  BY <1>1, <1>2, <1>3, <1>4, <1>5, <1>6, <1>7, <1>8, <1>9, <1>10, <1>11 DEF Next, EvidenceChange
<1> QED BY <1>13, <1>14, <1>15

\* Only a clerk who pays or cancels touches the payments, and only a draft
\* save or a confirmation touches the amount.
LEMMA StepMovesMoney ==
    ASSUME IInv, [Next]_vars
    PROVE  /\ UNCHANGED payments \/ \E c \in Clerks : Pay(c) \/ Cancel(c)
           /\ UNCHANGED supply \/ SaveDraft \/ \E c \in Clerks, amount \in Supplies : Confirm(c, amount)
<1>1. TypeOK
  BY DEF IInv
<1>2. ASSUME Document
      PROVE  UNCHANGED payments /\ (UNCHANGED supply \/ SaveDraft)
  BY <1>2 DEF Document, SaveDraft, Submit, FinalApproval, RejectOrWithdraw
<1>3. ASSUME EvidenceChange
      PROVE  UNCHANGED <<payments, supply>>
  BY <1>3 DEF EvidenceChange, Upload, DropFile, Detach, ClearCheck, StartFlagging, Attach, FlagRecord, FlaggingRace
<1>4. ASSUME NEW c \in Clerks, ClerkReads(c)
      PROVE  UNCHANGED <<payments, supply>>
  BY <1>1, <1>4, ReadsChangeOneScreen DEF DatabaseUnchanged
<1>5. ASSUME NEW c \in Clerks, NEW amount \in Supplies, Confirm(c, amount)
      PROVE  UNCHANGED payments
  BY <1>5 DEF Confirm
<1>6. ASSUME NEW c \in Clerks, Waive(c)
      PROVE  UNCHANGED <<payments, supply>>
  BY <1>6 DEF Waive
<1>7. ASSUME NEW c \in Clerks, Pay(c) \/ Cancel(c)
      PROVE  UNCHANGED supply
  BY <1>7 DEF Pay, Cancel
<1>8. UNCHANGED vars => UNCHANGED <<payments, supply>>
  BY DEF vars
<1> QED BY <1>2, <1>3, <1>4, <1>5, <1>6, <1>7, <1>8 DEF Next, ClerkActs

-----------------------------------------------------------------------------
(* Payments. *)

LEMMA PaymentsAreRecords ==
    ASSUME TypeOK
    PROVE  /\ Len(payments) \in Nat /\ DOMAIN payments = 1 .. Len(payments)
           /\ \A i \in DOMAIN payments : payments[i] \in [seen : Nat, gross : Nat, live : BOOLEAN]
<1>1. payments \in Seq([seen : Nat, gross : Nat, live : BOOLEAN])
  BY DEF TypeOK
<1>2. Len(payments) \in Nat /\ DOMAIN payments = 1 .. Len(payments)
  BY <1>1
<1>3. \A i \in 1 .. Len(payments) : payments[i] \in [seen : Nat, gross : Nat, live : BOOLEAN]
  BY <1>1, ElementOfSeq
<1> QED BY <1>2, <1>3

\* A payment is appended to the list, a cancellation only clears marks.
LEMMA PayAppends ==
    ASSUME TypeOK, NEW c \in Clerks, Pay(c)
    PROVE  /\ DOMAIN payments' = 1 .. Len(payments) + 1
           /\ \A i \in DOMAIN payments : payments'[i] = payments[i]
           /\ payments'[Len(payments) + 1] = [seen |-> version, gross |-> supply, live |-> TRUE]
           /\ version' = version + 1
<1>1. payments \in Seq([seen : Nat, gross : Nat, live : BOOLEAN])
  BY DEF TypeOK
<1>2. payments' = Append(payments, [seen |-> version, gross |-> supply, live |-> TRUE])
  BY DEF Pay, PaymentAllowed, Current
<1>3. version' = version + 1
  BY DEF Pay, Bump
<1> QED BY <1>1, <1>2, <1>3, PaymentsAreRecords

LEMMA CancelMarks ==
    ASSUME TypeOK, NEW c \in Clerks, Cancel(c)
    PROVE  /\ DOMAIN payments' = DOMAIN payments
           /\ \A i \in DOMAIN payments : payments'[i].seen = payments[i].seen /\ ~payments'[i].live
<1>1. payments' = [i \in DOMAIN payments |-> [payments[i] EXCEPT !.live = FALSE]]
  BY DEF Cancel
<1> QED BY <1>1, PaymentsAreRecords

LEMMA StepKeepsPayments ==
    ASSUME IInv, [Next]_vars
    PROVE  /\ PaymentsFollowApproval' /\ PaidAmountStands'
           /\ PaymentsAreOlder' /\ OnePaymentPerLook'
<1>1. /\ TypeOK /\ PaymentsFollowApproval /\ PaidAmountStands
      /\ PaymentsAreOlder /\ OnePaymentPerLook
  BY DEF IInv
<1>2. /\ version \in Nat /\ version' \in Nat /\ version' >= version
      /\ \A i \in DOMAIN payments : payments[i].seen \in Nat
  BY <1>1, StepKeepsType, StepMovesDocument, PaymentsAreRecords DEF TypeOK
<1>3. CASE UNCHANGED payments
  <2>1. PaymentsFollowApproval'
    BY <1>1, <1>3, StepMovesDocument DEF PaymentsFollowApproval, Paid
  <2>2. PaymentsAreOlder' /\ OnePaymentPerLook'
    BY <1>1, <1>2, <1>3 DEF PaymentsAreOlder, OnePaymentPerLook
  <2>3. PaidAmountStands'
    <3>1. UNCHANGED supply \/ ~Paid
      <4>1. SaveDraft => ~Paid
        BY <1>1 DEF SaveDraft, PaymentsFollowApproval
      <4>2. \A c \in Clerks, amount \in Supplies : Confirm(c, amount) => UNCHANGED supply \/ ~Paid
        BY DEF Confirm, CorrectionAllowed
      <4> QED BY <4>1, <4>2, StepMovesMoney
    <3> QED BY <1>1, <1>3, <3>1 DEF PaidAmountStands, Paid
  <2> QED BY <2>1, <2>2, <2>3
<1>4. ASSUME NEW c \in Clerks, Pay(c)
      PROVE  /\ PaymentsFollowApproval' /\ PaidAmountStands'
             /\ PaymentsAreOlder' /\ OnePaymentPerLook'
  <2> DEFINE n == Len(payments)
  <2>1. /\ DOMAIN payments' = 1 .. n + 1 /\ DOMAIN payments = 1 .. n /\ n \in Nat
        /\ \A i \in 1 .. n : payments'[i] = payments[i]
        /\ payments'[n + 1].seen = version
        /\ payments'[n + 1].gross = supply
        /\ version' = version + 1
    BY <1>1, <1>4, PayAppends, PaymentsAreRecords
  <2>2. \A i \in DOMAIN payments' : i \in 1 .. n \/ i = n + 1
    BY <2>1
  <2>3. /\ status' = "approved" /\ supply' = supply
        /\ \A i \in 1 .. n : ~payments[i].live
    BY <1>4, <2>1 DEF Pay, PaymentAllowed, Paid
  <2>4. PaymentsFollowApproval'
    BY <2>3 DEF PaymentsFollowApproval
  <2>5. PaidAmountStands'
    BY <2>1, <2>2, <2>3 DEF PaidAmountStands
  <2>6. PaymentsAreOlder'
    BY <1>1, <1>2, <2>1, <2>2 DEF PaymentsAreOlder
  <2>7. OnePaymentPerLook'
    BY <1>1, <1>2, <2>1, <2>2 DEF PaymentsAreOlder, OnePaymentPerLook
  <2> QED BY <2>4, <2>5, <2>6, <2>7
<1>5. ASSUME NEW c \in Clerks, Cancel(c)
      PROVE  /\ PaymentsFollowApproval' /\ PaidAmountStands'
             /\ PaymentsAreOlder' /\ OnePaymentPerLook'
  <2>1. /\ DOMAIN payments' = DOMAIN payments
        /\ \A i \in DOMAIN payments : payments'[i].seen = payments[i].seen /\ ~payments'[i].live
    BY <1>1, <1>5, CancelMarks
  <2>2. PaymentsFollowApproval' /\ PaidAmountStands'
    BY <2>1 DEF PaymentsFollowApproval, PaidAmountStands, Paid
  <2>3. PaymentsAreOlder' /\ OnePaymentPerLook'
    BY <1>1, <1>2, <2>1 DEF PaymentsAreOlder, OnePaymentPerLook
  <2> QED BY <2>2, <2>3
<1> QED BY <1>3, <1>4, <1>5, StepMovesMoney

-----------------------------------------------------------------------------
(* Registrations and waivers. *)

LEMMA StepKeepsFlagging ==
    ASSUME IInv, [Next]_vars
    PROVE  FlaggingHolds'
<1>1. TypeOK /\ FlaggingHolds
  BY DEF IInv
<1>2. ASSUME NEW r \in Records, StartFlagging(r)
      PROVE  FlaggingHolds'
  <2>1. /\ flagging' = [rec |-> r, locked |-> r \in links, status |-> status]
        /\ status' = status
    BY <1>2 DEF StartFlagging
  <2>2. flagging'.rec = r /\ flagging'.status = status
    BY <2>1
  <2> QED BY <2>1, <2>2 DEF FlaggingHolds
<1>3. CASE flagging' = NotFlagging
  BY <1>3 DEF FlaggingHolds, NotFlagging
<1>4. CASE UNCHANGED <<flagging, status>>
  BY <1>1, <1>4 DEF FlaggingHolds
<1>5. CASE UNCHANGED flagging /\ ~flagging.locked
  BY <1>1, <1>5 DEF FlaggingHolds
<1>6. CASE UNCHANGED flagging /\ status = "in_review"
  BY <1>1, <1>6 DEF FlaggingHolds
<1>7. ASSUME Document
      PROVE  /\ UNCHANGED flagging
             /\ UNCHANGED status \/ ~flagging.locked \/ status = "in_review"
  BY <1>7 DEF Document, SaveDraft, Submit, FinalApproval, RejectOrWithdraw, RowFree
<1>8. ASSUME EvidenceChange
      PROVE  \/ UNCHANGED <<flagging, status>>
             \/ flagging' = NotFlagging
             \/ \E r \in Records : StartFlagging(r)
  BY <1>8 DEF EvidenceChange, Upload, DropFile, Detach, ClearCheck, Attach, FlagRecord, FlaggingRace
<1>9. ASSUME NEW c \in Clerks, ClerkReads(c) \/ ClerkActs(c)
      PROVE  UNCHANGED <<flagging, status>>
  BY <1>1, <1>9, ReadsChangeOneScreen DEF DatabaseUnchanged, ClerkActs, Confirm, Waive, Pay, Cancel
<1>10. UNCHANGED vars => UNCHANGED <<flagging, status>>
  BY DEF vars
<1> QED BY <1>2, <1>3, <1>4, <1>5, <1>6, <1>7, <1>8, <1>9, <1>10 DEF Next

-----------------------------------------------------------------------------
(* The review. *)

\* A review that stays is of an editable document, or nothing it is about has
\* changed: a confirmation of a document that comes up again does not stay.
Stays ==
    /\ review' = review
    /\ \/ status' = "editing"
       \/ /\ UNCHANGED <<files, links, supply>>
          /\ Confirmed => status # "editing"
          /\ \/ Paid'
             \/ ~Paid /\ OpenChecks' \subseteq OpenChecks
             \/ OpenChecks' = {}

\* A review that an attachment stores for the records it leaves attached.
ConfirmsItself ==
    \E attached \in SUBSET Records :
        /\ links' = attached
        /\ UNCHANGED <<files, supply, flagged>>
        /\ attached \cap flagged = {}
        /\ review' = AutoReview(attached)

\* What an automatic confirmation stores.
LEMMA AutoReviewFields ==
    ASSUME NEW attached
    PROVE  AutoReview(attached).kind = "confirmed" /\ AutoReview(attached).by = "auto"
BY DEF AutoReview, NoReview

\* What a step does to the review of the document.
LEMMA StepMovesReview ==
    ASSUME IInv, [Next]_vars
    PROVE  \/ review' = NoReview
           \/ Stays
           \/ ConfirmsItself
           \/ \E c \in Clerks, amount \in Supplies : Confirm(c, amount)
           \/ \E c \in Clerks : Waive(c)
<1>1. TypeOK /\ FlaggingHolds
  BY DEF IInv
<1>2. UNCHANGED <<links, flagged>> => OpenChecks' = OpenChecks
  BY DEF OpenChecks
<1>3. UNCHANGED payments => Paid' = Paid
  BY DEF Paid
<1>4. CASE SaveDraft \/ RejectOrWithdraw
  BY <1>4 DEF SaveDraft, RejectOrWithdraw, Stays
<1>5. CASE Submit
  <2>1. UNCHANGED <<files, links, supply, flagged, payments>>
    BY <1>5 DEF Submit
  <2>2. review' = NoReview \/ (review' = review /\ ~Confirmed)
    BY <1>5 DEF Submit
  <2> QED BY <1>2, <1>3, <2>1, <2>2 DEF Stays
<1>6. CASE FinalApproval
  <2>1. UNCHANGED <<files, links, supply, flagged, payments, review>> /\ status # "editing"
    BY <1>6 DEF FinalApproval
  <2> QED BY <1>2, <1>3, <2>1 DEF Stays
<1>7. ASSUME NEW f \in Files, Upload(f) \/ DropFile(f)
      PROVE  review' = NoReview \/ Stays
  BY <1>7 DEF Upload, DropFile, ReviewAfterChange, Stays
<1>8. ASSUME NEW r \in Records, Detach(r)
      PROVE  review' = NoReview \/ Stays
  BY <1>8 DEF Detach, ReviewAfterChange, Stays
<1>9. ASSUME NEW r \in Records, NEW canConfirm \in BOOLEAN, Attach(r, canConfirm)
      PROVE  review' = NoReview \/ Stays \/ ConfirmsItself
  <2>1. /\ links' = links \cup {r} /\ links \cup {r} \in SUBSET Records
        /\ UNCHANGED <<status, files, supply, flagged>>
    BY <1>1, <1>9 DEF Attach, TypeOK
  <2>2. CASE review' = ReviewAfterChange(status)
    BY <2>1, <2>2 DEF ReviewAfterChange, Stays
  <2>3. CASE review' = AutoReview(links \cup {r}) /\ (links \cup {r}) \cap flagged = {}
    BY <2>1, <2>3 DEF ConfirmsItself
  <2> QED BY <1>9, <2>2, <2>3, AttachReviews
<1>10. ASSUME NEW r \in Records, StartFlagging(r) \/ ClearCheck(r)
       PROVE  Stays
  <2>1. /\ UNCHANGED <<status, files, links, supply, payments, review>>
        /\ flagged' \subseteq flagged
    BY <1>10 DEF StartFlagging, ClearCheck
  <2>2. OpenChecks' \subseteq OpenChecks
    BY <2>1 DEF OpenChecks
  <2> QED BY <1>3, <2>1, <2>2 DEF Stays
<1>11. CASE FlagRecord
  <2>1. /\ UNCHANGED <<status, files, links, supply, payments>>
        /\ flagged' = flagged \cup {flagging.rec}
        /\ flagging.rec \in links => flagging.locked
        /\ review' = IF flagging.locked /\ ~Paid THEN ReviewAfterChange(flagging.status) ELSE review
    BY <1>11 DEF FlagRecord
  <2>2. CASE flagging.locked /\ ~Paid
    <3>1. review' = NoReview \/ (review' = review /\ flagging.status = "editing")
      BY <2>1, <2>2 DEF ReviewAfterChange
    <3>2. flagging.status = "editing" => status' = "editing"
      BY <1>1, <2>1, <2>2 DEF FlaggingHolds
    <3> QED BY <3>1, <3>2 DEF Stays
  <2>3. CASE Paid
    BY <1>3, <2>1, <2>3 DEF Stays
  <2>4. CASE ~flagging.locked /\ ~Paid
    <3>1. OpenChecks' = OpenChecks
      BY <2>1, <2>4 DEF OpenChecks
    <3> QED BY <1>3, <2>1, <2>4, <3>1 DEF Stays
  <2> QED BY <2>2, <2>3, <2>4
<1>12. CASE UNCHANGED <<status, supply, files, links, flagged, review, payments>>
  BY <1>2, <1>3, <1>12 DEF Stays
<1>13. FlaggingRace \/ UNCHANGED vars
       => UNCHANGED <<status, supply, files, links, flagged, review, payments>>
  BY DEF FlaggingRace, vars
<1>14. \A c \in Clerks : ClerkReads(c)
       => UNCHANGED <<status, supply, files, links, flagged, review, payments>>
  BY <1>1, ReadsChangeOneScreen DEF DatabaseUnchanged
<1>15. ASSUME NEW c \in Clerks, Pay(c)
       PROVE  Stays
  <2>1. UNCHANGED <<files, links, supply, review>> /\ status # "editing"
    BY <1>15 DEF Pay, PaymentAllowed
  <2>2. Len(payments) + 1 \in DOMAIN payments' /\ payments'[Len(payments) + 1].live
    BY <1>1, <1>15, PayAppends, PaymentsAreRecords
  <2>3. Paid'
    BY <2>2 DEF Paid
  <2> QED BY <2>1, <2>3 DEF Stays
<1>16. ASSUME NEW c \in Clerks, Cancel(c)
       PROVE  review' = NoReview \/ Stays
  <2>1. UNCHANGED <<files, links, flagged, supply>>
    BY <1>16 DEF Cancel
  <2>2. status # "editing"
    BY <1>16 DEF Cancel, IInv, PaymentsFollowApproval
  <2>3. review' = NoReview \/ (review' = review /\ OpenChecks = {})
    BY <1>16 DEF Cancel, ReviewAfterCancel
  <2> QED BY <1>2, <2>1, <2>2, <2>3 DEF Stays
<1> QED
  BY <1>4, <1>5, <1>6, <1>7, <1>8, <1>9, <1>10, <1>11, <1>12, <1>13, <1>14, <1>15, <1>16
     DEF Next, Document, EvidenceChange, ClerkActs

LEMMA StepKeepsWaivers ==
    ASSUME IInv, [Next]_vars
    PROVE  WaiversFollowApproval'
<1>1. WaiversFollowApproval
  BY DEF IInv
<1>2. CASE review' = NoReview \/ ConfirmsItself
  <2>1. review' = NoReview \/ \E attached : review' = AutoReview(attached)
    BY <1>2 DEF ConfirmsItself
  <2>2. review'.kind # "waived"
    BY <2>1, AutoReviewFields DEF NoReview
  <2> QED BY <2>2 DEF WaiversFollowApproval, Waived
<1>3. CASE Stays
  BY <1>1, <1>3, StepMovesDocument DEF Stays, WaiversFollowApproval, Waived
<1>4. ASSUME NEW c \in Clerks, NEW amount \in Supplies, Confirm(c, amount)
      PROVE  WaiversFollowApproval'
  BY <1>4 DEF Confirm, ReviewOf, WaiversFollowApproval, Waived
<1>5. ASSUME NEW c \in Clerks, Waive(c)
      PROVE  WaiversFollowApproval'
  BY <1>5 DEF Waive, WaiversFollowApproval
<1> QED BY <1>2, <1>3, <1>4, <1>5, StepMovesReview

LEMMA StepKeepsReview ==
    ASSUME IInv, [Next]_vars
    PROVE  ReviewFitsTheDocument'
<1>1. ReviewFitsTheDocument /\ WaiversFollowApproval
  BY DEF IInv
<1>2. UNCHANGED <<files, links>> => Evidence' = Evidence
  BY DEF Evidence, Alive
<1>3. CASE review' = NoReview
  BY <1>3 DEF NoReview, ReviewFitsTheDocument, Confirmed, Waived
<1>4. CASE Stays
  <2>1. CASE status' = "editing"
    BY <2>1 DEF ReviewFitsTheDocument
  <2>2. CASE UNCHANGED <<files, links, supply>> /\ (Confirmed => status # "editing")
    BY <1>1, <1>2, <1>4, <2>2 DEF Stays, ReviewFitsTheDocument, WaiversFollowApproval, Confirmed, Waived
  <2> QED BY <1>4, <2>1, <2>2 DEF Stays
<1>5. CASE ConfirmsItself
  <2>1. PICK attached : /\ links' = attached /\ UNCHANGED <<files, supply>>
                        /\ review' = AutoReview(attached)
    BY <1>5 DEF ConfirmsItself
  <2>2. /\ review'.kind = "confirmed"
        /\ review'.covers = Alive \cup attached
        /\ review'.amount = supply
    BY <2>1 DEF AutoReview, NoReview
  <2>3. Evidence' = Alive \cup attached
    BY <2>1 DEF Evidence, Alive
  <2> QED BY <2>1, <2>2, <2>3 DEF ReviewFitsTheDocument, Confirmed, Waived
<1>6. ASSUME NEW c \in Clerks, NEW amount \in Supplies, Confirm(c, amount)
      PROVE  ReviewFitsTheDocument'
  <2>1. /\ review'.kind = "confirmed"
        /\ review'.covers = Evidence
        /\ review'.amount = supply'
        /\ UNCHANGED <<files, links>>
    BY <1>6 DEF Confirm, ReviewOf
  <2> QED BY <1>2, <2>1 DEF ReviewFitsTheDocument, Confirmed, Waived
<1>7. ASSUME NEW c \in Clerks, Waive(c)
      PROVE  ReviewFitsTheDocument'
  <2>1. /\ review'.kind = "waived"
        /\ Evidence = {}
        /\ UNCHANGED <<files, links>>
    BY <1>7 DEF Waive, ReviewOf
  <2> QED BY <1>2, <2>1 DEF ReviewFitsTheDocument, Confirmed, Waived
<1> QED BY <1>3, <1>4, <1>5, <1>6, <1>7, StepMovesReview

LEMMA StepKeepsQuestions ==
    ASSUME IInv, [Next]_vars
    PROVE  AutoConfirmationIsUnquestioned'
<1>1. AutoConfirmationIsUnquestioned
  BY DEF IInv
<1>2. CASE review' = NoReview
  BY <1>2 DEF NoReview, AutoConfirmationIsUnquestioned, Confirmed
<1>3. CASE Stays
  BY <1>1, <1>3 DEF Stays, AutoConfirmationIsUnquestioned, Confirmed
<1>4. CASE ConfirmsItself
  <2>1. OpenChecks' = {}
    BY <1>4 DEF ConfirmsItself, OpenChecks
  <2> QED BY <2>1 DEF AutoConfirmationIsUnquestioned
<1>5. ASSUME NEW c \in Clerks, NEW amount \in Supplies, Confirm(c, amount)
      PROVE  review'.by # "auto"
  BY <1>5 DEF Confirm, Ready, ReviewOf
<1>6. ASSUME NEW c \in Clerks, Waive(c)
      PROVE  review'.by # "auto"
  BY <1>6 DEF Waive, ReviewOf
<1>7. CASE review'.by # "auto"
  BY <1>7 DEF AutoConfirmationIsUnquestioned
<1> QED BY <1>2, <1>3, <1>4, <1>5, <1>6, <1>7, StepMovesReview

-----------------------------------------------------------------------------
(* The dialog. *)

LEMMA StepKeepsDialogs ==
    ASSUME IInv, [Next]_vars
    PROVE  DialogsAreCurrent'
<1>1. TypeOK /\ DialogsAreCurrent
  BY DEF IInv
<1>2. /\ status = "approved" => status' = "approved"
      /\ version \in Nat /\ version' \in Nat /\ version' >= version
      /\ status = "approved" /\ version' = version => Alive' = Alive
      /\ \A c \in Clerks : screen[c].version \in Nat
  BY <1>1, StepKeepsType, StepMovesDocument DEF TypeOK, ScreenType
<1> DEFINE Shows(c) == screen'[c].kind = "dialog" =>
                          /\ status' = "approved"
                          /\ screen'[c].version <= version'
                          /\ screen'[c].at = "ready" /\ screen'[c].version = version' =>
                                screen'[c].shown = Alive'
<1>3. \A c \in Clerks : screen'[c] = screen[c] => Shows(c)
  BY <1>1, <1>2 DEF DialogsAreCurrent
<1>4. CASE UNCHANGED screen
  BY <1>3, <1>4 DEF DialogsAreCurrent
<1>5. ASSUME NEW c \in Clerks, ClerkReads(c)
      PROVE  DialogsAreCurrent'
  <2>1. /\ UNCHANGED <<status, version>> /\ Alive' = Alive
        /\ \A d \in Clerks : d # c => screen'[d] = screen[d]
    BY <1>1, <1>5, ReadsChangeOneScreen DEF DatabaseUnchanged, Alive
  <2>2. \A fields : Show(c, fields) => screen'[c] = fields
    BY <1>1 DEF Show, TypeOK
  <2>3. screen[c] \in ScreenType
    BY <1>1 DEF TypeOK
  <2>4. ASSUME Leave(c) \/ PageFiles(c) \/ PageRow(c) \/ PageStamp(c) \/ PickRow(c)
        PROVE  screen'[c].kind # "dialog"
    <3>1. CASE Leave(c)
      BY <2>2, <3>1 DEF Leave, Nothing
    <3>2. CASE PageFiles(c)
      BY <2>2, <3>2 DEF PageFiles, Nothing
    <3>3. CASE PageRow(c)
      BY <2>2, <2>3, <3>3 DEF PageRow, Reading, ScreenType
    <3>4. CASE PageStamp(c)
      BY <2>2, <2>3, <3>4 DEF PageStamp, Reading, ScreenType
    <3>5. CASE PickRow(c)
      BY <2>2, <3>5 DEF PickRow, Nothing
    <3> QED BY <2>4, <3>1, <3>2, <3>3, <3>4, <3>5
  <2>5. ASSUME DialogRow(c)
        PROVE  Shows(c)
    <3>1. screen'[c].version = version /\ screen'[c].at = "row" /\ status = "approved"
      BY <2>2, <2>5 DEF DialogRow, Nothing
    <3> QED BY <1>2, <2>1, <3>1
  <2>6. ASSUME DialogStamp(c)
        PROVE  Shows(c)
    <3>1. /\ screen[c].kind = "dialog"
          /\ screen'[c].version = screen[c].version /\ screen'[c].at = "stamp"
      BY <2>2, <2>3, <2>6 DEF DialogStamp, Reading, ScreenType
    <3> QED BY <1>1, <2>1, <3>1 DEF DialogsAreCurrent
  <2>7. ASSUME DialogFiles(c)
        PROVE  Shows(c)
    <3>1. /\ screen[c].kind = "dialog"
          /\ screen'[c].version = screen[c].version /\ screen'[c].shown = Alive
      BY <2>2, <2>3, <2>7 DEF DialogFiles, Reading, ScreenType
    <3> QED BY <1>1, <2>1, <3>1 DEF DialogsAreCurrent
  <2>8. Shows(c)
    BY <1>5, <2>4, <2>5, <2>6, <2>7 DEF ClerkReads
  <2> QED BY <1>3, <2>1, <2>8 DEF DialogsAreCurrent
<1>6. Document \/ EvidenceChange \/ UNCHANGED vars => UNCHANGED screen
  BY DEF Document, SaveDraft, Submit, FinalApproval, RejectOrWithdraw, EvidenceChange, Upload, DropFile,
         Detach, ClearCheck, StartFlagging, Attach, FlagRecord, FlaggingRace, vars
<1>7. \A c \in Clerks : ClerkActs(c) => UNCHANGED screen
  BY DEF ClerkActs, Confirm, Waive, Pay, Cancel
<1> QED BY <1>4, <1>5, <1>6, <1>7 DEF Next

LEMMA StepKeepsWhatDialogsShow ==
    ASSUME IInv, [Next]_vars
    PROVE  DialogShowsWhatItConfirms'
<1>1. TypeOK /\ DialogsAreCurrent /\ DialogShowsWhatItConfirms
  BY DEF IInv
<1>2. ASSUME NEW c \in Clerks, NEW amount \in Supplies, Confirm(c, amount), review'.by = "dialog"
      PROVE  review'.shown = review'.covers \cap Files
  <2>1. /\ screen[c].kind = "dialog" /\ screen[c].at = "ready"
        /\ screen[c].version = version
        /\ review'.shown = screen[c].shown
        /\ review'.covers = Evidence
    BY <1>2 DEF Confirm, Ready, Current, ReviewOf
  <2>2. screen[c].shown = Alive
    BY <1>1, <2>1 DEF DialogsAreCurrent
  <2> QED BY <1>1, <2>1, <2>2, EvidenceHasType
<1>3. CASE review' = review
  BY <1>1, <1>3 DEF DialogShowsWhatItConfirms, ShowsWhatItConfirms, Confirmed
<1>4. CASE review' = NoReview \/ ConfirmsItself
  <2>1. review' = NoReview \/ \E attached : review' = AutoReview(attached)
    BY <1>4 DEF ConfirmsItself
  <2>2. review'.by # "dialog"
    BY <2>1, AutoReviewFields DEF NoReview
  <2> QED BY <2>2 DEF DialogShowsWhatItConfirms, ShowsWhatItConfirms
<1>5. ASSUME NEW c \in Clerks, Waive(c)
      PROVE  review'.by # "dialog"
  BY <1>5 DEF Waive, ReviewOf
<1> QED
  BY <1>2, <1>3, <1>4, <1>5, StepMovesReview DEF Stays, DialogShowsWhatItConfirms, ShowsWhatItConfirms

-----------------------------------------------------------------------------
(* The theorems. *)

LEMMA InitEstablishes == Init => IInv
<1> SUFFICES ASSUME Init PROVE IInv
  OBVIOUS
<1> USE DEF Init
<1>1. TypeOK
  BY MaxVersionIsPositive DEF TypeOK, NoReview, ReviewType, Nothing, ScreenType, NotFlagging
<1>2. ReviewFitsTheDocument /\ AutoConfirmationIsUnquestioned /\ WaiversFollowApproval
  BY DEF ReviewFitsTheDocument, AutoConfirmationIsUnquestioned, WaiversFollowApproval, Waived, NoReview
<1>3. PaidAmountStands /\ OnePaymentPerLook /\ PaymentsFollowApproval /\ PaymentsAreOlder
  BY DEF PaidAmountStands, OnePaymentPerLook, PaymentsFollowApproval, PaymentsAreOlder, Paid
<1>4. DialogShowsWhatItConfirms /\ DialogsAreCurrent /\ FlaggingHolds
  BY DEF DialogShowsWhatItConfirms, ShowsWhatItConfirms, DialogsAreCurrent, FlaggingHolds, NoReview,
         Confirmed, Nothing
<1> QED BY <1>1, <1>2, <1>3, <1>4 DEF IInv

LEMMA StepKeepsInvariant == IInv /\ [Next]_vars => IInv'
<1> SUFFICES ASSUME IInv, [Next]_vars PROVE IInv'
  OBVIOUS
<1>1. TypeOK' /\ FlaggingHolds' /\ WaiversFollowApproval'
  BY StepKeepsType, StepKeepsFlagging, StepKeepsWaivers
<1>2. PaymentsFollowApproval' /\ PaidAmountStands' /\ PaymentsAreOlder' /\ OnePaymentPerLook'
  BY StepKeepsPayments
<1>3. ReviewFitsTheDocument' /\ AutoConfirmationIsUnquestioned'
  BY StepKeepsReview, StepKeepsQuestions
<1>4. DialogsAreCurrent' /\ DialogShowsWhatItConfirms'
  BY StepKeepsDialogs, StepKeepsWhatDialogsShow
<1> QED BY <1>1, <1>2, <1>3, <1>4 DEF IInv

\* The inductive invariant holds of every state: the properties below, and
\* that approval precedes waivers and payments, that payments are older than
\* the version, and that dialogs and registrations are current.
THEOREM InvariantHolds == Spec => []IInv
BY InitEstablishes, StepKeepsInvariant, PTL DEF Spec

\* Types: the row, its evidence, its review, its payments and every screen
\* keep their shape.
THEOREM TypeCorrectness == Spec => []TypeOK
<1>1. IInv => TypeOK
  BY DEF IInv
<1> QED BY <1>1, InvariantHolds, PTL

\* A confirmation is about the evidence and the amount the document has, and
\* a waiver about a document without evidence (the release on every path).
THEOREM ReviewsFit == Spec => []ReviewFitsTheDocument
<1>1. IInv => ReviewFitsTheDocument
  BY DEF IInv
<1> QED BY <1>1, InvariantHolds, PTL

\* No automatic confirmation carries a document with an open check towards
\* its payment (autoConfirmOnAttach, flagCanceledOriginals).
THEOREM AutoConfirmationsStayUnquestioned == Spec => []AutoConfirmationIsUnquestioned
<1>1. IInv => AutoConfirmationIsUnquestioned
  BY DEF IInv
<1> QED BY <1>1, InvariantHolds, PTL

\* The amount of a document stands while its payment does (supplyCorrectionKind).
THEOREM PaidAmountsStand == Spec => []PaidAmountStands
<1>1. IInv => PaidAmountStands
  BY DEF IInv
<1> QED BY <1>1, InvariantHolds, PTL

\* One look at a document pays at most once (completeExpensePayment).
THEOREM LooksPayOnce == Spec => []OnePaymentPerLook
<1>1. IInv => OnePaymentPerLook
  BY DEF IInv
<1> QED BY <1>1, InvariantHolds, PTL

\* The dialog never confirms a file it did not show (getEvidenceConfirmView).
THEOREM DialogsShowWhatTheyConfirm == Spec => []DialogShowsWhatItConfirms
<1>1. IInv => DialogShowsWhatItConfirms
  BY DEF IInv
<1> QED BY <1>1, InvariantHolds, PTL
=============================================================================
