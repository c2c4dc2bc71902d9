----------------------------- MODULE NotifyTick -----------------------------
(***************************************************************************)
(* The notification tick (domain/notify/tick.ts and email-phase.ts with    *)
(* repositories/notifications.ts).  The scheduler calls it over HTTP and   *)
(* may call it again while an earlier call is still running.  A tick first *)
(* runs one transaction under a try-lock: it marks handled notices as      *)
(* read, evaluates the conditions, inserts at most BatchMax new notices    *)
(* and a record of the run.  Then it sends one mail per recipient, each in *)
(* three parts: claim the rows (a transaction that waits for the same      *)
(* lock), talk to the mail server outside of any transaction, record the   *)
(* outcome.  A tick may die between any two of these.                      *)
(***************************************************************************)
EXTENDS Integers, Sequences, FiniteSets

CONSTANTS
    Ticks,         \* concurrent tick requests
    Recipients,    \* user ids
    Notices,       \* dedup keys
    To,            \* recipient of each notice
    Age,           \* place of each notice in the order of oldestFirst
    StepNotices,   \* notices of kind approval-waiting
    EventNotices,  \* notices inserted by an action, not by a tick
    QuietNotices,  \* notices whose rule has mail switched off
    BatchMax,      \* NOTIFY_TICK_BATCH_MAX
    BusinessDays,  \* days on which conditions are evaluated and mail is sent
    MaxDay,        \* bound on the days followed
    MaxRuns,       \* bound on the runs followed
    Nobody         \* no tick

ASSUME NoticesAreFinite == IsFiniteSet(Notices)
ASSUME NobodyIsNoTick == Nobody \notin Ticks
ASSUME EveryNoticeHasARecipient == To \in [Notices -> Recipients]
ASSUME AgesAreDistinct ==
    /\ Age \in [Notices -> Nat]
    /\ \A m, n \in Notices : Age[m] = Age[n] => m = n
ASSUME KindsAreNotices ==
    StepNotices \cup EventNotices \cup QuietNotices \subseteq Notices
ASSUME DaysAreNumbers == BusinessDays \subseteq Nat /\ MaxDay \in Nat /\ MaxRuns \in Nat
ASSUME BatchIsPositive == BatchMax \in Nat \ {0}

VARIABLES
    log,      \* notification_log: dedup key -> row
    runs,     \* notify_tick_runs in order of id
    lock,     \* holder of the tick lock across two steps
    tick,     \* the requests under way
    today,    \* the KST date
    handled,  \* notices of approval steps that have been decided
    found,    \* history: the candidates of the latest evaluation
    cleaned,  \* history: the notices the clean-ups have marked as read
    bundles,  \* history: the mails claimed, [by, to, day, keys]
    arrived   \* history: the bundles that reached their recipient

vars == <<log, runs, lock, tick, today, handled, found, cleaned, bundles, arrived>>

MailStatuses == {"pending", "sending", "sent", "failed", "unknown",
                 "skipped_no_smtp", "skipped_rule_off"}
Attempted == {"sending", "sent", "failed", "unknown"}

\* email_attempted_at is kept as its KST date, 0 standing for NULL; seq is the
\* order of (created_at, id); the read mark is followed for approval steps only,
\* no mail depends on that of another kind.
Row == [mail : MailStatuses, read : BOOLEAN, attempted : Nat, seq : Nat]

NewRow(n, seq) ==
    [mail |-> IF n \in QuietNotices THEN "skipped_rule_off" ELSE "pending",
     read |-> FALSE, attempted |-> 0, seq |-> seq]

Run == [business : BOOLEAN, failed : BOOLEAN, incomplete : SUBSET Recipients,
        claimed : Nat, sent : Nat, notSent : Nat, unknown : Nat, finished : BOOLEAN]

NoBundle == [by |-> Nobody, to |-> Nobody, day |-> 0, keys |-> {}]

\* day is fixed when the request begins; now is read again for every mail.
IdleTick == [pc |-> "idle", day |-> 0, now |-> 0, seen |-> {}, toRead |-> {},
             run |-> 0, bundle |-> NoBundle, outcome |-> "none"]

Goto(t, pc) == tick' = [tick EXCEPT ![t].pc = pc]

-----------------------------------------------------------------------------
(* The lock transaction. *)

\* Unread rows of decided approval steps (markHandledStepNotificationsRead).
HandledUnread == {n \in DOMAIN log \cap handled : ~ log[n].read}

\* The scheduler calls; on a business day the conditions will be evaluated.
Begin(t) ==
    /\ tick[t] = IdleTick
    /\ Len(runs) < MaxRuns
    /\ tick' = [tick EXCEPT ![t] = [IdleTick EXCEPT !.pc = "starting", !.day = today]]
    /\ UNCHANGED <<log, runs, lock, today, handled, found, cleaned, bundles, arrived>>

\* pg_try_advisory_xact_lock fails: the request answers 409 and leaves no trace.
FindLocked(t) ==
    /\ tick[t].pc = "starting" /\ lock # Nobody
    /\ tick' = [tick EXCEPT ![t] = IdleTick]
    /\ UNCHANGED <<log, runs, lock, today, handled, found, cleaned, bundles, arrived>>

\* Notices a tick may find due: conditions come and go between two ticks, but
\* a decided step is nobody's turn any more.
Conditional == Notices \ (EventNotices \cup handled)

\* The lock is taken, the clean-up runs (it may fail on its own) and every kind
\* of condition is evaluated.
Evaluate(t) ==
    /\ tick[t].pc = "starting" /\ lock = Nobody
    /\ lock' = t
    /\ \E toRead \in {{}, HandledUnread}, seen \in SUBSET Conditional :
        /\ tick[t].day \notin BusinessDays => seen = {}
        /\ tick' = [tick EXCEPT ![t].pc = "evaluated", ![t].seen = seen, ![t].toRead = toRead]
    /\ UNCHANGED <<log, runs, today, handled, found, cleaned, bundles, arrived>>

Fresh(t) == tick[t].seen \ DOMAIN log

\* The BatchMax oldest of the candidates that have no row yet.
Batch(t) == {n \in Fresh(t) : Cardinality({m \in Fresh(t) : Age[m] < Age[n]}) < BatchMax}

Incomplete(t) == {To[n] : n \in Fresh(t) \ Batch(t)}

WithRows(keys, base) ==
    [n \in DOMAIN base \cup keys |->
        IF n \in DOMAIN base THEN base[n]
        ELSE NewRow(n, Cardinality(DOMAIN base)
                         + Cardinality({m \in keys \ DOMAIN base : Age[m] < Age[n]}))]

MarkRead(keys, base) ==
    [n \in DOMAIN base |-> IF n \in keys THEN [base[n] EXCEPT !.read = TRUE] ELSE base[n]]

\* The transaction commits: rows (ON CONFLICT DO NOTHING), marks and the record
\* of the run appear together, and the lock is free.  A kind whose evaluation
\* failed has contributed nothing and is noted in the record.  What comes next
\* depends on the day and on whether a mail server is configured.
Commit(t) ==
    LET business == tick[t].day \in BusinessDays
    IN  /\ tick[t].pc = "evaluated"
        /\ log' = WithRows(Batch(t), MarkRead(tick[t].toRead, log))
        /\ \E failed \in {FALSE, business} :
             runs' = Append(runs,
               [business |-> business, failed |-> failed, incomplete |-> Incomplete(t),
                claimed |-> 0, sent |-> 0, notSent |-> 0, unknown |-> 0, finished |-> FALSE])
        /\ lock' = Nobody
        /\ cleaned' = cleaned \cup tick[t].toRead
        /\ found' = IF business THEN tick[t].seen ELSE found
        /\ \E next \in {"mailing", "no_smtp"} :
             tick' = [tick EXCEPT ![t] =
                        IF business THEN [IdleTick EXCEPT !.pc = next, !.day = tick[t].day,
                                                          !.run = Len(runs) + 1]
                        ELSE IdleTick]
        /\ UNCHANGED <<today, handled, bundles, arrived>>

\* No mail server: everything that waits is written off, without the lock.
SkipMail(t) ==
    /\ tick[t].pc = "no_smtp"
    /\ log' = [n \in DOMAIN log |->
                  IF log[n].mail = "pending" THEN [log[n] EXCEPT !.mail = "skipped_no_smtp"]
                  ELSE log[n]]
    /\ tick' = [tick EXCEPT ![t] = IdleTick]
    /\ UNCHANGED <<runs, lock, today, handled, found, cleaned, bundles, arrived>>

-----------------------------------------------------------------------------
(* The mail loop. *)

\* Top of the loop: the budget of the request is used up, or the clock is read
\* for the next claim.
StartMail(t) ==
    /\ tick[t].pc = "mailing"
    /\ \/ tick' = [tick EXCEPT ![t].pc = "claiming", ![t].now = today]
       \/ Goto(t, "finishing")
    /\ UNCHANGED <<log, runs, lock, today, handled, found, cleaned, bundles, arrived>>

BusinessRuns == {i \in DOMAIN runs : runs[i].business}

\* Mutant: the run of a holiday speaks for the evaluation before it.
LatestRunOfAnyDay == Len(runs)

LatestRun == CHOOSE i \in BusinessRuns : \A j \in BusinessRuns : j <= i

\* Mutant: rows of handled steps go out like the others.
MailableIfPending(n) == log[n].mail = "pending"

Mailable(n) == log[n].mail = "pending" /\ ~ (n \in StepNotices /\ log[n].read)

\* Mutant: only mails known to have arrived count.
MailedSentSince(r, day) ==
    \E n \in DOMAIN log : To[n] = r /\ log[n].attempted >= day /\ log[n].mail = "sent"

MailedSince(r, day) ==
    \E n \in DOMAIN log : To[n] = r /\ log[n].attempted >= day /\ log[n].mail \in Attempted

\* Rows whose recipient may get a mail now.
Claimable(t) ==
    {n \in DOMAIN log :
        /\ Mailable(n)
        /\ To[n] \notin runs[LatestRun].incomplete
        /\ ~ MailedSince(To[n], tick[t].day)}

\* claimNextEmailBundle: nobody if the latest evaluation failed; otherwise all
\* waiting rows of the recipient of the oldest row.
Claim(t) ==
    /\ tick[t].pc = "claiming" /\ lock = Nobody
    /\ IF runs[LatestRun].failed \/ Claimable(t) = {}
       THEN Goto(t, "finishing") /\ UNCHANGED <<log, runs, bundles>>
       ELSE LET oldest == CHOOSE n \in Claimable(t) :
                             \A m \in Claimable(t) : log[n].seq <= log[m].seq
                keys == {n \in DOMAIN log : To[n] = To[oldest] /\ Mailable(n)}
                bundle == [by |-> tick[t].run, to |-> To[oldest], day |-> tick[t].now,
                           keys |-> keys]
            IN  /\ log' = [n \in DOMAIN log |->
                              IF n \in keys
                              THEN [log[n] EXCEPT !.mail = "sending", !.attempted = tick[t].now]
                              ELSE log[n]]
                /\ runs' = [runs EXCEPT ![tick[t].run].claimed = @ + 1]
                /\ bundles' = bundles \cup {bundle}
                /\ tick' = [tick EXCEPT ![t].pc = "sending", ![t].now = 0, ![t].bundle = bundle]
    /\ UNCHANGED <<lock, today, handled, found, cleaned, arrived>>

\* Mutant: the claim is tried again as long as it takes.
ClaimAgain(t) ==
    /\ tick[t].pc = "claiming" /\ lock # Nobody
    /\ Goto(t, "mailing")
    /\ UNCHANGED <<log, runs, lock, today, handled, found, cleaned, bundles, arrived>>

\* The wait for the lock runs into lock_timeout: no more mail in this tick.
ClaimTimesOut(t) ==
    /\ tick[t].pc = "claiming" /\ lock # Nobody
    /\ Goto(t, "finishing")
    /\ UNCHANGED <<log, runs, lock, today, handled, found, cleaned, bundles, arrived>>

\* Mutant: a mail whose fate is not known counts as failed.
OutcomeOfPessimist(result) ==
    CASE result = "sent" -> "sent" [] result = "rejected" -> "failed"
      [] result = "indeterminate" -> "failed"

OutcomeOf(result) ==
    CASE result = "sent" -> "sent" [] result = "rejected" -> "failed"
      [] result = "indeterminate" -> "unknown"

\* The mail server: an accepted mail arrives, a rejected one does not, and of
\* one that ran into the deadline nobody knows.
Send(t) ==
    /\ tick[t].pc = "sending"
    /\ \E result \in {"sent", "rejected", "indeterminate"} :
        /\ \/ result # "rejected" /\ arrived' = arrived \cup {tick[t].bundle}
           \/ result # "sent" /\ UNCHANGED arrived
        /\ tick' = [tick EXCEPT ![t].pc = "recording", ![t].outcome = OutcomeOf(result)]
    /\ UNCHANGED <<log, runs, lock, today, handled, found, cleaned, bundles>>

RecordedRun(run, outcome) ==
    CASE outcome = "sent"    -> [run EXCEPT !.sent = @ + 1]
      [] outcome = "failed"  -> [run EXCEPT !.notSent = @ + 1]
      [] outcome = "unknown" -> [run EXCEPT !.unknown = @ + 1]

\* recordEmailOutcome: rows and counters in one transaction, then the next mail.
Record(t) ==
    /\ tick[t].pc = "recording"
    /\ log' = [n \in DOMAIN log |->
                  IF n \in tick[t].bundle.keys /\ log[n].mail = "sending"
                  THEN [log[n] EXCEPT !.mail = tick[t].outcome] ELSE log[n]]
    /\ runs' = [runs EXCEPT ![tick[t].run] = RecordedRun(@, tick[t].outcome)]
    /\ tick' = [tick EXCEPT ![t].pc = "mailing", ![t].bundle = NoBundle, ![t].outcome = "none"]
    /\ UNCHANGED <<lock, today, handled, found, cleaned, bundles, arrived>>

Finish(t) ==
    /\ tick[t].pc = "finishing"
    /\ runs' = [runs EXCEPT ![tick[t].run].finished = TRUE]
    /\ tick' = [tick EXCEPT ![t] = IdleTick]
    /\ UNCHANGED <<log, lock, today, handled, found, cleaned, bundles, arrived>>

\* Mutant: a tick that dies still writes the end of its run.
DieTidily(t) ==
    /\ tick[t] # IdleTick
    /\ tick' = [tick EXCEPT ![t] = IdleTick]
    /\ lock' = IF lock = t THEN Nobody ELSE lock
    /\ runs' = IF tick[t].run = 0 THEN runs ELSE [runs EXCEPT ![tick[t].run].finished = TRUE]
    /\ UNCHANGED <<log, today, handled, found, cleaned, bundles, arrived>>

\* The server is stopped, a transaction runs into its deadline, a statement
\* throws: the open transaction is rolled back, what was committed stays.
Die(t) ==
    /\ tick[t] # IdleTick
    /\ tick' = [tick EXCEPT ![t] = IdleTick]
    /\ lock' = IF lock = t THEN Nobody ELSE lock
    /\ UNCHANGED <<log, runs, today, handled, found, cleaned, bundles, arrived>>

-----------------------------------------------------------------------------
(* The surroundings. *)

NextDay ==
    /\ today < MaxDay
    /\ today' = today + 1
    /\ UNCHANGED <<log, runs, lock, tick, handled, found, cleaned, bundles, arrived>>

\* Somebody decides the approval step; the row of the person who did is marked
\* read unless another transaction holds it (markStepNotificationsRead).
HandleStep(n) ==
    /\ n \in StepNotices \ handled
    /\ handled' = handled \cup {n}
    /\ \/ n \in DOMAIN log /\ log' = MarkRead({n}, log)
       \/ UNCHANGED log
    /\ UNCHANGED <<runs, lock, tick, today, found, cleaned, bundles, arrived>>

\* An application, a new QR code, a full event: the action itself inserts the
\* notice, without the tick lock (insertEventNotifications).
InsertEvent(n) ==
    /\ n \in EventNotices \ DOMAIN log
    /\ log' = WithRows({n}, log)
    /\ UNCHANGED <<runs, lock, tick, today, handled, found, cleaned, bundles, arrived>>

\* A recipient opens the inbox: all rows are read (openInbox).
OpenInbox(r) ==
    /\ log' = MarkRead({n \in DOMAIN log \cap StepNotices : To[n] = r}, log)
    /\ UNCHANGED <<runs, lock, tick, today, handled, found, cleaned, bundles, arrived>>

-----------------------------------------------------------------------------
Init ==
    /\ log = [n \in {} |-> NewRow(n, 0)]
    /\ runs = <<>>
    /\ lock = Nobody
    /\ tick = [t \in Ticks |-> IdleTick]
    /\ today = 1
    /\ handled = {}
    /\ found = {}
    /\ cleaned = {}
    /\ bundles = {}
    /\ arrived = {}

Work(t) ==
    \/ FindLocked(t) \/ Evaluate(t) \/ Commit(t) \/ SkipMail(t)
    \/ StartMail(t) \/ Claim(t) \/ ClaimTimesOut(t) \/ Send(t) \/ Record(t) \/ Finish(t)

Next ==
    \/ \E t \in Ticks : Begin(t) \/ Work(t) \/ Die(t)
    \/ NextDay
    \/ \E n \in Notices : HandleStep(n) \/ InsertEvent(n)
    \/ \E r \in Recipients : OpenInbox(r)

Spec == Init /\ [][Next]_vars

\* The runtime and the database carry a tick on; Die may still end it early.
FairSpec == Spec /\ \A t \in Ticks : WF_vars(Work(t))

-----------------------------------------------------------------------------
(* Properties. *)

Bundle == [by : Nat, to : Recipients \cup {Nobody}, day : Nat, keys : SUBSET Notices]

\* Every variable holds a value of its kind; only a tick inside its first
\* transaction holds the lock, and a tick that mails has a run of its own.
TypeOK ==
    /\ DOMAIN log \subseteq Notices /\ \A n \in DOMAIN log : log[n] \in Row
    /\ runs \in Seq(Run)
    /\ lock \in Ticks \cup {Nobody}
    /\ today \in Nat /\ handled \subseteq StepNotices
    /\ found \subseteq Notices /\ cleaned \subseteq handled
    /\ bundles \subseteq Bundle /\ arrived \subseteq bundles
    /\ DOMAIN tick = Ticks
    /\ \A t \in Ticks :
        /\ tick[t].pc = "evaluated" <=> lock = t
        /\ tick[t].pc \in {"mailing", "claiming", "sending", "recording", "finishing"} =>
             tick[t].run \in DOMAIN runs /\ runs[tick[t].run].business
        /\ tick[t].pc \in {"sending", "recording"} => tick[t].bundle \in bundles

\* Nobody gets two mails on one day, and no notice is mailed twice, however many
\* ticks overlap, die or run past midnight (D-4203, D-4213).
OneMailADay ==
    \A b, c \in bundles : b # c => /\ b.to = c.to => b.day # c.day
                                   /\ b.keys \cap c.keys = {}

\* A row that was claimed belongs to exactly one mail and keeps the date of it,
\* and while the mail is under way nobody else settles its rows: the outcome
\* that the tick will record finds them as it left them.
ClaimedRowsAreOwned ==
    /\ \A n \in DOMAIN log :
         log[n].mail \in Attempted <=> \E b \in bundles : n \in b.keys /\ b.day = log[n].attempted
    /\ \A t \in Ticks : tick[t].pc \in {"sending", "recording"} =>
         \A n \in tick[t].bundle.keys : log[n].mail = "sending"

\* What the log says of a mail is what happened to it: sent mails arrived, failed
\* ones did not, and rows never claimed were never mailed (D-4216).
OutcomeIsHonest ==
    \A n \in DOMAIN log :
        LET mailed == \E b \in arrived : n \in b.keys
        IN  /\ log[n].mail = "sent" => mailed
            /\ log[n].mail \in {"failed", "pending", "skipped_no_smtp", "skipped_rule_off"} => ~ mailed

\* The counters of a run add up: at most the one mail a tick is busy with, or
\* died with, has no outcome, and a finished run has accounted for every mail.
CountersAddUp ==
    \A i \in DOMAIN runs :
        LET open == runs[i].claimed - runs[i].sent - runs[i].notSent - runs[i].unknown
            busy == \E t \in Ticks : tick[t].run = i /\ tick[t].pc \in {"sending", "recording"}
        IN  /\ open \in {0, 1}
            /\ busy => open = 1
            /\ runs[i].finished => open = 0
            /\ Cardinality({b \in bundles : b.by = i}) = runs[i].claimed

\* A mail is whole: when it is claimed, every notice that the latest evaluation
\* found for its recipient is in the log and, if it is still to be mailed, in
\* the mail; nothing is held back for a second mail that day would not allow.
MailsAreWhole ==
    [][\A b \in bundles' \ bundles :
         /\ ~ runs[LatestRun].failed
         /\ \A n \in found :
              To[n] = b.to => n \in DOMAIN log /\ (Mailable(n) => n \in b.keys)]_vars

\* A step that was decided before a tick whose clean-up ran is not announced by
\* mail afterwards (07-14 K25, P3-4).
HandledStepsAreNotAnnounced ==
    [][\A b \in bundles' \ bundles : b.keys \cap cleaned = {}]_vars

\* Every tick comes to an end: no two ticks wait for each other, and the mail
\* loop runs out of recipients.
TicksEnd == \A t \in Ticks : tick[t] # IdleTick ~> tick[t] = IdleTick

=============================================================================
