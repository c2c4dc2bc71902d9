-------------------------- MODULE NotifyTickProofs --------------------------
(***************************************************************************)
(* Theorems about NotifyTick, for any number of overlapping ticks, notices *)
(* and recipients, any batch and any calendar.                             *)
(***************************************************************************)
EXTENDS NotifyTick, FiniteSetTheorems, WellFoundedInduction, TLAPS

-----------------------------------------------------------------------------
(* Least and greatest elements. *)

NatLess == {pair \in Nat \X Nat : pair[1] < pair[2]}

LEMMA NotLess ==
    ASSUME NEW x \in Nat, NEW y \in Nat, ~ (<<y, x>> \in NatLess)
    PROVE  x <= y
BY DEF NatLess

LEMMA NatLessIsWellFounded == IsWellFoundedOn(NatLess, Nat)
<1>1. OpToRel(<, Nat) = NatLess
  BY Zenon DEF OpToRel, NatLess
<1> QED BY <1>1, NatLessThanWellFounded, Zenon

\* A non-empty set of numbers has a least element.
LEMMA LeastExists ==
    ASSUME NEW S \in SUBSET Nat, S # {}
    PROVE  \E x \in S : \A y \in S : x <= y
<1>1. PICK x \in S : \A y \in S : ~ (<<y, x>> \in NatLess)
  BY WFMin, NatLessIsWellFounded
<1>2. \A y \in S : x <= y
  BY <1>1, NotLess
<1> QED BY <1>2

\* A non-empty set of positions in a sequence has a last one.
LEMMA LastExists ==
    ASSUME NEW m \in Nat, NEW S \in SUBSET (1 .. m), S # {}
    PROVE  \E x \in S : \A y \in S : y <= x
<1> DEFINE T == {m - x : x \in S}
<1>1. T \in SUBSET Nat /\ T # {}
  <2>1. \A x \in S : m - x \in Nat
    OBVIOUS
  <2> QED BY <2>1
<1>2. PICK d \in T : \A e \in T : d <= e
  BY <1>1, LeastExists
<1>3. PICK x \in S : d = m - x
  BY <1>2
<1>4. \A y \in S : m - x <= m - y
  BY <1>2, <1>3
<1>5. \A y \in S : y <= x
  BY <1>4
<1> QED BY <1>5

-----------------------------------------------------------------------------
(* The log. *)

IsLog(rows) == DOMAIN rows \subseteq Notices /\ \A n \in DOMAIN rows : rows[n] \in Row

\* What happens to the log outside of the mail loop: rows appear, rows are
\* marked as read, rows that wait are written off; no row of a mail changes.
Grows(old, new) ==
    /\ IsLog(new)
    /\ DOMAIN old \subseteq DOMAIN new
    /\ \A n \in DOMAIN old :
         /\ old[n].read => new[n].read
         /\ old[n].mail \in Attempted =>
              new[n].mail = old[n].mail /\ new[n].attempted = old[n].attempted
         /\ old[n].mail \notin Attempted => new[n].mail \notin Attempted
    /\ \A n \in DOMAIN new \ DOMAIN old : new[n].mail \notin Attempted

LEMMA SameLogGrows == ASSUME NEW rows, IsLog(rows) PROVE Grows(rows, rows)
BY DEF Grows

LEMMA GrowsOn ==
    ASSUME NEW a, NEW b, NEW c, Grows(a, b), Grows(b, c)
    PROVE  Grows(a, c)
BY DEF Grows

LEMMA MarkReadGrows ==
    ASSUME NEW rows, IsLog(rows), NEW keys
    PROVE  /\ Grows(rows, MarkRead(keys, rows))
           /\ DOMAIN MarkRead(keys, rows) = DOMAIN rows
           /\ \A n \in keys \cap DOMAIN rows : MarkRead(keys, rows)[n].read
<1> DEFINE new == MarkRead(keys, rows)
<1>1. DOMAIN new = DOMAIN rows
  BY DEF MarkRead
<1>2. ASSUME NEW n \in DOMAIN rows
      PROVE  /\ new[n] \in Row /\ new[n].mail = rows[n].mail
             /\ new[n].attempted = rows[n].attempted
             /\ rows[n].read => new[n].read
             /\ n \in keys => new[n].read
  <2>1. rows[n] \in Row
    BY DEF IsLog
  <2>2. new[n] = IF n \in keys THEN [rows[n] EXCEPT !.read = TRUE] ELSE rows[n]
    BY DEF MarkRead
  <2> HIDE DEF new
  <2> QED BY <2>1, <2>2 DEF Row
<1> HIDE DEF new
<1>3. Grows(rows, new)
  BY <1>1, <1>2 DEF Grows, IsLog
<1> QED BY <1>1, <1>2, <1>3 DEF new

LEMMA NewRowType ==
    ASSUME NEW n, NEW seq \in Nat
    PROVE  NewRow(n, seq) \in Row /\ NewRow(n, seq).mail \notin Attempted
<1>1. CASE n \in QuietNotices
  BY <1>1 DEF NewRow, Row, MailStatuses, Attempted
<1>2. CASE n \notin QuietNotices
  BY <1>2 DEF NewRow, Row, MailStatuses, Attempted
<1> QED BY <1>1, <1>2

LEMMA WithRowsGrows ==
    ASSUME NEW rows, IsLog(rows), NEW keys \in SUBSET Notices
    PROVE  /\ Grows(rows, WithRows(keys, rows))
           /\ DOMAIN WithRows(keys, rows) = DOMAIN rows \cup keys
<1> DEFINE new == WithRows(keys, rows)
           Place(n) == Cardinality(DOMAIN rows)
                         + Cardinality({m \in keys \ DOMAIN rows : Age[m] < Age[n]})
<1>1. DOMAIN new = DOMAIN rows \cup keys
  BY DEF WithRows
<1>2. \A n \in DOMAIN rows : new[n] = rows[n]
  BY DEF WithRows
<1>3. \A n \in keys \ DOMAIN rows : new[n] = NewRow(n, Place(n))
  BY DEF WithRows
<1>4. ASSUME NEW n
      PROVE  Place(n) \in Nat
  <2>1. IsFiniteSet(DOMAIN rows)
    BY NoticesAreFinite, FS_Subset DEF IsLog
  <2>2. IsFiniteSet({m \in keys \ DOMAIN rows : Age[m] < Age[n]})
    <3>1. {m \in keys \ DOMAIN rows : Age[m] < Age[n]} \subseteq Notices
      OBVIOUS
    <3> QED BY <3>1, NoticesAreFinite, FS_Subset
  <2>3. Cardinality(DOMAIN rows) \in Nat
    BY <2>1, FS_CardinalityType
  <2>4. Cardinality({m \in keys \ DOMAIN rows : Age[m] < Age[n]}) \in Nat
    BY <2>2, FS_CardinalityType
  <2> QED BY <2>3, <2>4
<1> HIDE DEF new, Place
<1>5. \A n \in keys \ DOMAIN rows : new[n] \in Row /\ new[n].mail \notin Attempted
  BY <1>3, <1>4, NewRowType
<1>6. Grows(rows, new)
  BY <1>1, <1>2, <1>5 DEF Grows, IsLog
<1> QED BY <1>1, <1>6 DEF new

-----------------------------------------------------------------------------
(* The inductive invariant.  A mail is claimed by a row-by-row change of the *)
(* log under the tick lock and settled later without it; what keeps two      *)
(* ticks apart is that the rows of a mail are marked and belong to it alone, *)
(* and that every tick that mails counts in a run of its own.                *)

Phases == {"idle", "starting", "evaluated", "mailing", "no_smtp", "claiming", "sending",
           "recording", "finishing"}
InRun == {"mailing", "no_smtp", "claiming", "sending", "recording", "finishing"}
Busy == {"sending", "recording"}

Request == [pc : Phases, day : Nat, now : Nat, seen : SUBSET Notices, toRead : SUBSET Notices,
            run : Nat, bundle : Bundle \cup {NoBundle},
            outcome : {"none", "sent", "failed", "unknown"}]

\* The mails of a run without an outcome.
Open(run) == run.claimed - run.sent - run.notSent - run.unknown

BundlesOf(i) == {b \in bundles : b.by = i}

Types ==
    /\ IsLog(log)
    /\ runs \in Seq(Run)
    /\ lock \in Ticks \cup {Nobody}
    /\ tick \in [Ticks -> Request]
    /\ today \in Nat
    /\ handled \subseteq StepNotices /\ found \subseteq Notices
    /\ bundles \subseteq Bundle /\ IsFiniteSet(bundles)

\* Two ticks never count in the same run, and only a tick inside its first
\* transaction holds the lock.
TicksAreApart ==
    /\ \A t \in Ticks : tick[t].pc = "evaluated" <=> lock = t
    /\ \A t, u \in Ticks : tick[t].run = tick[u].run /\ tick[t].run # 0 => t = u

\* What a tick knows is still true when it acts on it.
TickSound(t) ==
    /\ tick[t].pc \in InRun <=> tick[t].run # 0
    /\ tick[t].run # 0 =>
         /\ tick[t].run \in DOMAIN runs
         /\ runs[tick[t].run].business /\ ~ runs[tick[t].run].finished
         /\ Open(runs[tick[t].run]) = (IF tick[t].pc \in Busy THEN 1 ELSE 0)
    /\ tick[t].day <= today
    /\ tick[t].pc = "claiming" => tick[t].day <= tick[t].now
    /\ tick[t].pc = "evaluated" => tick[t].toRead \subseteq DOMAIN log \cap handled
    /\ tick[t].pc \in Busy =>
         /\ tick[t].bundle \in bundles /\ tick[t].bundle.by = tick[t].run
         /\ \A n \in tick[t].bundle.keys : log[n].mail = "sending"
    /\ tick[t].pc = "sending" => tick[t].bundle \notin arrived
    /\ tick[t].pc = "recording" =>
         /\ tick[t].outcome # "none"
         /\ tick[t].outcome = "sent" => tick[t].bundle \in arrived
         /\ tick[t].outcome = "failed" => tick[t].bundle \notin arrived

\* The rows of a mail name its recipient and its day, every attempted row is of
\* some mail, and what a row says of its mail is true.
MailsAreRows ==
    /\ \A b \in bundles :
         /\ b.keys # {} /\ b.keys \subseteq DOMAIN log
         /\ \A n \in b.keys :
              /\ To[n] = b.to /\ log[n].attempted = b.day /\ log[n].mail \in Attempted
              /\ log[n].mail = "sent" => b \in arrived
              /\ log[n].mail = "failed" => b \notin arrived
    /\ \A n \in DOMAIN log : log[n].mail \in Attempted => \E b \in bundles : n \in b.keys
    /\ arrived \subseteq bundles
    /\ OneMailADay

RunsAddUp ==
    /\ \A b \in bundles : b.by \in DOMAIN runs
    /\ \A i \in DOMAIN runs :
         /\ Open(runs[i]) \in {0, 1}
         /\ runs[i].finished => Open(runs[i]) = 0
         /\ Cardinality(BundlesOf(i)) = runs[i].claimed

\* What the latest evaluation found is in the log, or its recipient is noted as
\* one whose notices are not all there.
FoundIsLogged ==
    BusinessRuns # {} => \A n \in found \ DOMAIN log : To[n] \in runs[LatestRun].incomplete

CleanedIsRead ==
    cleaned \subseteq handled /\ \A n \in cleaned : n \in DOMAIN log /\ log[n].read

IInv ==
    /\ Types
    /\ TicksAreApart
    /\ \A t \in Ticks : TickSound(t)
    /\ MailsAreRows
    /\ RunsAddUp
    /\ FoundIsLogged
    /\ CleanedIsRead

-----------------------------------------------------------------------------
(* What one step leaves as it was. *)

LEMMA IdleIsARequest == IdleTick \in Request
BY DEF IdleTick, Request, Phases, Bundle

\* A tick that does not move stays sound as long as nobody touches its run, its
\* rows and its mail.
LEMMA OthersStaySound ==
    ASSUME IInv, NEW u \in Ticks, tick'[u] = tick[u], tick[u] \in Request,
           today' \in Nat, today <= today', handled \subseteq handled',
           DOMAIN log \subseteq DOMAIN log',
           tick[u].pc \in Busy => \A n \in tick[u].bundle.keys : log'[n].mail = log[n].mail,
           tick[u].run # 0 => tick[u].run \in DOMAIN runs' /\ runs'[tick[u].run] = runs[tick[u].run],
           bundles \subseteq bundles',
           tick[u].pc \in Busy => (tick[u].bundle \in arrived' <=> tick[u].bundle \in arrived)
    PROVE  TickSound(u)'
<1>1. TickSound(u) /\ tick[u].day \in Nat /\ today \in Nat
  BY DEF IInv, Types, Request
<1>2. tick[u].day <= today'
  BY <1>1 DEF TickSound
<1> QED BY <1>1, <1>2 DEF TickSound, Busy

\* A growing log does not disturb the mails.
LEMMA GrowthKeepsMails ==
    ASSUME IInv, Grows(log, log'), bundles' = bundles, arrived' = arrived
    PROVE  MailsAreRows'
<1>1. MailsAreRows
  BY DEF IInv
<1>2. OneMailADay'
  BY <1>1 DEF MailsAreRows, OneMailADay
<1>3. \A b \in bundles :
         /\ b.keys # {} /\ b.keys \subseteq DOMAIN log'
         /\ \A n \in b.keys :
              /\ To[n] = b.to /\ log'[n].attempted = b.day /\ log'[n].mail \in Attempted
              /\ log'[n].mail = "sent" => b \in arrived
              /\ log'[n].mail = "failed" => b \notin arrived
  BY <1>1 DEF MailsAreRows, Grows
<1>4. \A n \in DOMAIN log' : log'[n].mail \in Attempted => \E b \in bundles : n \in b.keys
  BY <1>1 DEF MailsAreRows, Grows
<1>5. arrived \subseteq bundles
  BY <1>1 DEF MailsAreRows
<1> QED BY <1>2, <1>3, <1>4, <1>5 DEF MailsAreRows

\* Nor the rows of a mail that is under way.
LEMMA GrowthKeepsBusy ==
    ASSUME IInv, Grows(log, log'), NEW u \in Ticks, tick[u].pc \in Busy
    PROVE  \A n \in tick[u].bundle.keys : log'[n].mail = log[n].mail
<1>1. TickSound(u) /\ MailsAreRows
  BY DEF IInv
<1>2. tick[u].bundle \in bundles
  BY <1>1 DEF TickSound
<1> QED BY <1>1, <1>2 DEF MailsAreRows, Grows

\* A growing log under the same runs.
LEMMA GrowthKeepsFound ==
    ASSUME IInv, DOMAIN log \subseteq DOMAIN log', UNCHANGED <<runs, found>>
    PROVE  FoundIsLogged'
<1>1. BusinessRuns' = BusinessRuns
  BY DEF BusinessRuns
<1>2. LatestRun' = LatestRun
  BY <1>1 DEF LatestRun
<1>3. FoundIsLogged
  BY DEF IInv
<1> QED BY <1>1, <1>2, <1>3 DEF FoundIsLogged

LEMMA GrowthKeepsCleaned ==
    ASSUME IInv, Grows(log, log'), cleaned' = cleaned, handled \subseteq handled'
    PROVE  CleanedIsRead'
BY DEF IInv, CleanedIsRead, Grows

\* Steps of the surroundings.
LEMMA OutsideStep ==
    ASSUME IInv, Grows(log, log'), UNCHANGED <<runs, lock, tick, found, cleaned, bundles, arrived>>,
           today' \in Nat, today <= today', handled \subseteq handled', handled' \subseteq StepNotices
    PROVE  IInv'
<1>1. Types /\ Types'
  BY DEF IInv, Types, Grows
<1>2. TicksAreApart' /\ RunsAddUp'
  BY DEF IInv, TicksAreApart, RunsAddUp, BundlesOf
<1>3. ASSUME NEW u \in Ticks PROVE TickSound(u)'
  <2>1. tick[u] \in Request
    BY <1>1 DEF Types
  <2>2. DOMAIN log \subseteq DOMAIN log'
    BY DEF Grows
  <2>3. tick[u].run # 0 => tick[u].run \in DOMAIN runs
    BY DEF IInv, TickSound
  <2> QED BY <2>1, <2>2, <2>3, GrowthKeepsBusy, OthersStaySound
<1>4. MailsAreRows' /\ FoundIsLogged' /\ CleanedIsRead'
  BY GrowthKeepsMails, GrowthKeepsFound, GrowthKeepsCleaned DEF Grows
<1> QED BY <1>1, <1>2, <1>3, <1>4 DEF IInv

\* Steps of one tick that leave the runs and the mails alone.
LEMMA TickStep ==
    ASSUME IInv, NEW t \in Ticks, tick' \in [Ticks -> Request],
           \A u \in Ticks : u # t => tick'[u] = tick[u],
           lock' \in Ticks \cup {Nobody},
           \A u \in Ticks : tick'[u].pc = "evaluated" <=> lock' = u,
           tick'[t].run \in {0, tick[t].run}, TickSound(t)',
           Grows(log, log'), UNCHANGED <<runs, today, handled, found, cleaned, bundles, arrived>>
    PROVE  IInv'
<1>1. Types /\ Types'
  BY DEF IInv, Types, Grows
<1>2. TicksAreApart'
  BY <1>1 DEF IInv, TicksAreApart
<1>3. RunsAddUp'
  BY DEF IInv, RunsAddUp, BundlesOf
<1>4. ASSUME NEW u \in Ticks PROVE TickSound(u)'
  <2>1. tick[u] \in Request /\ today \in Nat
    BY <1>1 DEF Types
  <2>2. DOMAIN log \subseteq DOMAIN log' /\ today <= today
    BY <2>1 DEF Grows
  <2>3. tick[u].run # 0 => tick[u].run \in DOMAIN runs
    BY DEF IInv, TickSound
  <2> QED BY <2>1, <2>2, <2>3, GrowthKeepsBusy, OthersStaySound
<1>5. MailsAreRows' /\ FoundIsLogged' /\ CleanedIsRead'
  BY GrowthKeepsMails, GrowthKeepsFound, GrowthKeepsCleaned DEF Grows
<1> QED BY <1>1, <1>2, <1>3, <1>4, <1>5 DEF IInv

-----------------------------------------------------------------------------
(* The surroundings and the steps of a tick around its mails. *)

LEMMA NextDayStep ==
    ASSUME IInv, NextDay
    PROVE  IInv'
<1>1. /\ today' = today + 1 /\ today \in Nat /\ IsLog(log) /\ handled \subseteq StepNotices
      /\ UNCHANGED <<log, runs, lock, tick, handled, found, cleaned, bundles, arrived>>
  BY DEF NextDay, IInv, Types
<1>2. Grows(log, log') /\ today' \in Nat /\ today <= today'
  BY <1>1, SameLogGrows
<1> QED BY <1>1, <1>2, OutsideStep

LEMMA HandleStepStep ==
    ASSUME IInv, NEW n \in Notices, HandleStep(n)
    PROVE  IInv'
<1>1. /\ handled' = handled \cup {n} /\ n \in StepNotices /\ today \in Nat /\ IsLog(log)
      /\ handled \subseteq StepNotices
      /\ log' = MarkRead({n}, log) \/ log' = log
      /\ UNCHANGED <<runs, lock, tick, today, found, cleaned, bundles, arrived>>
  BY DEF HandleStep, IInv, Types
<1>2. Grows(log, log')
  BY <1>1, SameLogGrows, MarkReadGrows
<1>3. today <= today /\ handled \subseteq handled' /\ handled' \subseteq StepNotices
  BY <1>1
<1> QED BY <1>1, <1>2, <1>3, OutsideStep

LEMMA InsertEventStep ==
    ASSUME IInv, NEW n \in Notices, InsertEvent(n)
    PROVE  IInv'
<1>1. /\ log' = WithRows({n}, log) /\ today \in Nat /\ IsLog(log) /\ handled \subseteq StepNotices
      /\ UNCHANGED <<runs, lock, tick, today, handled, found, cleaned, bundles, arrived>>
  BY DEF InsertEvent, IInv, Types
<1>2. Grows(log, log') /\ today <= today
  <2>1. {n} \in SUBSET Notices
    OBVIOUS
  <2>2. Grows(log, WithRows({n}, log))
    BY <1>1, <2>1, WithRowsGrows
  <2> QED BY <1>1, <2>2
<1> QED BY <1>1, <1>2, OutsideStep

LEMMA OpenInboxStep ==
    ASSUME IInv, NEW r \in Recipients, OpenInbox(r)
    PROVE  IInv'
<1>1. /\ log' = MarkRead({n \in DOMAIN log \cap StepNotices : To[n] = r}, log)
      /\ today \in Nat /\ IsLog(log) /\ handled \subseteq StepNotices
      /\ UNCHANGED <<runs, lock, tick, today, handled, found, cleaned, bundles, arrived>>
  BY DEF OpenInbox, IInv, Types
<1>2. Grows(log, log') /\ today <= today
  BY <1>1, MarkReadGrows
<1> QED BY <1>1, <1>2, OutsideStep

\* A tick that ends, by itself or not.
LEMMA TickEnds ==
    ASSUME IInv, NEW t \in Ticks, tick' = [tick EXCEPT ![t] = IdleTick],
           lock' = IF lock = t THEN Nobody ELSE lock, Grows(log, log'),
           UNCHANGED <<runs, today, handled, found, cleaned, bundles, arrived>>
    PROVE  IInv'
<1>1. /\ tick \in [Ticks -> Request] /\ lock \in Ticks \cup {Nobody}
      /\ \A u \in Ticks : tick[u].pc = "evaluated" <=> lock = u
      /\ today \in Nat
  BY DEF IInv, Types, TicksAreApart
<1>2. /\ tick' \in [Ticks -> Request] /\ tick'[t] = IdleTick
      /\ \A u \in Ticks : u # t => tick'[u] = tick[u]
  BY <1>1, IdleIsARequest
<1>3. lock' \in Ticks \cup {Nobody} /\ \A u \in Ticks : tick'[u].pc = "evaluated" <=> lock' = u
  BY <1>1, <1>2, NobodyIsNoTick DEF IdleTick
<1>4. TickSound(t)'
  BY <1>1, <1>2 DEF TickSound, IdleTick, InRun, Busy
<1>5. tick'[t].run \in {0, tick[t].run}
  BY <1>2 DEF IdleTick
<1> QED BY <1>2, <1>3, <1>4, <1>5, TickStep

LEMMA DieStep ==
    ASSUME IInv, NEW t \in Ticks, Die(t)
    PROVE  IInv'
<1>1. Grows(log, log)
  BY SameLogGrows DEF IInv, Types
<1> QED BY <1>1, TickEnds DEF Die

LEMMA FindLockedStep ==
    ASSUME IInv, NEW t \in Ticks, FindLocked(t)
    PROVE  IInv'
<1>1. Grows(log, log)
  BY SameLogGrows DEF IInv, Types
<1>2. lock # t
  BY DEF FindLocked, IInv, TicksAreApart
<1> QED BY <1>1, <1>2, TickEnds DEF FindLocked

LEMMA SkipMailStep ==
    ASSUME IInv, NEW t \in Ticks, SkipMail(t)
    PROVE  IInv'
<1>1. IsLog(log)
  BY DEF IInv, Types
<1>2. DOMAIN log' = DOMAIN log
  BY DEF SkipMail
<1>3. ASSUME NEW n \in DOMAIN log
      PROVE  /\ log'[n] \in Row /\ log'[n].read = log[n].read
             /\ log[n].mail \in Attempted =>
                  log'[n].mail = log[n].mail /\ log'[n].attempted = log[n].attempted
             /\ log[n].mail \notin Attempted => log'[n].mail \notin Attempted
  <2>1. log[n] \in Row
    BY <1>1 DEF IsLog
  <2>2. log'[n] = IF log[n].mail = "pending" THEN [log[n] EXCEPT !.mail = "skipped_no_smtp"]
                  ELSE log[n]
    BY DEF SkipMail
  <2>3. CASE log[n].mail = "pending"
    BY <2>1, <2>2, <2>3 DEF Row, MailStatuses, Attempted
  <2>4. CASE log[n].mail # "pending"
    BY <2>1, <2>2, <2>4
  <2> QED BY <2>3, <2>4
<1>4. Grows(log, log')
  BY <1>1, <1>2, <1>3 DEF Grows, IsLog
<1>5. lock # t
  BY DEF SkipMail, IInv, TicksAreApart
<1> QED BY <1>4, <1>5, TickEnds DEF SkipMail

LEMMA BeginStep ==
    ASSUME IInv, NEW t \in Ticks, Begin(t)
    PROVE  IInv'
<1> DEFINE req == [IdleTick EXCEPT !.pc = "starting", !.day = today]
<1>1. /\ tick \in [Ticks -> Request] /\ lock \in Ticks \cup {Nobody} /\ today \in Nat
      /\ \A u \in Ticks : tick[u].pc = "evaluated" <=> lock = u
      /\ IsLog(log)
  BY DEF IInv, Types, TicksAreApart
<1>2. /\ req \in Request /\ req.pc = "starting" /\ req.day = today /\ req.run = 0
  BY <1>1, IdleIsARequest DEF Request, Phases, IdleTick
<1>3. /\ tick' = [tick EXCEPT ![t] = req] /\ tick[t] = IdleTick
      /\ UNCHANGED <<log, runs, lock, today, handled, found, cleaned, bundles, arrived>>
  BY DEF Begin
<1> HIDE DEF req
<1>4. /\ tick' \in [Ticks -> Request] /\ tick'[t] = req
      /\ \A u \in Ticks : u # t => tick'[u] = tick[u]
  BY <1>1, <1>2, <1>3
<1>5. \A u \in Ticks : tick'[u].pc = "evaluated" <=> lock' = u
  BY <1>1, <1>2, <1>3, <1>4 DEF IdleTick
<1>6. TickSound(t)'
  BY <1>1, <1>2, <1>3, <1>4 DEF TickSound, InRun, Busy
<1> QED BY <1>1, <1>2, <1>3, <1>4, <1>5, <1>6, SameLogGrows, TickStep

LEMMA EvaluateStep ==
    ASSUME IInv, NEW t \in Ticks, Evaluate(t)
    PROVE  IInv'
<1>1. /\ tick \in [Ticks -> Request] /\ lock = Nobody /\ today \in Nat /\ lock' = t
      /\ \A u \in Ticks : tick[u].pc = "evaluated" <=> lock = u
      /\ IsLog(log) /\ handled \subseteq StepNotices /\ tick[t].pc = "starting"
      /\ UNCHANGED <<log, runs, today, handled, found, cleaned, bundles, arrived>>
  BY DEF IInv, Types, TicksAreApart, Evaluate
<1>2. PICK toRead \in {{}, HandledUnread}, seen \in SUBSET Conditional :
        tick' = [tick EXCEPT ![t].pc = "evaluated", ![t].seen = seen, ![t].toRead = toRead]
  BY DEF Evaluate
<1>3. toRead \subseteq DOMAIN log \cap handled /\ toRead \subseteq Notices /\ seen \subseteq Notices
  BY <1>1, <1>2 DEF HandledUnread, Conditional, IsLog
<1> DEFINE req == [tick[t] EXCEPT !.pc = "evaluated", !.seen = seen, !.toRead = toRead]
<1>4. /\ req \in Request /\ req.pc = "evaluated" /\ req.toRead = toRead
      /\ req.run = tick[t].run /\ req.day = tick[t].day
  BY <1>1, <1>3 DEF Request, Phases
<1>5. tick' = [tick EXCEPT ![t] = req]
  BY <1>1, <1>2
<1> HIDE DEF req
<1>6. /\ tick' \in [Ticks -> Request] /\ tick'[t] = req
      /\ \A u \in Ticks : u # t => tick'[u] = tick[u]
  BY <1>1, <1>4, <1>5
<1>7. \A u \in Ticks : tick'[u].pc = "evaluated" <=> lock' = u
  BY <1>1, <1>4, <1>6, NobodyIsNoTick
<1>8. TickSound(t)'
  <2>1. TickSound(t)
    BY DEF IInv
  <2> QED BY <1>1, <1>3, <1>4, <1>6, <2>1 DEF TickSound, InRun, Busy
<1> QED BY <1>1, <1>4, <1>6, <1>7, <1>8, SameLogGrows, TickStep

\* A tick that moves inside its mail loop and is busy with no mail.
LEMMA LoopStep ==
    ASSUME IInv, NEW t \in Ticks, tick[t].pc \in {"mailing", "claiming"}, NEW req \in Request,
           tick' = [tick EXCEPT ![t] = req], req.pc \in {"mailing", "claiming", "finishing"},
           req.run = tick[t].run, req.day = tick[t].day,
           req.pc = "claiming" => req.now = today,
           UNCHANGED <<log, runs, lock, today, handled, found, cleaned, bundles, arrived>>
    PROVE  IInv'
<1>1. /\ tick \in [Ticks -> Request] /\ lock \in Ticks \cup {Nobody} /\ IsLog(log)
      /\ \A u \in Ticks : tick[u].pc = "evaluated" <=> lock = u
      /\ TickSound(t)
  BY DEF IInv, Types, TicksAreApart
<1>2. /\ tick' \in [Ticks -> Request] /\ tick'[t] = req
      /\ \A u \in Ticks : u # t => tick'[u] = tick[u]
  BY <1>1
<1>3. \A u \in Ticks : tick'[u].pc = "evaluated" <=> lock' = u
  BY <1>1, <1>2
<1>4. TickSound(t)'
  BY <1>1, <1>2 DEF TickSound, InRun, Busy
<1> QED BY <1>1, <1>2, <1>3, <1>4, SameLogGrows, TickStep

LEMMA StartMailStep ==
    ASSUME IInv, NEW t \in Ticks, StartMail(t)
    PROVE  IInv'
<1>1. tick \in [Ticks -> Request] /\ today \in Nat /\ tick[t].pc = "mailing"
        /\ UNCHANGED <<log, runs, lock, today, handled, found, cleaned, bundles, arrived>>
  BY DEF IInv, Types, StartMail
<1>2. CASE tick' = [tick EXCEPT ![t].pc = "claiming", ![t].now = today]
  <2> DEFINE req == [tick[t] EXCEPT !.pc = "claiming", !.now = today]
  <2>1. /\ req \in Request /\ req.pc = "claiming" /\ req.now = today
        /\ req.run = tick[t].run /\ req.day = tick[t].day
    BY <1>1 DEF Request, Phases
  <2>2. tick' = [tick EXCEPT ![t] = req]
    BY <1>1, <1>2
  <2> HIDE DEF req
  <2> QED BY <1>1, <2>1, <2>2, LoopStep
<1>3. CASE Goto(t, "finishing")
  <2> DEFINE req == [tick[t] EXCEPT !.pc = "finishing"]
  <2>1. /\ req \in Request /\ req.pc = "finishing"
        /\ req.run = tick[t].run /\ req.day = tick[t].day
    BY <1>1 DEF Request, Phases
  <2>2. tick' = [tick EXCEPT ![t] = req]
    BY <1>1, <1>3 DEF Goto
  <2> HIDE DEF req
  <2> QED BY <1>1, <2>1, <2>2, LoopStep
<1> QED BY <1>2, <1>3 DEF StartMail

\* A claim that claims nothing, for want of rows or of the lock.
LEMMA NoClaimStep ==
    ASSUME IInv, NEW t \in Ticks, tick[t].pc = "claiming", Goto(t, "finishing"),
           UNCHANGED <<log, runs, lock, today, handled, found, cleaned, bundles, arrived>>
    PROVE  IInv'
<1> DEFINE req == [tick[t] EXCEPT !.pc = "finishing"]
<1>1. tick \in [Ticks -> Request]
  BY DEF IInv, Types
<1>2. /\ req \in Request /\ req.pc = "finishing"
      /\ req.run = tick[t].run /\ req.day = tick[t].day
  BY <1>1 DEF Request, Phases
<1>3. tick' = [tick EXCEPT ![t] = req]
  BY <1>1 DEF Goto
<1> HIDE DEF req
<1> QED BY <1>2, <1>3, LoopStep

-----------------------------------------------------------------------------
(* The first transaction commits. *)

LatestIn(S) == CHOOSE i \in S : \A j \in S : j <= i

\* The latest run of a business day is one, and none comes after it.
LEMMA LatestIsLast ==
    ASSUME NEW m \in Nat, NEW S \in SUBSET (1 .. m), S # {}
    PROVE  LatestIn(S) \in S /\ \A j \in S : j <= LatestIn(S)
<1>1. PICK x \in S : \A y \in S : y <= x
  BY LastExists
<1> QED BY <1>1 DEF LatestIn

\* The record of a run that begins.
NewRun(business, failed, incomplete) ==
    [business |-> business, failed |-> failed, incomplete |-> incomplete,
     claimed |-> 0, sent |-> 0, notSent |-> 0, unknown |-> 0, finished |-> FALSE]

\* The runs with one more behind them.
LEMMA OneMoreRun ==
    ASSUME IInv, NEW run \in Run, run.claimed = 0, Open(run) = 0,
           runs' = Append(runs, run), bundles' = bundles
    PROVE  /\ runs' \in Seq(Run)
           /\ Len(runs) + 1 \in DOMAIN runs' /\ runs'[Len(runs) + 1] = run
           /\ Len(runs) + 1 \notin DOMAIN runs
           /\ DOMAIN runs' = DOMAIN runs \cup {Len(runs) + 1}
           /\ \A i \in DOMAIN runs : i \in DOMAIN runs' /\ runs'[i] = runs[i]
           /\ RunsAddUp'
<1>1. runs \in Seq(Run) /\ RunsAddUp
  BY DEF IInv, Types
<1>2. /\ runs' \in Seq(Run) /\ Len(runs) \in Nat
      /\ DOMAIN runs = 1 .. Len(runs) /\ DOMAIN runs' = 1 .. (Len(runs) + 1)
      /\ runs'[Len(runs) + 1] = run
      /\ \A i \in 1 .. Len(runs) : runs'[i] = runs[i]
  BY <1>1
<1>3. /\ Len(runs) + 1 \notin DOMAIN runs /\ Len(runs) + 1 \in DOMAIN runs'
      /\ DOMAIN runs' = DOMAIN runs \cup {Len(runs) + 1}
  BY <1>2
<1>4. BundlesOf(Len(runs) + 1) = {}
  BY <1>1, <1>3 DEF RunsAddUp, BundlesOf
<1>5. \A i : BundlesOf(i)' = BundlesOf(i)
  BY DEF BundlesOf
<1>6. Cardinality(BundlesOf(Len(runs) + 1)) = run.claimed
  BY <1>4, FS_EmptySet
<1>7. RunsAddUp'
  BY <1>1, <1>2, <1>3, <1>5, <1>6 DEF RunsAddUp
<1> QED BY <1>2, <1>3, <1>7

LEMMA CommitStep ==
    ASSUME IInv, NEW t \in Ticks, Commit(t)
    PROVE  IInv'
<1> DEFINE business == tick[t].day \in BusinessDays
           i == Len(runs) + 1
<1>1. /\ Types /\ TicksAreApart /\ TickSound(t) /\ IsLog(log)
      /\ tick[t] \in Request /\ tick[t].pc = "evaluated" /\ lock = t
      /\ today \in Nat /\ today <= today
  BY DEF IInv, Types, TicksAreApart, Commit
<1>2. /\ log' = WithRows(Batch(t), MarkRead(tick[t].toRead, log))
      /\ lock' = Nobody
      /\ cleaned' = cleaned \cup tick[t].toRead
      /\ found' = IF business THEN tick[t].seen ELSE found
      /\ UNCHANGED <<today, handled, bundles, arrived>>
  BY DEF Commit
<1>3. PICK failed \in {FALSE, business} : runs' = Append(runs, NewRun(business, failed, Incomplete(t)))
  BY DEF Commit, NewRun
<1>4. PICK next \in {"mailing", "no_smtp"} :
        tick' = [tick EXCEPT ![t] =
                   IF business THEN [IdleTick EXCEPT !.pc = next, !.day = tick[t].day, !.run = i]
                   ELSE IdleTick]
  BY DEF Commit
<1> DEFINE run == NewRun(business, failed, Incomplete(t))
           req == IF business THEN [IdleTick EXCEPT !.pc = next, !.day = tick[t].day, !.run = i]
                  ELSE IdleTick
<1>5. Fresh(t) \subseteq Notices /\ Batch(t) \in SUBSET Notices
  BY <1>1 DEF Fresh, Batch, Request
<1>6. /\ run \in Run /\ run.claimed = 0 /\ Open(run) = 0 /\ ~ run.finished
      /\ run.business = business /\ run.incomplete = Incomplete(t)
  <2>1. Incomplete(t) \in SUBSET Recipients
    BY <1>5, EveryNoticeHasARecipient DEF Incomplete
  <2>2. business \in BOOLEAN
    OBVIOUS
  <2>3. failed \in {FALSE, business}
    OBVIOUS
  <2> HIDE DEF business
  <2>4. failed \in BOOLEAN
    BY <2>2, <2>3
  <2> QED BY <2>1, <2>2, <2>4 DEF NewRun, Run, Open
<1>7. /\ runs' \in Seq(Run) /\ i \in DOMAIN runs' /\ runs'[i] = run /\ i \notin DOMAIN runs
      /\ DOMAIN runs' = DOMAIN runs \cup {i}
      /\ \A k \in DOMAIN runs : k \in DOMAIN runs' /\ runs'[k] = runs[k]
      /\ RunsAddUp'
  BY <1>2, <1>3, <1>6, OneMoreRun
<1>8. Len(runs) \in Nat /\ i \in Nat /\ i # 0 /\ DOMAIN runs = 1 .. Len(runs)
  BY <1>1 DEF Types
<1>9. /\ req \in Request /\ req.day <= today
      /\ IF business THEN req.pc = next /\ req.run = i ELSE req.pc = "idle" /\ req.run = 0
  <2>1. tick[t].day \in Nat /\ tick[t].day <= today
    BY <1>1 DEF Request, TickSound
  <2>2. CASE business
    <3>1. req = [IdleTick EXCEPT !.pc = next, !.day = tick[t].day, !.run = i]
      BY <2>2
    <3> HIDE DEF req, i, business
    <3>2. next \in Phases
      BY DEF Phases
    <3> QED BY <1>8, <2>1, <2>2, <3>1, <3>2, IdleIsARequest DEF IdleTick, Request
  <2>3. CASE ~ business
    <3>1. req = IdleTick
      BY <2>3
    <3> HIDE DEF req, i, business
    <3> QED BY <1>1, <2>3, <3>1, IdleIsARequest DEF IdleTick
  <2> QED BY <2>2, <2>3
<1>10. /\ tick' \in [Ticks -> Request] /\ tick'[t] = req
       /\ \A u \in Ticks : u # t => tick'[u] = tick[u]
  <2> HIDE DEF req
  <2> QED BY <1>1, <1>4, <1>9 DEF Types, req
<1> HIDE DEF run, i, business
<1>11. /\ Grows(log, log') /\ DOMAIN log' = DOMAIN log \cup Batch(t)
       /\ \A n \in tick[t].toRead \cap DOMAIN log : log'[n].read
  <2> DEFINE marked == MarkRead(tick[t].toRead, log)
  <2>1. /\ Grows(log, marked) /\ DOMAIN marked = DOMAIN log
        /\ \A n \in tick[t].toRead \cap DOMAIN log : marked[n].read
    BY <1>1, MarkReadGrows
  <2>2. IsLog(marked)
    BY <2>1 DEF Grows
  <2> HIDE DEF marked
  <2>3. /\ Grows(marked, WithRows(Batch(t), marked))
        /\ DOMAIN WithRows(Batch(t), marked) = DOMAIN marked \cup Batch(t)
    BY <1>5, <2>2, WithRowsGrows
  <2>4. log' = WithRows(Batch(t), marked)
    BY <1>2 DEF marked
  <2>5. Grows(log, log')
    BY <2>1, <2>3, <2>4, GrowsOn
  <2>6. \A n \in tick[t].toRead \cap DOMAIN log : log'[n].read
    BY <2>1, <2>3, <2>4 DEF Grows
  <2> QED BY <2>1, <2>3, <2>4, <2>5, <2>6
<1>12. Types'
  BY <1>1, <1>2, <1>7, <1>10, <1>11 DEF Types, Grows, Request
<1>13. TicksAreApart'
  <2>1. \A u \in Ticks : tick'[u].pc = "evaluated" <=> lock' = u
    BY <1>1, <1>2, <1>9, <1>10, NobodyIsNoTick DEF TicksAreApart
  <2>2. \A u \in Ticks : u # t /\ tick'[u].run # 0 => tick'[u].run # tick'[t].run
    <3>1. TAKE u \in Ticks
    <3>2. HAVE u # t /\ tick'[u].run # 0
    <3>3. tick'[u].run \in DOMAIN runs
      BY <1>10, <3>2 DEF IInv, TickSound
    <3> QED BY <1>7, <1>9, <1>10, <3>2, <3>3
  <2>3. \A u, v \in Ticks : tick'[u].run = tick'[v].run /\ tick'[u].run # 0 => u = v
    BY <1>1, <1>10, <2>2 DEF TicksAreApart
  <2> QED BY <2>1, <2>3 DEF TicksAreApart
<1>14. ASSUME NEW u \in Ticks PROVE TickSound(u)'
  <2>1. CASE u # t
    <3>1. tick[u] \in Request /\ tick'[u] = tick[u]
      BY <1>1, <1>10, <2>1 DEF Types
    <3>2. DOMAIN log \subseteq DOMAIN log'
      BY <1>11
    <3>3. tick[u].run # 0 => tick[u].run \in DOMAIN runs
      BY DEF IInv, TickSound
    <3> QED BY <1>1, <1>2, <1>7, <1>11, <3>1, <3>2, <3>3, GrowthKeepsBusy, OthersStaySound
  <2>2. CASE u = t
    <3>1. CASE business
      BY <1>2, <1>6, <1>7, <1>8, <1>9, <1>10, <2>2, <3>1 DEF TickSound, InRun, Busy
    <3>2. CASE ~ business
      BY <1>2, <1>9, <1>10, <2>2, <3>2 DEF TickSound, InRun, Busy
    <3> QED BY <3>1, <3>2
  <2> QED BY <2>1, <2>2
<1>15. MailsAreRows'
  BY <1>2, <1>11, GrowthKeepsMails
<1>16. FoundIsLogged'
  <2>1. LatestRun' = LatestIn(BusinessRuns') /\ LatestRun = LatestIn(BusinessRuns)
    BY DEF LatestRun, LatestIn
  <2>2. CASE business
    <3>1. BusinessRuns' = BusinessRuns \cup {i}
      BY <1>6, <1>7, <2>2 DEF BusinessRuns
    <3>2. BusinessRuns' \in SUBSET (1 .. i) /\ BusinessRuns' # {}
      BY <1>7, <1>8, <3>1 DEF BusinessRuns, i
    <3>3. LatestRun' = i
      <4> DEFINE S == BusinessRuns'
      <4>1. S \in SUBSET (1 .. i) /\ S # {} /\ i \in S
        BY <3>1, <3>2
      <4> HIDE DEF S
      <4>2. LatestIn(S) \in S /\ \A j \in S : j <= LatestIn(S)
        BY <1>8, <4>1, LatestIsLast
      <4>3. LatestIn(S) \in 1 .. i /\ i <= LatestIn(S)
        BY <4>1, <4>2
      <4>4. LatestIn(S) = i
        BY <1>8, <4>3
      <4> QED BY <2>1, <4>4 DEF S
    <3>4. \A n \in tick[t].seen \ DOMAIN log' : To[n] \in Incomplete(t)
      BY <1>11 DEF Incomplete, Fresh
    <3> QED BY <1>2, <1>6, <1>7, <2>2, <3>3, <3>4 DEF FoundIsLogged
  <2>3. CASE ~ business
    <3>1. BusinessRuns' = BusinessRuns
      BY <1>6, <1>7, <2>3 DEF BusinessRuns
    <3>2. LatestRun' = LatestRun
      BY <2>1, <3>1
    <3>3. BusinessRuns # {} => LatestRun \in DOMAIN runs
      <4> DEFINE S == BusinessRuns
      <4>1. S \in SUBSET (1 .. Len(runs))
        BY <1>8 DEF BusinessRuns
      <4> HIDE DEF S
      <4>2. S # {} => LatestIn(S) \in S
        BY <1>8, <4>1, LatestIsLast
      <4> QED BY <1>8, <2>1, <4>1, <4>2 DEF S
    <3>4. FoundIsLogged
      BY DEF IInv
    <3> QED BY <1>2, <1>7, <1>11, <2>3, <3>1, <3>2, <3>3, <3>4 DEF FoundIsLogged
  <2> QED BY <2>2, <2>3
<1>17. CleanedIsRead'
  <2>1. tick[t].toRead \subseteq DOMAIN log \cap handled
    BY <1>1 DEF TickSound
  <2> QED BY <1>2, <1>11, <2>1 DEF IInv, CleanedIsRead, Grows
<1> QED BY <1>7, <1>12, <1>13, <1>14, <1>15, <1>16, <1>17 DEF IInv

-----------------------------------------------------------------------------
(* The mail loop. *)

\* A counter or the end of a run is written.
LEMMA RunChanges ==
    ASSUME IInv, NEW i \in DOMAIN runs, NEW run \in Run, runs' = [runs EXCEPT ![i] = run],
           run.business = runs[i].business, run.incomplete = runs[i].incomplete,
           DOMAIN log \subseteq DOMAIN log', found' = found
    PROVE  /\ runs' \in Seq(Run) /\ DOMAIN runs' = DOMAIN runs
           /\ runs'[i] = run /\ \A k \in DOMAIN runs : k # i => runs'[k] = runs[k]
           /\ FoundIsLogged'
<1>1. runs \in Seq(Run)
  BY DEF IInv, Types
<1>2. /\ runs' \in Seq(Run) /\ DOMAIN runs' = DOMAIN runs
      /\ runs'[i] = run /\ \A k \in DOMAIN runs : k # i => runs'[k] = runs[k]
  BY <1>1
<1>3. \A k \in DOMAIN runs :
        runs'[k].business = runs[k].business /\ runs'[k].incomplete = runs[k].incomplete
  BY <1>2
<1>4. BusinessRuns' = BusinessRuns
  BY <1>2, <1>3 DEF BusinessRuns
<1>5. LatestRun' = LatestRun
  BY <1>4 DEF LatestRun
<1>6. BusinessRuns # {} => LatestRun \in DOMAIN runs
  <2>1. LatestRun = LatestIn(BusinessRuns)
    BY DEF LatestRun, LatestIn
  <2>2. Len(runs) \in Nat /\ BusinessRuns \in SUBSET (1 .. Len(runs))
    BY <1>1 DEF BusinessRuns
  <2>3. BusinessRuns # {} => LatestRun \in BusinessRuns
    BY <2>1, <2>2, LatestIsLast
  <2> QED BY <2>3 DEF BusinessRuns
<1>7. FoundIsLogged
  BY DEF IInv
<1>8. FoundIsLogged'
  BY <1>3, <1>4, <1>5, <1>6, <1>7 DEF FoundIsLogged
<1> QED BY <1>2, <1>8

\* The counters of a run.
LEMMA CountersOfARun ==
    ASSUME NEW run \in Run
    PROVE  /\ run.business \in BOOLEAN /\ run.finished \in BOOLEAN
           /\ run.failed \in BOOLEAN /\ run.incomplete \in SUBSET Recipients
           /\ run.claimed \in Nat /\ run.sent \in Nat /\ run.notSent \in Nat
           /\ run.unknown \in Nat
BY DEF Run

LEMMA OneMoreClaimed ==
    ASSUME NEW run \in Run, NEW more, more = [run EXCEPT !.claimed = @ + 1]
    PROVE  /\ more \in Run
           /\ more.business = run.business /\ more.incomplete = run.incomplete
           /\ more.finished = run.finished /\ more.claimed = run.claimed + 1
           /\ Open(more) = Open(run) + 1
<1>1. run.claimed + 1 \in Nat
  BY CountersOfARun
<1>2. more \in Run
  BY <1>1 DEF Run
<1>3. /\ more.business = run.business /\ more.incomplete = run.incomplete
      /\ more.finished = run.finished /\ more.claimed = run.claimed + 1
      /\ more.sent = run.sent /\ more.notSent = run.notSent /\ more.unknown = run.unknown
  BY DEF Run
<1>4. Open(more) = Open(run) + 1
  BY <1>3, CountersOfARun DEF Open
<1> QED BY <1>2, <1>3, <1>4

\* What a claim that claims something does.
Claims(t, bundle) ==
    /\ ~ runs[LatestRun].failed
    /\ bundle.by = tick[t].run /\ bundle.day = tick[t].now
    /\ bundle.keys = {n \in DOMAIN log : To[n] = bundle.to /\ Mailable(n)}
    /\ bundle.keys # {}
    /\ bundle.to \notin runs[LatestRun].incomplete
    /\ ~ MailedSince(bundle.to, tick[t].day)
    /\ log' = [n \in DOMAIN log |->
                  IF n \in bundle.keys
                  THEN [log[n] EXCEPT !.mail = "sending", !.attempted = tick[t].now]
                  ELSE log[n]]
    /\ runs' = [runs EXCEPT ![tick[t].run].claimed = @ + 1]
    /\ bundles' = bundles \cup {bundle}
    /\ tick' = [tick EXCEPT ![t].pc = "sending", ![t].now = 0, ![t].bundle = bundle]

LEMMA ClaimsOrNot ==
    ASSUME IInv, NEW t \in Ticks, Claim(t)
    PROVE  \/ Goto(t, "finishing") /\ UNCHANGED <<log, runs, bundles>>
           \/ \E bundle \in Bundle : Claims(t, bundle)
<1> DEFINE seqs == {log[n].seq : n \in Claimable(t)}
           oldest == CHOOSE n \in Claimable(t) : \A m \in Claimable(t) : log[n].seq <= log[m].seq
           keys == {n \in DOMAIN log : To[n] = To[oldest] /\ Mailable(n)}
           bundle == [by |-> tick[t].run, to |-> To[oldest], day |-> tick[t].now, keys |-> keys]
<1>1. CASE runs[LatestRun].failed \/ Claimable(t) = {}
  BY <1>1 DEF Claim
<1>2. CASE ~ (runs[LatestRun].failed \/ Claimable(t) = {})
  <2>1. tick[t] \in Request /\ IsLog(log)
    BY DEF IInv, Types
  <2>2. \A n \in Claimable(t) : n \in DOMAIN log /\ n \in Notices /\ log[n].seq \in Nat
    BY <2>1 DEF Claimable, IsLog, Row
  <2>3. seqs \in SUBSET Nat /\ seqs # {}
    BY <1>2, <2>2
  <2>4. \E n \in Claimable(t) : \A m \in Claimable(t) : log[n].seq <= log[m].seq
    <3>1. PICK x \in seqs : \A y \in seqs : x <= y
      BY <2>3, LeastExists
    <3>2. PICK n \in Claimable(t) : x = log[n].seq
      OBVIOUS
    <3>3. \A m \in Claimable(t) : log[n].seq <= log[m].seq
      BY <3>1, <3>2
    <3> QED BY <3>3
  <2>5. oldest \in Claimable(t)
    BY <2>4
  <2>6. /\ log' = [n \in DOMAIN log |->
                  IF n \in keys
                  THEN [log[n] EXCEPT !.mail = "sending", !.attempted = tick[t].now]
                  ELSE log[n]]
        /\ runs' = [runs EXCEPT ![tick[t].run].claimed = @ + 1]
        /\ bundles' = bundles \cup {bundle}
        /\ tick' = [tick EXCEPT ![t].pc = "sending", ![t].now = 0, ![t].bundle = bundle]
    BY <1>2 DEF Claim
  <2> HIDE DEF oldest
  <2>7. /\ oldest \in DOMAIN log /\ oldest \in Notices /\ Mailable(oldest)
        /\ To[oldest] \notin runs[LatestRun].incomplete
        /\ ~ MailedSince(To[oldest], tick[t].day)
    BY <2>2, <2>5 DEF Claimable
  <2>8. bundle \in Bundle
    <3>1. keys \subseteq Notices
      BY <2>1 DEF IsLog
    <3>2. To[oldest] \in Recipients
      BY <2>7, EveryNoticeHasARecipient
    <3>3. tick[t].run \in Nat /\ tick[t].now \in Nat
      BY <2>1 DEF Request
    <3> HIDE DEF keys
    <3> QED BY <3>1, <3>2, <3>3 DEF Bundle
  <2>9. oldest \in keys
    BY <2>7
  <2>10. Claims(t, bundle)
    BY <1>2, <2>6, <2>7, <2>9 DEF Claims
  <2> HIDE DEF bundle
  <2> QED BY <2>8, <2>10
<1> QED BY <1>1, <1>2

\* The rows of a mail that is about to be claimed are in no other mail, and its
\* recipient has got none on that day.
LEMMA ClaimedIsNew ==
    ASSUME IInv, NEW t \in Ticks, tick[t].pc = "claiming", NEW bundle, Claims(t, bundle),
           NEW b \in bundles
    PROVE  /\ b.keys \cap bundle.keys = {}
           /\ b.to = bundle.to => b.day # bundle.day
           /\ b # bundle
<1>1. /\ b.keys # {} /\ b.keys \subseteq DOMAIN log
      /\ \A n \in b.keys : To[n] = b.to /\ log[n].attempted = b.day /\ log[n].mail \in Attempted
  BY DEF IInv, MailsAreRows
<1>2. \A n \in bundle.keys : log[n].mail = "pending"
  BY DEF Claims, Mailable
<1>3. b.keys \cap bundle.keys = {}
  BY <1>1, <1>2 DEF Attempted
<1>4. ASSUME b.to = bundle.to, b.day = bundle.day PROVE FALSE
  <2>1. PICK n \in b.keys : TRUE
    BY <1>1
  <2>2. tick[t].day <= tick[t].now /\ bundle.day = tick[t].now
    BY DEF IInv, TickSound, Claims
  <2>3. n \in DOMAIN log /\ To[n] = bundle.to /\ log[n].attempted >= tick[t].day
          /\ log[n].mail \in Attempted
    BY <1>1, <1>4, <2>1, <2>2
  <2>4. MailedSince(bundle.to, tick[t].day)
    BY <2>3 DEF MailedSince
  <2> QED BY <2>4 DEF Claims
<1> QED BY <1>1, <1>3, <1>4 DEF Claims

LEMMA ClaimStep ==
    ASSUME IInv, NEW t \in Ticks, Claim(t)
    PROVE  IInv'
<1>1. CASE Goto(t, "finishing") /\ UNCHANGED <<log, runs, bundles>>
  BY <1>1, NoClaimStep DEF Claim
<1>2. CASE \E bundle \in Bundle : Claims(t, bundle)
  <2>20. PICK i : i = tick[t].run
    OBVIOUS
  <2>21. PICK run : run = [runs[i] EXCEPT !.claimed = @ + 1]
    OBVIOUS
  <2>1. PICK bundle \in Bundle : Claims(t, bundle)
    BY <1>2
  <2>2. /\ tick[t].pc = "claiming" /\ UNCHANGED <<lock, today, handled, found, cleaned, arrived>>
        /\ Types /\ IsLog(log) /\ tick[t] \in Request /\ TickSound(t) /\ lock # t
        /\ MailsAreRows /\ RunsAddUp
    BY DEF Claim, IInv, Types, TicksAreApart
  <2>3. /\ i # 0 /\ i \in DOMAIN runs /\ runs[i] \in Run /\ runs[i].business /\ ~ runs[i].finished
        /\ Open(runs[i]) = 0
    BY <2>2, <2>20 DEF TickSound, InRun, Busy, Types
  <2>4. /\ run \in Run /\ run.business = runs[i].business /\ run.incomplete = runs[i].incomplete
        /\ run.finished = runs[i].finished /\ run.claimed = runs[i].claimed + 1
        /\ Open(run) = 1
    <3>1. PICK old \in Run : old = runs[i]
      BY <2>3
    <3>2. run = [old EXCEPT !.claimed = @ + 1]
      BY <2>21, <3>1
    <3>3. /\ run \in Run
          /\ run.business = old.business /\ run.incomplete = old.incomplete
          /\ run.finished = old.finished /\ run.claimed = old.claimed + 1
          /\ Open(run) = Open(old) + 1
      BY <3>2, OneMoreClaimed
    <3> QED BY <2>3, <3>1, <3>3
  <2>5. runs' = [runs EXCEPT ![i] = run]
    BY <2>1, <2>2, <2>20, <2>21 DEF Claims, Types
  <2>6. /\ DOMAIN log' = DOMAIN log
        /\ \A n \in DOMAIN log : n \notin bundle.keys => log'[n] = log[n]
        /\ \A n \in bundle.keys :
             /\ n \in DOMAIN log /\ log[n].mail = "pending" /\ To[n] = bundle.to
             /\ log'[n].mail = "sending" /\ log'[n].attempted = bundle.day
             /\ log'[n].read = log[n].read /\ log'[n] \in Row
    <3>1. \A n \in DOMAIN log : log[n] \in Row
      BY <2>2 DEF IsLog
    <3>2. tick[t].now \in Nat
      BY <2>2 DEF Request
    <3>3. \A n \in bundle.keys :
            /\ n \in DOMAIN log /\ log[n].mail = "pending" /\ To[n] = bundle.to
            /\ log'[n] = [log[n] EXCEPT !.mail = "sending", !.attempted = tick[t].now]
      BY <2>1 DEF Claims, Mailable
    <3>4. \A n \in DOMAIN log : n \notin bundle.keys => log'[n] = log[n]
      BY <2>1 DEF Claims
    <3>5. DOMAIN log' = DOMAIN log /\ bundle.day = tick[t].now
      BY <2>1 DEF Claims
    <3>6. ASSUME NEW n \in bundle.keys
          PROVE  /\ log'[n].mail = "sending" /\ log'[n].attempted = bundle.day
                 /\ log'[n].read = log[n].read /\ log'[n] \in Row
      <4>1. log[n] \in Row /\ n \in DOMAIN log
        BY <3>1, <3>3
      <4>2. log'[n] = [log[n] EXCEPT !.mail = "sending", !.attempted = tick[t].now]
        BY <3>3
      <4> QED BY <3>2, <3>5, <4>1, <4>2 DEF Row, MailStatuses
    <3> QED BY <3>3, <3>4, <3>5, <3>6
  <2>7. /\ runs' \in Seq(Run) /\ DOMAIN runs' = DOMAIN runs
        /\ runs'[i] = run /\ \A k \in DOMAIN runs : k # i => runs'[k] = runs[k]
        /\ FoundIsLogged'
    BY <2>2, <2>3, <2>4, <2>5, <2>6, RunChanges
  <2>8. \A b \in bundles : /\ b.keys \cap bundle.keys = {} /\ b # bundle
                           /\ b.to = bundle.to => b.day # bundle.day
    BY <2>1, <2>2, ClaimedIsNew
  <2>9. /\ bundles' = bundles \cup {bundle} /\ bundle \notin bundles
        /\ bundle.by = i /\ bundle.keys # {} /\ bundle \notin arrived
    BY <2>1, <2>2, <2>8, <2>20 DEF Claims, MailsAreRows
  <2>10. IsLog(log')
    BY <2>2, <2>6 DEF IsLog
  <2> DEFINE req == [tick[t] EXCEPT !.pc = "sending", !.now = 0, !.bundle = bundle]
  <2>11. /\ req \in Request /\ req.pc = "sending" /\ req.bundle = bundle /\ req.run = i
         /\ req.day = tick[t].day
    BY <2>2, <2>20 DEF Request, Phases
  <2>12. tick' = [tick EXCEPT ![t] = req]
    BY <2>1, <2>2 DEF Claims, Types
  <2> HIDE DEF req
  <2>13. /\ tick' \in [Ticks -> Request] /\ tick'[t] = req
         /\ \A u \in Ticks : u # t => tick'[u] = tick[u]
    BY <2>2, <2>11, <2>12 DEF Types
  <2>14. Types'
    <3>1. IsFiniteSet(bundles')
      BY <2>2, <2>9, FS_AddElement DEF Types
    <3> QED BY <2>2, <2>7, <2>9, <2>10, <2>13, <3>1 DEF Types
  <2>15. TicksAreApart'
    BY <2>2, <2>11, <2>13, <2>20 DEF IInv, TicksAreApart
  <2>16. ASSUME NEW u \in Ticks PROVE TickSound(u)'
    <3>1. CASE u # t
      <4>1. tick[u] \in Request /\ today \in Nat /\ tick'[u] = tick[u]
        BY <2>2, <2>13, <3>1 DEF Types
      <4>2. tick[u].run # 0 => tick[u].run \in DOMAIN runs /\ tick[u].run # i
        BY <2>20, <3>1 DEF IInv, TickSound, TicksAreApart
      <4>3. tick[u].pc \in Busy => \A n \in tick[u].bundle.keys : log'[n].mail = log[n].mail
        <5>1. HAVE tick[u].pc \in Busy
        <5>2. tick[u].bundle \in bundles
          BY <5>1 DEF IInv, TickSound
        <5>3. tick[u].bundle.keys \subseteq DOMAIN log
          BY <2>2, <5>2 DEF MailsAreRows
        <5> QED BY <2>6, <2>8, <5>2, <5>3
      <4>4. today <= today
        BY <4>1
      <4> QED BY <2>2, <2>6, <2>7, <2>9, <4>1, <4>2, <4>3, <4>4, OthersStaySound
    <3>2. CASE u = t
      BY <2>2, <2>3, <2>4, <2>6, <2>7, <2>9, <2>11, <2>13, <3>2 DEF TickSound, InRun, Busy
    <3> QED BY <3>1, <3>2
  <2>17. MailsAreRows'
    <3>1. \A b \in bundles' :
           /\ b.keys # {} /\ b.keys \subseteq DOMAIN log'
           /\ \A n \in b.keys :
                /\ To[n] = b.to /\ log'[n].attempted = b.day /\ log'[n].mail \in Attempted
                /\ log'[n].mail = "sent" => b \in arrived
                /\ log'[n].mail = "failed" => b \notin arrived
      <4>1. TAKE b \in bundles'
      <4>2. CASE b \in bundles
        <5>1. b.keys # {} /\ b.keys \subseteq DOMAIN log
          BY <2>2, <4>2 DEF MailsAreRows
        <5>2. \A n \in b.keys : log'[n] = log[n]
          BY <2>6, <2>8, <4>2, <5>1
        <5> QED BY <2>2, <2>6, <4>2, <5>1, <5>2 DEF MailsAreRows
      <4>3. CASE b = bundle
        BY <2>6, <2>9, <4>3 DEF Attempted
      <4> QED BY <2>9, <4>2, <4>3
    <3>2. \A n \in DOMAIN log' : log'[n].mail \in Attempted => \E b \in bundles' : n \in b.keys
      BY <2>2, <2>6, <2>9 DEF MailsAreRows
    <3>3. OneMailADay'
      BY <2>2, <2>8, <2>9 DEF MailsAreRows, OneMailADay
    <3>4. arrived' \subseteq bundles'
      BY <2>2, <2>9 DEF MailsAreRows
    <3> QED BY <2>2, <3>1, <3>2, <3>3, <3>4 DEF MailsAreRows
  <2>18. RunsAddUp'
    <3>1. \A b \in bundles' : b.by \in DOMAIN runs'
      BY <2>2, <2>3, <2>7, <2>9 DEF RunsAddUp
    <3>2. \A k \in DOMAIN runs : k # i => BundlesOf(k)' = BundlesOf(k)
      BY <2>9 DEF BundlesOf
    <3>3. BundlesOf(i)' = BundlesOf(i) \cup {bundle} /\ bundle \notin BundlesOf(i)
      BY <2>9 DEF BundlesOf
    <3>4. IsFiniteSet(BundlesOf(i))
      <4>1. BundlesOf(i) \subseteq bundles
        BY DEF BundlesOf
      <4> QED BY <2>2, <4>1, FS_Subset DEF Types
    <3>5. Cardinality(BundlesOf(i)') = Cardinality(BundlesOf(i)) + 1
      BY <3>3, <3>4, FS_AddElement
    <3>6. ASSUME NEW k \in DOMAIN runs'
          PROVE  /\ Open(runs'[k]) \in {0, 1}
                 /\ runs'[k].finished => Open(runs'[k]) = 0
                 /\ Cardinality(BundlesOf(k)') = runs'[k].claimed
      <4>1. CASE k = i
        BY <2>2, <2>3, <2>4, <2>7, <3>5, <4>1 DEF RunsAddUp
      <4>2. CASE k # i
        BY <2>2, <2>7, <3>2, <4>2 DEF RunsAddUp
      <4> QED BY <4>1, <4>2
    <3> QED BY <3>1, <3>6 DEF RunsAddUp
  <2>19. CleanedIsRead'
    BY <2>2, <2>6 DEF IInv, CleanedIsRead
  <2> QED BY <2>7, <2>14, <2>15, <2>16, <2>17, <2>18, <2>19 DEF IInv
<1> QED BY <1>1, <1>2, ClaimsOrNot

\* The mails of two ticks have no row in common.
LEMMA BusyTicksAreApart ==
    ASSUME IInv, NEW t \in Ticks, NEW u \in Ticks, t # u,
           tick[t].pc \in Busy, tick[u].pc \in Busy
    PROVE  /\ tick[t].bundle # tick[u].bundle
           /\ tick[t].bundle.keys \cap tick[u].bundle.keys = {}
<1>1. /\ tick[t].bundle \in bundles /\ tick[t].bundle.by = tick[t].run /\ tick[t].run # 0
      /\ tick[u].bundle \in bundles /\ tick[u].bundle.by = tick[u].run
  BY DEF IInv, TickSound, Busy, InRun
<1>2. tick[t].run # tick[u].run
  BY <1>1 DEF IInv, TicksAreApart
<1> QED BY <1>1, <1>2 DEF IInv, MailsAreRows, OneMailADay

LEMMA SendStep ==
    ASSUME IInv, NEW t \in Ticks, Send(t)
    PROVE  IInv'
<1>1. /\ tick[t].pc = "sending" /\ UNCHANGED <<log, runs, lock, today, handled, found, cleaned, bundles>>
      /\ Types /\ tick[t] \in Request /\ TickSound(t) /\ MailsAreRows /\ TicksAreApart
      /\ today \in Nat /\ today <= today
  BY DEF Send, IInv, Types
<1>2. PICK b : b = tick[t].bundle
  OBVIOUS
<1>3. /\ b \in bundles /\ b \notin arrived /\ \A n \in b.keys : log[n].mail = "sending"
  BY <1>1, <1>2 DEF TickSound, Busy
<1>4. PICK result \in {"sent", "rejected", "indeterminate"} :
        /\ \/ result # "rejected" /\ arrived' = arrived \cup {b}
           \/ result # "sent" /\ UNCHANGED arrived
        /\ tick' = [tick EXCEPT ![t].pc = "recording", ![t].outcome = OutcomeOf(result)]
  BY <1>2 DEF Send
<1>5. /\ OutcomeOf(result) \in {"sent", "failed", "unknown"}
      /\ OutcomeOf(result) = "sent" => b \in arrived'
      /\ OutcomeOf(result) = "failed" => b \notin arrived'
  BY <1>3, <1>4 DEF OutcomeOf
<1> DEFINE req == [tick[t] EXCEPT !.pc = "recording", !.outcome = OutcomeOf(result)]
<1>6. /\ req \in Request /\ req.pc = "recording" /\ req.outcome = OutcomeOf(result)
      /\ req.bundle = b /\ req.run = tick[t].run /\ req.day = tick[t].day
  BY <1>1, <1>2, <1>5 DEF Request, Phases
<1>7. tick' = [tick EXCEPT ![t] = req]
  BY <1>1, <1>4 DEF Types
<1> HIDE DEF req
<1>8. /\ tick' \in [Ticks -> Request] /\ tick'[t] = req
      /\ \A u \in Ticks : u # t => tick'[u] = tick[u]
  BY <1>1, <1>6, <1>7 DEF Types
<1>9. arrived' \subseteq bundles /\ \A c \in bundles : c # b => (c \in arrived' <=> c \in arrived)
  BY <1>1, <1>3, <1>4 DEF MailsAreRows
<1>10. Types'
  BY <1>1, <1>8 DEF Types
<1>11. TicksAreApart'
  BY <1>1, <1>6, <1>8 DEF TicksAreApart
<1>12. ASSUME NEW u \in Ticks PROVE TickSound(u)'
  <2>1. CASE u # t
    <3>1. tick[u] \in Request /\ tick'[u] = tick[u]
      BY <1>1, <1>8, <2>1 DEF Types
    <3>2. tick[u].run # 0 => tick[u].run \in DOMAIN runs
      BY DEF IInv, TickSound
    <3>3. tick[u].pc \in Busy => (tick[u].bundle \in arrived' <=> tick[u].bundle \in arrived)
      <4>1. HAVE tick[u].pc \in Busy
      <4>2. tick[u].bundle \in bundles
        BY <4>1 DEF IInv, TickSound
      <4>3. tick[u].bundle # b
        BY <1>1, <1>2, <2>1, <4>1, BusyTicksAreApart DEF Busy
      <4> QED BY <1>9, <4>2, <4>3
    <3> QED BY <1>1, <3>1, <3>2, <3>3, OthersStaySound
  <2>2. CASE u = t
    BY <1>1, <1>2, <1>3, <1>5, <1>6, <1>8, <2>2 DEF TickSound, InRun, Busy
  <2> QED BY <2>1, <2>2
<1>13. MailsAreRows'
  <2>1. \A c \in bundles : \A n \in c.keys :
          /\ log[n].mail = "sent" => c \in arrived'
          /\ log[n].mail = "failed" => c \notin arrived'
    BY <1>1, <1>3, <1>9 DEF MailsAreRows
  <2>2. OneMailADay'
    BY <1>1 DEF MailsAreRows, OneMailADay
  <2> QED BY <1>1, <1>9, <2>1, <2>2 DEF MailsAreRows
<1>14. RunsAddUp'
  BY <1>1 DEF IInv, RunsAddUp, BundlesOf
<1>15. FoundIsLogged'
  BY <1>1, GrowthKeepsFound
<1>16. CleanedIsRead'
  BY <1>1 DEF IInv, CleanedIsRead
<1> QED BY <1>10, <1>11, <1>12, <1>13, <1>14, <1>15, <1>16 DEF IInv

\* An outcome that is recorded settles one mail of the run.
LEMMA OneMoreSettled ==
    ASSUME NEW run \in Run, NEW outcome \in {"sent", "failed", "unknown"},
           NEW settled, settled = RecordedRun(run, outcome)
    PROVE  /\ settled \in Run
           /\ settled.business = run.business /\ settled.incomplete = run.incomplete
           /\ settled.finished = run.finished /\ settled.claimed = run.claimed
           /\ Open(settled) = Open(run) - 1
<1>1. run.sent + 1 \in Nat /\ run.notSent + 1 \in Nat /\ run.unknown + 1 \in Nat
  BY CountersOfARun
<1>2. CASE outcome = "sent"
  <2>1. settled = [run EXCEPT !.sent = @ + 1]
    BY <1>2 DEF RecordedRun
  <2>2. settled \in Run
    BY <1>1, <2>1 DEF Run
  <2>3. /\ settled.business = run.business /\ settled.incomplete = run.incomplete
        /\ settled.finished = run.finished /\ settled.claimed = run.claimed
        /\ settled.sent = run.sent + 1 /\ settled.notSent = run.notSent
        /\ settled.unknown = run.unknown
    BY <2>1 DEF Run
  <2>4. Open(settled) = Open(run) - 1
    BY <2>3, CountersOfARun DEF Open
  <2> QED BY <2>2, <2>3, <2>4
<1>3. CASE outcome = "failed"
  <2>1. settled = [run EXCEPT !.notSent = @ + 1]
    BY <1>3 DEF RecordedRun
  <2>2. settled \in Run
    BY <1>1, <2>1 DEF Run
  <2>3. /\ settled.business = run.business /\ settled.incomplete = run.incomplete
        /\ settled.finished = run.finished /\ settled.claimed = run.claimed
        /\ settled.sent = run.sent /\ settled.notSent = run.notSent + 1
        /\ settled.unknown = run.unknown
    BY <2>1 DEF Run
  <2>4. Open(settled) = Open(run) - 1
    BY <2>3, CountersOfARun DEF Open
  <2> QED BY <2>2, <2>3, <2>4
<1>4. CASE outcome = "unknown"
  <2>1. settled = [run EXCEPT !.unknown = @ + 1]
    BY <1>4 DEF RecordedRun
  <2>2. settled \in Run
    BY <1>1, <2>1 DEF Run
  <2>3. /\ settled.business = run.business /\ settled.incomplete = run.incomplete
        /\ settled.finished = run.finished /\ settled.claimed = run.claimed
        /\ settled.sent = run.sent /\ settled.notSent = run.notSent
        /\ settled.unknown = run.unknown + 1
    BY <2>1 DEF Run
  <2>4. Open(settled) = Open(run) - 1
    BY <2>3, CountersOfARun DEF Open
  <2> QED BY <2>2, <2>3, <2>4
<1> QED BY <1>2, <1>3, <1>4

\* The accounts of the runs when one run changes and no mail is claimed.
LEMMA AccountsOfOneRun ==
    ASSUME IInv, NEW i \in DOMAIN runs, DOMAIN runs' = DOMAIN runs, bundles' = bundles,
           \A k \in DOMAIN runs : k # i => runs'[k] = runs[k],
           runs'[i].claimed = runs[i].claimed, Open(runs'[i]) = 0
    PROVE  RunsAddUp'
<1>1. RunsAddUp
  BY DEF IInv
<1>2. \A k \in DOMAIN runs : BundlesOf(k)' = BundlesOf(k)
  BY DEF BundlesOf
<1>3. ASSUME NEW k \in DOMAIN runs'
      PROVE  /\ Open(runs'[k]) \in {0, 1}
             /\ runs'[k].finished => Open(runs'[k]) = 0
             /\ Cardinality(BundlesOf(k)') = runs'[k].claimed
  <2>1. CASE k = i
    BY <1>1, <1>2, <2>1 DEF RunsAddUp
  <2>2. CASE k # i
    BY <1>1, <1>2, <2>2 DEF RunsAddUp
  <2> QED BY <2>1, <2>2
<1> QED BY <1>1, <1>3 DEF RunsAddUp

LEMMA FinishStep ==
    ASSUME IInv, NEW t \in Ticks, Finish(t)
    PROVE  IInv'
<1>1. /\ tick[t].pc = "finishing" /\ UNCHANGED <<log, lock, today, handled, found, cleaned, bundles, arrived>>
      /\ Types /\ TickSound(t) /\ TicksAreApart /\ IsLog(log) /\ tick' = [tick EXCEPT ![t] = IdleTick]
      /\ today \in Nat /\ today <= today
  BY DEF Finish, IInv, Types
<1>2. PICK i : i = tick[t].run
  OBVIOUS
<1>3. i # 0 /\ i \in DOMAIN runs /\ runs[i] \in Run /\ Open(runs[i]) = 0
  BY <1>1, <1>2 DEF TickSound, InRun, Busy, Types
<1>4. PICK run : run = [runs[i] EXCEPT !.finished = TRUE]
  OBVIOUS
<1>5. /\ run \in Run /\ run.business = runs[i].business /\ run.incomplete = runs[i].incomplete
      /\ run.claimed = runs[i].claimed /\ run.sent = runs[i].sent
      /\ run.notSent = runs[i].notSent /\ run.unknown = runs[i].unknown
  BY <1>3, <1>4 DEF Run
<1>6. Open(run) = 0
  BY <1>3, <1>5 DEF Open
<1>7. runs' = [runs EXCEPT ![i] = run]
  BY <1>1, <1>2, <1>4 DEF Finish, Types
<1>8. /\ runs' \in Seq(Run) /\ DOMAIN runs' = DOMAIN runs
      /\ runs'[i] = run /\ \A k \in DOMAIN runs : k # i => runs'[k] = runs[k]
      /\ FoundIsLogged'
  BY <1>1, <1>3, <1>5, <1>7, RunChanges
<1>9. /\ tick' \in [Ticks -> Request] /\ tick'[t] = IdleTick
      /\ \A u \in Ticks : u # t => tick'[u] = tick[u]
  BY <1>1, IdleIsARequest DEF Types
<1>10. Types'
  BY <1>1, <1>8, <1>9 DEF Types
<1>11. TicksAreApart'
  BY <1>1, <1>9 DEF TicksAreApart, IdleTick
<1>12. ASSUME NEW u \in Ticks PROVE TickSound(u)'
  <2>1. CASE u # t
    <3>1. tick[u] \in Request /\ tick'[u] = tick[u]
      BY <1>1, <1>9, <2>1 DEF Types
    <3>2. tick[u].run # 0 => tick[u].run \in DOMAIN runs /\ tick[u].run # i
      BY <1>2, <2>1 DEF IInv, TickSound, TicksAreApart
    <3> QED BY <1>1, <1>8, <3>1, <3>2, OthersStaySound
  <2>2. CASE u = t
    <3>1. 0 <= today
      BY <1>1
    <3> QED BY <1>1, <1>9, <2>2, <3>1 DEF TickSound, IdleTick, InRun, Busy
  <2> QED BY <2>1, <2>2
<1>13. MailsAreRows' /\ CleanedIsRead'
  BY <1>1, SameLogGrows, GrowthKeepsMails, GrowthKeepsCleaned
<1>14. RunsAddUp'
  BY <1>1, <1>3, <1>5, <1>6, <1>8, AccountsOfOneRun
<1> QED BY <1>8, <1>10, <1>11, <1>12, <1>13, <1>14 DEF IInv

LEMMA RecordStep ==
    ASSUME IInv, NEW t \in Ticks, Record(t)
    PROVE  IInv'
<1>1. /\ tick[t].pc = "recording" /\ UNCHANGED <<lock, today, handled, found, cleaned, bundles, arrived>>
      /\ Types /\ tick[t] \in Request /\ TickSound(t) /\ TicksAreApart /\ MailsAreRows /\ IsLog(log)
      /\ today \in Nat /\ today <= today
  BY DEF Record, IInv, Types
<1>2. PICK i, b, outcome : i = tick[t].run /\ b = tick[t].bundle /\ outcome = tick[t].outcome
  OBVIOUS
<1>3. /\ i # 0 /\ i \in DOMAIN runs /\ runs[i] \in Run /\ Open(runs[i]) = 1
      /\ runs[i].business /\ ~ runs[i].finished
      /\ b \in bundles /\ outcome \in {"sent", "failed", "unknown"}
      /\ \A n \in b.keys : log[n].mail = "sending"
      /\ outcome = "sent" => b \in arrived
      /\ outcome = "failed" => b \notin arrived
  BY <1>1, <1>2 DEF TickSound, InRun, Busy, Types, Request
<1>4. PICK run : run = RecordedRun(runs[i], outcome)
  OBVIOUS
<1>5. /\ run \in Run /\ run.business = runs[i].business /\ run.incomplete = runs[i].incomplete
      /\ run.finished = runs[i].finished /\ run.claimed = runs[i].claimed
      /\ Open(run) = 0
  <2>1. PICK old \in Run : old = runs[i]
    BY <1>3
  <2>2. run = RecordedRun(old, outcome)
    BY <1>4, <2>1
  <2>3. /\ run \in Run
        /\ run.business = old.business /\ run.incomplete = old.incomplete
        /\ run.finished = old.finished /\ run.claimed = old.claimed
        /\ Open(run) = Open(old) - 1
    BY <1>3, <2>2, OneMoreSettled
  <2> QED BY <1>3, <2>1, <2>3
<1>6. runs' = [runs EXCEPT ![i] = run]
  BY <1>1, <1>2, <1>4 DEF Record, Types
<1>7. b.keys \subseteq DOMAIN log
  BY <1>1, <1>3 DEF MailsAreRows
<1>8. /\ DOMAIN log' = DOMAIN log
      /\ \A n \in DOMAIN log : n \notin b.keys => log'[n] = log[n]
      /\ \A n \in b.keys : /\ log'[n] \in Row /\ log'[n].mail = outcome
                          /\ log'[n].read = log[n].read /\ log'[n].attempted = log[n].attempted
  <2>1. log' = [n \in DOMAIN log |->
                  IF n \in b.keys /\ log[n].mail = "sending"
                  THEN [log[n] EXCEPT !.mail = outcome] ELSE log[n]]
    BY <1>2 DEF Record
  <2>2. ASSUME NEW n \in b.keys
        PROVE  /\ log'[n] \in Row /\ log'[n].mail = outcome
               /\ log'[n].read = log[n].read /\ log'[n].attempted = log[n].attempted
    <3>1. log[n] \in Row /\ n \in DOMAIN log
      BY <1>1, <1>7 DEF IsLog
    <3>2. log'[n] = [log[n] EXCEPT !.mail = outcome]
      BY <1>3, <2>1, <3>1
    <3>3. outcome \in MailStatuses
      BY <1>3 DEF MailStatuses
    <3> QED BY <3>1, <3>2, <3>3 DEF Row
  <2> QED BY <2>1, <2>2
<1>9. /\ runs' \in Seq(Run) /\ DOMAIN runs' = DOMAIN runs
      /\ runs'[i] = run /\ \A k \in DOMAIN runs : k # i => runs'[k] = runs[k]
      /\ FoundIsLogged'
  BY <1>1, <1>3, <1>5, <1>6, <1>8, RunChanges
<1> DEFINE req == [tick[t] EXCEPT !.pc = "mailing", !.bundle = NoBundle, !.outcome = "none"]
<1>10. /\ req \in Request /\ req.pc = "mailing" /\ req.run = i /\ req.day = tick[t].day
  BY <1>1, <1>2 DEF Request, Phases
<1>11. tick' = [tick EXCEPT ![t] = req]
  BY <1>1 DEF Record, Types
<1> HIDE DEF req
<1>12. /\ tick' \in [Ticks -> Request] /\ tick'[t] = req
       /\ \A u \in Ticks : u # t => tick'[u] = tick[u]
  BY <1>1, <1>10, <1>11 DEF Types
<1>13. IsLog(log')
  BY <1>1, <1>8 DEF IsLog
<1>14. Types'
  BY <1>1, <1>9, <1>12, <1>13 DEF Types
<1>15. TicksAreApart'
  BY <1>1, <1>2, <1>10, <1>12 DEF TicksAreApart
<1>16. ASSUME NEW u \in Ticks PROVE TickSound(u)'
  <2>1. CASE u # t
    <3>1. tick[u] \in Request /\ tick'[u] = tick[u]
      BY <1>1, <1>12, <2>1 DEF Types
    <3>2. tick[u].run # 0 => tick[u].run \in DOMAIN runs /\ tick[u].run # i
      BY <1>2, <2>1 DEF IInv, TickSound, TicksAreApart
    <3>3. tick[u].pc \in Busy => \A n \in tick[u].bundle.keys : log'[n].mail = log[n].mail
      <4>1. HAVE tick[u].pc \in Busy
      <4>2. tick[u].bundle.keys \cap b.keys = {}
        BY <1>1, <1>2, <2>1, <4>1, BusyTicksAreApart DEF Busy
      <4>3. tick[u].bundle.keys \subseteq DOMAIN log
        BY <1>1, <4>1 DEF IInv, TickSound, MailsAreRows
      <4> QED BY <1>8, <4>2, <4>3
    <3> QED BY <1>1, <1>8, <1>9, <3>1, <3>2, <3>3, OthersStaySound
  <2>2. CASE u = t
    BY <1>1, <1>3, <1>5, <1>9, <1>10, <1>12, <2>2 DEF TickSound, InRun, Busy
  <2> QED BY <2>1, <2>2
<1>17. MailsAreRows'
  <2>1. \A c \in bundles :
         /\ c.keys # {} /\ c.keys \subseteq DOMAIN log'
         /\ \A n \in c.keys :
              /\ To[n] = c.to /\ log'[n].attempted = c.day /\ log'[n].mail \in Attempted
              /\ log'[n].mail = "sent" => c \in arrived
              /\ log'[n].mail = "failed" => c \notin arrived
    <3>1. TAKE c \in bundles
    <3>2. CASE c = b
      BY <1>1, <1>3, <1>8, <3>2 DEF MailsAreRows, Attempted
    <3>3. CASE c # b
      <4>1. c.keys \cap b.keys = {} /\ c.keys \subseteq DOMAIN log
        BY <1>1, <1>3, <3>3 DEF MailsAreRows, OneMailADay
      <4>2. \A n \in c.keys : log'[n] = log[n]
        BY <1>8, <4>1
      <4> QED BY <1>1, <1>8, <4>1, <4>2 DEF MailsAreRows
    <3> QED BY <3>2, <3>3
  <2>2. \A n \in DOMAIN log' : log'[n].mail \in Attempted => \E c \in bundles : n \in c.keys
    BY <1>1, <1>3, <1>8 DEF MailsAreRows
  <2>3. OneMailADay'
    BY <1>1 DEF MailsAreRows, OneMailADay
  <2> QED BY <1>1, <2>1, <2>2, <2>3 DEF MailsAreRows
<1>18. RunsAddUp'
  BY <1>1, <1>3, <1>5, <1>9, AccountsOfOneRun
<1>19. CleanedIsRead'
  BY <1>1, <1>8 DEF IInv, CleanedIsRead
<1> QED BY <1>9, <1>14, <1>15, <1>16, <1>17, <1>18, <1>19 DEF IInv

-----------------------------------------------------------------------------
(* The invariant holds in every reachable state. *)

LEMMA ClaimTimesOutStep ==
    ASSUME IInv, NEW t \in Ticks, ClaimTimesOut(t)
    PROVE  IInv'
BY NoClaimStep DEF ClaimTimesOut

LEMMA StutterStep ==
    ASSUME IInv, UNCHANGED vars
    PROVE  IInv'
<1>1. IsLog(log) /\ today \in Nat /\ today <= today /\ handled \subseteq StepNotices
  BY DEF IInv, Types
<1>2. Grows(log, log')
  BY <1>1, SameLogGrows DEF vars
<1> QED BY <1>1, <1>2, OutsideStep DEF vars

LEMMA InitIsInvariant == Init => IInv
<1> SUFFICES ASSUME Init PROVE IInv
  OBVIOUS
<1>1. DOMAIN log = {} /\ runs = <<>> /\ bundles = {} /\ arrived = {} /\ cleaned = {} /\ found = {}
        /\ handled = {} /\ today = 1 /\ lock = Nobody /\ tick = [t \in Ticks |-> IdleTick]
  BY DEF Init
<1>2. Types
  BY <1>1, IdleIsARequest, FS_EmptySet DEF Types, IsLog
<1>3. TicksAreApart /\ \A t \in Ticks : TickSound(t)
  BY <1>1, NobodyIsNoTick DEF TicksAreApart, TickSound, IdleTick, InRun, Busy
<1>4. MailsAreRows /\ FoundIsLogged /\ CleanedIsRead
  BY <1>1 DEF MailsAreRows, OneMailADay, FoundIsLogged, CleanedIsRead
<1>5. RunsAddUp
  BY <1>1 DEF RunsAddUp
<1> QED BY <1>2, <1>3, <1>4, <1>5 DEF IInv

LEMMA NextKeepsIInv == IInv /\ [Next]_vars => IInv'
<1> SUFFICES ASSUME IInv, [Next]_vars PROVE IInv'
  OBVIOUS
<1>1. CASE UNCHANGED vars
  BY <1>1, StutterStep
<1>2. ASSUME NEW t \in Ticks, Begin(t) \/ Die(t)
      PROVE  IInv'
  BY <1>2, BeginStep, DieStep
<1>3. ASSUME NEW t \in Ticks, Work(t)
      PROVE  IInv'
  BY <1>3, FindLockedStep, EvaluateStep, CommitStep, SkipMailStep, StartMailStep, ClaimStep,
     ClaimTimesOutStep, SendStep, RecordStep, FinishStep DEF Work
<1>4. CASE NextDay
  BY <1>4, NextDayStep
<1>5. ASSUME NEW n \in Notices, HandleStep(n) \/ InsertEvent(n)
      PROVE  IInv'
  BY <1>5, HandleStepStep, InsertEventStep
<1>6. ASSUME NEW r \in Recipients, OpenInbox(r)
      PROVE  IInv'
  BY <1>6, OpenInboxStep
<1> QED BY <1>1, <1>2, <1>3, <1>4, <1>5, <1>6 DEF Next

\* The invariant of the tick: the rows of the log and the mails agree, what a
\* tick has in hand is a mail of its own run, the counters of a run are the
\* mails it claimed, what was cleaned up is read and what was found is logged.
THEOREM InvariantHolds == Spec => []IInv
BY InitIsInvariant, NextKeepsIInv, PTL DEF Spec

-----------------------------------------------------------------------------
(* What the invariant is for. *)

\* Every variable keeps its type, only a tick inside its first transaction holds
\* the lock, and a tick that mails has a run of a business day of its own.
THEOREM TypeCorrectness == Spec => []TypeOK
<1>1. IInv => TypeOK
  <2> SUFFICES ASSUME IInv PROVE TypeOK
    OBVIOUS
  <2>1. /\ Types /\ TicksAreApart /\ CleanedIsRead /\ MailsAreRows
        /\ \A t \in Ticks : TickSound(t)
    BY DEF IInv
  <2>2. \A t \in Ticks :
          /\ tick[t].pc = "evaluated" <=> lock = t
          /\ tick[t].pc \in {"mailing", "claiming", "sending", "recording", "finishing"} =>
               tick[t].run \in DOMAIN runs /\ runs[tick[t].run].business
          /\ tick[t].pc \in {"sending", "recording"} => tick[t].bundle \in bundles
    BY <2>1 DEF TicksAreApart, TickSound, InRun, Busy
  <2> QED BY <2>1, <2>2 DEF TypeOK, Types, IsLog, CleanedIsRead, MailsAreRows
<1> QED BY <1>1, InvariantHolds, PTL

\* Nobody gets two mails on one day and no notice is mailed twice, for any
\* number of ticks that overlap, die or run past midnight.
THEOREM NobodyIsMailedTwice == Spec => []OneMailADay
<1>1. IInv => OneMailADay
  BY DEF IInv, MailsAreRows
<1> QED BY <1>1, InvariantHolds, PTL

\* A claimed row belongs to one mail, and while that mail is under way nobody
\* else settles it.
THEOREM RowsAreOwned == Spec => []ClaimedRowsAreOwned
<1>1. IInv => ClaimedRowsAreOwned
  <2> SUFFICES ASSUME IInv PROVE ClaimedRowsAreOwned
    OBVIOUS
  <2>1. MailsAreRows /\ \A t \in Ticks : TickSound(t)
    BY DEF IInv
  <2>2. \A n \in DOMAIN log :
          log[n].mail \in Attempted <=> \E b \in bundles : n \in b.keys /\ b.day = log[n].attempted
    BY <2>1 DEF MailsAreRows
  <2>3. \A t \in Ticks : tick[t].pc \in {"sending", "recording"} =>
          \A n \in tick[t].bundle.keys : log[n].mail = "sending"
    BY <2>1 DEF TickSound, Busy
  <2> QED BY <2>2, <2>3 DEF ClaimedRowsAreOwned
<1> QED BY <1>1, InvariantHolds, PTL

\* What the log says of a mail is what happened to it.
THEOREM OutcomesAreHonest == Spec => []OutcomeIsHonest
<1>1. IInv => OutcomeIsHonest
  <2> SUFFICES ASSUME IInv, NEW n \in DOMAIN log
               PROVE  LET mailed == \E b \in arrived : n \in b.keys
                      IN  /\ log[n].mail = "sent" => mailed
                          /\ log[n].mail \in {"failed", "pending", "skipped_no_smtp", "skipped_rule_off"}
                                => ~ mailed
    BY DEF OutcomeIsHonest
  <2>1. MailsAreRows
    BY DEF IInv
  <2>2. \A b \in arrived : n \in b.keys => log[n].mail \in Attempted \ {"failed"}
    BY <2>1 DEF MailsAreRows
  <2>3. log[n].mail = "sent" => \E b \in arrived : n \in b.keys
    BY <2>1 DEF MailsAreRows, Attempted
  <2> QED BY <2>2, <2>3 DEF Attempted
<1> QED BY <1>1, InvariantHolds, PTL

\* The counters of every run account for its mails, whenever its tick dies.
THEOREM RunsAccountForTheirMails == Spec => []CountersAddUp
<1>1. IInv => CountersAddUp
  <2> SUFFICES ASSUME IInv, NEW i \in DOMAIN runs
               PROVE  LET open == runs[i].claimed - runs[i].sent - runs[i].notSent - runs[i].unknown
                          busy == \E t \in Ticks : tick[t].run = i /\ tick[t].pc \in {"sending", "recording"}
                      IN  /\ open \in {0, 1}
                          /\ busy => open = 1
                          /\ runs[i].finished => open = 0
                          /\ Cardinality({b \in bundles : b.by = i}) = runs[i].claimed
    BY DEF CountersAddUp
  <2>1. /\ Open(runs[i]) \in {0, 1}
        /\ runs[i].finished => Open(runs[i]) = 0
        /\ Cardinality({b \in bundles : b.by = i}) = runs[i].claimed
    BY DEF IInv, RunsAddUp, BundlesOf
  <2>2. ASSUME NEW t \in Ticks, tick[t].run = i, tick[t].pc \in Busy
        PROVE  Open(runs[i]) = 1
    BY <2>2 DEF IInv, TickSound, InRun, Busy
  <2> QED BY <2>1, <2>2 DEF Open, Busy
<1> QED BY <1>1, InvariantHolds, PTL

-----------------------------------------------------------------------------
(* What the claim of a mail guarantees. *)

NewMailsAreWhole ==
    \A b \in bundles' \ bundles :
        /\ ~ runs[LatestRun].failed
        /\ \A n \in found :
             To[n] = b.to => n \in DOMAIN log /\ (Mailable(n) => n \in b.keys)

NewMailsAreOfOpenSteps == \A b \in bundles' \ bundles : b.keys \cap cleaned = {}

LEMMA ClaimIsWhole ==
    ASSUME IInv, NEW t \in Ticks, NEW bundle, tick[t].pc = "claiming", Claims(t, bundle)
    PROVE  NewMailsAreWhole /\ NewMailsAreOfOpenSteps
<1>1. \A b \in bundles' \ bundles : b = bundle
  BY DEF Claims
<1>2. BusinessRuns # {}
  <2>1. tick[t].run \in DOMAIN runs /\ runs[tick[t].run].business
    BY DEF IInv, TickSound, InRun
  <2> QED BY <2>1 DEF BusinessRuns
<1>3. \A n \in found : To[n] = bundle.to => n \in DOMAIN log
  BY <1>2 DEF IInv, FoundIsLogged, Claims
<1>4. \A n \in DOMAIN log : To[n] = bundle.to /\ Mailable(n) => n \in bundle.keys
  BY DEF Claims
<1>5. ~ runs[LatestRun].failed
  BY DEF Claims
<1>6. NewMailsAreWhole
  BY <1>1, <1>3, <1>4, <1>5 DEF NewMailsAreWhole
<1>7. \A n \in cleaned : n \in StepNotices /\ log[n].read
  BY DEF IInv, Types, CleanedIsRead
<1>8. bundle.keys \cap cleaned = {}
  BY <1>7 DEF Claims, Mailable
<1> QED BY <1>1, <1>6, <1>8 DEF NewMailsAreOfOpenSteps

LEMMA OnlyClaimsMail == IInv /\ [Next]_vars => NewMailsAreWhole /\ NewMailsAreOfOpenSteps
<1> SUFFICES ASSUME IInv, [Next]_vars PROVE NewMailsAreWhole /\ NewMailsAreOfOpenSteps
  OBVIOUS
<1>1. CASE UNCHANGED bundles
  BY <1>1 DEF NewMailsAreWhole, NewMailsAreOfOpenSteps
<1>2. ASSUME NEW t \in Ticks, Claim(t)
      PROVE  NewMailsAreWhole /\ NewMailsAreOfOpenSteps
  <2>1. tick[t].pc = "claiming"
    BY <1>2 DEF Claim
  <2> QED BY <1>1, <1>2, <2>1, ClaimsOrNot, ClaimIsWhole
<1>3. UNCHANGED bundles \/ \E t \in Ticks : Claim(t)
  BY DEF Next, Work, vars, Begin, FindLocked, Evaluate, Commit, SkipMail, StartMail, ClaimTimesOut,
         Send, Record, Finish, Die, NextDay, HandleStep, InsertEvent, OpenInbox
<1> QED BY <1>1, <1>2, <1>3

\* A mail holds everything the latest evaluation found for its recipient.
THEOREM MailsHoldEverything == Spec => MailsAreWhole
<1>1. IInv /\ [Next]_vars => [NewMailsAreWhole]_vars
  BY OnlyClaimsMail
<1>2. [NewMailsAreWhole]_vars <=>
        [\A b \in bundles' \ bundles :
           /\ ~ runs[LatestRun].failed
           /\ \A n \in found :
                To[n] = b.to => n \in DOMAIN log /\ (Mailable(n) => n \in b.keys)]_vars
  BY DEF NewMailsAreWhole
<1> QED BY <1>1, <1>2, InvariantHolds, PTL DEF Spec, MailsAreWhole

\* A step that was decided before a clean-up is in no mail claimed after it.
THEOREM DecidedStepsStayQuiet == Spec => HandledStepsAreNotAnnounced
<1>1. IInv /\ [Next]_vars => [NewMailsAreOfOpenSteps]_vars
  BY OnlyClaimsMail
<1>2. [NewMailsAreOfOpenSteps]_vars <=> [\A b \in bundles' \ bundles : b.keys \cap cleaned = {}]_vars
  BY DEF NewMailsAreOfOpenSteps
<1> QED BY <1>1, <1>2, InvariantHolds, PTL DEF Spec, HandledStepsAreNotAnnounced

=============================================================================
