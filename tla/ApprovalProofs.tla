--------------------------- MODULE ApprovalProofs ---------------------------
(***************************************************************************)
(* Theorems about Approval, for every number of people, sessions, roles,   *)
(* organisations and route settings.                                       *)
(***************************************************************************)
EXTENDS Approval, FiniteSetTheorems, WellFoundedInduction, TLAPS

-----------------------------------------------------------------------------
(* Least and greatest elements. *)

NatLess == {pair \in Nat \X Nat : pair[1] < pair[2]}

LEMMA NotLess ==
    ASSUME NEW x \in Nat, NEW y \in Nat, ~ (<<y, x>> \in NatLess)
    PROVE  x <= y
BY DEF NatLess

LEMMA NatLessIsWellFounded == IsWellFoundedOn(NatLess, Nat)
<1>1. OpToRel(<, Nat) = NatLess
  BY Zenon DEF OpToRel, NatLess
<1> QED BY <1>1, NatLessThanWellFounded, Zenon

\* A non-empty set of numbers has a least element.
LEMMA LeastExists ==
    ASSUME NEW S \in SUBSET Nat, S # {}
    PROVE  /\ LeastOf(S) \in S
           /\ \A j \in S : LeastOf(S) <= j
<1>1. PICK x \in S : \A y \in S : ~ (<<y, x>> \in NatLess)
  BY WFMin, NatLessIsWellFounded
<1>2. \A y \in S : x <= y
  BY <1>1, NotLess
<1> QED BY <1>2 DEF LeastOf

\* A finite non-empty set of numbers has a greatest element: otherwise take
\* such a set with the fewest elements and remove one of them.
LEMMA GreatestExists ==
    ASSUME NEW S \in SUBSET Nat, IsFiniteSet(S), S # {}
    PROVE  /\ GreatestOf(S) \in S
           /\ \A j \in S : j <= GreatestOf(S)
<1> DEFINE Bounded(T) == \E m \in T : \A j \in T : j <= m
           Unbounded == {n \in Nat : \E T \in SUBSET Nat :
                            /\ IsFiniteSet(T) /\ T # {} /\ Cardinality(T) = n
                            /\ ~ Bounded(T)}
<1>1. Unbounded = {}
  <2>1. SUFFICES ASSUME Unbounded # {} PROVE FALSE
    OBVIOUS
  <2>2. PICK n \in Unbounded : \A k \in Unbounded : ~ (<<k, n>> \in NatLess)
    BY <2>1, WFMin, NatLessIsWellFounded
  <2>3. \A k \in Unbounded : n <= k
    BY <2>2, NotLess
  <2>4. PICK T \in SUBSET Nat : IsFiniteSet(T) /\ T # {} /\ Cardinality(T) = n /\ ~ Bounded(T)
    OBVIOUS
  <2>5. PICK x \in T : TRUE
    BY <2>4
  <2>6. IsFiniteSet(T \ {x}) /\ Cardinality(T \ {x}) = n - 1
    BY <2>4, <2>5, FS_RemoveElement
  <2>7. n - 1 \in Nat /\ n - 1 < n
    BY <2>6, FS_CardinalityType
  <2>8. n - 1 \notin Unbounded
    BY <2>3, <2>7
  <2>9. CASE T \ {x} = {}
    <3>1. T = {x}
      BY <2>5, <2>9
    <3> QED BY <3>1, <2>4
  <2>10. CASE T \ {x} # {}
    <3>1. T \ {x} \in SUBSET Nat
      OBVIOUS
    <3>2. PICK m \in T \ {x} : \A j \in T \ {x} : j <= m
      BY <2>6, <2>7, <2>8, <2>10, <3>1
    <3>3. CASE m <= x
      <4>1. \A j \in T : j <= x
        BY <3>2, <3>3, <2>5
      <4> QED BY <4>1, <2>5, <2>4
    <3>4. CASE x < m
      <4>1. \A j \in T : j <= m
        BY <3>2, <3>4, <2>5
      <4> QED BY <4>1, <3>2, <2>4
    <3> QED BY <3>3, <3>4, <2>5, <3>2
  <2> QED BY <2>9, <2>10
<1>2. Cardinality(S) \in Nat
  BY FS_CardinalityType
<1>3. Bounded(S)
  BY <1>1, <1>2
<1> QED BY <1>3 DEF GreatestOf

\* The index of the fallback seat lies behind every step of the round.
LEMMA NextIndexIsFree ==
    ASSUME NEW steps, IsStepTable(steps)
    PROVE  /\ NextIndex(steps) \in StepIndex
           /\ \A i \in DOMAIN steps : i < NextIndex(steps)
<1>1. CASE DOMAIN steps = {}
  BY <1>1 DEF NextIndex, StepIndex
<1>2. CASE DOMAIN steps # {}
  <2>1. DOMAIN steps \in SUBSET Nat /\ IsFiniteSet(DOMAIN steps)
    BY DEF IsStepTable, StepIndex
  <2>2. /\ GreatestOf(DOMAIN steps) \in DOMAIN steps
        /\ \A j \in DOMAIN steps : j <= GreatestOf(DOMAIN steps)
    BY <1>2, <2>1, GreatestExists
  <2> QED BY <1>2, <2>1, <2>2 DEF NextIndex, StepIndex
<1> QED BY <1>1, <1>2

-----------------------------------------------------------------------------
(* The walk. *)

\* Whoever the walk lets act has not approved in this round.
LEMMA CandidatesAreFresh ==
    ASSUME NEW route, NEW snapshot, NEW drafter, NEW at
    PROVE  WalkRoute(route, snapshot, drafter, at).candidateIds \cap Approvers(route.steps) = {}
BY DEF WalkRoute, FallbackOutcome, FallbackCandidates, Candidates, Others, Outcome

\* An actionable seat that is not the fallback seat is an open step of the round.
LEMMA SeatIsAnOpenStep ==
    ASSUME NEW route, IsRoute(route), NEW snapshot, NEW drafter, NEW at,
           WalkRoute(route, snapshot, drafter, at).kind = "actionable",
           ~ WalkRoute(route, snapshot, drafter, at).isFallback
    PROVE  LET i == WalkRoute(route, snapshot, drafter, at).stepIndex
           IN  i \in DOMAIN route.steps /\ route.steps[i].action = "none" /\ ~ route.steps[i].isFallback
<1> DEFINE open == Actionable(route, snapshot, drafter)
<1>1. CASE open = {}
  BY <1>1 DEF WalkRoute, FallbackOutcome, Outcome
<1>2. CASE open # {}
  <2>1. open \in SUBSET Nat
    BY DEF Actionable, IsRoute, IsStepTable, StepIndex
  <2>2. LeastOf(open) \in open
    BY <1>2, <2>1, LeastExists
  <2>3. /\ WalkRoute(route, snapshot, drafter, at).stepIndex = LeastOf(open)
        /\ WalkRoute(route, snapshot, drafter, at).isFallback = route.steps[LeastOf(open)].isFallback
    BY <1>2 DEF WalkRoute, Outcome
  <2> QED BY <2>2, <2>3 DEF Actionable
<1> QED BY <1>1, <1>2

\* A drafter has a seat of the route only where the route lets a drafter approve.
LEMMA DrafterIsLetIn ==
    ASSUME NEW route, NEW snapshot, NEW drafter, NEW at,
           WalkRoute(route, snapshot, drafter, at).kind = "actionable",
           ~ WalkRoute(route, snapshot, drafter, at).isFallback,
           drafter \in WalkRoute(route, snapshot, drafter, at).candidateIds
    PROVE  route.selfApproval = "self_approve"
BY DEF WalkRoute, FallbackOutcome, Outcome, Candidates, Others

\* Writing one well-formed step keeps the table of steps well formed.
LEMMA WithStepType ==
    ASSUME NEW steps, IsStepTable(steps), NEW i \in StepIndex, NEW step \in Step
    PROVE  IsStepTable(WithStep(steps, i, step))
<1>1. DOMAIN WithStep(steps, i, step) = DOMAIN steps \cup {i}
  BY DEF WithStep
<1>2. IsFiniteSet(DOMAIN steps \cup {i})
  BY FS_AddElement DEF IsStepTable
<1>3. \A k \in DOMAIN steps : steps[k] \in Step
  BY DEF IsStepTable
<1>4. WithStep(steps, i, step) \in [DOMAIN steps \cup {i} -> Step]
  BY <1>3 DEF WithStep
<1> QED BY <1>1, <1>2, <1>4 DEF IsStepTable

\* A decision is a well-formed step.
LEMMA ActedType ==
    ASSUME NEW step \in Step, NEW viewer \in People, NEW action \in {"approved", "rejected"}
    PROVE  /\ Acted(step, viewer, action) \in Step
           /\ Acted(step, viewer, action).actedBy = viewer
           /\ Acted(step, viewer, action).action = action
           /\ Acted(step, viewer, action).isFallback = step.isFallback
           /\ Acted(step, viewer, action).selfApproved <=> action = "approved" /\ viewer = Drafter
<1> DEFINE marked == action = "approved" /\ viewer = Drafter
<1>1. marked \in BOOLEAN
  OBVIOUS
<1> HIDE DEF marked
<1>2. [step EXCEPT !.actedBy = viewer, !.action = action, !.selfApproved = marked] \in Step
  BY <1>1 DEF Step
<1>3. Acted(step, viewer, action) =
        [step EXCEPT !.actedBy = viewer, !.action = action, !.selfApproved = marked]
  BY DEF Acted, marked
<1>4. /\ Acted(step, viewer, action) \in Step
      /\ Acted(step, viewer, action).actedBy = viewer
      /\ Acted(step, viewer, action).action = action
      /\ Acted(step, viewer, action).isFallback = step.isFallback
      /\ Acted(step, viewer, action).selfApproved = marked
  BY <1>2, <1>3 DEF Step
<1> QED BY <1>4 DEF marked

LEMMA FallbackStepType ==
    ASSUME NEW viewer \in People, NEW action \in {"approved", "rejected"}
    PROVE  /\ FallbackStep(viewer, action) \in Step
           /\ FallbackStep(viewer, action).actedBy = viewer
           /\ FallbackStep(viewer, action).action = action
           /\ FallbackStep(viewer, action).isFallback
           /\ FallbackStep(viewer, action).selfApproved <=> action = "approved" /\ viewer = Drafter
<1> DEFINE open == [roleId |-> CeoRole, scopeKind |-> "company", scopeTargetId |-> Null,
                    isFallback |-> TRUE, actedBy |-> Null, action |-> "none",
                    selfApproved |-> FALSE]
<1>1. open \in Step
  BY CeoIsARole DEF Step, ScopeKinds
<1> QED BY <1>1, ActedType DEF FallbackStep

\* A route whose steps nobody has decided yet.
IsFresh(route) ==
    /\ IsRoute(route)
    /\ \A i \in DOMAIN route.steps :
         /\ route.steps[i].action = "none" /\ route.steps[i].actedBy = Null
         /\ ~ route.steps[i].isFallback

\* A route is planned from the settings with well-formed steps, all open.
LEMMA PlanIsFresh ==
    ASSUME NEW setting \in RouteConfigs, NEW snapshot \in Snapshots, NEW drafter \in People
    PROVE  IsFresh(PlanRoute(setting, snapshot, drafter))
<1> DEFINE team == IF drafter \in DOMAIN snapshot THEN snapshot[drafter].teamId ELSE Null
           unit == IF drafter \in DOMAIN snapshot THEN snapshot[drafter].orgUnitId ELSE Null
           kept == {i \in DOMAIN setting.steps : setting.steps[i].enabled}
           steps == [i \in kept |-> PlanStep(setting.steps[i], team, unit)]
<1>1. setting \in RouteConfig
  BY ConfigsAreConfigs
<1>2. /\ setting.selfApproval \in SelfApprovals
      /\ setting.steps \in Seq(ConfigStep)
  BY <1>1 DEF RouteConfig
<1>3. /\ DOMAIN setting.steps = 1 .. Len(setting.steps)
      /\ Len(setting.steps) \in Nat
      /\ \A i \in DOMAIN setting.steps : setting.steps[i] \in ConfigStep
  BY <1>2
<1>4. team \in Teams \cup {Null} /\ unit \in OrgUnits \cup {Null}
  <2>1. snapshot \in Snapshot
    BY SnapshotsAreSnapshots
  <2>2. \A p \in DOMAIN snapshot : snapshot[p] \in SnapshotPerson
    BY <2>1 DEF Snapshot
  <2> QED BY <2>2 DEF SnapshotPerson
<1>5. ASSUME NEW step \in ConfigStep
      PROVE  PlanStep(step, team, unit) \in Step
  <2>1. step.scope \in ScopeSettings /\ step.roleId \in Roles \cup {Null}
          /\ step.orgUnitId \in OrgUnits \cup {Null}
    BY DEF ConfigStep
  <2>2. /\ ResolveStepScope(step, team, unit)[1] \in ScopeKinds
        /\ ResolveStepScope(step, team, unit)[2] \in Teams \cup OrgUnits \cup {Null}
    <3> HIDE DEF team, unit
    <3> QED BY <2>1, <1>4, DocTeamIsATeam DEF ResolveStepScope, ScopeSettings, ScopeKinds
  <2> QED BY <2>1, <2>2 DEF PlanStep, Step
<1>6. IsFiniteSet(kept) /\ kept \subseteq StepIndex
  <2>1. IsFiniteSet(1 .. Len(setting.steps))
    <3>1. \A n \in Nat : IsFiniteSet(1 .. n)
      BY FS_Interval
    <3> QED BY <1>3, <3>1
  <2>2. kept \subseteq 1 .. Len(setting.steps)
    BY <1>3
  <2> QED BY <1>3, <2>1, <2>2, FS_Subset DEF StepIndex
<1>7. IsStepTable(steps)
  BY <1>3, <1>5, <1>6 DEF IsStepTable
<1>8. PlanRoute(setting, snapshot, drafter) =
        [selfApproval |-> setting.selfApproval, steps |-> steps]
  BY DEF PlanRoute
<1>9. \A i \in DOMAIN steps :
        steps[i].action = "none" /\ steps[i].actedBy = Null /\ ~ steps[i].isFallback
  BY DEF PlanStep
<1> HIDE DEF steps
<1> QED BY <1>2, <1>7, <1>8, <1>9 DEF IsFresh, IsRoute

\* The status machine leads to a status, and never back to a draft.
LEMMA NextStepType ==
    ASSUME NEW status, NEW event, NEW allowWithdrawn, Allows(status, event, allowWithdrawn)
    PROVE  NextStep(status, event, allowWithdrawn) \in Statuses \ {"draft"}
<1>1. PICK next \in Statuses : <<status, event, next>> \in Transitions(allowWithdrawn)
  BY DEF Allows
<1>2. <<status, event, NextStep(status, event, allowWithdrawn)>> \in Transitions(allowWithdrawn)
  BY <1>1 DEF NextStep
<1>3. NextStep(status, event, allowWithdrawn) \in Statuses
  BY <1>1 DEF NextStep
<1>4. <<status, event, "draft">> \notin Transitions(allowWithdrawn)
  BY DEF Transitions
<1> QED BY <1>2, <1>3, <1>4

-----------------------------------------------------------------------------
(* The inductive invariant.  A request is judged on rows it has read in two  *)
(* queries; what makes its commit sound is that it can only win if the       *)
(* version has not moved since the screen was loaded, and every write moves  *)
(* it.  So the invariant says of each request which of its reads are current *)
(* as long as its version is, and of each round who has decided.             *)

\* A request record holds what the phase it has reached has read.
IsRequest(req) ==
    /\ IsSession(req)
    /\ req # Idle => req.pc # "idle" /\ req.viewer \in People
    /\ req.pc \in {"prepared", "reading", "judged"} =>
         /\ req.snapshot \in Snapshots
         /\ req.event \in {"submit", "resubmit"} => IsFresh(req.plan)
    /\ req.pc \in {"reading", "judged"} => req.event # "submit"
    /\ req.pc = "judged" =>
         /\ IsRoute(req.route)
         /\ Accepted(req.viewer, req.event, req.expected, req.inst, req.route, req.snapshot)

\* What a request has read is the past of the rows, and their present if the
\* version says so.
IsCoherent(req, inst, rts) ==
    /\ req.expected <= inst.version
    /\ req # Idle /\ (req.event # "submit" \/ req.pc = "opening") => inst.status # "draft"
    /\ req # Idle /\ req.event \in {"approve", "reject"} /\ req.expected = inst.version
         => inst.status \in InProgress
    /\ req.pc = "opening" => req.inst.version = req.expected
    /\ req.pc \in {"opening", "reading", "judged"} =>
         /\ req.inst.version <= inst.version
         /\ req.inst.version = inst.version => req.inst = inst
         /\ req.inst.currentRound \in DOMAIN rts
    /\ req.pc = "judged" /\ req.expected = inst.version => req.route = rts[inst.currentRound]

\* A step is decided exactly if it names the person who decided it, nobody has
\* decided two, and only a rejection ends a round with a rejected step.
IsSoundRound(route) ==
    /\ IsRoute(route)
    /\ \A i \in DOMAIN route.steps :
         route.steps[i].action = "none" <=> route.steps[i].actedBy = Null
    /\ \A i, j \in Decided(route.steps) :
         route.steps[i].actedBy = route.steps[j].actedBy => i = j

NobodyRejected(route) == \A i \in DOMAIN route.steps : route.steps[i].action # "rejected"

AreSoundRows(inst, rts) ==
    /\ inst \in Instance
    /\ inst.status = "draft" => inst = NoRow
    /\ inst.status # "draft" => inst.currentRound \in DOMAIN rts
    /\ DOMAIN rts = 1 .. inst.currentRound
    /\ \A r \in DOMAIN rts : IsSoundRound(rts[r])
    /\ inst.status \in InProgress => NobodyRejected(rts[inst.currentRound])

IInv ==
    /\ AreSoundRows(instance, routes)
    /\ org \in Snapshots
    /\ config \in RouteConfigs
    /\ DOMAIN session = Sessions
    /\ \A s \in Sessions : IsRequest(session[s]) /\ IsCoherent(session[s], instance, routes)

\* The status machine, event by event.
LEMMA StepsUnderReview ==
    ASSUME NEW status \in InProgress
    PROVE  /\ NextStep(status, "approve", FALSE) = "in_review"
           /\ NextStep(status, "approve_final", FALSE) = "approved"
           /\ NextStep(status, "reject", FALSE) = "rejected"
           /\ NextStep(status, "withdraw", FALSE) = "withdrawn"
<1> DEFINE T == Transitions(FALSE)
<1>1. \A next \in Statuses : <<status, "approve", next>> \in T <=> next = "in_review"
  BY DEF Transitions, InProgress
<1>2. \A next \in Statuses : <<status, "approve_final", next>> \in T <=> next = "approved"
  BY DEF Transitions, InProgress
<1>3. \A next \in Statuses : <<status, "reject", next>> \in T <=> next = "rejected"
  BY DEF Transitions, InProgress
<1>4. \A next \in Statuses : <<status, "withdraw", next>> \in T <=> next = "withdrawn"
  BY DEF Transitions, InProgress
<1>5. {"in_review", "approved", "rejected", "withdrawn"} \subseteq Statuses
  BY DEF Statuses
<1> HIDE DEF T
<1> QED BY <1>1, <1>2, <1>3, <1>4, <1>5 DEF NextStep, T

LEMMA StepsIntoANewRound ==
    /\ NextStep("draft", "submit", FALSE) = "submitted"
    /\ \A status \in {"rejected", "withdrawn"} :
         NextStep(status, "resubmit", status = "withdrawn") = "submitted"
<1>1. \A next \in Statuses : <<"draft", "submit", next>> \in Transitions(FALSE) <=> next = "submitted"
  BY DEF Transitions, InProgress
<1>2. \A next \in Statuses :
        <<"rejected", "resubmit", next>> \in Transitions(FALSE) <=> next = "submitted"
  BY DEF Transitions, InProgress
<1>3. \A next \in Statuses :
        <<"withdrawn", "resubmit", next>> \in Transitions(TRUE) <=> next = "submitted"
  BY DEF Transitions, InProgress
<1>4. "submitted" \in Statuses
  BY DEF Statuses
<1>5. NextStep("rejected", "resubmit", FALSE) = "submitted"
  BY <1>2, <1>4 DEF NextStep
<1>6. NextStep("withdrawn", "resubmit", TRUE) = "submitted"
  BY <1>3, <1>4 DEF NextStep
<1>7. ("rejected" = "withdrawn") = FALSE /\ ("withdrawn" = "withdrawn") = TRUE
  OBVIOUS
<1>8. NextStep("draft", "submit", FALSE) = "submitted"
  BY <1>1, <1>4 DEF NextStep
<1> QED BY <1>5, <1>6, <1>7, <1>8

\* What the verdict of a withdrawal or of a resubmission implies.
LEMMA WithdrawnUnderReview ==
    ASSUME NEW status, NEW d, NEW prior, ~ ClosedFor(status, "withdraw", d, prior)
    PROVE  status \in InProgress
<1>1. Allows(status, "withdraw", FALSE)
  BY DEF ClosedFor, AllowsEvent
<1> QED BY <1>1 DEF Allows, Transitions, InProgress

LEMMA ResubmittedAfterReturn ==
    ASSUME NEW status, NEW d, NEW prior, ~ ClosedFor(status, "resubmit", d, prior)
    PROVE  status \in {"rejected", "withdrawn"}
BY ResubmitFromIsReturned DEF ClosedFor

-----------------------------------------------------------------------------
(* Requests. *)

LEMMA IdleIsARequest == IsRequest(Idle)
<1>1. IsSession(Idle)
  BY DEF IsSession, Idle, Events, Instance, NoRow, Statuses
<1> QED BY <1>1 DEF IsRequest, Idle

LEMMA IdleIsCoherent ==
    ASSUME NEW inst \in Instance, NEW rts
    PROVE  IsCoherent(Idle, inst, rts)
BY DEF IsCoherent, Idle, Instance

\* The other requests stay coherent when the version moves.
LEMMA CoherentAfterCommit ==
    ASSUME NEW req, IsSession(req), NEW inst \in Instance, NEW inst2 \in Instance,
           NEW rts, NEW rts2,
           IsCoherent(req, inst, rts),
           inst2.version > inst.version, inst2.status # "draft",
           DOMAIN rts \subseteq DOMAIN rts2
    PROVE  IsCoherent(req, inst2, rts2)
<1>1. /\ req.expected \in Nat /\ req.inst.version \in Nat
      /\ inst.version \in Nat /\ inst2.version \in Nat
  BY DEF IsSession, Instance
<1>2. req.expected < inst2.version
  BY <1>1 DEF IsCoherent
<1>3. req.pc \in {"opening", "reading", "judged"} => req.inst.version < inst2.version
  BY <1>1 DEF IsCoherent
<1> QED BY <1>1, <1>2, <1>3 DEF IsCoherent

\* A step of one request that writes nothing.
LEMMA ReadStep ==
    ASSUME IInv, NEW s \in Sessions, NEW req, session' = [session EXCEPT ![s] = req],
           IsRequest(req), IsCoherent(req, instance, routes),
           UNCHANGED <<instance, routes, org, config>>
    PROVE  IInv'
<1>1. DOMAIN session' = Sessions
  BY DEF IInv
<1>2. \A t \in Sessions : session'[t] = session[t] \/ session'[t] = req
  BY DEF IInv
<1> QED BY <1>1, <1>2 DEF IInv

\* A step of one request that writes, moves the version and ends the request.
LEMMA CommitStep ==
    ASSUME IInv, NEW s \in Sessions, Finish(s),
           AreSoundRows(instance', routes'),
           instance'.version > instance.version, instance'.status # "draft",
           DOMAIN routes \subseteq DOMAIN routes',
           UNCHANGED <<org, config>>
    PROVE  IInv'
<1>1. DOMAIN session' = Sessions
  BY DEF IInv, Finish
<1>2. \A t \in Sessions : session'[t] = session[t] \/ session'[t] = Idle
  BY DEF IInv, Finish
<1>3. instance \in Instance /\ instance' \in Instance
  BY DEF IInv, AreSoundRows
<1>4. \A t \in Sessions : IsCoherent(session[t], instance', routes')
  BY <1>3, CoherentAfterCommit DEF IInv, IsRequest
<1>5. IsRequest(Idle) /\ IsCoherent(Idle, instance', routes')
  BY <1>3, IdleIsARequest, IdleIsCoherent
<1> QED BY <1>1, <1>2, <1>4, <1>5 DEF IInv

-----------------------------------------------------------------------------
(* Decisions. *)

\* A request that can still win has read the rows as they are now.
LEMMA WinnerIsCurrent ==
    ASSUME IInv, NEW s \in Sessions, session[s].pc = "judged",
           session[s].expected = instance.version
    PROVE  /\ session[s].inst = instance
           /\ session[s].route = routes[instance.currentRound]
           /\ instance.currentRound \in DOMAIN routes
           /\ session[s].event \in {"approve", "reject"} =>
                instance.status \in InProgress
<1>1. IsRequest(session[s]) /\ IsCoherent(session[s], instance, routes)
  BY DEF IInv
<1>2. session[s] # Idle
  BY DEF Idle
<1>3. session[s].inst.version = session[s].expected
  BY <1>1 DEF IsRequest, Accepted
<1> QED BY <1>1, <1>2, <1>3 DEF IsCoherent

Decision(route, i, step) == [route EXCEPT !.steps = WithStep(route.steps, i, step)]

\* Whoever has decided in a round under review has approved.
LEMMA DecidersHaveApproved ==
    ASSUME NEW route, IsSoundRound(route), NobodyRejected(route), NEW k \in Decided(route.steps)
    PROVE  route.steps[k].action = "approved" /\ route.steps[k].actedBy \in Approvers(route.steps)
<1>1. /\ k \in DOMAIN route.steps /\ route.steps[k] \in Step /\ route.steps[k].action # "none"
  BY DEF Decided, IsSoundRound, IsRoute, IsStepTable
<1>2. route.steps[k].action = "approved"
  BY <1>1 DEF Step, NobodyRejected
<1>3. route.steps[k].actedBy # Null
  BY <1>1 DEF IsSoundRound
<1> QED BY <1>1, <1>2, <1>3 DEF Approvers, ActedBy

\* A decision of somebody new in an open step keeps the round sound.
LEMMA DecisionKeepsRoundSound ==
    ASSUME NEW route, IsSoundRound(route), NobodyRejected(route),
           NEW i \in StepIndex, i \in DOMAIN route.steps => route.steps[i].action = "none",
           NEW step \in Step, step.actedBy \in People, step.actedBy \notin Approvers(route.steps),
           step.action \in {"approved", "rejected"}
    PROVE  LET route2 == Decision(route, i, step)
           IN  /\ IsSoundRound(route2)
               /\ step.action = "approved" => NobodyRejected(route2)
               /\ route2.selfApproval = route.selfApproval
               /\ \A k \in DOMAIN route.steps :
                    /\ k \in DOMAIN route2.steps
                    /\ route.steps[k].action # "none" => route2.steps[k] = route.steps[k]
<1> DEFINE steps == route.steps
           steps2 == WithStep(steps, i, step)
           route2 == Decision(route, i, step)
<1>1. IsRoute(route) /\ IsStepTable(steps)
  BY DEF IsSoundRound, IsRoute
<1>2. /\ route2.steps = steps2
      /\ route2.selfApproval = route.selfApproval
      /\ IsStepTable(steps2)
      /\ IsRoute(route2)
  <2>1. IsStepTable(steps2)
    BY <1>1, WithStepType
  <2>2. route \in [selfApproval : SelfApprovals, steps : {steps}]
    BY <1>1 DEF IsRoute
  <2>3. route2.steps = steps2 /\ route2.selfApproval = route.selfApproval
    BY <2>2 DEF Decision
  <2>4. route2 \in [selfApproval : SelfApprovals, steps : {route2.steps}]
    BY <2>2, <2>3 DEF Decision
  <2> QED BY <2>1, <2>3, <2>4 DEF IsRoute
<1> HIDE DEF route2
<1>3. /\ DOMAIN steps2 = DOMAIN steps \cup {i}
      /\ steps2[i] = step
      /\ \A k \in DOMAIN steps : k # i => steps2[k] = steps[k]
  BY DEF WithStep
<1>4. \A k \in DOMAIN steps2 : steps2[k].action = "none" <=> steps2[k].actedBy = Null
  <2>1. step.actedBy # Null
    BY NullIsNoId
  <2> QED BY <1>3, <2>1 DEF IsSoundRound
<1>5. \A k \in Decided(steps2) : k # i => k \in Decided(steps) /\ steps2[k] = steps[k]
  BY <1>3 DEF Decided
<1>6. \A k \in Decided(steps) : steps[k].actedBy \in Approvers(steps)
  BY DecidersHaveApproved
<1>7. \A k, j \in Decided(steps2) : steps2[k].actedBy = steps2[j].actedBy => k = j
  <2>1. TAKE k, j \in Decided(steps2)
  <2>2. CASE k # i /\ j # i
    BY <1>5, <2>2 DEF IsSoundRound
  <2>3. CASE k = i /\ j # i
    BY <1>3, <1>5, <1>6, <2>3
  <2>4. CASE k # i /\ j = i
    BY <1>3, <1>5, <1>6, <2>4
  <2> QED BY <2>2, <2>3, <2>4
<1>8. IsSoundRound(route2)
  BY <1>2, <1>4, <1>7 DEF IsSoundRound
<1>9. step.action = "approved" => NobodyRejected(route2)
  BY <1>2, <1>3 DEF NobodyRejected
<1>10. \A k \in DOMAIN steps :
         k \in DOMAIN steps2 /\ (steps[k].action # "none" => steps2[k] = steps[k])
  BY <1>3
<1> QED BY <1>2, <1>8, <1>9, <1>10 DEF route2

\* What a decision in the seat of a walk writes: an open step of the route, or
\* a step behind all others, with the viewer's name on it; a drafter decides
\* where the route or the fallback seat allows it.
Decides(route, viewer, action, i, step) ==
    /\ i \in DOMAIN route.steps => route.steps[i].action = "none"
    /\ step.actedBy = viewer /\ step.action = action
    /\ step.selfApproved <=> action = "approved" /\ viewer = Drafter
    /\ step.isFallback => \A k \in DOMAIN route.steps : k < i
    /\ viewer = Drafter /\ ~ step.isFallback => route.selfApproval = "self_approve"

\* The step and the index a request that wins decides.
LEMMA WinnerDecides ==
    ASSUME IInv, NEW s \in Sessions, session[s].pc = "judged",
           session[s].event \in {"approve", "reject"},
           session[s].expected = instance.version,
           NEW action \in {"approved", "rejected"}, WriteStep(s, action)
    PROVE  LET route == routes[instance.currentRound]
               viewer == session[s].viewer
           IN  /\ viewer \in People \ Approvers(route.steps)
               /\ session[s].event = "reject" => viewer # Drafter
               /\ \E i \in StepIndex, step \in Step :
                    /\ Decides(route, viewer, action, i, step)
                    /\ step.isFallback <=> Seat(s).isFallback
                    /\ routes' = [routes EXCEPT ![instance.currentRound] = Decision(route, i, step)]
<1> DEFINE round == instance.currentRound
           route == routes[round]
           steps == route.steps
           seat == WalkRoute(route, session[s].snapshot, Drafter, "before_action")
           viewer == session[s].viewer
           i == IF seat.isFallback THEN NextIndex(steps) ELSE seat.stepIndex
           step == IF seat.isFallback THEN FallbackStep(viewer, action)
                   ELSE Acted(steps[seat.stepIndex], viewer, action)
<1>1. /\ session[s].inst = instance /\ session[s].route = route /\ round \in DOMAIN routes
      /\ instance.status \in InProgress
  BY WinnerIsCurrent
<1>2. IsSoundRound(route) /\ IsRoute(route) /\ IsStepTable(steps) /\ NobodyRejected(route)
  BY <1>1 DEF IInv, AreSoundRows, IsSoundRound, IsRoute
<1>3. /\ viewer \in People /\ IsCandidate(viewer, seat)
      /\ session[s].event = "reject" => viewer # Drafter
  <2>1. IsRequest(session[s]) /\ session[s] # Idle
    BY DEF IInv, Idle
  <2>2. Entitled(viewer, session[s].event, route, session[s].snapshot)
    BY <1>1, <2>1 DEF IsRequest, Accepted
  <2> QED BY <2>1, <2>2 DEF Entitled, IsRequest
<1>4. viewer \notin Approvers(steps)
  BY <1>3, CandidatesAreFresh DEF IsCandidate
<1>5. Seat(s) = seat
  BY <1>1 DEF Seat
<1>6. viewer = Drafter /\ ~ seat.isFallback => route.selfApproval = "self_approve"
  BY <1>3, DrafterIsLetIn DEF IsCandidate
<1> HIDE DEF seat
<1>7. routes' = [routes EXCEPT ![round] = Decision(route, i, step)]
  BY <1>1, <1>5 DEF WriteStep, Decision
<1>8. CASE seat.isFallback
  <2>1. NextIndex(steps) \in StepIndex /\ \A k \in DOMAIN steps : k < NextIndex(steps)
    BY <1>2, NextIndexIsFree
  <2>2. NextIndex(steps) \notin DOMAIN steps
    BY <2>1 DEF StepIndex
  <2>3. /\ step \in Step /\ step.actedBy = viewer /\ step.action = action /\ step.isFallback
        /\ step.selfApproved <=> action = "approved" /\ viewer = Drafter
    BY <1>3, <1>8, FallbackStepType
  <2>4. i = NextIndex(steps)
    BY <1>8
  <2> HIDE DEF i, step
  <2> QED BY <1>3, <1>4, <1>5, <1>7, <1>8, <2>1, <2>2, <2>3, <2>4 DEF Decides
<1>9. CASE ~ seat.isFallback
  <2>1. /\ seat.stepIndex \in DOMAIN steps /\ steps[seat.stepIndex].action = "none"
        /\ ~ steps[seat.stepIndex].isFallback
    BY <1>2, <1>3, <1>9, SeatIsAnOpenStep DEF seat, IsCandidate
  <2>2. steps[seat.stepIndex] \in Step /\ seat.stepIndex \in StepIndex
    BY <1>2, <2>1 DEF IsStepTable
  <2>3. /\ step \in Step /\ step.actedBy = viewer /\ step.action = action /\ ~ step.isFallback
        /\ step.selfApproved <=> action = "approved" /\ viewer = Drafter
    BY <1>3, <1>9, <2>1, <2>2, ActedType
  <2>4. i = seat.stepIndex
    BY <1>9
  <2> HIDE DEF i, step
  <2> QED BY <1>3, <1>4, <1>5, <1>6, <1>7, <1>9, <2>1, <2>2, <2>3, <2>4 DEF Decides
<1> QED BY <1>8, <1>9

\* What a request that wins writes into the route of the current round.
LEMMA WriteStepKeepsRoundSound ==
    ASSUME IInv, NEW s \in Sessions, session[s].pc = "judged",
           session[s].event \in {"approve", "reject"},
           session[s].expected = instance.version,
           NEW action \in {"approved", "rejected"}, WriteStep(s, action)
    PROVE  LET route == routes[instance.currentRound]
               route2 == routes'[instance.currentRound]
           IN  /\ DOMAIN routes' = DOMAIN routes
               /\ \A r \in DOMAIN routes : r # instance.currentRound => routes'[r] = routes[r]
               /\ IsSoundRound(route2)
               /\ action = "approved" => NobodyRejected(route2)
               /\ route2.selfApproval = route.selfApproval
               /\ \A k \in DOMAIN route.steps :
                    /\ k \in DOMAIN route2.steps
                    /\ route.steps[k].action # "none" => route2.steps[k] = route.steps[k]
<1> DEFINE round == instance.currentRound
           route == routes[round]
           viewer == session[s].viewer
<1>1. round \in DOMAIN routes /\ instance.status \in InProgress
  BY WinnerIsCurrent
<1>2. IsSoundRound(route) /\ NobodyRejected(route)
  BY <1>1 DEF IInv, AreSoundRows
<1>3. viewer \in People /\ viewer \notin Approvers(route.steps)
  BY WinnerDecides
<1>4. PICK i \in StepIndex, step \in Step :
        /\ Decides(route, viewer, action, i, step)
        /\ routes' = [routes EXCEPT ![round] = Decision(route, i, step)]
  BY WinnerDecides
<1> DEFINE route2 == Decision(route, i, step)
<1>5. /\ IsSoundRound(route2)
      /\ action = "approved" => NobodyRejected(route2)
      /\ route2.selfApproval = route.selfApproval
      /\ \A k \in DOMAIN route.steps :
           /\ k \in DOMAIN route2.steps
           /\ route.steps[k].action # "none" => route2.steps[k] = route.steps[k]
  BY <1>2, <1>3, <1>4, DecisionKeepsRoundSound DEF Decides
<1> HIDE DEF route2
<1>6. DOMAIN routes' = DOMAIN routes /\ routes'[round] = route2
        /\ \A r \in DOMAIN routes : r # round => routes'[r] = routes[r]
  BY <1>1, <1>4 DEF route2
<1> QED BY <1>5, <1>6

-----------------------------------------------------------------------------
(* Every step keeps the invariant. *)

LEMMA InitIsInvariant == Init => IInv
<1> SUFFICES ASSUME Init PROVE IInv
  OBVIOUS
<1>1. NoRow \in Instance
  BY DEF NoRow, Instance, Statuses
<1>2. DOMAIN routes = {}
  BY DEF Init
<1>3. 1 .. NoRow.currentRound = {}
  BY DEF NoRow
<1>4. AreSoundRows(instance, routes)
  BY <1>1, <1>2, <1>3 DEF Init, AreSoundRows, NoRow, InProgress
<1>5. DOMAIN session = Sessions /\ \A s \in Sessions : session[s] = Idle
  BY DEF Init
<1>6. \A s \in Sessions :
        IsRequest(session[s]) /\ IsCoherent(session[s], instance, routes)
  BY <1>1, <1>5, IdleIsARequest, IdleIsCoherent DEF Init
<1> QED BY <1>4, <1>5, <1>6 DEF Init, IInv

LEMMA OpenScreenStep ==
    ASSUME IInv, NEW s \in Sessions, OpenScreen(s)
    PROVE  IInv'
<1>1. /\ instance \in Instance /\ DOMAIN session = Sessions /\ session[s] = Idle
      /\ instance.status # "draft" => instance.currentRound \in DOMAIN routes
      /\ UNCHANGED <<instance, routes, org, config>>
  BY DEF IInv, AreSoundRows, OpenScreen
<1>2. CASE instance.status = "draft"
  <2> DEFINE req == [Idle EXCEPT !.pc = "viewing", !.viewer = Drafter]
  <2>1. session' = [session EXCEPT ![s] = req]
    BY <1>1, <1>2 DEF OpenScreen
  <2>2. /\ req.pc = "viewing" /\ req.viewer = Drafter /\ req.event = "submit"
        /\ req.expected = 0 /\ IsSession(req)
    BY DrafterIsAPerson, IdleIsARequest DEF IsRequest, IsSession, Idle
  <2> HIDE DEF req
  <2>3. IsRequest(req) /\ IsCoherent(req, instance, routes)
    BY <1>1, <2>2, DrafterIsAPerson DEF IsRequest, IsCoherent, Instance
  <2> QED BY <1>1, <2>1, <2>3, ReadStep
<1>3. CASE instance.status # "draft"
  <2>1. PICK p \in People :
          session' = [session EXCEPT ![s] =
              [Idle EXCEPT !.pc = "opening", !.viewer = p,
                           !.expected = instance.version, !.inst = instance]]
    BY <1>3 DEF OpenScreen
  <2> DEFINE req == [Idle EXCEPT !.pc = "opening", !.viewer = p,
                                 !.expected = instance.version, !.inst = instance]
  <2>2. /\ req.pc = "opening" /\ req.viewer = p /\ req.event = "submit"
        /\ req.expected = instance.version /\ req.inst = instance
    BY DEF Idle
  <2>3. IsSession(req)
    BY <1>1, IdleIsARequest DEF IsRequest, IsSession, Idle, Instance
  <2>4. session' = [session EXCEPT ![s] = req]
    BY <2>1
  <2> HIDE DEF req
  <2>5. IsRequest(req) /\ IsCoherent(req, instance, routes)
    BY <1>1, <1>3, <2>2, <2>3 DEF IsRequest, IsCoherent, Instance
  <2> QED BY <1>1, <2>4, <2>5, ReadStep
<1> QED BY <1>2, <1>3

LEMMA ReadOfferStep ==
    ASSUME IInv, NEW s \in Sessions, ReadOffer(s)
    PROVE  IInv'
<1> DEFINE old == session[s]
           route == routes[old.inst.currentRound]
<1>1. /\ old.pc = "opening" /\ DOMAIN session = Sessions /\ instance \in Instance
      /\ IsRequest(old) /\ IsCoherent(old, instance, routes)
      /\ UNCHANGED <<instance, routes, org, config>>
  BY DEF IInv, AreSoundRows, ReadOffer
<1>2. PICK e \in PossibleActions(old.viewer, old.inst, route, org) :
        session' = [session EXCEPT ![s].pc = "viewing", ![s].event = e, ![s].inst = NoRow]
  BY DEF ReadOffer
<1> DEFINE req == [old EXCEPT !.pc = "viewing", !.event = e, !.inst = NoRow]
<1>3. session' = [session EXCEPT ![s] = req]
  BY <1>1, <1>2
<1>4. old # Idle /\ old.viewer \in People /\ IsSession(old)
  BY <1>1 DEF IsRequest, Idle
<1>5. e \in Events /\ e # "submit"
  BY <1>2 DEF PossibleActions
<1>6. e \in {"approve", "reject"} => old.inst.status \in InProgress
  BY <1>2 DEF PossibleActions
<1> HIDE DEF old, route
<1>7. /\ req.pc = "viewing" /\ req.event = e /\ req.inst = NoRow
      /\ req.viewer = old.viewer /\ req.expected = old.expected
  BY <1>4 DEF IsSession
<1>8. NoRow \in Instance
  BY DEF NoRow, Instance, Statuses
<1>9. IsSession(req)
  BY <1>4, <1>5, <1>8 DEF IsSession
<1> HIDE DEF req
<1>10. IsRequest(req)
  BY <1>4, <1>7, <1>9 DEF IsRequest
<1>11. IsCoherent(req, instance, routes)
  BY <1>1, <1>4, <1>5, <1>6, <1>7 DEF IsCoherent
<1> QED BY <1>1, <1>3, <1>10, <1>11, ReadStep

LEMMA ReadBeforeStep ==
    ASSUME IInv, NEW s \in Sessions, ReadBefore(s)
    PROVE  IInv'
<1> DEFINE old == session[s]
           plan == IF old.event \in {"submit", "resubmit"}
                   THEN PlanRoute(config, org, old.viewer) ELSE Null
           refused == plan # Null /\ Blocked(WalkRoute(plan, org, old.viewer, "before_action"))
           req == [old EXCEPT !.pc = "prepared", !.snapshot = org, !.plan = plan]
<1>1. /\ old.pc = "viewing"
      /\ session' = [session EXCEPT ![s] = IF refused THEN Idle ELSE req]
      /\ UNCHANGED <<instance, routes, org, config>>
  BY DEF ReadBefore
<1> HIDE DEF refused
<1>2. /\ IsRequest(old) /\ IsCoherent(old, instance, routes)
      /\ org \in Snapshots /\ config \in RouteConfigs /\ instance \in Instance
  BY DEF IInv, AreSoundRows
<1>3. old # Idle /\ old.viewer \in People /\ IsSession(old)
  BY <1>1, <1>2 DEF IsRequest, Idle
<1>4. IF old.event \in {"submit", "resubmit"} THEN IsFresh(plan) ELSE plan = Null
  BY <1>2, <1>3, PlanIsFresh
<1>5. plan = Null \/ IsRoute(plan)
  BY <1>4 DEF IsFresh
<1> HIDE DEF plan, old
<1>6. /\ req.pc = "prepared" /\ req.snapshot = org /\ req.plan = plan
      /\ req.event = old.event /\ req.viewer = old.viewer /\ req.expected = old.expected
      /\ req.inst = old.inst
  BY <1>3 DEF IsSession
<1>7. IsSession(req)
  BY <1>2, <1>3, <1>5 DEF IsSession
<1> HIDE DEF req
<1>8. IsRequest(req)
  BY <1>2, <1>3, <1>4, <1>6, <1>7 DEF IsRequest
<1>9. IsCoherent(req, instance, routes)
  BY <1>2, <1>3, <1>6 DEF IsCoherent
<1>10. IsCoherent(Idle, instance, routes)
  BY <1>2, IdleIsCoherent
<1>11. CASE refused
  BY <1>1, <1>10, <1>11, IdleIsARequest, ReadStep
<1>12. CASE ~ refused
  BY <1>1, <1>8, <1>9, <1>12, ReadStep
<1> QED BY <1>11, <1>12

LEMMA ReadInstanceStep ==
    ASSUME IInv, NEW s \in Sessions, ReadInstance(s)
    PROVE  IInv'
<1> DEFINE old == session[s]
           req == [old EXCEPT !.pc = "reading", !.inst = instance]
<1>1. /\ old.pc = "prepared" /\ old.event # "submit"
      /\ UNCHANGED <<instance, routes, org, config>>
  BY DEF ReadInstance
<1>2. /\ IsRequest(old) /\ IsCoherent(old, instance, routes)
      /\ instance \in Instance /\ DOMAIN session = Sessions
  BY DEF IInv, AreSoundRows
<1>3. session' = [session EXCEPT ![s] = req]
  BY <1>2 DEF ReadInstance
<1>4. old # Idle /\ IsSession(old)
  BY <1>1, <1>2 DEF IsRequest, Idle
<1>5. instance.status # "draft" /\ instance.currentRound \in DOMAIN routes
  BY <1>1, <1>2, <1>4 DEF IsCoherent, IInv, AreSoundRows
<1> HIDE DEF old
<1>6. /\ req.pc = "reading" /\ req.inst = instance
      /\ req.snapshot = old.snapshot /\ req.plan = old.plan
      /\ req.event = old.event /\ req.viewer = old.viewer /\ req.expected = old.expected
  BY <1>4 DEF IsSession
<1>7. IsSession(req)
  BY <1>2, <1>4 DEF IsSession
<1> HIDE DEF req
<1>8. IsRequest(req)
  BY <1>1, <1>2, <1>4, <1>6, <1>7 DEF IsRequest
<1>9. IsCoherent(req, instance, routes)
  BY <1>1, <1>2, <1>4, <1>5, <1>6 DEF IsCoherent, Instance
<1> QED BY <1>1, <1>3, <1>8, <1>9, ReadStep

LEMMA ReadRoutesStep ==
    ASSUME IInv, NEW s \in Sessions, ReadRoutes(s)
    PROVE  IInv'
<1> DEFINE old == session[s]
           route == routes[old.inst.currentRound]
           accepted == Accepted(old.viewer, old.event, old.expected, old.inst, route, old.snapshot)
           req == [old EXCEPT !.pc = "judged", !.route = route]
<1>1. /\ old.pc = "reading"
      /\ session' = [session EXCEPT ![s] = IF accepted THEN req ELSE Idle]
      /\ UNCHANGED <<instance, routes, org, config>>
  BY DEF ReadRoutes
<1>2. /\ IsRequest(old) /\ IsCoherent(old, instance, routes) /\ instance \in Instance
  BY DEF IInv, AreSoundRows
<1>3. old # Idle /\ IsSession(old)
  BY <1>1, <1>2 DEF IsRequest, Idle
<1>4. IsRoute(route)
  BY <1>1, <1>2 DEF IsCoherent, IInv, AreSoundRows, IsSoundRound
<1>5. CASE accepted
  <2>1. old.inst.version = old.expected
    BY <1>5 DEF Accepted
  <2>2. old.expected = instance.version => route = routes[instance.currentRound]
    BY <1>1, <1>2, <2>1 DEF IsCoherent
  <2>3. Accepted(old.viewer, old.event, old.expected, old.inst, route, old.snapshot)
    BY <1>5
  <2> HIDE DEF accepted, route, old
  <2>4. /\ req.pc = "judged" /\ req.route = route /\ req.inst = old.inst
        /\ req.snapshot = old.snapshot /\ req.plan = old.plan
        /\ req.event = old.event /\ req.viewer = old.viewer /\ req.expected = old.expected
    BY <1>3 DEF IsSession
  <2>5. IsSession(req)
    BY <1>3, <1>4 DEF IsSession
  <2> HIDE DEF req
  <2>6. IsRequest(req)
    BY <1>1, <1>2, <1>3, <1>4, <2>3, <2>4, <2>5 DEF IsRequest
  <2>7. IsCoherent(req, instance, routes)
    BY <1>1, <1>2, <1>3, <2>1, <2>2, <2>4 DEF IsCoherent
  <2> QED BY <1>1, <1>5, <2>6, <2>7, ReadStep
<1>6. CASE ~ accepted
  <2>1. IsCoherent(Idle, instance, routes)
    BY <1>2, IdleIsCoherent
  <2> HIDE DEF accepted
  <2> QED BY <1>1, <1>6, <2>1, IdleIsARequest, ReadStep
<1> QED BY <1>5, <1>6

LEMMA FailStep ==
    ASSUME IInv, NEW s \in Sessions, Fail(s) \/ LoseRace(s)
    PROVE  IInv'
<1>1. /\ session' = [session EXCEPT ![s] = Idle]
      /\ UNCHANGED <<instance, routes, org, config>>
  BY DEF Fail, LoseRace, Finish
<1>2. IsCoherent(Idle, instance, routes)
  BY IdleIsCoherent DEF IInv, AreSoundRows
<1> QED BY <1>1, <1>2, IdleIsARequest, ReadStep

LEMMA FreshIsSound ==
    ASSUME NEW route, IsFresh(route)
    PROVE  IsSoundRound(route) /\ NobodyRejected(route)
BY DEF IsFresh, IsSoundRound, NobodyRejected, Decided

LEMMA SubmitStep ==
    ASSUME IInv, NEW s \in Sessions, Submit(s)
    PROVE  IInv'
<1>1. CASE instance.status = "draft"
  <2>1. /\ instance = NoRow
        /\ IsRequest(session[s]) /\ session[s].pc = "prepared" /\ session[s].event = "submit"
    BY <1>1 DEF IInv, AreSoundRows, Submit
  <2>2. IsFresh(session[s].plan)
    BY <2>1 DEF IsRequest
  <2>3. /\ instance' = [status |-> "submitted", currentRound |-> 1, version |-> 1]
        /\ routes' = [r \in {1} |-> session[s].plan]
        /\ Finish(s) /\ UNCHANGED <<org, config>>
    BY <1>1, StepsIntoANewRound DEF Submit
  <2>4. instance' \in Instance /\ instance'.version > instance.version /\ instance'.status # "draft"
    BY <2>1, <2>3 DEF Instance, Statuses, NoRow
  <2>5. DOMAIN routes' = 1 .. 1 /\ \A r \in DOMAIN routes' : routes'[r] = session[s].plan
    BY <2>3
  <2>6. AreSoundRows(instance', routes')
    BY <2>1, <2>2, <2>3, <2>4, <2>5, FreshIsSound DEF AreSoundRows
  <2>7. DOMAIN routes = {}
    BY <2>1 DEF IInv, AreSoundRows, NoRow
  <2> QED BY <2>3, <2>4, <2>6, <2>7, CommitStep
<1>2. CASE instance.status # "draft"
  <2>1. /\ session' = [session EXCEPT ![s] = Idle]
        /\ UNCHANGED <<instance, routes, org, config>>
    BY <1>2 DEF Submit, Finish
  <2>2. IsCoherent(Idle, instance, routes)
    BY IdleIsCoherent DEF IInv, AreSoundRows
  <2> QED BY <2>1, <2>2, IdleIsARequest, ReadStep
<1> QED BY <1>1, <1>2

\* Approve and Reject.
LEMMA DecisionStep ==
    ASSUME IInv, NEW s \in Sessions, NEW action \in {"approved", "rejected"}, NEW next,
           session[s].pc = "judged", session[s].event \in {"approve", "reject"},
           UpdateInstance(s, next, session[s].inst.currentRound), WriteStep(s, action),
           next \in (IF action = "approved" THEN {"in_review", "approved"} ELSE {"rejected"}),
           Finish(s), UNCHANGED <<org, config>>
    PROVE  IInv'
<1>1. /\ instance.version = session[s].expected
      /\ instance' = [status |-> next, currentRound |-> session[s].inst.currentRound,
                      version |-> instance.version + 1]
  BY DEF UpdateInstance
<1>2. session[s].inst = instance /\ instance.currentRound \in DOMAIN routes
  BY <1>1, WinnerIsCurrent
<1>3. instance \in Instance /\ DOMAIN routes = 1 .. instance.currentRound
        /\ \A r \in DOMAIN routes : IsSoundRound(routes[r])
  BY DEF IInv, AreSoundRows
<1>4. /\ DOMAIN routes' = DOMAIN routes
      /\ \A r \in DOMAIN routes : r # instance.currentRound => routes'[r] = routes[r]
      /\ IsSoundRound(routes'[instance.currentRound])
      /\ action = "approved" => NobodyRejected(routes'[instance.currentRound])
  BY <1>1, WriteStepKeepsRoundSound
<1>5. /\ instance'.status = next /\ instance'.currentRound = instance.currentRound
      /\ instance'.version = instance.version + 1 /\ instance' \in Instance
  BY <1>1, <1>2, <1>3 DEF Instance, Statuses
<1>6. \A r \in DOMAIN routes' : IsSoundRound(routes'[r])
  BY <1>3, <1>4
<1>7. AreSoundRows(instance', routes')
  BY <1>2, <1>3, <1>4, <1>5, <1>6 DEF AreSoundRows, InProgress
<1>8. instance'.version > instance.version
  BY <1>3, <1>5 DEF Instance
<1> QED BY <1>4, <1>5, <1>7, <1>8, CommitStep

LEMMA ApproveStep ==
    ASSUME IInv, NEW s \in Sessions, Approve(s)
    PROVE  IInv'
<1> DEFINE next == NextStep(session[s].inst.status,
                            IF IsFinal(s) THEN "approve_final" ELSE "approve", FALSE)
<1>1. /\ session[s].pc = "judged" /\ session[s].event = "approve"
      /\ UpdateInstance(s, next, session[s].inst.currentRound)
      /\ WriteStep(s, "approved") /\ Finish(s) /\ UNCHANGED <<org, config>>
  BY DEF Approve
<1>2. session[s].inst.status \in InProgress
  BY <1>1, WinnerIsCurrent DEF UpdateInstance
<1>3. next \in {"in_review", "approved"}
  BY <1>2, StepsUnderReview
<1> HIDE DEF next
<1> QED BY <1>1, <1>3, DecisionStep

LEMMA RejectStep ==
    ASSUME IInv, NEW s \in Sessions, Reject(s)
    PROVE  IInv'
<1> DEFINE next == NextStep(session[s].inst.status, "reject", FALSE)
<1>1. /\ session[s].pc = "judged" /\ session[s].event = "reject"
      /\ UpdateInstance(s, next, session[s].inst.currentRound)
      /\ WriteStep(s, "rejected") /\ Finish(s) /\ UNCHANGED <<org, config>>
  BY DEF Reject
<1>2. session[s].inst.status \in InProgress
  BY <1>1, WinnerIsCurrent DEF UpdateInstance
<1>3. next = "rejected"
  BY <1>2, StepsUnderReview
<1> HIDE DEF next
<1> QED BY <1>1, <1>3, DecisionStep

LEMMA WithdrawStep ==
    ASSUME IInv, NEW s \in Sessions, Withdraw(s)
    PROVE  IInv'
<1>1. /\ session[s].pc = "judged" /\ session[s].event = "withdraw"
      /\ session[s].expected = instance.version
      /\ UNCHANGED <<routes, org, config>> /\ Finish(s)
  BY DEF Withdraw, UpdateInstance
<1>2. session[s].inst = instance /\ instance.currentRound \in DOMAIN routes
  BY <1>1, WinnerIsCurrent
<1>3. Accepted(session[s].viewer, "withdraw", session[s].expected, instance,
               session[s].route, session[s].snapshot)
  BY <1>1, <1>2 DEF IInv, IsRequest
<1>4. instance.status \in InProgress
  BY <1>3, WithdrawnUnderReview DEF Accepted
<1>5. instance' = [status |-> "withdrawn", currentRound |-> instance.currentRound,
                   version |-> instance.version + 1]
  BY <1>2, <1>4, StepsUnderReview DEF Withdraw, UpdateInstance
<1>6. AreSoundRows(instance, routes)
  BY DEF IInv
<1>7. AreSoundRows(instance', routes')
  BY <1>1, <1>2, <1>5, <1>6 DEF AreSoundRows, Instance, Statuses, InProgress
<1>8. instance'.version > instance.version /\ instance'.status # "draft"
  BY <1>5, <1>6 DEF AreSoundRows, Instance
<1> QED BY <1>1, <1>7, <1>8, CommitStep

LEMMA ResubmitStep ==
    ASSUME IInv, NEW s \in Sessions, Resubmit(s)
    PROVE  IInv'
<1> DEFINE round == instance.currentRound + 1
           plan == session[s].plan
<1>1. /\ session[s].pc = "judged" /\ session[s].event = "resubmit"
      /\ session[s].expected = instance.version
      /\ UNCHANGED <<org, config>> /\ Finish(s)
  BY DEF Resubmit, UpdateInstance
<1>2. session[s].inst = instance /\ instance.currentRound \in DOMAIN routes
  BY <1>1, WinnerIsCurrent
<1>3. IsRequest(session[s])
  BY DEF IInv
<1>4. IsFresh(plan)
  BY <1>1, <1>3 DEF IsRequest
<1>5. instance.status \in {"rejected", "withdrawn"}
  <2>1. Accepted(session[s].viewer, "resubmit", session[s].expected, instance,
                 session[s].route, session[s].snapshot)
    BY <1>1, <1>2, <1>3 DEF IsRequest
  <2> QED BY <2>1, ResubmittedAfterReturn DEF Accepted
<1>6. /\ instance' = [status |-> "submitted", currentRound |-> round,
                      version |-> instance.version + 1]
      /\ routes' = [r \in DOMAIN routes \cup {round} |->
                      IF r = round THEN plan ELSE routes[r]]
  BY <1>2, <1>5, StepsIntoANewRound DEF Resubmit, UpdateInstance
<1>7. /\ AreSoundRows(instance, routes)
      /\ instance \in Instance /\ DOMAIN routes = 1 .. instance.currentRound
      /\ instance.currentRound \in Nat /\ instance.version \in Nat
  BY DEF IInv, AreSoundRows, Instance
<1>8. DOMAIN routes' = 1 .. round
  BY <1>6, <1>7
<1>9. \A r \in DOMAIN routes' : IsSoundRound(routes'[r])
  BY <1>4, <1>6, <1>7, FreshIsSound DEF AreSoundRows
<1>10. round \in DOMAIN routes' /\ NobodyRejected(routes'[round])
  BY <1>4, <1>6, <1>7, FreshIsSound
<1>11. instance' \in Instance /\ instance'.version > instance.version
         /\ instance'.status # "draft" /\ instance'.currentRound = round
  BY <1>6, <1>7 DEF Instance, Statuses
<1>12. AreSoundRows(instance', routes')
  BY <1>1, <1>7, <1>8, <1>9, <1>10, <1>11 DEF AreSoundRows
<1> QED BY <1>1, <1>6, <1>11, <1>12, CommitStep

LEMMA BumpStep ==
    ASSUME IInv, BumpInstanceVersion
    PROVE  IInv'
<1>1. /\ UNCHANGED <<routes, org, config, session>>
      /\ instance.status \in InProgress \cup {"approved"}
      /\ instance' = [instance EXCEPT !.version = @ + 1]
  BY DEF BumpInstanceVersion
<1>2. AreSoundRows(instance, routes) /\ instance \in Instance /\ instance.version \in Nat
  BY DEF IInv, AreSoundRows, Instance
<1>3. /\ instance' \in Instance /\ instance'.version > instance.version
      /\ instance'.status = instance.status /\ instance'.status # "draft"
      /\ instance'.currentRound = instance.currentRound
  BY <1>1, <1>2 DEF Instance, InProgress
<1>4. AreSoundRows(instance', routes')
  BY <1>1, <1>2, <1>3 DEF AreSoundRows
<1>5. \A t \in Sessions : IsCoherent(session[t], instance', routes')
  BY <1>1, <1>2, <1>3, CoherentAfterCommit DEF IInv, IsRequest
<1> QED BY <1>1, <1>4, <1>5 DEF IInv

LEMMA SettingsStep ==
    ASSUME IInv, ChangeOrg \/ ChangeConfig
    PROVE  IInv'
BY DEF IInv, ChangeOrg, ChangeConfig

LEMMA StutterStep ==
    ASSUME IInv, UNCHANGED vars
    PROVE  IInv'
BY DEF IInv, vars

LEMMA NextKeepsIInv == IInv /\ [Next]_vars => IInv'
<1> SUFFICES ASSUME IInv, [Next]_vars PROVE IInv'
  OBVIOUS
<1>1. CASE UNCHANGED vars
  BY <1>1, StutterStep
<1>2. ASSUME NEW s \in Sessions,
             \/ OpenScreen(s) \/ ReadOffer(s) \/ ReadBefore(s) \/ ReadInstance(s)
             \/ ReadRoutes(s) \/ Fail(s) \/ LoseRace(s)
      PROVE  IInv'
  BY <1>2, OpenScreenStep, ReadOfferStep, ReadBeforeStep, ReadInstanceStep, ReadRoutesStep, FailStep
<1>3. ASSUME NEW s \in Sessions,
             Submit(s) \/ Approve(s) \/ Reject(s) \/ Withdraw(s) \/ Resubmit(s)
      PROVE  IInv'
  BY <1>3, SubmitStep, ApproveStep, RejectStep, WithdrawStep, ResubmitStep
<1>4. CASE BumpInstanceVersion \/ ChangeOrg \/ ChangeConfig
  BY <1>4, BumpStep, SettingsStep
<1> QED BY <1>1, <1>2, <1>3, <1>4 DEF Next

\* The invariant holds in every reachable state.
THEOREM InvariantHolds == Spec => []IInv
BY InitIsInvariant, NextKeepsIInv, PTL DEF Spec

-----------------------------------------------------------------------------
(* What the invariant is for. *)

\* Every variable keeps its type, whatever the requests do to each other.
THEOREM TypeCorrectness == Spec => []TypeOK
<1>1. ASSUME NEW req, IsRequest(req), IsCoherent(req, instance, routes)
      PROVE  /\ IsSession(req)
             /\ req # Idle => req.pc # "idle" /\ req.viewer # Null
             /\ req.pc \in {"prepared", "reading", "judged"} =>
                  /\ req.snapshot \in Snapshots
                  /\ req.event \in {"submit", "resubmit"} => IsRoute(req.plan)
             /\ req.pc \in {"opening", "reading", "judged"} => req.inst.currentRound \in DOMAIN routes
             /\ req.pc = "judged" => IsRoute(req.route)
  BY <1>1, NullIsNoId DEF IsRequest, IsCoherent, IsFresh
<1>2. IInv => TypeOK
  BY <1>1 DEF IInv, AreSoundRows, IsSoundRound, TypeOK
<1> QED BY <1>2, InvariantHolds, PTL

\* A request that can still win has read current rows, although it read them in
\* two queries and outside of any lock: the optimistic version check is enough.
THEOREM WinnersAreCurrent == Spec => []WinnerReadCurrentRows
<1>1. IInv => WinnerReadCurrentRows
  BY WinnerIsCurrent DEF WinnerReadCurrentRows
<1> QED BY <1>1, InvariantHolds, PTL

\* Nobody decides twice in one round, for any number of concurrent requests,
\* any organisation and any changes of it.
THEOREM DecisionsAreUnique == Spec => []OneDecisionPerPerson
<1>1. IInv => OneDecisionPerPerson
  BY DEF IInv, AreSoundRows, IsSoundRound, OneDecisionPerPerson
<1> QED BY <1>1, InvariantHolds, PTL

\* The step part of HistoryIsFrozen.
RoundsKeepDecisions ==
    \A r \in DOMAIN routes :
        routes'[r] # routes[r] =>
            /\ r = instance.currentRound /\ instance.status \in InProgress
            /\ routes'[r].selfApproval = routes[r].selfApproval
            /\ \A i \in DOMAIN routes[r].steps :
                 routes[r].steps[i].action # "none" => routes'[r].steps[i] = routes[r].steps[i]

LEMMA NextKeepsDecisions == IInv /\ [Next]_vars => RoundsKeepDecisions
<1> SUFFICES ASSUME IInv, [Next]_vars PROVE RoundsKeepDecisions
  OBVIOUS
<1>1. CASE UNCHANGED routes
  BY <1>1 DEF RoundsKeepDecisions
<1>2. ASSUME NEW s \in Sessions, Submit(s)
      PROVE  RoundsKeepDecisions
  <2>1. CASE instance.status = "draft"
    <3>1. DOMAIN routes = {}
      BY <2>1 DEF IInv, AreSoundRows, NoRow
    <3> QED BY <3>1 DEF RoundsKeepDecisions
  <2>2. CASE instance.status # "draft"
    BY <1>2, <2>2 DEF Submit, RoundsKeepDecisions
  <2> QED BY <2>1, <2>2
<1>3. ASSUME NEW s \in Sessions, Approve(s) \/ Reject(s)
      PROVE  RoundsKeepDecisions
  <2>1. PICK action \in {"approved", "rejected"} :
          /\ session[s].pc = "judged" /\ session[s].event \in {"approve", "reject"}
          /\ session[s].expected = instance.version /\ WriteStep(s, action)
    BY <1>3 DEF Approve, Reject, UpdateInstance
  <2>2. instance.status \in InProgress
    BY <2>1, WinnerIsCurrent
  <2>3. \A r \in DOMAIN routes : r # instance.currentRound => routes'[r] = routes[r]
    BY <2>1, WriteStepKeepsRoundSound
  <2>4. LET route == routes[instance.currentRound]
            route2 == routes'[instance.currentRound]
        IN  /\ route2.selfApproval = route.selfApproval
            /\ \A k \in DOMAIN route.steps :
                 route.steps[k].action # "none" => route2.steps[k] = route.steps[k]
    BY <2>1, WriteStepKeepsRoundSound
  <2> QED BY <2>2, <2>3, <2>4 DEF RoundsKeepDecisions
<1>4. ASSUME NEW s \in Sessions, Resubmit(s)
      PROVE  RoundsKeepDecisions
  <2>1. session[s].inst = instance
    BY <1>4, WinnerIsCurrent DEF Resubmit, UpdateInstance
  <2>2. instance.currentRound + 1 \notin DOMAIN routes
    BY DEF IInv, AreSoundRows, Instance
  <2>3. \A r \in DOMAIN routes : routes'[r] = routes[r]
    BY <1>4, <2>1, <2>2 DEF Resubmit
  <2> QED BY <2>3 DEF RoundsKeepDecisions
<1>5. UNCHANGED routes \/ \E s \in Sessions : Submit(s) \/ Approve(s) \/ Reject(s) \/ Resubmit(s)
  BY DEF Next, vars, OpenScreen, ReadOffer, ReadBefore, ReadInstance, ReadRoutes, Fail, LoseRace, Withdraw,
         BumpInstanceVersion, ChangeOrg, ChangeConfig
<1> QED BY <1>1, <1>2, <1>3, <1>4, <1>5

\* Decisions are final: no request, however late, rewrites a decided step, a
\* closed round or the rule of a round.
THEOREM DecisionsAreFinal == Spec => HistoryIsFrozen
<1>1. IInv /\ [Next]_vars => [RoundsKeepDecisions]_vars
  BY NextKeepsDecisions
<1>2. [RoundsKeepDecisions]_vars <=>
        [\A r \in DOMAIN routes :
           routes'[r] # routes[r] =>
              /\ r = instance.currentRound /\ instance.status \in InProgress
              /\ routes'[r].selfApproval = routes[r].selfApproval
              /\ \A i \in DOMAIN routes[r].steps :
                   routes[r].steps[i].action # "none" => routes'[r].steps[i] = routes[r].steps[i]]_vars
  BY DEF RoundsKeepDecisions
<1> QED BY <1>1, <1>2, InvariantHolds, PTL DEF Spec, HistoryIsFrozen

-----------------------------------------------------------------------------
(* The story of the rounds.  The status of the document, the rule of a round *)
(* and the seat a decision was taken in fit together; this is inductive      *)
(* beside the invariant above.                                               *)

\* Nobody's list of candidates grows by an approval.
LEMMA ApprovalOpensNoStep ==
    ASSUME NEW step, NEW snapshot, NEW rule, NEW drafter, NEW before, NEW after,
           before \subseteq after, Candidates(step, snapshot, rule, drafter, before) = {}
    PROVE  Candidates(step, snapshot, rule, drafter, after) = {}
BY DEF Candidates, Others

\* An approval in the fallback seat is final: no step was open to anybody, the
\* approval opens none, and no empty seat lies behind it.
LEMMA FallbackIsFinal ==
    ASSUME NEW route, NEW snapshot, NEW i, NEW step, NEW route2,
           Actionable(route, snapshot, Drafter) = {},
           route2.selfApproval = route.selfApproval,
           route2.steps = WithStep(route.steps, i, step),
           i \notin DOMAIN route.steps, \A k \in DOMAIN route.steps : k < i /\ k \in Nat, i \in Nat,
           step.action = "approved", step.actedBy \in People
    PROVE  WalkRoute(route2, snapshot, Drafter, "after_approval").kind = "final"
<1> DEFINE steps == route.steps
           steps2 == route2.steps
<1>1. /\ DOMAIN steps2 = DOMAIN steps \cup {i} /\ steps2[i] = step
      /\ \A k \in DOMAIN steps : steps2[k] = steps[k]
  BY DEF WithStep
<1>2. Approvers(steps) \subseteq Approvers(steps2) /\ step.actedBy \in Approvers(steps2)
  <2>1. step.actedBy # Null
    BY NullIsNoId
  <2> QED BY <1>1, <2>1 DEF Approvers, ActedBy
<1>3. Actionable(route2, snapshot, Drafter) = {}
  <2>1. SUFFICES ASSUME NEW k \in DOMAIN steps2, steps2[k].action = "none"
                 PROVE  Candidates(steps2[k], snapshot, route2.selfApproval, Drafter,
                                   Approvers(steps2)) = {}
    BY DEF Actionable
  <2>2. k \in DOMAIN steps /\ steps2[k] = steps[k] /\ steps[k].action = "none"
    BY <1>1, <2>1
  <2>3. Candidates(steps[k], snapshot, route.selfApproval, Drafter, Approvers(steps)) = {}
    BY <2>2 DEF Actionable
  <2> QED BY <1>2, <2>2, <2>3, ApprovalOpensNoStep
<1>4. ~ EmptyAfterLastAction(route2, snapshot, Drafter)
  <2>1. \A k \in DOMAIN steps2 : k = i \/ i > k
    BY <1>1
  <2>2. i \in DOMAIN steps2 /\ steps2[i].action = "approved"
    BY <1>1
  <2> QED BY <2>1, <2>2 DEF EmptyAfterLastAction
<1>5. FallbackCandidates(route2, snapshot, Drafter) = {}
  BY <1>2, <1>4 DEF FallbackCandidates
<1>6. WalkRoute(route2, snapshot, Drafter, "after_approval")
        = FallbackOutcome(route2, snapshot, Drafter, "after_approval")
  BY <1>3 DEF WalkRoute
<1> QED BY <1>2, <1>5, <1>6 DEF FallbackOutcome, Outcome

\* A seat that is a fallback seat, on a route without undecided fallback steps.
LEMMA FallbackSeat ==
    ASSUME NEW route, IsRoute(route), NEW snapshot, NEW at,
           \A k \in DOMAIN route.steps : route.steps[k].isFallback => route.steps[k].action # "none",
           WalkRoute(route, snapshot, Drafter, at).isFallback
    PROVE  /\ Actionable(route, snapshot, Drafter) = {}
           /\ WalkRoute(route, snapshot, Drafter, at).stepIndex = NextIndex(route.steps)
<1> DEFINE open == Actionable(route, snapshot, Drafter)
<1>1. ASSUME open # {}
      PROVE  FALSE
  <2>1. open \in SUBSET Nat
    BY DEF Actionable, IsRoute, IsStepTable, StepIndex
  <2>2. LeastOf(open) \in open
    BY <1>1, <2>1, LeastExists
  <2>3. WalkRoute(route, snapshot, Drafter, at).isFallback = route.steps[LeastOf(open)].isFallback
    BY <1>1 DEF WalkRoute, Outcome
  <2> QED BY <2>2, <2>3 DEF Actionable
<1>2. WalkRoute(route, snapshot, Drafter, at) = FallbackOutcome(route, snapshot, Drafter, at)
  BY <1>1 DEF WalkRoute
<1> QED BY <1>1, <1>2 DEF FallbackOutcome, Outcome

\* The same three facts the runs check, kept together.
Told == SelfApprovalIsSanctioned /\ FallbackEndsTheRound /\ StatusMatchesDecisions

\* An approval that wins in the fallback seat ends the round.
LEMMA FallbackApprovalEnds ==
    ASSUME IInv, Told, NEW s \in Sessions, Approve(s), Seat(s).isFallback
    PROVE  instance'.status = "approved"
<1> DEFINE route == routes[instance.currentRound]
           steps == route.steps
           step == FallbackStep(session[s].viewer, "approved")
           i == NextIndex(steps)
<1>1. /\ session[s].pc = "judged" /\ session[s].event = "approve"
      /\ session[s].expected = instance.version /\ WriteStep(s, "approved")
      /\ instance'.status = NextStep(session[s].inst.status,
                                     IF IsFinal(s) THEN "approve_final" ELSE "approve", FALSE)
  BY DEF Approve, UpdateInstance
<1>2. /\ session[s].inst = instance /\ session[s].route = route
      /\ instance.currentRound \in DOMAIN routes /\ instance.status \in InProgress
  BY <1>1, WinnerIsCurrent
<1>3. IsRoute(route) /\ IsStepTable(steps)
  BY <1>2 DEF IInv, AreSoundRows, IsSoundRound, IsRoute
<1>4. \A k \in DOMAIN steps : steps[k].isFallback => steps[k].action # "none"
  BY <1>2 DEF Told, FallbackEndsTheRound
<1>5. /\ Actionable(route, session[s].snapshot, Drafter) = {}
      /\ Seat(s).stepIndex = i
  BY <1>2, <1>3, <1>4, FallbackSeat DEF Seat
<1>6. i \in Nat /\ i \notin DOMAIN steps /\ \A k \in DOMAIN steps : k < i /\ k \in Nat
  BY <1>3, NextIndexIsFree DEF IsStepTable, StepIndex
<1>7. session[s].viewer \in People
  BY <1>1, WinnerDecides
<1>8. step.action = "approved" /\ step.actedBy = session[s].viewer
  BY <1>7, FallbackStepType
<1>9. /\ RouteAfter(s).steps = WithStep(steps, i, step)
      /\ RouteAfter(s).selfApproval = route.selfApproval
  <2>1. RouteAfter(s) = [route EXCEPT !.steps = WithStep(steps, i, step)]
    BY <1>2, <1>5 DEF RouteAfter
  <2>2. route \in [selfApproval : SelfApprovals, steps : {steps}]
    BY <1>3 DEF IsRoute
  <2> HIDE DEF route, step, i
  <2> QED BY <2>1, <2>2
<1> HIDE DEF route, step, i
<1>10. IsFinal(s)
  BY <1>5, <1>6, <1>7, <1>8, <1>9, FallbackIsFinal DEF IsFinal
<1> QED BY <1>1, <1>2, <1>10, StepsUnderReview

\* How a decision that wins changes the round, step by step.
LEMMA DecisionInTheRound ==
    ASSUME IInv, NEW s \in Sessions, session[s].pc = "judged",
           session[s].event \in {"approve", "reject"},
           session[s].expected = instance.version,
           NEW action \in {"approved", "rejected"}, WriteStep(s, action)
    PROVE  LET route == routes[instance.currentRound]
               route2 == routes'[instance.currentRound]
           IN  \E i \in StepIndex, step \in Step :
                 /\ Decides(route, session[s].viewer, action, i, step)
                 /\ step.isFallback <=> Seat(s).isFallback
                 /\ DOMAIN route2.steps = DOMAIN route.steps \cup {i}
                 /\ route2.steps[i] = step
                 /\ \A k \in DOMAIN route.steps : k # i => route2.steps[k] = route.steps[k]
                 /\ Decided(route2.steps) = Decided(route.steps) \cup {i}
                 /\ i \notin Decided(route.steps)
<1> DEFINE round == instance.currentRound
           route == routes[round]
<1>1. round \in DOMAIN routes
  BY WinnerIsCurrent
<1>2. IsRoute(route)
  BY <1>1 DEF IInv, AreSoundRows, IsSoundRound
<1>3. PICK i \in StepIndex, step \in Step :
        /\ Decides(route, session[s].viewer, action, i, step)
        /\ step.isFallback <=> Seat(s).isFallback
        /\ routes' = [routes EXCEPT ![round] = Decision(route, i, step)]
  BY WinnerDecides
<1>4. routes'[round].steps = WithStep(route.steps, i, step)
  <2>1. routes'[round] = Decision(route, i, step)
    BY <1>1, <1>3
  <2>2. route \in [selfApproval : SelfApprovals, steps : {route.steps}]
    BY <1>2 DEF IsRoute
  <2> QED BY <2>1, <2>2 DEF Decision
<1> DEFINE steps == route.steps
           steps2 == routes'[round].steps
<1>5. /\ DOMAIN steps2 = DOMAIN steps \cup {i} /\ steps2[i] = step
      /\ \A k \in DOMAIN steps : k # i => steps2[k] = steps[k]
  BY <1>4 DEF WithStep
<1>6. i \notin Decided(steps) /\ step.action # "none"
  BY <1>3 DEF Decides, Decided
<1>7. Decided(steps2) = Decided(steps) \cup {i}
  <2> HIDE DEF steps, steps2
  <2> QED BY <1>5, <1>6 DEF Decided
<1> QED BY <1>3, <1>5, <1>6, <1>7

LEMMA ToldInTheBeginning == Init => Told
BY DEF Init, NoRow, Told, SelfApprovalIsSanctioned, FallbackEndsTheRound, StatusMatchesDecisions

\* A step that leaves status and rounds alone.
LEMMA QuietStepTells ==
    ASSUME Told, routes' = routes, instance'.status = instance.status,
           instance'.currentRound = instance.currentRound
    PROVE  Told'
BY DEF Told, SelfApprovalIsSanctioned, FallbackEndsTheRound, StatusMatchesDecisions

\* A new round.
LEMMA FreshRoundTells ==
    ASSUME Told, NEW plan, IsFresh(plan), NEW round, round \notin DOMAIN routes,
           routes' = [r \in DOMAIN routes \cup {round} |-> IF r = round THEN plan ELSE routes[r]],
           instance'.status = "submitted", instance'.currentRound = round
    PROVE  Told'
<1>1. /\ DOMAIN routes' = DOMAIN routes \cup {round} /\ routes'[round] = plan
      /\ \A r \in DOMAIN routes : routes'[r] = routes[r] /\ r # round
  OBVIOUS
<1>2. Decided(plan.steps) = {} /\ \A i \in DOMAIN plan.steps : ~ plan.steps[i].isFallback
  BY DEF IsFresh, Decided
<1>3. \A i \in DOMAIN plan.steps : plan.steps[i].action # "rejected"
  BY DEF IsFresh
<1>4. SelfApprovalIsSanctioned'
  BY <1>1, <1>2 DEF Told, SelfApprovalIsSanctioned
<1>5. FallbackEndsTheRound'
  BY <1>1, <1>2 DEF Told, FallbackEndsTheRound
<1>6. StatusMatchesDecisions'
  BY <1>1, <1>2, <1>3 DEF StatusMatchesDecisions
<1> QED BY <1>4, <1>5, <1>6 DEF Told

LEMMA SubmitTells ==
    ASSUME IInv, Told, NEW s \in Sessions, Submit(s)
    PROVE  Told'
<1>1. CASE instance.status = "draft"
  <2>1. /\ instance = NoRow /\ IsRequest(session[s])
        /\ session[s].pc = "prepared" /\ session[s].event = "submit"
    BY <1>1 DEF IInv, AreSoundRows, Submit
  <2>2. IsFresh(session[s].plan)
    BY <2>1 DEF IsRequest
  <2>3. DOMAIN routes = {}
    BY <2>1 DEF IInv, AreSoundRows, NoRow
  <2>4. /\ instance' = [status |-> "submitted", currentRound |-> 1, version |-> 1]
        /\ routes' = [r \in {1} |-> session[s].plan]
    BY <1>1, StepsIntoANewRound DEF Submit
  <2>5. routes' = [r \in DOMAIN routes \cup {1} |-> IF r = 1 THEN session[s].plan ELSE routes[r]]
    BY <2>3, <2>4
  <2> QED BY <2>2, <2>3, <2>4, <2>5, FreshRoundTells
<1>2. CASE instance.status # "draft"
  BY <1>2, QuietStepTells DEF Submit
<1> QED BY <1>1, <1>2

LEMMA ResubmitTells ==
    ASSUME IInv, Told, NEW s \in Sessions, Resubmit(s)
    PROVE  Told'
<1> DEFINE round == instance.currentRound + 1
           plan == session[s].plan
<1>1. /\ session[s].pc = "judged" /\ session[s].event = "resubmit"
      /\ session[s].expected = instance.version /\ IsRequest(session[s])
  BY DEF Resubmit, UpdateInstance, IInv
<1>2. session[s].inst = instance
  BY <1>1, WinnerIsCurrent
<1>3. IsFresh(plan)
  BY <1>1 DEF IsRequest
<1>4. Accepted(session[s].viewer, "resubmit", session[s].expected, instance,
               session[s].route, session[s].snapshot)
  BY <1>1, <1>2 DEF IsRequest
<1>5. instance.status \in {"rejected", "withdrawn"}
  BY <1>4, ResubmittedAfterReturn DEF Accepted
<1>6. /\ instance' = [status |-> "submitted", currentRound |-> round,
                      version |-> instance.version + 1]
      /\ routes' = [r \in DOMAIN routes \cup {round} |-> IF r = round THEN plan ELSE routes[r]]
  BY <1>2, <1>5, StepsIntoANewRound DEF Resubmit, UpdateInstance
<1>7. round \notin DOMAIN routes
  BY DEF IInv, AreSoundRows, Instance
<1> HIDE DEF round, plan
<1> QED BY <1>3, <1>6, <1>7, FreshRoundTells

\* A withdrawal: nobody but the drafter has approved, and nothing is written.
LEMMA WithdrawTells ==
    ASSUME IInv, Told, NEW s \in Sessions, Withdraw(s)
    PROVE  Told'
<1> DEFINE steps == routes[instance.currentRound].steps
<1>1. /\ session[s].pc = "judged" /\ session[s].event = "withdraw"
      /\ session[s].expected = instance.version /\ IsRequest(session[s])
      /\ routes' = routes
  BY DEF Withdraw, UpdateInstance, IInv
<1>2. /\ session[s].inst = instance /\ session[s].route = routes[instance.currentRound]
      /\ instance.currentRound \in DOMAIN routes
  BY <1>1, WinnerIsCurrent
<1>3. Accepted(session[s].viewer, "withdraw", session[s].expected, instance,
               routes[instance.currentRound], session[s].snapshot)
  BY <1>1, <1>2 DEF IsRequest
<1>4. instance.status \in InProgress
  BY <1>3, WithdrawnUnderReview DEF Accepted
<1>5. ~ HasPriorApproval(steps, Drafter)
  BY <1>3 DEF Accepted, Entitled, ClosedFor
<1>6. /\ instance'.status = "withdrawn"
      /\ instance'.currentRound = instance.currentRound
  BY <1>2, <1>4, StepsUnderReview DEF Withdraw, UpdateInstance
<1>7. NobodyRejected(routes[instance.currentRound])
  BY <1>4 DEF IInv, AreSoundRows
<1>8. SelfApprovalIsSanctioned'
  BY <1>1 DEF Told, SelfApprovalIsSanctioned
<1>9. FallbackEndsTheRound'
  BY <1>1, <1>2, <1>4, <1>6 DEF Told, FallbackEndsTheRound, InProgress
<1>10. StatusMatchesDecisions'
  BY <1>1, <1>5, <1>6, <1>7 DEF StatusMatchesDecisions, NobodyRejected
<1> QED BY <1>8, <1>9, <1>10 DEF Told

\* An approval or a rejection.
LEMMA DecisionTells ==
    ASSUME IInv, Told, NEW s \in Sessions, Approve(s) \/ Reject(s)
    PROVE  Told'
<1> DEFINE round == instance.currentRound
           route == routes[round]
           route2 == routes'[round]
<1>1. PICK action \in {"approved", "rejected"} :
        /\ session[s].pc = "judged" /\ session[s].expected = instance.version
        /\ WriteStep(s, action)
        /\ action = "approved" => session[s].event = "approve" /\ Approve(s)
        /\ action = "rejected" => session[s].event = "reject" /\ Reject(s)
  BY DEF Approve, Reject, UpdateInstance
<1>2. session[s].event \in {"approve", "reject"}
  BY <1>1
<1>3. /\ session[s].inst = instance /\ round \in DOMAIN routes /\ instance.status \in InProgress
  BY <1>1, <1>2, WinnerIsCurrent
<1>4. /\ instance'.currentRound = round
      /\ instance'.status \in (IF action = "approved" THEN {"in_review", "approved"} ELSE {"rejected"})
  <2> DEFINE event == IF IsFinal(s) THEN "approve_final" ELSE "approve"
  <2>1. CASE action = "approved"
    <3>1. instance' = [status |-> NextStep(instance.status, event, FALSE),
                       currentRound |-> round, version |-> instance.version + 1]
      BY <1>1, <1>3, <2>1 DEF Approve, UpdateInstance
    <3>2. event \in {"approve", "approve_final"}
      OBVIOUS
    <3> HIDE DEF event
    <3>3. NextStep(instance.status, event, FALSE) \in {"in_review", "approved"}
      BY <1>3, <3>2, StepsUnderReview
    <3> QED BY <2>1, <3>1, <3>3
  <2>2. CASE action = "rejected"
    <3>1. instance' = [status |-> NextStep(instance.status, "reject", FALSE),
                       currentRound |-> round, version |-> instance.version + 1]
      BY <1>1, <1>3, <2>2 DEF Reject, UpdateInstance
    <3>2. NextStep(instance.status, "reject", FALSE) = "rejected"
      BY <1>3, StepsUnderReview
    <3> QED BY <2>2, <3>1, <3>2
  <2> QED BY <2>1, <2>2
<1>5. /\ DOMAIN routes' = DOMAIN routes
      /\ \A r \in DOMAIN routes : r # round => routes'[r] = routes[r]
      /\ route2.selfApproval = route.selfApproval
  BY <1>1, <1>2, WriteStepKeepsRoundSound
<1>6. /\ session[s].viewer \in People
      /\ action = "rejected" => session[s].viewer # Drafter
  BY <1>1, <1>2, WinnerDecides
<1>7. PICK i \in StepIndex, step \in Step :
        /\ Decides(route, session[s].viewer, action, i, step)
        /\ step.isFallback <=> Seat(s).isFallback
        /\ DOMAIN route2.steps = DOMAIN route.steps \cup {i}
        /\ route2.steps[i] = step
        /\ \A k \in DOMAIN route.steps : k # i => route2.steps[k] = route.steps[k]
        /\ Decided(route2.steps) = Decided(route.steps) \cup {i}
        /\ i \notin Decided(route.steps)
  BY <1>1, <1>2, DecisionInTheRound
<1>8. step.isFallback => instance'.status \in {"approved", "rejected"}
  BY <1>1, <1>4, <1>7, FallbackApprovalEnds
<1>9. \A k \in DOMAIN route.steps : ~ route.steps[k].isFallback
  BY <1>3 DEF Told, FallbackEndsTheRound, InProgress
<1>10. NobodyRejected(route)
  BY <1>3 DEF IInv, AreSoundRows
<1>15. IsStepTable(route.steps)
  BY <1>3 DEF IInv, AreSoundRows, IsSoundRound, IsRoute
<1> HIDE DEF route, route2
<1>11. \A k \in Decided(route.steps) : route2.steps[k] = route.steps[k] /\ k \in DOMAIN route.steps
  BY <1>7 DEF Decided
<1>12. SelfApprovalIsSanctioned'
  <2>1. SUFFICES ASSUME NEW r \in DOMAIN routes', NEW k \in Decided(routes'[r].steps)
                 PROVE  LET x == routes'[r].steps[k]
                        IN  /\ x.selfApproved <=> x.actedBy = Drafter
                            /\ x.actedBy = Drafter =>
                                 x.action = "approved"
                                   /\ (x.isFallback \/ routes'[r].selfApproval = "self_approve")
    BY DEF SelfApprovalIsSanctioned
  <2>2. CASE r # round
    BY <1>5, <2>2 DEF Told, SelfApprovalIsSanctioned
  <2>3. CASE r = round /\ k # i
    <3>1. k \in Decided(route.steps) /\ routes'[r].steps[k] = route.steps[k]
      BY <1>7, <1>11, <2>3 DEF route2
    <3> QED BY <1>3, <1>5, <2>3, <3>1 DEF Told, SelfApprovalIsSanctioned, route, route2
  <2>4. CASE r = round /\ k = i
    <3>1. routes'[r].steps[k] = step /\ routes'[r].selfApproval = route.selfApproval
      BY <1>5, <1>7, <2>4 DEF route2
    <3> QED BY <1>1, <1>6, <1>7, <3>1 DEF Decides
  <2> QED BY <2>2, <2>3, <2>4
<1>13. FallbackEndsTheRound'
  <2>1. SUFFICES ASSUME NEW r \in DOMAIN routes', NEW k \in DOMAIN routes'[r].steps,
                        routes'[r].steps[k].isFallback
                 PROVE  /\ \A j \in DOMAIN routes'[r].steps : j <= k
                        /\ routes'[r].steps[k].action # "none"
                        /\ r = instance'.currentRound => instance'.status \in {"approved", "rejected"}
    BY DEF FallbackEndsTheRound
  <2>2. CASE r # round
    BY <1>4, <1>5, <2>1, <2>2 DEF Told, FallbackEndsTheRound
  <2>3. CASE r = round
    <3>1. k = i /\ step.isFallback
      BY <1>7, <1>9, <2>1, <2>3 DEF route2
    <3>2. \A j \in DOMAIN route2.steps : j <= i
      <4>1. \A j \in DOMAIN route.steps : j \in Nat /\ j < i
        BY <1>7, <1>15, <3>1 DEF Decides, IsStepTable, StepIndex
      <4>2. i \in Nat
        BY DEF StepIndex
      <4> QED BY <1>7, <4>1, <4>2
    <3>3. step.action # "none"
      BY <1>1, <1>7 DEF Decides
    <3> QED BY <1>7, <1>8, <2>3, <3>1, <3>2, <3>3 DEF route2
  <2> QED BY <2>2, <2>3
<1>14. StatusMatchesDecisions'
  <2> DEFINE rejected2 == {k \in DOMAIN route2.steps : route2.steps[k].action = "rejected"}
  <2>1. Decided(route2.steps) # {}
    BY <1>7
  <2>2. \A k \in DOMAIN route2.steps : route2.steps[k].action = "rejected" <=> k = i /\ action = "rejected"
    BY <1>7, <1>10 DEF NobodyRejected, Decides
  <2>3. CASE action = "approved"
    <3>1. rejected2 = {} /\ instance'.status \in {"in_review", "approved"}
      BY <1>4, <2>2, <2>3
    <3> QED BY <1>4, <2>1, <3>1 DEF StatusMatchesDecisions, route2
  <2>4. CASE action = "rejected"
    <3>1. rejected2 = {i} /\ instance'.status = "rejected"
      BY <1>4, <1>7, <2>2, <2>4
    <3>2. Cardinality(rejected2) = 1
      BY <3>1, FS_Singleton
    <3> QED BY <1>4, <2>1, <3>1, <3>2 DEF StatusMatchesDecisions, route2
  <2> QED BY <2>3, <2>4
<1> QED BY <1>12, <1>13, <1>14 DEF Told

LEMMA NextTells == IInv /\ Told /\ [Next]_vars => Told'
<1> SUFFICES ASSUME IInv, Told, [Next]_vars PROVE Told'
  OBVIOUS
<1>1. ASSUME NEW s \in Sessions, Submit(s) \/ Approve(s) \/ Reject(s) \/ Withdraw(s) \/ Resubmit(s)
      PROVE  Told'
  BY <1>1, SubmitTells, DecisionTells, WithdrawTells, ResubmitTells
<1>2. CASE BumpInstanceVersion
  <2>1. instance \in Instance
    BY DEF IInv, AreSoundRows
  <2>2. /\ routes' = routes /\ instance'.status = instance.status
        /\ instance'.currentRound = instance.currentRound
    BY <1>2, <2>1 DEF BumpInstanceVersion, Instance
  <2> QED BY <2>2, QuietStepTells
<1>3. CASE UNCHANGED <<instance, routes>>
  BY <1>3, QuietStepTells
<1>4. \/ UNCHANGED <<instance, routes>> \/ BumpInstanceVersion
      \/ \E s \in Sessions : Submit(s) \/ Approve(s) \/ Reject(s) \/ Withdraw(s) \/ Resubmit(s)
  BY DEF Next, vars, OpenScreen, ReadOffer, ReadBefore, ReadInstance, ReadRoutes, Fail, LoseRace,
         ChangeOrg, ChangeConfig
<1> QED BY <1>1, <1>2, <1>3, <1>4

\* Kept together, because a step needs all three: self-approvals are
\* sanctioned, a fallback decision ends its round, and the status tells what
\* the decisions say.
THEOREM StoryHolds == Spec => []Told
BY InvariantHolds, ToldInTheBeginning, NextTells, PTL DEF Spec

\* A drafter approves an own document only on a route that allows it or in the
\* fallback seat, is marked as having done so, and never rejects it, whatever
\* office the drafter comes to hold while the document is under review.
THEOREM SelfApprovalsAreSanctioned == Spec => []SelfApprovalIsSanctioned
<1>1. Told => SelfApprovalIsSanctioned
  BY DEF Told
<1> QED BY <1>1, StoryHolds, PTL

\* A decision in the fallback seat is the last one of its round.
THEOREM FallbackIsTheEnd == Spec => []FallbackEndsTheRound
<1>1. Told => FallbackEndsTheRound
  BY DEF Told
<1> QED BY <1>1, StoryHolds, PTL

\* The status of the document and the decisions of its round tell the same story.
THEOREM StatusIsTruthful == Spec => []StatusMatchesDecisions
<1>1. Told => StatusMatchesDecisions
  BY DEF Told
<1> QED BY <1>1, StoryHolds, PTL

\* What the page offers and what the server accepts are computed by different
\* code and agree in every state, for every viewer and every event.
THEOREM OffersAreAccepted == Spec => []OfferIsWhatIsAccepted
<1>1. ASSUME NEW status, NEW d, NEW prior, NEW e \in {"approve", "reject"}, ~ ClosedFor(status, e, d, prior)
      PROVE  status \in InProgress
  BY <1>1 DEF ClosedFor, AllowsEvent, Allows, Transitions, InProgress
<1>2. OfferIsWhatIsAccepted
  <2>1. SUFFICES ASSUME NEW p \in People, NEW e \in Events \ {"submit"}
                 PROVE  e \in PossibleActions(p, instance, routes[instance.currentRound], org)
                          <=> Accepted(p, e, instance.version, instance,
                                       routes[instance.currentRound], org)
    BY DEF OfferIsWhatIsAccepted
  <2>2. CASE e \in {"approve", "reject"}
    BY <1>1, <2>2 DEF PossibleActions, Accepted, Entitled
  <2>3. CASE e \in {"withdraw", "resubmit"}
    BY <2>3 DEF PossibleActions, Accepted, Entitled
  <2> QED BY <2>2, <2>3 DEF Events
<1> QED BY <1>2, PTL

-----------------------------------------------------------------------------
(* The refinement.  A commit of the service is one step of the ledger: a new *)
(* round, a decision, or a withdrawal; everything else leaves the ledger as  *)
(* it is.                                                                    *)

\* The current round of the ledger is the current round of the document.
LEMMA LedgerRound ==
    ASSUME IInv, DOMAIN routes # {}
    PROVE  Ledger!Round = instance.currentRound /\ instance.currentRound \in DOMAIN routes
<1>1. DOMAIN routes = 1 .. instance.currentRound /\ instance.currentRound \in Nat
  BY DEF IInv, AreSoundRows, Instance
<1>2. instance.currentRound \in DOMAIN routes /\ DOMAIN routes \subseteq Nat
        /\ \A q \in DOMAIN routes : q <= instance.currentRound
  BY <1>1
<1>3. \A r \in DOMAIN routes :
        (\A q \in DOMAIN routes : q <= r) => r = instance.currentRound
  BY <1>2
<1> QED BY <1>2, <1>3 DEF Ledger!Round

\* A step that leaves the status and the rounds alone.
LEMMA QuietStepStutters ==
    ASSUME routes' = routes, instance'.status = instance.status
    PROVE  UNCHANGED Ledger!ledgerVars
BY DEF Ledger!ledgerVars

LEMMA FreshRoundBegins ==
    ASSUME IInv, NEW plan, IsFresh(plan), NEW round,
           round = (IF DOMAIN routes = {} THEN 1 ELSE instance.currentRound + 1),
           routes' = [r \in DOMAIN routes \cup {round} |-> IF r = round THEN plan ELSE routes[r]],
           instance.status \in {"draft"} \cup ResubmitFrom,
           instance'.status = "submitted"
    PROVE  Ledger!LedgerNext
<1>1. /\ DOMAIN routes' = DOMAIN routes \cup {round} /\ routes'[round] = plan
      /\ \A r \in DOMAIN routes' : r # round => routes'[r] = routes[r] /\ r \in DOMAIN routes
  OBVIOUS
<1>2. DecisionsOf(plan.steps) = {} /\ plan.selfApproval \in {"skip", "self_approve"}
  BY DEF IsFresh, IsRoute, SelfApprovals, DecisionsOf, Decided
<1>3. round = (IF DOMAIN routes = {} THEN 1 ELSE Ledger!Round + 1)
  BY LedgerRound
<1>4. [r \in DOMAIN routes' |-> routes'[r].selfApproval]
        = [r \in DOMAIN routes \cup {round} |-> IF r = round THEN plan.selfApproval
             ELSE [q \in DOMAIN routes |-> routes[q].selfApproval][r]]
  BY <1>1
<1>5. [r \in DOMAIN routes' |-> DecisionsOf(routes'[r].steps)]
        = [r \in DOMAIN routes \cup {round} |-> IF r = round THEN {}
             ELSE [q \in DOMAIN routes |-> DecisionsOf(routes[q].steps)][r]]
  BY <1>1, <1>2
<1>6. Ledger!Begin(plan.selfApproval)
  BY <1>3, <1>4, <1>5, Zenon DEF Ledger!Begin
<1> QED BY <1>2, <1>6 DEF Ledger!LedgerNext

LEMMA SubmitBegins ==
    ASSUME IInv, NEW s \in Sessions, Submit(s)
    PROVE  Ledger!LedgerNext \/ UNCHANGED Ledger!ledgerVars
<1>1. CASE instance.status = "draft"
  <2>1. /\ instance = NoRow /\ IsRequest(session[s])
        /\ session[s].pc = "prepared" /\ session[s].event = "submit"
    BY <1>1 DEF IInv, AreSoundRows, Submit
  <2>2. IsFresh(session[s].plan)
    BY <2>1 DEF IsRequest
  <2>3. DOMAIN routes = {}
    BY <2>1 DEF IInv, AreSoundRows, NoRow
  <2>4. /\ instance' = [status |-> "submitted", currentRound |-> 1, version |-> 1]
        /\ routes' = [r \in {1} |-> session[s].plan]
    BY <1>1, StepsIntoANewRound DEF Submit
  <2>5. routes' = [r \in DOMAIN routes \cup {1} |-> IF r = 1 THEN session[s].plan ELSE routes[r]]
    BY <2>3, <2>4
  <2> QED BY <1>1, <2>2, <2>3, <2>4, <2>5, FreshRoundBegins
<1>2. CASE instance.status # "draft"
  BY <1>2, QuietStepStutters DEF Submit
<1> QED BY <1>1, <1>2

LEMMA ResubmitBegins ==
    ASSUME IInv, NEW s \in Sessions, Resubmit(s)
    PROVE  Ledger!LedgerNext
<1> DEFINE round == instance.currentRound + 1
           plan == session[s].plan
<1>1. /\ session[s].pc = "judged" /\ session[s].event = "resubmit"
      /\ session[s].expected = instance.version /\ IsRequest(session[s])
  BY DEF Resubmit, UpdateInstance, IInv
<1>2. session[s].inst = instance /\ DOMAIN routes # {}
  BY <1>1, WinnerIsCurrent
<1>3. IsFresh(plan)
  BY <1>1 DEF IsRequest
<1>4. Accepted(session[s].viewer, "resubmit", session[s].expected, instance,
               session[s].route, session[s].snapshot)
  BY <1>1, <1>2 DEF IsRequest
<1>5. instance.status \in ResubmitFrom /\ instance.status \in {"rejected", "withdrawn"}
  BY <1>4, ResubmitFromIsReturned DEF Accepted, ClosedFor
<1>6. /\ instance'.status = "submitted"
      /\ routes' = [r \in DOMAIN routes \cup {round} |-> IF r = round THEN plan ELSE routes[r]]
  BY <1>2, <1>5, StepsIntoANewRound DEF Resubmit, UpdateInstance
<1> HIDE DEF plan
<1> QED BY <1>2, <1>3, <1>5, <1>6, FreshRoundBegins

LEMMA WithdrawTakesBack ==
    ASSUME IInv, NEW s \in Sessions, Withdraw(s)
    PROVE  Ledger!LedgerNext
<1> DEFINE round == instance.currentRound
           steps == routes[round].steps
<1>1. /\ session[s].pc = "judged" /\ session[s].event = "withdraw"
      /\ session[s].expected = instance.version /\ IsRequest(session[s])
      /\ routes' = routes
  BY DEF Withdraw, UpdateInstance, IInv
<1>2. /\ session[s].inst = instance /\ session[s].route = routes[round]
      /\ round \in DOMAIN routes
  BY <1>1, WinnerIsCurrent
<1>3. Accepted(session[s].viewer, "withdraw", session[s].expected, instance,
               routes[round], session[s].snapshot)
  BY <1>1, <1>2 DEF IsRequest
<1>4. instance.status \in InProgress
  BY <1>3, WithdrawnUnderReview DEF Accepted
<1>5. /\ ~ HasPriorApproval(steps, Drafter)
      /\ NextStep(instance.status, "withdraw", FALSE) = "withdrawn"
  BY <1>3, <1>4, StepsUnderReview DEF Accepted, Entitled, ClosedFor
<1>6. instance'.status = "withdrawn"
  BY <1>2, <1>5 DEF Withdraw, UpdateInstance
<1>7. IsSoundRound(routes[round]) /\ NobodyRejected(routes[round])
  BY <1>2, <1>4 DEF IInv, AreSoundRows
<1>8. \A d \in DecisionsOf(steps) : d.by = Drafter
  <2>1. SUFFICES ASSUME NEW k \in Decided(steps) PROVE steps[k].actedBy = Drafter
    BY DEF DecisionsOf
  <2>2. steps[k].actedBy \in Approvers(steps)
    BY <1>7, DecidersHaveApproved
  <2> QED BY <1>5, <2>2 DEF HasPriorApproval
<1>9. Ledger!Round = round
  BY <1>2, LedgerRound
<1>10. [r \in DOMAIN routes |-> DecisionsOf(routes[r].steps)][round] = DecisionsOf(steps)
  BY <1>2
<1>11. Ledger!UnderReview
  BY <1>4 DEF Ledger!UnderReview, InProgress
<1>12. Ledger!TakeBack
  BY <1>1, <1>6, <1>8, <1>9, <1>10, <1>11 DEF Ledger!TakeBack
<1> QED BY <1>12 DEF Ledger!LedgerNext

\* A decision that wins is one decision more in the current round of the ledger.
LEMMA DecisionIsRecorded ==
    ASSUME IInv, Told, NEW s \in Sessions, Approve(s) \/ Reject(s)
    PROVE  Ledger!LedgerNext
<1> DEFINE round == instance.currentRound
           route == routes[round]
           route2 == routes'[round]
           viewer == session[s].viewer
<1>1. PICK action \in {"approved", "rejected"} :
        /\ session[s].pc = "judged" /\ session[s].expected = instance.version
        /\ session[s].event \in {"approve", "reject"}
        /\ WriteStep(s, action)
        /\ action = "approved" => Approve(s)
        /\ action = "rejected" => session[s].event = "reject" /\ Reject(s)
  BY DEF Approve, Reject, UpdateInstance
<1>2. /\ session[s].inst = instance /\ round \in DOMAIN routes /\ instance.status \in InProgress
  BY <1>1, WinnerIsCurrent
<1>3. instance'.status \in (IF action = "approved" THEN {"in_review", "approved"} ELSE {"rejected"})
  <2> DEFINE event == IF IsFinal(s) THEN "approve_final" ELSE "approve"
  <2>1. CASE action = "approved"
    <3>1. instance' = [status |-> NextStep(instance.status, event, FALSE),
                       currentRound |-> round, version |-> instance.version + 1]
      BY <1>1, <1>2, <2>1 DEF Approve, UpdateInstance
    <3>2. event \in {"approve", "approve_final"}
      OBVIOUS
    <3> HIDE DEF event
    <3>3. NextStep(instance.status, event, FALSE) \in {"in_review", "approved"}
      BY <1>2, <3>2, StepsUnderReview
    <3> QED BY <2>1, <3>1, <3>3
  <2>2. CASE action = "rejected"
    <3>1. instance' = [status |-> NextStep(instance.status, "reject", FALSE),
                       currentRound |-> round, version |-> instance.version + 1]
      BY <1>1, <1>2, <2>2 DEF Reject, UpdateInstance
    <3>2. NextStep(instance.status, "reject", FALSE) = "rejected"
      BY <1>2, StepsUnderReview
    <3> QED BY <2>2, <3>1, <3>2
  <2> QED BY <2>1, <2>2
<1>4. /\ DOMAIN routes' = DOMAIN routes
      /\ \A r \in DOMAIN routes : r # round => routes'[r] = routes[r]
      /\ route2.selfApproval = route.selfApproval
  BY <1>1, WriteStepKeepsRoundSound
<1>5. /\ viewer \in People \ Approvers(route.steps)
      /\ action = "rejected" => viewer # Drafter
  BY <1>1, WinnerDecides
<1>6. PICK i \in StepIndex, step \in Step :
        /\ Decides(route, viewer, action, i, step)
        /\ step.isFallback <=> Seat(s).isFallback
        /\ DOMAIN route2.steps = DOMAIN route.steps \cup {i}
        /\ route2.steps[i] = step
        /\ \A k \in DOMAIN route.steps : k # i => route2.steps[k] = route.steps[k]
        /\ Decided(route2.steps) = Decided(route.steps) \cup {i}
        /\ i \notin Decided(route.steps)
  BY <1>1, DecisionInTheRound
<1>7. action = "approved" /\ step.isFallback => instance'.status = "approved"
  BY <1>1, <1>6, FallbackApprovalEnds
<1>8. IsSoundRound(route) /\ NobodyRejected(route)
  BY <1>2 DEF IInv, AreSoundRows
<1> HIDE DEF route, route2, viewer
<1> DEFINE d == [by |-> viewer, action |-> action, fallback |-> step.isFallback]
<1>9. DecisionsOf(route2.steps) = DecisionsOf(route.steps) \cup {d}
  <2>1. /\ step.actedBy = viewer /\ step.action = action
        /\ \A k \in Decided(route.steps) : route2.steps[k] = route.steps[k]
    BY <1>6 DEF Decides, Decided
  <2> QED BY <1>6, <2>1 DEF DecisionsOf
<1>10. \A e \in DecisionsOf(route.steps) : e.by # d.by
  <2>1. SUFFICES ASSUME NEW k \in Decided(route.steps) PROVE route.steps[k].actedBy # viewer
    BY DEF DecisionsOf
  <2>2. route.steps[k].actedBy \in Approvers(route.steps)
    BY <1>8, DecidersHaveApproved
  <2> QED BY <1>5, <2>2
<1>11. Ledger!Round = round
  BY <1>2, LedgerRound
<1> DEFINE dec == [r \in DOMAIN routes |-> DecisionsOf(routes[r].steps)]
           dec2 == [r \in DOMAIN routes' |-> DecisionsOf(routes'[r].steps)]
           pol == [r \in DOMAIN routes |-> routes[r].selfApproval]
           pol2 == [r \in DOMAIN routes' |-> routes'[r].selfApproval]
<1>12. dec[round] = DecisionsOf(route.steps) /\ pol[round] = route.selfApproval
  BY <1>2 DEF route
<1>13. dec2 = [dec EXCEPT ![round] = @ \cup {d}]
  <2>1. ASSUME NEW r \in DOMAIN routes
        PROVE  dec2[r] = [dec EXCEPT ![round] = @ \cup {d}][r]
    <3>1. CASE r = round
      BY <1>2, <1>4, <1>9, <3>1 DEF route, route2
    <3>2. CASE r # round
      BY <1>2, <1>4, <3>2
    <3> QED BY <3>1, <3>2
  <2> QED BY <1>4, <2>1
<1>14. pol2 = pol
  BY <1>4 DEF route, route2
<1>15. Ledger!Record(d)
  BY <1>10, <1>11, <1>12, <1>13, <1>14 DEF Ledger!Record, Ledger!HasDecided
<1>16. d \in Ledger!Decision
  BY <1>5, <1>6 DEF Ledger!Decision, Step
<1>17. Ledger!UnderReview
  BY <1>2 DEF Ledger!UnderReview, InProgress
<1>18. CASE action = "approved"
  <2>1. d.by = Drafter => d.fallback \/ pol[Ledger!Round] = "self_approve"
    BY <1>6, <1>11, <1>12 DEF Decides
  <2>2. instance'.status \in (IF d.fallback THEN {"approved"} ELSE {"in_review", "approved"})
    BY <1>3, <1>7, <1>18
  <2>3. d.action = "approved"
    BY <1>18
  <2>4. Ledger!Agree(d)
    BY <1>15, <1>17, <2>1, <2>2, <2>3 DEF Ledger!Agree
  <2> QED BY <1>16, <2>4 DEF Ledger!LedgerNext
<1>19. CASE action = "rejected"
  <2>1. Ledger!Refuse(d)
    BY <1>3, <1>5, <1>15, <1>17, <1>19 DEF Ledger!Refuse
  <2> QED BY <1>16, <2>1 DEF Ledger!LedgerNext
<1> QED BY <1>18, <1>19

LEMMA NextKeepsTheLedger == IInv /\ Told /\ [Next]_vars => [Ledger!LedgerNext]_(Ledger!ledgerVars)
<1> SUFFICES ASSUME IInv, Told, [Next]_vars
             PROVE  Ledger!LedgerNext \/ UNCHANGED Ledger!ledgerVars
  OBVIOUS
<1>1. ASSUME NEW s \in Sessions, Submit(s) \/ Approve(s) \/ Reject(s) \/ Withdraw(s) \/ Resubmit(s)
      PROVE  Ledger!LedgerNext \/ UNCHANGED Ledger!ledgerVars
  BY <1>1, SubmitBegins, DecisionIsRecorded, WithdrawTakesBack, ResubmitBegins
<1>2. CASE BumpInstanceVersion
  <2>1. instance \in Instance
    BY DEF IInv, AreSoundRows
  <2>2. routes' = routes /\ instance'.status = instance.status
    BY <1>2, <2>1 DEF BumpInstanceVersion, Instance
  <2> QED BY <2>2, QuietStepStutters
<1>3. CASE UNCHANGED <<instance, routes>>
  BY <1>3, QuietStepStutters
<1>4. \/ UNCHANGED <<instance, routes>> \/ BumpInstanceVersion
      \/ \E s \in Sessions : Submit(s) \/ Approve(s) \/ Reject(s) \/ Withdraw(s) \/ Resubmit(s)
  BY DEF Next, vars, OpenScreen, ReadOffer, ReadBefore, ReadInstance, ReadRoutes, Fail, LoseRace,
         ChangeOrg, ChangeConfig
<1> QED BY <1>1, <1>2, <1>3, <1>4

LEMMA InitIsLedgerInit == Init => Ledger!LedgerInit
<1> SUFFICES ASSUME Init PROVE Ledger!LedgerInit
  OBVIOUS
<1>1. instance.status = "draft" /\ DOMAIN routes = {}
  BY DEF Init, NoRow
<1>2. [r \in DOMAIN routes |-> routes[r].selfApproval] = [r \in {} |-> ""]
  BY <1>1
<1>3. [r \in DOMAIN routes |-> DecisionsOf(routes[r].steps)] = [r \in {} |-> {}]
  BY <1>1
<1> QED BY <1>1, <1>2, <1>3 DEF Ledger!LedgerInit

\* The service keeps the promise of the ledger: whatever requests interleave,
\* fail or act on stale reads, the document behaves as if every decision were
\* taken at once, in one place.
THEOREM RefinesTheLedger == Spec => KeepsTheLedger
BY InitIsLedgerInit, NextKeepsTheLedger, InvariantHolds, StoryHolds, PTL
   DEF Spec, KeepsTheLedger, Ledger!LedgerSpec

=============================================================================
