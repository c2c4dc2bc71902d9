------------------------------ MODULE Approval ------------------------------
(***************************************************************************)
(* The approval service (domain/approvals/index.ts with                    *)
(* repositories/approvals.ts): one document going through its rounds,      *)
(* while several requests run against the database at the same time.       *)
(*                                                                         *)
(* A request is a session.  Its steps are the points where other requests  *)
(* may come between: the screen was loaded (in two reads), the             *)
(* organisation and the settings were read before the transaction, the     *)
(* instance row was read, the routes and steps were read and the verdict   *)
(* given, and the conditional UPDATE with every write that follows it in   *)
(* the same transaction.  The transaction runs at READ COMMITTED, so two   *)
(* reads of one transaction may see different commits; the row lock of the *)
(* UPDATE makes the writes of one transaction atomic.                      *)
(***************************************************************************)
EXTENDS ApprovalRoute, Sequences

CONSTANTS
    Sessions,      \* concurrent requests
    Drafter,       \* drafter_id of the document
    ResubmitFrom,  \* resubmitFrom of the kind of document
    RouteConfigs,  \* the settings the route may be built from
    Snapshots,     \* the organisations that may be in force
    DocTeam,       \* the team of the project the document belongs to
    MaxVersion     \* bound on the version counter

ScopeSettings == {"drafter_team", "project_team", "drafter_org_unit", "org_unit", "company"}

ConfigStep == [enabled : BOOLEAN, roleId : Roles \cup {Null}, scope : ScopeSettings,
               orgUnitId : OrgUnits \cup {Null}]
RouteConfig == [selfApproval : SelfApprovals, steps : Seq(ConfigStep)]

ASSUME DrafterIsAPerson == Drafter \in People
ASSUME ResubmitFromIsReturned == ResubmitFrom \subseteq {"rejected", "withdrawn"}
ASSUME ConfigsAreConfigs == RouteConfigs \subseteq RouteConfig /\ RouteConfigs # {}
ASSUME SnapshotsAreSnapshots == Snapshots \subseteq Snapshot /\ Snapshots # {}
ASSUME DocTeamIsATeam == DocTeam \in Teams \cup {Null}
ASSUME BoundIsANumber == MaxVersion \in Nat

VARIABLES
    instance,   \* the row of approval_instances; status "draft" before the insert
    routes,     \* approval_routes and approval_steps: round -> Route
    org,        \* the organisation in force
    config,     \* the route settings in force
    session     \* the requests under way

vars == <<instance, routes, org, config, session>>

Events == {"submit", "approve", "reject", "withdraw", "resubmit"}

NoRow == [status |-> "draft", currentRound |-> 0, version |-> 0]

Idle == [pc |-> "idle", viewer |-> Null, event |-> "submit", expected |-> 0,
         snapshot |-> Null, plan |-> Null, inst |-> NoRow, route |-> Null]

-----------------------------------------------------------------------------
(* Building a route from the settings (planRoute). *)

ResolveStepScope(step, team, unit) ==
    CASE step.scope = "drafter_team"     -> <<"team", team>>
      [] step.scope = "project_team"     -> <<"team", DocTeam>>
      [] step.scope = "drafter_org_unit" -> <<"org_unit", unit>>
      [] step.scope = "org_unit"         -> <<"org_unit", step.orgUnitId>>
      [] step.scope = "company"          -> <<"company", Null>>

PlanStep(step, team, unit) ==
    [roleId |-> step.roleId,
     scopeKind |-> ResolveStepScope(step, team, unit)[1],
     scopeTargetId |-> ResolveStepScope(step, team, unit)[2],
     isFallback |-> FALSE, actedBy |-> Null, action |-> "none", selfApproved |-> FALSE]

PlanRoute(setting, snapshot, drafter) ==
    LET inOffice == drafter \in DOMAIN snapshot
        team == IF inOffice THEN snapshot[drafter].teamId ELSE Null
        unit == IF inOffice THEN snapshot[drafter].orgUnitId ELSE Null
        kept == {i \in DOMAIN setting.steps : setting.steps[i].enabled}
    IN  [selfApproval |-> setting.selfApproval,
         steps |-> [i \in kept |-> PlanStep(setting.steps[i], team, unit)]]

-----------------------------------------------------------------------------
(* The verdict of runTransition, in its fixed order. *)

AllowsEvent(status, event, allowWithdrawn) ==
    IF event = "approve"
    THEN Allows(status, "approve", allowWithdrawn) \/ Allows(status, "approve_final", allowWithdrawn)
    ELSE Allows(status, event, allowWithdrawn)

\* Mutant: withdrawal stays open after somebody has approved.
ClosedForWithoutD28(status, event, isDrafter, priorApproval) ==
    \/ event # "resubmit" /\ ~ AllowsEvent(status, event, FALSE)
    \/ /\ event = "resubmit"
       /\ \/ ~ isDrafter
          \/ status \notin ResubmitFrom
          \/ ~ AllowsEvent(status, event, "withdrawn" \in ResubmitFrom)

ClosedFor(status, event, isDrafter, priorApproval) ==
    \/ event = "withdraw" /\ isDrafter /\ priorApproval
    \/ event # "resubmit" /\ ~ AllowsEvent(status, event, FALSE)
    \/ /\ event = "resubmit"
       /\ \/ ~ isDrafter
          \/ status \notin ResubmitFrom
          \/ ~ AllowsEvent(status, event, "withdrawn" \in ResubmitFrom)

\* The seat of a request that approves or rejects, on what it has read.
Seat(s) == WalkRoute(session[s].route, session[s].snapshot, Drafter, "before_action")

IsCandidate(viewer, outcome) ==
    outcome.kind = "actionable" /\ viewer \in outcome.candidateIds

Entitled(viewer, event, route, snapshot) ==
    IF event \in {"approve", "reject"}
    THEN /\ IsCandidate(viewer, WalkRoute(route, snapshot, Drafter, "before_action"))
         /\ event = "approve" \/ viewer # Drafter
    ELSE viewer = Drafter

Accepted(viewer, event, expected, inst, route, snapshot) ==
    /\ inst.version = expected
    /\ ~ ClosedFor(inst.status, event, viewer = Drafter, HasPriorApproval(route.steps, Drafter))
    /\ Entitled(viewer, event, route, snapshot)

\* Mutant: a drafter who holds the seat is offered a rejection.
PossibleActionsWithOwnReject(p, inst, route, snapshot) ==
    LET isCandidate == /\ inst.status \in InProgress
                       /\ IsCandidate(p, WalkRoute(route, snapshot, Drafter, "before_action"))
        Open(e) == ~ ClosedFor(inst.status, e, p = Drafter,
                               HasPriorApproval(route.steps, Drafter))
    IN  {e \in Events \ {"submit"} :
            /\ Open(e)
            /\ e \in {"approve", "reject"} => isCandidate
            /\ e \in {"withdraw", "resubmit"} => p = Drafter}

\* possibleActions: what the page of the document offers its viewer, on the rows
\* and the organisation the page has read.
PossibleActions(p, inst, route, snapshot) ==
    LET isCandidate == /\ inst.status \in InProgress
                       /\ IsCandidate(p, WalkRoute(route, snapshot, Drafter, "before_action"))
        Open(e) == ~ ClosedFor(inst.status, e, p = Drafter,
                               HasPriorApproval(route.steps, Drafter))
    IN  {e \in Events \ {"submit"} :
            /\ Open(e)
            /\ e \in {"approve", "reject"} => isCandidate
            /\ e = "reject" => p # Drafter
            /\ e \in {"withdraw", "resubmit"} => p = Drafter}

-----------------------------------------------------------------------------
(* A request up to its verdict. *)

\* Somebody opens the page of the document: the first query of readGraph takes
\* the instance row, with the version the page will send back.  There is no row
\* before the submission.  MaxVersion bounds how far the history of one document
\* is followed.
OpenScreen(s) ==
    /\ session[s] = Idle
    /\ instance.version < MaxVersion
    /\ \/ /\ instance.status = "draft"
          /\ session' = [session EXCEPT ![s].pc = "viewing", ![s].viewer = Drafter]
       \/ /\ instance.status # "draft"
          /\ \E p \in People :
               session' = [session EXCEPT ![s] =
                   [Idle EXCEPT !.pc = "opening", !.viewer = p,
                                !.expected = instance.version, !.inst = instance]]
    /\ UNCHANGED <<instance, routes, org, config>>

\* The routes and steps come with the second query and the organisation after
\* it; the viewer is going to press one of the buttons the page then offers.
\* (Steps read before a change of the organisation belong to the same version,
\* or to one that is past and loses.)
ReadOffer(s) ==
    /\ session[s].pc = "opening"
    /\ \E e \in PossibleActions(session[s].viewer, session[s].inst,
                                routes[session[s].inst.currentRound], org) :
         session' = [session EXCEPT ![s].pc = "viewing", ![s].event = e, ![s].inst = NoRow]
    /\ UNCHANGED <<instance, routes, org, config>>

\* readTransitionPre, or prepareSubmission for the two events that build a
\* route; a route nobody can decide is refused before the transaction.
ReadBefore(s) ==
    LET plan == IF session[s].event \in {"submit", "resubmit"}
                THEN PlanRoute(config, org, session[s].viewer) ELSE Null
        refused == plan # Null /\ Blocked(WalkRoute(plan, org, session[s].viewer, "before_action"))
    IN  /\ session[s].pc = "viewing"
        /\ session' = [session EXCEPT ![s] =
               IF refused THEN Idle
               ELSE [@ EXCEPT !.pc = "prepared", !.snapshot = org, !.plan = plan]]
        /\ UNCHANGED <<instance, routes, org, config>>

\* First query of readGraph: the instance row.
ReadInstance(s) ==
    /\ session[s].pc = "prepared"
    /\ session[s].event # "submit"
    /\ session' = [session EXCEPT ![s].pc = "reading", ![s].inst = instance]
    /\ UNCHANGED <<instance, routes, org, config>>

\* Second query of readGraph: routes and steps, then the verdict.
ReadRoutes(s) ==
    LET route == routes[session[s].inst.currentRound]
    IN  /\ session[s].pc = "reading"
        /\ session' = [session EXCEPT ![s] =
               IF Accepted(session[s].viewer, session[s].event, session[s].expected,
                           session[s].inst, route, session[s].snapshot)
               THEN [@ EXCEPT !.pc = "judged", !.route = route]
               ELSE Idle]
        /\ UNCHANGED <<instance, routes, org, config>>

\* The request fails: an error, a lock timeout, a crash of the server, a final
\* approval hook that throws.  The transaction is rolled back.
Fail(s) ==
    /\ session[s] # Idle
    /\ session' = [session EXCEPT ![s] = Idle]
    /\ UNCHANGED <<instance, routes, org, config>>

-----------------------------------------------------------------------------
(* The commits. *)

Finish(s) == session' = [session EXCEPT ![s] = Idle]

\* Mutant: the version stays when the status moves.
UpdateInstanceSameVersion(s, status, round) ==
    /\ instance.version = session[s].expected
    /\ instance' = [status |-> status, currentRound |-> round, version |-> instance.version]

\* updateInstanceStatus: WHERE version = expectedVersion, version + 1.
UpdateInstance(s, status, round) ==
    /\ instance.version = session[s].expected
    /\ instance' = [status |-> status, currentRound |-> round, version |-> instance.version + 1]

\* The conditional UPDATE found no row: the other request won.
LoseRace(s) ==
    /\ session[s].pc = "judged"
    /\ instance.version # session[s].expected
    /\ Finish(s)
    /\ UNCHANGED <<instance, routes, org, config>>

\* submitDocument.  A second insert violates UNIQUE (kind, document).
Submit(s) ==
    /\ session[s].pc = "prepared"
    /\ session[s].event = "submit"
    /\ IF instance.status = "draft"
       THEN /\ instance' = [status |-> NextStep("draft", "submit", FALSE),
                            currentRound |-> 1, version |-> 1]
            /\ routes' = [r \in {1} |-> session[s].plan]
       ELSE UNCHANGED <<instance, routes>>
    /\ Finish(s)
    /\ UNCHANGED <<org, config>>

Acted(step, viewer, action) ==
    [step EXCEPT !.actedBy = viewer, !.action = action,
                 !.selfApproved = action = "approved" /\ viewer = Drafter]

FallbackStep(viewer, action) ==
    Acted([roleId |-> CeoRole, scopeKind |-> "company", scopeTargetId |-> Null,
           isFallback |-> TRUE, actedBy |-> Null, action |-> "none", selfApproved |-> FALSE],
          viewer, action)

WithStep(steps, i, step) ==
    [k \in DOMAIN steps \cup {i} |-> IF k = i THEN step ELSE steps[k]]

\* recordStepAction (the row must still be open) or insertFallbackStep (the
\* index is read again from the table).
WriteStep(s, action) ==
    LET round == session[s].inst.currentRound
        steps == routes[round].steps
        seat == Seat(s)
    IN  /\ ~ seat.isFallback => steps[seat.stepIndex].actedBy = Null
        /\ routes' = [routes EXCEPT ![round].steps =
               IF seat.isFallback
               THEN WithStep(steps, NextIndex(steps), FallbackStep(session[s].viewer, action))
               ELSE WithStep(steps, seat.stepIndex,
                             Acted(steps[seat.stepIndex], session[s].viewer, action))]

\* The route with the approval of the request in it, as the request read it.
RouteAfter(s) ==
    LET steps == session[s].route.steps
        seat == Seat(s)
        step == IF seat.isFallback THEN FallbackStep(session[s].viewer, "approved")
                ELSE Acted(steps[seat.stepIndex], session[s].viewer, "approved")
    IN  [session[s].route EXCEPT !.steps = WithStep(steps, seat.stepIndex, step)]

\* Mutant: the walk after an approval judged like the walk before it.
IsFinalBeforeAction(s) ==
    WalkRoute(RouteAfter(s), session[s].snapshot, Drafter, "before_action").kind = "final"

\* Whether that approval is the last one the document needs.
IsFinal(s) ==
    WalkRoute(RouteAfter(s), session[s].snapshot, Drafter, "after_approval").kind = "final"

Approve(s) ==
    /\ session[s].pc = "judged" /\ session[s].event = "approve"
    /\ UpdateInstance(s, NextStep(session[s].inst.status,
                                  IF IsFinal(s) THEN "approve_final" ELSE "approve", FALSE),
                      session[s].inst.currentRound)
    /\ WriteStep(s, "approved")
    /\ Finish(s)
    /\ UNCHANGED <<org, config>>

Reject(s) ==
    /\ session[s].pc = "judged" /\ session[s].event = "reject"
    /\ UpdateInstance(s, NextStep(session[s].inst.status, "reject", FALSE),
                      session[s].inst.currentRound)
    /\ WriteStep(s, "rejected")
    /\ Finish(s)
    /\ UNCHANGED <<org, config>>

Withdraw(s) ==
    /\ session[s].pc = "judged" /\ session[s].event = "withdraw"
    /\ UpdateInstance(s, NextStep(session[s].inst.status, "withdraw", FALSE),
                      session[s].inst.currentRound)
    /\ Finish(s)
    /\ UNCHANGED <<routes, org, config>>

\* Mutant: the new route replaces the one of the round that was returned.
ResubmitSameRound(s) ==
    LET round == session[s].inst.currentRound
    IN  /\ session[s].pc = "judged" /\ session[s].event = "resubmit"
        /\ UpdateInstance(s, NextStep(session[s].inst.status, "resubmit",
                                      session[s].inst.status = "withdrawn"), round)
        /\ routes' = [routes EXCEPT ![round] = session[s].plan]
        /\ Finish(s)
        /\ UNCHANGED <<org, config>>

\* The new round is inserted only after the UPDATE has won.
Resubmit(s) ==
    LET round == session[s].inst.currentRound + 1
    IN  /\ session[s].pc = "judged" /\ session[s].event = "resubmit"
        /\ UpdateInstance(s, NextStep(session[s].inst.status, "resubmit",
                                      session[s].inst.status = "withdrawn"), round)
        /\ routes' = [r \in DOMAIN routes \cup {round} |->
                          IF r = round THEN session[s].plan ELSE routes[r]]
        /\ Finish(s)
        /\ UNCHANGED <<org, config>>

-----------------------------------------------------------------------------
(* The surroundings. *)

\* Evidence attached to or removed from a document that is under review or
\* approved raises its version, on the row read under the lock of the document.
BumpInstanceVersion ==
    /\ instance.status \in InProgress \cup {"approved"}
    /\ instance.version < MaxVersion
    /\ instance' = [instance EXCEPT !.version = @ + 1]
    /\ UNCHANGED <<routes, org, config, session>>

\* Appointments, resignations, archived teams; edits of the route settings.
ChangeOrg ==
    /\ org' \in Snapshots
    /\ UNCHANGED <<instance, routes, config, session>>

ChangeConfig ==
    /\ config' \in RouteConfigs
    /\ UNCHANGED <<instance, routes, org, session>>

-----------------------------------------------------------------------------
Init ==
    /\ instance = NoRow
    /\ routes = [r \in {} |-> Null]
    /\ org \in Snapshots
    /\ config \in RouteConfigs
    /\ session = [s \in Sessions |-> Idle]

Next ==
    \/ \E s \in Sessions :
        \/ OpenScreen(s)
        \/ ReadOffer(s)
        \/ ReadBefore(s)
        \/ ReadInstance(s)
        \/ ReadRoutes(s)
        \/ Fail(s)
        \/ LoseRace(s)
        \/ Submit(s)
        \/ Approve(s)
        \/ Reject(s)
        \/ Withdraw(s)
        \/ Resubmit(s)
    \/ BumpInstanceVersion
    \/ ChangeOrg
    \/ ChangeConfig

Spec == Init /\ [][Next]_vars

-----------------------------------------------------------------------------
(* Properties. *)

Instance == [status : Statuses, currentRound : Nat, version : Nat]

IsSession(req) ==
    /\ req \in [pc : {"idle", "opening", "viewing", "prepared", "reading", "judged"},
                viewer : People \cup {Null}, event : Events, expected : Nat,
                snapshot : Snapshots \cup {Null}, plan : {req.plan}, inst : Instance,
                route : {req.route}]
    /\ req.plan = Null \/ IsRoute(req.plan)
    /\ req.route = Null \/ IsRoute(req.route)

\* Every variable holds a value of its kind, the rounds of the document are
\* 1 .. current_round, each with one route, and a request holds what the step
\* it has reached has read.
TypeOK ==
    /\ instance \in Instance
    /\ DOMAIN routes = 1 .. instance.currentRound
    /\ \A r \in DOMAIN routes : IsRoute(routes[r])
    /\ org \in Snapshots
    /\ config \in RouteConfigs
    /\ DOMAIN session = Sessions
    /\ \A s \in Sessions :
        /\ IsSession(session[s])
        /\ session[s] # Idle => session[s].pc # "idle" /\ session[s].viewer # Null
        /\ session[s].pc \in {"prepared", "reading", "judged"} =>
             /\ session[s].snapshot \in Snapshots
             /\ session[s].event \in {"submit", "resubmit"} => IsRoute(session[s].plan)
        /\ session[s].pc \in {"opening", "reading", "judged"} =>
             session[s].inst.currentRound \in DOMAIN routes
        /\ session[s].pc = "judged" => IsRoute(session[s].route)

Decided(steps) == {i \in DOMAIN steps : steps[i].action # "none"}

\* A request that can still win its UPDATE has read the rows as they are now,
\* although it read them in two queries and outside of any lock (the optimistic
\* lock of updateInstanceStatus).
WinnerReadCurrentRows ==
    \A s \in Sessions :
        session[s].pc = "judged" /\ session[s].expected = instance.version =>
            /\ session[s].inst = instance
            /\ session[s].route = routes[instance.currentRound]

\* Nobody decides twice in one round of a document, not even with two requests
\* at once or after a change of office between two steps (candidatesFor).
OneDecisionPerPerson ==
    \A r \in DOMAIN routes : \A i, j \in Decided(routes[r].steps) :
        routes[r].steps[i].actedBy = routes[r].steps[j].actedBy => i = j

\* A drafter approves an own document only on a route that allows it or in the
\* fallback seat, is marked as having done so, and never rejects it.
SelfApprovalIsSanctioned ==
    \A r \in DOMAIN routes : \A i \in Decided(routes[r].steps) :
        LET step == routes[r].steps[i]
        IN  /\ step.selfApproved <=> step.actedBy = Drafter
            /\ step.actedBy = Drafter =>
                 step.action = "approved" /\ (step.isFallback \/ routes[r].selfApproval = "self_approve")

\* The status of the document and the decisions of its current round tell the
\* same story: submitted means nobody has decided, in review and approved mean
\* there are approvals and nothing else, rejected means there is one rejection,
\* withdrawn means nobody but the drafter had approved (rule D28).
StatusMatchesDecisions ==
    instance.status # "draft" =>
        LET steps == routes[instance.currentRound].steps
            rejected == {i \in DOMAIN steps : steps[i].action = "rejected"}
        IN  /\ instance.status = "submitted" => Decided(steps) = {}
            /\ instance.status \in {"in_review", "approved"} => Decided(steps) # {}
            /\ IF instance.status = "rejected" THEN Cardinality(rejected) = 1 ELSE rejected = {}
            /\ instance.status = "withdrawn" => ~ HasPriorApproval(steps, Drafter)

\* A decision in the fallback seat ends the round, and the seat comes after
\* every other step (fallback, insertFallbackStep).
FallbackEndsTheRound ==
    \A r \in DOMAIN routes : \A i \in DOMAIN routes[r].steps :
        routes[r].steps[i].isFallback =>
            /\ \A j \in DOMAIN routes[r].steps : j <= i
            /\ routes[r].steps[i].action # "none"
            /\ r = instance.currentRound => instance.status \in {"approved", "rejected"}

\* The page offers exactly what the server would accept if nothing changed in
\* between (rule X-5 beside possibleActions).
OfferIsWhatIsAccepted ==
    instance.status # "draft" =>
        \A p \in People, e \in Events \ {"submit"} :
            e \in PossibleActions(p, instance, routes[instance.currentRound], org)
                <=> Accepted(p, e, instance.version, instance, routes[instance.currentRound], org)

\* Decisions are final: a decided step never changes, a round that is over
\* never changes, and no step is decided in a document that is not under review.
HistoryIsFrozen ==
    [][\A r \in DOMAIN routes :
         routes'[r] # routes[r] =>
            /\ r = instance.currentRound /\ instance.status \in InProgress
            /\ routes'[r].selfApproval = routes[r].selfApproval
            /\ \A i \in DOMAIN routes[r].steps :
                 routes[r].steps[i].action # "none" => routes'[r].steps[i] = routes[r].steps[i]]_vars

\* The service keeps the promise of ApprovalLedger: with requests interleaved,
\* failing and working on stale reads, the document behaves as if every decision
\* were taken at once, in one place.
DecisionsOf(steps) ==
    {[by |-> steps[i].actedBy, action |-> steps[i].action, fallback |-> steps[i].isFallback] :
        i \in Decided(steps)}

Ledger == INSTANCE ApprovalLedger WITH
    status <- instance.status,
    policy <- [r \in DOMAIN routes |-> routes[r].selfApproval],
    decisions <- [r \in DOMAIN routes |-> DecisionsOf(routes[r].steps)]

KeepsTheLedger == Ledger!LedgerSpec

=============================================================================
