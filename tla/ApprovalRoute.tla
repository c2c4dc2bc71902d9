--------------------------- MODULE ApprovalRoute ---------------------------
(***************************************************************************)
(* The pure part of the approval engine (domain/approvals/route.ts): who   *)
(* may act on a frozen route, given the people who have acted in this      *)
(* round and a snapshot of the organisation, and the status machine.       *)
(*                                                                         *)
(* A route of one round is a function from step index to step.  Indexes    *)
(* may have gaps: a step switched off in the settings keeps its number     *)
(* free.  A snapshot is a function whose domain is the people who are in   *)
(* office.  Names and labels of steps are left out.                        *)
(***************************************************************************)
EXTENDS Integers, FiniteSets

CONSTANTS
    People,      \* user ids
    Roles,       \* role ids
    CeoRole,     \* FALLBACK_ROLE_ID, the role of the fallback step
    Teams,       \* team ids
    OrgUnits,    \* division ids
    Null         \* SQL NULL

ASSUME CeoIsARole == CeoRole \in Roles
ASSUME NullIsNoId == Null \notin People \cup Roles \cup Teams \cup OrgUnits

-----------------------------------------------------------------------------
(* Data. *)

SelfApprovals == {"skip", "self_approve"}
ScopeKinds == {"team", "org_unit", "company"}

Step == [roleId : Roles \cup {Null}, scopeKind : ScopeKinds,
         scopeTargetId : Teams \cup OrgUnits \cup {Null}, isFallback : BOOLEAN,
         actedBy : People \cup {Null}, action : {"none", "approved", "rejected"},
         selfApproved : BOOLEAN]

StepIndex == Nat \ {0}

IsStepTable(steps) ==
    /\ DOMAIN steps \subseteq StepIndex
    /\ IsFiniteSet(DOMAIN steps)
    /\ steps \in [DOMAIN steps -> Step]

IsRoute(route) ==
    /\ route \in [selfApproval : SelfApprovals, steps : {route.steps}]
    /\ IsStepTable(route.steps)

SnapshotPerson == [roleId : Roles \cup {Null}, teamId : Teams \cup {Null},
                   orgUnitId : OrgUnits \cup {Null}]
Snapshot == UNION {[P -> SnapshotPerson] : P \in SUBSET People}

LeastOf(S) == CHOOSE i \in S : \A j \in S : i <= j

GreatestOf(S) == CHOOSE i \in S : \A j \in S : j <= i

\* One past the greatest step index; 1 for a round without steps.
NextIndex(steps) ==
    IF DOMAIN steps = {} THEN 1 ELSE GreatestOf(DOMAIN steps) + 1

-----------------------------------------------------------------------------
(* Who holds a step, who may act on it. *)

ResolveHolders(step, snapshot) ==
    {p \in DOMAIN snapshot :
        /\ step.roleId \in {Null, snapshot[p].roleId}
        /\ \/ step.scopeKind = "company"
           \/ /\ step.scopeTargetId # Null
              /\ \/ step.scopeKind = "team" /\ snapshot[p].teamId = step.scopeTargetId
                 \/ step.scopeKind = "org_unit" /\ snapshot[p].orgUnitId = step.scopeTargetId}

ActedBy(steps, action) ==
    {steps[i].actedBy : i \in {k \in DOMAIN steps : steps[k].action = action}}

Approvers(steps) == ActedBy(steps, "approved") \ {Null}

\* An approval of this round by somebody other than the drafter.
HasPriorApproval(steps, drafter) == Approvers(steps) \ {drafter} # {}

\* Mutant: people who have approved in this round stay candidates.
OthersWithApprovers(step, snapshot, drafter, approvers) ==
    ResolveHolders(step, snapshot) \ {drafter}

\* candidatesFor: the holders without the drafter and without those who have
\* approved in this round; failing those, the drafter, if the route lets a
\* drafter approve and the drafter has not done so yet.
Others(step, snapshot, drafter, approvers) ==
    ResolveHolders(step, snapshot) \ ({drafter} \cup approvers)

\* Mutant: the drafter may approve whatever the route says.
CandidatesIgnoringRule(step, snapshot, selfApproval, drafter, approvers) ==
    LET others == Others(step, snapshot, drafter, approvers)
    IN  IF others # {} THEN others
        ELSE {p \in ResolveHolders(step, snapshot) \cap {drafter} : p \notin approvers}

Candidates(step, snapshot, selfApproval, drafter, approvers) ==
    LET others == Others(step, snapshot, drafter, approvers)
    IN  IF others # {}
        THEN others
        ELSE {p \in ResolveHolders(step, snapshot) \cap {drafter} :
                selfApproval = "self_approve" /\ p \notin approvers}

\* A step only its own drafter holds is passed over, and is not an empty seat.
SkippedSelf(step, snapshot, selfApproval, drafter, approvers) ==
    /\ Others(step, snapshot, drafter, approvers) = {}
    /\ drafter \in ResolveHolders(step, snapshot)
    /\ selfApproval = "skip"

-----------------------------------------------------------------------------
(* The walk over one round. *)

\* Open steps somebody may act on.
Actionable(route, snapshot, drafter) ==
    {i \in DOMAIN route.steps :
        /\ route.steps[i].action = "none"
        /\ Candidates(route.steps[i], snapshot, route.selfApproval, drafter,
                      Approvers(route.steps)) # {}}

\* An empty seat behind the last step that was acted on (only read when no
\* step is actionable).
EmptyAfterLastAction(route, snapshot, drafter) ==
    \E i \in DOMAIN route.steps :
        /\ route.steps[i].action = "none"
        /\ ~ SkippedSelf(route.steps[i], snapshot, route.selfApproval, drafter,
                         Approvers(route.steps))
        /\ \A j \in DOMAIN route.steps : j > i => route.steps[j].action = "none"

Outcome(kind, index, isFallback, candidates) ==
    [kind |-> kind, stepIndex |-> index, isFallback |-> isFallback,
     candidateIds |-> candidates]

\* The people of the fallback seat: the chief executives who have not approved
\* in this round, the drafter only if there is nobody else.
FallbackCandidates(route, snapshot, drafter) ==
    LET needsFallback == \/ EmptyAfterLastAction(route, snapshot, drafter)
                         \/ Approvers(route.steps) = {}
        remaining == {p \in DOMAIN snapshot : snapshot[p].roleId = CeoRole}
                        \ Approvers(route.steps)
    IN  IF ~ needsFallback THEN {}
        ELSE IF remaining \ {drafter} # {} THEN remaining \ {drafter}
        ELSE remaining

\* fallback(): what is left when no step is actionable.
FallbackOutcome(route, snapshot, drafter, at) ==
    LET index == NextIndex(route.steps)
        chosen == FallbackCandidates(route, snapshot, drafter)
    IN  IF chosen # {} THEN Outcome("actionable", index, TRUE, chosen)
        ELSE IF Approvers(route.steps) = {}
             THEN Outcome("no_fallback_holder", index, FALSE, {})
        ELSE IF at = "after_approval" THEN Outcome("final", index, FALSE, {})
        ELSE Outcome("orphan_final", index, FALSE, {})

WalkRoute(route, snapshot, drafter, at) ==
    LET open == Actionable(route, snapshot, drafter)
        first == LeastOf(open)
    IN  IF open = {} THEN FallbackOutcome(route, snapshot, drafter, at)
        ELSE Outcome("actionable", first, route.steps[first].isFallback,
                     Candidates(route.steps[first], snapshot, route.selfApproval,
                                drafter, Approvers(route.steps)))

Blocked(outcome) == outcome.kind \in {"no_fallback_holder", "orphan_final"}

-----------------------------------------------------------------------------
(* The status machine. *)

Statuses == {"draft", "submitted", "in_review", "approved", "rejected", "withdrawn"}
InProgress == {"submitted", "in_review"}

\* The table of allowed transitions; withdrawn leads back only for the kinds
\* of document that may be submitted again after a withdrawal.
Transitions(allowResubmitFromWithdrawn) ==
    {<<"draft", "submit", "submitted">>, <<"rejected", "resubmit", "submitted">>}
        \cup (InProgress \X {"approve"} \X {"in_review"})
        \cup (InProgress \X {"approve_final"} \X {"approved"})
        \cup (InProgress \X {"reject"} \X {"rejected"})
        \cup (InProgress \X {"withdraw"} \X {"withdrawn"})
        \cup (IF allowResubmitFromWithdrawn
              THEN {<<"withdrawn", "resubmit", "submitted">>} ELSE {})

Allows(status, event, allowWithdrawn) ==
    \E next \in Statuses : <<status, event, next>> \in Transitions(allowWithdrawn)

NextStep(status, event, allowWithdrawn) ==
    CHOOSE next \in Statuses : <<status, event, next>> \in Transitions(allowWithdrawn)

=============================================================================
