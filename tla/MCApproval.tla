----------------------------- MODULE MCApproval -----------------------------
(* Instances of Approval for TLC.                                          *)
EXTENDS Approval, TLC

CONSTANTS drafter, lead, roleLead, roleCeo, salesTeam, s1, s2

Person(role) == [roleId |-> role, teamId |-> salesTeam, orgUnitId |-> Null]

\* The drafter leads the company.
OwnerOrg == (drafter :> Person(roleCeo)) @@ (lead :> Person(roleLead))

\* The lead has become chief executive and the drafter has taken the seat.
PromotedOrg == (drafter :> Person(roleLead)) @@ (lead :> Person(roleCeo))

ConfStep(enabled, role, scope) ==
    [enabled |-> enabled, roleId |-> role, scope |-> scope, orgUnitId |-> Null]

\* Lead of the drafter's team, a gap, chief executive; the drafter may approve.
LongConfig == [selfApproval |-> "self_approve",
               steps |-> <<ConfStep(TRUE, roleLead, "drafter_team"),
                           ConfStep(FALSE, Null, "company"),
                           ConfStep(TRUE, roleCeo, "company")>>]

\* A gap and the chief executive; an own step is skipped.
ShortConfig == [selfApproval |-> "skip",
                steps |-> <<ConfStep(FALSE, roleLead, "drafter_team"),
                            ConfStep(TRUE, roleCeo, "company")>>]

MCPeople == {drafter, lead}
MCRoles == {roleLead, roleCeo}
MCTeams == {salesTeam}
MCOrgUnits == {}
MCSessions == {s1, s2}
MCResubmitFrom == {"rejected", "withdrawn"}
BothConfigs == {LongConfig, ShortConfig}
Handover == {OwnerOrg, PromotedOrg}
Symmetric == Permutations({s1, s2})
=============================================================================
