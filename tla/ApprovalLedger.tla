--------------------------- MODULE ApprovalLedger ---------------------------
(***************************************************************************)
(* What the approval service promises, with no requests, no versions, no   *)
(* organisation and no steps: one document, its status, and the decisions  *)
(* of each round, taken one at a time.                                     *)
(***************************************************************************)
EXTENDS Integers, FiniteSets

CONSTANTS People, Drafter, ResubmitFrom

VARIABLES
    status,      \* the status of the document
    policy,      \* round -> whether the drafter may approve ("skip", "self_approve")
    decisions    \* round -> decisions [by, action, fallback]

ledgerVars == <<status, policy, decisions>>

Decision == [by : People, action : {"approved", "rejected"}, fallback : BOOLEAN]
UnderReview == status \in {"submitted", "in_review"}
Round == CHOOSE r \in DOMAIN policy : \A q \in DOMAIN policy : q <= r
HasDecided(p) == \E d \in decisions[Round] : d.by = p

Record(d) ==
    /\ ~ HasDecided(d.by)
    /\ decisions' = [decisions EXCEPT ![Round] = @ \cup {d}]
    /\ UNCHANGED policy

\* A first or a further round begins, without decisions.
Begin(rule) ==
    LET round == IF DOMAIN policy = {} THEN 1 ELSE Round + 1
    IN  /\ status \in {"draft"} \cup ResubmitFrom
        /\ status' = "submitted"
        /\ policy' = [r \in DOMAIN policy \cup {round} |-> IF r = round THEN rule ELSE policy[r]]
        /\ decisions' = [r \in DOMAIN decisions \cup {round} |->
                            IF r = round THEN {} ELSE decisions[r]]

\* An approval; a decision in the fallback seat is the last one of its round.
Agree(d) ==
    /\ UnderReview
    /\ d.action = "approved"
    /\ d.by = Drafter => d.fallback \/ policy[Round] = "self_approve"
    /\ status' \in (IF d.fallback THEN {"approved"} ELSE {"in_review", "approved"})
    /\ Record(d)

Refuse(d) ==
    /\ UnderReview
    /\ d.action = "rejected"
    /\ d.by # Drafter
    /\ status' = "rejected"
    /\ Record(d)

\* The drafter takes the document back, as long as nobody else has approved.
TakeBack ==
    /\ UnderReview
    /\ \A d \in decisions[Round] : d.by = Drafter
    /\ status' = "withdrawn"
    /\ UNCHANGED <<policy, decisions>>

LedgerInit == status = "draft" /\ policy = [r \in {} |-> ""] /\ decisions = [r \in {} |-> {}]

LedgerNext ==
    \/ \E rule \in {"skip", "self_approve"} : Begin(rule)
    \/ \E d \in Decision : Agree(d) \/ Refuse(d)
    \/ TakeBack

LedgerSpec == LedgerInit /\ [][LedgerNext]_ledgerVars

=============================================================================
