---------------------------- MODULE MCNotifyTick ----------------------------
(* Instances of NotifyTick for TLC.                                        *)
EXTENDS NotifyTick, TLC

CONSTANTS t1, t2, approver, clerk, stepTurn, payment, applied

MCTicks == {t1, t2}
Symmetric == Permutations({t1, t2})

\* One approver, on the day after a holiday: a turn at a step and a payment.
ApproverAlone == {approver}
ApproverNotices == {stepTurn, payment}
ToApprover == [n \in ApproverNotices |-> approver]
ApproverAge == (stepTurn :> 2) @@ (payment :> 1)
Steps == {stepTurn}
AfterHoliday == {2}

\* An approver and a clerk, on one day: one tick sends two mails.
ApproverAndClerk == {approver, clerk}
OfficeNotices == {payment, applied}
ToOffice == (payment :> approver) @@ (applied :> clerk)
OfficeAge == (payment :> 1) @@ (applied :> 2)
OneDay == {1}

Empty == {}
=============================================================================
