-------------------------- MODULE QuoteLinesProofs --------------------------
(***************************************************************************)
(* Theorems about QuoteLines, for any number of lines and revisions and    *)
(* any amounts.                                                            *)
(***************************************************************************)
EXTENDS QuoteLines, TLAPS

LinesHaveType ==
    /\ current \in 1..MaxRevision
    /\ lines \in [Lines -> Rows]

\* A rule line is in the current revision, and its two numbers tell whether a
\* person has had a hand in it.
RuleRowRight(row, rev) ==
    /\ row.rev = rev
    /\ row.synced <= row.version
    /\ row.version # row.synced <=> row.touched

LinesAreRight ==
    \A l \in Lines :
        /\ lines[l].rev <= current
        /\ lines[l].sourced => RuleRowRight(lines[l], current)

RuleLineIsPaid == \A l \in LiveRuleLines : ~lines[l].touched => payment.live

\* A row the PM's page counted is an older version of its line, or has its
\* amount.
SeenRow(x) ==
    /\ x.id \in Lines
    /\ x.version \in Nat
    /\ lines[x.id].rev # 0
    /\ ~lines[x.id].sourced
    /\ x.version <= lines[x.id].version
    /\ x.version = lines[x.id].version => x.amount = lines[x.id].amount

ScreenIsOlder == \A x \in screen.basis : SeenRow(x)

\* What is still to be read is of a revision there is.
PageIsOfRevision == screen.left # {} => screen.rev # 0

BuriedAreRules == buried \in Seq(Lines) /\ \A n \in DOMAIN buried : lines[buried[n]].sourced

LinesInv ==
    /\ LinesHaveType
    /\ LinesAreRight
    /\ OneLiveLine
    /\ RuleLineIsPaid
    /\ ScreenIsOlder
    /\ PageIsOfRevision

IInv == LinesInv /\ BuriedAreRules

-----------------------------------------------------------------------------
LEMMA RowsHaveType ==
    /\ \A rev \in 0..MaxRevision, amount \in Nat, from \in Lines \cup {NoLine} :
          Row(rev, amount, from) \in Rows
    /\ Unused \in Rows /\ Unused.rev = 0 /\ Unused.sourced = FALSE
<1>1. 0 \in 0..MaxRevision
  BY BoundsArePositive
<1>2. ASSUME NEW rev \in 0..MaxRevision, NEW amount \in Nat, NEW from \in Lines \cup {NoLine}
      PROVE  Row(rev, amount, from) \in Rows
  BY DEF Row, Rows
<1>3. Row(0, 0, NoLine) \in Rows /\ Row(0, 0, NoLine).rev = 0 /\ Row(0, 0, NoLine).sourced = FALSE
  BY <1>1, <1>2 DEF Row
<1>4. Unused \in Rows /\ Unused.rev = 0 /\ Unused.sourced = FALSE
  BY <1>3 DEF Unused, Rows
<1>5. QED
  BY <1>2, <1>4

LEMMA InitInv == Init => IInv
<1> SUFFICES ASSUME Init PROVE IInv
  OBVIOUS
<1>1. current \in 1..MaxRevision /\ current = 1
  BY BoundsArePositive DEF Init
<1>2. lines \in [Lines -> Rows] /\ \A l \in Lines : lines[l].rev = 0 /\ lines[l].sourced = FALSE
  BY RowsHaveType DEF Init
<1>3. screen.basis = {} /\ screen.left = {} /\ buried = <<>>
  BY DEF Init, NothingSeen
<1>4. buried \in Seq(Lines) /\ DOMAIN buried = {}
  BY <1>3
<1>5. RuleLines = {} /\ LiveRuleLines = {}
  BY <1>2 DEF RuleLines, LiveRuleLines
<1>6. QED
  BY <1>1, <1>2, <1>3, <1>4, <1>5 DEF IInv, LinesInv, LinesHaveType, LinesAreRight, OneLiveLine,
     RuleLineIsPaid, ScreenIsOlder, PageIsOfRevision, BuriedAreRules

-----------------------------------------------------------------------------
(* A step that rewrites one row.                                           *)

RulesStay == \A k \in Lines : lines[k].sourced => lines'[k].sourced

PastStands == \A k \in Lines : lines[k].rev \in 1..(current - 1) => lines'[k] = lines[k]

\* The row of a line of the quote, from a new one or an edit.
QuoteRow(old, row) ==
    /\ ~old.sourced /\ ~row.sourced
    /\ row.rev = current
    /\ \/ old.rev = 0
       \/ /\ old.rev = current
          /\ \/ row.version = old.version + 1
             \/ row.version = old.version /\ row.amount = old.amount

\* The row of a rule line after a person.
HandRow(old, row) ==
    /\ old.sourced /\ row.sourced
    /\ row.rev = old.rev
    /\ row.version = old.version + 1
    /\ row.synced = old.synced
    /\ row.touched
    /\ old.archived => row.archived

\* A rule line that goes live: restored, or written for a payment.
LiveRow(old, row) ==
    /\ LiveRuleLines = {}
    /\ payment'.live
    /\ row.sourced
    /\ RuleRowRight(row, current)
    /\ old.sourced \/ old.rev = 0

LEMMA RewriteKeepsInv ==
    ASSUME LinesInv, NEW l \in Lines, NEW row \in Rows, Rewrites(l, row),
           UNCHANGED <<current, screen>>,
           payment.live => payment'.live,
           \/ QuoteRow(lines[l], row)
           \/ HandRow(lines[l], row)
           \/ LiveRow(lines[l], row)
    PROVE  LinesInv' /\ RulesStay /\ PastStands
<1>1. lines \in [Lines -> Rows] /\ current \in Nat /\ current >= 1 /\ lines[l] \in Rows
  BY DEF LinesInv, LinesHaveType
<1>2. /\ lines' \in [Lines -> Rows]
      /\ lines'[l] = row /\ \A k \in Lines \ {l} : lines'[k] = lines[k]
  BY <1>1 DEF Rewrites
<1>3. LinesHaveType'
  BY <1>2 DEF LinesInv, LinesHaveType
<1>4. lines[l].sourced => RuleRowRight(lines[l], current)
  BY DEF LinesInv, LinesAreRight
<1>5. row.rev = current
  BY <1>4 DEF QuoteRow, HandRow, LiveRow, RuleRowRight
<1>6. row.sourced => RuleRowRight(row, current)
  <2>1. CASE HandRow(lines[l], row)
    <3>1. lines[l].synced <= lines[l].version /\ lines[l].synced \in Nat /\ lines[l].version \in Nat
      BY <1>1, <1>4, <2>1 DEF HandRow, RuleRowRight, Rows
    <3>2. QED
      BY <1>5, <2>1, <3>1 DEF HandRow, RuleRowRight
  <2>2. QED
    BY <2>1 DEF QuoteRow, LiveRow
<1>7. LinesAreRight'
  BY <1>1, <1>2, <1>5, <1>6 DEF LinesInv, LinesAreRight, RuleRowRight
<1>8. OneLiveLine' /\ RuleLineIsPaid'
  <2>1. CASE LiveRow(lines[l], row)
    <3>1. \A k \in Lines : k \in LiveRuleLines' => k = l
      BY <1>2, <2>1 DEF LiveRow, LiveRuleLines, RuleLines
    <3>2. LiveRuleLines' \subseteq Lines
      BY DEF LiveRuleLines, RuleLines
    <3>3. QED
      BY <2>1, <3>1, <3>2 DEF LiveRow, OneLiveLine, RuleLineIsPaid
  <2>2. CASE QuoteRow(lines[l], row) \/ HandRow(lines[l], row)
    <3>1. \A k \in LiveRuleLines' : k \in LiveRuleLines /\ (lines[k].touched => lines'[k].touched)
      BY <1>2, <2>2 DEF QuoteRow, HandRow, LiveRuleLines, RuleLines
    <3>2. QED
      BY <3>1 DEF LinesInv, OneLiveLine, RuleLineIsPaid
  <2>3. QED
    BY <2>1, <2>2
<1>9. ScreenIsOlder'
  <2> SUFFICES ASSUME NEW x \in screen.basis
               PROVE  /\ x.id \in Lines
                      /\ x.version \in Nat
                      /\ lines'[x.id].rev # 0
                      /\ ~lines'[x.id].sourced
                      /\ x.version <= lines'[x.id].version
                      /\ x.version = lines'[x.id].version => x.amount = lines'[x.id].amount
    BY DEF ScreenIsOlder, SeenRow
  <2>1. SeenRow(x)
    BY DEF LinesInv, ScreenIsOlder
  <2>2. CASE x.id # l
    BY <1>2, <2>1, <2>2 DEF SeenRow
  <2>3. CASE x.id = l
    <3>1. lines[l].version \in Nat /\ x.version \in Nat /\ QuoteRow(lines[l], row) /\ lines[l].rev # 0
      BY <1>1, <2>1, <2>3 DEF SeenRow, HandRow, LiveRow, Rows
    <3>2. QED
      BY <1>1, <1>2, <1>5, <2>1, <2>3, <3>1 DEF SeenRow, QuoteRow
  <2>4. QED
    BY <2>2, <2>3
<1>10. RulesStay /\ PastStands
  BY <1>1, <1>2, <1>4 DEF RulesStay, PastStands, QuoteRow, HandRow, LiveRow, RuleRowRight
<1>11. QED
  BY <1>3, <1>7, <1>8, <1>9, <1>10 DEF LinesInv, PageIsOfRevision

\* A step that leaves the lines alone.
LEMMA NoLinesKeepInv ==
    ASSUME LinesInv, UNCHANGED <<current, lines, screen>>, payment.live => payment'.live
    PROVE  LinesInv' /\ RulesStay /\ PastStands
<1>1. LinesHaveType' /\ LinesAreRight' /\ OneLiveLine'
  BY DEF LinesInv, LinesHaveType, LinesAreRight, OneLiveLine, LiveRuleLines, RuleLines
<1>2. RuleLineIsPaid' /\ ScreenIsOlder'
  BY DEF LinesInv, RuleLineIsPaid, ScreenIsOlder, SeenRow, LiveRuleLines, RuleLines
<1>3. QED
  BY <1>1, <1>2 DEF LinesInv, PageIsOfRevision, RulesStay, PastStands

-----------------------------------------------------------------------------
(* The rule.                                                               *)

\* What the rule makes of a live line of its own that nobody has edited.
RuledRow(old, row) ==
    /\ row.rev = old.rev /\ row.sourced = old.sourced /\ row.touched = old.touched
    /\ row.version = old.version + 1 /\ row.synced = row.version
    /\ old.archived => row.archived

LEMMA RuleKeepsInv ==
    ASSUME LinesInv, NEW own, own \subseteq LiveRuleLines,
           \A l \in own : ~HandEdited(l),
           lines' \in [Lines -> Rows],
           \A l \in own : RuledRow(lines[l], lines'[l]),
           \A l \in Lines \ own : lines'[l] = lines[l],
           UNCHANGED <<current, screen>>,
           payment'.live \/ \A l \in own : lines'[l].archived,
           payment'.live \/ own = {l \in LiveRuleLines : ~HandEdited(l)}
    PROVE  LinesInv' /\ RulesStay /\ PastStands
<1>1. /\ own \subseteq Lines /\ \A l \in own : lines[l].sourced /\ lines[l] \in Rows
      /\ current \in Nat
  BY DEF LiveRuleLines, RuleLines, LinesInv, LinesHaveType
<1>2. LinesHaveType'
  BY DEF LinesInv, LinesHaveType
<1>3. \A l \in Lines : lines[l].sourced => RuleRowRight(lines[l], current)
  BY DEF LinesInv, LinesAreRight
<1>4. ASSUME NEW l \in own
      PROVE  RuleRowRight(lines'[l], current) /\ lines'[l].sourced
  <2>1. lines[l].version \in Nat /\ lines'[l].version \in Nat
    BY <1>1 DEF Rows
  <2>2. ~lines[l].touched /\ lines[l].rev = current
    BY <1>1, <1>3 DEF RuleRowRight, HandEdited
  <2>3. QED
    BY <1>1, <2>1, <2>2 DEF RuledRow, RuleRowRight
<1>5. LinesAreRight'
  <2>1. ASSUME NEW l \in Lines
        PROVE  lines'[l].rev <= current /\ (lines'[l].sourced => RuleRowRight(lines'[l], current))
    <3>1. CASE l \in own
      BY <1>1, <1>4, <3>1 DEF RuleRowRight
    <3>2. CASE l \notin own
      BY <3>2 DEF LinesInv, LinesAreRight
    <3>3. QED
      BY <3>1, <3>2
  <2>2. QED
    BY <2>1 DEF LinesAreRight, RuleRowRight
<1>6. \A l \in LiveRuleLines' : l \in LiveRuleLines /\ (lines[l].touched => lines'[l].touched)
  BY <1>1 DEF LiveRuleLines, RuleLines, RuledRow
<1>7. OneLiveLine'
  BY <1>6 DEF LinesInv, OneLiveLine
<1>8. RuleLineIsPaid'
  <2> SUFFICES ASSUME NEW l \in LiveRuleLines', ~lines'[l].touched, ~payment'.live
               PROVE  FALSE
    BY DEF RuleLineIsPaid
  <2>1. l \in LiveRuleLines /\ ~lines[l].touched /\ ~lines'[l].archived
    BY <1>6 DEF LiveRuleLines
  <2>2. l \in Lines /\ lines[l].sourced
    BY <2>1 DEF LiveRuleLines, RuleLines
  <2>3. ~HandEdited(l)
    BY <1>3, <2>1, <2>2 DEF RuleRowRight, HandEdited
  <2>4. QED
    BY <2>1, <2>3
<1>9. ScreenIsOlder'
  <2>1. \A x \in screen.basis : x.id \in Lines \ own
    BY <1>1 DEF LinesInv, ScreenIsOlder, SeenRow
  <2>2. QED
    BY <2>1 DEF LinesInv, ScreenIsOlder, SeenRow
<1>10. RulesStay /\ PastStands
  BY <1>1, <1>3, <1>4 DEF RulesStay, PastStands, RuleRowRight
<1>11. QED
  BY <1>2, <1>5, <1>7, <1>8, <1>9, <1>10 DEF LinesInv, PageIsOfRevision

\* What a person has had a hand in is left alone, and nothing is written
\* beside a line a person deleted last.
HandsStay ==
    /\ \A l \in RuleLines : lines[l].touched => lines'[l] = lines[l]
    /\ LiveRuleLines = {} /\ buried # <<>> /\ lines[LastBuried].touched => lines' = lines

\* The archived rule lines stay, with one more or but for one.
BuriedMoves ==
    \/ UNCHANGED buried
    \/ \E l \in RuleLines : buried' = Append(buried, l)
    \/ \E n \in DOMAIN buried : buried' = BuriedBut(n)

LEMMA RuleRowsMove ==
    ASSUME LinesInv, NEW l \in RuleLines
    PROVE  /\ lines[l] \in Rows /\ lines[l].version + 1 \in Nat
           /\ HandEdited(l) <=> lines[l].touched
<1>1. l \in Lines /\ lines[l].sourced /\ lines[l] \in Rows
  BY DEF RuleLines, LinesInv, LinesHaveType
<1>2. lines[l].version \in Nat
  BY <1>1 DEF Rows
<1>3. HandEdited(l) <=> lines[l].touched
  BY <1>1 DEF LinesInv, LinesAreRight, RuleRowRight, HandEdited
<1>4. QED
  BY <1>1, <1>2, <1>3

LEMMA RuleArchivesKeepsInv ==
    ASSUME LinesInv, RuleArchives, UNCHANGED <<current, screen>>
    PROVE  LinesInv' /\ RulesStay /\ PastStands /\ HandsStay /\ BuriedMoves
<1> DEFINE own == {l \in LiveRuleLines : ~HandEdited(l)}
           row(l) == [lines[l] EXCEPT !.archived = TRUE, !.version = @ + 1, !.synced = lines[l].version + 1]
<1>1. /\ lines' = [l \in Lines |-> IF l \in own THEN row(l) ELSE lines[l]]
      /\ buried' = IF own = {} THEN buried ELSE Append(buried, CHOOSE l \in own : TRUE)
  BY DEF RuleArchives
<1>2. own \subseteq RuleLines /\ RuleLines \subseteq Lines
  BY DEF LiveRuleLines, RuleLines
<1>3. ASSUME NEW l \in own
      PROVE  row(l) \in Rows /\ RuledRow(lines[l], row(l)) /\ row(l).archived
  <2>1. lines[l] \in Rows /\ lines[l].version + 1 \in Nat
    BY <1>2, RuleRowsMove
  <2>2. row(l) \in Rows
    BY <2>1 DEF Rows
  <2>3. QED
    BY <2>1, <2>2 DEF RuledRow, Rows
<1> HIDE DEF row
<1>4. lines' \in [Lines -> Rows]
  BY <1>1, <1>3 DEF LinesInv, LinesHaveType
<1>5. \A l \in own : lines'[l] = row(l)
  BY <1>1, <1>2
<1>6. \A l \in Lines \ own : lines'[l] = lines[l]
  BY <1>1
<1>7. LinesInv' /\ RulesStay /\ PastStands
  <2>1. own \subseteq LiveRuleLines /\ \A l \in own : ~HandEdited(l)
    OBVIOUS
  <2>2. \A l \in own : RuledRow(lines[l], lines'[l]) /\ lines'[l].archived
    BY <1>3, <1>5
  <2>3. own = {l \in LiveRuleLines : ~HandEdited(l)}
    OBVIOUS
  <2> HIDE DEF own
  <2>4. QED
    BY <1>4, <1>6, <2>1, <2>2, <2>3, RuleKeepsInv
<1>8. HandsStay
  <2>1. \A l \in RuleLines : lines[l].touched => l \in Lines \ own
    BY <1>2, RuleRowsMove
  <2>2. LiveRuleLines = {} => own = {}
    OBVIOUS
  <2>3. own = {} => lines' = lines
    BY <1>1 DEF LinesInv, LinesHaveType
  <2>4. QED
    BY <1>6, <2>1, <2>2, <2>3 DEF HandsStay
<1>9. BuriedMoves
  BY <1>1, <1>2 DEF BuriedMoves
<1>10. QED
  BY <1>7, <1>8, <1>9

LEMMA RuleUpdatesKeepsInv ==
    ASSUME LinesInv, NEW tax \in Nat, RuleUpdates(tax), UNCHANGED <<current, screen>>, payment'.live
    PROVE  LinesInv' /\ RulesStay /\ PastStands /\ HandsStay /\ BuriedMoves
<1> DEFINE own == {l \in LiveRuleLines : ~HandEdited(l)}
           row(l) == [lines[l] EXCEPT !.amount = tax, !.version = @ + 1, !.synced = lines[l].version + 1]
<1>1. /\ LiveRuleLines # {}
      /\ lines' = [l \in Lines |-> IF l \in own THEN row(l) ELSE lines[l]]
      /\ UNCHANGED buried
  BY DEF RuleUpdates
<1>2. own \subseteq RuleLines /\ RuleLines \subseteq Lines
  BY DEF LiveRuleLines, RuleLines
<1>3. ASSUME NEW l \in own
      PROVE  row(l) \in Rows /\ RuledRow(lines[l], row(l))
  <2>1. lines[l] \in Rows /\ lines[l].version + 1 \in Nat
    BY <1>2, RuleRowsMove
  <2>2. row(l) \in Rows
    BY <2>1 DEF Rows
  <2>3. QED
    BY <2>1, <2>2 DEF RuledRow, Rows
<1> HIDE DEF row
<1>4. lines' \in [Lines -> Rows]
  BY <1>1, <1>3 DEF LinesInv, LinesHaveType
<1>5. \A l \in own : lines'[l] = row(l)
  BY <1>1, <1>2
<1>6. \A l \in Lines \ own : lines'[l] = lines[l]
  BY <1>1
<1>7. LinesInv' /\ RulesStay /\ PastStands
  <2>1. own \subseteq LiveRuleLines /\ \A l \in own : ~HandEdited(l)
    OBVIOUS
  <2>2. \A l \in own : RuledRow(lines[l], lines'[l])
    BY <1>3, <1>5
  <2> HIDE DEF own
  <2>3. QED
    BY <1>4, <1>6, <2>1, <2>2, RuleKeepsInv
<1>8. HandsStay
  <2>1. \A l \in RuleLines : lines[l].touched => l \in Lines \ own
    BY <1>2, RuleRowsMove
  <2>2. QED
    BY <1>1, <1>6, <2>1 DEF HandsStay
<1>9. QED
  BY <1>1, <1>7, <1>8 DEF BuriedMoves

LEMMA RuleInsertsKeepsInv ==
    ASSUME IInv, NEW tax \in Nat, RuleInserts(tax), UNCHANGED <<current, screen>>, payment'.live
    PROVE  LinesInv' /\ RulesStay /\ PastStands /\ HandsStay /\ BuriedMoves
<1>1. BuriedMoves
  BY DEF RuleInserts, BuriedMoves
<1>2. current \in 0..MaxRevision /\ current >= 1 /\ lines \in [Lines -> Rows] /\ LinesInv
  BY DEF IInv, LinesInv, LinesHaveType
<1>3. buried # <<>> => LastBuried \in RuleLines
  <2>1. ASSUME buried # <<>> PROVE Len(buried) \in DOMAIN buried /\ buried[Len(buried)] \in Lines
    BY <2>1 DEF IInv, BuriedAreRules
  <2>2. QED
    BY <2>1 DEF IInv, BuriedAreRules, LastBuried, RuleLines
<1>4. CASE DeletedByHand
  <2>1. UNCHANGED lines
    BY <1>4 DEF RuleInserts
  <2>2. LinesInv' /\ RulesStay /\ PastStands
    BY <1>2, <2>1, NoLinesKeepInv
  <2>3. QED
    BY <1>1, <2>1, <2>2 DEF HandsStay
<1>5. CASE ~DeletedByHand
  <2>1. PICK l \in Free : Rewrites(l, RuleRow(tax))
    BY <1>5 DEF RuleInserts
  <2>2. l \in Lines /\ lines[l].rev = 0 /\ ~lines[l].sourced
    BY <1>2 DEF Free, LinesInv, LinesAreRight, RuleRowRight
  <2> DEFINE row == RuleRow(tax)
  <2>3. Row(current, tax, NoLine) \in Rows
    BY <1>2, RowsHaveType
  <2>4. /\ row \in Rows
        /\ row.rev = current /\ row.sourced /\ row.synced = 1 /\ row.version = 1 /\ ~row.touched
    BY <2>3 DEF RuleRow, Row, Rows
  <2> HIDE DEF row
  <2>5. LiveRow(lines[l], row)
    BY <2>2, <2>4 DEF LiveRow, RuleRowRight, RuleInserts
  <2>6. LinesInv' /\ RulesStay /\ PastStands
    BY <1>2, <2>1, <2>2, <2>4, <2>5, RewriteKeepsInv DEF row
  <2>7. HandsStay
    <3>1. \A k \in RuleLines : lines'[k] = lines[k]
      BY <1>2, <2>1, <2>2 DEF Rewrites, RuleLines
    <3>2. ~(buried # <<>> /\ lines[LastBuried].touched)
      BY <1>2, <1>3, <1>5, RuleRowsMove DEF DeletedByHand
    <3>3. QED
      BY <3>1, <3>2 DEF HandsStay
  <2>8. QED
    BY <1>1, <2>6, <2>7
<1>6. QED
  BY <1>4, <1>5

-----------------------------------------------------------------------------
(* What people do to the lines.                                            *)

LEMMA LinesOfTheRevision ==
    ASSUME LinesInv, NEW l \in Lines
    PROVE  /\ current \in 0..MaxRevision /\ current \in Nat /\ current >= 1
           /\ lines[l] \in Rows
           /\ lines[l].version \in Nat /\ lines[l].version + 1 \in Nat
           /\ lines[l].rev = 0 => ~lines[l].sourced
           /\ lines[l].sourced => RuleRowRight(lines[l], current)
<1>1. current \in 1..MaxRevision /\ lines[l] \in Rows
  BY DEF LinesInv, LinesHaveType
<1>2. lines[l].version \in Nat
  BY <1>1 DEF Rows
<1>3. lines[l].sourced => RuleRowRight(lines[l], current)
  BY DEF LinesInv, LinesAreRight
<1>4. current \in 0..MaxRevision /\ current \in Nat /\ current >= 1
  BY <1>1
<1>5. lines[l].rev = 0 => ~lines[l].sourced
  BY <1>3, <1>4 DEF RuleRowRight
<1>6. lines[l].version + 1 \in Nat
  BY <1>2
<1>7. QED
  BY <1>1, <1>2, <1>3, <1>4, <1>5, <1>6

LEMMA SaveKeepsInv ==
    ASSUME LinesInv, Save
    PROVE  LinesInv' /\ RulesStay /\ PastStands /\ UNCHANGED payment /\ BuriedMoves
<1>1. ASSUME NEW l \in Free, NEW amount \in Amounts, AddLine(l, amount)
      PROVE  LinesInv' /\ RulesStay /\ PastStands /\ UNCHANGED <<payment, buried>>
  <2> DEFINE row == Row(current, amount, NoLine)
  <2>1. l \in Lines /\ lines[l].rev = 0 /\ ~lines[l].sourced
    BY LinesOfTheRevision DEF Free
  <2>2. row \in Rows
    BY <2>1, RowsHaveType, LinesOfTheRevision, AmountsAreNumbers
  <2>3. QuoteRow(lines[l], row)
    BY <2>1 DEF QuoteRow, Row
  <2>4. Rewrites(l, row) /\ UNCHANGED <<current, screen, payment, buried>>
    BY <1>1 DEF AddLine
  <2> HIDE DEF row
  <2>5. QED
    BY <2>1, <2>2, <2>3, <2>4, RewriteKeepsInv
<1>2. ASSUME NEW l \in Editable, NEW amount \in Amounts, EditLine(l, amount)
      PROVE  LinesInv' /\ RulesStay /\ PastStands /\ UNCHANGED <<payment, buried>>
  <2> DEFINE row == [lines[l] EXCEPT !.amount = amount, !.version = lines[l].version + 1]
  <2>1. l \in Lines /\ lines[l].rev = current /\ ~lines[l].sourced
    BY <1>2 DEF Editable, Live, OfRevision, EditLine
  <2>2. row \in Rows /\ QuoteRow(lines[l], row)
    BY <2>1, LinesOfTheRevision, AmountsAreNumbers DEF QuoteRow, Rows
  <2>3. Rewrites(l, row) /\ UNCHANGED <<current, screen, payment, buried>>
    BY <1>2 DEF EditLine
  <2> HIDE DEF row
  <2>4. QED
    BY <2>1, <2>2, <2>3, RewriteKeepsInv
<1>3. ASSUME NEW l \in Editable, ArchiveLine(l)
      PROVE  LinesInv' /\ RulesStay /\ PastStands /\ UNCHANGED <<payment, buried>>
  <2> DEFINE row == [lines[l] EXCEPT !.archived = TRUE, !.version = HumanArchiveVersion(l)]
  <2>1. l \in Lines /\ lines[l].rev = current /\ ~lines[l].sourced
    BY <1>3 DEF Editable, Live, OfRevision, ArchiveLine
  <2>2. HumanArchiveVersion(l) = lines[l].version
    BY <2>1, LinesOfTheRevision DEF HumanArchiveVersion
  <2>3. row \in Rows /\ QuoteRow(lines[l], row)
    BY <2>1, <2>2, LinesOfTheRevision DEF QuoteRow, Rows
  <2>4. Rewrites(l, row) /\ UNCHANGED <<current, screen, payment, buried>>
    BY <1>3 DEF ArchiveLine
  <2> HIDE DEF row
  <2>5. QED
    BY <2>1, <2>3, <2>4, RewriteKeepsInv
<1>4. ASSUME NEW l \in Editable, EditRuleLine(l)
      PROVE  LinesInv' /\ RulesStay /\ PastStands /\ UNCHANGED <<payment, buried>>
  <2> DEFINE row == [lines[l] EXCEPT !.version = lines[l].version + 1, !.touched = TRUE]
  <2>1. l \in Lines /\ lines[l].sourced
    BY <1>4 DEF Editable, Live, OfRevision, EditRuleLine
  <2>2. row \in Rows /\ HandRow(lines[l], row)
    BY <2>1, LinesOfTheRevision DEF HandRow, Rows
  <2>3. Rewrites(l, row) /\ UNCHANGED <<current, screen, payment, buried>>
    BY <1>4 DEF EditRuleLine
  <2> HIDE DEF row
  <2>4. QED
    BY <2>1, <2>2, <2>3, RewriteKeepsInv
<1>5. ASSUME NEW l \in Editable, ArchiveRuleLine(l)
      PROVE  LinesInv' /\ RulesStay /\ PastStands /\ UNCHANGED payment /\ BuriedMoves
  <2> DEFINE row == [lines[l] EXCEPT !.archived = TRUE, !.touched = TRUE, !.version = HumanArchiveVersion(l)]
  <2>1. l \in Lines /\ lines[l].sourced
    BY <1>5 DEF Editable, Live, OfRevision, ArchiveRuleLine
  <2>2. HumanArchiveVersion(l) = lines[l].version + 1
    BY <2>1 DEF HumanArchiveVersion
  <2>3. row \in Rows /\ HandRow(lines[l], row)
    BY <2>1, <2>2, LinesOfTheRevision DEF HandRow, Rows
  <2>4. Rewrites(l, row) /\ UNCHANGED <<current, screen, payment>> /\ buried' = Append(buried, l)
    BY <1>5 DEF ArchiveRuleLine
  <2> HIDE DEF row
  <2>5. BuriedMoves
    BY <2>1, <2>4 DEF BuriedMoves, RuleLines
  <2>6. QED
    BY <2>1, <2>3, <2>4, <2>5, RewriteKeepsInv
<1>6. QED
  BY <1>1, <1>2, <1>3, <1>4, <1>5 DEF Save, BuriedMoves

LEMMA RestoreKeepsInv ==
    ASSUME LinesInv, Restore
    PROVE  LinesInv' /\ RulesStay /\ PastStands /\ UNCHANGED payment /\ BuriedMoves
<1>1. PICK l \in Restorable : RestoreLine(l) \/ RestoreRuleLine(l)
  BY DEF Restore
<1> DEFINE row == [lines[l] EXCEPT !.archived = FALSE]
<1>2. l \in Lines /\ lines[l].rev = current
  BY DEF Restorable, OfRevision
<1>3. /\ row \in Rows
      /\ row.rev = lines[l].rev /\ row.sourced = lines[l].sourced /\ row.amount = lines[l].amount
      /\ row.version = lines[l].version /\ row.synced = lines[l].synced /\ row.touched = lines[l].touched
  BY <1>2, LinesOfTheRevision DEF Rows
<1>4. /\ Rewrites(l, row) /\ UNCHANGED <<current, screen, payment>>
      /\ lines[l].sourced => LiveRuleLines = {} /\ payment.live
  BY <1>1 DEF RestoreLine, RestoreRuleLine, RestorableByHuman
<1> HIDE DEF row
<1>5. BuriedMoves
  BY <1>1 DEF RestoreLine, RestoreRuleLine, BuriedMoves
<1>6. QuoteRow(lines[l], row) \/ LiveRow(lines[l], row)
  BY <1>2, <1>3, <1>4, LinesOfTheRevision DEF QuoteRow, LiveRow, RuleRowRight
<1>7. QED
  BY <1>2, <1>3, <1>4, <1>5, <1>6, RewriteKeepsInv

LEMMA RevisionKeepsInv ==
    ASSUME LinesInv, CreateRevision
    PROVE  LinesInv' /\ RulesStay /\ PastStands /\ UNCHANGED payment /\ BuriedMoves
<1>1. PICK copy \in Injection(LiveQuoted(current), Free) :
        lines' = [l \in Lines |->
                    IF l \in Range(copy) THEN Copied(AntiFunction(copy)[l])
                    ELSE IF l \in Moving THEN Moved(l)
                    ELSE lines[l]]
  BY DEF CreateRevision
<1>2. /\ current' = current + 1 /\ current < MaxRevision
      /\ UNCHANGED <<buried, payment, screen>>
  BY DEF CreateRevision
<1>3. current \in 1..MaxRevision /\ MaxRevision \in Nat /\ lines \in [Lines -> Rows]
  BY BoundsArePositive DEF LinesInv, LinesHaveType
<1>4. current' \in 1..MaxRevision /\ current' \in 0..MaxRevision
  BY <1>2, <1>3
<1>5. Range(copy) \subseteq Free /\ Free \subseteq Lines /\ Moving \subseteq Lines
  BY DEF Injection, Range, Free, Moving, OfRevision
<1>6. ASSUME NEW l \in Range(copy)
      PROVE  AntiFunction(copy)[l] \in Lines
  <2>1. PICK k \in LiveQuoted(current) : copy[k] = l
    BY DEF Injection, Range
  <2>2. DOMAIN copy = LiveQuoted(current) /\ LiveQuoted(current) \subseteq Lines
    BY DEF Injection, LiveQuoted, Quoted, OfRevision
  <2>3. AntiFunction(copy)[l] = CHOOSE j \in LiveQuoted(current) : l \in Range(copy) => copy[j] = l
    BY <2>2 DEF AntiFunction, Inverse
  <2>4. AntiFunction(copy)[l] \in LiveQuoted(current)
    BY <2>1, <2>3
  <2>5. QED
    BY <2>2, <2>4
<1>7. ASSUME NEW l \in Range(copy)
      PROVE  /\ lines'[l] \in Rows /\ lines'[l].rev = current + 1 /\ ~lines'[l].sourced
             /\ lines[l].rev = 0 /\ ~lines[l].sourced
  <2>1. l \in Lines /\ lines[l].rev = 0 /\ ~lines[l].sourced
    BY <1>5, LinesOfTheRevision DEF Free
  <2>2. PICK k \in Lines : lines'[l] = Row(current + 1, lines[k].amount, k)
    BY <1>1, <1>6, <2>1 DEF Copied
  <2>3. lines[k].amount \in Nat
    BY <1>3 DEF Rows
  <2>4. lines'[l] \in Rows
    BY <1>2, <1>4, <2>2, <2>3, RowsHaveType
  <2>5. QED
    BY <2>1, <2>2, <2>4 DEF Row
<1>8. ASSUME NEW l \in Moving
      PROVE  /\ lines'[l] \in Rows
             /\ RuleRowRight(lines'[l], current + 1)
             /\ lines'[l].sourced /\ lines'[l].touched = lines[l].touched
             /\ lines'[l].archived = lines[l].archived
             /\ lines[l].rev = current
  <2>1. l \in Lines /\ lines[l].sourced /\ lines[l].rev = current
    BY DEF Moving, OfRevision, RuleLines
  <2>2. lines'[l] = Moved(l)
    BY <1>1, <1>7, <2>1
  <2>3. /\ lines[l] \in Rows /\ lines[l].version \in Nat /\ lines[l].version + 1 \in Nat
        /\ RuleRowRight(lines[l], current)
    BY <2>1, LinesOfTheRevision
  <2>4. lines[l].synced \in Nat
    BY <2>3 DEF Rows
  <2>5. CASE HandEdited(l)
    <3>1. lines'[l] = [lines[l] EXCEPT !.rev = current + 1, !.version = lines[l].version + 1, !.synced = lines[l].synced]
      BY <2>2, <2>5 DEF Moved
    <3>2. lines'[l] \in Rows
      BY <1>2, <1>4, <2>3, <3>1 DEF Rows
    <3>3. QED
      BY <2>1, <2>3, <2>4, <2>5, <3>1, <3>2 DEF RuleRowRight, HandEdited, Rows
  <2>6. CASE ~HandEdited(l)
    <3>1. lines'[l] = [lines[l] EXCEPT !.rev = current + 1, !.version = lines[l].version + 1, !.synced = lines[l].version + 1]
      BY <2>2, <2>6 DEF Moved
    <3>2. lines'[l] \in Rows
      BY <1>2, <1>4, <2>3, <3>1 DEF Rows
    <3>3. QED
      BY <2>1, <2>3, <2>4, <2>6, <3>1, <3>2 DEF RuleRowRight, HandEdited, Rows
  <2>7. QED
    BY <2>5, <2>6
<1>9. \A l \in Lines : l \notin Range(copy) /\ l \notin Moving => lines'[l] = lines[l] /\ ~lines[l].sourced
  BY <1>1, LinesOfTheRevision DEF Moving, OfRevision, RuleLines, RuleRowRight
<1>10. LinesHaveType'
  <2>1. \A l \in Lines : lines'[l] \in Rows
    BY <1>3, <1>7, <1>8, <1>9
  <2>2. lines' \in [Lines -> Rows]
    BY <1>1, <2>1
  <2>3. QED
    BY <1>4, <2>2 DEF LinesHaveType
<1>11. LinesAreRight'
  <2>1. ASSUME NEW l \in Lines
        PROVE  lines'[l].rev <= current + 1 /\ (lines'[l].sourced => RuleRowRight(lines'[l], current + 1))
    <3>1. lines[l].rev <= current /\ lines[l].rev \in Int
      BY <1>3 DEF LinesInv, LinesAreRight, Rows
    <3>2. CASE l \in Range(copy)
      BY <1>3, <1>7, <3>2
    <3>3. CASE l \in Moving
      BY <1>3, <1>8, <3>3 DEF RuleRowRight
    <3>4. CASE l \notin Range(copy) /\ l \notin Moving
      BY <1>3, <1>9, <3>1, <3>4
    <3>5. QED
      BY <3>2, <3>3, <3>4
  <2>2. QED
    BY <1>2, <2>1 DEF LinesAreRight, RuleRowRight
<1>12. \A l \in LiveRuleLines' : l \in LiveRuleLines /\ lines'[l].touched = lines[l].touched
  BY <1>7, <1>8, <1>9 DEF LiveRuleLines, RuleLines, Moving
<1>13. OneLiveLine' /\ RuleLineIsPaid'
  BY <1>2, <1>12 DEF LinesInv, OneLiveLine, RuleLineIsPaid
<1>14. ScreenIsOlder'
  <2>1. \A x \in screen.basis : x.id \in Lines /\ lines'[x.id] = lines[x.id]
    BY <1>7, <1>9 DEF LinesInv, ScreenIsOlder, SeenRow, Moving, RuleLines
  <2>2. QED
    BY <1>2, <2>1 DEF LinesInv, ScreenIsOlder, SeenRow
<1>15. RulesStay /\ PastStands
  <2>1. RulesStay
    BY <1>7, <1>8, <1>9 DEF RulesStay
  <2>2. PastStands
    BY <1>3, <1>7, <1>8, <1>9 DEF PastStands
  <2>3. QED
    BY <2>1, <2>2
<1>16. QED
  BY <1>2, <1>10, <1>11, <1>13, <1>14, <1>15 DEF LinesInv, PageIsOfRevision, BuriedMoves

\* The PM opens the quote: nothing is read of it yet.
LEMMA OpenQuoteKeepsInv ==
    ASSUME LinesInv, OpenQuote
    PROVE  LinesInv' /\ RulesStay /\ PastStands /\ UNCHANGED payment /\ BuriedMoves
<1>1. /\ UNCHANGED <<current, lines, payment, buried>>
      /\ screen'.basis = {} /\ screen'.rev = current /\ current # 0
  BY DEF OpenQuote, NothingSeen, LinesInv, LinesHaveType
<1>2. LinesHaveType' /\ LinesAreRight' /\ OneLiveLine' /\ RuleLineIsPaid'
  BY <1>1 DEF LinesInv, LinesHaveType, LinesAreRight, OneLiveLine, RuleLineIsPaid, LiveRuleLines, RuleLines
<1>3. QED
  BY <1>1, <1>2 DEF LinesInv, ScreenIsOlder, PageIsOfRevision, RulesStay, PastStands, BuriedMoves

\* A read of the page comes back.
LEMMA ReadOnKeepsInv ==
    ASSUME LinesInv, NEW part, ReadOn(part)
    PROVE  LinesInv' /\ RulesStay /\ PastStands /\ UNCHANGED payment /\ BuriedMoves
<1>1. /\ UNCHANGED <<current, lines, payment, buried>>
      /\ screen.rev # 0
      /\ screen'.rev = screen.rev
      /\ screen'.basis \in {screen.basis, Shown(screen.rev)}
  BY DEF ReadOn, LinesInv, PageIsOfRevision
<1>2. LinesHaveType' /\ LinesAreRight' /\ OneLiveLine' /\ RuleLineIsPaid'
  BY <1>1 DEF LinesInv, LinesHaveType, LinesAreRight, OneLiveLine, RuleLineIsPaid, LiveRuleLines, RuleLines
<1>3. ASSUME NEW x \in Shown(screen.rev)
      PROVE  SeenRow(x)
  <2>1. PICK l \in Quoted(screen.rev) : x = [id |-> l, version |-> lines[l].version, archived |-> lines[l].archived,
                                             amount |-> lines[l].amount]
    BY DEF Shown
  <2>2. l \in Lines /\ lines[l].rev = screen.rev /\ ~lines[l].sourced
    BY DEF Quoted, OfRevision
  <2>3. lines[l].version \in Nat
    BY <2>2 DEF LinesInv, LinesHaveType, Rows
  <2>4. QED
    BY <1>1, <2>1, <2>2, <2>3 DEF SeenRow
<1>4. ScreenIsOlder' /\ PageIsOfRevision'
  BY <1>1, <1>3 DEF ScreenIsOlder, SeenRow, PageIsOfRevision, LinesInv
<1>5. QED
  BY <1>1, <1>2, <1>4 DEF LinesInv, RulesStay, PastStands, BuriedMoves

\* The customer's approval; the page is drawn again.
LEMMA ApproveKeepsInv ==
    ASSUME LinesInv, Approve
    PROVE  LinesInv' /\ RulesStay /\ PastStands /\ UNCHANGED payment /\ BuriedMoves
<1>1. UNCHANGED <<current, lines, payment, buried>> /\ screen'.basis = {} /\ screen'.left = {}
  BY DEF Approve, NothingSeen
<1>2. LinesHaveType' /\ LinesAreRight' /\ OneLiveLine' /\ RuleLineIsPaid'
  BY <1>1 DEF LinesInv, LinesHaveType, LinesAreRight, OneLiveLine, RuleLineIsPaid, LiveRuleLines, RuleLines
<1>3. QED
  BY <1>1, <1>2 DEF LinesInv, ScreenIsOlder, PageIsOfRevision, RulesStay, PastStands, BuriedMoves

\* Payment and cancellation.
LEMMA PaymentKeepsInv ==
    ASSUME IInv, (\E tax \in Taxes : Pay(tax)) \/ CancelPayment
    PROVE  LinesInv' /\ RulesStay /\ PastStands /\ HandsStay /\ BuriedMoves
<1>1. CASE CancelPayment
  BY <1>1, RuleArchivesKeepsInv DEF CancelPayment, IInv
<1>2. ASSUME NEW tax \in Taxes, Pay(tax)
      PROVE  LinesInv' /\ RulesStay /\ PastStands /\ HandsStay /\ BuriedMoves
  <2>1. payment'.live /\ UNCHANGED <<current, screen>> /\ SyncTaxAdjustmentLine(tax) /\ tax \in Nat
    BY <1>2, TaxesAreNumbers DEF Pay
  <2>2. RuleArchives \/ RuleUpdates(tax) \/ RuleInserts(tax)
    BY <2>1 DEF SyncTaxAdjustmentLine
  <2>3. QED
    BY <2>1, <2>2, RuleArchivesKeepsInv, RuleUpdatesKeepsInv, RuleInsertsKeepsInv DEF IInv
<1>3. QED
  BY <1>1, <1>2

\* A step of Next, or a stutter.
LEMMA StepKeepsLines ==
    ASSUME IInv, [Next]_vars
    PROVE  /\ LinesInv' /\ RulesStay /\ PastStands /\ BuriedMoves
           /\ payment' # payment => HandsStay
<1>1. ASSUME UNCHANGED <<current, lines, buried, payment, screen>>
      PROVE  LinesInv' /\ RulesStay /\ PastStands /\ BuriedMoves
  BY <1>1, NoLinesKeepInv DEF IInv, BuriedMoves
<1>2. CASE Disapprove \/ ChangeStatus \/ PickLine \/ (\E gateOn \in GateSettings : Submit(gateOn)) \/ Decide \/ Close \/ UNCHANGED vars
  <2>1. UNCHANGED <<current, lines, buried, payment, screen>>
    BY <1>2 DEF Disapprove, ChangeStatus, PickLine, Submit, Decide, Close, vars
  <2>2. QED
    BY <1>1, <2>1
<1>3. CASE Save \/ Restore \/ CreateRevision \/ OpenQuote \/ (\E part \in Reads : ReadOn(part)) \/ Approve
  BY <1>3, SaveKeepsInv, RestoreKeepsInv, RevisionKeepsInv, OpenQuoteKeepsInv, ReadOnKeepsInv, ApproveKeepsInv DEF IInv
<1>4. CASE (\E tax \in Taxes : Pay(tax)) \/ CancelPayment
  BY <1>4, PaymentKeepsInv
<1>5. QED
  BY <1>2, <1>3, <1>4 DEF Next

LEMMA StepKeepsInv == IInv /\ [Next]_vars => IInv'
<1> SUFFICES ASSUME IInv, [Next]_vars PROVE IInv'
  OBVIOUS
<1>1. LinesInv' /\ RulesStay /\ BuriedMoves
  BY StepKeepsLines
<1>2. buried \in Seq(Lines) /\ \A n \in DOMAIN buried : lines[buried[n]].sourced
  BY DEF IInv, BuriedAreRules
<1>3. buried' \in Seq(Lines) /\ \A n \in DOMAIN buried' : lines[buried'[n]].sourced
  <2>1. ASSUME NEW l \in RuleLines, buried' = Append(buried, l)
        PROVE  buried' \in Seq(Lines) /\ \A n \in DOMAIN buried' : lines[buried'[n]].sourced
    BY <1>2, <2>1 DEF RuleLines
  <2>2. ASSUME NEW n \in DOMAIN buried, buried' = BuriedBut(n)
        PROVE  buried' \in Seq(Lines) /\ \A m \in DOMAIN buried' : lines[buried'[m]].sourced
    <3>1. Len(buried) \in Nat /\ Len(buried) >= 1 /\ n \in 1..Len(buried) /\ DOMAIN buried = 1..Len(buried)
      BY <1>2, <2>2
    <3>2. /\ DOMAIN buried' = 1..(Len(buried) - 1)
          /\ \A m \in 1..(Len(buried) - 1) : buried'[m] = buried[m] \/ buried'[m] = buried[m + 1]
      BY <2>2 DEF BuriedBut
    <3>3. \A m \in 1..(Len(buried) - 1) : m \in DOMAIN buried /\ m + 1 \in DOMAIN buried
      BY <3>1
    <3>4. \A m \in 1..(Len(buried) - 1) : buried'[m] \in Lines /\ lines[buried'[m]].sourced
      BY <1>2, <3>2, <3>3
    <3>5. buried' \in [1..(Len(buried) - 1) -> Lines]
      BY <2>2, <3>2, <3>4 DEF BuriedBut
    <3>6. Len(buried) - 1 \in Nat
      BY <3>1
    <3>7. QED
      BY <3>2, <3>4, <3>5, <3>6
  <2>3. QED
    BY <1>1, <1>2, <2>1, <2>2 DEF BuriedMoves
<1>4. BuriedAreRules'
  BY <1>1, <1>3 DEF BuriedAreRules, RulesStay
<1>5. QED
  BY <1>1, <1>4 DEF IInv

-----------------------------------------------------------------------------
(* The approved total, and the line under a document.                      *)

\* A line was copied from a line of an earlier revision, which the rule never
\* wrote.
SourcesAreOlder ==
    \A k \in Lines :
        /\ lines[k].rev = 0 => lines[k].from = NoLine
        /\ lines[k].from \in Lines =>
              /\ lines[lines[k].from].rev \in 1..(lines[k].rev - 1)
              /\ ~lines[lines[k].from].sourced

\* No revision is approved before there is one, and the total of an approved
\* one is the total approved.
ApprovalsStand ==
    /\ DOMAIN approval = 1..MaxRevision
    /\ \A r \in 1..MaxRevision : Approved(r) => r <= current /\ Total(r) = approval[r].total

\* A document in review or approved was submitted in a revision.
DocIsRight ==
    /\ doc \in [state : {"draft", "in_review", "approved", "returned", "closed"},
                line : Lines \cup {NoLine}, amount : Nat, rev : 0..MaxRevision,
                gated : BOOLEAN]
    /\ doc.state \in {"in_review", "approved"} => doc.rev # 0

QuoteInv == SourcesAreOlder /\ ApprovalsStand /\ DocIsRight /\ LinkedDocumentStands

PriceOf(row, r) == IF row.rev = r /\ ~row.archived /\ ~row.sourced THEN row.amount ELSE 0

\* What may become of a row of the quote in its revision: under an approval
\* it keeps its price, under a document its amount, and it stays.
QuoteMove(l, row) ==
    /\ ~lines[l].sourced /\ ~row.sourced
    /\ lines[l].rev \in {0, current} /\ row.rev = current
    /\ row.from = lines[l].from
    /\ Approved(current) => PriceOf(row, current) = PriceOf(lines[l], current)
    /\ l \in LiveQuoted(current) /\ Linked(l) => row.amount = lines[l].amount /\ ~row.archived

\* What may become of a row the rule writes.
RuleMove(l, row) ==
    /\ lines[l].sourced \/ lines[l].rev = 0
    /\ row.sourced
    /\ row.from = lines[l].from

\* A row of the next revision.
CopyMove(l, row) ==
    /\ lines[l].rev = 0 /\ ~lines[l].sourced
    /\ current' = current + 1
    /\ \E k \in LiveQuoted(current) : row = Copied(k)

RowMoves ==
    \A l \in Lines :
        \/ lines'[l] = lines[l]
        \/ current' = current /\ QuoteMove(l, lines'[l])
        \/ RuleMove(l, lines'[l])
        \/ CopyMove(l, lines'[l])

\* Every line of the quote is in the next revision.
CarriedOver ==
    \/ current' = current
    \/ /\ current' = current + 1
       /\ \A k \in LiveQuoted(current) : \E l \in Lines : lines'[l] = Copied(k)

LEMMA NoRowMoves ==
    ASSUME UNCHANGED <<current, lines>>
    PROVE  RowMoves /\ CarriedOver
  BY DEF RowMoves, CarriedOver

LEMMA OneRowMoves ==
    ASSUME LinesInv, NEW l \in Lines, NEW row, Rewrites(l, row), UNCHANGED current,
           QuoteMove(l, row) \/ RuleMove(l, row)
    PROVE  RowMoves /\ CarriedOver
<1>1. lines'[l] = row /\ \A k \in Lines \ {l} : lines'[k] = lines[k]
  BY DEF LinesInv, LinesHaveType, Rewrites
<1>2. QED
  BY <1>1 DEF RowMoves, CarriedOver

LEMMA SaveMoves ==
    ASSUME LinesInv, SourcesAreOlder, Save
    PROVE  RowMoves /\ CarriedOver
<1>1. ASSUME NEW l \in Free, NEW amount \in Amounts, AddLine(l, amount)
      PROVE  RowMoves /\ CarriedOver
  <2> DEFINE row == Row(current, amount, NoLine)
  <2>1. /\ l \in Lines /\ lines[l].rev = 0 /\ ~lines[l].sourced /\ lines[l].from = NoLine
        /\ current # 0
    BY LinesOfTheRevision DEF Free, SourcesAreOlder
  <2>2. Approved(current) => amount = 0
    BY <1>1 DEF AddLine, MayAdd
  <2>3. QuoteMove(l, row)
    BY <2>1, <2>2 DEF QuoteMove, PriceOf, Row, LiveQuoted, Quoted, OfRevision
  <2>4. Rewrites(l, row) /\ UNCHANGED current
    BY <1>1 DEF AddLine
  <2> HIDE DEF row
  <2>5. QED
    BY <2>1, <2>3, <2>4, OneRowMoves
<1>2. ASSUME NEW l \in Editable, NEW amount \in Amounts, EditLine(l, amount)
      PROVE  RowMoves /\ CarriedOver
  <2> DEFINE row == [lines[l] EXCEPT !.amount = amount, !.version = lines[l].version + 1]
  <2>1. l \in Lines /\ lines[l].rev = current /\ ~lines[l].sourced
    BY <1>2 DEF Editable, Live, OfRevision, EditLine
  <2>2. /\ row.sourced = lines[l].sourced /\ row.rev = lines[l].rev /\ row.from = lines[l].from
        /\ row.amount = amount /\ row.archived = lines[l].archived
    BY <2>1, LinesOfTheRevision DEF Rows
  <2>3. amount = lines[l].amount \/ (~Approved(current) /\ ~Linked(l))
    BY <1>2 DEF EditLine, MayEdit
  <2>4. Rewrites(l, row) /\ UNCHANGED current
    BY <1>2 DEF EditLine
  <2> HIDE DEF row
  <2>5. QuoteMove(l, row)
    BY <2>1, <2>2, <2>3 DEF QuoteMove, PriceOf, LiveQuoted, Live
  <2>6. QED
    BY <2>1, <2>4, <2>5, OneRowMoves
<1>3. ASSUME NEW l \in Editable, ArchiveLine(l)
      PROVE  RowMoves /\ CarriedOver
  <2> DEFINE row == [lines[l] EXCEPT !.archived = TRUE, !.version = HumanArchiveVersion(l)]
  <2>1. l \in Lines /\ lines[l].rev = current /\ ~lines[l].sourced
    BY <1>3 DEF Editable, Live, OfRevision, ArchiveLine
  <2>2. /\ row.sourced = lines[l].sourced /\ row.rev = lines[l].rev /\ row.from = lines[l].from
        /\ row.archived
    BY <2>1, LinesOfTheRevision DEF Rows
  <2>3. ~Linked(l) /\ (Approved(current) => lines[l].amount = 0)
    BY <1>3 DEF ArchiveLine, MayArchive
  <2>4. Rewrites(l, row) /\ UNCHANGED current
    BY <1>3 DEF ArchiveLine
  <2> HIDE DEF row
  <2>5. QuoteMove(l, row)
    BY <2>1, <2>2, <2>3 DEF QuoteMove, PriceOf
  <2>6. QED
    BY <2>1, <2>4, <2>5, OneRowMoves
<1>4. ASSUME NEW l \in Editable, EditRuleLine(l)
      PROVE  RowMoves /\ CarriedOver
  <2> DEFINE row == [lines[l] EXCEPT !.version = lines[l].version + 1, !.touched = TRUE]
  <2>1. l \in Lines /\ lines[l].sourced
    BY <1>4 DEF Editable, Live, OfRevision, EditRuleLine
  <2>2. RuleMove(l, row)
    BY <2>1, LinesOfTheRevision DEF RuleMove, Rows
  <2>3. Rewrites(l, row) /\ UNCHANGED current
    BY <1>4 DEF EditRuleLine
  <2> HIDE DEF row
  <2>4. QED
    BY <2>1, <2>2, <2>3, OneRowMoves
<1>5. ASSUME NEW l \in Editable, ArchiveRuleLine(l)
      PROVE  RowMoves /\ CarriedOver
  <2> DEFINE row == [lines[l] EXCEPT !.archived = TRUE, !.touched = TRUE, !.version = HumanArchiveVersion(l)]
  <2>1. l \in Lines /\ lines[l].sourced
    BY <1>5 DEF Editable, Live, OfRevision, ArchiveRuleLine
  <2>2. RuleMove(l, row)
    BY <2>1, LinesOfTheRevision DEF RuleMove, Rows
  <2>3. Rewrites(l, row) /\ UNCHANGED current
    BY <1>5 DEF ArchiveRuleLine
  <2> HIDE DEF row
  <2>4. QED
    BY <2>1, <2>2, <2>3, OneRowMoves
<1>6. QED
  BY <1>1, <1>2, <1>3, <1>4, <1>5 DEF Save

LEMMA RestoreMoves ==
    ASSUME LinesInv, Restore
    PROVE  RowMoves /\ CarriedOver
<1>1. PICK l \in Restorable : RestoreLine(l) \/ RestoreRuleLine(l)
  BY DEF Restore
<1> DEFINE row == [lines[l] EXCEPT !.archived = FALSE]
<1>2. l \in Lines /\ lines[l].rev = current /\ l \notin Live(current)
  BY DEF Restorable, OfRevision
<1>3. /\ row.rev = lines[l].rev /\ row.sourced = lines[l].sourced /\ row.from = lines[l].from
      /\ row.amount = lines[l].amount /\ ~row.archived
  BY <1>2, LinesOfTheRevision DEF Rows
<1>4. Rewrites(l, row) /\ UNCHANGED current
  BY <1>1 DEF RestoreLine, RestoreRuleLine
<1>5. lines[l].sourced \/ (Approved(current) => lines[l].amount = 0)
  BY <1>1 DEF RestoreLine, RestoreRuleLine, MayAdd
<1> HIDE DEF row
<1>6. QuoteMove(l, row) \/ RuleMove(l, row)
  <2>1. lines[l].archived /\ l \notin LiveQuoted(current)
    BY <1>2 DEF Live, OfRevision, LiveQuoted
  <2>2. QED
    BY <1>2, <1>3, <1>5, <2>1 DEF QuoteMove, RuleMove, PriceOf
<1>7. QED
  BY <1>2, <1>4, <1>6, OneRowMoves

LEMMA RevisionMoves ==
    ASSUME LinesInv, CreateRevision
    PROVE  RowMoves /\ CarriedOver
<1>1. PICK copy \in Injection(LiveQuoted(current), Free) :
        lines' = [l \in Lines |->
                    IF l \in Range(copy) THEN Copied(AntiFunction(copy)[l])
                    ELSE IF l \in Moving THEN Moved(l)
                    ELSE lines[l]]
  BY DEF CreateRevision
<1>2. current' = current + 1
  BY DEF CreateRevision
<1>3. /\ DOMAIN copy = LiveQuoted(current)
      /\ copy \in [LiveQuoted(current) -> Free]
      /\ \A j, k \in LiveQuoted(current) : copy[j] = copy[k] => j = k
  BY DEF Injection, IsInjective
<1>4. ASSUME NEW k \in LiveQuoted(current)
      PROVE  copy[k] \in Range(copy) /\ copy[k] \in Lines /\ AntiFunction(copy)[copy[k]] = k
  <2>1. copy[k] \in Range(copy) /\ copy[k] \in Free /\ copy[k] \in Lines
    BY <1>3 DEF Range, Free
  <2>2. AntiFunction(copy)[copy[k]] = CHOOSE j \in LiveQuoted(current) : copy[k] \in Range(copy) => copy[j] = copy[k]
    BY <1>3, <2>1 DEF AntiFunction, Inverse
  <2>3. QED
    BY <1>3, <2>1, <2>2
<1>5. \A l \in Range(copy) : \E k \in LiveQuoted(current) : l = copy[k]
  BY <1>3 DEF Range
<1>6. \A k \in LiveQuoted(current) : lines'[copy[k]] = Copied(k)
  BY <1>1, <1>4
<1>7. CarriedOver
  BY <1>2, <1>4, <1>6 DEF CarriedOver
<1>8. ASSUME NEW l \in Lines
      PROVE  \/ lines'[l] = lines[l]
             \/ RuleMove(l, lines'[l])
             \/ CopyMove(l, lines'[l])
  <2>1. CASE l \in Range(copy)
    <3>1. PICK k \in LiveQuoted(current) : l = copy[k]
      BY <1>5, <2>1
    <3>2. l \in Free
      BY <1>3, <3>1
    <3>3. lines[l].rev = 0 /\ ~lines[l].sourced
      BY <3>2, LinesOfTheRevision DEF Free
    <3>4. QED
      BY <1>2, <1>6, <3>1, <3>3 DEF CopyMove
  <2>2. CASE l \notin Range(copy) /\ l \in Moving
    <3>1. lines'[l] = Moved(l)
      BY <1>1, <2>2
    <3>2. lines[l].sourced /\ lines[l] \in Rows
      BY <2>2, LinesOfTheRevision DEF Moving, RuleLines
    <3>3. Moved(l).sourced = lines[l].sourced /\ Moved(l).from = lines[l].from
      BY <3>2 DEF Moved, Rows
    <3>4. QED
      BY <3>1, <3>2, <3>3 DEF RuleMove
  <2>3. CASE l \notin Range(copy) /\ l \notin Moving
    BY <1>1, <2>3
  <2>4. QED
    BY <2>1, <2>2, <2>3
<1>9. QED
  BY <1>7, <1>8 DEF RowMoves

LEMMA RuleMoves ==
    ASSUME LinesInv, SourcesAreOlder, UNCHANGED current,
           RuleArchives \/ (\E tax \in Nat : RuleUpdates(tax) \/ RuleInserts(tax))
    PROVE  RowMoves /\ CarriedOver
<1>1. CASE RuleArchives \/ (\E tax \in Nat : RuleUpdates(tax))
  <2>1. ASSUME NEW l \in Lines
        PROVE  lines'[l] = lines[l] \/ RuleMove(l, lines'[l])
    <3>1. lines[l] \in Rows
      BY LinesOfTheRevision
    <3>2. CASE RuleArchives
      BY <3>1, <3>2 DEF RuleArchives, RuleMove, LiveRuleLines, RuleLines, Rows
    <3>3. ASSUME NEW tax \in Nat, RuleUpdates(tax)
          PROVE  lines'[l] = lines[l] \/ RuleMove(l, lines'[l])
      BY <3>1, <3>3 DEF RuleUpdates, RuleMove, LiveRuleLines, RuleLines, Rows
    <3>4. QED
      BY <1>1, <3>2, <3>3
  <2>2. QED
    BY <2>1 DEF RowMoves, CarriedOver
<1>2. ASSUME NEW tax \in Nat, RuleInserts(tax)
      PROVE  RowMoves /\ CarriedOver
  <2>1. CASE UNCHANGED lines
    BY <2>1, NoRowMoves
  <2>2. ASSUME NEW l \in Free, Rewrites(l, RuleRow(tax))
        PROVE  RowMoves /\ CarriedOver
    <3>1. l \in Lines /\ lines[l].rev = 0 /\ lines[l].from = NoLine
      BY DEF Free, SourcesAreOlder
    <3>2. RuleMove(l, RuleRow(tax))
      BY <3>1 DEF RuleMove, RuleRow, Row
    <3>3. QED
      BY <2>2, <3>1, <3>2, OneRowMoves
  <2>3. QED
    BY <1>2, <2>1, <2>2 DEF RuleInserts
<1>3. QED
  BY <1>1, <1>2

LEMMA StepMovesRows ==
    ASSUME IInv, SourcesAreOlder, [Next]_vars
    PROVE  RowMoves /\ CarriedOver
<1>1. CASE Save \/ Restore \/ CreateRevision
  BY <1>1, SaveMoves, RestoreMoves, RevisionMoves DEF IInv
<1>2. CASE (\E tax \in Taxes : Pay(tax)) \/ CancelPayment
  <2>1. UNCHANGED current
    BY <1>2 DEF Pay, CancelPayment
  <2>2. RuleArchives \/ (\E tax \in Nat : RuleUpdates(tax) \/ RuleInserts(tax))
    BY <1>2, TaxesAreNumbers DEF Pay, CancelPayment, SyncTaxAdjustmentLine
  <2>3. QED
    BY <2>1, <2>2, RuleMoves DEF IInv
<1>3. CASE \/ OpenQuote \/ (\E part \in Reads : ReadOn(part)) \/ Approve \/ Disapprove \/ ChangeStatus \/ PickLine
           \/ (\E gateOn \in GateSettings : Submit(gateOn)) \/ Decide \/ Close \/ UNCHANGED vars
  <2>1. UNCHANGED <<current, lines>>
    BY <1>3 DEF OpenQuote, ReadOn, Approve, Disapprove, ChangeStatus, PickLine, Submit, Decide, Close, vars
  <2>2. QED
    BY <2>1, NoRowMoves
<1>4. QED
  BY <1>1, <1>2, <1>3 DEF Next

\* The line a line was copied from stays as it is.
LEMMA SourcesStay ==
    ASSUME IInv, SourcesAreOlder, RowMoves, PastStands, NEW k \in Lines, NEW j \in Lines,
           j = lines[k].from
    PROVE  /\ lines'[k].from = j /\ lines'[j] = lines[j]
           /\ lines[j].rev # 0 /\ lines[j].rev < lines[k].rev /\ ~lines[j].sourced
<1>1. /\ current \in Nat /\ lines[k].rev \in Nat /\ lines[j].rev \in Nat
      /\ lines[k].rev <= current
  BY LinesOfTheRevision DEF IInv, LinesInv, LinesAreRight, Rows
<1>2. lines[j].rev # 0 /\ lines[j].rev < lines[k].rev /\ ~lines[j].sourced
  BY <1>1 DEF SourcesAreOlder
<1>3. lines'[j] = lines[j]
  BY <1>1, <1>2 DEF PastStands
<1>4. lines[k].rev # 0
  BY <1>1, <1>2
<1>5. lines'[k].from = j
  BY <1>4 DEF RowMoves, QuoteMove, RuleMove, CopyMove
<1>6. QED
  BY <1>2, <1>3, <1>5

LEMMA StepKeepsSources ==
    ASSUME IInv, IInv', SourcesAreOlder, RowMoves, CarriedOver, PastStands
    PROVE  SourcesAreOlder'
<1>1. /\ current \in Nat /\ current' \in Nat /\ current >= 1 /\ current <= current'
      /\ NoLine \notin Lines
  BY NoLineIsNoLine DEF IInv, LinesInv, LinesHaveType, CarriedOver
<1>2. \A l \in Lines : lines'[l].rev \in Nat /\ lines[l].rev \in Nat /\ lines[l].rev <= current
  BY DEF IInv, LinesInv, LinesHaveType, LinesAreRight, Rows
<1>3. \A l \in Lines : lines'[l].sourced => lines'[l].rev = current'
  BY DEF IInv, LinesInv, LinesAreRight, RuleRowRight
<1>4. \A l \in Lines : lines[l].sourced => lines[l].rev = current
  BY DEF IInv, LinesInv, LinesAreRight, RuleRowRight
<1>5. ASSUME NEW k \in Lines
      PROVE  /\ lines'[k].rev = 0 => lines'[k].from = NoLine
             /\ lines'[k].from \in Lines =>
                   /\ lines'[lines'[k].from].rev \in 1..(lines'[k].rev - 1)
                   /\ ~lines'[lines'[k].from].sourced
  <2>1. CASE lines'[k].from = lines[k].from /\ (lines'[k] = lines[k] \/ lines'[k].rev \in {current, current'})
    <3>1. lines'[k].rev = 0 => lines'[k].from = NoLine
      BY <1>1, <2>1 DEF SourcesAreOlder
    <3>2. ASSUME NEW j \in Lines, j = lines[k].from
          PROVE  lines'[j].rev \in 1..(lines'[k].rev - 1) /\ ~lines'[j].sourced
      <4>1. lines'[j] = lines[j] /\ lines[j].rev # 0 /\ lines[j].rev < lines[k].rev /\ ~lines[j].sourced
        BY <3>2, SourcesStay
      <4>2. lines[k].rev <= lines'[k].rev
        BY <1>1, <1>2, <2>1
      <4>3. QED
        BY <1>2, <4>1, <4>2
    <3>3. QED
      BY <2>1, <3>1, <3>2
  <2>2. CASE CopyMove(k, lines'[k])
    <3>1. PICK j \in LiveQuoted(current) : lines'[k] = Copied(j)
      BY <2>2 DEF CopyMove
    <3>2. j \in Lines /\ lines[j].rev = current /\ ~lines[j].sourced
      BY DEF LiveQuoted, Quoted, OfRevision
    <3>3. lines'[k].rev = current + 1 /\ lines'[k].from = j
      BY <3>1 DEF Copied, Row
    <3>4. current' = current + 1
      BY <2>2 DEF CopyMove
    <3>5. lines'[j] = lines[j]
      BY <1>1, <3>2, <3>4 DEF RowMoves, QuoteMove, RuleMove, CopyMove
    <3>6. QED
      BY <1>1, <3>2, <3>3, <3>5
  <2>3. QED
    BY <1>3, <2>1, <2>2 DEF RowMoves, QuoteMove, RuleMove
<1>6. QED
  BY <1>5 DEF SourcesAreOlder

\* What a revision that is approved adds up to.
LEMMA PricesStand ==
    ASSUME IInv, IInv', RowMoves, NEW r \in 1..MaxRevision, r <= current, Approved(r),
           current' \in {current, current + 1}
    PROVE  Total(r)' = Total(r)
<1>1. current \in Nat /\ r \in Nat /\ r # 0
  BY DEF IInv, LinesInv, LinesHaveType
<1>2. \A l \in Lines : lines[l].sourced => lines[l].rev = current
  BY DEF IInv, LinesInv, LinesAreRight, RuleRowRight
<1>3. ASSUME NEW l \in Lines
      PROVE  PriceOf(lines'[l], r) = PriceOf(lines[l], r)
  <2>1. CASE current' = current /\ QuoteMove(l, lines'[l])
    BY <1>1, <2>1 DEF QuoteMove, PriceOf
  <2>2. CASE RuleMove(l, lines'[l])
    BY <1>1, <2>2 DEF RuleMove, PriceOf
  <2>3. CASE CopyMove(l, lines'[l])
    <3>1. lines'[l].rev = current + 1
      BY <2>3 DEF CopyMove, Copied, Row
    <3>2. QED
      BY <1>1, <2>3, <3>1 DEF CopyMove, PriceOf
  <2>4. QED
    BY <2>1, <2>2, <2>3 DEF RowMoves
<1>4. Priced(r) = [l \in Lines |-> PriceOf(lines[l], r)]
  BY DEF Priced, PriceOf, LiveQuoted, Live, Quoted, OfRevision
<1>5. Priced(r)' = [l \in Lines |-> PriceOf(lines'[l], r)]
  BY DEF Priced, PriceOf, LiveQuoted, Live, Quoted, OfRevision
<1>6. Priced(r)' = Priced(r)
  BY <1>3, <1>4, <1>5
<1>7. QED
  BY <1>6 DEF Total

LEMMA StepKeepsApprovals ==
    ASSUME IInv, IInv', ApprovalsStand, RowMoves, CarriedOver, [Next]_vars
    PROVE  ApprovalsStand'
<1>1. /\ current \in 1..MaxRevision /\ current \in Nat /\ current' \in {current, current + 1}
      /\ DOMAIN approval = 1..MaxRevision
  BY DEF IInv, LinesInv, LinesHaveType, CarriedOver, ApprovalsStand
<1>2. ASSUME NEW r \in 1..MaxRevision, approval'[r] = approval[r], approval[r].on
      PROVE  r <= current' /\ Total(r)' = approval'[r].total
  <2>1. r <= current /\ Approved(r) /\ Total(r) = approval[r].total
    BY <1>2 DEF ApprovalsStand, Approved
  <2>2. QED
    BY <1>1, <1>2, <2>1, PricesStand
<1>3. CASE Approve
  <2>1. /\ UNCHANGED <<current, lines>>
        /\ approval' = [approval EXCEPT ![current] = [on |-> TRUE, total |-> Total(current)]]
    BY <1>3 DEF Approve
  <2>2. approval'[current].total = Total(current) /\ \A r \in (1..MaxRevision) \ {current} : approval'[r] = approval[r]
    BY <1>1, <2>1
  <2>3. Total(current)' = Total(current)
    BY <2>1 DEF Total, Priced, LiveQuoted, Live, Quoted, OfRevision
  <2>4. QED
    BY <1>1, <1>2, <2>1, <2>2, <2>3 DEF ApprovalsStand, Approved
<1>4. CASE Disapprove
  <2>1. approval' = [approval EXCEPT ![current] = NotApproved] /\ ~NotApproved.on
    BY <1>4 DEF Disapprove, NotApproved
  <2>2. ~approval'[current].on /\ \A r \in (1..MaxRevision) \ {current} : approval'[r] = approval[r]
    BY <1>1, <2>1
  <2>3. DOMAIN approval' = 1..MaxRevision
    BY <1>1, <2>1
  <2>4. QED
    BY <1>2, <2>2, <2>3 DEF ApprovalsStand, Approved
<1>5. CASE UNCHANGED approval
  BY <1>2, <1>5 DEF ApprovalsStand, Approved
<1>6. QED
  BY <1>3, <1>4, <1>5 DEF Next, vars, Save, AddLine, EditLine, ArchiveLine, EditRuleLine,
     ArchiveRuleLine, Restore, RestoreLine, RestoreRuleLine, CreateRevision, OpenQuote, ReadOn,
     ChangeStatus, PickLine, Submit, Decide, Close, Pay, CancelPayment

\* What a line continues, it still continues.
LEMMA ChainStays ==
    ASSUME IInv, SourcesAreOlder, RowMoves, PastStands, NEW l, NEW k \in Chain(l)
    PROVE  k \in Chain(l)'
<1> SUFFICES ASSUME NEW S \in SUBSET Lines, l \in S,
                    \A i \in S : \A j \in Lines : j = lines'[i].from /\ ~lines'[j].archived => j \in S
             PROVE  k \in S
  BY DEF Chain, SourcesWithin
<1>1. SourcesWithin(S)
  BY SourcesStay DEF SourcesWithin
<1>2. QED
  BY <1>1 DEF Chain

\* The line that continues the line of the document in the next state.
LEMMA StepCarriesLine ==
    ASSUME IInv, IInv', SourcesAreOlder, RowMoves, CarriedOver, PastStands,
           NEW l \in LiveQuoted(current), doc.line \in Chain(l), OpenDoc
    PROVE  \E k \in LiveQuoted(current)' :
              doc.line \in Chain(k)' /\ lines'[k].amount = lines[l].amount
<1>1. /\ l \in Lines /\ lines[l].rev = current /\ ~lines[l].sourced /\ ~lines[l].archived
      /\ current \in Nat /\ current # 0
  BY DEF LiveQuoted, Live, Quoted, OfRevision, IInv, LinesInv, LinesHaveType
<1>2. Linked(l)
  BY DEF Linked
<1>3. doc.line \in Chain(l)'
  BY ChainStays
<1>4. CASE current' = current
  <2>1. lines'[l] = lines[l] \/ QuoteMove(l, lines'[l])
    BY <1>1, <1>4 DEF RowMoves, RuleMove, CopyMove
  <2>2. l \in LiveQuoted(current)' /\ lines'[l].amount = lines[l].amount
    BY <1>1, <1>2, <1>4, <2>1 DEF QuoteMove, LiveQuoted, Live, Quoted, OfRevision
  <2>3. QED
    BY <1>3, <2>2
<1>5. CASE current' = current + 1 /\ \A k \in LiveQuoted(current) : \E j \in Lines : lines'[j] = Copied(k)
  <2>1. PICK k \in Lines : lines'[k] = Copied(l)
    BY <1>5
  <2>2. /\ lines'[k].rev = current + 1 /\ ~lines'[k].sourced /\ ~lines'[k].archived
        /\ lines'[k].amount = lines[l].amount /\ lines'[k].from = l
    BY <2>1 DEF Copied, Row
  <2>3. k \in LiveQuoted(current)'
    BY <1>5, <2>2 DEF LiveQuoted, Live, Quoted, OfRevision
  <2>4. lines'[l] = lines[l]
    BY <1>1, <1>5 DEF RowMoves, QuoteMove, RuleMove, CopyMove
  <2>5. doc.line \in Chain(k)'
    <3> SUFFICES ASSUME NEW S \in SUBSET Lines, k \in S,
                        \A i \in S : \A j \in Lines : j = lines'[i].from /\ ~lines'[j].archived => j \in S
                 PROVE  doc.line \in S
      BY <1>3 DEF Chain, SourcesWithin
    <3>1. l \in S
      BY <1>1, <2>2, <2>4
    <3>2. QED
      BY <1>3, <3>1 DEF Chain, SourcesWithin
  <2>6. QED
    BY <2>2, <2>3, <2>5
<1>6. QED
  BY <1>4, <1>5 DEF CarriedOver

\* What the document holds.
LEMMA StepKeepsDoc ==
    ASSUME IInv, DocIsRight, [Next]_vars
    PROVE  DocIsRight'
<1> DEFINE docs == [state : {"draft", "in_review", "approved", "returned", "closed"},
                    line : Lines \cup {NoLine}, amount : Nat, rev : 0..MaxRevision,
                    gated : BOOLEAN]
<1>1. doc \in docs /\ (doc.state \in {"in_review", "approved"} => doc.rev # 0)
  BY DEF DocIsRight
<1>2. /\ current \in 0..MaxRevision /\ current # 0 /\ 0 \in 0..MaxRevision
      /\ \A l \in LiveQuoted(current) : l \in Lines /\ lines[l].amount \in Nat
  BY BoundsArePositive DEF IInv, LinesInv, LinesHaveType, LiveQuoted, Quoted, OfRevision, Rows
<1>3. ASSUME NEW gateOn \in GateSettings, Submit(gateOn)
      PROVE  DocIsRight'
  <2>1. /\ gateOn \in BOOLEAN /\ doc.line \in LiveQuoted(current)
        /\ doc' = [doc EXCEPT !.state = "in_review", !.amount = lines[doc.line].amount,
                              !.rev = current, !.gated = gateOn]
    BY <1>3, GateSettingsAreFlags DEF Submit
  <2>2. lines[doc.line].amount \in Nat
    BY <1>2, <2>1
  <2>3. doc' \in docs /\ doc'.rev # 0
    BY <1>1, <1>2, <2>1, <2>2
  <2>4. QED
    BY <2>3 DEF DocIsRight
<1>4. CASE PickLine
  <2>1. PICK l \in Lines : doc' = [doc EXCEPT !.line = l]
    BY <1>4 DEF PickLine
  <2>2. doc' \in docs /\ doc'.state = doc.state /\ doc'.rev = doc.rev
    BY <1>1, <2>1
  <2>3. QED
    BY <1>1, <2>2 DEF DocIsRight
<1>5. CASE Decide \/ Close
  <2>1. CASE doc.state = "in_review" /\ doc' = [doc EXCEPT !.state = "approved"]
    <3>1. doc' \in docs /\ doc'.rev # 0
      BY <1>1, <2>1
    <3>2. QED
      BY <3>1 DEF DocIsRight
  <2>2. CASE doc' = [NoDoc EXCEPT !.state = "returned", !.line = doc.line]
    <3>1. doc' \in docs /\ doc'.state = "returned"
      BY <1>1, <1>2, <2>2 DEF NoDoc
    <3>2. QED
      BY <3>1 DEF DocIsRight
  <2>3. CASE doc' = [doc EXCEPT !.state = "closed"]
    <3>1. doc' \in docs /\ doc'.state = "closed"
      BY <1>1, <2>3
    <3>2. QED
      BY <3>1 DEF DocIsRight
  <2>4. QED
    BY <1>5, <2>1, <2>2, <2>3 DEF Decide, Close
<1>6. CASE UNCHANGED doc
  BY <1>6 DEF DocIsRight
<1>7. QED
  BY <1>3, <1>4, <1>5, <1>6 DEF Next, vars, Save, AddLine, EditLine, ArchiveLine, EditRuleLine,
     ArchiveRuleLine, Restore, RestoreLine, RestoreRuleLine, CreateRevision, OpenQuote, ReadOn, Approve,
     Disapprove, ChangeStatus, Pay, CancelPayment

LEMMA StepKeepsLinked ==
    ASSUME IInv, IInv', SourcesAreOlder, ApprovalsStand, LinkedDocumentStands, DocIsRight,
           RowMoves, CarriedOver, PastStands, [Next]_vars
    PROVE  LinkedDocumentStands'
<1>1. ASSUME NEW gateOn \in GateSettings, Submit(gateOn)
      PROVE  LinkedDocumentStands'
  <2>1. /\ UNCHANGED <<current, lines, approval>> /\ doc.line \in LiveQuoted(current)
        /\ gateOn => Approved(current)
        /\ doc' = [doc EXCEPT !.state = "in_review", !.amount = lines[doc.line].amount,
                              !.rev = current, !.gated = gateOn]
    BY <1>1 DEF Submit
  <2>2. doc'.line = doc.line /\ doc'.amount = lines[doc.line].amount /\ doc'.rev = current /\ doc'.gated = gateOn
    BY <2>1 DEF DocIsRight
  <2>3. PICK l \in LiveQuoted(current) : l = doc.line
    BY <2>1
  <2>4. l \in LiveQuoted(current)' /\ l \in Chain(l)'
    BY <2>1 DEF LiveQuoted, Live, Quoted, OfRevision, Chain
  <2>5. gateOn => approval'[current].on
    BY <2>1 DEF Approved
  <2>6. QED
    BY <2>1, <2>2, <2>3, <2>4, <2>5 DEF LinkedDocumentStands, Approved
<1>2. ASSUME doc.state \in {"in_review", "approved"}, doc'.line = doc.line, doc'.amount = doc.amount,
             doc'.gated = doc.gated, doc'.rev = doc.rev, approval[doc.rev].on => approval'[doc.rev].on
      PROVE  LinkedDocumentStands'
  <2>1. PICK l \in LiveQuoted(current) : doc.line \in Chain(l) /\ lines[l].amount = doc.amount
    BY <1>2 DEF LinkedDocumentStands
  <2>2. OpenDoc
    BY <1>2 DEF OpenDoc
  <2>3. PICK k \in LiveQuoted(current)' : doc.line \in Chain(k)' /\ lines'[k].amount = doc.amount
    BY <2>1, <2>2, StepCarriesLine
  <2>4. doc.gated => approval[doc.rev].on
    BY <1>2 DEF LinkedDocumentStands, Approved
  <2>5. QED
    BY <1>2, <2>3, <2>4 DEF LinkedDocumentStands, Approved
<1>3. CASE ~(doc'.state \in {"in_review", "approved"})
  BY <1>3 DEF LinkedDocumentStands
<1>4. CASE UNCHANGED doc /\ doc.state \in {"in_review", "approved"}
  <2>1. CASE Approve
    <3>1. approval' = [approval EXCEPT ![current] = [on |-> TRUE, total |-> Total(current)]]
      BY <2>1 DEF Approve
    <3>2. DOMAIN approval = 1..MaxRevision /\ doc.rev \in 1..MaxRevision
      BY <1>4, BoundsArePositive DEF ApprovalsStand, DocIsRight
    <3>3. approval[doc.rev].on => approval'[doc.rev].on
      BY <3>1, <3>2
    <3>4. QED
      BY <1>2, <1>4, <3>3
  <2>2. CASE Disapprove
    <3>1. PICK l \in LiveQuoted(current) : doc.line \in Chain(l)
      BY <1>4 DEF LinkedDocumentStands
    <3>2. HasLinkedDocuments
      BY <1>4, <3>1 DEF HasLinkedDocuments, Linked, OpenDoc, LiveQuoted
    <3>3. QED
      BY <2>2, <3>2 DEF Disapprove, MayDisapprove
  <2>3. CASE UNCHANGED approval
    BY <1>2, <1>4, <2>3
  <2>4. QED
    BY <1>4, <2>1, <2>2, <2>3 DEF Next, vars, Save, AddLine, EditLine, ArchiveLine, EditRuleLine,
       ArchiveRuleLine, Restore, RestoreLine, RestoreRuleLine, CreateRevision, OpenQuote, ReadOn,
       ChangeStatus, PickLine, Submit, Decide, Close, Pay, CancelPayment
<1>5. CASE UNCHANGED doc
  BY <1>3, <1>4, <1>5
<1>6. CASE PickLine \/ Close
  <2>1. ~(doc'.state \in {"in_review", "approved"})
    BY <1>6 DEF PickLine, Close, DocIsRight
  <2>2. QED
    BY <1>3, <2>1
<1>7. CASE Decide
  <2>1. CASE doc' = [doc EXCEPT !.state = "approved"]
    <3>1. /\ doc.state \in {"in_review", "approved"} /\ doc'.line = doc.line /\ doc'.amount = doc.amount
          /\ doc'.gated = doc.gated /\ doc'.rev = doc.rev /\ approval' = approval
      BY <1>7, <2>1 DEF Decide, DocIsRight
    <3>2. QED
      BY <1>2, <3>1
  <2>2. CASE doc' = [NoDoc EXCEPT !.state = "returned", !.line = doc.line]
    BY <1>3, <2>2 DEF NoDoc
  <2>3. QED
    BY <1>7, <2>1, <2>2 DEF Decide
<1>8. QED
  BY <1>1, <1>5, <1>6, <1>7 DEF Next, vars, Save, AddLine, EditLine, ArchiveLine, EditRuleLine,
     ArchiveRuleLine, Restore, RestoreLine, RestoreRuleLine, CreateRevision, OpenQuote, ReadOn, Approve,
     Disapprove, ChangeStatus, Pay, CancelPayment

\* The inductive invariant of the approvals and the document.
FullInv == IInv /\ QuoteInv

LEMMA InitFullInv == Init => FullInv
<1> SUFFICES ASSUME Init PROVE QuoteInv
  BY InitInv DEF FullInv
<1>1. \A l \in Lines : lines[l].rev = 0 /\ lines[l].from = NoLine
  <2>1. Unused.rev = 0 /\ Unused.from = NoLine
    BY DEF Unused, Row
  <2>2. QED
    BY <2>1 DEF Init
<1>2. SourcesAreOlder
  BY <1>1, NoLineIsNoLine DEF SourcesAreOlder
<1>3. ApprovalsStand
  BY DEF Init, ApprovalsStand, Approved, NotApproved
<1>4. DocIsRight /\ LinkedDocumentStands
  BY BoundsArePositive DEF Init, NoDoc, DocIsRight, LinkedDocumentStands
<1>5. QED
  BY <1>2, <1>3, <1>4 DEF QuoteInv

LEMMA StepKeepsFullInv == FullInv /\ [Next]_vars => FullInv'
<1> SUFFICES ASSUME FullInv, [Next]_vars PROVE FullInv'
  OBVIOUS
<1>1. IInv /\ SourcesAreOlder /\ ApprovalsStand /\ LinkedDocumentStands /\ DocIsRight
  BY DEF FullInv, QuoteInv
<1>2. IInv'
  BY <1>1, StepKeepsInv
<1>3. PastStands
  BY <1>1, StepKeepsLines
<1>4. RowMoves /\ CarriedOver
  BY <1>1, StepMovesRows
<1>5. SourcesAreOlder'
  BY <1>1, <1>2, <1>3, <1>4, StepKeepsSources
<1>6. ApprovalsStand'
  BY <1>1, <1>2, <1>4, StepKeepsApprovals
<1>7. DocIsRight' /\ LinkedDocumentStands'
  BY <1>1, <1>2, <1>3, <1>4, StepKeepsDoc, StepKeepsLinked
<1>8. QED
  BY <1>2, <1>5, <1>6, <1>7 DEF FullInv, QuoteInv

-----------------------------------------------------------------------------
(* Theorems.                                                               *)

\* The inductive invariant: the rule line, its numbers, and what the PM's
\* page counted.
THEOREM Invariant == Spec => []IInv
<1>1. QED
  BY InitInv, StepKeepsInv, PTL DEF Spec

\* An expense has one live rule line at most, through payments, cancellations,
\* deletions and restores (restorableByHuman).
THEOREM RuleLineIsUnique == Spec => []OneLiveLine
<1>1. IInv => OneLiveLine
  BY DEF IInv, LinesInv
<1>2. QED
  BY <1>1, Invariant, PTL

\* A live rule line that no person has edited belongs to a payment that
\* stands, and every rule line is in the current revision
\* (moveAdjustmentLines, releaseTaxAdjustmentLine).
THEOREM RuleLineIsPaidAndCurrent == Spec => []RuleLineFollowsPayment
<1>1. IInv => RuleLineFollowsPayment
  BY DEF IInv, LinesInv, LinesAreRight, RuleLineIsPaid, RuleLineFollowsPayment, RuleRowRight,
     RuleLines, OfRevision
<1>2. QED
  BY <1>1, Invariant, PTL

\* The two numbers of a rule line tell whether a person has edited or deleted
\* it, whatever happened to it (handEdited).
THEOREM HandsShowInVersions == Spec => []VersionsTellHands
<1>1. ASSUME IInv PROVE VersionsTellHands
  BY <1>1, RuleRowsMove DEF IInv, VersionsTellHands
<1>2. QED
  BY <1>1, Invariant, PTL

\* The lines of a revision no longer change once there is a later one.
THEOREM PastRevisionsAreFixed == Spec => PastRevisionsStand
<1>1. IInv /\ [Next]_vars => [\A l \in Lines : lines[l].rev \in 1..(current - 1) => lines'[l] = lines[l]]_vars
  BY StepKeepsLines DEF PastStands
<1>2. QED
  BY <1>1, Invariant, PTL DEF Spec, PastRevisionsStand

\* Paying and cancelling leave alone what a person has edited, and do not
\* write again what a person has deleted (syncTaxAdjustmentLine).
THEOREM RuleRespectsHands == Spec => RuleLeavesHandsAlone
<1>1. IInv /\ [Next]_vars =>
        [payment' # payment =>
            /\ \A l \in RuleLines : lines[l].touched => lines'[l] = lines[l]
            /\ LiveRuleLines = {} /\ buried # <<>> /\ lines[LastBuried].touched
                  => lines' = lines]_vars
  BY StepKeepsLines DEF HandsStay
<1>2. QED
  BY <1>1, Invariant, PTL DEF Spec, RuleLeavesHandsAlone

\* What the customer is recorded to have agreed to is what the summary on the
\* PM's page counted, however old the page: a line that looks the same to the
\* token has the same amount (setCustomerApproval).
THEOREM ApprovalIsOfWhatWasCounted == Spec => ApprovedWhatWasCounted
<1>1. ASSUME IInv, [Next]_vars, NEW r \in 1..MaxRevision, ~approval[r].on, approval'[r].on
      PROVE  screen.rev = r /\ Content(screen.basis) = Content(Shown(r))
  <2>1. Approve
    <3>1. UNCHANGED approval => FALSE
      BY <1>1
    <3>2. ASSUME Disapprove PROVE FALSE
      BY <1>1, <3>2 DEF Disapprove, NotApproved
    <3>3. QED
      BY <1>1, <3>1, <3>2 DEF Next, vars, Save, AddLine, EditLine, ArchiveLine, EditRuleLine,
         ArchiveRuleLine, Restore, RestoreLine, RestoreRuleLine, CreateRevision, OpenQuote, ReadOn,
         ChangeStatus, PickLine, Submit, Decide, Close, Pay, CancelPayment
  <2>2. r = current
    BY <1>1, <2>1 DEF Approve
  <2>3. screen.rev = r /\ ContentToken(screen.basis) = ContentToken(Shown(r))
    BY <2>1, <2>2 DEF Approve
  <2>4. \A x \in screen.basis : SeenRow(x)
    BY <1>1 DEF IInv, LinesInv, ScreenIsOlder
  <2>5. ASSUME NEW y \in Shown(r)
        PROVE  y.version = lines[y.id].version /\ y.amount = lines[y.id].amount
    BY DEF Shown
  <2>6. ASSUME NEW x \in screen.basis
        PROVE  \E y \in Shown(r) : y.id = x.id /\ y.archived = x.archived /\ y.amount = x.amount
    <3>1. <<x.id, x.version, x.archived>> \in ContentToken(Shown(r))
      BY <2>3 DEF ContentToken
    <3>2. PICK y \in Shown(r) : <<y.id, y.version, y.archived>> = <<x.id, x.version, x.archived>>
      BY <3>1 DEF ContentToken
    <3>3. QED
      BY <2>4, <2>5, <3>2 DEF SeenRow
  <2>7. ASSUME NEW y \in Shown(r)
        PROVE  \E x \in screen.basis : y.id = x.id /\ y.archived = x.archived /\ y.amount = x.amount
    <3>1. <<y.id, y.version, y.archived>> \in ContentToken(screen.basis)
      BY <2>3 DEF ContentToken
    <3>2. PICK x \in screen.basis : <<y.id, y.version, y.archived>> = <<x.id, x.version, x.archived>>
      BY <3>1 DEF ContentToken
    <3>3. QED
      BY <2>4, <2>5, <3>2 DEF SeenRow
  <2>8. Content(screen.basis) = Content(Shown(r))
    <3>1. \A p \in Content(screen.basis) : p \in Content(Shown(r))
      BY <2>6 DEF Content
    <3>2. \A p \in Content(Shown(r)) : p \in Content(screen.basis)
      BY <2>7 DEF Content
    <3>3. QED
      BY <3>1, <3>2
  <2>9. QED
    BY <2>3, <2>8
<1>2. IInv /\ [Next]_vars =>
        [\A r \in 1..MaxRevision :
            ~approval[r].on /\ approval'[r].on =>
                screen.rev = r /\ Content(screen.basis) = Content(Shown(r))]_vars
  BY <1>1
<1>3. QED
  BY <1>2, Invariant, PTL DEF Spec, ApprovedWhatWasCounted

\* While a customer's approval stands, the total of its revision is the one it
\* was given for: no save, duplicate, deletion, restore, payment or later
\* revision moves it (project.line-edit).
THEOREM ApprovedTotalIsKept == Spec => []ApprovedTotalStands
<1>1. FullInv => ApprovedTotalStands
  <2> SUFFICES ASSUME FullInv, NEW r \in 1..current, Approved(r)
               PROVE  Total(r) = approval[r].total
    BY DEF ApprovedTotalStands
  <2>1. current \in 1..MaxRevision /\ MaxRevision \in Nat
    BY BoundsArePositive DEF FullInv, IInv, LinesInv, LinesHaveType
  <2>2. r \in 1..MaxRevision
    BY <2>1
  <2>3. QED
    BY <2>2 DEF FullInv, QuoteInv, ApprovalsStand
<1>2. QED
  BY <1>1, InitFullInv, StepKeepsFullInv, PTL DEF Spec

\* A document in review or approved keeps a live line of the current revision
\* that continues its own, at the amount it was submitted for, however many
\* revisions follow, and the customer's approval it was submitted under
\* (linkedDocumentsByLine, project.line-edit, quote.approval-toggle).
THEOREM LinkedDocumentIsKept == Spec => []LinkedDocumentStands
<1>1. FullInv => LinkedDocumentStands
  BY DEF FullInv, QuoteInv
<1>2. QED
  BY <1>1, InitFullInv, StepKeepsFullInv, PTL DEF Spec
=============================================================================
