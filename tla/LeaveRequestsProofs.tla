------------------------ MODULE LeaveRequestsProofs ------------------------
(***************************************************************************)
(* Theorems about LeaveRequests, for any number of people, requests, days  *)
(* and kinds of documents, on lemmas about DocumentNumbering, for any      *)
(* kinds, periods and first numbers: whatever a request does around its    *)
(* number, the invariant of numbering holds under the steps of numbering.  *)
(***************************************************************************)
EXTENDS LeaveRequests, TLAPS

-----------------------------------------------------------------------------
(* Numbering. *)

\* A step of numbering, of a request or of the settings.
NumberingStep ==
    \/ \E c \in Calls :
          \/ \E k \in Yearly : AskNumber(c, k, year) /\ UNCHANGED <<year, start, counter, numbers, refused, late>>
          \/ \E k \in ByProject, p \in Projects :
                AskNumber(c, k, p) /\ UNCHANGED <<year, start, counter, numbers, refused, late>>
          \/ Count(c)
          \/ ReadStart(c)
          \/ IssueNumber(c)
          \/ ClashNumber(c)
          \/ DropNumber(c)
    \/ \E k \in Kinds, first \in Starts : SaveStart(k, first)
    \/ TurnYear
    \/ UNCHANGED numberingVars

\* A period of a kind that has begun.
Begun(k, p) ==
    \/ k \in Yearly /\ p \in Years /\ p <= year
    \/ k \in ByProject /\ p \in Projects

\* One that the check of a first number looks at.
Guarded(k, p) ==
    \/ k \in Yearly /\ k \notin late /\ p = year
    \/ k \in ByProject /\ p \in Projects

AllocationsBegun == \A c \in Calls : number[c].step # "none" => Begun(number[c].kind, number[c].period)

\* Who has incremented a counter holds its row.
CountersAreLocked ==
    /\ \A b, c \in Counting :
          number[b].kind = number[c].kind /\ number[b].period = number[c].period => b = c
    /\ \A c \in Counting : number[c].seq = counter[number[c].kind][number[c].period] + 1

\* Who has read the first number has read the one that is set.
FirstsAreRead ==
    \A c \in Calls :
        number[c].step = "numbered" =>
            /\ number[c].first \in Starts
            /\ Guarded(number[c].kind, number[c].period) => number[c].first = start[number[c].kind]

\* All numbers of a period are below the next one.
NumbersAreBelow ==
    \A n \in numbers :
        /\ Begun(n[1], n[2])
        /\ counter[n[1]][n[2]] >= 1
        /\ Guarded(n[1], n[2]) => n[3] < counter[n[1]][n[2]] + start[n[1]]

RefusedHaveBegun == \A clash \in refused : Begun(clash[1], clash[2])

NumberingInv ==
    /\ NumberingTypeOK
    /\ AllocationsBegun
    /\ CountersAreLocked
    /\ FirstsAreRead
    /\ NumbersAreBelow
    /\ RefusedHaveBegun
    /\ NumbersAreNew

-----------------------------------------------------------------------------
LEMMA NoNumberHasType == NoNumber \in Allocations /\ NoNumber.step = "none"
BY DEF NoNumber, Allocations

LEMMA NumberingInitInv == NumberingInit => NumberingInv
<1> SUFFICES ASSUME NumberingInit PROVE NumberingInv
  OBVIOUS
<1>1. NumberingTypeOK
  BY NoNumberHasType, StartsAreNumbers, NumberingBounds
     DEF NumberingInit, NumberingTypeOK, Years
<1>2. \A c \in Calls : number[c].step = "none"
  BY NoNumberHasType DEF NumberingInit
<1>3. numbers = {} /\ refused = {}
  BY DEF NumberingInit
<1>4. QED
  BY <1>1, <1>2, <1>3 DEF NumberingInv, AllocationsBegun, CountersAreLocked, Counting,
     FirstsAreRead, NumbersAreBelow, RefusedHaveBegun, NumbersAreNew

\* A kind is of one sort, and so is a period.
LEMMA PeriodsAreOfOneSort ==
    ASSUME NEW k, NEW p, Begun(k, p)
    PROVE  /\ k \in Kinds
           /\ p \in Periods
           /\ k \in Yearly => p \in Years /\ p \in Int /\ p <= year
           /\ k \in ByProject => k \notin Yearly /\ p \in Projects
<1>1. Years \subseteq Int
  BY DEF Years
<1>2. k \in Kinds /\ p \in Periods
  BY DEF Begun, Kinds, Periods
<1>3. k \notin Yearly \/ k \notin ByProject
  BY KindsAreOne
<1>4. QED
  BY <1>1, <1>2, <1>3 DEF Begun

\* A step of a request that only changes what it has done about its number.
LEMMA AllocationsMove ==
    ASSUME NumberingInv, NEW c \in Calls, NEW r \in Allocations, Takes(c, r),
           UNCHANGED <<year, start, counter, numbers, refused, late>>,
           r.step # "none" => Begun(r.kind, r.period),
           r.step = "numbered" =>
               /\ r.first \in Starts
               /\ Guarded(r.kind, r.period) => r.first = start[r.kind],
           r.step \in {"counted", "numbered"} =>
               /\ r.seq = counter[r.kind][r.period] + 1
               /\ \A b \in Counting \ {c} : number[b].kind # r.kind \/ number[b].period # r.period
    PROVE  NumberingInv'
<1>1. number' = [number EXCEPT ![c] = r] /\ number \in [Calls -> Allocations]
  BY DEF Takes, NumberingInv, NumberingTypeOK
<1>2. number'[c] = r /\ \A b \in Calls \ {c} : number'[b] = number[b]
  BY <1>1
<1>3. NumberingTypeOK'
  BY <1>1 DEF NumberingInv, NumberingTypeOK
<1>4. AllocationsBegun'
  BY <1>2 DEF NumberingInv, AllocationsBegun, Begun
<1>5. \A b \in Counting' : b \in Calls /\ (b = c \/ (b \in Counting /\ number'[b] = number[b]))
  BY <1>2 DEF Counting
<1>6. c \in Counting' => r.step \in {"counted", "numbered"}
  BY <1>2 DEF Counting
<1>7. CountersAreLocked'
  <2>1. ASSUME NEW a \in Counting', NEW b \in Counting',
               number'[a].kind = number'[b].kind, number'[a].period = number'[b].period
        PROVE  a = b
    BY <1>2, <1>5, <1>6, <2>1 DEF NumberingInv, CountersAreLocked
  <2>2. ASSUME NEW a \in Counting'
        PROVE  number'[a].seq = counter'[number'[a].kind][number'[a].period] + 1
    BY <1>2, <1>5, <1>6, <2>2 DEF NumberingInv, CountersAreLocked
  <2>3. QED
    BY <2>1, <2>2 DEF CountersAreLocked
<1>8. FirstsAreRead'
  BY <1>2 DEF NumberingInv, FirstsAreRead, Guarded
<1>9. NumbersAreBelow' /\ RefusedHaveBegun' /\ NumbersAreNew'
  BY DEF NumberingInv, NumbersAreBelow, RefusedHaveBegun, NumbersAreNew, Begun, Guarded
<1>10. QED
  BY <1>3, <1>4, <1>7, <1>8, <1>9 DEF NumberingInv

LEMMA AskKeepsNumbering ==
    ASSUME NumberingInv, NEW c \in Calls, NEW k, NEW p, Begun(k, p), AskNumber(c, k, p),
           UNCHANGED <<year, start, counter, numbers, refused, late>>
    PROVE  NumberingInv'
<1> DEFINE r == [NoNumber EXCEPT !.step = "asked", !.kind = k, !.period = p]
<1>1. r \in Allocations /\ r.step = "asked" /\ r.kind = k /\ r.period = p
  BY PeriodsAreOfOneSort, NoNumberHasType DEF NoNumber, Allocations
<1>2. Takes(c, r)
  BY DEF AskNumber
<1> HIDE DEF r
<1>3. QED
  BY <1>1, <1>2, AllocationsMove

LEMMA CountKeepsNumbering ==
    ASSUME NumberingInv, NEW c \in Calls, Count(c)
    PROVE  NumberingInv'
<1> DEFINE k == number[c].kind
           p == number[c].period
           r == [number[c] EXCEPT !.step = "counted", !.seq = counter[k][p] + 1]
<1>1. number[c] \in Allocations /\ number[c].step = "asked" /\ Begun(k, p)
  BY DEF Count, NumberingInv, NumberingTypeOK, AllocationsBegun
<1>2. counter[k][p] \in Nat
  BY <1>1, PeriodsAreOfOneSort DEF NumberingInv, NumberingTypeOK
<1>3. /\ r \in Allocations /\ r.step = "counted" /\ r.kind = k /\ r.period = p
      /\ r.seq = counter[k][p] + 1
  <2>1. counter[k][p] + 1 \in Nat
    BY <1>2
  <2>2. QED
    BY <1>1, <2>1 DEF Allocations
<1>4. Takes(c, r) /\ UNCHANGED <<year, start, counter, numbers, refused, late>>
  BY DEF Count
<1>5. \A b \in Counting \ {c} : number[b].kind # k \/ number[b].period # p
  BY DEF Count, RowFree
<1> HIDE DEF r, k, p
<1>6. QED
  BY <1>1, <1>3, <1>4, <1>5, AllocationsMove

LEMMA ReadKeepsNumbering ==
    ASSUME NumberingInv, NEW c \in Calls, ReadStart(c)
    PROVE  NumberingInv'
<1> DEFINE k == number[c].kind
           p == number[c].period
           r == [number[c] EXCEPT !.step = "numbered", !.first = start[k]]
<1>1. number[c] \in Allocations /\ number[c].step = "counted" /\ Begun(k, p) /\ c \in Counting
  BY DEF ReadStart, NumberingInv, NumberingTypeOK, AllocationsBegun, Counting
<1>2. start[k] \in Starts
  BY <1>1, PeriodsAreOfOneSort DEF NumberingInv, NumberingTypeOK
<1>3. /\ r \in Allocations /\ r.step = "numbered" /\ r.kind = k /\ r.period = p
      /\ r.seq = number[c].seq /\ r.first = start[k]
  BY <1>1, <1>2 DEF Allocations
<1>4. Takes(c, r) /\ UNCHANGED <<year, start, counter, numbers, refused, late>>
  BY DEF ReadStart
<1>5. /\ number[c].seq = counter[k][p] + 1
      /\ \A b \in Counting \ {c} : number[b].kind # k \/ number[b].period # p
  BY <1>1 DEF NumberingInv, CountersAreLocked
<1> HIDE DEF r, k, p
<1>6. QED
  BY <1>1, <1>2, <1>3, <1>4, <1>5, AllocationsMove

LEMMA DropKeepsNumbering ==
    ASSUME NumberingInv, NEW c \in Calls, DropNumber(c)
    PROVE  NumberingInv'
BY NoNumberHasType, AllocationsMove DEF DropNumber

\* The number of a period that the check looks at is new.
LEMMA NumbersAreHigher ==
    ASSUME NumberingInv, NEW c \in Calls, number[c].step = "numbered"
    PROVE  LET k == number[c].kind
               p == number[c].period
               n == number[c].seq + number[c].first - 1
           IN  /\ Begun(k, p)
               /\ counter[k][p] \in Nat /\ number[c].seq = counter[k][p] + 1
               /\ n \in Nat
               /\ Guarded(k, p) => n = counter[k][p] + start[k] /\ NumberOf(c) \notin numbers
<1> DEFINE k == number[c].kind
           p == number[c].period
<1>1. Begun(k, p) /\ c \in Counting
  BY DEF NumberingInv, AllocationsBegun, Counting
<1>2. counter[k][p] \in Nat /\ start[k] \in Nat
  BY <1>1, PeriodsAreOfOneSort, StartsAreNumbers DEF NumberingInv, NumberingTypeOK
<1>3. number[c].seq = counter[k][p] + 1 /\ number[c].first \in Nat
  BY <1>1, StartsAreNumbers DEF NumberingInv, CountersAreLocked, FirstsAreRead
<1>4. Guarded(k, p) => number[c].first = start[k]
  BY DEF NumberingInv, FirstsAreRead
<1>5. Guarded(k, p) => NumberOf(c) \notin numbers
  <2> SUFFICES ASSUME Guarded(k, p), NumberOf(c) \in numbers PROVE FALSE
    OBVIOUS
  <2>1. NumberOf(c)[1] = k /\ NumberOf(c)[2] = p /\ NumberOf(c)[3] = counter[k][p] + start[k]
    BY <1>2, <1>3, <1>4 DEF NumberOf
  <2>2. NumberOf(c)[3] < counter[k][p] + start[k]
    BY <2>1 DEF NumberingInv, NumbersAreBelow
  <2>3. QED
    BY <1>2, <2>1, <2>2
<1>6. QED
  BY <1>1, <1>2, <1>3, <1>4, <1>5

LEMMA ClashKeepsNumbering ==
    ASSUME NumberingInv, NEW c \in Calls, ClashNumber(c)
    PROVE  NumberingInv'
<1> DEFINE k == number[c].kind
           p == number[c].period
<1>1. /\ number[c].step = "numbered" /\ NumberOf(c) \in numbers
      /\ refused' = refused \cup {<<k, p>>}
      /\ Takes(c, NoNumber)
      /\ UNCHANGED <<year, start, counter, numbers, late>>
  BY DEF ClashNumber
<1>2. Begun(k, p) /\ ~Guarded(k, p)
  BY <1>1, NumbersAreHigher
<1>3. k \in Yearly /\ (p < year \/ k \in late)
  BY <1>2, PeriodsAreOfOneSort DEF Begun, Guarded, Years, NumberingInv, NumberingTypeOK
<1>4. refused' \subseteq Kinds \X Periods
  BY <1>1, <1>2, PeriodsAreOfOneSort DEF NumberingInv, NumberingTypeOK
<1>5. NumbersAreNew' /\ RefusedHaveBegun'
  <2>1. ASSUME NEW clash \in refused'
        PROVE  /\ clash[1] \in Yearly /\ (clash[2] < year' \/ clash[1] \in late')
               /\ Begun(clash[1], clash[2])
    BY <1>1, <1>2, <1>3, <2>1 DEF NumberingInv, NumbersAreNew, RefusedHaveBegun
  <2>2. QED
    BY <1>1, <2>1 DEF NumbersAreNew, RefusedHaveBegun, Begun
<1>6. \A b \in Calls : number'[b] = number[b] \/ number'[b] = NoNumber
  BY <1>1 DEF Takes, NumberingInv, NumberingTypeOK
<1>7. NumberingTypeOK'
  BY <1>1, <1>4, NoNumberHasType DEF Takes, NumberingInv, NumberingTypeOK
<1>8. \A b \in Calls : number'[b].step # "none" => number'[b] = number[b]
  BY <1>6, NoNumberHasType
<1>9. AllocationsBegun' /\ FirstsAreRead'
  BY <1>1, <1>8 DEF NumberingInv, AllocationsBegun, FirstsAreRead, Begun, Guarded
<1>10. CountersAreLocked'
  <2>1. \A b \in Counting' : b \in Counting /\ number'[b] = number[b]
    BY <1>8 DEF Counting
  <2>2. QED
    BY <1>1, <2>1 DEF NumberingInv, CountersAreLocked
<1>11. NumbersAreBelow'
  BY <1>1 DEF NumberingInv, NumbersAreBelow, Begun, Guarded
<1>12. QED
  BY <1>5, <1>7, <1>9, <1>10, <1>11 DEF NumberingInv

LEMMA IssueKeepsNumbering ==
    ASSUME NumberingInv, NEW c \in Calls, IssueNumber(c)
    PROVE  NumberingInv'
<1> DEFINE k == number[c].kind
           p == number[c].period
           n == number[c].seq + number[c].first - 1
<1>1. /\ number[c].step = "numbered"
      /\ numbers' = numbers \cup {<<k, p, n>>}
      /\ counter' = [counter EXCEPT ![k][p] = number[c].seq]
      /\ Takes(c, NoNumber)
      /\ UNCHANGED <<year, start, refused, late>>
  BY DEF IssueNumber, NumberOf
<1>2. /\ Begun(k, p) /\ k \in Kinds /\ p \in Periods
      /\ counter[k][p] \in Nat /\ number[c].seq = counter[k][p] + 1
      /\ n \in Nat
      /\ Guarded(k, p) => n = counter[k][p] + start[k]
  BY <1>1, NumbersAreHigher, PeriodsAreOfOneSort
<1> HIDE DEF n, k, p
<1>3. /\ counter' \in [Kinds -> [Periods -> Nat]]
      /\ counter'[k][p] = counter[k][p] + 1
      /\ \A j \in Kinds, q \in Periods : j # k \/ q # p => counter'[j][q] = counter[j][q]
  BY <1>1, <1>2 DEF NumberingInv, NumberingTypeOK
<1>4. numbers' \subseteq Kinds \X Periods \X Nat
  BY <1>1, <1>2 DEF NumberingInv, NumberingTypeOK
<1>5. NumberingTypeOK'
  BY <1>1, <1>3, <1>4, NoNumberHasType DEF Takes, NumberingInv, NumberingTypeOK
<1>6. \A b \in Calls : number'[b] = number[b] \/ number'[b] = NoNumber
  BY <1>1 DEF Takes, NumberingInv, NumberingTypeOK
<1>7. number'[c].step = "none" /\ \A b \in Calls : number'[b].step # "none" => number'[b] = number[b]
  BY <1>1, <1>6, NoNumberHasType DEF Takes, NumberingInv, NumberingTypeOK
<1>8. AllocationsBegun' /\ FirstsAreRead'
  BY <1>1, <1>7 DEF NumberingInv, AllocationsBegun, FirstsAreRead, Begun, Guarded
<1>9. CountersAreLocked'
  <2>1. \A b \in Counting' : b \in Counting \ {c} /\ b \in Calls /\ number'[b] = number[b]
    BY <1>7 DEF Counting
  <2>2. c \in Counting
    BY <1>1 DEF Counting
  <2>3. ASSUME NEW b \in Counting'
        PROVE  number'[b].seq = counter'[number'[b].kind][number'[b].period] + 1
    <3>1. number[b].kind # k \/ number[b].period # p
      BY <2>1, <2>2 DEF NumberingInv, CountersAreLocked, k, p
    <3>2. number[b].kind \in Kinds /\ number[b].period \in Periods
      BY <2>1, PeriodsAreOfOneSort DEF NumberingInv, AllocationsBegun, Counting
    <3>3. QED
      BY <1>3, <2>1, <3>1, <3>2 DEF NumberingInv, CountersAreLocked
  <2>4. QED
    BY <2>1, <2>3 DEF NumberingInv, CountersAreLocked
<1>10. NumbersAreBelow'
  <2>1. ASSUME NEW m \in numbers'
        PROVE  /\ Begun(m[1], m[2])
               /\ counter'[m[1]][m[2]] >= 1
               /\ Guarded(m[1], m[2]) => m[3] < counter'[m[1]][m[2]] + start[m[1]]
    <3>1. CASE m = <<k, p, n>>
      <4>1. m[1] = k /\ m[2] = p /\ m[3] = n
        BY <3>1
      <4>2. start[k] \in Nat
        BY <1>2, StartsAreNumbers DEF NumberingInv, NumberingTypeOK
      <4>3. QED
        BY <1>2, <1>3, <4>1, <4>2
    <3>2. CASE m \in numbers
      <4>1. /\ Begun(m[1], m[2])
            /\ counter[m[1]][m[2]] >= 1
            /\ Guarded(m[1], m[2]) => m[3] < counter[m[1]][m[2]] + start[m[1]]
        BY <3>2 DEF NumberingInv, NumbersAreBelow
      <4>2. /\ m[1] \in Kinds /\ m[2] \in Periods /\ m[3] \in Nat
            /\ counter[m[1]][m[2]] \in Nat /\ start[m[1]] \in Nat
        BY <3>2, StartsAreNumbers DEF NumberingInv, NumberingTypeOK
      <4>3. counter'[m[1]][m[2]] \in Nat /\ counter'[m[1]][m[2]] >= counter[m[1]][m[2]]
        BY <1>2, <1>3, <4>2
      <4>4. QED
        BY <4>1, <4>2, <4>3
    <3>3. QED
      BY <1>1, <2>1, <3>1, <3>2
  <2>2. QED
    BY <1>1, <2>1 DEF NumbersAreBelow, Begun, Guarded
<1>11. RefusedHaveBegun' /\ NumbersAreNew'
  BY <1>1 DEF NumberingInv, RefusedHaveBegun, NumbersAreNew, Begun
<1>12. QED
  BY <1>5, <1>8, <1>9, <1>10, <1>11 DEF NumberingInv

\* The save of a first number waits for whoever has read the old one.
LEMMA SaveKeepsNumbering ==
    ASSUME NumberingInv, NEW k \in Kinds, NEW first \in Starts, SaveStart(k, first)
    PROVE  NumberingInv'
<1>1. PICK y \in Years :
         /\ y \in {year - 1, year}
         /\ MayLock(k, y) /\ MayStart(k, y, first)
         /\ start' = [start EXCEPT ![k] = first]
         /\ late' = IF y < year /\ k \in Yearly THEN late \cup {k} ELSE late
         /\ UNCHANGED <<year, counter, numbers, number, refused>>
  BY DEF SaveStart
<1>2. /\ start'[k] = first /\ \A j \in Kinds : j # k => start'[j] = start[j]
      /\ start' \in [Kinds -> Starts]
  BY <1>1 DEF NumberingInv, NumberingTypeOK
<1>3. late \subseteq late' /\ late' \subseteq Yearly
  BY <1>1 DEF NumberingInv, NumberingTypeOK
<1>4. NumberingTypeOK'
  BY <1>1, <1>2, <1>3 DEF NumberingInv, NumberingTypeOK
<1>5. AllocationsBegun' /\ RefusedHaveBegun'
  BY <1>1 DEF NumberingInv, AllocationsBegun, RefusedHaveBegun, Begun
<1>6. CountersAreLocked'
  BY <1>1 DEF NumberingInv, CountersAreLocked, Counting
<1>7. \A j, p : Guarded(j, p)' => Guarded(j, p)
  BY <1>1, <1>3 DEF Guarded
<1>8. ASSUME NEW p, Guarded(k, p)'
      PROVE  /\ k \in ByProject \/ p = y
             /\ k \in ByProject => Sharing(k) = {}
             /\ k \in Yearly => RowFree(k, y)
             /\ Begun(k, p) => (counter[k][p] >= 1 => first >= start[k])
  <2>1. k \in ByProject => k \notin Yearly
    BY KindsAreOne
  <2>2. y < year => k \notin Yearly
    BY <1>1, <1>8, <2>1 DEF Guarded
  <2>3. y \in Int /\ year \in Int
    BY DEF Years, NumberingInv, NumberingTypeOK
  <2>4. k \in ByProject \/ p = y
    BY <1>1, <1>8, <2>2, <2>3 DEF Guarded
  <2>5. k \in ByProject => p \in Projects
    BY <1>8, <2>1 DEF Guarded
  <2>6. /\ k \in ByProject => Sharing(k) = {}
        /\ k \in Yearly => RowFree(k, y)
    BY <1>1, <2>1 DEF MayLock
  <2>7. counter[k][p] >= 1 => Issued(k, y)
    BY <2>4, <2>5 DEF Issued
  <2>8. QED
    BY <1>1, <2>4, <2>6, <2>7 DEF MayStart
<1>9. FirstsAreRead'
  <2>1. ASSUME NEW c \in Calls, number[c].step = "numbered",
               NEW j, NEW p, j = number[c].kind, p = number[c].period, Guarded(j, p)'
        PROVE  number[c].first = start'[j]
    <3>1. c \in Counting /\ Begun(j, p) /\ Guarded(j, p)
      BY <1>7, <2>1 DEF Counting, NumberingInv, AllocationsBegun
    <3>2. j \in Kinds
      BY <3>1, PeriodsAreOfOneSort
    <3>3. j # k
      BY <1>8, <2>1, <3>1 DEF Sharing, RowFree, Kinds
    <3>4. QED
      BY <1>2, <2>1, <3>1, <3>2, <3>3 DEF NumberingInv, FirstsAreRead
  <2>2. \A c \in Calls : number[c].step = "numbered" => number[c].first \in Starts
    BY DEF NumberingInv, FirstsAreRead
  <2>3. QED
    BY <1>1, <2>1, <2>2 DEF FirstsAreRead, Guarded
<1>10. NumbersAreBelow'
  <2>1. ASSUME NEW n \in numbers, Guarded(n[1], n[2])'
        PROVE  n[3] < counter[n[1]][n[2]] + start'[n[1]]
    <3>1. /\ n[3] < counter[n[1]][n[2]] + start[n[1]]
          /\ Begun(n[1], n[2]) /\ counter[n[1]][n[2]] >= 1
      BY <1>7, <2>1 DEF NumberingInv, NumbersAreBelow
    <3>2. /\ n[1] \in Kinds /\ n[3] \in Nat /\ counter[n[1]][n[2]] \in Nat
          /\ start[n[1]] \in Nat /\ start'[n[1]] \in Nat
      BY <1>2, StartsAreNumbers DEF NumberingInv, NumberingTypeOK
    <3>3. start'[n[1]] >= start[n[1]]
      BY <1>2, <1>8, <2>1, <3>1, <3>2
    <3>4. QED
      BY <3>1, <3>2, <3>3
  <2>2. QED
    BY <1>1, <2>1 DEF NumberingInv, NumbersAreBelow, Begun
<1>11. NumbersAreNew'
  BY <1>1, <1>3 DEF NumberingInv, NumbersAreNew
<1>12. QED
  BY <1>4, <1>5, <1>6, <1>9, <1>10, <1>11 DEF NumberingInv

LEMMA YearKeepsNumbering ==
    ASSUME NumberingInv, TurnYear
    PROVE  NumberingInv'
<1>1. /\ year \in Int /\ year' = year + 1 /\ year' \in Years
      /\ UNCHANGED <<start, counter, numbers, number, refused, late>>
  BY NumberingBounds DEF TurnYear, NumberingInv, NumberingTypeOK, Years
<1>2. NumberingTypeOK'
  BY <1>1 DEF NumberingInv, NumberingTypeOK
<1>3. ASSUME NEW k, NEW p, Begun(k, p)
      PROVE  Begun(k, p)' /\ (Guarded(k, p)' => Guarded(k, p))
  <2>1. k \in Yearly => p \in Int /\ p <= year
    BY <1>3, PeriodsAreOfOneSort
  <2>2. Begun(k, p)'
    BY <1>1, <1>3 DEF Begun, Years
  <2>3. Guarded(k, p)' => Guarded(k, p)
    BY <1>1, <2>1 DEF Guarded
  <2>4. QED
    BY <2>2, <2>3
<1>4. AllocationsBegun' /\ RefusedHaveBegun'
  <2>1. ASSUME NEW c \in Calls, number[c].step # "none",
               NEW k, NEW p, k = number[c].kind, p = number[c].period
        PROVE  Begun(k, p)'
    BY <1>3, <2>1 DEF NumberingInv, AllocationsBegun
  <2>2. \A clash \in refused : Begun(clash[1], clash[2])'
    BY <1>3 DEF NumberingInv, RefusedHaveBegun
  <2>3. QED
    BY <1>1, <2>1, <2>2 DEF AllocationsBegun, RefusedHaveBegun, Begun
<1>5. CountersAreLocked'
  BY <1>1 DEF NumberingInv, CountersAreLocked, Counting
<1>6. FirstsAreRead'
  <2>1. ASSUME NEW c \in Calls, number[c].step = "numbered",
               NEW k, NEW p, k = number[c].kind, p = number[c].period, Guarded(k, p)'
        PROVE  Guarded(k, p)
    BY <1>3, <2>1 DEF NumberingInv, AllocationsBegun
  <2>2. QED
    BY <1>1, <2>1 DEF NumberingInv, FirstsAreRead, Guarded
<1>7. NumbersAreBelow'
  <2>1. \A n \in numbers : Begun(n[1], n[2])' /\ (Guarded(n[1], n[2])' => Guarded(n[1], n[2]))
    BY <1>3 DEF NumberingInv, NumbersAreBelow
  <2>2. QED
    BY <1>1, <2>1 DEF NumberingInv, NumbersAreBelow, Begun, Guarded
<1>8. NumbersAreNew'
  <2>1. ASSUME NEW clash \in refused
        PROVE  clash[1] \in Yearly /\ (clash[2] < year' \/ clash[1] \in late)
    <3>1. clash[1] \in Yearly /\ (clash[2] < year \/ clash[1] \in late) /\ Begun(clash[1], clash[2])
      BY <2>1 DEF NumberingInv, NumbersAreNew, RefusedHaveBegun
    <3>2. clash[2] \in Int
      BY <3>1, PeriodsAreOfOneSort
    <3>3. QED
      BY <1>1, <3>1, <3>2
  <2>2. QED
    BY <1>1, <2>1 DEF NumbersAreNew
<1>9. QED
  BY <1>2, <1>4, <1>5, <1>6, <1>7, <1>8 DEF NumberingInv

LEMMA StutterKeepsNumbering ==
    ASSUME NumberingInv, UNCHANGED numberingVars
    PROVE  NumberingInv'
<1>1. UNCHANGED <<year, start, counter, numbers, number, refused, late>>
  BY DEF numberingVars
<1>2. NumberingTypeOK' /\ CountersAreLocked'
  BY <1>1 DEF NumberingInv, NumberingTypeOK, CountersAreLocked, Counting
<1>3. AllocationsBegun' /\ FirstsAreRead' /\ NumbersAreBelow' /\ RefusedHaveBegun' /\ NumbersAreNew'
  BY <1>1 DEF NumberingInv, AllocationsBegun, FirstsAreRead, NumbersAreBelow, RefusedHaveBegun,
     NumbersAreNew, Begun, Guarded
<1>4. QED
  BY <1>2, <1>3 DEF NumberingInv

LEMMA NumberingStepKeepsInv ==
    ASSUME NumberingInv, NumberingStep
    PROVE  NumberingInv'
<1>1. ASSUME NEW c \in Calls, NEW k \in Yearly, AskNumber(c, k, year),
             UNCHANGED <<year, start, counter, numbers, refused, late>>
      PROVE  NumberingInv'
  <2>1. Begun(k, year)
    BY DEF Begun, NumberingInv, NumberingTypeOK, Years
  <2>2. QED
    BY <1>1, <2>1, AskKeepsNumbering
<1>2. ASSUME NEW c \in Calls, NEW k \in ByProject, NEW p \in Projects, AskNumber(c, k, p),
             UNCHANGED <<year, start, counter, numbers, refused, late>>
      PROVE  NumberingInv'
  <2>1. Begun(k, p)
    BY DEF Begun
  <2>2. QED
    BY <1>2, <2>1, AskKeepsNumbering
<1>3. QED
  BY <1>1, <1>2, CountKeepsNumbering, ReadKeepsNumbering, IssueKeepsNumbering,
     ClashKeepsNumbering, DropKeepsNumbering, SaveKeepsNumbering, YearKeepsNumbering,
     StutterKeepsNumbering DEF NumberingStep

-----------------------------------------------------------------------------
(* Leave requests. *)

\* A request that has not begun knows nothing, and a number belongs to a new
\* document.
RequestsAreClean ==
    \A c \in Calls :
        /\ call[c].pc = "idle" => call[c] = Idle
        /\ call[c].pc = "read" => call[c].drafter = Nothing
        /\ call[c].pc = "idle" \/ call[c].leave # Nothing => number[c].kind = ""
        /\ call[c].pc = "checked" =>
              \/ call[c].drafter \in Drafters
              \/ call[c].leave = Nothing /\ number[c].kind = ExpenseKind

\* One request of a drafter is past the check.
DraftersAreLocked ==
    \A b, c \in Calls :
        /\ call[b].pc = "checked" /\ call[c].pc = "checked"
        /\ call[b].drafter = call[c].drafter
        /\ call[b].drafter \in Drafters
        => b = c

\* Two halves of a day.
Apart(s, t) == {s.half, t.half} = {"am", "pm"}

\* What a request has been checked against still stands in nobody's way.
ChecksStand ==
    \A c \in Calls : call[c].pc = "checked" /\ call[c].drafter \in Drafters =>
        \A m \in Leaves \ {call[c].leave} :
            /\ leave[m].drafter = call[c].drafter
            /\ Live(m)
            /\ (call[c].span.days \ call[c].table) \cap leave[m].charged # {}
            => Apart(call[c].span, leave[m].span)

ChargesAreDays == \A l \in Leaves : leave[l].charged \subseteq leave[l].span.days

LeaveInv ==
    /\ TypeOK
    /\ RequestsAreClean
    /\ DraftersAreLocked
    /\ ChecksStand
    /\ ChargesAreDays
    /\ NoDayTakenTwice

IInv == LeaveInv /\ NumberingInv

-----------------------------------------------------------------------------
LEMMA NothingHasType ==
    /\ Idle \in Requests
    /\ NoLeave \in Rows
    /\ NoNumber.kind = ""
BY DEF Idle, Requests, NoLeave, Rows, NoSpan, NoNumber

LEMMA VersionsMove == \A row \in Rows : row.version + 1 \in Nat
BY DEF Rows

LEMMA SpansAreDays ==
    ASSUME NEW s \in Spans \cup {NoSpan}
    PROVE  s.days \subseteq Days
<1>1. ASSUME NEW a \in Days, NEW b \in Days PROVE a..b \subseteq Days
  BY DaysAreNumbers
<1>2. CASE s \in Spans
  <2>1. s.days \in {a..b : a, b \in Days}
    BY <1>2 DEF Spans
  <2>2. PICK a \in Days, b \in Days : s.days = a..b
    BY <2>1
  <2>3. QED
    BY <1>1, <2>2
<1>3. CASE s = NoSpan
  BY <1>3 DEF NoSpan
<1>4. QED
  BY <1>2, <1>3

LEMMA KindsDiffer ==
    /\ LeaveKind # ExpenseKind /\ LeaveKind # "" /\ ExpenseKind # ""
    /\ Nothing \notin Drafters /\ Nothing \notin Leaves
BY LeaveKindsAreKinds, KindsAreOne, NothingIsNothing

LEMMA InitInv == Init => IInv
<1> SUFFICES ASSUME Init PROVE IInv
  OBVIOUS
<1>1. NumberingInv
  BY NumberingInitInv DEF Init
<1>2. TypeOK
  BY <1>1, NothingHasType DEF Init, TypeOK, NumberingInv
<1>3. \A c \in Calls : call[c] = Idle /\ call[c].pc = "idle" /\ number[c].kind = ""
  BY NothingHasType DEF Init, Idle, NumberingInit
<1>4. \A l \in Leaves : leave[l].status = "none" /\ leave[l].charged = {}
  BY DEF Init, NoLeave
<1>5. QED
  BY <1>1, <1>2, <1>3, <1>4 DEF IInv, LeaveInv, RequestsAreClean, DraftersAreLocked,
     ChecksStand, ChargesAreDays, NoDayTakenTwice

-----------------------------------------------------------------------------
(* Every step is one of numbering, or leaves the numbers alone.            *)

LEMMA StepsAreNumberingSteps == [Next]_vars => NumberingStep
<1> SUFFICES ASSUME [Next]_vars PROVE NumberingStep
  OBVIOUS
<1>1. ASSUME NEW c \in Calls, AskLeave(c) PROVE NumberingStep
  BY <1>1, LeaveKindsAreKinds DEF AskLeave, NumberingStep
<1>2. ASSUME NEW c \in Calls, NEW p \in Projects, AskExpense(c, p) PROVE NumberingStep
  BY <1>2, LeaveKindsAreKinds DEF AskExpense, NumberingStep
<1>3. ASSUME NEW c \in Calls, NEW d, NEW span, Refuse(c, d, span) PROVE NumberingStep
  BY <1>3 DEF Refuse, NumberingStep
<1>4. ASSUME NEW c \in Calls, Numbering(c) \/ CommitLeave(c) \/ CommitExpense(c) \/ Fail(c)
      PROVE  NumberingStep
  BY <1>4 DEF Numbering, CommitLeave, CommitExpense, Fail, NumberingStep
<1>5. CASE UNCHANGED numberingVars
  BY <1>5 DEF NumberingStep
<1>6. CASE Settings
  BY <1>6 DEF Settings, NumberingStep
<1>7. QED
  BY <1>1, <1>2, <1>3, <1>4, <1>5, <1>6 DEF Next, Act, vars, AskAgain, LockAndCheck,
     CommitAgain, Decide, ChangeTable

-----------------------------------------------------------------------------
(* What a request does to the rows and to what it has read.                *)

\* Only c moves, to r; the kind of its number is k from now on.
Moves(c, r, k) ==
    /\ r \in Requests
    /\ Becomes(c, r)
    /\ number'[c].kind = k
    /\ \A b \in Calls \ {c} : number'[b].kind = number[b].kind

LEMMA RequestsMove ==
    ASSUME TypeOK, NEW c \in Calls, NEW r, NEW k, Moves(c, r, k)
    PROVE  /\ call' \in [Calls -> Requests]
           /\ call'[c] = r
           /\ \A b \in Calls \ {c} : call'[b] = call[b]
BY DEF TypeOK, Moves, Becomes

\* A request that moves without passing the check, and writes nothing.
LEMMA MovesKeepInv ==
    ASSUME LeaveInv, NumberingTypeOK', NEW c \in Calls, NEW r, NEW k, Moves(c, r, k),
           UNCHANGED leave, holidays' \subseteq Days,
           \/ r = Idle /\ k = ""
           \/ /\ r.pc = "read" /\ r.drafter = Nothing
              /\ r.leave # Nothing => k = ""
           \/ r.pc = "checked" /\ r.drafter = Nothing /\ r.leave = Nothing /\ k = ExpenseKind
    PROVE  LeaveInv'
<1>1. /\ call' \in [Calls -> Requests]
      /\ call'[c] = r
      /\ \A b \in Calls \ {c} : call'[b] = call[b]
  BY RequestsMove DEF LeaveInv
<1>2. Idle.pc = "idle" /\ Idle.leave = Nothing
  BY DEF Idle
<1>3. TypeOK'
  BY <1>1 DEF LeaveInv, TypeOK
<1>4. RequestsAreClean'
  BY <1>1, <1>2 DEF LeaveInv, RequestsAreClean, Moves
<1>5. \A b \in Calls : call'[b].pc = "checked" =>
         call'[b] = call[b] \/ (call'[b].drafter = Nothing /\ Nothing \notin Drafters)
  BY <1>1, <1>2, KindsDiffer
<1>6. DraftersAreLocked'
  BY <1>5 DEF LeaveInv, DraftersAreLocked
<1>7. ChargesAreDays' /\ NoDayTakenTwice'
  BY DEF LeaveInv, ChargesAreDays, NoDayTakenTwice
<1>8. QED
  <2>1. ChecksStand'
    BY <1>5 DEF LeaveInv, ChecksStand, Live
  <2>2. QED
    BY <1>3, <1>4, <1>6, <1>7, <2>1 DEF LeaveInv

\* The check, under the lock of the drafter.
LEMMA CheckKeepsInv ==
    ASSUME LeaveInv, NumberingTypeOK', NEW c \in Calls, NEW d \in Drafters, NEW span \in Spans,
           LockAndCheck(c, d, span)
    PROVE  LeaveInv'
<1> DEFINE r == [call[c] EXCEPT !.pc = "checked", !.drafter = d, !.span = span]
<1>1. /\ call[c].pc = "read" /\ DrafterFree(c, d) /\ Clear(c, d, span)
      /\ Becomes(c, r)
      /\ UNCHANGED <<leave, holidays, tables, numberingVars>>
  BY DEF LockAndCheck, Asked
<1>2. call[c] \in Requests
  BY DEF LeaveInv, TypeOK
<1>3. /\ r \in Requests
      /\ r.pc = "checked" /\ r.drafter = d /\ r.span = span
      /\ r.leave = call[c].leave /\ r.table = call[c].table
  BY <1>2 DEF Requests
<1> HIDE DEF r
<1>4. UNCHANGED number
  BY <1>1 DEF numberingVars
<1>5. Moves(c, r, number[c].kind)
  BY <1>1, <1>3, <1>4 DEF Moves
<1>6. /\ call' \in [Calls -> Requests]
      /\ call'[c] = r
      /\ \A b \in Calls \ {c} : call'[b] = call[b]
  BY <1>5, RequestsMove DEF LeaveInv
<1>7. TypeOK'
  BY <1>1, <1>6 DEF LeaveInv, TypeOK
<1>8. RequestsAreClean'
  BY <1>3, <1>4, <1>6 DEF LeaveInv, RequestsAreClean
<1>9. DraftersAreLocked'
  BY <1>1, <1>3, <1>6 DEF LeaveInv, DraftersAreLocked, DrafterFree
<1>10. ChecksStand'
  <2>1. ASSUME NEW m \in Leaves \ {call[c].leave}, leave[m].drafter = d, Live(m),
               (span.days \ call[c].table) \cap leave[m].charged # {}
        PROVE  Apart(span, leave[m].span)
    <3>1. leave[m].charged \subseteq leave[m].span.days
      BY DEF LeaveInv, ChargesAreDays
    <3>2. ~Overlap(span, leave[m].span, call[c].table)
      BY <1>1, <2>1 DEF Clear, Hits
    <3>3. (span.days \cap leave[m].span.days) \ call[c].table # {}
      BY <2>1, <3>1
    <3>4. QED
      BY <3>2, <3>3 DEF Overlap, Apart
  <2> SUFFICES ASSUME NEW b \in Calls, call'[b].pc = "checked", call'[b].drafter \in Drafters,
                      NEW m \in Leaves \ {call'[b].leave},
                      leave'[m].drafter = call'[b].drafter, Live(m)',
                      (call'[b].span.days \ call'[b].table) \cap leave'[m].charged # {}
               PROVE  Apart(call'[b].span, leave'[m].span)
    BY DEF ChecksStand, Apart
  <2>2. leave'[m] = leave[m] /\ Live(m)
    BY <1>1 DEF Live
  <2>3. CASE b = c
    BY <1>3, <1>6, <2>1, <2>2, <2>3
  <2>4. CASE b # c
    BY <1>6, <2>2, <2>4 DEF LeaveInv, ChecksStand
  <2>5. QED
    BY <2>3, <2>4
<1>11. ChargesAreDays' /\ NoDayTakenTwice'
  BY <1>1 DEF LeaveInv, ChargesAreDays, NoDayTakenTwice
<1>12. QED
  BY <1>7, <1>8, <1>9, <1>10, <1>11 DEF LeaveInv

\* The commit of a request that has passed the check, into a new row or the
\* row it was made from.
LEMMA WriteKeepsInv ==
    ASSUME LeaveInv, NumberingTypeOK', NEW c \in Calls, NEW l \in Leaves,
           call[c].pc = "checked", call[c].drafter \in Drafters, call[c].leave \in {l, Nothing},
           Written(c, l), Moves(c, Idle, ""), UNCHANGED holidays
    PROVE  LeaveInv'
<1> DEFINE d == call[c].drafter
           span == call[c].span
           charged == span.days \ call[c].table
           row == [drafter |-> d, status |-> "in_review", version |-> leave[l].version + 1,
                   span |-> span, charged |-> charged]
<1>1. call[c] \in Requests /\ leave[l] \in Rows
  BY DEF LeaveInv, TypeOK
<1>2. span \in Spans \cup {NoSpan}
  BY <1>1 DEF Requests
<1>3. charged \subseteq Days
  BY <1>2, SpansAreDays
<1>4. row \in Rows
  <2>1. leave[l].version + 1 \in Nat
    BY <1>1, VersionsMove
  <2>2. QED
    BY <1>2, <1>3, <2>1 DEF Rows
<1>5. /\ leave' \in [Leaves -> Rows]
      /\ leave'[l].drafter = d /\ leave'[l].span = span /\ leave'[l].charged = charged
      /\ \A m \in Leaves \ {l} : leave'[m] = leave[m]
  <2>1. leave' = [leave EXCEPT ![l] = row] /\ leave \in [Leaves -> Rows]
    BY DEF Written, Rewritten, LeaveInv, TypeOK
  <2>2. row.drafter = d /\ row.span = span /\ row.charged = charged
    OBVIOUS
  <2> HIDE DEF row
  <2>3. QED
    BY <1>4, <2>1, <2>2
<1>6. /\ call' \in [Calls -> Requests]
      /\ call'[c] = Idle /\ \A b \in Calls \ {c} : call'[b] = call[b]
  BY RequestsMove DEF LeaveInv
<1>7. Idle.pc = "idle" /\ Idle.leave = Nothing
  BY DEF Idle
<1>8. TypeOK'
  BY <1>5, <1>6 DEF LeaveInv, TypeOK
<1>9. RequestsAreClean'
  BY <1>6, <1>7 DEF LeaveInv, RequestsAreClean, Moves
<1>10. DraftersAreLocked'
  BY <1>6, <1>7 DEF LeaveInv, DraftersAreLocked
<1>11. ChargesAreDays'
  <2>1. charged \subseteq span.days
    OBVIOUS
  <2> HIDE DEF charged, span
  <2>2. QED
    BY <1>5, <2>1 DEF LeaveInv, ChargesAreDays
<1>12. ChecksStand'
  <2> SUFFICES ASSUME NEW b \in Calls, call'[b].pc = "checked", call'[b].drafter \in Drafters,
                      NEW m \in Leaves \ {call'[b].leave},
                      leave'[m].drafter = call'[b].drafter, Live(m)',
                      (call'[b].span.days \ call'[b].table) \cap leave'[m].charged # {}
               PROVE  {call'[b].span.half, leave'[m].span.half} = {"am", "pm"}
    BY DEF ChecksStand, Apart
  <2>1. b # c /\ call'[b] = call[b]
    BY <1>6, <1>7
  <2>2. call[b].drafter # d
    BY <2>1 DEF LeaveInv, DraftersAreLocked
  <2>3. m # l /\ leave'[m] = leave[m]
    BY <1>5, <2>1, <2>2
  <2>4. Live(m)
    BY <2>3 DEF Live
  <2>5. QED
    BY <2>1, <2>3, <2>4 DEF LeaveInv, ChecksStand, Apart
<1>13. NoDayTakenTwice'
  <2>1. ASSUME NEW m \in Leaves \ {l}, leave[m].drafter = d, Live(m), charged \cap leave[m].charged # {}
        PROVE  {span.half, leave[m].span.half} = {"am", "pm"}
    <3>1. m # call[c].leave
      BY <2>1, KindsDiffer
    <3>2. QED
      BY <2>1, <3>1 DEF LeaveInv, ChecksStand, Apart
  <2> HIDE DEF charged, span, d
  <2>2. ASSUME NEW k \in Leaves, NEW m \in Leaves, k # m,
               leave'[k].drafter = leave'[m].drafter,
               {leave'[k].status, leave'[m].status} \subseteq {"in_review", "approved"},
               leave'[k].charged \cap leave'[m].charged # {}
        PROVE  {leave'[k].span.half, leave'[m].span.half} = {"am", "pm"}
    <3>1. leave'[k].status \in {"in_review", "approved"} /\ leave'[m].status \in {"in_review", "approved"}
      BY <2>2
    <3>2. CASE k = l
      <4>1. leave'[m] = leave[m] /\ Live(m)
        BY <1>5, <2>2, <3>1, <3>2 DEF Live
      <4>2. QED
        BY <1>5, <2>1, <2>2, <3>2, <4>1
    <3>3. CASE m = l
      <4>1. leave'[k] = leave[k] /\ Live(k)
        BY <1>5, <2>2, <3>1, <3>3 DEF Live
      <4>2. charged \cap leave[k].charged # {}
        BY <1>5, <2>2, <3>3, <4>1
      <4>3. {span.half, leave[k].span.half} = {"am", "pm"}
        BY <1>5, <2>1, <2>2, <3>3, <4>1, <4>2
      <4>4. QED
        BY <1>5, <3>3, <4>1, <4>3
    <3>4. CASE k # l /\ m # l
      <4>1. leave'[k] = leave[k] /\ leave'[m] = leave[m]
        BY <1>5, <3>4
      <4>2. {leave[k].status, leave[m].status} \subseteq {"in_review", "approved"}
        BY <3>1, <4>1
      <4>3. leave[k].drafter = leave[m].drafter /\ leave[k].charged \cap leave[m].charged # {}
        BY <2>2, <4>1
      <4>4. {leave[k].span.half, leave[m].span.half} = {"am", "pm"}
        BY <2>2, <4>2, <4>3 DEF LeaveInv, NoDayTakenTwice
      <4>5. QED
        BY <4>1, <4>4
    <3>5. QED
      BY <3>2, <3>3, <3>4
  <2>3. QED
    BY <2>2 DEF NoDayTakenTwice
<1>14. QED
  BY <1>8, <1>9, <1>10, <1>11, <1>12, <1>13 DEF LeaveInv

LEMMA DecisionKeepsInv ==
    ASSUME LeaveInv, NumberingTypeOK', NEW l \in Leaves, Decide(l)
    PROVE  LeaveInv'
<1>1. PICK status \in {"approved", "rejected"} :
        leave' = [leave EXCEPT ![l] = [leave[l] EXCEPT !.status = status, !.version = leave[l].version + 1]]
  BY DEF Decide, Rewritten
<1>2. leave[l] \in Rows /\ leave[l].status = "in_review"
  BY DEF Decide, LeaveInv, TypeOK
<1> DEFINE row == [leave[l] EXCEPT !.status = status, !.version = leave[l].version + 1]
<1>3. /\ row \in Rows
      /\ row.status = status /\ row.drafter = leave[l].drafter
      /\ row.span = leave[l].span /\ row.charged = leave[l].charged
  <2>1. leave[l].version + 1 \in Nat
    BY <1>2 DEF Rows
  <2>2. QED
    BY <1>2, <2>1 DEF Rows
<1> HIDE DEF row
<1>4. leave' \in [Leaves -> Rows] /\ leave'[l] = row /\ \A m \in Leaves \ {l} : leave'[m] = leave[m]
  BY <1>1, <1>3 DEF row, LeaveInv, TypeOK
<1>5. \A m \in Leaves :
         /\ leave'[m].drafter = leave[m].drafter /\ leave'[m].span = leave[m].span
         /\ leave'[m].charged = leave[m].charged
         /\ leave'[m].status \in {"in_review", "approved"} => leave[m].status \in {"in_review", "approved"}
  BY <1>2, <1>3, <1>4
<1>6. UNCHANGED <<holidays, call, number>>
  BY DEF Decide, numberingVars
<1>7. TypeOK'
  BY <1>4, <1>6 DEF LeaveInv, TypeOK
<1>8. RequestsAreClean' /\ DraftersAreLocked'
  BY <1>6 DEF LeaveInv, RequestsAreClean, DraftersAreLocked
<1>9. ChargesAreDays'
  BY <1>5 DEF LeaveInv, ChargesAreDays
<1>10. ChecksStand'
  BY <1>5, <1>6 DEF LeaveInv, ChecksStand, Live, Apart
<1>11. NoDayTakenTwice'
  <2>1. ASSUME NEW k \in Leaves, NEW m \in Leaves, k # m,
               leave'[k].drafter = leave'[m].drafter,
               {leave'[k].status, leave'[m].status} \subseteq {"in_review", "approved"},
               leave'[k].charged \cap leave'[m].charged # {}
        PROVE  {leave'[k].span.half, leave'[m].span.half} = {"am", "pm"}
    <3>1. {leave[k].status, leave[m].status} \subseteq {"in_review", "approved"}
      BY <1>5, <2>1
    <3>2. QED
      BY <1>5, <2>1, <3>1 DEF LeaveInv, NoDayTakenTwice
  <2>2. QED
    BY <2>1 DEF NoDayTakenTwice
<1>12. QED
  BY <1>7, <1>8, <1>9, <1>10, <1>11 DEF LeaveInv

\* What is not about requests or rows.
LEMMA OthersKeepInv ==
    ASSUME LeaveInv, NumberingTypeOK', UNCHANGED <<leave, call>>, holidays' \subseteq Days,
           \A c \in Calls : number'[c].kind = number[c].kind
    PROVE  LeaveInv'
<1>1. TypeOK' /\ RequestsAreClean' /\ DraftersAreLocked'
  BY DEF LeaveInv, TypeOK, RequestsAreClean, DraftersAreLocked
<1>2. ChecksStand' /\ ChargesAreDays' /\ NoDayTakenTwice'
  BY DEF LeaveInv, ChecksStand, ChargesAreDays, NoDayTakenTwice, Live, Apart
<1>3. QED
  BY <1>1, <1>2 DEF LeaveInv

-----------------------------------------------------------------------------
LEMMA TakesKind ==
    ASSUME NumberingTypeOK, NEW c \in Calls, NEW r, Takes(c, r)
    PROVE  number'[c] = r /\ \A b \in Calls \ {c} : number'[b] = number[b]
BY DEF NumberingTypeOK, Takes

LEMMA ActKeepsInv ==
    ASSUME LeaveInv, NumberingTypeOK', NEW c \in Calls, Act(c)
    PROVE  LeaveInv'
<1>1. /\ call[c] \in Requests /\ leave \in [Leaves -> Rows]
      /\ NumberingTypeOK /\ holidays \subseteq Days
  BY DEF LeaveInv, TypeOK
<1>2. Idle \in Requests /\ NoNumber.kind = ""
  BY NothingHasType
<1>3. call[c].pc = "idle" => call[c] = Idle /\ number[c].kind = ""
  BY DEF LeaveInv, RequestsAreClean
<1>4. ASSUME NEW k, AskNumber(c, k, year) \/ \E p \in Projects : AskNumber(c, k, p)
      PROVE  number'[c].kind = k /\ \A b \in Calls \ {c} : number'[b].kind = number[b].kind
  <2>1. PICK p : Takes(c, [NoNumber EXCEPT !.step = "asked", !.kind = k, !.period = p])
    BY <1>4 DEF AskNumber
  <2> DEFINE r == [NoNumber EXCEPT !.step = "asked", !.kind = k, !.period = p]
  <2>2. r.kind = k
    BY DEF NoNumber
  <2> HIDE DEF r
  <2>3. Takes(c, r)
    BY <2>1 DEF r
  <2>4. QED
    BY <1>1, <2>2, <2>3, TakesKind
<1>5. ASSUME DropNumber(c) \/ ClashNumber(c) \/ IssueNumber(c), End(c)
      PROVE  Moves(c, Idle, "")
  BY <1>1, <1>2, <1>5, TakesKind DEF DropNumber, ClashNumber, IssueNumber, End, Moves
<1>6. CASE AskLeave(c)
  <2> DEFINE r == [call[c] EXCEPT !.pc = "read", !.table = holidays]
  <2>1. Idle.drafter = Nothing /\ Idle.leave = Nothing
    BY DEF Idle
  <2>2. r \in Requests /\ r.pc = "read" /\ r.drafter = Nothing /\ r.leave = Nothing
    BY <1>1, <1>3, <1>6, <2>1 DEF AskLeave, Requests
  <2>3. Becomes(c, r) /\ UNCHANGED <<leave, holidays>>
    BY <1>6 DEF AskLeave
  <2>4. number'[c].kind = LeaveKind /\ \A b \in Calls \ {c} : number'[b].kind = number[b].kind
    BY <1>4, <1>6 DEF AskLeave
  <2> HIDE DEF r
  <2>5. Moves(c, r, LeaveKind)
    BY <2>2, <2>3, <2>4 DEF Moves
  <2>6. QED
    BY <1>1, <2>2, <2>3, <2>5, MovesKeepInv
<1>7. ASSUME NEW l \in Leaves, AskAgain(c, l)
      PROVE  LeaveInv'
  <2> DEFINE r == [call[c] EXCEPT !.pc = "read", !.table = holidays, !.leave = l, !.version = leave[l].version]
  <2>1. Idle.drafter = Nothing
    BY DEF Idle
  <2>2. leave[l].version \in Nat
    BY <1>1 DEF Rows
  <2>3. r \in Requests /\ r.pc = "read" /\ r.drafter = Nothing
    BY <1>1, <1>3, <1>7, <2>1, <2>2 DEF AskAgain, Requests
  <2>4. Becomes(c, r) /\ UNCHANGED <<leave, holidays, number>>
    BY <1>7 DEF AskAgain, numberingVars
  <2> HIDE DEF r
  <2>5. Moves(c, r, "")
    BY <1>3, <1>7, <2>3, <2>4 DEF Moves, AskAgain
  <2>6. QED
    BY <1>1, <2>3, <2>4, <2>5, MovesKeepInv
<1>8. ASSUME NEW p \in Projects, AskExpense(c, p)
      PROVE  LeaveInv'
  <2> DEFINE r == [call[c] EXCEPT !.pc = "checked"]
  <2>1. Idle.drafter = Nothing /\ Idle.leave = Nothing
    BY DEF Idle
  <2>2. r \in Requests /\ r.pc = "checked" /\ r.drafter = Nothing /\ r.leave = Nothing
    BY <1>1, <1>3, <1>8, <2>1 DEF AskExpense, Requests
  <2>3. Becomes(c, r) /\ UNCHANGED <<leave, holidays>>
    BY <1>8 DEF AskExpense
  <2>4. number'[c].kind = ExpenseKind /\ \A b \in Calls \ {c} : number'[b].kind = number[b].kind
    BY <1>4, <1>8 DEF AskExpense
  <2> HIDE DEF r
  <2>5. Moves(c, r, ExpenseKind)
    BY <2>2, <2>3, <2>4 DEF Moves
  <2>6. QED
    BY <1>1, <2>2, <2>3, <2>5, MovesKeepInv
<1>9. ASSUME NEW d \in Drafters, NEW span \in Spans, Refuse(c, d, span)
      PROVE  LeaveInv'
  <2>1. Moves(c, Idle, "") /\ UNCHANGED <<leave, holidays>>
    BY <1>5, <1>9 DEF Refuse
  <2>2. QED
    BY <1>1, <2>1, MovesKeepInv
<1>10. CASE Fail(c)
  <2>1. Moves(c, Idle, "") /\ UNCHANGED <<leave, holidays>>
    BY <1>5, <1>10 DEF Fail
  <2>2. QED
    BY <1>1, <2>1, MovesKeepInv
<1>11. CASE CommitExpense(c)
  <2>1. Moves(c, Idle, "") /\ UNCHANGED <<leave, holidays>>
    BY <1>5, <1>11 DEF CommitExpense
  <2>2. QED
    BY <1>1, <2>1, MovesKeepInv
<1>12. CASE CommitLeave(c)
  <2>1. PICK l \in Unused : Written(c, l)
    BY <1>12 DEF CommitLeave
  <2>2. /\ call[c].pc = "checked" /\ number[c].kind = LeaveKind
        /\ Moves(c, Idle, "") /\ UNCHANGED holidays
    BY <1>5, <1>12 DEF CommitLeave
  <2>3. call[c].leave = Nothing /\ call[c].drafter \in Drafters
    BY <2>2, KindsDiffer DEF LeaveInv, RequestsAreClean
  <2>4. l \in Leaves
    BY DEF Unused
  <2>5. QED
    BY <2>1, <2>2, <2>3, <2>4, WriteKeepsInv
<1>13. CASE CommitAgain(c)
  <2> DEFINE l == call[c].leave
  <2>1. /\ call[c].pc = "checked" /\ l # Nothing /\ Written(c, l)
        /\ End(c) /\ UNCHANGED <<holidays, number>>
    BY <1>13 DEF CommitAgain, numberingVars
  <2>2. l \in Leaves
    BY <1>1, <2>1 DEF Requests
  <2>3. call[c].drafter \in Drafters /\ number[c].kind = ""
    BY <2>1 DEF LeaveInv, RequestsAreClean
  <2>4. Moves(c, Idle, "")
    BY <1>2, <2>1, <2>3 DEF Moves, End
  <2>5. QED
    BY <2>1, <2>2, <2>3, <2>4, WriteKeepsInv
<1>14. CASE Numbering(c)
  <2>1. UNCHANGED <<leave, holidays, call>>
    BY <1>14 DEF Numbering, leaveVars
  <2>2. PICK r : Takes(c, r) /\ r.kind = number[c].kind
    <3>1. number[c] \in Allocations
      BY <1>1 DEF NumberingTypeOK
    <3>2. CASE Count(c)
      <4>1. PICK seq : Takes(c, [number[c] EXCEPT !.step = "counted", !.seq = seq])
        BY <3>2 DEF Count
      <4>2. [number[c] EXCEPT !.step = "counted", !.seq = seq].kind = number[c].kind
        BY <3>1 DEF Allocations
      <4>3. QED
        BY <4>1, <4>2
    <3>3. CASE ReadStart(c)
      <4>1. PICK first : Takes(c, [number[c] EXCEPT !.step = "numbered", !.first = first])
        BY <3>3 DEF ReadStart
      <4>2. [number[c] EXCEPT !.step = "numbered", !.first = first].kind = number[c].kind
        BY <3>1 DEF Allocations
      <4>3. QED
        BY <4>1, <4>2
    <3>4. QED
      BY <1>14, <3>2, <3>3 DEF Numbering
  <2>3. QED
    BY <1>1, <2>1, <2>2, TakesKind, OthersKeepInv
<1>15. QED
  BY <1>6, <1>7, <1>8, <1>9, <1>10, <1>11, <1>12, <1>13, <1>14, CheckKeepsInv DEF Act

LEMMA StepKeepsInv == IInv /\ [Next]_vars => IInv'
<1> SUFFICES ASSUME IInv, [Next]_vars PROVE IInv'
  OBVIOUS
<1>1. NumberingInv'
  BY StepsAreNumberingSteps, NumberingStepKeepsInv DEF IInv
<1>2. NumberingTypeOK' /\ LeaveInv /\ holidays \subseteq Days
  BY <1>1 DEF NumberingInv, IInv, LeaveInv, TypeOK
<1>3. ASSUME NEW day \in Days, ChangeTable(day)
      PROVE  LeaveInv'
  BY <1>2, <1>3, OthersKeepInv DEF ChangeTable, numberingVars
<1>4. ASSUME Settings PROVE LeaveInv'
  <2>1. UNCHANGED <<leave, holidays, call, number>>
    BY <1>4 DEF Settings, leaveVars, TurnYear, SaveStart
  <2>2. QED
    BY <1>2, <2>1, OthersKeepInv
<1>5. ASSUME UNCHANGED vars PROVE LeaveInv'
  <2>1. UNCHANGED <<leave, holidays, call, number>>
    BY <1>5 DEF vars, numberingVars
  <2>2. QED
    BY <1>2, <2>1, OthersKeepInv
<1>6. LeaveInv'
  <2>1. ASSUME NEW c \in Calls, Act(c) PROVE LeaveInv'
    BY <1>2, <2>1, ActKeepsInv
  <2>2. ASSUME NEW l \in Leaves, Decide(l) PROVE LeaveInv'
    BY <1>2, <2>2, DecisionKeepsInv
  <2>3. QED
    BY <1>3, <1>4, <1>5, <2>1, <2>2 DEF Next
<1>7. QED
  BY <1>1, <1>6 DEF IInv

-----------------------------------------------------------------------------
(* Theorems.                                                               *)

\* The inductive invariant: what a request has been checked against stands
\* until it commits, and whoever numbers a document holds its counter.
THEOREM InvariantHolds == Spec => []IInv
<1>1. QED
  BY InitInv, StepKeepsInv, PTL DEF Spec

\* Every variable stays within its type.
THEOREM TypeCorrectness == Spec => []TypeOK
<1>1. IInv => TypeOK
  BY DEF IInv, LeaveInv
<1>2. QED
  BY <1>1, InvariantHolds, PTL

\* No working day is taken by two live requests of a drafter: the lock of the
\* drafter makes the check and the write one (lockLeaveDrafter,
\* findLiveLeaveOverlap).
THEOREM DaysAreTakenOnce == Spec => []NoDayTakenTwice
<1>1. IInv => NoDayTakenTwice
  BY DEF IInv, LeaveInv
<1>2. QED
  BY <1>1, InvariantHolds, PTL

\* The unique index refuses no number but one of a year that has ended or of
\* a kind whose first number was saved while the year turned
\* (assertSeqStartNotLowered, shareLockDocumentCounter).
THEOREM NumbersAreNeverRefused == Spec => []NumbersAreNew
<1>1. IInv => NumbersAreNew
  BY DEF IInv, NumberingInv
<1>2. QED
  BY <1>1, InvariantHolds, PTL
=============================================================================
