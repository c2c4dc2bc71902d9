------------------------ MODULE EvidenceUploadProofs ------------------------
(***************************************************************************)
(* Theorems about EvidenceUpload, for any number of people, intents,       *)
(* completion requests and types of evidence, and for all bounds.          *)
(***************************************************************************)
EXTENDS EvidenceUpload, TLAPS

\* A request that has begun is about an intent that exists.
CallsHaveIntents ==
    \A c \in Calls : call[c].pc # "idle" =>
        call[c].intent \in Intents /\ Exists(call[c].intent)

\* A file was made for an intent, which it completed.
FilesComplete ==
    \A f \in Calls : file[f].state # "none" =>
        /\ file[f].intent \in Intents
        /\ intent[file[f].intent].done

\* A request makes its file at its end; whoever made one and compensates did
\* not hear of the commit.
FilesEndRequests ==
    \A c \in Calls : file[c].state # "none" =>
        /\ call[c].pc \in {"done", "undo", "refused"}
        /\ call[c].pc = "undo" => c \in unheard

\* While the generation that was read is still there, its content is known.
GenerationsAreChecked ==
    \A c \in Calls : call[c].pc \in {"head", "copy"} =>
        /\ call[c].gen <= incoming[call[c].intent].gen
        /\ call[c].pc = "copy" /\ Pinned(c) => incoming[call[c].intent].content = "declared"

\* What was copied is what was checked.
CopiesAreChecked ==
    \A c \in Calls : call[c].pc \in {"source", "load", "lock", "read", "attach"} =>
        evidence[c] = "declared"

\* What the second read saw stands, but for what approvers do: and that moves
\* the version.
OwnersAreLocked ==
    \A c \in Calls :
        /\ call[c].pc \in {"lock", "read", "attach"} => call[c].type \in Types
        /\ call[c].pc = "attach" =>
              LET owner == call[c].owner
              IN  /\ owner \in Documents
                  /\ owner.type = doc.type
                  /\ owner.version <= doc.version
                  /\ owner.version = doc.version => owner.status = doc.status
                  /\ owner.status \in {"draft", "returned"} => owner.status = doc.status
                  /\ call[c].approved => owner.completed = doc.completed

\* A screen has an older version or, if it read the version first, all files.
ScreensAreCurrent ==
    /\ looked.version <= doc.version
    /\ looked.door = "sheet" =>
         /\ "version" \notin looked.left
         /\ looked.left = {} /\ doc.status = "in_review" /\ doc.version = looked.version
              => looked.files = Alive

IInv ==
    /\ TypeOK
    /\ OneFilePerIntent
    /\ FilesHaveObjects
    /\ CallsHaveIntents
    /\ FilesComplete
    /\ FilesEndRequests
    /\ GenerationsAreChecked
    /\ CopiesAreChecked
    /\ OwnersAreLocked
    /\ ScreensAreCurrent

-----------------------------------------------------------------------------
(* Requests.                                                               *)

LEMMA RequestsHaveType ==
    /\ Idle \in Requests
    /\ NoFile \in Rows
    /\ NoIntent \in [by : Users \cup {Nobody}, done : BOOLEAN]
    /\ NoObject \in [content : Contents, gen : Nat]
BY DEF Idle, Requests, Steps, NoFile, Rows, NoIntent, NoObject, Contents

LEMMA RequestsEnd ==
    ASSUME TypeOK, NEW c \in Calls, NEW pc \in {"done", "refused"}
    PROVE  [Idle EXCEPT !.pc = pc, !.intent = call[c].intent] \in Requests
<1>1. call[c].intent \in Intents \cup {Nobody}
  BY DEF TypeOK, Requests
<1>2. pc \in Steps
  BY DEF Steps
<1>3. QED
  BY <1>1, <1>2, RequestsHaveType DEF Requests

\* A completion changes one request.
LEMMA CompletionsChangeOneCall ==
    ASSUME TypeOK, CallsHaveIntents, NEW c \in Calls, Complete(c)
    PROVE  \E r \in Requests : Becomes(c, r)
<1> DEFINE changes == \E r \in Requests : Becomes(c, r)
           i == call[c].intent
<1>1. /\ call[c] \in Requests
      /\ call[c].pc \in {"meta", "head"} => i \in Intents
  BY DEF TypeOK, CallsHaveIntents
<1>2. ASSUME NEW pc \in {"done", "refused"}, End(c, pc)
      PROVE  changes
  BY <1>2, RequestsEnd DEF End
<1>3. ASSUME NEW pc \in Steps, Reach(c, pc)
      PROVE  changes
  <2>1. [call[c] EXCEPT !.pc = pc] \in Requests
    BY <1>1 DEF Requests
  <2>2. QED
    BY <1>3, <2>1 DEF Reach
<1>4. ASSUME NEW j \in Intents, Notify(c, j)
      PROVE  changes
  <2>1. [call[c] EXCEPT !.pc = "meta", !.intent = j] \in Requests
    BY <1>1 DEF Requests, Steps
  <2>2. QED
    BY <1>4, <2>1 DEF Notify
<1>5. CASE ReadMetadata(c)
  <2>1. incoming[i].gen \in Nat
    BY <1>1, <1>5 DEF ReadMetadata, TypeOK
  <2>2. [call[c] EXCEPT !.pc = "head", !.gen = incoming[i].gen] \in Requests
    BY <1>1, <2>1 DEF Requests, Steps
  <2>3. QED
    BY <1>2, <1>5, <2>2 DEF ReadMetadata
<1>6. CASE LoadBefore(c)
  <2>1. /\ doc.type \in Types
        /\ private[doc.type] \in BOOLEAN
        /\ (doc.status = "approved") \in BOOLEAN
    BY DEF TypeOK, Documents
  <2>2. [call[c] EXCEPT !.pc = "lock", !.type = doc.type, !.private = private[doc.type],
                        !.approved = (doc.status = "approved")] \in Requests
    BY <1>1, <2>1 DEF Requests, Steps
  <2>3. QED
    BY <1>6, <2>2 DEF LoadBefore
<1>7. CASE ReadOwner(c)
  <2>1. doc \in Documents
    BY DEF TypeOK
  <2>2. [call[c] EXCEPT !.pc = "attach", !.owner = doc] \in Requests
    BY <1>1, <2>1 DEF Requests, Steps
  <2>3. QED
    BY <1>7, <2>2 DEF ReadOwner
<1>8. CASE ReadHead(c) \/ Copy(c) \/ DeleteSource(c) \/ Lock(c) \/ Attach(c) \/ Compensate(c) \/ Crash(c)
  BY <1>2, <1>3, <1>8 DEF ReadHead, Copy, DeleteSource, Lock, Attach, Compensate, Crash, Steps
<1>9. QED
  BY <1>4, <1>5, <1>6, <1>7, <1>8 DEF Complete

-----------------------------------------------------------------------------
LEMMA InitInv == Init => IInv
<1> SUFFICES ASSUME Init PROVE IInv
  OBVIOUS
<1>1. doc \in Documents /\ doc.status = "draft"
  BY DEF Init, Documents
<1>2. private \in [Types -> BOOLEAN]
  <2>1. private = [t \in Types |-> t \in PrivateFirst]
    BY DEF Init
  <2>2. \A t \in Types : (t \in PrivateFirst) \in BOOLEAN
    OBVIOUS
  <2>3. QED
    BY <2>1, <2>2, Zenon
<1>3. TypeOK
  <2>1. /\ call \in [Calls -> Requests]
        /\ file \in [Calls -> Rows]
        /\ intent \in [Intents -> [by : Users \cup {Nobody}, done : BOOLEAN]]
        /\ incoming \in [Intents -> [content : Contents, gen : Nat]]
    BY RequestsHaveType DEF Init
  <2>2. /\ evidence \in [Calls -> Contents]
        /\ looked \in Screens
        /\ unheard \subseteq Calls
    BY DEF Init, Contents, NotLooked, Screens
  <2>3. QED
    BY <1>1, <1>2, <2>1, <2>2 DEF TypeOK
<1>4. \A c \in Calls : call[c] = Idle /\ call[c].pc = "idle" /\ file[c] = NoFile /\ file[c].state = "none"
  BY DEF Init, Idle, NoFile
<1>5. ScreensAreCurrent
  <2>1. looked.door = "none" /\ looked.version = 0 /\ doc.version = 0
    BY DEF Init, NotLooked
  <2>2. QED
    BY <1>1, <2>1 DEF ScreensAreCurrent
<1>6. QED
  BY <1>3, <1>4, <1>5 DEF IInv, OneFilePerIntent, FilesHaveObjects, CallsHaveIntents,
     FilesComplete, FilesEndRequests, GenerationsAreChecked, CopiesAreChecked, OwnersAreLocked

-----------------------------------------------------------------------------
\* What a completion does to the bucket: it deletes an incoming object, or it
\* writes or deletes the object of its own file.
LEMMA CompletionsKeepBucket ==
    ASSUME NEW c \in Calls, Complete(c)
    PROVE  /\ UNCHANGED <<private, looked>>
           /\ \/ UNCHANGED incoming
              \/ call[c].pc # "idle" /\ incoming' = Deleted(call[c].intent)
           /\ \/ UNCHANGED evidence
              \/ /\ call[c].pc = "copy" /\ MayCopy(c)
                 /\ evidence' = [evidence EXCEPT ![c] = incoming[call[c].intent].content]
              \/ /\ call[c].pc = "undo"
                 /\ evidence' = [evidence EXCEPT ![c] = "none"]
<1>1. CASE \E i \in Intents : Notify(c, i)
  BY <1>1 DEF Notify
<1>2. CASE ReadMetadata(c) \/ ReadHead(c)
  BY <1>2 DEF ReadMetadata, ReadHead
<1>3. CASE Copy(c) \/ Compensate(c)
  BY <1>3 DEF Copy, Compensate, KeyOf
<1>4. CASE DeleteSource(c) \/ LoadBefore(c) \/ Lock(c) \/ ReadOwner(c) \/ Attach(c) \/ Crash(c)
  BY <1>4 DEF DeleteSource, LoadBefore, Lock, ReadOwner, Attach, Crash
<1>5. QED
  BY <1>1, <1>2, <1>3, <1>4 DEF Complete

\* What it does to the database: nothing before its commit.
LEMMA CompletionsKeepDatabase ==
    ASSUME NEW c \in Calls, Complete(c)
    PROVE  \/ UNCHANGED <<doc, intent, file, unheard>>
           \/ /\ call[c].pc = "attach" /\ Commit(c)
              /\ \/ End(c, "done") /\ UNCHANGED unheard
                 \/ Reach(c, "undo") /\ unheard' = unheard \cup {c}
<1>1. CASE \E i \in Intents : Notify(c, i)
  BY <1>1 DEF Notify
<1>2. CASE Attach(c)
  BY <1>2 DEF Attach
<1>3. CASE ReadMetadata(c) \/ ReadHead(c) \/ Copy(c) \/ Compensate(c)
  BY <1>3 DEF ReadMetadata, ReadHead, Copy, Compensate
<1>4. CASE DeleteSource(c) \/ LoadBefore(c) \/ Lock(c) \/ ReadOwner(c) \/ Crash(c)
  BY <1>4 DEF DeleteSource, LoadBefore, Lock, ReadOwner, Crash
<1>5. QED
  BY <1>1, <1>2, <1>3, <1>4 DEF Complete

LEMMA VersionsMove ==
    ASSUME NEW d \in Documents
    PROVE  /\ \A v \in Nat : [d EXCEPT !.version = v] \in Documents
           /\ \A status \in {"in_review", "approved", "returned"} :
                 [d EXCEPT !.status = status, !.version = @ + 1] \in Documents
<1>1. \A v \in Nat : [d EXCEPT !.version = v] \in Documents
  BY DEF Documents
<1>2. ASSUME NEW status \in {"in_review", "approved", "returned"}
      PROVE  [d EXCEPT !.status = status, !.version = @ + 1] \in Documents
  <2>1. d.version + 1 \in Nat
    BY DEF Documents
  <2>2. QED
    BY <2>1 DEF Documents
<1>3. QED
  BY <1>1, <1>2

\* The row of a file and the intent it completes, at a commit.
LEMMA CommitsWriteRows ==
    ASSUME TypeOK, CallsHaveIntents, NEW c \in Calls, call[c].pc = "attach", Commit(c)
    PROVE  /\ call[c].intent \in Intents
           /\ intent' = [intent EXCEPT ![call[c].intent].done = TRUE]
           /\ \E row \in Rows :
                 /\ file' = [file EXCEPT ![c] = row]
                 /\ row.intent = call[c].intent
                 /\ row.by = intent[call[c].intent].by
                 /\ row.private = call[c].private
                 /\ row.state = "alive"
           /\ NewVersion(c) \in Nat
           /\ doc' = [doc EXCEPT !.version = NewVersion(c)]
<1> DEFINE i == call[c].intent
           row == [intent |-> i, by |-> intent[i].by, private |-> call[c].private, state |-> "alive"]
<1>1. i \in Intents
  BY DEF CallsHaveIntents
<1>2. intent[i].by \in Users \cup {Nobody} /\ call[c].private \in BOOLEAN
  BY <1>1 DEF TypeOK, Requests
<1>3. row \in Rows
  BY <1>1, <1>2 DEF Rows
<1>4. NewVersion(c) \in Nat
  BY DEF TypeOK, Documents, NewVersion
<1>5. QED
  BY <1>1, <1>3, <1>4 DEF Commit

\* A screen that opens or reads on: one answer arrives.
LEMMA ScreensRead ==
    ASSUME TypeOK, (\E door \in Doors : OpenScreen(door)) \/ ReadOn
    PROVE  \E screen \in Screens, what \in Reads :
             /\ Arrives(what, screen)
             /\ \/ screen.left = Reads /\ screen.version = 0 /\ (screen.door = "sheet" => what = "version")
                \/ screen = looked /\ what \in looked.left
<1>1. looked \in Screens
  BY DEF TypeOK
<1>2. ASSUME NEW door \in Doors, OpenScreen(door)
      PROVE  \E screen \in Screens, what \in Reads :
               /\ Arrives(what, screen)
               /\ screen.left = Reads /\ screen.version = 0 /\ (screen.door = "sheet" => what = "version")
  <2> DEFINE screen == [NotLooked EXCEPT !.door = door, !.left = Reads]
  <2>1. /\ screen \in Screens /\ screen.left = Reads /\ screen.door = door
        /\ screen.version = 0
    BY DoorsAreScreens DEF NotLooked, Screens
  <2>2. PICK what \in FirstReads(door) : Arrives(what, screen)
    BY <1>2 DEF OpenScreen
  <2>3. what \in Reads /\ (door = "sheet" => what = "version")
    BY <2>2 DEF FirstReads, Reads
  <2> HIDE DEF screen
  <2>4. QED
    BY <2>1, <2>2, <2>3
<1>3. ASSUME ReadOn
      PROVE  \E what \in Reads : Arrives(what, looked) /\ what \in looked.left
  BY <1>1, <1>3 DEF ReadOn, Screens
<1>4. QED
  BY <1>1, <1>2, <1>3

\* What an answer makes of a screen.
LEMMA AnswersArrive ==
    ASSUME TypeOK, NEW screen \in Screens, NEW what \in Reads, Arrives(what, screen)
    PROVE  /\ looked' \in Screens
           /\ looked'.door = screen.door /\ looked'.left = screen.left \ {what}
           /\ looked'.version = IF what = "version" THEN doc.version ELSE screen.version
           /\ looked'.files = IF what = "files" THEN Alive ELSE screen.files
           /\ UNCHANGED <<doc, private, intent, incoming, evidence, file, call, unheard, edits>>
<1>1. doc.version \in Nat /\ Alive \in SUBSET Calls /\ private[doc.type] \in BOOLEAN
  BY DEF TypeOK, Documents, Alive
<1>2. looked' = [screen EXCEPT
           !.left = screen.left \ {what},
           !.version = IF what = "version" THEN doc.version ELSE screen.version,
           !.files = IF what = "files" THEN Alive ELSE screen.files,
           !.private = IF what = "files" THEN private[doc.type] ELSE screen.private]
  BY DEF Arrives
<1> DEFINE left == screen.left \ {what}
           version == IF what = "version" THEN doc.version ELSE screen.version
           files == IF what = "files" THEN Alive ELSE screen.files
           secret == IF what = "files" THEN private[doc.type] ELSE screen.private
<1>3. /\ left \in SUBSET Reads /\ version \in Nat
      /\ files \in SUBSET Calls /\ secret \in BOOLEAN
      /\ screen.door \in {"none", "sheet", "page"}
  BY <1>1 DEF Screens
<1>4. looked' = [door |-> screen.door, left |-> left, version |-> version,
                 files |-> files, private |-> secret]
  BY <1>2 DEF Screens
<1> HIDE DEF left, version, files, secret
<1>5. /\ looked' \in Screens /\ looked'.door = screen.door /\ looked'.left = left
      /\ looked'.version = version /\ looked'.files = files
  BY <1>3, <1>4 DEF Screens
<1>6. QED
  BY <1>5 DEF Arrives, left, version, files

LEMMA LooksHaveType ==
    ASSUME TypeOK, (\E door \in Doors : OpenScreen(door)) \/ ReadOn
    PROVE  /\ looked' \in Screens
           /\ UNCHANGED <<doc, private, intent, incoming, evidence, file, call, unheard, edits>>
BY ScreensRead, AnswersArrive

LEMMA StepKeepsType ==
    ASSUME TypeOK, CallsHaveIntents, [Next]_vars
    PROVE  TypeOK'
<1>1. ASSUME NEW i \in Intents, NEW u \in Users, RequestUpload(i, u) PROVE TypeOK'
  BY <1>1 DEF RequestUpload, TypeOK
<1>2. ASSUME NEW i \in Intents, NEW content \in Contents \ {"none"}, Put(i, content)
      PROVE  TypeOK'
  BY <1>2 DEF Put, TypeOK
<1>3. ASSUME NEW c \in Calls, Complete(c) PROVE TypeOK'
  <2>1. call' \in [Calls -> Requests]
    BY <1>3, CompletionsChangeOneCall DEF TypeOK, Becomes
  <2>2. incoming' \in [Intents -> [content : Contents, gen : Nat]]
    <3>1. CASE call[c].intent \in Intents /\ incoming' = Deleted(call[c].intent)
      BY <3>1 DEF TypeOK, Deleted, Contents
    <3>2. QED
      BY <1>3, <3>1, CompletionsKeepBucket DEF TypeOK, CallsHaveIntents
  <2>3. evidence' \in [Calls -> Contents]
    <3>1. call[c].pc = "copy" => incoming[call[c].intent].content \in Contents
      BY DEF TypeOK, CallsHaveIntents
    <3>2. QED
      BY <1>3, <3>1, CompletionsKeepBucket DEF TypeOK, Contents
  <2>4. /\ file' \in [Calls -> Rows] /\ doc' \in Documents
        /\ intent' \in [Intents -> [by : Users \cup {Nobody}, done : BOOLEAN]]
        /\ unheard' \subseteq Calls
    <3>1. CASE UNCHANGED <<doc, intent, file, unheard>>
      BY <3>1 DEF TypeOK
    <3>2. CASE call[c].pc = "attach" /\ Commit(c) /\ unheard' \subseteq unheard \cup {c}
      <4>1. file' \in [Calls -> Rows]
        BY <3>2, CommitsWriteRows DEF TypeOK
      <4>2. doc' \in Documents
        <5>1. NewVersion(c) \in Nat /\ doc' = [doc EXCEPT !.version = NewVersion(c)]
          BY <3>2, CommitsWriteRows
        <5>2. QED
          BY <5>1, VersionsMove DEF TypeOK
      <4>3. intent' \in [Intents -> [by : Users \cup {Nobody}, done : BOOLEAN]]
        <5>1. intent' = [intent EXCEPT ![call[c].intent].done = TRUE]
          BY <3>2, CommitsWriteRows
        <5>2. QED
          BY <5>1 DEF TypeOK
      <4>4. QED
        BY <3>2, <4>1, <4>2, <4>3 DEF TypeOK
    <3>3. QED
      BY <1>3, <3>1, <3>2, CompletionsKeepDatabase
  <2>5. QED
    BY <1>3, <2>1, <2>2, <2>3, <2>4, CompletionsKeepBucket DEF TypeOK
<1>4. CASE Submit \/ Approve \/ Return
  <2>1. doc' \in Documents
    BY <1>4, VersionsMove DEF Submit, Approve, Return, Reaches, TypeOK
  <2>2. QED
    BY <1>4, <2>1 DEF Submit, Approve, Return, Reaches, TypeOK
<1>5. CASE (\E door \in Doors : OpenScreen(door)) \/ ReadOn
  BY <1>5, LooksHaveType DEF TypeOK
<1>6. ASSUME NEW t \in Types, EditType(t) PROVE TypeOK'
  BY <1>6 DEF EditType, Edit, TypeOK, Documents
<1>7. ASSUME NEW t \in Types, SetPrivate(t) PROVE TypeOK'
  BY <1>7 DEF SetPrivate, Edit, TypeOK
<1>8. CASE TurnProject
  BY <1>8 DEF TurnProject, Edit, TypeOK, Documents
<1>9. ASSUME NEW f \in Calls, Remove(f) \/ VoidFile(f) PROVE TypeOK'
  <2>1. \A state \in {"removed", "voided"} : [file[f] EXCEPT !.state = state] \in Rows
    BY DEF TypeOK, Rows
  <2>2. file' \in [Calls -> Rows]
    BY <1>9, <2>1 DEF Remove, VoidFile, Mark, TypeOK
  <2>3. QED
    BY <1>9, <2>2 DEF Remove, VoidFile, Mark, TypeOK
<1>10. CASE UNCHANGED vars
  BY <1>10 DEF vars, TypeOK
<1>11. QED
  BY <1>1, <1>2, <1>3, <1>4, <1>5, <1>6, <1>7, <1>8, <1>9, <1>10 DEF Next

-----------------------------------------------------------------------------
(* How a request moves.                                                    *)

\* What is kept of a request from one step to the next.
Kept(c) ==
    /\ call'[c].type = call[c].type
    /\ call'[c].approved = call[c].approved

Moves(c) ==
    LET from == call[c].pc
        to == call'[c].pc
        i == call[c].intent
    IN  \/ /\ from = "idle" /\ to = "meta"
           /\ call'[c].intent \in Intents /\ Exists(call'[c].intent)
        \/ /\ from # "idle"
           /\ call'[c].intent = i
           /\ \/ to = "refused" /\ UNCHANGED <<doc, intent, file, unheard>>
              \/ from = "meta" /\ to = "head" /\ call'[c].gen = incoming[i].gen /\ UNCHANGED incoming
              \/ /\ from = "head" /\ to = "copy" /\ call'[c].gen = call[c].gen
                 /\ incoming[i].content = "declared" /\ UNCHANGED incoming
              \/ from = "copy" /\ to = "source" /\ MayCopy(c) /\ evidence'[c] = incoming[i].content
              \/ from = "source" /\ to = "load"
              \/ from = "load" /\ to = "lock" /\ call'[c].type = doc.type
              \/ from = "lock" /\ to = "read" /\ Kept(c)
              \/ from = "read" /\ to = "attach" /\ Kept(c) /\ call'[c].owner = doc /\ UNCHANGED doc
              \/ from = "attach" /\ to \in {"done", "undo"}

LEMMA CompletionsMove ==
    ASSUME TypeOK, CallsHaveIntents, NEW c \in Calls, Complete(c)
    PROVE  Moves(c) /\ \A b \in Calls \ {c} : call'[b] = call[b]
<1>1. PICK r \in Requests : Becomes(c, r)
  BY CompletionsChangeOneCall
<1>2. call'[c] = r /\ \A b \in Calls \ {c} : call'[b] = call[b]
  BY <1>1 DEF Becomes, TypeOK
<1> SUFFICES Moves(c)
  BY <1>2
<1>3. ASSUME NEW q, Becomes(c, q)
      PROVE  call'[c] = q
  BY <1>3 DEF Becomes, TypeOK
<1>4. call[c] \in Requests
  BY DEF TypeOK
<1>5. ASSUME NEW pc, Reach(c, pc)
      PROVE  /\ call'[c].pc = pc /\ call'[c].intent = call[c].intent
             /\ call'[c].gen = call[c].gen /\ Kept(c)
  BY <1>3, <1>4, <1>5 DEF Reach, Requests, Kept
<1>6. ASSUME NEW pc, End(c, pc)
      PROVE  call'[c].pc = pc /\ call'[c].intent = call[c].intent
  BY <1>3, <1>6 DEF End, Idle
<1>7. ASSUME NEW i \in Intents, Notify(c, i)
      PROVE  Moves(c)
  <2>1. call'[c].pc = "meta" /\ call'[c].intent = i
    BY <1>3, <1>4, <1>7 DEF Notify, Requests
  <2>2. QED
    BY <1>7, <2>1 DEF Notify, Moves, Exists
<1>8. CASE ReadMetadata(c)
  <2>1. CASE End(c, "refused")
    BY <1>6, <1>8, <2>1 DEF ReadMetadata, Moves
  <2>2. CASE Becomes(c, [call[c] EXCEPT !.pc = "head", !.gen = incoming[call[c].intent].gen]) /\ UNCHANGED incoming
    <3>1. call'[c].pc = "head" /\ call'[c].intent = call[c].intent /\ call'[c].gen = incoming[call[c].intent].gen
      BY <1>3, <1>4, <2>2 DEF Requests
    <3>2. QED
      BY <1>8, <2>2, <3>1 DEF ReadMetadata, Moves
  <2>3. QED
    BY <1>8, <2>1, <2>2 DEF ReadMetadata
<1>9. CASE ReadHead(c)
  BY <1>5, <1>6, <1>9 DEF ReadHead, Moves
<1>10. CASE Copy(c)
  <2>1. CASE MayCopy(c) /\ evidence' = [evidence EXCEPT ![c] = incoming[call[c].intent].content] /\ Reach(c, "source")
    <3>1. evidence'[c] = incoming[call[c].intent].content
      BY <2>1 DEF TypeOK
    <3>2. QED
      BY <1>5, <1>10, <2>1, <3>1 DEF Copy, Moves
  <2>2. CASE End(c, "refused")
    BY <1>6, <1>10, <2>2 DEF Copy, Moves
  <2>3. QED
    BY <1>10, <2>1, <2>2 DEF Copy, KeyOf
<1>11. CASE DeleteSource(c)
  BY <1>5, <1>6, <1>11 DEF DeleteSource, Moves
<1>12. CASE LoadBefore(c)
  <2>1. call'[c].pc = "lock" /\ call'[c].intent = call[c].intent /\ call'[c].type = doc.type
    BY <1>3, <1>4, <1>12 DEF LoadBefore, Requests
  <2>2. QED
    BY <1>12, <2>1 DEF LoadBefore, Moves
<1>13. CASE Lock(c)
  BY <1>5, <1>13 DEF Lock, Moves
<1>14. CASE ReadOwner(c)
  <2>1. call'[c].pc = "attach" /\ call'[c].intent = call[c].intent /\ call'[c].owner = doc /\ Kept(c)
    BY <1>3, <1>4, <1>14 DEF ReadOwner, Requests, Kept
  <2>2. QED
    BY <1>14, <2>1 DEF ReadOwner, Moves
<1>15. CASE Attach(c)
  BY <1>5, <1>6, <1>15 DEF Attach, Moves
<1>16. CASE Compensate(c)
  BY <1>6, <1>16 DEF Compensate, Moves
<1>17. CASE Crash(c)
  BY <1>6, <1>17 DEF Crash, Moves
<1>18. QED
  BY <1>2, <1>7, <1>8, <1>9, <1>10, <1>11, <1>12, <1>13, <1>14, <1>15, <1>16, <1>17 DEF Complete

-----------------------------------------------------------------------------
(* What each step keeps.                                                   *)

\* What other people do leaves the requests and their copies alone.
LEMMA OthersKeepRequests ==
    ASSUME [Next]_vars
    PROVE  (\E c \in Calls : Complete(c)) \/ UNCHANGED <<call, evidence, unheard>>
BY DEF Next, vars, RequestUpload, Put, Submit, OpenScreen, ReadOn, Arrives, Approve, Return, Reaches,
   EditType, SetPrivate, TurnProject, Edit, Remove, VoidFile, Mark

\* An intent stays, and stays completed.
LEMMA IntentsStay ==
    ASSUME TypeOK, CallsHaveIntents, [Next]_vars, NEW i \in Intents
    PROVE  /\ Exists(i) => intent'[i].by = intent[i].by
           /\ intent[i].done => intent'[i].done
<1>1. CASE UNCHANGED intent
  BY <1>1
<1>2. ASSUME NEW j \in Intents, NEW u \in Users, RequestUpload(j, u)
      PROVE  /\ Exists(i) => intent'[i].by = intent[i].by
             /\ intent[i].done => intent'[i].done
  BY <1>2 DEF RequestUpload, Exists, TypeOK
<1>3. ASSUME NEW c \in Calls, Complete(c)
      PROVE  /\ Exists(i) => intent'[i].by = intent[i].by
             /\ intent[i].done => intent'[i].done
  <2>1. UNCHANGED intent \/ intent' = [intent EXCEPT ![call[c].intent].done = TRUE]
    BY <1>3, CompletionsKeepDatabase, CommitsWriteRows
  <2>2. QED
    BY <2>1 DEF TypeOK
<1>4. QED
  BY <1>1, <1>2, <1>3 DEF Next, vars, Put, Submit, OpenScreen, ReadOn, Arrives, Approve, Return, Reaches,
     EditType, SetPrivate, TurnProject, Edit, Remove, VoidFile, Mark

\* A row appears only at the commit of its request, and is never changed but
\* for its state.
LEMMA RowsStay ==
    ASSUME TypeOK, CallsHaveIntents, [Next]_vars, NEW f \in Calls, file'[f].state # "none"
    PROVE  \/ file[f].state # "none" /\ file'[f].intent = file[f].intent
           \/ /\ Complete(f) /\ call[f].pc = "attach" /\ Commit(f)
              /\ file'[f].intent = call[f].intent
              /\ file'[f].by = intent[call[f].intent].by
              /\ file'[f].private = call[f].private
<1>1. CASE UNCHANGED file
  BY <1>1
<1>2. ASSUME NEW g \in Calls, Remove(g) \/ VoidFile(g)
      PROVE  file[f].state # "none" /\ file'[f].intent = file[f].intent
  <2>1. file[f] \in Rows
    BY DEF TypeOK
  <2>2. file[g].state = "alive"
    BY <1>2 DEF Remove, VoidFile, Mark, Alive
  <2>3. \E state : file' = [file EXCEPT ![g].state = state]
    BY <1>2 DEF Remove, VoidFile, Mark
  <2>4. QED
    BY <2>1, <2>2, <2>3 DEF TypeOK, Rows
<1>3. ASSUME NEW c \in Calls, Complete(c), ~UNCHANGED file
      PROVE  \/ file[f].state # "none" /\ file'[f].intent = file[f].intent
             \/ /\ c = f /\ call[f].pc = "attach" /\ Commit(f)
                /\ file'[f].intent = call[f].intent
                /\ file'[f].by = intent[call[f].intent].by
                /\ file'[f].private = call[f].private
  <2>1. call[c].pc = "attach" /\ Commit(c)
    BY <1>3, CompletionsKeepDatabase
  <2>2. PICK row \in Rows :
           /\ file' = [file EXCEPT ![c] = row]
           /\ row.intent = call[c].intent
           /\ row.by = intent[call[c].intent].by
           /\ row.private = call[c].private
    BY <2>1, CommitsWriteRows
  <2>3. QED
    BY <2>1, <2>2 DEF TypeOK
<1>4. QED
  BY <1>1, <1>2, <1>3 DEF Next, vars, RequestUpload, Put, Submit, OpenScreen, ReadOn, Arrives, Approve, Return,
     Reaches, EditType, SetPrivate, TurnProject, Edit

LEMMA StepKeepsIntents ==
    ASSUME TypeOK, CallsHaveIntents, [Next]_vars
    PROVE  CallsHaveIntents'
<1>1. \A i \in Intents : Exists(i) => intent'[i].by # Nobody
  BY IntentsStay DEF Exists
<1>2. ASSUME NEW c \in Calls, Complete(c), NEW b \in Calls, call'[b].pc # "idle"
      PROVE  call'[b].intent \in Intents /\ Exists(call'[b].intent)
  BY <1>2, CompletionsMove DEF Moves, CallsHaveIntents, Exists
<1>3. ASSUME NEW c \in Calls, Complete(c), NEW b \in Calls, call'[b].pc # "idle"
      PROVE  intent'[call'[b].intent].by # Nobody
  BY <1>1, <1>2, <1>3
<1>4. ASSUME UNCHANGED call, NEW b \in Calls, call'[b].pc # "idle"
      PROVE  call'[b].intent \in Intents /\ intent'[call'[b].intent].by # Nobody
  BY <1>1, <1>4 DEF CallsHaveIntents
<1> SUFFICES ASSUME NEW b \in Calls, call'[b].pc # "idle"
             PROVE  call'[b].intent \in Intents /\ intent'[call'[b].intent].by # Nobody
  BY DEF CallsHaveIntents, Exists
<1>5. CASE \E c \in Calls : Complete(c)
  BY <1>2, <1>3, <1>5
<1>6. CASE UNCHANGED call
  BY <1>4, <1>6
<1>7. QED
  BY <1>5, <1>6, OthersKeepRequests

LEMMA StepKeepsRows ==
    ASSUME TypeOK, CallsHaveIntents, FilesComplete, OneFilePerIntent, [Next]_vars
    PROVE  FilesComplete' /\ OneFilePerIntent'
<1>1. ASSUME NEW f \in Calls, call[f].pc = "attach", Commit(f)
      PROVE  /\ call[f].intent \in Intents
             /\ ~intent[call[f].intent].done
             /\ intent'[call[f].intent].done
  <2>1. call[f].intent \in Intents /\ intent' = [intent EXCEPT ![call[f].intent].done = TRUE]
    BY <1>1, CommitsWriteRows
  <2>2. intent'[call[f].intent].done
    BY <2>1 DEF TypeOK
  <2>3. ~intent[call[f].intent].done
    BY <1>1 DEF Commit, Accepted, CompleteIntentIfOpen
  <2>4. QED
    BY <2>1, <2>2, <2>3
<1>2. FilesComplete'
  BY <1>1, RowsStay, IntentsStay DEF FilesComplete
<1>3. ASSUME NEW f \in Calls, NEW g \in Calls, file'[f].state # "none", file'[g].state # "none",
             file'[f].intent = file'[g].intent
      PROVE  f = g
  <2>1. CASE file[f].state # "none" /\ file[g].state # "none" 
             /\ file'[f].intent = file[f].intent /\ file'[g].intent = file[g].intent
    BY <1>3, <2>1 DEF OneFilePerIntent
  <2>2. ASSUME Complete(f), Complete(g), call[f].pc = "attach", f # g
        PROVE  FALSE
    <3>1. call'[f] = call[f]
      BY <2>2, CompletionsMove
    <3>2. call'[f].pc \in {"refused", "done", "undo"}
      BY <2>2, CompletionsMove DEF Moves
    <3>3. QED
      BY <2>2, <3>1, <3>2
  <2> DEFINE stays(h) == file[h].state # "none" /\ file'[h].intent = file[h].intent
             made(h) == Complete(h) /\ call[h].pc = "attach" /\ Commit(h) /\ file'[h].intent = call[h].intent
  <2>3. (stays(f) \/ made(f)) /\ (stays(g) \/ made(g))
    BY <1>3, RowsStay
  <2>4. ASSUME NEW h \in Calls, NEW k \in Calls, stays(h), made(k), file'[h].intent = file'[k].intent
        PROVE  FALSE
    BY <1>1, <2>4 DEF FilesComplete
  <2>5. QED
    BY <1>3, <2>1, <2>2, <2>3, <2>4
<1>4. QED
  BY <1>2, <1>3 DEF OneFilePerIntent

\* A request moves and writes its copy only in its own steps, and what was not
\* heard of stays so.
LEMMA RequestsMoveAlone ==
    ASSUME TypeOK, CallsHaveIntents, [Next]_vars, NEW c \in Calls
    PROVE  /\ \/ Complete(c)
              \/ call'[c] = call[c] /\ evidence'[c] = evidence[c]
           /\ unheard \subseteq unheard'
<1>1. CASE UNCHANGED <<call, evidence, unheard>>
  BY <1>1
<1>2. ASSUME NEW b \in Calls, Complete(b)
      PROVE  /\ b = c \/ (call'[c] = call[c] /\ evidence'[c] = evidence[c])
             /\ unheard \subseteq unheard'
  <2>1. b = c \/ call'[c] = call[c]
    BY <1>2, CompletionsMove
  <2>2. b = c \/ evidence'[c] = evidence[c]
    BY <1>2, CompletionsKeepBucket DEF TypeOK
  <2>3. unheard \subseteq unheard'
    BY <1>2, CompletionsKeepDatabase
  <2>4. QED
    BY <2>1, <2>2, <2>3
<1>3. QED
  BY <1>1, <1>2, OthersKeepRequests

LEMMA StepKeepsEnds ==
    ASSUME TypeOK, CallsHaveIntents, FilesEndRequests, [Next]_vars
    PROVE  FilesEndRequests'
<1> SUFFICES ASSUME NEW c \in Calls, file'[c].state # "none"
             PROVE  /\ call'[c].pc \in {"done", "undo", "refused"}
                    /\ call'[c].pc = "undo" => c \in unheard'
  BY DEF FilesEndRequests
<1>1. CASE file[c].state # "none"
  <2>1. call[c].pc \in {"done", "undo", "refused"} /\ (call[c].pc = "undo" => c \in unheard)
    BY <1>1 DEF FilesEndRequests
  <2>2. Complete(c) => call'[c].pc = "refused"
    BY <2>1, CompletionsMove DEF Moves
  <2>3. QED
    BY <2>1, <2>2, RequestsMoveAlone
<1>2. CASE file[c].state = "none"
  <2>1. Complete(c) /\ call[c].pc = "attach"
    BY <1>2, RowsStay
  <2>2. call'[c].pc \in {"refused", "done", "undo"}
    BY <2>1, CompletionsMove DEF Moves
  <2>3. ASSUME End(c, "done") PROVE call'[c].pc = "done"
    BY <2>3 DEF End, Becomes, Idle, TypeOK
  <2>4. QED
    BY <1>2, <2>1, <2>2, <2>3, CompletionsKeepDatabase
<1>3. QED
  BY <1>1, <1>2

\* An object is put anew, as another generation, or goes, or stays.
LEMMA ObjectsMove ==
    ASSUME TypeOK, CallsHaveIntents, [Next]_vars, NEW i \in Intents
    PROVE  \/ incoming'[i] = incoming[i]
           \/ incoming'[i].content = "none" /\ incoming'[i].gen = incoming[i].gen
           \/ /\ incoming'[i].gen = incoming[i].gen + 1
              /\ \A c \in Calls : call'[c] = call[c]
<1>1. CASE UNCHANGED incoming
  BY <1>1
<1>2. ASSUME NEW j \in Intents, NEW content \in Contents, Put(j, content)
      PROVE  incoming'[i] = incoming[i] \/ (incoming'[i].gen = incoming[i].gen + 1 /\ UNCHANGED call)
  BY <1>2 DEF Put, TypeOK
<1>3. ASSUME NEW c \in Calls, Complete(c)
      PROVE  \/ incoming'[i] = incoming[i]
             \/ incoming'[i].content = "none" /\ incoming'[i].gen = incoming[i].gen
  <2>1. UNCHANGED incoming \/ incoming' = Deleted(call[c].intent)
    BY <1>3, CompletionsKeepBucket
  <2>2. QED
    BY <2>1 DEF Deleted, TypeOK
<1>4. QED
  BY <1>1, <1>2, <1>3 DEF Next, vars, RequestUpload, Submit, OpenScreen, ReadOn, Arrives, Approve, Return, Reaches,
     EditType, SetPrivate, TurnProject, Edit, Remove, VoidFile, Mark

LEMMA StepKeepsGenerations ==
    ASSUME TypeOK, CallsHaveIntents, GenerationsAreChecked, [Next]_vars
    PROVE  GenerationsAreChecked'
<1> SUFFICES ASSUME NEW c \in Calls, call'[c].pc \in {"head", "copy"}
             PROVE  LET object == incoming'[call'[c].intent]
                    IN  /\ call'[c].gen <= object.gen
                        /\ call'[c].pc = "copy" /\ object.content # "none" /\ object.gen = call'[c].gen
                              => object.content = "declared"
  BY DEF GenerationsAreChecked, Pinned
<1> DEFINE i == call[c].intent
<1>1. CASE Complete(c)
  <2>1. /\ call'[c].intent = i /\ UNCHANGED incoming
        /\ \/ call'[c].pc = "head" /\ call'[c].gen = incoming[i].gen
           \/ /\ call[c].pc = "head" /\ call'[c].pc = "copy" /\ call'[c].gen = call[c].gen
              /\ incoming[i].content = "declared"
    BY <1>1, CompletionsMove DEF Moves
  <2>2. i \in Intents
    <3>1. call[c].pc # "idle"
      BY <1>1, CompletionsMove DEF Moves
    <3>2. QED
      BY <3>1 DEF CallsHaveIntents
  <2>3. incoming[i].gen \in Nat
    BY <2>2 DEF TypeOK
  <2>4. QED
    BY <2>1, <2>3 DEF GenerationsAreChecked
<1>2. CASE call'[c] = call[c]
  <2>1. i \in Intents /\ incoming[i].gen \in Nat /\ call[c].gen \in Nat
    BY <1>2 DEF CallsHaveIntents, TypeOK, Requests
  <2>2. /\ call[c].gen <= incoming[i].gen
        /\ call[c].pc = "copy" /\ incoming[i].content # "none" /\ incoming[i].gen = call[c].gen
              => incoming[i].content = "declared"
    BY <1>2 DEF GenerationsAreChecked, Pinned
  <2>3. \/ incoming'[i] = incoming[i]
        \/ incoming'[i].content = "none" /\ incoming'[i].gen = incoming[i].gen
        \/ incoming'[i].gen = incoming[i].gen + 1
    BY <2>1, ObjectsMove
  <2>4. QED
    BY <1>2, <2>1, <2>2, <2>3
<1>3. QED
  BY <1>1, <1>2, RequestsMoveAlone

LEMMA StepKeepsCopies ==
    ASSUME TypeOK, CallsHaveIntents, GenerationsAreChecked, CopiesAreChecked, [Next]_vars
    PROVE  CopiesAreChecked'
<1> SUFFICES ASSUME NEW c \in Calls, call'[c].pc \in {"source", "load", "lock", "read", "attach"}
             PROVE  evidence'[c] = "declared"
  BY DEF CopiesAreChecked
<1>1. CASE Complete(c)
  <2>1. CASE call'[c].pc = "source"
    <3>1. call[c].pc = "copy" /\ MayCopy(c) /\ evidence'[c] = incoming[call[c].intent].content
      BY <1>1, <2>1, CompletionsMove DEF Moves
    <3>2. QED
      BY <3>1 DEF MayCopy, GenerationsAreChecked
  <2>2. CASE call'[c].pc # "source"
    <3>1. call[c].pc \in {"source", "load", "lock", "read"}
      BY <1>1, <2>2, CompletionsMove DEF Moves
    <3>2. UNCHANGED evidence
      BY <1>1, <3>1, CompletionsKeepBucket
    <3>3. QED
      BY <3>1, <3>2 DEF CopiesAreChecked
  <2>3. QED
    BY <2>1, <2>2
<1>2. CASE call'[c] = call[c] /\ evidence'[c] = evidence[c]
  BY <1>2 DEF CopiesAreChecked
<1>3. QED
  BY <1>1, <1>2, RequestsMoveAlone

LEMMA StepKeepsObjects ==
    ASSUME TypeOK, CallsHaveIntents, FilesEndRequests, CopiesAreChecked, FilesHaveObjects, [Next]_vars
    PROVE  FilesHaveObjects'
<1> SUFFICES ASSUME NEW f \in Calls, f \notin unheard', file'[f].state # "none"
             PROVE  evidence'[f] = "declared"
  BY DEF FilesHaveObjects
<1>1. f \notin unheard
  BY RequestsMoveAlone
<1>2. evidence[f] = "declared" /\ call[f].pc \notin {"copy", "undo"}
  <2>1. CASE file[f].state # "none"
    BY <1>1, <2>1 DEF FilesHaveObjects, FilesEndRequests
  <2>2. CASE call[f].pc = "attach"
    BY <2>2 DEF CopiesAreChecked
  <2>3. QED
    BY <2>1, <2>2, RowsStay
<1>3. Complete(f) => UNCHANGED evidence
  BY <1>2, CompletionsKeepBucket
<1>4. QED
  BY <1>2, <1>3, RequestsMoveAlone

-----------------------------------------------------------------------------
(* The document under a request's locks, and on an approver's screen.      *)

\* While a request holds the document, only approvers and other commits change
\* it; while it holds the project, the project's status stands.
LEMMA DocumentsMove ==
    ASSUME TypeOK, CallsHaveIntents, [Next]_vars, ~DocFree
    PROVE  /\ doc'.type = doc.type
           /\ doc.version <= doc'.version
           /\ doc.version = doc'.version => doc'.status = doc.status
           /\ doc.status \in {"draft", "returned"} => doc'.status = doc.status
           /\ ~ProjectFree => doc'.completed = doc.completed
<1>1. doc \in Documents
  BY DEF TypeOK
<1> DEFINE Goal == /\ doc'.type = doc.type
                   /\ doc.version <= doc'.version
                   /\ doc.version = doc'.version => doc'.status = doc.status
                   /\ doc.status \in {"draft", "returned"} => doc'.status = doc.status
                   /\ ~ProjectFree => doc'.completed = doc.completed
<1>2. CASE UNCHANGED doc
  BY <1>1, <1>2 DEF Documents
<1>3. CASE Approve \/ Return
  <2>1. doc.status = "in_review" /\ doc.version \in Nat
    BY <1>1, <1>3 DEF Approve, Return, Documents
  <2>2. PICK status : doc' = [doc EXCEPT !.status = status, !.version = doc.version + 1]
    BY <1>3 DEF Approve, Return, Reaches
  <2>3. /\ doc'.version = doc.version + 1
        /\ doc'.type = doc.type
        /\ doc'.completed = doc.completed
    BY <1>1, <2>2 DEF Documents
  <2>4. QED
    BY <2>1, <2>3
<1>4. ASSUME NEW c \in Calls, Complete(c)
      PROVE  Goal
  <2>1. UNCHANGED doc \/ doc' = [doc EXCEPT !.version = NewVersion(c)]
    BY <1>4, CompletionsKeepDatabase, CommitsWriteRows
  <2>2. QED
    BY <1>1, <2>1 DEF Documents, NewVersion
<1>5. CASE TurnProject
  BY <1>1, <1>5 DEF TurnProject, Documents
<1>6. QED
  BY <1>2, <1>3, <1>4, <1>5 DEF Next, vars, RequestUpload, Put, Submit, OpenScreen, ReadOn, Arrives,
     EditType, SetPrivate, Edit, Remove, VoidFile, Mark

LEMMA StepKeepsOwners ==
    ASSUME TypeOK, CallsHaveIntents, OwnersAreLocked, [Next]_vars
    PROVE  OwnersAreLocked'
<1>1. doc \in Documents /\ doc.type \in Types
  BY DEF TypeOK, Documents
<1>2. ASSUME NEW c \in Calls, call'[c].pc \in {"lock", "read", "attach"}
      PROVE  call'[c].type \in Types
  <2>1. CASE Complete(c)
    BY <1>1, <1>2, <2>1, CompletionsMove DEF Moves, Kept, OwnersAreLocked
  <2>2. QED
    BY <1>2, <2>1, RequestsMoveAlone DEF OwnersAreLocked
<1>3. ASSUME NEW c \in Calls, call'[c].pc = "attach"
      PROVE  LET owner == call'[c].owner
             IN  /\ owner \in Documents
                 /\ owner.type = doc'.type
                 /\ owner.version <= doc'.version
                 /\ owner.version = doc'.version => owner.status = doc'.status
                 /\ owner.status \in {"draft", "returned"} => owner.status = doc'.status
                 /\ call'[c].approved => owner.completed = doc'.completed
  <2>1. CASE Complete(c)
    <3>1. call'[c].owner = doc /\ UNCHANGED doc
      BY <1>3, <2>1, CompletionsMove DEF Moves
    <3>2. QED
      BY <1>1, <3>1 DEF Documents
  <2>2. CASE call'[c] = call[c]
    <3>1. call[c].pc = "attach"
      BY <1>3, <2>2
    <3>2. /\ c \in InTransaction
          /\ ~DocFree
          /\ call[c].approved => ~ProjectFree
      BY <3>1 DEF InTransaction, DocFree, ProjectFree
    <3> DEFINE owner == call[c].owner
    <3>3. /\ owner \in Documents
          /\ owner.type = doc.type
          /\ owner.version <= doc.version
          /\ owner.version = doc.version => owner.status = doc.status
          /\ owner.status \in {"draft", "returned"} => owner.status = doc.status
          /\ call[c].approved => owner.completed = doc.completed
      BY <3>1 DEF OwnersAreLocked
    <3>4. doc' \in Documents
      BY StepKeepsType DEF TypeOK
    <3>5. owner.version \in Nat /\ doc.version \in Nat /\ doc'.version \in Nat
      BY <1>1, <3>3, <3>4 DEF Documents
    <3>6. QED
      BY <2>2, <3>2, <3>3, <3>5, DocumentsMove
  <2>3. QED
    BY <2>1, <2>2, RequestsMoveAlone
<1>4. QED
  BY <1>2, <1>3 DEF OwnersAreLocked

LEMMA StepKeepsScreens ==
    ASSUME TypeOK, CallsHaveIntents, OwnersAreLocked, ScreensAreCurrent, [Next]_vars
    PROVE  ScreensAreCurrent'
<1>1. doc.version \in Nat /\ looked.version \in Nat /\ looked.version <= doc.version
  BY DEF TypeOK, Documents, Screens, ScreensAreCurrent
<1>2. CASE UNCHANGED <<doc, looked, file>>
  BY <1>2 DEF ScreensAreCurrent, Alive
<1>3. CASE Submit \/ Approve \/ Return
  <2>1. doc'.version = doc.version + 1 /\ UNCHANGED looked
    BY <1>3 DEF Submit, Approve, Return, Reaches, TypeOK, Documents
  <2>2. QED
    BY <1>1, <2>1 DEF ScreensAreCurrent
<1>4. CASE (\E door \in Doors : OpenScreen(door)) \/ ReadOn
  <2>1. PICK screen \in Screens, what \in Reads :
          /\ Arrives(what, screen)
          /\ \/ screen.left = Reads /\ screen.version = 0 /\ (screen.door = "sheet" => what = "version")
             \/ screen = looked /\ what \in looked.left
    BY <1>4, ScreensRead
  <2>2. /\ looked'.door = screen.door /\ looked'.left = screen.left \ {what}
        /\ looked'.version = IF what = "version" THEN doc.version ELSE screen.version
        /\ looked'.files = IF what = "files" THEN Alive ELSE screen.files
        /\ UNCHANGED <<doc, file>>
    BY <2>1, AnswersArrive
  <2>3. CASE screen.left = Reads /\ screen.version = 0 /\ (screen.door = "sheet" => what = "version")
    <3>1. looked'.version <= doc'.version
      <4>1. looked'.version = doc.version \/ looked'.version = 0
        BY <2>2, <2>3
      <4>2. QED
        BY <1>1, <2>2, <4>1
    <3>2. looked'.door = "sheet" => "version" \notin looked'.left /\ "files" \in looked'.left
      BY <2>2, <2>3 DEF Reads
    <3>3. QED
      BY <3>1, <3>2 DEF ScreensAreCurrent
  <2>4. CASE screen = looked /\ what \in looked.left
    <3>1. looked'.version <= doc'.version
      <4>1. looked'.version = doc.version \/ looked'.version = looked.version
        BY <2>2, <2>4
      <4>2. QED
        BY <1>1, <2>2, <4>1
    <3>2. looked'.door = "sheet" => what = "files" /\ looked'.files = Alive'
      BY <2>2, <2>4 DEF ScreensAreCurrent, Reads, Alive
    <3>3. looked'.door = "sheet" => "version" \notin looked'.left
      BY <2>2, <2>4 DEF ScreensAreCurrent
    <3>4. QED
      BY <3>1, <3>2, <3>3 DEF ScreensAreCurrent
  <2>5. QED
    BY <2>1, <2>3, <2>4
<1>5. ASSUME NEW c \in Calls, call[c].pc = "attach", Commit(c), UNCHANGED looked
      PROVE  ScreensAreCurrent'
  <2>1. doc' = [doc EXCEPT !.version = NewVersion(c)] /\ NewVersion(c) \in Nat
    BY <1>5, CommitsWriteRows
  <2>2. doc'.status = doc.status /\ doc'.version = NewVersion(c)
    BY <2>1 DEF TypeOK, Documents
  <2>3. doc.status = "in_review" => NewVersion(c) = doc.version + 1
    BY <1>5 DEF OwnersAreLocked, NewVersion, BumpsInstance, Documents
  <2>4. doc.version <= NewVersion(c)
    BY <1>1 DEF NewVersion
  <2>5. QED
    BY <1>1, <1>5, <2>1, <2>2, <2>3, <2>4 DEF ScreensAreCurrent
<1>6. ASSUME NEW c \in Calls, Complete(c)
      PROVE  ScreensAreCurrent'
  BY <1>2, <1>5, <1>6, CompletionsKeepBucket, CompletionsKeepDatabase
<1>7. ASSUME NEW f \in Calls, Remove(f) \/ VoidFile(f)
      PROVE  ScreensAreCurrent'
  BY <1>1, <1>7 DEF Remove, VoidFile, Mark, DrafterRemoves, ScreensAreCurrent
<1>8. ASSUME NEW t \in Types, EditType(t)
      PROVE  ScreensAreCurrent'
  BY <1>8 DEF EditType, Edit, ScreensAreCurrent, Alive, TypeOK, Documents
<1>9. CASE TurnProject
  BY <1>9 DEF TurnProject, Edit, ScreensAreCurrent, Alive, TypeOK, Documents
<1>10. QED
  BY <1>2, <1>3, <1>4, <1>6, <1>7, <1>8, <1>9 DEF Next, vars, RequestUpload, Put, SetPrivate, Edit

LEMMA StepKeepsInv == IInv /\ [Next]_vars => IInv'
<1> SUFFICES ASSUME IInv, [Next]_vars PROVE IInv'
  OBVIOUS
<1>1. TypeOK' /\ CallsHaveIntents'
  BY StepKeepsType, StepKeepsIntents DEF IInv
<1>2. FilesComplete' /\ OneFilePerIntent'
  BY StepKeepsRows DEF IInv
<1>3. FilesEndRequests' /\ GenerationsAreChecked' /\ CopiesAreChecked' /\ FilesHaveObjects'
  BY StepKeepsEnds, StepKeepsGenerations, StepKeepsCopies, StepKeepsObjects DEF IInv
<1>4. OwnersAreLocked' /\ ScreensAreCurrent'
  BY StepKeepsOwners, StepKeepsScreens DEF IInv
<1>5. QED
  BY <1>1, <1>2, <1>3, <1>4 DEF IInv

-----------------------------------------------------------------------------
(* Theorems.                                                               *)

\* Every behaviour stays within the inductive invariant.
THEOREM Invariant == Spec => []IInv
<1>1. QED
  BY InitInv, StepKeepsInv, PTL DEF Spec

\* Every variable stays within its type.
THEOREM TypeCorrect == Spec => []TypeOK
<1>1. IInv => TypeOK
  BY DEF IInv
<1>2. QED
  BY <1>1, Invariant, PTL

\* However many requests complete an intent, after a lost answer or from two
\* tabs, it makes one file (completeIntentIfOpen).
THEOREM IntentsMakeOneFile == Spec => []OneFilePerIntent
<1>1. IInv => OneFilePerIntent
  BY DEF IInv
<1>2. QED
  BY <1>1, Invariant, PTL

\* The object of every file is there and is the one that was checked, but for
\* a commit the server did not hear of (the copy of a pinned generation, and
\* the compensation).
THEOREM FilesKeepObjects == Spec => []FilesHaveObjects
<1>1. IInv => FilesHaveObjects
  BY DEF IInv
<1>2. QED
  BY <1>1, Invariant, PTL

\* A decision taken from the list of documents that wait for it rests on the
\* files as they are: the list has read the version before the files, and a file
\* added since has moved the version the approval names.
THEOREM ApprovedOnTheFilesSeen == Spec => DecidedOnTheFilesSeen
<1>1. ASSUME IInv, [Next]_vars, Approved, looked.door = "sheet"
      PROVE  Seen
  <2>1. doc \in Documents
    BY <1>1 DEF IInv, TypeOK
  <2>2. ASSUME NEW c \in Calls, Complete(c)
        PROVE  doc'.status = doc.status
    <3>1. UNCHANGED doc \/ doc' = [doc EXCEPT !.version = NewVersion(c)]
      BY <1>1, <2>2, CompletionsKeepDatabase, CommitsWriteRows DEF IInv
    <3>2. QED
      BY <2>1, <3>1 DEF Documents
  <2>3. Approve
    BY <1>1, <2>1, <2>2 DEF Next, vars, Approved, RequestUpload, Put, Submit, OpenScreen, ReadOn,
       Arrives, Return, Reaches, EditType, SetPrivate, TurnProject, Edit, Remove, VoidFile, Mark,
       Documents
  <2>4. looked.files = Alive
    BY <1>1, <2>3 DEF Approve, IInv, ScreensAreCurrent
  <2>5. QED
    BY <2>4 DEF Seen, ShownTo
<1>2. IInv /\ [Next]_vars => [Approved /\ looked.door = "sheet" => Seen]_vars
  BY <1>1
<1>3. QED
  BY <1>2, Invariant, PTL DEF Spec, DecidedOnTheFilesSeen

\* A file is added only by one who may add it to the document as it stands at
\* the commit, and is stamped with the privacy its type has then: everything
\* read before the lock has been read or checked again under it.
THEOREM FilesAddedAsThingsStand == Spec => AddedAsThingsStand
<1>1. ASSUME IInv, [Next]_vars, NEW f \in Calls, file[f].state = "none", file'[f].state # "none"
      PROVE  AddOpen(doc, file'[f].by) /\ file'[f].private = private[doc.type]
  <2> DEFINE owner == call[f].owner
  <2>1. /\ call[f].pc = "attach" /\ Accepted(f)
        /\ file'[f].by = intent[call[f].intent].by
        /\ file'[f].private = call[f].private
    BY <1>1, RowsStay DEF IInv, Commit
  <2>2. /\ owner \in Documents
        /\ owner.type = doc.type
        /\ owner.version = doc.version => owner.status = doc.status
        /\ owner.status \in {"draft", "returned"} => owner.status = doc.status
        /\ call[f].approved => owner.completed = doc.completed
    BY <1>1, <2>1 DEF IInv, OwnersAreLocked
  <2>3. owner.status = doc.status
    BY <2>1, <2>2 DEF Accepted, BumpIsCurrent, BumpsInstance, Documents
  <2>4. doc.status = "approved" => owner.completed = doc.completed
    BY <2>1, <2>2, <2>3 DEF Accepted, NotApprovedBeneath
  <2>5. AddOpen(doc, file'[f].by)
    BY <2>1, <2>3, <2>4 DEF Accepted, AddOpen, DrafterAdds, DrafterRemoves, AttacherAdds
  <2>6. QED
    BY <2>1, <2>2, <2>5 DEF Accepted, StampStands
<1>2. IInv /\ [Next]_vars =>
        [\A f \in Calls :
           file[f].state = "none" /\ file'[f].state # "none" =>
               /\ AddOpen(doc, file'[f].by)
               /\ file'[f].private = private[doc.type]]_vars
  BY <1>1
<1>3. QED
  BY <1>2, Invariant, PTL DEF Spec, AddedAsThingsStand
=============================================================================
