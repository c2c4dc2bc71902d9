--------------------------- MODULE EvidenceUpload ---------------------------
(***************************************************************************)
(* Attaching evidence files to one expense document: an intent is          *)
(* declared, the browser puts the bytes into the bucket, and a completion  *)
(* request checks them, moves the object to its final key and writes the   *)
(* row of the file.  The bucket is not part of the transaction, and most   *)
(* of what the transaction decides on was read before it, so a completion  *)
(* is many steps here; what other people do meanwhile is one step each.    *)
(*                                                                         *)
(* A completion request is named by the id of the file it would make: the  *)
(* code draws a new one for every request.                                 *)
(*                                                                         *)
(* Who may see the document and who has which menu right does not change.  *)
(* The bytes of an object are abstracted to how they compare with what the *)
(* intent declared.  The release of a confirmation by a new file is in     *)
(* ExpensePayment.                                                         *)
(***************************************************************************)
EXTENDS Integers, FiniteSets, FiniteSetsExt

CONSTANTS
    Drafter,      \* who wrote the document
    Attachers,    \* other people with the right to attach
    Intents,      \* ids of upload intents
    Calls,        \* completion requests, and the files they make
    Types,        \* kinds of evidence a document may name
    Nobody,       \* the absence of a person, an intent or a call
    PrivateFirst, \* the types that are private at the start
    Doors,        \* the screens approvers decide on
    MaxPuts,      \* bound on the puts of all intents together
    MaxVersion,   \* bound on the version of the approval instance
    MaxEdits      \* bound on edits of the type, of the privacy of a type and
                  \* on changes of the project's status, taken together

Users == Attachers \cup {Drafter}

ASSUME NobodyIsNobody == Nobody \notin Users \cup Intents \cup Calls
ASSUME DrafterIsNoAttacher == Drafter \notin Attachers
ASSUME DoorsAreScreens == Doors \subseteq {"sheet", "page"}
ASSUME BoundsAreNumbers == MaxPuts \in Nat /\ MaxVersion \in Nat /\ MaxEdits \in Nat

VARIABLES
    doc,        \* its status, the version of its approval instance, the
                \* evidence type, and whether the project is completed
    private,    \* private[t]: is the evidence type t private now?
    intent,     \* intent[i]: who declared it, and is it completed?
    incoming,   \* incoming[i]: the object under its key, and its generation
    evidence,   \* evidence[f]: the object under the final key of the file f
    file,       \* file[f]: the row of the file f
    call,       \* call[c]: where a completion request is, and what it has read
    looked,     \* the screen of an approver: what it has read, what it has left to read
    unheard,    \* history: files whose commit the server did not hear of
    edits       \* counts edits, for the bound

vars == <<doc, private, intent, incoming, evidence, file, call, looked, unheard, edits>>

-----------------------------------------------------------------------------
(* Rows and objects.                                                       *)

Contents == {"none", "declared", "misfit", "disguised"}

NoIntent == [by |-> Nobody, done |-> FALSE]

NoFile == [intent |-> Nobody, by |-> Nobody, private |-> FALSE, state |-> "none"]

NoObject == [content |-> "none", gen |-> 0]

NotLooked == [door |-> "none", left |-> {}, version |-> 0, files |-> {}, private |-> FALSE]

Idle == [pc |-> "idle", intent |-> Nobody, gen |-> 0, type |-> Nobody,
         private |-> FALSE, approved |-> FALSE, owner |-> Nobody]

Alive == {f \in Calls : file[f].state = "alive"}

Exists(i) == intent[i].by # Nobody

\* Calls inside their transaction hold the row of the document, and that of
\* the project when the document was approved before the transaction.
InTransaction == {c \in Calls : call[c].pc \in {"read", "attach"}}

DocFree == InTransaction = {}

ProjectFree == \A c \in InTransaction : ~call[c].approved

-----------------------------------------------------------------------------
(* Who may add and remove files, on the document as d has it.              *)

DrafterRemoves(d) == d.status \in {"draft", "returned"}

DrafterAdds(d) ==
    \/ DrafterRemoves(d)
    \/ d.status = "approved" /\ ~d.completed

AttacherAdds(d) ==
    \/ d.status = "in_review"
    \/ d.status = "approved" /\ d.completed

AddOpen(d, u) == IF u = Drafter THEN DrafterAdds(d) ELSE AttacherAdds(d)

\* A new file makes what an approver has on the screen old.
BumpsInstance(d) == d.status \in {"in_review", "approved"}

-----------------------------------------------------------------------------
Init ==
    /\ \E t \in Types : doc = [status |-> "draft", version |-> 0, type |-> t, completed |-> FALSE]
    /\ private = [t \in Types |-> t \in PrivateFirst]
    /\ intent = [i \in Intents |-> NoIntent]
    /\ incoming = [i \in Intents |-> NoObject]
    /\ evidence = [f \in Calls |-> "none"]
    /\ file = [f \in Calls |-> NoFile]
    /\ call = [c \in Calls |-> Idle]
    /\ looked = NotLooked
    /\ unheard = {}
    /\ edits = 0

-----------------------------------------------------------------------------
(* The declaration and the browser.  An intent expires, but that only      *)
(* forbids a later put or request, which nobody has to make anyway: a      *)
(* request reads the clock once, when it starts.                           *)

RequestUpload(i, u) ==
    /\ ~Exists(i)
    /\ AddOpen(doc, u)
    /\ intent' = [intent EXCEPT ![i].by = u]
    /\ UNCHANGED <<doc, private, incoming, evidence, file, call, looked, unheard, edits>>

\* The signed address may be used again: every put makes a new generation of
\* the object.
Put(i, content) ==
    /\ Exists(i)
    /\ MapThenSumSet(LAMBDA j : incoming[j].gen, Intents) < MaxPuts
    /\ incoming' = [incoming EXCEPT ![i] = [content |-> content, gen |-> @.gen + 1]]
    /\ UNCHANGED <<doc, private, intent, evidence, file, call, looked, unheard, edits>>

-----------------------------------------------------------------------------
(* The completion request, before its transaction.                         *)

Becomes(c, r) == call' = [call EXCEPT ![c] = r]

Reach(c, pc) == Becomes(c, [call[c] EXCEPT !.pc = pc])

\* What an ended request has read is forgotten.
End(c, pc) == Becomes(c, [Idle EXCEPT !.pc = pc, !.intent = call[c].intent])

\* The address of an object goes, its generation number is not used again.
Deleted(i) == [incoming EXCEPT ![i].content = "none"]

\* A request for a completed intent ends, with its file or a refusal.
Notify(c, i) ==
    /\ call[c].pc = "idle"
    /\ Exists(i) /\ ~intent[i].done
    /\ Becomes(c, [call[c] EXCEPT !.pc = "meta", !.intent = i])
    /\ UNCHANGED <<doc, private, intent, incoming, evidence, file, looked, unheard, edits>>

\* A misfit object is deleted, whatever has been put there since.
ReadMetadata(c) ==
    LET i == call[c].intent
        object == incoming[i]
    IN  /\ call[c].pc = "meta"
        /\ \/ /\ object.content \in {"declared", "disguised"}
              /\ Becomes(c, [call[c] EXCEPT !.pc = "head", !.gen = object.gen])
              /\ UNCHANGED incoming
           \/ /\ object.content \in {"none", "misfit"}
              /\ End(c, "refused")
              /\ incoming' = Deleted(i)
        /\ UNCHANGED <<doc, private, intent, evidence, file, looked, unheard, edits>>

\* Is the object still the generation whose metadata were read?
Pinned(c) ==
    LET object == incoming[call[c].intent]
    IN  object.content # "none" /\ object.gen = call[c].gen

\* The first bytes are read from the pinned generation, and must be of the
\* declared type.
ReadHead(c) ==
    LET i == call[c].intent
    IN  /\ call[c].pc = "head"
        /\ IF Pinned(c) /\ incoming[i].content = "declared"
             THEN Reach(c, "copy") /\ UNCHANGED incoming
             ELSE End(c, "refused") /\ incoming' = Deleted(i)
        /\ UNCHANGED <<doc, private, intent, evidence, file, looked, unheard, edits>>

\* The final key of the object.
KeyOf(c) == c

\* Mutant: the copy takes whatever is under the key.
MayCopyAnything(c) == incoming[call[c].intent].content # "none"

\* The copy is conditional on the generation of its source.
MayCopy(c) == Pinned(c)

Copy(c) ==
    /\ call[c].pc = "copy"
    /\ \/ /\ MayCopy(c)
          /\ evidence' = [evidence EXCEPT ![KeyOf(c)] = incoming[call[c].intent].content]
          /\ Reach(c, "source")
       \/ End(c, "refused") /\ UNCHANGED evidence
    /\ UNCHANGED <<doc, private, intent, incoming, file, looked, unheard, edits>>

\* The second half of the move.  When it fails the copy stays, unused.
DeleteSource(c) ==
    /\ call[c].pc = "source"
    /\ \/ Reach(c, "load") /\ incoming' = Deleted(call[c].intent)
       \/ End(c, "refused") /\ UNCHANGED incoming
    /\ UNCHANGED <<doc, private, intent, evidence, file, looked, unheard, edits>>

\* Read with no lock: the document, and the privacy of its evidence type.
\* The two reads see one state here; the transaction checks each of them.
LoadBefore(c) ==
    /\ call[c].pc = "load"
    /\ Becomes(c, [call[c] EXCEPT !.pc = "lock", !.type = doc.type,
                                 !.private = private[doc.type],
                                 !.approved = (doc.status = "approved")])
    /\ UNCHANGED <<doc, private, intent, incoming, evidence, file, looked, unheard, edits>>

-----------------------------------------------------------------------------
(* Its transaction.                                                        *)

\* The project first, and only if the document was approved before.
Lock(c) ==
    /\ call[c].pc = "lock"
    /\ DocFree
    /\ Reach(c, "read")
    /\ UNCHANGED <<doc, private, intent, incoming, evidence, file, looked, unheard, edits>>

\* The second read of the document, under the locks.
ReadOwner(c) ==
    /\ call[c].pc = "read"
    /\ Becomes(c, [call[c] EXCEPT !.pc = "attach", !.owner = doc])
    /\ UNCHANGED <<doc, private, intent, incoming, evidence, file, looked, unheard, edits>>

\* Mutant: final approval between the two reads goes unnoticed.
NotApprovedBeneathUnchecked(c) == TRUE

\* A document approved between the two reads: the project is not locked.
NotApprovedBeneath(c) == call[c].owner.status = "approved" => call[c].approved

\* The stamp is the privacy of the type as it is now; the row of the type is
\* share-locked from here to the commit.
StampStands(c) ==
    /\ call[c].owner.type = call[c].type
    /\ private[call[c].type] = call[c].private

\* Mutant: any number of requests complete an intent.
CompleteIntentAlways(c) == TRUE

\* The conditional update of the intent: one request wins.
CompleteIntentIfOpen(c) == ~intent[call[c].intent].done

\* The conditional update of the approval instance.
BumpIsCurrent(c) ==
    BumpsInstance(call[c].owner) => doc.version = call[c].owner.version

\* Mutant: a file added in review leaves the version of the instance alone.
NewVersionOnceApproved(c) ==
    IF call[c].owner.status = "approved" THEN doc.version + 1 ELSE doc.version

NewVersion(c) ==
    IF BumpsInstance(call[c].owner) THEN doc.version + 1 ELSE doc.version

Accepted(c) ==
    /\ AddOpen(call[c].owner, intent[call[c].intent].by)
    /\ StampStands(c)
    /\ NotApprovedBeneath(c)
    /\ CompleteIntentIfOpen(c)
    /\ BumpIsCurrent(c)

\* All writes of the transaction, at its commit.
Commit(c) ==
    /\ Accepted(c)
    /\ intent' = [intent EXCEPT ![call[c].intent].done = TRUE]
    /\ file' = [file EXCEPT ![c] = [intent |-> call[c].intent,
                                    by |-> intent[call[c].intent].by,
                                    private |-> call[c].private,
                                    state |-> "alive"]]
    /\ NewVersion(c) \leq MaxVersion
    /\ doc' = [doc EXCEPT !.version = NewVersion(c)]

\* A refusal, an error or an answer that does not arrive ends in the
\* compensation; the last of them after a commit.
Attach(c) ==
    /\ call[c].pc = "attach"
    /\ \/ Commit(c) /\ End(c, "done") /\ UNCHANGED unheard
       \/ Commit(c) /\ Reach(c, "undo") /\ unheard' = unheard \cup {c}
       \/ Reach(c, "undo") /\ UNCHANGED <<doc, intent, file, unheard>>
    /\ UNCHANGED <<private, incoming, evidence, looked, edits>>

\* The moved object is deleted; an object that will not go is left over.
Compensate(c) ==
    /\ call[c].pc = "undo"
    /\ End(c, "refused")
    /\ \/ evidence' = [evidence EXCEPT ![KeyOf(c)] = "none"]
       \/ UNCHANGED evidence
    /\ UNCHANGED <<doc, private, intent, incoming, file, looked, unheard, edits>>

\* The server stops: the transaction is rolled back, nothing is compensated.
Crash(c) ==
    /\ call[c].pc \notin {"idle", "done", "refused"}
    /\ End(c, "refused")
    /\ UNCHANGED <<doc, private, intent, incoming, evidence, file, looked, unheard, edits>>

Complete(c) ==
    \/ \E i \in Intents : Notify(c, i)
    \/ ReadMetadata(c)
    \/ ReadHead(c)
    \/ Copy(c)
    \/ DeleteSource(c)
    \/ LoadBefore(c)
    \/ Lock(c)
    \/ ReadOwner(c)
    \/ Attach(c)
    \/ Compensate(c)
    \/ Crash(c)

-----------------------------------------------------------------------------
(* What other people do to the document and its files meanwhile.           *)

Reaches(status) ==
    /\ doc.version < MaxVersion
    /\ doc' = [doc EXCEPT !.status = status, !.version = @ + 1]
    /\ UNCHANGED <<private, intent, incoming, evidence, file, call, unheard, edits>>

\* Submitting, and submitting again, lock the project and the document.
Submit ==
    /\ doc.status \in {"draft", "returned"}
    /\ ProjectFree /\ DocFree
    /\ Reaches("in_review")
    /\ UNCHANGED looked

\* One answer arrives: the version of the instance, which comes with the
\* decisions that are open, or the files, and with them whether the document's
\* kind of evidence is private.  (That is another query, beside the files or
\* right after them; a document under review keeps its kind and, at one
\* version, its files, so it is as if both were asked then.)
Reads == {"version", "files"}

Arrives(what, screen) ==
    /\ what = "version" => doc.status = "in_review"
    /\ looked' = [screen EXCEPT
           !.left = @ \ {what},
           !.version = IF what = "version" THEN doc.version ELSE @,
           !.files = IF what = "files" THEN Alive ELSE @,
           !.private = IF what = "files" THEN private[doc.type] ELSE @]
    /\ UNCHANGED <<doc, private, intent, incoming, evidence, file, call, unheard, edits>>

\* The list of the documents that wait for a decision takes the instances first
\* and the details of their documents after that.  The page of the document asks
\* for its files and for its approval side by side.
FirstReads(door) == IF door = "sheet" THEN {"version"} ELSE Reads

OpenScreen(door) ==
    /\ doc.version < MaxVersion
    /\ \E what \in FirstReads(door) :
         Arrives(what, [NotLooked EXCEPT !.door = door, !.left = Reads])

ReadOn == \E what \in looked.left : Arrives(what, looked)

\* The files on the screen of the person u, who sees all documents of the
\* company or not: private ones are left out for the others.
ShownTo(u, all) ==
    {f \in looked.files : all \/ file[f].by = u \/ ~(looked.private \/ file[f].private)}

\* The last approval touches only the instance, at the version on the screen.
Approve ==
    /\ doc.status = "in_review"
    /\ looked.left = {} /\ doc.version = looked.version
    /\ Reaches("approved")
    /\ UNCHANGED looked

\* So do rejection and withdrawal.
Return ==
    /\ doc.status = "in_review"
    /\ Reaches("returned")
    /\ UNCHANGED looked

Edit ==
    /\ edits < MaxEdits
    /\ edits' = edits + 1
    /\ UNCHANGED <<intent, incoming, evidence, file, call, looked, unheard>>

\* An edit of the draft is one update, which waits for the row.
EditType(t) ==
    /\ Edit
    /\ DrafterRemoves(doc) /\ DocFree
    /\ t # doc.type
    /\ doc' = [doc EXCEPT !.type = t]
    /\ UNCHANGED private

\* The update waits for the share lock of an upload, which is held only in
\* the step that commits it.
SetPrivate(t) ==
    /\ Edit
    /\ private' = [private EXCEPT ![t] = ~@]
    /\ UNCHANGED doc

\* A project is completed, or its settlement withdrawn, under its lock.
TurnProject ==
    /\ Edit
    /\ ProjectFree
    /\ doc' = [doc EXCEPT !.completed = ~@]
    /\ UNCHANGED private

Mark(f, state) ==
    /\ f \in Alive
    /\ DocFree
    /\ file' = [file EXCEPT ![f].state = state]
    /\ UNCHANGED <<doc, private, intent, incoming, evidence, call, looked, unheard, edits>>

\* The object of a removed or voided file is kept.
Remove(f) == DrafterRemoves(doc) /\ Mark(f, "removed")

VoidFile(f) == doc.status = "approved" /\ ProjectFree /\ Mark(f, "voided")

Next ==
    \/ \E i \in Intents, u \in Users : RequestUpload(i, u)
    \/ \E i \in Intents, content \in Contents \ {"none"} : Put(i, content)
    \/ \E c \in Calls : Complete(c)
    \/ Submit
    \/ \E door \in Doors : OpenScreen(door)
    \/ ReadOn
    \/ Approve
    \/ Return
    \/ \E t \in Types : EditType(t) \/ SetPrivate(t)
    \/ TurnProject
    \/ \E f \in Calls : Remove(f) \/ VoidFile(f)

Spec == Init /\ [][Next]_vars

-----------------------------------------------------------------------------
(* Properties.                                                             *)

Documents ==
    [status : {"draft", "in_review", "approved", "returned"}, version : Nat,
     type : Types, completed : BOOLEAN]

Rows ==
    [intent : Intents \cup {Nobody}, by : Users \cup {Nobody}, private : BOOLEAN,
     state : {"none", "alive", "removed", "voided"}]

Steps == {"idle", "meta", "head", "copy", "source", "load", "lock", "read",
          "attach", "undo", "done", "refused"}

Requests ==
    [pc : Steps, intent : Intents \cup {Nobody}, gen : Nat, type : Types \cup {Nobody},
     private : BOOLEAN, approved : BOOLEAN, owner : Documents \cup {Nobody}]

Screens ==
    [door : {"none", "sheet", "page"}, left : SUBSET Reads,
     version : Nat, files : SUBSET Calls, private : BOOLEAN]

\* Every variable stays within its type.
TypeOK ==
    /\ doc \in Documents
    /\ private \in [Types -> BOOLEAN]
    /\ intent \in [Intents -> [by : Users \cup {Nobody}, done : BOOLEAN]]
    /\ incoming \in [Intents -> [content : Contents, gen : Nat]]
    /\ evidence \in [Calls -> Contents]
    /\ file \in [Calls -> Rows]
    /\ call \in [Calls -> Requests]
    /\ looked \in Screens
    /\ unheard \subseteq Calls

\* However many requests complete an intent at once, after a lost answer or
\* from two tabs, it makes one file (completeIntentIfOpen).
OneFilePerIntent ==
    \A f, g \in Calls :
        file[f].state # "none" /\ file[g].state # "none" /\ file[f].intent = file[g].intent
            => f = g

\* The object of every file is there and is the one that was checked: neither
\* a later put nor the compensation of another request takes its place.  The
\* exception is a commit the server did not hear of.
FilesHaveObjects ==
    \A f \in Calls \ unheard : file[f].state # "none" => evidence[f] = "declared"

\* Somebody approves with every file of the document on the screen but those
\* withheld as private, and with none that is gone.
Seen ==
    \A u \in Users \cup {Nobody}, all \in BOOLEAN :
        /\ ShownTo(u, all) \subseteq Alive
        /\ \A f \in Alive \ ShownTo(u, all) :
             ~all /\ file[f].by # u /\ (looked.private \/ file[f].private)

Approved == doc.status = "in_review" /\ doc'.status = "approved"

\* A decision taken from the list of documents that wait for it rests on the
\* files of the document as they are, whoever takes it: the list has read the
\* version before the files, and a file added since has moved the version
\* (listMyInbox, bumpInstanceVersion).
DecidedOnTheFilesSeen == [][Approved /\ looked.door = "sheet" => Seen]_vars

\* The same of a decision taken on the page of the document.  It does not hold:
\* the page may have the files from before an upload and the version from after.
PageDecidedOnTheFilesSeen == [][Approved /\ looked.door = "page" => Seen]_vars

\* When a file is added, its adder may add it to the document as it stands
\* then, and it is private exactly if its type is private then: what was read
\* before the lock has been checked again.
AddedAsThingsStand ==
    [][\A f \in Calls :
         file[f].state = "none" /\ file'[f].state # "none" =>
             /\ AddOpen(doc, file'[f].by)
             /\ file'[f].private = private[doc.type]]_vars
=============================================================================
