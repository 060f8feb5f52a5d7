-------------------------- MODULE ProfileRecordStore --------------------------
(***************************************************************************)
(* The file-backed store of one Provider's credential record and managed   *)
(* credential documents (credentials/profile-record-store.ts).             *)
(*                                                                         *)
(* Two kinds of lock files guard it: one for the record, one for each      *)
(* credential.  An operation that needs both takes the credential lock     *)
(* first.  The record and the documents are separate files, each replaced  *)
(* by an atomic rename, so everything a caller does between two awaits is  *)
(* one step here and a crash may fall between any two of them.             *)
(*                                                                         *)
(* Lock files outlive the process that made them.  A lock whose owner has  *)
(* died, or has been suspended for LOCK_STALE_MS, reads as Stale and may   *)
(* be taken by the next caller.                                            *)
(***************************************************************************)
EXTENDS ProfileRecord, FiniteSets

CONSTANTS Callers,       \* concurrent calls into the store, from any process
          Managed,       \* the ids whose document Token owns; others external
          Free, Stale,   \* the lock states other than "held by caller c"
          MaxRev,        \* bound: committed revisions
          MaxToken,      \* bound: tokens the OAuth server issues per credential
          MaxCrashes,    \* bound: processes that die inside a call
          MaxStalls      \* bound: owners suspended past LOCK_STALE_MS

ASSUME StoreAssumption ==
  /\ Managed \subseteq Ids /\ Ids # {}
  /\ Free # Stale /\ {Free, Stale} \cap Callers = {}
  /\ MaxRev \in Nat /\ MaxToken \in Nat /\ MaxCrashes \in Nat /\ MaxStalls \in Nat

VARIABLES
  record,     \* the record file
  doc,        \* doc[i]: token generation in i's managed document, 0 if no file
  aged,       \* documents older than the orphan grace period
  recLock,    \* the record's lock file
  credLock,   \* credLock[i]: the lock file of credential i
  lastRev,    \* revisions drawn from createRevision so far
  used,       \* credential ids drawn by logins so far
  published,  \* history: credential ids that a committed record has contained
  pc,         \* pc[c]: where caller c is
  call,       \* call[c]: the arguments and locals of its call
  faults,     \* crashes and stalls so far
  issued,     \* OAuth server: newest token generation per credential
  replayed,   \* history: credentials whose spent token was presented again
  forfeited   \* history: credentials whose rotated token never reached the disk

files == <<record, doc, aged>>
locks == <<recLock, credLock>>
server == <<issued, replayed, forfeited>>
names == <<lastRev, used, published>>
vars == <<files, locks, names, pc, call, faults, server>>

Ops == {"publish", "manage", "select", "refresh", "collect", "observe"}
PCs == {"idle", "cred", "stat", "rec", "read", "yield", "callback", "rec2",
        "recheck", "doc", "commit", "write", "unlink", "publish",
        "relRec", "relCred"}

\* A call: which operation on which credential, the expectedRevision of a
\* management call, the record last read under the record lock, the record
\* about to be written, the document read and then the one to be written, and
\* whether the lock heartbeat has reported nothing wrong so far.
Calls == [op : Ops, id : Ids, expected : Nat, base : Records, draft : Records,
          raw : Nat, owned : BOOLEAN]

AnId == CHOOSE i \in Ids : TRUE

NoCall == [op |-> "observe", id |-> AnId, expected |-> 0, base |-> Absent,
           draft |-> Absent, raw |-> 0, owned |-> TRUE]

TypeOK ==
  /\ record \in Records
  /\ doc \in [Ids -> Nat] /\ issued \in [Ids -> Nat]
  /\ aged \subseteq Ids /\ used \subseteq Ids /\ published \subseteq Ids
  /\ replayed \subseteq Ids /\ forfeited \subseteq Ids
  /\ recLock \in Callers \cup {Free, Stale}
  /\ credLock \in [Ids -> Callers \cup {Free, Stale}]
  /\ lastRev \in Nat
  /\ pc \in [Callers -> PCs] /\ call \in [Callers -> Calls]
  /\ faults \in [{"crash", "stall"} -> Nat]

Init ==
  /\ record = Absent
  /\ doc = [i \in Ids |-> 0] /\ aged = {}
  /\ recLock = Free /\ credLock = [i \in Ids |-> Free]
  /\ lastRev = 0 /\ used = {} /\ published = {}
  /\ pc = [c \in Callers |-> "idle"] /\ call = [c \in Callers |-> NoCall]
  /\ faults = [f \in {"crash", "stall"} |-> 0]
  /\ issued = [i \in Ids |-> 0] /\ replayed = {} /\ forfeited = {}

-----------------------------------------------------------------------------
\* Mutant of UsesCredLock: a refresh does without the credential lock.
UnlockedRefresh(o) == o \in {"publish", "collect"}

\* The operations that serialise on the credential's own lock first.
UsesCredLock(o) == o \in {"publish", "refresh", "collect"}

HoldsCred(c) == UsesCredLock(call[c].op) /\ pc[c] \notin {"idle", "cred"}

HoldsRec(c) == pc[c] \in {"read", "yield", "recheck", "doc", "commit", "write",
                          "unlink", "publish", "relRec"}

Goto(c, label) == pc' = [pc EXCEPT ![c] = label]

Finished(k) == [NoCall EXCEPT !.op = k.op, !.id = k.id, !.owned = k.owned]

\* As Goto, forgetting what the call no longer needs.
Leave(c, label) ==
  /\ Goto(c, label)
  /\ call' = [call EXCEPT ![c] = IF label = "idle" THEN NoCall ELSE Finished(call[c])]

AssertOwned(c) == call[c].owned

\* A caller done with the record lock still has the credential lock to return.
AfterRecord(c) == IF HoldsCred(c) THEN "relCred" ELSE "idle"

-----------------------------------------------------------------------------
\* A call arrives.  expectedRevision is the revision the client last saw; a
\* login has already obtained its first token from the server.
BeginOn(c, o, i, rev) ==
  /\ pc[c] = "idle"
  /\ Goto(c, IF UsesCredLock(o) THEN "cred" ELSE "rec")
  /\ call' = [call EXCEPT ![c] = [NoCall EXCEPT !.op = o, !.id = i, !.expected = rev]]
  /\ UNCHANGED <<files, locks, faults, lastRev, published, replayed, forfeited>>

BeginPublish(c, i) ==
  /\ i \notin used
  /\ BeginOn(c, "publish", i, 0)
  /\ used' = used \cup {i}
  /\ issued' = [issued EXCEPT ![i] = 1]

BeginOnCredential(c, o, i) ==
  /\ o \in {"refresh", "collect", "observe"} /\ i \in used
  /\ BeginOn(c, o, i, 0)
  /\ UNCHANGED <<used, issued>>

BeginOnRecord(c, o) ==
  /\ o \in {"manage", "select"}
  /\ BeginOn(c, o, AnId, IF o = "manage" THEN record.rev ELSE 0)
  /\ UNCHANGED <<used, issued>>

Begin(c) == \E o \in Ops : \/ BeginOnRecord(c, o)
                           \/ \E i \in Ids : BeginPublish(c, i) \/ BeginOnCredential(c, o, i)

-----------------------------------------------------------------------------
\* acquireLock: poll until the lock is free, or stale, or the deadline passes.
Available(l) == l \in {Free, Stale}

AcquireCred(c) ==
  /\ pc[c] = "cred" /\ Available(credLock[call[c].id])
  /\ credLock' = [credLock EXCEPT ![call[c].id] = c]
  /\ Goto(c, IF call[c].op = "collect" THEN "stat" ELSE "rec")
  /\ UNCHANGED <<files, recLock, names, call, faults, server>>

AcquireRec(c) ==
  /\ pc[c] \in {"rec", "rec2"} /\ Available(recLock)
  /\ recLock' = c
  /\ Goto(c, IF pc[c] = "rec" THEN "read" ELSE "recheck")
  /\ UNCHANGED <<files, credLock, names, call, faults, server>>

\* A refresh that has rotated the token loses it with any failure from here on.
Forfeit(c) ==
  forfeited' = IF /\ call[c].op = "refresh" /\ call[c].raw # 0
                  /\ pc[c] \in {"rec2", "recheck", "write"}
               THEN forfeited \cup {call[c].id} ELSE forfeited

\* Mutants of GiveUp: past the deadline the call goes ahead, or polls on.
GiveUpProceeds(c) ==
  /\ pc[c] = "rec"
  /\ Goto(c, "read")
  /\ UNCHANGED <<files, locks, names, call, faults, server>>

GiveUpNever(c) == FALSE

\* 30 s of ELOCKED: the call fails, returning the outer lock if it has one.
GiveUp(c) ==
  /\ pc[c] \in {"cred", "rec", "rec2"}
  /\ Leave(c, AfterRecord(c)) /\ Forfeit(c)
  /\ UNCHANGED <<files, locks, names, faults, issued, replayed>>

-----------------------------------------------------------------------------
\* Under the record lock: read the record, run the caller's mutation on it.
Reading(c, o) == pc[c] = "read" /\ call[c].op = o

\* The mutation reported "unchanged", or the read or the validation threw.
ReadUnchanged(c) ==
  /\ pc[c] = "read"
  /\ Leave(c, "relRec")
  /\ UNCHANGED <<files, locks, names, faults, server>>

\* The mutation produced a record, which gets a new revision.  validateRecord is
\* no guard here: RecordIsValid shows that it never has anything to reject.
Prepare(c, r, label) ==
  /\ lastRev < MaxRev
  /\ lastRev' = lastRev + 1
  /\ call' = [call EXCEPT ![c].base = record, ![c].draft = [r EXCEPT !.rev = lastRev + 1]]
  /\ Goto(c, label)
  /\ UNCHANGED <<files, locks, used, published, faults, server>>

PreparePublish(c) ==
  /\ Reading(c, "publish")
  /\ Prepare(c, Appended(record, call[c].id),
             IF call[c].id \in Managed THEN "doc" ELSE "commit")

PrepareManage(c) ==
  /\ Reading(c, "manage") /\ record.rev = call[c].expected
  /\ \E r \in Edits(record) : Prepare(c, r, "commit")

PrepareSelect(c) ==
  /\ Reading(c, "select")
  /\ \E r \in Switches(record) : Prepare(c, r, "commit")

\* Mutant of Allowed: the collector unlinks whatever is old enough.
AllowedUnreferenced(c) ==
  \/ Reading(c, "collect")
  \/ Reading(c, "observe") /\ call[c].id \in record.enabled
  \/ Reading(c, "refresh") /\ call[c].id \in record.enabled \cap Managed
                           /\ doc[call[c].id] # 0

\* The other operations only need the record to allow what they do next.
Allowed(c) ==
  \/ Reading(c, "collect") /\ call[c].id \notin record.members \cap Managed
  \/ Reading(c, "observe") /\ call[c].id \in record.enabled
  \/ Reading(c, "refresh") /\ call[c].id \in record.enabled \cap Managed
                           /\ doc[call[c].id] # 0

ReadAllowed(c) ==
  /\ Allowed(c)
  /\ call' = [call EXCEPT ![c].base = record,
                          ![c].raw = IF call[c].op = "refresh" THEN doc[call[c].id] ELSE 0]
  /\ Goto(c, CASE call[c].op = "collect" -> "unlink"
               [] call[c].op = "observe" -> "publish"
               [] call[c].op = "refresh" -> "yield")
  /\ UNCHANGED <<files, locks, names, faults, server>>

-----------------------------------------------------------------------------
\* Effects.  assertOwned is called before each; a rename or an unlink is atomic.
WriteDoc(c) ==
  /\ pc[c] = "doc" /\ AssertOwned(c)
  /\ doc' = [doc EXCEPT ![call[c].id] = 1] /\ aged' = aged \ {call[c].id}
  /\ \/ Goto(c, "commit") /\ UNCHANGED call
     \/ Leave(c, "relRec")                        \* the directory sync threw
  /\ UNCHANGED <<record, locks, names, faults, server>>

Commit(c) ==
  /\ pc[c] = "commit" /\ AssertOwned(c)
  /\ record' = call[c].draft
  /\ published' = published \cup record'.members
  /\ Leave(c, "relRec")
  /\ UNCHANGED <<doc, aged, locks, lastRev, used, faults, server>>

WriteRefreshed(c) ==
  /\ pc[c] = "write" /\ AssertOwned(c)
  /\ doc' = [doc EXCEPT ![call[c].id] = call[c].raw] /\ aged' = aged \ {call[c].id}
  /\ Leave(c, "relRec")
  /\ UNCHANGED <<record, locks, names, faults, server>>

Unlink(c) ==
  /\ pc[c] = "unlink" /\ AssertOwned(c)
  /\ doc' = [doc EXCEPT ![call[c].id] = 0] /\ aged' = aged \ {call[c].id}
  /\ Leave(c, "relRec")
  /\ UNCHANGED <<record, locks, names, faults, server>>

\* publishIfCurrent has run its callback under the lock.
Published(c) ==
  /\ pc[c] = "publish" /\ Leave(c, "relRec")
  /\ UNCHANGED <<files, locks, names, faults, server>>

\* A file operation or an assertOwned throws before it had any effect.
Fail(c) ==
  /\ pc[c] \in {"recheck", "doc", "commit", "write", "unlink"}
  /\ Leave(c, "relRec") /\ Forfeit(c)
  /\ UNCHANGED <<files, locks, names, faults, issued, replayed>>

-----------------------------------------------------------------------------
\* Mutant of Yield: both locks are let go while the Provider is asked.
YieldBoth(c) ==
  /\ pc[c] = "yield"
  /\ recLock' = Free /\ credLock' = [credLock EXCEPT ![call[c].id] = Free]
  /\ Goto(c, "callback")
  /\ UNCHANGED <<files, names, call, faults, server>>

\* modifyManagedDocument lets go of the record while the Provider is asked.
Yield(c) ==
  /\ pc[c] = "yield"
  /\ recLock' = IF recLock = c \/ AssertOwned(c) THEN Free ELSE recLock
  /\ Goto(c, IF AssertOwned(c) THEN "callback" ELSE "relCred")
  /\ UNCHANGED <<files, credLock, names, call, faults, server>>

\* The server accepts only the newest token, and spends it.
Rotate(c) ==
  LET i == call[c].id IN
  /\ pc[c] = "callback" /\ call[c].raw = issued[i] /\ issued[i] < MaxToken
  /\ issued' = [issued EXCEPT ![i] = @ + 1]
  /\ \/ /\ call' = [call EXCEPT ![c].raw = issued[i] + 1]
        /\ Goto(c, "rec2")
        /\ UNCHANGED forfeited
     \/ /\ Leave(c, "relCred")                    \* the answer was lost
        /\ forfeited' = forfeited \cup {i}
  /\ UNCHANGED <<files, locks, names, faults, replayed>>

Refused(c) ==
  /\ pc[c] = "callback" /\ call[c].raw # issued[call[c].id]
  /\ replayed' = replayed \cup {call[c].id}
  /\ Leave(c, "relCred")
  /\ UNCHANGED <<files, locks, names, faults, issued, forfeited>>

\* Mutant of KeepCredential: its result is written without the record lock.
KeepWithoutLock(c) ==
  /\ pc[c] = "callback"
  /\ Goto(c, "recheck")
  /\ UNCHANGED <<files, locks, names, call, faults, server>>

\* The callback kept the credential, or failed before it reached the server.
KeepCredential(c) ==
  /\ pc[c] = "callback"
  /\ call' = [call EXCEPT ![c].raw = 0]
  /\ \E label \in {"rec2", "relCred"} : Goto(c, label)
  /\ UNCHANGED <<files, locks, names, faults, server>>

\* Mutant of RecheckPasses: only a removed Profile discards the result.
RecheckExists(c) ==
  /\ pc[c] = "recheck"
  /\ call[c].id \in record.members \cap Managed /\ call[c].raw # 0
  /\ call' = [call EXCEPT ![c].base = record]
  /\ Goto(c, "write")
  /\ UNCHANGED <<files, locks, names, faults, server>>

\* The record is read again; the result is discarded unless it may be published.
RecheckPasses(c) ==
  /\ pc[c] = "recheck"
  /\ call[c].id \in record.enabled \cap Managed /\ call[c].raw # 0
  /\ call' = [call EXCEPT ![c].base = record]
  /\ Goto(c, "write")
  /\ UNCHANGED <<files, locks, names, faults, server>>

Discard(c) ==
  /\ pc[c] = "recheck"
  /\ call[c].id \notin record.enabled \cap Managed \/ call[c].raw = 0
  /\ Leave(c, "relRec") /\ Forfeit(c)
  /\ UNCHANGED <<files, locks, names, faults, issued, replayed>>

-----------------------------------------------------------------------------
\* collectOrphans looks at the file before it asks for the record.
Stat(c) ==
  /\ pc[c] = "stat"
  /\ Goto(c, IF call[c].id \in aged THEN "rec" ELSE "relCred")
  /\ UNCHANGED <<files, locks, names, call, faults, server>>

\* A lock file that another caller has taken over meanwhile is removed all the
\* same, unless its loss has been noticed.
ReleaseRec(c) ==
  /\ pc[c] = "relRec"
  /\ recLock' = IF recLock = c \/ AssertOwned(c) THEN Free ELSE recLock
  /\ Leave(c, AfterRecord(c))
  /\ UNCHANGED <<files, credLock, names, faults, server>>

ReleaseCred(c) ==
  LET i == call[c].id IN
  /\ pc[c] = "relCred"
  /\ credLock' = [credLock EXCEPT ![i] = IF @ = c \/ AssertOwned(c) THEN Free ELSE @]
  /\ Leave(c, "idle")
  /\ UNCHANGED <<files, recLock, names, faults, server>>

-----------------------------------------------------------------------------
\* Faults and time.
Orphan(c) ==
  /\ recLock' = IF recLock = c THEN Stale ELSE recLock
  /\ credLock' = [i \in Ids |-> IF credLock[i] = c THEN Stale ELSE credLock[i]]

Crash(c) ==
  /\ pc[c] # "idle" /\ faults["crash"] < MaxCrashes
  /\ Orphan(c) /\ Forfeit(c)
  /\ Leave(c, "idle")
  /\ faults' = [faults EXCEPT !["crash"] = @ + 1]
  /\ UNCHANGED <<files, names, issued, replayed>>

Stall(c) ==
  /\ faults["stall"] < MaxStalls
  /\ HoldsRec(c) \/ HoldsCred(c)
  /\ Orphan(c)
  /\ faults' = [faults EXCEPT !["stall"] = @ + 1]
  /\ UNCHANGED <<files, names, pc, call, server>>

\* The heartbeat finds that a lock this caller relies on is no longer its own.
Notice(c) ==
  /\ \/ HoldsRec(c) /\ recLock \notin {c, Stale}
     \/ HoldsCred(c) /\ credLock[call[c].id] \notin {c, Stale}
  /\ call' = [call EXCEPT ![c].owned = FALSE]
  /\ UNCHANGED <<files, locks, names, pc, faults, server>>

Age(i) ==
  /\ doc[i] # 0 /\ i \notin aged
  /\ aged' = aged \cup {i}
  /\ UNCHANGED <<record, doc, locks, names, pc, call, faults, server>>

-----------------------------------------------------------------------------
Read(c) == ReadUnchanged(c) \/ PreparePublish(c) \/ PrepareManage(c)
             \/ PrepareSelect(c) \/ ReadAllowed(c)
Effect(c) == WriteDoc(c) \/ Commit(c) \/ WriteRefreshed(c) \/ Unlink(c)
               \/ Published(c) \/ Fail(c)
Callback(c) == Rotate(c) \/ Refused(c) \/ KeepCredential(c)
Release(c) == Yield(c) \/ ReleaseRec(c) \/ ReleaseCred(c)

\* What a call does once it has been made.
Step(c) == AcquireCred(c) \/ AcquireRec(c) \/ GiveUp(c) \/ Stat(c) \/ Read(c)
             \/ Effect(c) \/ Callback(c) \/ RecheckPasses(c) \/ Discard(c) \/ Release(c)

Next == \/ \E c \in Callers : Begin(c) \/ Step(c) \/ Crash(c) \/ Stall(c) \/ Notice(c)
        \/ \E i \in Ids : Age(i)

Spec == Init /\ [][Next]_vars

\* Every await of a running call is on a file operation, on a lock poll with a
\* deadline or on the Provider, whose calls end; so a running call moves.
FairSpec == Spec /\ \A c \in Callers : WF_vars(Step(c))

-----------------------------------------------------------------------------
\* A Profile in the record has its document on disk, whatever crashed and
\* whatever the collector removed meanwhile: publishCredential writes the
\* document first, and the collector unlinks under both locks.
ReferencedDocuments == \A i \in record.members \cap Managed : doc[i] # 0

\* validateRecord would accept the file: the selection is an enabled Profile.
RecordIsValid == ValidRecord(record)

\* While a caller is between reading the record and acting on it, the record
\* stays what it read: no commit, document write, unlink or publishIfCurrent
\* callback acts on a record that has been replaced in between.
ActsOnCurrentRecord ==
  \A c \in Callers :
    pc[c] \in {"doc", "commit", "write", "unlink", "publish"} => call[c].base = record

\* A refresh token is presented once: two refreshes of one credential never
\* start from the same document unless the rotated token was lost on the way
\* (crash, lock deadline, failed write, or a Profile disabled in between).
SpentTokenNotReplayed == replayed \subseteq forfeited

\* At rest the document holds the newest token the server has issued.
NewestTokenKept ==
  \A i \in record.members \cap Managed :
    credLock[i] = Free => (i \in forfeited \/ doc[i] = issued[i])

\* "Token never resurrects": a refresh writes only the document of a Profile
\* that is enabled in the record at that moment.
RefreshNeedsEnabledProfile ==
  [][\A i \in Ids : doc[i] # 0 /\ doc'[i] \notin {0, doc[i]} => i \in record.enabled]_vars

\* A 429 switch never overwrites a newer user management change.
SwitchKeepsNewerManagement ==
  [][\A c \in Callers :
       pc[c] = "commit" /\ call[c].op = "select" /\ record' # record /\ record' = call[c].draft
         => call[c].base = record]_vars

\* Seen through the record, the store is the ledger: documents appear and go
\* with their Profile, refreshes only move forward, removed ids stay removed.
Ledger == INSTANCE CredentialLedger
            WITH rec <- record, ever <- published,
                 secret <- [i \in Ids |-> IF i \in record.members \cap Managed
                                          THEN doc[i] ELSE 0]
ImplementsLedger == Ledger!Spec

\* Every call ends, also when a process died holding the locks it needs.
CallTerminates == \A c \in Callers : pc[c] # "idle" ~> pc[c] = "idle"
=============================================================================
