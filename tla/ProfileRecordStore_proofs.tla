----------------------- MODULE ProfileRecordStore_proofs -----------------------
(***************************************************************************)
(* Proofs about ProfileRecordStore, for any number of callers, Profiles,   *)
(* revisions, tokens and crashes.                                          *)
(*                                                                         *)
(*   TypeOK   types                                                        *)
(*   Locks    a lock file names the caller that relies on it               *)
(*   Known    what each call may rely on: its plan suits the record on     *)
(*            disk, the id of a login is its own, a refresh works from the *)
(*            document on disk and the newest token is accounted for       *)
(*                                                                         *)
(* Inv is their conjunction.  It is inductive, and every property below    *)
(* follows from it.                                                        *)
(***************************************************************************)
EXTENDS ProfileRecordStore, TLAPS

-----------------------------------------------------------------------------
\* The initial and the absent values are of their types.
LEMMA AbsentType == Absent \in Records /\ ValidRecord(Absent)
  BY DEF Absent, Records, ValidRecord

LEMMA NoCallType == NoCall \in Calls
  <1>1. AnId \in Ids
    BY StoreAssumption DEF AnId
  <1> QED
    BY <1>1, AbsentType DEF NoCall, Calls, Ops

\* Edits map records to records, and valid ones to valid ones.
LEMMA AppendedType ==
  ASSUME NEW r \in Records, NEW i \in Ids
  PROVE  /\ Appended(r, i) \in Records
         /\ ValidRecord(r) => ValidRecord(Appended(r, i))
         /\ Appended(r, i).members = r.members \cup {i}
         /\ Appended(r, i).rev = r.rev
  BY DEF Appended, Records, ValidRecord

Narrowed(e, r) == e \in Records /\ e.members \subseteq r.members /\ e.rev = r.rev

LEMMA EditType ==
  ASSUME NEW r \in Records, NEW i \in Ids
  PROVE  /\ Narrowed(Removed(r, i), r) /\ Narrowed(Disabled(r, i), r)
         /\ Narrowed(Enabled(r, i), r) /\ Narrowed(Selected(r, i), r)
  <1>1. /\ Disabled(r, i) \in Records
        /\ Disabled(r, i).members = r.members
        /\ Disabled(r, i).rev = r.rev
    BY DEF Disabled, Records
  <1>2. /\ Removed(r, i) \in Records
        /\ Removed(r, i).members \subseteq r.members
        /\ Removed(r, i).rev = r.rev
    BY <1>1 DEF Removed, Records
  <1>3. /\ Enabled(r, i) \in Records /\ Selected(r, i) \in Records
        /\ Enabled(r, i).members = r.members /\ Selected(r, i).members = r.members
        /\ Enabled(r, i).rev = r.rev /\ Selected(r, i).rev = r.rev
    BY DEF Enabled, Selected, Records
  <1> QED
    BY <1>1, <1>2, <1>3 DEF Narrowed

LEMMA EditValid ==
  ASSUME NEW r \in Records, ValidRecord(r), NEW i \in r.members
  PROVE  /\ ValidRecord(Removed(r, i)) /\ ValidRecord(Disabled(r, i))
         /\ ValidRecord(Enabled(r, i))
         /\ i \in r.enabled => ValidRecord(Selected(r, i))
  <1>1. /\ ValidRecord(Disabled(r, i)) /\ i \notin Disabled(r, i).enabled
        /\ Disabled(r, i) \in Records
    BY DEF Disabled, Records, ValidRecord
  <1>2. ValidRecord(Removed(r, i))
    BY <1>1 DEF Removed, Records, ValidRecord
  <1>3. ValidRecord(Enabled(r, i)) /\ (i \in r.enabled => ValidRecord(Selected(r, i)))
    BY DEF Enabled, Selected, Records, ValidRecord
  <1> QED
    BY <1>1, <1>2, <1>3

LEMMA EditsType ==
  ASSUME NEW r \in Records, NEW e \in Edits(r)
  PROVE  /\ e \in Records
         /\ ValidRecord(r) => ValidRecord(e)
         /\ e.members \subseteq r.members
         /\ e.rev = r.rev
  <1>1. r.members \subseteq Ids /\ r.enabled \subseteq Ids
    BY DEF Records
  <1>2. \/ e = r
        \/ \E i \in r.members : e \in {Removed(r, i), Enabled(r, i)}
        \/ \E i \in r.enabled : e \in {Disabled(r, i), Selected(r, i)}
    BY DEF Edits
  <1>3. Narrowed(e, r)
    <2>1. Narrowed(r, r)
      BY DEF Narrowed
    <2> QED
      BY <1>1, <1>2, <2>1, EditType
  <1>4. ASSUME ValidRecord(r) PROVE ValidRecord(e)
    <2>1. r.enabled \subseteq r.members
      BY <1>4 DEF ValidRecord
    <2> QED
      BY <1>2, <1>4, <2>1, EditValid
  <1> QED
    BY <1>3, <1>4 DEF Narrowed

LEMMA SwitchesType ==
  ASSUME NEW r \in Records, NEW e \in Switches(r)
  PROVE  /\ e \in Records
         /\ ValidRecord(r) => ValidRecord(e)
         /\ e.members = r.members
         /\ e.rev = r.rev
  BY DEF Switches, Selected, Records, ValidRecord

LEMMA FinishedType == ASSUME NEW k \in Calls PROVE Finished(k) \in Calls
  BY NoCallType DEF Finished, Calls

\* The two ways in which an action moves its caller keep the types.
LEMMA LeaveType ==
  ASSUME TypeOK, NEW c \in Callers, NEW label \in PCs, Leave(c, label)
  PROVE  pc' \in [Callers -> PCs] /\ call' \in [Callers -> Calls]
  <1>1. call[c] \in Calls
    BY DEF TypeOK
  <1> QED
    BY <1>1, NoCallType, FinishedType DEF TypeOK, Leave, Goto

LEMMA GotoType ==
  ASSUME TypeOK, NEW c \in Callers, NEW label \in PCs, Goto(c, label)
  PROVE  pc' \in [Callers -> PCs]
  BY DEF TypeOK, Goto

LEMMA PrepareType ==
  ASSUME TypeOK, NEW c \in Callers, NEW r \in Records, NEW label \in PCs,
         Prepare(c, r, label)
  PROVE  TypeOK'
  <1>1. [r EXCEPT !.rev = lastRev + 1] \in Records
    BY DEF TypeOK, Records
  <1> DEFINE draft == [r EXCEPT !.rev = lastRev + 1]
             k == [call[c] EXCEPT !.base = record, !.draft = draft]
  <1>2. call' \in [Callers -> Calls]
    <2>1. k \in Calls
      <3>1. call[c] \in Calls /\ record \in Records
        BY DEF TypeOK
      <3> HIDE DEF draft
      <3> QED
        BY <1>1, <3>1 DEF Calls, draft
    <2>2. call' = [call EXCEPT ![c] = k]
      BY DEF Prepare
    <2> QED
      BY <2>1, <2>2 DEF TypeOK
  <1>3. pc' \in [Callers -> PCs]
    BY GotoType DEF Prepare
  <1> QED
    BY <1>2, <1>3 DEF TypeOK, Prepare, files, locks, server

LEMMA TypeStep == TypeOK /\ [Next]_vars => TypeOK'
  <1> SUFFICES ASSUME TypeOK, [Next]_vars PROVE TypeOK'
    OBVIOUS
  <1> USE DEF files, locks, names, server
  <1>pcs. \A c \in Callers : AfterRecord(c) \in PCs
    BY DEF AfterRecord, PCs
  <1>1. ASSUME NEW c \in Callers, Begin(c) PROVE TypeOK'
    <2>1. ASSUME NEW o \in Ops, NEW i \in Ids, NEW rev \in Nat, BeginOn(c, o, i, rev)
          PROVE  pc' \in [Callers -> PCs] /\ call' \in [Callers -> Calls]
      <3>1. [NoCall EXCEPT !.op = o, !.id = i, !.expected = rev] \in Calls
        BY NoCallType DEF Calls
      <3> QED
        BY <2>1, <3>1 DEF BeginOn, Goto, TypeOK, PCs
    <2>2. AnId \in Ids /\ record.rev \in Nat
      BY StoreAssumption DEF AnId, TypeOK, Records
    <2>3. ASSUME NEW i \in Ids, BeginPublish(c, i) PROVE TypeOK'
      BY <2>1, <2>3 DEF BeginPublish, BeginOn, TypeOK, Ops
    <2>4. ASSUME NEW i \in Ids, NEW o \in Ops, BeginOnCredential(c, o, i) PROVE TypeOK'
      BY <2>1, <2>4 DEF BeginOnCredential, BeginOn, TypeOK
    <2>5. ASSUME NEW o \in Ops, BeginOnRecord(c, o) PROVE TypeOK'
      BY <2>1, <2>2, <2>5 DEF BeginOnRecord, BeginOn, TypeOK
    <2> QED
      BY <1>1, <2>3, <2>4, <2>5 DEF Begin
  <1>2. ASSUME NEW c \in Callers, AcquireCred(c) \/ AcquireRec(c) \/ Stat(c)
        PROVE TypeOK'
    BY <1>2 DEF AcquireCred, AcquireRec, Stat, Goto, TypeOK, PCs
  <1>3. ASSUME NEW c \in Callers, GiveUp(c) PROVE TypeOK'
    BY <1>3, <1>pcs, LeaveType DEF GiveUp, Forfeit, TypeOK, Calls
  <1>4. ASSUME NEW c \in Callers, Read(c) PROVE TypeOK'
    <2>1. ASSUME ReadUnchanged(c) PROVE TypeOK'
      BY <2>1, LeaveType DEF ReadUnchanged, TypeOK, PCs
    <2>2. ASSUME PreparePublish(c) PROVE TypeOK'
      <3>1. record \in Records /\ call[c].id \in Ids
        BY DEF TypeOK, Calls
      <3> QED
        BY <2>2, <3>1, AppendedType, PrepareType DEF PreparePublish, PCs
    <2>3. ASSUME PrepareManage(c) PROVE TypeOK'
      BY <2>3, EditsType, PrepareType DEF PrepareManage, PCs, TypeOK
    <2>4. ASSUME PrepareSelect(c) PROVE TypeOK'
      BY <2>4, SwitchesType, PrepareType DEF PrepareSelect, PCs, TypeOK
    <2>5. ASSUME ReadAllowed(c) PROVE TypeOK'
      <3>1. call[c].op \in {"collect", "observe", "refresh"}
        BY <2>5 DEF ReadAllowed, Allowed, Reading
      <3>2. pc' \in [Callers -> PCs]
        BY <2>5, <3>1 DEF ReadAllowed, Goto, TypeOK, PCs
      <3>3. call' \in [Callers -> Calls]
        <4> DEFINE k == [call[c] EXCEPT !.base = record, !.raw = call'[c].raw]
        <4>1. doc[call[c].id] \in Nat /\ call[c] \in Calls /\ record \in Records
          BY DEF TypeOK, Calls
        <4>2. call' = [call EXCEPT ![c] = k] /\ k.raw \in Nat
          BY <2>5, <4>1 DEF ReadAllowed, TypeOK, Calls
        <4>3. k \in Calls
          BY <4>1, <4>2 DEF Calls
        <4> QED
          BY <4>2, <4>3 DEF TypeOK
      <3> QED
        BY <2>5, <3>2, <3>3 DEF ReadAllowed, TypeOK
    <2> QED
      BY <1>4, <2>1, <2>2, <2>3, <2>4, <2>5 DEF Read
  <1>5. ASSUME NEW c \in Callers, Effect(c) PROVE TypeOK'
    <2>1. call[c].id \in Ids /\ call[c].draft \in Records /\ call[c].raw \in Nat
      BY DEF TypeOK, Calls
    <2>2. ASSUME WriteDoc(c) PROVE TypeOK'
      <3>1. pc' \in [Callers -> PCs] /\ call' \in [Callers -> Calls]
        BY <2>2, LeaveType, GotoType DEF WriteDoc, TypeOK, PCs
      <3> QED
        BY <2>1, <2>2, <3>1 DEF WriteDoc, TypeOK
    <2>3. ASSUME Commit(c) PROVE TypeOK'
      BY <2>1, <2>3, LeaveType DEF Commit, TypeOK, PCs, Records
    <2>4. ASSUME WriteRefreshed(c) \/ Unlink(c) \/ Published(c) PROVE TypeOK'
      BY <2>1, <2>4, LeaveType DEF WriteRefreshed, Unlink, Published, TypeOK, PCs
    <2>5. ASSUME Fail(c) PROVE TypeOK'
      BY <2>1, <2>5, LeaveType DEF Fail, Forfeit, TypeOK, PCs
    <2> QED
      BY <1>5, <2>2, <2>3, <2>4, <2>5 DEF Effect
  <1>6. ASSUME NEW c \in Callers, Callback(c) PROVE TypeOK'
    <2>1. call[c].id \in Ids
      BY DEF TypeOK, Calls
    <2>2. ASSUME Rotate(c) PROVE TypeOK'
      <3>1. pc' \in [Callers -> PCs] /\ call' \in [Callers -> Calls]
        BY <2>1, <2>2, LeaveType, GotoType DEF Rotate, TypeOK, PCs, Calls
      <3> QED
        BY <2>1, <2>2, <3>1 DEF Rotate, TypeOK
    <2>3. ASSUME Refused(c) PROVE TypeOK'
      BY <2>1, <2>3, LeaveType DEF Refused, TypeOK, PCs
    <2>4. ASSUME KeepCredential(c) PROVE TypeOK'
      BY <2>4, GotoType DEF KeepCredential, TypeOK, PCs, Calls
    <2> QED
      BY <1>6, <2>2, <2>3, <2>4 DEF Callback
  <1>7. ASSUME NEW c \in Callers, RecheckPasses(c) PROVE TypeOK'
    BY <1>7, GotoType DEF RecheckPasses, TypeOK, PCs, Calls
  <1>8. ASSUME NEW c \in Callers, Discard(c) PROVE TypeOK'
    BY <1>8, LeaveType DEF Discard, Forfeit, TypeOK, PCs, Calls
  <1>9. ASSUME NEW c \in Callers, Release(c) PROVE TypeOK'
    <2>1. ASSUME Yield(c) PROVE TypeOK'
      BY <2>1, GotoType DEF Yield, TypeOK, PCs
    <2>2. ASSUME ReleaseRec(c) PROVE TypeOK'
      BY <2>2, <1>pcs, LeaveType DEF ReleaseRec, TypeOK
    <2>3. ASSUME ReleaseCred(c) PROVE TypeOK'
      BY <2>3, LeaveType DEF ReleaseCred, TypeOK, PCs
    <2> QED
      BY <1>9, <2>1, <2>2, <2>3 DEF Release
  <1>10. ASSUME NEW c \in Callers, Crash(c) PROVE TypeOK'
    BY <1>10, LeaveType DEF Crash, Orphan, Forfeit, TypeOK, PCs, Calls
  <1>11. ASSUME NEW c \in Callers, Stall(c) PROVE TypeOK'
    BY <1>11 DEF Stall, Orphan, TypeOK
  <1>12. ASSUME NEW c \in Callers, Notice(c) PROVE TypeOK'
    <2>1. [call[c] EXCEPT !.owned = FALSE] \in Calls
      BY DEF TypeOK, Calls
    <2> QED
      BY <1>12, <2>1 DEF Notice, TypeOK
  <1>13. ASSUME NEW i \in Ids, Age(i) PROVE TypeOK'
    <2>1. /\ UNCHANGED <<record, doc, locks, names, pc, call, faults, server>>
          /\ aged' \subseteq Ids
      BY <1>13 DEF Age, TypeOK
    <2> QED
      BY <2>1 DEF TypeOK
  <1>14. ASSUME UNCHANGED vars PROVE TypeOK'
    BY <1>14 DEF vars, TypeOK
  <1> QED
    BY <1>1, <1>2, <1>3, <1>4, <1>5, <1>6, <1>7, <1>8, <1>9, <1>10, <1>11, <1>12,
       <1>13, <1>14 DEF Next, Step

\* Every variable keeps its type, whatever callers, crashes and stalls do.
THEOREM TypeCorrect == Spec => []TypeOK
  <1>1. Init => TypeOK
    BY NoCallType, AbsentType DEF Init, TypeOK, PCs
  <1> QED
    BY <1>1, TypeStep, PTL DEF Spec

-----------------------------------------------------------------------------
(***************************************************************************)
(* What survives suspensions.  A lock that was taken for stale lets two    *)
(* callers act on one record, and most of what follows below fails then.   *)
(* This rests on no lock: a caller makes a valid record of a valid one, so *)
(* whoever writes in the meantime, what it is about to write stays valid.  *)
(***************************************************************************)
Pending(c) == pc[c] \in {"doc", "commit"}

Surviving ==
  /\ ValidRecord(record)
  /\ \A c \in Callers : Pending(c) => ValidRecord(call[c].draft)

\* A step that writes no record, after which only callers that had a change
\* pending have it still.
StillPending ==
  /\ record' = record
  /\ \A c \in Callers : Pending(c)' => Pending(c) /\ call'[c].draft = call[c].draft

LEMMA StillSurviving == ASSUME Surviving, StillPending PROVE Surviving'
  BY DEF Surviving, StillPending

LEMMA LeaveNotPending ==
  ASSUME TypeOK, NEW c \in Callers, NEW label \in PCs \ {"doc", "commit"}, Leave(c, label)
  PROVE  \A d \in Callers : Pending(d)' => Pending(d) /\ call'[d] = call[d]
  BY DEF Leave, Goto, TypeOK, Pending

LEMMA GotoNotPending ==
  ASSUME TypeOK, NEW c \in Callers, NEW label \in PCs \ {"doc", "commit"}, Goto(c, label),
         \A d \in Callers \ {c} : call'[d] = call[d]
  PROVE  \A d \in Callers : Pending(d)' => Pending(d) /\ call'[d] = call[d]
  BY DEF Goto, TypeOK, Pending

LEMMA MostStepsKeepPending ==
  ASSUME TypeOK, NEW c \in Callers,
         \/ Begin(c) \/ AcquireCred(c) \/ AcquireRec(c) \/ GiveUp(c) \/ Stat(c)
         \/ ReadUnchanged(c) \/ ReadAllowed(c) \/ WriteDoc(c) \/ WriteRefreshed(c) \/ Unlink(c)
         \/ Published(c) \/ Fail(c) \/ Callback(c) \/ RecheckPasses(c) \/ Discard(c)
         \/ Release(c) \/ Crash(c) \/ Stall(c) \/ Notice(c)
  PROVE  StillPending
  <1> USE DEF files, locks, names, server
  <1>a. AfterRecord(c) \in PCs \ {"doc", "commit"}
    BY DEF AfterRecord, PCs
  <1>1. CASE Begin(c)
    <2>1. ASSUME NEW o \in Ops, NEW i \in Ids, NEW rev \in Nat, BeginOn(c, o, i, rev)
          PROVE  StillPending
      <3>1. \A d \in Callers \ {c} : call'[d] = call[d]
        BY <2>1 DEF BeginOn, TypeOK
      <3>2. PICK label \in PCs \ {"doc", "commit"} : Goto(c, label)
        BY <2>1 DEF BeginOn, PCs
      <3> QED
        BY <2>1, <3>1, <3>2, GotoNotPending DEF BeginOn, StillPending
    <2>2. AnId \in Ids /\ record.rev \in Nat
      BY StoreAssumption DEF AnId, TypeOK, Records
    <2> QED
      BY <1>1, <2>1, <2>2 DEF Begin, BeginPublish, BeginOnCredential, BeginOnRecord, Ops
  <1>2. CASE AcquireCred(c) \/ AcquireRec(c) \/ Stat(c) \/ Yield(c)
    <2>1. call' = call /\ record' = record /\ lastRev' = lastRev
      BY <1>2 DEF AcquireCred, AcquireRec, Stat, Yield
    <2>2. PICK label \in PCs \ {"doc", "commit"} : Goto(c, label)
      BY <1>2 DEF AcquireCred, AcquireRec, Stat, Yield, PCs
    <2> QED
      BY <2>1, <2>2, GotoNotPending DEF StillPending
  <1>3. CASE GiveUp(c) \/ Fail(c) \/ Discard(c) \/ Crash(c)
    <2>1. record' = record /\ lastRev' = lastRev
      BY <1>3 DEF GiveUp, Fail, Discard, Crash
    <2>2. PICK label \in PCs \ {"doc", "commit"} : Leave(c, label)
      BY <1>3, <1>a DEF GiveUp, Fail, Discard, Crash, PCs
    <2> QED
      BY <2>1, <2>2, LeaveNotPending DEF StillPending
  <1>4. CASE ReadUnchanged(c) \/ WriteRefreshed(c) \/ Unlink(c) \/ Published(c)
             \/ ReleaseRec(c) \/ ReleaseCred(c)
    <2>1. record' = record /\ lastRev' = lastRev
      BY <1>4 DEF ReadUnchanged, WriteRefreshed, Unlink, Published, ReleaseRec, ReleaseCred
    <2>2. PICK label \in PCs \ {"doc", "commit"} : Leave(c, label)
      BY <1>4, <1>a DEF ReadUnchanged, WriteRefreshed, Unlink, Published, ReleaseRec,
                        ReleaseCred, PCs
    <2> QED
      BY <2>1, <2>2, LeaveNotPending DEF StillPending
  <1>5. CASE ReadAllowed(c)
    <2>1. call[c].op \in {"collect", "observe", "refresh"}
      BY <1>5 DEF ReadAllowed, Allowed, Reading
    <2>2. PICK label \in PCs \ {"doc", "commit"} : Goto(c, label)
      BY <1>5, <2>1 DEF ReadAllowed, PCs
    <2>3. \A d \in Callers \ {c} : call'[d] = call[d]
      BY <1>5 DEF ReadAllowed, TypeOK
    <2> QED
      BY <1>5, <2>2, <2>3, GotoNotPending DEF ReadAllowed, StillPending
  <1>6. CASE WriteDoc(c)
    <2>1. record' = record /\ lastRev' = lastRev /\ Pending(c)
      BY <1>6 DEF WriteDoc, Pending
    <2>2. CASE Leave(c, "relRec")
      BY <2>1, <2>2, LeaveNotPending DEF StillPending, PCs
    <2>3. CASE Goto(c, "commit") /\ UNCHANGED call
      BY <2>1, <2>3 DEF Goto, TypeOK, StillPending, Pending
    <2> QED
      BY <1>6, <2>2, <2>3 DEF WriteDoc
  <1>7. CASE Rotate(c) \/ Refused(c) \/ KeepCredential(c)
    <2>1. record' = record /\ lastRev' = lastRev
      BY <1>7 DEF Rotate, Refused, KeepCredential
    <2>2. CASE Leave(c, "relCred")
      BY <2>1, <2>2, LeaveNotPending DEF StillPending, PCs
    <2>3. CASE ~Leave(c, "relCred")
      <3>1. \A d \in Callers \ {c} : call'[d] = call[d]
        BY <1>7, <2>3 DEF Rotate, Refused, KeepCredential, TypeOK
      <3>2. PICK label \in PCs \ {"doc", "commit"} : Goto(c, label)
        BY <1>7, <2>3 DEF Rotate, Refused, KeepCredential, PCs
      <3> QED
        BY <2>1, <3>1, <3>2, GotoNotPending DEF StillPending
    <2> QED
      BY <2>2, <2>3
  <1>8. CASE RecheckPasses(c)
    <2>1. Goto(c, "write") /\ \A d \in Callers \ {c} : call'[d] = call[d]
      BY <1>8 DEF RecheckPasses, TypeOK
    <2> QED
      BY <1>8, <2>1, GotoNotPending DEF RecheckPasses, StillPending, PCs
  <1>9. CASE Stall(c) \/ Notice(c)
    <2>1. \A d \in Callers : call'[d].draft = call[d].draft
      BY <1>9 DEF Stall, Notice, TypeOK, Calls
    <2> QED
      BY <1>9, <2>1 DEF Stall, Notice, StillPending, Pending
  <1> QED
    BY <1>1, <1>2, <1>3, <1>4, <1>5, <1>6, <1>7, <1>8, <1>9 DEF Callback, Release

LEMMA PrepareSurvives ==
  ASSUME TypeOK, Surviving, NEW c \in Callers, NEW label \in PCs,
         NEW r \in Records, ValidRecord(r), Prepare(c, r, label)
  PROVE  Surviving'
  <1> DEFINE draft == [r EXCEPT !.rev = lastRev + 1]
  <1>1. ValidRecord(draft) /\ record' = record
    BY DEF Records, ValidRecord, Prepare, files
  <1>2. call'[c].draft = draft
    BY DEF Prepare, TypeOK, Calls
  <1>3. \A d \in Callers \ {c} : call'[d] = call[d] /\ (Pending(d)' <=> Pending(d))
    BY DEF Prepare, Goto, TypeOK, Pending
  <1> QED
    BY <1>1, <1>2, <1>3 DEF Surviving

LEMMA CommitSurvives ==
  ASSUME TypeOK, Surviving, NEW c \in Callers, Commit(c)
  PROVE  Surviving'
  <1>1. record' = call[c].draft /\ Pending(c) /\ Leave(c, "relRec")
    BY DEF Commit, Pending, TypeOK
  <1>2. \A d \in Callers : Pending(d)' => d # c /\ Pending(d) /\ call'[d] = call[d]
    BY <1>1 DEF Leave, Goto, TypeOK, Pending
  <1> QED
    BY <1>1, <1>2 DEF Surviving

LEMMA SurvivingStep == TypeOK /\ Surviving /\ [Next]_vars => Surviving'
  <1> SUFFICES ASSUME TypeOK, Surviving, [Next]_vars PROVE Surviving'
    OBVIOUS
  <1>1. ASSUME NEW c \in Callers, PreparePublish(c) \/ PrepareManage(c) \/ PrepareSelect(c)
        PROVE  Surviving'
    <2>1. record \in Records /\ ValidRecord(record) /\ call[c].id \in Ids
      BY DEF TypeOK, Surviving, Calls
    <2>2. CASE PreparePublish(c)
      BY <2>1, <2>2, AppendedType, PrepareSurvives DEF PreparePublish, PCs
    <2>3. CASE PrepareManage(c)
      BY <2>1, <2>3, EditsType, PrepareSurvives DEF PrepareManage, PCs
    <2>4. CASE PrepareSelect(c)
      BY <2>1, <2>4, SwitchesType, PrepareSurvives DEF PrepareSelect, PCs
    <2> QED
      BY <1>1, <2>2, <2>3, <2>4
  <1>2. ASSUME NEW c \in Callers, Begin(c) \/ Step(c) \/ Crash(c) \/ Stall(c) \/ Notice(c)
        PROVE  Surviving'
    BY <1>1, <1>2, CommitSurvives, MostStepsKeepPending, StillSurviving
       DEF Step, Read, Effect
  <1>3. ASSUME UNCHANGED vars \/ \E i \in Ids : Age(i) PROVE Surviving'
    <2>1. UNCHANGED <<record, pc, call>>
      BY <1>3 DEF vars, Age, locks, files, names, server
    <2> QED
      BY <2>1 DEF Surviving, Pending
  <1> QED
    BY <1>2, <1>3 DEF Next

\* The record and the changes that wait to be written stay valid, whatever
\* callers are suspended, overtaken or killed.
THEOREM SurvivingInvariance == Spec => []Surviving
  <1>1. Init => Surviving
    BY AbsentType DEF Init, Surviving, Pending, Absent
  <1> QED
    BY <1>1, SurvivingStep, TypeCorrect, PTL DEF Spec

\* The record file always holds a record that validateRecord accepts, also while
\* lock owners are suspended and two callers write it in turn.
THEOREM RecordStaysValid == Spec => []RecordIsValid
  <1>1. Surviving => RecordIsValid
    BY DEF Surviving, RecordIsValid
  <1> QED
    BY <1>1, SurvivingInvariance, PTL

-----------------------------------------------------------------------------
(***************************************************************************)
(* Calls count down.  That calls end needs fairness and is left to the     *)
(* runs; that nothing can make a call go round in circles needs none.      *)
(***************************************************************************)
Order == <<"relCred", "relRec", "publish", "unlink", "write", "commit", "doc", "recheck",
           "rec2", "callback", "yield", "read", "rec", "stat", "cred">>

\* What a call still has before it, at most.
Ahead(place) == IF place = "idle" THEN 0 ELSE CHOOSE n \in 1..15 : Order[n] = place

\* A call that is under way only ever comes nearer to its end, whatever other
\* callers, crashes and suspensions do: fifteen steps of its own finish it.
CallsAdvance ==
  [][\A c \in Callers : pc[c] # "idle" /\ pc'[c] # pc[c] => Ahead(pc'[c]) < Ahead(pc[c])]_vars

LEMMA Places ==
  /\ Ahead("idle") = 0 /\ Ahead("relCred") = 1 /\ Ahead("relRec") = 2 /\ Ahead("publish") = 3
  /\ Ahead("unlink") = 4 /\ Ahead("write") = 5 /\ Ahead("commit") = 6 /\ Ahead("doc") = 7
  /\ Ahead("recheck") = 8 /\ Ahead("rec2") = 9 /\ Ahead("callback") = 10 /\ Ahead("yield") = 11
  /\ Ahead("read") = 12 /\ Ahead("rec") = 13 /\ Ahead("stat") = 14 /\ Ahead("cred") = 15
  <1>1. ASSUME NEW n \in 1..15
        PROVE  Ahead(Order[n]) = n
    <2>1. \A m \in 1..15 : Order[m] = Order[n] => m = n
      BY DEF Order
    <2>2. Order[n] # "idle"
      BY DEF Order
    <2> QED
      BY <2>1, <2>2 DEF Ahead
  <1>2. Ahead("idle") = 0
    BY DEF Ahead
  <1> QED
    BY <1>1, <1>2 DEF Order

LEMMA StepAdvances ==
  ASSUME TypeOK, NEW c \in Callers, Step(c) \/ Crash(c) \/ Stall(c) \/ Notice(c)
  PROVE  pc' = pc \/ \E label \in PCs : Goto(c, label) /\ Ahead(label) < Ahead(pc[c])
  <1> USE Places
  <1>a. AfterRecord(c) \in {"relCred", "idle"}
    BY DEF AfterRecord
  <1>1. CASE AcquireCred(c) \/ AcquireRec(c) \/ Stat(c) \/ Yield(c)
    BY <1>1 DEF AcquireCred, AcquireRec, Stat, Yield, PCs
  <1>2. CASE GiveUp(c) \/ Discard(c) \/ ReleaseRec(c) \/ ReleaseCred(c)
    BY <1>2, <1>a DEF GiveUp, Discard, ReleaseRec, ReleaseCred, Leave, PCs
  <1>3. CASE Read(c)
    <2>1. CASE ReadUnchanged(c)
      BY <2>1 DEF ReadUnchanged, Leave, PCs
    <2>2. CASE PreparePublish(c) \/ PrepareManage(c) \/ PrepareSelect(c)
      BY <2>2 DEF PreparePublish, PrepareManage, PrepareSelect, Prepare, Reading, PCs
    <2>3. CASE ReadAllowed(c)
      BY <2>3 DEF ReadAllowed, Allowed, Reading, PCs
    <2> QED
      BY <1>3, <2>1, <2>2, <2>3 DEF Read
  <1>4. CASE Effect(c)
    <2>1. CASE WriteDoc(c)
      BY <2>1 DEF WriteDoc, Leave, PCs
    <2>2. CASE Commit(c) \/ WriteRefreshed(c) \/ Unlink(c) \/ Published(c) \/ Fail(c)
      BY <2>2 DEF Commit, WriteRefreshed, Unlink, Published, Fail, Leave, PCs
    <2> QED
      BY <1>4, <2>1, <2>2 DEF Effect
  <1>5. CASE Callback(c)
    BY <1>5 DEF Callback, Rotate, Refused, KeepCredential, Leave, PCs
  <1>6. CASE RecheckPasses(c)
    BY <1>6 DEF RecheckPasses, PCs
  <1>7. CASE Crash(c)
    <2>1. Ahead(pc[c]) > 0 /\ Goto(c, "idle")
      BY <1>7 DEF Crash, Leave, TypeOK, PCs
    <2> QED
      BY <2>1 DEF PCs
  <1>8. CASE Stall(c) \/ Notice(c)
    BY <1>8 DEF Stall, Notice
  <1> QED
    BY <1>1, <1>2, <1>3, <1>4, <1>5, <1>6, <1>7, <1>8 DEF Step, Release

\* Calls go forward only.
THEOREM CallsOnlyAdvance == Spec => CallsAdvance
  <1>1. ASSUME TypeOK, [Next]_vars, NEW c \in Callers, pc[c] # "idle", pc'[c] # pc[c]
        PROVE  Ahead(pc'[c]) < Ahead(pc[c])
    <2>1. ASSUME NEW d \in Callers, Begin(d) PROVE FALSE
      BY <1>1, <2>1 DEF Begin, BeginPublish, BeginOnCredential, BeginOnRecord, BeginOn, Goto, TypeOK
    <2>2. ASSUME NEW d \in Callers, Step(d) \/ Crash(d) \/ Stall(d) \/ Notice(d)
          PROVE  Ahead(pc'[c]) < Ahead(pc[c])
      BY <1>1, <2>2, StepAdvances DEF Goto, TypeOK
    <2>3. ~UNCHANGED vars /\ \A i \in Ids : ~Age(i)
      BY <1>1 DEF vars, Age
    <2> QED
      BY <1>1, <2>1, <2>2, <2>3 DEF Next
  <1>2. TypeOK /\ [Next]_vars =>
          [\A c \in Callers : pc[c] # "idle" /\ pc'[c] # pc[c] => Ahead(pc'[c]) < Ahead(pc[c])]_vars
    BY <1>1
  <1> QED
    BY <1>2, TypeCorrect, PTL DEF Spec, CallsAdvance

-----------------------------------------------------------------------------
(***************************************************************************)
(* Mutual exclusion.  While no owner is suspended for longer than the      *)
(* staleness bound, a lock file names exactly the caller that relies on    *)
(* it, crashes included.                                                   *)
(***************************************************************************)
\* The operations that come to each place.
Placed(c) ==
  /\ pc[c] \in {"cred", "relCred"} => UsesCredLock(call[c].op)
  /\ pc[c] \in {"stat", "unlink"} => call[c].op = "collect"
  /\ pc[c] \in {"yield", "callback", "rec2", "recheck", "write"} => call[c].op = "refresh"
  /\ pc[c] = "doc" => call[c].op = "publish" /\ call[c].id \in Managed
  /\ pc[c] = "commit" => call[c].op \in {"publish", "manage", "select"}

Locks ==
  /\ faults["stall"] = 0
  /\ \A c \in Callers : call[c].owned /\ Placed(c)
  /\ \A c \in Callers : HoldsRec(c) <=> recLock = c
  /\ \A c \in Callers, i \in Ids : (HoldsCred(c) /\ call[c].id = i) <=> credLock[i] = c

\* How one step of caller c may change who holds what.
Alone(c) == \A d \in Callers : d # c => pc'[d] = pc[d] /\ call'[d] = call[d]

RecMove(c) ==
  \/ recLock' = recLock /\ (HoldsRec(c)' <=> HoldsRec(c))
  \/ Available(recLock) /\ recLock' = c /\ HoldsRec(c)'
  \/ /\ recLock = c => recLock' \in {Free, Stale}
     /\ recLock # c => recLock' = recLock
     /\ ~HoldsRec(c)'

CredMove(c) ==
  \/ /\ credLock' = credLock
     /\ (HoldsCred(c)' <=> HoldsCred(c))
     /\ HoldsCred(c) => call'[c].id = call[c].id
  \/ /\ Available(credLock[call[c].id]) /\ ~HoldsCred(c)
     /\ credLock' = [credLock EXCEPT ![call[c].id] = c]
     /\ HoldsCred(c)' /\ call'[c].id = call[c].id
  \/ /\ \A i \in Ids : /\ credLock[i] = c => credLock'[i] \in {Free, Stale}
                       /\ credLock[i] # c => credLock'[i] = credLock[i]
     /\ ~HoldsCred(c)'

LEMMA MovesKeepLocks ==
  ASSUME TypeOK, Locks, NEW c \in Callers,
         Alone(c), RecMove(c), CredMove(c), call'[c].owned, Placed(c)', faults'["stall"] = 0
  PROVE  Locks'
  <1>1. Free \notin Callers /\ Stale \notin Callers
    BY StoreAssumption
  <1>2. ASSUME NEW d \in Callers PROVE HoldsRec(d)' <=> recLock' = d
    <2>1. d # c => (HoldsRec(d)' <=> HoldsRec(d))
      BY DEF Alone, HoldsRec
    <2>2. HoldsRec(d) <=> recLock = d
      BY DEF Locks
    <2>3. HoldsRec(c) <=> recLock = c
      BY DEF Locks
    <2> QED
      BY <1>1, <2>1, <2>2, <2>3 DEF RecMove, Available
  <1>3. ASSUME NEW d \in Callers, NEW i \in Ids
        PROVE  (HoldsCred(d)' /\ call'[d].id = i) <=> credLock'[i] = d
    <2>1. d # c => (HoldsCred(d)' <=> HoldsCred(d)) /\ call'[d].id = call[d].id
      BY DEF Alone, HoldsCred
    <2>2. (HoldsCred(d) /\ call[d].id = i) <=> credLock[i] = d
      BY DEF Locks
    <2>3. (HoldsCred(c) /\ call[c].id = i) <=> credLock[i] = c
      BY DEF Locks
    <2>4. credLock \in [Ids -> Callers \cup {Free, Stale}] /\ call[c].id \in Ids
      BY DEF TypeOK, Calls
    <2> QED
      BY <1>1, <2>1, <2>2, <2>3, <2>4 DEF CredMove, Available
  <1>4. \A d \in Callers : call'[d].owned /\ Placed(d)'
    BY DEF Locks, Alone, Placed
  <1> QED
    BY <1>2, <1>3, <1>4 DEF Locks

LEMMA LeaveMoves ==
  ASSUME TypeOK, Locks, NEW c \in Callers, NEW label \in PCs, Leave(c, label)
  PROVE  /\ Alone(c) /\ pc'[c] = label /\ call'[c].owned
         /\ label # "idle" => call'[c].op = call[c].op /\ call'[c].id = call[c].id
         /\ label = "idle" => call'[c].op = "observe"
  BY DEF Leave, Goto, Finished, NoCall, TypeOK, Alone, Calls, Locks

LEMMA GotoMoves ==
  ASSUME TypeOK, NEW c \in Callers, NEW label \in PCs, Goto(c, label)
  PROVE  pc'[c] = label /\ \A d \in Callers : d # c => pc'[d] = pc[d]
  BY DEF Goto, TypeOK

LEMMA LocksStep ==
  ASSUME faults'["stall"] = 0, TypeOK, Locks, [Next]_vars
  PROVE  Locks'
  <1> USE DEF files, locks, names, server
  <1> DEFINE Effects == {"read", "yield", "recheck", "doc", "commit", "write", "unlink",
                         "publish", "relRec"}
  <1>a. \A c \in Callers : call[c].op \in Ops /\ call[c].id \in Ids /\ call[c].owned /\ Placed(c)
    BY DEF TypeOK, Calls, Locks
  <1>b. \A c \in Callers : HoldsRec(c) <=> pc[c] \in Effects
    BY DEF HoldsRec
  <1>d. \A c \in Callers : (HoldsRec(c) <=> recLock = c) /\ (HoldsCred(c) <=> credLock[call[c].id] = c)
    BY <1>a DEF Locks
  <1>e. faults["stall"] = 0 /\ faults \in [{"crash", "stall"} -> Nat]
    BY DEF Locks, TypeOK
  <1>f. \A c \in Callers : AfterRecord(c) \in PCs
    BY DEF AfterRecord, PCs
  <1>1. ASSUME NEW c \in Callers, Begin(c) PROVE Locks'
    <2>1. ASSUME NEW o \in Ops, NEW i \in Ids, NEW rev \in Nat, BeginOn(c, o, i, rev)
          PROVE  Locks'
      <3>1. Alone(c) /\ pc'[c] \in {"cred", "rec"} /\ call'[c].owned /\ call'[c].op = o
            /\ (UsesCredLock(o) <=> pc'[c] = "cred") /\ pc[c] = "idle"
        BY <2>1 DEF BeginOn, Goto, TypeOK, Alone, NoCall
      <3>2. RecMove(c)
        BY <2>1, <3>1 DEF BeginOn, RecMove, HoldsRec
      <3>3. CredMove(c)
        BY <2>1, <3>1 DEF BeginOn, CredMove, HoldsCred
      <3>4. Placed(c)'
        BY <3>1 DEF Placed, UsesCredLock
      <3> QED
        BY <2>1, <3>1, <3>2, <3>3, <3>4, <1>e, MovesKeepLocks DEF BeginOn
    <2>2. AnId \in Ids /\ record.rev \in Nat
      BY StoreAssumption DEF AnId, TypeOK, Records
    <2> QED
      BY <1>1, <2>1, <2>2 DEF Begin, BeginPublish, BeginOnCredential, BeginOnRecord, Ops
  <1>2. ASSUME NEW c \in Callers, AcquireCred(c) PROVE Locks'
    <2>1. /\ Alone(c) /\ call' = call /\ pc[c] = "cred"
          /\ pc'[c] = IF call[c].op = "collect" THEN "stat" ELSE "rec"
      BY <1>2 DEF AcquireCred, Goto, TypeOK, Alone
    <2>2. RecMove(c) /\ Placed(c)'
      BY <1>2, <2>1 DEF AcquireCred, RecMove, HoldsRec, Placed
    <2>3. CredMove(c)
      BY <1>2, <1>a, <2>1 DEF AcquireCred, CredMove, HoldsCred, Placed
    <2> QED
      BY <1>2, <1>a, <1>e, <2>1, <2>2, <2>3, MovesKeepLocks DEF AcquireCred
  <1>3. ASSUME NEW c \in Callers, AcquireRec(c) PROVE Locks'
    <2>1. /\ Alone(c) /\ call' = call /\ pc[c] \in {"rec", "rec2"}
          /\ pc'[c] = IF pc[c] = "rec" THEN "read" ELSE "recheck"
      BY <1>3 DEF AcquireRec, Goto, TypeOK, Alone
    <2>2. RecMove(c) /\ Placed(c)'
      BY <1>3, <1>a, <2>1 DEF AcquireRec, RecMove, HoldsRec, Placed
    <2>3. CredMove(c)
      BY <1>3, <2>1 DEF AcquireRec, CredMove, HoldsCred
    <2> QED
      BY <1>3, <1>a, <1>e, <2>1, <2>2, <2>3, MovesKeepLocks DEF AcquireRec
  \* A caller that keeps both locks as they are and stays inside its call.
  <1>4. ASSUME NEW c \in Callers, Alone(c), faults' = faults,
               recLock' = recLock, credLock' = credLock,
               call'[c].op = call[c].op, call'[c].id = call[c].id, call'[c].owned,
               HoldsRec(c)' <=> HoldsRec(c), pc[c] \notin {"idle", "cred"},
               pc'[c] \notin {"idle", "cred"}, Placed(c)'
        PROVE  Locks'
    <2>1. RecMove(c) /\ CredMove(c)
      BY <1>4 DEF RecMove, CredMove, HoldsCred
    <2> QED
      BY <1>4, <1>e, <2>1, MovesKeepLocks
  \* A caller that goes on to return the record lock.
  <1>5. ASSUME NEW c \in Callers, Leave(c, "relRec"), faults' = faults, pc[c] \in Effects,
               recLock' = recLock, credLock' = credLock
        PROVE  Locks'
    <2>1. /\ Alone(c) /\ pc'[c] = "relRec" /\ call'[c].owned
          /\ call'[c].op = call[c].op /\ call'[c].id = call[c].id
      BY <1>5, LeaveMoves DEF PCs
    <2>2. Placed(c)' /\ HoldsRec(c) /\ HoldsRec(c)'
      BY <1>5, <1>b, <2>1 DEF Placed, HoldsRec
    <2> QED
      BY <1>4, <1>5, <2>1, <2>2
  <1>6. ASSUME NEW c \in Callers, GiveUp(c) PROVE Locks'
    <2>1. /\ Alone(c) /\ pc'[c] = AfterRecord(c) /\ call'[c].owned
          /\ pc'[c] # "idle" => call'[c].op = call[c].op /\ call'[c].id = call[c].id
      BY <1>6, <1>f, LeaveMoves DEF GiveUp
    <2>2. CASE HoldsCred(c)
      <3>1. Placed(c)' /\ pc'[c] = "relCred" /\ pc[c] \notin {"idle", "cred"}
        BY <2>1, <2>2 DEF AfterRecord, Placed, HoldsCred
      <3>2. HoldsRec(c)' <=> HoldsRec(c)
        BY <1>6, <3>1 DEF GiveUp, HoldsRec
      <3> QED
        BY <1>4, <1>6, <2>1, <3>1, <3>2 DEF GiveUp
    <2>3. CASE ~HoldsCred(c)
      <3>1. pc'[c] = "idle"
        BY <2>1, <2>3 DEF AfterRecord
      <3>2. Placed(c)' /\ RecMove(c) /\ CredMove(c)
        BY <1>6, <2>3, <3>1 DEF GiveUp, Placed, RecMove, CredMove, HoldsRec, HoldsCred
      <3> QED
        BY <1>6, <1>e, <2>1, <3>2, MovesKeepLocks DEF GiveUp
    <2> QED
      BY <2>2, <2>3
  <1>7. ASSUME NEW c \in Callers, Stat(c) PROVE Locks'
    <2>1. /\ Alone(c) /\ call' = call /\ pc[c] = "stat"
          /\ pc'[c] = IF call[c].id \in aged THEN "rec" ELSE "relCred"
      BY <1>7 DEF Stat, Goto, TypeOK, Alone
    <2>2. Placed(c)' /\ ~HoldsRec(c) /\ ~HoldsRec(c)'
      BY <2>1, <1>a DEF Placed, HoldsRec, UsesCredLock
    <2> QED
      BY <1>4, <1>7, <1>a, <2>1, <2>2 DEF Stat
  <1>8. ASSUME NEW c \in Callers, Read(c) PROVE Locks'
    <2>1. ASSUME ReadUnchanged(c) PROVE Locks'
      BY <2>1, <1>5 DEF ReadUnchanged
    <2>2. ASSUME NEW r, NEW label \in {"doc", "commit"}, Prepare(c, r, label), pc[c] = "read",
                 label = "doc" => call[c].op = "publish" /\ call[c].id \in Managed,
                 call[c].op \in {"publish", "manage", "select"}
          PROVE  Locks'
      <3>1. Alone(c) /\ pc'[c] = label
        BY <2>2 DEF Prepare, Goto, TypeOK, Alone
      <3>2. call'[c].op = call[c].op /\ call'[c].id = call[c].id /\ call'[c].owned
        BY <2>2, <1>a DEF Prepare, TypeOK, Calls
      <3>3. Placed(c)' /\ HoldsRec(c) /\ HoldsRec(c)'
        BY <2>2, <3>1, <3>2 DEF Placed, HoldsRec
      <3> QED
        BY <1>4, <2>2, <3>1, <3>2, <3>3 DEF Prepare
    <2>3. ASSUME PreparePublish(c) PROVE Locks'
      BY <2>2, <2>3 DEF PreparePublish, Reading
    <2>4. ASSUME PrepareManage(c) \/ PrepareSelect(c) PROVE Locks'
      BY <2>2, <2>4 DEF PrepareManage, PrepareSelect, Reading
    <2>5. ASSUME ReadAllowed(c) PROVE Locks'
      <3>1. pc[c] = "read" /\ call[c].op \in {"collect", "observe", "refresh"}
        BY <2>5 DEF ReadAllowed, Allowed, Reading
      <3>2. /\ Alone(c)
            /\ call[c].op = "collect" => pc'[c] = "unlink"
            /\ call[c].op = "observe" => pc'[c] = "publish"
            /\ call[c].op = "refresh" => pc'[c] = "yield"
        BY <2>5, <3>1 DEF ReadAllowed, Goto, TypeOK, Alone
      <3>3. call'[c].op = call[c].op /\ call'[c].id = call[c].id /\ call'[c].owned
        BY <2>5, <1>a DEF ReadAllowed, TypeOK, Calls
      <3>4. Placed(c)' /\ HoldsRec(c) /\ HoldsRec(c)'
        BY <3>1, <3>2, <3>3 DEF Placed, HoldsRec
      <3> QED
        BY <1>4, <2>5, <3>1, <3>2, <3>3, <3>4 DEF ReadAllowed
    <2> QED
      BY <1>8, <2>1, <2>3, <2>4, <2>5 DEF Read
  <1>9. ASSUME NEW c \in Callers, Effect(c) PROVE Locks'
    <2>1. ASSUME WriteDoc(c), Goto(c, "commit"), call' = call PROVE Locks'
      <3>1. Alone(c) /\ pc'[c] = "commit" /\ pc[c] = "doc"
        BY <2>1 DEF WriteDoc, Goto, TypeOK, Alone
      <3>2. Placed(c)' /\ HoldsRec(c) /\ HoldsRec(c)'
        BY <2>1, <1>a, <3>1 DEF Placed, HoldsRec
      <3> QED
        BY <1>4, <1>a, <2>1, <3>1, <3>2 DEF WriteDoc
    <2> QED
      BY <1>9, <2>1, <1>5 DEF Effect, WriteDoc, Commit, WriteRefreshed, Unlink, Published, Fail
  <1>10. ASSUME NEW c \in Callers, Callback(c) \/ RecheckPasses(c) PROVE Locks'
    <2>1. /\ Alone(c) /\ pc[c] \in {"callback", "recheck"}
          /\ pc[c] = "callback" => pc'[c] \in {"rec2", "relCred"}
          /\ pc[c] = "recheck" => pc'[c] = "write"
      <3>1. CASE Leave(c, "relCred")
        BY <1>10, <3>1, LeaveMoves, GotoMoves
           DEF PCs, Callback, Rotate, Refused, KeepCredential, RecheckPasses
      <3>2. CASE ~Leave(c, "relCred")
        BY <1>10, <3>2 DEF Callback, Rotate, Refused, KeepCredential, RecheckPasses, Goto, TypeOK, Alone
      <3> QED
        BY <3>1, <3>2
    <2>2. call'[c].op = call[c].op /\ call'[c].id = call[c].id /\ call'[c].owned
      <3>1. CASE Leave(c, "relCred")
        BY <3>1, LeaveMoves DEF PCs
      <3>2. CASE ~Leave(c, "relCred")
        BY <1>10, <1>a, <3>2 DEF Callback, Rotate, Refused, KeepCredential, RecheckPasses, TypeOK, Calls
      <3> QED
        BY <3>1, <3>2
    <2>3. Placed(c)' /\ (HoldsRec(c)' <=> HoldsRec(c))
      BY <1>a, <2>1, <2>2 DEF Placed, HoldsRec, UsesCredLock
    <2>4. recLock' = recLock /\ credLock' = credLock /\ faults' = faults
      BY <1>10 DEF Callback, Rotate, Refused, KeepCredential, RecheckPasses
    <2> QED
      BY <1>4, <2>1, <2>2, <2>3, <2>4
  <1>11. ASSUME NEW c \in Callers, Discard(c) PROVE Locks'
    BY <1>11, <1>5 DEF Discard
  <1>12. ASSUME NEW c \in Callers, Yield(c) PROVE Locks'
    <2>1. Alone(c) /\ pc[c] = "yield" /\ pc'[c] = "callback" /\ call' = call
          /\ recLock = c /\ recLock' = Free
      BY <1>12, <1>a, <1>b, <1>d DEF Yield, AssertOwned, Goto, TypeOK, Alone
    <2>2. RecMove(c) /\ CredMove(c) /\ Placed(c)'
      BY <1>12, <1>a, <2>1 DEF Yield, RecMove, CredMove, HoldsRec, HoldsCred, Placed
    <2> QED
      BY <1>12, <1>a, <1>e, <2>1, <2>2, MovesKeepLocks DEF Yield
  <1>13. ASSUME NEW c \in Callers, ReleaseRec(c) PROVE Locks'
    <2>1. /\ Alone(c) /\ pc'[c] = AfterRecord(c) /\ call'[c].owned
          /\ pc'[c] # "idle" => call'[c].op = call[c].op /\ call'[c].id = call[c].id
      BY <1>13, <1>f, LeaveMoves DEF ReleaseRec
    <2>2. pc[c] = "relRec" /\ recLock = c /\ recLock' = Free
      BY <1>13, <1>a, <1>b, <1>d DEF ReleaseRec, AssertOwned
    <2>3. pc'[c] \in {"idle", "relCred"} /\ (pc'[c] = "relCred" <=> HoldsCred(c))
      BY <2>1 DEF AfterRecord
    <2>4. RecMove(c) /\ CredMove(c) /\ Placed(c)'
      BY <1>13, <2>1, <2>2, <2>3
         DEF ReleaseRec, RecMove, CredMove, HoldsRec, HoldsCred, Placed
    <2> QED
      BY <1>13, <1>e, <2>1, <2>4, MovesKeepLocks DEF ReleaseRec
  <1>14. ASSUME NEW c \in Callers, ReleaseCred(c) PROVE Locks'
    <2>1. Alone(c) /\ pc'[c] = "idle" /\ call'[c].owned /\ pc[c] = "relCred"
      BY <1>14, LeaveMoves DEF ReleaseCred, PCs
    <2>2. HoldsCred(c) /\ credLock[call[c].id] = c
      BY <1>a, <1>d, <2>1 DEF Placed, HoldsCred
    <2>3. \A i \in Ids : credLock[i] = c => i = call[c].id
      BY DEF Locks
    <2>4. credLock' = [credLock EXCEPT ![call[c].id] = Free] /\ recLock' = recLock
      BY <1>14, <1>a, <2>2 DEF ReleaseCred, AssertOwned
    <2>5. RecMove(c) /\ Placed(c)'
      BY <2>1, <2>4 DEF RecMove, HoldsRec, Placed
    <2>6. CredMove(c)
      BY <1>a, <2>1, <2>2, <2>3, <2>4 DEF CredMove, HoldsCred, TypeOK
    <2> QED
      BY <1>14, <1>e, <2>1, <2>5, <2>6, MovesKeepLocks DEF ReleaseCred
  <1>15. ASSUME NEW c \in Callers, Crash(c) PROVE Locks'
    <2>1. Alone(c) /\ pc'[c] = "idle" /\ call'[c].owned
      BY <1>15, LeaveMoves DEF Crash, PCs
    <2>2. RecMove(c) /\ CredMove(c) /\ Placed(c)'
      BY <1>15, <2>1 DEF Crash, Orphan, RecMove, CredMove, HoldsRec, HoldsCred, Placed
    <2>3. faults'["stall"] = 0
      BY <1>15, <1>e DEF Crash
    <2> QED
      BY <2>1, <2>2, <2>3, MovesKeepLocks
  <1>16. ASSUME NEW c \in Callers, Stall(c) PROVE FALSE
    <2>1. faults' = [faults EXCEPT !["stall"] = 1]
      BY <1>16, <1>e DEF Stall
    <2> QED
      BY <1>e, <2>1
  <1>17. ASSUME NEW c \in Callers, Notice(c) PROVE FALSE
    BY <1>17, <1>d DEF Notice
  <1>18. ASSUME UNCHANGED <<recLock, credLock, pc, call, faults>> PROVE Locks'
    BY <1>18 DEF Locks, HoldsRec, HoldsCred, Placed
  <1> QED
    BY <1>1, <1>2, <1>3, <1>6, <1>7, <1>8, <1>9, <1>10, <1>11, <1>12, <1>13, <1>14,
       <1>15, <1>16, <1>17, <1>18 DEF Next, Step, Release, Age, vars

-----------------------------------------------------------------------------
(***************************************************************************)
(* What every call knows, given the locks.                                 *)
(***************************************************************************)
Acting == {"doc", "commit", "write", "unlink", "publish"}

Publishing(c) == call[c].op = "publish" /\ pc[c] \in {"cred", "rec", "read", "doc", "commit"}

Refreshing(c) == pc[c] \in {"yield", "callback", "rec2", "recheck", "write"}

Rotated(c) == pc[c] \in {"rec2", "recheck", "write"} /\ call[c].raw # 0

\* The record on disk, and its files.
RecordKept ==
  /\ ValidRecord(record)
  /\ record.rev <= lastRev /\ (record.rev = 0 => record = Absent)
  /\ record.members \subseteq published /\ published \subseteq used
  /\ \A i \in record.members \cap Managed : doc[i] # 0

\* What caller c is about to do suits the record as it is on disk.
Outcomes(c) == IF call[c].op = "publish" THEN {Appended(record, call[c].id)} ELSE Edits(record)

Plan(c) ==
  /\ pc[c] \in Acting => call[c].base = record
  /\ pc[c] \in {"doc", "commit"} =>
       /\ record.rev < call[c].draft.rev /\ call[c].draft.rev <= lastRev
       /\ \E r \in Outcomes(c) : call[c].draft = [r EXCEPT !.rev = call[c].draft.rev]
  /\ pc[c] = "write" => call[c].id \in record.enabled \cap Managed /\ call[c].raw # 0
  /\ pc[c] = "unlink" => call[c].id \notin record.members \cap Managed

\* A login that has not committed yet has its credential id to itself.
Fresh(c) ==
  Publishing(c) =>
    /\ call[c].id \in used \ published /\ issued[call[c].id] = 1
    /\ doc[call[c].id] = IF pc[c] = "commit" /\ call[c].id \in Managed THEN 1 ELSE 0

Names ==
  /\ \A c \in Callers : Fresh(c)
  /\ \A c, d \in Callers :
       Publishing(c) /\ Publishing(d) /\ call[c].id = call[d].id => c = d
  /\ \A i \in Ids \ used : doc[i] = 0

\* A refresh works from the document on disk, and the token it got is the newest.
Token(c) ==
  Refreshing(c) =>
    /\ call[c].id \in published \cap Managed /\ doc[call[c].id] # 0
    /\ pc[c] \in {"yield", "callback"} => call[c].raw = doc[call[c].id]
    /\ Rotated(c) => call[c].raw = issued[call[c].id] /\ doc[call[c].id] < call[c].raw

\* The newest token of a credential is on disk, on its way there, or lost.
Accounted ==
  \A i \in Ids : doc[i] # 0 => \/ i \in forfeited \/ doc[i] = issued[i]
                               \/ \E c \in Callers : Rotated(c) /\ call[c].id = i

Tokens ==
  /\ \A c \in Callers : Token(c)
  /\ Accounted
  /\ replayed \subseteq forfeited

Known == RecordKept /\ (\A c \in Callers : Plan(c)) /\ Names /\ Tokens

Inv == TypeOK /\ Locks /\ Known

-----------------------------------------------------------------------------
\* Two callers never hold the same lock.
LEMMA Exclusive ==
  ASSUME TypeOK, Locks, NEW c \in Callers, NEW d \in Callers, c # d
  PROVE  /\ ~(HoldsRec(c) /\ HoldsRec(d))
         /\ HoldsCred(c) /\ HoldsCred(d) => call[c].id # call[d].id
  BY DEF Locks, TypeOK, Calls

\* What a step of caller c has to show to keep what every caller knows: it
\* replaces the record only under the lock and disturbs no credential that
\* another caller is publishing or refreshing.
Disturbed(i) == i \in published' \ published \/ doc'[i] # doc[i] \/ issued'[i] # issued[i]

LEMMA KnownFrame ==
  ASSUME Inv, TypeOK', NEW c \in Callers, Alone(c), RecordKept',
         record' = record \/ HoldsRec(c), lastRev <= lastRev',
         used \subseteq used', published \subseteq published', forfeited \subseteq forfeited',
         \A d \in Callers \ {c} : Publishing(d) \/ Refreshing(d) => ~Disturbed(call[d].id),
         Plan(c)', Fresh(c)', Token(c)',
         Publishing(c)' => \A d \in Callers \ {c} : Publishing(d) => call[d].id # call'[c].id,
         \A i \in Ids \ used' : doc'[i] = 0,
         \A i \in Ids : doc'[i] # 0 =>
            \/ i \in forfeited' \/ doc'[i] = issued'[i]
            \/ \E d \in Callers \ {c} : Rotated(d) /\ call[d].id = i
            \/ Rotated(c)' /\ call'[c].id = i,
         replayed' \subseteq forfeited'
  PROVE  Known'
  <1>1. \A d \in Callers \ {c} :
           /\ pc'[d] = pc[d] /\ call'[d] = call[d]
           /\ Publishing(d)' <=> Publishing(d)
           /\ Refreshing(d)' <=> Refreshing(d)
           /\ Rotated(d)' <=> Rotated(d)
    BY DEF Alone, Publishing, Refreshing, Rotated
  <1>2. ASSUME NEW d \in Callers, d # c PROVE Plan(d)'
    <2>1. CASE pc[d] \in Acting
      <3>1. record' = record
        BY <1>2, <2>1, Exclusive DEF Inv, HoldsRec, Acting
      <3>2. Outcomes(d)' = Outcomes(d)
        BY <1>1, <1>2, <3>1 DEF Outcomes
      <3>3. /\ Plan(d) /\ lastRev \in Nat /\ lastRev' \in Nat /\ call[d].draft.rev \in Nat
            /\ pc'[d] = pc[d] /\ call'[d] = call[d]
        BY <1>1, <1>2 DEF Inv, Known, TypeOK, Calls, Records
      <3>4. pc[d] \in {"doc", "commit"} => call[d].draft.rev <= lastRev'
        BY <3>3 DEF Plan
      <3> QED
        BY <3>1, <3>2, <3>3, <3>4, Zenon DEF Plan
    <2>2. CASE pc[d] \notin Acting
      BY <1>1, <1>2, <2>2 DEF Plan, Acting
    <2> QED
      BY <2>1, <2>2
  <1>3. ASSUME NEW d \in Callers, d # c PROVE Fresh(d)'
    <2>1. call[d].id \in Ids /\ Fresh(d)
      BY DEF Inv, Known, Names, TypeOK, Calls
    <2> QED
      BY <1>1, <1>3, <2>1 DEF Fresh, Disturbed
  <1>4. ASSUME NEW d \in Callers, d # c PROVE Token(d)'
    <2>1. call[d].id \in Ids /\ Token(d)
      BY DEF Inv, Known, Tokens, TypeOK, Calls
    <2> QED
      BY <1>1, <1>4, <2>1 DEF Token, Disturbed
  <1>5. Names'
    <2>1. \A d, e \in Callers :
             Publishing(d)' /\ Publishing(e)' /\ call'[d].id = call'[e].id => d = e
      BY <1>1 DEF Inv, Known, Names
    <2> QED
      BY <1>3, <2>1 DEF Names
  <1>6. Accounted'
    BY <1>1 DEF Accounted
  <1> QED
    BY <1>2, <1>4, <1>5, <1>6 DEF Known, Tokens

\* The steps that leave files, names and the server alone: the caller moves on
\* with its call as it was, or is done with it.
Quiet(c) ==
  /\ UNCHANGED <<record, doc, lastRev, used, published, issued, replayed>>
  /\ Alone(c) /\ forfeited \subseteq forfeited'
  /\ \/ /\ pc'[c] \in {"idle", "relRec", "relCred"}
        /\ Rotated(c) => call[c].id \in forfeited'
     \/ /\ call'[c] = call[c]
        /\ \/ pc[c] = "cred" /\ pc'[c] \in {"rec", "stat"}
           \/ pc[c] = "stat" /\ pc'[c] = "rec" /\ ~Publishing(c)'
           \/ pc[c] = "rec" /\ pc'[c] = "read"
           \/ pc[c] = "rec2" /\ pc'[c] = "recheck"
           \/ pc[c] = "yield" /\ pc'[c] = "callback"

LEMMA QuietKeeps ==
  ASSUME Inv, TypeOK', NEW c \in Callers, Quiet(c)
  PROVE  Known'
  <1>1. RecordKept'
    BY DEF Quiet, Inv, Known, RecordKept
  <1>2. Plan(c) /\ Fresh(c) /\ Token(c)
    BY DEF Inv, Known, Names, Tokens
  <1>3. Plan(c)' /\ Fresh(c)' /\ Token(c)'
    BY <1>2 DEF Quiet, Plan, Acting, Fresh, Publishing, Token, Refreshing, Rotated
  <1>4. Publishing(c)' => \A d \in Callers \ {c} : Publishing(d) => call[d].id # call'[c].id
    BY DEF Quiet, Publishing, Inv, Known, Names
  <1>5. ASSUME Rotated(c), call[c].id \notin forfeited'
        PROVE  Rotated(c)' /\ call'[c].id = call[c].id
    BY <1>5 DEF Quiet, Rotated
  <1>6. \A i \in Ids : doc'[i] # 0 =>
            \/ i \in forfeited' \/ doc'[i] = issued'[i]
            \/ \E d \in Callers \ {c} : Rotated(d) /\ call[d].id = i
            \/ Rotated(c)' /\ call'[c].id = i
    BY <1>5 DEF Quiet, Inv, Known, Tokens, Accounted
  <1>7. \A i \in Ids : ~Disturbed(i)
    BY DEF Quiet, Disturbed
  <1>8. \A d \in Callers : call[d].id \in Ids
    BY DEF Inv, TypeOK, Calls
  <1>9. lastRev <= lastRev'
    BY DEF Quiet, Inv, TypeOK
  <1> QED
    BY <1>1, <1>3, <1>4, <1>6, <1>7, <1>8, <1>9, KnownFrame
       DEF Quiet, Inv, Known, Names, Tokens

LEMMA QuietSteps ==
  ASSUME Inv, NEW c \in Callers,
         \/ AcquireCred(c) \/ AcquireRec(c) \/ GiveUp(c) \/ Stat(c) \/ ReadUnchanged(c)
         \/ Published(c) \/ Fail(c) \/ Discard(c) \/ Release(c) \/ Crash(c)
  PROVE  Quiet(c)
  <1> USE DEF files, locks, names, server
  <1>a. call[c].owned /\ Placed(c) /\ TypeOK /\ Locks
    BY DEF Inv, Locks
  <1>b. AfterRecord(c) \in PCs /\ AfterRecord(c) \in {"idle", "relCred"}
    BY DEF AfterRecord, PCs
  <1>1. CASE AcquireCred(c) \/ AcquireRec(c) \/ Stat(c)
    <2>1. Alone(c) /\ call' = call
      BY <1>1, <1>a DEF AcquireCred, AcquireRec, Stat, Goto, TypeOK, Alone
    <2>2. UNCHANGED <<record, doc, lastRev, used, published, issued, replayed, forfeited>>
      BY <1>1 DEF AcquireCred, AcquireRec, Stat
    <2>3. CASE AcquireCred(c)
      BY <2>1, <2>2, <2>3, <1>a DEF AcquireCred, Goto, TypeOK, Quiet
    <2>4. CASE AcquireRec(c)
      BY <2>1, <2>2, <2>4, <1>a DEF AcquireRec, Goto, TypeOK, Quiet
    <2>5. CASE Stat(c)
      BY <2>1, <2>2, <2>5, <1>a DEF Stat, Goto, TypeOK, Quiet, Placed, Publishing, Rotated
    <2> QED
      BY <1>1, <2>3, <2>4, <2>5
  <1>2. CASE ReadUnchanged(c) \/ Published(c) \/ ReleaseRec(c) \/ ReleaseCred(c)
    <2>1. Alone(c) /\ pc'[c] \in {"idle", "relRec", "relCred"}
      BY <1>2, <1>a, <1>b, LeaveMoves DEF ReadUnchanged, Published, ReleaseRec, ReleaseCred, PCs
    <2>2. UNCHANGED <<record, doc, lastRev, used, published, issued, replayed, forfeited>>
      BY <1>2 DEF ReadUnchanged, Published, ReleaseRec, ReleaseCred
    <2>3. ~Rotated(c)
      BY <1>2 DEF ReadUnchanged, Published, ReleaseRec, ReleaseCred, Rotated
    <2> QED
      BY <2>1, <2>2, <2>3 DEF Quiet
  <1>3. CASE GiveUp(c) \/ Fail(c) \/ Discard(c) \/ Crash(c)
    <2>1. Alone(c) /\ pc'[c] \in {"idle", "relRec", "relCred"}
      BY <1>3, <1>a, <1>b, LeaveMoves DEF GiveUp, Fail, Discard, Crash, PCs
    <2>2. UNCHANGED <<record, doc, lastRev, used, published, issued, replayed>>
      BY <1>3 DEF GiveUp, Fail, Discard, Crash
    <2>3. forfeited \subseteq forfeited' /\ (Rotated(c) => call[c].id \in forfeited')
      BY <1>3, <1>a DEF GiveUp, Fail, Discard, Crash, Forfeit, Rotated, Placed
    <2> QED
      BY <2>1, <2>2, <2>3 DEF Quiet
  <1>4. CASE Yield(c)
    <2>1. Alone(c) /\ call' = call /\ pc[c] = "yield" /\ pc'[c] = "callback"
      BY <1>4, <1>a DEF Yield, AssertOwned, Goto, TypeOK, Alone
    <2>2. UNCHANGED <<record, doc, lastRev, used, published, issued, replayed, forfeited>>
      BY <1>4 DEF Yield
    <2> QED
      BY <2>1, <2>2 DEF Quiet
  <1> QED
    BY <1>1, <1>2, <1>3, <1>4 DEF Release

\* A step that changes neither files nor what the server has issued, and loses no
\* token, keeps the credentials accounted for.
LEMMA StillAccounted ==
  ASSUME Inv, NEW c \in Callers, doc' = doc, issued' = issued, forfeited' = forfeited,
         Rotated(c) => Rotated(c)' /\ call'[c].id = call[c].id
  PROVE  \A i \in Ids : doc'[i] # 0 =>
            \/ i \in forfeited' \/ doc'[i] = issued'[i]
            \/ \E d \in Callers \ {c} : Rotated(d) /\ call[d].id = i
            \/ Rotated(c)' /\ call'[c].id = i
  BY DEF Inv, Known, Tokens, Accounted

\* A call is made: the ids of a login are new, so nobody else works on them.
LEMMA BeginKnows ==
  ASSUME Inv, TypeOK', NEW c \in Callers, Begin(c)
  PROVE  Known'
  <1> USE DEF files, locks, names, server
  <1>1. PICK o \in Ops, i \in Ids, rev \in Nat :
             /\ BeginOn(c, o, i, rev)
             /\ \/ o = "publish" /\ i \notin used /\ used' = used \cup {i}
                   /\ issued' = [issued EXCEPT ![i] = 1]
                \/ o # "publish" /\ used' = used /\ issued' = issued
    <2>1. AnId \in Ids /\ record.rev \in Nat
      BY StoreAssumption DEF AnId, Inv, TypeOK, Records
    <2> QED
      BY <2>1 DEF Begin, BeginPublish, BeginOnCredential, BeginOnRecord, Ops
  <1>2. /\ Alone(c) /\ call'[c].op = o /\ call'[c].id = i
        /\ pc'[c] \in {"cred", "rec"} /\ pc[c] = "idle"
    BY <1>1 DEF BeginOn, NoCall, Goto, Inv, TypeOK, Alone
  <1>3. UNCHANGED <<record, doc, lastRev, published, replayed, forfeited>>
    BY <1>1 DEF BeginOn
  <1>4. RecordKept'
    BY <1>1, <1>3 DEF Inv, Known, RecordKept
  <1>5. doc[i] = 0 \/ o # "publish"
    BY <1>1 DEF Inv, Known, Names
  <1>6. Plan(c)' /\ Fresh(c)' /\ Token(c)'
    <2>1. Plan(c)' /\ Token(c)'
      BY <1>2 DEF Plan, Acting, Token, Refreshing
    <2>2. o = "publish" => i \in used' \ published' /\ issued'[i] = 1 /\ doc'[i] = 0
      BY <1>1, <1>3, <1>5 DEF Inv, Known, RecordKept, TypeOK
    <2> QED
      BY <1>2, <2>1, <2>2 DEF Fresh, Publishing
  <1>7. \A d \in Callers : Publishing(d) \/ Refreshing(d) => call[d].id \in used
    BY DEF Inv, Known, RecordKept, Names, Fresh, Tokens, Token
  <1>8. \A d \in Callers : Publishing(d) \/ Refreshing(d) => ~Disturbed(call[d].id)
    BY <1>1, <1>3, <1>7 DEF Disturbed, Inv, TypeOK, Calls
  <1>9. Publishing(c)' => \A d \in Callers \ {c} : Publishing(d) => call[d].id # call'[c].id
    BY <1>1, <1>2, <1>7 DEF Publishing
  <1>10. \A j \in Ids \ used' : doc'[j] = 0
    BY <1>1, <1>3 DEF Inv, Known, Names
  <1>11. \A j \in Ids : doc'[j] # 0 =>
            \/ j \in forfeited' \/ doc'[j] = issued'[j]
            \/ \E d \in Callers \ {c} : Rotated(d) /\ call[d].id = j
            \/ Rotated(c)' /\ call'[c].id = j
    <2>1. ~Rotated(c)
      BY <1>2 DEF Rotated
    <2>2. ASSUME NEW j \in Ids, doc'[j] # 0 PROVE issued'[j] = issued[j]
      BY <1>1, <1>3, <1>5, <2>2 DEF Inv, TypeOK
    <2> QED
      BY <1>3, <2>1, <2>2 DEF Inv, Known, Tokens, Accounted
  <1>12. lastRev <= lastRev'
    BY <1>3 DEF Inv, TypeOK
  <1> QED
    BY <1>1, <1>2, <1>3, <1>4, <1>6, <1>8, <1>9, <1>10, <1>11, <1>12, KnownFrame
       DEF Inv, Known, Tokens

\* The frame of the steps that only change the caller's own place and call.
LEMMA LocalKnows ==
  ASSUME Inv, TypeOK', NEW c \in Callers, Alone(c),
         UNCHANGED <<record, doc, used, published, issued, forfeited>>,
         lastRev <= lastRev', replayed' \subseteq forfeited,
         Plan(c)', Fresh(c)', Token(c)',
         Publishing(c)' => Publishing(c) /\ call'[c].id = call[c].id,
         Rotated(c) => Rotated(c)' /\ call'[c].id = call[c].id
  PROVE  Known'
  <1>1. RecordKept'
    <2>1. record.rev \in Nat /\ lastRev \in Nat /\ lastRev' \in Nat
      BY DEF Inv, TypeOK, Records
    <2> QED
      BY <2>1 DEF Inv, Known, RecordKept
  <1>2. Publishing(c)' => \A d \in Callers \ {c} : Publishing(d) => call[d].id # call'[c].id
    BY DEF Inv, Known, Names
  <1>3. \A d \in Callers : ~Disturbed(call[d].id)
    BY DEF Disturbed
  <1>4. \A i \in Ids \ used' : doc'[i] = 0
    BY DEF Inv, Known, Names
  <1> QED
    BY <1>1, <1>2, <1>3, <1>4, StillAccounted, KnownFrame

\* The record a mutation is about to commit follows from the one just read.
LEMMA PrepareKnows ==
  ASSUME Inv, TypeOK', NEW c \in Callers, NEW r \in Records, NEW label \in {"doc", "commit"},
         Prepare(c, r, label), pc[c] = "read", r \in Outcomes(c),
         label = "commit" => call[c].op # "publish" \/ call[c].id \notin Managed
  PROVE  Known'
  <1> USE DEF files, server
  <1> DEFINE draft == [r EXCEPT !.rev = lastRev + 1]
             k == [call[c] EXCEPT !.base = record, !.draft = draft]
  <1>1. call' = [call EXCEPT ![c] = k] /\ draft \in Records /\ draft.rev = lastRev + 1
    BY DEF Prepare, Inv, TypeOK, Records
  <1>2. call[c] \in Calls /\ lastRev \in Nat /\ lastRev' = lastRev + 1
    BY DEF Prepare, Inv, TypeOK
  <1>3. k.base = record /\ k.draft = draft /\ k.op = call[c].op /\ k.id = call[c].id /\ k.raw = call[c].raw
    <2> HIDE DEF draft
    <2> QED
      BY <1>2 DEF Calls
  <1>4. call'[c] = k
    <2> HIDE DEF k
    <2> QED
      BY <1>1 DEF Inv, TypeOK
  <1> HIDE DEF k
  <1>5. Alone(c) /\ pc'[c] = label
    BY <1>1 DEF Prepare, Goto, Inv, TypeOK, Alone
  <1>6. UNCHANGED <<record, doc, used, published, issued, forfeited, replayed>>
    BY DEF Prepare
  <1>7. Plan(c)'
    <2>1. record.rev <= lastRev /\ record.rev \in Nat
      BY DEF Inv, Known, RecordKept, TypeOK, Records
    <2>2. Outcomes(c)' = Outcomes(c)
      BY <1>3, <1>4, <1>6 DEF Outcomes
    <2>3. draft = [r EXCEPT !.rev = draft.rev]
      BY <1>1
    <2>4. r \in Outcomes(c)' /\ draft.rev <= lastRev' /\ record.rev < draft.rev
      BY <1>1, <1>2, <2>1, <2>2
    <2> HIDE DEF draft
    <2>5. /\ call'[c].base = record' /\ call'[c].draft = draft
          /\ record'.rev < draft.rev /\ draft.rev <= lastRev'
          /\ \E q \in Outcomes(c)' : draft = [q EXCEPT !.rev = draft.rev]
      BY <1>3, <1>4, <1>6, <2>3, <2>4
    <2>6. pc'[c] \notin {"write", "unlink"}
      BY <1>5
    <2> QED
      BY <2>5, <2>6 DEF Plan
  <1>8. Fresh(c)' /\ (Publishing(c)' => Publishing(c))
    <2>1. Fresh(c)
      BY DEF Inv, Known, Names
    <2> QED
      BY <1>3, <1>4, <1>5, <1>6, <2>1 DEF Fresh, Publishing
  <1>9. Token(c)' /\ ~Rotated(c)
    BY <1>5 DEF Token, Refreshing, Rotated
  <1>10. replayed' \subseteq forfeited /\ lastRev <= lastRev'
    BY <1>2, <1>6 DEF Inv, Known, Tokens
  <1> QED
    BY <1>3, <1>4, <1>5, <1>6, <1>7, <1>8, <1>9, <1>10, LocalKnows

LEMMA ReadKnows ==
  ASSUME Inv, TypeOK', NEW c \in Callers, Read(c)
  PROVE  Known'
  <1>a. record \in Records /\ call[c].id \in Ids
    BY DEF Inv, TypeOK, Calls
  <1>1. ASSUME ReadUnchanged(c) PROVE Known'
    BY <1>1, QuietSteps, QuietKeeps
  <1>2. ASSUME PreparePublish(c) PROVE Known'
    <2>1. Appended(record, call[c].id) \in Outcomes(c) /\ Appended(record, call[c].id) \in Records
      BY <1>2, <1>a, AppendedType DEF PreparePublish, Reading, Outcomes
    <2> QED
      BY <1>2, <2>1, PrepareKnows DEF PreparePublish, Reading
  <1>3. ASSUME PrepareManage(c) PROVE Known'
    BY <1>3, <1>a, EditsType, PrepareKnows DEF PrepareManage, Reading, Outcomes
  <1>4. ASSUME PrepareSelect(c) PROVE Known'
    <2>1. ASSUME NEW r \in Switches(record) PROVE r \in Edits(record)
      <3>1. record.rev # 0
        BY <2>1 DEF Inv, Known, RecordKept, Switches, Absent
      <3> QED
        BY <2>1, <3>1 DEF Switches, Edits
    <2> QED
      BY <1>4, <1>a, <2>1, SwitchesType, PrepareKnows DEF PrepareSelect, Reading, Outcomes
  <1>5. ASSUME ReadAllowed(c) PROVE Known'
    <2> USE DEF files, names, server
    <2>1. /\ Alone(c) /\ pc[c] = "read" /\ pc'[c] \in {"unlink", "publish", "yield"}
          /\ call'[c].op = call[c].op /\ call'[c].id = call[c].id /\ call'[c].base = record
          /\ pc'[c] = "yield" => call'[c].raw = doc[call[c].id]
      <3>1. call[c].op \in {"collect", "observe", "refresh"} /\ pc[c] = "read"
        BY <1>5 DEF ReadAllowed, Allowed, Reading
      <3>2. Alone(c) /\ pc'[c] \in {"unlink", "publish", "yield"}
        BY <1>5, <3>1 DEF ReadAllowed, Goto, Inv, TypeOK, Alone
      <3>3. pc'[c] = "yield" => call[c].op = "refresh"
        BY <1>5, <3>1 DEF ReadAllowed, Goto, Inv, TypeOK
      <3>4. /\ call'[c].op = call[c].op /\ call'[c].id = call[c].id /\ call'[c].base = record
            /\ call'[c].raw = IF call[c].op = "refresh" THEN doc[call[c].id] ELSE 0
        BY <1>5 DEF ReadAllowed, Inv, TypeOK, Calls
      <3> QED
        BY <3>1, <3>2, <3>3, <3>4
    <2>2. /\ pc'[c] = "unlink" => call[c].id \notin record.members \cap Managed
          /\ pc'[c] = "yield" => /\ call[c].id \in record.enabled \cap Managed
                                 /\ doc[call[c].id] # 0
      BY <1>5 DEF ReadAllowed, Allowed, Reading, Goto, Inv, TypeOK
    <2>3. UNCHANGED <<record, doc, lastRev, used, published, issued, forfeited, replayed>>
      BY <1>5 DEF ReadAllowed
    <2>4. record.enabled \subseteq published
      BY DEF Inv, Known, RecordKept, ValidRecord
    <2>5. Plan(c)' /\ Fresh(c)' /\ Token(c)' /\ ~Rotated(c) /\ ~Publishing(c)'
      BY <2>1, <2>2, <2>3, <2>4
         DEF Plan, Acting, Fresh, Publishing, Token, Refreshing, Rotated
    <2>6. replayed' \subseteq forfeited /\ lastRev <= lastRev'
      BY <2>3 DEF Inv, Known, Tokens, TypeOK
    <2> QED
      BY <2>1, <2>3, <2>5, <2>6, LocalKnows
  <1> QED
    BY <1>1, <1>2, <1>3, <1>4, <1>5 DEF Read

\* The result of a refresh may be written once the record has been read again.
LEMMA RecheckKnows ==
  ASSUME Inv, TypeOK', NEW c \in Callers, RecheckPasses(c)
  PROVE  Known'
  <1> USE DEF files, names, server
  <1>1. /\ Alone(c) /\ pc[c] = "recheck" /\ pc'[c] = "write"
        /\ call'[c].op = call[c].op /\ call'[c].id = call[c].id /\ call'[c].base = record
        /\ call'[c].raw = call[c].raw
    BY DEF RecheckPasses, Goto, Inv, TypeOK, Alone, Calls
  <1>2. UNCHANGED <<record, doc, lastRev, used, published, issued, forfeited, replayed>>
    BY DEF RecheckPasses
  <1>3. Plan(c)'
    BY <1>1, <1>2 DEF RecheckPasses, Plan, Acting
  <1>4. Fresh(c)' /\ ~Publishing(c)'
    BY <1>1 DEF Fresh, Publishing
  <1>5. Token(c)' /\ (Rotated(c) => Rotated(c)')
    <2>1. Token(c)
      BY DEF Inv, Known, Tokens
    <2> QED
      BY <1>1, <1>2, <2>1 DEF Token, Refreshing, Rotated
  <1>6. replayed' \subseteq forfeited /\ lastRev <= lastRev'
    BY <1>2 DEF Inv, Known, Tokens, TypeOK
  <1> QED
    BY <1>1, <1>2, <1>3, <1>4, <1>5, <1>6, LocalKnows

\* Whoever asks the server holds the credential lock and presents the document.
LEMMA AskingCredential ==
  ASSUME Inv, NEW c \in Callers, pc[c] = "callback"
  PROVE  LET i == call[c].id IN
         /\ i \in Ids /\ call[c].raw = doc[i] /\ doc[i] # 0 /\ i \in published \cap Managed
         /\ i \in forfeited \/ doc[i] = issued[i]
         /\ \A d \in Callers \ {c} : Publishing(d) \/ Refreshing(d) => call[d].id # i
  <1>1. call[c].id \in Ids /\ HoldsCred(c) /\ Placed(c)
    BY DEF Inv, TypeOK, Calls, Locks, Placed, HoldsCred, UsesCredLock
  <1>2. /\ call[c].raw = doc[call[c].id] /\ doc[call[c].id] # 0
        /\ call[c].id \in published \cap Managed
    BY DEF Inv, Known, Tokens, Token, Refreshing
  <1>3. ASSUME NEW d \in Callers, d # c, Refreshing(d) PROVE call[d].id # call[c].id
    <2>1. HoldsCred(d)
      BY <1>3 DEF Inv, Locks, Placed, Refreshing, HoldsCred, UsesCredLock
    <2> QED
      BY <1>1, <1>3, <2>1, Exclusive DEF Inv
  <1>4. ASSUME NEW d \in Callers, Publishing(d) PROVE call[d].id # call[c].id
    BY <1>2, <1>4 DEF Inv, Known, Names, Fresh
  <1>5. \A d \in Callers : Rotated(d) => Refreshing(d) /\ d # c
    BY DEF Rotated, Refreshing
  <1>6. call[c].id \in forfeited \/ doc[call[c].id] = issued[call[c].id]
    BY <1>1, <1>2, <1>3, <1>5 DEF Inv, Known, Tokens, Accounted
  <1> QED
    BY <1>1, <1>2, <1>3, <1>4, <1>6

LEMMA CallbackKnows ==
  ASSUME Inv, TypeOK', NEW c \in Callers, Callback(c)
  PROVE  Known'
  <1> USE DEF files, names, server
  <1> DEFINE i == call[c].id
  <1>a. pc[c] = "callback"
    BY DEF Callback, Rotate, Refused, KeepCredential
  <1>b. /\ i \in Ids /\ call[c].raw = doc[i] /\ doc[i] # 0 /\ i \in published \cap Managed
        /\ i \in forfeited \/ doc[i] = issued[i]
        /\ \A d \in Callers \ {c} : Publishing(d) \/ Refreshing(d) => call[d].id # i
    BY <1>a, AskingCredential
  <1>c. Placed(c) /\ TypeOK /\ Locks /\ ~Rotated(c) /\ call[c].op = "refresh"
    BY <1>a DEF Inv, Locks, Placed, Rotated
  <1>1. ASSUME Rotate(c) PROVE Known'
    <2>1. UNCHANGED <<record, doc, lastRev, used, published, replayed>>
          /\ issued' = [issued EXCEPT ![i] = issued[i] + 1] /\ forfeited \subseteq forfeited'
      BY <1>1 DEF Rotate
    <2>2. /\ Alone(c)
          /\ \/ /\ pc'[c] = "rec2" /\ call'[c].id = i /\ call'[c].op = "refresh"
                /\ call'[c].raw = issued[i] + 1 /\ doc[i] = issued[i]
             \/ pc'[c] = "relCred" /\ i \in forfeited' /\ call'[c].op = "refresh"
      <3>1. CASE Leave(c, "relCred") /\ forfeited' = forfeited \cup {i}
        BY <3>1, <1>c, LeaveMoves DEF PCs
      <3>2. CASE Goto(c, "rec2") /\ call' = [call EXCEPT ![c].raw = issued[i] + 1]
        <4>1. /\ call[c] \in Calls /\ call \in [Callers -> Calls] /\ pc \in [Callers -> PCs]
              /\ issued[i] \in Nat
          BY <1>b, <1>c DEF TypeOK
        <4>2. Alone(c) /\ pc'[c] = "rec2" /\ call'[c] = [call[c] EXCEPT !.raw = issued[i] + 1]
          BY <3>2, <4>1 DEF Goto, Alone
        <4>3. call'[c].id = i /\ call'[c].op = "refresh" /\ call'[c].raw = issued[i] + 1
          BY <1>c, <4>1, <4>2 DEF Calls
        <4>4. doc[i] = issued[i]
          BY <1>1, <1>b DEF Rotate
        <4> QED
          BY <4>2, <4>3, <4>4
      <3> QED
        BY <1>1, <3>1, <3>2 DEF Rotate
    <2>3. RecordKept'
      BY <2>1 DEF Inv, Known, RecordKept
    <2>4. Plan(c)' /\ Fresh(c)' /\ ~Publishing(c)'
      BY <2>2 DEF Plan, Acting, Fresh, Publishing
    <2>5. Token(c)'
      <3>1. issued[i] \in Nat /\ issued'[i] = issued[i] + 1
        BY <1>b, <1>c, <2>1 DEF TypeOK
      <3> QED
        BY <1>b, <2>1, <2>2, <3>1 DEF Token, Refreshing, Rotated
    <2>6. \A d \in Callers \ {c} : Publishing(d) \/ Refreshing(d) => ~Disturbed(call[d].id)
      BY <1>b, <1>c, <2>1 DEF Disturbed, TypeOK, Calls
    <2>7. \A j \in Ids : doc'[j] # 0 =>
            \/ j \in forfeited' \/ doc'[j] = issued'[j]
            \/ \E d \in Callers \ {c} : Rotated(d) /\ call[d].id = j
            \/ Rotated(c)' /\ call'[c].id = j
      <3>1. i \in forfeited' \/ (Rotated(c)' /\ call'[c].id = i)
        <4>1. issued[i] + 1 # 0
          BY <1>b, <1>c DEF TypeOK
        <4> QED
          BY <2>2, <4>1 DEF Rotated
      <3>2. \A j \in Ids : j # i => issued'[j] = issued[j]
        BY <1>c, <2>1 DEF TypeOK
      <3> QED
        BY <1>c, <2>1, <3>1, <3>2 DEF Inv, Known, Tokens, Accounted
    <2>8. (\A j \in Ids \ used' : doc'[j] = 0) /\ lastRev <= lastRev' /\ replayed' \subseteq forfeited'
      BY <1>c, <2>1 DEF Inv, Known, Names, Tokens, TypeOK
    <2> QED
      BY <2>1, <2>2, <2>3, <2>4, <2>5, <2>6, <2>7, <2>8, KnownFrame
  <1>2. ASSUME Refused(c) \/ KeepCredential(c) PROVE Known'
    <2>1. UNCHANGED <<record, doc, lastRev, used, published, issued, forfeited>>
      BY <1>2 DEF Refused, KeepCredential
    <2>2. /\ Alone(c)
          /\ \/ pc'[c] = "relCred"
             \/ pc'[c] = "rec2" /\ call'[c].id = i /\ call'[c].raw = 0
      <3>1. CASE Refused(c)
        BY <3>1, <1>c, LeaveMoves DEF Refused, PCs
      <3>2. CASE KeepCredential(c)
        BY <3>2, <1>c DEF KeepCredential, Goto, Alone, TypeOK, Calls
      <3> QED
        BY <1>2, <3>1, <3>2
    <2>3. Plan(c)' /\ Fresh(c)' /\ Token(c)' /\ ~Publishing(c)'
      BY <1>b, <2>1, <2>2
         DEF Plan, Acting, Fresh, Publishing, Token, Refreshing, Rotated
    <2>4. replayed' \subseteq forfeited /\ lastRev <= lastRev'
      BY <1>2, <1>b, <1>c, <2>1 DEF Refused, KeepCredential, Inv, Known, Tokens, TypeOK
    <2> QED
      BY <1>c, <2>1, <2>2, <2>3, <2>4, LocalKnows
  <1> QED
    BY <1>1, <1>2 DEF Callback

\* What may be written under the record and the credential lock.
LEMMA WriteDocKnows ==
  ASSUME Inv, TypeOK', NEW c \in Callers, WriteDoc(c)
  PROVE  Known'
  <1> USE DEF files, names, server
  <1> DEFINE i == call[c].id
  <1>a. /\ pc[c] = "doc" /\ HoldsRec(c) /\ Publishing(c) /\ Placed(c) /\ TypeOK /\ Locks
        /\ i \in Ids /\ call[c].op = "publish" /\ ~Rotated(c)
    BY DEF WriteDoc, Inv, Locks, Placed, HoldsRec, Publishing, Rotated, TypeOK, Calls
  <1>b. /\ i \in Managed /\ i \in used \ published /\ issued[i] = 1 /\ doc[i] = 0
        /\ \A d \in Callers \ {c} : Publishing(d) \/ Refreshing(d) => call[d].id # i
    BY <1>a DEF Inv, Known, Names, Fresh, Placed, Tokens, Token
  <1>1. doc' = [doc EXCEPT ![i] = 1]
        /\ UNCHANGED <<record, lastRev, used, published, issued, forfeited, replayed>>
    BY DEF WriteDoc
  <1>2. Alone(c) /\ (pc'[c] = "relRec" \/ (pc'[c] = "commit" /\ call'[c] = call[c]))
    <2>1. CASE Leave(c, "relRec")
      BY <1>a, <2>1, LeaveMoves DEF PCs
    <2>2. CASE Goto(c, "commit") /\ call' = call
      BY <1>a, <2>2 DEF Goto, Alone, TypeOK
    <2> QED
      BY <2>1, <2>2 DEF WriteDoc
  <1>3. RecordKept'
    BY <1>a, <1>1 DEF Inv, Known, RecordKept, TypeOK
  <1>4. Plan(c)' /\ Fresh(c)' /\ Token(c)'
    <2>1. Plan(c)
      BY DEF Inv, Known
    <2>2. doc'[i] = 1
      BY <1>a, <1>1 DEF TypeOK
    <2>3. Plan(c)'
      BY <1>a, <1>1, <1>2, <2>1 DEF Plan, Acting, Outcomes
    <2> QED
      BY <1>a, <1>b, <1>1, <1>2, <2>2, <2>3 DEF Fresh, Publishing, Token, Refreshing
  <1>5. \A d \in Callers \ {c} : Publishing(d) \/ Refreshing(d) => ~Disturbed(call[d].id)
    BY <1>a, <1>b, <1>1 DEF Disturbed, TypeOK, Calls
  <1>6. Publishing(c)' => \A d \in Callers \ {c} : Publishing(d) => call[d].id # call'[c].id
    BY <1>b, <1>2 DEF Publishing
  <1>7. \A j \in Ids : doc'[j] # 0 =>
            \/ j \in forfeited' \/ doc'[j] = issued'[j]
            \/ \E d \in Callers \ {c} : Rotated(d) /\ call[d].id = j
            \/ Rotated(c)' /\ call'[c].id = j
    <2>1. doc'[i] = issued'[i] /\ \A j \in Ids : j # i => doc'[j] = doc[j]
      BY <1>a, <1>b, <1>1 DEF TypeOK
    <2> QED
      BY <1>a, <1>1, <2>1 DEF Inv, Known, Tokens, Accounted
  <1>8. (\A j \in Ids \ used' : doc'[j] = 0) /\ lastRev <= lastRev' /\ replayed' \subseteq forfeited'
    BY <1>a, <1>b, <1>1 DEF Inv, Known, Names, Tokens, TypeOK
  <1> QED
    BY <1>a, <1>1, <1>2, <1>3, <1>4, <1>5, <1>6, <1>7, <1>8, KnownFrame

\* A refreshed document replaces the one the refresh started from.
LEMMA WriteRefreshedKnows ==
  ASSUME Inv, TypeOK', NEW c \in Callers, WriteRefreshed(c)
  PROVE  Known'
  <1> USE DEF files, names, server
  <1> DEFINE i == call[c].id
  <1>a. /\ pc[c] = "write" /\ HoldsRec(c) /\ HoldsCred(c) /\ TypeOK /\ Locks /\ i \in Ids
    BY DEF WriteRefreshed, Inv, Locks, Placed, HoldsRec, HoldsCred, UsesCredLock, TypeOK, Calls
  <1>b. i \in published /\ call[c].raw # 0 /\ call[c].raw = issued[i]
    BY <1>a DEF Inv, Known, Plan, Tokens, Token, Refreshing, Rotated
  <1>c. \A d \in Callers \ {c} : Publishing(d) \/ Refreshing(d) => call[d].id # i
    <2>1. ASSUME NEW d \in Callers, d # c, Refreshing(d) PROVE call[d].id # i
      <3>1. HoldsCred(d)
        BY <2>1 DEF Inv, Locks, Placed, Refreshing, HoldsCred, UsesCredLock
      <3> QED
        BY <1>a, <2>1, <3>1, Exclusive
    <2> QED
      BY <1>b, <2>1 DEF Inv, Known, Names, Fresh
  <1>1. doc' = [doc EXCEPT ![i] = call[c].raw]
        /\ UNCHANGED <<record, lastRev, used, published, issued, forfeited, replayed>>
    BY DEF WriteRefreshed
  <1>2. Alone(c) /\ pc'[c] = "relRec"
    BY <1>a, LeaveMoves DEF WriteRefreshed, PCs
  <1>3. RecordKept'
    BY <1>a, <1>b, <1>1 DEF Inv, Known, RecordKept, TypeOK
  <1>4. Plan(c)' /\ Fresh(c)' /\ Token(c)' /\ ~Publishing(c)'
    BY <1>2 DEF Plan, Acting, Fresh, Publishing, Token, Refreshing
  <1>5. \A d \in Callers \ {c} : Publishing(d) \/ Refreshing(d) => ~Disturbed(call[d].id)
    BY <1>a, <1>c, <1>1 DEF Disturbed, TypeOK, Calls
  <1>7. \A j \in Ids : doc'[j] # 0 =>
            \/ j \in forfeited' \/ doc'[j] = issued'[j]
            \/ \E d \in Callers \ {c} : Rotated(d) /\ call[d].id = j
            \/ Rotated(c)' /\ call'[c].id = j
    <2>1. doc'[i] = issued'[i] /\ \A j \in Ids : j # i => doc'[j] = doc[j]
      BY <1>a, <1>b, <1>1 DEF TypeOK
    <2> QED
      BY <1>1, <2>1 DEF Inv, Known, Tokens, Accounted
  <1>8. (\A j \in Ids \ used' : doc'[j] = 0) /\ lastRev <= lastRev' /\ replayed' \subseteq forfeited'
    BY <1>a, <1>b, <1>1 DEF Inv, Known, RecordKept, Names, Tokens, TypeOK
  <1> QED
    BY <1>a, <1>1, <1>2, <1>3, <1>4, <1>5, <1>7, <1>8, KnownFrame

\* The collector removes a document that no Profile and no login relies on.
LEMMA UnlinkKnows ==
  ASSUME Inv, TypeOK', NEW c \in Callers, Unlink(c)
  PROVE  Known'
  <1> USE DEF files, names, server
  <1> DEFINE i == call[c].id
  <1>a. /\ pc[c] = "unlink" /\ HoldsRec(c) /\ HoldsCred(c) /\ TypeOK /\ Locks /\ i \in Ids
        /\ call[c].op = "collect" /\ i \notin record.members \cap Managed
    BY DEF Unlink, Inv, Known, Plan, Locks, Placed, HoldsRec, HoldsCred, UsesCredLock, TypeOK, Calls
  <1>1. doc' = [doc EXCEPT ![i] = 0]
        /\ UNCHANGED <<record, lastRev, used, published, issued, forfeited, replayed>>
    BY DEF Unlink
  <1>2. Alone(c) /\ pc'[c] = "relRec"
    BY <1>a, LeaveMoves DEF Unlink, PCs
  <1>3. \A j \in Ids : doc'[j] = IF j = i THEN 0 ELSE doc[j]
    BY <1>a, <1>1 DEF TypeOK
  <1>4. RecordKept'
    BY <1>a, <1>1, <1>3 DEF Inv, Known, RecordKept
  <1>5. Plan(c)' /\ Fresh(c)' /\ Token(c)' /\ ~Publishing(c)' /\ ~Rotated(c)
    BY <1>a, <1>2 DEF Plan, Acting, Fresh, Publishing, Token, Refreshing, Rotated
  <1>6. ASSUME NEW d \in Callers, d # c, Publishing(d) \/ Refreshing(d)
        PROVE  ~Disturbed(call[d].id)
    <2>1. call[d].id \in Ids
      BY DEF Inv, TypeOK, Calls
    <2>2. CASE HoldsCred(d)
      BY <1>a, <1>1, <1>3, <1>6, <2>1, <2>2, Exclusive DEF Disturbed
    <2>3. CASE ~HoldsCred(d)
      <3>1. Publishing(d) /\ pc[d] = "cred"
        BY <1>6, <2>3 DEF Inv, Locks, Placed, Publishing, Refreshing, HoldsCred, UsesCredLock
      <3>2. doc[call[d].id] = 0
        BY <3>1 DEF Inv, Known, Names, Fresh
      <3> QED
        BY <1>1, <1>3, <2>1, <3>2 DEF Disturbed
    <2> QED
      BY <2>2, <2>3
  <1>7. \A j \in Ids : doc'[j] # 0 =>
            \/ j \in forfeited' \/ doc'[j] = issued'[j]
            \/ \E d \in Callers \ {c} : Rotated(d) /\ call[d].id = j
            \/ Rotated(c)' /\ call'[c].id = j
    BY <1>1, <1>3, <1>5 DEF Inv, Known, Tokens, Accounted
  <1>8. (\A j \in Ids \ used' : doc'[j] = 0) /\ lastRev <= lastRev' /\ replayed' \subseteq forfeited'
    BY <1>a, <1>1, <1>3 DEF Inv, Known, Names, Tokens, TypeOK
  <1> QED
    BY <1>a, <1>1, <1>2, <1>4, <1>5, <1>6, <1>7, <1>8, KnownFrame

\* The record that is committed is the edit of the record it replaces.
LEMMA CommitFacts ==
  ASSUME Inv, TypeOK', NEW c \in Callers, Commit(c)
  PROVE  /\ HoldsRec(c) /\ Alone(c) /\ pc'[c] = "relRec" /\ ~Rotated(c)
         /\ record' = call[c].draft /\ record.rev < record'.rev /\ record'.rev <= lastRev
         /\ \E r \in Outcomes(c) : record' = [r EXCEPT !.rev = record'.rev]
         /\ published' = published \cup record'.members
         /\ UNCHANGED <<doc, lastRev, used, issued, replayed, forfeited>>
  <1>1. pc[c] = "commit" /\ HoldsRec(c) /\ ~Rotated(c)
    BY DEF Commit, HoldsRec, Rotated
  <1>2. Alone(c) /\ pc'[c] = "relRec"
    BY LeaveMoves DEF Commit, Inv, PCs
  <1>3. Plan(c)
    BY DEF Inv, Known
  <1> QED
    BY <1>1, <1>2, <1>3 DEF Commit, Plan, files, locks, names, server

\* A commit adds the Profile of a login, or no Profile at all.
LEMMA CommitShape ==
  ASSUME Inv, TypeOK', NEW c \in Callers, Commit(c)
  PROVE  /\ ValidRecord(record') /\ record' \in Records
         /\ \/ /\ call[c].op = "publish" /\ Publishing(c)
               /\ record' = [Appended(record, call[c].id) EXCEPT !.rev = record'.rev]
               /\ record'.members = record.members \cup {call[c].id}
               /\ call[c].id \in used \ published
               /\ doc[call[c].id] = IF call[c].id \in Managed THEN 1 ELSE 0
            \/ /\ call[c].op # "publish" /\ record'.members \subseteq record.members
               /\ \E r \in Edits(record) : record' = [r EXCEPT !.rev = record'.rev]
  <1>1. PICK r \in Outcomes(c) : record' = [r EXCEPT !.rev = record'.rev]
    BY CommitFacts
  <1>2. /\ record \in Records /\ ValidRecord(record) /\ call[c].id \in Ids
        /\ pc[c] = "commit" /\ record' \in Records
    BY DEF Inv, Known, RecordKept, TypeOK, Calls, Commit
  <1>3. CASE call[c].op = "publish"
    <2>1. r = Appended(record, call[c].id)
      BY <1>1, <1>3 DEF Outcomes
    <2>2. r \in Records /\ ValidRecord(r) /\ r.members = record.members \cup {call[c].id}
      BY <1>2, <2>1, AppendedType
    <2>3. record'.members = r.members /\ record'.enabled = r.enabled /\ record'.active = r.active
      BY <1>1, <2>2 DEF Records
    <2>4. Publishing(c) /\ Fresh(c)
      BY <1>2, <1>3 DEF Publishing, Inv, Known, Names
    <2> QED
      BY <1>1, <1>2, <1>3, <2>1, <2>2, <2>3, <2>4 DEF Fresh, ValidRecord
  <1>4. CASE call[c].op # "publish"
    <2>1. r \in Edits(record)
      BY <1>1, <1>4 DEF Outcomes
    <2>2. r \in Records /\ ValidRecord(r) /\ r.members \subseteq record.members
      BY <1>2, <2>1, EditsType
    <2>3. record'.members = r.members /\ record'.enabled = r.enabled /\ record'.active = r.active
      BY <1>1, <2>2 DEF Records
    <2> QED
      BY <1>1, <1>2, <1>4, <2>1, <2>2, <2>3 DEF ValidRecord
  <1> QED
    BY <1>3, <1>4

LEMMA CommitKnows ==
  ASSUME Inv, TypeOK', NEW c \in Callers, Commit(c)
  PROVE  Known'
  <1> DEFINE i == call[c].id
  <1>a. /\ HoldsRec(c) /\ Alone(c) /\ pc'[c] = "relRec" /\ ~Rotated(c)
        /\ record.rev < record'.rev /\ record'.rev <= lastRev
        /\ published' = published \cup record'.members
        /\ UNCHANGED <<doc, lastRev, used, issued, replayed, forfeited>>
    BY CommitFacts
  <1>b. record \in Records /\ record' \in Records /\ TypeOK /\ RecordKept
    BY CommitShape DEF Inv, Known, TypeOK
  <1>1. /\ ValidRecord(record')
        /\ \/ /\ record'.members = record.members \cup {i} /\ Publishing(c)
              /\ i \in used \ published /\ doc[i] = IF i \in Managed THEN 1 ELSE 0
           \/ record'.members \subseteq record.members
    BY CommitShape
  <1>2. RecordKept'
    <2>1. record'.rev # 0
      BY <1>a, <1>b DEF Records
    <2>2. record'.members \subseteq published' /\ published' \subseteq used'
      BY <1>a, <1>b, <1>1 DEF RecordKept
    <2>3. \A j \in record'.members \cap Managed : doc'[j] # 0
      BY <1>a, <1>b, <1>1 DEF RecordKept
    <2> QED
      BY <1>a, <1>1, <2>1, <2>2, <2>3 DEF RecordKept
  <1>3. Plan(c)' /\ Fresh(c)' /\ Token(c)' /\ ~Publishing(c)'
    BY <1>a DEF Plan, Acting, Fresh, Publishing, Token, Refreshing
  <1>4. \A d \in Callers \ {c} : Publishing(d) \/ Refreshing(d) => ~Disturbed(call[d].id)
    <2>1. \A d \in Callers \ {c} : Publishing(d) => call[d].id # i \/ ~Publishing(c)
      BY DEF Inv, Known, Names
    <2>2. \A d \in Callers : Refreshing(d) => call[d].id \in published
      BY DEF Inv, Known, Tokens, Token
    <2> QED
      BY <1>a, <1>b, <1>1, <2>1, <2>2 DEF Disturbed, RecordKept
  <1>5. \A j \in Ids : doc'[j] # 0 =>
            \/ j \in forfeited' \/ doc'[j] = issued'[j]
            \/ \E d \in Callers \ {c} : Rotated(d) /\ call[d].id = j
            \/ Rotated(c)' /\ call'[c].id = j
    BY <1>a, StillAccounted DEF Inv
  <1>6. (\A j \in Ids \ used' : doc'[j] = 0) /\ lastRev <= lastRev' /\ replayed' \subseteq forfeited'
    BY <1>a DEF Inv, Known, Names, Tokens, TypeOK
  <1> QED
    BY <1>a, <1>2, <1>3, <1>4, <1>5, <1>6, KnownFrame

\* No step but a stall counts as one, and stalls are bounded.
LEMMA StallsCounted ==
  ASSUME TypeOK, [Next]_vars
  PROVE  \/ faults'["stall"] = faults["stall"]
         \/ faults["stall"] < MaxStalls /\ faults'["stall"] = faults["stall"] + 1
  <1>0. faults \in [{"crash", "stall"} -> Nat]
    BY DEF TypeOK
  <1>1. ASSUME NEW c \in Callers, Step(c) PROVE faults' = faults
    <2>1. AcquireCred(c) \/ AcquireRec(c) \/ GiveUp(c) \/ Stat(c) \/ Discard(c) \/ Release(c)
            => faults' = faults
      BY DEF AcquireCred, AcquireRec, GiveUp, Stat, Discard, Release, Yield, ReleaseRec, ReleaseCred
    <2>2. Read(c) \/ Callback(c) \/ RecheckPasses(c) => faults' = faults
      BY DEF Read, ReadUnchanged, PreparePublish, PrepareManage, PrepareSelect, Prepare,
             ReadAllowed, Callback, Rotate, Refused, KeepCredential, RecheckPasses
    <2>3. Effect(c) => faults' = faults
      BY DEF Effect, WriteDoc, Commit, WriteRefreshed, Unlink, Published, Fail
    <2> QED
      BY <1>1, <2>1, <2>2, <2>3 DEF Step
  <1>2. ASSUME NEW c \in Callers, Begin(c) \/ Notice(c) PROVE faults' = faults
    BY <1>2 DEF Begin, BeginPublish, BeginOnCredential, BeginOnRecord, BeginOn, Notice
  <1>3. ASSUME NEW c \in Callers, Crash(c) PROVE faults'["stall"] = faults["stall"]
    BY <1>0, <1>3 DEF Crash
  <1>4. ASSUME NEW c \in Callers, Stall(c)
        PROVE  faults["stall"] < MaxStalls /\ faults'["stall"] = faults["stall"] + 1
    BY <1>0, <1>4 DEF Stall
  <1>5. ASSUME UNCHANGED vars \/ \E i \in Ids : Age(i) PROVE faults' = faults
    BY <1>5 DEF vars, Age
  <1> QED
    BY <1>1, <1>2, <1>3, <1>4, <1>5 DEF Next

LEMMA InvStep == Inv /\ [Next]_vars /\ faults'["stall"] = 0 => Inv'
  <1> SUFFICES ASSUME Inv, [Next]_vars, faults'["stall"] = 0 PROVE Inv'
    OBVIOUS
  <1>1. TypeOK' /\ Locks'
    BY TypeStep, LocksStep DEF Inv
  <1>2. ASSUME NEW c \in Callers, Step(c) \/ Crash(c) PROVE Known'
    <2>1. ASSUME Effect(c) PROVE Known'
      BY <1>1, <2>1, WriteDocKnows, CommitKnows, WriteRefreshedKnows, UnlinkKnows,
         QuietSteps, QuietKeeps DEF Effect
    <2> QED
      BY <1>1, <1>2, <2>1, QuietSteps, QuietKeeps, ReadKnows, CallbackKnows, RecheckKnows
         DEF Step
  <1>3. ASSUME NEW c \in Callers, Stall(c) \/ Notice(c) PROVE FALSE
    <2>1. (HoldsRec(c) => recLock = c) /\ (HoldsCred(c) => credLock[call[c].id] = c)
      BY DEF Inv, Locks, TypeOK, Calls
    <2>2. faults["stall"] = 0 /\ faults \in [{"crash", "stall"} -> Nat]
      BY DEF Inv, Locks, TypeOK
    <2>3. Stall(c) => faults' = [faults EXCEPT !["stall"] = 1]
      BY <2>2 DEF Stall
    <2> QED
      BY <1>3, <2>1, <2>2, <2>3 DEF Notice
  <1>4. ASSUME UNCHANGED vars \/ \E i \in Ids : Age(i) PROVE Known'
    <2>1. UNCHANGED <<record, doc, lastRev, used, published, pc, call, issued, replayed, forfeited>>
      BY <1>4 DEF vars, Age, files, locks, names, server
    <2> QED
      BY <2>1 DEF Inv, Known, RecordKept, Plan, Outcomes, Names, Fresh, Publishing,
                  Tokens, Token, Refreshing, Rotated, Accounted
  <1>5. Known'
    BY <1>1, <1>2, <1>3, <1>4, BeginKnows DEF Next
  <1> QED
    BY <1>1, <1>5 DEF Inv

LEMMA InvInit == Init => Inv
  <1> SUFFICES ASSUME Init PROVE Inv
    OBVIOUS
  <1>1. TypeOK
    BY NoCallType, AbsentType DEF Init, TypeOK, PCs
  <1>2. Locks
    BY StoreAssumption DEF Init, Locks, Placed, HoldsRec, HoldsCred, NoCall
  <1>3. RecordKept
    BY AbsentType DEF Init, RecordKept, Absent
  <1>4. \A c \in Callers : Plan(c) /\ Fresh(c) /\ Token(c) /\ ~Publishing(c)
    BY DEF Init, Plan, Acting, Fresh, Publishing, Token, Refreshing
  <1>5. Names /\ Tokens
    BY <1>4 DEF Init, Names, Tokens, Accounted
  <1> QED
    BY <1>1, <1>2, <1>3, <1>4, <1>5 DEF Inv, Known

\* While no lock owner is suspended past the staleness bound, what the callers
\* know of the files holds in every reachable state.
THEOREM Invariance == MaxStalls = 0 => (Spec => []Inv)
  <1> SUFFICES ASSUME MaxStalls = 0 PROVE Spec => []Inv
    OBVIOUS
  <1>1. Inv /\ [Next]_vars => Inv'
    <2> SUFFICES ASSUME Inv, [Next]_vars PROVE Inv'
      OBVIOUS
    <2>1. faults["stall"] = 0 /\ TypeOK
      BY DEF Inv, Locks
    <2>2. faults'["stall"] = 0
      BY <2>1, StallsCounted
    <2> QED
      BY <2>2, InvStep
  <1> QED
    BY <1>1, InvInit, PTL DEF Spec

\* However many stalls there may be: until the first one nothing is broken.
THEOREM InvarianceUntilAStall == Spec => [](faults["stall"] = 0 => Inv)
  <1> DEFINE J == TypeOK /\ (faults["stall"] = 0 => Inv)
  <1>1. Init => J
    BY InvInit DEF Inv
  <1>2. J /\ [Next]_vars => J'
    <2> SUFFICES ASSUME J, [Next]_vars PROVE J'
      OBVIOUS
    <2>1. TypeOK'
      BY TypeStep
    <2>2. ASSUME faults'["stall"] = 0 PROVE Inv'
      <3>1. faults["stall"] \in Nat
        BY DEF TypeOK
      <3>2. faults["stall"] = 0
        BY <2>2, <3>1, StallsCounted
      <3> QED
        BY <2>2, <3>2, InvStep
    <2> QED
      BY <2>1, <2>2
  <1>3. J => (faults["stall"] = 0 => Inv)
    OBVIOUS
  <1> QED
    BY <1>1, <1>2, <1>3, PTL DEF Spec

-----------------------------------------------------------------------------
(***************************************************************************)
(* The properties.  MaxStalls = 0 is the one assumption about the          *)
(* environment: no owner of a lock is suspended past LOCK_STALE_MS and     *)
(* then goes on.  Crashes at any step are included.  HoldsUntilAStall      *)
(* drops it: with stalls, the invariants hold until the first one.         *)
(***************************************************************************)
\* No call acts on a record that was replaced after the call read it.
THEOREM ActsOnCurrent == MaxStalls = 0 => (Spec => []ActsOnCurrentRecord)
  <1>1. Inv => ActsOnCurrentRecord
    BY DEF Inv, Known, Plan, Acting, ActsOnCurrentRecord
  <1> QED
    BY <1>1, Invariance, PTL

\* Every managed Profile in the record has its document on disk, whichever call
\* died at whichever step and whatever the collector has removed.
THEOREM DocumentsStay == MaxStalls = 0 => (Spec => []ReferencedDocuments)
  <1>1. Inv => ReferencedDocuments
    BY DEF Inv, Known, RecordKept, ReferencedDocuments
  <1> QED
    BY <1>1, Invariance, PTL

\* No spent refresh token is presented again, except after its successor was lost.
THEOREM NoReplay == MaxStalls = 0 => (Spec => []SpentTokenNotReplayed)
  <1>1. Inv => SpentTokenNotReplayed
    BY DEF Inv, Known, Tokens, SpentTokenNotReplayed
  <1> QED
    BY <1>1, Invariance, PTL

\* A rotated token is held by a refresh that still has its credential lock.
LEMMA NewestAtRest == Inv => NewestTokenKept
  <1> SUFFICES ASSUME Inv, NEW i \in record.members \cap Managed,
                      credLock[i] = Free, i \notin forfeited
               PROVE  doc[i] = issued[i]
    BY DEF NewestTokenKept
  <1>1. i \in Ids /\ doc[i] # 0
    BY DEF Inv, Known, RecordKept, TypeOK, Records
  <1>2. ASSUME NEW c \in Callers, Rotated(c), call[c].id = i PROVE FALSE
    <2>1. HoldsCred(c)
      BY <1>2 DEF Inv, Locks, Placed, Rotated, HoldsCred, UsesCredLock
    <2> QED
      BY <1>1, <1>2, <2>1, StoreAssumption DEF Inv, Locks
  <1> QED
    BY <1>1, <1>2 DEF Inv, Known, Tokens, Accounted

\* When nobody works on a credential its document holds the newest token, unless
\* that token was lost before it could be written.
THEOREM NewestStays == MaxStalls = 0 => (Spec => []NewestTokenKept)
  BY NewestAtRest, Invariance, PTL

\* Two calls never rely on the record lock at once, nor on one credential's lock.
LocksExclude ==
  \A c, d \in Callers : c # d =>
    /\ ~(HoldsRec(c) /\ HoldsRec(d))
    /\ ~(HoldsCred(c) /\ HoldsCred(d) /\ call[c].id = call[d].id)

\* Stalls may come in any number: until the first one the lock files exclude,
\* and the invariants of the store hold, without an assumption about the bound.
THEOREM HoldsUntilAStall ==
  Spec => [](faults["stall"] = 0 =>
               /\ LocksExclude /\ ActsOnCurrentRecord /\ ReferencedDocuments
               /\ SpentTokenNotReplayed /\ NewestTokenKept)
  <1>1. Inv => LocksExclude
    BY DEF Inv, Locks, LocksExclude, TypeOK, Calls
  <1>2. Inv => ActsOnCurrentRecord /\ ReferencedDocuments /\ SpentTokenNotReplayed
    BY DEF Inv, Known, Plan, Acting, RecordKept, Tokens, ActsOnCurrentRecord, ReferencedDocuments,
           SpentTokenNotReplayed
  <1>3. (faults["stall"] = 0 => Inv)
          => (faults["stall"] = 0 =>
               /\ LocksExclude /\ ActsOnCurrentRecord /\ ReferencedDocuments
               /\ SpentTokenNotReplayed /\ NewestTokenKept)
    BY <1>1, <1>2, NewestAtRest
  <1> QED
    BY <1>3, InvarianceUntilAStall, PTL

\* Files change only under the record lock, by one of the effects.
LEMMA OnlyEffects ==
  ASSUME [Next]_vars
  PROVE  (\E c \in Callers : Effect(c)) \/ UNCHANGED <<record, doc, published>>
  <1> USE DEF files, names
  <1>1. ASSUME NEW c \in Callers, Step(c), ~Effect(c) PROVE UNCHANGED <<record, doc, published>>
    <2>1. Release(c) \/ Discard(c) \/ GiveUp(c) \/ Stat(c) \/ AcquireCred(c) \/ AcquireRec(c)
            => UNCHANGED <<record, doc, published>>
      BY DEF Release, Yield, ReleaseRec, ReleaseCred, Discard, GiveUp, Stat, AcquireCred,
             AcquireRec
    <2>2. Read(c) \/ Callback(c) \/ RecheckPasses(c) => UNCHANGED <<record, doc, published>>
      BY DEF Read, ReadUnchanged, PreparePublish, PrepareManage, PrepareSelect, Prepare,
             ReadAllowed, Callback, Rotate, Refused, KeepCredential, RecheckPasses
    <2> QED
      BY <1>1, <2>1, <2>2 DEF Step
  <1>2. ASSUME NEW c \in Callers, Begin(c) \/ Crash(c) \/ Stall(c) \/ Notice(c)
        PROVE  UNCHANGED <<record, doc, published>>
    BY <1>2 DEF Begin, BeginPublish, BeginOnCredential, BeginOnRecord, BeginOn, Crash, Stall,
                Notice
  <1>3. ASSUME (\E i \in Ids : Age(i)) \/ UNCHANGED vars
        PROVE  UNCHANGED <<record, doc, published>>
    BY <1>3 DEF Age, vars
  <1> QED
    BY <1>1, <1>2, <1>3 DEF Next

\* A document is replaced only while its Profile is enabled in the record.
THEOREM RefreshNeedsEnabled == MaxStalls = 0 => (Spec => RefreshNeedsEnabledProfile)
  <1> DEFINE Replaced == \A i \in Ids : doc[i] # 0 /\ doc'[i] \notin {0, doc[i]} => i \in record.enabled
  <1>1. ASSUME Inv, [Next]_vars PROVE [Replaced]_vars
    <2>1. ASSUME NEW c \in Callers, Effect(c) PROVE Replaced
      <3>1. call[c].id \in Ids /\ doc \in [Ids -> Nat] /\ Placed(c)
        BY <1>1 DEF Inv, TypeOK, Calls, Locks
      <3>2. ASSUME WriteDoc(c) PROVE Replaced
        <4>1. doc[call[c].id] = 0
          BY <1>1, <3>1, <3>2 DEF WriteDoc, Inv, Known, Names, Fresh, Publishing, Placed
        <4> QED
          BY <3>1, <3>2, <4>1 DEF WriteDoc
      <3>3. ASSUME WriteRefreshed(c) PROVE Replaced
        BY <1>1, <3>1, <3>3 DEF WriteRefreshed, Inv, Known, Plan
      <3>4. ASSUME Unlink(c) PROVE Replaced
        BY <3>1, <3>4 DEF Unlink
      <3>5. ASSUME doc' = doc PROVE Replaced
        BY <3>5
      <3> QED
        BY <2>1, <3>2, <3>3, <3>4, <3>5 DEF Effect, Commit, Published, Fail, files
    <2> QED
      BY <1>1, <2>1, OnlyEffects
  <1> QED
    BY <1>1, Invariance, PTL DEF Spec, RefreshNeedsEnabledProfile

\* A 429 switch that commits has been computed from the record it replaces.
THEOREM SwitchesKeepManagement == MaxStalls = 0 => (Spec => SwitchKeepsNewerManagement)
  <1> DEFINE Current == \A c \in Callers :
               pc[c] = "commit" /\ call[c].op = "select" /\ record' # record
                 /\ record' = call[c].draft => call[c].base = record
  <1>1. Inv => Current
    BY DEF Inv, Known, Plan, Acting
  <1> QED
    BY <1>1, Invariance, PTL DEF SwitchKeepsNewerManagement

-----------------------------------------------------------------------------
(***************************************************************************)
(* The store implements the ledger.                                        *)
(***************************************************************************)
\* The document of i as a reader of the record sees it.
Secret(i) == IF i \in record.members \cap Managed THEN doc[i] ELSE 0

\* Both modules speak of the same edits.
LEMMA SameEdits ==
  ASSUME NEW r, NEW i
  PROVE  /\ Ledger!Appended(r, i) = Appended(r, i)
         /\ Ledger!Edits(r) = Edits(r)
         /\ Ledger!Absent = Absent
  <1>1. /\ Ledger!Appended(r, i) = Appended(r, i) /\ Ledger!Absent = Absent
    BY DEF Ledger!Appended, Appended, Ledger!Absent, Absent
  <1>2. \A j : /\ Ledger!Disabled(r, j) = Disabled(r, j)
               /\ Ledger!Enabled(r, j) = Enabled(r, j)
               /\ Ledger!Selected(r, j) = Selected(r, j)
    BY DEF Ledger!Disabled, Disabled, Ledger!Enabled, Enabled, Ledger!Selected, Selected
  <1>3. \A j : Ledger!Removed(r, j) = Removed(r, j)
    BY <1>2 DEF Ledger!Removed, Removed
  <1>4. Ledger!Edits(r) = Edits(r)
    BY <1>2, <1>3 DEF Ledger!Edits, Edits
  <1> QED
    BY <1>1, <1>4

\* A login's commit is Acquire, any other commit an Edit.
LEMMA CommitIsLedgerStep ==
  ASSUME Inv, TypeOK', NEW c \in Callers, Commit(c)
  PROVE  Ledger!Next
  <1>0. PICK i \in Ids : call[c].id = i
    BY DEF Inv, TypeOK, Calls
  <1>a. /\ record.rev < record'.rev /\ published' = published \cup record'.members
        /\ doc' = doc
    BY CommitFacts
  <1>b. /\ record \in Records /\ record' \in Records /\ doc \in [Ids -> Nat]
        /\ record.members \subseteq published
        /\ record.rev \in Nat /\ record'.rev \in Nat
    BY CommitShape DEF Inv, Known, RecordKept, TypeOK, Records
  <1>1. CASE call[c].op = "publish"
    <2>1. /\ record' = [Appended(record, i) EXCEPT !.rev = record'.rev]
          /\ record'.members = record.members \cup {i}
          /\ i \notin published /\ doc[i] = IF i \in Managed THEN 1 ELSE 0
      BY <1>0, <1>1, CommitShape
    <2>2. published' = published \cup {i}
      BY <1>a, <1>b, <2>1
    <2>3. Secret(i)' = IF i \in Managed THEN 1 ELSE 0
      BY <1>a, <1>b, <2>1 DEF Secret
    <2>4. \A j \in Ids : j # i => Secret(j)' = Secret(j)
      BY <1>a, <2>1 DEF Secret
    <2>5. Ledger!Acquire(i)
      <3> DEFINE before == [j \in Ids |-> Secret(j)]
                 after == [j \in Ids |-> Secret(j)']
      <3>1. after[i] = Secret(i)' /\ after = [before EXCEPT ![i] = after[i]]
        BY <2>4
      <3>2. (i \in Managed) <=> (after[i] > 0)
        BY <2>3, <3>1
      <3>3. record' = [Ledger!Appended(record, i) EXCEPT !.rev = record'.rev]
        BY <2>1, SameEdits
      <3>4. record'.rev > record.rev
        BY <1>a, <1>b
      <3> QED
        BY <2>1, <2>2, <3>1, <3>2, <3>3, <3>4 DEF Ledger!Acquire, Secret
    <2> QED
      BY <1>b, <2>5 DEF Ledger!Next
  <1>2. CASE call[c].op # "publish"
    <2>1. /\ record'.members \subseteq record.members
          /\ \E r \in Edits(record) : record' = [r EXCEPT !.rev = record'.rev]
      BY <1>2, CommitShape
    <2>2. published' = published
      BY <1>a, <1>b, <2>1
    <2>3. \A j \in Ids : Secret(j)' = IF j \in record'.members THEN Secret(j) ELSE 0
      BY <1>a, <2>1 DEF Secret
    <2>4. Ledger!Edit
      BY <1>a, <1>b, <2>1, <2>2, <2>3, SameEdits DEF Ledger!Edit, Secret
    <2> QED
      BY <2>4 DEF Ledger!Next
  <1> QED
    BY <1>1, <1>2

\* A refreshed document is a Rotate, and no other step shows in the ledger.
LEMMA EffectIsLedgerStep ==
  ASSUME Inv, [Next]_vars, TypeOK', NEW c \in Callers, Effect(c)
  PROVE  [Ledger!Next]_Ledger!vars
  <1>0. PICK i \in Ids : call[c].id = i
    BY DEF Inv, TypeOK, Calls
  <1>a. doc \in [Ids -> Nat] /\ call[c].raw \in Nat
    BY DEF Inv, TypeOK, Calls
  <1>1. ASSUME record' = record, published' = published, \A j \in Ids : Secret(j)' = Secret(j)
        PROVE  UNCHANGED Ledger!vars
    BY <1>1 DEF Ledger!vars, Secret
  <1>2. ASSUME WriteDoc(c) PROVE UNCHANGED Ledger!vars
    <2>1. i \notin record.members
      BY <1>0, <1>2 DEF WriteDoc, Inv, Known, RecordKept, Names, Fresh, Publishing, Locks, Placed
    <2>2. record' = record /\ published' = published /\ doc' = [doc EXCEPT ![i] = 1]
      BY <1>0, <1>2 DEF WriteDoc, names
    <2> QED
      BY <1>a, <1>1, <2>1, <2>2 DEF Secret
  <1>3. ASSUME Unlink(c) PROVE UNCHANGED Ledger!vars
    <2>1. i \notin record.members \cap Managed
      BY <1>0, <1>3 DEF Unlink, Inv, Known, Plan
    <2>2. record' = record /\ published' = published /\ doc' = [doc EXCEPT ![i] = 0]
      BY <1>0, <1>3 DEF Unlink, names
    <2> QED
      BY <1>a, <1>1, <2>1, <2>2 DEF Secret
  <1>4. ASSUME WriteRefreshed(c) PROVE Ledger!Next
    <2>1. i \in record.enabled \cap Managed /\ i \in record.members /\ doc[i] < call[c].raw
      BY <1>0, <1>4 DEF WriteRefreshed, Inv, Known, Plan, RecordKept, ValidRecord, Tokens,
                        Token, Refreshing, Rotated
    <2>2. record' = record /\ published' = published /\ doc' = [doc EXCEPT ![i] = call[c].raw]
      BY <1>0, <1>4 DEF WriteRefreshed, names
    <2>3. /\ Secret(i)' = call[c].raw /\ Secret(i) = doc[i]
          /\ \A j \in Ids : j # i => Secret(j)' = Secret(j)
      BY <1>a, <2>1, <2>2 DEF Secret
    <2> DEFINE before == [j \in Ids |-> Secret(j)]
               after == [j \in Ids |-> Secret(j)']
    <2>4. after[i] = Secret(i)' /\ before[i] = Secret(i) /\ after = [before EXCEPT ![i] = after[i]]
      BY <2>3
    <2>5. after[i] > before[i]
      BY <1>a, <2>1, <2>3, <2>4
    <2>6. Ledger!Rotate(i)
      BY <2>1, <2>2, <2>4, <2>5 DEF Ledger!Rotate, Secret
    <2> QED
      BY <2>6 DEF Ledger!Next
  <1>5. ASSUME Published(c) \/ Fail(c) PROVE UNCHANGED Ledger!vars
    BY <1>5 DEF Published, Fail, files, names, Ledger!vars
  <1> QED
    BY <1>2, <1>3, <1>4, <1>5, CommitIsLedgerStep DEF Effect

\* With files, locks and crashes hidden, every behaviour of the store is one of
\* the ledger: each change of the record, of its Profiles' documents included, is
\* one atomic change of the current state.
THEOREM StoreImplementsLedger == MaxStalls = 0 => (Spec => ImplementsLedger)
  <1>1. Init => Ledger!Init
    BY SameEdits DEF Init, Ledger!Init, Absent, Ledger!Absent
  <1>2. ASSUME Inv, [Next]_vars PROVE [Ledger!Next]_Ledger!vars
    <2>1. ASSUME UNCHANGED <<record, doc, published>> PROVE UNCHANGED Ledger!vars
      BY <2>1 DEF Ledger!vars
    <2> QED
      BY <1>2, <2>1, TypeStep, OnlyEffects, EffectIsLedgerStep DEF Inv
  <1> QED
    BY <1>1, <1>2, Invariance, PTL DEF Spec, ImplementsLedger, Ledger!Spec

=============================================================================
