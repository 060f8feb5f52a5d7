----------------------------- MODULE SessionState -----------------------------
(***************************************************************************)
(* The response checkpoints of one Responses handler                       *)
(* (protocols/openai-responses/session-state.ts).  A checkpoint extends    *)
(* its parent, so the live ones form a forest; expanding a                 *)
(* previous_response_id walks from a checkpoint to its root.  The forest   *)
(* is bounded in entries, history and age, and the part of it that may be  *)
(* persisted is written to a snapshot file by a debounced, serialised,     *)
(* fallible writer.  A crash keeps only the file.                          *)
(*                                                                         *)
(* createdAt is kept as an age.  JavaScript runs each of remember, the     *)
(* timer callback and the parts of writeSnapshot between awaits without    *)
(* interruption, so each is one step.                                      *)
(***************************************************************************)
EXTENDS Naturals, FiniteSets, Functions

CONSTANTS Ids, Root,        \* response ids; parentResponseId === null
          Policy,           \* storeFalsePolicy
          Sizes,            \* sizes a checkpoint's own items can have
          MaxEntries,       \* MAX_RESPONSE_STATE_ENTRIES
          MaxHistory,       \* MAX_HISTORY_BYTES (and items), in units of size
          MaxSnapshot,      \* MAX_SNAPSHOT_FILE_BYTES, in the same units
          Ttl,              \* ENTRY_TTL_MS, in units of age
          MaxQueue          \* bound: calls of writeSnapshot at one time

ASSUME SessionAssumption ==
  /\ Root \notin Ids /\ IsFiniteSet(Ids)
  /\ Policy \in {"honor", "memory", "persist"}
  /\ Sizes \subseteq Nat \ {0}
  /\ MaxEntries \in Nat \ {0} /\ MaxHistory \in Nat /\ MaxSnapshot \in Nat
  /\ Ttl \in Nat /\ MaxQueue \in Nat \ {0}

VARIABLES
  states,     \* the live checkpoints: a function on their ids
  loaded,     \* whether the snapshot has been read since the process started
  timer,      \* debounce timer: "off", "reset" or "due"
  queue,      \* calls of writeSnapshot that have not released their gate
  body,       \* the snapshot being written, NoBody between writes
  moved,      \* stateRevision has changed since body was taken
  disk,       \* the snapshot file
  flush,      \* the flush in progress: [on, left, ids], see below
  unwritten,  \* history: the latest writeSnapshot, or setting the file aside, failed
  promised,   \* history: live checkpoints that a flush has made durable
  traffic     \* whether clients still send responses

memory == <<states, loaded>>
writer == <<queue, body, moved>>
promise == <<flush, promised>>
vars == <<memory, timer, writer, disk, promise, unwritten, traffic>>

Node == [parent : Ids \cup {Root}, age : 0..Ttl + 1, size : Sizes, memoryOnly : BOOLEAN]
Forests == UNION {[S -> Node] : S \in SUBSET Ids}
Empty == [i \in {} |-> Root]
NoBody == [i \in {Root} |-> Root]

\* left: how many gates it still awaits; ids: what it is to make durable.
Flushes == [on : BOOLEAN, left : Nat, ids : SUBSET Ids]
NoFlush == [on |-> FALSE, left |-> 0, ids |-> {}]

IsForest(f) == DOMAIN f \subseteq Ids /\ \A i \in DOMAIN f : f[i] \in Node

TypeOK ==
  /\ IsForest(states) /\ IsForest(disk) /\ (body = NoBody \/ IsForest(body))
  /\ loaded \in BOOLEAN /\ moved \in BOOLEAN /\ traffic \in BOOLEAN
  /\ timer \in {"off", "reset", "due"}
  /\ queue \in 0..MaxQueue
  /\ flush \in Flushes /\ promised \subseteq Ids /\ unwritten \in BOOLEAN

Init ==
  /\ states = Empty /\ loaded = FALSE
  /\ timer = "off" /\ queue = 0 /\ body = NoBody /\ moved = FALSE
  /\ disk = Empty /\ flush = NoFlush /\ promised = {} /\ unwritten = FALSE
  /\ traffic = TRUE

-----------------------------------------------------------------------------
\* The forest.
Closed(f, S) == \A i \in S : f[i].parent \in S \cup {Root}

\* protectedAncestry: the least set of live checkpoints that holds X and, with
\* each checkpoint, its parent.
Ancestry(f, X) == {i \in DOMAIN f : \A S \in SUBSET DOMAIN f :
                                      X \subseteq S /\ Closed(f, S) => i \in S}

Leaves(f) == {i \in DOMAIN f : \A j \in DOMAIN f : f[j].parent # i}

Expired(f) == {i \in DOMAIN f : f[i].age > Ttl}

\* collectExpiredLeaves, to its fixpoint: what stays is what leads to a
\* checkpoint that is protected or has not expired.
Kept(f, protected) == Ancestry(f, protected \cup (DOMAIN f \ Expired(f)))

\* Mutant of OldestLeaves: the oldest checkpoint, with or without children.
OldestEntries(f, protected) ==
  LET candidates == DOMAIN f \ protected
  IN  {i \in candidates : \A j \in candidates : f[j].age <= f[i].age}

\* oldestUnprotectedLeaf: the map's order breaks ties, which is any of them here.
OldestLeaves(f, protected) ==
  LET candidates == Leaves(f) \ protected
  IN  {i \in candidates : \A j \in candidates : f[j].age <= f[i].age}

\* Sizes add up: each checkpoint brings as many units as it is large, and the
\* size of a set is the number of its units.
Units(f, S) == UNION {{i} \X (1..f[i].size) : i \in S}
Size(f, S) == Cardinality(Units(f, S))

Persistable(f) == {i \in DOMAIN f : ~f[i].memoryOnly}
Snapshot(f) == Restrict(f, Persistable(f))

\* Every walk along parents ends at a root: the parents are there, and every set
\* of checkpoints has one whose parent lies outside it.
Rooted(f) ==
  /\ Closed(f, DOMAIN f)
  /\ \A S \in (SUBSET DOMAIN f) \ {{}} : \E i \in S : f[i].parent \notin S

\* What loadSnapshot accepts as it is.
Loadable(f) == /\ Rooted(f) /\ Size(f, DOMAIN f) <= MaxSnapshot
               /\ Cardinality(DOMAIN f) <= MaxEntries

-----------------------------------------------------------------------------
\* Loading, on first use after the process started.
LoadSnapshot ==
  /\ Loadable(disk)
  /\ states' = disk
  /\ UNCHANGED <<disk, promised, unwritten>>

\* A file that is refused, or whose reading fails, is set aside if that can be
\* done, and the store starts empty.
Quarantine ==
  /\ states' = Empty /\ promised' = {}
  /\ disk' \in {disk, Empty} /\ unwritten' = (disk' # Empty)

Load ==
  /\ ~loaded /\ loaded' = TRUE
  /\ LoadSnapshot \/ Quarantine
  /\ UNCHANGED <<timer, writer, flush, traffic>>

-----------------------------------------------------------------------------
\* Snapshot writing.
SchedulePersist == timer' = "reset"

Elapse ==
  /\ timer = "reset" /\ timer' = "due"
  /\ UNCHANGED <<memory, writer, disk, promise, unwritten, traffic>>

\* The timer callback calls writeSnapshot, which queues behind earlier calls.
Fire ==
  /\ timer = "due" /\ timer' = "off"
  /\ queue < MaxQueue /\ queue' = queue + 1
  /\ UNCHANGED <<memory, body, moved, disk, promise, unwritten, traffic>>

TooLarge == Size(states, Persistable(states)) > MaxSnapshot

StartWrite ==
  /\ queue > 0 /\ body = NoBody /\ ~TooLarge
  /\ body' = Snapshot(states) /\ moved' = FALSE
  /\ UNCHANGED <<memory, timer, queue, disk, promise, unwritten, traffic>>

\* The gate opens for the next call, and for a flush that awaited this one.
Release ==
  /\ queue' = queue - 1 /\ body' = NoBody /\ moved' = FALSE
  /\ flush' = [flush EXCEPT !.left = IF @ > 0 THEN @ - 1 ELSE 0]

\* Mutant of FinishWrite: a completed write cancels the timer.
FinishWriteCancels ==
  /\ body # NoBody
  /\ disk' = body /\ unwritten' = FALSE /\ Release
  /\ timer' = "off"
  /\ UNCHANGED <<memory, promised, traffic>>

\* rename.  A change made meanwhile schedules another write.
FinishWrite ==
  /\ body # NoBody
  /\ disk' = body /\ unwritten' = FALSE /\ Release
  /\ IF moved THEN SchedulePersist ELSE UNCHANGED timer
  /\ UNCHANGED <<memory, promised, traffic>>

\* A write the disk refuses is swallowed; so is a snapshot beyond the size limit.
DropWrite ==
  /\ \/ body # NoBody
     \/ body = NoBody /\ queue > 0 /\ TooLarge
  /\ unwritten' = TRUE /\ Release
  /\ UNCHANGED <<memory, timer, disk, promised, traffic>>

-----------------------------------------------------------------------------
\* remember.  The handler admits response i, a child of the checkpoint the
\* request named, or a root.  Response ids are not reused.
FreshIds == Ids \ (DOMAIN states \cup DOMAIN disk \cup DOMAIN body \cup flush.ids \cup promised)

\* Anti-poisoning: the parent must be live and unexpired.
ParentAvailable(p) == p = Root \/ p \in DOMAIN states \ Expired(states)

Protected(p) == IF p = Root THEN {} ELSE Ancestry(states, {p})

HistoryFits(p, size) == size + Size(states, Protected(p)) <= MaxHistory

\* Mutant of MemoryOnly: a child follows its own request only.
MemoryOnlyByRequest(p, storeFalse) == storeFalse /\ Policy = "memory"

MemoryOnly(p, storeFalse) == \/ p # Root /\ states[p].memoryOnly
                             \/ storeFalse /\ Policy = "memory"

\* Room is made by at most one eviction, after the expired leaves have gone.
\* Without a victim the checkpoint is skipped: nothing had expired then either.
RoomFor(p) ==
  LET live == Restrict(states, Kept(states, Protected(p))) IN
  IF Cardinality(DOMAIN live) < MaxEntries THEN {live}
  ELSE {Restrict(live, DOMAIN live \ {v}) : v \in OldestLeaves(live, Protected(p))}

Admit(f, i, node) == [j \in DOMAIN f \cup {i} |-> IF j = i THEN node ELSE f[j]]

Remember(i, p, size, storeFalse) ==
  LET node == [parent |-> p, age |-> 0, size |-> size,
               memoryOnly |-> MemoryOnly(p, storeFalse)]
  IN
  /\ loaded /\ traffic /\ i \in FreshIds
  /\ ~(storeFalse /\ Policy = "honor")
  /\ ParentAvailable(p) /\ HistoryFits(p, size)
  /\ \E f \in RoomFor(p) :
       /\ states' = Admit(f, i, node)
       /\ promised' = promised \cap DOMAIN f
       /\ IF ~node.memoryOnly \/ Persistable(f) # Persistable(states)
          THEN SchedulePersist ELSE UNCHANGED timer
  /\ moved' = (body # NoBody)
  /\ UNCHANGED <<loaded, queue, body, disk, flush, unwritten, traffic>>

-----------------------------------------------------------------------------
\* Mutant of Flush: without a timer there is nothing to wait for.
FlushTimerOnly ==
  /\ ~flush.on
  /\ timer' = "off"
  /\ queue' = IF timer = "off" THEN queue ELSE queue + 1
  /\ queue' <= MaxQueue
  /\ flush' = [on |-> TRUE, left |-> IF timer = "off" THEN 0 ELSE queue', ids |-> Persistable(states)]
  /\ UNCHANGED <<memory, body, moved, disk, promised, unwritten, traffic>>

\* flush, at shutdown: write what is scheduled, or await the latest write.
Flush ==
  /\ ~flush.on
  /\ timer' = "off"
  /\ queue' = IF timer = "off" THEN queue ELSE queue + 1
  /\ queue' <= MaxQueue
  /\ flush' = [on |-> TRUE, left |-> queue', ids |-> Persistable(states)]
  /\ UNCHANGED <<memory, body, moved, disk, promised, unwritten, traffic>>

FlushReturns ==
  /\ flush.on /\ flush.left = 0
  /\ flush' = NoFlush
  /\ promised' = IF unwritten THEN promised
                 ELSE promised \cup (flush.ids \cap DOMAIN states)
  /\ UNCHANGED <<memory, timer, writer, disk, unwritten, traffic>>

\* A crash, or an exit after a flush: the file is all that remains.
Exit ==
  /\ loaded
  /\ states' = Empty /\ loaded' = FALSE /\ timer' = "off"
  /\ queue' = 0 /\ body' = NoBody /\ moved' = FALSE
  /\ flush' = NoFlush /\ unwritten' = FALSE
  /\ UNCHANGED <<disk, promised, traffic>>

\* Time passes.
Older(f) == [i \in DOMAIN f |-> [f[i] EXCEPT !.age = IF @ > Ttl THEN @ ELSE @ + 1]]

Age ==
  /\ states' = Older(states) /\ disk' = Older(disk)
  /\ body' = IF body = NoBody THEN NoBody ELSE Older(body)
  /\ <<states, disk, body>>' # <<states, disk, body>>
  /\ UNCHANGED <<loaded, timer, queue, moved, promise, unwritten, traffic>>

Quiesce ==
  /\ traffic /\ traffic' = FALSE
  /\ UNCHANGED <<memory, timer, writer, disk, promise, unwritten>>

Persisting == Elapse \/ Fire \/ StartWrite \/ FinishWrite \/ DropWrite

Remembers == \E i \in Ids, p \in Ids \cup {Root}, size \in Sizes, storeFalse \in BOOLEAN :
               Remember(i, p, size, storeFalse)

Next == Load \/ Persisting \/ Remembers \/ Flush \/ FlushReturns \/ Exit \/ Age \/ Quiesce

Spec == Init /\ [][Next]_vars

\* The event loop runs due timers and resumes settled promises; file operations
\* settle one way or the other.
FairSpec == Spec /\ WF_vars(Elapse) /\ WF_vars(Fire)
                 /\ WF_vars(StartWrite \/ FinishWrite \/ DropWrite)

-----------------------------------------------------------------------------
\* A checkpoint that is live can be expanded: whatever expiry and eviction have
\* removed, its history is complete, free of cycles and within the limit that
\* expand enforces; and the store stays within its capacity.
HistoryExpands ==
  /\ Rooted(states)
  /\ \A i \in DOMAIN states : Size(states, Ancestry(states, {i})) <= MaxHistory
  /\ Cardinality(DOMAIN states) <= MaxEntries

\* Every variable has its type, and the checkpoints in memory form a forest
\* whose branches can all be expanded.
ForestConsistent == TypeOK /\ HistoryExpands

\* "The module never writes a snapshot that the next process refuses to load":
\* memory-only checkpoints are left out and yet no parent is missing.
SnapshotLoads == Loadable(disk)

\* What a flush has written survives exits and crashes until it is evicted or
\* expires, unless reading the file fails; later snapshots never drop it.
FlushIsDurable == promised \subseteq DOMAIN disk

\* Once clients are quiet the file becomes what memory holds, and stays so:
\* no change is forgotten between the timer, a running write and a flush, unless
\* the latest write failed or a bad file could not be set aside.
FileCatchesUp ==
  <>[]~traffic => <>[](loaded => disk = Snapshot(states) \/ unwritten)
=============================================================================
