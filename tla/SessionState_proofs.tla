-------------------------- MODULE SessionState_proofs --------------------------
(***************************************************************************)
(* Proofs about SessionState, for any checkpoints, sizes and bounds.       *)
(*                                                                         *)
(* Three arguments: the forest stays a forest through expiry, eviction and *)
(* the filter of the snapshot; no branch of it grows beyond the limit that *)
(* admitted its newest checkpoint, because what is left of a history only  *)
(* shrinks; and a flush that counts gates waits for a body that holds what *)
(* it is to make durable.                                                  *)
(***************************************************************************)
EXTENDS SessionState, FiniteSetTheorems, TLAPS

\* The snapshot file and a body that is written have no memory-only checkpoint.
Written(f) == Rooted(f) /\ Persistable(f) = DOMAIN f

\* Every walk ends, and a child of a memory-only checkpoint is memory-only.
Rooting ==
  /\ Rooted(states) /\ Closed(states, Persistable(states))
  /\ Written(disk) /\ (body # NoBody => Written(body))

\* Nothing is scheduled, written or flushed before the snapshot has been read.
Unloaded ==
  /\ ~loaded => timer = "off" /\ queue = 0 /\ states = Empty /\ flush.ids = {}
  /\ body # NoBody => queue > 0

Flushing == flush.ids \cap DOMAIN states

\* What the flush awaits: a body that ends at its last gate, or later, was
\* taken when the checkpoints it is to make durable were there.
Gates ==
  /\ Flushing \subseteq Persistable(states)
  /\ timer = "off" /\ queue = 0 /\ ~unwritten => Persistable(states) \subseteq DOMAIN disk
  /\ timer = "off" /\ queue = 1 /\ body # NoBody => Persistable(states) \subseteq DOMAIN body
  /\ flush.on /\ flush.left = 0 /\ ~unwritten => Flushing \subseteq DOMAIN disk
  /\ flush.on /\ flush.left \in {0, 1} /\ body # NoBody => Flushing \subseteq DOMAIN body

Promised ==
  /\ FlushIsDurable /\ (loaded => promised \subseteq Persistable(states))
  /\ body # NoBody => promised \subseteq DOMAIN body

\* What a store within its limits holds.
Within(f) ==
  /\ \A i \in DOMAIN f : f[i].size <= MaxHistory /\ Size(f, Ancestry(f, {i})) <= MaxHistory
  /\ Cardinality(DOMAIN f) <= MaxEntries

\* Memory is within its limits, and so is everything that is or will be a file,
\* which the size limit of a file binds besides.
Bounded ==
  /\ Within(states)
  /\ Within(disk) /\ Size(disk, DOMAIN disk) <= MaxSnapshot
  /\ body # NoBody => Within(body) /\ Size(body, DOMAIN body) <= MaxSnapshot

Inv == TypeOK /\ Rooting /\ Unloaded /\ Gates /\ Promised /\ Bounded

-----------------------------------------------------------------------------
\* Forests.
LEMMA AncestryIsClosed ==
  ASSUME NEW f, NEW X, Closed(f, DOMAIN f)
  PROVE  /\ Ancestry(f, X) \subseteq DOMAIN f /\ X \cap DOMAIN f \subseteq Ancestry(f, X)
         /\ Closed(f, Ancestry(f, X))
  <1>1. Ancestry(f, X) \subseteq DOMAIN f /\ X \cap DOMAIN f \subseteq Ancestry(f, X)
    BY DEF Ancestry
  <1>2. ASSUME NEW i \in Ancestry(f, X), f[i].parent # Root
        PROVE  f[i].parent \in Ancestry(f, X)
    <2>1. f[i].parent \in DOMAIN f
      BY <1>1, <1>2 DEF Closed
    <2>2. ASSUME NEW S \in SUBSET DOMAIN f, X \subseteq S, Closed(f, S)
          PROVE  f[i].parent \in S
      BY <1>2, <2>2 DEF Ancestry, Closed
    <2> QED
      BY <2>1, <2>2 DEF Ancestry
  <1> QED
    BY <1>1, <1>2 DEF Closed

LEMMA RestrictRooted ==
  ASSUME NEW f, NEW S \in SUBSET DOMAIN f, Rooted(f), Closed(f, S)
  PROVE  /\ Rooted(Restrict(f, S)) /\ DOMAIN Restrict(f, S) = S
         /\ \A i \in S : Restrict(f, S)[i] = f[i]
  BY DEF Rooted, Closed, Restrict

LEMMA AdmitRooted ==
  ASSUME NEW f, NEW i, i \notin DOMAIN f, i # Root, NEW node, Rooted(f),
         node.parent \in DOMAIN f \cup {Root}
  PROVE  Rooted(Admit(f, i, node))
  <1> DEFINE g == Admit(f, i, node)
  <1>1. /\ DOMAIN g = DOMAIN f \cup {i} /\ g[i] = node
        /\ \A j \in DOMAIN f : g[j] = f[j] /\ f[j].parent # i
    BY DEF Admit, Rooted, Closed
  <1>2. Closed(g, DOMAIN g)
    BY <1>1 DEF Closed, Rooted
  <1>3. ASSUME NEW S \in (SUBSET DOMAIN g) \ {{}}
        PROVE  \E j \in S : g[j].parent \notin S
    <2>1. CASE S \subseteq {i}
      BY <1>1, <2>1
    <2>2. CASE ~(S \subseteq {i})
      <3>1. S \ {i} \in (SUBSET DOMAIN f) \ {{}}
        BY <1>1, <2>2
      <3>2. PICK j \in S \ {i} : f[j].parent \notin S \ {i}
        BY <3>1 DEF Rooted
      <3> QED
        BY <1>1, <3>1, <3>2
    <2> QED
      BY <2>1, <2>2
  <1> QED
    BY <1>2, <1>3 DEF Rooted

LEMMA OlderForest ==
  ASSUME NEW f, IsForest(f)
  PROVE  /\ IsForest(Older(f)) /\ DOMAIN Older(f) = DOMAIN f /\ Persistable(Older(f)) = Persistable(f)
         /\ \A i \in DOMAIN f : Older(f)[i].parent = f[i].parent
  <1>1. ASSUME NEW i \in DOMAIN f
        PROVE  /\ Older(f)[i] \in Node /\ Older(f)[i].parent = f[i].parent
               /\ Older(f)[i].memoryOnly = f[i].memoryOnly
    BY SessionAssumption DEF IsForest, Older, Node
  <1> QED
    BY <1>1 DEF IsForest, Older, Persistable

LEMMA SameShape ==
  ASSUME NEW f, NEW g, DOMAIN g = DOMAIN f, \A i \in DOMAIN f : g[i].parent = f[i].parent
  PROVE  /\ Rooted(f) => Rooted(g)
         /\ \A S \in SUBSET DOMAIN f : Closed(f, S) => Closed(g, S)
  BY DEF Rooted, Closed

LEMMA EmptyForest ==
  /\ IsForest(Empty) /\ Rooted(Empty) /\ DOMAIN Empty = {} /\ Persistable(Empty) = {}
  /\ Written(Empty) /\ Closed(Empty, {})
  BY DEF IsForest, Rooted, Closed, Empty, Persistable, Written

-----------------------------------------------------------------------------
\* Sizes.
LEMMA UnitsFinite ==
  ASSUME NEW f, IsForest(f), \A i \in DOMAIN f : f[i].size <= MaxHistory,
         NEW S \in SUBSET DOMAIN f
  PROVE  IsFiniteSet(Units(f, S)) /\ Size(f, S) \in Nat
  <1>1. IsFiniteSet(S) /\ IsFiniteSet(1..MaxHistory)
    <2>1. S \in SUBSET Ids
      BY DEF IsForest
    <2> QED
      BY <2>1, FS_Subset, FS_Interval, SessionAssumption
  <1>2. IsFiniteSet(S \X (1..MaxHistory))
    BY <1>1, FS_Product
  <1>3. Units(f, S) \in SUBSET (S \X (1..MaxHistory))
    <2>1. ASSUME NEW i \in S, NEW k \in 1..f[i].size
          PROVE  k \in 1..MaxHistory
      <3>1. f[i].size \in Nat /\ f[i].size <= MaxHistory
        BY SessionAssumption DEF IsForest, Node
      <3> QED
        BY <3>1, SessionAssumption
    <2> QED
      BY <2>1 DEF Units
  <1>4. IsFiniteSet(Units(f, S))
    BY <1>2, <1>3, FS_Subset
  <1> QED
    BY <1>4, FS_CardinalityType DEF Size

LEMMA SmallerSize ==
  ASSUME NEW f, NEW g, NEW S, NEW T, S \subseteq T, \A i \in S : g[i].size = f[i].size,
         IsFiniteSet(Units(f, T))
  PROVE  Size(g, S) <= Size(f, T) /\ Size(g, S) \in Nat
  <1>1. Units(g, S) \in SUBSET Units(f, T)
    BY DEF Units
  <1>2. IsFiniteSet(Units(g, S)) /\ Cardinality(Units(g, S)) <= Cardinality(Units(f, T))
    BY <1>1, FS_Subset
  <1> QED
    BY <1>2, FS_CardinalityType DEF Size

\* A checkpoint's history is what it was, or less, where the checkpoints that
\* lead to a root have kept their parents.
LEMMA AncestryShrinks ==
  ASSUME NEW f, NEW g, NEW S, S \subseteq DOMAIN f, S \subseteq DOMAIN g, Closed(f, S),
         \A i \in S : g[i].parent = f[i].parent, NEW i \in S
  PROVE  Ancestry(g, {i}) \subseteq Ancestry(f, {i}) /\ Ancestry(g, {i}) \subseteq S
  <1>1. ASSUME NEW T \in SUBSET DOMAIN f, i \in T, Closed(f, T)
        PROVE  Ancestry(g, {i}) \subseteq T \cap S
    <2>1. T \cap S \in SUBSET DOMAIN g /\ {i} \subseteq T \cap S /\ Closed(g, T \cap S)
      BY <1>1 DEF Closed
    <2> QED
      BY <2>1 DEF Ancestry
  <1>2. Ancestry(g, {i}) \subseteq S
    BY <1>1
  <1>3. ASSUME NEW j \in Ancestry(g, {i})
        PROVE  j \in Ancestry(f, {i})
    BY <1>1, <1>2 DEF Ancestry
  <1> QED
    BY <1>2, <1>3

\* What is left of a store within its limits is within them.
LEMMA KeepsWithin ==
  ASSUME NEW f, IsForest(f), Within(f), NEW g, DOMAIN g \subseteq DOMAIN f, Closed(f, DOMAIN g),
         \A i \in DOMAIN g : g[i].parent = f[i].parent /\ g[i].size = f[i].size
  PROVE  Within(g)
  <1>1. ASSUME NEW i \in DOMAIN g
        PROVE  Size(g, Ancestry(g, {i})) <= MaxHistory
    <2>1. PICK A : A = Ancestry(f, {i})
      OBVIOUS
    <2>2. PICK B : B = Ancestry(g, {i})
      OBVIOUS
    <2>3. B \subseteq A /\ B \subseteq DOMAIN g
      BY <2>1, <2>2, AncestryShrinks
    <2>4. A \in SUBSET DOMAIN f
      BY <2>1 DEF Ancestry
    <2>5. IsFiniteSet(Units(f, A)) /\ Size(f, A) \in Nat
      BY <2>4, UnitsFinite DEF Within
    <2>6. Size(g, B) <= Size(f, A) /\ Size(g, B) \in Nat
      BY <2>3, <2>5, SmallerSize
    <2>7. Size(f, A) <= MaxHistory
      BY <2>1 DEF Within
    <2> QED
      BY <2>2, <2>5, <2>6, <2>7, SessionAssumption
  <1>2. Cardinality(DOMAIN g) <= MaxEntries
    <2>1. IsFiniteSet(DOMAIN f)
      BY FS_Subset, SessionAssumption DEF IsForest
    <2>2. /\ Cardinality(DOMAIN g) <= Cardinality(DOMAIN f)
          /\ Cardinality(DOMAIN g) \in Nat /\ Cardinality(DOMAIN f) \in Nat
      BY <2>1, FS_Subset, FS_CardinalityType
    <2> QED
      BY <2>2, SessionAssumption DEF Within
  <1> QED
    BY <1>1, <1>2 DEF Within

LEMMA EmptyWithin == Within(Empty) /\ Size(Empty, DOMAIN Empty) <= MaxSnapshot
  <1>1. Cardinality({}) = 0
    BY FS_EmptySet
  <1>2. Units(Empty, {}) = {}
    BY DEF Units
  <1>3. Size(Empty, DOMAIN Empty) = 0 /\ Cardinality(DOMAIN Empty) = 0
    BY <1>1, <1>2, EmptyForest DEF Size
  <1>4. 0 <= MaxSnapshot /\ 0 <= MaxEntries
    BY SessionAssumption
  <1> QED
    BY <1>3, <1>4, EmptyForest DEF Within

LEMMA SameBounded ==
  ASSUME Bounded, UNCHANGED <<states, disk, body>>
  PROVE  Bounded'
  BY DEF Bounded

-----------------------------------------------------------------------------
LEMMA InitInv == Init => Inv
  <1> SUFFICES ASSUME Init PROVE Inv
    OBVIOUS
  <1>1. TypeOK
    <2>1. NoFlush \in Flushes
      BY DEF NoFlush, Flushes
    <2>2. queue \in 0..MaxQueue
      BY SessionAssumption DEF Init
    <2> QED
      BY <2>1, <2>2, EmptyForest DEF Init, TypeOK
  <1>2. Rooting /\ Unloaded
    BY EmptyForest DEF Init, Rooting, Unloaded, NoFlush
  <1>3. Gates /\ Promised
    BY EmptyForest DEF Init, Gates, Promised, NoFlush, Flushing, FlushIsDurable
  <1>4. Bounded
    BY EmptyWithin DEF Init, Bounded
  <1> QED
    BY <1>1, <1>2, <1>3, <1>4 DEF Inv
-----------------------------------------------------------------------------
\* Loading.
LEMMA LoadInv ==
  ASSUME Inv, Load
  PROVE  Inv'
  <1>0. /\ TypeOK /\ ~loaded /\ loaded' = TRUE /\ timer = "off" /\ queue = 0 /\ body = NoBody
        /\ flush.ids = {}
        /\ UNCHANGED <<timer, queue, body, moved, flush, traffic>>
    BY DEF Inv, Load, Unloaded, writer, TypeOK
  <1>1. CASE LoadSnapshot
    <2>1. states' = disk /\ UNCHANGED <<disk, promised, unwritten>>
      BY <1>1 DEF LoadSnapshot
    <2>2. TypeOK'
      BY <1>0, <2>1 DEF TypeOK, IsForest
    <2>3. Rooting' /\ Unloaded'
      BY <1>0, <2>1 DEF Inv, Rooting, Written, Unloaded, Rooted, Persistable
    <2>4. Gates' /\ Promised'
      BY <1>0, <2>1 DEF Inv, Rooting, Written, Gates, Flushing, Promised, FlushIsDurable, Persistable
    <2>5. Bounded'
      BY <1>0, <2>1 DEF Inv, Bounded
    <2> QED
      BY <2>2, <2>3, <2>4, <2>5 DEF Inv
  <1>2. CASE Quarantine
    <2>1. /\ states' = Empty /\ promised' = {} /\ disk' \in {disk, Empty}
          /\ unwritten' \in BOOLEAN
      BY <1>2 DEF Quarantine
    <2>2. TypeOK'
      BY <1>0, <2>1, EmptyForest DEF TypeOK, IsForest
    <2>3. Rooting' /\ Unloaded'
      BY <1>0, <2>1, EmptyForest DEF Inv, Rooting, Written, Unloaded, Persistable
    <2>4. Gates' /\ Promised'
      BY <1>0, <2>1, EmptyForest DEF Gates, Flushing, Promised, FlushIsDurable, Persistable
    <2>5. Bounded'
      BY <1>0, <2>1, EmptyWithin DEF Inv, Bounded
    <2> QED
      BY <2>2, <2>3, <2>4, <2>5 DEF Inv
  <1> QED
    BY <1>1, <1>2 DEF Load

-----------------------------------------------------------------------------
\* The writer.
LEMMA TimerInv ==
  ASSUME Inv, Elapse \/ Fire
  PROVE  Inv'
  <1>1. /\ TypeOK
        /\ UNCHANGED <<states, loaded, body, moved, disk, flush, promised, unwritten, traffic>>
        /\ \/ timer = "reset" /\ timer' = "due" /\ queue' = queue
           \/ timer = "due" /\ timer' = "off" /\ queue' = queue + 1 /\ queue < MaxQueue
    BY DEF Inv, Elapse, Fire, memory, writer, promise
  <1>2. TypeOK'
    BY <1>1, SessionAssumption DEF TypeOK, IsForest
  <1>3. Rooting' /\ Unloaded'
    BY <1>1 DEF Inv, TypeOK, Rooting, Written, Unloaded, Persistable
  <1>4. Gates' /\ Promised'
    BY <1>1 DEF Inv, TypeOK, Unloaded, Gates, Flushing, Promised, FlushIsDurable, Persistable
  <1>5. Bounded'
    BY <1>1, SameBounded DEF Inv
  <1> QED
    BY <1>2, <1>3, <1>4, <1>5 DEF Inv

LEMMA SnapshotIsWritten ==
  ASSUME Rooting, IsForest(states)
  PROVE  /\ Written(Snapshot(states)) /\ IsForest(Snapshot(states))
         /\ DOMAIN Snapshot(states) = Persistable(states)
  <1> DEFINE S == Persistable(states)
  <1>1. S \in SUBSET DOMAIN states /\ Closed(states, S) /\ Rooted(states)
    BY DEF Rooting, Persistable
  <1>2. /\ Rooted(Snapshot(states)) /\ DOMAIN Snapshot(states) = S
        /\ \A i \in S : Snapshot(states)[i] = states[i]
    BY <1>1, RestrictRooted DEF Snapshot
  <1> QED
    BY <1>1, <1>2 DEF Written, Persistable, IsForest

LEMMA SnapshotWithin ==
  ASSUME Rooting, Within(states), IsForest(states), ~TooLarge
  PROVE  /\ Within(Snapshot(states))
         /\ Size(Snapshot(states), DOMAIN Snapshot(states)) <= MaxSnapshot
  <1>1. PICK g : g = Snapshot(states)
    OBVIOUS
  <1>2. PICK S : S = Persistable(states)
    OBVIOUS
  <1>3. DOMAIN g = S /\ \A i \in S : g[i] = states[i]
    BY <1>1, <1>2 DEF Snapshot, Restrict
  <1>4. S \in SUBSET DOMAIN states /\ Closed(states, S)
    BY <1>2 DEF Rooting, Persistable
  <1>5. Within(g)
    BY <1>3, <1>4, KeepsWithin
  <1>6. IsFiniteSet(Units(states, S)) /\ Size(states, S) \in Nat
    BY <1>4, UnitsFinite DEF Within
  <1>7. Size(g, S) <= Size(states, S) /\ Size(g, S) \in Nat
    BY <1>3, <1>6, SmallerSize
  <1>8. Size(states, S) <= MaxSnapshot
    BY <1>2, <1>6, SessionAssumption DEF TooLarge
  <1> QED
    BY <1>1, <1>3, <1>5, <1>6, <1>7, <1>8, SessionAssumption

LEMMA StartWriteInv ==
  ASSUME Inv, StartWrite
  PROVE  Inv'
  <1>1. /\ TypeOK /\ queue > 0 /\ body = NoBody /\ body' = Snapshot(states) /\ moved' = FALSE
        /\ UNCHANGED <<states, loaded, timer, queue, disk, flush, promised, unwritten, traffic>>
    BY DEF Inv, StartWrite, memory, promise
  <1>2. /\ Written(body') /\ IsForest(body') /\ DOMAIN body' = Persistable(states) /\ loaded
    BY <1>1, SnapshotIsWritten DEF Inv, TypeOK, Unloaded
  <1>3. TypeOK'
    BY <1>1, <1>2 DEF TypeOK, IsForest
  <1>4. Rooting' /\ Unloaded'
    BY <1>1, <1>2 DEF Inv, TypeOK, Rooting, Written, Unloaded, Persistable
  <1>5. Gates' /\ Promised'
    BY <1>1, <1>2 DEF Inv, Gates, Flushing, Promised, FlushIsDurable, Persistable
  <1>6. Bounded'
    BY <1>1, SnapshotWithin DEF Inv, Bounded, StartWrite, TypeOK
  <1> QED
    BY <1>3, <1>4, <1>5, <1>6 DEF Inv

\* A write ends, and the next gate opens.
LEMMA EndWriteInv ==
  ASSUME Inv, FinishWrite \/ DropWrite
  PROVE  Inv'
  <1>1. /\ TypeOK /\ UNCHANGED <<states, loaded, promised, traffic>>
        /\ queue > 0 /\ queue' = queue - 1 /\ body' = NoBody /\ moved' = FALSE
    BY DEF Inv, FinishWrite, DropWrite, Release, memory, TypeOK, Unloaded
  <1>2. /\ flush' \in Flushes /\ flush'.on = flush.on /\ flush'.ids = flush.ids
        /\ flush'.left = IF flush.left > 0 THEN flush.left - 1 ELSE 0
    BY <1>1 DEF FinishWrite, DropWrite, Release, TypeOK, Flushes
  <1>3. \/ /\ body # NoBody /\ disk' = body /\ unwritten' = FALSE
           /\ timer' \in {timer, "reset"}
        \/ unwritten' = TRUE /\ UNCHANGED <<timer, disk>>
    <2>1. CASE FinishWrite
      BY <2>1 DEF FinishWrite, SchedulePersist
    <2>2. CASE DropWrite
      BY <2>2 DEF DropWrite
    <2> QED
      BY <2>1, <2>2
  <1>4. TypeOK'
    <2>1. timer' \in {"off", "reset", "due"}
      BY <1>1, <1>3 DEF TypeOK
    <2>2. queue' \in 0..MaxQueue
      BY <1>1, SessionAssumption DEF TypeOK
    <2>3. unwritten' \in BOOLEAN
      BY <1>3
    <2>4. IsForest(disk') /\ IsForest(states')
      BY <1>1, <1>3 DEF TypeOK, IsForest
    <2> QED
      BY <1>1, <1>2, <2>1, <2>2, <2>3, <2>4 DEF TypeOK
  <1>5. Rooting' /\ Unloaded'
    <2>1. Written(disk')
      BY <1>3 DEF Inv, Rooting, Written, Persistable, Rooted
    <2>2. Rooted(states') /\ Closed(states', Persistable(states'))
      BY <1>1 DEF Inv, Rooting, Rooted, Persistable
    <2>3. loaded
      BY <1>1 DEF Inv, Unloaded
    <2> QED
      BY <1>1, <2>1, <2>2, <2>3 DEF Rooting, Unloaded
  <1>6. Gates' /\ Promised'
    BY <1>1, <1>2, <1>3
    DEF Inv, TypeOK, Flushes, Gates, Flushing, Promised, FlushIsDurable, Persistable
  <1>7. Bounded'
    BY <1>1, <1>3 DEF Inv, Bounded
  <1> QED
    BY <1>4, <1>5, <1>6, <1>7 DEF Inv
-----------------------------------------------------------------------------
\* A new checkpoint.
LEMMA RoomIsForest ==
  ASSUME Inv, NEW p \in Ids \cup {Root}, ParentAvailable(p), NEW f \in RoomFor(p)
  PROVE  \E S \in SUBSET DOMAIN states :
           Closed(states, S) /\ f = Restrict(states, S) /\ (p # Root => p \in S)
  <1>1. /\ Rooted(states) /\ Closed(states, DOMAIN states)
        /\ p # Root => p \in DOMAIN states /\ Protected(p) = Ancestry(states, {p})
    BY DEF Inv, Rooting, Rooted, ParentAvailable, Protected
  <1>2. p # Root => p \in Protected(p)
    BY <1>1, AncestryIsClosed
  <1>3. PICK K : K = Kept(states, Protected(p))
    OBVIOUS
  <1>4. K \in SUBSET DOMAIN states /\ Closed(states, K) /\ (p # Root => p \in K)
    <2>1. /\ K \subseteq DOMAIN states /\ Closed(states, K)
          /\ Protected(p) \cap DOMAIN states \subseteq K
      BY <1>1, <1>3, AncestryIsClosed DEF Kept
    <2> QED
      BY <1>1, <1>2, <2>1
  <1>5. PICK live : live = Restrict(states, K)
    OBVIOUS
  <1>6. \/ f = live
        \/ \E v \in OldestLeaves(live, Protected(p)) : f = Restrict(live, DOMAIN live \ {v})
    BY <1>3, <1>5 DEF RoomFor
  <1>7. CASE f = live
    BY <1>4, <1>5, <1>7
  <1>8. ASSUME NEW v \in OldestLeaves(live, Protected(p)), f = Restrict(live, DOMAIN live \ {v})
        PROVE  \E S \in SUBSET DOMAIN states :
                 Closed(states, S) /\ f = Restrict(states, S) /\ (p # Root => p \in S)
    <2>1. v \notin Protected(p) /\ \A j \in K : Restrict(states, K)[j].parent # v
      <3>1. DOMAIN live = K
        BY <1>5 DEF Restrict
      <3>2. v \in Leaves(live) /\ v \notin Protected(p)
        BY DEF OldestLeaves
      <3>3. \A j \in DOMAIN live : live[j].parent # v
        BY <3>2 DEF Leaves
      <3> QED
        BY <1>5, <3>1, <3>2, <3>3
    <2>2. Closed(states, K \ {v}) /\ f = Restrict(states, K \ {v})
      <3>1. \A j \in K : live[j] = states[j]
        BY <1>5 DEF Restrict
      <3>2. Closed(states, K \ {v})
        BY <1>4, <1>5, <2>1, <3>1 DEF Closed
      <3>3. Restrict(live, DOMAIN live \ {v}) = Restrict(states, K \ {v})
        BY <1>5 DEF Restrict
      <3> QED
        BY <1>8, <3>2, <3>3
    <2>3. /\ K \ {v} \in SUBSET DOMAIN states
          /\ p # Root => p \in K \ {v}
      BY <1>2, <1>4, <2>1
    <2> QED
      BY <2>2, <2>3
  <1> QED
    BY <1>6, <1>7, <1>8

\* The new checkpoint takes a place that was free or has been made.
LEMMA RoomHasRoom ==
  ASSUME IsForest(states), Within(states), NEW p, NEW f \in RoomFor(p)
  PROVE  Cardinality(DOMAIN f) < MaxEntries
  <1>1. PICK K : K = Kept(states, Protected(p))
    OBVIOUS
  <1>2. PICK live : live = Restrict(states, K)
    OBVIOUS
  <1>3. DOMAIN live = K /\ K \in SUBSET DOMAIN states
    BY <1>1, <1>2 DEF Restrict, Kept, Ancestry
  <1>4. IsFiniteSet(DOMAIN states) /\ IsFiniteSet(K)
    BY <1>3, FS_Subset, SessionAssumption DEF IsForest
  <1>5. /\ Cardinality(K) \in Nat /\ Cardinality(DOMAIN states) \in Nat
        /\ Cardinality(K) <= Cardinality(DOMAIN states)
    BY <1>3, <1>4, FS_Subset, FS_CardinalityType
  <1>6. Cardinality(K) <= MaxEntries
    BY <1>5, SessionAssumption DEF Within
  <1>7. CASE Cardinality(K) < MaxEntries
    BY <1>1, <1>2, <1>3, <1>7 DEF RoomFor
  <1>8. CASE ~(Cardinality(K) < MaxEntries)
    <2>1. PICK v \in OldestLeaves(live, Protected(p)) : f = Restrict(live, K \ {v})
      BY <1>1, <1>2, <1>3, <1>8 DEF RoomFor
    <2>2. v \in K
      BY <1>3 DEF OldestLeaves, Leaves
    <2>3. Cardinality(K \ {v}) = Cardinality(K) - 1
      BY <1>4, <2>2, FS_RemoveElement
    <2>4. DOMAIN f = K \ {v}
      BY <2>1 DEF Restrict
    <2> QED
      BY <1>5, <1>6, <2>3, <2>4, SessionAssumption
  <1> QED
    BY <1>7, <1>8

\* The history of the new checkpoint is its parent's and itself, and that of no
\* other checkpoint has grown.
LEMMA AdmitWithin ==
  ASSUME IsForest(states), Rooted(states), Within(states),
         NEW p \in Ids \cup {Root}, NEW i, i \notin DOMAIN states, i # Root,
         NEW f \in RoomFor(p), NEW S \in SUBSET DOMAIN states,
         Closed(states, S), f = Restrict(states, S), p # Root => p \in S,
         NEW node \in Node, node.parent = p, HistoryFits(p, node.size)
  PROVE  Within(Admit(f, i, node))
  <1>1. PICK g : g = Admit(f, i, node)
    OBVIOUS
  <1>2. /\ DOMAIN f = S /\ \A j \in S : f[j] = states[j]
        /\ DOMAIN g = S \cup {i} /\ g[i] = node
        /\ \A j \in S : g[j] = states[j]
    BY <1>1 DEF Restrict, Admit
  <1>3. PICK P : P = Protected(p)
    OBVIOUS
  <1>4. P \in SUBSET DOMAIN states
    BY <1>3 DEF Protected, Ancestry
  <1>5. /\ IsFiniteSet(Units(states, P)) /\ Size(states, P) \in Nat
        /\ node.size \in Nat /\ node.size + Size(states, P) <= MaxHistory
    BY <1>3, <1>4, UnitsFinite, SessionAssumption DEF Within, Node, HistoryFits
  <1>6. \A j \in DOMAIN g : g[j].size <= MaxHistory
    <2>1. node.size <= MaxHistory
      BY <1>5, SessionAssumption
    <2> QED
      BY <1>2, <2>1 DEF Within
  <1>7. ASSUME NEW j \in S
        PROVE  Size(g, Ancestry(g, {j})) <= MaxHistory
    <2>1. PICK A : A = Ancestry(states, {j})
      OBVIOUS
    <2>2. PICK B : B = Ancestry(g, {j})
      OBVIOUS
    <2>3. B \subseteq A /\ B \subseteq S
      BY <1>2, <2>1, <2>2, AncestryShrinks
    <2>4. A \in SUBSET DOMAIN states
      BY <2>1 DEF Ancestry
    <2>5. IsFiniteSet(Units(states, A)) /\ Size(states, A) \in Nat
      BY <2>4, UnitsFinite DEF Within
    <2>6. Size(g, B) <= Size(states, A) /\ Size(g, B) \in Nat
      BY <1>2, <2>3, <2>5, SmallerSize
    <2>7. Size(states, A) <= MaxHistory
      BY <2>1 DEF Within
    <2> QED
      BY <2>2, <2>5, <2>6, <2>7, SessionAssumption
  <1>8. Size(g, Ancestry(g, {i})) <= MaxHistory
    <2>1. PICK B : B = Ancestry(g, {i})
      OBVIOUS
    <2>2. B \subseteq {i} \cup (P \cap S)
      <3>1. Closed(states, P \cap S) /\ (p # Root => p \in P \cap S)
        <4>1. CASE p = Root
          BY <1>3, <4>1 DEF Protected, Closed
        <4>2. CASE p # Root
          <5>1. P = Ancestry(states, {p}) /\ p \in DOMAIN states
            BY <1>3, <4>2 DEF Protected
          <5>2. Closed(states, P) /\ p \in P
            BY <5>1, AncestryIsClosed DEF Rooted
          <5> QED
            BY <4>2, <5>2 DEF Closed
        <4> QED
          BY <4>1, <4>2
      <3>2. PICK T : T = {i} \cup (P \cap S)
        OBVIOUS
      <3>3. T \in SUBSET DOMAIN g /\ {i} \subseteq T
        BY <1>2, <3>2
      <3>4. Closed(g, T)
        BY <1>2, <3>1, <3>2 DEF Closed
      <3>5. Ancestry(g, {i}) \subseteq T
        BY <3>3, <3>4 DEF Ancestry
      <3> QED
        BY <2>1, <3>2, <3>5
    <2>3. Units(g, B) \subseteq ({i} \X (1..node.size)) \cup Units(states, P)
      BY <1>2, <2>2 DEF Units
    <2>4. /\ IsFiniteSet({i} \X (1..node.size))
          /\ Cardinality({i} \X (1..node.size)) = node.size
      <3>1. /\ IsFiniteSet({i}) /\ Cardinality({i}) = 1 /\ IsFiniteSet(1..node.size)
            /\ Cardinality(1..node.size) = node.size
        <4>1. 1 \in Int /\ node.size \in Int
          BY <1>5
        <4>2. /\ IsFiniteSet(1..node.size)
              /\ Cardinality(1..node.size) = IF 1 > node.size THEN 0 ELSE node.size - 1 + 1
          BY <4>1, FS_Interval
        <4>3. Cardinality(1..node.size) = node.size
          BY <1>5, <4>2
        <4> QED
          BY <4>2, <4>3, FS_Singleton
      <3>2. /\ IsFiniteSet({i} \X (1..node.size))
            /\ Cardinality({i} \X (1..node.size)) = 1 * node.size
        <4>1. PICK X : X = {i}
          OBVIOUS
        <4>2. PICK Y : Y = 1..node.size
          OBVIOUS
        <4>3. IsFiniteSet(X \X Y) /\ Cardinality(X \X Y) = Cardinality(X) * Cardinality(Y)
          BY <3>1, <4>1, <4>2, FS_Product
        <4> QED
          BY <3>1, <4>1, <4>2, <4>3
      <3> QED
        BY <1>5, <3>2
    <2>5. /\ IsFiniteSet(({i} \X (1..node.size)) \cup Units(states, P))
          /\ Cardinality(({i} \X (1..node.size)) \cup Units(states, P))
               <= node.size + Size(states, P)
      <3>1. PICK X : X = {i} \X (1..node.size)
        OBVIOUS
      <3>2. PICK Y : Y = Units(states, P)
        OBVIOUS
      <3>3. /\ IsFiniteSet(X) /\ IsFiniteSet(Y) /\ IsFiniteSet(X \cap Y)
            /\ Cardinality(X) = node.size /\ Cardinality(Y) = Size(states, P)
        BY <1>5, <2>4, <3>1, <3>2, FS_Subset DEF Size
      <3>4. /\ IsFiniteSet(X \cup Y) /\ Cardinality(X \cap Y) \in Nat
            /\ Cardinality(X \cup Y) = Cardinality(X) + Cardinality(Y) - Cardinality(X \cap Y)
        BY <3>3, FS_Union, FS_CardinalityType
      <3>5. Cardinality(X \cup Y) <= node.size + Size(states, P)
        BY <1>5, <3>3, <3>4
      <3> QED
        BY <3>1, <3>2, <3>4, <3>5
    <2>6. /\ Size(g, B) \in Nat
          /\ Size(g, B) <= Cardinality(({i} \X (1..node.size)) \cup Units(states, P))
          /\ Cardinality(({i} \X (1..node.size)) \cup Units(states, P)) \in Nat
      BY <2>3, <2>5, FS_Subset, FS_CardinalityType DEF Size
    <2> QED
      BY <1>5, <2>1, <2>5, <2>6, SessionAssumption
  <1>9. Cardinality(DOMAIN g) <= MaxEntries
    <2>1. IsFiniteSet(S) /\ Cardinality(S) \in Nat
      BY FS_Subset, FS_CardinalityType, SessionAssumption DEF IsForest
    <2>2. Cardinality(S) < MaxEntries
      BY <1>2, RoomHasRoom
    <2>3. Cardinality(S \cup {i}) = Cardinality(S) + 1
      BY <2>1, FS_AddElement
    <2> QED
      BY <1>2, <2>1, <2>2, <2>3, SessionAssumption
  <1> QED
    BY <1>1, <1>2, <1>6, <1>7, <1>8, <1>9 DEF Within

LEMMA RememberInv ==
  ASSUME Inv, NEW i \in Ids, NEW p \in Ids \cup {Root}, NEW size \in Sizes,
         NEW storeFalse \in BOOLEAN, Remember(i, p, size, storeFalse)
  PROVE  Inv'
  <1> DEFINE node == [parent |-> p, age |-> 0, size |-> size,
                      memoryOnly |-> MemoryOnly(p, storeFalse)]
  <1>1. /\ TypeOK /\ loaded /\ i \in FreshIds /\ ParentAvailable(p)
        /\ moved' = (body # NoBody)
        /\ UNCHANGED <<loaded, queue, body, disk, flush, unwritten, traffic>>
    BY DEF Inv, Remember
  <1>2. PICK f \in RoomFor(p) :
          /\ states' = Admit(f, i, node) /\ promised' = promised \cap DOMAIN f
          /\ IF ~node.memoryOnly \/ Persistable(f) # Persistable(states)
             THEN timer' = "reset" ELSE UNCHANGED timer
    BY DEF Remember, SchedulePersist
  <1>3. PICK S \in SUBSET DOMAIN states :
          Closed(states, S) /\ f = Restrict(states, S) /\ (p # Root => p \in S)
    BY <1>1, RoomIsForest
  <1>4. /\ DOMAIN f = S /\ Rooted(f) /\ \A j \in S : f[j] = states[j] /\ states[j] \in Node
        /\ i \notin DOMAIN states /\ i # Root
    BY <1>1, <1>3, RestrictRooted, SessionAssumption DEF Inv, Rooting, FreshIds, TypeOK, IsForest
  <1>5. node \in Node
    <2>1. node.memoryOnly \in BOOLEAN
      <3>1. p # Root => states[p].memoryOnly \in BOOLEAN
        BY <1>1 DEF ParentAvailable, TypeOK, IsForest, Node
      <3> QED
        BY <3>1 DEF MemoryOnly
    <2>2. 0 \in 0..Ttl + 1
      BY SessionAssumption
    <2> QED
      BY <2>1, <2>2 DEF Node
  <1>6. /\ DOMAIN states' = S \cup {i} /\ states'[i] = node
        /\ \A j \in S : states'[j] = states[j]
    BY <1>2, <1>4 DEF Admit
  <1>7. Rooted(states')
    BY <1>2, <1>3, <1>4, AdmitRooted
  <1>8. /\ Persistable(f) = Persistable(states) \cap S
        /\ Persistable(states') = IF node.memoryOnly THEN Persistable(f) ELSE Persistable(f) \cup {i}
    BY <1>4, <1>6 DEF Persistable
  <1>9. Closed(states', Persistable(states'))
    <2>1. ASSUME NEW j \in Persistable(states')
          PROVE  states'[j].parent \in Persistable(states') \cup {Root}
      <3>1. CASE j = i
        <4>1. p = Root \/ ~states[p].memoryOnly
          BY <1>6, <2>1, <3>1 DEF Persistable, MemoryOnly
        <4> QED
          BY <1>3, <1>4, <1>6, <3>1, <4>1 DEF Persistable
      <3>2. CASE j # i
        <4>1. j \in Persistable(states) /\ j \in S
          BY <1>8, <2>1, <3>2
        <4>2. /\ states[j].parent \in Persistable(states) \cup {Root}
              /\ states[j].parent \in S \cup {Root}
          BY <1>3, <4>1 DEF Inv, Rooting, Closed
        <4> QED
          BY <1>6, <1>8, <4>1, <4>2
      <3> QED
        BY <3>1, <3>2
    <2> QED
      BY <2>1 DEF Closed
  <1>10. TypeOK'
    <2>1. IsForest(states')
      BY <1>1, <1>4, <1>5, <1>6 DEF TypeOK, IsForest
    <2>2. timer' \in {"off", "reset", "due"}
      BY <1>1, <1>2 DEF TypeOK
    <2>3. moved' \in BOOLEAN /\ promised' \subseteq Ids
      BY <1>1, <1>2 DEF TypeOK
    <2> QED
      BY <1>1, <2>1, <2>2, <2>3 DEF TypeOK, IsForest
  <1>11. Rooting' /\ Unloaded'
    BY <1>1, <1>7, <1>9 DEF Inv, Rooting, Written, Unloaded, Rooted, Persistable
  <1>12. Gates'
    <2>1. Flushing' \subseteq Flushing /\ Flushing' \subseteq Persistable(states')
      BY <1>1, <1>4, <1>6, <1>8 DEF Inv, Gates, Flushing, FreshIds, Persistable
    <2>2. timer' = "reset" \/ (timer' = timer /\ Persistable(states') = Persistable(states))
      BY <1>2, <1>8
    <2> QED
      BY <1>1, <2>1, <2>2 DEF Inv, Gates
  <1>13. Promised'
    BY <1>1, <1>2, <1>4, <1>8 DEF Inv, Promised, FlushIsDurable
  <1>14. Bounded'
    <2>1. Within(states')
      <3>1. IsForest(states) /\ Rooted(states) /\ Within(states)
        BY <1>1 DEF Inv, TypeOK, Rooting, Bounded
      <3>2. HistoryFits(p, node.size) /\ node.parent = p
        BY DEF Remember
      <3> HIDE DEF node
      <3>3. Within(Admit(f, i, node))
        BY <1>3, <1>4, <1>5, <3>1, <3>2, AdmitWithin
      <3> QED
        BY <1>2, <3>3
    <2> QED
      BY <1>1, <2>1 DEF Inv, Bounded
  <1> QED
    BY <1>10, <1>11, <1>12, <1>13, <1>14 DEF Inv

-----------------------------------------------------------------------------
\* A flush, an exit, and time.
LEMMA FlushInv ==
  ASSUME Inv, Flush
  PROVE  Inv'
  <1>1. /\ TypeOK /\ timer' = "off" /\ queue' \in 0..MaxQueue
        /\ queue' = IF timer = "off" THEN queue ELSE queue + 1
        /\ flush' = [on |-> TRUE, left |-> queue', ids |-> Persistable(states)]
        /\ UNCHANGED <<states, loaded, body, moved, disk, promised, unwritten, traffic>>
    BY SessionAssumption DEF Inv, Flush, memory, TypeOK
  <1>2. /\ flush' \in Flushes /\ flush'.on = TRUE /\ flush'.left = queue'
        /\ flush'.ids = Persistable(states)
    BY <1>1 DEF TypeOK, IsForest, Flushes, Persistable
  <1>3. TypeOK'
    BY <1>1, <1>2 DEF TypeOK, IsForest
  <1>4. Rooting' /\ Unloaded'
    BY <1>1, <1>2, EmptyForest DEF Inv, TypeOK, Rooting, Written, Unloaded, Persistable
  <1>5. Gates' /\ Promised'
    BY <1>1, <1>2
    DEF Inv, TypeOK, Unloaded, Gates, Flushing, Promised, FlushIsDurable, Persistable
  <1>6. Bounded'
    BY <1>1, SameBounded DEF Inv
  <1> QED
    BY <1>3, <1>4, <1>5, <1>6 DEF Inv

LEMMA FlushReturnsInv ==
  ASSUME Inv, FlushReturns
  PROVE  Inv'
  <1>1. /\ TypeOK /\ flush.on /\ flush.left = 0 /\ flush' = NoFlush
        /\ promised' = IF unwritten THEN promised ELSE promised \cup Flushing
        /\ UNCHANGED <<states, loaded, timer, queue, body, moved, disk, unwritten, traffic>>
    BY DEF Inv, FlushReturns, memory, writer, Flushing
  <1>2. flush' \in Flushes /\ flush'.ids = {} /\ flush'.on = FALSE
    BY <1>1 DEF NoFlush, Flushes
  <1>3. TypeOK'
    BY <1>1, <1>2 DEF TypeOK, IsForest, Flushing
  <1>4. Rooting' /\ Unloaded'
    BY <1>1, <1>2 DEF Inv, TypeOK, Rooting, Written, Unloaded, Persistable
  <1>5. Gates' /\ Promised'
    BY <1>1, <1>2 DEF Inv, TypeOK, Gates, Flushing, Promised, FlushIsDurable, Persistable
  <1>6. Bounded'
    BY <1>1, SameBounded DEF Inv
  <1> QED
    BY <1>3, <1>4, <1>5, <1>6 DEF Inv

LEMMA ExitInv ==
  ASSUME Inv, Exit
  PROVE  Inv'
  <1>1. /\ TypeOK /\ states' = Empty /\ loaded' = FALSE /\ timer' = "off" /\ queue' = 0
        /\ body' = NoBody /\ moved' = FALSE /\ flush' = NoFlush /\ unwritten' = FALSE
        /\ UNCHANGED <<disk, promised, traffic>>
    BY DEF Inv, Exit
  <1>2. flush' \in Flushes /\ flush'.ids = {} /\ flush'.on = FALSE
    BY <1>1 DEF NoFlush, Flushes
  <1>3. TypeOK'
    <2>1. queue' \in 0..MaxQueue /\ IsForest(states') /\ IsForest(disk')
      BY <1>1, EmptyForest, SessionAssumption DEF TypeOK, IsForest
    <2> QED
      BY <1>1, <1>2, <2>1 DEF TypeOK
  <1>4. Rooting' /\ Unloaded'
    BY <1>1, <1>2, EmptyForest DEF Inv, Rooting, Written, Unloaded, Persistable
  <1>5. Gates' /\ Promised'
    BY <1>1, <1>2, EmptyForest DEF Inv, Gates, Flushing, Promised, FlushIsDurable, Persistable
  <1>6. Bounded'
    BY <1>1, EmptyWithin DEF Inv, Bounded
  <1> QED
    BY <1>3, <1>4, <1>5, <1>6 DEF Inv

LEMMA OlderWithin ==
  ASSUME NEW f, IsForest(f), Rooted(f), Within(f)
  PROVE  /\ Within(Older(f))
         /\ Size(f, DOMAIN f) <= MaxSnapshot => Size(Older(f), DOMAIN Older(f)) <= MaxSnapshot
  <1>1. PICK g : g = Older(f)
    OBVIOUS
  <1>2. DOMAIN g = DOMAIN f /\ \A i \in DOMAIN f : g[i].parent = f[i].parent
    BY <1>1, OlderForest
  <1>3. \A i \in DOMAIN f : g[i].size = f[i].size
    BY <1>1 DEF Older, IsForest, Node
  <1>4. Within(g)
    BY <1>2, <1>3, KeepsWithin DEF Rooted
  <1>5. IsFiniteSet(Units(f, DOMAIN f)) /\ Size(f, DOMAIN f) \in Nat
    BY UnitsFinite DEF Within
  <1>6. Size(g, DOMAIN f) <= Size(f, DOMAIN f) /\ Size(g, DOMAIN f) \in Nat
    BY <1>3, <1>5, SmallerSize
  <1> QED
    BY <1>1, <1>2, <1>4, <1>5, <1>6, SessionAssumption

LEMMA AgeInv ==
  ASSUME Inv, Age
  PROVE  Inv'
  <1>1. /\ TypeOK /\ states' = Older(states) /\ disk' = Older(disk)
        /\ body' = IF body = NoBody THEN NoBody ELSE Older(body)
        /\ UNCHANGED <<loaded, timer, queue, moved, flush, promised, unwritten, traffic>>
    BY DEF Inv, Age, promise
  <1>2. /\ IsForest(states') /\ DOMAIN states' = DOMAIN states
        /\ Persistable(states') = Persistable(states)
        /\ \A i \in DOMAIN states : states'[i].parent = states[i].parent
        /\ IsForest(disk') /\ DOMAIN disk' = DOMAIN disk /\ Persistable(disk') = Persistable(disk)
        /\ \A i \in DOMAIN disk : disk'[i].parent = disk[i].parent
    BY <1>1, OlderForest DEF TypeOK
  <1>3. \/ body = NoBody /\ body' = NoBody
        \/ /\ body # NoBody /\ IsForest(body') /\ DOMAIN body' = DOMAIN body
           /\ Persistable(body') = Persistable(body)
           /\ \A i \in DOMAIN body : body'[i].parent = body[i].parent
    BY <1>1, OlderForest DEF TypeOK
  <1>4. TypeOK'
    BY <1>1, <1>2, <1>3 DEF TypeOK
  <1>5. Rooting'
    <2>1. Rooted(states') /\ Closed(states', Persistable(states')) /\ Rooted(disk')
      BY <1>2, SameShape DEF Inv, Rooting, Written, Persistable
    <2>2. body' # NoBody => Rooted(body')
      BY <1>3, SameShape DEF Inv, Rooting, Written
    <2> QED
      BY <1>2, <1>3, <2>1, <2>2 DEF Inv, Rooting, Written
  <1>6. Unloaded'
    <2>1. ~loaded => states' = Empty
      BY <1>1, EmptyForest DEF Inv, Unloaded, Older, Empty
    <2> QED
      BY <1>1, <1>3, <2>1 DEF Inv, Unloaded
  <1>7. Gates' /\ Promised'
    BY <1>1, <1>2, <1>3 DEF Inv, Gates, Flushing, Promised, FlushIsDurable
  <1>8. Bounded'
    <2>1. Within(states') /\ Within(disk') /\ Size(disk', DOMAIN disk') <= MaxSnapshot
      BY <1>1, OlderWithin DEF Inv, Bounded, Rooting, Written, TypeOK
    <2>2. body' # NoBody => Within(body') /\ Size(body', DOMAIN body') <= MaxSnapshot
      BY <1>1, OlderWithin DEF Inv, Bounded, Rooting, Written, TypeOK
    <2> QED
      BY <2>1, <2>2 DEF Bounded
  <1> QED
    BY <1>4, <1>5, <1>6, <1>7, <1>8 DEF Inv

LEMMA NextInv == Inv /\ [Next]_vars => Inv'
  <1> SUFFICES ASSUME Inv, [Next]_vars PROVE Inv'
    OBVIOUS
  <1>1. CASE Quiesce \/ UNCHANGED vars
    <2>1. /\ UNCHANGED <<states, loaded, timer, queue, body, moved, disk, flush, promised, unwritten>>
          /\ traffic' \in {traffic, FALSE}
      BY <1>1 DEF Quiesce, vars, memory, writer, promise
    <2>2. TypeOK'
      BY <2>1 DEF Inv, TypeOK, IsForest
    <2>3. Rooting' /\ Unloaded'
      BY <2>1 DEF Inv, Rooting, Written, Unloaded, Persistable
    <2>4. Gates' /\ Promised'
      BY <2>1 DEF Inv, Gates, Flushing, Promised, FlushIsDurable, Persistable
    <2>5. Bounded'
      BY <2>1, SameBounded DEF Inv
    <2> QED
      BY <2>2, <2>3, <2>4, <2>5 DEF Inv
  <1> QED
    BY <1>1, LoadInv, TimerInv, StartWriteInv, EndWriteInv, RememberInv, FlushInv, FlushReturnsInv,
       ExitInv, AgeInv
    DEF Next, Persisting, Remembers

-----------------------------------------------------------------------------
\* Every state: the shape of the forest, and what a flush still awaits.
THEOREM Invariance == Spec => []Inv
  BY InitInv, NextInv, PTL DEF Spec

\* What a flush has written survives exits, crashes and every later snapshot.
THEOREM FlushedStaysDurable == Spec => []FlushIsDurable
  BY Invariance, PTL DEF Inv, Promised

\* Expanding a previous_response_id ends at a root, in memory and in the file:
\* expiry, eviction and the filter of the snapshot leave no parent missing and
\* no cycle.
THEOREM WalksEnd == Spec => [](Rooted(states) /\ Rooted(disk))
  <1>1. Inv => Rooted(states) /\ Rooted(disk)
    BY DEF Inv, Rooting, Written
  <1> QED
    BY <1>1, Invariance, PTL

\* A checkpoint that is live can be expanded: its history is complete and within
\* the limit that expand enforces, and the store is within its capacity.
THEOREM LiveCheckpointsExpand == Spec => []ForestConsistent
  <1>1. Inv => ForestConsistent
    BY DEF Inv, Rooting, Bounded, Within, ForestConsistent, HistoryExpands
  <1> QED
    BY <1>1, Invariance, PTL

\* Whatever write was the last to complete, the file it left is accepted as it
\* is by the next process: complete, acyclic and within the loader's limits.
THEOREM SnapshotAlwaysLoads == Spec => []SnapshotLoads
  <1>1. Inv => SnapshotLoads
    BY DEF Inv, Rooting, Written, Bounded, Within, SnapshotLoads, Loadable
  <1> QED
    BY <1>1, Invariance, PTL

-----------------------------------------------------------------------------
\* What an id stands for.  Two images of the store agree on an id they share.
Agree(f, g) == \A i \in DOMAIN f \cap DOMAIN g : f[i] = g[i]

Coherent ==
  /\ Agree(states, disk)
  /\ body # NoBody => Agree(states, body) /\ Agree(body, disk)

LEMMA OlderAgree ==
  ASSUME NEW f, NEW g, Agree(f, g)
  PROVE  Agree(Older(f), Older(g))
  BY DEF Agree, Older

\* Stores that agree on the parents of what they share agree on its history.
LEMMA SameAncestry ==
  ASSUME NEW f, NEW g, Rooted(f), Rooted(g),
         \A j \in DOMAIN f \cap DOMAIN g : f[j].parent = g[j].parent,
         NEW i \in DOMAIN f \cap DOMAIN g
  PROVE  Ancestry(f, {i}) = Ancestry(g, {i})
  <1>1. PICK S : S = DOMAIN f \cap DOMAIN g
    OBVIOUS
  <1>2. Closed(f, S) /\ Closed(g, S)
    <2>1. ASSUME NEW j \in S
          PROVE  f[j].parent \in S \cup {Root} /\ g[j].parent \in S \cup {Root}
      <3>1. f[j].parent \in DOMAIN f \cup {Root} /\ g[j].parent \in DOMAIN g \cup {Root}
        BY <1>1 DEF Rooted, Closed
      <3>2. f[j].parent = g[j].parent
        BY <1>1
      <3> QED
        BY <1>1, <3>1, <3>2
    <2> QED
      BY <2>1 DEF Closed
  <1>3. /\ S \subseteq DOMAIN f /\ S \subseteq DOMAIN g /\ i \in S
        /\ \A j \in S : g[j].parent = f[j].parent
        /\ \A j \in S : f[j].parent = g[j].parent
    BY <1>1
  <1>4. Ancestry(g, {i}) \subseteq Ancestry(f, {i})
    BY <1>2, <1>3, AncestryShrinks
  <1>5. Ancestry(f, {i}) \subseteq Ancestry(g, {i})
    BY <1>2, <1>3, AncestryShrinks
  <1> QED
    BY <1>4, <1>5

\* remember leaves some of the checkpoints and adds one under a fresh id.
LEMMA RemembersAdds ==
  ASSUME Inv, Remembers
  PROVE  \E i \in FreshIds, S \in SUBSET DOMAIN states :
           DOMAIN states' = S \cup {i} /\ \A j \in S : states'[j] = states[j]
  <1>1. PICK i \in Ids, p \in Ids \cup {Root}, size \in Sizes, storeFalse \in BOOLEAN :
          Remember(i, p, size, storeFalse)
    BY DEF Remembers
  <1>2. ParentAvailable(p) /\ i \in FreshIds
    BY <1>1 DEF Remember
  <1>3. PICK f \in RoomFor(p) : \E node : states' = Admit(f, i, node)
    BY <1>1 DEF Remember
  <1>4. PICK S \in SUBSET DOMAIN states : f = Restrict(states, S)
    BY <1>2, RoomIsForest
  <1>5. DOMAIN f = S /\ (\A j \in S : f[j] = states[j]) /\ i \notin S
    BY <1>2, <1>4 DEF Restrict, FreshIds
  <1>6. DOMAIN states' = S \cup {i} /\ \A j \in S : states'[j] = states[j]
    BY <1>3, <1>5 DEF Admit
  <1> QED
    BY <1>2, <1>6

\* A step changes the store of checkpoints in one of four ways.
LEMMA StoreSteps ==
  ASSUME Inv, [Next]_vars
  PROVE  \/ UNCHANGED states
         \/ states = Empty
         \/ states' = Empty
         \/ states' = Older(states)
         \/ \E i \in FreshIds, S \in SUBSET DOMAIN states :
              DOMAIN states' = S \cup {i} /\ \A j \in S : states'[j] = states[j]
  <1>1. CASE Load
    BY <1>1 DEF Load, Inv, Unloaded
  <1>2. CASE Persisting \/ Flush \/ FlushReturns \/ Quiesce \/ UNCHANGED vars
    BY <1>2 DEF Persisting, Elapse, Fire, StartWrite, FinishWrite, DropWrite, Flush, FlushReturns,
                Quiesce, vars, memory
  <1>3. CASE Remembers
    BY <1>3, RemembersAdds
  <1>4. CASE Exit
    BY <1>4 DEF Exit
  <1>5. CASE Age
    BY <1>5 DEF Age
  <1> QED
    BY <1>1, <1>2, <1>3, <1>4, <1>5 DEF Next

LEMMA InitCoherent == Init => Coherent
  BY EmptyForest DEF Init, Coherent, Agree

LEMMA NextCoherent == Inv /\ Coherent /\ [Next]_vars => Coherent'
  <1> SUFFICES ASSUME Inv, Coherent, [Next]_vars PROVE Coherent'
    OBVIOUS
  <1>0. DOMAIN Empty = {} /\ DOMAIN NoBody = {Root} /\ Root \notin DOMAIN states
    BY SessionAssumption DEF Empty, NoBody, Inv, TypeOK, IsForest
  <1>1. CASE Load
    <2>1. body' = NoBody
      BY <1>1 DEF Load, writer, Inv, Unloaded
    <2>2. states' = disk' \/ states' = Empty
      BY <1>1 DEF Load, LoadSnapshot, Quarantine
    <2> QED
      BY <1>0, <2>1, <2>2 DEF Coherent, Agree
  <1>2. CASE StartWrite
    <2>1. /\ body' = Snapshot(states) /\ UNCHANGED <<states, disk>>
          /\ DOMAIN body' \subseteq DOMAIN states /\ \A i \in DOMAIN body' : body'[i] = states[i]
      BY <1>2 DEF StartWrite, memory, Snapshot, Restrict, Persistable
    <2> QED
      BY <2>1 DEF Coherent, Agree
  <1>3. CASE FinishWrite
    BY <1>3 DEF FinishWrite, Release, memory, Coherent, Agree
  <1>4. CASE Elapse \/ Fire \/ DropWrite \/ Flush \/ FlushReturns \/ Quiesce \/ UNCHANGED vars
    <2>1. UNCHANGED <<states, disk>> /\ body' \in {body, NoBody}
      BY <1>4 DEF Elapse, Fire, DropWrite, Release, Flush, FlushReturns, Quiesce, vars, memory, writer
    <2> QED
      BY <2>1 DEF Coherent, Agree
  <1>5. CASE Remembers
    <2>1. UNCHANGED <<body, disk>>
      BY <1>5 DEF Remembers, Remember
    <2>2. PICK i \in FreshIds, S \in SUBSET DOMAIN states :
            DOMAIN states' = S \cup {i} /\ \A j \in S : states'[j] = states[j]
      BY <1>5, RemembersAdds
    <2> QED
      BY <2>1, <2>2 DEF Coherent, Agree, FreshIds
  <1>6. CASE Exit
    BY <1>0, <1>6 DEF Exit, Coherent, Agree
  <1>7. CASE Age
    <2>1. /\ states' = Older(states) /\ disk' = Older(disk)
          /\ body' = IF body = NoBody THEN NoBody ELSE Older(body)
      BY <1>7 DEF Age
    <2>2. Agree(states', disk')
      BY <2>1, OlderAgree DEF Coherent
    <2>3. body' # NoBody => Agree(states', body') /\ Agree(body', disk')
      BY <2>1, OlderAgree DEF Coherent
    <2> QED
      BY <2>2, <2>3 DEF Coherent
  <1> QED
    BY <1>1, <1>2, <1>3, <1>4, <1>5, <1>6, <1>7 DEF Next, Persisting

\* A process that restarts expands an id to the history it had before: memory
\* and the file tell the same of every id they share.
FileTellsTheSame ==
  \A i \in DOMAIN states \cap DOMAIN disk :
    states[i] = disk[i] /\ Ancestry(states, {i}) = Ancestry(disk, {i})

\* The file never contradicts memory, through crashes, loads and evictions.
THEOREM RestartsTellTheSame == Spec => []FileTellsTheSame
  <1>1. Inv /\ Coherent => FileTellsTheSame
    <2> SUFFICES ASSUME Inv, Coherent, NEW i \in DOMAIN states \cap DOMAIN disk
                 PROVE  states[i] = disk[i] /\ Ancestry(states, {i}) = Ancestry(disk, {i})
      BY DEF FileTellsTheSame
    <2>1. Rooted(states) /\ Rooted(disk)
      BY DEF Inv, Rooting, Written
    <2>2. \A j \in DOMAIN states \cap DOMAIN disk : states[j] = disk[j]
      BY DEF Coherent, Agree
    <2> QED
      BY <2>1, <2>2, SameAncestry
  <1> QED
    BY <1>1, InitCoherent, NextCoherent, Invariance, PTL DEF Spec

\* As long as an id is live, what it expands to does not change: evictions,
\* expiries and admissions never reach into the history of a checkpoint.
HistoriesStand ==
  [][\A i \in DOMAIN states \cap DOMAIN states' :
       Ancestry(states', {i}) = Ancestry(states, {i})]_vars

\* No step changes what a live id expands to.
THEOREM HistoriesStay == Spec => HistoriesStand
  <1>1. Inv /\ Inv' /\ [Next]_vars =>
          \A i \in DOMAIN states \cap DOMAIN states' :
            Ancestry(states', {i}) = Ancestry(states, {i})
    <2> SUFFICES ASSUME Inv, Inv', [Next]_vars, NEW i \in DOMAIN states \cap DOMAIN states'
                 PROVE  Ancestry(states', {i}) = Ancestry(states, {i})
      OBVIOUS
    <2>1. Rooted(states) /\ Rooted(states')
      BY DEF Inv, Rooting
    <2>2. \A j \in DOMAIN states \cap DOMAIN states' : states[j].parent = states'[j].parent
      <3>1. CASE UNCHANGED states \/ states = Empty \/ states' = Empty
        BY <3>1, EmptyForest
      <3>2. CASE states' = Older(states)
        BY <3>2, OlderForest DEF Inv, TypeOK
      <3>3. ASSUME NEW j \in FreshIds, NEW S \in SUBSET DOMAIN states,
                   DOMAIN states' = S \cup {j}, \A k \in S : states'[k] = states[k]
            PROVE  \A k \in DOMAIN states \cap DOMAIN states' : states[k].parent = states'[k].parent
        BY <3>3 DEF FreshIds
      <3> QED
        BY <3>1, <3>2, <3>3, StoreSteps
    <2> QED
      BY <2>1, <2>2, SameAncestry
  <1> QED
    BY <1>1, Invariance, PTL DEF Spec, HistoriesStand

\* Checkpoints of responses that asked not to be stored, and all that follows them.
KeptFromDisk ==
  {i \in DOMAIN states : \E j \in Ancestry(states, {i}) : states[j].memoryOnly}

\* A live checkpoint that is memory-only, or continues one that is, is in no
\* file and in no snapshot that is being written, whatever crashed before.
THEOREM MemoryOnlyStaysOffDisk ==
  Spec => [](KeptFromDisk \cap (DOMAIN disk \cup DOMAIN body) = {})
  <1>1. ASSUME Inv, NEW f, Written(f), Agree(states, f), NEW i \in KeptFromDisk
        PROVE  i \notin DOMAIN f
    <2> SUFFICES ASSUME i \in DOMAIN f PROVE FALSE
      OBVIOUS
    <2>1. PICK S : S = DOMAIN states \cap DOMAIN f
      OBVIOUS
    <2>2. PICK j \in Ancestry(states, {i}) : states[j].memoryOnly
      BY DEF KeptFromDisk
    <2>3. Rooted(states) /\ Rooted(f)
      BY <1>1 DEF Inv, Rooting, Written
    <2>4. \A k \in S : states[k] = f[k]
      BY <1>1, <2>1 DEF Agree
    <2>5. Closed(f, S)
      <3>1. \A k \in S : states[k].parent \in DOMAIN states \cup {Root} /\ f[k].parent \in DOMAIN f \cup {Root}
        BY <2>1, <2>3 DEF Rooted, Closed
      <3> QED
        BY <2>1, <2>4, <3>1 DEF Closed
    <2>6. i \in S
      BY <2>1 DEF KeptFromDisk
    <2>7. S \subseteq DOMAIN f /\ S \subseteq DOMAIN states /\ \A k \in S : states[k].parent = f[k].parent
      BY <2>1, <2>4
    <2>8. Ancestry(states, {i}) \subseteq S
      BY <2>5, <2>6, <2>7, AncestryShrinks
    <2>9. j \in DOMAIN f /\ f[j].memoryOnly
      BY <2>1, <2>2, <2>4, <2>8
    <2> QED
      BY <1>1, <2>9 DEF Written, Persistable
  <1>2. ASSUME Inv, Coherent
        PROVE  KeptFromDisk \cap (DOMAIN disk \cup DOMAIN body) = {}
    <2>1. KeptFromDisk \cap DOMAIN disk = {}
      BY <1>1, <1>2 DEF Inv, Rooting, Coherent
    <2>2. CASE body = NoBody
      <3>1. Root \notin KeptFromDisk /\ DOMAIN body = {Root}
        BY <1>2, <2>2, SessionAssumption DEF KeptFromDisk, Inv, TypeOK, IsForest, NoBody
      <3> QED
        BY <2>1, <3>1
    <2>3. CASE body # NoBody
      BY <1>1, <1>2, <2>1, <2>3 DEF Inv, Rooting, Coherent
    <2> QED
      BY <2>2, <2>3
  <1> QED
    BY <1>2, InitCoherent, NextCoherent, Invariance, PTL DEF Spec
=============================================================================
