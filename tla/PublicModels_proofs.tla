-------------------------- MODULE PublicModels_proofs --------------------------
(***************************************************************************)
(* Proofs about PublicModels, for any Providers, models, aliases, default  *)
(* names, limits and reports of the runtime.                               *)
(*                                                                         *)
(* Inv joins the types to what memory, file and operation have to do with  *)
(* one another; the heart of it is Grown: as long as no command is between *)
(* its write and its effect, the document in memory is the one on disk     *)
(* plus discoveries, each new and each with the defaults.                  *)
(***************************************************************************)
EXTENDS PublicModels, FiniteSetTheorems, TLAPS

\* e is d with some discoveries added.
Grown(d, e) ==
  /\ e.port = d.port
  /\ \A p \in Providers :
       \/ e.providers[p] = d.providers[p]
       \/ d.providers[p] = Absent /\ e.providers[p] = NewProvider
  /\ \A a \in Aliases :
       \/ e.models[a] = d.models[a]
       \/ \E m \in Models \ Targets(d) : d.models[a] = Absent /\ e.models[a] = NewModel(m)

-----------------------------------------------------------------------------
\* The entries of a document, one at a time.
LEMMA EntryTypes ==
  ASSUME NEW d \in Documents
  PROVE  /\ d.port \in Ports
         /\ \A p \in Providers : d.providers[p] \in ProviderEntries \cup {Absent}
         /\ \A a \in Aliases : d.models[a] \in ModelEntries \cup {Absent}
         /\ \A a \in Listed(d) : d.models[a] \in ModelEntries
         /\ \A p \in Known(d) : d.providers[p] \in ProviderEntries
         /\ Targets(d) \subseteq Models
  BY DEF Documents, Listed, Known, Targets, ModelEntries

LEMMA NewEntries ==
  /\ NewProvider \in ProviderEntries /\ NewProvider # Absent
  /\ \A m \in Models : NewModel(m) \in ModelEntries /\ NewModel(m) # Absent
                       /\ NewModel(m).target = m
                       /\ NewModel(m).enabled = TRUE /\ NewModel(m).favorite = FALSE
  <1>1. NewProvider \in ProviderEntries
    BY DEF NewProvider, ProviderEntries
  <1>2. ASSUME NEW m \in Models
        PROVE  /\ NewModel(m) \in ModelEntries /\ NewModel(m).target = m
               /\ NewModel(m).enabled = TRUE /\ NewModel(m).favorite = FALSE
    BY DEF NewModel, ModelEntries
  <1>3. Absent \notin ProviderEntries /\ Absent \notin ModelEntries
    BY DirectoryAssumption
  <1> QED
    BY <1>1, <1>2, <1>3

LEMMA EmptyType ==
  /\ EmptyDocument \in Documents /\ Listed(EmptyDocument) = {} /\ EmptyDocument # Absent
  /\ Unambiguous(EmptyDocument)
  BY DirectoryAssumption DEF EmptyDocument, Documents, Listed, Unambiguous

LEMMA NoFactsType == NoFacts \in Facts /\ \A f \in Reports : f \in Facts /\ f # NoFacts
  BY DirectoryAssumption, ReportAssumption DEF NoFacts, Facts

LEMMA SnapshotType ==
  ASSUME NEW d \in Documents, NEW f \in Facts
  PROVE  Snapshot(d, f) \in [document : Documents, published : SUBSET Aliases]
  BY DEF Snapshot, Published, Listed

LEMMA GrownReflexive ==
  ASSUME NEW d \in Documents
  PROVE  Grown(d, d)
  BY DEF Grown

\* What grows keeps its models.
LEMMA GrownTargets ==
  ASSUME NEW d \in Documents, NEW e \in Documents, Grown(d, e)
  PROVE  /\ Targets(d) \subseteq Targets(e)
         /\ \A a \in Listed(d) : a \in Listed(e) /\ e.models[a] = d.models[a]
  BY NewEntries DEF Grown, Listed, Targets

LEMMA GrownTransitive ==
  ASSUME NEW c \in Documents, NEW d \in Documents, NEW e \in Documents,
         Grown(c, d), Grown(d, e)
  PROVE  Grown(c, e)
  <1>1. Targets(c) \subseteq Targets(d)
    BY GrownTargets
  <1>2. ASSUME NEW a \in Aliases
        PROVE  \/ e.models[a] = c.models[a]
               \/ \E m \in Models \ Targets(c) : c.models[a] = Absent /\ e.models[a] = NewModel(m)
    <2>1. CASE d.models[a] = c.models[a]
      BY <1>1, <2>1 DEF Grown
    <2>2. CASE d.models[a] # c.models[a]
      <3>1. d.models[a] # Absent /\ c.models[a] = Absent
        BY <2>2, NewEntries DEF Grown
      <3>2. e.models[a] = d.models[a]
        BY <3>1 DEF Grown
      <3> QED
        BY <2>2, <3>2 DEF Grown
    <2> QED
      BY <2>1, <2>2
  <1>3. ASSUME NEW p \in Providers
        PROVE  \/ e.providers[p] = c.providers[p]
               \/ c.providers[p] = Absent /\ e.providers[p] = NewProvider
    BY NewEntries DEF Grown
  <1>4. e.port = c.port
    BY DEF Grown
  <1> QED
    BY <1>2, <1>3, <1>4 DEF Grown

-----------------------------------------------------------------------------
\* Discoveries: the document grows, and stays unambiguous.
LEMMA MaterializedEntries ==
  ASSUME NEW d \in Documents, NEW f \in Facts,
         NEW alloc \in Allocations(d, Discovered(d, f)),
         NEW e, e = Materialized(d, f, alloc)
  PROVE  /\ e \in Documents /\ Grown(d, e)
         /\ \A a \in Aliases :
              \/ e.models[a] = d.models[a]
                   /\ \A m \in Discovered(d, f) : alloc[m] # a
              \/ \E m \in Discovered(d, f) : /\ alloc[m] = a /\ d.models[a] = Absent
                                            /\ e.models[a] = NewModel(m)
  <1> DEFINE new == Discovered(d, f)
  <1>1. new \subseteq Models \ Targets(d)
    BY DEF Discovered, Facts
  <1>2. /\ alloc \in [new -> Aliases]
        /\ \A m \in new : d.models[alloc[m]] = Absent
    BY DEF Allocations
  <1>3. e.models = [a \in Aliases |-> IF \E m \in new : alloc[m] = a
                      THEN NewModel(CHOOSE m \in new : alloc[m] = a) ELSE d.models[a]]
    BY DEF Materialized, Documents
  <1>4. e.providers = [p \in Providers |->
          IF d.providers[p] = Absent /\ p \in f.present THEN NewProvider ELSE d.providers[p]]
    BY DEF Materialized, Documents
  <1>5. e.port = d.port /\ e = [port |-> e.port, providers |-> e.providers, models |-> e.models]
    BY DEF Materialized, Documents
  <1>6. ASSUME NEW a \in Aliases
        PROVE  \/ e.models[a] = d.models[a] /\ \A m \in new : alloc[m] # a
               \/ \E m \in new : alloc[m] = a /\ d.models[a] = Absent
                                 /\ e.models[a] = NewModel(m)
    <2>1. CASE \E m \in new : alloc[m] = a
      <3> DEFINE m == CHOOSE n \in new : alloc[n] = a
      <3>1. m \in new /\ alloc[m] = a
        BY <2>1
      <3>2. e.models[a] = NewModel(m)
        BY <1>3, <2>1
      <3> QED
        BY <1>2, <3>1, <3>2
    <2>2. CASE ~\E m \in new : alloc[m] = a
      BY <1>3, <2>2
    <2> QED
      BY <2>1, <2>2
  <1>7. \A a \in Aliases : e.models[a] \in ModelEntries \cup {Absent}
    BY <1>1, <1>6, EntryTypes, NewEntries
  <1>8. \A p \in Providers : e.providers[p] \in ProviderEntries \cup {Absent}
    BY <1>4, EntryTypes, NewEntries
  <1>9. e \in Documents
    <2>1. e.models \in [Aliases -> ModelEntries \cup {Absent}]
      BY <1>3, <1>7
    <2>2. e.providers \in [Providers -> ProviderEntries \cup {Absent}]
      BY <1>4, <1>8
    <2> QED
      BY <1>5, <2>1, <2>2, EntryTypes DEF Documents
  <1>10. Grown(d, e)
    <2>1. \A a \in Aliases :
            \/ e.models[a] = d.models[a]
            \/ \E m \in Models \ Targets(d) : d.models[a] = Absent /\ e.models[a] = NewModel(m)
      BY <1>1, <1>6
    <2> QED
      BY <1>4, <1>5, <2>1 DEF Grown
  <1> QED
    BY <1>6, <1>9, <1>10

LEMMA MaterializedUnambiguous ==
  ASSUME NEW d \in Documents, NEW f \in Facts, Unambiguous(d),
         NEW alloc \in Allocations(d, Discovered(d, f))
  PROVE  Unambiguous(Materialized(d, f, alloc))
  <1> DEFINE e == Materialized(d, f, alloc)
             new == Discovered(d, f)
  <1>1. /\ new \cap Targets(d) = {} /\ new \subseteq Models
    BY DEF Discovered, Facts
  <1>2. \A a \in Aliases :
          \/ e.models[a] = d.models[a]
          \/ \E m \in new : alloc[m] = a /\ e.models[a] = NewModel(m)
    BY MaterializedEntries
  <1> HIDE DEF e
  <1>3. ASSUME NEW a \in Listed(e)
        PROVE  \/ a \in Listed(d) /\ e.models[a].target = d.models[a].target
                    /\ e.models[a].target \in Targets(d)
               \/ e.models[a].target \in new /\ alloc[e.models[a].target] = a
    BY <1>1, <1>2, NewEntries DEF Listed, Targets
  <1>4. ASSUME NEW a \in Listed(e), NEW b \in Listed(e), e.models[a].target = e.models[b].target
        PROVE  a = b
    BY <1>1, <1>3, <1>4 DEF Unambiguous
  <1>5. Unambiguous(e)
    BY <1>4 DEF Unambiguous
  <1> QED
    BY <1>5 DEF e
-----------------------------------------------------------------------------
\* Commands: a document with one entry changed, or one alias for another.
LEMMA ModelEdited ==
  ASSUME NEW d \in Documents, NEW a \in Listed(d), NEW v \in ModelEntries,
         v.target = d.models[a].target, Unambiguous(d),
         NEW e, e = [d EXCEPT !.models[a] = v]
  PROVE  e \in Documents /\ Unambiguous(e)
  <1>1. e \in Documents /\ e.models = [d.models EXCEPT ![a] = v]
    BY DEF Documents, Listed
  <1>2. v # Absent /\ a \in Aliases
    BY DirectoryAssumption DEF Listed
  <1>3. /\ Listed(e) = Listed(d)
        /\ \A b \in Listed(d) : e.models[b].target = d.models[b].target
    BY <1>1, <1>2 DEF Listed, Documents
  <1> QED
    BY <1>1, <1>3 DEF Unambiguous

LEMMA ModelEdits ==
  ASSUME NEW d \in Documents, NEW a \in Named(d), NEW b \in BOOLEAN, Unambiguous(d)
  PROVE  /\ [d EXCEPT !.models[a].enabled = b] \in Documents
         /\ Unambiguous([d EXCEPT !.models[a].enabled = b])
         /\ [d EXCEPT !.models[a].favorite = b] \in Documents
         /\ Unambiguous([d EXCEPT !.models[a].favorite = b])
  <1> DEFINE on == [d.models[a] EXCEPT !.enabled = b]
             fav == [d.models[a] EXCEPT !.favorite = b]
  <1>1. a \in Listed(d) /\ d.models[a] \in ModelEntries
    BY EntryTypes DEF Named
  <1>2. /\ on \in ModelEntries /\ on.target = d.models[a].target
        /\ fav \in ModelEntries /\ fav.target = d.models[a].target
    BY <1>1 DEF ModelEntries
  <1>3. /\ [d EXCEPT !.models[a].enabled = b] = [d EXCEPT !.models[a] = on]
        /\ [d EXCEPT !.models[a].favorite = b] = [d EXCEPT !.models[a] = fav]
    BY DEF Documents
  <1> HIDE DEF on, fav
  <1>4. /\ [d EXCEPT !.models[a] = on] \in Documents
        /\ Unambiguous([d EXCEPT !.models[a] = on])
    BY <1>1, <1>2, ModelEdited
  <1>5. /\ [d EXCEPT !.models[a] = fav] \in Documents
        /\ Unambiguous([d EXCEPT !.models[a] = fav])
    BY <1>1, <1>2, ModelEdited
  <1> QED
    BY <1>3, <1>4, <1>5

LEMMA ProviderEdits ==
  ASSUME NEW d \in Documents, NEW p \in Known(d), NEW b \in BOOLEAN, Unambiguous(d)
  PROVE  /\ [d EXCEPT !.providers[p].enabled = b] \in Documents
         /\ Unambiguous([d EXCEPT !.providers[p].enabled = b])
         /\ [d EXCEPT !.providers[p].favorite = b] \in Documents
         /\ Unambiguous([d EXCEPT !.providers[p].favorite = b])
  <1> DEFINE on == [d EXCEPT !.providers[p].enabled = b]
             fav == [d EXCEPT !.providers[p].favorite = b]
  <1>1. d.providers[p] \in ProviderEntries /\ p \in Providers
    BY EntryTypes DEF Known
  <1>2. /\ on \in Documents /\ on.models = d.models
        /\ fav \in Documents /\ fav.models = d.models
    BY <1>1 DEF Documents, ProviderEntries
  <1> HIDE DEF on, fav
  <1>3. Unambiguous(on) /\ Unambiguous(fav)
    BY <1>2 DEF Unambiguous, Listed
  <1> QED
    BY <1>2, <1>3 DEF on, fav

LEMMA PortEdit ==
  ASSUME NEW d \in Documents, NEW n \in Ports, Unambiguous(d)
  PROVE  [d EXCEPT !.port = n] \in Documents /\ Unambiguous([d EXCEPT !.port = n])
  <1> DEFINE e == [d EXCEPT !.port = n]
  <1>1. e \in Documents /\ e.models = d.models
    BY DEF Documents
  <1> HIDE DEF e
  <1>2. Unambiguous(e)
    BY <1>1 DEF Unambiguous, Listed
  <1> QED
    BY <1>1, <1>2 DEF e

LEMMA RenameEdit ==
  ASSUME NEW d \in Documents, NEW a \in Listed(d), NEW b \in Aliases,
         b = a \/ d.models[b] = Absent, Unambiguous(d)
  PROVE  Renamed(d, a, b) \in Documents /\ Unambiguous(Renamed(d, a, b))
  <1> DEFINE e == Renamed(d, a, b)
  <1>1. e.models = [x \in Aliases |->
           IF x = b THEN d.models[a] ELSE IF x = a THEN Absent ELSE d.models[x]]
    BY DEF Renamed, Documents
  <1>2. e \in Documents
    BY EntryTypes DEF Renamed, Documents, Listed
  <1> HIDE DEF e
  <1>3. ASSUME NEW x \in Listed(e)
        PROVE  \/ x = b /\ e.models[x].target = d.models[a].target
               \/ x # b /\ x # a /\ x \in Listed(d) /\ e.models[x].target = d.models[x].target
    BY <1>1 DEF Listed
  <1>4. ASSUME NEW x \in Listed(e), NEW y \in Listed(e), e.models[x].target = e.models[y].target
        PROVE  x = y
    BY <1>3, <1>4 DEF Unambiguous
  <1>5. Unambiguous(e)
    BY <1>4 DEF Unambiguous
  <1> QED
    BY <1>2, <1>5 DEF e

-----------------------------------------------------------------------------
\* What grows keeps every choice: what is new has the defaults.
LEMMA GrownChoices ==
  ASSUME NEW d \in Documents, NEW e \in Documents,
         Grown(d, e), Unambiguous(d), Unambiguous(e)
  PROVE  Choices(e) = Choices(d)
  <1>1. \A p \in Providers : ProviderChoice(e, p) = ProviderChoice(d, p)
    BY NewEntries DEF Grown, ProviderChoice
  <1>2. ASSUME NEW m \in Models
        PROVE  Choice(e, m) = Choice(d, m)
    <2> DEFINE inD == {a \in Listed(d) : d.models[a].target = m}
               inE == {a \in Listed(e) : e.models[a].target = m}
               pair(a) == <<e.models[a].enabled, e.models[a].favorite>>
    <2>1. CASE inD # {}
      <3>1. PICK a \in Listed(d) : d.models[a].target = m
        BY <2>1
      <3>2. a \in Listed(e) /\ e.models[a] = d.models[a]
        BY GrownTargets
      <3>3. inE = {a} /\ inD = {a}
        BY <3>1, <3>2 DEF Unambiguous
      <3>4. Choice(e, m) = {<<e.models[a].enabled, e.models[a].favorite>>}
        BY <3>3 DEF Choice
      <3>5. Choice(d, m) = {<<d.models[a].enabled, d.models[a].favorite>>}
        BY <3>3 DEF Choice
      <3> QED
        BY <3>2, <3>4, <3>5
    <2>2. CASE inD = {}
      <3>1. Choice(d, m) = {<<TRUE, FALSE>>}
        BY <2>2 DEF Choice
      <3>2. ASSUME NEW a \in inE
            PROVE  pair(a) = <<TRUE, FALSE>>
        <4>1. e.models[a] # d.models[a] \/ a \notin Listed(d)
          BY <2>2
        <4>2. a \in Aliases /\ e.models[a] # Absent
          BY DEF Listed
        <4>3. PICK n \in Models : e.models[a] = NewModel(n)
          BY <4>1, <4>2 DEF Grown, Listed
        <4> QED
          BY <4>3, NewEntries
      <3>3. Choice(e, m) = {pair(a) : a \in inE} \cup (IF inE = {} THEN {<<TRUE, FALSE>>} ELSE {})
        BY DEF Choice
      <3> QED
        BY <3>1, <3>2, <3>3
    <2> QED
      BY <2>1, <2>2
  <1>3. e.port = d.port
    BY DEF Grown
  <1> QED
    BY <1>1, <1>2, <1>3 DEF Choices
-----------------------------------------------------------------------------
\* Before the first reconcile there is nothing in memory to write.
AtRest ==
  ~InMemory => /\ revision = 0 /\ persistedRevision = 0 /\ facts = NoFacts
               /\ timer = FALSE /\ Idle

AllUnambiguous ==
  /\ Unambiguous(OnDisk) /\ (InMemory => Unambiguous(loaded))
  /\ ~Idle => Unambiguous(op.doc)

\* What an operation that writes has decided.
Operation ==
  ~Idle =>
    /\ op.kind # "user" \/ ~op.changed => op.doc = loaded
    /\ op.at = "apply" => disk = op.doc
    /\ op.kind = "migrate" => /\ facts = NoFacts /\ revision = 0 /\ persistedRevision = 0
                              /\ op.facts \in Reports
    /\ op.kind = "user" /\ op.at = "write" /\ persistedRevision < revision
         => timer \/ unflushed

Unapplied == ~Idle /\ op.kind = "user" /\ op.at = "apply"
Ahead == InMemory /\ ~Unapplied => Grown(OnDisk, loaded)
Settled ==
  InMemory /\ (Idle \/ op.at = "write") /\ persistedRevision = revision => loaded = OnDisk

Inv ==
  /\ TypeOK /\ persistedRevision <= revision /\ (legacy => disk # Absent)
  /\ AtRest /\ AllUnambiguous /\ Operation /\ Ahead /\ Settled
  /\ PendingIsScheduled /\ SnapshotIsCurrent

\* What TypeOK says of the documents and of the operation in progress.
LEMMA Types ==
  ASSUME TypeOK
  PROVE  /\ OnDisk \in Documents
         /\ InMemory => loaded \in Documents
         /\ ~Idle => op \in Ops /\ op.doc \in Documents /\ op.facts \in Facts
                     /\ op.changed \in BOOLEAN
         /\ NoOp \notin Ops
  BY EmptyType DEF TypeOK, OnDisk, InMemory, Idle, Ops, NoOp

LEMMA InitInv == Init => Inv
  <1> SUFFICES ASSUME Init PROVE Inv
    OBVIOUS
  <1>1. ASSUME NEW m \in Models, disk = LegacyDocument({m})
        PROVE  disk \in Documents /\ Unambiguous(disk) /\ disk # Absent
    <2>1. /\ disk.models = [a \in Aliases |->
               IF Default[m][1] = a THEN NewModel(m) ELSE Absent]
          /\ disk.providers = [p \in Providers |->
               IF Owner[m] = p THEN NewProvider ELSE Absent]
          /\ disk = [port |-> InitialPort, providers |-> disk.providers,
                     models |-> disk.models]
      BY <1>1 DEF LegacyDocument
    <2>2. disk \in Documents
      BY <2>1, NewEntries, DirectoryAssumption DEF Documents
    <2>3. Unambiguous(disk)
      BY <2>1 DEF Unambiguous, Listed
    <2> QED
      BY <2>2, <2>3, DirectoryAssumption
  <1>2. disk \in Documents \cup {Absent} /\ Unambiguous(OnDisk) /\ (legacy => disk # Absent)
    BY <1>1, EmptyType DEF Init, OnDisk
  <1>3. TypeOK
    BY <1>2, EmptyType, NoFactsType, SnapshotType DEF Init, TypeOK
  <1> QED
    BY <1>2, <1>3 DEF Init, Inv, AtRest, AllUnambiguous, Operation, Ahead, Settled, Idle,
       PendingIsScheduled, SnapshotIsCurrent, InMemory

-----------------------------------------------------------------------------
\* What a reconcile leaves, whichever aliases it allocates.
LEMMA MaterializeStep ==
  ASSUME TypeOK, NEW d \in Documents, Unambiguous(d), NEW f \in Reports, Materialize(d, f)
  PROVE  /\ loaded' \in Documents /\ loaded' # Absent /\ Unambiguous(loaded') /\ Grown(d, loaded')
         /\ facts' = f /\ persistedRevision' = persistedRevision /\ unflushed' = unflushed
         /\ changes' \in Nat /\ timer' \in BOOLEAN
         /\ \/ loaded' = d /\ revision' = revision /\ timer' = timer
            \/ loaded' # d /\ revision' = revision + 1 /\ timer' = TRUE
         /\ \/ snapshot' = Snapshot(loaded', f)
            \/ loaded' = d /\ f = facts /\ snapshot' = snapshot
  <1>1. f \in Facts
    BY NoFactsType
  <1>2. PICK alloc \in Allocations(d, Discovered(d, f)) :
          LET next == Materialized(d, f, alloc)
              changed == next # d IN
            /\ changes' = IF changed THEN changes + 1 ELSE changes
            /\ loaded' = next /\ facts' = f
            /\ NextRevision(changed) /\ Rescheduled(changed) /\ Rebuilt(next, f, changed)
            /\ UNCHANGED <<persistedRevision, unflushed>>
    BY DEF Materialize
  <1> DEFINE next == Materialized(d, f, alloc)
  <1>3. next \in Documents /\ Grown(d, next) /\ Unambiguous(next)
    BY <1>1, MaterializedEntries, MaterializedUnambiguous
  <1>4. next # Absent
    BY <1>3, DirectoryAssumption
  <1> HIDE DEF next
  <1>5. /\ loaded' = next /\ facts' = f /\ persistedRevision' = persistedRevision
        /\ unflushed' = unflushed
        /\ changes' = IF next # d THEN changes + 1 ELSE changes
        /\ NextRevision(next # d) /\ Rescheduled(next # d) /\ Rebuilt(next, f, next # d)
    BY <1>2 DEF next
  <1>6. changes' \in Nat /\ timer' \in BOOLEAN
    BY <1>5 DEF TypeOK, Rescheduled
  <1>7. \/ loaded' = d /\ revision' = revision /\ timer' = timer
        \/ loaded' # d /\ revision' = revision + 1 /\ timer' = TRUE
    BY <1>5 DEF TypeOK, NextRevision, Rescheduled
  <1>8. \/ snapshot' = Snapshot(loaded', f)
        \/ loaded' = d /\ f = facts /\ snapshot' = snapshot
    BY <1>5 DEF Rebuilt
  <1> QED
    BY <1>3, <1>4, <1>5, <1>6, <1>7, <1>8

\* A reconcile of what is in memory, or of what was read, keeps the invariant.
LEMMA MaterializeInv ==
  ASSUME Inv, NEW f \in Reports, NEW d \in Documents, Materialize(d, f),
         d = IF InMemory THEN loaded ELSE OnDisk,
         Idle \/ (op.kind = "migrate" /\ op.at = "apply"), op' = NoOp,
         UNCHANGED <<disk, legacy>>
  PROVE  Inv'
  <1>1. TypeOK /\ Unambiguous(d) /\ f \in Facts /\ f # NoFacts /\ OnDisk \in Documents
    BY Types, NoFactsType DEF Inv, AllUnambiguous
  <1>2. /\ loaded' \in Documents /\ loaded' # Absent /\ Unambiguous(loaded')
        /\ Grown(d, loaded') /\ facts' = f /\ persistedRevision' = persistedRevision
        /\ unflushed' = unflushed /\ changes' \in Nat /\ timer' \in BOOLEAN
        /\ \/ loaded' = d /\ revision' = revision /\ timer' = timer
           \/ loaded' # d /\ revision' = revision + 1 /\ timer' = TRUE
        /\ \/ snapshot' = Snapshot(loaded', f)
           \/ loaded' = d /\ f = facts /\ snapshot' = snapshot
    BY <1>1, MaterializeStep
  <1>3. TypeOK'
    BY <1>1, <1>2, SnapshotType DEF TypeOK
  <1>4. Idle' /\ InMemory' /\ OnDisk' = OnDisk
    BY <1>2 DEF Idle, InMemory, OnDisk
  <1>5. Grown(OnDisk, d)
    <2>1. CASE InMemory
      BY <2>1 DEF Inv, Ahead, Unapplied, Idle
    <2>2. CASE ~InMemory
      BY <1>1, <2>2, GrownReflexive
    <2> QED
      BY <2>1, <2>2
  <1>6. Ahead'
    BY <1>1, <1>2, <1>4, <1>5, GrownTransitive DEF Ahead
  <1>7. persistedRevision' = revision' => loaded' = OnDisk
    <2>1. CASE Idle
      BY <1>1, <1>2, <2>1 DEF Inv, Settled, AtRest, TypeOK, OnDisk
    <2>2. CASE ~Idle
      BY <1>1, <1>2, <2>2 DEF Inv, Operation, AtRest, TypeOK, OnDisk, InMemory
    <2> QED
      BY <2>1, <2>2
  <1>8. PendingIsScheduled'
    <2>1. CASE Idle
      BY <1>2, <2>1 DEF Inv, PendingIsScheduled, AtRest, TypeOK
    <2>2. CASE ~Idle
      BY <1>2, <2>2 DEF Inv, PendingIsScheduled, Operation, TypeOK
    <2> QED
      BY <2>1, <2>2
  <1>9. SnapshotIsCurrent'
    BY <1>1, <1>2 DEF Inv, SnapshotIsCurrent, AtRest, InMemory
  <1> QED
    BY <1>1, <1>2, <1>3, <1>4, <1>6, <1>7, <1>8, <1>9
    DEF Inv, AtRest, AllUnambiguous, Operation, Settled, TypeOK

\* A command, whatever it changes.
LEMMA AcceptInv ==
  ASSUME Inv, NEW next \in Documents, NEW changed \in BOOLEAN, Unambiguous(next),
         changed \/ next = loaded, Accept(next, changed)
  PROVE  Inv'
  <1>1. TypeOK /\ Idle /\ InMemory
    BY DEF Inv, Accept, InMemory
  <1>2. /\ UNCHANGED <<disk, legacy, loaded, revision, facts, snapshot, unflushed>>
        /\ changes' \in Nat
    BY <1>1 DEF Accept, TypeOK
  <1>3. OnDisk' = OnDisk
    BY <1>2 DEF OnDisk
  <1>4. CASE Owed(changed)
    <2>1. /\ op' = [at |-> "write", kind |-> "user", doc |-> next, changed |-> changed,
                    facts |-> NoFacts]
          /\ UNCHANGED <<persistedRevision, timer>>
      BY <1>4 DEF Accept
    <2>2. op' \in Ops /\ ~Idle'
      BY <2>1, NoFactsType DEF Ops, Idle, NoOp
    <2>3. TypeOK'
      BY <1>1, <1>2, <2>1, <2>2 DEF TypeOK
    <2>4. Operation'
      BY <1>1, <1>2, <2>1 DEF Inv, Operation, PendingIsScheduled, Idle
    <2>5. Ahead' /\ Settled'
      BY <1>1, <1>2, <1>3, <2>1 DEF Inv, Ahead, Settled, Unapplied, Idle, InMemory
    <2> QED
      BY <1>1, <1>2, <1>3, <2>1, <2>2, <2>3, <2>4, <2>5
      DEF Inv, AtRest, AllUnambiguous, PendingIsScheduled, SnapshotIsCurrent, InMemory
  <1>5. CASE ~Owed(changed)
    <2>1. op' = NoOp /\ persistedRevision' = revision /\ timer' = FALSE
      BY <1>5 DEF Accept
    <2>2. persistedRevision = revision
      BY <1>1, <1>5 DEF Owed, Inv, TypeOK
    <2>3. TypeOK'
      BY <1>1, <1>2, <2>1 DEF TypeOK
    <2>4. Ahead' /\ Settled'
      BY <1>1, <1>2, <1>3, <2>1, <2>2 DEF Inv, Ahead, Settled, Unapplied, Idle, InMemory
    <2> QED
      BY <1>1, <1>2, <1>3, <2>1, <2>2, <2>3, <2>4
      DEF Inv, AtRest, AllUnambiguous, Operation, PendingIsScheduled, SnapshotIsCurrent,
          InMemory, Idle, TypeOK
  <1> QED
    BY <1>4, <1>5

\* Every command decides on an unambiguous document.
LEMMA UserCommandInv ==
  ASSUME Inv, UserCommand
  PROVE  Inv'
  <1>1. CASE ReorderModels
    <2>1. PICK changed \in BOOLEAN : Accept(loaded, changed)
      BY <1>1 DEF ReorderModels
    <2>2. loaded \in Documents /\ Unambiguous(loaded)
      BY <1>1, Types DEF ReorderModels, Inv, AllUnambiguous, InMemory
    <2> QED
      BY <2>1, <2>2, AcceptInv
  <1>2. CASE \E next \in Documents : Unambiguous(next) /\ Command(next)
    <2>1. PICK next \in Documents : Unambiguous(next) /\ Command(next)
      BY <1>2
    <2>2. Accept(next, next # loaded) /\ (next # loaded) \in BOOLEAN
      BY <2>1 DEF Command
    <2>3. next # loaded \/ next = loaded
      OBVIOUS
    <2> QED
      BY <2>1, <2>2, <2>3, AcceptInv
  <1> SUFFICES ASSUME ~ReorderModels
      PROVE  \E next \in Documents : Unambiguous(next) /\ Command(next)
    BY <1>1, <1>2
  <1>3. loaded \in Documents /\ Unambiguous(loaded)
    <2>1. InMemory
      BY DEF UserCommand, SetPort, SetProviderOn, SetProviderFavorite, SetModelOn,
         SetModelFavorite, RenameModel, RestoreModelName, InMemory
    <2> QED
      BY <2>1, Types DEF Inv, AllUnambiguous
  <1>4. CASE SetPort
    BY <1>3, <1>4, PortEdit DEF SetPort
  <1>5. CASE SetProviderOn
    BY <1>3, <1>5, ProviderEdits DEF SetProviderOn
  <1>6. CASE SetProviderFavorite
    BY <1>3, <1>6, ProviderEdits DEF SetProviderFavorite
  <1>7. CASE SetModelOn
    BY <1>3, <1>7, ModelEdits DEF SetModelOn
  <1>8. CASE SetModelFavorite
    BY <1>3, <1>8, ModelEdits DEF SetModelFavorite
  <1>9. CASE RenameModel
    <2>1. PICK a \in Named(loaded), b \in Aliases :
            (b = a \/ loaded.models[b] = Absent) /\ Command(Renamed(loaded, a, b))
      BY <1>9 DEF RenameModel
    <2>2. a \in Listed(loaded)
      BY DEF Named
    <2> QED
      BY <1>3, <2>1, <2>2, RenameEdit
  <1>10. CASE RestoreModelName
    <2>1. PICK a \in Named(loaded) :
            \E i \in DOMAIN Default[loaded.models[a].target] :
              LET b == Default[loaded.models[a].target][i] IN
                (loaded.models[b] = Absent \/ b = a) /\ Command(Renamed(loaded, a, b))
      BY <1>10 DEF RestoreModelName
    <2> DEFINE default == Default[loaded.models[a].target]
    <2>2. PICK i \in DOMAIN default :
            (loaded.models[default[i]] = Absent \/ default[i] = a)
              /\ Command(Renamed(loaded, a, default[i]))
      BY <2>1
    <2>3. a \in Listed(loaded) /\ loaded.models[a].target \in Models
      BY <1>3, EntryTypes DEF Named, ModelEntries
    <2>4. default[i] \in Aliases
      BY <2>3, DirectoryAssumption
    <2> QED
      BY <1>3, <2>2, <2>3, <2>4, RenameEdit
  <1> QED
    BY <1>4, <1>5, <1>6, <1>7, <1>8, <1>9, <1>10 DEF UserCommand

LEMMA ReconcileLegacyInv ==
  ASSUME Inv, NEW f \in Reports, ReconcileLegacy(f)
  PROVE  Inv'
  <1>1. TypeOK /\ ~InMemory /\ legacy /\ disk # Absent /\ f \in Facts
    BY NoFactsType DEF Inv, ReconcileLegacy, InMemory
  <1>2. disk \in Documents /\ OnDisk = disk
    BY <1>1 DEF TypeOK, OnDisk
  <1>3. /\ loaded' = disk /\ OnDisk' = OnDisk
        /\ op' = [at |-> "write", kind |-> "migrate", doc |-> disk, changed |-> FALSE, facts |-> f]
        /\ UNCHANGED <<disk, legacy, revision, persistedRevision, facts, snapshot, timer,
                       changes, unflushed>>
    BY DEF ReconcileLegacy, OnDisk
  <1>4. op' \in Ops /\ ~Idle'
    BY <1>1, <1>2, <1>3 DEF Ops, Idle, NoOp
  <1>5. TypeOK'
    BY <1>1, <1>3, <1>4 DEF TypeOK
  <1>6. Operation' /\ AllUnambiguous'
    BY <1>1, <1>2, <1>3, <1>4 DEF Inv, AtRest, AllUnambiguous, Operation
  <1>7. Ahead' /\ Settled'
    BY <1>2, <1>3, GrownReflexive DEF Ahead, Settled
  <1>8. AtRest' /\ PendingIsScheduled' /\ SnapshotIsCurrent'
    BY <1>1, <1>2, <1>3, <1>4 DEF Inv, AtRest, InMemory, PendingIsScheduled, SnapshotIsCurrent
  <1> QED
    BY <1>1, <1>3, <1>5, <1>6, <1>7, <1>8 DEF Inv

LEMMA FlushInv ==
  ASSUME Inv, NEW due \in BOOLEAN, Flush(due)
  PROVE  Inv'
  <1>1. TypeOK /\ Idle
    BY DEF Inv, Flush
  <1>2. /\ timer' = FALSE
        /\ UNCHANGED <<disk, legacy, loaded, revision, persistedRevision, facts, snapshot,
                       changes, unflushed>>
    BY DEF Flush
  <1>3. OnDisk' = OnDisk
    BY <1>2 DEF OnDisk
  <1>4. CASE InMemory /\ persistedRevision < revision
    <2>1. op' = [at |-> "write", kind |-> "flush", doc |-> loaded, changed |-> FALSE,
                 facts |-> NoFacts]
      BY <1>4 DEF Flush, InMemory
    <2>2. op' \in Ops /\ ~Idle'
      BY <1>1, <1>4, <2>1, Types, NoFactsType DEF Ops, Idle, NoOp
    <2>3. TypeOK'
      BY <1>1, <1>2, <2>2 DEF TypeOK
    <2>4. Operation' /\ AllUnambiguous'
      BY <1>2, <1>3, <1>4, <2>1 DEF Inv, AllUnambiguous, Operation, InMemory
    <2>5. Ahead' /\ Settled'
      BY <1>1, <1>2, <1>3, <2>1 DEF Inv, Ahead, Settled, Unapplied, Idle, InMemory
    <2> QED
      BY <1>2, <1>4, <2>2, <2>3, <2>4, <2>5
      DEF Inv, AtRest, PendingIsScheduled, SnapshotIsCurrent, InMemory
  <1>5. CASE ~(InMemory /\ persistedRevision < revision)
    <2>1. op' = NoOp
      BY <1>5 DEF Flush, InMemory
    <2>2. TypeOK'
      BY <1>1, <1>2, <2>1 DEF TypeOK
    <2> QED
      BY <1>1, <1>2, <1>3, <1>5, <2>1, <2>2
      DEF Inv, AtRest, AllUnambiguous, Operation, Ahead, Settled, Unapplied, Idle,
          PendingIsScheduled, SnapshotIsCurrent, InMemory
  <1> QED
    BY <1>4, <1>5

LEMMA WriteInv == Inv /\ Write => Inv'
  <1> SUFFICES ASSUME Inv, Write PROVE Inv'
    OBVIOUS
  <1>1. /\ TypeOK /\ ~Idle /\ InMemory /\ op.at = "write"
        /\ op \in Ops /\ op.doc \in Documents /\ op.doc # Absent
    BY Types, DirectoryAssumption DEF Inv, Write, AtRest, Idle
  <1>2. /\ disk' = op.doc /\ legacy' = FALSE /\ unflushed' = FALSE
        /\ op' = [op EXCEPT !.at = "apply"]
        /\ UNCHANGED <<loaded, revision, persistedRevision, facts, snapshot, timer, changes>>
    BY DEF Write, memory
  <1>3. /\ op' \in Ops /\ ~Idle' /\ op'.at = "apply" /\ op'.kind = op.kind
        /\ op'.doc = op.doc /\ op'.changed = op.changed /\ op'.facts = op.facts
    BY <1>1, <1>2 DEF Ops, Idle, NoOp
  <1>4. TypeOK'
    BY <1>1, <1>2, <1>3 DEF TypeOK
  <1>5. Operation'
    BY <1>1, <1>2, <1>3 DEF Inv, Operation
  <1>6. OnDisk' = op.doc
    BY <1>1, <1>2 DEF OnDisk
  <1>7. Ahead'
    BY <1>1, <1>2, <1>3, <1>6, GrownReflexive DEF Inv, Operation, Ahead, Unapplied, InMemory
  <1>8. AllUnambiguous'
    BY <1>1, <1>2, <1>3, <1>6 DEF Inv, AllUnambiguous, InMemory
  <1>9. Settled'
    BY <1>3 DEF Settled
  <1> QED
    BY <1>1, <1>2, <1>3, <1>4, <1>5, <1>7, <1>8, <1>9
    DEF Inv, AtRest, PendingIsScheduled, SnapshotIsCurrent, InMemory

LEMMA RefuseInv == Inv /\ Refuse => Inv'
  <1> SUFFICES ASSUME Inv, Refuse PROVE Inv'
    OBVIOUS
  <1>1. /\ TypeOK /\ ~Idle /\ InMemory /\ op.at = "write"
        /\ op' = NoOp /\ Idle' /\ unflushed' = (unflushed \/ op.kind = "flush")
        /\ UNCHANGED <<disk, legacy, loaded, revision, persistedRevision, facts, snapshot,
                       timer, changes>>
        /\ op.kind \in {"user", "flush", "migrate"}
    BY Types DEF Inv, Refuse, AtRest, Idle, memory, Ops
  <1>2. TypeOK' /\ OnDisk' = OnDisk
    BY <1>1 DEF TypeOK, OnDisk
  <1>3. PendingIsScheduled'
    <2>1. CASE op.kind = "flush"
      BY <1>1, <2>1 DEF PendingIsScheduled
    <2>2. CASE op.kind = "user"
      <3>1. persistedRevision < revision => timer \/ unflushed
        BY <1>1, <2>2 DEF Inv, Operation
      <3>2. unflushed => unflushed'
        BY <1>1
      <3> QED
        BY <1>1, <3>1, <3>2 DEF PendingIsScheduled
    <2>3. CASE op.kind = "migrate"
      BY <1>1, <2>3 DEF Inv, Operation, PendingIsScheduled
    <2> QED
      BY <1>1, <2>1, <2>2, <2>3
  <1> QED
    BY <1>1, <1>2, <1>3
    DEF Inv, AtRest, AllUnambiguous, Operation, Ahead, Settled, Unapplied, Idle,
        SnapshotIsCurrent, InMemory

LEMMA ApplyCommandInv == Inv /\ ApplyCommand => Inv'
  <1> SUFFICES ASSUME Inv, ApplyCommand PROVE Inv'
    OBVIOUS
  <1>1. /\ TypeOK /\ ~Idle /\ InMemory /\ op.at = "apply" /\ op.kind = "user"
        /\ op.doc \in Documents /\ op.doc # Absent /\ op.changed \in BOOLEAN
        /\ disk = op.doc /\ Unambiguous(op.doc) /\ (~op.changed => op.doc = loaded)
    BY Types, DirectoryAssumption DEF Inv, ApplyCommand, AtRest, Idle, AllUnambiguous, Operation
  <1>2. /\ op' = NoOp /\ loaded' = op.doc /\ timer' = FALSE
        /\ revision' = (IF op.changed THEN revision + 1 ELSE revision)
        /\ persistedRevision' = revision'
        /\ snapshot' = (IF op.changed THEN Snapshot(op.doc, facts) ELSE snapshot)
        /\ UNCHANGED <<disk, legacy, facts, changes, unflushed>>
    BY DEF ApplyCommand
  <1>3. TypeOK'
    <2>1. revision' \in Nat /\ facts \in Facts
      BY <1>1, <1>2 DEF TypeOK
    <2>2. snapshot' \in [document : Documents, published : SUBSET Aliases]
      BY <1>1, <1>2, <2>1, SnapshotType DEF TypeOK
    <2> QED
      BY <1>1, <1>2, <2>1, <2>2 DEF TypeOK
  <1>4. Idle' /\ InMemory' /\ OnDisk' = op.doc
    BY <1>1, <1>2 DEF Idle, InMemory, OnDisk
  <1>5. Ahead' /\ Settled' /\ AllUnambiguous'
    BY <1>1, <1>2, <1>4, GrownReflexive DEF Ahead, Settled, AllUnambiguous
  <1>6. SnapshotIsCurrent' /\ PendingIsScheduled'
    <2>1. CASE op.changed
      BY <1>2, <1>3, <2>1 DEF SnapshotIsCurrent, PendingIsScheduled, TypeOK
    <2>2. CASE ~op.changed
      BY <1>1, <1>2, <1>3, <2>2
      DEF Inv, SnapshotIsCurrent, PendingIsScheduled, InMemory, TypeOK
    <2> QED
      BY <2>1, <2>2
  <1> QED
    BY <1>1, <1>2, <1>3, <1>4, <1>5, <1>6 DEF Inv, AtRest, Operation, TypeOK

LEMMA ApplyFlushInv == Inv /\ ApplyFlush => Inv'
  <1> SUFFICES ASSUME Inv, ApplyFlush PROVE Inv'
    OBVIOUS
  <1>1. /\ TypeOK /\ ~Idle /\ InMemory /\ op.at = "apply" /\ op.kind = "flush"
        /\ op.doc \in Documents /\ disk = loaded /\ OnDisk = loaded
    BY Types, DirectoryAssumption
    DEF Inv, ApplyFlush, AtRest, Idle, Operation, OnDisk, InMemory
  <1>2. /\ op' = NoOp /\ persistedRevision' = revision
        /\ UNCHANGED <<disk, legacy, loaded, revision, facts, snapshot, timer, changes, unflushed>>
    BY DEF ApplyFlush, Recorded
  <1>3. TypeOK' /\ Idle' /\ OnDisk' = OnDisk
    BY <1>1, <1>2 DEF TypeOK, Idle, OnDisk
  <1>4. Ahead' /\ Settled'
    BY <1>1, <1>2, <1>3, Types, GrownReflexive DEF Ahead, Settled
  <1> QED
    BY <1>1, <1>2, <1>3, <1>4
    DEF Inv, AtRest, AllUnambiguous, Operation, PendingIsScheduled, SnapshotIsCurrent,
        InMemory, TypeOK

LEMMA RestartInv == Inv /\ Restart => Inv'
  <1> SUFFICES ASSUME Inv, Restart PROVE Inv'
    OBVIOUS
  <1>1. /\ loaded' = Absent /\ revision' = 0 /\ persistedRevision' = 0
        /\ facts' = NoFacts /\ snapshot' = Snapshot(EmptyDocument, NoFacts)
        /\ timer' = FALSE /\ op' = NoOp /\ unflushed' = FALSE
        /\ UNCHANGED <<disk, legacy, changes>>
    BY DEF Restart
  <1>2. TypeOK' /\ OnDisk' = OnDisk
    BY <1>1, EmptyType, NoFactsType, SnapshotType DEF Inv, TypeOK, OnDisk
  <1> QED
    BY <1>1, <1>2
    DEF Inv, AtRest, AllUnambiguous, Operation, Ahead, Settled, Idle, PendingIsScheduled,
        SnapshotIsCurrent, InMemory

LEMMA NextInv == Inv /\ [Next]_vars => Inv'
  <1> SUFFICES ASSUME Inv, [Next]_vars PROVE Inv'
    OBVIOUS
  <1>1. CASE \E f \in Reports : Reconcile(f)
    <2>1. PICK f \in Reports : Reconcile(f)
      BY <1>1
    <2>2. (IF InMemory THEN loaded ELSE OnDisk) \in Documents
      BY Types DEF Inv
    <2>3. /\ Materialize(IF InMemory THEN loaded ELSE OnDisk, f)
          /\ Idle /\ op' = NoOp /\ UNCHANGED <<disk, legacy>>
      BY <2>1 DEF Reconcile, InMemory, Idle
    <2> QED
      BY <2>2, <2>3, MaterializeInv
  <1>2. CASE \E f \in Reports : ReconcileLegacy(f)
    BY <1>2, ReconcileLegacyInv
  <1>3. CASE UserCommand
    BY <1>3, UserCommandInv
  <1>4. CASE ScheduledFlush \/ ShutdownFlush
    BY <1>4, FlushInv DEF ScheduledFlush, ShutdownFlush, Inv, TypeOK
  <1>5. CASE Write \/ Refuse \/ ApplyCommand \/ ApplyFlush \/ Restart
    BY <1>5, WriteInv, RefuseInv, ApplyCommandInv, ApplyFlushInv, RestartInv
  <1>6. CASE ApplyMigration
    <2>1. /\ ~Idle /\ op.at = "apply" /\ op.kind = "migrate" /\ op' = NoOp
          /\ Materialize(op.doc, op.facts) /\ UNCHANGED <<disk, legacy>>
      BY <1>6 DEF ApplyMigration, Idle
    <2>2. InMemory /\ op.doc \in Documents /\ op.doc = loaded /\ op.facts \in Reports
      BY <2>1, Types DEF Inv, Operation, AtRest
    <2> QED
      BY <2>1, <2>2, MaterializeInv
  <1>7. CASE UNCHANGED vars
    BY <1>7 DEF vars, Inv, TypeOK, AtRest, AllUnambiguous, Operation, Ahead, Settled, Unapplied,
       PendingIsScheduled, SnapshotIsCurrent, Idle, InMemory, OnDisk
  <1> QED
    BY <1>1, <1>2, <1>3, <1>4, <1>5, <1>6, <1>7 DEF Next, Apply

LEMMA Invariance == Spec => []Inv
  BY InitInv, NextInv, PTL DEF Spec

-----------------------------------------------------------------------------
\* What a step does to the file, to the document that counts, and to the
\* document an operation holds.
LEMMA ReconcileSteps ==
  ASSUME Inv, NEW f \in Reports, Reconcile(f)
  PROVE  /\ InMemory' /\ OnDisk' = OnDisk /\ Idle' /\ Grown(Current, Current')
         /\ InMemory /\ revision' = revision => loaded' = loaded
  <1> DEFINE d == IF InMemory THEN loaded ELSE OnDisk
  <1>1. TypeOK /\ d \in Documents /\ Unambiguous(d) /\ Materialize(d, f)
        /\ Idle /\ UNCHANGED <<disk, op>>
    BY Types DEF Inv, AllUnambiguous, Reconcile, InMemory
  <1>2. loaded' # Absent /\ Grown(d, loaded')
        /\ (loaded' = d \/ revision' = revision + 1)
    BY <1>1, MaterializeStep
  <1> QED
    BY <1>1, <1>2 DEF TypeOK, Current, InMemory, Idle, OnDisk

LEMMA MigrationSteps ==
  ASSUME Inv, ApplyMigration
  PROVE  /\ InMemory /\ InMemory' /\ OnDisk' = OnDisk /\ Idle' /\ Grown(Current, Current')
         /\ revision' = revision => loaded' = loaded
  <1>1. TypeOK /\ ~Idle /\ InMemory /\ loaded \in Documents /\ Unambiguous(loaded)
        /\ op.doc = loaded /\ op.facts \in Reports
        /\ Materialize(loaded, op.facts) /\ UNCHANGED disk /\ op' = NoOp
    BY Types DEF Inv, AllUnambiguous, Operation, ApplyMigration, AtRest, Idle
  <1>2. loaded' # Absent /\ Grown(loaded, loaded')
        /\ (loaded' = loaded \/ revision' = revision + 1)
    BY <1>1, MaterializeStep
  <1> QED
    BY <1>1, <1>2 DEF TypeOK, Current, InMemory, Idle, OnDisk

\* A step that leaves the document in memory as it is.
LEMMA UnchangedSteps ==
  ASSUME Inv, UNCHANGED loaded, InMemory \/ UNCHANGED disk
  PROVE  Grown(Current, Current')
  <1>1. Current \in Documents /\ Current' = Current
    BY Types DEF Inv, Current, InMemory, OnDisk
  <1> QED
    BY <1>1, GrownReflexive

LEMMA Steps ==
  ASSUME Inv, [Next]_vars
  PROVE  /\ OnDisk' = OnDisk \/ (~Idle /\ OnDisk' = op.doc)
         /\ \/ Grown(Current, Current')
            \/ Unapplied /\ Current' = op.doc
            \/ ~Unapplied /\ ~InMemory' /\ Current' = OnDisk
         /\ Idle' \/ (~Idle /\ op'.doc = op.doc) \/ op'.doc = Current \/ UserCommand
         /\ InMemory /\ InMemory' /\ revision' = revision => loaded' = loaded
  <1>1. CASE \E f \in Reports : Reconcile(f)
    BY <1>1, ReconcileSteps DEF InMemory
  <1>2. CASE \E f \in Reports : ReconcileLegacy(f)
    <2>1. /\ ~InMemory /\ disk # Absent /\ OnDisk = disk /\ OnDisk' = OnDisk
          /\ loaded' = disk /\ op'.doc = disk
      BY <1>2 DEF Inv, ReconcileLegacy, InMemory, OnDisk
    <2>2. Current = disk /\ Current' = Current /\ Current \in Documents
      BY <2>1, Types DEF Inv, Current, InMemory
    <2> QED
      BY <2>1, <2>2, GrownReflexive
  <1>3. CASE UserCommand
    <2>1. UNCHANGED <<disk, loaded>>
      BY <1>3 DEF UserCommand, SetPort, SetProviderOn, SetProviderFavorite, SetModelOn,
         SetModelFavorite, ReorderModels, RenameModel, RestoreModelName, Command, Accept
    <2> QED
      BY <1>3, <2>1, UnchangedSteps DEF OnDisk
  <1>4. CASE ScheduledFlush \/ ShutdownFlush
    <2>1. UNCHANGED <<disk, loaded>>
      BY <1>4 DEF ScheduledFlush, ShutdownFlush, Flush
    <2>2. Idle' \/ op'.doc = Current
      BY <1>4 DEF ScheduledFlush, ShutdownFlush, Flush, Idle, Current, InMemory
    <2> QED
      BY <2>1, <2>2, UnchangedSteps DEF OnDisk
  <1>5. CASE Write
    <2>1. /\ UNCHANGED loaded /\ disk' = op.doc /\ InMemory /\ ~Idle
          /\ op.doc \in Documents /\ op.doc # Absent /\ op' = [op EXCEPT !.at = "apply"]
      BY <1>5, Types, DirectoryAssumption DEF Inv, AtRest, Write, memory, Idle
    <2>2. OnDisk' = op.doc /\ op'.doc = op.doc
      BY <2>1, Types DEF Inv, OnDisk, Ops
    <2> QED
      BY <2>1, <2>2, UnchangedSteps
  <1>6. CASE Refuse
    <2>1. UNCHANGED <<disk, loaded>> /\ Idle'
      BY <1>6 DEF Refuse, memory, Idle
    <2> QED
      BY <2>1, UnchangedSteps DEF OnDisk
  <1>7. CASE ApplyCommand
    <2>1. /\ ~Idle /\ op.doc \in Documents /\ op.doc # Absent /\ op.changed \in BOOLEAN
          /\ Unapplied /\ (~op.changed => op.doc = loaded)
      BY <1>7, Types, DirectoryAssumption DEF Inv, ApplyCommand, Operation, Idle, Unapplied
    <2>2. /\ loaded' = op.doc /\ Idle' /\ UNCHANGED disk
          /\ revision' = IF op.changed THEN revision + 1 ELSE revision
      BY <1>7 DEF ApplyCommand, Idle
    <2> QED
      BY <2>1, <2>2 DEF Current, InMemory, OnDisk, Inv, TypeOK
  <1>8. CASE ApplyFlush
    <2>1. UNCHANGED <<disk, loaded>> /\ Idle'
      BY <1>8 DEF ApplyFlush, Idle
    <2> QED
      BY <2>1, UnchangedSteps DEF OnDisk
  <1>9. CASE ApplyMigration
    BY <1>9, MigrationSteps
  <1>10. CASE Restart
    <2>1. ~InMemory' /\ Idle' /\ UNCHANGED disk /\ OnDisk' = OnDisk /\ Current' = OnDisk
      BY <1>10 DEF Restart, InMemory, Idle, OnDisk, Current
    <2>2. Unapplied => OnDisk = op.doc
      BY Types, DirectoryAssumption DEF Inv, Operation, Unapplied, OnDisk
    <2> QED
      BY <2>1, <2>2
  <1>11. CASE UNCHANGED vars
    <2>1. UNCHANGED <<disk, loaded, op>> /\ Idle' = Idle
      BY <1>11 DEF vars, Idle
    <2> QED
      BY <2>1, UnchangedSteps DEF OnDisk
  <1> QED
    BY <1>1, <1>2, <1>3, <1>4, <1>5, <1>6, <1>7, <1>8, <1>9, <1>10, <1>11 DEF Next, Apply

-----------------------------------------------------------------------------
\* Limits on favourites: discoveries are no favourites, and a rename moves one.
LEMMA FavoriteSets ==
  ASSUME NEW d \in Documents
  PROVE  /\ FavoriteProviders(d) \subseteq Providers /\ IsFiniteSet(FavoriteProviders(d))
         /\ FavoriteModels(d) \subseteq Aliases /\ IsFiniteSet(FavoriteModels(d))
  <1>1. FavoriteProviders(d) \subseteq Providers /\ FavoriteModels(d) \subseteq Aliases
    BY DEF FavoriteProviders, Known, FavoriteModels, Listed
  <1> QED
    BY <1>1, FS_Subset, DirectoryAssumption

\* One more favourite while below the limit is within the limit.
LEMMA OneMore ==
  ASSUME NEW S, IsFiniteSet(S), NEW x, NEW T, T \subseteq S \cup {x}, NEW limit \in Nat,
         Cardinality(S) <= limit, x \in T /\ x \notin S => Cardinality(S) < limit
  PROVE  Cardinality(T) <= limit
  <1>1. CASE x \in T /\ x \notin S
    <2>1. IsFiniteSet(S \cup {x}) /\ Cardinality(S \cup {x}) = Cardinality(S) + 1
      BY <1>1, FS_AddElement
    <2>2. Cardinality(T) <= Cardinality(S \cup {x})
      BY <2>1, FS_Subset
    <2>3. Cardinality(S) \in Nat /\ Cardinality(T) \in Nat
      BY <2>1, FS_Subset, FS_CardinalityType
    <2> QED
      BY <1>1, <2>1, <2>2, <2>3
  <1>2. CASE ~(x \in T /\ x \notin S)
    <2>1. T \subseteq S
      BY <1>2
    <2>2. IsFiniteSet(T) /\ Cardinality(T) <= Cardinality(S)
      BY <2>1, FS_Subset
    <2>3. Cardinality(S) \in Nat /\ Cardinality(T) \in Nat
      BY <2>2, FS_CardinalityType
    <2> QED
      BY <2>2, <2>3
  <1> QED
    BY <1>1, <1>2

LEMMA GrownFavorites ==
  ASSUME NEW d \in Documents, NEW e \in Documents, Grown(d, e), WithinLimits(d)
  PROVE  WithinLimits(e)
  <1>1. FavoriteProviders(e) = FavoriteProviders(d)
    BY NewEntries DEF Grown, FavoriteProviders, Known, NewProvider
  <1>2. FavoriteModels(e) = FavoriteModels(d)
    BY NewEntries DEF Grown, FavoriteModels, Listed
  <1> QED
    BY <1>1, <1>2 DEF WithinLimits

LEMMA RenamedFavorites ==
  ASSUME NEW d \in Documents, NEW a \in Listed(d), NEW b \in Aliases,
         b = a \/ d.models[b] = Absent, WithinLimits(d)
  PROVE  WithinLimits(Renamed(d, a, b))
  <1> DEFINE e == Renamed(d, a, b)
             S == FavoriteModels(d)
  <1>1. /\ e.models = [x \in Aliases |->
             IF x = b THEN d.models[a] ELSE IF x = a THEN Absent ELSE d.models[x]]
        /\ e.providers = d.providers
    BY DEF Renamed, Documents
  <1> HIDE DEF e
  <1>2. FavoriteProviders(e) = FavoriteProviders(d)
    BY <1>1 DEF FavoriteProviders, Known
  <1>3. FavoriteModels(e) \subseteq (IF a \in S THEN (S \ {a}) \cup {b} ELSE S)
    BY <1>1 DEF FavoriteModels, Listed
  <1>4. IsFiniteSet(S) /\ Cardinality(S) \in Nat /\ Cardinality(S) <= MaxFavoriteModels
    BY FavoriteSets, FS_CardinalityType DEF WithinLimits
  <1> HIDE DEF S
  <1>5. Cardinality(FavoriteModels(e)) <= MaxFavoriteModels
    <2>1. CASE a \in S
      <3>1. /\ IsFiniteSet(S \ {a}) /\ Cardinality(S \ {a}) = Cardinality(S) - 1
        BY <1>4, <2>1, FS_RemoveElement
      <3>2. FavoriteModels(e) \subseteq (S \ {a}) \cup {b}
        BY <1>3, <2>1
      <3>3. Cardinality(S \ {a}) < MaxFavoriteModels
        BY <1>4, <3>1, DirectoryAssumption
      <3>4. Cardinality(S \ {a}) <= MaxFavoriteModels
        BY <1>4, <3>1, <3>3, DirectoryAssumption
      <3> DEFINE R == S \ {a}
                 T == FavoriteModels(e)
      <3>5. IsFiniteSet(R) /\ T \subseteq R \cup {b} /\ Cardinality(R) <= MaxFavoriteModels
            /\ Cardinality(R) < MaxFavoriteModels /\ MaxFavoriteModels \in Nat
        BY <3>1, <3>2, <3>3, <3>4, DirectoryAssumption
      <3> HIDE DEF R, T
      <3>6. Cardinality(T) <= MaxFavoriteModels
        BY <3>5, OneMore
      <3> QED
        BY <3>6 DEF T
    <2>2. CASE a \notin S
      <3>1. FavoriteModels(e) \subseteq S
        BY <1>3, <2>2
      <3>2. /\ IsFiniteSet(FavoriteModels(e)) /\ Cardinality(FavoriteModels(e)) \in Nat
            /\ Cardinality(FavoriteModels(e)) <= Cardinality(S)
        BY <1>4, <3>1, FS_Subset, FS_CardinalityType
      <3> QED
        BY <1>4, <3>2, DirectoryAssumption
    <2> QED
      BY <2>1, <2>2
  <1> QED
    BY <1>2, <1>5 DEF WithinLimits, e

LEMMA ProviderFavorites ==
  ASSUME NEW d \in Documents, NEW p \in Known(d), NEW b \in BOOLEAN, WithinLimits(d)
  PROVE  /\ WithinLimits([d EXCEPT !.providers[p].enabled = b])
         /\ (b /\ p \notin FavoriteProviders(d)
               => BelowLimit(FavoriteProviders(d), MaxFavoriteProviders))
            => WithinLimits([d EXCEPT !.providers[p].favorite = b])
  <1> DEFINE on == [d EXCEPT !.providers[p].enabled = b]
             fav == [d EXCEPT !.providers[p].favorite = b]
  <1>1. d.providers[p] \in ProviderEntries /\ p \in Providers
    BY EntryTypes DEF Known
  <1>2. /\ on.models = d.models /\ fav.models = d.models
        /\ on.providers = [d.providers EXCEPT ![p] = [d.providers[p] EXCEPT !.enabled = b]]
        /\ fav.providers = [d.providers EXCEPT ![p] = [d.providers[p] EXCEPT !.favorite = b]]
        /\ d.providers \in [Providers -> ProviderEntries \cup {Absent}]
    BY DEF Documents
  <1>3. /\ [d.providers[p] EXCEPT !.enabled = b] \in ProviderEntries
        /\ [d.providers[p] EXCEPT !.enabled = b].favorite = d.providers[p].favorite
        /\ [d.providers[p] EXCEPT !.favorite = b] \in ProviderEntries
        /\ [d.providers[p] EXCEPT !.favorite = b].favorite = b
    BY <1>1 DEF ProviderEntries
  <1> HIDE DEF on, fav
  <1>4. FavoriteModels(on) = FavoriteModels(d) /\ FavoriteModels(fav) = FavoriteModels(d)
    BY <1>2 DEF FavoriteModels, Listed
  <1>5. FavoriteProviders(on) = FavoriteProviders(d)
    <2>1. on.providers[p] # Absent /\ d.providers[p] # Absent
          /\ on.providers[p].favorite = d.providers[p].favorite
      <3>1. on.providers[p] = [d.providers[p] EXCEPT !.enabled = b]
        BY <1>1, <1>2
      <3>2. Absent \notin ProviderEntries
        BY DirectoryAssumption
      <3> QED
        BY <1>1, <1>3, <3>1, <3>2
    <2>2. \A q \in Providers : q # p => on.providers[q] = d.providers[q]
      BY <1>2
    <2> QED
      BY <2>1, <2>2 DEF FavoriteProviders, Known
  <1>6. /\ FavoriteProviders(fav) \subseteq FavoriteProviders(d) \cup {p}
        /\ p \in FavoriteProviders(fav) => b
    BY <1>1, <1>2, <1>3, DirectoryAssumption DEF FavoriteProviders, Known
  <1>7. ASSUME b /\ p \notin FavoriteProviders(d)
                 => BelowLimit(FavoriteProviders(d), MaxFavoriteProviders)
        PROVE  Cardinality(FavoriteProviders(fav)) <= MaxFavoriteProviders
    BY <1>6, <1>7, FavoriteSets, OneMore, DirectoryAssumption DEF WithinLimits, BelowLimit
  <1> QED
    BY <1>4, <1>5, <1>7 DEF WithinLimits, on, fav

LEMMA ModelFavorites ==
  ASSUME NEW d \in Documents, NEW a \in Named(d), NEW b \in BOOLEAN, WithinLimits(d)
  PROVE  /\ WithinLimits([d EXCEPT !.models[a].enabled = b])
         /\ (b /\ a \notin FavoriteModels(d)
               => BelowLimit(FavoriteModels(d), MaxFavoriteModels))
            => WithinLimits([d EXCEPT !.models[a].favorite = b])
  <1> DEFINE on == [d EXCEPT !.models[a].enabled = b]
             fav == [d EXCEPT !.models[a].favorite = b]
  <1>1. d.models[a] \in ModelEntries /\ a \in Aliases
    BY EntryTypes DEF Named, Listed
  <1>2. /\ on.providers = d.providers /\ fav.providers = d.providers
        /\ on.models = [d.models EXCEPT ![a] = [d.models[a] EXCEPT !.enabled = b]]
        /\ fav.models = [d.models EXCEPT ![a] = [d.models[a] EXCEPT !.favorite = b]]
        /\ d.models \in [Aliases -> ModelEntries \cup {Absent}]
    BY DEF Documents
  <1>3. /\ [d.models[a] EXCEPT !.enabled = b] \in ModelEntries
        /\ [d.models[a] EXCEPT !.enabled = b].favorite = d.models[a].favorite
        /\ [d.models[a] EXCEPT !.favorite = b] \in ModelEntries
        /\ [d.models[a] EXCEPT !.favorite = b].favorite = b
    BY <1>1 DEF ModelEntries
  <1> HIDE DEF on, fav
  <1>4. /\ FavoriteProviders(on) = FavoriteProviders(d)
        /\ FavoriteProviders(fav) = FavoriteProviders(d)
    BY <1>2 DEF FavoriteProviders, Known
  <1>5. FavoriteModels(on) = FavoriteModels(d)
    BY <1>1, <1>2, <1>3, DirectoryAssumption DEF FavoriteModels, Listed
  <1>6. /\ FavoriteModels(fav) \subseteq FavoriteModels(d) \cup {a}
        /\ a \in FavoriteModels(fav) => b
    BY <1>1, <1>2, <1>3, DirectoryAssumption DEF FavoriteModels, Listed
  <1>7. ASSUME b /\ a \notin FavoriteModels(d)
                 => BelowLimit(FavoriteModels(d), MaxFavoriteModels)
        PROVE  Cardinality(FavoriteModels(fav)) <= MaxFavoriteModels
    BY <1>6, <1>7, FavoriteSets, OneMore, DirectoryAssumption DEF WithinLimits, BelowLimit
  <1> QED
    BY <1>4, <1>5, <1>7 DEF WithinLimits, on, fav

\* What a command writes is within the limits, as is what it was decided on.
Limited == FavoritesLimited /\ (~Idle => WithinLimits(op.doc))

LEMMA CommandLimited ==
  ASSUME Inv, Limited, UserCommand
  PROVE  Idle' \/ WithinLimits(op'.doc)
  <1>1. /\ loaded \in Documents /\ WithinLimits(loaded)
    <2>1. InMemory
      BY DEF UserCommand, SetPort, SetProviderOn, SetProviderFavorite, SetModelOn,
         SetModelFavorite, ReorderModels, RenameModel, RestoreModelName, InMemory
    <2> QED
      BY <2>1, Types DEF Inv, Limited, FavoritesLimited
  <1>2. ASSUME NEW next, NEW changed, Accept(next, changed)
        PROVE  Idle' \/ op'.doc = next
    BY <1>2 DEF Accept, Idle
  <1>3. ASSUME \E next : WithinLimits(next) /\ \E changed : Accept(next, changed)
        PROVE  Idle' \/ WithinLimits(op'.doc)
    BY <1>2, <1>3
  <1>4. CASE SetPort
    <2>1. PICK n \in Ports : Command([loaded EXCEPT !.port = n])
      BY <1>4 DEF SetPort
    <2> DEFINE e == [loaded EXCEPT !.port = n]
    <2>2. e.models = loaded.models /\ e.providers = loaded.providers
      BY <1>1 DEF Documents
    <2>3. Accept(e, e # loaded)
      BY <2>1 DEF Command
    <2> HIDE DEF e
    <2>4. WithinLimits(e)
      BY <1>1, <2>2 DEF WithinLimits, FavoriteProviders, Known, FavoriteModels, Listed
    <2> QED
      BY <1>3, <2>3, <2>4
  <1>5. CASE SetProviderOn
    BY <1>1, <1>3, <1>5, ProviderFavorites DEF SetProviderOn, Command
  <1>6. CASE SetProviderFavorite
    BY <1>1, <1>3, <1>6, ProviderFavorites DEF SetProviderFavorite, Command
  <1>7. CASE SetModelOn
    BY <1>1, <1>3, <1>7, ModelFavorites DEF SetModelOn, Command
  <1>8. CASE SetModelFavorite
    BY <1>1, <1>3, <1>8, ModelFavorites DEF SetModelFavorite, Command
  <1>9. CASE ReorderModels
    BY <1>1, <1>3, <1>9 DEF ReorderModels
  <1>10. CASE RenameModel
    <2>1. PICK a \in Named(loaded), b \in Aliases :
            (b = a \/ loaded.models[b] = Absent) /\ Command(Renamed(loaded, a, b))
      BY <1>10 DEF RenameModel
    <2>2. WithinLimits(Renamed(loaded, a, b))
      BY <1>1, <2>1, RenamedFavorites DEF Named
    <2> QED
      BY <1>3, <2>1, <2>2 DEF Command
  <1>11. CASE RestoreModelName
    <2>1. PICK a \in Named(loaded) :
            \E i \in DOMAIN Default[loaded.models[a].target] :
              LET b == Default[loaded.models[a].target][i] IN
                (loaded.models[b] = Absent \/ b = a) /\ Command(Renamed(loaded, a, b))
      BY <1>11 DEF RestoreModelName
    <2> DEFINE default == Default[loaded.models[a].target]
    <2>2. PICK i \in DOMAIN default :
            (loaded.models[default[i]] = Absent \/ default[i] = a)
              /\ Command(Renamed(loaded, a, default[i]))
      BY <2>1
    <2>3. a \in Listed(loaded) /\ loaded.models[a].target \in Models
      BY <1>1, EntryTypes DEF Named, ModelEntries
    <2>4. default[i] \in Aliases
      BY <2>3, DirectoryAssumption
    <2>5. WithinLimits(Renamed(loaded, a, default[i]))
      BY <1>1, <2>2, <2>3, <2>4, RenamedFavorites
    <2> QED
      BY <1>3, <2>2, <2>5 DEF Command
  <1> QED
    BY <1>4, <1>5, <1>6, <1>7, <1>8, <1>9, <1>10, <1>11 DEF UserCommand

LEMMA EmptyLimited ==
  /\ WithinLimits(EmptyDocument)
  /\ \A m \in Models : WithinLimits(LegacyDocument({m}))
  <1>1. FavoriteProviders(EmptyDocument) = {} /\ FavoriteModels(EmptyDocument) = {}
    BY DEF EmptyDocument, FavoriteProviders, Known, FavoriteModels, Listed
  <1>2. ASSUME NEW m \in Models
        PROVE  /\ FavoriteProviders(LegacyDocument({m})) = {}
               /\ FavoriteModels(LegacyDocument({m})) = {}
    <2> DEFINE d == LegacyDocument({m})
    <2>1. /\ d.models = [a \in Aliases |-> IF Default[m][1] = a THEN NewModel(m) ELSE Absent]
          /\ d.providers = [p \in Providers |-> IF Owner[m] = p THEN NewProvider ELSE Absent]
      BY DEF LegacyDocument
    <2> HIDE DEF d
    <2>2. FavoriteProviders(d) = {} /\ FavoriteModels(d) = {}
      BY <2>1, NewEntries DEF FavoriteProviders, Known, FavoriteModels, Listed, NewProvider
    <2> QED
      BY <2>2 DEF d
  <1>3. \A d : FavoriteProviders(d) = {} /\ FavoriteModels(d) = {} => WithinLimits(d)
    <2>1. Cardinality({}) = 0 /\ MaxFavoriteProviders \in Nat /\ MaxFavoriteModels \in Nat
      BY FS_EmptySet, DirectoryAssumption
    <2> QED
      BY <2>1 DEF WithinLimits
  <1> QED
    BY <1>1, <1>2, <1>3

LEMMA InitLimited == Init => Limited
  BY EmptyLimited DEF Init, Limited, FavoritesLimited, OnDisk, InMemory, Idle

LEMMA NextLimited == Inv /\ Limited /\ [Next]_vars => Limited'
  <1> SUFFICES ASSUME Inv, Limited, [Next]_vars PROVE Limited'
    OBVIOUS
  <1>1. Inv'
    BY NextInv
  <1>2. Current \in Documents /\ Current' \in Documents /\ WithinLimits(Current)
        /\ WithinLimits(OnDisk) /\ (~Idle => WithinLimits(op.doc))
    <2>1. Current \in Documents
      BY Types DEF Inv, Current
    <2>2. OnDisk' \in Documents /\ (InMemory' => loaded' \in Documents)
      BY <1>1, EmptyType DEF Inv, TypeOK, OnDisk, InMemory
    <2> QED
      BY <2>1, <2>2 DEF Limited, FavoritesLimited, Current
  <1>3. WithinLimits(OnDisk')
    BY <1>2, Steps
  <1>4. WithinLimits(Current')
    <2>1. CASE Grown(Current, Current')
      BY <1>2, <2>1, GrownFavorites
    <2>2. CASE Unapplied /\ Current' = op.doc
      BY <1>2, <2>2 DEF Unapplied
    <2>3. CASE Current' = OnDisk
      BY <1>2, <2>3
    <2> QED
      BY <2>1, <2>2, <2>3, Steps
  <1>5. Idle' \/ WithinLimits(op'.doc)
    BY <1>2, Steps, CommandLimited
  <1> QED
    BY <1>3, <1>4, <1>5 DEF Limited, FavoritesLimited, Current, InMemory, OnDisk, Idle,
       WithinLimits, FavoriteProviders, FavoriteModels, Known, Listed, EmptyDocument

-----------------------------------------------------------------------------
\* Every variable keeps its type, whatever users, reports and crashes do.
THEOREM TypeCorrect == Spec => []TypeOK
  <1>1. Inv => TypeOK
    BY DEF Inv
  <1> QED
    BY <1>1, Invariance, PTL

\* Neither in memory nor on disk do two aliases stand for one model.
THEOREM TargetsStayDistinct == Spec => []TargetsDistinct
  <1>1. Inv => TargetsDistinct
    BY DEF Inv, AllUnambiguous, TargetsDistinct
  <1> QED
    BY <1>1, Invariance, PTL

\* No sequence of commands, discoveries, renames and crashes passes the limits on
\* favourites.
THEOREM FavoritesStayLimited == Spec => []FavoritesLimited
  <1>1. Inv /\ Limited /\ [Next]_vars => (Inv /\ Limited)'
    BY NextInv, NextLimited
  <1>2. Init => Inv /\ Limited
    BY InitInv, InitLimited
  <1>3. Limited => FavoritesLimited
    BY DEF Limited
  <1> QED
    BY <1>1, <1>2, <1>3, PTL DEF Spec

\* Between operations, what counts as persisted is what the file holds.
THEOREM PersistedStaysOnDisk == Spec => []PersistedIsOnDisk
  <1>1. Inv => PersistedIsOnDisk
    BY DEF Inv, Settled, PersistedIsOnDisk
  <1> QED
    BY <1>1, Invariance, PTL

\* No discovery waits without a scheduled flush, a running write or a failed flush.
THEOREM PendingStaysScheduled == Spec => []PendingIsScheduled
  <1>1. Inv => PendingIsScheduled
    BY DEF Inv
  <1> QED
    BY <1>1, Invariance, PTL

\* Requests always resolve against the document and the facts in memory.
THEOREM SnapshotStaysCurrent == Spec => []SnapshotIsCurrent
  <1>1. Inv => SnapshotIsCurrent
    BY DEF Inv
  <1> QED
    BY <1>1, Invariance, PTL

\* What a run checks as one invariant holds for all Providers, models and limits:
\* document, file, timer and snapshot belong together.
THEOREM DirectoryStaysConsistent == Spec => []DirectoryConsistent
  BY TypeCorrect, FavoritesStayLimited, PersistedStaysOnDisk, PendingStaysScheduled,
     SnapshotStaysCurrent, PTL DEF DirectoryConsistent

\* Within a process a revision never stands for two documents.
THEOREM RevisionsNameDocuments == Spec => RevisionNamesDocument
  <1>1. Inv /\ [Next]_vars
          => [InMemory /\ loaded' # Absent /\ revision' = revision => loaded' = loaded]_vars
    BY Steps DEF InMemory
  <1> QED
    BY <1>1, Invariance, PTL DEF Spec, RevisionNamesDocument

\* An alias that reached the disk answers for its model until a user's command
\* gives it to another or takes it away.
THEOREM AliasesKeepModels == Spec => AliasKeepsModel
  <1>1. ASSUME Inv, [Next]_vars, ~Unapplied, NEW a \in Listed(Current)
        PROVE  \/ a \in Listed(Current') /\ Current'.models[a].target = Current.models[a].target
               \/ loaded' = Absent /\ a \notin Listed(OnDisk)
    <2>1. Current \in Documents /\ Current' \in Documents
      <3>1. Inv'
        BY <1>1, NextInv
      <3> QED
        BY <1>1, <3>1, Types, EmptyType DEF Inv, TypeOK, Current, InMemory, OnDisk
    <2>2. CASE Grown(Current, Current')
      BY <2>1, <2>2, GrownTargets
    <2>3. CASE ~InMemory' /\ Current' = OnDisk
      <3>1. Grown(OnDisk, Current) /\ OnDisk \in Documents
        BY <1>1, <2>1, Types, GrownReflexive DEF Inv, Ahead, Current
      <3>2. a \in Listed(OnDisk) => Current.models[a] = OnDisk.models[a]
        BY <2>1, <3>1, GrownTargets
      <3> QED
        BY <2>3, <3>2 DEF InMemory
    <2> QED
      BY <1>1, <2>2, <2>3, Steps
  <1>2. Inv /\ [Next]_vars
          => [\A a \in Listed(Current) :
                \/ a \in Listed(Current') /\ Current'.models[a].target = Current.models[a].target
                \/ op # NoOp /\ op.kind = "user" /\ op.at = "apply"
                \/ loaded' = Absent /\ a \notin Listed(OnDisk)]_vars
    BY <1>1 DEF Unapplied, Idle
  <1> QED
    BY <1>2, Invariance, PTL DEF Spec, AliasKeepsModel

\* What a user chose changes only to what an acknowledged command wrote.
THEOREM ChoicesStay == Spec => ChoicesSurvive
  <1>1. ASSUME Inv, [Next]_vars
        PROVE  \/ Choices(Current') = Choices(Current)
               \/ Unapplied /\ Choices(Current') = Choices(op.doc)
    <2>1. /\ Current \in Documents /\ Current' \in Documents
          /\ Unambiguous(Current) /\ Unambiguous(Current')
      <3>1. Inv'
        BY <1>1, NextInv
      <3>2. Unambiguous(Current) /\ Unambiguous(Current)'
        BY <1>1, <3>1 DEF Inv, AllUnambiguous, Current
      <3> QED
        BY <1>1, <3>1, <3>2, Types, EmptyType DEF Inv, TypeOK, Current, InMemory, OnDisk,
           Unambiguous
    <2>2. CASE Grown(Current, Current')
      BY <2>1, <2>2, GrownChoices
    <2>3. CASE Unapplied /\ Current' = op.doc
      BY <2>3
    <2>4. CASE ~Unapplied /\ ~InMemory' /\ Current' = OnDisk
      <3>1. Grown(OnDisk, Current) /\ OnDisk \in Documents
        BY <1>1, <2>1, <2>4, Types, GrownReflexive DEF Inv, Ahead, Current
      <3> QED
        BY <2>1, <2>4, <3>1, GrownChoices
    <2> QED
      BY <1>1, <2>2, <2>3, <2>4, Steps
  <1>2. Inv /\ [Next]_vars
          => [\/ Choices(Current') = Choices(Current)
              \/ op # NoOp /\ op.kind = "user" /\ op.at = "apply"
                   /\ Choices(Current') = Choices(op.doc)]_vars
    BY <1>1 DEF Unapplied, Idle
  <1> QED
    BY <1>2, Invariance, PTL DEF Spec, ChoicesSurvive
=============================================================================
