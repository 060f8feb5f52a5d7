----------------------------- MODULE PublicModels -----------------------------
(***************************************************************************)
(* The public model directory (public-models/authority): which models the  *)
(* gateway offers, under which aliases, and what the user chose for them.  *)
(*                                                                         *)
(* Discoveries of the runtime are added in memory and written later, by a  *)
(* debounced flush; what a user changes is written before it is applied.   *)
(* Operations run one at a time (operationTail), so an operation is what   *)
(* it decides, a write that lands or fails, and what it applies; in between *)
(* the process can die.                                                    *)
(*                                                                         *)
(* A model stands for a provider id and a model id, an alias carries its   *)
(* provider's prefix, and the order models are listed in is left out.      *)
(***************************************************************************)
EXTENDS Naturals, Sequences, FiniteSets

CONSTANTS Providers, Models, Aliases,
          Owner,         \* the Provider of each model
          Prefix,        \* the Provider whose prefix each alias has
          Default,       \* Default[m]: its default alias, then "-2", "-3", ...
          Ports,
          InitialPort,
          Absent,        \* undefined, or ENOENT
          Reports,       \* bound: what the runtime may report (reconcilePublicModels)
          MaxFavoriteProviders, MaxFavoriteModels,
          MaxChanges     \* bound: changes of the document in a behaviour

ProviderEntries == [enabled : BOOLEAN, favorite : BOOLEAN]
ModelEntries == [target : Models, enabled : BOOLEAN, favorite : BOOLEAN]
Documents == [port : Ports,
              providers : [Providers -> ProviderEntries \cup {Absent}],
              models : [Aliases -> ModelEntries \cup {Absent}]]

\* What the runtime reports: its Providers, which are usable, and their models.
Facts == [present : SUBSET Providers, usable : SUBSET Providers, models : SUBSET Models]

ASSUME DirectoryAssumption ==
  /\ IsFiniteSet(Providers) /\ IsFiniteSet(Aliases)
  /\ Owner \in [Models -> Providers] /\ Prefix \in [Aliases -> Providers]
  /\ Default \in [Models -> Seq(Aliases)] /\ \A m \in Models : Default[m] # <<>>
  /\ InitialPort \in Ports
  /\ MaxFavoriteProviders \in Nat /\ MaxFavoriteModels \in Nat /\ MaxChanges \in Nat
  /\ Absent \notin ProviderEntries \cup ModelEntries \cup Documents
  /\ Reports \subseteq Facts

\* The built-in Providers are always there, and a model has its Provider.
ASSUME ReportAssumption ==
  \A f \in Reports :
    /\ f.present # {} /\ f.usable \subseteq f.present
    /\ \A m \in f.models : Owner[m] \in f.present

NewProvider == [enabled |-> TRUE, favorite |-> FALSE]
NewModel(m) == [target |-> m, enabled |-> TRUE, favorite |-> FALSE]

VARIABLES
  disk,       \* public-models.json
  legacy,     \* the file has schema version 1
  loaded,     \* the document in memory
  revision, persistedRevision,
  facts,      \* currentFacts
  snapshot,   \* currentSnapshot: the document and the aliases it publishes
  timer,      \* a flush is scheduled
  op,         \* the operation that writes
  changes,    \* how often the document changed, in this process or before
  unflushed   \* history: a flush has failed and nothing was written since

memory == <<loaded, revision, persistedRevision, facts, snapshot, timer>>
vars == <<disk, legacy, loaded, revision, persistedRevision, facts, snapshot,
          timer, op, changes, unflushed>>

EmptyDocument ==
  [port |-> InitialPort, providers |-> [p \in Providers |-> Absent],
   models |-> [a \in Aliases |-> Absent]]

NoFacts == [present |-> {}, usable |-> {}, models |-> {}]

Listed(d) == {a \in Aliases : d.models[a] # Absent}
Targets(d) == {d.models[a].target : a \in Listed(d)}
Known(d) == {p \in Providers : d.providers[p] # Absent}

\* provider.on && model.on, and the runtime has the model.
Published(d, f) ==
  {a \in Listed(d) :
     LET m == d.models[a] p == Owner[m.target] IN
       /\ d.providers[p] # Absent /\ d.providers[p].enabled /\ p \in f.usable
       /\ m.enabled /\ m.target \in f.models}

Snapshot(d, f) == [document |-> d, published |-> Published(d, f)]

\* kind: a user's command, a flush, or the migration within a reconcile.
NoOp == [at |-> "none"]
Ops == [at : {"write", "apply"}, kind : {"user", "flush", "migrate"},
        doc : Documents, changed : BOOLEAN, facts : Facts]
Idle == op = NoOp

TypeOK ==
  /\ disk \in Documents \cup {Absent} /\ legacy \in BOOLEAN
  /\ loaded \in Documents \cup {Absent}
  /\ revision \in Nat /\ persistedRevision \in Nat
  /\ facts \in Facts
  /\ snapshot \in [document : Documents, published : SUBSET Aliases]
  /\ timer \in BOOLEAN /\ op \in Ops \cup {NoOp}
  /\ changes \in Nat /\ unflushed \in BOOLEAN

\* There is no file yet, or one of schema version 1 that an older version left,
\* with a model each under its first default alias.
LegacyDocument(kept) ==
  [port |-> InitialPort,
   providers |-> [p \in Providers |->
     IF \E m \in kept : Owner[m] = p THEN NewProvider ELSE Absent],
   models |-> [a \in Aliases |->
     IF \E m \in kept : Default[m][1] = a
     THEN NewModel(CHOOSE m \in kept : Default[m][1] = a) ELSE Absent]]

Init ==
  /\ loaded = Absent /\ revision = 0 /\ persistedRevision = 0
  /\ facts = NoFacts /\ snapshot = Snapshot(EmptyDocument, NoFacts)
  /\ timer = FALSE /\ op = NoOp /\ changes = 0 /\ unflushed = FALSE
  /\ \/ disk = Absent /\ legacy = FALSE
     \/ legacy = TRUE /\ \E m \in Models : disk = LegacyDocument({m})

-----------------------------------------------------------------------------
\* reconcile: what the runtime knows and the document does not is added.
\* A mutant of Discovered: what the document knows under another alias is new.
DiscoveredAgain(d, f) ==
  {m \in f.models : d.models[Default[m][1]] = Absent \/ d.models[Default[m][1]].target # m}

Discovered(d, f) == f.models \ Targets(d)

\* A mutant of Allocations: the default alias is taken whether it is free or not.
AllocationsUnchecked(d, new) ==
  {alloc \in [new -> Aliases] :
     \A m \in new : /\ alloc[m] = Default[m][1]
                    /\ \A n \in new : alloc[n] = alloc[m] => n = m}

\* A default alias is the first of its names that no other model has taken.
Allocations(d, new) ==
  {alloc \in [new -> Aliases] :
     \A m \in new :
       /\ d.models[alloc[m]] = Absent
       /\ \A n \in new : alloc[n] = alloc[m] => n = m
       /\ \E i \in DOMAIN Default[m] :
            /\ alloc[m] = Default[m][i]
            /\ \A j \in 1..(i - 1) :
                 \/ d.models[Default[m][j]] # Absent
                 \/ \E n \in new \ {m} : alloc[n] = Default[m][j]}

Materialized(d, f, alloc) ==
  [d EXCEPT
    !.providers = [p \in Providers |->
       IF d.providers[p] = Absent /\ p \in f.present THEN NewProvider ELSE d.providers[p]],
    !.models = [a \in Aliases |->
       IF \E m \in Discovered(d, f) : alloc[m] = a
       THEN NewModel(CHOOSE m \in Discovered(d, f) : alloc[m] = a)
       ELSE d.models[a]]]

NextRevision(changed) == revision' = IF changed THEN revision + 1 ELSE revision

\* scheduleFlush, after a change.
Rescheduled(changed) == timer' = (timer \/ changed)

\* A mutant of Rebuilt: new facts alone do not build a snapshot.
RebuiltOnChange(next, f, changed) ==
  snapshot' = IF changed THEN Snapshot(next, f) ELSE snapshot

Rebuilt(next, f, changed) ==
  snapshot' = IF changed \/ f # facts THEN Snapshot(next, f) ELSE snapshot

Materialize(d, f) ==
  \E alloc \in Allocations(d, Discovered(d, f)) :
    LET next == Materialized(d, f, alloc)
        changed == next # d IN
      /\ changed => changes < MaxChanges
      /\ changes' = IF changed THEN changes + 1 ELSE changes
      /\ loaded' = next /\ facts' = f
      /\ NextRevision(changed) /\ Rescheduled(changed) /\ Rebuilt(next, f, changed)
      /\ UNCHANGED <<persistedRevision, unflushed>>

OnDisk == IF disk = Absent THEN EmptyDocument ELSE disk

\* The first reconcile reads the file and, of schema version 1, writes it anew.
Reconcile(f) ==
  /\ Idle /\ (loaded # Absent \/ ~legacy)
  /\ Materialize(IF loaded = Absent THEN OnDisk ELSE loaded, f)
  /\ UNCHANGED <<disk, legacy, op>>

ReconcileLegacy(f) ==
  /\ Idle /\ loaded = Absent /\ legacy
  /\ loaded' = disk
  /\ op' = [at |-> "write", kind |-> "migrate", doc |-> disk, changed |-> FALSE, facts |-> f]
  /\ UNCHANGED <<disk, legacy, revision, persistedRevision, facts, snapshot, timer,
                 changes, unflushed>>
-----------------------------------------------------------------------------
\* A user's command names the revision it saw; another one is a conflict and
\* changes nothing. commitUserDocument writes a change before it applies it, and
\* writes with it whatever was still waiting for a flush.

Owed(changed) == changed \/ persistedRevision < revision

Accept(next, changed) ==
  /\ Idle /\ loaded # Absent
  /\ changed => changes < MaxChanges
  /\ changes' = IF changed THEN changes + 1 ELSE changes
  /\ IF Owed(changed)
     THEN /\ op' = [at |-> "write", kind |-> "user", doc |-> next, changed |-> changed,
                    facts |-> NoFacts]
          /\ UNCHANGED <<persistedRevision, timer>>
     ELSE op' = NoOp /\ persistedRevision' = revision /\ timer' = FALSE
  /\ UNCHANGED <<disk, legacy, loaded, revision, facts, snapshot, unflushed>>

Command(next) == Accept(next, next # loaded)

SetPort ==
  /\ loaded # Absent
  /\ \E n \in Ports : Command([loaded EXCEPT !.port = n])

SetProviderOn ==
  /\ loaded # Absent
  /\ \E p \in Known(loaded) \cap facts.present, on \in BOOLEAN :
       /\ on => p \in facts.usable
       /\ Command([loaded EXCEPT !.providers[p].enabled = on])

FavoriteProviders(d) == {p \in Known(d) : d.providers[p].favorite}
FavoriteModels(d) == {a \in Listed(d) : d.models[a].favorite}

BelowLimit(chosen, limit) == Cardinality(chosen) < limit

SetProviderFavorite ==
  /\ loaded # Absent
  /\ \E p \in Known(loaded), favorite \in BOOLEAN :
       /\ favorite /\ p \notin FavoriteProviders(loaded)
            => BelowLimit(FavoriteProviders(loaded), MaxFavoriteProviders)
       /\ Command([loaded EXCEPT !.providers[p].favorite = favorite])

\* The models a command can name: their Provider is in the document.
Named(d) == {a \in Listed(d) : Owner[d.models[a].target] \in Known(d)}

SetModelOn ==
  /\ loaded # Absent
  /\ \E a \in Named(loaded), on \in BOOLEAN :
       Command([loaded EXCEPT !.models[a].enabled = on])

SetModelFavorite ==
  /\ loaded # Absent
  /\ \E a \in Named(loaded), favorite \in BOOLEAN :
       /\ favorite /\ a \notin FavoriteModels(loaded)
            => BelowLimit(FavoriteModels(loaded), MaxFavoriteModels)
       /\ Command([loaded EXCEPT !.models[a].favorite = favorite])

\* A permutation of one Provider's models; the order itself is left out.
ReorderModels ==
  /\ loaded # Absent /\ Known(loaded) # {}
  /\ \E changed \in BOOLEAN : Accept(loaded, changed)

Renamed(d, a, b) ==
  [d EXCEPT !.models = [x \in Aliases |->
     IF x = b THEN d.models[a] ELSE IF x = a THEN Absent ELSE d.models[x]]]

\* A name that another model of the Provider has is invalid.
RenameModel ==
  /\ loaded # Absent
  /\ \E a \in Named(loaded), b \in Aliases :
       /\ Prefix[b] = Owner[loaded.models[a].target]
       /\ b = a \/ loaded.models[b] = Absent
       /\ Command(Renamed(loaded, a, b))

\* Back to the first default alias that no other model has.
RestoreModelName ==
  /\ loaded # Absent
  /\ \E a \in Named(loaded) :
       LET default == Default[loaded.models[a].target]
           free(i) == loaded.models[default[i]] = Absent \/ default[i] = a IN
         \E i \in DOMAIN default :
           /\ free(i) /\ \A j \in 1..(i - 1) : ~free(j)
           /\ Command(Renamed(loaded, a, default[i]))

-----------------------------------------------------------------------------
\* flushLatest, when the timer fires or at shutdown.
Flush(due) ==
  /\ Idle /\ due /\ timer' = FALSE
  /\ op' = IF loaded # Absent /\ persistedRevision < revision
            THEN [at |-> "write", kind |-> "flush", doc |-> loaded, changed |-> FALSE,
                  facts |-> NoFacts]
            ELSE NoOp
  /\ UNCHANGED <<disk, legacy, loaded, revision, persistedRevision, facts, snapshot,
                 changes, unflushed>>

ScheduledFlush == Flush(timer)
ShutdownFlush == Flush(loaded # Absent)

\* writeAtomic: the new file is in place, or the old one is still there.
Write ==
  /\ op # NoOp /\ op.at = "write"
  /\ disk' = op.doc /\ legacy' = FALSE /\ unflushed' = FALSE
  /\ op' = [op EXCEPT !.at = "apply"]
  /\ UNCHANGED <<memory, changes>>

\* A mutant of Refuse: the command had been applied before it was written.
RefuseLate ==
  /\ op # NoOp /\ op.at = "write" /\ op' = NoOp
  /\ unflushed' = (unflushed \/ op.kind = "flush")
  /\ loaded' = op.doc
  /\ UNCHANGED <<disk, legacy, revision, persistedRevision, facts, snapshot, timer, changes>>

\* storage_failure; a failed flush is not tried again by itself.
Refuse ==
  /\ op # NoOp /\ op.at = "write" /\ op' = NoOp
  /\ unflushed' = (unflushed \/ op.kind = "flush")
  /\ UNCHANGED <<disk, legacy, memory, changes>>

ApplyCommand ==
  /\ op # NoOp /\ op.at = "apply" /\ op.kind = "user" /\ op' = NoOp
  /\ loaded' = op.doc /\ timer' = FALSE
  /\ revision' = IF op.changed THEN revision + 1 ELSE revision
  /\ persistedRevision' = revision'
  /\ snapshot' = IF op.changed THEN Snapshot(op.doc, facts) ELSE snapshot
  /\ UNCHANGED <<disk, legacy, facts, changes, unflushed>>

\* A mutant of Recorded: the flush does not remember what it wrote.
RecordedNot == UNCHANGED persistedRevision

Recorded == persistedRevision' = revision

ApplyFlush ==
  /\ op # NoOp /\ op.at = "apply" /\ op.kind = "flush" /\ op' = NoOp
  /\ Recorded
  /\ UNCHANGED <<disk, legacy, loaded, revision, facts, snapshot, timer, changes, unflushed>>

ApplyMigration ==
  /\ op # NoOp /\ op.at = "apply" /\ op.kind = "migrate" /\ op' = NoOp
  /\ Materialize(op.doc, op.facts)
  /\ UNCHANGED <<disk, legacy>>

\* The process ends, cleanly or not, and another one starts.
Restart ==
  /\ loaded' = Absent /\ revision' = 0 /\ persistedRevision' = 0
  /\ facts' = NoFacts /\ snapshot' = Snapshot(EmptyDocument, NoFacts)
  /\ timer' = FALSE /\ op' = NoOp /\ unflushed' = FALSE
  /\ UNCHANGED <<disk, legacy, changes>>

Apply == ApplyCommand \/ ApplyFlush \/ ApplyMigration
UserCommand ==
  \/ SetPort \/ SetProviderOn \/ SetProviderFavorite \/ SetModelOn
  \/ SetModelFavorite \/ ReorderModels \/ RenameModel \/ RestoreModelName

Next ==
  \/ \E f \in Reports : Reconcile(f) \/ ReconcileLegacy(f)
  \/ UserCommand \/ ScheduledFlush \/ ShutdownFlush
  \/ Write \/ Refuse \/ Apply \/ Restart

Spec == Init /\ [][Next]_vars

\* The timer fires and its flush is queued, so no command overtakes it for ever
\* (SF); a write lands or fails.
FairSpec == Spec /\ SF_vars(ScheduledFlush) /\ WF_vars(Write \/ Refuse) /\ WF_vars(Apply)

-----------------------------------------------------------------------------
InMemory == loaded # Absent
Current == IF InMemory THEN loaded ELSE OnDisk

\* Two aliases never stand for one model: every command finds its model by its
\* id and takes the first, and a reorder of an ambiguous list is refused.
Unambiguous(d) ==
  \A a, b \in Listed(d) : d.models[a].target = d.models[b].target => a = b
TargetsDistinct == Unambiguous(OnDisk) /\ (InMemory => Unambiguous(loaded))

\* The limits on favourites hold over the whole document, in memory and on disk.
WithinLimits(d) ==
  /\ Cardinality(FavoriteProviders(d)) <= MaxFavoriteProviders
  /\ Cardinality(FavoriteModels(d)) <= MaxFavoriteModels
FavoritesLimited == WithinLimits(OnDisk) /\ (InMemory => WithinLimits(loaded))

\* What counts as persisted is on disk: an acknowledged command, a finished flush.
PersistedIsOnDisk ==
  InMemory /\ Idle /\ persistedRevision = revision => loaded = OnDisk

\* What is not on disk yet is about to be: a flush is scheduled or runs, or the
\* last one failed, which only the next change or the shutdown makes good.
PendingIsScheduled ==
  InMemory /\ persistedRevision < revision => timer \/ ~Idle \/ unflushed

\* The snapshot requests resolve against is that of the document and the facts.
SnapshotIsCurrent ==
  InMemory /\ facts # NoFacts => snapshot = Snapshot(loaded, facts)

\* Every variable has its type, and document, file, timer and snapshot belong
\* together in every state between two steps.
DirectoryConsistent ==
  /\ TypeOK /\ FavoritesLimited
  /\ PersistedIsOnDisk /\ PendingIsScheduled /\ SnapshotIsCurrent

\* A client that saw a revision saw the document: no command overwrites, and no
\* discovery adds, what the author of the next command could not have seen.
RevisionNamesDocument ==
  [][InMemory /\ loaded' # Absent /\ revision' = revision => loaded' = loaded]_vars

\* An alias answers for its model until a user renames it, or until the process
\* dies before the alias reached the disk.
AliasKeepsModel ==
  [][\A a \in Listed(Current) :
       \/ a \in Listed(Current') /\ Current'.models[a].target = Current.models[a].target
       \/ op # NoOp /\ op.kind = "user" /\ op.at = "apply"
       \/ loaded' = Absent /\ a \notin Listed(OnDisk)]_vars

\* What a user chose for a model or a Provider changes only when an acknowledged
\* command changes it: no discovery, failed write, migration or crash undoes it.
Choice(d, m) ==
  LET named == {a \in Listed(d) : d.models[a].target = m} IN
    {<<d.models[a].enabled, d.models[a].favorite>> : a \in named}
      \cup (IF named = {} THEN {<<TRUE, FALSE>>} ELSE {})
ProviderChoice(d, p) ==
  IF d.providers[p] = Absent THEN NewProvider ELSE d.providers[p]
Choices(d) ==
  [models |-> [m \in Models |-> Choice(d, m)],
   providers |-> [p \in Providers |-> ProviderChoice(d, p)], port |-> d.port]

ChoicesSurvive ==
  [][\/ Choices(Current') = Choices(Current)
     \/ op # NoOp /\ op.kind = "user" /\ op.at = "apply"
          /\ Choices(Current') = Choices(op.doc)]_vars

\* A discovery reaches the disk, unless its process ends or its flush fails.
DiscoveriesReachDisk ==
  InMemory /\ persistedRevision < revision
    ~> ~InMemory \/ persistedRevision = revision \/ unflushed
=============================================================================
