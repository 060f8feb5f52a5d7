---------------------------- MODULE CatalogRefresh ----------------------------
(***************************************************************************)
(* How dynamic model facts travel (providers/catalog-refresh): a refresh   *)
(* asks a Pi Provider, whose own facts change at once; what it stores is   *)
(* staged (catalog-cache), committed while the Profile selection that      *)
(* fetched it is locked (publishIfCurrent), and then captured for serving. *)
(* Anything that goes wrong on the way is undone, or quarantined.          *)
(*                                                                         *)
(* Runs are serialised; between two awaits of a run the selection moves,   *)
(* other runs are asked for, the Codex overlay recaptures, the Backend     *)
(* stops or dies. `faults` counts what went wrong and only bounds it.      *)
(***************************************************************************)
EXTENDS Naturals, Sequences, FiniteSets

CONSTANTS Order,        \* the dynamic Providers, in the order they refresh
          Contents,     \* model lists a Provider can answer
          Nothing,      \* no dynamic facts
          Reselected,   \* bound: the Providers whose Profile selection changes
          MaxGen,       \* bound: Profile selections of each of them
          MaxQueue,     \* bound: runs waiting in runQueue
          MaxFaults     \* bound: failures, crashes and recaptures in a behaviour

Providers == {Order[i] : i \in DOMAIN Order}
Facts == ((1..MaxGen) \X Contents) \cup {Nothing}

ASSUME CatalogAssumption ==
  /\ Order \in Seq(Providers) /\ Len(Order) = Cardinality(Providers)
  /\ Reselected \subseteq Providers
  /\ MaxGen \in Nat \ {0} /\ MaxFaults \in Nat
  /\ Nothing \notin (1..MaxGen) \X Contents

VARIABLES
  selection,   \* selectionGeneration in each Provider's record
  store,       \* the cache file, per Provider
  live,        \* the mutable facts of each Pi Provider
  served,      \* what createCatalogSnapshotModels captured
  quarantine,  \* restorationQuarantine
  states,      \* providerStates, by their state
  shown,       \* the models of the snapshot last swapped in
  queue,       \* runQueue: the runs behind the one that runs
  pending,     \* pendingBackground, with its microtask scheduled
  run,         \* the run at the head
  phase,       \* "serving", "disposing" or "disposed"
  ever,        \* history: what the cache file ever held
  cutOff,      \* history: Providers whose run was thrown away after it refreshed
  unread,      \* history: the cache could not be read when the Backend booted
  recaptured,  \* history: the overlay captured on its own
  faults       \* how much went wrong so far

facts == <<store, live, served>>
view == <<quarantine, states, shown>>
requests == <<selection, queue, pending>>
history == <<ever, cutOff, unread, recaptured>>
vars == <<selection, store, live, served, quarantine, states, shown, queue,
          pending, run, phase, ever, cutOff, unread, recaptured, faults>>

Unbound == 0    \* no binding: operationsForProvider threw

Runs == [todo : Seq(Providers), bound : 0..MaxGen]
ProviderStates == {"known", "cached", "refreshing", "succeeded", "failed"}
Before == [states : [Providers -> ProviderStates], shown : [Providers -> Facts]]

\* error: "none", "staged" when runStaged returned, "unstaged" when it threw.
\* lock: the Provider's selection lock in publishIfCurrent.
\* login: the run of one Provider under a binding it came with.
Idle == [step |-> "idle"]
Steps == {"next", "bound", "network", "answered", "lock", "commit", "publish",
          "release", "rollback", "discard"}
Progress == [step : Steps, todo : Seq(Providers), login : BOOLEAN, bound : 0..MaxGen,
             error : {"none", "staged", "unstaged"}, staged : Facts, initial : Facts,
             before : Before, lock : {"none", "held", "lost"},
             committed : BOOLEAN, unproven : BOOLEAN]

TypeOK ==
  /\ selection \in [Providers -> 1..MaxGen]
  /\ store \in [Providers -> Facts] /\ live \in [Providers -> Facts]
  /\ served \in [Providers -> Facts] /\ shown \in [Providers -> Facts]
  /\ quarantine \subseteq Providers
  /\ states \in [Providers -> ProviderStates]
  /\ queue \in Seq(Runs) /\ pending \in BOOLEAN
  /\ run \in Progress \cup {Idle}
  /\ phase \in {"serving", "disposing", "disposed"}
  /\ ever \in [Providers -> SUBSET Facts] /\ cutOff \subseteq Providers /\ unread \in BOOLEAN
  /\ recaptured \in BOOLEAN /\ faults \in 0..MaxFaults

\* bind() serves what it can read of the cache before anything is refreshed.
Unread == [p \in Providers |-> Nothing]
BootStates(kept) == [p \in Providers |-> IF kept[p] = Nothing THEN "known" ELSE "cached"]

Init ==
  /\ selection = [p \in Providers |-> 1]
  /\ store = [p \in Providers |-> Nothing]
  /\ live = store /\ served = store /\ shown = store /\ states = BootStates(store)
  /\ quarantine = {} /\ queue = <<>> /\ pending = TRUE /\ run = Idle
  /\ phase = "serving" /\ ever = [p \in Providers |-> {Nothing}]
  /\ cutOff = {} /\ unread = FALSE /\ recaptured = FALSE /\ faults = 0

Fault == faults < MaxFaults /\ faults' = faults + 1
NoFault == faults' = faults

-----------------------------------------------------------------------------
\* What happens around the runs.
Asked(r) == Len(queue) < MaxQueue /\ queue' = Append(queue, r)
Everything == [todo |-> Order, bound |-> Unbound]

ScheduleBackground ==
  /\ phase = "serving" /\ ~pending /\ pending' = TRUE
  /\ UNCHANGED <<selection, queue, facts, view, run, phase, history, faults>>

EnqueueBackground ==
  /\ pending /\ pending' = FALSE /\ Asked(Everything)
  /\ UNCHANGED <<selection, facts, view, run, phase, history, faults>>

RefreshManual ==
  /\ phase = "serving" /\ Asked(Everything)
  /\ UNCHANGED <<selection, pending, facts, view, run, phase, history, faults>>

At == Head(run.todo)
Held(p) == run # Idle /\ run.lock = "held" /\ At = p

\* A selection needs the lock that a publication holds, unless it was lost.
Reselect(p) ==
  /\ p \in Reselected /\ selection[p] < MaxGen /\ ~Held(p)
  /\ selection' = [selection EXCEPT ![p] = @ + 1]

Select(p) ==
  /\ Reselect(p)
  /\ UNCHANGED <<queue, pending, facts, view, run, phase, history, faults>>

\* A login whose new Profile became active refreshes under that Profile.
Login(p) ==
  /\ phase = "serving" /\ Reselect(p)
  /\ Asked([todo |-> <<p>>, bound |-> selection'[p]])
  /\ UNCHANGED <<pending, facts, view, run, phase, history, faults>>

\* The lock's heartbeat finds that another process took it over.
LockLost ==
  /\ run # Idle /\ run.lock = "held" /\ Fault
  /\ run' = [run EXCEPT !.lock = "lost"]
  /\ UNCHANGED <<requests, facts, view, phase, history>>

\* The Codex overlay publishes: served.capture() with nothing preserved.
OverlayCapture ==
  /\ phase = "serving" /\ Fault /\ recaptured' = TRUE /\ served' = live
  /\ UNCHANGED <<requests, store, live, view, run, phase, ever, cutOff, unread>>

\* The process dies; the next one restores what it can read.
Crash ==
  /\ Fault /\ store' = store /\ ever' = ever /\ selection' = selection
  /\ unread' \in BOOLEAN /\ live' = IF unread' THEN Unread ELSE store
  /\ served' = live' /\ shown' = live' /\ states' = BootStates(live')
  /\ quarantine' = {} /\ queue' = <<>> /\ pending' = TRUE /\ run' = Idle
  /\ phase' = "serving" /\ cutOff' = {} /\ recaptured' = FALSE

-----------------------------------------------------------------------------
\* runRefresh over every Provider in turn, or over the one of a login.
\* A mutant of Aborted: dispose does not abort the controller's signal.
NeverAborted == FALSE

Aborted == phase # "serving"

Turn(step, todo, bound, login) ==
  [step |-> step, todo |-> todo, login |-> login, bound |-> bound,
   error |-> "none", staged |-> Nothing, initial |-> Nothing,
   before |-> [states |-> [p \in Providers |-> "known"],
               shown  |-> [p \in Providers |-> Nothing]],
   lock |-> "none", committed |-> FALSE, unproven |-> FALSE]

\* The runs of a disposed controller, or whose models.json cannot be queried,
\* do nothing.
Start ==
  /\ run = Idle /\ queue # <<>> /\ queue' = Tail(queue)
  /\ LET r == Head(queue) IN
     \/ /\ Aborted /\ NoFault /\ run' = Idle
     \/ /\ ~Aborted /\ Fault /\ run' = Idle
     \/ /\ ~Aborted /\ NoFault
        /\ run' = IF r.bound = Unbound THEN Turn("next", r.todo, Unbound, FALSE)
                  ELSE Turn("bound", r.todo, r.bound, TRUE)
  /\ UNCHANGED <<selection, pending, facts, view, phase, history>>

\* A Provider whose binding cannot be captured fails without one.
Capture ==
  /\ run # Idle /\ run.step = "next" /\ run.todo # <<>> /\ ~Aborted
  /\ \/ NoFault /\ run' = Turn("bound", run.todo, selection[At], FALSE)
     \/ Fault /\ run' = Turn("bound", run.todo, Unbound, FALSE)
  /\ UNCHANGED <<requests, facts, view, phase, history>>

Swap == shown' = served'

Combine ==
  /\ run # Idle /\ run.step = "next" /\ (run.todo = <<>> \/ Aborted)
  /\ run' = Idle
  /\ UNCHANGED <<requests, facts, quarantine, states, phase, history, faults>> /\ Swap

IsCurrent == run.bound \in {Unbound, selection[At]}
Leave == run' = IF run.login THEN Idle ELSE Turn("next", Tail(run.todo), Unbound, FALSE)

\* Aborted, or refreshed under a binding that is no longer the selected one.
Skip ==
  /\ run # Idle /\ run.step = "bound" /\ (Aborted \/ ~IsCurrent)
  /\ Leave
  /\ UNCHANGED <<requests, facts, view, phase, history, faults>>

\* query or isCurrent throws: the whole run is dropped, before it did anything.
Drop ==
  /\ run # Idle /\ run.step = "bound" /\ Fault /\ run' = Idle
  /\ UNCHANGED <<requests, facts, view, phase, history>>

\* The provisional snapshot: the Provider is refreshing.
Begin ==
  /\ run # Idle /\ run.step = "bound" /\ ~Aborted /\ IsCurrent
  /\ run' = [run EXCEPT !.step = "network", !.initial = store[At],
                        !.before = [states |-> states, shown |-> shown]]
  /\ states' = [states EXCEPT ![At] = "refreshing"]
  /\ UNCHANGED <<requests, facts, quarantine, phase, history, faults>> /\ Swap

-----------------------------------------------------------------------------
\* refreshProvider within runStaged. The Provider may apply what it fetched and
\* fail all the same; without a binding, or without the cache, it is not asked.
Answered(error, staged) ==
  run' = [run EXCEPT !.step = "answered", !.error = error, !.staged = staged]

Asking == run # Idle /\ run.step = "network" /\ run.bound # Unbound

Fetched ==
  /\ Asking
  /\ \E c \in Contents : /\ live' = [live EXCEPT ![At] = <<run.bound, c>>]
                         /\ Answered("none", live'[At])
  /\ UNCHANGED <<requests, store, served, view, phase, history, faults>>

\* No credential, or nothing new: the Provider restores what is stored.
Unpublished ==
  /\ Asking
  /\ live' = [live EXCEPT ![At] = store[At]] /\ Answered("none", Nothing)
  /\ UNCHANGED <<requests, store, served, view, phase, history, faults>>

Failed ==
  /\ Asking
  /\ \E f \in {live[At], store[At]} \cup ({run.bound} \X Contents) :
       live' = [live EXCEPT ![At] = f]
  /\ Answered("staged", Nothing)
  /\ UNCHANGED <<requests, store, served, view, phase, history, faults>>

Unasked ==
  /\ run # Idle /\ run.step = "network"
  /\ IF run.bound = Unbound THEN NoFault ELSE Fault
  /\ Answered("unstaged", Nothing)
  /\ UNCHANGED <<requests, facts, view, phase, history>>

\* The second isCurrent throws: the run is dropped where it stands.
CutOff ==
  /\ run # Idle /\ run.step = "answered" /\ run.bound # Unbound /\ Fault
  /\ cutOff' = cutOff \cup {At} /\ run' = Idle
  /\ UNCHANGED <<requests, facts, view, phase, ever, unread, recaptured>>

\* A mutant of Outdated: the run returns, as it does when it has not asked yet.
OutdatedReturns ==
  /\ run # Idle /\ run.step = "answered" /\ (Aborted \/ ~IsCurrent)
  /\ Leave
  /\ UNCHANGED <<requests, facts, view, phase, history, faults>>

Outdated ==
  /\ run # Idle /\ run.step = "answered" /\ (Aborted \/ ~IsCurrent)
  /\ run' = [run EXCEPT !.step = "discard"]
  /\ UNCHANGED <<requests, facts, view, phase, history, faults>>

\* A mutant of PutBack: the Provider keeps what it applied.
PutBackForgotten == UNCHANGED live

\* restoreProvider from the cache, with no network.
PutBack == live' = [live EXCEPT ![At] = store[At]]

\* A failed Provider is put back before anything is captured.
Restore ==
  \/ NoFault /\ PutBack /\ UNCHANGED quarantine
  \/ Fault /\ quarantine' = quarantine \cup {At} /\ UNCHANGED live

Check ==
  /\ run # Idle /\ run.step = "answered" /\ ~Aborted /\ IsCurrent
  /\ IF run.error = "staged" THEN Restore
     ELSE NoFault /\ UNCHANGED <<live, quarantine>>
  /\ run' = [run EXCEPT !.step = IF run.bound = Unbound THEN "publish" ELSE "lock"]
  /\ UNCHANGED <<requests, store, served, states, shown, phase, history>>

-----------------------------------------------------------------------------
\* publishIfCurrent: the record is read again under the selection lock.
Lock ==
  /\ run # Idle /\ run.step = "lock"
  /\ \/ NoFault /\ IsCurrent /\ run' = [run EXCEPT !.step = "commit", !.lock = "held"]
     \/ NoFault /\ ~IsCurrent /\ run' = [run EXCEPT !.step = "discard"]
     \/ Fault /\ run' = [run EXCEPT !.step = "rollback"]
  /\ UNCHANGED <<requests, facts, view, phase, history>>

Throws == run' = [run EXCEPT !.step = "rollback", !.lock = "none"]
Publishes == run' = [run EXCEPT !.step = "publish"]

\* A mutant of Owned: the rename does not assert the lock.
OwnedUnasserted == TRUE

Owned == run.lock = "held"

\* CatalogCacheStage.commit: the lock is asserted beside the rename.
Commit ==
  /\ run # Idle /\ run.step = "commit"
  /\ \/ /\ run.staged = Nothing /\ NoFault /\ Publishes /\ UNCHANGED <<store, ever>>
     \/ /\ run.staged # Nothing /\ Owned /\ NoFault
        /\ store' = [store EXCEPT ![At] = run.staged]
        /\ ever' = [ever EXCEPT ![At] = @ \cup {run.staged}]
        /\ run' = [run EXCEPT !.step = "publish", !.committed = TRUE]
     \/ /\ run.staged # Nothing /\ ~Owned /\ NoFault
        /\ Throws /\ UNCHANGED <<store, ever>>
     \/ /\ run.staged # Nothing /\ Fault /\ Throws /\ UNCHANGED <<store, ever>>
  /\ UNCHANGED <<requests, live, served, view, phase, cutOff, unread, recaptured>>

\* A mutant of Captured: everything is captured from the live Providers.
CapturedAll == live'

\* capture(restorationQuarantine)
Captured == [p \in Providers |-> IF p \in quarantine' THEN served[p] ELSE live'[p]]

\* A mutant of Outcome: a Provider that published nothing keeps its present state.
OutcomePresent ==
  IF run.error # "none" THEN "failed"
  ELSE IF run.staged = Nothing THEN states[At] ELSE "succeeded"

Outcome ==
  IF run.error # "none" THEN "failed"
  ELSE IF run.staged = Nothing THEN run.before.states[At] ELSE "succeeded"

Publish ==
  /\ run # Idle /\ run.step = "publish" /\ run.lock # "lost"
  /\ quarantine' = IF run.staged = Nothing THEN quarantine ELSE quarantine \ {At}
  /\ states' = [p \in Providers |->
       IF p \in quarantine' THEN "failed"
       ELSE IF p = At THEN Outcome ELSE run.before.states[p]]
  /\ UNCHANGED <<store, live>>
  /\ \/ NoFault /\ served' = Captured /\ Swap
        /\ run' = [run EXCEPT !.step = "release"]
     \/ Fault /\ Throws /\ UNCHANGED <<served, shown>>
  /\ UNCHANGED <<requests, phase, history>>

\* assertCurrent after the commit, or at the end of withSelectionLock, throws.
Disowned ==
  /\ run # Idle /\ run.step \in {"publish", "release"} /\ run.lock = "lost"
  /\ Throws
  /\ UNCHANGED <<requests, facts, view, phase, history, faults>>

Release ==
  /\ run # Idle /\ run.step = "release" /\ run.lock # "lost"
  /\ Leave
  /\ UNCHANGED <<requests, facts, view, phase, history, faults>>

-----------------------------------------------------------------------------
\* stage.rollback(): what was committed is put back, or the cache is unproven.
Rollback ==
  /\ run # Idle /\ run.step = "rollback"
  /\ \/ /\ NoFault
        /\ store' = IF run.committed THEN [store EXCEPT ![At] = run.initial] ELSE store
        /\ run' = [run EXCEPT !.step = "discard"]
     \/ /\ run.committed /\ Fault /\ store' = store
        /\ run' = [run EXCEPT !.step = "discard", !.unproven = TRUE]
  /\ UNCHANGED <<requests, live, served, view, phase, history>>

Quarantined ==
  /\ quarantine' = quarantine \cup {At}
  /\ states' = [run.before.states EXCEPT ![At] = "failed"]
  /\ UNCHANGED served /\ Swap

\* discardExactRun: the Provider is put back to the cache and captured, and the
\* snapshot of before returns; what cannot be put back is quarantined.
Discard ==
  /\ run # Idle /\ run.step = "discard" /\ Leave
  /\ IF run.unproven \/ At \in quarantine
     THEN NoFault /\ Quarantined /\ UNCHANGED live
     ELSE \/ Fault /\ (UNCHANGED live \/ PutBack) /\ Quarantined
          \/ /\ NoFault /\ PutBack
             /\ UNCHANGED quarantine /\ served' = Captured
             /\ states' = run.before.states /\ shown' = run.before.shown
  /\ UNCHANGED <<requests, store, phase, history>>

-----------------------------------------------------------------------------
\* dispose() aborts the run and waits for the queue behind it.
Dispose ==
  /\ phase = "serving" /\ phase' = "disposing" /\ pending' = FALSE
  /\ UNCHANGED <<selection, queue, facts, view, run, history, faults>>

\* A mutant of Disposed: dispose() does not wait for the run.
DisposedAtOnce ==
  /\ phase = "disposing" /\ phase' = "disposed"
  /\ UNCHANGED <<requests, facts, view, run, history, faults>>

Disposed ==
  /\ phase = "disposing" /\ run = Idle /\ queue = <<>> /\ phase' = "disposed"
  /\ UNCHANGED <<requests, facts, view, run, history, faults>>

Answer == Fetched \/ Unpublished \/ Failed \/ Unasked
Step ==
  \/ Start \/ Capture \/ Combine \/ Skip \/ Begin \/ Outdated \/ Check \/ Lock
  \/ Commit \/ Publish \/ Disowned \/ Release \/ Rollback \/ Discard \/ Disposed
Request ==
  \/ ScheduleBackground \/ EnqueueBackground \/ RefreshManual
  \/ \E p \in Providers : Select(p) \/ Login(p)

Next ==
  \/ Request \/ Answer \/ Step \/ Drop \/ CutOff
  \/ LockLost \/ OverlayCapture \/ Dispose \/ Crash

\* Once aborted, what a run awaits settles, the Provider included.
Spec == Init /\ [][Next]_vars /\ WF_vars(Aborted /\ (Step \/ Answer))

-----------------------------------------------------------------------------
\* The cache file takes only what was fetched under the selection of that
\* moment, or gets back what it held when the run began: no login ever finds
\* the models of the account before it in the cache (publishIfCurrent).
DurableIsCurrent ==
  [][\A p \in Providers : store'[p] # store[p] =>
       \/ run.step = "rollback" /\ store'[p] = run.initial
       \/ store'[p] # Nothing /\ store'[p][1] = selection[p]]_vars

\* Nothing is served that was never committed to the cache, whatever a Provider
\* answers and however its run ends, as long as every capture was the controller's
\* and no run was dropped half-way.
ServedWasPublished ==
  ~recaptured /\ cutOff = {} =>
    \A p \in Providers : served[p] \in ever[p] \cup {Nothing}

\* When a run that asked its Provider moves on, the Provider is quarantined or
\* serves exactly what the cache holds: publishing and undoing end the same.
SettledIsDurable ==
  [][run # Idle /\ run.step \in {"release", "discard"} /\ run.lock # "lost"
       /\ run'.step \in {"idle", "next"} /\ faults' = faults /\ ~recaptured
     => \/ At \in quarantine'
        \/ run.error = "unstaged" \/ At \in cutOff
        \/ served'[At] = store'[At]]_vars

\* A quarantined Provider serves what it served when it was quarantined, until a
\* publication of its own repairs it (or the overlay recaptures, which does not
\* know of the quarantine).
QuarantineHolds ==
  [][\A p \in quarantine \cap quarantine' :
       \/ served'[p] = served[p]
       \/ recaptured' /\ served' = live]_vars

\* The provisional "refreshing" goes with the run that set it, unless the run
\* was dropped half-way.
RefreshingIsTransient ==
  \A p \in Providers : states[p] = "refreshing" =>
    \/ p \in cutOff
    \/ run # Idle /\ run.step \notin {"next", "bound"} /\ At = p

\* A refresh "never leaves refreshing state", however it ends.
RefreshingNeverSticks == run = Idle => \A p \in Providers : states[p] # "refreshing"

\* The snapshot management sees names the models that are served, except of a
\* Provider it shows as failed: a publication that is undone after it had lifted
\* the quarantine serves the cache again and shows what was shown before.
SnapshotIsServed ==
  ~recaptured /\ cutOff = {} /\ ~unread /\ run = Idle =>
    \A p \in Providers : shown[p] = served[p] \/ states[p] = "failed"

\* Every variable has its type, and what management is shown of the catalog is
\* true: its models, and which Providers are being refreshed.
CatalogConsistent == TypeOK /\ RefreshingIsTransient /\ SnapshotIsServed

\* After dispose() has returned nothing of a refresh arrives.
DisposedIsQuiet ==
  [][phase = "disposed" /\ phase' = "disposed"
     => UNCHANGED <<store, live, served, states, shown>>]_vars

\* dispose() returns, even when the Provider that is asked never answers.
DisposeEnds == phase = "disposing" ~> phase # "disposing"
=============================================================================
