------------------------- MODULE CatalogRefresh_proofs -------------------------
(***************************************************************************)
(* Proofs about CatalogRefresh, for any Providers, contents and faults.    *)
(*                                                                         *)
(* Between two runs what is live, served and stored agree, except for the  *)
(* Providers in quarantine; within a run one Provider, the one that is     *)
(* asked, may differ.  `before` and `initial` are what undoing a run needs *)
(* to get back there.                                                      *)
(***************************************************************************)
EXTENDS CatalogRefresh, TLAPS

\* A Provider has been asked, and what came of it is not settled.
Working == run.step \notin {"idle", "next", "bound"}
Unsettled(p) == Working /\ run.step # "release" /\ At = p
Facing == run.step \in {"network", "answered", "lock", "commit", "publish"}
Refused == run.step = "answered" /\ run.error = "staged"

\* A run under a binding, or past its first step, has a Provider.
Named ==
  /\ run.step \notin {"idle", "next"} => run.todo # <<>>
  /\ \A k \in DOMAIN queue : queue[k].bound # Unbound => queue[k].todo # <<>>

\* What is staged was fetched under the run's binding, which the lock keeps current.
Bound ==
  run # Idle =>
    /\ run.staged # Nothing => run.bound # Unbound /\ run.staged[1] = run.bound
    /\ run.error # "none" => run.staged = Nothing
    /\ run.step \in {"next", "bound", "network"} =>
         run.staged = Nothing /\ run.error = "none" /\ run.lock = "none"
    /\ run.lock = "held" => IsCurrent
    /\ run.committed => run.step \in {"publish", "release", "rollback", "discard"}
    /\ run.step \in {"publish", "release"} /\ run.staged # Nothing =>
         run.committed /\ store[At] = run.staged
    /\ Working /\ (run.committed => run.step = "discard" /\ ~run.unproven) =>
         store[At] = run.initial

Transient ==
  /\ \A p \in Providers : states[p] = "refreshing" => p \in cutOff \/ Unsettled(p)
  /\ Working => \A p \in Providers : run.before.states[p] = "refreshing" => p \in cutOff

Whole == ~recaptured /\ cutOff = {}

\* What is live was once stored, unless the Provider is quarantined or unsettled.
Published ==
  /\ \A p \in Providers : store[p] \in ever[p] /\ Nothing \in ever[p]
  /\ Working => run.initial \in ever[At]
  /\ Whole => \A p \in Providers : served[p] \in ever[p]
  /\ Whole => \A p \in Providers : p \in quarantine \/ Unsettled(p) \/ live[p] \in ever[p]
  /\ Whole /\ Facing =>
       IF run.staged # Nothing THEN live[At] = run.staged
       ELSE At \in quarantine \/ Refused \/ live[At] \in ever[At]

\* What is live and served is what is stored, and what is shown is served.
Synced ==
  Whole /\ ~unread =>
    /\ \A p \in Providers : \/ p \in quarantine \/ Unsettled(p)
                            \/ live[p] = store[p] /\ served[p] = store[p]
    /\ Facing /\ run.staged = Nothing => At \in quarantine \/ Refused \/ live[At] = store[At]
    /\ \A p \in quarantine : Unsettled(p) \/ states[p] = "failed"
    /\ Working => \A p \in quarantine \ {At} : run.before.states[p] = "failed"
    /\ IF Working THEN shown = served
       ELSE \A p \in Providers : shown[p] = served[p] \/ states[p] = "failed"
    /\ Working => \A p \in Providers :
         \/ run.before.states[p] = "failed"
         \/ run.before.shown[p] = IF p = At THEN run.initial ELSE served[p]

Inv == TypeOK /\ Named /\ Bound /\ Transient /\ Published /\ Synced

-----------------------------------------------------------------------------
LEMMA Turns ==
  ASSUME NEW step \in Steps, NEW todo \in Seq(Providers), NEW bound \in 0..MaxGen,
         NEW login \in BOOLEAN
  PROVE  Turn(step, todo, bound, login) \in Progress
  BY DEF Turn, Progress, Before, ProviderStates, Facts

LEMMA Ahead ==
  ASSUME TypeOK, Named
  PROVE  /\ run # Idle <=> run.step # "idle"
         /\ run # Idle => run \in Progress
         /\ run.step \notin {"idle", "next"} => At \in Providers
  BY DEF TypeOK, Named, Progress, Steps, Idle, At

LEMMA InitInv == Init => Inv
  <1> SUFFICES ASSUME Init PROVE Inv
    OBVIOUS
  <1>1. run.step = "idle" /\ queue = <<>> /\ DOMAIN queue = {}
    BY DEF Init, Idle
  <1>2. TypeOK
    <2>1. store \in [Providers -> Facts] /\ states \in [Providers -> ProviderStates]
      BY DEF Init, Facts, BootStates, ProviderStates
    <2>2. ever \in [Providers -> SUBSET Facts]
      BY DEF Init, Facts
    <2>3. selection \in [Providers -> 1..MaxGen] /\ faults \in 0..MaxFaults /\ queue \in Seq(Runs)
      BY CatalogAssumption DEF Init
    <2> QED
      BY <2>1, <2>2, <2>3 DEF Init, TypeOK
  <1>3. Named /\ Bound
    BY <1>1 DEF Init, Named, Bound
  <1>4. Transient /\ Published /\ Synced
    BY <1>1 DEF Init, Transient, Published, Synced, Working, Unsettled, Facing, BootStates
  <1> QED
    BY <1>2, <1>3, <1>4 DEF Inv

-----------------------------------------------------------------------------
\* The run proceeds, or ends where nothing is unsettled, and nothing else changes.
Onward ==
  /\ UNCHANGED <<store, live, served, quarantine, states, shown, ever, cutOff, unread, recaptured>>
  /\ Working' => Working /\ run'.todo = run.todo /\ run'.before = run.before
                  /\ run'.initial = run.initial /\ (run'.step = "release" => run.step = "release")
  /\ Working => Working' \/ run.step = "release"
  /\ Facing' => Facing /\ run'.staged = run.staged /\ (Refused => Refused')

LEMMA NextOnward ==
  ASSUME Inv, Onward
  PROVE  Transient' /\ Published' /\ Synced'
  <1>1. \A p : Unsettled(p) => Unsettled(p)'
    BY DEF Onward, Unsettled, At
  <1>2. Working' => At' = At
    BY DEF Onward, At
  <1>3. Facing' => Working' /\ Facing
    BY DEF Onward, Facing, Working
  <1>4. Transient'
    BY <1>1 DEF Inv, Transient, Onward
  <1>5. Published'
    BY <1>1, <1>2, <1>3 DEF Inv, Published, Whole, Onward
  <1>6. Synced'
    BY <1>1, <1>2, <1>3 DEF Inv, Synced, Whole, Onward
  <1> QED
    BY <1>4, <1>5, <1>6

-----------------------------------------------------------------------------
\* What asks for runs, or goes on beside them.
LEMMA AskedTyped ==
  ASSUME TypeOK, Named, NEW r \in Runs, r.bound # Unbound => r.todo # <<>>, Asked(r)
  PROVE  /\ queue' \in Seq(Runs)
         /\ \A k \in DOMAIN queue' : queue'[k].bound # Unbound => queue'[k].todo # <<>>
  BY DEF TypeOK, Named, Asked

LEMMA EverythingIsRun == Everything \in Runs /\ Everything.bound = Unbound
  BY CatalogAssumption DEF Everything, Runs, Unbound

LEMMA RequestInv ==
  ASSUME Inv, Request
  PROVE  Inv'
  <1>0. TypeOK /\ Named /\ Bound
    BY DEF Inv
  <1>1. /\ run' = run
        /\ UNCHANGED <<store, live, served, quarantine, states, shown, phase, ever, cutOff, unread,
                      recaptured, faults>>
    BY DEF Request, ScheduleBackground, EnqueueBackground, RefreshManual, Select, Login,
           facts, view, history
  <1>2. /\ selection' \in [Providers -> 1..MaxGen]
        /\ \A q \in Providers : Held(q) => selection'[q] = selection[q]
    <2>1. ASSUME NEW p \in Providers, Reselect(p)
          PROVE  /\ selection' \in [Providers -> 1..MaxGen]
                 /\ \A q \in Providers : Held(q) => selection'[q] = selection[q]
      BY <1>0, <2>1, CatalogAssumption DEF Reselect, TypeOK
    <2>2. \/ selection' = selection \/ \E p \in Providers : Reselect(p)
      BY DEF Request, ScheduleBackground, EnqueueBackground, RefreshManual, Select, Login
    <2> QED
      BY <1>0, <2>1, <2>2 DEF TypeOK
  <1>3. /\ pending' \in BOOLEAN
        /\ \/ UNCHANGED queue
           \/ \E r \in Runs : Asked(r) /\ (r.bound # Unbound => r.todo # <<>>)
    <2>1. CASE ScheduleBackground \/ EnqueueBackground \/ RefreshManual
      BY <1>0, <2>1, EverythingIsRun
      DEF ScheduleBackground, EnqueueBackground, RefreshManual, TypeOK
    <2>2. ASSUME NEW p \in Providers, Select(p) \/ Login(p)
          PROVE  \/ UNCHANGED queue
                 \/ \E r \in Runs : Asked(r) /\ (r.bound # Unbound => r.todo # <<>>)
      <3>1. selection'[p] \in 0..MaxGen
        BY <1>2, CatalogAssumption
      <3>2. [todo |-> <<p>>, bound |-> selection'[p]] \in Runs
        BY <3>1 DEF Runs
      <3> QED
        BY <2>2, <3>2 DEF Select, Login
    <2> QED
      BY <1>0, <2>1, <2>2 DEF Request, TypeOK, Select, Login
  <1>4. TypeOK' /\ Named'
    <2>1. queue' \in Seq(Runs)
          /\ \A k \in DOMAIN queue' : queue'[k].bound # Unbound => queue'[k].todo # <<>>
      BY <1>0, <1>3, AskedTyped DEF TypeOK, Named
    <2> QED
      BY <1>0, <1>1, <1>2, <1>3, <2>1 DEF TypeOK, Named
  <1>5. Bound'
    BY <1>0, <1>1, <1>2, Ahead DEF Bound, IsCurrent, Held, At, Working
  <1>6. Onward
    BY <1>1 DEF Onward, Working, Facing, Refused
  <1> QED
    BY <1>4, <1>5, <1>6, NextOnward DEF Inv

LEMMA Counted ==
  ASSUME TypeOK, Fault \/ faults' = faults
  PROVE  faults' \in 0..MaxFaults
  BY CatalogAssumption DEF TypeOK, Fault

\* The lock is lost, or the controller is disposed of.
LEMMA LockLostInv ==
  ASSUME Inv, LockLost
  PROVE  Inv'
  <1>0. TypeOK /\ Named /\ Bound /\ run # Idle /\ run \in Progress
    BY Ahead DEF Inv, LockLost
  <1>1. /\ UNCHANGED <<selection, store, live, served, quarantine, states, shown, queue, pending,
                      phase, ever, cutOff, unread, recaptured>>
        /\ faults' \in 0..MaxFaults
    BY <1>0, Counted DEF LockLost, requests, facts, view, history
  <1>2. run' = [run EXCEPT !.lock = "lost"]
    BY DEF LockLost
  <1>3. /\ run' \in Progress
        /\ run'.step = run.step /\ run'.todo = run.todo /\ run'.before = run.before
        /\ run'.initial = run.initial /\ run'.staged = run.staged /\ run'.error = run.error
        /\ run'.bound = run.bound /\ run'.committed = run.committed
        /\ run'.unproven = run.unproven /\ run'.lock = "lost"
        /\ run.step \notin {"next", "bound", "network"}
    BY <1>0, <1>2 DEF Progress, Bound, LockLost
  <1>4. TypeOK' /\ Named'
    BY <1>0, <1>1, <1>3 DEF TypeOK, Named
  <1>5. Bound'
    BY <1>0, <1>1, <1>3 DEF Bound, IsCurrent, At, Working
  <1>6. Onward
    BY <1>1, <1>3 DEF Onward, Working, Facing, Refused
  <1> QED
    BY <1>4, <1>5, <1>6, NextOnward DEF Inv

LEMMA DisposeInv ==
  ASSUME Inv, Dispose \/ Disposed
  PROVE  Inv'
  <1>1. /\ UNCHANGED <<selection, store, live, served, quarantine, states, shown, queue, run, ever,
                      cutOff, unread, recaptured, faults>>
        /\ pending' \in {pending, FALSE} /\ phase' \in {"disposing", "disposed"}
    BY DEF Dispose, Disposed, requests, facts, view, history
  <1>2. TypeOK' /\ Named'
    BY <1>1 DEF Inv, TypeOK, Named
  <1>3. Bound'
    BY <1>1 DEF Inv, Bound, IsCurrent, At, Working
  <1>4. Onward
    BY <1>1 DEF Onward, Working, Facing, Refused
  <1> QED
    BY <1>2, <1>3, <1>4, NextOnward DEF Inv
-----------------------------------------------------------------------------
\* A run begins with the next Provider, or is over.
Fresh ==
  \/ run' = Idle
  \/ \E todo \in Seq(Providers), bound \in 0..MaxGen, login \in BOOLEAN :
       \/ run' = Turn("next", todo, bound, login)
       \/ run' = Turn("bound", todo, bound, login) /\ todo # <<>>

LEMMA FreshRun ==
  ASSUME Fresh
  PROVE  /\ run' \in Progress \cup {Idle} /\ run'.step \in {"idle", "next", "bound"}
         /\ run'.step \notin {"idle", "next"} => run'.todo # <<>>
         /\ Bound'
  <1>1. CASE run' = Idle
    BY <1>1 DEF Bound, Idle
  <1>2. ASSUME NEW todo \in Seq(Providers), NEW bound \in 0..MaxGen, NEW login \in BOOLEAN,
               NEW step \in {"next", "bound"}, run' = Turn(step, todo, bound, login),
               step = "bound" => todo # <<>>
        PROVE  /\ run' \in Progress /\ run'.step \in {"next", "bound"}
               /\ run'.step # "next" => run'.todo # <<>>
               /\ Bound'
    <2>1. run' \in Progress
      BY <1>2, Turns DEF Steps
    <2>2. /\ run'.step = step /\ run'.todo = todo /\ run'.staged = Nothing /\ run'.error = "none"
          /\ run'.lock = "none" /\ run'.committed = FALSE
      BY <1>2 DEF Turn
    <2> QED
      BY <1>2, <2>1, <2>2 DEF Bound, Working
  <1> QED
    BY <1>1, <1>2 DEF Fresh, Idle

LEMMA NextFresh ==
  ASSUME Inv, Fresh, ~Working \/ run.step = "release",
         queue' \in Seq(Runs),
         \A k \in DOMAIN queue' : queue'[k].bound # Unbound => queue'[k].todo # <<>>,
         faults' \in 0..MaxFaults,
         UNCHANGED <<selection, pending, store, live, served, quarantine, states, shown, phase,
                     ever, cutOff, unread, recaptured>>
  PROVE  Inv'
  <1>1. TypeOK' /\ Named' /\ Bound'
    BY FreshRun DEF Inv, TypeOK, Named
  <1>2. ~Working' /\ ~Facing'
    BY FreshRun DEF Working, Facing
  <1>3. Onward
    BY <1>2 DEF Onward
  <1> QED
    BY <1>1, <1>3, NextOnward DEF Inv

LEMMA Leaves ==
  ASSUME TypeOK, Named, Leave, run.step \notin {"idle", "next"}
  PROVE  Fresh /\ run'.step \in {"idle", "next"}
  <1>1. Tail(run.todo) \in Seq(Providers)
    BY Ahead DEF Named, Progress
  <1>2. Unbound \in 0..MaxGen
    BY CatalogAssumption DEF Unbound
  <1> QED
    BY <1>1, <1>2 DEF Leave, Fresh, Turn, Idle

\* The steps between two Providers.
LEMMA BetweenInv ==
  ASSUME Inv, Start \/ Capture \/ Skip \/ Drop \/ Release
  PROVE  Inv'
  <1>0. /\ TypeOK /\ Named
        /\ UNCHANGED <<selection, pending, store, live, served, quarantine, states, shown, phase,
                      ever, cutOff, unread, recaptured>>
    BY DEF Inv, Start, Capture, Skip, Drop, Release, requests, facts, view, history
  <1>1. faults' \in 0..MaxFaults /\ (~Working \/ run.step = "release")
    <2>1. Fault \/ faults' = faults
      BY DEF Start, Capture, Skip, Drop, Release, NoFault
    <2>2. ~Working \/ run.step = "release"
      <3>1. run = Idle \/ run.step \in {"next", "bound", "release"}
        BY DEF Start, Capture, Skip, Drop, Release
      <3> QED
        BY <3>1 DEF Working, Idle
    <2> QED
      BY <1>0, <2>1, <2>2, Counted
  <1>2. CASE Start
    <2>1. /\ Head(queue) \in Runs /\ queue' \in Seq(Runs)
          /\ \A k \in DOMAIN queue' : queue'[k].bound # Unbound => queue'[k].todo # <<>>
          /\ Head(queue).bound # Unbound => Head(queue).todo # <<>>
      BY <1>0, <1>2 DEF Start, TypeOK, Named
    <2>2. Fresh
      <3>1. Unbound \in 0..MaxGen
        BY CatalogAssumption DEF Unbound
      <3> QED
        BY <1>2, <2>1, <3>1 DEF Start, Fresh, Runs
    <2> QED
      BY <1>0, <1>1, <2>1, <2>2, NextFresh
  <1>3. CASE Capture
    <2>1. run.todo \in Seq(Providers) /\ run.todo # <<>> /\ At \in Providers
      BY <1>0, <1>3, Ahead DEF Capture, Progress, At
    <2>2. selection[At] \in 0..MaxGen /\ Unbound \in 0..MaxGen
      BY <1>0, <2>1, CatalogAssumption DEF TypeOK, Unbound
    <2>3. Fresh /\ queue' = queue
      BY <1>3, <2>1, <2>2 DEF Capture, Fresh, requests
    <2> QED
      BY <1>0, <1>1, <2>3, NextFresh DEF TypeOK, Named
  <1>4. CASE Skip \/ Drop \/ Release
    <2>1. Fresh /\ queue' = queue
      BY <1>0, <1>4, Leaves DEF Skip, Drop, Release, Fresh, requests
    <2> QED
      BY <1>0, <1>1, <2>1, NextFresh DEF TypeOK, Named
  <1> QED
    BY <1>2, <1>3, <1>4
-----------------------------------------------------------------------------
\* Steps of a run that move it on and touch nothing else.
LEMMA OnInv ==
  ASSUME Inv, Outdated \/ Lock \/ Disowned \/ Unasked
  PROVE  Inv'
  <1>0. /\ TypeOK /\ Named /\ Bound /\ run \in Progress /\ run # Idle /\ At \in Providers
        /\ run.step \in {"answered", "lock", "publish", "release", "network"}
        /\ UNCHANGED <<selection, queue, pending, store, live, served, quarantine, states, shown,
                      phase, ever, cutOff, unread, recaptured>>
    BY Ahead DEF Inv, Outdated, Lock, Disowned, Unasked, requests, facts, view, history
  <1>1. faults' \in 0..MaxFaults
    BY <1>0, Counted DEF Outdated, Lock, Disowned, Unasked, NoFault
  <1>2. /\ run' \in Progress
        /\ run'.todo = run.todo /\ run'.before = run.before /\ run'.initial = run.initial
        /\ run'.bound = run.bound /\ run'.committed = run.committed
        /\ run'.unproven = run.unproven
    <2>1. CASE Outdated
      BY <1>0, <2>1 DEF Outdated, Progress, Steps
    <2>2. CASE Lock
      BY <1>0, <2>2 DEF Lock, Progress, Steps
    <2>3. CASE Disowned
      BY <1>0, <2>3 DEF Disowned, Throws, Progress, Steps
    <2>4. CASE Unasked
      BY <1>0, <2>4 DEF Unasked, Answered, Progress, Steps, Facts
    <2> QED
      BY <2>1, <2>2, <2>3, <2>4
  <1>3. \/ /\ run.step = "network" /\ run'.step = "answered" /\ run'.error = "unstaged"
           /\ run'.staged = Nothing /\ run'.lock = "none"
        \/ /\ run'.step \in {"commit", "discard", "rollback"} /\ run'.staged = run.staged
           /\ run'.error = run.error /\ run.step # "network"
           /\ run'.step = "commit" => run.step = "lock"
           /\ run'.step = "discard" => run.step \in {"answered", "lock"}
           /\ run'.lock \in {run.lock, "none"} \/ (run'.lock = "held" /\ IsCurrent)
    <2>1. CASE Unasked
      BY <1>0, <2>1 DEF Unasked, Answered, Progress, Bound
    <2>2. CASE Outdated
      BY <1>0, <2>2 DEF Outdated, Progress
    <2>3. CASE Lock
      BY <1>0, <2>3 DEF Lock, Progress
    <2>4. CASE Disowned
      BY <1>0, <2>4 DEF Disowned, Throws, Progress
    <2> QED
      BY <2>1, <2>2, <2>3, <2>4
  <1>4. TypeOK' /\ Named'
    BY <1>0, <1>1, <1>2, <1>3 DEF TypeOK, Named
  <1>5. Bound'
    BY <1>0, <1>2, <1>3 DEF Bound, IsCurrent, At, Working
  <1>6. Onward
    BY <1>0, <1>2, <1>3 DEF Bound, Onward, Working, Facing, Refused
  <1> QED
    BY <1>4, <1>5, <1>6, NextOnward DEF Inv

\* The run is over, and the snapshot is taken again.
LEMMA CombineInv ==
  ASSUME Inv, Combine
  PROVE  Inv'
  <1>0. /\ TypeOK /\ Named /\ run' = Idle /\ shown' = served /\ run.step = "next"
        /\ UNCHANGED <<selection, queue, pending, store, live, served, quarantine, states, phase,
                      ever, cutOff, unread, recaptured, faults>>
    BY DEF Inv, Combine, Swap, requests, facts, history
  <1>1. ~Working /\ ~Working' /\ ~Facing' /\ run'.step = "idle"
    BY <1>0 DEF Working, Facing, Idle
  <1>2. TypeOK' /\ Named' /\ Bound'
    BY <1>0, <1>1 DEF TypeOK, Named, Bound
  <1>3. Transient' /\ Published' /\ Synced'
    BY <1>0, <1>1 DEF Inv, Transient, Published, Synced, Unsettled, Whole
  <1> QED
    BY <1>2, <1>3 DEF Inv

\* The run takes note of what it may have to return to.
LEMMA BeginInv ==
  ASSUME Inv, Begin
  PROVE  Inv'
  <1>0. /\ TypeOK /\ Named /\ Bound /\ run \in Progress /\ run # Idle /\ At \in Providers
        /\ run.step = "bound" /\ shown' = served
        /\ states' = [states EXCEPT ![At] = "refreshing"]
        /\ UNCHANGED <<selection, queue, pending, store, live, served, quarantine, phase,
                      ever, cutOff, unread, recaptured, faults>>
    BY Ahead DEF Inv, Begin, Swap, requests, facts, history
  <1>1. store[At] \in Facts /\ [states |-> states, shown |-> shown] \in Before
    BY <1>0 DEF TypeOK, Before
  <1>2. /\ run' \in Progress /\ run'.step = "network" /\ run'.todo = run.todo
        /\ run'.initial = store[At] /\ run'.before = [states |-> states, shown |-> shown]
        /\ run'.bound = run.bound /\ run'.committed = run.committed /\ run'.lock = run.lock
        /\ run'.unproven = run.unproven /\ run'.staged = run.staged /\ run'.error = run.error
    BY <1>0, <1>1 DEF Begin, Progress, Steps
  <1>3. At' = At /\ ~Working /\ Working' /\ Facing' /\ \A p : Unsettled(p)' <=> p = At
    BY <1>0, <1>2 DEF At, Working, Facing, Unsettled
  <1>4. TypeOK' /\ Named'
    BY <1>0, <1>2 DEF TypeOK, Named, ProviderStates
  <1>5. Bound'
    BY <1>0, <1>2, <1>3 DEF Bound, IsCurrent
  <1>6. Transient'
    BY <1>0, <1>2, <1>3 DEF Inv, Transient, Unsettled, TypeOK
  <1>7. Published'
    BY <1>0, <1>2, <1>3 DEF Inv, Published, Unsettled, Whole, Bound
  <1>8. Synced'
    BY <1>0, <1>2, <1>3 DEF Inv, Synced, Unsettled, Whole, Bound, TypeOK
  <1> QED
    BY <1>4, <1>5, <1>6, <1>7, <1>8 DEF Inv
-----------------------------------------------------------------------------
\* The Provider answers: its facts change at once, what it stores is staged.
LEMMA AnswerInv ==
  ASSUME Inv, Fetched \/ Unpublished \/ Failed
  PROVE  Inv'
  <1>0. /\ TypeOK /\ Named /\ Bound /\ run \in Progress /\ run # Idle /\ At \in Providers
        /\ run.step = "network" /\ run.bound # Unbound
        /\ UNCHANGED <<selection, queue, pending, store, served, quarantine, states, shown, phase,
                      ever, cutOff, unread, recaptured, faults>>
    BY Ahead DEF Inv, Fetched, Unpublished, Failed, Asking, requests, view, history
  <1>1. \A c \in Contents : /\ <<run.bound, c>> \in Facts /\ <<run.bound, c>> # Nothing
                            /\ <<run.bound, c>>[1] = run.bound
    BY <1>0, CatalogAssumption DEF Facts, Progress, Unbound
  <1>2. \E f \in Facts, staged \in Facts, error \in {"none", "staged"} :
          /\ live' = [live EXCEPT ![At] = f]
          /\ run' = [run EXCEPT !.step = "answered", !.error = error, !.staged = staged]
          /\ \/ staged = f /\ staged # Nothing /\ staged[1] = run.bound /\ error = "none"
             \/ staged = Nothing /\ error = "none" /\ f = store[At]
             \/ staged = Nothing /\ error = "staged"
    <2>1. CASE Fetched
      <3>1. PICK c \in Contents : live' = [live EXCEPT ![At] = <<run.bound, c>>]
                                 /\ Answered("none", live'[At])
        BY <2>1 DEF Fetched
      <3>2. live'[At] = <<run.bound, c>>
        BY <1>0, <3>1 DEF TypeOK
      <3> QED
        BY <1>1, <3>1, <3>2 DEF Answered
    <2>2. CASE Unpublished
      <3>1. store[At] \in Facts /\ Nothing \in Facts
        BY <1>0 DEF TypeOK, Facts
      <3> QED
        BY <2>2, <3>1 DEF Unpublished, Answered
    <2>3. CASE Failed
      <3>1. /\ {live[At], store[At]} \cup ({run.bound} \X Contents) \subseteq Facts
            /\ Nothing \in Facts
        BY <1>0, <1>1 DEF TypeOK, Facts
      <3> QED
        BY <2>3, <3>1 DEF Failed, Answered
    <2> QED
      BY <2>1, <2>2, <2>3
  <1>3. PICK f \in Facts, staged \in Facts, error \in {"none", "staged"} :
          /\ live' = [live EXCEPT ![At] = f]
          /\ run' = [run EXCEPT !.step = "answered", !.error = error, !.staged = staged]
          /\ \/ staged = f /\ staged # Nothing /\ staged[1] = run.bound /\ error = "none"
             \/ staged = Nothing /\ error = "none" /\ f = store[At]
             \/ staged = Nothing /\ error = "staged"
    BY <1>2
  <1>4. /\ run' \in Progress /\ run'.step = "answered" /\ run'.error = error
        /\ run'.staged = staged /\ run'.todo = run.todo /\ run'.initial = run.initial
        /\ run'.before = run.before /\ run'.bound = run.bound /\ run'.lock = run.lock
        /\ run'.committed = run.committed /\ run'.unproven = run.unproven
    BY <1>0, <1>3 DEF Progress, Steps
  <1>5. /\ At' = At /\ Working /\ Working' /\ Facing /\ Facing' /\ ~Refused
        /\ \A p : (Unsettled(p) <=> p = At) /\ (Unsettled(p)' <=> p = At)
        /\ live'[At] = f /\ \A p \in Providers \ {At} : live'[p] = live[p]
    BY <1>0, <1>3, <1>4 DEF At, Working, Facing, Unsettled, Refused, TypeOK
  <1>6. TypeOK' /\ Named'
    BY <1>0, <1>3, <1>4 DEF TypeOK, Named
  <1>7. Bound'
    BY <1>0, <1>3, <1>4, <1>5 DEF Bound, IsCurrent
  <1>8. Transient'
    BY <1>0, <1>4, <1>5 DEF Inv, Transient
  <1>9. Published'
    BY <1>0, <1>3, <1>4, <1>5 DEF Inv, Published, Whole, Refused
  <1>10. Synced'
    BY <1>0, <1>3, <1>4, <1>5 DEF Inv, Synced, Whole, Refused
  <1> QED
    BY <1>6, <1>7, <1>8, <1>9, <1>10 DEF Inv

\* The run is thrown away, or the overlay captures on its own: all bets are off.
LEMMA BrokenInv ==
  ASSUME Inv, CutOff \/ OverlayCapture
  PROVE  Inv'
  <1>0. /\ TypeOK /\ Named /\ Bound
        /\ UNCHANGED <<selection, queue, pending, store, live, quarantine, states, shown, phase,
                      ever, unread>>
        /\ served' \in {served, live} /\ recaptured' \in {recaptured, TRUE}
    BY DEF Inv, CutOff, OverlayCapture, requests, facts, view
  <1>1. faults' \in 0..MaxFaults
    BY <1>0, Counted DEF CutOff, OverlayCapture
  <1>2. CASE CutOff
    <2>1. /\ At \in Providers /\ run.step = "answered" /\ run' = Idle /\ Fresh
          /\ cutOff' = cutOff \cup {At}
      BY <1>0, <1>2, Ahead DEF CutOff, Fresh
    <2>2. ~Working' /\ ~Facing' /\ ~Whole' /\ \A p : Unsettled(p) => p = At
      BY <2>1, FreshRun DEF Working, Facing, Whole, Unsettled
    <2>3. TypeOK' /\ Named' /\ Bound'
      BY <1>0, <1>1, <2>1, FreshRun DEF TypeOK, Named
    <2>4. Transient' /\ Published' /\ Synced'
      BY <1>0, <2>1, <2>2 DEF Inv, Transient, Published, Synced
    <2> QED
      BY <2>3, <2>4 DEF Inv
  <1>3. CASE OverlayCapture
    <2>1. run' = run /\ cutOff' = cutOff /\ ~Whole'
      BY <1>3 DEF OverlayCapture, Whole
    <2>2. recaptured' \in BOOLEAN
      BY <1>3 DEF OverlayCapture
    <2>3. TypeOK' /\ Named'
      BY <1>0, <1>1, <2>1, <2>2 DEF TypeOK, Named
    <2>4. Bound'
      BY <1>0, <2>1 DEF Bound, IsCurrent, At, Working
    <2>5. Transient' /\ Published' /\ Synced'
      BY <1>0, <2>1 DEF Inv, Transient, Published, Synced, Working, Unsettled, At, Whole
    <2> QED
      BY <2>3, <2>4, <2>5 DEF Inv
  <1> QED
    BY <1>2, <1>3
-----------------------------------------------------------------------------
\* A Provider that failed is put back, or quarantined, before the run goes on.
LEMMA CheckInv ==
  ASSUME Inv, Check
  PROVE  Inv'
  <1>0. /\ TypeOK /\ Named /\ Bound /\ run \in Progress /\ run # Idle /\ At \in Providers
        /\ run.step = "answered"
        /\ UNCHANGED <<selection, queue, pending, store, served, states, shown, phase,
                      ever, cutOff, unread, recaptured>>
    BY Ahead DEF Inv, Check, requests, history
  <1>1. faults' \in 0..MaxFaults
    BY <1>0, Counted DEF Check, Restore, NoFault
  <1>2. \E step \in {"publish", "lock"} : run' = [run EXCEPT !.step = step]
    BY DEF Check
  <1>3. /\ run' \in Progress /\ run'.step \in {"publish", "lock"}
        /\ run'.step = "publish" => run.bound = Unbound
        /\ run'.error = run.error /\ run'.staged = run.staged /\ run'.todo = run.todo
        /\ run'.initial = run.initial /\ run'.before = run.before /\ run'.bound = run.bound
        /\ run'.lock = run.lock /\ run'.committed = run.committed
        /\ run'.unproven = run.unproven
    BY <1>0, <1>2 DEF Check, Progress, Steps
  <1>4. \/ UNCHANGED <<live, quarantine>> /\ run.error # "staged"
        \/ live' = [live EXCEPT ![At] = store[At]] /\ quarantine' = quarantine
           /\ run.error = "staged"
        \/ live' = live /\ quarantine' = quarantine \cup {At} /\ run.error = "staged"
    BY DEF Check, Restore, PutBack
  <1>5. /\ At' = At /\ Working /\ Working' /\ Facing /\ Facing' /\ ~Refused'
        /\ \A p : (Unsettled(p) <=> p = At) /\ (Unsettled(p)' <=> p = At)
        /\ Refused <=> run.error = "staged"
    BY <1>0, <1>3 DEF At, Working, Facing, Unsettled, Refused
  <1>6. TypeOK' /\ Named'
    BY <1>0, <1>1, <1>3, <1>4 DEF TypeOK, Named
  <1>7. Bound'
    BY <1>0, <1>3, <1>5 DEF Bound, IsCurrent
  <1>8. Transient'
    BY <1>0, <1>3, <1>5 DEF Inv, Transient
  <1>9. Published'
    BY <1>0, <1>3, <1>4, <1>5 DEF Inv, Bound, Published, Whole, TypeOK
  <1>10. Synced'
    BY <1>0, <1>3, <1>4, <1>5 DEF Inv, Bound, Synced, Whole, TypeOK
  <1> QED
    BY <1>6, <1>7, <1>8, <1>9, <1>10 DEF Inv

\* The cache takes what is staged, or the run is to be rolled back.
LEMMA CommitInv ==
  ASSUME Inv, Commit
  PROVE  Inv'
  <1>0. /\ TypeOK /\ Named /\ Bound /\ run \in Progress /\ run # Idle /\ At \in Providers
        /\ run.step = "commit"
        /\ UNCHANGED <<selection, queue, pending, live, served, quarantine, states, shown, phase,
                      cutOff, unread, recaptured>>
    BY Ahead DEF Inv, Commit, requests, view
  <1>1. faults' \in 0..MaxFaults
    BY <1>0, Counted DEF Commit, NoFault
  <1>2. /\ run' \in Progress /\ run'.staged = run.staged /\ run'.error = run.error
        /\ run'.todo = run.todo /\ run'.initial = run.initial /\ run'.before = run.before
        /\ run'.bound = run.bound /\ run'.unproven = run.unproven
        /\ run'.lock \in {run.lock, "none"}
    BY <1>0 DEF Commit, Throws, Publishes, Progress, Steps
  <1>3. \/ /\ run'.step = "publish" /\ run.staged = Nothing /\ run'.committed = run.committed
           /\ UNCHANGED <<store, ever>>
        \/ /\ run'.step = "publish" /\ run.staged # Nothing /\ run'.committed = TRUE
           /\ store' = [store EXCEPT ![At] = run.staged]
           /\ ever' = [ever EXCEPT ![At] = @ \cup {run.staged}]
        \/ /\ run'.step = "rollback" /\ run'.committed = run.committed
           /\ UNCHANGED <<store, ever>>
    BY <1>0 DEF Commit, Throws, Publishes, Progress
  <1>4. /\ At' = At /\ Working /\ Working' /\ Facing /\ ~Refused /\ ~Refused'
        /\ \A p : (Unsettled(p) <=> p = At) /\ (Unsettled(p)' <=> p = At)
    BY <1>0, <1>2, <1>3 DEF At, Working, Facing, Unsettled, Refused
  <1>5. run.staged \in Facts /\ ~run.committed
    BY <1>0 DEF Progress, Bound
  <1>6. TypeOK' /\ Named'
    <2>1. store' \in [Providers -> Facts]
      BY <1>0, <1>3, <1>5 DEF TypeOK
    <2>2. ever' \in [Providers -> SUBSET Facts]
      <3>1. ever[At] \cup {run.staged} \in SUBSET Facts
        BY <1>0, <1>5 DEF TypeOK
      <3> QED
        BY <1>0, <1>3, <3>1 DEF TypeOK
    <2> QED
      BY <1>0, <1>1, <1>2, <2>1, <2>2 DEF TypeOK, Named
  <1>7. Bound'
    BY <1>0, <1>2, <1>3, <1>4, <1>5 DEF Bound, IsCurrent, TypeOK
  <1>8. Transient'
    BY <1>0, <1>2, <1>4 DEF Inv, Transient
  <1>9. Published'
    <2>1. /\ \A p \in Providers : ever[p] \subseteq ever'[p]
          /\ \A p \in Providers : store'[p] = store[p] \/ store'[p] \in ever'[p]
      <3>1. CASE UNCHANGED <<store, ever>>
        BY <3>1
      <3>2. CASE /\ store' = [store EXCEPT ![At] = run.staged]
                 /\ ever' = [ever EXCEPT ![At] = @ \cup {run.staged}]
        BY <3>2, <1>0 DEF TypeOK
      <3> QED
        BY <1>3, <3>1, <3>2
    <2>2. \A p \in Providers : store'[p] \in ever'[p] /\ Nothing \in ever'[p]
      BY <2>1 DEF Inv, Published
    <2> QED
      BY <1>0, <1>2, <1>3, <1>4, <2>1, <2>2 DEF Inv, Published, Whole
  <1>10. Synced'
    BY <1>0, <1>2, <1>3, <1>4 DEF Inv, Synced, Whole, TypeOK
  <1> QED
    BY <1>6, <1>7, <1>8, <1>9, <1>10 DEF Inv
-----------------------------------------------------------------------------
\* The run is published: what is not quarantined is captured, and shown.
LEMMA PublishInv ==
  ASSUME Inv, Publish
  PROVE  Inv'
  <1>0. /\ TypeOK /\ Named /\ Bound /\ run \in Progress /\ run # Idle /\ At \in Providers
        /\ run.step = "publish"
        /\ UNCHANGED <<selection, queue, pending, store, live, phase, ever, cutOff, unread,
                      recaptured>>
        /\ quarantine' = IF run.staged = Nothing THEN quarantine ELSE quarantine \ {At}
        /\ states' = [p \in Providers |->
                       IF p \in quarantine' THEN "failed"
                       ELSE IF p = At THEN Outcome ELSE run.before.states[p]]
    BY Ahead DEF Inv, Publish, requests, history
  <1>1. faults' \in 0..MaxFaults
    BY <1>0, Counted DEF Publish, NoFault
  <1>2. /\ run' \in Progress /\ run'.staged = run.staged /\ run'.error = run.error
        /\ run'.todo = run.todo /\ run'.initial = run.initial /\ run'.before = run.before
        /\ run'.bound = run.bound /\ run'.unproven = run.unproven
        /\ run'.committed = run.committed /\ run'.lock \in {run.lock, "none"}
    <2>1. \/ run' = [run EXCEPT !.step = "release"]
          \/ run' = [run EXCEPT !.step = "rollback", !.lock = "none"]
      BY DEF Publish, Throws
    <2> QED
      BY <1>0, <2>1 DEF Progress, Steps
  <1>3. \/ run'.step = "release" /\ served' = Captured /\ shown' = served'
        \/ run'.step = "rollback" /\ UNCHANGED <<served, shown>>
    BY <1>0 DEF Publish, Throws, Swap, Progress
  <1>4. /\ At' = At /\ Working /\ Working' /\ Facing /\ ~Facing' /\ ~Refused
        /\ \A p : (Unsettled(p) <=> p = At)
        /\ \A p : Unsettled(p)' <=> p = At /\ run'.step = "rollback"
    BY <1>0, <1>2, <1>3 DEF At, Working, Facing, Unsettled, Refused
  <1>5. /\ run.before.states \in [Providers -> ProviderStates] /\ Outcome \in ProviderStates
        /\ Outcome = "refreshing" => run.before.states[At] = "refreshing"
    BY <1>0 DEF Progress, Before, ProviderStates, Outcome
  <1>6. /\ served' \in [Providers -> Facts] /\ states' \in [Providers -> ProviderStates]
        /\ quarantine' \subseteq Providers /\ shown' \in [Providers -> Facts]
    <2>1. /\ served \in [Providers -> Facts] /\ live' \in [Providers -> Facts]
          /\ shown \in [Providers -> Facts] /\ quarantine \subseteq Providers
      BY <1>0 DEF TypeOK
    <2>2. Captured \in [Providers -> Facts]
      BY <2>1 DEF Captured
    <2>3. states' \in [Providers -> ProviderStates]
      BY <1>0, <1>5 DEF ProviderStates
    <2> QED
      BY <1>0, <1>3, <2>1, <2>2, <2>3
  <1>7. TypeOK' /\ Named'
    BY <1>0, <1>1, <1>2, <1>3, <1>6 DEF TypeOK, Named
  <1>8. Bound'
    BY <1>0, <1>2, <1>3, <1>4 DEF Bound, IsCurrent
  <1>9. Transient'
    BY <1>0, <1>2, <1>4, <1>5 DEF Inv, Transient
  <1>10. Published'
    BY <1>0, <1>2, <1>3, <1>4 DEF Inv, Bound, Published, Whole, Captured
  <1>11. Synced'
    <2> SUFFICES ASSUME Whole, ~unread PROVE Synced'
      BY <1>0 DEF Synced, Whole
    <2>1. \A p \in Providers \ {At} :
            /\ p \in quarantine \/ (live[p] = store[p] /\ served[p] = store[p])
            /\ served'[p] = served[p]
      BY <1>0, <1>3, <1>4 DEF Inv, Synced, Captured
    <2>2. run'.step = "release" /\ At \notin quarantine' =>
            live[At] = store[At] /\ served'[At] = store[At]
      BY <1>0, <1>3, <1>4 DEF Inv, Bound, Published, Synced, Captured
    <2>3. /\ \A p \in quarantine' : states'[p] = "failed" /\ p \in Providers
          /\ quarantine' \ {At} \subseteq quarantine \ {At}
      BY <1>0 DEF TypeOK
    <2>4. shown' = served'
      BY <1>3, <1>4 DEF Inv, Synced
    <2> QED
      BY <1>0, <1>2, <1>3, <1>4, <2>1, <2>2, <2>3, <2>4 DEF Inv, Synced
  <1> QED
    BY <1>7, <1>8, <1>9, <1>10, <1>11 DEF Inv

\* The cache gets back what it held, or is no longer known.
LEMMA RollbackInv ==
  ASSUME Inv, Rollback
  PROVE  Inv'
  <1>0. /\ TypeOK /\ Named /\ Bound /\ run \in Progress /\ run # Idle /\ At \in Providers
        /\ run.step = "rollback"
        /\ UNCHANGED <<selection, queue, pending, live, served, quarantine, states, shown, phase,
                      ever, cutOff, unread, recaptured>>
    BY Ahead DEF Inv, Rollback, requests, view, history
  <1>1. faults' \in 0..MaxFaults
    BY <1>0, Counted DEF Rollback, NoFault
  <1>2. /\ run' \in Progress /\ run'.staged = run.staged /\ run'.error = run.error
        /\ run'.todo = run.todo /\ run'.initial = run.initial /\ run'.before = run.before
        /\ run'.bound = run.bound /\ run'.step = "discard" /\ run'.lock = run.lock
        /\ run'.committed = run.committed
    BY <1>0 DEF Rollback, Progress, Steps
  <1>3. \/ run'.unproven /\ store' = store
        \/ run.committed /\ store' = [store EXCEPT ![At] = run.initial]
        \/ ~run.committed /\ store' = store
    BY <1>0 DEF Rollback, Progress
  <1>4. /\ At' = At /\ Working /\ Working' /\ ~Facing' /\ run.initial \in Facts
        /\ \A p : (Unsettled(p) <=> p = At) /\ (Unsettled(p)' <=> p = At)
        /\ \A p \in Providers : store'[p] = store[p] \/ (p = At /\ store'[p] = run.initial)
    <2>1. run.initial \in Facts
      BY <1>0 DEF Progress
    <2>2. \A p \in Providers : store'[p] = store[p] \/ (p = At /\ store'[p] = run.initial)
      BY <1>0, <1>3 DEF TypeOK
    <2> QED
      BY <1>0, <1>2, <2>1, <2>2 DEF At, Working, Facing, Unsettled
  <1>5. TypeOK' /\ Named'
    BY <1>0, <1>1, <1>2, <1>3, <1>4 DEF TypeOK, Named
  <1>6. Bound'
    BY <1>0, <1>2, <1>3, <1>4 DEF Bound, IsCurrent, TypeOK
  <1>7. Transient'
    BY <1>0, <1>2, <1>4 DEF Inv, Transient
  <1>8. Published'
    BY <1>0, <1>2, <1>4 DEF Inv, Published, Whole
  <1>9. Synced'
    BY <1>0, <1>2, <1>4 DEF Inv, Synced, Whole
  <1> QED
    BY <1>5, <1>6, <1>7, <1>8, <1>9 DEF Inv

\* The run is undone: the Provider is back where it was, or quarantined.
LEMMA DiscardInv ==
  ASSUME Inv, Discard
  PROVE  Inv'
  <1>0. /\ TypeOK /\ Named /\ Bound /\ run \in Progress /\ run # Idle /\ At \in Providers
        /\ run.step = "discard" /\ Fresh
        /\ UNCHANGED <<selection, queue, pending, store, phase, ever, cutOff, unread, recaptured>>
    BY Ahead, Leaves DEF Inv, Discard, requests, history
  <1>1. faults' \in 0..MaxFaults
    BY <1>0, Counted DEF Discard, NoFault
  <1>2. /\ run' \in Progress \cup {Idle} /\ ~Working' /\ ~Facing' /\ Bound'
        /\ run'.step \notin {"idle", "next"} => run'.todo # <<>>
        /\ \A p : ~Unsettled(p)'
    BY <1>0, FreshRun DEF Working, Facing, Unsettled
  <1>3. Working /\ (\A p : Unsettled(p) <=> p = At)
    BY <1>0 DEF Working, Unsettled
  <1>4. /\ run.before.states \in [Providers -> ProviderStates]
        /\ run.before.shown \in [Providers -> Facts]
    BY <1>0 DEF Progress, Before
  <1>5. /\ live' = live \/ live' = [live EXCEPT ![At] = store[At]]
        /\ live' \in [Providers -> Facts]
        /\ \A p \in Providers \ {At} : live'[p] = live[p]
    BY <1>0 DEF Discard, PutBack, TypeOK
  <1>6. CASE Quarantined
    <2>1. /\ quarantine' = quarantine \cup {At} /\ served' = served /\ shown' = served
          /\ states' = [run.before.states EXCEPT ![At] = "failed"]
      BY <1>6 DEF Quarantined, Swap
    <2>2. TypeOK' /\ Named'
      BY <1>0, <1>1, <1>2, <1>4, <1>5, <2>1 DEF TypeOK, Named, ProviderStates
    <2>3. Transient'
      BY <1>2, <1>3, <1>4, <1>0, <2>1 DEF Inv, Transient
    <2>4. Published'
      BY <1>0, <1>2, <1>3, <1>5, <2>1 DEF Inv, Published, Whole
    <2>5. Synced'
      BY <1>0, <1>2, <1>3, <1>4, <1>5, <2>1 DEF Inv, Synced, Whole, TypeOK
    <2> QED
      BY <1>2, <2>2, <2>3, <2>4, <2>5 DEF Inv
  <1>7. CASE ~Quarantined
    <2>1. /\ quarantine' = quarantine /\ At \notin quarantine /\ ~run.unproven
          /\ live' = [live EXCEPT ![At] = store[At]] /\ served' = Captured
          /\ states' = run.before.states /\ shown' = run.before.shown
      BY <1>7 DEF Discard, PutBack
    <2>2. /\ live'[At] = store[At] /\ store[At] = run.initial
          /\ \A p \in Providers : served'[p] = IF p \in quarantine THEN served[p] ELSE live'[p]
          /\ served' \in [Providers -> Facts]
      BY <1>0, <1>3, <1>5, <2>1 DEF TypeOK, Bound, Captured
    <2>3. TypeOK' /\ Named'
      BY <1>0, <1>1, <1>2, <1>4, <1>5, <2>1, <2>2 DEF TypeOK, Named
    <2>4. Transient'
      BY <1>0, <1>2, <1>3, <2>1 DEF Inv, Transient
    <2>5. Published'
      BY <1>0, <1>2, <1>3, <1>5, <2>1, <2>2 DEF Inv, Published, Whole
    <2>6. Synced'
      <3> SUFFICES ASSUME Whole, ~unread PROVE Synced'
        BY <1>0 DEF Synced, Whole
      <3>1. \A p \in Providers :
              p \in quarantine \/ (live'[p] = store[p] /\ served'[p] = store[p])
        BY <1>0, <1>3, <1>5, <2>2 DEF Inv, Synced
      <3>2. \A p \in Providers \ {At} : served'[p] = served[p]
        BY <1>3, <1>5, <2>2 DEF Inv, Synced
      <3>3. \A p \in Providers : shown'[p] = served'[p] \/ states'[p] = "failed"
        BY <1>3, <2>1, <2>2, <3>2 DEF Inv, Synced
      <3>4. \A p \in quarantine : states'[p] = "failed"
        BY <1>0, <1>3, <2>1 DEF Inv, Synced, TypeOK
      <3> QED
        BY <1>0, <1>2, <2>1, <3>1, <3>3, <3>4 DEF Synced
    <2> QED
      BY <1>2, <2>3, <2>4, <2>5, <2>6 DEF Inv
  <1> QED
    BY <1>6, <1>7

\* The next process serves what it can read.
LEMMA CrashInv ==
  ASSUME Inv, Crash
  PROVE  Inv'
  <1>0. /\ TypeOK /\ UNCHANGED <<store, ever, selection>> /\ run' = Idle /\ queue' = <<>>
        /\ served' = live' /\ shown' = live' /\ states' = BootStates(live')
        /\ quarantine' = {} /\ pending' = TRUE /\ phase' = "serving" /\ cutOff' = {}
        /\ recaptured' = FALSE /\ unread' \in BOOLEAN /\ faults' \in 0..MaxFaults
    BY Counted DEF Inv, Crash
  <1>1. /\ live' = Unread \/ live' = store
        /\ ~unread' => live' = store
    BY <1>0 DEF Crash
  <1>2. /\ live' \in [Providers -> Facts] /\ states' \in [Providers -> ProviderStates]
        /\ \A p \in Providers : live'[p] \in ever[p] /\ states'[p] # "refreshing"
    BY <1>0, <1>1 DEF Inv, TypeOK, Published, Unread, BootStates, ProviderStates, Facts
  <1>3. run'.step = "idle" /\ DOMAIN queue' = {} /\ ~Working' /\ ~Facing' /\ queue' \in Seq(Runs)
    BY <1>0 DEF Idle, Working, Facing
  <1>4. TypeOK' /\ Named' /\ Bound'
    BY <1>0, <1>2, <1>3 DEF TypeOK, Named, Bound
  <1>5. Transient' /\ Published'
    BY <1>0, <1>2, <1>3 DEF Inv, Transient, Published
  <1>6. Synced'
    BY <1>0, <1>1, <1>3 DEF Synced
  <1> QED
    BY <1>4, <1>5, <1>6 DEF Inv
-----------------------------------------------------------------------------
LEMMA NextInv == Inv /\ [Next]_vars => Inv'
  <1> SUFFICES ASSUME Inv, [Next]_vars PROVE Inv'
    OBVIOUS
  <1>1. CASE UNCHANGED vars
    <2>1. TypeOK' /\ Named' /\ Bound'
      BY <1>1 DEF vars, Inv, TypeOK, Named, Bound, IsCurrent, At, Working
    <2>2. Onward
      BY <1>1 DEF vars, Onward, Working, Facing, Refused
    <2> QED
      BY <2>1, <2>2, NextOnward DEF Inv
  <1>2. CASE Step
    BY <1>2, BetweenInv, CombineInv, BeginInv, OnInv, CheckInv, CommitInv, PublishInv,
       RollbackInv, DiscardInv, DisposeInv
    DEF Step
  <1>3. CASE Answer
    BY <1>3, AnswerInv, OnInv DEF Answer
  <1> QED
    BY <1>1, <1>2, <1>3, RequestInv, BetweenInv, BrokenInv, LockLostInv, DisposeInv, CrashInv
    DEF Next

\* Every state: what a run may have changed, and what undoing it needs.
THEOREM Invariance == Spec => []Inv
  BY InitInv, NextInv, PTL DEF Spec

\* Management is shown the truth, however many runs fail and processes die.
THEOREM CatalogStaysConsistent == Spec => []CatalogConsistent
  <1>1. ASSUME Inv PROVE CatalogConsistent
    <2>1. TypeOK
      BY <1>1 DEF Inv
    <2>2. RefreshingIsTransient
      <3>1. run # Idle <=> run.step # "idle"
        BY <1>1, Ahead DEF Inv
      <3> QED
        BY <1>1, <3>1 DEF Inv, Transient, RefreshingIsTransient, Unsettled, Working
    <2>3. SnapshotIsServed
      BY <1>1, Ahead DEF Inv, Synced, SnapshotIsServed, Whole, Working
    <2> QED
      BY <2>1, <2>2, <2>3 DEF CatalogConsistent
  <1> QED
    BY <1>1, Invariance, PTL

\* "refreshing" never outlasts the run that set it, except when the second look
\* at the selection threw: that is the one way a run is dropped half-way.
THEOREM OnlyCutOffsStick == Spec => [](cutOff = {} => RefreshingNeverSticks)
  <1>1. CatalogConsistent => (cutOff = {} => RefreshingNeverSticks)
    BY DEF CatalogConsistent, RefreshingIsTransient, RefreshingNeverSticks
  <1> QED
    BY <1>1, CatalogStaysConsistent, PTL

\* Whatever is served was committed to the cache first.
THEOREM ServedIsPublished == Spec => []ServedWasPublished
  <1>1. Inv => ServedWasPublished
    BY DEF Inv, Published, Whole, ServedWasPublished
  <1> QED
    BY <1>1, Invariance, PTL

\* The cache takes nothing that another account's login has fetched.
THEOREM CacheStaysCurrent == Spec => DurableIsCurrent
  <1>1. ASSUME Inv, [Next]_vars, NEW p \in Providers, store'[p] # store[p]
        PROVE  \/ run.step = "rollback" /\ store'[p] = run.initial
               \/ store'[p] # Nothing /\ store'[p][1] = selection[p]
    <2>1. Commit \/ Rollback
      BY <1>1
      DEF Next, vars, Request, Answer, Step, ScheduleBackground, EnqueueBackground, RefreshManual,
          Select, Login, Start, Capture, Combine, Skip, Begin, Outdated, Check, Lock, Publish,
          Disowned, Release, Discard, Disposed, Drop, CutOff, LockLost, OverlayCapture, Dispose,
          Crash, Fetched, Unpublished, Failed, Unasked, facts
    <2>2. TypeOK /\ Bound /\ run \in Progress /\ run # Idle
      BY <1>1, <2>1, Ahead DEF Inv, Commit, Rollback
    <2>3. CASE Commit
      <3>1. /\ run.staged # Nothing /\ run.lock = "held"
            /\ store' = [store EXCEPT ![At] = run.staged]
        BY <1>1, <2>3 DEF Commit, Owned
      <3>2. p = At /\ store'[p] = run.staged
        BY <1>1, <2>2, <3>1 DEF TypeOK
      <3> QED
        BY <2>2, <3>1, <3>2 DEF Bound, IsCurrent
    <2>4. CASE Rollback
      BY <1>1, <2>2, <2>4 DEF Rollback, TypeOK
    <2> QED
      BY <2>1, <2>3, <2>4
  <1>2. Inv /\ [Next]_vars =>
          [\A p \in Providers : store'[p] # store[p] =>
             \/ run.step = "rollback" /\ store'[p] = run.initial
             \/ store'[p] # Nothing /\ store'[p][1] = selection[p]]_vars
    BY <1>1
  <1> QED
    BY <1>2, Invariance, PTL DEF Spec, DurableIsCurrent

\* Only its own publication lets a quarantined Provider serve something else.
THEOREM QuarantineStays == Spec => QuarantineHolds
  <1>1. ASSUME Inv, [Next]_vars, NEW p \in quarantine \cap quarantine'
        PROVE  \/ served'[p] = served[p]
               \/ recaptured' /\ served' = live
    <2>1. CASE Publish \/ Discard
      BY <1>1, <2>1 DEF Inv, TypeOK, Publish, Discard, Quarantined, Captured
    <2>2. CASE OverlayCapture \/ Crash
      BY <1>1, <2>2 DEF OverlayCapture, Crash
    <2>3. CASE ~(Publish \/ Discard \/ OverlayCapture \/ Crash)
      BY <1>1, <2>3
      DEF Next, vars, Request, Answer, Step, ScheduleBackground, EnqueueBackground, RefreshManual,
          Select, Login, Start, Capture, Combine, Skip, Begin, Outdated, Check, Lock, Commit,
          Disowned, Release, Rollback, Disposed, Drop, CutOff, LockLost, Dispose,
          Fetched, Unpublished, Failed, Unasked, facts, view
    <2> QED
      BY <2>1, <2>2, <2>3
  <1>2. Inv /\ [Next]_vars =>
          [\A p \in quarantine \cap quarantine' :
             \/ served'[p] = served[p]
             \/ recaptured' /\ served' = live]_vars
    BY <1>1
  <1> QED
    BY <1>2, Invariance, PTL DEF Spec, QuarantineHolds
-----------------------------------------------------------------------------
\* What an answer leaves live is what is staged, or stored if nothing is.
Answers == live[At] = IF run.staged = Nothing THEN store[At] ELSE run.staged

Settling ==
  /\ run.step = "answered" /\ run.error = "none" => Answers
  /\ run.step \in {"lock", "commit", "publish"} /\ run.error # "unstaged" =>
       (At \in quarantine /\ run.staged = Nothing) \/ Answers
  /\ run.step = "release" /\ run.error # "unstaged" /\ ~recaptured =>
       At \in quarantine \/ served[At] = store[At]

LEMMA SettlingInv ==
  ASSUME Inv, Settling, [Next]_vars
  PROVE  Settling'
  <1>0. /\ TypeOK /\ Named /\ Bound
        /\ run.step \notin {"idle", "next"} => run \in Progress /\ run # Idle /\ At \in Providers
    BY Ahead DEF Inv
  <1>1. CASE Request \/ Dispose \/ Disposed \/ UNCHANGED vars
    <2>1. UNCHANGED <<run, store, live, served, quarantine, recaptured>>
      BY <1>1
      DEF Request, ScheduleBackground, EnqueueBackground, RefreshManual, Select, Login, Dispose,
          Disposed, facts, view, history, vars
    <2> QED
      BY <2>1 DEF Settling, Answers, At
  <1>2. CASE LockLost
    <2>1. run # Idle /\ run' = [run EXCEPT !.lock = "lost"]
          /\ UNCHANGED <<store, live, served, quarantine, recaptured>>
      BY <1>2 DEF LockLost, facts, view, history
    <2>2. /\ run'.step = run.step /\ run'.error = run.error /\ run'.staged = run.staged
          /\ run'.todo = run.todo
      BY <1>0, <2>1, Ahead DEF Progress
    <2> QED
      BY <2>1, <2>2 DEF Settling, Answers, At
  <1>3. CASE OverlayCapture
    BY <1>3 DEF OverlayCapture, view, Settling, Answers, At
  <1>4. CASE Start \/ Capture \/ Skip \/ Drop \/ Release \/ Combine \/ CutOff \/ Discard \/ Crash
    <2>1. run'.step \in {"idle", "next", "bound"}
      BY <1>4
      DEF Start, Capture, Skip, Drop, Release, Combine, CutOff, Discard, Crash, Leave, Turn, Idle
    <2> QED
      BY <2>1 DEF Settling
  <1>5. CASE Begin \/ Outdated \/ Disowned \/ Rollback
    <2>1. run'.step \in {"network", "discard", "rollback"}
      BY <1>0, <1>5 DEF Begin, Outdated, Disowned, Rollback, Throws, Progress
    <2> QED
      BY <2>1 DEF Settling
  <1>6. CASE Unasked
    BY <1>0, <1>6 DEF Unasked, Answered, Progress, Settling
  <1>7. CASE Fetched \/ Unpublished \/ Failed
    <2>1. /\ run.step = "network" /\ run'.step = "answered" /\ run'.todo = run.todo /\ At' = At
          /\ store' = store
      BY <1>0, <1>7 DEF Fetched, Unpublished, Failed, Asking, Answered, Progress, At
    <2>2. CASE Fetched
      <3>1. PICK c \in Contents : live' = [live EXCEPT ![At] = <<run.bound, c>>]
                                 /\ Answered("none", live'[At])
        BY <2>2 DEF Fetched
      <3>2. run'.staged = live'[At]
        BY <1>0, <2>1, <3>1 DEF Answered, Progress
      <3>3. live'[At] # Nothing
        <4>1. run.bound \in 1..MaxGen
          BY <1>0, <2>1, <2>2 DEF Fetched, Asking, Progress, Unbound
        <4> QED
          BY <1>0, <2>1, <3>1, <4>1, CatalogAssumption DEF TypeOK
      <3> QED
        BY <2>1, <3>2, <3>3 DEF Settling, Answers
    <2>3. CASE Unpublished
      BY <1>0, <2>1, <2>3 DEF Unpublished, Answered, Progress, TypeOK, Settling, Answers
    <2>4. CASE Failed
      BY <1>0, <2>1, <2>4 DEF Failed, Answered, Progress, Settling
    <2> QED
      BY <1>7, <2>2, <2>3, <2>4
  <1>8. CASE Check
    <2>1. /\ run.step = "answered" /\ run'.step \in {"lock", "publish"} /\ run'.todo = run.todo
          /\ run'.error = run.error /\ run'.staged = run.staged /\ At' = At /\ store' = store
      BY <1>0, <1>8 DEF Check, Progress, At
    <2>2. CASE run.error = "staged"
      BY <1>0, <1>8, <2>1, <2>2 DEF Check, Restore, PutBack, Bound, TypeOK, Settling, Answers
    <2>3. CASE run.error # "staged"
      BY <1>0, <1>8, <2>1, <2>3 DEF Check, Progress, Settling, Answers
    <2> QED
      BY <2>2, <2>3
  <1>9. CASE Lock
    <2>1. /\ run.step = "lock" /\ run'.step \in {"commit", "discard", "rollback"}
          /\ run'.todo = run.todo /\ run'.error = run.error /\ run'.staged = run.staged
          /\ At' = At /\ UNCHANGED <<store, live, quarantine>>
      BY <1>0, <1>9 DEF Lock, Progress, At, facts, view
    <2> QED
      BY <2>1 DEF Settling, Answers
  <1>10. CASE Commit
    <2>1. /\ run.step = "commit" /\ run'.step \in {"publish", "rollback"}
          /\ run'.todo = run.todo /\ run'.error = run.error /\ run'.staged = run.staged
          /\ At' = At /\ UNCHANGED <<live, quarantine>>
          /\ run.staged = Nothing => store' = store
      BY <1>0, <1>10 DEF Commit, Throws, Publishes, Progress, At, view
    <2> QED
      BY <2>1 DEF Settling, Answers
  <1>11. CASE Publish
    <2>1. /\ run.step = "publish" /\ run'.step \in {"release", "rollback"}
          /\ run'.todo = run.todo /\ run'.error = run.error /\ At' = At
          /\ run'.step = "release" => served' = Captured
          /\ UNCHANGED <<live, store>>
      BY <1>0, <1>11 DEF Publish, Throws, Progress, At
    <2>2. run.staged # Nothing => store[At] = run.staged
      BY <1>0, <2>1 DEF Bound
    <2>3. quarantine' = IF run.staged = Nothing THEN quarantine ELSE quarantine \ {At}
      BY <1>11 DEF Publish
    <2> QED
      BY <1>0, <2>1, <2>2, <2>3 DEF Settling, Answers, Captured
  <1> QED
    BY <1>1, <1>2, <1>3, <1>4, <1>5, <1>6, <1>7, <1>8, <1>9, <1>10, <1>11
    DEF Next, Step, Answer

\* Publishing and undoing end the same: the Provider serves what the cache holds.
THEOREM SettledStaysDurable == Spec => SettledIsDurable
  <1>1. Init => Settling
    BY DEF Init, Settling, Idle
  <1>2. ASSUME Inv, Settling, [Next]_vars, run # Idle, run.step \in {"release", "discard"},
               run.lock # "lost", run'.step \in {"idle", "next"}, faults' = faults, ~recaptured
        PROVE  \/ At \in quarantine'
               \/ run.error = "unstaged" \/ At \in cutOff
               \/ served'[At] = store'[At]
    <2>0. TypeOK /\ run \in Progress /\ At \in Providers
      BY <1>2, Ahead DEF Inv
    <2>1. CASE Release
      BY <1>2, <2>1 DEF Release, facts, view, Settling
    <2>2. CASE Discard
      BY <2>0, <2>2 DEF Discard, Quarantined, Captured, PutBack, TypeOK
    <2>3. Release \/ Discard
      <3>1. run' # run
        BY <1>2
      <3>2. ~Fault
        BY <1>2, <2>0, CatalogAssumption DEF Fault, TypeOK
      <3> QED
        BY <1>2, <2>0, <3>1, <3>2
        DEF Next, vars, Request, Answer, Step, ScheduleBackground, EnqueueBackground,
            RefreshManual, Select, Login, Start, Capture, Combine, Skip, Begin, Outdated, Check,
            Lock, Commit, Publish, Disowned, Rollback, Disposed, Drop, CutOff, LockLost,
            OverlayCapture, Dispose, Crash, Fetched, Unpublished, Failed, Unasked, Asking,
            Throws, Progress
    <2> QED
      BY <2>1, <2>2, <2>3
  <1>3. Inv /\ Settling /\ [Next]_vars =>
          [run # Idle /\ run.step \in {"release", "discard"} /\ run.lock # "lost"
             /\ run'.step \in {"idle", "next"} /\ faults' = faults /\ ~recaptured
           => \/ At \in quarantine'
              \/ run.error = "unstaged" \/ At \in cutOff
              \/ served'[At] = store'[At]]_vars
    BY <1>2
  <1> QED
    BY <1>1, <1>3, SettlingInv, Invariance, PTL DEF Spec, SettledIsDurable

-----------------------------------------------------------------------------
Quiet ==
  /\ phase = "disposing" => ~pending
  /\ phase = "disposed" => run = Idle /\ queue = <<>> /\ ~pending

\* Once dispose() has begun nothing new is asked for.
LEMMA QuietInv == Quiet /\ [Next]_vars => Quiet'
  <1> SUFFICES ASSUME Quiet, [Next]_vars PROVE Quiet'
    OBVIOUS
  <1>1. CASE Dispose \/ Disposed \/ Crash
    BY <1>1 DEF Dispose, Disposed, Crash, Quiet, requests
  <1>0. CASE UNCHANGED vars
    BY <1>0 DEF Quiet, vars
  <1>2. CASE Request \/ OverlayCapture
    <2>1. CASE ScheduleBackground \/ RefreshManual \/ OverlayCapture
      BY <2>1 DEF ScheduleBackground, RefreshManual, OverlayCapture, Quiet
    <2>2. CASE EnqueueBackground
      BY <2>2 DEF EnqueueBackground, Quiet
    <2>3. ASSUME NEW p \in Providers, Select(p) PROVE Quiet'
      BY <2>3 DEF Select, Quiet
    <2>4. ASSUME NEW p \in Providers, Login(p) PROVE Quiet'
      BY <2>4 DEF Login, Quiet
    <2> QED
      BY <1>2, <2>1, <2>2, <2>3, <2>4 DEF Request
  <1>3. CASE run # Idle /\ phase' = phase /\ pending' = pending
    BY <1>3 DEF Quiet
  <1>4. CASE Start
    BY <1>4 DEF Start, Quiet
  <1>5. \/ Dispose \/ Disposed \/ Crash \/ UNCHANGED vars \/ Request \/ OverlayCapture \/ Start
        \/ run # Idle /\ phase' = phase /\ pending' = pending
    <2>1. ASSUME Answer \/ Drop \/ CutOff \/ LockLost
          PROVE  run # Idle /\ phase' = phase /\ pending' = pending
      BY <2>1 DEF Answer, Drop, CutOff, LockLost, Fetched, Unpublished, Failed, Unasked, Asking,
                  requests
    <2>2. ASSUME Step
          PROVE  Start \/ Disposed \/ (run # Idle /\ phase' = phase /\ pending' = pending)
      BY <2>2
      DEF Step, Capture, Combine, Skip, Begin, Outdated, Check, Lock, Commit, Publish, Disowned,
          Release, Rollback, Discard, requests
    <2> QED
      BY <2>1, <2>2 DEF Next
  <1> QED
    BY <1>0, <1>1, <1>2, <1>3, <1>4, <1>5

\* After dispose() has returned nothing of a refresh arrives.
THEOREM DisposedStaysQuiet == Spec => DisposedIsQuiet
  <1>1. Init => Quiet
    BY DEF Init, Quiet
  <1>2. Quiet /\ [Next]_vars =>
          [phase = "disposed" /\ phase' = "disposed"
           => UNCHANGED <<store, live, served, states, shown>>]_vars
    BY
    DEF Next, vars, Request, Answer, Step, ScheduleBackground, EnqueueBackground, RefreshManual,
        Select, Login, Start, Capture, Combine, Skip, Begin, Outdated, Check, Lock, Commit,
        Publish, Disowned, Release, Rollback, Discard, Disposed, Drop, CutOff, LockLost,
        OverlayCapture, Dispose, Crash, Fetched, Unpublished, Failed, Unasked, Asking, Quiet,
        facts, view
  <1> QED
    BY <1>1, <1>2, QuietInv, PTL DEF Spec, DisposedIsQuiet
-----------------------------------------------------------------------------
(***************************************************************************)
(* A run comes nearer its end with every step: it asks each Provider of    *)
(* its list at most once, however a refresh is undone.                     *)
(***************************************************************************)
Rung(step) == CASE step = "next" -> 10 [] step = "bound" -> 9 [] step = "network" -> 8
                [] step = "answered" -> 7 [] step = "lock" -> 6 [] step = "commit" -> 5
                [] step = "publish" -> 4 [] step = "release" -> 3 [] step = "rollback" -> 2
                [] step = "discard" -> 1 [] OTHER -> 0

StepsLeft == IF run = Idle THEN 0 ELSE 11 * Len(run.todo) + Rung(run.step)

\* Nothing sends a run back: neither a lost lock nor a login, an overlay or dispose.
RunsCountDown ==
  [][run # Idle => /\ StepsLeft \in Nat /\ StepsLeft' <= StepsLeft
                   /\ run'.step # run.step => StepsLeft' < StepsLeft]_vars

\* What a step leaves of the run: nothing, the rest of its list, or a later step.
Nearer ==
  \/ run' = Idle
  \/ /\ run' # Idle /\ run.step \notin {"idle", "next"}
     /\ run'.step = "next" /\ run'.todo = Tail(run.todo)
  \/ run' # Idle /\ run'.todo = run.todo /\ Rung(run'.step) < Rung(run.step)

LEMMA Rungs == \A x : Rung(x) \in 0..10 /\ (x \in Steps => Rung(x) > 0)
  BY DEF Rung, Steps

LEMMA NearerCounts ==
  ASSUME TypeOK, Named, run # Idle, Nearer
  PROVE  StepsLeft \in Nat /\ StepsLeft' \in Nat /\ StepsLeft' < StepsLeft
  <1>1. /\ run.todo \in Seq(Providers) /\ run.step \in Steps
        /\ run.step \notin {"idle", "next"} => run.todo # <<>>
    BY Ahead DEF Named, Progress
  <1>2. /\ Len(run.todo) \in Nat /\ Rung(run.step) \in 1..10 /\ Rung(run'.step) \in 0..10
        /\ StepsLeft = 11 * Len(run.todo) + Rung(run.step)
    BY <1>1, Rungs DEF StepsLeft
  <1>3. CASE run' = Idle
    <2>1. StepsLeft' = 0
      BY <1>3 DEF StepsLeft
    <2>2. \A n \in Nat, y \in 1..10 : 11 * n + y \in Nat /\ 0 < 11 * n + y
      OBVIOUS
    <2> HIDE DEF StepsLeft
    <2> QED
      BY <1>2, <2>1, <2>2
  <1>4. CASE /\ run' # Idle /\ run.step \notin {"idle", "next"}
             /\ run'.step = "next" /\ run'.todo = Tail(run.todo)
    <2>1. Len(run'.todo) = Len(run.todo) - 1 /\ Len(run.todo) > 0
      BY <1>1, <1>4
    <2>2. StepsLeft' = 11 * Len(run'.todo) + 10
      BY <1>4 DEF StepsLeft, Rung
    <2>3. \A n, m \in Nat, y \in 1..10 : m = n - 1 =>
            11 * n + y \in Nat /\ 11 * m + 10 \in Nat /\ 11 * m + 10 < 11 * n + y
      OBVIOUS
    <2>4. Len(run'.todo) \in Nat
      BY <1>2, <2>1
    <2> HIDE DEF Rung, StepsLeft
    <2> QED
      BY <1>2, <2>1, <2>2, <2>3, <2>4
  <1>5. CASE run' # Idle /\ run'.todo = run.todo /\ Rung(run'.step) < Rung(run.step)
    <2>1. StepsLeft' = 11 * Len(run.todo) + Rung(run'.step)
      BY <1>5 DEF StepsLeft
    <2>2. \A n \in Nat, x \in 0..10, y \in 1..10 :
            x < y => 11 * n + y \in Nat /\ 11 * n + x \in Nat /\ 11 * n + x < 11 * n + y
      OBVIOUS
    <2>3. Rung(run'.step) < Rung(run.step)
      BY <1>5
    <2> HIDE DEF Rung, StepsLeft
    <2> QED
      BY <1>2, <2>1, <2>2, <2>3
  <1> QED
    BY <1>3, <1>4, <1>5 DEF Nearer

LEMMA RunNearer ==
  ASSUME TypeOK, Named, run # Idle, [Next]_vars
  PROVE  Nearer \/ (run' # Idle /\ run'.todo = run.todo /\ run'.step = run.step)
  <1>0. run \in Progress /\ run.step # "idle"
    BY Ahead
  <1>1. CASE Request \/ OverlayCapture \/ Dispose \/ Start \/ Disposed \/ UNCHANGED vars
    <2>1. run' = run
      BY <1>1 DEF Request, ScheduleBackground, EnqueueBackground, RefreshManual, Select, Login,
                  OverlayCapture, Dispose, Start, Disposed, vars
    <2> QED
      BY <2>1
  <1>2. CASE LockLost
    BY <1>0, <1>2 DEF LockLost, Progress, Idle
  <1>3. CASE Combine \/ Drop \/ CutOff \/ Crash
    BY <1>3 DEF Combine, Drop, CutOff, Crash, Nearer
  <1>4. ASSUME Leave, run.step \notin {"idle", "next"} PROVE Nearer
    BY <1>4 DEF Leave, Turn, Nearer, Idle
  <1>5. CASE Skip \/ Release \/ Discard
    BY <1>4, <1>5 DEF Skip, Release, Discard
  <1>6. CASE Capture
    <2>1. run.step = "next" /\ run' # Idle /\ run'.todo = run.todo /\ run'.step = "bound"
      BY <1>6 DEF Capture, Turn, Idle
    <2> QED
      BY <2>1 DEF Nearer, Rung
  <1>7. ASSUME run' # Idle, run'.todo = run.todo,
               <<run.step, run'.step>> \in
                 {<<"bound", "network">>, <<"network", "answered">>, <<"answered", "discard">>,
                  <<"answered", "publish">>, <<"answered", "lock">>, <<"lock", "commit">>,
                  <<"lock", "discard">>, <<"lock", "rollback">>, <<"commit", "publish">>,
                  <<"commit", "rollback">>, <<"publish", "release">>, <<"publish", "rollback">>,
                  <<"release", "rollback">>, <<"rollback", "discard">>}
        PROVE  Nearer
    BY <1>7 DEF Nearer, Rung
  <1>8. CASE Begin \/ Outdated \/ Check
    BY <1>0, <1>7, <1>8 DEF Begin, Outdated, Check, Progress, Idle
  <1>a. CASE Answer
    <2>1. run.step = "network" /\ \E error, staged : Answered(error, staged)
      BY <1>a DEF Answer, Fetched, Unpublished, Failed, Unasked, Asking
    <2> QED
      BY <1>0, <1>7, <2>1 DEF Answered, Progress, Idle
  <1>9. CASE Lock \/ Rollback
    BY <1>0, <1>7, <1>9 DEF Lock, Rollback, Progress, Idle
  <1>b. CASE Commit
    BY <1>0, <1>7, <1>b DEF Commit, Throws, Publishes, Progress, Idle
  <1>10. CASE Publish \/ Disowned
    BY <1>0, <1>7, <1>10 DEF Publish, Disowned, Throws, Progress, Idle
  <1> QED
    BY <1>1, <1>2, <1>3, <1>5, <1>6, <1>8, <1>9, <1>10, <1>a, <1>b DEF Next, Step

\* Every run ends after at most eleven steps for each Provider of its list and
\* ten more, whatever faults it meets: only a Provider that does not answer, or
\* a lock that is not granted, can keep it.
THEOREM RunsNearTheirEnd == Spec => RunsCountDown
  <1>1. ASSUME Inv, [Next]_vars, run # Idle
        PROVE  /\ StepsLeft \in Nat /\ StepsLeft' <= StepsLeft
               /\ run'.step # run.step => StepsLeft' < StepsLeft
    <2>1. CASE Nearer
      BY <1>1, <2>1, NearerCounts DEF Inv
    <2>2. CASE run' # Idle /\ run'.todo = run.todo /\ run'.step = run.step
      <3>1. StepsLeft' = StepsLeft
        BY <1>1, <2>2 DEF StepsLeft
      <3>2. run.todo \in Seq(Providers) /\ StepsLeft = 11 * Len(run.todo) + Rung(run.step)
        <4>1. run \in Progress
          BY <1>1, Ahead DEF Inv
        <4> QED
          BY <1>1, <4>1 DEF Progress, StepsLeft
      <3>3. Len(run.todo) \in Nat /\ Rung(run.step) \in 0..10
        BY <3>2, Rungs
      <3>4. \A n \in Nat, x \in 0..10 : 11 * n + x \in Nat
        OBVIOUS
      <3>5. StepsLeft \in Nat
        BY <3>2, <3>3, <3>4
      <3> QED
        BY <2>2, <3>1, <3>5
    <2> QED
      BY <1>1, <2>1, <2>2, RunNearer DEF Inv
  <1>2. Inv /\ [Next]_vars =>
          [run # Idle => /\ StepsLeft \in Nat /\ StepsLeft' <= StepsLeft
                         /\ run'.step # run.step => StepsLeft' < StepsLeft]_vars
    BY <1>1
  <1> QED
    BY <1>2, Invariance, PTL DEF Spec, RunsCountDown
=============================================================================
