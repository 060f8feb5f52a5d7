-------------------------- MODULE DataPlaneLifecycle --------------------------
(***************************************************************************)
(* The life of the model gateway inside one Backend: the supervisor that   *)
(* runs start, stop, restart and quit one at a time (runtime-supervisor),  *)
(* the listener each start creates (running-data-plane-listener, server),  *)
(* what clients are shown of it, and the teardown of the application       *)
(* around them (application).                                              *)
(*                                                                         *)
(* Each command is a chain of awaits: a status is assigned and published,  *)
(* a listener is awaited, a status is assigned and published again.        *)
(* Requests, other commands and the teardown run in between.               *)
(***************************************************************************)
EXTENDS Naturals, Sequences

CONSTANTS Listeners,   \* listener objects; one may be reused once it is closed
          None,        \* listener === undefined
          Requests,    \* requests in flight
          MaxQueue     \* bound: commands waiting in operationQueue

ASSUME LifecycleAssumption == None \notin Listeners /\ MaxQueue \in Nat \ {0}

VARIABLES
  status,     \* current.modelDataPlane, a failure by its code
  listener,   \* the supervisor's listener
  phase,      \* phase[l]: where listener l is in its life
  active,     \* active[l]: the requests it has admitted and not yet finished
  queue,      \* operationQueue: the commands behind the one that runs
  op,         \* the command that runs: [cmd, from, at, target]
  last,       \* lastPublishedStatus, the application's copy of the status
  shown,      \* what the Control Plane shows its clients
  plane,      \* the Control Plane: "open", "closing" or "closed"
  teardown,   \* how far closeOwnedResources has come
  lease       \* whether this Backend holds the InstanceLease

supervisor == <<status, listener, queue, op>>
serving == <<phase, active>>
published == <<last, shown>>
application == <<plane, teardown, lease>>
vars == <<supervisor, serving, published, application>>

Statuses == {"stopped", "starting", "running", "stopping", "start_failed", "stop_failed"}

Commands == [cmd : {"start", "stop", "restart", "quit"},
             from : {"client", "owner", "teardown"}]

\* at: the await the command is in, "refused" when what it awaits has been
\* rejected; target: the listener it closes.
Operations == [cmd : {"start", "stop", "restart", "quit"},
               from : {"client", "owner", "teardown"},
               at : {"announce", "await", "announceStart", "bind", "report", "refused"},
               target : Listeners \cup {None}]

NoOperation == [at |-> "none"]
Running == op # NoOperation

TypeOK ==
  /\ status \in Statuses /\ last \in Statuses /\ shown \in Statuses
  /\ listener \in Listeners \cup {None}
  /\ phase \in [Listeners -> {"open", "draining", "closing", "closed", "broken"}]
  /\ active \in [Listeners -> SUBSET Requests]
  /\ queue \in Seq(Commands)
  /\ op \in Operations \cup {NoOperation}
  /\ plane \in {"open", "closing", "closed"}
  /\ teardown \in {"up", "requested", "stopping", "unpublishing", "closing", "flushing", "done"}
  /\ lease \in BOOLEAN

\* The application has published its endpoint and starts the gateway itself.
Init ==
  /\ status = "stopped" /\ listener = None
  /\ phase = [l \in Listeners |-> "closed"] /\ active = [l \in Listeners |-> {}]
  /\ queue = <<[cmd |-> "start", from |-> "owner"]>> /\ op = NoOperation
  /\ last = "stopped" /\ shown = "stopped"
  /\ plane = "open" /\ teardown = "up" /\ lease = TRUE

-----------------------------------------------------------------------------
\* Commands arrive: from connections to the Control Plane while it is open, and
\* a quit from a signal or from the expiry of the desktop owner's lease.
Enqueue(c) == queue' = Append(queue, c)

ClientCommand(cmd) ==
  /\ plane = "open" /\ Len(queue) < MaxQueue
  /\ Enqueue([cmd |-> cmd, from |-> "client"])
  /\ UNCHANGED <<status, listener, op, serving, published, application>>

OwnerQuit ==
  /\ teardown # "done" /\ Len(queue) < MaxQueue
  /\ Enqueue([cmd |-> "quit", from |-> "owner"])
  /\ UNCHANGED <<status, listener, op, serving, published, application>>

\* The command is over.  finish(...) tears down, once: after a quit of the
\* owner's, and after a client's whose result has reached that client.
After(o, done) ==
  \/ o.from = "teardown" /\ teardown' = "unpublishing"
  \/ o.cmd = "quit" /\ done /\ teardown = "up" /\ teardown' = "requested"
  \/ /\ o.from # "teardown"
     /\ o.cmd = "quit" /\ o.from = "owner" /\ done => teardown # "up"
     /\ UNCHANGED teardown

\* Mutant of Keeps: the client's runtime commands use the host's publisher too.
KeepsOwners(o) == o.from = "owner"

\* publish keeps the status in lastPublishedStatus.  A client's quit and the
\* teardown hand the status to the Control Plane's own publisher instead.
Keeps(o) == o.from # "teardown" /\ ~(o.from = "client" /\ o.cmd = "quit")

\* transition, for command o: assign, publish, and await that at `next`.
\* A Control Plane that has begun to close rejects.
Transition(o, s, next) ==
  /\ status' = s
  /\ last' = IF Keeps(o) THEN s ELSE last
  /\ shown' = IF plane = "open" THEN s ELSE shown
  /\ op' = [cmd |-> o.cmd, from |-> o.from, target |-> None,
            at |-> IF plane = "open" THEN next ELSE "refused"]

-----------------------------------------------------------------------------
\* The next command starts.
IsNext(c) == ~Running /\ queue # <<>> /\ Head(queue) = c

\* Nothing to do: "unchanged", a conflict, or an immediate "drained".
Ignored(c) ==
  CASE c.cmd = "start"   -> status \in {"running", "stop_failed"}
    [] c.cmd = "stop"    -> status \in {"stopped", "stop_failed"}
    [] c.cmd = "restart" -> status # "running"
    [] c.cmd = "quit"    -> status \in {"stopped", "start_failed", "stop_failed"}

Ignore(c) ==
  /\ IsNext(c) /\ Ignored(c)
  /\ queue' = Tail(queue) /\ After(c, TRUE)
  /\ UNCHANGED <<status, listener, op, serving, published, plane, lease>>

\* A stop after a failed start only acknowledges the failure.
Acknowledge(c) ==
  /\ IsNext(c) /\ c.cmd = "stop" /\ status = "start_failed"
  /\ queue' = Tail(queue)
  /\ Transition(c, "stopped", "report")
  /\ UNCHANGED <<listener, serving, application>>

BeginOperation(c) ==
  /\ IsNext(c) /\ ~Ignored(c) /\ ~(c.cmd = "stop" /\ status = "start_failed")
  /\ queue' = Tail(queue)
  /\ IF c.cmd = "start" THEN Transition(c, "starting", "announceStart")
                        ELSE Transition(c, "stopping", "announce")
  /\ UNCHANGED <<listener, serving, application>>

\* A rejected publication ends the command where it is.
PublishFails ==
  /\ Running /\ op.at = "refused"
  /\ op' = NoOperation /\ After(op, FALSE)
  /\ UNCHANGED <<status, listener, queue, serving, published, plane, lease>>

Announced ==
  /\ Running /\ op.at = "announceStart"
  /\ op' = [op EXCEPT !.at = "bind"]
  /\ UNCHANGED <<status, listener, queue, serving, published, application>>

\* The listener is taken from the supervisor and closed, or drained by a quit:
\* admission ends at once.
Close ==
  /\ Running /\ op.at = "announce"
  /\ listener' = None
  /\ op' = [op EXCEPT !.at = "await", !.target = listener]
  /\ phase' = IF listener = None THEN phase
              ELSE [phase EXCEPT ![listener] = IF op.cmd = "quit" THEN "draining" ELSE "closing"]
  /\ UNCHANGED <<status, queue, active, published, application>>

\* close() or drain() has settled.
TargetIs(outcomes) == op.target = None \/ phase[op.target] \in outcomes

\* Mutant of Closed: the command does not await the listener.
ClosedEarly ==
  /\ Running /\ op.at = "await"
  /\ IF op.cmd = "restart" THEN Transition(op, "starting", "announceStart")
                           ELSE Transition(op, "stopped", "report")
  /\ UNCHANGED <<listener, queue, serving, application>>

Closed ==
  /\ Running /\ op.at = "await" /\ TargetIs({"closed", "broken"})
  /\ IF op.cmd = "restart" /\ TargetIs({"closed"})
     THEN Transition(op, "starting", "announceStart")
     ELSE Transition(op, IF op.cmd = "quit" \/ TargetIs({"closed"}) THEN "stopped" ELSE "stop_failed",
                     "report")
  /\ UNCHANGED <<listener, queue, serving, application>>

\* startListener: the composition and the bind succeed, or one of them fails and
\* what had been built is closed again.
Bind ==
  /\ Running /\ op.at = "bind"
  /\ \/ \E l \in Listeners :
          /\ phase[l] \in {"closed", "broken"}
          /\ phase' = [phase EXCEPT ![l] = "open"]
          /\ listener' = l /\ Transition(op, "running", "report")
     \/ listener' = None /\ Transition(op, "start_failed", "report") /\ UNCHANGED phase
  /\ UNCHANGED <<queue, active, application>>

Report ==
  /\ Running /\ op.at = "report"
  /\ op' = NoOperation /\ After(op, TRUE)
  /\ UNCHANGED <<status, listener, queue, serving, published, plane, lease>>

-----------------------------------------------------------------------------
\* The application publishes its copy again: with another number of active
\* requests, with what the catalog says of the Provider, or once a minute.
Republish ==
  /\ shown' = IF plane = "open" THEN last ELSE shown
  /\ UNCHANGED last

\* Requests.  A request that reaches a listener which no longer accepts gets a
\* 503 or a destroyed socket.
Admit(l, r) ==
  /\ phase[l] = "open" /\ \A k \in Listeners : r \notin active[k]
  /\ active' = [active EXCEPT ![l] = @ \cup {r}]
  /\ Republish
  /\ UNCHANGED <<supervisor, phase, application>>

Settle(l, r) ==
  /\ r \in active[l]
  /\ active' = [active EXCEPT ![l] = @ \ {r}]
  /\ Republish
  /\ UNCHANGED <<supervisor, phase, application>>

Refresh == Republish /\ UNCHANGED <<supervisor, serving, application>>

\* Mutant of DrainTimeout: the timer is cancelled when the drain begins.
DrainTimeoutCancelled(l) == FALSE

\* The drain timeout: whatever is left is aborted, and still awaited.
DrainTimeout(l) ==
  /\ phase[l] = "draining"
  /\ phase' = [phase EXCEPT ![l] = "closing"]
  /\ UNCHANGED <<supervisor, active, published, application>>

\* Mutant of Finalize: requests are aborted but not awaited.
FinalizeAtOnce(l) ==
  /\ phase[l] \in {"closing", "draining"}
  /\ phase' = [phase EXCEPT ![l] = "closed"]
  /\ UNCHANGED <<supervisor, active, published, application>>

\* The server is quiescent; then the Data Plane is finalized, which may throw.
Finalize(l) ==
  /\ phase[l] \in {"closing", "draining"} /\ active[l] = {}
  /\ \E outcome \in {"closed", "broken"} : phase' = [phase EXCEPT ![l] = outcome]
  /\ UNCHANGED <<supervisor, active, published, application>>

-----------------------------------------------------------------------------
\* closeOwnedResources: one last stop, the publication, the Control Plane, the
\* stores, the lease.
BeginTeardown ==
  /\ teardown = "requested" /\ teardown' = "stopping"
  /\ Enqueue([cmd |-> "stop", from |-> "teardown"])
  /\ UNCHANGED <<status, listener, op, serving, published, plane, lease>>

ClosePlane ==
  /\ teardown = "unpublishing" /\ teardown' = "closing"
  /\ plane' = "closing"
  /\ UNCHANGED <<supervisor, serving, published, lease>>

\* Mutant of PlaneClosed: it awaits every queued command.
PlaneClosedWhenIdle ==
  /\ teardown = "closing" /\ teardown' = "flushing"
  /\ ~Running /\ queue = <<>>
  /\ plane' = "closed"
  /\ UNCHANGED <<supervisor, serving, published, lease>>

\* The Control Plane awaits the connections that still execute a command.
PlaneClosed ==
  /\ teardown = "closing" /\ teardown' = "flushing"
  /\ ~(Running /\ op.from = "client") /\ \A k \in DOMAIN queue : queue[k].from # "client"
  /\ plane' = "closed"
  /\ UNCHANGED <<supervisor, serving, published, lease>>

ReleaseLease ==
  /\ teardown = "flushing" /\ teardown' = "done"
  /\ lease' = FALSE
  /\ UNCHANGED <<supervisor, serving, published, plane>>

-----------------------------------------------------------------------------
Operate == \/ \E c \in Commands : Ignore(c) \/ Acknowledge(c) \/ BeginOperation(c)
           \/ PublishFails \/ Announced \/ Close \/ Closed \/ Bind \/ Report

TearDown == BeginTeardown \/ ClosePlane \/ PlaneClosed \/ ReleaseLease

Arrive == OwnerQuit \/ \E cmd \in {"start", "stop", "restart", "quit"} : ClientCommand(cmd)

Serve == \E l \in Listeners : \/ DrainTimeout(l) \/ Finalize(l)
                              \/ \E r \in Requests : Admit(l, r) \/ Settle(l, r)

Next == Operate \/ TearDown \/ Arrive \/ Serve \/ Refresh

Spec == Init /\ [][Next]_vars

\* Promises that can settle do, timers run, and a request that has been aborted
\* unwinds.  Nothing makes a request end that has not been aborted.
SettleAborted(l) == phase[l] = "closing" /\ \E r \in Requests : Settle(l, r)

FairSpec ==
  /\ Spec /\ WF_vars(Operate) /\ WF_vars(TearDown)
  /\ \A l \in Listeners : WF_vars(Finalize(l)) /\ WF_vars(DrainTimeout(l)) /\ WF_vars(SettleAborted(l))

-----------------------------------------------------------------------------
Alive(l) == phase[l] \in {"open", "draining", "closing"}
Quiet == \A l \in Listeners : ~Alive(l)

\* The supervisor's status never claims a gateway that does not accept, and none
\* accepts behind a status that says it is down.  (Only a "starting" that could
\* no longer be published, while the application closes, may be left behind.)
StatusIsTrue ==
  /\ status = "running" => listener # None /\ phase[listener] = "open"
  /\ (\/ status \in {"stopped", "start_failed", "stop_failed"}
      \/ status = "starting" /\ plane = "open")
     => Quiet

\* What clients are shown is the supervisor's status, with one exception: once a
\* client's quit or the teardown has begun to stop the gateway, it may be shown
\* again as the application last knew it, through the drain and after it.  No
\* start, stop, restart or failure is ever hidden or undone by a republication.
ShownIsTrue ==
  plane = "open" /\ shown # status =>
    /\ shown = last /\ last \in {"running", "start_failed"}
    /\ status \in {"stopping", "stopped", "stop_failed"}

\* Every variable has its type, the supervisor's status says what the listener
\* does, and clients are shown that status as far as ShownIsTrue says.
StatusConsistent == TypeOK /\ StatusIsTrue /\ ShownIsTrue

\* "The Data Plane finalizer is never invoked until the HTTP boundary has
\* stopped admission and every runtime invocation has settled."
FinalizedAfterUnwind == \A l \in Listeners : phase[l] \in {"closed", "broken"} => active[l] = {}

\* The gate is the one listener that has not finished; two are no gate at all.
GateIs(p) ==
  \E l \in Listeners : phase[l] = p /\ \A k \in Listeners \ {l} : ~Alive(k)

Gate == CASE Quiet -> "off"
          [] GateIs("open") -> "open"
          [] GateIs("draining") -> "draining"
          [] GateIs("closing") -> "closing"
          [] OTHER -> "split"

Inflight == UNION {active[l] : l \in Listeners}

GatewayOf == INSTANCE Gateway WITH gate <- Gate, inflight <- Inflight

\* However many commands start, stop and restart it, clients see one gateway: a
\* restart binds only after the old listener has unwound and been finalized, and
\* no request of an earlier listener outlives it.
ImplementsGateway == GatewayOf!Spec

\* Every command ends, a quit also when requests never do.
OperationsEnd == Running ~> ~Running

\* A teardown that has begun releases the lease, whatever clients keep sending.
TeardownEnds == teardown = "requested" ~> ~lease

\* "Teardown keeps the InstanceLease until all other Backend-lifetime resources
\* have stopped or closed."
LeaseReleasedLast == ~lease => Quiet
=============================================================================
