----------------------- MODULE DataPlaneLifecycle_proofs -----------------------
(***************************************************************************)
(* Proofs about DataPlaneLifecycle, for any listeners, requests and queue. *)
(*                                                                         *)
(* What keeps listeners apart is the await a command is in: a listener     *)
(* that has not finished is either the supervisor's own, or the one the    *)
(* running command awaits.  Status and await belong together as long as    *)
(* the Control Plane is open; once it closes, a command can end half-way.  *)
(***************************************************************************)
EXTENDS DataPlaneLifecycle, FiniteSetTheorems, TLAPS

\* Whoever has not finished belongs to the supervisor or is awaited.
Accounted ==
  /\ listener # None => phase[listener] = "open"
  /\ \A l \in Listeners : Alive(l) => l = listener \/ (op.at = "await" /\ op.target = l)
  /\ op.at \in {"await", "bind"} => listener = None

\* What the status says of the await, and the await of the status.
Matches ==
  /\ op.at \in {"announce", "await"} => status = "stopping"
  /\ op.at \in {"announceStart", "bind"} => status = "starting"
  /\ op.at = "announceStart" => Quiet
  /\ op.at = "refused" => plane # "open"
  /\ status = "running" => listener # None
  /\ status \in {"stopped", "start_failed", "stop_failed"} => Quiet
  /\ plane = "open" /\ status = "starting" => Quiet /\ op.at \in {"announceStart", "bind"}
  /\ plane = "open" /\ status = "stopping" => op.at \in {"announce", "await"}

Inv == TypeOK /\ FinalizedAfterUnwind /\ Accounted /\ Matches

LEMMA InitInv == Init => Inv
  BY LifecycleAssumption
  DEF Init, Inv, TypeOK, FinalizedAfterUnwind, Accounted, Matches, Quiet, Alive, NoOperation, Commands,
      Statuses

-----------------------------------------------------------------------------
\* The queue of commands.
LEMMA Queue ==
  ASSUME TypeOK
  PROVE  /\ \A c \in Commands : Append(queue, c) \in Seq(Commands)
         /\ queue # <<>> => Tail(queue) \in Seq(Commands)
  BY DEF TypeOK

\* A command that ends, one that arrives and a republication leave the listeners
\* and the status alone.
LEMMA NextQueue ==
  ASSUME Inv, UNCHANGED <<status, listener, serving, plane>>, queue' \in Seq(Commands),
         last' \in Statuses, shown' \in Statuses, lease' \in BOOLEAN,
         teardown' \in {"up", "requested", "stopping", "unpublishing", "closing", "flushing", "done"},
         \/ op' = op
         \/ op' = NoOperation /\ op.at \in {"refused", "report"}
  PROVE  Inv'
  <1>1. op' = op \/ op'.at = "none"
    BY DEF NoOperation
  <1>2. TypeOK'
    BY DEF Inv, TypeOK, serving
  <1>3. FinalizedAfterUnwind'
    BY DEF Inv, FinalizedAfterUnwind, serving
  <1>4. Accounted'
    BY <1>1 DEF Inv, Accounted, Alive, serving
  <1>5. Matches'
    BY <1>1 DEF Inv, Matches, Quiet, Alive, serving
  <1> QED
    BY <1>2, <1>3, <1>4, <1>5 DEF Inv

LEMMA NextOperate ==
  ASSUME Inv, Operate
  PROVE  Inv'
  <1>0. /\ TypeOK /\ Accounted /\ Matches /\ FinalizedAfterUnwind
        /\ Running => op \in Operations /\ op.at # "none"
        /\ ~Running => op.at = "none"
    BY DEF Inv, TypeOK, Running, Operations, NoOperation
  <1>1. ASSUME NEW c \in Commands, Ignore(c) PROVE Inv'
    <2>1. teardown' \in {"up", "requested", "stopping", "unpublishing", "closing", "flushing", "done"}
      BY <1>0, <1>1 DEF Ignore, After, TypeOK
    <2> QED
      BY <1>0, <1>1, <2>1, NextQueue, Queue DEF Ignore, IsNext, TypeOK, published
  <1>2. ASSUME NEW c \in Commands, Acknowledge(c) PROVE Inv'
    <2>1. /\ op' \in Operations /\ op'.at \in {"report", "refused"} /\ status = "start_failed"
          /\ op'.at = "refused" => plane # "open"
          /\ status' = "stopped" /\ queue' \in Seq(Commands)
          /\ last' \in Statuses /\ shown' \in Statuses
          /\ UNCHANGED <<listener, phase, active, plane, teardown, lease>>
      BY <1>0, <1>2, Queue
      DEF Acknowledge, Transition, IsNext, Commands, Operations, serving, application, TypeOK, Statuses
    <2>2. op.at = "none"
      BY <1>0, <1>2 DEF Acknowledge, IsNext
    <2>3. TypeOK' /\ FinalizedAfterUnwind'
      BY <1>0, <2>1 DEF TypeOK, FinalizedAfterUnwind, Statuses
    <2>4. Accounted' /\ Matches'
      BY <1>0, <2>1, <2>2 DEF Accounted, Matches, Quiet, Alive
    <2> QED
      BY <2>3, <2>4 DEF Inv
  <1>3. ASSUME NEW c \in Commands, BeginOperation(c) PROVE Inv'
    <2>1. /\ queue' \in Seq(Commands) /\ op.at = "none"
          /\ UNCHANGED <<listener, phase, active, plane, teardown, lease>>
      BY <1>0, <1>3, Queue DEF BeginOperation, IsNext, serving, application
    <2>0. c.cmd = "start" => status \notin {"running", "stop_failed"}
      BY <1>3 DEF BeginOperation, Ignored
    <2>2. /\ op' \in Operations /\ last' \in Statuses /\ shown' \in Statuses
          /\ \/ /\ c.cmd = "start" /\ status' = "starting"
                /\ status \notin {"running", "stop_failed"}
                /\ op'.at = IF plane = "open" THEN "announceStart" ELSE "refused"
             \/ /\ status' = "stopping"
                /\ op'.at = IF plane = "open" THEN "announce" ELSE "refused"
      BY <1>0, <1>3, <2>0 DEF BeginOperation, Transition, Commands, Operations, TypeOK, Statuses
    <2>3. TypeOK' /\ FinalizedAfterUnwind'
      BY <1>0, <2>1, <2>2 DEF TypeOK, FinalizedAfterUnwind, Statuses
    <2>4. Accounted'
      BY <1>0, <2>1, <2>2 DEF Accounted, Alive
    <2>5. Matches'
      BY <1>0, <2>1, <2>2 DEF Matches, Quiet, Alive, TypeOK, Statuses
    <2> QED
      BY <2>3, <2>4, <2>5 DEF Inv
  <1>4. CASE PublishFails \/ Report
    <2>1. teardown' \in {"up", "requested", "stopping", "unpublishing", "closing", "flushing", "done"}
      BY <1>0, <1>4 DEF PublishFails, Report, After, TypeOK
    <2> QED
      BY <1>0, <1>4, <2>1, NextQueue DEF PublishFails, Report, TypeOK, published
  <1>5. CASE Announced
    <2>1. /\ op' \in Operations /\ op'.at = "bind" /\ op.at = "announceStart"
          /\ UNCHANGED <<status, listener, queue, phase, active, last, shown, plane, teardown, lease>>
      BY <1>0, <1>5 DEF Announced, Operations, serving, published, application
    <2>2. Quiet /\ listener = None
      BY <1>0, <2>1 DEF Matches, Accounted, Quiet, Alive, TypeOK
    <2>3. TypeOK' /\ FinalizedAfterUnwind'
      BY <1>0, <2>1 DEF TypeOK, FinalizedAfterUnwind
    <2>4. Accounted' /\ Matches'
      BY <1>0, <2>1, <2>2 DEF Accounted, Matches, Quiet, Alive
    <2> QED
      BY <2>3, <2>4 DEF Inv
  <1>6. CASE Close
    <2>1. /\ op' \in Operations /\ op'.at = "await" /\ op'.target = listener
          /\ op.at = "announce" /\ listener' = None
          /\ UNCHANGED <<status, queue, active, last, shown, plane, teardown, lease>>
      BY <1>0, <1>6 DEF Close, Operations, published, application, TypeOK
    <2>2. \/ listener = None /\ phase' = phase
          \/ listener \in Listeners /\ \E p \in {"draining", "closing"} : phase' = [phase EXCEPT ![listener] = p]
      BY <1>0, <1>6 DEF Close, TypeOK
    <2>3. TypeOK' /\ FinalizedAfterUnwind'
      BY <1>0, <2>1, <2>2 DEF TypeOK, FinalizedAfterUnwind
    <2>4. Accounted'
      BY <1>0, <2>1, <2>2 DEF TypeOK, Accounted, Alive
    <2>5. Matches'
      BY <1>0, <2>1 DEF Matches
    <2> QED
      BY <2>3, <2>4, <2>5 DEF Inv
  <1>7. CASE Closed
    <2>1. /\ op' \in Operations /\ op.at = "await"
          /\ last' \in Statuses /\ shown' \in Statuses
          /\ op'.at = "refused" => plane # "open"
          /\ \/ op'.at \in {"announceStart", "refused"} /\ status' = "starting"
             \/ op'.at \in {"report", "refused"} /\ status' \in {"stopped", "stop_failed"}
          /\ UNCHANGED <<listener, queue, phase, active, plane, teardown, lease>>
      BY <1>0, <1>7 DEF Closed, Transition, Operations, serving, application, TypeOK, Statuses
    <2>2. Quiet /\ listener = None
      BY <1>0, <1>7, <2>1, LifecycleAssumption DEF Closed, TargetIs, Accounted, Quiet, Alive
    <2>3. TypeOK' /\ FinalizedAfterUnwind'
      BY <1>0, <2>1 DEF TypeOK, FinalizedAfterUnwind, Statuses
    <2>4. Accounted' /\ Matches'
      BY <1>0, <2>1, <2>2 DEF Accounted, Matches, Quiet, Alive
    <2> QED
      BY <2>3, <2>4 DEF Inv
  <1>8. CASE Bind
    <2>1. /\ op' \in Operations /\ op'.at \in {"report", "refused"} /\ op.at = "bind"
          /\ op'.at = "refused" => plane # "open"
          /\ last' \in Statuses /\ shown' \in Statuses
          /\ UNCHANGED <<queue, active, plane, teardown, lease>>
      BY <1>0, <1>8 DEF Bind, Transition, Operations, application, TypeOK, Statuses
    <2>2. Quiet
      BY <1>0, <2>1, LifecycleAssumption DEF Accounted, Quiet
    <2>3. CASE listener' = None /\ status' = "start_failed" /\ UNCHANGED phase
      <3>1. TypeOK' /\ FinalizedAfterUnwind'
        BY <1>0, <2>1, <2>3 DEF TypeOK, FinalizedAfterUnwind, Statuses
      <3>2. Accounted' /\ Matches'
        BY <1>0, <2>1, <2>2, <2>3 DEF Accounted, Matches, Quiet, Alive
      <3> QED
        BY <3>1, <3>2 DEF Inv
    <2>4. ASSUME NEW l \in Listeners, phase' = [phase EXCEPT ![l] = "open"],
                 listener' = l, status' = "running"
          PROVE  Inv'
      <3>1. TypeOK' /\ FinalizedAfterUnwind'
        BY <1>0, <2>1, <2>4 DEF TypeOK, FinalizedAfterUnwind, Statuses
      <3>2. Accounted' /\ Matches'
        BY <1>0, <2>1, <2>2, <2>4, LifecycleAssumption DEF TypeOK, Accounted, Matches, Quiet, Alive
      <3> QED
        BY <3>1, <3>2 DEF Inv
    <2> QED
      BY <1>8, <2>3, <2>4 DEF Bind, Transition
  <1> QED
    BY <1>1, <1>2, <1>3, <1>4, <1>5, <1>6, <1>7, <1>8 DEF Operate

LEMMA NextServe ==
  ASSUME Inv, Serve
  PROVE  Inv'
  <1>0. TypeOK /\ Accounted /\ Matches /\ FinalizedAfterUnwind
    BY DEF Inv
  <1>1. ASSUME NEW l \in Listeners, NEW r \in Requests, Admit(l, r) \/ Settle(l, r)
        PROVE  Inv'
    <2>1. /\ phase[l] = "open" \/ r \in active[l]
          /\ \E R \in {active[l] \cup {r}, active[l] \ {r}} : active' = [active EXCEPT ![l] = R]
          /\ last' = last /\ shown' \in {last, shown}
          /\ UNCHANGED <<status, listener, queue, op, phase, plane, teardown, lease>>
      BY <1>1 DEF Admit, Settle, Republish, supervisor, application
    <2>2. phase[l] \notin {"closed", "broken"} /\ active[l] \subseteq Requests
      BY <1>0, <2>1 DEF TypeOK, FinalizedAfterUnwind
    <2>3. TypeOK'
      BY <1>0, <2>1, <2>2 DEF TypeOK
    <2>4. FinalizedAfterUnwind'
      BY <1>0, <2>1, <2>2 DEF TypeOK, FinalizedAfterUnwind
    <2>5. Accounted' /\ Matches'
      BY <1>0, <2>1 DEF Accounted, Matches, Quiet, Alive
    <2> QED
      BY <2>3, <2>4, <2>5 DEF Inv
  <1>2. ASSUME NEW l \in Listeners, DrainTimeout(l) \/ Finalize(l)
        PROVE  Inv'
    <2>1. /\ phase[l] \in {"draining", "closing"}
          /\ \E p \in {"closing", "closed", "broken"} :
               /\ phase' = [phase EXCEPT ![l] = p]
               /\ p # "closing" => active[l] = {}
          /\ UNCHANGED <<status, listener, queue, op, active, last, shown, plane, teardown, lease>>
      BY <1>2 DEF DrainTimeout, Finalize, supervisor, published, application
    <2>2. TypeOK' /\ FinalizedAfterUnwind'
      BY <1>0, <2>1 DEF TypeOK, FinalizedAfterUnwind
    <2>3. (\A k \in Listeners : Alive(k)' => Alive(k)) /\ listener # l
      BY <1>0, <2>1, LifecycleAssumption DEF TypeOK, Accounted, Alive
    <2>4. Accounted'
      BY <1>0, <2>1, <2>3 DEF TypeOK, Accounted
    <2>5. Matches'
      BY <1>0, <2>1, <2>3 DEF Matches, Quiet
    <2> QED
      BY <2>2, <2>4, <2>5 DEF Inv
  <1> QED
    BY <1>1, <1>2 DEF Serve

LEMMA NextInv == Inv /\ [Next]_vars => Inv'
  <1> SUFFICES ASSUME Inv, [Next]_vars PROVE Inv'
    OBVIOUS
  <1>0. TypeOK /\ queue \in Seq(Commands)
    BY DEF Inv, TypeOK
  <1>1. CASE Arrive \/ BeginTeardown
    <2>1. /\ queue' \in Seq(Commands)
          /\ UNCHANGED <<status, listener, op, serving, last, shown, plane, lease>>
          /\ teardown' \in {teardown, "stopping"}
      BY <1>1, Queue, <1>0
      DEF Arrive, OwnerQuit, ClientCommand, BeginTeardown, Enqueue, Commands, published, application
    <2> QED
      BY <1>0, <2>1, NextQueue DEF TypeOK
  <1>2. CASE ReleaseLease \/ Refresh \/ UNCHANGED vars
    <2>1. /\ UNCHANGED <<status, listener, queue, op, serving, plane>>
          /\ last' = last /\ shown' \in {last, shown}
          /\ lease' \in {lease, FALSE} /\ teardown' \in {teardown, "done"}
      BY <1>2 DEF ReleaseLease, Refresh, Republish, vars, supervisor, published, application
    <2> QED
      BY <1>0, <2>1, NextQueue DEF TypeOK
  <1>3. CASE ClosePlane \/ PlaneClosed
    <2>1. /\ UNCHANGED <<status, listener, queue, op, phase, active, last, shown, lease>>
          /\ plane' \in {"closing", "closed"} /\ teardown' \in {"closing", "flushing"}
      BY <1>3 DEF ClosePlane, PlaneClosed, supervisor, serving, published
    <2>2. TypeOK' /\ FinalizedAfterUnwind'
      BY <2>1 DEF Inv, TypeOK, FinalizedAfterUnwind
    <2>3. Accounted' /\ Matches'
      BY <2>1 DEF Inv, Accounted, Matches, Quiet, Alive
    <2> QED
      BY <2>2, <2>3 DEF Inv
  <1> QED
    BY <1>1, <1>2, <1>3, NextOperate, NextServe DEF Next, TearDown

-----------------------------------------------------------------------------
\* Every state: types, whose listener is alive, and what the status says of it.
THEOREM Invariance == Spec => []Inv
  BY InitInv, NextInv, PTL DEF Spec

\* One listener at most has not finished.
OneListener == Cardinality({l \in Listeners : Alive(l)}) <= 1

\* Whatever clients, owner and teardown queue, one listener at most is alive.
THEOREM OneListens == Spec => []OneListener
  <1>1. ASSUME Inv PROVE OneListener
    <2> DEFINE S == {l \in Listeners : Alive(l)}
               owner == IF listener # None THEN listener ELSE op.target
    <2>1. S \subseteq {owner}
      BY <1>1, LifecycleAssumption DEF Inv, Accounted
    <2>2. IsFiniteSet({owner}) /\ Cardinality({owner}) = 1
      BY FS_Singleton
    <2>3. Cardinality(S) <= Cardinality({owner})
      BY <2>1, <2>2, FS_Subset
    <2> QED
      BY <2>2, <2>3 DEF OneListener
  <1> QED
    BY <1>1, Invariance, PTL

-----------------------------------------------------------------------------
(***************************************************************************)
(* What clients are shown.  The application's copy of the status differs   *)
(* from the supervisor's only while, or after, a command that bypasses it  *)
(* stops the gateway; what is shown is always one of the two.              *)
(***************************************************************************)
\* A command that bypasses the copy stops the gateway, and starts none.
Bypasses(o) ==
  /\ o.from = "teardown" => o.cmd = "stop"
  /\ ~Keeps(o) => o.at \notin {"announceStart", "bind"}
  /\ ~Keeps(o) /\ o.at \in {"announce", "await"} /\ plane = "open" =>
       last \in {"running", "start_failed"}

ShownInv ==
  /\ plane = "open" => shown \in {status, last}
  /\ plane = "open" /\ last # status =>
       last \in {"running", "start_failed"} /\ status \in {"stopping", "stopped", "stop_failed"}
  /\ \A k \in DOMAIN queue : queue[k].from = "teardown" => queue[k].cmd = "stop"
  /\ Running => Bypasses(op)

\* The command at the head of the queue, and the commands behind it.
LEMMA TakeNext ==
  ASSUME TypeOK, NEW c, IsNext(c), queue' = Tail(queue),
         \A k \in DOMAIN queue : queue[k].from = "teardown" => queue[k].cmd = "stop"
  PROVE  /\ \A k \in DOMAIN queue' : queue'[k].from = "teardown" => queue'[k].cmd = "stop"
         /\ c.from = "teardown" => c.cmd = "stop"
  <1>1. /\ \A k \in DOMAIN Tail(queue) : k + 1 \in DOMAIN queue /\ Tail(queue)[k] = queue[k + 1]
        /\ 1 \in DOMAIN queue /\ c = queue[1]
    BY DEF TypeOK, IsNext
  <1> QED
    BY <1>1

LEMMA ShownOperate ==
  ASSUME Inv, ShownInv, Operate
  PROVE  ShownInv'
  <1>0. /\ TypeOK /\ Accounted /\ Matches
        /\ Running => op \in Operations /\ op.at # "none"
        /\ ~Running => op.at = "none"
    BY DEF Inv, TypeOK, Running, Operations, NoOperation
  <1>1. ASSUME NEW c \in Commands, Ignore(c) PROVE ShownInv'
    <2>1. UNCHANGED <<status, op, last, shown, plane>> /\ IsNext(c) /\ queue' = Tail(queue)
      BY <1>1 DEF Ignore, published
    <2> QED
      BY <1>0, <2>1, TakeNext DEF ShownInv, Bypasses, Keeps, Running
  <1>2. ASSUME NEW c \in Commands, Acknowledge(c) \/ BeginOperation(c) PROVE ShownInv'
    <2>1. /\ IsNext(c) /\ queue' = Tail(queue) /\ plane' = plane
          /\ op'.cmd = c.cmd /\ op'.from = c.from
      BY <1>2 DEF Acknowledge, BeginOperation, Transition, application
    <2>2. /\ c.from = "teardown" => c.cmd = "stop"
          /\ \A k \in DOMAIN queue' : queue'[k].from = "teardown" => queue'[k].cmd = "stop"
      BY <1>0, <2>1, TakeNext DEF ShownInv
    <2>3. plane = "open" => status \notin {"starting", "stopping"}
      BY <1>0, <2>1 DEF Matches, IsNext
    <2>4. Keeps(op)' <=> Keeps(c)
      BY <2>1 DEF Keeps
    <2>5. CASE Keeps(c)
      <3>1. last' = status' /\ (plane = "open" => shown' = status')
        BY <1>2, <2>5 DEF Acknowledge, BeginOperation, Transition
      <3> QED
        BY <2>1, <2>2, <2>4, <2>5, <3>1 DEF ShownInv, Bypasses
    <2>6. CASE ~Keeps(c)
      <3>0. /\ c.cmd \in {"stop", "quit"}
            /\ BeginOperation(c) => status \notin {"stopped", "stop_failed"}
        BY <2>2, <2>6 DEF BeginOperation, Ignored, Keeps, Commands
      <3>1. /\ last' = last /\ (plane = "open" => shown' = status')
            /\ \/ status = "start_failed" /\ status' = "stopped" /\ op'.at \in {"report", "refused"}
               \/ /\ status \notin {"stopped", "start_failed", "stop_failed"}
                  /\ status' = "stopping" /\ op'.at \in {"announce", "refused"}
        <4>1. CASE Acknowledge(c)
          BY <2>6, <4>1 DEF Acknowledge, Transition
        <4>2. CASE BeginOperation(c)
          <5>1. c.cmd = "quit" => status # "start_failed"
            BY <4>2 DEF BeginOperation, Ignored
          <5>2. c.cmd = "stop" => status # "start_failed"
            BY <4>2 DEF BeginOperation
          <5> QED
            BY <2>6, <3>0, <4>2, <5>1, <5>2 DEF BeginOperation, Transition
        <4> QED
          BY <1>2, <4>1, <4>2
      <3>2. plane = "open" => status \in {"running", "start_failed"} /\ last = status
        BY <1>0, <2>3, <3>1 DEF ShownInv, TypeOK, Statuses
      <3> QED
        BY <2>1, <2>2, <3>0, <3>1, <3>2 DEF ShownInv, Bypasses
    <2> QED
      BY <2>5, <2>6
  <1>3. CASE PublishFails \/ Report
    BY <1>3 DEF PublishFails, Report, ShownInv, Running, published
  <1>4. CASE Announced \/ Close
    <2>1. /\ UNCHANGED <<status, queue, last, shown, plane>> /\ Running
          /\ op'.cmd = op.cmd /\ op'.from = op.from
          /\ \/ op.at = "announceStart"
             \/ op.at = "announce" /\ op'.at = "await"
      BY <1>0, <1>4 DEF Announced, Close, published, application, Operations
    <2> QED
      BY <2>1 DEF ShownInv, Bypasses, Keeps
  <1>5. CASE Closed \/ Bind
    <2>1. /\ Running /\ queue' = queue /\ plane' = plane
          /\ op'.cmd = op.cmd /\ op'.from = op.from
      BY <1>5 DEF Closed, Bind, Transition, application
    <2>2. Keeps(op)' <=> Keeps(op)
      BY <2>1 DEF Keeps
    <2>3. CASE Keeps(op)
      <3>1. last' = status' /\ (plane = "open" => shown' = status')
        BY <1>5, <2>3 DEF Closed, Bind, Transition
      <3> QED
        BY <2>1, <2>2, <2>3, <3>1 DEF ShownInv, Bypasses
    <2>4. CASE ~Keeps(op)
      <3>1. op.cmd # "restart" /\ op.at # "bind"
        BY <1>5, <2>1, <2>4 DEF ShownInv, Bypasses, Keeps
      <3>2. /\ last' = last /\ (plane = "open" => shown' = status')
            /\ op.at = "await" /\ op'.at \in {"report", "refused"}
            /\ status' \in {"stopped", "stop_failed"}
        BY <1>5, <2>4, <3>1 DEF Closed, Bind, Transition
      <3> QED
        BY <2>1, <2>4, <3>2 DEF ShownInv, Bypasses
    <2> QED
      BY <2>3, <2>4
  <1> QED
    BY <1>1, <1>2, <1>3, <1>4, <1>5 DEF Operate

LEMMA ShownStep ==
  ASSUME Inv, ShownInv, [Next]_vars
  PROVE  ShownInv'
  <1>1. CASE Arrive \/ BeginTeardown
    <2>1. PICK c \in Commands : /\ queue' = Append(queue, c)
                                /\ c.from = "teardown" => c.cmd = "stop"
      BY <1>1 DEF Arrive, OwnerQuit, ClientCommand, BeginTeardown, Enqueue, Commands
    <2>2. \A k \in DOMAIN queue' : queue'[k] = c \/ (k \in DOMAIN queue /\ queue'[k] = queue[k])
      BY <2>1 DEF Inv, TypeOK
    <2>3. UNCHANGED <<status, op, last, shown, plane>>
      BY <1>1 DEF Arrive, OwnerQuit, ClientCommand, BeginTeardown, published, application
    <2> QED
      BY <2>1, <2>2, <2>3 DEF ShownInv, Bypasses, Keeps, Running
  <1>2. CASE ClosePlane \/ PlaneClosed
    BY <1>2 DEF ClosePlane, PlaneClosed, supervisor, published, ShownInv, Bypasses, Keeps, Running
  <1>3. CASE ReleaseLease \/ Refresh \/ Serve \/ UNCHANGED vars
    <2>1. /\ UNCHANGED <<status, queue, op, last, plane>>
          /\ shown' \in {shown, last}
      BY <1>3 DEF ReleaseLease, Refresh, Republish, Serve, Admit, Settle, DrainTimeout, Finalize,
                  vars, supervisor, published, application
    <2> QED
      BY <2>1 DEF ShownInv, Bypasses, Keeps, Running
  <1> QED
    BY <1>1, <1>2, <1>3, ShownOperate DEF Next, TearDown

\* The supervisor's status claims no gateway that does not accept and hides none;
\* clients are shown it, but for a stop that bypasses the application's copy.
THEOREM StatusStaysConsistent == Spec => []StatusConsistent
  <1>1. Init => ShownInv
    BY DEF Init, ShownInv, Running
  <1>2. Inv /\ ShownInv => StatusConsistent
    BY DEF Inv, Accounted, Matches, Quiet, ShownInv, StatusConsistent, StatusIsTrue, ShownIsTrue
  <1> QED
    BY <1>1, <1>2, ShownStep, Invariance, PTL DEF Spec

\* No Data Plane is finalized before its last request has unwound.
THEOREM FinalizedLast == Spec => []FinalizedAfterUnwind
  BY Invariance, PTL DEF Inv

-----------------------------------------------------------------------------
(***************************************************************************)
(* Refinement.  The gateway that clients see is the one live listener, if  *)
(* there is one; every step of the supervisor and the listeners is a step  *)
(* of that gateway or none.                                                *)
(***************************************************************************)
GateKnown ==
  /\ \A l \in Listeners : Alive(l) => Gate = phase[l] /\ Inflight = active[l]
  /\ Quiet => Gate = "off" /\ Inflight = {}

LEMMA InvKnowsGate == Inv => GateKnown
  <1>1. ASSUME Inv, NEW l \in Listeners, Alive(l)
        PROVE  Gate = phase[l] /\ Inflight = active[l]
    <2>1. \A k \in Listeners \ {l} :
             ~Alive(k) /\ phase[k] \in {"closed", "broken"} /\ active[k] = {}
      BY <1>1, LifecycleAssumption DEF Inv, TypeOK, Accounted, Alive, FinalizedAfterUnwind
    <2>2. Inflight = active[l]
      BY <2>1 DEF Inflight
    <2>3. \A p \in {"open", "draining", "closing"} : GateIs(p) <=> phase[l] = p
      BY <1>1, <2>1 DEF GateIs
    <2>4. Gate = phase[l]
      BY <1>1, <2>3 DEF Gate, Alive
    <2> QED
      BY <2>2, <2>4
  <1>2. ASSUME Inv, Quiet
        PROVE  Gate = "off" /\ Inflight = {}
    <2>1. \A l \in Listeners : phase[l] \in {"closed", "broken"} /\ active[l] = {}
      BY <1>2 DEF Inv, TypeOK, Quiet, Alive, FinalizedAfterUnwind
    <2>2. Gate = "off"
      <3>1. \A p \in {"open", "draining", "closing"} : ~GateIs(p)
        BY <2>1 DEF GateIs
      <3> QED
        BY <1>2, <3>1 DEF Gate
    <2>3. Inflight = {}
      BY <2>1 DEF Inflight
    <2> QED
      BY <2>2, <2>3
  <1> QED
    BY <1>1, <1>2 DEF GateKnown

LEMMA SameGate ==
  ASSUME UNCHANGED serving PROVE UNCHANGED GatewayOf!vars
  BY DEF serving, GatewayOf!vars, Gate, GateIs, Quiet, Alive, Inflight

LEMMA CloseIsGatewayStep ==
  ASSUME Inv, GateKnown, GateKnown', Close
  PROVE  [GatewayOf!Next]_(GatewayOf!vars)
  <1>1. CASE listener = None
    BY <1>1, SameGate DEF Close, serving
  <1>2. CASE listener # None
    <2>1. /\ listener \in Listeners /\ phase[listener] = "open" /\ active' = active
          /\ phase'[listener] = IF op.cmd = "quit" THEN "draining" ELSE "closing"
      BY <1>2 DEF Close, Inv, TypeOK, Accounted
    <2>2. Gate = "open" /\ Inflight = active[listener]
      BY <2>1 DEF GateKnown, Alive
    <2>3. Gate' = phase'[listener] /\ Inflight' = active'[listener]
      BY <2>1 DEF GateKnown, Alive
    <2> QED
      BY <2>1, <2>2, <2>3 DEF GatewayOf!Next, GatewayOf!Drain, GatewayOf!Abort
  <1> QED
    BY <1>1, <1>2

LEMMA BindIsGatewayStep ==
  ASSUME Inv, GateKnown, GateKnown', Bind
  PROVE  [GatewayOf!Next]_(GatewayOf!vars)
  <1>1. CASE UNCHANGED phase
    BY <1>1, SameGate DEF Bind, serving
  <1>2. ASSUME NEW l \in Listeners, phase' = [phase EXCEPT ![l] = "open"]
        PROVE  [GatewayOf!Next]_(GatewayOf!vars)
    <2>1. Quiet
      BY LifecycleAssumption DEF Bind, Inv, Accounted, Quiet
    <2>2. Gate = "off" /\ Inflight = {}
      BY <2>1 DEF GateKnown
    <2>3. phase'[l] = "open" /\ active'[l] = {}
      BY <1>2, <2>1 DEF Bind, Inv, TypeOK, Quiet, Alive, FinalizedAfterUnwind
    <2>4. Gate' = "open" /\ Inflight' = {}
      BY <2>3 DEF GateKnown, Alive
    <2> QED
      BY <2>2, <2>4 DEF GatewayOf!Next, GatewayOf!Open
  <1> QED
    BY <1>1, <1>2 DEF Bind

LEMMA ServeIsGatewayStep ==
  ASSUME Inv, GateKnown, GateKnown', Serve
  PROVE  [GatewayOf!Next]_(GatewayOf!vars)
  <1>1. ASSUME NEW l \in Listeners, NEW r \in Requests, Admit(l, r)
        PROVE  GatewayOf!Admit(r)
    <2>1. /\ phase[l] = "open" /\ phase'[l] = "open" /\ r \notin active[l]
          /\ active'[l] = active[l] \cup {r}
      BY <1>1 DEF Admit, Inv, TypeOK
    <2>2. Gate = "open" /\ Inflight = active[l] /\ Gate' = "open" /\ Inflight' = active'[l]
      BY <2>1 DEF GateKnown, Alive
    <2> QED
      BY <2>1, <2>2 DEF GatewayOf!Admit
  <1>2. ASSUME NEW l \in Listeners, NEW r \in Requests, Settle(l, r)
        PROVE  GatewayOf!Settle(r)
    <2>1. /\ r \in active[l] /\ active'[l] = active[l] \ {r} /\ phase' = phase
          /\ Alive(l) /\ Alive(l)'
      BY <1>2 DEF Settle, Inv, TypeOK, Alive, FinalizedAfterUnwind
    <2>2. Gate = phase[l] /\ Inflight = active[l] /\ Gate' = phase'[l] /\ Inflight' = active'[l]
      BY <2>1 DEF GateKnown
    <2> QED
      BY <2>1, <2>2 DEF GatewayOf!Settle
  <1>3. ASSUME NEW l \in Listeners, DrainTimeout(l)
        PROVE  GatewayOf!Abort
    <2>1. phase[l] = "draining" /\ phase'[l] = "closing" /\ active' = active
      BY <1>3 DEF DrainTimeout, Inv, TypeOK
    <2>2. Gate = "draining" /\ Inflight = active[l] /\ Gate' = "closing" /\ Inflight' = active'[l]
      BY <2>1 DEF GateKnown, Alive
    <2> QED
      BY <2>1, <2>2 DEF GatewayOf!Abort
  <1>4. ASSUME NEW l \in Listeners, Finalize(l)
        PROVE  GatewayOf!Finish
    <2>1. /\ phase[l] \in {"draining", "closing"} /\ active[l] = {} /\ Alive(l)
          /\ phase'[l] \in {"closed", "broken"} /\ \A k \in Listeners \ {l} : phase'[k] = phase[k]
      BY <1>4 DEF Finalize, Inv, TypeOK, Alive
    <2>2. Gate = phase[l] /\ Inflight = {}
      BY <2>1 DEF GateKnown
    <2>3. Quiet'
      BY <2>1, LifecycleAssumption DEF Inv, Accounted, Quiet, Alive
    <2>4. Gate' = "off" /\ Inflight' = {}
      BY <2>3 DEF GateKnown
    <2> QED
      BY <2>1, <2>2, <2>4 DEF GatewayOf!Finish
  <1> QED
    BY <1>1, <1>2, <1>3, <1>4 DEF Serve, GatewayOf!Next

\* What clients see of listeners, restarts and teardowns is one gateway.
THEOREM LifecycleImplementsGateway == Spec => ImplementsGateway
  <1>1. Init => GatewayOf!Init
    <2> SUFFICES ASSUME Init PROVE GatewayOf!Init
      OBVIOUS
    <2>1. GateKnown /\ Quiet
      BY InitInv, InvKnowsGate DEF Init, Quiet, Alive
    <2> QED
      BY <2>1 DEF GateKnown, GatewayOf!Init
  <1>2. Inv /\ GateKnown /\ GateKnown' /\ [Next]_vars => [GatewayOf!Next]_(GatewayOf!vars)
    <2> SUFFICES ASSUME Inv, GateKnown, GateKnown', [Next]_vars
                 PROVE  [GatewayOf!Next]_(GatewayOf!vars)
      OBVIOUS
    <2>1. CASE UNCHANGED vars
      BY <2>1, SameGate DEF vars
    <2>2. CASE TearDown \/ Arrive \/ Refresh
      BY <2>2, SameGate DEF TearDown, BeginTeardown, ClosePlane, PlaneClosed, ReleaseLease,
                            Arrive, OwnerQuit, ClientCommand, Refresh
    <2>3. CASE Operate /\ ~Close /\ ~Bind
      BY <2>3, SameGate DEF Operate, Ignore, Acknowledge, BeginOperation, PublishFails,
                            Announced, Closed, Report
    <2> QED
      BY <2>1, <2>2, <2>3, CloseIsGatewayStep, BindIsGatewayStep, ServeIsGatewayStep
         DEF Next, Operate
  <1> QED
    BY <1>1, <1>2, InvKnowsGate, Invariance, PTL DEF Spec, ImplementsGateway, GatewayOf!Spec

-----------------------------------------------------------------------------
(***************************************************************************)
(* The lease.  LeaseReleasedLast is what application.ts:100 promises and   *)
(* the lease run refutes: a start that waited behind the last stop binds   *)
(* while the application closes.  The theorem shows that this is the only  *)
(* way: the lease is released last whenever no listener is bound after     *)
(* the teardown's own stop has ended.                                      *)
(***************************************************************************)
\* The teardown's own stop has ended.
Late == teardown \notin {"up", "requested", "stopping"}

NoLateBind == [][Late /\ Bind => status' # "running"]_vars

\* The teardown's command is a stop, and a stop that has come to its report has
\* left nothing alive.
Stopping(o) == /\ o.from = "teardown" => o.cmd = "stop"
               /\ o.cmd = "stop" => o.at \in {"announce", "await", "report", "refused"}
               /\ o.cmd = "stop" /\ o.at = "report" => status \in {"stopped", "stop_failed"}

LateInv ==
  /\ plane # "open" \/ ~lease => Late
  /\ Late => Quiet
  /\ \A k \in DOMAIN queue : queue[k].from = "teardown" => queue[k].cmd = "stop"
  /\ Running => Stopping(op)

LEMMA LateOperate ==
  ASSUME Inv, LateInv, Operate, Late /\ Bind => status' # "running"
  PROVE  LateInv'
  <1>0. /\ TypeOK /\ Accounted /\ Matches
        /\ Running => op \in Operations /\ op.at # "none"
        /\ ~Running => op.at = "none"
    BY DEF Inv, TypeOK, Running, Operations, NoOperation
  <1>q. \A k \in DOMAIN queue : queue[k].from = "teardown" => queue[k].cmd = "stop"
    BY DEF LateInv
  <1>t. queue # <<>> => /\ \A k \in DOMAIN Tail(queue) : /\ k + 1 \in DOMAIN queue
                                                         /\ Tail(queue)[k] = queue[k + 1]
                        /\ 1 \in DOMAIN queue /\ Head(queue) = queue[1]
    BY <1>0 DEF TypeOK
  <1>1. ASSUME NEW c \in Commands, Ignore(c) PROVE LateInv'
    <2>1. /\ UNCHANGED <<status, op, phase, plane, lease>> /\ queue' = Tail(queue)
          /\ c.from = "teardown" => c.cmd = "stop"
      BY <1>1, <1>q, <1>t DEF Ignore, IsNext, serving
    <2>2. Late => Late'
      BY <1>1 DEF Ignore, After, Late
    <2>3. Late' => Quiet
      <3>1. Late' => Late \/ c.from = "teardown"
        BY <1>1 DEF Ignore, After, Late
      <3>2. c.from = "teardown" => status \in {"stopped", "stop_failed"}
        BY <1>1, <2>1 DEF Ignore, Ignored
      <3> QED
        BY <1>0, <3>1, <3>2 DEF LateInv, Matches
    <2>4. \A k \in DOMAIN queue' : queue'[k].from = "teardown" => queue'[k].cmd = "stop"
      BY <1>1, <1>q, <1>t, <2>1 DEF Ignore, IsNext
    <2> QED
      BY <2>1, <2>2, <2>3, <2>4 DEF LateInv, Quiet, Alive, Running, Stopping
  <1>2. ASSUME NEW c \in Commands, Acknowledge(c) \/ BeginOperation(c) PROVE LateInv'
    <2>1. /\ UNCHANGED <<phase, plane, teardown, lease>> /\ queue' = Tail(queue)
          /\ c.from = "teardown" => c.cmd = "stop"
      BY <1>2, <1>q, <1>t DEF Acknowledge, BeginOperation, IsNext, serving, application
    <2>2. \A k \in DOMAIN queue' : queue'[k].from = "teardown" => queue'[k].cmd = "stop"
      BY <1>2, <1>q, <1>t, <2>1 DEF Acknowledge, BeginOperation, IsNext
    <2>3. Stopping(op)'
      BY <1>2, <2>1 DEF Acknowledge, BeginOperation, Transition, Stopping
    <2> QED
      BY <2>1, <2>2, <2>3 DEF LateInv, Late, Quiet, Alive
  <1>3. CASE PublishFails \/ Report
    <2>1. /\ UNCHANGED <<status, queue, phase, plane, lease>> /\ op' = NoOperation
          /\ Running
      BY <1>3 DEF PublishFails, Report, serving
    <2>2. Late => Late'
      BY <1>3 DEF PublishFails, Report, After, Late
    <2>3. Late' => Quiet
      <3>1. Late' => Late \/ op.from = "teardown"
        BY <1>3 DEF PublishFails, Report, After, Late
      <3>2. PublishFails => Late
        BY <1>0 DEF PublishFails, LateInv, Matches
      <3>3. Report /\ op.from = "teardown" => status \in {"stopped", "stop_failed"}
        BY <2>1 DEF Report, LateInv, Stopping
      <3> QED
        BY <1>0, <1>3, <3>1, <3>2, <3>3 DEF LateInv, Matches
    <2> QED
      BY <1>q, <2>1, <2>2, <2>3 DEF LateInv, Quiet, Alive, Running
  <1>4. CASE Announced \/ Closed
    <2>1. UNCHANGED <<queue, phase, plane, teardown, lease>> /\ Running
      BY <1>4 DEF Announced, Closed, serving, application
    <2>2. /\ op'.cmd = op.cmd /\ op'.from = op.from
          /\ \/ op.at = "announceStart"
             \/ op.cmd = "restart"
             \/ op'.at \in {"report", "refused"} /\ status' \in {"stopped", "stop_failed"}
      BY <1>0, <1>4, <2>1 DEF Announced, Closed, Transition, Operations
    <2>3. Stopping(op)'
      BY <2>1, <2>2 DEF LateInv, Stopping
    <2> QED
      BY <2>1, <2>3 DEF LateInv, Late, Quiet, Alive
  <1>5. CASE Close
    <2>1. /\ UNCHANGED <<status, queue, plane, teardown, lease>> /\ Running
          /\ op'.cmd = op.cmd /\ op'.from = op.from /\ op'.at = "await"
      BY <1>0, <1>5 DEF Close, application, Operations
    <2>2. Late => phase' = phase
      BY <1>0, <1>5 DEF Close, LateInv, Quiet, Alive, Accounted, TypeOK
    <2>3. Stopping(op)'
      BY <2>1 DEF LateInv, Stopping
    <2> QED
      BY <2>1, <2>2, <2>3 DEF LateInv, Late, Quiet, Alive
  <1>6. CASE Bind
    <2>1. /\ UNCHANGED <<queue, plane, teardown, lease>> /\ Running
          /\ op.at = "bind" /\ op'.cmd = op.cmd /\ op'.from = op.from
      BY <1>0, <1>6 DEF Bind, Transition, application, Operations
    <2>2. Late => phase' = phase
      BY <1>6 DEF Bind, Transition
    <2>3. Stopping(op)'
      BY <2>1 DEF LateInv, Stopping
    <2> QED
      BY <2>1, <2>2, <2>3 DEF LateInv, Late, Quiet, Alive
  <1> QED
    BY <1>1, <1>2, <1>3, <1>4, <1>5, <1>6 DEF Operate

LEMMA LateStep ==
  ASSUME Inv, LateInv, Next, Late /\ Bind => status' # "running"
  PROVE  LateInv'
  <1>0. TypeOK /\ queue \in Seq(Commands)
    BY DEF Inv, TypeOK
  <1>1. CASE Arrive \/ BeginTeardown
    <2>1. PICK c \in Commands : /\ queue' = Append(queue, c)
                                /\ c.from = "teardown" => c.cmd = "stop"
      BY <1>1 DEF Arrive, OwnerQuit, ClientCommand, BeginTeardown, Enqueue, Commands
    <2>2. \A k \in DOMAIN queue' : queue'[k] = c \/ (k \in DOMAIN queue /\ queue'[k] = queue[k])
      BY <1>0, <2>1
    <2>3. UNCHANGED <<status, op, phase, plane, lease>> /\ (Late' <=> Late)
      BY <1>1 DEF Arrive, OwnerQuit, ClientCommand, BeginTeardown, serving, application, Late
    <2> QED
      BY <2>1, <2>2, <2>3 DEF LateInv, Quiet, Alive, Running, Stopping
  <1>2. CASE ClosePlane \/ PlaneClosed \/ ReleaseLease
    <2>1. Late /\ Late' /\ UNCHANGED <<status, op, queue, phase>>
      BY <1>2 DEF ClosePlane, PlaneClosed, ReleaseLease, Late, supervisor, serving
    <2> QED
      BY <2>1 DEF LateInv, Quiet, Alive, Running, Stopping
  <1>3. CASE Serve \/ Refresh
    <2>1. UNCHANGED <<status, op, queue, plane, teardown, lease>>
      BY <1>3 DEF Serve, DrainTimeout, Finalize, Admit, Settle, Refresh, supervisor, application
    <2>2. \A l \in Listeners : Alive(l)' => Alive(l)
      BY <1>0, <1>3
      DEF Serve, DrainTimeout, Finalize, Admit, Settle, Refresh, serving, Alive, TypeOK
    <2> QED
      BY <2>1, <2>2 DEF LateInv, Late, Quiet, Running, Stopping
  <1> QED
    BY <1>1, <1>2, <1>3, LateOperate DEF Next, TearDown

\* The InstanceLease is released last, unless a start that waited behind the
\* teardown's stop binds a listener while the application closes.
THEOREM OnlyLateBindsBreakTheLease == Spec /\ NoLateBind => []LeaseReleasedLast
  <1>1. Init => LateInv
    BY DEF Init, LateInv, Late, Running
  <1>2. LateInv => LeaseReleasedLast
    BY DEF LateInv, LeaseReleasedLast, Quiet
  <1>3. Inv /\ LateInv /\ [Next]_vars /\ [Late /\ Bind => status' # "running"]_vars => LateInv'
    <2>1. CASE UNCHANGED vars
      BY <2>1 DEF vars, supervisor, serving, application, LateInv, Late, Quiet, Alive, Running,
                  Stopping
    <2> QED
      BY <2>1, LateStep
  <1> QED
    BY <1>1, <1>2, <1>3, Invariance, PTL DEF Spec, NoLateBind

-----------------------------------------------------------------------------
(***************************************************************************)
(* One teardown.  closeOwnedResources runs once and in order, however many *)
(* quits arrive: the one command it queues is the only one of its kind.    *)
(***************************************************************************)
FromTeardown(k) == queue[k].from = "teardown"

OneTeardown ==
  /\ \A j, k \in DOMAIN queue : FromTeardown(j) /\ FromTeardown(k) => j = k
  /\ \A k \in DOMAIN queue : FromTeardown(k) =>
       teardown = "stopping" /\ ~(Running /\ op.from = "teardown")
  /\ Running /\ op.from = "teardown" => teardown = "stopping"

\* closeOwnedResources goes from step to step, and never back or past one.
TeardownInOrder ==
  [][teardown' # teardown =>
       <<teardown, teardown'>> \in {<<"up", "requested">>, <<"requested", "stopping">>,
                                    <<"stopping", "unpublishing">>, <<"unpublishing", "closing">>,
                                    <<"closing", "flushing">>, <<"flushing", "done">>}]_vars

\* The head of the queue becomes the command that runs, or is done at once.
LEMMA TakeCommand ==
  ASSUME TypeOK, OneTeardown, NEW c \in Commands, IsNext(c), queue' = Tail(queue),
         \/ op' = op /\ (teardown' # teardown => teardown = "up" \/ c.from = "teardown")
         \/ op' # NoOperation /\ op'.from = c.from /\ teardown' = teardown
  PROVE  OneTeardown' /\ (c.from = "teardown" => teardown = "stopping")
  <1>1. /\ \A k \in DOMAIN Tail(queue) : /\ k + 1 \in DOMAIN queue
                                         /\ Tail(queue)[k] = queue[k + 1]
        /\ 1 \in DOMAIN queue /\ c = queue[1] /\ ~Running
    BY DEF TypeOK, IsNext
  <1>2. \A k \in DOMAIN queue' : k \in Nat \ {0}
    BY DEF TypeOK, IsNext
  <1>3. \A k \in DOMAIN queue' : FromTeardown(k)' => teardown = "stopping" /\ c.from # "teardown"
    BY <1>1, <1>2 DEF OneTeardown, FromTeardown
  <1>4. \A j, k \in DOMAIN queue' : FromTeardown(j)' /\ FromTeardown(k)' => j = k
    <2>1. \A j, k \in DOMAIN queue' : FromTeardown(j)' /\ FromTeardown(k)' => j + 1 = k + 1
      BY <1>1 DEF OneTeardown, FromTeardown
    <2> QED
      BY <1>2, <2>1
  <1>5. c.from = "teardown" => teardown = "stopping"
    BY <1>1 DEF OneTeardown, FromTeardown
  <1> QED
    BY <1>1, <1>3, <1>4, <1>5 DEF OneTeardown, Running

LEMMA OneTeardownStep ==
  ASSUME TypeOK, OneTeardown, [Next]_vars
  PROVE  /\ OneTeardown'
         /\ teardown' # teardown =>
              <<teardown, teardown'>> \in {<<"up", "requested">>, <<"requested", "stopping">>,
                                    <<"stopping", "unpublishing">>, <<"unpublishing", "closing">>,
                                    <<"closing", "flushing">>, <<"flushing", "done">>}
  <1>1. ASSUME NEW c \in Commands, Ignore(c)
        PROVE  /\ OneTeardown'
               /\ teardown' # teardown => \/ teardown = "up" /\ teardown' = "requested"
                                          \/ teardown = "stopping" /\ teardown' = "unpublishing"
    <2>1. IsNext(c) /\ queue' = Tail(queue) /\ op' = op
      BY <1>1 DEF Ignore
    <2>2. \/ c.from = "teardown" /\ teardown' = "unpublishing"
          \/ c.from # "teardown" /\ teardown = "up" /\ teardown' = "requested"
          \/ c.from # "teardown" /\ teardown' = teardown
      <3>1. c.from = "teardown" => teardown = "stopping"
        BY <2>1 DEF IsNext, OneTeardown, FromTeardown, TypeOK
      <3> QED
        BY <1>1, <3>1 DEF Ignore, After
    <2> QED
      BY <2>1, <2>2, TakeCommand
  <1>2. ASSUME NEW c \in Commands, Acknowledge(c) \/ BeginOperation(c)
        PROVE  OneTeardown' /\ teardown' = teardown
    <2>1. op'.from = c.from /\ op'.at \in {"report", "announceStart", "announce", "refused"}
      BY <1>2 DEF Acknowledge, BeginOperation, Transition
    <2> QED
      BY <1>2, <2>1, TakeCommand DEF Acknowledge, BeginOperation, NoOperation, application
  <1>3. CASE PublishFails \/ Report
    <2>1. Running /\ op' = NoOperation /\ queue' = queue
      BY <1>3 DEF PublishFails, Report
    <2>2. \/ op.from = "teardown" /\ teardown = "stopping" /\ teardown' = "unpublishing"
          \/ op.from # "teardown" /\ teardown = "up" /\ teardown' = "requested"
          \/ op.from # "teardown" /\ teardown' = teardown
      BY <1>3, <2>1 DEF PublishFails, Report, After, OneTeardown
    <2> QED
      BY <2>1, <2>2 DEF OneTeardown, FromTeardown, Running
  <1>4. CASE Announced \/ Close \/ Closed \/ Bind
    <2>1. /\ Running /\ queue' = queue /\ teardown' = teardown
          /\ op'.from = op.from
      <3>1. CASE Announced \/ Close
        BY <3>1 DEF Announced, Close, application, TypeOK, Operations, Running
      <3>2. CASE Closed \/ Bind
        BY <3>2 DEF Closed, Bind, Transition, application
      <3> QED
        BY <1>4, <3>1, <3>2
    <2> QED
      BY <2>1 DEF OneTeardown, FromTeardown
  <1>5. CASE Arrive
    <2>1. PICK c \in Commands : queue' = Append(queue, c) /\ c.from # "teardown"
      BY <1>5 DEF Arrive, OwnerQuit, ClientCommand, Enqueue, Commands
    <2>2. \A k \in DOMAIN queue' : FromTeardown(k)' => k \in DOMAIN queue /\ FromTeardown(k)
      BY <2>1 DEF FromTeardown, TypeOK
    <2>3. op' = op /\ teardown' = teardown
      BY <1>5 DEF Arrive, OwnerQuit, ClientCommand, application
    <2> QED
      BY <2>2, <2>3 DEF OneTeardown, Running
  <1>6. CASE BeginTeardown
    <2>1. \A k \in DOMAIN queue : ~FromTeardown(k)
      BY <1>6 DEF BeginTeardown, OneTeardown
    <2>2. ~(Running /\ op.from = "teardown") /\ op' = op
      BY <1>6 DEF BeginTeardown, OneTeardown
    <2>3. \A k \in DOMAIN queue' : FromTeardown(k)' => k = Len(queue) + 1
      BY <1>6, <2>1 DEF BeginTeardown, Enqueue, FromTeardown, TypeOK
    <2> QED
      BY <1>6, <2>2, <2>3 DEF BeginTeardown, OneTeardown, Running
  <1>7. CASE ClosePlane \/ PlaneClosed \/ ReleaseLease
    BY <1>7 DEF ClosePlane, PlaneClosed, ReleaseLease, OneTeardown, FromTeardown, Running,
                supervisor
  <1>8. CASE Serve \/ Refresh \/ UNCHANGED vars
    <2>1. UNCHANGED <<queue, op, teardown>>
      BY <1>8 DEF Serve, DrainTimeout, Finalize, Admit, Settle, Refresh, vars, supervisor, application
    <2> QED
      BY <2>1 DEF OneTeardown, FromTeardown, Running
  <1> QED
    BY <1>1, <1>2, <1>3, <1>4, <1>5, <1>6, <1>7, <1>8 DEF Next, Operate, TearDown

\* The teardown runs once and in order.
THEOREM TeardownRunsOnce == Spec => TeardownInOrder
  <1>1. Init => OneTeardown
    BY DEF Init, OneTeardown, FromTeardown, Running
  <1>2. Inv => TypeOK
    BY DEF Inv
  <1> QED
    BY <1>1, <1>2, OneTeardownStep, Invariance, PTL DEF Spec, TeardownInOrder

-----------------------------------------------------------------------------
\* What a command still has before it: its awaits in the order it comes to them.
Awaits == <<"refused", "report", "bind", "announceStart", "await", "announce">>
Ahead(o) == IF o = NoOperation THEN 0 ELSE CHOOSE n \in 1..6 : Awaits[n] = o.at

\* A command that runs is replaced by no other and goes through each of its
\* awaits once at most, whatever is queued behind it and however often it fails.
CommandsAdvance ==
  [][Running /\ op' # op =>
       Ahead(op') < Ahead(op) /\ (op' = NoOperation \/ <<op'.cmd, op'.from>> = <<op.cmd, op.from>>)]_vars

\* Commands run one at a time and go forward only.
THEOREM CommandsOnlyAdvance == Spec => CommandsAdvance
  <1>1. ASSUME NEW o \in Operations
        PROVE  Ahead(o) = CASE o.at = "announce" -> 6 [] o.at = "await" -> 5
                            [] o.at = "announceStart" -> 4 [] o.at = "bind" -> 3
                            [] o.at = "report" -> 2 [] o.at = "refused" -> 1
    <2>1. o # NoOperation /\ o.at \in {"announce", "await", "announceStart", "bind", "report", "refused"}
      BY DEF Operations, NoOperation
    <2>2. \A n \in 1..6, m \in 1..6 : Awaits[n] = Awaits[m] => n = m
      BY DEF Awaits
    <2>3. PICK n \in 1..6 : Awaits[n] = o.at
      BY <2>1 DEF Awaits
    <2>4. Ahead(o) = n
      BY <2>1, <2>2, <2>3 DEF Ahead
    <2> QED
      BY <2>3, <2>4 DEF Awaits
  <1>2. Ahead(NoOperation) = 0
    BY DEF Ahead
  <1>3. ASSUME Inv, Inv', [Next]_vars, Running, op' # op
        PROVE  Ahead(op') < Ahead(op) /\ (op' = NoOperation \/ <<op'.cmd, op'.from>> = <<op.cmd, op.from>>)
    <2>0. TypeOK /\ TypeOK'
      BY <1>3 DEF Inv
    <2>1. op \in Operations /\ op' \in Operations \cup {NoOperation}
      BY <1>3, <2>0 DEF TypeOK, Running
    <2>2. CASE PublishFails \/ Report
      <3>1. op' = NoOperation /\ op.at \in {"refused", "report"}
        BY <2>2 DEF PublishFails, Report
      <3>2. Ahead(op) > 0
        BY <1>1, <2>1, <3>1
      <3> QED
        BY <1>2, <3>1, <3>2
    <2>3. CASE Announced \/ Close
      <3>1. /\ op'.cmd = op.cmd /\ op'.from = op.from /\ op' # NoOperation
            /\ \/ op.at = "announceStart" /\ op'.at = "bind"
               \/ op.at = "announce" /\ op'.at = "await"
        BY <2>1, <2>3 DEF Announced, Close, Operations, NoOperation
      <3> QED
        BY <1>1, <2>1, <3>1
    <2>4. CASE Closed \/ Bind
      <3>1. /\ op'.cmd = op.cmd /\ op'.from = op.from /\ op' # NoOperation
            /\ \/ op.at = "await" /\ op'.at \in {"announceStart", "report", "refused"}
               \/ op.at = "bind" /\ op'.at \in {"report", "refused"}
        <4>1. CASE Closed
          BY <2>1, <4>1 DEF Closed, Transition, Operations, NoOperation
        <4>2. CASE Bind
          BY <2>1, <4>2 DEF Bind, Transition, Operations, NoOperation
        <4> QED
          BY <2>4, <4>1, <4>2
      <3> QED
        BY <1>1, <2>1, <3>1
    <2>5. PublishFails \/ Report \/ Announced \/ Close \/ Bind \/ Closed
      BY <1>3
      DEF Next, vars, supervisor, Operate, Ignore, Acknowledge, BeginOperation, IsNext, TearDown,
          BeginTeardown, ClosePlane, PlaneClosed, ReleaseLease, Arrive, OwnerQuit, ClientCommand,
          Serve, Admit, Settle, DrainTimeout, Finalize, Refresh
    <2> QED
      BY <2>2, <2>3, <2>4, <2>5
  <1>4. Inv /\ Inv' /\ [Next]_vars =>
          [Running /\ op' # op =>
             Ahead(op') < Ahead(op)
             /\ (op' = NoOperation \/ <<op'.cmd, op'.from>> = <<op.cmd, op.from>>)]_vars
    BY <1>3
  <1> QED
    BY <1>4, Invariance, PTL DEF Spec, CommandsAdvance
=============================================================================
