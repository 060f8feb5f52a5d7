----------------------- MODULE DesktopOwnership_proofs -----------------------
(***************************************************************************)
(* Proofs about DesktopOwnership, for any shells, builds, commands and any *)
(* finite set of processes, each of which may die at any step.             *)
(*                                                                         *)
(* Inv has two halves.  Of the Backends: whoever has got past arbitration  *)
(* holds the lock.  Of each shell: what it knows of the Backend it talks   *)
(* to because of the branch of resolveConnection it is in.                 *)
(***************************************************************************)
EXTENDS DesktopOwnership, TLAPS

\* From arbitration until its lock is released.
Serving == {"acquired", "published", "running", "closing", "unpublished", "closed"}

Locked == \A b \in Backends : phase[b] \in Serving => lock = b

\* A process that has not been started belongs to nobody.
Unstarted ==
  \A b \in Backends : phase[b] = "unused" => origin[b] = None /\ lease[b] = None

\* What shell s knows when its connection is c.
Knows(s, c) ==
  /\ c \in Connections
  /\ c.at = "wait" => c.spawned # None
  /\ c.at \in {"ask", "await", "attach", "claim", "claimed"} => c.client # None
  /\ c.at \in {"ask", "claim", "claimed"} => Desktop(c.client)
  /\ c.at \in {"claim", "claimed"} => Build[origin[c.client]] = Build[s]
  /\ c.quits # None => Desktop(c.quits)
  /\ c.viewer => c.at = "rest" /\ ~c.bound

Informed == \A s \in Shells : Knows(s, sh[s])

Inv ==
  /\ TypeOK /\ Locked /\ Unstarted /\ Informed
  /\ ServerIsDiscoverable /\ LeaseIsOfOwnBuild

-----------------------------------------------------------------------------
LEMMA InitInv == Init => Inv
  BY OwnershipAssumption
  DEF Init, Inv, TypeOK, Locked, Unstarted, Informed, Knows, Connections, Serving, Phases,
      ServerIsDiscoverable, LeaseIsOfOwnBuild, Desktop

-----------------------------------------------------------------------------
\* What the ways out of resolveConnection do to a connection.
LEMMA RetryKnows ==
  ASSUME NEW s \in Shells, NEW c, Knows(s, c), ~c.viewer
  PROVE  Knows(s, Retry(c))
  <1>a. PICK a : a = IF c.last THEN "look" ELSE IF c.spawned = None THEN "launch" ELSE "wait"
    OBVIOUS
  <1>b. a \in {"look", "launch", "wait"} /\ (a = "wait" => c.spawned # None)
    BY <1>a
  <1>1. PICK d : d = [c EXCEPT !.at = a, !.last = FALSE]
    OBVIOUS
  <1>2. c \in Connections /\ (c.quits # None => Desktop(c.quits))
    BY DEF Knows
  <1>3. d \in Connections
    BY <1>b, <1>1, <1>2 DEF Connections
  <1>4. d.at = a /\ d.spawned = c.spawned /\ d.quits = c.quits /\ ~d.viewer
    BY <1>1, <1>2 DEF Connections
  <1>5. d.at \in {"look", "launch", "wait"} /\ (d.at = "wait" => d.spawned # None)
    BY <1>b, <1>4
  <1>6. Knows(s, d)
    BY <1>2, <1>3, <1>4, <1>5 DEF Knows
  <1> QED
    BY <1>a, <1>1, <1>6 DEF Retry

LEMMA DoneKnows ==
  ASSUME NEW s \in Shells, NEW c, Knows(s, c)
  PROVE  Knows(s, Done(c)) /\ Done(c).at = "rest"
  <1>1. PICK d : d = Done(c)
    OBVIOUS
  <1>2. c \in Connections /\ (c.quits # None => Desktop(c.quits)) /\ (c.viewer => ~c.bound)
    BY DEF Knows
  <1>3. d \in Connections
    BY <1>1, <1>2 DEF Done, Connections
  <1>4. d.at = "rest" /\ d.quits = c.quits /\ d.viewer = c.viewer /\ d.bound = c.bound
    BY <1>1, <1>2 DEF Done, Connections
  <1>5. Knows(s, d)
    BY <1>2, <1>3, <1>4 DEF Knows
  <1> QED
    BY <1>1, <1>4, <1>5

LEMMA HandoffKnows ==
  ASSUME NEW s \in Shells, NEW c, Knows(s, c)
  PROVE  Knows(s, Handoff(c))
  <1>1. PICK d : d = Done(c)
    OBVIOUS
  <1>2. Knows(s, d) /\ d.at = "rest"
    BY <1>1, DoneKnows
  <1>3. PICK e : e = [d EXCEPT !.viewer = TRUE, !.bound = FALSE]
    OBVIOUS
  <1>4. d \in Connections /\ (d.quits # None => Desktop(d.quits))
    BY <1>2 DEF Knows
  <1>5. e \in Connections
    BY <1>3, <1>4 DEF Connections
  <1>6. e.at = "rest" /\ e.quits = d.quits /\ ~e.bound
    BY <1>2, <1>3, <1>4 DEF Connections
  <1>7. Knows(s, e)
    BY <1>4, <1>5, <1>6 DEF Knows
  <1> QED
    BY <1>1, <1>3, <1>7 DEF Handoff

LEMMA EndedKnows ==
  ASSUME NEW s \in Shells, NEW c, Knows(s, c)
  PROVE  Knows(s, Ended(c)) /\ Ended(c).quits = None
  <1>1. PICK d : d = Ended(c)
    OBVIOUS
  <1>2. c \in Connections
    BY DEF Knows
  <1>3. d \in Connections
    BY <1>1, <1>2 DEF Ended, Connections
  <1>4. d.at = "gone" /\ d.quits = None /\ ~d.viewer
    BY <1>1, <1>2 DEF Ended, Connections
  <1>5. Knows(s, d)
    BY <1>3, <1>4 DEF Knows
  <1> QED
    BY <1>1, <1>4, <1>5

\* A step that changes one connection, and no process's origin, keeps what the
\* shells know when the new connection is one the shell may know.
LEMMA InformedKept ==
  ASSUME Inv, NEW s \in Shells, NEW c, Becomes(s, c), Knows(s, c), UNCHANGED origin
  PROVE  Informed' /\ sh' \in [Shells -> Connections]
  <1>1. \A t \in Shells : Knows(t, sh'[t])
    BY DEF Inv, TypeOK, Informed, Becomes
  <1>2. Informed'
    BY <1>1 DEF Informed, Knows, Desktop
  <1>3. sh' \in [Shells -> Connections]
    BY DEF Inv, TypeOK, Becomes, Knows
  <1> QED
    BY <1>2, <1>3

-----------------------------------------------------------------------------
\* A Backend's own steps.  What a shell knows depends on origins alone.
LEMMA InformedFrame ==
  ASSUME Inv, UNCHANGED <<sh, origin>>
  PROVE  Informed'
  BY DEF Inv, Informed, Knows, Desktop

\* A step that enters a phase past arbitration, or leaves it, with the lock.
LEMMA NextBackend ==
  ASSUME Inv, NEW b \in Backends, Backend(b)
  PROVE  Inv'
  <1>1. Informed'
    BY InformedFrame
    DEF Backend, Acquire, Owned, Attach, Publish, Started, StartFails, Signal, Close, Crash,
        Expire, Retire
  <1>2. TypeOK'
    <2>1. CASE Acquire(b) \/ Owned(b) \/ Attach(b) \/ Publish(b) \/ Started(b) \/ StartFails(b) \/ Signal(b)
      BY <2>1 DEF Inv, TypeOK, Phases, Enter, Acquire, Owned, Attach, Publish, Started, StartFails, Signal
    <2>2. CASE Close(b)
      BY <2>2 DEF Inv, TypeOK, Phases, Enter, Close, Forget
    <2>3. CASE Crash(b)
      BY <2>3 DEF Inv, TypeOK, Phases, Enter, Crash, Forget
    <2>4. CASE Expire(b) \/ Retire(b)
      BY <2>4 DEF Inv, TypeOK, Phases, Enter, Expire, Retire, Finish
    <2> QED
      BY <2>1, <2>2, <2>3, <2>4 DEF Backend
  <1>3. Locked'
    <2>1. CASE Acquire(b) \/ Owned(b) \/ Attach(b) \/ Publish(b) \/ Started(b) \/ StartFails(b) \/ Signal(b)
      BY <2>1, OwnershipAssumption
      DEF Inv, TypeOK, Locked, Serving, Enter, Acquire, Owned, Attach, Publish, Started, StartFails, Signal
    <2>2. CASE Close(b)
      BY <2>2 DEF Inv, TypeOK, Locked, Serving, Enter, Close, Releases
    <2>3. CASE Crash(b)
      BY <2>3 DEF Inv, TypeOK, Locked, Serving, Enter, Crash
    <2>4. CASE Expire(b) \/ Retire(b)
      BY <2>4 DEF Inv, TypeOK, Locked, Serving, Enter, Expire, Retire, Finish
    <2> QED
      BY <2>1, <2>2, <2>3, <2>4 DEF Backend
  <1>4. Unstarted'
    BY DEF Inv, TypeOK, Unstarted, Enter, Forget, Finish, Alive,
           Backend, Acquire, Owned, Attach, Publish, Started, StartFails, Signal, Close, Crash,
           Expire, Retire
  <1>5. ServerIsDiscoverable'
    BY DEF Inv, TypeOK, ServerIsDiscoverable, Locked, Serving, Enter, Finish,
           Backend, Acquire, Owned, Attach, Publish, Started, StartFails, Signal, Close, Crash,
           Expire, Retire
  <1>6. LeaseIsOfOwnBuild'
    BY OwnershipAssumption
    DEF Inv, TypeOK, LeaseIsOfOwnBuild, Desktop, Forget,
        Backend, Acquire, Owned, Attach, Publish, Started, StartFails, Signal, Close, Crash,
        Expire, Retire
  <1> QED
    BY <1>1, <1>2, <1>3, <1>4, <1>5, <1>6 DEF Inv

-----------------------------------------------------------------------------
\* A new process takes nothing from anybody.
LEMMA SpawnKeeps ==
  ASSUME Inv, NEW b \in Backends, NEW o \in Shells \cup Clis, Spawn(b, o)
  PROVE  /\ Locked' /\ Unstarted' /\ ServerIsDiscoverable' /\ LeaseIsOfOwnBuild'
         /\ phase' \in [Backends -> Phases]
         /\ origin' \in [Backends -> Shells \cup Clis \cup {None}]
         /\ \A s \in Shells : Knows(s, sh[s])
              => /\ sh[s].at \in {"ask", "claim", "claimed"} =>
                      origin'[sh[s].client] = origin[sh[s].client]
                 /\ sh[s].quits # None => origin'[sh[s].quits] = origin[sh[s].quits]
  <1>1. /\ phase[b] = "unused" /\ origin[b] = None /\ lease[b] = None
        /\ phase' = [phase EXCEPT ![b] = "waiting"] /\ origin' = [origin EXCEPT ![b] = o]
        /\ UNCHANGED <<lock, descriptor, lease, stuck>>
    BY DEF Inv, Unstarted, Spawn, Enter
  <1>2. Locked' /\ ServerIsDiscoverable' /\ phase' \in [Backends -> Phases]
    BY <1>1 DEF Inv, TypeOK, Locked, Serving, ServerIsDiscoverable, Phases
  <1>3. Unstarted' /\ LeaseIsOfOwnBuild' /\ origin' \in [Backends -> Shells \cup Clis \cup {None}]
    BY <1>1, OwnershipAssumption DEF Inv, TypeOK, Unstarted, LeaseIsOfOwnBuild, Desktop
  <1>4. ASSUME NEW s \in Shells, Knows(s, sh[s])
        PROVE  /\ sh[s].at \in {"ask", "claim", "claimed"} =>
                    origin'[sh[s].client] = origin[sh[s].client]
               /\ sh[s].quits # None => origin'[sh[s].quits] = origin[sh[s].quits]
    <2>1. \A d \in Backends \cup {None} : Desktop(d) => d # b
      BY <1>1, OwnershipAssumption DEF Desktop
    <2>2. sh[s].client \in Backends \cup {None} /\ sh[s].quits \in Backends \cup {None}
      BY <1>4 DEF Knows, Connections
    <2>3. \A d \in Backends : d # b => origin'[d] = origin[d]
      BY <1>1 DEF Inv, TypeOK
    <2> QED
      BY <1>4, <2>1, <2>2, <2>3 DEF Knows
  <1> QED
    BY <1>2, <1>3, <1>4

LEMMA NextCommandLine ==
  ASSUME Inv, NEW b \in Backends, NEW c \in Clis, StartFromCommandLine(b, c)
  PROVE  Inv'
  <1>1. Spawn(b, c) /\ UNCHANGED sh
    BY DEF StartFromCommandLine
  <1>2. Informed'
    BY <1>1, SpawnKeeps DEF Inv, Informed, Knows, Desktop
  <1>3. TypeOK'
    BY <1>1, SpawnKeeps DEF Inv, TypeOK, Spawn
  <1> QED
    BY <1>1, <1>2, <1>3, SpawnKeeps DEF Inv

\* A shell's step that leaves the processes as they are.
LEMMA NextQuiet ==
  ASSUME Inv, NEW s \in Shells, NEW c, Becomes(s, c), Knows(s, c), UNCHANGED backends
  PROVE  Inv'
  <1>1. Informed' /\ sh' \in [Shells -> Connections]
    BY InformedKept DEF backends
  <1>2. TypeOK'
    BY <1>1 DEF Inv, TypeOK, Informed, Knows, backends
  <1> QED
    BY <1>1, <1>2
    DEF Inv, Locked, Unstarted, ServerIsDiscoverable, LeaseIsOfOwnBuild, Desktop, backends

\* A shell's step that may ask a running Backend to finish.
LEMMA NextFinish ==
  ASSUME Inv, NEW s \in Shells, NEW c, Becomes(s, c), Knows(s, c),
         NEW b \in Backends, Finish(b),
         UNCHANGED <<lock, descriptor, origin, lease, stuck>>
  PROVE  Inv'
  <1>1. Informed' /\ sh' \in [Shells -> Connections]
    BY InformedKept
  <1>2. TypeOK'
    BY <1>1 DEF Inv, TypeOK, Informed, Knows, Finish, Enter, Phases
  <1>3. Locked' /\ ServerIsDiscoverable' /\ Unstarted'
    BY DEF Inv, TypeOK, Locked, Serving, ServerIsDiscoverable, Unstarted, Finish, Enter
  <1> QED
    BY <1>1, <1>2, <1>3 DEF Inv, LeaseIsOfOwnBuild, Desktop

LEMMA NextResolve ==
  ASSUME Inv, NEW s \in Shells, Resolve(s)
  PROVE  Inv'
  <1> DEFINE c == sh[s]
  <1>0. /\ Knows(s, c) /\ c \in Connections /\ descriptor \in Backends \cup {None}
        /\ c.at # "rest" => ~c.viewer
    BY DEF Inv, TypeOK, Informed, Knows
  <1>1. CASE Start(s)
    <2>1. Knows(s, [c EXCEPT !.at = "look"])
      BY <1>0, <1>1 DEF Start, At, Knows, Connections
    <2> QED
      BY <1>1, <2>1, NextQuiet DEF Start
  <1>2. CASE Look(s)
    <2>1. Knows(s, Retry(c))
      BY <1>0, <1>2, RetryKnows DEF Look, At
    <2>2. Knows(s, [c EXCEPT !.target = descriptor, !.at = "connect"])
      BY <1>0, <1>2 DEF Look, At, Knows, Connections
    <2> QED
      BY <1>2, <2>1, <2>2, NextQuiet DEF Look
  <1>3. CASE Connect(s)
    <2> DEFINE d == [c EXCEPT !.target = None]
               found(at) == [d EXCEPT !.client = c.target, !.at = at]
    <2>1. /\ Foreign(s, c.target) /\ Up(c.target) => Knows(s, found("ask"))
          /\ Up(c.target) => Knows(s, found("attach"))
      BY <1>0, <1>3 DEF Connect, At, Up, Foreign, Desktop, Knows, Connections
    <2>2. Knows(s, [d EXCEPT !.client = None]) /\ ~[d EXCEPT !.client = None].viewer
      BY <1>0, <1>3 DEF Connect, At, Knows, Connections
    <2>3. Knows(s, Retry([d EXCEPT !.client = None]))
      BY <2>2, RetryKnows
    <2>4. UNCHANGED backends
      BY <1>3 DEF Connect
    <2>5. \/ Up(c.target) /\ Foreign(s, c.target) /\ Becomes(s, found("ask"))
          \/ Up(c.target) /\ Becomes(s, found("attach"))
          \/ Becomes(s, Retry([d EXCEPT !.client = None]))
      BY <1>3 DEF Connect
    <2> HIDE DEF d, found
    <2> QED
      BY <2>1, <2>3, <2>4, <2>5, NextQuiet
  <1>4. CASE Ask(s)
    <2>1. Knows(s, [c EXCEPT !.at = "await"]) /\ c.client \in Backends
      BY <1>0, <1>4 DEF Ask, At, Knows, Connections
    <2>2. Knows(s, Done(c))
      BY <1>0, DoneKnows
    <2>3. CASE Up(c.client) /\ Finish(c.client) /\ Becomes(s, [c EXCEPT !.at = "await"])
      BY <1>4, <2>1, <2>3, NextFinish DEF Ask
    <2>4. CASE UNCHANGED phase /\ Becomes(s, Done(c))
      BY <1>4, <2>2, <2>4, NextQuiet DEF Ask, backends
    <2> QED
      BY <1>4, <2>3, <2>4 DEF Ask
  <1>5. CASE Await(s)
    BY <1>0, <1>5, DoneKnows, RetryKnows, NextQuiet DEF Await, At
  <1>6. CASE AttachShell(s)
    <2>1. c.client # None /\ ~c.viewer
      BY <1>0, <1>6 DEF AttachShell, At, Knows
    <2>2. Knows(s, Handoff(c)) /\ Knows(s, Retry(c))
      BY <1>0, <2>1, HandoffKnows, RetryKnows
    <2>3. Knows(s, [c EXCEPT !.bound = FALSE])
      BY <1>0, <1>6 DEF AttachShell, At, Knows, Connections
    <2>4. Knows(s, Done([c EXCEPT !.bound = FALSE]))
      BY <2>3, DoneKnows
    <2>5. ~Foreign(s, c.client) /\ Desktop(c.client)
            => Knows(s, [c EXCEPT !.bound = FALSE, !.at = "claim"])
      BY <1>0, <1>6, <2>1 DEF AttachShell, At, Foreign, Desktop, Knows, Connections
    <2>6. Knows(s, Attached(s, c))
      BY <2>2, <2>4, <2>5 DEF Attached
    <2> QED
      BY <1>6, <2>2, <2>6, NextQuiet DEF AttachShell
  <1>7. CASE Claim(s)
    <2> DEFINE d == [c EXCEPT !.at = "claimed"]
    <2>1. /\ c.client \in Backends /\ Desktop(c.client) /\ Build[origin[c.client]] = Build[s]
          /\ ~c.viewer /\ Knows(s, d)
      BY <1>0, <1>7 DEF Claim, At, Knows, Connections
    <2>2. CASE UNCHANGED lease /\ Becomes(s, Retry(c))
      BY <1>0, <1>7, <2>1, <2>2, RetryKnows, NextQuiet DEF Claim, backends
    <2>3. CASE Up(c.client) /\ lease' = [lease EXCEPT ![c.client] = s] /\ Becomes(s, d)
      <3>1. Informed' /\ sh' \in [Shells -> Connections]
        BY <1>7, <2>1, <2>3, InformedKept DEF Claim
      <3>2. TypeOK'
        BY <1>7, <2>1, <2>3, <3>1 DEF Claim, Inv, TypeOK, Informed, Knows
      <3>3. Unstarted' /\ LeaseIsOfOwnBuild'
        BY <1>7, <2>1, <2>3 DEF Claim, Inv, TypeOK, Up, Unstarted, LeaseIsOfOwnBuild, Desktop
      <3> QED
        BY <1>7, <3>1, <3>2, <3>3 DEF Claim, Inv, Locked, ServerIsDiscoverable
    <2> QED
      BY <1>7, <2>2, <2>3 DEF Claim
  <1>8. CASE Claimed(s)
    <2>1. ~c.viewer /\ Knows(s, [c EXCEPT !.bound = TRUE])
      BY <1>0, <1>8 DEF Claimed, At, Knows, Connections
    <2> QED
      BY <1>0, <1>8, <2>1, DoneKnows, RetryKnows, NextQuiet DEF Claimed
  <1>9. CASE Launch(s)
    <2>1. CASE UNCHANGED backends /\ Becomes(s, [c EXCEPT !.at = "look"])
      <3>1. Knows(s, [c EXCEPT !.at = "look"])
        BY <1>0, <1>9 DEF Launch, At, Knows, Connections
      <3> QED
        BY <2>1, <3>1, NextQuiet
    <2>2. ASSUME NEW b \in Backends, Spawn(b, s),
                 Becomes(s, [c EXCEPT !.spawned = b, !.at = "wait"])
          PROVE  Inv'
      <3>1. \A t \in Shells : sh'[t] = IF t = s THEN [c EXCEPT !.spawned = b, !.at = "wait"] ELSE sh[t]
        BY <2>2 DEF Inv, TypeOK, Becomes
      <3>2. c.at = "launch" /\ ~c.viewer /\ b # None
        BY <1>0, <1>9, OwnershipAssumption DEF Launch, At
      <3>3. Informed'
        <4> SUFFICES ASSUME NEW t \in Shells
                     PROVE  Knows(t, sh[t])'
          BY DEF Informed
        <4>1. /\ Knows(t, sh[t])
              /\ sh[t].at \in {"ask", "claim", "claimed"} =>
                   origin'[sh[t].client] = origin[sh[t].client]
              /\ sh[t].quits # None => origin'[sh[t].quits] = origin[sh[t].quits]
          BY <2>2, SpawnKeeps DEF Inv, Informed
        <4>2. CASE t = s
          <5>1. sh'[t] \in Connections
            <6>1. c \in Connections
              BY <4>1, <4>2 DEF Knows
            <6>2. [c EXCEPT !.spawned = b, !.at = "wait"] \in Connections
              BY <6>1 DEF Connections
            <6> QED
              BY <3>1, <4>2, <6>2
          <5>2. /\ sh'[t].at = "wait" /\ sh'[t].spawned = b
                /\ sh'[t].quits = sh[t].quits /\ sh'[t].viewer = sh[t].viewer
            BY <3>1, <4>1, <4>2 DEF Knows, Connections
          <5> QED
            BY <3>2, <4>1, <4>2, <5>1, <5>2 DEF Knows, Desktop
        <4>3. CASE t # s
          BY <3>1, <4>1, <4>3 DEF Knows, Desktop
        <4> QED
          BY <4>2, <4>3
      <3>4. TypeOK'
        BY <2>2, <3>3, SpawnKeeps DEF Inv, TypeOK, Informed, Knows, Spawn, Becomes
      <3> QED
        BY <2>2, <3>3, <3>4, SpawnKeeps DEF Inv
    <2> QED
      BY <1>9, <2>1, <2>2 DEF Launch
  <1>10. CASE Wait(s)
    <2>1. /\ Knows(s, [c EXCEPT !.spawned = None, !.last = TRUE, !.at = "look"])
          /\ Knows(s, [c EXCEPT !.at = "look"])
      BY <1>0, <1>10 DEF Wait, At, Knows, Connections
    <2> QED
      BY <1>10, <2>1, NextQuiet DEF Wait
  <1>11. CASE Lost(s)
    <2>1. /\ Knows(s, [c EXCEPT !.client = None])
          /\ ~c.viewer => Knows(s, [c EXCEPT !.client = None, !.reconnecting = TRUE, !.at = "look"])
      BY <1>0, <1>11 DEF Lost, At, Knows, Connections
    <2> QED
      BY <1>11, <2>1, NextQuiet DEF Lost
  <1> QED
    BY <1>1, <1>2, <1>3, <1>4, <1>5, <1>6, <1>7, <1>8, <1>9, <1>10, <1>11 DEF Resolve

LEMMA NextUser ==
  ASSUME Inv, NEW s \in Shells, User(s)
  PROVE  Inv'
  <1> DEFINE c == sh[s]
  <1>0. Knows(s, c) /\ c \in Connections /\ Knows(s, Ended(c))
    BY EndedKnows DEF Inv, Informed, Knows
  <1>1. CASE Quit(s)
    <2>1. Desktop(c.client) /\ c.client # None => Knows(s, [c EXCEPT !.quits = c.client])
      BY <1>0 DEF Knows, Connections
    <2> QED
      BY <1>0, <1>1, <2>1, NextQuiet DEF Quit
  <1>2. CASE QuitAnswered(s)
    <2>1. Knows(s, [c EXCEPT !.quits = None])
      BY <1>0 DEF Knows, Connections
    <2>2. CASE UNCHANGED phase /\ Becomes(s, [c EXCEPT !.quits = None])
      BY <1>2, <2>1, <2>2, NextQuiet DEF QuitAnswered, backends
    <2>3. CASE c.quits = c.client /\ Finish(c.client) /\ Becomes(s, Ended(c))
      <3>1. c.client \in Backends
        BY <1>0, <1>2, <2>3 DEF QuitAnswered, Connections
      <3> QED
        BY <1>0, <1>2, <2>3, <3>1, NextFinish DEF QuitAnswered
    <2> QED
      BY <1>2, <2>2, <2>3 DEF QuitAnswered
  <1>3. CASE RenewalRefused(s)
    <2> DEFINE d == [c EXCEPT !.bound = FALSE]
    <2>1. /\ d \in Connections /\ ~d.bound
          /\ d.at = c.at /\ d.spawned = c.spawned /\ d.client = c.client
          /\ d.quits = c.quits /\ d.viewer = c.viewer
      BY <1>0 DEF Connections
    <2>2. Becomes(s, d) /\ UNCHANGED backends
      BY <1>3 DEF RenewalRefused
    <2> HIDE DEF d
    <2>3. Knows(s, d)
      BY <1>0, <2>1 DEF Knows
    <2> QED
      BY <2>2, <2>3, NextQuiet
  <1>4. CASE Exit(s)
    BY <1>0, <1>4, NextQuiet DEF Exit
  <1> QED
    BY <1>1, <1>2, <1>3, <1>4 DEF User

LEMMA NextInv == Inv /\ [Next]_vars => Inv'
  <1> SUFFICES ASSUME Inv, [Next]_vars PROVE Inv'
    OBVIOUS
  <1>1. CASE UNCHANGED vars
    BY <1>1 DEF vars, Inv, TypeOK, Locked, Unstarted, Informed, Knows, Desktop,
                ServerIsDiscoverable, LeaseIsOfOwnBuild
  <1>2. CASE Next
    BY <1>2, NextBackend, NextCommandLine, NextResolve, NextUser DEF Next
  <1> QED
    BY <1>1, <1>2

-----------------------------------------------------------------------------
\* Every state: types, the lock, and what each shell knows of its Backend.
THEOREM Invariance == Spec => []Inv
  BY InitInv, NextInv, PTL DEF Spec

\* No two Backends answer at a time, whoever starts, closes or dies: a Control
\* Plane is up only while its process holds the instance lock.
THEOREM OneServes == Spec => []OneBackendServes
  <1>1. Inv => OneBackendServes
    BY DEF Inv, Locked, Serving, OneBackendServes, Up
  <1> QED
    BY <1>1, Invariance, PTL

\* The discovery file names whoever serves, until it closes.
THEOREM ServerStaysDiscoverable == Spec => []ServerIsDiscoverable
  BY Invariance, PTL DEF Inv

\* A shell owns Backends of its own build only, and none a user started.
THEOREM LeasesStayConsistent == Spec => []LeaseConsistent
  BY Invariance, PTL DEF Inv, LeaseConsistent

\* A shell that another build has replaced begins nothing that reaches a Backend.
THEOREM ViewersBegin == Spec => ViewersBeginNothing
  <1> DEFINE Harmless(s) == /\ UNCHANGED <<lock, descriptor, origin, lease, stuck>>
                            /\ sh'[s].quits \in {None, sh[s].quits}
                            /\ \A b \in Backends \ {sh[s].quits} : phase'[b] = phase[b]
  <1>1. ASSUME Inv, [Next]_vars, NEW s \in Shells, sh[s].viewer, sh'[s] # sh[s]
        PROVE  Harmless(s)
    <2>1. /\ sh[s].at = "rest" /\ ~sh[s].bound /\ sh[s] \in Connections
          /\ Ended(sh[s]).quits = None
      BY <1>1, EndedKnows DEF Inv, Informed, Knows
    <2>2. \A t \in Shells : t # s => \A c : Becomes(t, c) => sh'[s] = sh[s]
      BY <1>1 DEF Inv, TypeOK, Becomes
    <2>3. Resolve(s) \/ User(s)
      <3>1. \A b \in Backends : Backend(b) => UNCHANGED sh
        BY DEF Backend, Acquire, Owned, Attach, Publish, Started, StartFails, Signal, Close,
               Crash, Expire, Retire
      <3>2. \A b \in Backends, c \in Clis : StartFromCommandLine(b, c) => UNCHANGED sh
        BY DEF StartFromCommandLine
      <3>3. \A t \in Shells : t # s => ~Resolve(t)
        BY <1>1, <2>2
        DEF Resolve, Start, Look, Connect, Ask, Await, AttachShell, Claim, Claimed, Launch, Wait, Lost
      <3>4. \A t \in Shells : t # s => ~User(t)
        BY <1>1, <2>2 DEF User, Quit, QuitAnswered, RenewalRefused, Exit
      <3> QED
        BY <1>1, <3>1, <3>2, <3>3, <3>4 DEF Next, vars
    <2>4. CASE Lost(s)
      BY <1>1, <2>1, <2>4 DEF Lost, Becomes, Inv, TypeOK, Connections, backends
    <2>5. CASE Quit(s)
      BY <1>1, <2>1, <2>5 DEF Quit, Becomes, Inv, TypeOK, backends
    <2>6. CASE Exit(s)
      BY <1>1, <2>1, <2>6 DEF Exit, Becomes, Inv, TypeOK, backends
    <2>7. CASE QuitAnswered(s)
      <3>1. \A b \in Backends \ {sh[s].quits} : phase'[b] = phase[b]
        BY <1>1, <2>7 DEF QuitAnswered, Finish, Enter, Inv, TypeOK
      <3>2. sh'[s].quits = None
        BY <1>1, <2>1, <2>7 DEF QuitAnswered, Becomes, Inv, TypeOK, Connections
      <3> QED
        BY <2>7, <3>1, <3>2 DEF QuitAnswered
    <2>8. Lost(s) \/ Quit(s) \/ Exit(s) \/ QuitAnswered(s)
      BY <1>1, <2>1, <2>3
      DEF Resolve, User, At, Start, Look, Connect, Ask, Await, AttachShell, Claim, Claimed,
          Launch, Wait, RenewalRefused
    <2> QED
      BY <2>4, <2>5, <2>6, <2>7, <2>8
  <1>2. Inv /\ [Next]_vars
          => [\A s \in Shells : sh[s].viewer /\ sh'[s] # sh[s] => Harmless(s)]_vars
    BY <1>1
  <1> QED
    BY <1>2, Invariance, PTL DEF Spec, ViewersBeginNothing

\* A Backend that a user started is ended by no shell.
THEOREM ClisStay == Spec => NoShellEndsCli
  <1>1. ASSUME Inv, [Next]_vars, NEW b \in Backends,
               origin[b] \in Clis, phase[b] = "running", phase'[b] = "closing"
        PROVE  UNCHANGED sh
    <2>1. ~Desktop(b)
      BY <1>1, OwnershipAssumption DEF Desktop
    <2>2. \A t \in Shells : ~Resolve(t)
      <3> SUFFICES ASSUME NEW t \in Shells, Resolve(t) PROVE FALSE
        OBVIOUS
      <3>1. Knows(t, sh[t])
        BY <1>1 DEF Inv, Informed
      <3>2. CASE Ask(t)
        BY <1>1, <2>1, <3>1, <3>2
        DEF Ask, At, Finish, Enter, Knows, Connections, Inv, TypeOK
      <3>3. CASE Launch(t)
        BY <1>1, <3>3 DEF Launch, Spawn, Enter, backends, Inv, TypeOK
      <3> QED
        BY <1>1, <3>2, <3>3
        DEF Resolve, Start, Look, Connect, Await, AttachShell, Claim, Claimed, Wait, Lost, backends
    <2>3. \A t \in Shells : ~User(t)
      <3> SUFFICES ASSUME NEW t \in Shells, User(t) PROVE FALSE
        OBVIOUS
      <3>1. Knows(t, sh[t])
        BY <1>1 DEF Inv, Informed
      <3>2. CASE QuitAnswered(t)
        BY <1>1, <2>1, <3>1, <3>2
        DEF QuitAnswered, Finish, Enter, Knows, Connections, Inv, TypeOK
      <3> QED
        BY <1>1, <3>2 DEF User, Quit, RenewalRefused, Exit, backends
    <2>4. \A d \in Backends : Backend(d) => UNCHANGED sh
      BY DEF Backend, Acquire, Owned, Attach, Publish, Started, StartFails, Signal, Close,
             Crash, Expire, Retire
    <2> QED
      BY <1>1, <2>2, <2>3, <2>4 DEF Next, vars, StartFromCommandLine
  <1>2. Inv /\ [Next]_vars
          => [\A b \in Backends :
                origin[b] \in Clis /\ phase[b] = "running" /\ phase'[b] = "closing"
                  => UNCHANGED sh]_vars
    BY <1>1
  <1> QED
    BY <1>2, Invariance, PTL DEF Spec, NoShellEndsCli
=============================================================================
