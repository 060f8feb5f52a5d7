--------------------------- MODULE DesktopOwnership ---------------------------
(***************************************************************************)
(* Who runs the one Backend of a user, and who may end it: the instance    *)
(* lock and the discovery file (instance-authority, control-plane-         *)
(* discovery), the ownership lease (desktop-owner-lease on both sides), the *)
(* start and the closing of a Backend (application), and the desktop       *)
(* shells that find, launch, replace, attach to and quit one               *)
(* (desktop-backend-connection, electron-app-lifecycle).                   *)
(*                                                                         *)
(* Every Backend is a process of its own, started once by a shell or by a  *)
(* user's command; it and every shell can die at any step.                 *)
(***************************************************************************)
EXTENDS FiniteSets

CONSTANTS Shells,      \* processes of the desktop shell, each started once
          Build,       \* Build[s]: the Backend build that s bundles
          Clis,        \* starts of a Backend from a command line
          Backends,    \* bound: the processes there can be
          None

ASSUME OwnershipAssumption ==
  /\ IsFiniteSet(Backends)
  /\ None \notin Backends \cup Shells \cup Clis /\ Shells \cap Clis = {}
  /\ "retired" \notin Shells

VARIABLES
  lock,        \* who holds the transaction on instance.sqlite
  descriptor,  \* whose endpoint control-plane.json holds
  origin,      \* per Backend: the shell or command that started it
  phase,       \* per Backend: how far its life has come
  lease,       \* per Backend: the shell that owns it, or "retired"
  stuck,       \* Backends whose retirement has failed: it is not tried again
  sh           \* per shell: its connection

vars == <<lock, descriptor, origin, phase, lease, stuck, sh>>
backends == <<lock, descriptor, origin, phase, lease, stuck>>

\* waiting, attaching: arbitration.  acquired, published: startup; the lifecycle
\* exists from running on.  closing, unpublished, closed: closeOwnedResources.
Phases == {"unused", "waiting", "attaching", "acquired", "published", "running",
           "closing", "unpublished", "closed", "gone"}

Connections ==
  [at : {"off", "look", "connect", "attach", "claim", "claimed", "ask", "await",
         "launch", "wait", "rest", "gone"},
   target : Backends \cup {None},    \* the endpoint it has read
   client : Backends \cup {None},    \* the Backend its session is with
   spawned : Backends \cup {None},   \* its candidate
   reconnecting : BOOLEAN,
   last : BOOLEAN,                   \* the look after its candidate has exited
   viewer : BOOLEAN,                 \* recoveryEnabled is false
   bound : BOOLEAN,                  \* it has a renewal timer: isBound()
   quits : Backends \cup {None}]     \* whom its user's Quit has asked

TypeOK ==
  /\ lock \in Backends \cup {None} /\ descriptor \in Backends \cup {None}
  /\ origin \in [Backends -> Shells \cup Clis \cup {None}]
  /\ phase \in [Backends -> Phases]
  /\ lease \in [Backends -> Shells \cup {None, "retired"}]
  /\ stuck \subseteq Backends /\ sh \in [Shells -> Connections]
  /\ \A s \in Shells :
       /\ sh[s].at = "wait" => sh[s].spawned # None
       /\ sh[s].at \in {"ask", "await", "attach", "claim", "claimed"} => sh[s].client # None

Init ==
  /\ lock = None /\ descriptor = None /\ stuck = {}
  /\ origin = [b \in Backends |-> None] /\ phase = [b \in Backends |-> "unused"]
  /\ lease = [b \in Backends |-> None]
  /\ sh = [s \in Shells |->
       [at |-> "off", target |-> None, client |-> None, spawned |-> None,
        reconnecting |-> FALSE, last |-> FALSE, viewer |-> FALSE, bound |-> FALSE,
        quits |-> None]]

\* Its Control Plane answers.
Up(b) == b # None /\ phase[b] \in {"published", "running", "closing", "unpublished"}
Alive(b) == phase[b] \notin {"unused", "gone"}
Desktop(b) == origin[b] \in Shells
Enter(b, p) == phase' = [phase EXCEPT ![b] = p]

\* A process that is gone takes its lease with it.
Forget(b) == lease' = [lease EXCEPT ![b] = None] /\ stuck' = stuck \ {b}

-----------------------------------------------------------------------------
\* A Backend starts: acquireInstanceAuthorityOrAttach, then startNormalApplication.
Spawn(b, o) ==
  /\ phase[b] = "unused" /\ b = CHOOSE c \in Backends : phase[c] = "unused"
  /\ Enter(b, "waiting") /\ origin' = [origin EXCEPT ![b] = o]
  /\ UNCHANGED <<lock, descriptor, lease, stuck>>

StartFromCommandLine(b, c) ==
  /\ \A d \in Backends : origin[d] # c
  /\ Spawn(b, c) /\ UNCHANGED sh

\* A mutant of Acquire: BEGIN without IMMEDIATE takes no lock yet.
AcquireDeferred(b) ==
  /\ phase[b] = "waiting" /\ Enter(b, "acquired") /\ lock' = b
  /\ UNCHANGED <<descriptor, origin, lease, stuck, sh>>

Acquire(b) ==
  /\ phase[b] = "waiting" /\ lock = None /\ Enter(b, "acquired") /\ lock' = b
  /\ UNCHANGED <<descriptor, origin, lease, stuck, sh>>

Owned(b) ==
  /\ phase[b] = "waiting" /\ lock # None /\ Enter(b, "attaching")
  /\ UNCHANGED <<lock, descriptor, origin, lease, stuck, sh>>

\* It attaches to the active Backend and is done, or tries again, or gives up.
Attach(b) ==
  /\ phase[b] = "attaching"
  /\ \/ Up(descriptor) /\ Enter(b, "gone")
     \/ ~Up(descriptor) /\ (Enter(b, "waiting") \/ Enter(b, "gone"))
  /\ UNCHANGED <<lock, descriptor, origin, lease, stuck, sh>>

Publish(b) ==
  /\ phase[b] = "acquired" /\ Enter(b, "published") /\ descriptor' = b
  /\ UNCHANGED <<lock, origin, lease, stuck, sh>>

Started(b) ==
  /\ phase[b] = "published" /\ Enter(b, "running")
  /\ UNCHANGED <<lock, descriptor, origin, lease, stuck, sh>>

StartFails(b) ==
  /\ phase[b] \in {"acquired", "published"} /\ Enter(b, "closing")
  /\ UNCHANGED <<lock, descriptor, origin, lease, stuck, sh>>

-----------------------------------------------------------------------------
\* It ends.  finish before there is a lifecycle, or a second one, does nothing.
Finish(b) == IF phase[b] = "running" THEN Enter(b, "closing") ELSE UNCHANGED phase

Signal(b) ==
  /\ phase[b] = "running" /\ Enter(b, "closing")
  /\ UNCHANGED <<lock, descriptor, origin, lease, stuck, sh>>

\* A mutant of Releases: the lock is the first resource that is closed.
ReleasesFirst(b) == phase[b] = "closing"

\* The lock is the last resource that is closed.
Releases(b) == phase[b] = "closed"

Close(b) ==
  /\ phase[b] \in {"closing", "unpublished", "closed"}
  /\ Enter(b, CASE phase[b] = "closing" -> "unpublished"
                [] phase[b] = "unpublished" -> "closed"
                [] phase[b] = "closed" -> "gone")
  /\ lock' = IF Releases(b) THEN None ELSE lock
  /\ \/ phase[b] = "closing" /\ descriptor = b /\ descriptor' = None
     \/ UNCHANGED descriptor
  /\ IF phase[b] = "closed" THEN Forget(b) ELSE UNCHANGED <<lease, stuck>>
  /\ UNCHANGED <<origin, sh>>

\* The operating system ends the transaction of a process that died.
Crash(b) ==
  /\ Alive(b) /\ Enter(b, "gone") /\ Forget(b) /\ lock' = IF lock = b THEN None ELSE lock
  /\ UNCHANGED <<descriptor, origin, sh>>

\* A mutant of Expires: no deadline runs before the first claim.
ExpiresOnceClaimed(b) == lease[b] \in Shells

Expires(b) == lease[b] # "retired"

\* expireIfNeeded: no claim or renewal for the time to live.
Expire(b) ==
  /\ phase[b] = "running" /\ Desktop(b) /\ Expires(b)
  /\ lease' = [lease EXCEPT ![b] = "retired"]
  /\ UNCHANGED <<lock, descriptor, origin, phase, stuck, sh>>

\* onExpired, which rejects when the agents cannot be restored.
Retire(b) ==
  /\ phase[b] = "running" /\ lease[b] = "retired" /\ b \notin stuck
  /\ \/ Finish(b) /\ UNCHANGED stuck
     \/ stuck' = stuck \cup {b} /\ UNCHANGED phase
  /\ UNCHANGED <<lock, descriptor, origin, lease, sh>>

-----------------------------------------------------------------------------
\* A shell connects: resolveConnection and connectEndpoint.
Becomes(s, c) == sh' = [sh EXCEPT ![s] = c]
At(s, p) == sh[s].at = p

\* A mutant of Foreign: whoever started it.
ForeignBuild(s, b) == origin[b] \notin Shells \/ Build[origin[b]] # Build[s]

\* A desktop Backend of another build.
Foreign(s, b) == origin[b] \in Shells /\ Build[origin[b]] # Build[s]

\* No connection: a candidate is launched if there is none, but not at once
\* after one has exited.
Retry(c) ==
  [c EXCEPT !.at = IF c.last THEN "look" ELSE IF c.spawned = None THEN "launch" ELSE "wait",
            !.last = FALSE]
Done(c) ==
  [c EXCEPT !.at = "rest", !.last = FALSE, !.spawned = None, !.reconnecting = FALSE]

Start(s) ==
  /\ At(s, "off") /\ Becomes(s, [sh[s] EXCEPT !.at = "look"])
  /\ UNCHANGED backends

Look(s) ==
  /\ At(s, "look")
  /\ Becomes(s, IF descriptor = None THEN Retry(sh[s])
                ELSE [sh[s] EXCEPT !.target = descriptor, !.at = "connect"])
  /\ UNCHANGED backends

\* A new shell replaces a Backend of another build; one that lost its Backend does not.
Connect(s) ==
  /\ At(s, "connect")
  /\ LET b == sh[s].target
         replace == Foreign(s, b) /\ ~sh[s].reconnecting
         c == [sh[s] EXCEPT !.target = None] IN
       Becomes(s, IF Up(b) THEN [c EXCEPT !.client = b,
                                          !.at = IF replace THEN "ask" ELSE "attach"]
                  ELSE Retry([c EXCEPT !.client = None]))
  /\ UNCHANGED backends

\* quit, to a stale Backend: it is done, or refused, or nobody answers.
Ask(s) ==
  /\ At(s, "ask")
  /\ \/ /\ Up(sh[s].client) /\ Finish(sh[s].client)
        /\ Becomes(s, [sh[s] EXCEPT !.at = "await"])
     \/ UNCHANGED phase /\ Becomes(s, Done(sh[s]))
  /\ UNCHANGED <<lock, descriptor, origin, lease, stuck>>

\* waitForStaleBackendExit, with a timeout.
Await(s) ==
  /\ At(s, "await")
  /\ Becomes(s, IF Up(sh[s].client) THEN Done(sh[s]) ELSE Retry(sh[s]))
  /\ UNCHANGED backends

\* A mutant of Handoff: the renewal timer goes on.
HandoffBound(c) == [Done(c) EXCEPT !.viewer = TRUE]

\* Another build has taken over: from now on this shell only watches.
Handoff(c) == [Done(c) EXCEPT !.viewer = TRUE, !.bound = FALSE]

\* A mutant of Attached: whoever's Backend it is, the shell claims it.
AttachedAlways(s, c) ==
  IF Desktop(c.client) THEN [c EXCEPT !.bound = FALSE, !.at = "claim"]
  ELSE Done([c EXCEPT !.bound = FALSE])

Attached(s, c) ==
  IF Foreign(s, c.client) THEN Handoff(c)
  ELSE IF Desktop(c.client) THEN [c EXCEPT !.bound = FALSE, !.at = "claim"]
  ELSE Done([c EXCEPT !.bound = FALSE])

AttachShell(s) ==
  /\ At(s, "attach")
  /\ Becomes(s, IF Up(sh[s].client) THEN Attached(s, sh[s]) ELSE Retry(sh[s]))
  /\ UNCHANGED backends

\* The Backend takes the claim, unless it has retired.
Claim(s) ==
  /\ At(s, "claim")
  /\ LET b == sh[s].client IN
       IF Up(b) /\ lease[b] # "retired"
       THEN lease' = [lease EXCEPT ![b] = s] /\ Becomes(s, [sh[s] EXCEPT !.at = "claimed"])
       ELSE UNCHANGED lease /\ Becomes(s, Retry(sh[s]))
  /\ UNCHANGED <<lock, descriptor, origin, phase, stuck>>

\* Its answer arrives, or does not.
Claimed(s) ==
  /\ At(s, "claimed")
  /\ Becomes(s, IF Up(sh[s].client) THEN Done([sh[s] EXCEPT !.bound = TRUE]) ELSE Retry(sh[s]))
  /\ UNCHANGED backends

Launch(s) ==
  /\ At(s, "launch")
  /\ \/ \E b \in Backends :
          Spawn(b, s) /\ Becomes(s, [sh[s] EXCEPT !.spawned = b, !.at = "wait"])
     \/ UNCHANGED backends /\ Becomes(s, [sh[s] EXCEPT !.at = "look"])

Wait(s) ==
  /\ At(s, "wait")
  /\ Becomes(s, IF phase[sh[s].spawned] = "gone"
                THEN [sh[s] EXCEPT !.spawned = None, !.last = TRUE, !.at = "look"]
                ELSE [sh[s] EXCEPT !.at = "look"])
  /\ UNCHANGED backends

-----------------------------------------------------------------------------
\* The session breaks off; ensureConnection, unless the shell only watches.
Lost(s) ==
  /\ At(s, "rest") /\ sh[s].client # None /\ ~Up(sh[s].client)
  /\ Becomes(s, IF sh[s].viewer THEN [sh[s] EXCEPT !.client = None]
                ELSE [sh[s] EXCEPT !.client = None, !.reconnecting = TRUE, !.at = "look"])
  /\ UNCHANGED backends

\* A renewal is refused; one that succeeds or cannot be sent changes nothing here.
RenewalRefused(s) ==
  /\ sh[s].bound /\ Up(sh[s].client) /\ lease[sh[s].client] # s
  /\ Becomes(s, [sh[s] EXCEPT !.bound = FALSE])
  /\ UNCHANGED backends

\* The process ends: it crashes, or hands over to a shell of another build.
Ended(c) ==
  [c EXCEPT !.at = "gone", !.target = None, !.client = None, !.spawned = None,
            !.reconnecting = FALSE, !.last = FALSE, !.viewer = FALSE, !.bound = FALSE,
            !.quits = None]

Exit(s) == ~At(s, "off") /\ ~At(s, "gone") /\ Becomes(s, Ended(sh[s])) /\ UNCHANGED backends

\* quitTokenProduct: only the owner's Quit ends a desktop Backend.
Quit(s) ==
  /\ sh[s].quits = None /\ sh[s].client # None
  /\ Becomes(s, IF Desktop(sh[s].client) /\ sh[s].bound
                THEN [sh[s] EXCEPT !.quits = sh[s].client] ELSE Ended(sh[s]))
  /\ UNCHANGED backends

\* The Backend has drained; or refused, or its connection was lost.
QuitAnswered(s) ==
  /\ sh[s].quits # None
  /\ \/ /\ sh[s].quits = sh[s].client /\ Up(sh[s].client)
        /\ Finish(sh[s].client) /\ Becomes(s, Ended(sh[s]))
     \/ UNCHANGED phase /\ Becomes(s, [sh[s] EXCEPT !.quits = None])
  /\ UNCHANGED <<lock, descriptor, origin, lease, stuck>>

Backend(b) ==
  \/ Acquire(b) \/ Owned(b) \/ Attach(b) \/ Publish(b) \/ Started(b) \/ StartFails(b)
  \/ Signal(b) \/ Close(b) \/ Crash(b) \/ Expire(b) \/ Retire(b)

Resolve(s) ==
  \/ Start(s) \/ Look(s) \/ Connect(s) \/ Ask(s) \/ Await(s) \/ AttachShell(s)
  \/ Claim(s) \/ Claimed(s) \/ Launch(s) \/ Wait(s) \/ Lost(s)

User(s) == Quit(s) \/ QuitAnswered(s) \/ RenewalRefused(s) \/ Exit(s)

Next ==
  \/ \E b \in Backends : Backend(b) \/ \E c \in Clis : StartFromCommandLine(b, c)
  \/ \E s \in Shells : Resolve(s) \/ User(s)

Spec == Init /\ [][Next]_vars

\* Nobody renews the lease of b any more.
Deserted(b) == \A s \in Shells : lease[b] = s => sh[s].at = "gone"

\* A Backend goes on with its own start and end; its lease runs out, at the
\* latest, when its owner is gone.
FairSpec ==
  /\ Spec
  /\ \A b \in Backends :
       /\ WF_vars(Publish(b)) /\ WF_vars(Started(b)) /\ WF_vars(Close(b))
       /\ WF_vars(Deserted(b) /\ Expire(b)) /\ WF_vars(Retire(b))

-----------------------------------------------------------------------------
\* The user has one Backend: no two answer at a time, whoever starts, closes or dies.
OneBackendServes == \A b, c \in Backends : Up(b) /\ Up(c) => b = c

\* Whoever serves can be found: the discovery file names it until it closes.
ServerIsDiscoverable ==
  \A b \in Backends : phase[b] \in {"published", "running"} => descriptor = b

\* A shell owns only Backends of its own build, never one a user started.
LeaseIsOfOwnBuild ==
  \A b \in Backends : lease[b] \in Shells => Desktop(b) /\ Build[origin[b]] = Build[lease[b]]

\* Every variable has its type, and every lease the owner it should have.
LeaseConsistent == TypeOK /\ LeaseIsOfOwnBuild

\* A shell that another build has replaced begins nothing: it takes no lease back,
\* launches no Backend and asks none to quit.  What it can still do to a Backend
\* is what a Quit from before the handoff, not answered yet, does to its own.
ViewersBeginNothing ==
  [][\A s \in Shells : sh[s].viewer /\ sh'[s] # sh[s] =>
       /\ UNCHANGED <<lock, descriptor, origin, lease, stuck>>
       /\ sh'[s].quits \in {None, sh[s].quits}
       /\ \A b \in Backends \ {sh[s].quits} : phase'[b] = phase[b]]_vars

\* "A shell that recovered onto a different desktop build is only a viewer. It must
\* never use the other shell's Backend ownership to perform Product Quit."
ViewersEndNothing ==
  [][\A s \in Shells : sh[s].viewer /\ sh'[s] # sh[s] => UNCHANGED backends]_vars

\* A Backend that a user started from the command line is not ended by a shell.
NoShellEndsCli ==
  [][\A b \in Backends :
       origin[b] \in Clis /\ phase[b] = "running" /\ phase'[b] = "closing" => UNCHANGED sh]_vars

\* A desktop Backend does not outlive its shells, not even one whose shell died
\* before it could claim it.  One whose retirement has failed (stuck) is excepted:
\* the code does not try again, and such a Backend does live on without an owner.
OrphansRetire ==
  \A b \in Backends :
    Desktop(b) /\ phase[b] \in {"acquired", "published", "running"}
      /\ (\A s \in Shells : At(s, "gone"))
      ~> phase[b] = "gone" \/ b \in stuck
=============================================================================
