--------------------------- MODULE ProfileSwitching ---------------------------
(***************************************************************************)
(* Requests that run under a Credential Profile, and the selection they    *)
(* share with the user (credentials/profile-authority.ts and               *)
(* credentials/profile-bound-pi-execution.ts).  A request captures the     *)
(* selected Profile, and after a final 429 may move the selection to the   *)
(* next eligible Profile and try again.  Meanwhile the user manages        *)
(* Profiles, and other requests move the selection too.                    *)
(*                                                                         *)
(* Every change of the record is one step: ProfileRecordStore shows that   *)
(* the store's commits are.                                                *)
(***************************************************************************)
EXTENDS Naturals, FiniteSets, Sequences, SequencesExt

CONSTANTS Ids, NoId,      \* credential ids; no active credential
          NoGen,          \* the generation of an absent record
          Kind,           \* Kind[i]: authTypeFor i's acquisition kind
          Requests,
          Gens,           \* selection generations createId can produce
          MaxAttempts     \* MAX_PROFILE_ATTEMPTS_PER_REQUEST

Kinds == {"api_key", "oauth"}

ASSUME SwitchingAssumption ==
  /\ NoId \notin Ids /\ NoGen \notin Gens /\ Kind \in [Ids -> Kinds]
  /\ MaxAttempts \in Nat \ {0}
  /\ IsFiniteSet(Requests) /\ IsFiniteSet(Gens)
  /\ Cardinality(Gens) > Cardinality(Requests) + 1

VARIABLES
  profiles,   \* the credential ids of profiles[], in order
  enabled,    \* those whose enabled flag is set
  active,     \* activeCredentialId
  gen,        \* selectionGeneration
  policy,     \* switchPolicy, per auth type
  used,       \* ids that logins have drawn; createId never repeats one
  cooling,    \* ids whose cooldown deadline lies ahead
  pc,         \* per request: "idle", "bound", "sent" or "limited"
  bind,       \* per request: the captured facts [id, gen]
  tried,      \* per request: the ids it has sent under, in order
  overtaken,  \* history: requests the user has changed the selection on
  spent       \* history: whether a 429 has come back under the selection

record == <<profiles, enabled, active, gen, policy, used>>
requests == <<pc, bind, tried>>
history == <<overtaken, spent>>
vars == <<record, cooling, requests, history>>

Members == ToSet(profiles)
NoBinding == [id |-> NoId, gen |-> NoGen]

TypeOK ==
  /\ profiles \in Seq(Ids) /\ enabled \subseteq Ids /\ active \in Ids \cup {NoId}
  /\ gen \in Gens \cup {NoGen} /\ policy \in [Kinds -> BOOLEAN]
  /\ used \subseteq Ids /\ cooling \subseteq Ids
  /\ pc \in [Requests -> {"idle", "bound", "sent", "limited"}]
  /\ bind \in [Requests -> [id : Ids \cup {NoId}, gen : Gens \cup {NoGen}]]
  /\ tried \in [Requests -> Seq(Ids)]
  /\ overtaken \subseteq Requests /\ spent \in BOOLEAN

Init ==
  /\ profiles = <<>> /\ enabled = {} /\ active = NoId
  /\ gen = NoGen /\ policy = [k \in Kinds |-> FALSE]
  /\ used = {} /\ cooling = {}
  /\ pc = [r \in Requests |-> "idle"]
  /\ bind = [r \in Requests |-> NoBinding]
  /\ tried = [r \in Requests |-> <<>>]
  /\ overtaken = {} /\ spent = FALSE

-----------------------------------------------------------------------------
\* createId: a generation that neither the record nor any binding still names.
FreshGens == Gens \ ({gen} \cup {bind[r].gen : r \in Requests})

Reselect(i) == active' = i /\ gen' \in FreshGens /\ spent' = FALSE
KeepSelection == UNCHANGED <<active, gen, spent>>

\* The requests in flight have been overtaken by a choice of the user's.
UserReselects(i) ==
  /\ Reselect(i)
  /\ overtaken' = {r \in Requests : pc[r] \in {"bound", "sent", "limited"}}
UserKeepsSelection == KeepSelection /\ UNCHANGED overtaken

\* Mutant of ClearIfActive: the selection is left where it was.
NeverClear(i) == UserKeepsSelection

\* Disabling or removing the selected Profile clears the selection.
ClearIfActive(i) ==
  IF active = i THEN UserReselects(NoId) ELSE UserKeepsSelection

-----------------------------------------------------------------------------
\* The user's operations, each under the management guard.
Acquire(i) ==
  /\ i \notin used
  /\ used' = used \cup {i}
  /\ profiles' = Append(profiles, i) /\ enabled' = enabled \cup {i}
  /\ IF profiles = <<>> THEN UserReselects(i) ELSE UserKeepsSelection
  /\ UNCHANGED <<policy, cooling, requests>>

Activate(i) ==
  /\ i \in enabled /\ i # active
  /\ UserReselects(i)
  /\ UNCHANGED <<profiles, enabled, policy, used, cooling, requests>>

Enable(i) ==
  /\ i \in Members \ enabled
  /\ enabled' = enabled \cup {i}
  /\ UNCHANGED <<profiles, active, gen, policy, used, cooling, requests, history>>

Disable(i) ==
  /\ i \in enabled
  /\ enabled' = enabled \ {i}
  /\ ClearIfActive(i)
  /\ UNCHANGED <<profiles, policy, used, cooling, requests>>

RemoveProfile(i) ==
  /\ \E k \in DOMAIN profiles : profiles[k] = i /\ profiles' = RemoveAt(profiles, k)
  /\ enabled' = enabled \ {i}
  /\ cooling' = cooling \ {i}
  /\ ClearIfActive(i)
  /\ UNCHANGED <<policy, used, requests>>

Reorder ==
  /\ profiles' \in SetToSeqs(Members) \ {profiles}
  /\ UNCHANGED <<enabled, active, gen, policy, used, cooling, requests, history>>

SetSwitchPolicy(k) ==
  /\ gen # NoGen
  /\ policy' = [policy EXCEPT ![k] = ~@]
  /\ UNCHANGED <<profiles, enabled, active, gen, used, cooling, requests, history>>

User == \/ \E i \in Ids : Acquire(i) \/ Activate(i) \/ Enable(i) \/ Disable(i) \/ RemoveProfile(i)
        \/ Reorder
        \/ \E k \in {Kind[i] : i \in Ids} : SetSwitchPolicy(k)

-----------------------------------------------------------------------------
\* A request.  The record is read without a lock, at one instant.
Goto(r, label) == pc' = [pc EXCEPT ![r] = label]

Bound(r, i, g) == bind' = [bind EXCEPT ![r] = [id |-> i, gen |-> g]]

\* Mutant of IsCurrent: only the Profile is compared, not the generation.
SameProfile(r) == bind[r].id = active

\* Mutant of IsCurrent: the latest record is used whatever was captured.
AlwaysCurrent(r) == active # NoId

IsCurrent(r) == bind[r].gen = gen /\ bind[r].id = active

Finish(r) == /\ Goto(r, "idle") /\ Bound(r, NoId, NoGen)
             /\ tried' = [tried EXCEPT ![r] = <<>>]

\* With no Profiles a request runs unbound and never switches, with Profiles
\* but no selection it fails at once: neither is a request of this module.
Capture(r) ==
  /\ pc[r] = "idle"
  /\ active # NoId
  /\ Goto(r, "bound") /\ Bound(r, active, gen)
  /\ overtaken' = overtaken \ {r}
  /\ UNCHANGED <<record, cooling, tried, spent>>

\* The bound credential is resolved when it is needed.
Resolve(r) ==
  /\ pc[r] = "bound" /\ bind[r].id \in enabled
  /\ Goto(r, "sent")
  /\ tried' = [tried EXCEPT ![r] = Append(@, bind[r].id)]
  /\ UNCHANGED <<record, cooling, bind, history>>

\* Its Profile has been disabled or removed, or it cannot be read: fail closed.
FailClosed(r) ==
  /\ pc[r] = "bound"
  /\ Finish(r)
  /\ UNCHANGED <<record, cooling, history>>

\* Success, or any failure other than a final 429.
Answer(r) ==
  /\ pc[r] = "sent"
  /\ Finish(r)
  /\ UNCHANGED <<record, cooling, history>>

\* Mutant of Answer429: the attempts are counted before this one is.
Answer429Late(r) ==
  /\ pc[r] = "sent"
  /\ IF Len(tried[r]) > MaxAttempts THEN Finish(r)
     ELSE Goto(r, "limited") /\ UNCHANGED <<bind, tried>>
  /\ spent' = (spent \/ IsCurrent(r))
  /\ UNCHANGED <<record, cooling, overtaken>>

\* A final 429.  The last permitted attempt ends the request at once.
Answer429(r) ==
  /\ pc[r] = "sent"
  /\ IF Len(tried[r]) >= MaxAttempts THEN Finish(r)
     ELSE Goto(r, "limited") /\ UNCHANGED <<bind, tried>>
  /\ spent' = (spent \/ IsCurrent(r))
  /\ UNCHANGED <<record, cooling, overtaken>>

-----------------------------------------------------------------------------
\* advanceAfterFinal429, under the selection lock.
SwitchAllowed(r) == policy[Kind[bind[r].id]]

Eligible(r) == {i \in enabled \ (ToSet(tried[r]) \cup cooling) : Kind[i] = Kind[bind[r].id]}

\* The first eligible Profile in the user's order.
Target(r) == SelectInSeq(profiles, LAMBDA i : i \in Eligible(r))

\* A retry-after of at most a day is remembered.
Cool(r) == cooling' \in {cooling, cooling \cup {bind[r].id}}

CommitSwitch(r) ==
  /\ pc[r] = "limited" /\ IsCurrent(r) /\ SwitchAllowed(r) /\ Target(r) # 0
  /\ Reselect(profiles[Target(r)]) /\ Cool(r)
  /\ UNCHANGED <<profiles, enabled, policy, used, overtaken>>

Switch(r) ==
  /\ CommitSwitch(r)
  /\ Goto(r, "bound") /\ Bound(r, active', gen') /\ UNCHANGED tried

\* The switch is committed, but its lock was lost or its facts could not be read.
SwitchLost(r) == CommitSwitch(r) /\ Finish(r)

\* The record could not be read or written: nothing has changed.
StorageFails(r) ==
  /\ pc[r] = "limited"
  /\ Finish(r)
  /\ UNCHANGED <<record, cooling, history>>

\* Policy off, or nobody left: the 429 goes to the client.
GiveUp(r) ==
  /\ pc[r] = "limited" /\ IsCurrent(r)
  /\ ~SwitchAllowed(r) \/ Target(r) = 0
  /\ Cool(r) /\ Finish(r)
  /\ UNCHANGED <<record, history>>

\* Mutant of StaleBinding: the request captures afresh and tries again.
StaleRetries(r) ==
  /\ pc[r] = "limited" /\ ~IsCurrent(r) /\ active # NoId
  /\ Goto(r, "bound") /\ Bound(r, active, gen) /\ tried' = [tried EXCEPT ![r] = <<>>]
  /\ UNCHANGED <<record, cooling, history>>

\* The selection has changed since the capture: so does this 429, uncooled.
StaleBinding(r) ==
  /\ pc[r] = "limited" /\ ~IsCurrent(r)
  /\ Finish(r)
  /\ UNCHANGED <<record, cooling, history>>

Step(r) == \/ Resolve(r) \/ FailClosed(r) \/ Answer(r) \/ Answer429(r)
           \/ Switch(r) \/ SwitchLost(r) \/ GiveUp(r) \/ StaleBinding(r) \/ StorageFails(r)

Thaw(i) ==
  /\ i \in cooling /\ cooling' = cooling \ {i}
  /\ UNCHANGED <<record, requests, history>>

Next == \/ User
        \/ \E r \in Requests : Capture(r) \/ Step(r)
        \/ \E i \in Ids : Thaw(i)

Spec == Init /\ [][Next]_vars

-----------------------------------------------------------------------------
\* The record never has to be refused by validateRecord: ids are distinct, the
\* enabled ones exist and the selected one is enabled.
SelectionIsValid ==
  /\ IsInjective(profiles) /\ enabled \subseteq Members
  /\ active \in enabled \cup {NoId}

\* Every variable has its type, and the record in it is a valid one.
SelectionConsistent == TypeOK /\ SelectionIsValid

\* The selection moves in a step of request r.
Moves(r) == gen' # gen /\ pc[r] = "limited" /\ pc'[r] # "limited"

\* Once the user has changed the selection, no request that captured before
\* may move it: not even when the user came back to the Profile it captured.
UserChoiceStands ==
  [][\A r \in Requests : Moves(r) => r \notin overtaken]_vars

\* The selection leaves a Profile only after a 429 under that very selection:
\* requests that were limited together move it once, not once each.
SwitchHasCause ==
  [][(\E r \in Requests : Moves(r)) => spent]_vars

\* A request never sends twice under one Profile, nor more often than it may.
AttemptsAreDistinct ==
  \A r \in Requests : IsInjective(tried[r]) /\ Len(tried[r]) <= MaxAttempts

\* How far a request is from its end: three for each attempt it has left, and
\* its place in the present one.
Left(r) == MaxAttempts - Len(tried[r])

Rank(r) == CASE pc[r] = "idle" -> 0
             [] pc[r] = "limited" -> 1 + 3 * Left(r) + 1
             [] pc[r] = "sent" -> 1 + 3 * Left(r) + 2
             [] pc[r] = "bound" -> 1 + 3 * Left(r)

\* The retry loop ends: whatever a running request does brings it nearer its end,
\* and nothing that the user or another request does, who may add, enable,
\* select and reorder Profiles for ever, takes it further away.
RequestsCountDown ==
  [][\A r \in Requests : pc[r] # "idle" => /\ Rank(r) \in Nat /\ Rank(r)' <= Rank(r)
                                           /\ Step(r) => Rank(r)' < Rank(r)]_vars
=============================================================================
