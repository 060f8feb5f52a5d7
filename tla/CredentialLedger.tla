--------------------------- MODULE CredentialLedger ---------------------------
(***************************************************************************)
(* What the record store promises its callers, with no locks, no files and *)
(* no crashes: one record and, for each managed Profile in it, one         *)
(* credential document.  Every step is one atomic change made to the       *)
(* current state.                                                          *)
(***************************************************************************)
EXTENDS ProfileRecord

CONSTANT Managed    \* the Profiles whose document Token owns

VARIABLES rec,      \* the record
          secret,   \* secret[i]: generation of i's document, 0 when there is none
          ever      \* every credential id a committed record has contained

vars == <<rec, secret, ever>>

Init == /\ rec = Absent
        /\ secret = [i \in Ids |-> 0]
        /\ ever = {}

\* A login creates a Profile under an id never seen before, and its document
\* appears with it.
Acquire(i) ==
  /\ i \notin ever
  /\ rec'.rev > rec.rev
  /\ rec' = [Appended(rec, i) EXCEPT !.rev = rec'.rev]
  /\ ever' = ever \cup {i}
  /\ (i \in Managed) <=> (secret'[i] > 0)
  /\ secret' = [secret EXCEPT ![i] = secret'[i]]

\* Management edits and 429 switches: never a document, except that the
\* document of a removed Profile is gone with it.
Edit ==
  /\ rec'.rev > rec.rev
  /\ \E r \in Edits(rec) : rec' = [r EXCEPT !.rev = rec'.rev]
  /\ secret' = [i \in Ids |-> IF i \in rec'.members THEN secret[i] ELSE 0]
  /\ UNCHANGED ever

\* A refresh replaces the document of an enabled Profile by a newer one.
Rotate(i) ==
  /\ i \in rec.enabled \cap Managed
  /\ secret'[i] > secret[i]
  /\ secret' = [secret EXCEPT ![i] = secret'[i]]
  /\ UNCHANGED <<rec, ever>>

Next == Edit \/ \E i \in Ids : Acquire(i) \/ Rotate(i)

Spec == Init /\ [][Next]_vars
=============================================================================
