---------------------------- MODULE ProfileRecord ----------------------------
(***************************************************************************)
(* The persisted credential record of one Provider, as the file            *)
(* provider-credentials/<provider>.json holds it, and the edits the        *)
(* profile authority makes to it.  Only what locking, crash safety and     *)
(* selection depend on is kept: which Profiles exist, which are enabled,   *)
(* which one is selected and the revision of the record.                   *)
(***************************************************************************)
EXTENDS Naturals

CONSTANTS Ids,      \* the credential ids that createId can produce
          NoId      \* activeCredentialId === undefined

ASSUME NoIdAssumption == NoId \notin Ids

Records == [rev : Nat, members : SUBSET Ids, enabled : SUBSET Ids,
            active : Ids \cup {NoId}]

\* No file yet: every reader substitutes NO_PROVIDER_RECORD_REVISION for it.
Absent == [rev |-> 0, members |-> {}, enabled |-> {}, active |-> NoId]

\* What validateRecord demands of a record that is read or about to be written.
ValidRecord(r) == /\ r.enabled \subseteq r.members
                  /\ r.active \in r.enabled \cup {NoId}

\* createInitialRecord and appendAcquiredProfile: the first Profile is selected.
Appended(r, i) == [r EXCEPT !.members = @ \cup {i},
                            !.enabled = @ \cup {i},
                            !.active  = IF r.members = {} THEN i ELSE @]

\* Mutant of Disabled: disabling leaves the selection alone.
DisabledStillSelected(r, i) == [r EXCEPT !.enabled = @ \ {i}]

\* setEnabled(false) and remove both call clearActive on the selected Profile.
Disabled(r, i) == [r EXCEPT !.enabled = @ \ {i},
                            !.active  = IF @ = i THEN NoId ELSE @]

Removed(r, i) == [Disabled(r, i) EXCEPT !.members = @ \ {i}]

Enabled(r, i) == [r EXCEPT !.enabled = @ \cup {i}]

Selected(r, i) == [r EXCEPT !.active = i]

\* The management edits of an existing record; r itself stands for the ones that
\* touch only names, notes, order or switch policy.  Without a record there is
\* nothing to manage: every mutation reports an unknown Profile.
Edits(r) == IF r.rev = 0 THEN {} ELSE
            {r} \cup {Removed(r, i)  : i \in r.members}
                \cup {Disabled(r, i) : i \in r.enabled}
                \cup {Enabled(r, i)  : i \in r.members \ r.enabled}
                \cup {Selected(r, i) : i \in r.enabled \ {r.active}}

\* The 429 switch of advanceAfterFinal429: selection only, from a selection.
Switches(r) == {Selected(r, i) : i \in IF r.active = NoId THEN {}
                                       ELSE r.enabled \ {r.active}}
=============================================================================
