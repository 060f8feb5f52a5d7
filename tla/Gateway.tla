-------------------------------- MODULE Gateway --------------------------------
(***************************************************************************)
(* What the model gateway promises its clients, with no commands, no       *)
(* supervisor and no teardown: one gate in front of the requests.  It      *)
(* admits while it is open, it opens only when nothing of an earlier life  *)
(* is left, and it is off only once its last request has unwound.          *)
(***************************************************************************)
CONSTANT Requests

VARIABLES gate,       \* "off", "open", "draining" or "closing"
          inflight    \* the requests admitted and not yet finished

vars == <<gate, inflight>>

Init == gate = "off" /\ inflight = {}

Open == /\ gate = "off" /\ gate' = "open"
        /\ UNCHANGED inflight

Admit(r) == /\ gate = "open" /\ r \notin inflight
            /\ inflight' = inflight \cup {r}
            /\ UNCHANGED gate

Settle(r) == /\ r \in inflight
             /\ inflight' = inflight \ {r}
             /\ UNCHANGED gate

\* A quit lets requests finish until the drain times out; anything else, and
\* the timeout, aborts them.
Drain == /\ gate = "open" /\ gate' = "draining"
         /\ UNCHANGED inflight

Abort == /\ gate \in {"open", "draining"} /\ gate' = "closing"
         /\ UNCHANGED inflight

Finish == /\ gate \in {"draining", "closing"} /\ inflight = {}
          /\ gate' = "off"
          /\ UNCHANGED inflight

Next == Open \/ Drain \/ Abort \/ Finish \/ \E r \in Requests : Admit(r) \/ Settle(r)

Spec == Init /\ [][Next]_vars
=============================================================================
