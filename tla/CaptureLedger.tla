---------------------------- MODULE CaptureLedger ----------------------------
(***************************************************************************)
(* What the backup queue promises of a capture request: it is accepted at  *)
(* most once and only while the queue is open, taken by a worker, and then *)
(* settled, once; a request that no worker takes is settled by the         *)
(* shutdown; and the queue is down only when no request is left.           *)
(***************************************************************************)
CONSTANT Requests

VARIABLES stage, phase

vars == <<stage, phase>>

Init ==
  /\ stage = [r \in Requests |-> "new"]
  /\ phase = "open"

Move(r, from, to) ==
  /\ stage[r] = from
  /\ stage' = [stage EXCEPT ![r] = to]
  /\ UNCHANGED phase

Accept(r)  == phase = "open" /\ Move(r, "new", "queued")
Take(r)    == phase # "down" /\ Move(r, "queued", "taken")
Settle(r)  == phase # "down" /\ Move(r, "taken", "settled")
Discard(r) == phase = "closed" /\ Move(r, "queued", "settled")

Close == phase = "open" /\ phase' = "closed" /\ UNCHANGED stage

ShutDown ==
  /\ phase = "closed"
  /\ \A r \in Requests : stage[r] \in {"new", "settled"}
  /\ phase' = "down"
  /\ UNCHANGED stage

Next ==
  \/ \E r \in Requests : Accept(r) \/ Take(r) \/ Settle(r) \/ Discard(r)
  \/ Close
  \/ ShutDown

Spec == Init /\ [][Next]_vars

==============================================================================
