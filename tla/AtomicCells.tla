---------------------------- MODULE AtomicCells ----------------------------
(***************************************************************************)
(* What a scheme for updating entries in place promises: the entries are   *)
(* updated one at a time, a power failure leaves each of them as it was    *)
(* before or after the update on its way, and DoUpdate returns only when   *)
(* its update is safe.                                                     *)
(***************************************************************************)
EXTENDS Naturals, Sequences

VARIABLES
  acked,     \* per entry, the last update whose DoUpdate has returned
  pending,   \* the update on its way: <<>> or <<entry, payload>>
  durable    \* per entry, what a power failure leaves

cvars == <<acked, pending, durable>>

Init == pending = <<>> /\ durable = acked

Updated(cells) == [cells EXCEPT ![pending[1]] = pending[2]]

Begin ==
  /\ pending = <<>>
  /\ pending' # <<>>
  /\ UNCHANGED <<acked, durable>>

Commit ==
  /\ pending # <<>>
  /\ durable' = Updated(durable)
  /\ UNCHANGED <<acked, pending>>

\* Possibly with the step that makes the update durable.
Return ==
  /\ pending # <<>>
  /\ durable' = Updated(durable)
  /\ acked' = Updated(acked)
  /\ pending' = <<>>

Next == Begin \/ Commit \/ Return

Spec == Init /\ [][Next]_cvars
=============================================================================
