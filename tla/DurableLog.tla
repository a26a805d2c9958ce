----------------------------- MODULE DurableLog ----------------------------
(***************************************************************************)
(* What every log writer promises: entries are appended one at a time; a   *)
(* power failure leaves either all that was appended before, or that and   *)
(* the entry on its way; AddLogEntry returns only when its entry is safe.  *)
(***************************************************************************)
EXTENDS Naturals, Sequences

VARIABLES
  acked,     \* the entries whose AddLogEntry has returned
  pending,   \* the entry being added: <<>> or <<e>>
  durable    \* the entries a power failure leaves

dvars == <<acked, pending, durable>>

Init == acked = <<>> /\ pending = <<>> /\ durable = <<>>

\* Whatever entry is asked for.
Begin ==
  /\ pending = <<>>
  /\ Len(pending') = 1
  /\ UNCHANGED <<acked, durable>>

Commit ==
  /\ pending # <<>>
  /\ durable' = acked \o pending
  /\ UNCHANGED <<acked, pending>>

Return ==
  /\ pending # <<>>
  /\ durable = acked \o pending
  /\ acked' = durable
  /\ pending' = <<>>
  /\ UNCHANGED durable

\* A writer whose last step makes the entry durable.
CommitAndReturn ==
  /\ pending # <<>>
  /\ durable' = acked \o pending
  /\ acked' = durable'
  /\ pending' = <<>>

Next == Begin \/ Commit \/ Return \/ CommitAndReturn

Spec == Init /\ [][Next]_dvars
=============================================================================
