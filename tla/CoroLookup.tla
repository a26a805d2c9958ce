----------------------------- MODULE CoroLookup -----------------------------
(***************************************************************************)
(* coro_lookup.cpp: the lookups, written down as in CoroInsert.            *)
(***************************************************************************)
EXTENDS Naturals, TreeNode

CONSTANTS
  NODE_COUNT,
  OperationCount     \* LOOKUP_COUNT

Nodes == 0 .. NODE_COUNT - 1
Operations == 0 .. OperationCount - 1

Node_Lookup_Normal == <<"match", "compare">>

Node_LookupCoroRead == <<"prefetch", "await", "match", "prefetch", "await", "compare">>

DoLookupNormal == <<FALSE>>

DoLookupCoroRead == <<FALSE, FALSE, FALSE>>

Coroutines == [scalar |-> Node_Lookup_Normal, coro_read |-> Node_LookupCoroRead]

Drivers == [scalar |-> DoLookupNormal, coro_read |-> DoLookupCoroRead]

\* Any node, and a key that every node has.
Tasks == [Operations -> [node : Nodes, key : Slots]]

\* Every slot is used, by the key of its number.
Initialize ==
  [head |-> Line(HeadLine({}, [s \in Slots |-> FingerprintHash(s)])),
   entries |-> [s \in Slots |-> Line(s)]]

CreateNodes == {[n \in Nodes |-> Initialize]}

\* What the results of the first i lookups must add up to (Validate).
Expected(operations, i) == MapThenSumSet(LAMBDA op : operations[op].key, 0 .. i - 1)
=============================================================================
