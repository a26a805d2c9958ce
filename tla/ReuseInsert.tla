---------------------------- MODULE ReuseInsert ----------------------------
(***************************************************************************)
(* reuse.cpp: the inserts of coro_insert.cpp on nodes that need not begin  *)
(* at a cache line.  What differs: every style that awaits awaits its      *)
(* prefetches too, Initialize sets free_bits, and a full node is "reset"   *)
(* with the bits of a full node.                                           *)
(***************************************************************************)
EXTENDS Naturals, TreeNode

CONSTANTS
  NODE_COUNT,
  GROUP_SIZE,
  OperationCount,    \* INSERT_COUNT
  Initial            \* the entries Initialize leaves

Nodes == 0 .. NODE_COUNT - 1
Operations == 0 .. OperationCount - 1

Node_Insert_Normal == <<"choose", "store", "fence", "use", "fence">>

Node_InsertCoroFull ==
  <<"prefetch", "await", "choose", "prefetch", "await", "store", "await", "use">>

Node_InsertCoroRead ==
  <<"prefetch", "await", "choose", "prefetch", "await", "store", "fence", "use", "fence">>

Node_InsertCoroWrite ==
  <<"prefetch", "await", "choose", "prefetch", "await", "store", "await", "use">>

DoInsertsNormal == <<FALSE>>

DoInsertsCoroFull == <<FALSE, FALSE, TRUE, TRUE>>

DoInsertsCoroRead == <<FALSE, FALSE, FALSE>>

DoInsertsCoroWrite == <<FALSE, FALSE, TRUE, TRUE>>

Coroutines ==
  [scalar |-> Node_Insert_Normal, coro_full |-> Node_InsertCoroFull,
   coro_read |-> Node_InsertCoroRead, coro_write |-> Node_InsertCoroWrite]

Drivers ==
  [scalar |-> DoInsertsNormal, coro_full |-> DoInsertsCoroFull,
   coro_read |-> DoInsertsCoroRead, coro_write |-> DoInsertsCoroWrite]

\* main: the members of a group have nodes of their own.
Tasks ==
  LET nodes_per_group == NODE_COUNT \div GROUP_SIZE
      NodesOf(group) == nodes_per_group * group .. nodes_per_group * (group + 1) - 1
  IN {f \in [Operations -> [node : Nodes, key : Operations]] :
        \A op \in Operations : f[op].key = op /\ f[op].node \in NodesOf(op % GROUP_SIZE)}

\* Everything is free, as far as the cache knows: what was in memory may
\* still be there, and need not be of a node.
Initialize(free_before) ==
  [head |-> Store(Line(HeadLine(free_before, [s \in Slots |-> 0])),
                  HeadLine(Slots, [s \in Slots |-> 0])),
   entries |-> [s \in Slots |-> Line(Initial)]]

\* The constructor of a node zeroes it first.
CreateNodes == [Nodes -> {Initialize(free) : free \in {{}, Slots}}]

ResetBits == {}
=============================================================================
