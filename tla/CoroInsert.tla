----------------------------- MODULE CoroInsert -----------------------------
(***************************************************************************)
(* coro_insert.cpp: every style of insert as the steps a coroutine takes   *)
(* between two suspensions ("await"), and its driver as the rounds that    *)
(* resume all of a group: TRUE for a round with a fence behind it.         *)
(***************************************************************************)
EXTENDS Naturals, TreeNode

CONSTANTS
  NODE_COUNT,
  GROUP_SIZE,
  OperationCount,    \* INSERT_COUNT
  Initial            \* the entries Initialize leaves

Nodes == 0 .. NODE_COUNT - 1
Operations == 0 .. OperationCount - 1

Node_Insert_Normal == <<"choose", "store", "fence", "use", "fence">>

Node_InsertCoroFull ==
  <<"prefetch", "await", "choose", "prefetch", "await", "store", "await", "use">>

\* A bug to catch: the slot is marked before the entry is safe.
Node_InsertCoroReadUnfenced ==
  <<"prefetch", "await", "choose", "prefetch", "await", "store", "use", "fence">>

Node_InsertCoroRead ==
  <<"prefetch", "await", "choose", "prefetch", "await", "store", "fence", "use", "fence">>

Node_InsertCoroWrite == <<"choose", "store", "await", "use">>

DoInsertsNormal == <<FALSE>>

\* A bug to catch: the fence that makes the slots valid for good is missing.
DoInsertsCoroFullUnfenced == <<FALSE, FALSE, TRUE, FALSE>>

DoInsertsCoroFull == <<FALSE, FALSE, TRUE, TRUE>>

DoInsertsCoroRead == <<FALSE, FALSE, FALSE>>

DoInsertsCoroWrite == <<TRUE, TRUE>>

Coroutines ==
  [scalar |-> Node_Insert_Normal, coro_full |-> Node_InsertCoroFull,
   coro_read |-> Node_InsertCoroRead, coro_write |-> Node_InsertCoroWrite]

Drivers ==
  [scalar |-> DoInsertsNormal, coro_full |-> DoInsertsCoroFull,
   coro_read |-> DoInsertsCoroRead, coro_write |-> DoInsertsCoroWrite]

\* A bug to catch: any operation may go to any node.
NodeOfAnywhere(op) == Nodes

\* The members of a group have nodes of their own: nodes_per_group each.
NodeOf(op) ==
  LET nodes_per_group == NODE_COUNT \div GROUP_SIZE
      group == op % GROUP_SIZE
  IN nodes_per_group * group .. nodes_per_group * (group + 1) - 1

\* The key of operation op is op.
Tasks ==
  {f \in [Operations -> [node : Nodes, key : Operations]] :
     \A op \in Operations : f[op].key = op /\ f[op].node \in NodeOf(op)}

\* Initialize assigns free_bits to itself: they stay as the memory has them.
Initialize(free) ==
  [head |-> Line(HeadLine(free, [s \in Slots |-> 0])),
   entries |-> [s \in Slots |-> Line(Initial)]]

CreateNodes == [Nodes -> {Initialize(free) : free \in SUBSET Slots}]

\* "Simply reset node when full": all slots are free.
ResetBits == Slots
=============================================================================
