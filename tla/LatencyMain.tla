----------------------------- MODULE LatencyMain -----------------------------
(***************************************************************************)
(* What read_latency.cpp and read_latency_alex.cpp have in common: main    *)
(* links the elements of an array to one random cycle, creates threads     *)
(* that spin on the flag go, sets it and joins them.                       *)
(***************************************************************************)
EXTENDS Naturals

CONSTANTS
  COUNT,           \* elements of the array
  threadCount

VARIABLES
  main, turn,      \* where main stands, and the thread its loop is at
  thread,          \* where each thread stands
  go,
  helper,          \* the shuffled elements
  v                \* the array

LatencyAssumption == COUNT \in Nat \ {0, 1} /\ threadCount \in Nat \ {0}

main_vars == <<main, turn, thread, go, helper, v>>

Elements == 0 .. COUNT - 1
Tids == 1 .. threadCount

MainTypeOK ==
  /\ main \in {"create", "spawn", "go", "join", "check", "print", "done", "crashed"}
  /\ turn \in Tids
  /\ go \in BOOLEAN
  /\ helper \in [Elements -> Elements]
  /\ v \in [Elements -> Elements]

MainInit ==
  /\ main = "create" /\ turn = 1
  /\ thread = [t \in Tids |-> "none"]
  /\ go = FALSE
  /\ helper = [e \in Elements |-> e]
  /\ v = [e \in Elements |-> 0]

\* (i + 1) % COUNT
After(i) == IF i = COUNT - 1 THEN 0 ELSE i + 1

\* What the shuffle may make of helper.  Only the cycle matters, so it is
\* turned until it begins with element 0, where every thread begins.
IsShuffled(order) ==
  /\ order[0] = 0
  /\ \A a, b \in Elements : order[a] = order[b] => a = b
  /\ \A e \in Elements : \E a \in Elements : order[a] = e

\* A bug to catch: the array is shuffled, but need not be one cycle.
IsCycleShuffled(array, order) == \A i \in Elements : array[i] = order[i]

IsCycle(array, order) == \A i \in Elements : array[order[i]] = order[After(i)]

CreateRandomCycle ==
  /\ main = "create" /\ main' = "spawn"
  /\ helper' \in {order \in [Elements -> Elements] : IsShuffled(order)}
  /\ v' \in {array \in [Elements -> Elements] : IsCycle(array, helper')}
  /\ UNCHANGED <<turn, thread, go>>

EndOfTurn(from, after) ==
  /\ main = from
  /\ \/ turn < threadCount /\ turn' = turn + 1 /\ UNCHANGED main
     \/ turn = threadCount /\ turn' = 1 /\ main' = after

CreateThread ==
  /\ EndOfTurn("spawn", "go")
  /\ thread' = [thread EXCEPT ![turn] = "spin"]
  /\ UNCHANGED <<go, helper, v>>

Go ==
  /\ main = "go" /\ main' = "join"
  /\ go' = TRUE
  /\ UNCHANGED <<turn, thread, helper, v>>

Join ==
  /\ thread[turn] = "ended"
  /\ EndOfTurn("join", "check")
  /\ UNCHANGED <<thread, go, helper, v>>

PrintResult ==
  /\ main = "print" /\ main' = "done"
  /\ UNCHANGED <<turn, thread, go, helper, v>>

Goto(t, from, to) == thread[t] = from /\ thread' = [thread EXCEPT ![t] = to]

(* No thread reads, and is measured, before all are there.                 *)
NobodyStartsEarly ==
  (\E t \in Tids : thread[t] \notin {"none", "spin"}) => \A t \in Tids : thread[t] # "none"
=============================================================================
