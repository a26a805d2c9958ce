----------------------------- MODULE ReadLatency -----------------------------
(***************************************************************************)
(* read_latency.cpp: every thread follows the cycle for REPETITIONS reads, *)
(* in runs of STEP reads, and gives up after a fixed number of runs.       *)
(***************************************************************************)
EXTENDS LatencyMain

CONSTANTS
  Repetitions,     \* what REPETITIONS may be
  STEP,
  LastRun          \* the number of the last run: 500

VARIABLES
  REPETITIONS,
  i, x, run, limit,   \* the local variables of readThread
  visited             \* the elements each thread has read

RunsAssumption == Repetitions \subseteq Nat /\ STEP \in Nat \ {0} /\ LastRun \in Nat

read_vars == <<i, x, run, limit, visited>>
vars == <<main_vars, REPETITIONS, read_vars>>

TypeOK ==
  /\ MainTypeOK
  /\ REPETITIONS \in Repetitions
  /\ thread \in [Tids -> {"none", "spin", "begin", "read", "ended"}]
  /\ i \in [Tids -> 0 .. REPETITIONS]
  /\ x \in [Tids -> Elements]
  /\ run \in [Tids -> 0 .. LastRun]
  /\ limit \in [Tids -> 0 .. REPETITIONS]
  /\ visited \in [Tids -> SUBSET Elements]

Init ==
  /\ MainInit
  /\ REPETITIONS \in Repetitions
  /\ i = [t \in Tids |-> 0]
  /\ x = i /\ run = i /\ limit = i
  /\ visited = [t \in Tids |-> {}]

\* Nothing is checked behind the joins.
EndMeasurement ==
  /\ main = "check" /\ main' = "print"
  /\ UNCHANGED <<turn, thread, go, helper, v>>

Main ==
  /\ CreateRandomCycle \/ CreateThread \/ Go \/ Join \/ EndMeasurement \/ PrintResult
  /\ UNCHANGED <<REPETITIONS, read_vars>>

SeeGo(t) ==
  /\ go /\ Goto(t, "spin", "begin")
  /\ UNCHANGED <<main, turn, go, helper, v, REPETITIONS, read_vars>>

\* limit = min(i + STEP, REPETITIONS)
BeginRun(t) ==
  /\ i[t] < REPETITIONS
  /\ Goto(t, "begin", "read")
  /\ limit' = [limit EXCEPT
       ![t] = IF i[t] + STEP < REPETITIONS THEN i[t] + STEP ELSE REPETITIONS]
  /\ UNCHANGED <<main, turn, go, helper, v, REPETITIONS, i, x, run, visited>>

Read(t) ==
  /\ thread[t] = "read" /\ i[t] < limit[t]
  /\ x' = [x EXCEPT ![t] = v[@]]
  /\ i' = [i EXCEPT ![t] = @ + 1]
  /\ visited' = [visited EXCEPT ![t] = @ \union {x[t]}]
  /\ UNCHANGED <<main_vars, REPETITIONS, run, limit>>

EndRun(t) ==
  /\ i[t] = limit[t] /\ run[t] < LastRun
  /\ Goto(t, "read", "begin")
  /\ run' = [run EXCEPT ![t] = @ + 1]
  /\ UNCHANGED <<main, turn, go, helper, v, REPETITIONS, i, x, limit, visited>>

\* The loop is over, or left after the last run.
Return(t) ==
  /\ \/ Goto(t, "begin", "ended") /\ i[t] = REPETITIONS
     \/ Goto(t, "read", "ended") /\ i[t] = limit[t] /\ run[t] >= LastRun
  /\ UNCHANGED <<main, turn, go, helper, v, REPETITIONS, read_vars>>

Thread(t) == SeeGo(t) \/ BeginRun(t) \/ Read(t) \/ EndRun(t) \/ Return(t)

-----------------------------------------------------------------------------
(* The latency is the time over REPETITIONS: so many reads have been done, *)
(* as long as LastRun does not cut them short.                             *)
ResultsAreComplete ==
  main = "print" /\ REPETITIONS <= (LastRun + 1) * STEP =>
    \A t \in Tids : i[t] = REPETITIONS

(* COUNT reads in a row never hit an element twice: what is measured is    *)
(* memory, not the caches of a short cycle.                                *)
EveryElementIsVisited ==
  \A t \in Tids : i[t] >= COUNT => visited[t] = Elements
=============================================================================
