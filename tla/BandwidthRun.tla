---------------------------- MODULE BandwidthRun ----------------------------
(***************************************************************************)
(* bandwidth/bw.cpp: threads go over the blocks of their chunk, again and  *)
(* again, until main after a fixed time tells them to stop, and add the    *)
(* number of blocks they did to global_iterations, from which the          *)
(* bandwidth is computed.  What a block reads or writes is left out, and   *)
(* with it global_counter and the order of the blocks.                     *)
(***************************************************************************)
EXTENDS Naturals, Functions

CONSTANTS
  thread_count,
  MaxIterationCount,   \* bound: blocks in a chunk
  Wrap                 \* bound: the uint64_t counters wrap here

VARIABLES
  main, turn,          \* where main stands, and the thread its loop is at
  thread,              \* where each thread stands
  start_barrier, running_flag,
  iteration_count,     \* chunk_size / block_size
  idx, local_iteration,
  global_iterations,
  blocks               \* the blocks each thread has done

Tids == 1 .. thread_count
shared == <<start_barrier, running_flag, iteration_count, global_iterations>>
progress == <<idx, local_iteration, blocks>>
vars == <<main, turn, thread, shared, progress>>

TypeOK ==
  /\ main \in {"spawn", "arrive", "await", "measure", "join", "print", "done"}
  /\ turn \in Tids
  /\ thread \in [Tids -> {"none", "setup", "wait", "check", "block", "ended"}]
  /\ start_barrier \in 0 .. thread_count + 1
  /\ running_flag \in BOOLEAN
  /\ iteration_count \in 0 .. MaxIterationCount
  /\ idx \in [Tids -> 0 .. iteration_count]
  /\ local_iteration \in [Tids -> 0 .. Wrap - 1]
  /\ blocks \in [Tids -> 0 .. Wrap - 1]
  /\ global_iterations \in 0 .. Wrap - 1

Init ==
  /\ main = "spawn" /\ turn = 1
  /\ thread = [t \in Tids |-> "none"]
  /\ start_barrier = 0 /\ running_flag = TRUE
  /\ iteration_count \in 0 .. MaxIterationCount
  /\ idx = [t \in Tids |-> 0]
  /\ local_iteration = idx /\ blocks = idx
  /\ global_iterations = 0

-----------------------------------------------------------------------------
\* main

EndOfTurn(from, after) ==
  /\ main = from
  /\ \/ turn < thread_count /\ turn' = turn + 1 /\ UNCHANGED main
     \/ turn = thread_count /\ turn' = 1 /\ main' = after

CreateThread ==
  /\ EndOfTurn("spawn", "arrive")
  /\ thread' = [thread EXCEPT ![turn] = "setup"]
  /\ UNCHANGED <<shared, progress>>

\* A bug to catch: main waits at the barrier without counting itself.
MainArrivesUncounted ==
  /\ main = "arrive" /\ main' = "await"
  /\ UNCHANGED <<turn, thread, shared, progress>>

MainArrives ==
  /\ main = "arrive" /\ main' = "await"
  /\ start_barrier' = start_barrier + 1
  /\ UNCHANGED <<turn, thread, running_flag, iteration_count, global_iterations, progress>>

\* A bug to catch: the barrier does not wait for the last one to come.
BarrierIsOpenEarly == start_barrier >= thread_count

BarrierIsOpen == start_barrier = thread_count + 1

MainPasses ==
  /\ main = "await" /\ BarrierIsOpen /\ main' = "measure"
  /\ UNCHANGED <<turn, thread, shared, progress>>

\* Twenty seconds are over.
Stop ==
  /\ main = "measure" /\ main' = "join"
  /\ running_flag' = FALSE
  /\ UNCHANGED <<turn, thread, start_barrier, iteration_count, global_iterations, progress>>

Join ==
  /\ thread[turn] = "ended"
  /\ EndOfTurn("join", "print")
  /\ UNCHANGED <<thread, shared, progress>>

PrintResult ==
  /\ main = "print" /\ main' = "done"
  /\ UNCHANGED <<turn, thread, shared, progress>>

Main == CreateThread \/ MainArrives \/ MainPasses \/ Stop \/ Join \/ PrintResult

-----------------------------------------------------------------------------
\* The threads

Goto(t, from, to) == thread[t] = from /\ thread' = [thread EXCEPT ![t] = to]

Arrive(t) ==
  /\ Goto(t, "setup", "wait")
  /\ start_barrier' = start_barrier + 1
  /\ UNCHANGED <<main, turn, running_flag, iteration_count, global_iterations, progress>>

Pass(t) ==
  /\ BarrierIsOpen /\ Goto(t, "wait", "check")
  /\ UNCHANGED <<main, turn, shared, progress>>

\* A bug to catch: the loop goes over one block too many.
CheckRunningPastEnd(t) ==
  /\ idx[t] <= iteration_count /\ running_flag
  /\ Goto(t, "check", "block")
  /\ UNCHANGED <<main, turn, shared, progress>>

CheckRunning(t) ==
  /\ idx[t] < iteration_count /\ running_flag
  /\ Goto(t, "check", "block")
  /\ UNCHANGED <<main, turn, shared, progress>>

DoBlock(t) ==
  /\ Goto(t, "block", "check")
  /\ blocks' = [blocks EXCEPT ![t] = (@ + 1) % Wrap]
  /\ idx' = [idx EXCEPT ![t] = @ + 1]
  /\ UNCHANGED <<main, turn, shared, local_iteration>>

\* The chunk is done and begun again.  The flag is not looked at here, so a
\* chunk without blocks is begun for ever.
StartOver(t) ==
  /\ thread[t] = "check" /\ idx[t] = iteration_count
  /\ local_iteration' = [local_iteration EXCEPT ![t] = (@ + iteration_count) % Wrap]
  /\ idx' = [idx EXCEPT ![t] = 0]
  /\ UNCHANGED <<main, turn, thread, shared, blocks>>

\* A bug to catch: the chunk that was begun is not counted.
FinishWholeChunks(t) ==
  /\ idx[t] < iteration_count /\ ~ running_flag
  /\ Goto(t, "check", "ended")
  /\ global_iterations' = (global_iterations + local_iteration[t]) % Wrap
  /\ UNCHANGED <<main, turn, start_barrier, running_flag, iteration_count, progress>>

Finish(t) ==
  /\ idx[t] < iteration_count /\ ~ running_flag
  /\ Goto(t, "check", "ended")
  /\ global_iterations' = (global_iterations + idx[t] + local_iteration[t]) % Wrap
  /\ UNCHANGED <<main, turn, start_barrier, running_flag, iteration_count, progress>>

Thread(t) ==
  Arrive(t) \/ Pass(t) \/ CheckRunning(t) \/ DoBlock(t) \/ StartOver(t) \/ Finish(t)

Next == Main \/ \E t \in Tids : Thread(t)

-----------------------------------------------------------------------------
(* No block is done before every thread has filled its memory and main has *)
(* come to the barrier to take the time.                                   *)
NobodyStartsEarly ==
  (\E t \in Tids : thread[t] \in {"check", "block", "ended"}) =>
    /\ main \notin {"spawn", "arrive"}
    /\ \A t \in Tids : thread[t] \notin {"none", "setup"}

(* The number that main prints is the number of blocks that were done,     *)
(* each counted once, whenever the threads stopped in their chunk.         *)
ResultsAreComplete ==
  main = "print" => global_iterations = FoldFunction(+, 0, blocks) % Wrap

\* A chunk smaller than a block.
NoBlocks == iteration_count = 0
=============================================================================
