----------------------------- MODULE Harnesses -----------------------------
(***************************************************************************)
(* The multi-threaded programs of the repository and how main and its      *)
(* threads meet: the interference, page flush, bandwidth and read latency  *)
(* benchmarks.  The variable program says which of them runs; the          *)
(* variables only others have keep their first value.                      *)
(***************************************************************************)
EXTENDS Naturals, Sequences, FiniteSets

CONSTANTS
  VectorOf, MaxIterations,                 \* InterferenceWorkers
  THREAD_COUNT, Rounds,                    \* FlushRounds
  thread_count, MaxIterationCount, Wrap,   \* BandwidthRun
  COUNT, threadCount,                      \* ReadLatency, ReadLatencyAlex
  Repetitions, STEP, LastRun               \* ReadLatency

VARIABLES
  program,
  main, turn, thread,
  storage, seen, ready, run, stop, performed, nano_seconds,
  round, ready_count, times,
  start_barrier,                           \* FlushRounds and BandwidthRun
  running_flag, iteration_count, idx, local_iteration, global_iterations, blocks,
  go, helper, v, i, x, next,               \* ReadLatency, ReadLatencyAlex
  REPETITIONS, run_number, limit, visited  \* ReadLatency

interference_vars == <<storage, seen, ready, run, stop, performed, nano_seconds>>
flush_vars == <<round, ready_count, times>>
bandwidth_vars ==
  <<running_flag, iteration_count, idx, local_iteration, global_iterations, blocks>>
latency_vars == <<go, helper, v, i, x>>
read_vars == <<REPETITIONS, run_number, limit, visited>>
vars == <<program, main, turn, thread, interference_vars, flush_vars, start_barrier,
          bandwidth_vars, latency_vars, next, read_vars>>

Interference == INSTANCE InterferenceWorkers
Flush == INSTANCE FlushRounds
Bandwidth == INSTANCE BandwidthRun
Latency == INSTANCE ReadLatency WITH run <- run_number
Alex == INSTANCE ReadLatencyAlex

ASSUME InterferenceAssumption ==
  /\ VectorOf \in Seq(STRING)
  /\ Len(VectorOf) > 0
  /\ MaxIterations \in Nat /\ MaxIterations > Interference!WaitIterations

ASSUME FlushRoundsAssumption == THREAD_COUNT \in Nat \ {0} /\ Rounds \in Nat \ {0}

ASSUME BandwidthAssumption ==
  /\ thread_count \in Nat \ {0}
  /\ MaxIterationCount \in Nat
  /\ Wrap \in Nat \ {0}

ASSUME LatencyAssumption ==
  /\ Alex!LatencyAssumption
  /\ Latency!RunsAssumption

Programs == {"interference", "page_flush", "bw", "read_latency", "read_latency_alex"}

TypeOK ==
  /\ program \in Programs
  /\ program = "interference" => Interference!TypeOK
  /\ program = "page_flush" => Flush!TypeOK
  /\ program = "bw" => Bandwidth!TypeOK
  /\ program = "read_latency" => Latency!TypeOK
  /\ program = "read_latency_alex" => Alex!TypeOK

NoWorkers ==
  /\ storage = 0 /\ seen = 0
  /\ ready = FALSE /\ run = FALSE /\ stop = FALSE
  /\ performed = 0 /\ nano_seconds = 0
NoRounds == round = 0 /\ ready_count = 0 /\ times = 0
NoChunks ==
  /\ running_flag = FALSE /\ iteration_count = 0
  /\ idx = 0 /\ local_iteration = 0 /\ global_iterations = 0 /\ blocks = 0

NoCycle == go = FALSE /\ helper = 0 /\ v = 0 /\ i = 0 /\ x = 0
NoReads == REPETITIONS = 0 /\ run_number = 0 /\ limit = 0 /\ visited = 0

InitOf ==
  \/ program = "interference" /\ Interference!Init /\ NoRounds /\ start_barrier = FALSE /\ NoChunks
  \/ program = "page_flush" /\ Flush!Init /\ NoWorkers /\ NoChunks
  \/ program = "bw" /\ Bandwidth!Init /\ NoWorkers /\ NoRounds

InitOfLatency ==
  /\ NoWorkers /\ NoRounds /\ start_barrier = FALSE /\ NoChunks
  /\ \/ program = "read_latency" /\ Latency!Init /\ next = 0
     \/ program = "read_latency_alex" /\ Alex!Init /\ NoReads

Init ==
  \/ InitOf /\ NoCycle /\ next = 0 /\ NoReads
  \/ InitOfLatency

other_than_latency == <<program, interference_vars, flush_vars, start_barrier, bandwidth_vars>>

\* A step of a program leaves the variables of the others alone.
InInterference(step) ==
  /\ program = "interference" /\ step
  /\ UNCHANGED <<program, flush_vars, start_barrier, bandwidth_vars, latency_vars, next, read_vars>>
InFlush(step) ==
  /\ program = "page_flush" /\ step
  /\ UNCHANGED <<program, interference_vars, bandwidth_vars, latency_vars, next, read_vars>>
InBandwidth(step) ==
  /\ program = "bw" /\ step
  /\ UNCHANGED <<program, interference_vars, flush_vars, latency_vars, next, read_vars>>
InLatency(step) ==
  program = "read_latency" /\ step /\ UNCHANGED <<other_than_latency, next>>
InAlex(step) ==
  program = "read_latency_alex" /\ step /\ UNCHANGED <<other_than_latency, read_vars>>

Main ==
  \/ InInterference(Interference!Main)
  \/ InFlush(Flush!Main)
  \/ InBandwidth(Bandwidth!Main)
  \/ InLatency(Latency!Main)
  \/ InAlex(Alex!Main)

Ended == main \in {"done", "crashed"}
Exit == Ended /\ UNCHANGED vars

Next ==
  \/ Main
  \/ \E w \in Interference!all_workers : InInterference(Interference!Thread(w))
  \/ \E t \in Flush!AllThreads : InFlush(Flush!Thread(t))
  \/ \E t \in Bandwidth!Tids : InBandwidth(Bandwidth!Thread(t))
  \/ \E t \in Latency!Tids : InLatency(Latency!Thread(t))
  \/ \E t \in Alex!Tids : InAlex(Alex!Thread(t))
  \/ Exit

\* The operating system lets main and every thread go on: the waiting loops
\* sleep, yield or spin, and none of them holds a lock.
Fairness ==
  /\ WF_vars(Main)
  /\ \A w \in Interference!all_workers : WF_vars(InInterference(Interference!Thread(w)))
  /\ \A t \in Flush!AllThreads : WF_vars(InFlush(Flush!Thread(t)))
  /\ \A t \in Bandwidth!Tids : WF_vars(InBandwidth(Bandwidth!Thread(t)))
  /\ \A t \in Latency!Tids : WF_vars(InLatency(Latency!Thread(t)))
  /\ \A t \in Alex!Tids : WF_vars(InAlex(Alex!Thread(t)))

Spec == Init /\ [][Next]_vars /\ Fairness

-----------------------------------------------------------------------------
(* Nobody works, and is measured, while a thread is still preparing.       *)
NobodyStartsEarly ==
  /\ program = "interference" => Interference!NobodyStartsEarly
  /\ program = "page_flush" => Flush!NobodyStartsEarly
  /\ program = "bw" => Bandwidth!NobodyStartsEarly
  /\ program = "read_latency" => Latency!NobodyStartsEarly
  /\ program = "read_latency_alex" => Alex!NobodyStartsEarly

(* What main prints is all there and nobody writes it any more.            *)
ResultsAreComplete ==
  /\ program = "interference" => Interference!ResultsAreComplete
  /\ program = "page_flush" => Flush!ResultsAreComplete
  /\ program = "bw" => Bandwidth!ResultsAreComplete
  /\ program = "read_latency" => Latency!ResultsAreComplete

(* The threads of the latency benchmarks get to every element of the       *)
(* array, which is why read_latency_alex.cpp can check that each was       *)
(* replaced.                                                               *)
EveryElementIsVisited ==
  /\ program = "read_latency" => Latency!EveryElementIsVisited
  /\ program = "read_latency_alex" => Alex!EveryElementIsVisited

(* The iteration the interference benchmark prints of each worker ran      *)
(* before anybody was told to stop.                                        *)
PrintedIterationIsUndisturbed ==
  program = "interference" => Interference!PrintedIterationIsUndisturbed

(* A thread of the page flush benchmark never outlives the round whose     *)
(* stack frame it refers to.                                               *)
NoThreadOutlivesItsRound == program = "page_flush" => Flush!NoThreadOutlivesItsRound

(* The race of new interference threads with the vectors main appends to   *)
(* cannot end a run whose workers are all ready.                           *)
NoCrashOnceReady ==
  [][program = "interference" /\ main' = "crashed" =>
       main \in {"emplace", "spawn", "push", "await_ready", "crashed"}]_vars

(* Every program ends: each wait of main and of its threads is for         *)
(* something that happens.  The bandwidth benchmark does so when a chunk   *)
(* has a block.                                                            *)
EveryRunEnds == <>(Ended \/ (program = "bw" /\ Bandwidth!NoBlocks))
=============================================================================
