------------------------ MODULE InterferenceWorkers ------------------------
(***************************************************************************)
(* The interference benchmark: main creates the workers (sequential and    *)
(* random readers, log writers, page flushers), each with a thread that    *)
(* runs it, and takes them through their life with three flags and a       *)
(* counter per worker (struct Worker).  Run() has the same text in the     *)
(* four classes; what one iteration reads or writes is the worker's own    *)
(* and is left out here.                                                   *)
(***************************************************************************)
EXTENDS Naturals, Sequences, FiniteSets

CONSTANTS
  VectorOf,        \* the vector that holds the worker, in order of creation
  MaxIterations    \* bound: iterations beyond this one are not told apart

\* A bug to catch: main waits for one iteration and prints the second.
WaitForOneIteration == 1

WaitIterations == 3   \* WaitForAllToPerformAtLeastInterations(3)
Printed == 1          \* PrintAll(1)

VARIABLES
  main, turn,         \* where main stands, and the worker its loop is at
  thread,             \* where the thread of each worker stands
  storage,            \* for each vector, how often it got new memory
  seen,               \* the memory each thread took its worker from
  ready, run, stop,   \* the flags of the workers
  performed,          \* performed_iteration_count
  nano_seconds        \* the number of measurements

all_workers == 1 .. Len(VectorOf)
Vectors == {VectorOf[w] : w \in all_workers}
flags == <<ready, run, stop>>
counts == <<performed, nano_seconds>>
vars == <<main, turn, thread, storage, seen, flags, counts>>

Alive == main \notin {"crashed", "done"}
Capped(n) == IF n < MaxIterations THEN n ELSE MaxIterations

TypeOK ==
  /\ main \in {"emplace", "spawn", "push", "await_ready", "start", "await_iterations",
               "stop", "join", "print", "done", "crashed"}
  /\ turn \in all_workers
  /\ thread \in [all_workers -> {"none", "begin", "load", "setup", "wait", "loop",
                                 "iterate", "count", "ended"}]
  /\ storage \in [Vectors -> 0 .. Len(VectorOf)]
  /\ seen \in [all_workers -> 0 .. Len(VectorOf)]
  /\ \A flag \in {ready, run, stop} : flag \in [all_workers -> BOOLEAN]
  /\ performed \in [all_workers -> 0 .. MaxIterations]
  /\ nano_seconds \in [all_workers -> 0 .. MaxIterations]

Init ==
  /\ main = "emplace" /\ turn = 1
  /\ thread = [w \in all_workers |-> "none"]
  /\ storage = [v \in Vectors |-> 0]
  /\ seen = [w \in all_workers |-> 0]
  /\ ready = [w \in all_workers |-> FALSE]
  /\ run = ready /\ stop = ready
  /\ performed = [w \in all_workers |-> 0]
  /\ nano_seconds = performed

-----------------------------------------------------------------------------
\* main

\* A vector gets new memory when the element does not fit: its capacity is
\* doubled each time.
IsFull(size) == size = 0 \/ \E k \in 0 .. size : size = 2 ^ k
SizeOfVector(v) == Cardinality({w \in 1 .. turn - 1 : VectorOf[w] = v})

EmplaceWorker ==
  /\ main = "emplace" /\ main' = "spawn"
  /\ storage' = IF IsFull(SizeOfVector(VectorOf[turn]))
                THEN [storage EXCEPT ![VectorOf[turn]] = @ + 1] ELSE storage
  /\ UNCHANGED <<turn, thread, seen, flags, counts>>

CreateThread ==
  /\ main = "spawn" /\ main' = "push"
  /\ thread' = [thread EXCEPT ![turn] = "begin"]
  /\ UNCHANGED <<turn, storage, seen, flags, counts>>

\* The end of a turn of the loop `from` over all workers.
EndOfTurn(from, again, after) ==
  /\ main = from
  /\ \/ turn < Len(VectorOf) /\ turn' = turn + 1 /\ main' = again
     \/ turn = Len(VectorOf) /\ turn' = 1 /\ main' = after

PushWorker ==
  /\ EndOfTurn("push", "emplace", "await_ready")
  /\ UNCHANGED <<thread, storage, seen, flags, counts>>

\* A bug to catch: main waits for the worker created last only.
WaitForLastToGetReady ==
  /\ turn = Len(VectorOf) => ready[turn]
  /\ EndOfTurn("await_ready", "await_ready", "start")
  /\ UNCHANGED <<thread, storage, seen, flags, counts>>

WaitForAllToGetReady ==
  /\ ready[turn]
  /\ EndOfTurn("await_ready", "await_ready", "start")
  /\ UNCHANGED <<thread, storage, seen, flags, counts>>

StartAll ==
  /\ EndOfTurn("start", "start", "await_iterations")
  /\ run' = [run EXCEPT ![turn] = TRUE]
  /\ UNCHANGED <<thread, storage, seen, ready, stop, counts>>

WaitForAllToPerformAtLeastInterations ==
  /\ performed[turn] >= WaitIterations
  /\ EndOfTurn("await_iterations", "await_iterations", "stop")
  /\ UNCHANGED <<thread, storage, seen, flags, counts>>

\* A bug to catch: the loop ends before the last worker.
StopAllButLast ==
  /\ EndOfTurn("stop", "stop", "join")
  /\ stop' = [stop EXCEPT ![turn] = turn < Len(VectorOf)]
  /\ UNCHANGED <<thread, storage, seen, ready, run, counts>>

StopAll ==
  /\ EndOfTurn("stop", "stop", "join")
  /\ stop' = [stop EXCEPT ![turn] = TRUE]
  /\ UNCHANGED <<thread, storage, seen, ready, run, counts>>

\* A bug to catch: main prints without joining.
WaitForNobodyToDie ==
  /\ EndOfTurn("join", "join", "print")
  /\ UNCHANGED <<thread, storage, seen, flags, counts>>

WaitForAllToDie ==
  /\ thread[turn] = "ended"
  /\ EndOfTurn("join", "join", "print")
  /\ UNCHANGED <<thread, storage, seen, flags, counts>>

\* PrintResultOfLastIteration reads the measurement, the random readers'
\* without looking whether there is one; the others throw.
HasResult(w) == stop[w] /\ performed[w] > Printed /\ nano_seconds[w] > Printed

PrintAll ==
  /\ \/ HasResult(turn) /\ EndOfTurn("print", "print", "done")
     \/ ~ HasResult(turn) /\ main = "print" /\ main' = "crashed" /\ UNCHANGED turn
  /\ UNCHANGED <<thread, storage, seen, flags, counts>>

Main ==
  \/ EmplaceWorker \/ CreateThread \/ PushWorker \/ WaitForAllToGetReady \/ StartAll
  \/ WaitForAllToPerformAtLeastInterations \/ StopAll \/ WaitForAllToDie \/ PrintAll

-----------------------------------------------------------------------------
\* The thread of a worker.  It finds its worker in the vector, which main may
\* be appending to without a lock: it first takes the memory the vector has,
\* then reads the element.

Goto(w, from, to) == thread[w] = from /\ thread' = [thread EXCEPT ![w] = to]

TakeVector(w) ==
  /\ Goto(w, "begin", "load")
  /\ seen' = [seen EXCEPT ![w] = storage[VectorOf[w]]]
  /\ UNCHANGED <<main, turn, storage, flags, counts>>

\* Memory the vector gave up may still hold the element, or anything.
LoadWorker(w) ==
  /\ \/ Goto(w, "load", "setup") /\ UNCHANGED main
     \/ /\ thread[w] = "load" /\ seen[w] # storage[VectorOf[w]]
        /\ main' = "crashed" /\ UNCHANGED thread
  /\ UNCHANGED <<turn, storage, seen, flags, counts>>

Setup(w) ==
  /\ Goto(w, "setup", "wait")
  /\ ready' = [ready EXCEPT ![w] = TRUE]
  /\ UNCHANGED <<main, turn, storage, seen, run, stop, counts>>

AwaitRun(w) ==
  /\ run[w] /\ Goto(w, "wait", "loop")
  /\ UNCHANGED <<main, turn, storage, seen, flags, counts>>

CheckStop(w) ==
  /\ Goto(w, "loop", IF stop[w] THEN "ended" ELSE "iterate")
  /\ UNCHANGED <<main, turn, storage, seen, flags, counts>>

DoOneRun(w) ==
  /\ Goto(w, "iterate", "count")
  /\ nano_seconds' = [nano_seconds EXCEPT ![w] = Capped(@ + 1)]
  /\ UNCHANGED <<main, turn, storage, seen, flags, performed>>

CountIteration(w) ==
  /\ Goto(w, "count", "loop")
  /\ performed' = [performed EXCEPT ![w] = Capped(@ + 1)]
  /\ UNCHANGED <<main, turn, storage, seen, flags, nano_seconds>>

Thread(w) ==
  /\ Alive
  /\ \/ TakeVector(w) \/ LoadWorker(w) \/ Setup(w) \/ AwaitRun(w)
     \/ CheckStop(w) \/ DoOneRun(w) \/ CountIteration(w)

Next == Main \/ \E w \in all_workers : Thread(w)

-----------------------------------------------------------------------------
Started(w) == thread[w] \in {"loop", "iterate", "count", "ended"}

(* No worker puts load on the machine while another is still setting up:   *)
(* main lets them run only when all are ready.                             *)
NobodyStartsEarly ==
  (\E w \in all_workers : Started(w)) =>
    \A w \in all_workers : ready[w] /\ thread[w] \notin {"none", "begin", "load", "setup"}

(* When main prints, every thread has ended, so that nobody appends to the *)
(* measurements it reads, and the measurement it prints is there, also of  *)
(* the random readers, which do not look.                                  *)
ResultsAreComplete ==
  main = "print" => \A w \in all_workers : thread[w] = "ended" /\ HasResult(w)

(* The iteration that is printed was over in every worker before the first *)
(* of them was told to stop: nobody finished early beside it.              *)
PrintedIterationIsUndisturbed ==
  (\E w \in all_workers : stop[w]) => \A w \in all_workers : performed[w] > Printed
=============================================================================
