---------------------------- MODULE FlushRounds ----------------------------
(***************************************************************************)
(* RunMultiThreaded of the page flush benchmark: one round per technique   *)
(* (RunBenchmarkThreaded), in which every thread prepares pages of its     *)
(* own, all start to flush together and main adds up their times.  The     *)
(* threads hold references to the counter, the barrier and the times on    *)
(* the stack of the round, and open the file of their number again in      *)
(* each round.                                                             *)
(***************************************************************************)
EXTENDS Naturals, FiniteSets

CONSTANTS
  THREAD_COUNT,
  Rounds           \* the number of rounds: four in RunMultiThreaded

VARIABLES
  main, turn,      \* where main stands, and the thread its loop is at
  round,           \* the round it is in
  thread,          \* where each thread of each round stands
  ready_count, start_barrier,
  times            \* how often a thread has added its time

Tids == 1 .. THREAD_COUNT
AllThreads == (1 .. Rounds) \X Tids
round_vars == <<round, ready_count, start_barrier, times>>
vars == <<main, turn, thread, round_vars>>

TypeOK ==
  /\ main \in {"spawn", "await", "open", "join", "sum", "done"}
  /\ turn \in Tids
  /\ round \in 1 .. Rounds
  /\ thread \in [AllThreads -> {"none", "prepare", "wait", "flush", "check", "ended"}]
  /\ ready_count \in 0 .. THREAD_COUNT
  /\ start_barrier \in BOOLEAN
  /\ times \in [Tids -> 0 .. 1]

\* The local variables of RunBenchmarkThreaded.
FreshRound(count, barrier, t) == count = 0 /\ barrier = FALSE /\ t = [tid \in Tids |-> 0]

Init ==
  /\ main = "spawn" /\ turn = 1 /\ round = 1
  /\ thread = [t \in AllThreads |-> "none"]
  /\ FreshRound(ready_count, start_barrier, times)

-----------------------------------------------------------------------------
EndOfTurn(from, after) ==
  /\ main = from
  /\ \/ turn < THREAD_COUNT /\ turn' = turn + 1 /\ UNCHANGED main
     \/ turn = THREAD_COUNT /\ turn' = 1 /\ main' = after

CreateThread ==
  /\ EndOfTurn("spawn", "await")
  /\ thread' = [thread EXCEPT ![<<round, turn>>] = "prepare"]
  /\ UNCHANGED round_vars

\* A bug to catch: one ready thread is enough.
AwaitAnyReady ==
  /\ main = "await" /\ ready_count # 0 /\ main' = "open"
  /\ UNCHANGED <<turn, thread, round_vars>>

AwaitReady ==
  /\ main = "await" /\ ready_count = THREAD_COUNT /\ main' = "open"
  /\ UNCHANGED <<turn, thread, round_vars>>

OpenBarrier ==
  /\ main = "open" /\ main' = "join"
  /\ start_barrier' = TRUE
  /\ UNCHANGED <<turn, thread, round, ready_count, times>>

\* A bug to catch: a thread that has flushed is left to check its pages alone.
JoinDetached ==
  /\ thread[<<round, turn>>] \in {"check", "ended"}
  /\ EndOfTurn("join", "sum")
  /\ UNCHANGED <<thread, round_vars>>

Join ==
  /\ thread[<<round, turn>>] = "ended"
  /\ EndOfTurn("join", "sum")
  /\ UNCHANGED <<thread, round_vars>>

\* The times are added up and printed; the next round has a new stack frame.
EndRound ==
  /\ main = "sum"
  /\ \/ /\ round < Rounds /\ main' = "spawn" /\ round' = round + 1
        /\ FreshRound(ready_count', start_barrier', times')
     \/ /\ round = Rounds /\ main' = "done"
        /\ UNCHANGED round_vars
  /\ UNCHANGED <<turn, thread>>

Main == CreateThread \/ AwaitReady \/ OpenBarrier \/ Join \/ EndRound

-----------------------------------------------------------------------------
Goto(t, from, to) == thread[t] = from /\ thread' = [thread EXCEPT ![t] = to]

\* InitializePages, MakeRandomCacheLinesDirty, ready_count++.
Prepare(t) ==
  /\ Goto(t, "prepare", "wait")
  /\ ready_count' = ready_count + 1
  /\ UNCHANGED <<main, turn, round, start_barrier, times>>

AwaitBarrier(t) ==
  /\ start_barrier /\ Goto(t, "wait", "flush")
  /\ UNCHANGED <<main, turn, round_vars>>

\* The technique of the round over all pages, timed.
FlushAll(t) ==
  /\ Goto(t, "flush", "check")
  /\ times' = [times EXCEPT ![t[2]] = @ + 1]
  /\ UNCHANGED <<main, turn, round, ready_count, start_barrier>>

CheckNvmContent(t) ==
  /\ Goto(t, "check", "ended")
  /\ UNCHANGED <<main, turn, round_vars>>

Thread(t) == Prepare(t) \/ AwaitBarrier(t) \/ FlushAll(t) \/ CheckNvmContent(t)

Next == Main \/ \E t \in AllThreads : Thread(t)

-----------------------------------------------------------------------------
(* No thread is flushing, and being timed, while another one of its round  *)
(* is still filling its pages.                                             *)
NobodyStartsEarly ==
  \A s, t \in AllThreads :
    s[1] = t[1] /\ thread[s] \in {"flush", "check", "ended"} =>
      thread[t] \notin {"none", "prepare"}

(* A thread never outlives its round: the stack frame it refers to is      *)
(* there, and no two threads have one file open.                           *)
NoThreadOutlivesItsRound ==
  \A t \in AllThreads : thread[t] \notin {"none", "ended"} => t[1] = round /\ main # "done"

(* When main adds up the times every thread has given its time, once.      *)
ResultsAreComplete == main = "sum" => \A tid \in Tids : times[tid] = 1
=============================================================================
