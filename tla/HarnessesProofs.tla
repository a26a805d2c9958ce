-------------------------- MODULE HarnessesProofs --------------------------
(***************************************************************************)
(* What is proved of the multi-threaded programs, for any number of        *)
(* threads: that all elements are reached, that a round waits for its      *)
(* threads, that all begin together, that what main prints is complete and *)
(* was not disturbed, and when the race with a vector is over.  One        *)
(* program runs and leaves the variables of the others alone, so each part *)
(* is about the steps of one program.                                      *)
(***************************************************************************)
EXTENDS Harnesses, FiniteSetTheorems, NaturalsInduction, TLAPS

-----------------------------------------------------------------------------
(* The constants are what the single programs assume.                      *)
LEMMA Assumptions ==
  Latency!LatencyAssumption /\ Latency!RunsAssumption /\ Alex!LatencyAssumption
BY LatencyAssumption DEF Latency!LatencyAssumption, Alex!LatencyAssumption

(* Which program runs is settled at the start.                             *)
LEMMA SameProgram == [Next]_vars => program' = program
BY DEF Next, Main, Exit, InInterference, InFlush, InBandwidth, InLatency, InAlex,
       other_than_latency, vars

(* A step while read_latency.cpp runs is one of its steps.                 *)
LEMMA ReadersStep ==
  ASSUME [Next]_vars, program = "read_latency"
  PROVE  [Latency!Main \/ \E t \in Latency!Tids : Latency!Thread(t)]_(Latency!vars)
BY DEF Next, Main, Exit, InInterference, InFlush, InBandwidth, InLatency, InAlex,
   vars, latency_vars, read_vars, Latency!vars, Latency!main_vars, Latency!read_vars

(* A step while read_latency_alex.cpp runs is one of its steps.            *)
LEMMA ChasersStep ==
  ASSUME [Next]_vars, program = "read_latency_alex"
  PROVE  [Alex!Next]_(Alex!vars)
BY DEF Next, Main, Exit, InInterference, InFlush, InBandwidth, InLatency, InAlex,
   vars, latency_vars, Alex!Next, Alex!vars, Alex!main_vars, Alex!thread_vars

-----------------------------------------------------------------------------
\* read_latency.cpp reads every element, for any number of threads,
\* elements and reads: a thread that has done n reads has been at the
\* first n elements of the cycle.

ReaderFollows(t) ==
  /\ i[t] < COUNT => x[t] = helper[i[t]]
  /\ \A p \in Latency!Elements : p < i[t] => helper[p] \in visited[t]

ReadersCycle ==
  IF main = "create"
  THEN \A t \in Latency!Tids : thread[t] = "none" /\ i[t] = 0 /\ x[t] = 0
  ELSE /\ Latency!IsShuffled(helper)
       /\ Latency!IsCycle(v, helper)
       /\ \A t \in Latency!Tids : ReaderFollows(t)

ReadersIInv == Latency!TypeOK /\ ReadersCycle

-----------------------------------------------------------------------------
(* The invariant holds at the start, when nothing is linked yet.           *)
LEMMA ReadersInit == ASSUME Latency!LatencyAssumption, Latency!RunsAssumption
       PROVE Latency!Init => ReadersIInv
<1> SUFFICES ASSUME Latency!Init PROVE ReadersIInv
  OBVIOUS
<1>1. 0 \in Latency!Elements /\ 1 \in Latency!Tids /\ 0 \in 0 .. REPETITIONS /\ 0 \in 0 .. LastRun
  BY DEF Latency!Elements, Latency!Tids, Latency!LatencyAssumption,
     Latency!RunsAssumption, Latency!Init
<1>2. Latency!TypeOK
  <2>1. Latency!MainTypeOK
    BY <1>1 DEF Latency!Init, Latency!MainInit, Latency!MainTypeOK
  <2>2. thread \in [Latency!Tids -> {"none", "spin", "begin", "read", "ended"}]
    BY DEF Latency!Init, Latency!MainInit
  <2>3. /\ i \in [Latency!Tids -> 0 .. REPETITIONS] /\ x \in [Latency!Tids -> Latency!Elements]
        /\ run_number \in [Latency!Tids -> 0 .. LastRun]
        /\ limit \in [Latency!Tids -> 0 .. REPETITIONS]
        /\ visited \in [Latency!Tids -> SUBSET Latency!Elements]
    BY <1>1 DEF Latency!Init
  <2> QED  BY <2>1, <2>2, <2>3 DEF Latency!TypeOK, Latency!Init
<1>3. ReadersCycle
  BY DEF Latency!Init, Latency!MainInit, ReadersCycle
<1> QED  BY <1>2, <1>3 DEF ReadersIInv

(* main's loops over the threads go from the first to the last.            *)
LEMMA ReadersTurn ==
  ASSUME Latency!LatencyAssumption, Latency!TypeOK, NEW from, NEW after,
         Latency!EndOfTurn(from, after)
  PROVE  turn' \in Latency!Tids /\ main' \in {main, after}
BY DEF Latency!LatencyAssumption, Latency!TypeOK, Latency!MainTypeOK, Latency!EndOfTurn,
   Latency!Tids

(* Every step of main and of a thread keeps every variable in its type.    *)
LEMMA ReadersTypeStep ==
  ASSUME Latency!LatencyAssumption, Latency!RunsAssumption, Latency!TypeOK,
         [Latency!Main \/ \E t \in Latency!Tids : Latency!Thread(t)]_(Latency!vars)
  PROVE  Latency!TypeOK'
<1> USE DEF Latency!read_vars
<1>1. REPETITIONS \in Nat /\ LastRun \in Nat /\ STEP \in Nat
  BY DEF Latency!TypeOK, Latency!RunsAssumption
<1>2. CASE Latency!CreateRandomCycle /\ UNCHANGED <<REPETITIONS, Latency!read_vars>>
  BY <1>2 DEF Latency!CreateRandomCycle, Latency!TypeOK, Latency!MainTypeOK
<1>3. CASE Latency!CreateThread /\ UNCHANGED <<REPETITIONS, Latency!read_vars>>
  <2>1. turn' \in Latency!Tids /\ main' \in {main, "go"}
    BY <1>3, ReadersTurn DEF Latency!CreateThread
  <2> QED  BY <1>3, <2>1 DEF Latency!CreateThread, Latency!TypeOK, Latency!MainTypeOK
<1>4. CASE (Latency!Go \/ Latency!EndMeasurement \/ Latency!PrintResult)
             /\ UNCHANGED <<REPETITIONS, Latency!read_vars>>
  BY <1>4 DEF Latency!Go, Latency!EndMeasurement, Latency!PrintResult, Latency!TypeOK,
     Latency!MainTypeOK
<1>5. CASE Latency!Join /\ UNCHANGED <<REPETITIONS, Latency!read_vars>>
  <2>1. turn' \in Latency!Tids /\ main' \in {main, "check"}
    BY <1>5, ReadersTurn DEF Latency!Join
  <2> QED  BY <1>5, <2>1 DEF Latency!Join, Latency!TypeOK, Latency!MainTypeOK
<1>6. ASSUME NEW t \in Latency!Tids, Latency!SeeGo(t) PROVE Latency!TypeOK'
  BY <1>6 DEF Latency!SeeGo, Latency!Goto, Latency!TypeOK, Latency!MainTypeOK
<1>7. ASSUME NEW t \in Latency!Tids, Latency!BeginRun(t) PROVE Latency!TypeOK'
  <2>1. (IF i[t] + STEP < REPETITIONS THEN i[t] + STEP ELSE REPETITIONS) \in 0 .. REPETITIONS
    BY <1>1 DEF Latency!TypeOK
  <2> QED  BY <1>7, <2>1 DEF Latency!BeginRun, Latency!Goto, Latency!TypeOK,
            Latency!MainTypeOK
<1>8. ASSUME NEW t \in Latency!Tids, Latency!Read(t) PROVE Latency!TypeOK'
  <2>1. i[t] + 1 \in 0 .. REPETITIONS
    BY <1>1, <1>8 DEF Latency!Read, Latency!TypeOK
  <2>2. v[x[t]] \in Latency!Elements /\ visited[t] \union {x[t]} \in SUBSET Latency!Elements
    BY DEF Latency!TypeOK, Latency!MainTypeOK
  <2> QED  BY <1>8, <2>1, <2>2 DEF Latency!Read, Latency!main_vars, Latency!TypeOK,
            Latency!MainTypeOK
<1>9. ASSUME NEW t \in Latency!Tids, Latency!EndRun(t) PROVE Latency!TypeOK'
  <2>1. run_number[t] + 1 \in 0 .. LastRun
    BY <1>1, <1>9 DEF Latency!EndRun, Latency!TypeOK
  <2> QED  BY <1>9, <2>1 DEF Latency!EndRun, Latency!Goto, Latency!TypeOK, Latency!MainTypeOK
<1>10. ASSUME NEW t \in Latency!Tids, Latency!Return(t) PROVE Latency!TypeOK'
  BY <1>10 DEF Latency!Return, Latency!Goto, Latency!TypeOK, Latency!MainTypeOK
<1>11. CASE UNCHANGED Latency!vars
  BY <1>11 DEF Latency!vars, Latency!main_vars, Latency!TypeOK, Latency!MainTypeOK
<1> QED  BY <1>2, <1>3, <1>4, <1>5, <1>6, <1>7, <1>8, <1>9, <1>10,
          <1>11 DEF Latency!Main, Latency!Thread

(* A read goes to the next element and marks the one before.               *)
LEMMA ReaderReads ==
  ASSUME Latency!LatencyAssumption, Latency!TypeOK, ReadersCycle, NEW t \in Latency!Tids,
         Latency!Read(t), main # "create"
  PROVE  ReaderFollows(t)'
<1>1. i[t] \in Nat /\ x[t] \in Latency!Elements
  BY DEF Latency!TypeOK
<1>2. helper' = helper /\ i'[t] = i[t] + 1 /\ x'[t] = v[x[t]] /\ visited'[t] = visited[t] \union {x[t]}
  BY DEF Latency!Read, Latency!TypeOK, Latency!main_vars
<1>3. Latency!IsCycle(v, helper) /\ ReaderFollows(t)
  BY DEF ReadersCycle
<1>4. ASSUME i'[t] < COUNT PROVE x'[t] = helper[i'[t]]
  <2>1. i[t] \in Latency!Elements /\ Latency!After(i[t]) = i[t] + 1
    BY <1>1, <1>2, <1>4 DEF Latency!Elements, Latency!After, Latency!LatencyAssumption
  <2>2. x[t] = helper[i[t]]
    BY <1>1, <1>2, <1>3, <1>4 DEF ReaderFollows, Latency!LatencyAssumption
  <2> QED  BY <1>2, <1>3, <2>1, <2>2 DEF Latency!IsCycle
<1>5. ASSUME NEW p \in Latency!Elements, p < i'[t] PROVE helper[p] \in visited'[t]
  <2>1. CASE p < i[t]
    BY <1>2, <1>3, <2>1 DEF ReaderFollows
  <2>2. CASE p = i[t]
    BY <1>2, <1>3, <2>2 DEF ReaderFollows, Latency!Elements, Latency!LatencyAssumption
  <2> QED  BY <1>1, <1>2, <1>5, <2>1, <2>2 DEF Latency!Elements, Latency!LatencyAssumption
<1> QED  BY <1>2, <1>4, <1>5 DEF ReaderFollows

(* Every step keeps every thread on its way along the cycle.               *)
LEMMA ReadersCycleStep ==
  ASSUME Latency!LatencyAssumption, ReadersIInv,
         [Latency!Main \/ \E t \in Latency!Tids : Latency!Thread(t)]_(Latency!vars)
  PROVE  ReadersCycle'
<1>1. Latency!TypeOK /\ ReadersCycle
  BY DEF ReadersIInv
<1>2. CASE Latency!CreateRandomCycle /\ UNCHANGED <<REPETITIONS, Latency!read_vars>>
  <2>1. Latency!IsShuffled(helper') /\ Latency!IsCycle(v',
            helper') /\ main' = "spawn" /\ helper'[0] = 0
    BY <1>2 DEF Latency!CreateRandomCycle, Latency!IsShuffled, Latency!IsCycle
  <2>2. \A t \in Latency!Tids : i'[t] = 0 /\ x'[t] = 0
    BY <1>1, <1>2 DEF Latency!CreateRandomCycle, ReadersCycle, Latency!read_vars
  <2>3. \A t \in Latency!Tids : ReaderFollows(t)'
    BY <2>1, <2>2 DEF ReaderFollows, Latency!Elements, Latency!LatencyAssumption
  <2>4. Latency!IsShuffled(helper)' /\ Latency!IsCycle(v, helper)'
    BY <2>1 DEF Latency!IsShuffled, Latency!IsCycle
  <2> QED  BY <2>1, <2>3, <2>4 DEF ReadersCycle
<1>3. CASE /\ main # "create" /\ main' # "create"
           /\ UNCHANGED <<helper, v>>
           /\ \A t \in Latency!Tids : ReaderFollows(t) => ReaderFollows(t)'
  BY <1>1, <1>3 DEF ReadersCycle, Latency!IsShuffled, Latency!IsCycle
<1>4. CASE (Latency!CreateThread \/ Latency!Go \/ Latency!Join \/ Latency!EndMeasurement
              \/ Latency!PrintResult)
             /\ UNCHANGED <<REPETITIONS, Latency!read_vars>>
  <2>1. main # "create" /\ main' # "create" /\ UNCHANGED <<helper, v>>
    BY <1>4 DEF Latency!CreateThread, Latency!Go, Latency!Join, Latency!EndMeasurement,
       Latency!PrintResult, Latency!EndOfTurn
  <2>2. \A t \in Latency!Tids : ReaderFollows(t) => ReaderFollows(t)'
    BY <1>4, <2>1 DEF ReaderFollows, Latency!read_vars
  <2> QED  BY <1>3, <2>1, <2>2
<1>5. ASSUME NEW t \in Latency!Tids, Latency!Thread(t) PROVE ReadersCycle'
  <2>1. main # "create" /\ main' # "create" /\ UNCHANGED <<helper, v>>
    BY <1>1, <1>5 DEF Latency!Thread, Latency!SeeGo, Latency!BeginRun, Latency!Read,
       Latency!EndRun, Latency!Return, Latency!Goto, Latency!main_vars, ReadersCycle
  <2>2. CASE Latency!SeeGo(t) \/ Latency!BeginRun(t) \/ Latency!EndRun(t) \/ Latency!Return(t)
    <3>1. UNCHANGED <<i, x, visited>>
      BY <2>2 DEF Latency!SeeGo, Latency!BeginRun, Latency!EndRun, Latency!Return,
         Latency!read_vars
    <3>2. \A u \in Latency!Tids : ReaderFollows(u) => ReaderFollows(u)'
      BY <2>1, <3>1 DEF ReaderFollows
    <3> QED  BY <1>3, <2>1, <3>2
  <2>3. CASE Latency!Read(t)
    <3>1. ReaderFollows(t)'
      BY <1>1, <2>1, <2>3, ReaderReads
    <3>2. \A u \in Latency!Tids \ {t} : i'[u] = i[u] /\ x'[u] = x[u] /\ visited'[u] = visited[u]
      BY <1>1, <2>3 DEF Latency!Read, Latency!TypeOK
    <3>3. \A u \in Latency!Tids : ReaderFollows(u) => ReaderFollows(u)'
      BY <2>1, <3>1, <3>2 DEF ReaderFollows
    <3> QED  BY <1>3, <2>1, <3>3
  <2> QED  BY <1>5, <2>2, <2>3 DEF Latency!Thread
<1>6. CASE UNCHANGED Latency!vars
  BY <1>1, <1>6 DEF Latency!vars, Latency!main_vars, Latency!read_vars, ReadersCycle,
     Latency!IsShuffled, Latency!IsCycle, ReaderFollows
<1> QED  BY <1>2, <1>4, <1>5, <1>6 DEF Latency!Main

(* A thread that has done COUNT reads has been everywhere.                 *)
LEMMA ReadersVisitEverything ==
  ASSUME Latency!LatencyAssumption, ReadersIInv, NEW t \in Latency!Tids, i[t] >= COUNT
  PROVE  visited[t] = Latency!Elements
<1>1. i[t] \in Nat /\ visited[t] \subseteq Latency!Elements
  BY DEF ReadersIInv, Latency!TypeOK
<1>2. main # "create"
  BY DEF ReadersIInv, ReadersCycle, Latency!LatencyAssumption
<1>3. \A p \in Latency!Elements : helper[p] \in visited[t]
  BY <1>1, <1>2 DEF ReadersIInv, ReadersCycle, ReaderFollows, Latency!Elements,
     Latency!LatencyAssumption
<1>4. \A e \in Latency!Elements : e \in visited[t]
  BY <1>2, <1>3 DEF ReadersIInv, ReadersCycle, Latency!IsShuffled
<1> QED  BY <1>1, <1>4

-----------------------------------------------------------------------------
\* read_latency_alex.cpp replaces every link, for any number of threads
\* and elements.  The elements are followed in the order of helper.  At
\* any time a thread is straight, has never met a replaced link and has
\* replaced all before the element it is at, or it is stuck at a replaced
\* one; and wherever a link is replaced some straight thread has gone on.

Replaced(p) == v[helper[p]] = helper[p]

Straight(t) ==
  /\ \A p \in Alex!Elements : p < i[t] => Replaced(p)
  /\ i[t] < COUNT => x[t] = helper[i[t]]
  /\ thread[t] = "store" => next[t] = helper[Alex!After(i[t])]

Stuck(t) ==
  /\ v[x[t]] = x[t]
  /\ thread[t] = "store" => next[t] = x[t]

Linked == \A p \in Alex!Elements : v[helper[p]] \in {helper[p], helper[Alex!After(p)]}

Led == \A p \in Alex!Elements : Replaced(p) => \E u \in Alex!Tids : Straight(u) /\ i[u] > p

ChasersCycle ==
  main # "create" =>
    /\ Alex!IsShuffled(helper)
    /\ Linked
    /\ \A t \in Alex!Tids : Straight(t) \/ Stuck(t)
    /\ Led

ChasersPhase ==
  /\ main = "create" => \A t \in Alex!Tids : thread[t] = "none"
  /\ main \in {"create", "go"} => turn = 1
  /\ main = "spawn" => \A t \in Alex!Tids : t >= turn => thread[t] = "none"
  /\ \A t \in Alex!Tids :
       /\ thread[t] \in {"none", "spin"} => i[t] = 0 /\ x[t] = 0
       /\ thread[t] \in {"load", "store"} => i[t] < COUNT
       /\ thread[t] = "ended" => i[t] = COUNT
  /\ main = "join" => \A t \in Alex!Tids : t < turn => thread[t] = "ended"
  /\ main \in {"check", "print", "done",
        "crashed"} => \A t \in Alex!Tids : thread[t] = "ended"
  /\ main \in {"print", "done"} => Alex!AllReplaced
  /\ main # "crashed"

ChasersIInv == Alex!TypeOK /\ ChasersPhase /\ ChasersCycle

-----------------------------------------------------------------------------
(* The invariant holds at the start, when nothing is linked yet.           *)
LEMMA ChasersInit == ASSUME Alex!LatencyAssumption PROVE Alex!Init => ChasersIInv
<1> SUFFICES ASSUME Alex!Init PROVE ChasersIInv
  OBVIOUS
<1>1. 0 \in Alex!Elements /\ 1 \in Alex!Tids /\ 0 \in 0 .. COUNT
  BY DEF Alex!Elements, Alex!Tids, Alex!LatencyAssumption
<1>2. Alex!TypeOK
  <2>1. Alex!MainTypeOK
    BY <1>1 DEF Alex!Init, Alex!MainInit, Alex!MainTypeOK
  <2>2. thread \in [Alex!Tids -> {"none", "spin", "load", "store", "ended"}]
    BY DEF Alex!Init, Alex!MainInit
  <2>3. /\ i \in [Alex!Tids -> 0 .. COUNT] /\ x \in [Alex!Tids -> Alex!Elements]
        /\ next \in [Alex!Tids -> Alex!Elements]
    BY <1>1 DEF Alex!Init
  <2> QED  BY <2>1, <2>2, <2>3 DEF Alex!TypeOK
<1>3. ChasersPhase
  BY <1>1 DEF Alex!Init, Alex!MainInit, ChasersPhase
<1>4. ChasersCycle
  BY DEF Alex!Init, Alex!MainInit, ChasersCycle
<1> QED  BY <1>2, <1>3, <1>4 DEF ChasersIInv

-----------------------------------------------------------------------------
(* After(i), the wrapped successor of the source's loops, is an element.   *)
LEMMA ChasersAfter ==
  ASSUME Alex!LatencyAssumption, NEW p \in Alex!Elements PROVE Alex!After(p) \in Alex!Elements
BY DEF Alex!LatencyAssumption, Alex!After, Alex!Elements

(* main's loops over the threads go from the first to the last.            *)
LEMMA ChasersTurn ==
  ASSUME Alex!LatencyAssumption, Alex!TypeOK, NEW from, NEW after, Alex!EndOfTurn(from, after)
  PROVE  turn' \in Alex!Tids /\ main' \in {main, after}
BY DEF Alex!LatencyAssumption, Alex!TypeOK, Alex!MainTypeOK, Alex!EndOfTurn, Alex!Tids

(* Every step of main and of a thread keeps every variable in its type.    *)
LEMMA ChasersTypeStep ==
  ASSUME Alex!LatencyAssumption, Alex!TypeOK, ChasersPhase, [Alex!Next]_(Alex!vars)
         PROVE Alex!TypeOK'
<1>1. CASE Alex!CreateRandomCycle /\ UNCHANGED Alex!thread_vars
  BY <1>1 DEF Alex!CreateRandomCycle, Alex!thread_vars, Alex!TypeOK, Alex!MainTypeOK
<1>2. CASE Alex!CreateThread /\ UNCHANGED Alex!thread_vars
  <2>1. turn' \in Alex!Tids /\ main' \in {main, "go"}
    BY <1>2, ChasersTurn DEF Alex!CreateThread
  <2> QED  BY <1>2, <2>1 DEF Alex!CreateThread, Alex!thread_vars, Alex!TypeOK, Alex!MainTypeOK
<1>3. CASE Alex!Go /\ UNCHANGED Alex!thread_vars
  BY <1>3 DEF Alex!Go, Alex!thread_vars, Alex!TypeOK, Alex!MainTypeOK
<1>4. CASE Alex!Join /\ UNCHANGED Alex!thread_vars
  <2>1. turn' \in Alex!Tids /\ main' \in {main, "check"}
    BY <1>4, ChasersTurn DEF Alex!Join
  <2> QED  BY <1>4, <2>1 DEF Alex!Join, Alex!thread_vars, Alex!TypeOK, Alex!MainTypeOK
<1>5. CASE Alex!CheckElements /\ UNCHANGED Alex!thread_vars
  BY <1>5 DEF Alex!CheckElements, Alex!thread_vars, Alex!TypeOK, Alex!MainTypeOK
<1>6. CASE Alex!PrintResult /\ UNCHANGED Alex!thread_vars
  BY <1>6 DEF Alex!PrintResult, Alex!thread_vars, Alex!TypeOK, Alex!MainTypeOK
<1>7. ASSUME NEW t \in Alex!Tids, Alex!SeeGo(t) PROVE Alex!TypeOK'
  BY <1>7 DEF Alex!SeeGo, Alex!Goto, Alex!thread_vars, Alex!TypeOK, Alex!MainTypeOK
<1>8. ASSUME NEW t \in Alex!Tids, Alex!Load(t) PROVE Alex!TypeOK'
  BY <1>8 DEF Alex!Load, Alex!Goto, Alex!TypeOK, Alex!MainTypeOK
<1>9. ASSUME NEW t \in Alex!Tids, Alex!Store(t) PROVE Alex!TypeOK'
  <2>1. i[t] < COUNT
    BY <1>9 DEF ChasersPhase, Alex!Store, Alex!Goto
  <2>2. i[t] + 1 \in 0 .. COUNT
    BY <2>1 DEF Alex!TypeOK, Alex!LatencyAssumption
  <2> QED  BY <1>9, <2>2 DEF Alex!Store, Alex!Goto, Alex!TypeOK, Alex!MainTypeOK
<1>10. CASE UNCHANGED Alex!vars
  BY <1>10 DEF Alex!vars, Alex!main_vars, Alex!thread_vars, Alex!TypeOK, Alex!MainTypeOK
<1> QED  BY <1>1, <1>2, <1>3, <1>4, <1>5, <1>6, <1>7, <1>8, <1>9, <1>10 DEF Alex!Next,
          Alex!Main, Alex!Thread

-----------------------------------------------------------------------------
(* The argument for the check behind the joins: when all threads have      *)
(* ended, one of them is straight, and it has been everywhere.             *)
LEMMA EndedThreadsWereEverywhere ==
  ASSUME Alex!LatencyAssumption, ChasersIInv, main # "create",
         \A t \in Alex!Tids : thread[t] = "ended"
  PROVE  Alex!AllReplaced
<1>1. \A t \in Alex!Tids : i[t] = COUNT
  BY DEF ChasersIInv, ChasersPhase
<1>2. 1 \in Alex!Tids
  BY DEF Alex!Tids, Alex!LatencyAssumption
<1>3. Alex!IsShuffled(helper) /\ Led /\ (Straight(1) \/ Stuck(1)) /\ x[1] \in Alex!Elements
  BY <1>2 DEF ChasersIInv, ChasersCycle, Alex!TypeOK
<1>4. PICK u \in Alex!Tids : Straight(u)
  <2>1. CASE Straight(1)
    BY <1>2, <2>1
  <2>2. CASE Stuck(1)
    <3>1. PICK p \in Alex!Elements : helper[p] = x[1]
      BY <1>3 DEF Alex!IsShuffled
    <3>2. Replaced(p)
      BY <2>2, <3>1 DEF Stuck, Replaced
    <3> QED  BY <1>3, <3>2 DEF Led
  <2> QED  BY <1>3, <2>1, <2>2
<1>5. \A p \in Alex!Elements : Replaced(p)
  <2>1. \A p \in Alex!Elements : p < COUNT
    BY DEF Alex!Elements, Alex!LatencyAssumption
  <2> QED  BY <1>1, <1>4, <2>1 DEF Straight
<1> QED  BY <1>3, <1>5 DEF Alex!AllReplaced, Replaced, Alex!IsShuffled

-----------------------------------------------------------------------------
(* What main and the threads know of each other by where they stand.       *)
LEMMA ChasersPhaseStep ==
  ASSUME Alex!LatencyAssumption, ChasersIInv, [Alex!Next]_(Alex!vars) PROVE ChasersPhase'
<1> USE DEF Alex!thread_vars
<1>1. Alex!TypeOK /\ ChasersPhase
  BY DEF ChasersIInv
<1>2. turn \in Alex!Tids /\ thread \in [Alex!Tids -> {"none", "spin", "load", "store",
          "ended"}]
  BY <1>1 DEF Alex!TypeOK, Alex!MainTypeOK
<1>3. CASE Alex!CreateRandomCycle /\ UNCHANGED Alex!thread_vars
  BY <1>1, <1>3 DEF Alex!CreateRandomCycle, ChasersPhase
<1>4. CASE Alex!CreateThread /\ UNCHANGED Alex!thread_vars
  <2>1. thread[turn] = "none" /\ main = "spawn" /\ main' \in {"spawn", "go"}
    BY <1>1, <1>2, <1>4 DEF Alex!CreateThread, Alex!EndOfTurn, ChasersPhase, Alex!Tids
  <2>2. main' = "spawn" => \A t \in Alex!Tids : t >= turn' => thread'[t] = "none"
    BY <1>1, <1>2, <1>4, <2>1 DEF Alex!CreateThread, Alex!EndOfTurn, ChasersPhase, Alex!Tids
  <2>3. main' = "go" => turn' = 1
    BY <1>4, <2>1 DEF Alex!CreateThread, Alex!EndOfTurn
  <2>4. \A t \in Alex!Tids : thread'[t] # thread[t] => thread'[t] = "spin" /\ thread[t] = "none"
    BY <1>2, <1>4, <2>1 DEF Alex!CreateThread
  <2> QED  BY <1>1, <1>4, <2>1, <2>2, <2>3, <2>4 DEF ChasersPhase
<1>5. CASE Alex!Go /\ UNCHANGED Alex!thread_vars
  BY <1>1, <1>2, <1>5 DEF Alex!Go, ChasersPhase, Alex!Tids
<1>6. CASE Alex!Join /\ UNCHANGED Alex!thread_vars
  <2>1. main = "join" /\ thread' = thread /\ main' \in {"join", "check"}
    BY <1>6 DEF Alex!Join, Alex!EndOfTurn
  <2>2. main' = "join" => \A t \in Alex!Tids : t < turn' => thread'[t] = "ended"
    BY <1>1, <1>2, <1>6 DEF Alex!Join, Alex!EndOfTurn, ChasersPhase, Alex!Tids
  <2>3. main' = "check" => \A t \in Alex!Tids : thread'[t] = "ended"
    BY <1>1, <1>2, <1>6 DEF Alex!Join, Alex!EndOfTurn, ChasersPhase, Alex!Tids
  <2> QED  BY <1>1, <1>6, <2>1, <2>2, <2>3 DEF ChasersPhase
<1>7. CASE Alex!CheckElements /\ UNCHANGED Alex!thread_vars
  <2>1. Alex!AllReplaced
    BY <1>1, <1>7, EndedThreadsWereEverywhere DEF Alex!CheckElements, ChasersPhase
  <2> QED  BY <1>1, <1>7, <2>1 DEF Alex!CheckElements, ChasersPhase, Alex!AllReplaced
<1>8. CASE Alex!PrintResult /\ UNCHANGED Alex!thread_vars
  BY <1>1, <1>8 DEF Alex!PrintResult, ChasersPhase, Alex!AllReplaced
<1>9. ASSUME NEW t \in Alex!Tids, Alex!SeeGo(t) PROVE ChasersPhase'
  BY <1>1, <1>2, <1>9 DEF Alex!SeeGo, Alex!Goto, ChasersPhase, Alex!AllReplaced,
     Alex!LatencyAssumption
<1>10. ASSUME NEW t \in Alex!Tids, Alex!Load(t) PROVE ChasersPhase'
  BY <1>1, <1>2, <1>10 DEF Alex!Load, Alex!Goto, ChasersPhase, Alex!AllReplaced
<1>11. ASSUME NEW t \in Alex!Tids, Alex!Store(t) PROVE ChasersPhase'
  <2>1. thread[t] = "store" /\ i[t] < COUNT /\ i[t] \in Nat /\ COUNT \in Nat
    BY <1>1, <1>11 DEF Alex!Store, Alex!Goto, ChasersPhase, Alex!TypeOK,
       Alex!LatencyAssumption
  <2>2. thread'[t] = IF i[t] + 1 < COUNT THEN "load" ELSE "ended"
    BY <1>2, <1>11 DEF Alex!Store, Alex!Goto
  <2>3. i'[t] = i[t] + 1
    BY <1>1, <1>11 DEF Alex!Store, Alex!TypeOK
  <2>4. \A u \in Alex!Tids \ {t} : thread'[u] = thread[u] /\ i'[u] = i[u] /\ x'[u] = x[u]
    BY <1>1, <1>11 DEF Alex!Store, Alex!Goto, Alex!TypeOK
  <2>5. main' = main /\ turn' = turn
    BY <1>11 DEF Alex!Store
  <2>6. main \notin {"create", "check", "print", "done", "crashed"}
    BY <1>1, <2>1 DEF ChasersPhase
  <2>7. \A u \in Alex!Tids : thread[u] \in {"none", "ended"} => thread'[u] = thread[u]
    BY <2>1, <2>4
  <2>8. thread'[t] \in {"load", "ended"} /\ (thread'[t] = "load" => i'[t] < COUNT)
                                         /\ (thread'[t] = "ended" => i'[t] = COUNT)
    BY <2>1, <2>2, <2>3
  <2> QED  BY <1>1, <2>4, <2>5, <2>6, <2>7, <2>8 DEF ChasersPhase
<1>12. CASE UNCHANGED Alex!vars
  BY <1>1, <1>12 DEF Alex!vars, Alex!main_vars, ChasersPhase, Alex!AllReplaced
<1> QED  BY <1>3, <1>4, <1>5, <1>6, <1>7, <1>8, <1>9, <1>10, <1>11, <1>12 DEF Alex!Next,
          Alex!Main, Alex!Thread

-----------------------------------------------------------------------------
(* Steps that touch neither the array nor what a thread remembers of it.   *)
LEMMA ChasersCycleKept ==
  ASSUME ChasersCycle, main' # "create" => main # "create",
         UNCHANGED <<v, helper, Alex!thread_vars>>,
         \A t \in Alex!Tids : thread'[t] = "store" => thread[t] = "store"
  PROVE  ChasersCycle'
<1>1. \A p \in Alex!Elements : Replaced(p)' <=> Replaced(p)
  BY DEF Replaced
<1>2. \A t \in Alex!Tids : (Straight(t) => Straight(t)') /\ (Stuck(t) => Stuck(t)') /\ i'[t] = i[t]
  BY <1>1 DEF Straight, Stuck, Alex!thread_vars
<1>3. (Led => Led') /\ (Linked => Linked')
  BY <1>1, <1>2 DEF Led, Linked
<1> QED  BY <1>2, <1>3 DEF ChasersCycle

(* The array is linked while all threads are before its first element.     *)
LEMMA ChasersCycleCreated ==
  ASSUME Alex!LatencyAssumption, Alex!TypeOK, ChasersPhase, Alex!CreateRandomCycle,
         UNCHANGED Alex!thread_vars
  PROVE  ChasersCycle'
<1>1. Alex!IsShuffled(helper') /\ helper' \in [Alex!Elements -> Alex!Elements] /\ helper'[0] = 0
  BY DEF Alex!CreateRandomCycle, Alex!IsShuffled
<1>2. \A p \in Alex!Elements : v'[helper'[p]] = helper'[Alex!After(p)]
  BY DEF Alex!CreateRandomCycle, Alex!IsCycle
<1>3. \A t \in Alex!Tids : i'[t] = 0 /\ x'[t] = 0 /\ thread'[t] = "none"
  BY DEF Alex!CreateRandomCycle, ChasersPhase, Alex!thread_vars
<1>4. \A p \in Alex!Elements : ~ Replaced(p)'
  <2>1. \A p \in Alex!Elements : Alex!After(p) \in Alex!Elements /\ Alex!After(p) # p
    BY ChasersAfter DEF Alex!After, Alex!Elements, Alex!LatencyAssumption
  <2>2. \A p \in Alex!Elements : helper'[Alex!After(p)] # helper'[p]
    BY <1>1, <2>1 DEF Alex!IsShuffled
  <2> QED  BY <1>2, <2>2 DEF Replaced
<1>5. \A t \in Alex!Tids : Straight(t)'
  <2>1. \A p \in Alex!Elements : ~ (p < 0)
    BY DEF Alex!Elements, Alex!LatencyAssumption
  <2> QED  BY <1>1, <1>3, <2>1 DEF Straight
<1>6. Linked' /\ Led'
  BY <1>2, <1>4 DEF Linked, Led
<1> QED  BY <1>1, <1>5, <1>6 DEF ChasersCycle

(* A thread reads the next link: where it has been replaced, the thread    *)
(* is stuck from here on, and the one that replaced it is ahead.           *)
LEMMA ChaserLoads ==
  ASSUME Alex!LatencyAssumption, Alex!TypeOK, ChasersPhase, ChasersCycle,
         NEW t \in Alex!Tids, Alex!Load(t)
  PROVE  ChasersCycle'
<1>1. thread[t] = "load" /\ i[t] < COUNT /\ i[t] \in Alex!Elements
  BY DEF Alex!Load, Alex!Goto, ChasersPhase, Alex!TypeOK, Alex!Elements,
     Alex!LatencyAssumption
<1>2. Alex!IsShuffled(helper) /\ Linked /\ Led /\ (\A u \in Alex!Tids : Straight(u) \/ Stuck(u))
  BY <1>1 DEF ChasersPhase, ChasersCycle
<1>3. v' = v /\ helper' = helper /\ i' = i /\ x' = x
  BY DEF Alex!Load
<1>4. next'[t] = v[x[t]] /\ \A u \in Alex!Tids \ {t} : next'[u] = next[u] /\ thread'[u] = thread[u]
  BY DEF Alex!Load, Alex!Goto, Alex!TypeOK
<1>5. \A p \in Alex!Elements : Replaced(p)' <=> Replaced(p)
  BY <1>3 DEF Replaced
<1>6. \A u \in Alex!Tids \ {t} : (Straight(u) => Straight(u)') /\ (Stuck(u) => Stuck(u)')
  BY <1>3, <1>4, <1>5 DEF Straight, Stuck
<1>7. Stuck(t) => Stuck(t)'
  BY <1>3, <1>4 DEF Stuck
<1>8. Straight(t) /\ ~ Replaced(i[t]) => Straight(t)'
  BY <1>1, <1>2, <1>3, <1>4, <1>5 DEF Straight, Linked, Replaced
<1>9. Straight(t) /\ Replaced(i[t]) => Stuck(t)'
  BY <1>1, <1>3, <1>4 DEF Straight, Replaced, Stuck
<1>10. Led'
  <2> SUFFICES ASSUME NEW p \in Alex!Elements, Replaced(p)
               PROVE  \E u \in Alex!Tids : Straight(u)' /\ i'[u] > p
    BY <1>5 DEF Led
  <2>1. PICK u \in Alex!Tids : Straight(u) /\ i[u] > p
    BY <1>2 DEF Led
  <2>2. CASE u = t /\ Replaced(i[t])
    <3>1. PICK w \in Alex!Tids : Straight(w) /\ i[w] > i[t]
      BY <1>1, <1>2, <2>2 DEF Led
    <3>2. i[w] > p /\ w # t
      BY <2>1, <2>2, <3>1 DEF Alex!TypeOK, Alex!Elements, Alex!LatencyAssumption
    <3> QED  BY <1>3, <1>6, <3>1, <3>2
  <2> QED  BY <1>3, <1>6, <1>8, <2>1, <2>2
<1>11. Linked'
  BY <1>2, <1>3 DEF Linked
<1> QED  BY <1>2, <1>3, <1>6, <1>7, <1>8, <1>9, <1>10, <1>11 DEF ChasersCycle

(* A thread replaces a link: only one that is straight can be the first to *)
(* do so, and it goes on to the next element.                              *)
LEMMA ChaserStores ==
  ASSUME Alex!LatencyAssumption, Alex!TypeOK, ChasersPhase, ChasersCycle,
         NEW t \in Alex!Tids, Alex!Store(t)
  PROVE  ChasersCycle'
<1>1. thread[t] = "store" /\ i[t] < COUNT /\ i[t] \in Alex!Elements /\ i[t] \in Nat
  BY DEF Alex!Store, Alex!Goto, ChasersPhase, Alex!TypeOK, Alex!Elements,
     Alex!LatencyAssumption
<1>2. Alex!IsShuffled(helper) /\ Linked /\ Led /\ (\A u \in Alex!Tids : Straight(u) \/ Stuck(u))
  BY <1>1 DEF ChasersPhase, ChasersCycle
<1>3. /\ helper' = helper /\ next' = next /\ i'[t] = i[t] + 1 /\ x'[t] = next[t]
      /\ thread'[t] # "store"
  BY DEF Alex!Store, Alex!Goto, Alex!TypeOK
<1>4. \A u \in Alex!Tids \ {t} : i'[u] = i[u] /\ x'[u] = x[u] /\ thread'[u] = thread[u]
  BY DEF Alex!Store, Alex!Goto, Alex!TypeOK
<1>5. x \in [Alex!Tids -> Alex!Elements] /\ helper \in [Alex!Elements -> Alex!Elements]
  BY DEF Alex!TypeOK, Alex!MainTypeOK
<1>6. v'[x[t]] = x[t] /\ \A e \in Alex!Elements \ {x[t]} : v'[e] = v[e]
  BY <1>5 DEF Alex!Store, Alex!TypeOK, Alex!MainTypeOK
<1>7. \A p \in Alex!Elements : (Replaced(p) => Replaced(p)') /\ (helper[p] = x[t] => Replaced(p)')
                         /\ (helper[p] # x[t] /\ Replaced(p)' => Replaced(p))
  BY <1>3, <1>5, <1>6 DEF Replaced
<1>8. \A u \in Alex!Tids \ {t} : (Straight(u) => Straight(u)') /\ (Stuck(u) => Stuck(u)')
  <2>1. ASSUME NEW u \in Alex!Tids \ {t}, Straight(u) PROVE Straight(u)'
    BY <1>3, <1>4, <1>7, <2>1 DEF Straight
  <2>2. ASSUME NEW u \in Alex!Tids \ {t}, Stuck(u) PROVE Stuck(u)'
    BY <1>3, <1>4, <1>5, <1>6, <2>2 DEF Stuck
  <2> QED  BY <2>1, <2>2
<1>9. ASSUME Straight(t) PROVE Straight(t)'
  <2>1. x[t] = helper[i[t]] /\ next[t] = helper[Alex!After(i[t])]
    BY <1>1, <1>9 DEF Straight
  <2>2. \A p \in Alex!Elements : p < i[t] + 1 => p < i[t] \/ p = i[t]
    BY <1>1 DEF Alex!Elements, Alex!LatencyAssumption
  <2>3. \A p \in Alex!Elements : p < i'[t] => Replaced(p)'
    BY <1>3, <1>7, <1>9, <2>1, <2>2 DEF Straight
  <2>4. i'[t] < COUNT => x'[t] = helper'[i'[t]]
    BY <1>1, <1>3, <2>1 DEF Alex!After, Alex!LatencyAssumption
  <2> QED  BY <1>3, <2>3, <2>4 DEF Straight
<1>10. Stuck(t) => Stuck(t)'
  BY <1>1, <1>3, <1>6 DEF Stuck
<1>11. Led'
  <2> SUFFICES ASSUME NEW p \in Alex!Elements, Replaced(p)'
               PROVE  \E u \in Alex!Tids : Straight(u)' /\ i'[u] > p
    BY DEF Led
  <2>1. CASE Replaced(p)
    <3>1. PICK u \in Alex!Tids : Straight(u) /\ i[u] > p
      BY <1>2, <2>1 DEF Led
    <3>2. i'[u] > p
      BY <1>1, <1>3, <1>4, <3>1 DEF Alex!Elements, Alex!LatencyAssumption
    <3> QED  BY <1>8, <1>9, <3>1, <3>2
  <2>2. CASE ~ Replaced(p)
    <3>1. helper[p] = x[t] /\ ~ Stuck(t)
      BY <1>7, <2>2 DEF Replaced, Stuck
    <3>2. Straight(t) /\ helper[i[t]] = helper[p]
      BY <1>1, <1>2, <3>1 DEF Straight
    <3>3. i[t] = p
      BY <1>1, <1>2, <3>2 DEF Alex!IsShuffled
    <3> QED  BY <1>1, <1>3, <1>9, <3>2, <3>3
  <2> QED  BY <2>1, <2>2
<1>12. Linked'
  BY <1>2, <1>3, <1>5, <1>6 DEF Linked
<1> QED  BY <1>2, <1>3, <1>8, <1>9, <1>10, <1>11, <1>12 DEF ChasersCycle

(* Every step keeps what array and threads know of the cycle.              *)
LEMMA ChasersCycleStep ==
  ASSUME Alex!LatencyAssumption, ChasersIInv, [Alex!Next]_(Alex!vars) PROVE ChasersCycle'
<1>1. Alex!TypeOK /\ ChasersPhase /\ ChasersCycle
  BY DEF ChasersIInv
<1>2. CASE Alex!CreateRandomCycle /\ UNCHANGED Alex!thread_vars
  BY <1>1, <1>2, ChasersCycleCreated
<1>3. CASE Alex!CreateThread /\ UNCHANGED Alex!thread_vars
  <2>1. \A t \in Alex!Tids : thread'[t] = "store" => thread[t] = "store"
    BY <1>1, <1>3 DEF Alex!CreateThread, Alex!TypeOK
  <2> QED  BY <1>1, <1>3, <2>1, ChasersCycleKept DEF Alex!CreateThread, Alex!EndOfTurn
<1>4. CASE (Alex!Go \/ Alex!Join \/ Alex!CheckElements \/ Alex!PrintResult)
             /\ UNCHANGED Alex!thread_vars
  BY <1>1, <1>4, ChasersCycleKept DEF Alex!Go, Alex!Join, Alex!EndOfTurn,
     Alex!CheckElements, Alex!PrintResult
<1>5. ASSUME NEW t \in Alex!Tids, Alex!SeeGo(t) PROVE ChasersCycle'
  <2>1. \A u \in Alex!Tids : thread'[u] = "store" => thread[u] = "store"
    BY <1>1, <1>5 DEF Alex!SeeGo, Alex!Goto, Alex!TypeOK
  <2> QED  BY <1>1, <1>5, <2>1, ChasersCycleKept DEF Alex!SeeGo
<1>6. ASSUME NEW t \in Alex!Tids, Alex!Load(t) PROVE ChasersCycle'
  BY <1>1, <1>6, ChaserLoads
<1>7. ASSUME NEW t \in Alex!Tids, Alex!Store(t) PROVE ChasersCycle'
  BY <1>1, <1>7, ChaserStores
<1>8. CASE UNCHANGED Alex!vars
  BY <1>1, <1>8, ChasersCycleKept DEF Alex!vars, Alex!main_vars
<1> QED  BY <1>2, <1>3, <1>4, <1>5, <1>6, <1>7, <1>8 DEF Alex!Next, Alex!Main, Alex!Thread

-----------------------------------------------------------------------------
(* read_latency_alex.cpp, any number of threads and elements: every state  *)
(* satisfies the invariant.                                                *)
THEOREM ChasersInvariantHolds == ASSUME Alex!LatencyAssumption
       PROVE Alex!Spec => []ChasersIInv
<1>1. ChasersIInv /\ [Alex!Next]_(Alex!vars) => ChasersIInv'
  BY ChasersTypeStep, ChasersPhaseStep, ChasersCycleStep DEF ChasersIInv
<1> QED  BY <1>1, ChasersInit, PTL DEF Alex!Spec

(* The check behind the joins never throws: although a thread overtaken by *)
(* another may be stuck at one element for ever, every link is replaced    *)
(* when all have ended.                                                    *)
LEMMA ChasersVisitedByInv == ASSUME Alex!LatencyAssumption, ChasersIInv
       PROVE Alex!EveryElementIsVisited
<1>1. main = "check" => Alex!AllReplaced
  BY EndedThreadsWereEverywhere DEF ChasersIInv, ChasersPhase
<1> QED  BY <1>1 DEF Alex!EveryElementIsVisited, ChasersIInv, ChasersPhase

(* The same as a property of every behaviour of the program.               *)
THEOREM EveryElementIsReplaced == ASSUME Alex!LatencyAssumption
       PROVE Alex!Spec => []Alex!EveryElementIsVisited
BY ChasersVisitedByInv, ChasersInvariantHolds, PTL

-----------------------------------------------------------------------------
\* The two latency benchmarks as programs of the harness.

ReadersInv == program = "read_latency" => ReadersIInv
ChasersInv == program = "read_latency_alex" => ChasersIInv

(* The invariants of the two programs are invariants of the harness.       *)
LEMMA LatencyInit == Init => ReadersInv /\ ChasersInv
<1> SUFFICES ASSUME Init PROVE ReadersInv /\ ChasersInv
  OBVIOUS
<1>1. ASSUME program = "read_latency" PROVE ReadersIInv
  <2>1. Latency!Init
    BY <1>1 DEF Init, InitOf, InitOfLatency
  <2> QED  BY <2>1, Assumptions, ReadersInit
<1>2. ASSUME program = "read_latency_alex" PROVE ChasersIInv
  <2>1. Alex!Init
    BY <1>2 DEF Init, InitOf, InitOfLatency
  <2> QED  BY <2>1, Assumptions, ChasersInit
<1> QED  BY <1>1, <1>2 DEF ReadersInv, ChasersInv

(* ... and every step keeps them.                                          *)
LEMMA LatencyStep == ReadersInv /\ ChasersInv /\ [Next]_vars => ReadersInv' /\ ChasersInv'
<1> SUFFICES ASSUME ReadersInv, ChasersInv, [Next]_vars PROVE ReadersInv' /\ ChasersInv'
  OBVIOUS
<1>1. program' = program
  BY SameProgram
<1>2. ASSUME program = "read_latency" PROVE ReadersIInv'
  <2>1. ReadersIInv
    BY <1>2 DEF ReadersInv
  <2>2. Latency!TypeOK' /\ ReadersCycle'
    BY <1>2, <2>1, Assumptions, ReadersStep, ReadersTypeStep, ReadersCycleStep DEF ReadersIInv
  <2> QED  BY <2>2 DEF ReadersIInv
<1>3. ASSUME program = "read_latency_alex" PROVE ChasersIInv'
  <2>1. ChasersIInv
    BY <1>3 DEF ChasersInv
  <2>2. Alex!TypeOK' /\ ChasersPhase' /\ ChasersCycle'
    BY <1>3, <2>1, Assumptions, ChasersStep, ChasersTypeStep, ChasersPhaseStep,
       ChasersCycleStep DEF ChasersIInv
  <2> QED  BY <2>2 DEF ChasersIInv
<1> QED  BY <1>1, <1>2, <1>3 DEF ReadersInv, ChasersInv

(* A thread of read_latency.cpp that has done COUNT reads has been at      *)
(* every element, and the check at the end of read_latency_alex.cpp never  *)
(* throws, although a thread overtaken by another may be stuck at one      *)
(* element for ever.                                                       *)
THEOREM EveryElementIsReached == Spec => []EveryElementIsVisited
<1>1. ReadersInv /\ ChasersInv => EveryElementIsVisited
  <2> SUFFICES ASSUME ReadersInv, ChasersInv PROVE EveryElementIsVisited
    OBVIOUS
  <2>1. ASSUME program = "read_latency" PROVE Latency!EveryElementIsVisited
    <3>1. ASSUME NEW t \in Latency!Tids, i[t] >= COUNT PROVE visited[t] = Latency!Elements
      BY <2>1, <3>1, Assumptions, ReadersVisitEverything DEF ReadersInv
    <3> QED  BY <3>1 DEF Latency!EveryElementIsVisited
  <2>2. ASSUME program = "read_latency_alex" PROVE Alex!EveryElementIsVisited
    BY <2>2, Assumptions, ChasersVisitedByInv DEF ChasersInv
  <2> QED  BY <2>1, <2>2 DEF EveryElementIsVisited
<1> QED  BY <1>1, LatencyInit, LatencyStep, PTL DEF Spec

-----------------------------------------------------------------------------
(* The page flush benchmark: a thread of a round that is over has ended,   *)
(* one of a round to come is not there yet, and while main joins, those    *)
(* before turn have ended.                                                 *)
AllEnded == \A tid \in Flush!Tids : thread[<<round, tid>>] = "ended"

RoundsInv ==
  /\ turn \in Flush!Tids /\ round \in 1 .. Rounds
  /\ thread \in [Flush!AllThreads -> {"none", "prepare", "wait", "flush", "check", "ended"}]
  /\ main \in {"spawn", "await", "open", "join", "sum", "done"}
  /\ \A t \in Flush!AllThreads :
       /\ t[1] > round => thread[t] = "none"
       /\ t[1] < round => thread[t] = "ended"
  /\ main \in {"await", "open"} => turn = 1
  /\ main = "join" => \A tid \in Flush!Tids : tid < turn => thread[<<round, tid>>] = "ended"
  /\ main \in {"sum", "done"} => AllEnded /\ turn = 1

FlushInv == program = "page_flush" => RoundsInv

(* No thread is there when the first round begins.                         *)
LEMMA FlushInit == Init => FlushInv
<1> SUFFICES ASSUME Init, program = "page_flush" PROVE RoundsInv
  BY DEF FlushInv
<1>1. Flush!Init
  BY DEF Init, InitOf, InitOfLatency
<1>2. 1 \in Flush!Tids /\ 1 \in 1 .. Rounds
  BY FlushRoundsAssumption DEF Flush!Tids
<1>3. \A t \in Flush!AllThreads : ~ (t[1] < 1)
  BY FlushRoundsAssumption DEF Flush!AllThreads
<1> QED  BY <1>1, <1>2, <1>3 DEF Flush!Init, RoundsInv

(* A thread moves only in the round main is in, as in all others none has  *)
(* begun or all have ended; main begins the next round when it has joined  *)
(* every thread of this one.                                               *)
LEMMA RoundsStep ==
  ASSUME RoundsInv, Flush!Main \/ \E t \in Flush!AllThreads : Flush!Thread(t)
  PROVE  RoundsInv'
<1>1. /\ turn \in Nat /\ 1 <= turn /\ turn <= THREAD_COUNT /\ round \in Nat /\ round <= Rounds
      /\ THREAD_COUNT \in Nat \ {0} /\ Rounds \in Nat \ {0} /\ 1 \in Flush!Tids
      /\ <<round, turn>> \in Flush!AllThreads
      /\ \A t \in Flush!AllThreads : t[1] \in Nat /\ t[2] \in Flush!Tids /\ t = <<t[1], t[2]>>
      /\ \A tid \in Flush!Tids : <<round, tid>> \in Flush!AllThreads /\ tid \in Nat
  BY FlushRoundsAssumption DEF RoundsInv, Flush!Tids, Flush!AllThreads
<1>2. ASSUME Flush!CreateThread PROVE RoundsInv'
  <2>1. turn' \in Flush!Tids /\ main' \in {"spawn", "await"} /\ (main' = "await" => turn' = 1)
    BY <1>1, <1>2 DEF Flush!CreateThread, Flush!EndOfTurn, Flush!Tids
  <2> QED  BY <1>1, <1>2, <2>1 DEF Flush!CreateThread, Flush!round_vars, RoundsInv
<1>3. ASSUME Flush!AwaitReady \/ Flush!OpenBarrier PROVE RoundsInv'
  <2>1. \A tid \in Flush!Tids : ~ (tid < 1)
    BY DEF Flush!Tids
  <2> QED  BY <1>1, <1>3, <2>1 DEF Flush!AwaitReady, Flush!OpenBarrier, Flush!round_vars, RoundsInv
<1>4. ASSUME Flush!Join PROVE RoundsInv'
  <2>1. /\ main = "join" /\ thread' = thread /\ round' = round
        /\ thread[<<round, turn>>] = "ended"
        /\ \/ turn < THREAD_COUNT /\ turn' = turn + 1 /\ main' = "join"
           \/ turn = THREAD_COUNT /\ turn' = 1 /\ main' = "sum"
    BY <1>4 DEF Flush!Join, Flush!EndOfTurn, Flush!round_vars
  <2>2. \A tid \in Flush!Tids : tid < turn + 1 => thread[<<round, tid>>] = "ended"
    <3>1. \A tid \in Nat : tid < turn + 1 => tid < turn \/ tid = turn
      BY <1>1
    <3> QED  BY <1>1, <2>1, <3>1 DEF RoundsInv
  <2>3. turn = THREAD_COUNT => \A tid \in Flush!Tids : tid < turn + 1
    BY <1>1 DEF Flush!Tids
  <2>4. turn' \in Flush!Tids
    BY <1>1, <2>1 DEF Flush!Tids
  <2> QED  BY <2>1, <2>2, <2>3, <2>4 DEF RoundsInv, AllEnded
<1>5. ASSUME Flush!EndRound PROVE RoundsInv'
  <2>1. main = "sum" /\ turn = 1 /\ turn' = turn /\ thread' = thread /\ AllEnded
    BY <1>5 DEF Flush!EndRound, RoundsInv
  <2>2. CASE round < Rounds /\ main' = "spawn" /\ round' = round + 1
    <3>1. round + 1 \in 1 .. Rounds
      BY <1>1, <2>2
    <3>2. \A t \in Flush!AllThreads :
            /\ t[1] > round + 1 => t[1] > round
            /\ t[1] < round + 1 => t[1] < round \/ t[1] = round
      BY <1>1
    <3>3. \A t \in Flush!AllThreads : t[1] = round => thread[t] = "ended"
      BY <1>1, <2>1 DEF AllEnded
    <3> QED  BY <2>1, <2>2, <3>1, <3>2, <3>3 DEF RoundsInv
  <2>3. CASE main' = "done" /\ UNCHANGED Flush!round_vars
    BY <2>1, <2>3 DEF RoundsInv, AllEnded, Flush!round_vars
  <2> QED  BY <1>5, <2>2, <2>3 DEF Flush!EndRound
<1>6. ASSUME NEW t \in Flush!AllThreads, Flush!Thread(t) PROVE RoundsInv'
  <2>1. /\ main' = main /\ turn' = turn /\ round' = round
        /\ thread[t] \notin {"none", "ended"}
        /\ \E to \in {"wait", "flush", "check", "ended"} : thread' = [thread EXCEPT ![t] = to]
    BY <1>6 DEF Flush!Thread, Flush!Prepare, Flush!AwaitBarrier, Flush!FlushAll,
       Flush!CheckNvmContent, Flush!Goto, Flush!round_vars
  <2>2. \A s \in Flush!AllThreads : thread[s] \in {"none", "ended"} => thread'[s] = thread[s]
    BY <2>1 DEF RoundsInv
  <2>3. thread' \in [Flush!AllThreads -> {"none", "prepare", "wait", "flush", "check", "ended"}]
    BY <2>1 DEF RoundsInv
  <2> QED  BY <1>1, <2>1, <2>2, <2>3 DEF RoundsInv, AllEnded
<1> QED  BY <1>2, <1>3, <1>4, <1>5, <1>6 DEF Flush!Main

(* ... in the harness, where the other programs leave it alone.            *)
LEMMA FlushStep == FlushInv /\ [Next]_vars => FlushInv'
<1> SUFFICES ASSUME FlushInv, [Next]_vars, program = "page_flush" PROVE RoundsInv'
  BY SameProgram DEF FlushInv
<1>1. RoundsInv
  BY DEF FlushInv
<1>2. \/ Flush!Main
      \/ \E t \in Flush!AllThreads : Flush!Thread(t)
      \/ UNCHANGED vars
  BY DEF Next, Main, Exit, InInterference, InFlush, InBandwidth, InLatency, InAlex
<1>3. CASE UNCHANGED vars
  BY <1>1, <1>3 DEF vars, flush_vars, RoundsInv, AllEnded
<1> QED  BY <1>1, <1>2, <1>3, RoundsStep

(* No thread of the page flush benchmark outlives its round, whose stack   *)
(* frame it refers to and whose file a thread of the next one opens:       *)
(* RunBenchmarkThreaded joins every thread before it returns.              *)
THEOREM NoThreadIsLeftBehind == Spec => []NoThreadOutlivesItsRound
<1>1. FlushInv => NoThreadOutlivesItsRound
  <2> SUFFICES ASSUME FlushInv, program = "page_flush",
                      NEW t \in Flush!AllThreads, thread[t] \notin {"none", "ended"}
               PROVE  t[1] = round /\ main # "done"
    BY DEF NoThreadOutlivesItsRound, Flush!NoThreadOutlivesItsRound
  <2>1. RoundsInv /\ t[1] \in Nat /\ t[2] \in Flush!Tids /\ t = <<t[1], t[2]>> /\ round \in Nat
    BY FlushRoundsAssumption DEF FlushInv, RoundsInv, Flush!AllThreads
  <2>2. t[1] = round
    BY <2>1 DEF RoundsInv
  <2> QED  BY <2>1, <2>2 DEF RoundsInv, AllEnded
<1> QED  BY <1>1, FlushInit, FlushStep, PTL DEF Spec

-----------------------------------------------------------------------------
(* A counter of the threads that have come to a barrier, one each, tells   *)
(* when all are there.                                                     *)
LEMMA CountedUp ==
  ASSUME NEW n \in Nat
  PROVE  /\ \A S \in SUBSET (1 .. n) : Cardinality(S) \in Nat /\ Cardinality(S) <= n
         /\ \A S \in SUBSET (1 .. n) : Cardinality(S) = n => S = 1 .. n
         /\ \A S \in SUBSET (1 .. n) : \A t \in (1 .. n) \ S :
              Cardinality(S \union {t}) = Cardinality(S) + 1
<1>1. IsFiniteSet(1 .. n) /\ Cardinality(1 .. n) = n
  BY FS_Interval
<1>2. ASSUME NEW S \in SUBSET (1 .. n)
      PROVE  IsFiniteSet(S) /\ Cardinality(S) <= n /\ (Cardinality(S) = n => S = 1 .. n)
  BY <1>1, FS_Subset
<1>3. ASSUME NEW S \in SUBSET (1 .. n) PROVE Cardinality(S) \in Nat
  BY <1>2, FS_CardinalityType
<1>4. ASSUME NEW S \in SUBSET (1 .. n), NEW t \in (1 .. n) \ S
      PROVE  Cardinality(S \union {t}) = Cardinality(S) + 1
  BY <1>2, FS_AddElement
<1> QED  BY <1>2, <1>3, <1>4

-----------------------------------------------------------------------------
(* The page flush benchmark: the counter counts the prepared threads of    *)
(* this round, and the barrier opens when it has counted all.              *)
Prepared == {tid \in Flush!Tids : thread[<<round, tid>>] \notin {"none", "prepare"}}

StartInv ==
  /\ ready_count = Cardinality(Prepared)
  /\ start_barrier \in BOOLEAN
  /\ main \in {"spawn", "await", "open"} => ~ start_barrier
  /\ main = "spawn" => \A tid \in Flush!Tids : tid >= turn => thread[<<round, tid>>] = "none"
  /\ start_barrier \/ main = "open" => Prepared = Flush!Tids
  /\ \A tid \in Flush!Tids :
       thread[<<round, tid>>] \in {"flush", "check", "ended"} => start_barrier

FlushStartInv == program = "page_flush" => StartInv

(* The first round begins with the counter at 0 and the barrier closed.    *)
LEMMA FlushStartInit == Init => FlushStartInv
<1> SUFFICES ASSUME Init, program = "page_flush" PROVE StartInv
  BY DEF FlushStartInv
<1>1. Flush!Init
  BY DEF Init, InitOf, InitOfLatency
<1>2. \A tid \in Flush!Tids : <<1, tid>> \in Flush!AllThreads
  BY FlushRoundsAssumption DEF Flush!Tids, Flush!AllThreads
<1>3. \A tid \in Flush!Tids : thread[<<round, tid>>] = "none"
  BY <1>1, <1>2 DEF Flush!Init
<1>4. Prepared = {}
  BY <1>3 DEF Prepared
<1>5. ready_count = 0 /\ start_barrier = FALSE /\ main = "spawn"
  BY <1>1 DEF Flush!Init, Flush!FreshRound
<1> QED  BY <1>3, <1>4, <1>5, FS_EmptySet DEF StartInv

(* main opens the barrier last, and begins each round with fresh counts.   *)
LEMMA StartOfMain == ASSUME RoundsInv, StartInv, Flush!Main PROVE StartInv'
<1>1. /\ turn \in Nat /\ 1 <= turn /\ turn <= THREAD_COUNT /\ round \in Nat /\ turn \in Flush!Tids
      /\ THREAD_COUNT \in Nat \ {0} /\ <<round, turn>> \in Flush!AllThreads
      /\ \A tid \in Flush!Tids : <<round, tid>> \in Flush!AllThreads /\ tid \in Nat
  BY FlushRoundsAssumption DEF RoundsInv, Flush!Tids, Flush!AllThreads
<1>2. ASSUME Flush!CreateThread PROVE StartInv'
  <2>1. /\ main = "spawn" /\ round' = round /\ UNCHANGED <<ready_count, start_barrier>>
        /\ thread' = [thread EXCEPT ![<<round, turn>>] = "prepare"]
        /\ \/ main' = "spawn" /\ turn' = turn + 1
           \/ main' = "await"
    BY <1>2 DEF Flush!CreateThread, Flush!EndOfTurn, Flush!round_vars
  <2>2. thread[<<round, turn>>] = "none"
    BY <1>1, <2>1 DEF StartInv
  <2>3. /\ thread'[<<round, turn>>] = "prepare"
        /\ \A tid \in Flush!Tids : tid # turn => thread'[<<round, tid>>] = thread[<<round, tid>>]
    BY <1>1, <2>1 DEF RoundsInv
  <2>4. Prepared' = Prepared
    BY <2>1, <2>2, <2>3 DEF Prepared
  <2>5. \A tid \in Flush!Tids : tid >= turn + 1 => tid >= turn /\ tid # turn
    BY <1>1
  <2> QED  BY <2>1, <2>3, <2>4, <2>5 DEF StartInv
<1>3. ASSUME Flush!AwaitReady PROVE StartInv'
  <2>1. /\ main = "await" /\ main' = "open" /\ ready_count = THREAD_COUNT
        /\ UNCHANGED <<turn, thread, round, ready_count, start_barrier>>
    BY <1>3 DEF Flush!AwaitReady, Flush!round_vars
  <2>2. Prepared \in SUBSET (1 .. THREAD_COUNT) /\ Prepared' = Prepared
    BY <2>1 DEF Prepared, Flush!Tids
  <2>3. Cardinality(Prepared) = THREAD_COUNT
    BY <2>1 DEF StartInv
  <2>4. Prepared = Flush!Tids
    BY <1>1, <2>2, <2>3, CountedUp DEF Flush!Tids
  <2> QED  BY <2>1, <2>2, <2>4 DEF StartInv
<1>4. ASSUME Flush!OpenBarrier PROVE StartInv'
  <2>1. Prepared' = Prepared
    BY <1>4 DEF Flush!OpenBarrier, Prepared
  <2> QED  BY <1>4, <2>1 DEF Flush!OpenBarrier, StartInv
<1>5. ASSUME Flush!Join PROVE StartInv'
  <2>1. /\ UNCHANGED <<thread, round, ready_count, start_barrier>>
        /\ main' \in {"join", "sum"}
    BY <1>5 DEF Flush!Join, Flush!EndOfTurn, Flush!round_vars
  <2>2. Prepared' = Prepared
    BY <2>1 DEF Prepared
  <2> QED  BY <2>1, <2>2 DEF StartInv
<1>6. ASSUME Flush!EndRound PROVE StartInv'
  <2>1. thread' = thread /\ turn' = turn /\ main = "sum"
    BY <1>6 DEF Flush!EndRound
  <2>2. CASE main' = "done" /\ UNCHANGED Flush!round_vars
    <3>1. UNCHANGED <<round, ready_count, start_barrier>> /\ Prepared' = Prepared
      BY <2>1, <2>2 DEF Flush!round_vars, Prepared
    <3> QED  BY <2>1, <2>2, <3>1 DEF StartInv
  <2>3. CASE /\ round < Rounds /\ main' = "spawn" /\ round' = round + 1
             /\ Flush!FreshRound(ready_count', start_barrier', times')
    <3>1. ready_count' = 0 /\ start_barrier' = FALSE
      BY <2>3 DEF Flush!FreshRound
    <3>2. \A tid \in Flush!Tids : thread[<<round + 1, tid>>] = "none"
      <4>1. round + 1 \in 1 .. Rounds /\ round + 1 > round
        BY <1>1, <2>3, FlushRoundsAssumption
      <4>2. \A tid \in Flush!Tids : <<round + 1, tid>> \in Flush!AllThreads
        BY <4>1 DEF Flush!AllThreads
      <4> QED  BY <4>1, <4>2 DEF RoundsInv
    <3>3. \A tid \in Flush!Tids : thread'[<<round', tid>>] = "none"
      BY <2>1, <2>3, <3>2
    <3>4. Prepared' = {}
      BY <3>3 DEF Prepared
    <3> QED  BY <2>3, <3>1, <3>3, <3>4, FS_EmptySet DEF StartInv
  <2> QED  BY <1>6, <2>2, <2>3 DEF Flush!EndRound
<1> QED  BY <1>2, <1>3, <1>4, <1>5, <1>6 DEF Flush!Main

(* A thread is counted once, when it has prepared its pages.               *)
LEMMA StartOfThreads ==
  ASSUME RoundsInv, StartInv, NEW t \in Flush!AllThreads, Flush!Thread(t)
  PROVE  StartInv'
<1>1. /\ t[1] \in Nat /\ t[2] \in Flush!Tids /\ t = <<t[1], t[2]>> /\ round \in Nat
      /\ \A tid \in Flush!Tids : <<round, tid>> \in Flush!AllThreads /\ (tid # t[2] => <<round, tid>> # t)
      /\ thread \in [Flush!AllThreads -> {"none", "prepare", "wait", "flush", "check", "ended"}]
      /\ Prepared \in SUBSET (1 .. THREAD_COUNT) /\ THREAD_COUNT \in Nat
      /\ Flush!Tids = 1 .. THREAD_COUNT
  BY FlushRoundsAssumption DEF RoundsInv, Flush!Tids, Flush!AllThreads, Prepared
<1>2. main' = main /\ turn' = turn /\ round' = round /\ start_barrier' = start_barrier
  BY DEF Flush!Thread, Flush!Prepare, Flush!AwaitBarrier, Flush!FlushAll,
     Flush!CheckNvmContent, Flush!round_vars
<1>3. ASSUME NEW from \in {"prepare", "wait", "flush", "check"},
             NEW to \in {"wait", "flush", "check", "ended"}, Flush!Goto(t, from, to)
      PROVE  /\ t = <<round, t[2]>> /\ thread[<<round, t[2]>>] = from /\ thread'[<<round, t[2]>>] = to
             /\ \A tid \in Flush!Tids : tid # t[2] => thread'[<<round, tid>>] = thread[<<round, tid>>]
  <2>1. thread[t] = from /\ thread' = [thread EXCEPT ![t] = to]
    BY <1>3 DEF Flush!Goto
  <2>2. t[1] = round
    BY <1>1, <2>1 DEF RoundsInv
  <2> QED  BY <1>1, <2>1, <2>2
<1>4. CASE Flush!Prepare(t)
  <2>1. Flush!Goto(t, "prepare", "wait") /\ ready_count' = ready_count + 1
    BY <1>4 DEF Flush!Prepare
  <2>2. Prepared' = Prepared \union {t[2]} /\ t[2] \notin Prepared
    BY <1>1, <1>2, <1>3, <2>1 DEF Prepared
  <2>3. ready_count' = Cardinality(Prepared')
    BY <1>1, <2>1, <2>2, CountedUp DEF StartInv
  <2>4. main # "spawn" \/ ~ (t[2] >= turn)
    BY <1>3, <2>1, <1>1 DEF StartInv
  <2>5. ~ start_barrier /\ main # "open"
    BY <1>1, <2>2 DEF StartInv
  <2> QED  BY <1>1, <1>2, <1>3, <2>1, <2>3, <2>4, <2>5 DEF StartInv
<1>5. CASE Flush!AwaitBarrier(t) \/ Flush!FlushAll(t) \/ Flush!CheckNvmContent(t)
  <2>1. /\ UNCHANGED ready_count
        /\ \/ start_barrier /\ Flush!Goto(t, "wait", "flush")
           \/ Flush!Goto(t, "flush", "check")
           \/ Flush!Goto(t, "check", "ended")
    BY <1>5 DEF Flush!AwaitBarrier, Flush!FlushAll, Flush!CheckNvmContent, Flush!round_vars
  <2>2. Prepared' = Prepared
    BY <1>1, <1>2, <1>3, <2>1 DEF Prepared
  <2>3. start_barrier
    BY <1>1, <1>3, <2>1 DEF StartInv
  <2>4. main # "spawn"
    BY <2>3 DEF StartInv
  <2> QED  BY <1>1, <1>2, <1>3, <2>1, <2>2, <2>3, <2>4 DEF StartInv
<1> QED  BY <1>4, <1>5 DEF Flush!Thread

(* ... in the harness.                                                     *)
LEMMA FlushStartStep == FlushInv /\ FlushStartInv /\ [Next]_vars => FlushStartInv'
<1> SUFFICES ASSUME FlushInv, FlushStartInv, [Next]_vars, program = "page_flush" PROVE StartInv'
  BY SameProgram DEF FlushStartInv
<1>1. RoundsInv /\ StartInv
  BY DEF FlushInv, FlushStartInv
<1>2. \/ Flush!Main
      \/ \E t \in Flush!AllThreads : Flush!Thread(t)
      \/ UNCHANGED vars
  BY DEF Next, Main, Exit, InInterference, InFlush, InBandwidth, InLatency, InAlex
<1>3. CASE UNCHANGED vars
  BY <1>1, <1>3 DEF vars, flush_vars, StartInv, Prepared
<1> QED  BY <1>1, <1>2, <1>3, StartOfMain, StartOfThreads

(* Threads flush behind the barrier, which opens when all are prepared.    *)
LEMMA FlushersStartTogether ==
  ASSUME RoundsInv, StartInv PROVE Flush!NobodyStartsEarly
<1> SUFFICES ASSUME NEW s \in Flush!AllThreads, NEW t \in Flush!AllThreads,
                    s[1] = t[1], thread[s] \in {"flush", "check", "ended"}
             PROVE  thread[t] \notin {"none", "prepare"}
  BY DEF Flush!NobodyStartsEarly
<1>1. /\ s[1] \in Nat /\ s = <<s[1], s[2]>> /\ s[2] \in Flush!Tids
      /\ t[1] \in Nat /\ t = <<t[1], t[2]>> /\ t[2] \in Flush!Tids /\ round \in Nat
  BY FlushRoundsAssumption DEF RoundsInv, Flush!AllThreads
<1>2. CASE s[1] = round
  <2>1. t[2] \in Prepared
    BY <1>1, <1>2 DEF StartInv
  <2> QED  BY <1>1, <1>2, <2>1 DEF Prepared
<1>3. CASE s[1] < round
  BY <1>3 DEF RoundsInv
<1>4. CASE s[1] > round
  BY <1>4 DEF RoundsInv
<1> QED  BY <1>1, <1>2, <1>3, <1>4

-----------------------------------------------------------------------------
(* The interference benchmark: a worker runs when it was told to, which    *)
(* main does when all are ready, and a worker is ready when it is set up.  *)
WorkersInv ==
  /\ turn \in Interference!all_workers
  /\ thread \in [Interference!all_workers ->
                   {"none", "begin", "load", "setup", "wait", "loop", "iterate", "count", "ended"}]
  /\ ready \in [Interference!all_workers -> BOOLEAN]
  /\ run \in [Interference!all_workers -> BOOLEAN]
  /\ \A w \in Interference!all_workers :
       /\ ready[w] => thread[w] \notin {"none", "begin", "load", "setup"}
       /\ Interference!Started(w) => run[w]
       /\ main \in {"emplace", "spawn"} /\ w >= turn => thread[w] = "none"
       /\ main = "push" /\ w > turn => thread[w] = "none"
       /\ main = "await_ready" /\ w < turn => ready[w]
  /\ main = "start" \/ (\E w \in Interference!all_workers : run[w]) =>
       \A w \in Interference!all_workers : ready[w]

InterferenceInv == program = "interference" => WorkersInv

(* No worker is there at first.                                            *)
LEMMA InterferenceInit == Init => InterferenceInv
<1> SUFFICES ASSUME Init, program = "interference" PROVE WorkersInv
  BY DEF InterferenceInv
<1>1. Interference!Init
  BY DEF Init, InitOf, InitOfLatency
<1>2. 1 \in Interference!all_workers
  BY InterferenceAssumption DEF Interference!all_workers
<1> QED  BY <1>1, <1>2 DEF Interference!Init, Interference!Started, WorkersInv

(* main creates, awaits and starts one worker after the other.             *)
LEMMA WorkersMain == ASSUME WorkersInv, Interference!Main PROVE WorkersInv'
<1> DEFINE n == Len(VectorOf)
<1>1. n \in Nat \ {0} /\ Interference!all_workers = 1 .. n
  BY InterferenceAssumption DEF Interference!all_workers
<1> HIDE DEF n
<1>2. /\ turn \in Nat /\ 1 <= turn /\ turn <= n /\ 1 \in Interference!all_workers
      /\ \A w \in Interference!all_workers : w \in Nat /\ 1 <= w /\ w <= n
  BY <1>1 DEF WorkersInv
<1>3. ASSUME NEW from, NEW again, NEW after, Interference!EndOfTurn(from, again, after)
      PROVE  /\ main = from /\ turn' \in Interference!all_workers
             /\ \/ turn < n /\ turn' = turn + 1 /\ main' = again
                \/ turn = n /\ turn' = 1 /\ main' = after
  BY <1>1, <1>2, <1>3 DEF Interference!EndOfTurn, n
<1>4. CASE Interference!EmplaceWorker
  BY <1>4 DEF Interference!EmplaceWorker, Interference!flags, WorkersInv, Interference!Started
<1>5. CASE Interference!CreateThread
  <2>1. /\ main = "spawn" /\ main' = "push" /\ UNCHANGED <<turn, ready, run>>
        /\ thread' = [thread EXCEPT ![turn] = "begin"]
    BY <1>5 DEF Interference!CreateThread, Interference!flags
  <2>2. ~ ready[turn]
    BY <1>2, <2>1 DEF WorkersInv
  <2>3. \A w \in Interference!all_workers : ~ run[w]
    BY <2>2 DEF WorkersInv
  <2>4. \A w \in Interference!all_workers : w > turn => w >= turn
    BY <1>2
  <2>5. /\ thread' \in [Interference!all_workers ->
              {"none", "begin", "load", "setup", "wait", "loop", "iterate", "count", "ended"}]
        /\ thread'[turn] = "begin"
        /\ \A w \in Interference!all_workers : w # turn => thread'[w] = thread[w]
    BY <2>1 DEF WorkersInv
  <2>6. \A w \in Interference!all_workers :
          /\ ready[w] => thread'[w] \notin {"none", "begin", "load", "setup"}
          /\ thread'[w] \notin {"loop", "iterate", "count", "ended"}
    BY <2>2, <2>3, <2>5 DEF WorkersInv, Interference!Started
  <2>7. \A w \in Interference!all_workers : w > turn => thread'[w] = "none"
    BY <1>2, <2>1, <2>4, <2>5 DEF WorkersInv
  <2> QED  BY <2>1, <2>3, <2>5, <2>6, <2>7 DEF WorkersInv, Interference!Started
<1>6. CASE Interference!PushWorker
  <2>1. /\ Interference!EndOfTurn("push", "emplace", "await_ready")
        /\ UNCHANGED <<thread, ready, run>>
    BY <1>6 DEF Interference!PushWorker, Interference!flags
  <2>2. \A w \in Interference!all_workers : w >= turn + 1 => w > turn
    BY <1>2
  <2>3. \A w \in Interference!all_workers : ~ (w < 1)
    BY <1>2
  <2> QED  BY <1>3, <2>1, <2>2, <2>3 DEF WorkersInv, Interference!Started
<1>7. CASE Interference!WaitForAllToGetReady
  <2>1. /\ Interference!EndOfTurn("await_ready", "await_ready", "start") /\ ready[turn]
        /\ UNCHANGED <<thread, ready, run>>
    BY <1>7 DEF Interference!WaitForAllToGetReady, Interference!flags
  <2>2. \A w \in Interference!all_workers : w < turn + 1 => w < turn \/ w = turn
    BY <1>2
  <2>3. \A w \in Interference!all_workers : w < turn + 1 => ready[w]
    BY <1>3, <2>1, <2>2 DEF WorkersInv
  <2>4. turn = n => \A w \in Interference!all_workers : w < turn + 1
    BY <1>2
  <2> QED  BY <1>3, <2>1, <2>3, <2>4 DEF WorkersInv, Interference!Started
<1>8. CASE Interference!StartAll
  <2>1. /\ Interference!EndOfTurn("start", "start", "await_iterations")
        /\ run' = [run EXCEPT ![turn] = TRUE] /\ UNCHANGED <<thread, ready>>
    BY <1>8 DEF Interference!StartAll
  <2>2. run' \in [Interference!all_workers -> BOOLEAN]
    BY <2>1 DEF WorkersInv
  <2>3. \A w \in Interference!all_workers : run[w] => run'[w]
    BY <2>1 DEF WorkersInv
  <2> QED  BY <1>3, <2>1, <2>2, <2>3 DEF WorkersInv, Interference!Started
<1>9. CASE \/ Interference!WaitForAllToPerformAtLeastInterations \/ Interference!StopAll
           \/ Interference!WaitForAllToDie
  <2>1. /\ UNCHANGED <<thread, ready, run>>
        /\ \/ Interference!EndOfTurn("await_iterations", "await_iterations", "stop")
           \/ Interference!EndOfTurn("stop", "stop", "join")
           \/ Interference!EndOfTurn("join", "join", "print")
    BY <1>9 DEF Interference!WaitForAllToPerformAtLeastInterations, Interference!StopAll,
       Interference!WaitForAllToDie, Interference!flags
  <2>2. turn' \in Interference!all_workers /\ main' \in {"await_iterations", "stop", "join", "print"}
    BY <1>3, <2>1
  <2> QED  BY <2>1, <2>2 DEF WorkersInv, Interference!Started
<1>10. CASE Interference!PrintAll
  <2>1. UNCHANGED <<thread, ready, run>>
    BY <1>10 DEF Interference!PrintAll, Interference!flags
  <2>2. turn' \in Interference!all_workers /\ main' \in {"print", "done", "crashed"}
    BY <1>3, <1>10 DEF Interference!PrintAll, WorkersInv
  <2> QED  BY <2>1, <2>2 DEF WorkersInv, Interference!Started
<1> QED  BY <1>4, <1>5, <1>6, <1>7, <1>8, <1>9, <1>10 DEF Interference!Main

(* A worker is set up, then ready, then runs.                              *)
LEMMA WorkersThreads ==
  ASSUME WorkersInv, NEW w \in Interference!all_workers, Interference!Thread(w)
  PROVE  WorkersInv'
<1> USE DEF Interference!flags
<1>1. turn' = turn /\ run' = run /\ (main' = main \/ main' = "crashed")
  BY DEF Interference!Thread, Interference!TakeVector, Interference!LoadWorker,
     Interference!Setup, Interference!AwaitRun, Interference!CheckStop,
     Interference!DoOneRun, Interference!CountIteration
<1>2. ASSUME NEW from \in {"begin", "load", "setup", "wait", "loop", "iterate", "count"},
             NEW to \in {"load", "setup", "wait", "loop", "iterate", "count", "ended"},
             Interference!Goto(w, from, to)
      PROVE  /\ thread[w] = from /\ thread'[w] = to
             /\ \A u \in Interference!all_workers : u # w => thread'[u] = thread[u]
             /\ thread' \in [Interference!all_workers ->
                   {"none", "begin", "load", "setup", "wait", "loop", "iterate", "count", "ended"}]
  BY <1>2 DEF Interference!Goto, WorkersInv
<1>3. CASE Interference!Setup(w)
  <2>1. /\ Interference!Goto(w, "setup", "wait") /\ ready' = [ready EXCEPT ![w] = TRUE]
        /\ main' = main
    BY <1>3 DEF Interference!Setup
  <2>2. /\ ready' \in [Interference!all_workers -> BOOLEAN] /\ ready'[w]
        /\ \A u \in Interference!all_workers : u # w => ready'[u] = ready[u]
    BY <2>1 DEF WorkersInv
  <2> QED  BY <1>1, <1>2, <2>1, <2>2 DEF WorkersInv, Interference!Started
<1>4. CASE Interference!AwaitRun(w)
  <2>1. Interference!Goto(w, "wait", "loop") /\ run[w] /\ ready' = ready
    BY <1>4 DEF Interference!AwaitRun
  <2> QED  BY <1>1, <1>2, <2>1 DEF WorkersInv, Interference!Started
<1>5. CASE Interference!TakeVector(w) \/ Interference!LoadWorker(w)
  <2>1. /\ ready' = ready
        /\ \/ Interference!Goto(w, "begin", "load")
           \/ Interference!Goto(w, "load", "setup")
           \/ thread' = thread
    BY <1>5 DEF Interference!TakeVector, Interference!LoadWorker
  <2>2. CASE thread' = thread
    BY <1>1, <2>1, <2>2 DEF WorkersInv, Interference!Started
  <2> QED  BY <1>1, <1>2, <2>1, <2>2 DEF WorkersInv, Interference!Started
<1>6. CASE Interference!CheckStop(w) \/ Interference!DoOneRun(w) \/ Interference!CountIteration(w)
  <2>1. /\ ready' = ready
        /\ \/ Interference!Goto(w, "loop", "ended")
           \/ Interference!Goto(w, "loop", "iterate")
           \/ Interference!Goto(w, "iterate", "count")
           \/ Interference!Goto(w, "count", "loop")
    BY <1>6 DEF Interference!CheckStop, Interference!DoOneRun, Interference!CountIteration
  <2> QED  BY <1>1, <1>2, <2>1 DEF WorkersInv, Interference!Started
<1> QED  BY <1>3, <1>4, <1>5, <1>6 DEF Interference!Thread

(* ... in the harness.                                                     *)
LEMMA InterferenceStep == InterferenceInv /\ [Next]_vars => InterferenceInv'
<1> SUFFICES ASSUME InterferenceInv, [Next]_vars, program = "interference" PROVE WorkersInv'
  BY SameProgram DEF InterferenceInv
<1>1. WorkersInv
  BY DEF InterferenceInv
<1>2. \/ Interference!Main
      \/ \E w \in Interference!all_workers : Interference!Thread(w)
      \/ UNCHANGED vars
  BY DEF Next, Main, Exit, InInterference, InFlush, InBandwidth, InLatency, InAlex
<1>3. CASE UNCHANGED vars
  BY <1>1, <1>3 DEF vars, interference_vars, WorkersInv, Interference!Started
<1> QED  BY <1>1, <1>2, <1>3, WorkersMain, WorkersThreads

-----------------------------------------------------------------------------
(* The bandwidth benchmark: the barrier counts main and the threads that   *)
(* have come to it, and lets them go on when it has counted all.           *)
Arrived == {t \in Bandwidth!Tids : thread[t] \notin {"none", "setup"}}
MainArrived == IF main \in {"spawn", "arrive"} THEN 0 ELSE 1

BarrierInv ==
  /\ turn \in Bandwidth!Tids
  /\ thread \in [Bandwidth!Tids -> {"none", "setup", "wait", "check", "block", "ended"}]
  /\ start_barrier = Cardinality(Arrived) + MainArrived
  /\ main = "spawn" => \A t \in Bandwidth!Tids : t >= turn => thread[t] = "none"
  /\ \A t \in Bandwidth!Tids :
       thread[t] \in {"check", "block", "ended"} => start_barrier = thread_count + 1

BandwidthInv == program = "bw" => BarrierInv

(* Nobody is at the barrier at first.                                      *)
LEMMA BandwidthInit == Init => BandwidthInv
<1> SUFFICES ASSUME Init, program = "bw" PROVE BarrierInv
  BY DEF BandwidthInv
<1>1. Bandwidth!Init
  BY DEF Init, InitOf, InitOfLatency
<1>2. 1 \in Bandwidth!Tids
  BY BandwidthAssumption DEF Bandwidth!Tids
<1>3. Arrived = {} /\ MainArrived = 0
  BY <1>1 DEF Bandwidth!Init, Arrived, MainArrived
<1> QED  BY <1>1, <1>2, <1>3, FS_EmptySet DEF Bandwidth!Init, BarrierInv

(* A full barrier has counted main and every thread.                       *)
LEMMA BarrierIsFull ==
  ASSUME BarrierInv, start_barrier = thread_count + 1
  PROVE  main \notin {"spawn", "arrive"} /\ Arrived = Bandwidth!Tids
<1>1. /\ thread_count \in Nat /\ Arrived \in SUBSET (1 .. thread_count)
      /\ Bandwidth!Tids = 1 .. thread_count
  BY BandwidthAssumption DEF Arrived, Bandwidth!Tids
<1>2. Cardinality(Arrived) \in Nat /\ Cardinality(Arrived) <= thread_count
  BY <1>1, CountedUp
<1>3. MainArrived = 1 /\ Cardinality(Arrived) = thread_count
  BY <1>1, <1>2 DEF BarrierInv, MainArrived
<1> QED  BY <1>1, <1>3, CountedUp DEF MainArrived

(* main comes to the barrier after it has created the threads.             *)
LEMMA BarrierMain == ASSUME BarrierInv, Bandwidth!Main PROVE BarrierInv'
<1> USE DEF Bandwidth!shared
<1>1. /\ turn \in Nat /\ 1 <= turn /\ turn <= thread_count /\ thread_count \in Nat \ {0}
      /\ \A t \in Bandwidth!Tids : t \in Nat
      /\ Arrived \in SUBSET (1 .. thread_count)
  BY BandwidthAssumption DEF BarrierInv, Bandwidth!Tids, Arrived
<1>2. Cardinality(Arrived) \in Nat
  BY <1>1, CountedUp
<1>3. CASE Bandwidth!CreateThread
  <2>1. /\ main = "spawn" /\ start_barrier' = start_barrier
        /\ thread' = [thread EXCEPT ![turn] = "setup"]
        /\ \/ main' = "spawn" /\ turn' = turn + 1 /\ turn < thread_count
           \/ main' = "arrive" /\ turn' = 1
    BY <1>3 DEF Bandwidth!CreateThread, Bandwidth!EndOfTurn
  <2>2. thread[turn] = "none"
    BY <1>1, <2>1 DEF BarrierInv
  <2>3. /\ thread' \in [Bandwidth!Tids -> {"none", "setup", "wait", "check", "block", "ended"}]
        /\ thread'[turn] = "setup"
        /\ \A t \in Bandwidth!Tids : t # turn => thread'[t] = thread[t]
    BY <2>1 DEF BarrierInv
  <2>4. Arrived' = Arrived /\ MainArrived' = MainArrived
    BY <2>1, <2>2, <2>3 DEF Arrived, MainArrived
  <2>5. \A t \in Bandwidth!Tids : t >= turn + 1 => t >= turn /\ t # turn
    BY <1>1
  <2>6. turn' \in Bandwidth!Tids
    BY <1>1, <2>1 DEF Bandwidth!Tids
  <2> QED  BY <2>1, <2>3, <2>4, <2>5, <2>6 DEF BarrierInv
<1>4. CASE Bandwidth!MainArrives
  <2>1. /\ main = "arrive" /\ main' = "await" /\ start_barrier' = start_barrier + 1
        /\ UNCHANGED <<turn, thread>>
    BY <1>4 DEF Bandwidth!MainArrives
  <2>2. Arrived' = Arrived /\ MainArrived = 0 /\ MainArrived' = 1
    BY <2>1 DEF Arrived, MainArrived
  <2>3. start_barrier' = Cardinality(Arrived') + MainArrived'
    BY <1>2, <2>1, <2>2 DEF BarrierInv
  <2>4. start_barrier # thread_count + 1
    BY <2>1, BarrierIsFull
  <2> QED  BY <2>1, <2>3, <2>4 DEF BarrierInv
<1>5. CASE Bandwidth!MainPasses \/ Bandwidth!Stop \/ Bandwidth!Join \/ Bandwidth!PrintResult
  <2>1. /\ UNCHANGED <<thread, start_barrier>> /\ turn' \in Bandwidth!Tids
        /\ main \notin {"spawn", "arrive"} /\ main' \notin {"spawn", "arrive"}
    BY <1>1, <1>5 DEF Bandwidth!MainPasses, Bandwidth!Stop, Bandwidth!Join, Bandwidth!PrintResult,
       Bandwidth!EndOfTurn, Bandwidth!Tids, BarrierInv
  <2>2. Arrived' = Arrived /\ MainArrived' = MainArrived
    BY <2>1 DEF Arrived, MainArrived
  <2> QED  BY <2>1, <2>2 DEF BarrierInv
<1> QED  BY <1>3, <1>4, <1>5 DEF Bandwidth!Main

(* A thread is counted once, and goes on when the barrier is full.         *)
LEMMA BarrierThreads ==
  ASSUME BarrierInv, NEW t \in Bandwidth!Tids, Bandwidth!Thread(t)
  PROVE  BarrierInv'
<1> USE DEF Bandwidth!shared, Bandwidth!progress
<1>1. /\ Arrived \in SUBSET (1 .. thread_count) /\ thread_count \in Nat
      /\ Bandwidth!Tids = 1 .. thread_count /\ MainArrived \in Nat
  BY BandwidthAssumption DEF Bandwidth!Tids, Arrived, MainArrived
<1>2. Cardinality(Arrived) \in Nat
  BY <1>1, CountedUp
<1>3. turn' = turn /\ main' = main /\ MainArrived' = MainArrived
  BY DEF Bandwidth!Thread, Bandwidth!Arrive, Bandwidth!Pass, Bandwidth!CheckRunning,
     Bandwidth!DoBlock, Bandwidth!StartOver, Bandwidth!Finish, MainArrived
<1>4. ASSUME NEW from \in {"setup", "wait", "check", "block"},
             NEW to \in {"wait", "check", "block", "ended"}, Bandwidth!Goto(t, from, to)
      PROVE  /\ thread[t] = from /\ thread'[t] = to
             /\ \A s \in Bandwidth!Tids : s # t => thread'[s] = thread[s]
             /\ thread' \in [Bandwidth!Tids -> {"none", "setup", "wait", "check", "block", "ended"}]
  BY <1>4 DEF Bandwidth!Goto, BarrierInv
<1>5. CASE Bandwidth!Arrive(t)
  <2>1. Bandwidth!Goto(t, "setup", "wait") /\ start_barrier' = start_barrier + 1
    BY <1>5 DEF Bandwidth!Arrive
  <2>2. Arrived' = Arrived \union {t} /\ t \in (1 .. thread_count) \ Arrived
    BY <1>1, <1>4, <2>1 DEF Arrived
  <2>3. Cardinality(Arrived') = Cardinality(Arrived) + 1
    BY <1>1, <2>2, CountedUp
  <2>4. start_barrier' = Cardinality(Arrived') + MainArrived'
    BY <1>1, <1>2, <1>3, <2>1, <2>3 DEF BarrierInv
  <2>5. start_barrier # thread_count + 1
    BY <1>1, <2>2, BarrierIsFull
  <2>6. \A s \in Bandwidth!Tids : thread'[s] \notin {"check", "block", "ended"}
    BY <1>4, <2>1, <2>5 DEF BarrierInv
  <2>7. main = "spawn" => ~ (t >= turn)
    BY <1>4, <2>1 DEF BarrierInv
  <2> QED  BY <1>3, <1>4, <2>1, <2>4, <2>6, <2>7 DEF BarrierInv
<1>6. CASE ~ Bandwidth!Arrive(t)
  <2>1. /\ start_barrier' = start_barrier
        /\ \/ start_barrier = thread_count + 1 /\ Bandwidth!Goto(t, "wait", "check")
           \/ Bandwidth!Goto(t, "check", "block")
           \/ Bandwidth!Goto(t, "block", "check")
           \/ Bandwidth!Goto(t, "check", "ended")
           \/ thread' = thread
    BY <1>6 DEF Bandwidth!Thread, Bandwidth!Arrive, Bandwidth!Pass, Bandwidth!CheckRunning,
       Bandwidth!DoBlock, Bandwidth!StartOver, Bandwidth!Finish, Bandwidth!BarrierIsOpen
  <2>2. CASE thread' = thread
    <3>1. Arrived' = Arrived
      BY <2>2 DEF Arrived
    <3> QED  BY <1>3, <2>1, <2>2, <3>1 DEF BarrierInv
  <2>3. CASE thread' # thread
    <3>1. Arrived' = Arrived
      BY <1>4, <2>1, <2>3 DEF Arrived
    <3>2. start_barrier = thread_count + 1
      BY <1>4, <2>1, <2>3 DEF BarrierInv
    <3>3. main # "spawn"
      BY <3>2, BarrierIsFull
    <3>4. thread' \in [Bandwidth!Tids -> {"none", "setup", "wait", "check", "block", "ended"}]
      BY <1>4, <2>1, <2>3
    <3> QED  BY <1>3, <2>1, <3>1, <3>2, <3>3, <3>4 DEF BarrierInv
  <2> QED  BY <2>2, <2>3
<1> QED  BY <1>5, <1>6

(* ... in the harness.                                                     *)
LEMMA BandwidthStep == BandwidthInv /\ [Next]_vars => BandwidthInv'
<1> SUFFICES ASSUME BandwidthInv, [Next]_vars, program = "bw" PROVE BarrierInv'
  BY SameProgram DEF BandwidthInv
<1>1. BarrierInv
  BY DEF BandwidthInv
<1>2. \/ Bandwidth!Main
      \/ \E t \in Bandwidth!Tids : Bandwidth!Thread(t)
      \/ UNCHANGED vars
  BY DEF Next, Main, Exit, InInterference, InFlush, InBandwidth, InLatency, InAlex
<1>3. CASE UNCHANGED vars
  BY <1>1, <1>3 DEF vars, BarrierInv, Arrived, MainArrived
<1> QED  BY <1>1, <1>2, <1>3, BarrierMain, BarrierThreads

-----------------------------------------------------------------------------
(* The latency benchmarks: threads spin until main, which has created all  *)
(* of them, sets the flag.                                                 *)
Working(t) == thread[t] \notin {"none", "spin"}

SpinInv ==
  /\ turn \in Latency!Tids /\ go \in BOOLEAN
  /\ thread \in [Latency!Tids -> {"none", "spin", "begin", "read", "load", "store", "ended"}]
  /\ main = "create" => turn = 1
  /\ main = "spawn" => \A t \in Latency!Tids : t < turn => thread[t] # "none"
  /\ main \notin {"create", "spawn"} => \A t \in Latency!Tids : thread[t] # "none"
  /\ go => main \notin {"create", "spawn"}
  /\ \A t \in Latency!Tids : Working(t) => go

LatencyInv == program \in {"read_latency", "read_latency_alex"} => SpinInv

\* What the main of either program may do to the flag and the threads.
MainSpins ==
  \/ main = "create" /\ main' = "spawn" /\ UNCHANGED <<turn, thread, go>>
  \/ /\ main = "spawn" /\ thread' = [thread EXCEPT ![turn] = "spin"] /\ go' = go
     /\ \/ turn < threadCount /\ turn' = turn + 1 /\ main' = "spawn"
        \/ turn = threadCount /\ turn' = 1 /\ main' = "go"
  \/ /\ main \notin {"create", "spawn"} /\ main' \notin {"create", "spawn"}
     /\ thread' = thread /\ (go' = go \/ go' = TRUE) /\ turn' \in Latency!Tids

\* What a thread of either program may do to itself.
ThreadSpins(t) ==
  /\ UNCHANGED <<main, turn, go>>
  /\ \/ thread' = thread
     \/ /\ thread[t] # "none" /\ (go \/ Working(t))
        /\ \E to \in {"begin", "read", "load", "store", "ended"} : thread' = [thread EXCEPT ![t] = to]

(* No thread is there at first.                                            *)
LEMMA SpinInit == Init => LatencyInv
<1> SUFFICES ASSUME Init, program \in {"read_latency", "read_latency_alex"} PROVE SpinInv
  BY DEF LatencyInv
<1>1. Latency!Init \/ Alex!Init
  BY DEF Init, InitOf, InitOfLatency
<1>2. 1 \in Latency!Tids
  BY LatencyAssumption DEF Alex!LatencyAssumption, Latency!Tids
<1>3. /\ main = "create" /\ turn = 1 /\ go = FALSE
      /\ thread = [t \in Latency!Tids |-> "none"]
  BY <1>1 DEF Latency!Init, Alex!Init, Latency!MainInit, Alex!MainInit, Latency!Tids, Alex!Tids
<1> QED  BY <1>2, <1>3 DEF SpinInv, Working

(* Such steps keep the invariant.                                          *)
LEMMA SpinStep ==
  ASSUME SpinInv, MainSpins \/ \E t \in Latency!Tids : ThreadSpins(t) PROVE SpinInv'
<1>1. /\ turn \in Nat /\ 1 <= turn /\ turn <= threadCount /\ threadCount \in Nat \ {0}
      /\ 1 \in Latency!Tids /\ \A t \in Latency!Tids : t \in Nat /\ 1 <= t /\ t <= threadCount
  BY LatencyAssumption DEF Alex!LatencyAssumption, SpinInv, Latency!Tids
<1>2. CASE main = "create" /\ main' = "spawn" /\ UNCHANGED <<turn, thread, go>>
  BY <1>1, <1>2 DEF SpinInv, Working
<1>3. CASE /\ main = "spawn" /\ thread' = [thread EXCEPT ![turn] = "spin"] /\ go' = go
           /\ \/ turn < threadCount /\ turn' = turn + 1 /\ main' = "spawn"
              \/ turn = threadCount /\ turn' = 1 /\ main' = "go"
  <2>1. /\ thread' \in [Latency!Tids -> {"none", "spin", "begin", "read", "load", "store", "ended"}]
        /\ thread'[turn] = "spin"
        /\ \A t \in Latency!Tids : t # turn => thread'[t] = thread[t]
    BY <1>3 DEF SpinInv
  <2>2. ~ go /\ \A t \in Latency!Tids : ~ Working(t)'
    BY <1>3, <2>1 DEF SpinInv, Working
  <2>3. \A t \in Latency!Tids : t < turn + 1 => thread'[t] # "none"
    <3>1. \A t \in Latency!Tids : t < turn + 1 => t < turn \/ t = turn
      BY <1>1
    <3> QED  BY <1>3, <2>1, <3>1 DEF SpinInv
  <2>4. turn = threadCount => \A t \in Latency!Tids : t < turn + 1
    BY <1>1
  <2>5. turn' \in Latency!Tids
    BY <1>1, <1>3 DEF Latency!Tids
  <2> QED  BY <1>3, <2>1, <2>2, <2>3, <2>4, <2>5 DEF SpinInv
<1>4. CASE /\ main \notin {"create", "spawn"} /\ main' \notin {"create", "spawn"}
           /\ thread' = thread /\ (go' = go \/ go' = TRUE) /\ turn' \in Latency!Tids
  <2>1. \A t \in Latency!Tids : Working(t)' <=> Working(t)
    BY <1>4 DEF Working
  <2>2. go' \in BOOLEAN /\ (go => go')
    <3>1. go \in BOOLEAN
      BY DEF SpinInv
    <3>2. CASE go' = go
      BY <3>1, <3>2, Zenon
    <3>3. CASE go' = TRUE
      BY <3>3, Zenon
    <3> QED  BY <1>4, <3>2, <3>3
  <2>3. main' # "create" /\ main' # "spawn"
    BY <1>4
  <2> QED  BY <1>4, <2>1, <2>2, <2>3 DEF SpinInv
<1>5. ASSUME NEW t \in Latency!Tids, ThreadSpins(t) PROVE SpinInv'
  BY <1>5 DEF ThreadSpins, SpinInv, Working
<1> QED  BY <1>2, <1>3, <1>4, <1>5 DEF MainSpins

(* The steps of read_latency.cpp are such steps,                           *)
LEMMA LatencySpins ==
  ASSUME SpinInv, Latency!Main \/ \E t \in Latency!Tids : Latency!Thread(t)
  PROVE  MainSpins \/ \E t \in Latency!Tids : ThreadSpins(t)
<1>1. 1 \in Latency!Tids /\ (turn < threadCount => turn + 1 \in Latency!Tids)
  BY LatencyAssumption DEF Alex!LatencyAssumption, SpinInv, Latency!Tids
<1>2. ASSUME Latency!Main PROVE MainSpins
  BY <1>1, <1>2 DEF Latency!Main, Latency!CreateRandomCycle, Latency!CreateThread, Latency!Go,
     Latency!Join, Latency!EndMeasurement, Latency!PrintResult, Latency!EndOfTurn, SpinInv, MainSpins
<1>3. ASSUME NEW t \in Latency!Tids, Latency!Thread(t) PROVE ThreadSpins(t)
  BY <1>3 DEF Latency!Thread, Latency!SeeGo, Latency!BeginRun, Latency!Read, Latency!EndRun,
     Latency!Return, Latency!Goto, Latency!main_vars, ThreadSpins, Working
<1> QED  BY <1>2, <1>3

(* ... and so are those of read_latency_alex.cpp.                          *)
LEMMA AlexSpins ==
  ASSUME SpinInv, Alex!Main \/ \E t \in Alex!Tids : Alex!Thread(t)
  PROVE  MainSpins \/ \E t \in Latency!Tids : ThreadSpins(t)
<1>1. /\ 1 \in Latency!Tids /\ (turn < threadCount => turn + 1 \in Latency!Tids)
      /\ Alex!Tids = Latency!Tids
  BY LatencyAssumption DEF Alex!LatencyAssumption, SpinInv, Latency!Tids, Alex!Tids
<1>2. ASSUME Alex!Main PROVE MainSpins
  BY <1>1, <1>2 DEF Alex!Main, Alex!CreateRandomCycle, Alex!CreateThread, Alex!Go,
     Alex!Join, Alex!CheckElements, Alex!PrintResult, Alex!EndOfTurn, SpinInv, MainSpins
<1>3. ASSUME NEW t \in Alex!Tids, Alex!Thread(t) PROVE ThreadSpins(t)
  BY <1>3 DEF Alex!Thread, Alex!SeeGo, Alex!Load, Alex!Store, Alex!Goto, ThreadSpins, Working
<1> QED  BY <1>1, <1>2, <1>3

(* ... in the harness.                                                     *)
LEMMA SpinsStep == LatencyInv /\ [Next]_vars => LatencyInv'
<1> SUFFICES ASSUME LatencyInv, [Next]_vars, program \in {"read_latency", "read_latency_alex"}
             PROVE  SpinInv'
  BY SameProgram DEF LatencyInv
<1>1. SpinInv
  BY DEF LatencyInv
<1>2. \/ Latency!Main
      \/ \E t \in Latency!Tids : Latency!Thread(t)
      \/ Alex!Main
      \/ \E t \in Alex!Tids : Alex!Thread(t)
      \/ UNCHANGED vars
  BY DEF Next, Main, Exit, InInterference, InFlush, InBandwidth, InLatency, InAlex
<1>3. CASE UNCHANGED vars
  BY <1>1, <1>3 DEF vars, latency_vars, SpinInv, Working
<1> QED  BY <1>1, <1>2, <1>3, LatencySpins, AlexSpins, SpinStep

-----------------------------------------------------------------------------
(* In none of the programs does anybody begin the work that is measured    *)
(* while a thread is still to be created or to prepare: flags, counter and *)
(* barrier are each enough, for any number of threads.                     *)
THEOREM AllStartTogether == Spec => []NobodyStartsEarly
<1> DEFINE StartsInv ==
      InterferenceInv /\ FlushInv /\ FlushStartInv /\ BandwidthInv /\ LatencyInv
<1>1. Init => StartsInv
  BY InterferenceInit, FlushInit, FlushStartInit, BandwidthInit, SpinInit
<1>2. StartsInv /\ [Next]_vars => StartsInv'
  BY InterferenceStep, FlushStep, FlushStartStep, BandwidthStep, SpinsStep
<1>3. StartsInv => NobodyStartsEarly
  <2> SUFFICES ASSUME StartsInv PROVE NobodyStartsEarly
    OBVIOUS
  <2>1. program = "interference" => Interference!NobodyStartsEarly
    BY DEF InterferenceInv, WorkersInv, Interference!NobodyStartsEarly
  <2>2. program = "page_flush" => Flush!NobodyStartsEarly
    BY FlushersStartTogether DEF FlushInv, FlushStartInv
  <2>3. ASSUME program = "bw" PROVE Bandwidth!NobodyStartsEarly
    <3>1. BarrierInv
      BY <2>3 DEF BandwidthInv
    <3> QED  BY <3>1, BarrierIsFull DEF BarrierInv, Arrived, Bandwidth!NobodyStartsEarly
  <2>4. program = "read_latency" => Latency!NobodyStartsEarly
    BY DEF LatencyInv, SpinInv, Working, Latency!NobodyStartsEarly
  <2>5. program = "read_latency_alex" => Alex!NobodyStartsEarly
    BY DEF LatencyInv, SpinInv, Working, Alex!NobodyStartsEarly, Latency!Tids, Alex!Tids
  <2> QED  BY <2>1, <2>2, <2>3, <2>4, <2>5 DEF NobodyStartsEarly
<1> QED  BY <1>1, <1>2, <1>3, PTL DEF Spec

-----------------------------------------------------------------------------
(* The interference benchmark: main tells the first worker to stop when    *)
(* it has seen each of them do three iterations, and iterations only add   *)
(* up.                                                                     *)
Enough(w) == performed[w] >= Interference!WaitIterations

IterationsInv ==
  /\ turn \in Interference!all_workers
  /\ performed \in [Interference!all_workers -> 0 .. MaxIterations]
  /\ stop \in [Interference!all_workers -> BOOLEAN]
  /\ main = "await_iterations" => \A w \in Interference!all_workers : w < turn => Enough(w)
  /\ main = "stop" \/ (\E w \in Interference!all_workers : stop[w]) =>
       \A w \in Interference!all_workers : Enough(w)

EnoughInv == program = "interference" => IterationsInv

(* Nobody is told to stop at first.                                        *)
LEMMA IterationsInit == Init => EnoughInv
<1> SUFFICES ASSUME Init, program = "interference" PROVE IterationsInv
  BY DEF EnoughInv
<1>1. Interference!Init
  BY DEF Init, InitOf, InitOfLatency
<1>2. 1 \in Interference!all_workers /\ 0 \in 0 .. MaxIterations
  BY InterferenceAssumption DEF Interference!all_workers
<1>3. /\ main = "emplace" /\ turn = 1
      /\ performed = [w \in Interference!all_workers |-> 0]
      /\ stop = [w \in Interference!all_workers |-> FALSE]
  BY <1>1 DEF Interference!Init
<1> QED  BY <1>2, <1>3 DEF IterationsInv

(* main goes through the workers twice, to see and then to tell.           *)
LEMMA IterationsMain == ASSUME IterationsInv, Interference!Main PROVE IterationsInv'
<1> USE DEF Interference!flags, Interference!counts
<1> DEFINE n == Len(VectorOf)
<1>1. n \in Nat \ {0} /\ Interference!all_workers = 1 .. n
  BY InterferenceAssumption DEF Interference!all_workers
<1> HIDE DEF n
<1>2. /\ turn \in Nat /\ 1 <= turn /\ turn <= n /\ 1 \in Interference!all_workers
      /\ \A w \in Interference!all_workers : w \in Nat /\ 1 <= w /\ w <= n
  BY <1>1 DEF IterationsInv
<1>3. ASSUME NEW from, NEW again, NEW after, Interference!EndOfTurn(from, again, after)
      PROVE  /\ main = from /\ turn' \in Interference!all_workers
             /\ \/ turn < n /\ turn' = turn + 1 /\ main' = again
                \/ turn = n /\ turn' = 1 /\ main' = after
  BY <1>1, <1>2, <1>3 DEF Interference!EndOfTurn, n
<1>4. ASSUME performed' = performed PROVE \A w \in Interference!all_workers : Enough(w)' <=> Enough(w)
  BY <1>4 DEF Enough, Interference!WaitIterations
<1>5. CASE Interference!EmplaceWorker \/ Interference!CreateThread
  <2>1. UNCHANGED <<turn, performed, stop>> /\ main' \in {"spawn", "push"}
    BY <1>5 DEF Interference!EmplaceWorker, Interference!CreateThread
  <2> QED  BY <1>4, <2>1 DEF IterationsInv
<1>6. CASE Interference!PushWorker \/ Interference!WaitForAllToGetReady
  <2>1. /\ UNCHANGED <<performed, stop>>
        /\ \/ Interference!EndOfTurn("push", "emplace", "await_ready")
           \/ Interference!EndOfTurn("await_ready", "await_ready", "start")
    BY <1>6 DEF Interference!PushWorker, Interference!WaitForAllToGetReady
  <2>2. turn' \in Interference!all_workers /\ main' \in {"emplace", "await_ready", "start"}
    BY <1>3, <2>1
  <2> QED  BY <1>4, <2>1, <2>2 DEF IterationsInv
<1>7. CASE Interference!StartAll
  <2>1. /\ UNCHANGED <<performed, stop>>
        /\ Interference!EndOfTurn("start", "start", "await_iterations")
    BY <1>7 DEF Interference!StartAll
  <2>2. \A w \in Interference!all_workers : ~ (w < 1)
    BY <1>2
  <2> QED  BY <1>3, <1>4, <2>1, <2>2 DEF IterationsInv
<1>8. CASE Interference!WaitForAllToPerformAtLeastInterations
  <2>1. /\ UNCHANGED <<performed, stop>> /\ Enough(turn)
        /\ Interference!EndOfTurn("await_iterations", "await_iterations", "stop")
    BY <1>8 DEF Interference!WaitForAllToPerformAtLeastInterations, Enough
  <2>2. \A w \in Interference!all_workers : w < turn + 1 => w < turn \/ w = turn
    BY <1>2
  <2>3. \A w \in Interference!all_workers : w < turn + 1 => Enough(w)
    BY <1>3, <2>1, <2>2 DEF IterationsInv
  <2>4. turn = n => \A w \in Interference!all_workers : w < turn + 1
    BY <1>2
  <2> QED  BY <1>3, <1>4, <2>1, <2>3, <2>4 DEF IterationsInv
<1>9. CASE Interference!StopAll
  <2>1. /\ UNCHANGED performed /\ stop' = [stop EXCEPT ![turn] = TRUE]
        /\ Interference!EndOfTurn("stop", "stop", "join")
    BY <1>9 DEF Interference!StopAll
  <2>2. stop' \in [Interference!all_workers -> BOOLEAN]
    BY <2>1 DEF IterationsInv
  <2>3. \A w \in Interference!all_workers : Enough(w)
    BY <1>3, <2>1 DEF IterationsInv
  <2>4. main' # "await_iterations" /\ turn' \in Interference!all_workers
    BY <1>3, <2>1
  <2> QED  BY <1>4, <2>1, <2>2, <2>3, <2>4 DEF IterationsInv
<1>10. CASE Interference!WaitForAllToDie \/ Interference!PrintAll
  <2>1. /\ UNCHANGED <<performed, stop>>
        /\ \/ Interference!EndOfTurn("join", "join", "print")
           \/ Interference!EndOfTurn("print", "print", "done")
           \/ turn' = turn /\ main' = "crashed"
    BY <1>10 DEF Interference!WaitForAllToDie, Interference!PrintAll
  <2>2. turn' \in Interference!all_workers /\ main' \in {"join", "print", "done", "crashed"}
    BY <1>3, <2>1 DEF IterationsInv
  <2> QED  BY <1>4, <2>1, <2>2 DEF IterationsInv
<1> QED  BY <1>5, <1>6, <1>7, <1>8, <1>9, <1>10 DEF Interference!Main

(* A thread only adds to its own counter.                                  *)
LEMMA IterationsThreads ==
  ASSUME IterationsInv, NEW w \in Interference!all_workers, Interference!Thread(w)
  PROVE  IterationsInv'
<1> USE DEF Interference!flags, Interference!counts
<1>1. /\ UNCHANGED <<turn, stop>> /\ (main' = main \/ main' = "crashed")
      /\ \/ performed' = performed
         \/ performed' = [performed EXCEPT ![w] = Interference!Capped(@ + 1)]
  BY DEF Interference!Thread, Interference!TakeVector, Interference!LoadWorker,
     Interference!Setup, Interference!AwaitRun, Interference!CheckStop,
     Interference!DoOneRun, Interference!CountIteration
<1>2. MaxIterations \in Nat /\ MaxIterations > 3
  BY InterferenceAssumption DEF Interference!WaitIterations
<1>3. \A u \in 0 .. MaxIterations :
        /\ Interference!Capped(u + 1) \in 0 .. MaxIterations
        /\ u >= 3 => Interference!Capped(u + 1) >= 3
  BY <1>2 DEF Interference!Capped
<1>4. performed' \in [Interference!all_workers -> 0 .. MaxIterations]
  BY <1>1, <1>3 DEF IterationsInv
<1>5. \A u \in Interference!all_workers : Enough(u) => Enough(u)'
  BY <1>1, <1>3 DEF IterationsInv, Enough, Interference!WaitIterations
<1> QED  BY <1>1, <1>4, <1>5 DEF IterationsInv

(* The iteration main prints, the second of each worker, was over in all   *)
(* of them before the first was told to stop, for any number of workers.   *)
THEOREM PrintedIterationsAreUndisturbed == Spec => []PrintedIterationIsUndisturbed
<1>1. EnoughInv /\ [Next]_vars => EnoughInv'
  <2> SUFFICES ASSUME EnoughInv, [Next]_vars, program = "interference" PROVE IterationsInv'
    BY SameProgram DEF EnoughInv
  <2>1. IterationsInv
    BY DEF EnoughInv
  <2>2. \/ Interference!Main
        \/ \E w \in Interference!all_workers : Interference!Thread(w)
        \/ UNCHANGED vars
    BY DEF Next, Main, Exit, InInterference, InFlush, InBandwidth, InLatency, InAlex
  <2>3. CASE UNCHANGED vars
    BY <2>1, <2>3 DEF vars, interference_vars, IterationsInv, Enough
  <2> QED  BY <2>1, <2>2, <2>3, IterationsMain, IterationsThreads
<1>2. EnoughInv => PrintedIterationIsUndisturbed
  <2> SUFFICES ASSUME IterationsInv PROVE Interference!PrintedIterationIsUndisturbed
    BY DEF EnoughInv, PrintedIterationIsUndisturbed
  <2>1. \A w \in Interference!all_workers : Enough(w) => performed[w] > Interference!Printed
    BY DEF IterationsInv, Enough, Interference!WaitIterations, Interference!Printed
  <2> QED  BY <2>1 DEF IterationsInv, Interference!PrintedIterationIsUndisturbed
<1> QED  BY <1>1, <1>2, IterationsInit, PTL DEF Spec

-----------------------------------------------------------------------------
\* Sums over the threads of the bandwidth benchmark.

\* The sum of a function with numbers.
Sum(f) == Bandwidth!FoldFunction(+, 0, f)

(* Every nonempty set of natural numbers has a least one.                  *)
LEMMA LeastNumber ==
  ASSUME NEW T \in SUBSET Nat, T # {}
  PROVE  \E n \in T : \A m \in T : n <= m
<1> DEFINE R == OpToRel(<, Nat)
<1>1. IsWellFoundedOn(R, Nat)
  BY NatLessThanWellFounded
<1>2. PICK n \in T : \A m \in T : ~(<<m, n>> \in R)
  <2> HIDE DEF R
  <2> QED  BY <1>1, WFMin
<1>3. ASSUME NEW m \in T
      PROVE  n <= m
  <2>1. ~(m < n)
    BY <1>2 DEF OpToRel
  <2> QED  BY <2>1
<1> QED  BY <1>3

(* What is taken from a set of threads first, and the sum of f over a set. *)
First(S) == CHOOSE t \in S : TRUE
Adds(sum, f, n, k) ==
  \A S \in SUBSET (1 .. n) : Cardinality(S) <= k =>
    sum[S] = IF S = {} THEN 0 ELSE f[First(S)] + sum[S \ {First(S)}]

(* A set of threads without its first one is smaller by one.               *)
LEMMA WithoutFirst ==
  ASSUME NEW n \in Nat, NEW S \in SUBSET (1 .. n)
  PROVE  /\ Cardinality(S) \in Nat /\ (Cardinality(S) = 0 <=> S = {})
         /\ S # {} => /\ First(S) \in S /\ S \ {First(S)} \in SUBSET (1 .. n)
                      /\ Cardinality(S \ {First(S)}) = Cardinality(S) - 1
<1>0. IsFiniteSet(1 .. n)
  BY FS_Interval
<1>1. IsFiniteSet(S)
  BY <1>0, FS_Subset
<1>2. Cardinality(S) \in Nat /\ (Cardinality(S) = 0 <=> S = {})
  BY <1>1, FS_CardinalityType, FS_EmptySet
<1>3. ASSUME S # {}
      PROVE  First(S) \in S
  BY <1>3 DEF First
<1>4. ASSUME S # {}
      PROVE  Cardinality(S \ {First(S)}) = Cardinality(S) - 1
  BY <1>1, <1>3, <1>4, FS_RemoveElement
<1> QED  BY <1>2, <1>3, <1>4

(* There is a sum over all sets of threads.                                *)
LEMMA SumExists ==
  ASSUME NEW n \in Nat, NEW f \in [1 .. n -> Nat]
  PROVE  \E sum \in [SUBSET (1 .. n) -> Nat] : Adds(sum, f, n, n)
<1> DEFINE Summed(k) == \E sum \in [SUBSET (1 .. n) -> Nat] : Adds(sum, f, n, k)
<1>1. Summed(0)
  <2> DEFINE sum == [S \in SUBSET (1 .. n) |-> 0]
  <2>1. ASSUME NEW S \in SUBSET (1 .. n), Cardinality(S) <= 0
        PROVE  S = {}
    <3>1. Cardinality(S) \in Nat /\ (Cardinality(S) = 0 <=> S = {})
      BY WithoutFirst
    <3> QED  BY <2>1, <3>1
  <2>2. sum \in [SUBSET (1 .. n) -> Nat] /\ Adds(sum, f, n, 0)
    BY <2>1 DEF Adds
  <2> QED  BY <2>2
<1>2. ASSUME NEW k \in Nat, Summed(k)
      PROVE  Summed(k + 1)
  <2>1. PICK g \in [SUBSET (1 .. n) -> Nat] : Adds(g, f, n, k)
    BY <1>2
  <2> DEFINE sum == [S \in SUBSET (1 .. n) |->
               IF S = {} \/ Cardinality(S) <= k THEN g[S] ELSE f[First(S)] + g[S \ {First(S)}]]
  <2>2. ASSUME NEW S \in SUBSET (1 .. n)
        PROVE  sum[S] \in Nat
    <3>1. S # {} => f[First(S)] \in Nat /\ g[S \ {First(S)}] \in Nat
      BY WithoutFirst
    <3> QED  BY <3>1
  <2>3. sum \in [SUBSET (1 .. n) -> Nat]
    <3> SUFFICES \A S \in SUBSET (1 .. n) : sum[S] \in Nat
      OBVIOUS
    <3> HIDE DEF sum
    <3> QED  BY <2>2
  <2>4. ASSUME NEW S \in SUBSET (1 .. n), Cardinality(S) <= k + 1
        PROVE  sum[S] = IF S = {} THEN 0 ELSE f[First(S)] + sum[S \ {First(S)}]
    <3>1. CASE S = {}
      <4>1. Cardinality(S) = 0
        BY <3>1, FS_EmptySet
      <4>2. g[S] = 0
        BY <2>1, <3>1, <4>1 DEF Adds
      <4> QED  BY <3>1, <4>2
    <3>2. CASE S # {}
      <4> DEFINE D == S \ {First(S)}
      <4>1. D \in SUBSET (1 .. n) /\ Cardinality(D) <= k /\ Cardinality(S) \in Nat
        <5>1. /\ Cardinality(S) \in Nat /\ D \in SUBSET (1 .. n)
              /\ Cardinality(D) = Cardinality(S) - 1
          BY <3>2, WithoutFirst
        <5> HIDE DEF D
        <5> QED  BY <2>4, <5>1
      <4>2. sum[D] = g[D]
        BY <4>1
      <4>3. CASE Cardinality(S) <= k
        <5>1. g[S] = f[First(S)] + g[D]
          BY <2>1, <3>2, <4>3 DEF Adds
        <5>2. sum[S] = g[S]
          BY <4>3
        <5> HIDE DEF sum
        <5> QED  BY <3>2, <4>2, <5>1, <5>2
      <4>4. CASE ~ (Cardinality(S) <= k)
        <5>1. sum[S] = f[First(S)] + g[D]
          BY <3>2, <4>4
        <5> HIDE DEF sum
        <5> QED  BY <3>2, <4>2, <5>1
      <4> QED  BY <4>3, <4>4
    <3> QED  BY <3>1, <3>2
  <2>5. Adds(sum, f, n, k + 1)
    <3> HIDE DEF sum
    <3> QED  BY <2>4 DEF Adds
  <2> HIDE DEF sum
  <2> QED  BY <2>3, <2>5
<1>3. \A k \in Nat : Summed(k)
  <2> HIDE DEF Summed
  <2>1. SUFFICES ASSUME {k \in Nat : ~ Summed(k)} # {} PROVE FALSE
    OBVIOUS
  <2>2. PICK k \in {m \in Nat : ~ Summed(m)} : \A m \in {j \in Nat : ~ Summed(j)} : k <= m
    <3>1. {k \in Nat : ~ Summed(k)} \in SUBSET Nat
      OBVIOUS
    <3> QED  BY <2>1, <3>1, LeastNumber
  <2>3. k # 0 /\ k - 1 \in Nat /\ Summed(k - 1)
    BY <1>1, <2>2
  <2>4. Summed((k - 1) + 1)
    BY <1>2, <2>3
  <2> QED  BY <2>2, <2>3, <2>4
<1> QED  BY <1>3

(* FoldFunction adds one number after the other.                           *)
LEMMA FoldAdds ==
  ASSUME NEW n \in Nat, NEW f \in [1 .. n -> Nat]
  PROVE  \E sum \in [SUBSET (1 .. n) -> Nat] :
           Adds(sum, f, n, n) /\ Sum(f) = sum[1 .. n]
<1>1. PICK g \in [SUBSET (1 .. n) -> Nat] : Adds(g, f, n, n)
  BY SumExists
<1> DEFINE sum[S \in SUBSET (1 .. n)] ==
      IF S = {} THEN 0 ELSE f[CHOOSE t \in S : TRUE] + sum[S \ {CHOOSE t \in S : TRUE}]
<1>2. Sum(f) = sum[1 .. n]
  <2>1. DOMAIN f = 1 .. n
    OBVIOUS
  <2> QED  BY <2>1 DEF Sum, Bandwidth!FoldFunction, Bandwidth!FoldFunctionOnSet, Bandwidth!MapThenFoldSet
<1>3. ASSUME NEW S \in SUBSET (1 .. n)
      PROVE  g[S] = IF S = {} THEN 0 ELSE f[CHOOSE t \in S : TRUE] + g[S \ {CHOOSE t \in S : TRUE}]
  <2>1. Cardinality(S) <= n
    BY CountedUp
  <2> QED  BY <1>1, <2>1 DEF Adds, First
<1>4. sum = [S \in SUBSET (1 .. n) |->
               IF S = {} THEN 0 ELSE f[CHOOSE t \in S : TRUE] + sum[S \ {CHOOSE t \in S : TRUE}]]
  <2>1. g = [S \in SUBSET (1 .. n) |->
               IF S = {} THEN 0 ELSE f[CHOOSE t \in S : TRUE] + g[S \ {CHOOSE t \in S : TRUE}]]
    BY <1>3
  <2> QED  BY <2>1
<1>5. Adds(sum, f, n, n)
  <2> HIDE DEF sum
  <2> QED  BY <1>4 DEF Adds, First
<1> HIDE DEF sum
<1> DEFINE Differing == {k \in Nat : \E S \in SUBSET (1 .. n) : Cardinality(S) = k /\ sum[S] # g[S]}
<1>6. Differing = {}
  <2>1. SUFFICES ASSUME Differing # {} PROVE FALSE
    OBVIOUS
  <2>2. PICK k \in Differing : \A m \in Differing : k <= m
    <3>1. Differing \in SUBSET Nat
      OBVIOUS
    <3> HIDE DEF Differing
    <3> QED  BY <2>1, <3>1, LeastNumber
  <2>3. PICK S \in SUBSET (1 .. n) : Cardinality(S) = k /\ sum[S] # g[S]
    BY <2>2
  <2>4. Cardinality(S) <= n /\ k \in Nat
    BY <2>2, CountedUp
  <2>5. /\ sum[S] = IF S = {} THEN 0 ELSE f[First(S)] + sum[S \ {First(S)}]
        /\ g[S] = IF S = {} THEN 0 ELSE f[First(S)] + g[S \ {First(S)}]
    BY <1>1, <1>5, <2>4 DEF Adds
  <2>6. S # {} /\ sum[S \ {First(S)}] # g[S \ {First(S)}]
    BY <2>3, <2>5
  <2>7. S \ {First(S)} \in SUBSET (1 .. n) /\ Cardinality(S \ {First(S)}) = k - 1 /\ k # 0
    BY <2>3, <2>6, WithoutFirst
  <2>8. k - 1 \in Differing
    BY <2>4, <2>6, <2>7
  <2> HIDE DEF Differing
  <2> QED  BY <2>2, <2>4, <2>8
<1>7. ASSUME NEW S \in SUBSET (1 .. n)
      PROVE  sum[S] = g[S]
  <2>1. Cardinality(S) \in Nat
    BY CountedUp
  <2> QED  BY <1>6, <2>1
<1>8. 1 .. n \in SUBSET (1 .. n)
  OBVIOUS
<1> QED  BY <1>1, <1>2, <1>7, <1>8

(* One thread with more makes the sum more by as much, and a thread with   *)
(* nothing adds nothing.                                                   *)
LEMMA FoldGrows ==
  ASSUME NEW n \in Nat, NEW f \in [1 .. n -> Nat], NEW t \in 1 .. n, NEW d \in Nat,
         NEW h \in [1 .. n -> Nat], h[t] = f[t] + d,
         \A s \in 1 .. n : s # t => h[s] = f[s]
  PROVE  /\ Sum(f) \in Nat
         /\ Sum(h) = Sum(f) + d
<1>1. PICK a \in [SUBSET (1 .. n) -> Nat] :
        Adds(a, f, n, n) /\ Sum(f) = a[1 .. n]
  BY FoldAdds
<1>2. PICK b \in [SUBSET (1 .. n) -> Nat] :
        Adds(b, h, n, n) /\ Sum(h) = b[1 .. n]
  BY FoldAdds
<1> DEFINE More == [S \in SUBSET (1 .. n) |-> IF t \in S THEN d ELSE 0]
           Wrong == {k \in Nat : \E S \in SUBSET (1 .. n) :
                                    Cardinality(S) = k /\ b[S] # a[S] + More[S]}
<1>3. Wrong = {}
  <2>1. SUFFICES ASSUME Wrong # {} PROVE FALSE
    OBVIOUS
  <2>2. PICK k \in Wrong : \A m \in Wrong : k <= m
    <3>1. Wrong \in SUBSET Nat
      OBVIOUS
    <3> HIDE DEF Wrong
    <3> QED  BY <2>1, <3>1, LeastNumber
  <2>3. PICK S \in SUBSET (1 .. n) : Cardinality(S) = k /\ b[S] # a[S] + More[S]
    BY <2>2
  <2> DEFINE one == First(S)
             rest == S \ {one}
  <2>4. Cardinality(S) <= n /\ k \in Nat
    BY <2>2, CountedUp
  <2>5. /\ a[S] = IF S = {} THEN 0 ELSE f[one] + a[rest]
        /\ b[S] = IF S = {} THEN 0 ELSE h[one] + b[rest]
    BY <1>1, <1>2, <2>4 DEF Adds
  <2>6. S # {}
    BY <2>3, <2>5
  <2>7. one \in S /\ rest \in SUBSET (1 .. n) /\ Cardinality(rest) = k - 1 /\ k # 0
    BY <2>3, <2>6, WithoutFirst
  <2>8. b[rest] = a[rest] + More[rest]
    <3>1. k - 1 \in Nat /\ k - 1 \notin Wrong
      <4> HIDE DEF Wrong
      <4> QED  BY <2>2, <2>4, <2>7
    <3> HIDE DEF More, rest, one
    <3> QED  BY <2>7, <3>1
  <2>9. h[one] + More[rest] = f[one] + More[S]
    <3>1. one \in 1 .. n /\ f[one] \in Nat
      BY <2>7
    <3>2. CASE one = t
      BY <3>1, <3>2, <2>7
    <3>3. CASE one # t
      BY <3>1, <3>3, <2>7
    <3> QED  BY <3>2, <3>3
  <2>10. /\ f[one] \in Nat /\ h[one] \in Nat /\ a[rest] \in Nat /\ More[S] \in Nat
         /\ More[rest] \in Nat
    BY <2>7
  <2>11. a[S] = f[one] + a[rest] /\ b[S] = h[one] + b[rest] /\ b[S] # a[S] + More[S]
    <3> HIDE DEF More, rest, one
    <3> QED  BY <2>3, <2>5, <2>6
  <2>12. ASSUME NEW p \in Nat, p = h[one], NEW q \in Nat, q = f[one], NEW r \in Nat, r = a[rest],
                NEW u \in Nat, u = More[rest], NEW w \in Nat, w = More[S]
         PROVE  h[one] + (a[rest] + More[rest]) = (f[one] + a[rest]) + More[S]
    <3>1. p + u = q + w
      BY <2>9, <2>12
    <3>2. p + (r + u) = (q + r) + w
      BY <3>1
    <3> QED  BY <2>12, <3>2
  <2>13. h[one] + (a[rest] + More[rest]) = (f[one] + a[rest]) + More[S]
    BY <2>10, <2>12
  <2> HIDE DEF More, rest, one, Wrong
  <2> QED  BY <2>8, <2>11, <2>13
<1>4. 1 .. n \in SUBSET (1 .. n) /\ Cardinality(1 .. n) \in Nat
  BY CountedUp
<1>5. b[1 .. n] = a[1 .. n] + d
  <2>1. b[1 .. n] = a[1 .. n] + More[1 .. n]
    <3> HIDE DEF More
    <3> QED  BY <1>3, <1>4
  <2> QED  BY <2>1
<1>6. a[1 .. n] \in Nat
  BY <1>4
<1> QED  BY <1>1, <1>2, <1>5, <1>6

(* Nothing adds up to nothing.                                             *)
LEMMA FoldOfNothing ==
  ASSUME NEW n \in Nat
  PROVE  Sum([t \in 1 .. n |-> 0]) = 0
<1> DEFINE f == [t \in 1 .. n |-> 0]
<1>1. f \in [1 .. n -> Nat]
  OBVIOUS
<1>2. PICK sum \in [SUBSET (1 .. n) -> Nat] :
        Adds(sum, f, n, n) /\ Sum(f) = sum[1 .. n]
  BY <1>1, FoldAdds
<1> DEFINE Wrong == {k \in Nat : \E S \in SUBSET (1 .. n) : Cardinality(S) = k /\ sum[S] # 0}
<1>3. Wrong = {}
  <2>1. SUFFICES ASSUME Wrong # {} PROVE FALSE
    OBVIOUS
  <2>2. PICK k \in Wrong : \A m \in Wrong : k <= m
    <3>1. Wrong \in SUBSET Nat
      OBVIOUS
    <3> HIDE DEF Wrong
    <3> QED  BY <2>1, <3>1, LeastNumber
  <2>3. PICK S \in SUBSET (1 .. n) : Cardinality(S) = k /\ sum[S] # 0
    BY <2>2
  <2>4. Cardinality(S) <= n /\ k \in Nat
    BY <2>2, CountedUp
  <2>5. sum[S] = IF S = {} THEN 0 ELSE f[First(S)] + sum[S \ {First(S)}]
    BY <1>2, <2>4 DEF Adds
  <2>6. S # {}
    BY <2>3, <2>5
  <2>7. /\ First(S) \in S /\ S \ {First(S)} \in SUBSET (1 .. n)
        /\ Cardinality(S \ {First(S)}) = k - 1 /\ k # 0
    BY <2>3, <2>6, WithoutFirst
  <2>8. sum[S \ {First(S)}] # 0
    <3>1. f[First(S)] = 0 /\ sum[S \ {First(S)}] \in Nat
      BY <2>7
    <3> HIDE DEF f
    <3> QED  BY <2>3, <2>5, <2>6, <3>1
  <2>9. k - 1 \in Wrong
    BY <2>4, <2>7, <2>8
  <2> HIDE DEF Wrong
  <2> QED  BY <2>2, <2>4, <2>9
<1>4. 1 .. n \in SUBSET (1 .. n) /\ Cardinality(1 .. n) \in Nat
  BY CountedUp
<1>5. sum[1 .. n] = 0
  BY <1>3, <1>4
<1> QED  BY <1>2, <1>5

(* The counters of the bandwidth benchmark wrap: there is one remainder.   *)
LEMMA OneRemainder ==
  ASSUME NEW n \in Nat \ {0}, NEW q \in Nat, NEW r \in 0 .. n - 1
  PROVE  (n * q + r) % n = r
<1> DEFINE p == (n * q + r) \div n
           s == (n * q + r) % n
<1>1. /\ p \in Nat /\ s \in 0 .. n - 1 /\ n * q + r = n * p + s
      /\ n * q \in Nat /\ n * p \in Nat
  <2>1. n * q + r \in Nat
    OBVIOUS
  <2> QED  BY <2>1
<1> HIDE DEF p, s
<1>2. ASSUME NEW j \in Nat, NEW k \in Nat, j < k
      PROVE  n * j + n <= n * k
  <2>1. k - j \in Nat /\ k - j >= 1
    BY <1>2
  <2>2. n * (k - j) >= n
    BY <2>1
  <2> QED  BY <2>2
<1>3. ~ (p < q)
  <2>1. SUFFICES ASSUME n * p + n <= n * q PROVE FALSE
    BY <1>1, <1>2
  <2> QED  BY <1>1, <2>1
<1>4. ~ (q < p)
  <2>1. SUFFICES ASSUME n * q + n <= n * p PROVE FALSE
    BY <1>1, <1>2
  <2> QED  BY <1>1, <2>1
<1>5. n * p = n * q
  <2>1. p = q
    BY <1>1, <1>3, <1>4
  <2> QED  BY <2>1
<1>6. s = r
  BY <1>1, <1>5
<1> QED  BY <1>6 DEF s

(* A number may wrap before or after another is added to it.               *)
LEMMA WrapsOnce ==
  ASSUME NEW n \in Nat \ {0}, NEW a \in Nat, NEW b \in Nat
  PROVE  /\ a % n \in 0 .. n - 1 /\ (a < n => a % n = a)
         /\ ((a % n) + b) % n = (a + b) % n /\ (b + (a % n)) % n = (a + b) % n
<1> DEFINE q == a \div n
           r == a % n
           p == (r + b) \div n
           s == (r + b) % n
<1>1. q \in Nat /\ r \in 0 .. n - 1 /\ a = n * q + r
  OBVIOUS
<1>2. r + b \in Nat
  BY <1>1
<1>3. p \in Nat /\ s \in 0 .. n - 1 /\ r + b = n * p + s
  <2> HIDE DEF r
  <2> QED  BY <1>2
<1>4. n * (q + p) = n * q + n * p /\ n * q \in Nat /\ n * p \in Nat /\ q + p \in Nat
  <2> HIDE DEF q, p
  <2> QED  BY <1>1, <1>3
<1>5. a + b = n * (q + p) + s
  <2> HIDE DEF q, p, r, s
  <2> QED  BY <1>1, <1>3, <1>4
<1>6. (a + b) % n = s
  <2> HIDE DEF q, p, r, s
  <2> QED  BY <1>3, <1>4, <1>5, OneRemainder
<1>7. a < n => a % n = a
  <2>1. SUFFICES ASSUME a < n PROVE (n * 0 + a) % n = a
    OBVIOUS
  <2>2. a \in 0 .. n - 1
    BY <2>1
  <2> QED  BY <2>2, OneRemainder
<1>8. b + r = r + b
  <2> HIDE DEF r
  <2> QED  BY <1>1
<1> QED  BY <1>1, <1>6, <1>7, <1>8

-----------------------------------------------------------------------------
(* The bandwidth benchmark: a thread has done the blocks of the chunks it  *)
(* finished and of the one it is in, and what main prints is what the      *)
(* threads that have ended had done by then.                               *)
Counted == [t \in Bandwidth!Tids |-> IF thread[t] = "ended" THEN blocks[t] ELSE 0]

BlocksInv ==
  /\ Bandwidth!TypeOK
  /\ \A t \in Bandwidth!Tids : blocks[t] = (idx[t] + local_iteration[t]) % Wrap
  /\ \A t \in Bandwidth!Tids : thread[t] = "block" => idx[t] < iteration_count
  /\ global_iterations = Sum(Counted) % Wrap
  /\ main \in {"arrive", "await", "measure"} => turn = 1
  /\ main = "join" => \A t \in Bandwidth!Tids : t < turn => thread[t] = "ended"
  /\ main \in {"print", "done"} => \A t \in Bandwidth!Tids : thread[t] = "ended"

CountedInv == program = "bw" => BarrierInv /\ BlocksInv

(* Nothing is done and nothing is counted at first.                        *)
LEMMA CountedInit == Init => CountedInv
<1> SUFFICES ASSUME Init, program = "bw" PROVE BlocksInv
  BY BandwidthInit DEF CountedInv, BandwidthInv
<1>1. Bandwidth!Init
  BY DEF Init, InitOf, InitOfLatency
<1>2. /\ 1 \in Bandwidth!Tids /\ 0 \in 0 .. Wrap - 1 /\ 0 \in 0 .. thread_count + 1
      /\ \A k \in 0 .. MaxIterationCount : 0 \in 0 .. k
      /\ Bandwidth!Tids = 1 .. thread_count /\ thread_count \in Nat
      /\ Wrap \in Nat \ {0} /\ (0 + 0) % Wrap = 0
  <2>1. 0 % Wrap = 0
    BY BandwidthAssumption, WrapsOnce
  <2> QED  BY <2>1, BandwidthAssumption DEF Bandwidth!Tids
<1>3. Bandwidth!TypeOK
  BY <1>1, <1>2 DEF Bandwidth!Init, Bandwidth!TypeOK
<1>4. Counted = [t \in 1 .. thread_count |-> 0]
  BY <1>1, <1>2 DEF Bandwidth!Init, Counted
<1>5. global_iterations = Sum(Counted) % Wrap
  <2>1. Sum(Counted) = 0
    BY <1>2, <1>4, FoldOfNothing
  <2>2. 0 % Wrap = 0
    BY <1>2
  <2> QED  BY <1>1, <2>1, <2>2 DEF Bandwidth!Init
<1> QED  BY <1>1, <1>2, <1>3, <1>5 DEF Bandwidth!Init, BlocksInv

(* What is counted are numbers, and the sum of them is one.                *)
LEMMA CountedType ==
  ASSUME BlocksInv
  PROVE  /\ Bandwidth!Tids = 1 .. thread_count /\ thread_count \in Nat /\ Wrap \in Nat \ {0}
         /\ Counted \in [1 .. thread_count -> Nat]
         /\ Sum(Counted) \in Nat
         /\ \A t \in Bandwidth!Tids : /\ idx[t] \in Nat /\ local_iteration[t] \in Nat
                                      /\ blocks[t] \in Nat
<1>1. Bandwidth!Tids = 1 .. thread_count /\ thread_count \in Nat \ {0} /\ Wrap \in Nat \ {0}
  BY BandwidthAssumption DEF Bandwidth!Tids
<1>2. ASSUME NEW t \in Bandwidth!Tids
      PROVE  idx[t] \in Nat /\ local_iteration[t] \in Nat /\ blocks[t] \in Nat
  <2>1. /\ iteration_count \in Nat /\ idx[t] \in 0 .. iteration_count
        /\ blocks[t] \in 0 .. Wrap - 1 /\ local_iteration[t] \in 0 .. Wrap - 1
    BY <1>1, BandwidthAssumption DEF BlocksInv, Bandwidth!TypeOK
  <2> QED  BY <1>1, <2>1
<1>3. Counted \in [1 .. thread_count -> Nat]
  BY <1>1, <1>2 DEF Counted
<1>4. Counted[1] = Counted[1] + 0 /\ 1 \in 1 .. thread_count
  BY <1>1, <1>3
<1>5. Sum(Counted) \in Nat
  <2> HIDE DEF Counted
  <2> QED  BY <1>1, <1>3, <1>4, FoldGrows
<1> QED  BY <1>1, <1>2, <1>3, <1>5

(* main adds nothing; it joins one thread after the other.                 *)
LEMMA BlocksMain == ASSUME BarrierInv, BlocksInv, Bandwidth!Main PROVE BlocksInv'
<1> USE DEF Bandwidth!shared, Bandwidth!progress
<1>1. /\ turn \in Nat /\ 1 <= turn /\ turn <= thread_count /\ thread_count \in Nat \ {0}
      /\ \A t \in Bandwidth!Tids : t \in Nat /\ 1 <= t /\ t <= thread_count
      /\ Bandwidth!Tids = 1 .. thread_count
  BY BandwidthAssumption DEF BarrierInv, Bandwidth!Tids
<1>2. /\ UNCHANGED <<iteration_count, global_iterations, idx, local_iteration, blocks>>
      /\ running_flag' \in BOOLEAN /\ turn' \in Bandwidth!Tids
      /\ main' \in {"spawn", "arrive", "await", "measure", "join", "print", "done"}
  <2>1. running_flag \in BOOLEAN /\ turn \in Bandwidth!Tids
    BY DEF BlocksInv, Bandwidth!TypeOK
  <2>2. ASSUME Bandwidth!CreateThread \/ Bandwidth!Join
        PROVE  /\ UNCHANGED <<iteration_count, global_iterations, idx, local_iteration, blocks, running_flag>>
               /\ turn' \in Bandwidth!Tids /\ main' \in {"spawn", "arrive", "join", "print"}
    BY <1>1, <2>2 DEF Bandwidth!CreateThread, Bandwidth!Join, Bandwidth!EndOfTurn
  <2>3. ASSUME \/ Bandwidth!MainArrives \/ Bandwidth!MainPasses \/ Bandwidth!Stop
               \/ Bandwidth!PrintResult
        PROVE  /\ UNCHANGED <<iteration_count, global_iterations, idx, local_iteration, blocks, turn>>
               /\ running_flag' \in {running_flag, FALSE}
               /\ main' \in {"await", "measure", "join", "done"}
    BY <2>3 DEF Bandwidth!MainArrives, Bandwidth!MainPasses, Bandwidth!Stop, Bandwidth!PrintResult
  <2> QED  BY <2>1, <2>2, <2>3 DEF Bandwidth!Main
<1>3. start_barrier' \in 0 .. thread_count + 1
  <2>1. BarrierInv'
    BY BarrierMain
  <2>2. Arrived' \in SUBSET (1 .. thread_count)
    BY <1>1 DEF Arrived
  <2>3. Cardinality(Arrived') \in Nat /\ Cardinality(Arrived') <= thread_count
    BY <1>1, <2>2, CountedUp
  <2>4. start_barrier' = Cardinality(Arrived') + MainArrived' /\ MainArrived' \in {0, 1}
    BY <2>1 DEF BarrierInv, MainArrived
  <2> QED  BY <1>1, <2>3, <2>4
<1>4. CASE Bandwidth!CreateThread
  <2>1. /\ thread' = [thread EXCEPT ![turn] = "setup"] /\ thread[turn] = "none"
        /\ main' \in {"spawn", "arrive"} /\ (main' = "arrive" => turn' = 1)
    BY <1>1, <1>4 DEF Bandwidth!CreateThread, Bandwidth!EndOfTurn, BarrierInv
  <2>2. /\ thread' \in [Bandwidth!Tids -> {"none", "setup", "wait", "check", "block", "ended"}]
        /\ \A t \in Bandwidth!Tids : /\ thread'[t] = "ended" <=> thread[t] = "ended"
                                     /\ thread'[t] = "block" <=> thread[t] = "block"
    BY <2>1 DEF BarrierInv
  <2>3. Counted' = Counted
    BY <1>2, <2>2 DEF Counted
  <2>4. Bandwidth!TypeOK'
    BY <1>2, <1>3, <2>2 DEF BlocksInv, Bandwidth!TypeOK
  <2> QED  BY <1>2, <2>1, <2>2, <2>3, <2>4 DEF BlocksInv
<1>5. CASE Bandwidth!MainArrives \/ Bandwidth!MainPasses \/ Bandwidth!Stop
  <2>1. /\ thread' = thread /\ turn' = turn /\ main' \in {"await", "measure", "join"}
        /\ main \in {"arrive", "await", "measure"}
    BY <1>5 DEF Bandwidth!MainArrives, Bandwidth!MainPasses, Bandwidth!Stop
  <2>2. Bandwidth!TypeOK'
    BY <1>2, <1>3, <2>1 DEF BlocksInv, Bandwidth!TypeOK
  <2>3. Counted' = Counted
    BY <1>2, <2>1 DEF Counted
  <2>4. \A t \in Bandwidth!Tids : ~ (t < 1)
    BY <1>1
  <2> QED  BY <1>2, <2>1, <2>2, <2>3, <2>4 DEF BlocksInv
<1>6. CASE Bandwidth!Join
  <2>1. /\ thread' = thread /\ main = "join" /\ thread[turn] = "ended"
        /\ \/ turn < thread_count /\ turn' = turn + 1 /\ main' = "join"
           \/ turn = thread_count /\ main' = "print"
    BY <1>6 DEF Bandwidth!Join, Bandwidth!EndOfTurn
  <2>2. \A t \in Bandwidth!Tids : t < turn + 1 => thread[t] = "ended"
    <3>1. \A t \in Bandwidth!Tids : t < turn + 1 => t < turn \/ t = turn
      BY <1>1
    <3> QED  BY <2>1, <3>1 DEF BlocksInv
  <2>3. turn = thread_count => \A t \in Bandwidth!Tids : t < turn + 1
    BY <1>1
  <2>4. Bandwidth!TypeOK'
    BY <1>2, <1>3, <2>1 DEF BlocksInv, Bandwidth!TypeOK
  <2>5. Counted' = Counted
    BY <1>2, <2>1 DEF Counted
  <2> QED  BY <1>2, <2>1, <2>2, <2>3, <2>4, <2>5 DEF BlocksInv
<1>7. CASE Bandwidth!PrintResult
  <2>1. thread' = thread /\ main = "print" /\ main' = "done"
    BY <1>7 DEF Bandwidth!PrintResult
  <2>2. Bandwidth!TypeOK'
    BY <1>2, <1>3, <2>1 DEF BlocksInv, Bandwidth!TypeOK
  <2>3. Counted' = Counted
    BY <1>2, <2>1 DEF Counted
  <2> QED  BY <1>2, <2>1, <2>2, <2>3 DEF BlocksInv
<1> QED  BY <1>4, <1>5, <1>6, <1>7 DEF Bandwidth!Main

(* A thread that ends adds what it did, once, and it did its blocks; the   *)
(* number of blocks and the chunks wrap independently of each other.       *)
LEMMA BlocksThreads ==
  ASSUME BarrierInv, BlocksInv, NEW t \in Bandwidth!Tids, Bandwidth!Thread(t)
  PROVE  BlocksInv'
<1> USE DEF Bandwidth!shared, Bandwidth!progress
<1>1. /\ Bandwidth!Tids = 1 .. thread_count /\ thread_count \in Nat /\ Wrap \in Nat \ {0}
      /\ Counted \in [1 .. thread_count -> Nat] /\ Sum(Counted) \in Nat
      /\ \A s \in Bandwidth!Tids : idx[s] \in Nat /\ local_iteration[s] \in Nat /\ blocks[s] \in Nat
  BY CountedType
<1>2. /\ UNCHANGED <<main, turn, running_flag, iteration_count>>
      /\ iteration_count \in Nat /\ iteration_count <= MaxIterationCount
      /\ thread \in [Bandwidth!Tids -> {"none", "setup", "wait", "check", "block", "ended"}]
      /\ idx \in [Bandwidth!Tids -> 0 .. iteration_count]
      /\ local_iteration \in [Bandwidth!Tids -> 0 .. Wrap - 1]
      /\ blocks \in [Bandwidth!Tids -> 0 .. Wrap - 1]
      /\ global_iterations \in 0 .. Wrap - 1
  <2>1. /\ iteration_count \in 0 .. MaxIterationCount
        /\ thread \in [Bandwidth!Tids -> {"none", "setup", "wait", "check", "block", "ended"}]
        /\ idx \in [Bandwidth!Tids -> 0 .. iteration_count]
        /\ local_iteration \in [Bandwidth!Tids -> 0 .. Wrap - 1]
        /\ blocks \in [Bandwidth!Tids -> 0 .. Wrap - 1]
        /\ global_iterations \in 0 .. Wrap - 1
    BY DEF BlocksInv, Bandwidth!TypeOK
  <2>2. UNCHANGED <<main, turn, running_flag, iteration_count>>
    BY DEF Bandwidth!Thread, Bandwidth!Arrive, Bandwidth!Pass, Bandwidth!CheckRunning,
       Bandwidth!DoBlock, Bandwidth!StartOver, Bandwidth!Finish
  <2> QED  BY <2>1, <2>2, BandwidthAssumption
<1>3. start_barrier' \in 0 .. thread_count + 1
  <2>1. BarrierInv'
    BY BarrierThreads
  <2>2. Arrived' \in SUBSET (1 .. thread_count)
    BY <1>1 DEF Arrived
  <2>3. Cardinality(Arrived') \in Nat /\ Cardinality(Arrived') <= thread_count
    BY <1>1, <2>2, CountedUp
  <2>4. start_barrier' = Cardinality(Arrived') + MainArrived' /\ MainArrived' \in {0, 1}
    BY <2>1 DEF BarrierInv, MainArrived
  <2> QED  BY <1>1, <2>3, <2>4
<1>4. ASSUME NEW from \in {"setup", "wait", "check", "block"},
             NEW to \in {"wait", "check", "block", "ended"}, Bandwidth!Goto(t, from, to)
      PROVE  /\ thread[t] = from /\ thread'[t] = to
             /\ \A s \in Bandwidth!Tids : s # t => thread'[s] = thread[s]
             /\ thread' \in [Bandwidth!Tids -> {"none", "setup", "wait", "check", "block", "ended"}]
             /\ \A s \in Bandwidth!Tids : thread[s] = "ended" => thread'[s] = "ended"
  BY <1>2, <1>4 DEF Bandwidth!Goto
<1>5. ASSUME \A s \in Bandwidth!Tids : thread[s] = "ended" => thread'[s] = "ended"
      PROVE  /\ main' \in {"arrive", "await", "measure"} => turn' = 1
             /\ main' = "join" => \A s \in Bandwidth!Tids : s < turn' => thread'[s] = "ended"
             /\ main' \in {"print", "done"} => \A s \in Bandwidth!Tids : thread'[s] = "ended"
  BY <1>2, <1>5 DEF BlocksInv
<1>6. main \in {"spawn", "arrive", "await", "measure", "join", "print", "done"}
      /\ turn \in Bandwidth!Tids /\ running_flag \in BOOLEAN
  BY DEF BlocksInv, Bandwidth!TypeOK
<1>7. CASE Bandwidth!Arrive(t) \/ Bandwidth!Pass(t) \/ Bandwidth!CheckRunning(t)
  <2>1. /\ UNCHANGED <<idx, local_iteration, blocks, global_iterations>>
        /\ \/ Bandwidth!Goto(t, "setup", "wait")
           \/ Bandwidth!Goto(t, "wait", "check")
           \/ Bandwidth!Goto(t, "check", "block") /\ idx[t] < iteration_count
    BY <1>7 DEF Bandwidth!Arrive, Bandwidth!Pass, Bandwidth!CheckRunning
  <2>2. /\ thread' \in [Bandwidth!Tids -> {"none", "setup", "wait", "check", "block", "ended"}]
        /\ \A s \in Bandwidth!Tids : thread'[s] = "ended" <=> thread[s] = "ended"
        /\ \A s \in Bandwidth!Tids :
             thread'[s] = "block" => thread[s] = "block" \/ (s = t /\ idx[t] < iteration_count)
    BY <1>4, <2>1
  <2>3. Counted' = Counted
    BY <2>1, <2>2 DEF Counted
  <2>4. Bandwidth!TypeOK'
    BY <1>2, <1>3, <1>6, <2>1, <2>2 DEF BlocksInv, Bandwidth!TypeOK
  <2> QED  BY <1>2, <1>5, <2>1, <2>2, <2>3, <2>4 DEF BlocksInv
<1>8. CASE Bandwidth!DoBlock(t)
  <2>1. /\ Bandwidth!Goto(t, "block", "check") /\ UNCHANGED <<local_iteration, global_iterations>>
        /\ blocks' = [blocks EXCEPT ![t] = (@ + 1) % Wrap] /\ idx' = [idx EXCEPT ![t] = @ + 1]
    BY <1>8 DEF Bandwidth!DoBlock
  <2>2. idx[t] < iteration_count
    BY <1>4, <2>1 DEF BlocksInv
  <2>3. /\ idx' \in [Bandwidth!Tids -> 0 .. iteration_count] /\ idx'[t] = idx[t] + 1
        /\ \A s \in Bandwidth!Tids : s # t => idx'[s] = idx[s]
    <3>1. idx[t] + 1 \in 0 .. iteration_count
      <4>1. idx[t] \in Nat /\ iteration_count \in Nat
        BY <1>1, <1>2
      <4> QED  BY <2>2, <4>1
    <3> QED  BY <1>2, <2>1, <3>1
  <2>4. (blocks[t] + 1) % Wrap \in 0 .. Wrap - 1
    <3>1. blocks[t] + 1 \in Nat
      BY <1>1
    <3> QED  BY <1>1, <3>1, WrapsOnce
  <2>5. /\ blocks' \in [Bandwidth!Tids -> 0 .. Wrap - 1] /\ blocks'[t] = (blocks[t] + 1) % Wrap
        /\ \A s \in Bandwidth!Tids : s # t => blocks'[s] = blocks[s]
    BY <1>2, <2>1, <2>4
  <2>6. blocks'[t] = (idx'[t] + local_iteration[t]) % Wrap
    <3>1. (((idx[t] + local_iteration[t]) % Wrap) + 1) % Wrap = ((idx[t] + local_iteration[t]) + 1) % Wrap
      <4>1. idx[t] + local_iteration[t] \in Nat
        BY <1>1
      <4> QED  BY <1>1, <4>1, WrapsOnce
    <3>2. (idx[t] + local_iteration[t]) + 1 = (idx[t] + 1) + local_iteration[t]
      BY <1>1
    <3>3. blocks[t] = (idx[t] + local_iteration[t]) % Wrap
      BY DEF BlocksInv
    <3> QED  BY <2>3, <2>5, <3>1, <3>2, <3>3
  <2>7. /\ thread' \in [Bandwidth!Tids -> {"none", "setup", "wait", "check", "block", "ended"}]
        /\ \A s \in Bandwidth!Tids : thread'[s] = "ended" <=> thread[s] = "ended"
        /\ \A s \in Bandwidth!Tids : thread'[s] = "block" => thread[s] = "block" /\ s # t
        /\ thread[t] # "ended"
    BY <1>4, <2>1
  <2>8. Counted' = Counted
    BY <2>5, <2>7 DEF Counted
  <2>9. Bandwidth!TypeOK'
    BY <1>2, <1>3, <1>6, <2>1, <2>3, <2>5, <2>7 DEF BlocksInv, Bandwidth!TypeOK
  <2> QED  BY <1>2, <1>5, <2>1, <2>3, <2>5, <2>6, <2>7, <2>8, <2>9 DEF BlocksInv
<1>9. CASE Bandwidth!StartOver(t)
  <2>1. /\ UNCHANGED <<thread, blocks, global_iterations>> /\ idx[t] = iteration_count
        /\ thread[t] = "check"
        /\ local_iteration' = [local_iteration EXCEPT ![t] = (@ + iteration_count) % Wrap]
        /\ idx' = [idx EXCEPT ![t] = 0]
    BY <1>9 DEF Bandwidth!StartOver
  <2>2. /\ idx' \in [Bandwidth!Tids -> 0 .. iteration_count] /\ idx'[t] = 0
        /\ \A s \in Bandwidth!Tids : s # t => idx'[s] = idx[s]
    BY <1>2, <2>1
  <2>3. (local_iteration[t] + iteration_count) % Wrap \in 0 .. Wrap - 1
    <3>1. local_iteration[t] + iteration_count \in Nat
      BY <1>1, <1>2
    <3> QED  BY <1>1, <3>1, WrapsOnce
  <2>4. /\ local_iteration' \in [Bandwidth!Tids -> 0 .. Wrap - 1]
        /\ local_iteration'[t] = (local_iteration[t] + iteration_count) % Wrap
        /\ \A s \in Bandwidth!Tids : s # t => local_iteration'[s] = local_iteration[s]
    BY <1>2, <2>1, <2>3
  <2>5. blocks[t] = (idx'[t] + local_iteration'[t]) % Wrap
    <3>1. blocks[t] = (iteration_count + local_iteration[t]) % Wrap
      BY <2>1 DEF BlocksInv
    <3>2. iteration_count + local_iteration[t] = local_iteration[t] + iteration_count
      BY <1>1, <1>2
    <3>3. local_iteration'[t] \in Nat /\ local_iteration'[t] < Wrap
          /\ 0 + local_iteration'[t] = local_iteration'[t]
      BY <1>1, <2>3, <2>4
    <3>4. local_iteration'[t] % Wrap = local_iteration'[t]
      BY <1>1, <3>3, WrapsOnce
    <3> QED  BY <2>2, <2>4, <3>1, <3>2, <3>3, <3>4
  <2>6. Counted' = Counted
    BY <2>1 DEF Counted
  <2>7. Bandwidth!TypeOK'
    BY <1>2, <1>3, <1>6, <2>1, <2>2, <2>4 DEF BlocksInv, Bandwidth!TypeOK
  <2>8. \A s \in Bandwidth!Tids : thread'[s] = "block" => idx'[s] < iteration_count
    BY <2>1, <2>2 DEF BlocksInv
  <2>9. \A s \in Bandwidth!Tids : blocks'[s] = (idx'[s] + local_iteration'[s]) % Wrap
    BY <2>1, <2>2, <2>4, <2>5 DEF BlocksInv
  <2> QED  BY <1>2, <1>5, <2>1, <2>6, <2>7, <2>8, <2>9 DEF BlocksInv
<1>10. CASE Bandwidth!Finish(t)
  <2>1. /\ UNCHANGED <<idx, local_iteration, blocks>> /\ Bandwidth!Goto(t, "check", "ended")
        /\ global_iterations' = (global_iterations + idx[t] + local_iteration[t]) % Wrap
    BY <1>10 DEF Bandwidth!Finish
  <2>2. /\ thread' \in [Bandwidth!Tids -> {"none", "setup", "wait", "check", "block", "ended"}]
        /\ thread[t] = "check" /\ thread'[t] = "ended"
        /\ \A s \in Bandwidth!Tids : s # t => thread'[s] = thread[s]
        /\ \A s \in Bandwidth!Tids : thread[s] = "ended" => thread'[s] = "ended"
    BY <1>4, <2>1
  <2>3. /\ Counted' \in [1 .. thread_count -> Nat] /\ Counted'[t] = Counted[t] + blocks[t]
        /\ \A s \in Bandwidth!Tids : s # t => Counted'[s] = Counted[s]
    <3>1. Counted[t] = 0 /\ 0 + blocks[t] = blocks[t]
      BY <1>1, <2>2 DEF Counted
    <3>2. /\ Counted'[t] = blocks[t]
          /\ \A s \in Bandwidth!Tids : s # t => Counted'[s] = Counted[s]
      BY <2>1, <2>2 DEF Counted
    <3>3. Counted' \in [1 .. thread_count -> Nat]
      BY <1>1, <2>1 DEF Counted
    <3> QED  BY <3>1, <3>2, <3>3
  <2>4. Sum(Counted') = Sum(Counted) + blocks[t]
    <3>1. PICK h \in [1 .. thread_count -> Nat], f \in [1 .. thread_count -> Nat], d \in Nat :
            h = Counted' /\ f = Counted /\ d = blocks[t]
      BY <1>1, <2>3
    <3>2. h[t] = f[t] + d /\ \A s \in 1 .. thread_count : s # t => h[s] = f[s]
      BY <1>1, <2>3, <3>1
    <3>3. Sum(h) = Sum(f) + d
      <4>1. t \in 1 .. thread_count /\ thread_count \in Nat
        BY <1>1
      <4> QED  BY <3>2, <4>1, FoldGrows
    <3>4. Sum(h) = Sum(Counted')
      BY <3>1
    <3>5. Sum(f) = Sum(Counted)
      BY <3>1
    <3> QED  BY <3>1, <3>3, <3>4, <3>5
  <2>5. global_iterations' = Sum(Counted') % Wrap
    <3> DEFINE a == Sum(Counted)
               b == idx[t] + local_iteration[t]
    <3>1. a \in Nat /\ b \in Nat /\ blocks[t] = b % Wrap /\ global_iterations = a % Wrap
      BY <1>1 DEF BlocksInv
    <3>2. global_iterations + idx[t] + local_iteration[t] = (a % Wrap) + b
      BY <1>1, <1>2, <3>1
    <3>3. ((a % Wrap) + b) % Wrap = (a + b) % Wrap
      <4> HIDE DEF a, b
      <4> QED  BY <1>1, <3>1, WrapsOnce
    <3>4. (a + (b % Wrap)) % Wrap = (b + a) % Wrap
      <4> HIDE DEF a, b
      <4> QED  BY <1>1, <3>1, WrapsOnce
    <3>5. a + b = b + a
      <4> HIDE DEF a, b
      <4> QED  BY <3>1
    <3> HIDE DEF a, b
    <3> QED  BY <2>1, <2>4, <3>1, <3>2, <3>3, <3>4, <3>5 DEF a
  <2>6. global_iterations' \in 0 .. Wrap - 1
    <3>1. (global_iterations + idx[t]) + local_iteration[t] \in Nat
      <4>1. global_iterations \in Nat
        BY <1>1, <1>2
      <4> QED  BY <1>1, <4>1
    <3> QED  BY <1>1, <2>1, <3>1, WrapsOnce
  <2>7. Bandwidth!TypeOK'
    BY <1>2, <1>3, <1>6, <2>1, <2>2, <2>6 DEF BlocksInv, Bandwidth!TypeOK
  <2>8. \A s \in Bandwidth!Tids : thread'[s] = "block" => idx[s] < iteration_count
    BY <2>2 DEF BlocksInv
  <2> QED  BY <1>2, <1>5, <2>1, <2>2, <2>5, <2>7, <2>8 DEF BlocksInv
<1> QED  BY <1>7, <1>8, <1>9, <1>10 DEF Bandwidth!Thread

(* ... in the harness.                                                     *)
LEMMA CountedStep == CountedInv /\ [Next]_vars => CountedInv'
<1> SUFFICES ASSUME CountedInv, [Next]_vars, program = "bw" PROVE BarrierInv' /\ BlocksInv'
  BY SameProgram DEF CountedInv
<1>1. BarrierInv /\ BlocksInv
  BY DEF CountedInv
<1>2. \/ Bandwidth!Main
      \/ \E t \in Bandwidth!Tids : Bandwidth!Thread(t)
      \/ UNCHANGED vars
  BY DEF Next, Main, Exit, InInterference, InFlush, InBandwidth, InLatency, InAlex
<1>3. BarrierInv'
  <2>1. BandwidthInv /\ program' = "bw"
    BY <1>1, SameProgram DEF BandwidthInv
  <2> QED  BY <2>1, BandwidthStep DEF BandwidthInv
<1>4. CASE UNCHANGED vars
  <2>1. Counted' = Counted /\ Bandwidth!TypeOK'
    BY <1>1, <1>4 DEF vars, bandwidth_vars, Counted, BlocksInv, Bandwidth!TypeOK
  <2> QED  BY <1>1, <1>3, <1>4, <2>1 DEF vars, bandwidth_vars, BlocksInv
<1> QED  BY <1>1, <1>2, <1>3, <1>4, BlocksMain, BlocksThreads

(* When main prints all threads have ended, so that all blocks count.      *)
LEMMA CountedAll ==
  ASSUME BlocksInv PROVE Bandwidth!TypeOK /\ Bandwidth!ResultsAreComplete
<1>1. SUFFICES ASSUME main = "print"
               PROVE  global_iterations = Bandwidth!FoldFunction(+, 0, blocks) % Wrap
  BY DEF BlocksInv, Bandwidth!ResultsAreComplete
<1>2. Counted = blocks
  <2>1. /\ \A t \in Bandwidth!Tids : Counted[t] = blocks[t]
        /\ DOMAIN Counted = Bandwidth!Tids /\ blocks \in [Bandwidth!Tids -> 0 .. Wrap - 1]
        /\ Counted = [t \in Bandwidth!Tids |-> Counted[t]]
    BY <1>1 DEF BlocksInv, Counted, Bandwidth!TypeOK
  <2> HIDE DEF Counted
  <2> QED  BY <2>1
<1>3. global_iterations = Sum(blocks) % Wrap
  BY <1>2 DEF BlocksInv
<1> QED  BY <1>3, Zenon DEF Sum

-----------------------------------------------------------------------------
(* The interference benchmark: a worker has taken a measurement for every  *)
(* iteration it counts, when main joins all were told to stop, and a       *)
(* vector gets new memory at most once per worker.                         *)
Measured(w) ==
  /\ performed[w] <= nano_seconds[w]
  /\ thread[w] = "count" => performed[w] < nano_seconds[w] \/ nano_seconds[w] = MaxIterations

StorageBound ==
  CASE main = "emplace" -> turn - 1
    [] main \in {"spawn", "push"} -> turn
    [] OTHER -> Len(VectorOf)

ResultsInv ==
  /\ WorkersInv /\ IterationsInv
  /\ main \in {"emplace", "spawn", "push", "await_ready", "start", "await_iterations",
               "stop", "join", "print", "done", "crashed"}
  /\ storage \in [Interference!Vectors -> 0 .. Len(VectorOf)]
  /\ \A vector \in Interference!Vectors : storage[vector] <= StorageBound
  /\ seen \in [Interference!all_workers -> 0 .. Len(VectorOf)]
  /\ nano_seconds \in [Interference!all_workers -> 0 .. MaxIterations]
  /\ \A w \in Interference!all_workers : Measured(w)
  /\ main \in {"await_iterations", "stop", "join", "print"} =>
       \A w \in Interference!all_workers : ready[w]
  /\ main = "stop" => \A w \in Interference!all_workers : w < turn => stop[w]
  /\ main \in {"join", "print"} => \A w \in Interference!all_workers : stop[w]
  /\ main = "join" => \A w \in Interference!all_workers : w < turn => thread[w] = "ended"
  /\ main = "print" => \A w \in Interference!all_workers : thread[w] = "ended"

WorkersResults == program = "interference" => ResultsInv

(* Nothing is measured at first, and no vector has memory.                 *)
LEMMA ResultsInit == Init => WorkersResults
<1> SUFFICES ASSUME Init, program = "interference" PROVE ResultsInv
  BY DEF WorkersResults
<1>1. Interference!Init
  BY DEF Init, InitOf, InitOfLatency
<1>2. WorkersInv /\ IterationsInv
  BY InterferenceInit, IterationsInit DEF InterferenceInv, EnoughInv
<1>3. 0 \in 0 .. Len(VectorOf) /\ 0 \in 0 .. MaxIterations /\ 0 <= 0 /\ 0 <= 1 - 1
  BY InterferenceAssumption
<1>4. /\ main = "emplace" /\ turn = 1
      /\ thread = [w \in Interference!all_workers |-> "none"]
      /\ storage = [vector \in Interference!Vectors |-> 0]
      /\ seen = [w \in Interference!all_workers |-> 0]
      /\ performed = [w \in Interference!all_workers |-> 0]
      /\ nano_seconds = [w \in Interference!all_workers |-> 0]
  BY <1>1 DEF Interference!Init
<1> QED  BY <1>2, <1>3, <1>4 DEF ResultsInv, Measured, StorageBound

(* When main is to print, what it prints is there.                         *)
LEMMA HasResults ==
  ASSUME ResultsInv, main = "print", NEW w \in Interference!all_workers
  PROVE  thread[w] = "ended" /\ Interference!HasResult(w)
<1>1. stop[w] /\ thread[w] = "ended"
  BY DEF ResultsInv
<1>2. performed[w] >= 3 /\ performed[w] \in 0 .. MaxIterations /\ MaxIterations \in Nat
  BY <1>1, InterferenceAssumption DEF ResultsInv, IterationsInv, Enough, Interference!WaitIterations
<1>3. performed[w] <= nano_seconds[w] /\ nano_seconds[w] \in 0 .. MaxIterations
  BY DEF ResultsInv, Measured
<1> QED  BY <1>1, <1>2, <1>3 DEF Interference!HasResult, Interference!Printed

(* main gives memory to one vector per turn, tells one worker after the    *)
(* other to stop and joins one after the other.                            *)
LEMMA ResultsMain == ASSUME ResultsInv, Interference!Main PROVE ResultsInv'
<1> USE DEF Interference!flags, Interference!counts
<1> DEFINE n == Len(VectorOf)
<1>1. n \in Nat \ {0} /\ Interference!all_workers = 1 .. n
  BY InterferenceAssumption DEF Interference!all_workers
<1>0. WorkersInv' /\ IterationsInv'
  BY WorkersMain, IterationsMain DEF ResultsInv
<1> HIDE DEF n
<1>2. /\ turn \in Nat /\ 1 <= turn /\ turn <= n /\ 1 \in Interference!all_workers
      /\ \A w \in Interference!all_workers : w \in Nat /\ 1 <= w /\ w <= n
  BY <1>1 DEF ResultsInv, WorkersInv
<1>3. ASSUME NEW from, NEW again, NEW after, Interference!EndOfTurn(from, again, after)
      PROVE  /\ main = from /\ turn' \in Interference!all_workers
             /\ \/ turn < n /\ turn' = turn + 1 /\ main' = again
                \/ turn = n /\ turn' = 1 /\ main' = after
  BY <1>1, <1>2, <1>3 DEF Interference!EndOfTurn, n
<1>4. \A vector \in Interference!Vectors : storage[vector] \in 0 .. n /\ storage[vector] <= StorageBound
  BY DEF ResultsInv, n
<1>5. ASSUME UNCHANGED <<thread, performed, nano_seconds>>
      PROVE  \A w \in Interference!all_workers : Measured(w)'
  BY <1>5 DEF ResultsInv, Measured
<1>6. CASE Interference!EmplaceWorker
  <2> DEFINE vector == VectorOf[turn]
  <2>1. /\ main = "emplace" /\ main' = "spawn"
        /\ storage' \in {storage, [storage EXCEPT ![vector] = @ + 1]}
        /\ UNCHANGED <<turn, thread, seen, ready, run, stop, performed, nano_seconds>>
    BY <1>6 DEF Interference!EmplaceWorker
  <2>2. StorageBound = turn - 1 /\ StorageBound' = turn
    BY <2>1 DEF StorageBound
  <2>3. vector \in Interference!Vectors
    BY DEF ResultsInv, WorkersInv, Interference!Vectors
  <2>4. ASSUME NEW u \in Interference!Vectors
        PROVE  storage'[u] \in 0 .. n /\ storage'[u] <= turn
    <3>1. storage[u] \in 0 .. n /\ storage[u] <= turn - 1
      BY <1>4, <2>2
    <3>2. storage'[u] \in {storage[u], storage[u] + 1}
      BY <2>1, <2>3 DEF ResultsInv
    <3> QED  BY <1>1, <1>2, <3>1, <3>2
  <2>5. storage' \in [Interference!Vectors -> 0 .. n]
    <3>1. storage' = [u \in Interference!Vectors |-> storage'[u]]
      BY <2>1, <2>3 DEF ResultsInv
    <3> QED  BY <2>4, <3>1
  <2> QED  BY <1>0, <1>5, <2>1, <2>2, <2>4, <2>5 DEF ResultsInv, n
<1>7. CASE Interference!CreateThread
  <2>1. /\ main = "spawn" /\ main' = "push" /\ thread' = [thread EXCEPT ![turn] = "begin"]
        /\ UNCHANGED <<turn, storage, seen, ready, run, stop, performed, nano_seconds>>
    BY <1>7 DEF Interference!CreateThread
  <2>2. \A w \in Interference!all_workers : thread'[w] \in {"begin", thread[w]}
    BY <2>1 DEF ResultsInv, WorkersInv
  <2>3. \A w \in Interference!all_workers : Measured(w)'
    BY <2>1, <2>2 DEF ResultsInv, Measured
  <2>4. StorageBound' = StorageBound
    BY <2>1 DEF StorageBound
  <2> QED  BY <1>0, <2>1, <2>3, <2>4 DEF ResultsInv
<1>8. CASE Interference!PushWorker
  <2>1. /\ Interference!EndOfTurn("push", "emplace", "await_ready")
        /\ UNCHANGED <<thread, storage, seen, ready, run, stop, performed, nano_seconds>>
    BY <1>8 DEF Interference!PushWorker
  <2>2. StorageBound = turn /\ StorageBound' = turn
    <3>1. (turn + 1) - 1 = turn
      BY <1>2
    <3> QED  BY <1>3, <2>1, <3>1 DEF StorageBound, n
  <2> QED  BY <1>0, <1>3, <1>5, <2>1, <2>2 DEF ResultsInv
<1>9. ASSUME NEW from, NEW again, NEW after, Interference!EndOfTurn(from, again, after),
             from \in {"await_ready", "start", "await_iterations", "stop", "join", "print"},
             again \in {"await_ready", "start", "await_iterations", "stop", "join", "print"},
             after \in {"start", "await_iterations", "stop", "join", "print", "done"}
      PROVE  StorageBound' = StorageBound
  BY <1>3, <1>9 DEF StorageBound
<1>10. CASE Interference!WaitForAllToGetReady
  <2>1. /\ Interference!EndOfTurn("await_ready", "await_ready", "start")
        /\ UNCHANGED <<thread, storage, seen, ready, run, stop, performed, nano_seconds>>
    BY <1>10 DEF Interference!WaitForAllToGetReady
  <2>2. StorageBound' = StorageBound /\ main' \in {"await_ready", "start"}
    BY <1>3, <1>9, <2>1
  <2> QED  BY <1>0, <1>5, <2>1, <2>2 DEF ResultsInv
<1>11. CASE Interference!StartAll
  <2>1. /\ Interference!EndOfTurn("start", "start", "await_iterations")
        /\ UNCHANGED <<thread, storage, seen, ready, stop, performed, nano_seconds>>
    BY <1>11 DEF Interference!StartAll
  <2>2. /\ StorageBound' = StorageBound /\ main = "start" /\ main' \in {"start", "await_iterations"}
    BY <1>3, <1>9, <2>1
  <2>3. \A w \in Interference!all_workers : ready[w]
    BY <2>2 DEF ResultsInv, WorkersInv
  <2> QED  BY <1>0, <1>5, <2>1, <2>2, <2>3 DEF ResultsInv
<1>12. CASE Interference!WaitForAllToPerformAtLeastInterations
  <2>1. /\ Interference!EndOfTurn("await_iterations", "await_iterations", "stop")
        /\ UNCHANGED <<thread, storage, seen, ready, run, stop, performed, nano_seconds>>
    BY <1>12 DEF Interference!WaitForAllToPerformAtLeastInterations
  <2>2. StorageBound' = StorageBound /\ main = "await_iterations"
    BY <1>3, <1>9, <2>1
  <2>3. main' = "await_iterations" \/ (main' = "stop" /\ turn' = 1)
    BY <1>3, <2>1
  <2>4. \A w \in Interference!all_workers : ~ (w < 1)
    BY <1>2
  <2> QED  BY <1>0, <1>5, <2>1, <2>2, <2>3, <2>4 DEF ResultsInv
<1>13. CASE Interference!StopAll
  <2>1. /\ Interference!EndOfTurn("stop", "stop", "join")
        /\ stop' = [stop EXCEPT ![turn] = TRUE]
        /\ UNCHANGED <<thread, storage, seen, ready, run, performed, nano_seconds>>
    BY <1>13 DEF Interference!StopAll
  <2>2. /\ StorageBound' = StorageBound /\ main = "stop"
        /\ \/ main' = "stop" /\ turn' = turn + 1
           \/ main' = "join" /\ turn' = 1 /\ turn = n
    BY <1>3, <1>9, <2>1
  <2>3. \A w \in Interference!all_workers : w < turn + 1 => stop'[w]
    <3>1. \A w \in Interference!all_workers : w < turn + 1 => w < turn \/ w = turn
      BY <1>2
    <3>2. stop \in [Interference!all_workers -> BOOLEAN]
      BY DEF ResultsInv, IterationsInv
    <3>3. \A w \in Interference!all_workers : w < turn => stop[w]
      BY <2>2 DEF ResultsInv
    <3> QED  BY <2>1, <3>1, <3>2, <3>3
  <2>4. turn = n => \A w \in Interference!all_workers : w < turn + 1
    BY <1>2
  <2>5. \A w \in Interference!all_workers : ~ (w < 1)
    BY <1>2
  <2> QED  BY <1>0, <1>5, <2>1, <2>2, <2>3, <2>4, <2>5 DEF ResultsInv
<1>14. CASE Interference!WaitForAllToDie
  <2>1. /\ Interference!EndOfTurn("join", "join", "print") /\ thread[turn] = "ended"
        /\ UNCHANGED <<thread, storage, seen, ready, run, stop, performed, nano_seconds>>
    BY <1>14 DEF Interference!WaitForAllToDie
  <2>2. /\ StorageBound' = StorageBound /\ main = "join"
        /\ \/ main' = "join" /\ turn' = turn + 1
           \/ main' = "print" /\ turn = n
    BY <1>3, <1>9, <2>1
  <2>3. \A w \in Interference!all_workers : w < turn + 1 => thread[w] = "ended"
    <3>1. \A w \in Interference!all_workers : w < turn + 1 => w < turn \/ w = turn
      BY <1>2
    <3> QED  BY <2>1, <2>2, <3>1 DEF ResultsInv
  <2>4. turn = n => \A w \in Interference!all_workers : w < turn + 1
    BY <1>2
  <2> QED  BY <1>0, <1>5, <2>1, <2>2, <2>3, <2>4 DEF ResultsInv
<1>15. CASE Interference!PrintAll
  <2>1. /\ \/ Interference!EndOfTurn("print", "print", "done")
           \/ main = "print" /\ main' = "crashed"
        /\ UNCHANGED <<thread, storage, seen, ready, run, stop, performed, nano_seconds>>
    BY <1>15 DEF Interference!PrintAll
  <2>2. main = "print" /\ main' \in {"print", "done", "crashed"}
    BY <1>3, <2>1
  <2>3. StorageBound' = StorageBound
    BY <2>2 DEF StorageBound
  <2> QED  BY <1>0, <1>5, <2>1, <2>2, <2>3 DEF ResultsInv
<1> QED  BY <1>6, <1>7, <1>8, <1>10, <1>11, <1>12, <1>13, <1>14, <1>15 DEF Interference!Main

(* A worker measures, then counts.                                         *)
LEMMA ResultsThreads ==
  ASSUME ResultsInv, NEW w \in Interference!all_workers, Interference!Thread(w)
  PROVE  ResultsInv'
<1> USE DEF Interference!flags, Interference!counts
<1>1. WorkersInv' /\ IterationsInv'
  BY WorkersThreads, IterationsThreads DEF ResultsInv
<1>2. /\ UNCHANGED <<turn, storage, run, stop>>
      /\ \A u \in Interference!all_workers : ready[u] => ready'[u]
  <2>1. UNCHANGED <<turn, storage, run, stop>> /\ ready' \in {ready, [ready EXCEPT ![w] = TRUE]}
    BY DEF Interference!Thread, Interference!TakeVector, Interference!LoadWorker,
       Interference!Setup, Interference!AwaitRun, Interference!CheckStop,
       Interference!DoOneRun, Interference!CountIteration
  <2>2. ready \in [Interference!all_workers -> BOOLEAN]
    BY DEF ResultsInv, WorkersInv
  <2> QED  BY <2>1, <2>2
<1>3. /\ MaxIterations \in Nat /\ MaxIterations > 3
      /\ nano_seconds \in [Interference!all_workers -> 0 .. MaxIterations]
      /\ performed \in [Interference!all_workers -> 0 .. MaxIterations]
      /\ thread \in [Interference!all_workers ->
                   {"none", "begin", "load", "setup", "wait", "loop", "iterate", "count", "ended"}]
  BY InterferenceAssumption DEF ResultsInv, WorkersInv, IterationsInv, Interference!WaitIterations
<1>4. /\ \A u \in Interference!all_workers : thread[u] = "ended" => thread'[u] = "ended"
      /\ \A u \in Interference!all_workers : u # w => thread'[u] = thread[u]
      /\ \/ main' = main
         \/ main' = "crashed" /\ thread[w] = "load"
      /\ main \notin {"crashed", "done"}
  <2>1. \/ thread' = thread
        \/ \E to \in {"load", "setup", "wait", "loop", "iterate", "count", "ended"} :
             thread[w] # "ended" /\ thread' = [thread EXCEPT ![w] = to]
    BY DEF Interference!Thread, Interference!TakeVector, Interference!LoadWorker,
       Interference!Setup, Interference!AwaitRun, Interference!CheckStop,
       Interference!DoOneRun, Interference!CountIteration, Interference!Goto
  <2>2. main' = main \/ (main' = "crashed" /\ thread[w] = "load")
    BY DEF Interference!Thread, Interference!TakeVector, Interference!LoadWorker,
       Interference!Setup, Interference!AwaitRun, Interference!CheckStop,
       Interference!DoOneRun, Interference!CountIteration
  <2>3. main \notin {"crashed", "done"}
    BY DEF Interference!Thread, Interference!Alive
  <2> QED  BY <1>3, <2>1, <2>2, <2>3
<1>5. \A vector \in Interference!Vectors : storage'[vector] <= StorageBound'
  <2>1. CASE main' = main
    BY <1>2, <2>1 DEF ResultsInv, StorageBound
  <2>2. CASE main' = "crashed"
    BY <1>2, <2>2, InterferenceAssumption DEF ResultsInv, StorageBound
  <2> QED  BY <1>4, <2>1, <2>2
<1>6. seen' \in [Interference!all_workers -> 0 .. Len(VectorOf)]
  <2>1. \/ seen' = seen
        \/ seen' = [seen EXCEPT ![w] = storage[VectorOf[w]]]
    BY DEF Interference!Thread, Interference!TakeVector, Interference!LoadWorker,
       Interference!Setup, Interference!AwaitRun, Interference!CheckStop,
       Interference!DoOneRun, Interference!CountIteration
  <2>2. storage[VectorOf[w]] \in 0 .. Len(VectorOf)
    BY DEF ResultsInv, Interference!Vectors
  <2> QED  BY <2>1, <2>2 DEF ResultsInv
<1>7. /\ nano_seconds' \in [Interference!all_workers -> 0 .. MaxIterations]
      /\ \A u \in Interference!all_workers : Measured(u)'
  <2>1. CASE Interference!DoOneRun(w)
    <3>1. /\ thread[w] = "iterate" /\ thread' = [thread EXCEPT ![w] = "count"] /\ performed' = performed
          /\ nano_seconds' = [nano_seconds EXCEPT ![w] = Interference!Capped(@ + 1)]
      BY <2>1 DEF Interference!DoOneRun, Interference!Goto
    <3>2. \A k, m \in 0 .. MaxIterations :
            /\ Interference!Capped(k + 1) \in 0 .. MaxIterations
            /\ m <= k => /\ m <= Interference!Capped(k + 1)
                         /\ \/ m < Interference!Capped(k + 1)
                            \/ Interference!Capped(k + 1) = MaxIterations
      BY <1>3 DEF Interference!Capped
    <3>3. nano_seconds' \in [Interference!all_workers -> 0 .. MaxIterations]
      BY <1>3, <3>1, <3>2
    <3>4. Measured(w)'
      BY <1>3, <3>1, <3>2 DEF ResultsInv, Measured
    <3>5. \A u \in Interference!all_workers : u # w => Measured(u)'
      BY <1>3, <3>1 DEF ResultsInv, Measured
    <3> QED  BY <3>3, <3>4, <3>5
  <2>2. CASE Interference!CountIteration(w)
    <3>1. /\ thread[w] = "count" /\ thread' = [thread EXCEPT ![w] = "loop"]
          /\ nano_seconds' = nano_seconds
          /\ performed' = [performed EXCEPT ![w] = Interference!Capped(@ + 1)]
      BY <2>2 DEF Interference!CountIteration, Interference!Goto
    <3>2. \A k, m \in 0 .. MaxIterations :
            m < k \/ k = MaxIterations => Interference!Capped(m + 1) <= k
      BY <1>3 DEF Interference!Capped
    <3>3. performed[w] < nano_seconds[w] \/ nano_seconds[w] = MaxIterations
      BY <3>1 DEF ResultsInv, Measured
    <3>4. thread'[w] = "loop" /\ performed'[w] = Interference!Capped(performed[w] + 1)
      BY <1>3, <3>1
    <3>5. Measured(w)'
      BY <1>3, <3>1, <3>2, <3>3, <3>4 DEF Measured
    <3>6. \A u \in Interference!all_workers : u # w => Measured(u)'
      BY <1>3, <3>1 DEF ResultsInv, Measured
    <3> QED  BY <1>3, <3>1, <3>5, <3>6
  <2>3. CASE ~ Interference!DoOneRun(w) /\ ~ Interference!CountIteration(w)
    <3>1. /\ UNCHANGED <<performed, nano_seconds>>
          /\ \/ thread' = thread
             \/ \E to \in {"load", "setup", "wait", "loop", "iterate", "ended"} :
                  thread' = [thread EXCEPT ![w] = to]
      BY <2>3 DEF Interference!Thread, Interference!TakeVector, Interference!LoadWorker,
         Interference!Setup, Interference!AwaitRun, Interference!CheckStop, Interference!Goto
    <3>2. \A u \in Interference!all_workers : thread'[u] = "count" => thread[u] = "count"
      BY <1>3, <3>1
    <3> QED  BY <1>3, <3>1, <3>2 DEF ResultsInv, Measured
  <2> QED  BY <2>1, <2>2, <2>3
<1> QED  BY <1>1, <1>2, <1>4, <1>5, <1>6, <1>7 DEF ResultsInv

(* ... in the harness.                                                     *)
LEMMA ResultsStep == WorkersResults /\ [Next]_vars => WorkersResults'
<1> SUFFICES ASSUME WorkersResults, [Next]_vars, program = "interference" PROVE ResultsInv'
  BY SameProgram DEF WorkersResults
<1>1. ResultsInv
  BY DEF WorkersResults
<1>2. \/ Interference!Main
      \/ \E w \in Interference!all_workers : Interference!Thread(w)
      \/ UNCHANGED vars
  BY DEF Next, Main, Exit, InInterference, InFlush, InBandwidth, InLatency, InAlex
<1>3. CASE UNCHANGED vars
  <2>1. WorkersInv' /\ IterationsInv'
    BY <1>1, <1>3 DEF vars, interference_vars, ResultsInv, WorkersInv, Interference!Started,
       IterationsInv, Enough
  <2> QED  BY <1>1, <1>3, <2>1 DEF vars, interference_vars, ResultsInv, Measured, StorageBound
<1> QED  BY <1>1, <1>2, <1>3, ResultsMain, ResultsThreads

-----------------------------------------------------------------------------
(* The page flush benchmark: a thread has added its time to those of the   *)
(* round when it is to check its pages, and no thread of an earlier round  *)
(* adds one.                                                               *)
TimesOf == [tid \in Flush!Tids |->
              IF thread[<<round, tid>>] \in {"check", "ended"} THEN 1 ELSE 0]

TimesInv == program = "page_flush" => times = TimesOf

(* No time is there at first.                                              *)
LEMMA TimesInit == Init => TimesInv
<1> SUFFICES ASSUME Init, program = "page_flush" PROVE times = TimesOf
  BY DEF TimesInv
<1>1. Flush!Init
  BY DEF Init, InitOf, InitOfLatency
<1>2. \A tid \in Flush!Tids : <<1, tid>> \in Flush!AllThreads
  BY FlushRoundsAssumption DEF Flush!Tids, Flush!AllThreads
<1>3. \A tid \in Flush!Tids : thread[<<round, tid>>] = "none"
  BY <1>1, <1>2 DEF Flush!Init
<1>4. times = [tid \in Flush!Tids |-> 0]
  BY <1>1 DEF Flush!Init, Flush!FreshRound
<1> QED  BY <1>3, <1>4 DEF TimesOf

(* main takes no time, and gives the next round fresh ones.                *)
LEMMA TimesMain ==
  ASSUME RoundsInv, StartInv, times = TimesOf, Flush!Main PROVE times' = TimesOf'
<1>1. /\ turn \in Flush!Tids /\ round \in Nat
      /\ \A tid \in Flush!Tids : <<round, tid>> \in Flush!AllThreads /\ tid \in Nat
  BY FlushRoundsAssumption DEF RoundsInv, Flush!Tids, Flush!AllThreads
<1>2. CASE Flush!CreateThread
  <2>1. /\ main = "spawn" /\ UNCHANGED <<round, times>>
        /\ thread' = [thread EXCEPT ![<<round, turn>>] = "prepare"]
    BY <1>2 DEF Flush!CreateThread, Flush!EndOfTurn, Flush!round_vars
  <2>2. thread[<<round, turn>>] = "none"
    BY <1>1, <2>1 DEF StartInv
  <2>3. \A tid \in Flush!Tids :
          \/ thread'[<<round, tid>>] = thread[<<round, tid>>]
          \/ thread'[<<round, tid>>] = "prepare" /\ thread[<<round, tid>>] = "none"
    BY <1>1, <2>1, <2>2 DEF RoundsInv
  <2> QED  BY <2>1, <2>3 DEF TimesOf
<1>3. CASE UNCHANGED <<thread, round, times>>
  BY <1>3 DEF TimesOf
<1>4. CASE Flush!AwaitReady \/ Flush!OpenBarrier \/ Flush!Join
  BY <1>3, <1>4 DEF Flush!AwaitReady, Flush!OpenBarrier, Flush!Join, Flush!round_vars
<1>5. CASE Flush!EndRound
  <2>1. CASE main' = "done" /\ UNCHANGED Flush!round_vars
    BY <1>3, <1>5, <2>1 DEF Flush!EndRound, Flush!round_vars
  <2>2. CASE /\ round < Rounds /\ main' = "spawn" /\ round' = round + 1
             /\ Flush!FreshRound(ready_count', start_barrier', times')
    <3>1. times' = [tid \in Flush!Tids |-> 0] /\ thread' = thread
      BY <1>5, <2>2 DEF Flush!FreshRound, Flush!EndRound
    <3>2. \A tid \in Flush!Tids : thread[<<round + 1, tid>>] = "none"
      <4>1. round + 1 \in 1 .. Rounds /\ round + 1 > round
        BY <1>1, <2>2, FlushRoundsAssumption
      <4>2. \A tid \in Flush!Tids : <<round + 1, tid>> \in Flush!AllThreads
        BY <4>1 DEF Flush!AllThreads
      <4> QED  BY <4>1, <4>2 DEF RoundsInv
    <3> QED  BY <2>2, <3>1, <3>2 DEF TimesOf
  <2> QED  BY <1>5, <2>1, <2>2 DEF Flush!EndRound
<1> QED  BY <1>2, <1>4, <1>5 DEF Flush!Main

(* A thread adds its time once, when it has flushed.                       *)
LEMMA TimesThreads ==
  ASSUME RoundsInv, times = TimesOf, NEW t \in Flush!AllThreads, Flush!Thread(t)
  PROVE  times' = TimesOf'
<1>1. /\ t[1] \in Nat /\ t[2] \in Flush!Tids /\ t = <<t[1], t[2]>> /\ round \in Nat
      /\ \A tid \in Flush!Tids : <<round, tid>> \in Flush!AllThreads /\ (tid # t[2] => <<round, tid>> # t)
      /\ thread \in [Flush!AllThreads -> {"none", "prepare", "wait", "flush", "check", "ended"}]
  BY FlushRoundsAssumption DEF RoundsInv, Flush!Tids, Flush!AllThreads
<1>2. round' = round
  BY DEF Flush!Thread, Flush!Prepare, Flush!AwaitBarrier, Flush!FlushAll,
     Flush!CheckNvmContent, Flush!round_vars
<1>3. ASSUME NEW from \in {"prepare", "wait", "flush", "check"},
             NEW to \in {"wait", "flush", "check", "ended"}, Flush!Goto(t, from, to)
      PROVE  /\ thread[<<round, t[2]>>] = from /\ thread'[<<round, t[2]>>] = to
             /\ \A tid \in Flush!Tids : tid # t[2] => thread'[<<round, tid>>] = thread[<<round, tid>>]
  <2>1. thread[t] = from /\ thread' = [thread EXCEPT ![t] = to]
    BY <1>3 DEF Flush!Goto
  <2>2. t[1] = round
    BY <1>1, <2>1 DEF RoundsInv
  <2> QED  BY <1>1, <2>1, <2>2
<1>4. CASE Flush!FlushAll(t)
  <2>1. Flush!Goto(t, "flush", "check") /\ times' = [times EXCEPT ![t[2]] = @ + 1]
    BY <1>4 DEF Flush!FlushAll
  <2>2. /\ thread[<<round, t[2]>>] = "flush" /\ thread'[<<round, t[2]>>] = "check"
        /\ \A tid \in Flush!Tids : tid # t[2] => thread'[<<round, tid>>] = thread[<<round, tid>>]
    BY <1>3, <2>1
  <2>3. times[t[2]] = 0 /\ times'[t[2]] = 1
    BY <1>1, <2>1, <2>2 DEF TimesOf
  <2>4. times' = [tid \in Flush!Tids |-> times'[tid]]
    BY <2>1 DEF TimesOf
  <2>5. TimesOf'[t[2]] = 1
    BY <1>1, <1>2, <2>2 DEF TimesOf
  <2>6. \A tid \in Flush!Tids : tid # t[2] => TimesOf'[tid] = times'[tid]
    BY <1>1, <1>2, <2>1, <2>2 DEF TimesOf
  <2>7. \A tid \in Flush!Tids : TimesOf'[tid] = times'[tid]
    BY <2>3, <2>5, <2>6
  <2>8. TimesOf' = [tid \in Flush!Tids |-> TimesOf'[tid]]
    BY DEF TimesOf
  <2> QED  BY <2>4, <2>7, <2>8
<1>5. CASE Flush!Prepare(t) \/ Flush!AwaitBarrier(t) \/ Flush!CheckNvmContent(t)
  <2>1. /\ UNCHANGED times
        /\ \/ Flush!Goto(t, "prepare", "wait")
           \/ Flush!Goto(t, "wait", "flush")
           \/ Flush!Goto(t, "check", "ended")
    BY <1>5 DEF Flush!Prepare, Flush!AwaitBarrier, Flush!CheckNvmContent, Flush!round_vars
  <2>2. \A tid \in Flush!Tids :
          thread'[<<round, tid>>] \in {"check", "ended"} <=> thread[<<round, tid>>] \in {"check", "ended"}
    <3>1. \/ thread[<<round, t[2]>>] = "prepare" /\ thread'[<<round, t[2]>>] = "wait"
          \/ thread[<<round, t[2]>>] = "wait" /\ thread'[<<round, t[2]>>] = "flush"
          \/ thread[<<round, t[2]>>] = "check" /\ thread'[<<round, t[2]>>] = "ended"
      BY <1>3, <2>1
    <3>2. \A tid \in Flush!Tids : tid # t[2] => thread'[<<round, tid>>] = thread[<<round, tid>>]
      BY <1>3, <2>1
    <3> QED  BY <3>1, <3>2
  <2> QED  BY <1>2, <2>1, <2>2 DEF TimesOf
<1> QED  BY <1>4, <1>5 DEF Flush!Thread

(* ... in the harness.                                                     *)
LEMMA TimesStep == FlushInv /\ FlushStartInv /\ TimesInv /\ [Next]_vars => TimesInv'
<1> SUFFICES ASSUME FlushInv, FlushStartInv, TimesInv, [Next]_vars, program = "page_flush"
             PROVE  times' = TimesOf'
  BY SameProgram DEF TimesInv
<1>1. RoundsInv /\ StartInv /\ times = TimesOf
  BY DEF FlushInv, FlushStartInv, TimesInv
<1>2. \/ Flush!Main
      \/ \E t \in Flush!AllThreads : Flush!Thread(t)
      \/ UNCHANGED vars
  BY DEF Next, Main, Exit, InInterference, InFlush, InBandwidth, InLatency, InAlex
<1>3. CASE UNCHANGED vars
  BY <1>1, <1>3 DEF vars, flush_vars, TimesOf
<1> QED  BY <1>1, <1>2, <1>3, TimesMain, TimesThreads

(* So main adds up one time of every thread, and the variables have their  *)
(* types.                                                                  *)
LEMMA TimesAll ==
  ASSUME RoundsInv, StartInv, times = TimesOf
  PROVE  Flush!TypeOK /\ Flush!ResultsAreComplete
<1>1. times \in [Flush!Tids -> 0 .. 1]
  BY DEF TimesOf
<1>2. ready_count \in 0 .. THREAD_COUNT
  <2>1. Prepared \in SUBSET (1 .. THREAD_COUNT) /\ THREAD_COUNT \in Nat
    BY FlushRoundsAssumption DEF Prepared, Flush!Tids
  <2>2. Cardinality(Prepared) \in Nat /\ Cardinality(Prepared) <= THREAD_COUNT
    BY <2>1, CountedUp
  <2> QED  BY <2>1, <2>2 DEF StartInv
<1>3. Flush!TypeOK
  BY <1>1, <1>2 DEF RoundsInv, StartInv, Flush!TypeOK
<1>4. Flush!ResultsAreComplete
  BY DEF RoundsInv, AllEnded, TimesOf, Flush!ResultsAreComplete
<1> QED  BY <1>3, <1>4

-----------------------------------------------------------------------------
(* read_latency.cpp: at the end of run n a thread has done (n + 1) * STEP  *)
(* reads, or all.                                                          *)
Reads(n) == n * STEP
AtMost(n) == IF n < REPETITIONS THEN n ELSE REPETITIONS

Progress(t) ==
  /\ thread[t] \in {"none", "spin"} => i[t] = 0 /\ run_number[t] = 0
  /\ thread[t] = "begin" => i[t] = AtMost(Reads(run_number[t]))
  /\ thread[t] = "read" => i[t] <= limit[t] /\ limit[t] = AtMost(Reads(run_number[t] + 1))
  /\ thread[t] = "ended" => (REPETITIONS <= Reads(LastRun + 1) => i[t] = REPETITIONS)

RunsInv ==
  /\ \A t \in Latency!Tids : Progress(t)
  /\ main = "go" => turn = 1
  /\ main = "join" => \A t \in Latency!Tids : t < turn => thread[t] = "ended"
  /\ main \in {"check", "print", "done"} => \A t \in Latency!Tids : thread[t] = "ended"

ReadsInv == program = "read_latency" => RunsInv

(* No read is done at first.                                               *)
LEMMA ReadsInit == Init => ReadsInv
<1> SUFFICES ASSUME Init, program = "read_latency" PROVE RunsInv
  BY DEF ReadsInv
<1>1. Latency!Init
  BY DEF Init, InitOf, InitOfLatency
<1>2. /\ main = "create"
      /\ \A t \in Latency!Tids : thread[t] = "none" /\ i[t] = 0 /\ run_number[t] = 0
  BY <1>1 DEF Latency!Init, Latency!MainInit
<1> QED  BY <1>2 DEF RunsInv, Progress

(* The reads of a run.                                                     *)
LEMMA ReadsGrow ==
  /\ STEP \in Nat \ {0} /\ LastRun \in Nat /\ Reads(0) = 0
  /\ \A n \in Nat : Reads(n) \in Nat /\ Reads(n + 1) = Reads(n) + STEP
<1>1. STEP \in Nat \ {0} /\ LastRun \in Nat
  BY Assumptions DEF Latency!RunsAssumption
<1>2. \A n \in Nat : n * STEP \in Nat /\ (n + 1) * STEP = n * STEP + STEP
  BY <1>1
<1>3. 0 * STEP = 0
  BY <1>1
<1> QED  BY <1>1, <1>2, <1>3 DEF Reads

(* main waits for every thread.                                            *)
LEMMA RunsMain ==
  ASSUME Latency!TypeOK, SpinInv, RunsInv, Latency!Main PROVE RunsInv'
<1> USE DEF Latency!read_vars
<1>1. /\ turn \in Nat /\ 1 <= turn /\ turn <= threadCount /\ threadCount \in Nat \ {0}
      /\ \A t \in Latency!Tids : t \in Nat /\ 1 <= t /\ t <= threadCount
  BY LatencyAssumption DEF Alex!LatencyAssumption, SpinInv, Latency!Tids
<1>2. UNCHANGED <<REPETITIONS, i, run_number, limit>>
  BY DEF Latency!Main
<1>3. ASSUME thread' = thread PROVE \A t \in Latency!Tids : Progress(t)'
  BY <1>2, <1>3 DEF RunsInv, Progress, AtMost, Reads
<1>4. CASE Latency!CreateThread
  <2>1. /\ main = "spawn" /\ main' \in {"spawn", "go"} /\ (main' = "go" => turn' = 1)
        /\ thread' = [thread EXCEPT ![turn] = "spin"]
    BY <1>4 DEF Latency!CreateThread, Latency!EndOfTurn
  <2>2. /\ thread[turn] \in {"none", "spin"} /\ thread'[turn] = "spin"
        /\ \A t \in Latency!Tids : t # turn => thread'[t] = thread[t]
    BY <2>1 DEF SpinInv, Working
  <2>3. \A t \in Latency!Tids : Progress(t)'
    BY <1>2, <2>2 DEF RunsInv, Progress, AtMost, Reads
  <2> QED  BY <2>1, <2>3 DEF RunsInv
<1>5. CASE Latency!CreateRandomCycle \/ Latency!Go
  <2>1. \A t \in Latency!Tids : ~ (t < 1)
    BY <1>1
  <2>2. /\ thread' = thread /\ turn' = turn
        /\ \/ main' = "spawn"
           \/ main = "go" /\ main' = "join"
    BY <1>5 DEF Latency!CreateRandomCycle, Latency!Go
  <2> QED  BY <1>3, <2>1, <2>2 DEF RunsInv
<1>6. CASE Latency!Join
  <2>1. /\ main = "join" /\ thread' = thread /\ thread[turn] = "ended"
        /\ \/ main' = "join" /\ turn' = turn + 1
           \/ main' = "check" /\ turn = threadCount
    BY <1>6 DEF Latency!Join, Latency!EndOfTurn
  <2>2. \A t \in Latency!Tids : t < turn + 1 => thread[t] = "ended"
    <3>1. \A t \in Latency!Tids : t < turn + 1 => t < turn \/ t = turn
      BY <1>1
    <3> QED  BY <2>1, <3>1 DEF RunsInv
  <2>3. turn = threadCount => \A t \in Latency!Tids : t < turn + 1
    BY <1>1
  <2> QED  BY <1>3, <2>1, <2>2, <2>3 DEF RunsInv
<1>7. CASE Latency!EndMeasurement \/ Latency!PrintResult
  <2>1. thread' = thread /\ main \in {"check", "print"} /\ main' \in {"print", "done"}
    BY <1>7 DEF Latency!EndMeasurement, Latency!PrintResult
  <2> QED  BY <1>3, <2>1 DEF RunsInv
<1> QED  BY <1>4, <1>5, <1>6, <1>7 DEF Latency!Main

(* A thread ends when it has done all reads, or the last run it may do.    *)
LEMMA RunsThreads ==
  ASSUME Latency!TypeOK, RunsInv, NEW t \in Latency!Tids, Latency!Thread(t)
  PROVE  RunsInv'
<1> USE DEF Latency!read_vars, Latency!main_vars
<1>1. /\ REPETITIONS \in Nat /\ i[t] \in Nat /\ run_number[t] \in Nat /\ limit[t] \in Nat
      /\ i[t] <= REPETITIONS /\ run_number[t] <= LastRun
      /\ thread \in [Latency!Tids -> {"none", "spin", "begin", "read", "ended"}]
      /\ i \in [Latency!Tids -> 0 .. REPETITIONS]
      /\ run_number \in [Latency!Tids -> 0 .. LastRun]
      /\ limit \in [Latency!Tids -> 0 .. REPETITIONS]
      /\ LastRun \in Nat /\ STEP \in Nat \ {0}
  BY Assumptions, ReadsGrow DEF Latency!TypeOK, Latency!RunsAssumption
<1>2. UNCHANGED <<main, turn, REPETITIONS>>
  BY DEF Latency!Thread, Latency!SeeGo, Latency!BeginRun, Latency!Read, Latency!EndRun, Latency!Return
<1>3. thread[t] # "ended"
  BY DEF Latency!Thread, Latency!SeeGo, Latency!BeginRun, Latency!Read, Latency!EndRun,
     Latency!Return, Latency!Goto
<1>4. \A u \in Latency!Tids : u # t =>
        thread'[u] = thread[u] /\ i'[u] = i[u] /\ run_number'[u] = run_number[u] /\ limit'[u] = limit[u]
  BY <1>1 DEF Latency!Thread, Latency!SeeGo, Latency!BeginRun, Latency!Read, Latency!EndRun,
     Latency!Return, Latency!Goto
<1>5. \A u \in Latency!Tids : u # t => Progress(u)'
  BY <1>2, <1>4 DEF RunsInv, Progress, AtMost, Reads
<1>6. Progress(t)
  BY DEF RunsInv
<1>7. /\ Reads(0) = 0 /\ Reads(run_number[t]) \in Nat
      /\ Reads(run_number[t] + 1) = Reads(run_number[t]) + STEP
  BY <1>1, ReadsGrow
<1>8. ASSUME Latency!SeeGo(t) PROVE Progress(t)'
  <2>1. /\ thread[t] = "spin" /\ thread'[t] = "begin"
        /\ UNCHANGED <<i, run_number, limit>>
    BY <1>1, <1>8 DEF Latency!SeeGo, Latency!Goto
  <2>2. i[t] = AtMost(Reads(run_number[t]))
    BY <1>1, <1>6, <1>7, <2>1 DEF Progress, AtMost
  <2> QED  BY <1>2, <2>1, <2>2 DEF Progress, AtMost, Reads
<1>9. ASSUME Latency!BeginRun(t) PROVE Progress(t)'
  <2>1. /\ thread[t] = "begin" /\ thread'[t] = "read" /\ i[t] < REPETITIONS
        /\ limit'[t] = IF i[t] + STEP < REPETITIONS THEN i[t] + STEP ELSE REPETITIONS
        /\ UNCHANGED <<i, run_number>>
    BY <1>1, <1>9 DEF Latency!BeginRun, Latency!Goto
  <2>2. i[t] = Reads(run_number[t])
    BY <1>1, <1>6, <1>7, <2>1 DEF Progress, AtMost
  <2>3. i[t] <= limit'[t] /\ limit'[t] = AtMost(Reads(run_number[t] + 1))
    BY <1>1, <1>7, <2>1, <2>2 DEF AtMost
  <2> QED  BY <1>2, <2>1, <2>3 DEF Progress, AtMost, Reads
<1>10. ASSUME Latency!Read(t) PROVE Progress(t)'
  <2>1. /\ thread[t] = "read" /\ thread'[t] = "read" /\ i[t] < limit[t] /\ i'[t] = i[t] + 1
        /\ UNCHANGED <<run_number, limit>>
    BY <1>1, <1>10 DEF Latency!Read
  <2>2. i'[t] <= limit[t]
    BY <1>1, <2>1
  <2> QED  BY <1>2, <1>6, <2>1, <2>2 DEF Progress, AtMost, Reads
<1>11. ASSUME Latency!EndRun(t) PROVE Progress(t)'
  <2>1. /\ thread[t] = "read" /\ thread'[t] = "begin" /\ i[t] = limit[t]
        /\ run_number'[t] = run_number[t] + 1
        /\ UNCHANGED <<i, limit>>
    BY <1>1, <1>11 DEF Latency!EndRun, Latency!Goto
  <2> QED  BY <1>2, <1>6, <2>1 DEF Progress, AtMost, Reads
<1>12. ASSUME Latency!Return(t) PROVE Progress(t)'
  <2>1. /\ thread'[t] = "ended"
        /\ \/ i[t] = REPETITIONS
           \/ thread[t] = "read" /\ i[t] = limit[t] /\ run_number[t] >= LastRun
        /\ UNCHANGED <<i, run_number, limit>>
    BY <1>1, <1>12 DEF Latency!Return, Latency!Goto
  <2>2. REPETITIONS <= Reads(LastRun + 1) => i[t] = REPETITIONS
    <3>1. CASE thread[t] = "read" /\ i[t] = limit[t] /\ run_number[t] >= LastRun
      <4>1. run_number[t] = LastRun
        BY <1>1, <3>1
      <4>2. i[t] = AtMost(Reads(LastRun + 1))
        BY <1>6, <3>1, <4>1 DEF Progress
      <4>3. Reads(LastRun + 1) \in Nat
        BY <1>1, ReadsGrow
      <4> QED  BY <1>1, <4>2, <4>3 DEF AtMost
    <3> QED  BY <2>1, <3>1
  <2> QED  BY <1>2, <2>1, <2>2 DEF Progress, AtMost, Reads
<1>13. Progress(t)'
  BY <1>8, <1>9, <1>10, <1>11, <1>12 DEF Latency!Thread
<1> QED  BY <1>2, <1>3, <1>4, <1>5, <1>13 DEF RunsInv

(* ... in the harness.                                                     *)
LEMMA ReadsStep == ReadersInv /\ LatencyInv /\ ReadsInv /\ [Next]_vars => ReadsInv'
<1> SUFFICES ASSUME ReadersInv, LatencyInv, ReadsInv, [Next]_vars, program = "read_latency"
             PROVE  RunsInv'
  BY SameProgram DEF ReadsInv
<1>1. Latency!TypeOK /\ SpinInv /\ RunsInv
  BY DEF ReadersInv, ReadersIInv, LatencyInv, ReadsInv
<1>2. \/ Latency!Main
      \/ \E t \in Latency!Tids : Latency!Thread(t)
      \/ UNCHANGED vars
  BY DEF Next, Main, Exit, InInterference, InFlush, InBandwidth, InLatency, InAlex
<1>3. CASE UNCHANGED vars
  BY <1>1, <1>3 DEF vars, latency_vars, read_vars, RunsInv, Progress, AtMost, Reads
<1> QED  BY <1>1, <1>2, <1>3, RunsMain, RunsThreads

-----------------------------------------------------------------------------
\* What holds of every program together.
ProgramsInv ==
  /\ program \in Programs
  /\ WorkersResults
  /\ FlushInv /\ FlushStartInv /\ TimesInv
  /\ CountedInv
  /\ LatencyInv /\ ReadersInv /\ ChasersInv /\ ReadsInv

(* It holds at the start, and                                              *)
LEMMA ProgramsInit == Init => ProgramsInv
<1>1. Init => program \in Programs
  BY DEF Init, InitOf, InitOfLatency, Programs
<1> QED  BY <1>1, ResultsInit, FlushInit, FlushStartInit, TimesInit, CountedInit, SpinInit,
             LatencyInit, ReadsInit DEF ProgramsInv

(* ... every step keeps it.                                                *)
LEMMA ProgramsStep == ProgramsInv /\ [Next]_vars => ProgramsInv'
BY SameProgram, ResultsStep, FlushStep, FlushStartStep, TimesStep, CountedStep, SpinsStep,
   LatencyStep, ReadsStep DEF ProgramsInv

(* The variables of every program keep their types, for any number of      *)
(* threads: no counter passes the number of those who count, and no vector *)
(* of workers gets new memory more often than a worker is put in it.       *)
THEOREM HarnessesTypeOK == Spec => []TypeOK
<1>1. ProgramsInv => TypeOK
  <2> SUFFICES ASSUME ProgramsInv PROVE TypeOK
    OBVIOUS
  <2>1. ASSUME program = "interference" PROVE Interference!TypeOK
    BY <2>1 DEF ProgramsInv, WorkersResults, ResultsInv, WorkersInv, IterationsInv, Interference!TypeOK
  <2>2. ASSUME program = "page_flush" PROVE Flush!TypeOK
    BY <2>2, TimesAll DEF ProgramsInv, FlushInv, FlushStartInv, TimesInv
  <2>3. ASSUME program = "bw" PROVE Bandwidth!TypeOK
    BY <2>3, CountedAll DEF ProgramsInv, CountedInv
  <2>4. ASSUME program = "read_latency" PROVE Latency!TypeOK
    BY <2>4 DEF ProgramsInv, ReadersInv, ReadersIInv
  <2>5. ASSUME program = "read_latency_alex" PROVE Alex!TypeOK
    BY <2>5 DEF ProgramsInv, ChasersInv, ChasersIInv
  <2>6. program \in Programs
    BY DEF ProgramsInv
  <2> QED  BY <2>1, <2>2, <2>3, <2>4, <2>5, <2>6 DEF TypeOK
<1> QED  BY <1>1, ProgramsInit, ProgramsStep, PTL DEF Spec

(* What main prints is complete, for any number of threads: the            *)
(* measurements are there and their owners have ended, every thread has    *)
(* given its time once, the blocks of all threads are counted once each    *)
(* wherever in its chunk a thread stopped, and all reads were done.        *)
THEOREM ResultsAreThere == Spec => []ResultsAreComplete
<1>1. ProgramsInv => ResultsAreComplete
  <2> SUFFICES ASSUME ProgramsInv PROVE ResultsAreComplete
    OBVIOUS
  <2>1. ASSUME program = "interference" PROVE Interference!ResultsAreComplete
    BY <2>1, HasResults DEF ProgramsInv, WorkersResults, Interference!ResultsAreComplete
  <2>2. ASSUME program = "page_flush" PROVE Flush!ResultsAreComplete
    BY <2>2, TimesAll DEF ProgramsInv, FlushInv, FlushStartInv, TimesInv
  <2>3. ASSUME program = "bw" PROVE Bandwidth!ResultsAreComplete
    BY <2>3, CountedAll DEF ProgramsInv, CountedInv
  <2>4. ASSUME program = "read_latency" PROVE Latency!ResultsAreComplete
    BY <2>4 DEF ProgramsInv, ReadsInv, RunsInv, Progress, Reads, Latency!ResultsAreComplete
  <2> QED  BY <2>1, <2>2, <2>3, <2>4 DEF ResultsAreComplete
<1> QED  BY <1>1, ProgramsInit, ProgramsStep, PTL DEF Spec

(* The race of a new thread of the interference benchmark with the vector  *)
(* main appends to can end the program only until main has seen every      *)
(* worker ready: a thread that reads the vector is not ready.  And when    *)
(* main prints, no measurement is missing.                                 *)
THEOREM RaceIsOverOnceReady == Spec => NoCrashOnceReady
<1>1. ASSUME ProgramsInv, [Next]_vars, program = "interference", main' = "crashed"
      PROVE  main \in {"emplace", "spawn", "push", "await_ready", "crashed"}
  <2>1. ResultsInv
    BY <1>1 DEF ProgramsInv, WorkersResults
  <2>2. \/ Interference!Main
        \/ \E w \in Interference!all_workers : Interference!Thread(w)
        \/ UNCHANGED vars
    BY <1>1 DEF Next, Main, Exit, InInterference, InFlush, InBandwidth, InLatency, InAlex
  <2>3. CASE UNCHANGED vars
    BY <1>1, <2>3 DEF vars
  <2>4. CASE Interference!Main
    <3>1. turn \in Interference!all_workers
      BY <2>1 DEF ResultsInv, WorkersInv
    <3>2. CASE Interference!PrintAll
      <4>1. main = "print" /\ ~ Interference!HasResult(turn)
        BY <1>1, <3>2 DEF Interference!PrintAll, Interference!EndOfTurn
      <4> QED  BY <2>1, <3>1, <4>1, HasResults
    <3>3. CASE ~ Interference!PrintAll
      BY <1>1, <2>4, <3>3 DEF Interference!Main, Interference!EmplaceWorker, Interference!CreateThread,
         Interference!PushWorker, Interference!WaitForAllToGetReady, Interference!StartAll,
         Interference!WaitForAllToPerformAtLeastInterations, Interference!StopAll,
         Interference!WaitForAllToDie, Interference!EndOfTurn
    <3> QED  BY <3>2, <3>3
  <2>5. ASSUME NEW w \in Interference!all_workers, Interference!Thread(w)
        PROVE  main \in {"emplace", "spawn", "push", "await_ready", "crashed"}
    <3>1. main \notin {"crashed", "done"}
      BY <2>5 DEF Interference!Thread, Interference!Alive
    <3>2. thread[w] = "load" \/ main' = main
      BY <2>5 DEF Interference!Thread, Interference!TakeVector, Interference!LoadWorker,
         Interference!Setup, Interference!AwaitRun, Interference!CheckStop,
         Interference!DoOneRun, Interference!CountIteration
    <3>3. thread[w] = "load" => ~ ready[w]
      BY <2>1 DEF ResultsInv, WorkersInv
    <3>4. main \in {"start", "await_iterations", "stop", "join", "print"} => ready[w]
      BY <2>1 DEF ResultsInv, WorkersInv
    <3> QED  BY <1>1, <2>1, <3>1, <3>2, <3>3, <3>4 DEF ResultsInv
  <2> QED  BY <2>2, <2>3, <2>4, <2>5
<1>2. ProgramsInv /\ [Next]_vars =>
        [program = "interference" /\ main' = "crashed" =>
           main \in {"emplace", "spawn", "push", "await_ready", "crashed"}]_vars
  BY <1>1
<1> QED  BY <1>2, ProgramsInit, ProgramsStep, PTL DEF Spec, NoCrashOnceReady
=============================================================================
