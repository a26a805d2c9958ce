--------------------------- MODULE ReadLatencyAlex ---------------------------
(***************************************************************************)
(* read_latency_alex.cpp: every thread follows the cycle for COUNT steps,  *)
(* replaces each link by one of the element to itself and writes it back.  *)
(* The threads share the array: one that comes to an element another has   *)
(* been at stays there.  In the end main checks that every link was        *)
(* replaced.                                                               *)
(***************************************************************************)
EXTENDS LatencyMain

VARIABLES i, x, next       \* the local variables of readThread

thread_vars == <<i, x, next>>
vars == <<main_vars, thread_vars>>

TypeOK ==
  /\ MainTypeOK
  /\ thread \in [Tids -> {"none", "spin", "load", "store", "ended"}]
  /\ i \in [Tids -> 0 .. COUNT]
  /\ x \in [Tids -> Elements]
  /\ next \in [Tids -> Elements]

Init ==
  /\ MainInit
  /\ i = [t \in Tids |-> 0]
  /\ x = i /\ next = i

AllReplaced == \A e \in Elements : v[e] = e

\* The check behind the joins: it throws.
CheckElements ==
  /\ main = "check"
  /\ main' = IF AllReplaced THEN "print" ELSE "crashed"
  /\ UNCHANGED <<turn, thread, go, helper, v>>

Main ==
  /\ CreateRandomCycle \/ CreateThread \/ Go \/ Join \/ CheckElements \/ PrintResult
  /\ UNCHANGED thread_vars

SeeGo(t) ==
  /\ go /\ Goto(t, "spin", "load")
  /\ UNCHANGED <<main, turn, go, helper, v, thread_vars>>

Load(t) ==
  /\ Goto(t, "load", "store")
  /\ next' = [next EXCEPT ![t] = v[x[t]]]
  /\ UNCHANGED <<main, turn, go, helper, v, i, x>>

\* A bug to catch: the next link is only read after this one is replaced.
StoreFirst(t) ==
  /\ Goto(t, "store", IF i[t] + 1 < COUNT THEN "load" ELSE "ended")
  /\ v' = [v EXCEPT ![x[t]] = x[t]]
  /\ x' = [x EXCEPT ![t] = v'[@]]
  /\ i' = [i EXCEPT ![t] = @ + 1]
  /\ UNCHANGED <<main, turn, go, helper, next>>

\* v[x] = x with Clwb and SFence, x = next.
Store(t) ==
  /\ Goto(t, "store", IF i[t] + 1 < COUNT THEN "load" ELSE "ended")
  /\ v' = [v EXCEPT ![x[t]] = x[t]]
  /\ x' = [x EXCEPT ![t] = next[t]]
  /\ i' = [i EXCEPT ![t] = @ + 1]
  /\ UNCHANGED <<main, turn, go, helper, next>>

Thread(t) == SeeGo(t) \/ Load(t) \/ Store(t)

Next == Main \/ \E t \in Tids : Thread(t)

Spec == Init /\ [][Next]_vars

-----------------------------------------------------------------------------
(* However the threads overtake each other, and wherever all but one of    *)
(* them get stuck, every link has been replaced when they have ended: the  *)
(* check never throws.                                                     *)
EveryElementIsVisited ==
  /\ main \in {"check", "print", "done"} => AllReplaced
  /\ main # "crashed"
=============================================================================
