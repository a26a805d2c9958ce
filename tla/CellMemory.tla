----------------------------- MODULE CellMemory -----------------------------
(***************************************************************************)
(* A stretch of persistent memory as a function from its 8-byte words to   *)
(* the state of each behind the cache (PMem).  The in-place schemes store  *)
(* into such a stretch with plain stores, which compiler and cache may     *)
(* take to NVM one by one in any order, up to the next fence.              *)
(***************************************************************************)
EXTENDS Naturals, PMem

\* Words that hold v and have been durable for long.
Durably(v) == [w \in DOMAIN v |-> Line(v[w])]

Volatile(c) == [w \in DOMAIN c |-> c[w].vol]
Surviving(c) == [w \in DOMAIN c |-> c[w].dur]

\* Plain stores of the words in the domain of v.
StoreWords(c, v) ==
  [w \in DOMAIN c |-> IF w \in DOMAIN v THEN Store(c[w], v[w]) ELSE c[w]]

\* clwb, or a streaming store, of the lines the words ws lie in.
WriteBackWords(c, ws) ==
  [w \in DOMAIN c |-> IF w \in ws THEN WriteBack(c[w]) ELSE c[w]]

\* alex_FastCopyAndWriteBack: head, full lines and rest are copied and
\* written back one after the other; there is no fence.
FastCopyAndWriteBack(c, v) == WriteBackWords(StoreWords(c, v), DOMAIN v)

FenceWords(c) == [w \in DOMAIN c |-> SFence(c[w])]

\* What the stretch may become when one of its words gets to NVM early.
EarlyWords(c) == {[c EXCEPT ![w] = Evict(@)] : w \in {x \in DOMAIN c : Dirty(c[x])}}
=============================================================================
