-------------------------------- MODULE PMem --------------------------------
(***************************************************************************)
(* One cache line of persistent memory behind a volatile CPU cache, as the *)
(* helpers of the repository's Common.hpp files drive it.                  *)
(*                                                                         *)
(*   vol   what a load returns now;                                        *)
(*   fen   what the next sfence makes durable at the latest: the content   *)
(*         of the line when it was last written back;                      *)
(*   dur   what a power failure would leave in the line now.               *)
(*                                                                         *)
(* The hardware may write a line back whenever it likes (Evict); a line    *)
(* that was filled by several 8-byte stores may then reach memory half     *)
(* written (Tear).  Stores to one line become durable in program order.    *)
(* Nothing orders two lines except an sfence after their write-back.       *)
(***************************************************************************)

\* A line whose content v has long been durable.
Line(v) == [vol |-> v, fen |-> v, dur |-> v]

LineSet(V) == [vol : V, fen : V, dur : V]

\* A plain store: only the cache sees it.
Store(c, v) == [c EXCEPT !.vol = v]

\* alex_WriteBack / alex_FlushOpt: the content of now is on its way.
WriteBack(c) == [c EXCEPT !.fen = c.vol]

\* alex_CopyAndFlush512: a non-temporal 64-byte store, or (without
\* -DSTREAMING) memcpy followed by clwb.  Both are fenced by the caller.
CopyAndFlush(c, v) == WriteBack(Store(c, v))

\* alex_SFence: what was written back is durable from here on.
SFence(c) == [c EXCEPT !.dur = c.fen]

\* pmem_persist on the line: write back, then fence.
Persist(c) == SFence(WriteBack(c))

Dirty(c) == c.dur # c.vol

\* A line nothing can happen to until it is written to again.
Stable(c) == c.fen = c.vol /\ c.dur = c.vol

\* The cache writes the line back of its own accord.
Evict(c) == [c EXCEPT !.fen = c.vol, !.dur = c.vol]

\* ... in the middle of the copy that fills it: memory holds some of the new
\* 8-byte words and some of the old ones, the mixture torn.
Tear(c, torn) == [c EXCEPT !.fen = IF c.fen = c.vol THEN @ ELSE torn, !.dur = torn]

\* The states the hardware may move the line to between two instructions:
\* for a line filled by one store, and for a line filled by a 64-byte copy.
WordDrift(c) == IF Dirty(c) THEN {Evict(c)} ELSE {}
CopyDrift(c, torn) ==
  IF Dirty(c) THEN {Evict(c), Tear(c, torn)} ELSE {}
=============================================================================
