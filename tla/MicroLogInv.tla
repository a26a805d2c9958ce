---------------------------- MODULE MicroLogInv -----------------------------
(***************************************************************************)
(* The inductive invariant of MicroLogFlush.tla when users mark lines, not *)
(* whole pages, dirty.  It says what the step the flush is at has made     *)
(* durable; MicroLogProofs.tla proves it and what follows from it, and TLC *)
(* checks it with two values for a line, which may be exchanged.           *)
(***************************************************************************)
EXTENDS MicroLogFlush, TLC

Symmetry == Permutations(Val)

\* The steps at which page cur is being flushed.
Logging == {"log", "persist_log"}
Replayable == {"set_valid", "persist_valid", "page", "finish_page"}
Retiring == {"set_invalid", "reset_count", "persist_invalid"}
Flushing == Logging \union Replayable \union Retiring

\* Line l of page p is being overwritten in place.
InFlight(p, l) ==
  p = cur /\ pc \in {"page", "finish_page"} /\ l \in frame[p].dirty

\* Dirty lines are known one by one, and are in DRAM.
FramesInv ==
  \A p \in Pages :
    /\ ~frame[p].all_dirty
    /\ frame[p].dirty \subseteq frame[p].resident

\* A line NVM can be trusted for: durable, and the DRAM copy of it, if there
\* is one and it is not dirty, is the same.
Settled(p, l) ==
  /\ Stable(page[p][l])
  /\ l \notin frame[p].dirty /\ Resident(frame[p], l) => ram[p][l] = page[p][l].vol

\* The lines of a page are settled, but for the dirty lines of the page that
\* is being overwritten: those the loop has passed are on their way.
PagesInv ==
  \A p \in Pages : \A l \in Lines :
    /\ page[p][l].vol \in Val
    /\ InFlight(p, l) \/ Settled(p, l)
    /\ InFlight(p, l) /\ l < cl =>
         page[p][l].vol = ram[p][l] /\ page[p][l].fen = ram[p][l]

\* A log header that makes no difference to anybody's pages.
Harmless(h) == h.page_id \in Pages => h.count = 0

\* Log entry i is what page cur has in DRAM.
Copied(i) ==
  /\ Resident(frame[cur], mapping[i].vol)
  /\ cls[i].vol = ram[cur][mapping[i].vol]

\* The first n log entries are copies, and durable.
Backed(n) ==
  \A i \in Lines : i < n => Copied(i) /\ Stable(mapping[i]) /\ Stable(cls[i])

\* The dirty lines below bound are among the first n log entries.
Covered(bound, n) ==
  \A l \in frame[cur].dirty :
    l < bound => \E i \in Lines : i < n /\ mapping[i].vol = l

LoggingInv ==
  pc \in Logging =>
    /\ head.vol.page_id = InvalidPageId
    /\ head.vol.count <= cl
    /\ \A i \in Lines :
         i < head.vol.count => Copied(i) /\ cls[i].fen = cls[i].vol
    /\ Covered(cl, head.vol.count)
    /\ pc = "persist_log" => cl = LineCount
    /\ pc = "log" /\ cl = 0 => head.vol.count = 0

ReplayableInv ==
  pc \in Replayable =>
    /\ Backed(head.vol.count)
    /\ Covered(LineCount, head.vol.count)
    /\ head.vol.page_id = IF pc = "set_valid" THEN InvalidPageId ELSE cur
    /\ pc # "persist_valid" => Stable(head)
    /\ pc = "persist_valid" =>
         head.dur \in {head.vol, [head.vol EXCEPT !.page_id = InvalidPageId]}
    /\ pc = "finish_page" => cl = LineCount

RetiringInv ==
  pc \in Retiring =>
    /\ frame[cur].dirty = {}
    /\ head.dur.page_id \in {cur, InvalidPageId}
    /\ Backed(head.dur.count)
    /\ pc = "set_invalid" => head.vol.page_id = cur
    /\ pc # "set_invalid" => head.vol.page_id = InvalidPageId
    /\ IF pc = "persist_invalid" THEN head.vol.count = 0
                                 ELSE head.vol.count = head.dur.count

IdleInv ==
  /\ pc \in Flushing => cur \in Pages
  /\ pc \notin Replayable \union Retiring => Harmless(head.dur) /\ Harmless(head.vol)
  /\ pc = "scan" => head.vol = [page_id |-> InvalidPageId, count |-> 0]

(* At every step of a flush the log and the page together hold a complete  *)
(* image: while the log can be replayed it is durable and covers every     *)
(* line that may be torn in the page, and before and after that the page   *)
(* is settled and the log harmless.                                        *)
IInv ==
  /\ TypeOK
  /\ FramesInv
  /\ PagesInv
  /\ LoggingInv
  /\ ReplayableInv
  /\ RetiringInv
  /\ IdleInv
=============================================================================
