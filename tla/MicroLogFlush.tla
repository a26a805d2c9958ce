--------------------------- MODULE MicroLogFlush ----------------------------
(***************************************************************************)
(* FlushTest::FlushAll_MicroLog (page_flush/page_flush.cpp) and            *)
(* FullBufferFrame::FlushMicroLog(MicroLog &) under power failures.        *)
(*                                                                         *)
(* One micro log is shared by all pages.  Flushing a page copies its dirty *)
(* lines into the log, makes the log valid by naming the page in it,       *)
(* overwrites the page in place and makes the log invalid again.  Between  *)
(* any two steps the cache may write back any line (Drift), so the dur     *)
(* fields show what a power failure would leave at every moment.           *)
(*                                                                         *)
(* Users mark lines dirty, as the drivers of this flush do.  It looks at   *)
(* the bits of the lines only: a page marked dirty as a whole would not be *)
(* written.                                                                *)
(***************************************************************************)
EXTENDS BufferFrame, PMem

CONSTANTS
  PageCount,       \* page_count
  Val,             \* what a cache line of a page may hold
  Torn,            \* a line that is part old, part new, or was never written
  InvalidPageId,   \* constants::kInvalidPageId
  JunkPageId,      \* the page id eight bytes 'x' spell
  JunkCount        \* the count four bytes 'x' spell

Pages == 0 .. PageCount - 1

ASSUME MicroLogAssumption ==
  /\ PageCount \in Nat \ {0}
  /\ Torn \notin Val
  /\ InvalidPageId \notin Pages
  /\ JunkPageId \notin Pages
  /\ JunkCount \in Nat

VARIABLES
  frame,    \* frame[p]: the flags of the buffer frame of page p
  ram,      \* ram[p][l]: the DRAM copy
  page,     \* page[p][l]: the line of the page in NVM
  head,     \* micro_log->page_id and ->count, which share a cache line
  mapping,  \* micro_log->mapping, each entry a line of its own
  cls,      \* micro_log->cls
  pc,       \* the statement FlushAll_MicroLog is at; "app": it is not running
  cur,      \* its p
  cl        \* cl_id of the loop it is in

log == <<head, mapping, cls>>
vars == <<frame, ram, page, head, mapping, cls, pc, cur, cl>>

PageIds == Pages \union {InvalidPageId, JunkPageId}
Heads == [page_id : PageIds, count : Nat]

TypeOK ==
  /\ frame \in [Pages -> FrameSet]
  /\ ram \in [Pages -> [Lines -> Val]]
  /\ page \in [Pages -> [Lines -> LineSet(Val \union {Torn})]]
  /\ head \in LineSet(Heads)
  /\ mapping \in [Lines -> LineSet(Lines)]
  /\ cls \in [Lines -> LineSet(Val \union {Torn})]
  /\ pc \in {"app", "scan", "log", "persist_log", "set_valid",
             "persist_valid", "page", "finish_page", "set_invalid",
             "reset_count", "persist_invalid"}
  /\ cur \in 0 .. PageCount
  /\ cl \in 0 .. LineCount

-----------------------------------------------------------------------------
\* Page p as its users see it: DRAM where resident, NVM elsewhere.
Image(p) ==
  [l \in Lines |-> IF Resident(frame[p], l) THEN ram[p][l] ELSE page[p][l].vol]

\* The log entry i survives a power failure and belongs to line l.
Logged(i, l) == i < head.dur.count /\ mapping[i].dur = l

\* Page p as the log's format lets it be found after a power failure: a log
\* that names the page is applied to it.
Survivor(p) ==
  [l \in Lines |->
     IF head.dur.page_id = p /\ \E i \in Lines : Logged(i, l)
     THEN cls[CHOOSE i \in Lines : Logged(i, l)].dur
     ELSE page[p][l].dur]

\* One sfence orders every line written back before it.
FenceLines(f) == [i \in DOMAIN f |-> SFence(f[i])]
FencePages == page' = [p \in Pages |-> FenceLines(page[p])]

-----------------------------------------------------------------------------
\* After InitializePages and what the benchmark then puts into NVM directly.
\* The pages are taken to be durable, DRAM holds one byte everywhere; the
\* memory of the log holds 'x' in the cache, and in NVM either that or the
\* zeroes of a fresh file.
Init ==
  /\ \E v \in Val : ram = [p \in Pages |-> [l \in Lines |-> v]]
  /\ \E content \in [Pages -> [Lines -> Val]] :
       page = [p \in Pages |-> [l \in Lines |-> Line(content[p][l])]]
  /\ frame = [p \in Pages |-> InitFrame]
  /\ LET junk == [page_id |-> JunkPageId, count |-> JunkCount]
         zero == [page_id |-> 0, count |-> 0]
     IN \E old \in {junk, zero} : head = [vol |-> junk, fen |-> old, dur |-> old]
  /\ mapping = [i \in Lines |-> Line(0)]
  /\ cls = [i \in Lines |-> Line(Torn)]
  /\ pc = "app"
  /\ cur = 0
  /\ cl = 0

\* MakeRandomCacheLinesDirty: a line is marked dirty and overwritten.
Overwrite(p, l, v) ==
  /\ pc = "app"
  /\ frame' = [frame EXCEPT ![p] = MarkLinesDirty(@, {l})]
  /\ ram' = [ram EXCEPT ![p][l] = v]
  /\ UNCHANGED <<page, log, pc, cur, cl>>

\* MakeRandomCacheLinesDirty: another line is made resident.
Ensure(p, l) ==
  /\ pc = "app"
  /\ frame' = [frame EXCEPT ![p] = EnsureLines(@, {l})]
  /\ ram' = [ram EXCEPT ![p][l] =
               IF l \in LinesToLoad(frame[p], {l}) THEN page[p][l].vol ELSE @]
  /\ UNCHANGED <<page, log, pc, cur, cl>>

-----------------------------------------------------------------------------
\* FlushAll_MicroLog: the log is initialised in the cache only.
StartFlushAll ==
  /\ pc = "app"
  /\ head' = Store(head, [page_id |-> InvalidPageId, count |-> 0])
  /\ pc' = "scan"
  /\ cur' = 0
  /\ UNCHANGED <<frame, ram, page, mapping, cls, cl>>

\* Its loop over the pages: dirty pages are flushed, the others skipped.
NextPage ==
  /\ pc = "scan"
  /\ cur < PageCount
  /\ IF IsAnythingDirty(frame[cur])
     THEN pc' = "log" /\ cl' = 0 /\ UNCHANGED cur
     ELSE cur' = cur + 1 /\ UNCHANGED <<pc, cl>>
  /\ UNCHANGED <<frame, ram, page, log>>

EndFlushAll ==
  /\ pc = "scan"
  /\ cur = PageCount
  /\ pc' = "app"
  /\ cur' = 0
  /\ UNCHANGED <<frame, ram, page, log, cl>>

\* A bug to catch: the loop runs one cache line too far.
LogLineTooFar ==
  /\ pc = "log"
  /\ cl <= LineCount
  /\ cl' = cl + 1
  /\ UNCHANGED <<frame, ram, page, log, pc, cur>>

\* 1. Write data to log: one turn of the loop over the cache lines.
LogLine ==
  /\ pc = "log"
  /\ cl < LineCount
  /\ IF cl \in frame[cur].dirty
     THEN LET n == head.vol.count IN
          /\ cls' = [cls EXCEPT ![n] = CopyAndFlush(@, ram[cur][cl])]
          /\ mapping' = [mapping EXCEPT ![n] = Store(@, cl)]
          /\ head' = Store(head, [head.vol EXCEPT !.count = n + 1])
     ELSE UNCHANGED log
  /\ cl' = cl + 1
  /\ UNCHANGED <<frame, ram, page, pc, cur>>

EndLogLoop ==
  /\ pc = "log"
  /\ cl = LineCount
  /\ pc' = "persist_log"
  /\ UNCHANGED <<frame, ram, page, log, cur, cl>>

\* A bug to catch: the write-back stops at the first mapping entry.
PersistLogHead ==
  /\ pc = "persist_log"
  /\ head' = Persist(head)
  /\ mapping' = FenceLines(mapping)
  /\ cls' = FenceLines(cls)
  /\ FencePages
  /\ pc' = "set_valid"
  /\ UNCHANGED <<frame, ram, cur, cl>>

\* A bug to catch: the log is not ordered before its own validity.
PersistLogNever ==
  /\ pc = "persist_log"
  /\ pc' = "set_valid"
  /\ UNCHANGED <<frame, ram, page, log, cur, cl>>

\* alex_WriteBack(&log, log.count + 12) reaches the last mapping entry used.
PersistLog ==
  /\ pc = "persist_log"
  /\ head' = Persist(head)
  /\ mapping' = [i \in Lines |-> IF i < head.vol.count THEN Persist(mapping[i])
                                                     ELSE SFence(mapping[i])]
  /\ cls' = FenceLines(cls)
  /\ FencePages
  /\ pc' = "set_valid"
  /\ UNCHANGED <<frame, ram, cur, cl>>

\* 2. Set log valid
SetLogValid ==
  /\ pc = "set_valid"
  /\ head' = Store(head, [head.vol EXCEPT !.page_id = cur])
  /\ pc' = "persist_valid"
  /\ UNCHANGED <<frame, ram, page, mapping, cls, cur, cl>>

\* A bug to catch: the page is overwritten before the log is known valid.
PersistValidNever ==
  /\ pc = "persist_valid"
  /\ pc' = "page"
  /\ cl' = 0
  /\ UNCHANGED <<frame, ram, page, log, cur>>

PersistValid ==
  /\ pc = "persist_valid"
  /\ head' = Persist(head)
  /\ mapping' = FenceLines(mapping)
  /\ cls' = FenceLines(cls)
  /\ FencePages
  /\ pc' = "page"
  /\ cl' = 0
  /\ UNCHANGED <<frame, ram, cur>>

\* 3. Put data into page: one turn of the loop.
PageLine ==
  /\ pc = "page"
  /\ cl < LineCount
  /\ page' = IF cl \in frame[cur].dirty
             THEN [page EXCEPT ![cur][cl] = CopyAndFlush(@, ram[cur][cl])]
             ELSE page
  /\ cl' = cl + 1
  /\ UNCHANGED <<frame, ram, log, pc, cur>>

EndPageLoop ==
  /\ pc = "page"
  /\ cl = LineCount
  /\ pc' = "finish_page"
  /\ UNCHANGED <<frame, ram, page, log, cur, cl>>

\* A bug to catch: the log is given up before the page is durable.
FinishPageUnfenced ==
  /\ pc = "finish_page"
  /\ frame' = [frame EXCEPT ![cur] = MarkClean(@)]
  /\ pc' = "set_invalid"
  /\ UNCHANGED <<ram, page, log, cur, cl>>

FinishPage ==
  /\ pc = "finish_page"
  /\ FencePages
  /\ head' = SFence(head)
  /\ mapping' = FenceLines(mapping)
  /\ cls' = FenceLines(cls)
  /\ frame' = [frame EXCEPT ![cur] = MarkClean(@)]
  /\ pc' = "set_invalid"
  /\ UNCHANGED <<ram, cur, cl>>

\* 4. Set log invalid
SetLogInvalid ==
  /\ pc = "set_invalid"
  /\ head' = Store(head, [head.vol EXCEPT !.page_id = InvalidPageId])
  /\ pc' = "reset_count"
  /\ UNCHANGED <<frame, ram, page, mapping, cls, cur, cl>>

\* A bug to catch: the entries of the page just flushed stay counted.
ResetCountNever ==
  /\ pc = "reset_count"
  /\ pc' = "persist_invalid"
  /\ UNCHANGED <<frame, ram, page, log, cur, cl>>

ResetCount ==
  /\ pc = "reset_count"
  /\ head' = Store(head, [head.vol EXCEPT !.count = 0])
  /\ pc' = "persist_invalid"
  /\ UNCHANGED <<frame, ram, page, mapping, cls, cur, cl>>

PersistInvalid ==
  /\ pc = "persist_invalid"
  /\ head' = Persist(head)
  /\ mapping' = FenceLines(mapping)
  /\ cls' = FenceLines(cls)
  /\ FencePages
  /\ cur' = cur + 1
  /\ pc' = "scan"
  /\ UNCHANGED <<frame, ram, cl>>

-----------------------------------------------------------------------------
\* The cache writes some line back although nobody asked it to.
DriftPage(p, l) ==
  /\ \E c \in CopyDrift(page[p][l], Torn) : page' = [page EXCEPT ![p][l] = c]
  /\ UNCHANGED <<frame, ram, log, pc, cur, cl>>

DriftCls(i) ==
  /\ \E c \in CopyDrift(cls[i], Torn) : cls' = [cls EXCEPT ![i] = c]
  /\ UNCHANGED <<frame, ram, page, head, mapping, pc, cur, cl>>

DriftMapping(i) ==
  /\ \E c \in WordDrift(mapping[i]) : mapping' = [mapping EXCEPT ![i] = c]
  /\ UNCHANGED <<frame, ram, page, head, cls, pc, cur, cl>>

DriftHead ==
  /\ head' \in WordDrift(head)
  /\ UNCHANGED <<frame, ram, page, mapping, cls, pc, cur, cl>>

UseFrames ==
  \E p \in Pages :
    \/ \E l \in Lines, v \in Val : Overwrite(p, l, v)
    \/ \E l \in Lines : Ensure(p, l)

FlushAll ==
  \/ StartFlushAll \/ NextPage \/ EndFlushAll
  \/ LogLine \/ EndLogLoop \/ PersistLog
  \/ SetLogValid \/ PersistValid
  \/ PageLine \/ EndPageLoop \/ FinishPage
  \/ SetLogInvalid \/ ResetCount \/ PersistInvalid

Drift ==
  \/ \E p \in Pages, l \in Lines : DriftPage(p, l)
  \/ \E i \in Lines : DriftCls(i) \/ DriftMapping(i)
  \/ DriftHead

Next == UseFrames \/ FlushAll \/ Drift

Spec == Init /\ [][Next]_vars

-----------------------------------------------------------------------------
(* A page whose frame reports nothing dirty would be found, after a power  *)
(* failure at this very moment, exactly as its users see it: no write is   *)
(* dropped by a flush, and none is reported flushed before it is durable.  *)
CleanPageSurvives ==
  \A p \in Pages : ~IsAnythingDirty(frame[p]) => Survivor(p) = Image(p)

(* What a power failure leaves of a page is a complete image: it changes   *)
(* in one step from the image before the flush to the image flushed, never *)
(* through a mixture of old, new and torn lines.                           *)
FlushIsAtomic ==
  [][\A p \in Pages : Survivor(p)' \in {Survivor(p), Image(p)}]_vars

(* The two assertions FlushMicroLog starts with: it is entered with the    *)
(* log invalid and empty.  The log that survives is as free, so a power    *)
(* failure while the next page is logged never replays the previous one.   *)
LogIsFreeAtEntry ==
  (pc = "log" /\ cl = 0) =>
    /\ head.vol = [page_id |-> InvalidPageId, count |-> 0]
    /\ head.dur.page_id \in Pages => head.dur.count = 0

\* The step-by-step flush implements the atomic page store.
Abstract == INSTANCE AtomicPages WITH
  Images <- [Lines -> Val],
  image <- [p \in Pages |-> Image(p)],
  store <- [p \in Pages |-> Survivor(p)],
  clean <- {p \in Pages : ~IsAnythingDirty(frame[p])}

(* FlushAll_MicroLog implements AtomicPages: seen through what survives a  *)
(* power failure, a flush is one atomic replacement of the page.           *)
ImplementsAtomicPages == Abstract!Spec
=============================================================================
