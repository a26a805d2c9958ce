-------------------------- MODULE FrameLifeProofs --------------------------
(***************************************************************************)
(* A frame never gives its users a byte that is out of date and never      *)
(* loses one of their writes, for any number of cache lines, any line size *)
(* and any sequence of translations, flushes and swaps, on byte ranges     *)
(* that begin and end anywhere.                                            *)
(***************************************************************************)
EXTENDS FrameLife, TLAPS

LineOf(b) == b \div LineSize

\* Bytes of the page in the frame that may be newer in DRAM than in NVM.
Stale(b) ==
  IF technique = "Strawman"
  THEN frame.all_dirty \/ LineOf(b) \in frame.dirty
  ELSE IsAnythingDirty(frame) /\ Resident(frame, LineOf(b))

FlagsInv ==
  /\ page_id = NoPage => frame = InitFrame
  /\ technique = "Strawman" =>
       (frame.all_dirty => frame.all_resident) /\ frame.dirty \subseteq frame.resident

DramInv ==
  page_id # NoPage =>
    \A b \in Offsets : Resident(frame, LineOf(b)) => ram[b] = app[page_id][b]

NvmInv ==
  \A p \in Pages : \A b \in Offsets : nvm[p][b] = app[p][b] \/ (p = page_id /\ Stale(b))

IInv == TypeOK /\ FlagsInv /\ DramInv /\ NvmInv

-----------------------------------------------------------------------------
(* Division rounds down.                                                   *)
LEMMA DivType ==
  ASSUME NEW n \in Nat \ {0}, NEW a \in Nat
  PROVE a \div n \in Nat /\ n * (a \div n) <= a /\ a < n * (a \div n) + n
<1>1. a \div n \in Nat
  OBVIOUS
<1>2. a % n \in 0 .. n - 1
  OBVIOUS
<1>3. a = n * (a \div n) + (a % n)
  OBVIOUS
<1> QED  BY <1>1, <1>2, <1>3

(* A multiple more is a whole divisor more.                                *)
LEMMA Multiples ==
  ASSUME NEW n \in Nat \ {0}, NEW p \in Nat, NEW q \in Nat, p < q
  PROVE n * p + n <= n * q
<1>1. q - p \in Nat /\ q - p >= 1
  OBVIOUS
<1>2. n * (q - p) >= n
  BY <1>1
<1> QED  BY <1>2

(* Of two numbers the smaller has the smaller quotient,                    *)
LEMMA DivMono ==
  ASSUME NEW n \in Nat \ {0}, NEW a \in Nat, NEW b \in Nat, a <= b
  PROVE a \div n <= b \div n
<1> SUFFICES ASSUME b \div n < a \div n PROVE FALSE
  BY DivType
<1>1. n * (b \div n) + n <= n * (a \div n)
  BY DivType, Multiples
<1>2. n * (a \div n) <= a /\ b < n * (b \div n) + n
  BY DivType
<1>3. n * (a \div n) \in Nat /\ n * (b \div n) \in Nat
  BY DivType
<1> QED  BY <1>1, <1>2, <1>3

(* ... and one below m times n has a quotient below m.                     *)
LEMMA DivBound ==
  ASSUME NEW n \in Nat \ {0}, NEW m \in Nat, NEW a \in Nat, a < m * n
  PROVE a \div n < m
<1> SUFFICES ASSUME m <= a \div n PROVE FALSE
  BY DivType
<1>1. m * n <= n * (a \div n)
  <2>1. CASE m = a \div n
    BY <2>1, DivType
  <2>2. CASE m < a \div n
    BY <2>2, DivType, Multiples
  <2> QED  BY <2>1, <2>2, DivType
<1>2. n * (a \div n) <= a /\ m * n \in Nat
  BY DivType
<1>3. n * (a \div n) \in Nat
  BY DivType
<1> QED  BY <1>1, <1>2, <1>3

-----------------------------------------------------------------------------
(* The page id "none" is no page, and sizes are positive.                  *)
LEMMA Constants ==
  /\ LineSize \in Nat \ {0} /\ LineCount \in Nat \ {0} /\ NoPage \notin Pages
  /\ Techniques \subseteq {"Strawman", "PMDK"}
  /\ PageSize = LineCount * LineSize /\ PageSize \in Nat
BY FrameLifeAssumption, BufferFrameAssumption DEF PageSize

(* Every byte of the page is in one of its lines.                          *)
LEMMA LineOfByte == ASSUME NEW b \in Offsets PROVE LineOf(b) \in Lines
<1>1. b \in Nat /\ b < LineCount * LineSize
  BY Constants DEF Offsets
<1>2. b \div LineSize < LineCount /\ b \div LineSize \in Nat
  BY <1>1, Constants, DivBound, DivType
<1> QED  BY <1>2, Constants DEF Lines, LineOf

(* EnsureResidency and MarkDirty compute the lines of a range of bytes:    *)
(* the line of each of them is among those, and none is beyond the page.   *)
LEMMA LinesOfRange ==
  ASSUME NEW r \in Ranges
  PROVE  /\ LineRange(r[1], r[2]) \subseteq Lines
         /\ BytesOf(r) \subseteq Offsets
         /\ \A b \in BytesOf(r) : LineOf(b) \in LineRange(r[1], r[2])
<1>1. /\ r[1] \in Nat /\ r[2] \in Nat /\ r[2] >= 1 /\ r[1] + r[2] <= PageSize
      /\ r[1] + r[2] - 1 \in Nat
  BY Constants DEF Ranges, Offsets
<1>2. BytesOf(r) \subseteq Offsets
  BY <1>1, Constants DEF BytesOf, Offsets
<1> DEFINE first == r[1] \div LineSize
           last == (r[1] + r[2] - 1) \div LineSize
<1>3. first \in Nat /\ last \in Nat
  BY <1>1, Constants, DivType
<1>4. last < LineCount
  <2>1. r[1] + r[2] - 1 < LineCount * LineSize
    BY <1>1, Constants
  <2> QED  BY <1>1, <2>1, Constants, DivBound
<1>5. LineRange(r[1], r[2]) = first .. last
  <2>1. LineRange(r[1], r[2]) = first .. (last + 1) - 1
    BY DEF LineRange, FirstCacheLineId, LastCacheLineId
  <2> QED  BY <1>3, <2>1
<1>6. ASSUME NEW b \in BytesOf(r) PROVE LineOf(b) \in LineRange(r[1], r[2])
  <2>1. b \in Nat /\ r[1] <= b /\ b <= r[1] + r[2] - 1
    BY <1>1, <1>2 DEF BytesOf, Offsets
  <2>2. b \div LineSize \in Nat
    BY <2>1, Constants, DivType
  <2>3. first <= b \div LineSize
    BY <1>1, <2>1, Constants, DivMono
  <2>4. b \div LineSize <= last
    BY <1>1, <2>1, Constants, DivMono
  <2> HIDE DEF first, last
  <2> QED  BY <1>3, <1>5, <2>2, <2>3, <2>4 DEF LineOf
<1> HIDE DEF first, last
<1> QED  BY <1>2, <1>3, <1>4, <1>5, <1>6, Constants DEF Lines

(* A range of whole lines has all bytes of its lines.                      *)
LEMMA WholeLinesOfRange ==
  ASSUME NEW r \in Ranges, WholeLines(r), NEW b \in Offsets
  PROVE  LineOf(b) \in LineRange(r[1], r[2]) => b \in BytesOf(r)
BY DEF WholeLines, BytesOfLines, LineOf

(* What the translations make of the flags.                                *)
LEMMA FrameOps ==
  ASSUME NEW f \in FrameSet, NEW ls \in SUBSET Lines
  PROVE  /\ MarkLinesDirty(f, ls) \in FrameSet
         /\ EnsureLines(f, ls) \in FrameSet
         /\ EnsureAll(f) \in FrameSet
         /\ MarkAllDirty(f) \in FrameSet
         /\ MarkClean(f) \in FrameSet
BY DEF FrameSet, MarkLinesDirty, EnsureLines, EnsureAll, MarkAllDirty, MarkClean

(* Loading takes the bytes of the lines that are not there from NVM, which *)
(* is current where the line is not resident.                              *)
LEMMA LoadedIsCurrent ==
  ASSUME IInv, page_id # NoPage, NEW ls \in SUBSET Lines
  PROVE  /\ Loaded(ls) \in [Offsets -> Bytes]
         /\ \A b \in Offsets :
              Resident(frame, LineOf(b)) \/ LineOf(b) \in ls => Loaded(ls)[b] = app[page_id][b]
<1>1. page_id \in Pages /\ nvm[page_id] \in [Offsets -> Bytes] /\ ram \in [Offsets -> Bytes]
  BY DEF IInv, TypeOK
<1>2. Loaded(ls) \in [Offsets -> Bytes]
  BY <1>1 DEF Loaded, Overlay
<1>3. ASSUME NEW b \in Offsets, Resident(frame, LineOf(b)) PROVE Loaded(ls)[b] = app[page_id][b]
  <2>1. Loaded(ls)[b] = ram[b]
    BY <1>3 DEF Loaded, Overlay, BytesOfLines, LinesToLoad, LineOf, Resident
  <2> QED  BY <1>3, <2>1 DEF IInv, DramInv
<1>4. ASSUME NEW b \in Offsets, ~ Resident(frame, LineOf(b)), LineOf(b) \in ls
      PROVE  Loaded(ls)[b] = app[page_id][b]
  <2>1. Loaded(ls)[b] = nvm[page_id][b]
    BY <1>4 DEF Loaded, Overlay, BytesOfLines, LinesToLoad, LineOf, Resident
  <2>2. ~ Stale(b)
    BY <1>4 DEF IInv, FlagsInv, Stale, Resident
  <2> QED  BY <1>1, <2>1, <2>2 DEF IInv, NvmInv
<1> QED  BY <1>2, <1>3, <1>4

(* Bytes that were written are current and stale where the frame says so;  *)
(* what was stale stays stale while flags are only set.                    *)
LEMMA WriteKeeps ==
  ASSUME IInv, page_id # NoPage, NEW bs \in SUBSET Offsets, NEW v \in Bytes,
         NEW mem \in [Offsets -> Bytes],
         UNCHANGED <<technique, page_id, nvm>>,
         frame' \in FrameSet,
         ram' = Fill(mem, bs, v), app' = [app EXCEPT ![page_id] = Fill(@, bs, v)],
         \A b \in Offsets : Resident(frame', LineOf(b)) /\ b \notin bs => mem[b] = app[page_id][b],
         \A b \in Offsets : Stale(b) \/ b \in bs => Stale(b)',
         FlagsInv'
  PROVE  IInv'
<1>1. page_id \in Pages /\ app[page_id] \in [Offsets -> Bytes]
  BY DEF IInv, TypeOK
<1>2. Fill(app[page_id], bs, v) \in [Offsets -> Bytes] /\ ram' \in [Offsets -> Bytes]
  BY <1>1 DEF Fill
<1>3. app' \in [Pages -> [Offsets -> Bytes]]
  BY <1>1, <1>2 DEF IInv, TypeOK
<1>4. TypeOK'
  BY <1>2, <1>3 DEF IInv, TypeOK
<1>5. /\ \A b \in Offsets : ram'[b] = IF b \in bs THEN v ELSE mem[b]
      /\ \A b \in Offsets : app'[page_id][b] = IF b \in bs THEN v ELSE app[page_id][b]
      /\ \A p \in Pages : p # page_id => app'[p] = app[p]
  BY <1>1 DEF Fill, IInv, TypeOK
<1>6. DramInv'
  BY <1>5 DEF DramInv
<1>7. NvmInv'
  <2> SUFFICES ASSUME NEW p \in Pages, NEW b \in Offsets
               PROVE  nvm[p][b] = app'[p][b] \/ (p = page_id /\ Stale(b)')
    BY DEF NvmInv
  <2>1. nvm[p][b] = app[p][b] \/ (p = page_id /\ Stale(b))
    BY DEF IInv, NvmInv
  <2> QED  BY <1>5, <2>1
<1> QED  BY <1>4, <1>6, <1>7 DEF IInv

-----------------------------------------------------------------------------
(* At first all of DRAM is one byte, and NVM is what its users wrote.      *)
LEMMA InitInv == Init => IInv
<1> SUFFICES ASSUME Init PROVE IInv
  OBVIOUS
<1>1. TypeOK
  BY DEF Init, TypeOK, InitFrame, FrameSet
<1>2. FlagsInv
  BY DEF Init, FlagsInv, InitFrame
<1>3. DramInv /\ NvmInv
  BY DEF Init, DramInv, NvmInv
<1> QED  BY <1>1, <1>2, <1>3 DEF IInv

(* A page swapped in finds an empty frame and NVM current.                 *)
LEMMA SwapInStep == ASSUME IInv, NEW p \in Pages, SwapIn(p) PROVE IInv'
<1>1. /\ page_id = NoPage /\ page_id' = p /\ frame = InitFrame
      /\ UNCHANGED <<technique, frame, ram, nvm, app>>
  BY DEF SwapIn, IInv, FlagsInv
<1>2. p # NoPage /\ \A q \in Pages : q # page_id
  BY <1>1, Constants
<1>3. TypeOK' /\ FlagsInv'
  BY <1>1, <1>2 DEF IInv, TypeOK, FlagsInv
<1>4. DramInv'
  BY <1>1 DEF DramInv, Resident, InitFrame
<1>5. NvmInv'
  BY <1>1, <1>2 DEF IInv, NvmInv
<1> QED  BY <1>3, <1>4, <1>5 DEF IInv

(* Loading a range, or the page, adds lines that are current.              *)
LEMMA EnsureStep ==
  ASSUME IInv, page_id # NoPage, NEW ls \in SUBSET Lines,
         UNCHANGED <<technique, page_id, nvm, app>>, ram' = Loaded(ls),
         \/ frame' = EnsureLines(frame, ls)
         \/ ls = Lines /\ frame' = EnsureAll(frame)
  PROVE  IInv'
<1>1. frame \in FrameSet
  BY DEF IInv, TypeOK
<1>2. frame' \in FrameSet
  BY <1>1, FrameOps
<1>3. /\ frame'.all_dirty = frame.all_dirty /\ frame'.dirty = frame.dirty
      /\ frame.all_resident => frame'.all_resident
      /\ frame.resident \subseteq frame'.resident
      /\ \A l \in Lines : Resident(frame', l) => Resident(frame, l) \/ l \in ls
  BY <1>1 DEF FrameSet, EnsureLines, EnsureAll, Resident
<1>4. TypeOK'
  BY <1>2, LoadedIsCurrent DEF IInv, TypeOK
<1>5. FlagsInv'
  BY <1>3 DEF IInv, FlagsInv
<1>6. DramInv'
  BY <1>3, LoadedIsCurrent, LineOfByte DEF DramInv
<1>7. \A b \in Offsets : Stale(b) => Stale(b)'
  BY <1>3 DEF Stale, IsAnythingDirty, Resident
<1>8. NvmInv'
  BY <1>7 DEF IInv, NvmInv
<1> QED  BY <1>4, <1>5, <1>6, <1>8 DEF IInv

(* MarkDirty on whole lines, then all their bytes are written.             *)
LEMMA OverwriteStep ==
  ASSUME IInv, NEW r \in Ranges, NEW v \in Bytes, Overwrite(r, v) PROVE IInv'
<1> DEFINE ls == LineRange(r[1], r[2])
<1>1. /\ page_id # NoPage /\ WholeLines(r) /\ frame' = MarkLinesDirty(frame, ls)
      /\ ram' = Fill(ram, BytesOf(r), v)
      /\ app' = [app EXCEPT ![page_id] = Fill(@, BytesOf(r), v)]
      /\ UNCHANGED <<technique, page_id, nvm>>
  BY DEF Overwrite
<1>2. ls \in SUBSET Lines /\ BytesOf(r) \in SUBSET Offsets
  BY LinesOfRange
<1>3. \A b \in Offsets : LineOf(b) \in ls <=> b \in BytesOf(r)
  BY <1>1, LinesOfRange, WholeLinesOfRange
<1> HIDE DEF ls
<1>4. frame \in FrameSet /\ ram \in [Offsets -> Bytes]
  BY DEF IInv, TypeOK
<1>5. /\ frame'.all_dirty = frame.all_dirty /\ frame'.all_resident = frame.all_resident
      /\ frame'.dirty = frame.dirty \union ls /\ frame'.resident = frame.resident \union ls
      /\ frame' \in FrameSet
  BY <1>1, <1>2, <1>4, FrameOps DEF FrameSet, MarkLinesDirty
<1>6. FlagsInv'
  BY <1>1, <1>5 DEF IInv, FlagsInv
<1>7. \A b \in Offsets : Stale(b) \/ b \in BytesOf(r) => Stale(b)'
  BY <1>1, <1>3, <1>5 DEF Stale, IsAnythingDirty, Resident
<1>8. \A b \in Offsets :
        Resident(frame', LineOf(b)) /\ b \notin BytesOf(r) => ram[b] = app[page_id][b]
  BY <1>1, <1>3, <1>5 DEF IInv, DramInv, Resident
<1> QED  BY <1>1, <1>2, <1>4, <1>5, <1>6, <1>7, <1>8, WriteKeeps

(* MarkDirty on the page, then all of it is written.                       *)
LEMMA OverwritePageStep ==
  ASSUME IInv, NEW v \in Bytes, OverwritePage(v) PROVE IInv'
<1>1. /\ page_id # NoPage /\ frame' = MarkAllDirty(frame)
      /\ ram' = Fill(ram, Offsets, v)
      /\ app' = [app EXCEPT ![page_id] = Fill(@, Offsets, v)]
      /\ UNCHANGED <<technique, page_id, nvm>>
  BY DEF OverwritePage
<1>2. frame \in FrameSet /\ ram \in [Offsets -> Bytes]
  BY DEF IInv, TypeOK
<1>3. /\ frame'.all_dirty /\ frame'.all_resident
      /\ frame'.dirty = frame.dirty /\ frame'.resident = frame.resident
      /\ frame' \in FrameSet
  BY <1>1, <1>2, FrameOps DEF FrameSet, MarkAllDirty
<1>4. FlagsInv'
  BY <1>1, <1>3 DEF IInv, FlagsInv
<1>5. \A b \in Offsets : Stale(b)'
  BY <1>3 DEF Stale, IsAnythingDirty, Resident
<1> QED  BY <1>1, <1>2, <1>3, <1>4, <1>5, WriteKeeps

(* Lines, or the page, are loaded and marked dirty, then bytes are written *)
(* that may be part of a line only.                                        *)
LEMMA UpdateStep ==
  ASSUME IInv, page_id # NoPage, NEW r \in Ranges, NEW v \in Bytes, NEW ls \in SUBSET Lines,
         LineRange(r[1], r[2]) \subseteq ls,
         \/ frame' = MarkLinesDirty(EnsureLines(frame, ls), ls)
         \/ ls = Lines /\ frame' = MarkAllDirty(EnsureAll(frame)),
         ram' = Fill(Loaded(ls), BytesOf(r), v),
         app' = [app EXCEPT ![page_id] = Fill(@, BytesOf(r), v)],
         UNCHANGED <<technique, page_id, nvm>>
  PROVE  IInv'
<1>1. frame \in FrameSet /\ BytesOf(r) \in SUBSET Offsets
  BY LinesOfRange DEF IInv, TypeOK
<1>2. frame' \in FrameSet
  BY <1>1, FrameOps
<1>3. /\ frame.all_resident => frame'.all_resident
      /\ frame.resident \subseteq frame'.resident
      /\ \A l \in Lines : Resident(frame', l) => Resident(frame, l) \/ l \in ls
      /\ frame.all_dirty => frame'.all_dirty
      /\ frame.dirty \subseteq frame'.dirty
      /\ frame'.all_dirty => frame'.all_resident \/ frame'.all_dirty = frame.all_dirty
      /\ \A l \in ls : (frame'.all_dirty \/ l \in frame'.dirty) /\ Resident(frame', l)
      /\ \/ frame'.dirty = frame.dirty
         \/ frame'.dirty = frame.dirty \union ls /\ ls \subseteq frame'.resident
  <2>1. CASE frame' = MarkLinesDirty(EnsureLines(frame, ls), ls)
    <3>1. /\ frame'.all_resident = frame.all_resident /\ frame'.all_dirty = frame.all_dirty
          /\ frame'.dirty = frame.dirty \union ls /\ frame'.resident = frame.resident \union ls
      BY <1>1, <2>1 DEF FrameSet, EnsureLines, MarkLinesDirty
    <3> QED  BY <3>1 DEF Resident
  <2>2. CASE ls = Lines /\ frame' = MarkAllDirty(EnsureAll(frame))
    <3>1. EnsureAll(frame) \in FrameSet /\ EnsureAll(frame).dirty = frame.dirty
          /\ frame.resident \subseteq EnsureAll(frame).resident
      BY <1>1, FrameOps DEF FrameSet, EnsureLines, EnsureAll
    <3>2. /\ frame'.all_resident /\ frame'.all_dirty
          /\ frame'.dirty = frame.dirty /\ frame.resident \subseteq frame'.resident
      BY <2>2, <3>1 DEF FrameSet, MarkAllDirty
    <3> QED  BY <2>2, <3>2 DEF Resident
  <2> QED  BY <2>1, <2>2
<1>4. technique = "Strawman" => frame'.dirty \subseteq frame'.resident
  <2>1. technique = "Strawman" => frame.dirty \subseteq frame.resident
    BY DEF IInv, FlagsInv
  <2> QED  BY <1>3, <2>1
<1>5. FlagsInv'
  BY <1>3, <1>4 DEF IInv, FlagsInv
<1>6. \A b \in BytesOf(r) : LineOf(b) \in ls
  BY LinesOfRange
<1>7. ASSUME NEW b \in Offsets, Stale(b) \/ b \in BytesOf(r) PROVE Stale(b)'
  BY <1>3, <1>6, <1>7 DEF Stale, IsAnythingDirty, Resident
<1>8. \A b \in Offsets :
        Resident(frame', LineOf(b)) /\ b \notin BytesOf(r) => Loaded(ls)[b] = app[page_id][b]
  BY <1>3, LineOfByte, LoadedIsCurrent
<1>9. Loaded(ls) \in [Offsets -> Bytes]
  BY LoadedIsCurrent
<1> QED  BY <1>1, <1>2, <1>5, <1>7, <1>8, <1>9, WriteKeeps

(* Flush writes what may be stale, which is resident and so current.       *)
LEMMA FlushStep == ASSUME IInv, Flush PROVE IInv'
<1>1. /\ technique = "Strawman" /\ page_id \in Pages /\ page_id # NoPage
      /\ UNCHANGED <<technique, page_id, ram, app>> /\ frame' = MarkClean(frame)
  BY DEF Flush, WriteToNvmComplete, WriteToNvmPartial, IInv, TypeOK
<1>2. frame \in FrameSet /\ ram \in [Offsets -> Bytes] /\ nvm \in [Pages -> [Offsets -> Bytes]]
  BY DEF IInv, TypeOK
<1>3. frame' \in FrameSet /\ frame'.all_dirty = FALSE /\ frame'.dirty = {}
      /\ frame'.all_resident = frame.all_resident /\ frame'.resident = frame.resident
  BY <1>1, <1>2, FrameOps DEF FrameSet, MarkClean
<1>4. PICK bs \in SUBSET Offsets :
        /\ nvm' = [nvm EXCEPT ![page_id] = Overlay(@, bs, ram)]
        /\ \A b \in Offsets : Stale(b) <=> b \in bs
  <2>1. CASE frame.all_dirty
    <3>1. nvm' = [nvm EXCEPT ![page_id] = ram]
      BY <1>1, <2>1 DEF Flush, WriteToNvmComplete
    <3>2. Overlay(nvm[page_id], Offsets, ram) = ram
      BY <1>2 DEF Overlay
    <3>3. nvm' = [nvm EXCEPT ![page_id] = Overlay(@, Offsets, ram)]
      BY <3>1, <3>2
    <3>4. \A b \in Offsets : Stale(b)
      BY <1>1, <2>1 DEF Stale
    <3> QED  BY <3>3, <3>4
  <2>2. CASE ~ frame.all_dirty
    <3>1. nvm' = [nvm EXCEPT ![page_id] = Overlay(@, BytesOfLines(frame.dirty), ram)]
      BY <1>1, <2>2 DEF Flush, WriteToNvmPartial
    <3>2. \A b \in Offsets : Stale(b) <=> b \in BytesOfLines(frame.dirty)
      BY <1>1, <2>2 DEF Stale, BytesOfLines, LineOf
    <3>3. BytesOfLines(frame.dirty) \in SUBSET Offsets
      BY DEF BytesOfLines
    <3> QED  BY <3>1, <3>2, <3>3
  <2> QED  BY <2>1, <2>2
<1>5. Overlay(nvm[page_id], bs, ram) \in [Offsets -> Bytes]
  BY <1>1, <1>2 DEF Overlay
<1>6. /\ \A b \in Offsets : nvm'[page_id][b] = IF b \in bs THEN ram[b] ELSE nvm[page_id][b]
      /\ \A p \in Pages : p # page_id => nvm'[p] = nvm[p]
      /\ nvm' \in [Pages -> [Offsets -> Bytes]]
  BY <1>1, <1>2, <1>4, <1>5 DEF Overlay
<1>7. TypeOK' /\ FlagsInv'
  BY <1>1, <1>3, <1>6 DEF IInv, TypeOK, FlagsInv
<1>8. DramInv'
  BY <1>1, <1>3 DEF IInv, DramInv, Resident
<1>9. \A b \in bs : ram[b] = app[page_id][b]
  <2>1. \A b \in bs : Resident(frame, LineOf(b))
    BY <1>1, <1>4 DEF Stale, IInv, FlagsInv, Resident
  <2> QED  BY <1>1, <2>1 DEF IInv, DramInv
<1>10. \A p \in Pages : \A b \in Offsets : nvm'[p][b] = app[p][b]
  BY <1>4, <1>6, <1>9 DEF IInv, NvmInv
<1>11. NvmInv'
  BY <1>1, <1>10 DEF NvmInv
<1> QED  BY <1>7, <1>8, <1>11 DEF IInv

(* The pmemblk flush never leaves a frame clean, so nothing is dropped.    *)
LEMMA FlushPMDKStep == ASSUME IInv, FlushPMDK PROVE IInv'
<1>1. /\ technique = "PMDK" /\ page_id # NoPage
      /\ frame' = MakeCleanAfterFlushOfPMDK(frame)
      /\ UNCHANGED <<technique, page_id, ram, nvm, app>>
  BY DEF FlushPMDK
<1>2. frame \in FrameSet /\ 0 \in Lines
  BY Constants DEF IInv, TypeOK, Lines
<1>3. /\ frame' \in FrameSet /\ 0 \in frame'.dirty
      /\ frame'.all_resident = frame.all_resident /\ frame'.resident = frame.resident
  BY <1>1, <1>2 DEF FrameSet, MakeCleanAfterFlushOfPMDK
<1>4. TypeOK' /\ FlagsInv'
  BY <1>1, <1>3 DEF IInv, TypeOK, FlagsInv
<1>5. DramInv'
  BY <1>1, <1>3 DEF IInv, DramInv, Resident
<1>6. \A b \in Offsets : Stale(b) => Stale(b)'
  BY <1>1, <1>3 DEF Stale, IsAnythingDirty, Resident
<1>7. NvmInv'
  BY <1>1, <1>6 DEF IInv, NvmInv
<1> QED  BY <1>4, <1>5, <1>7 DEF IInv

(* A page that is swapped out is clean, and leaves the frame as it was.    *)
LEMMA SwapOutStep == ASSUME IInv, SwapOut PROVE IInv'
<1>1. /\ ~ IsAnythingDirty(frame) /\ page_id' = NoPage /\ frame' = SwapOutFrame(frame)
      /\ UNCHANGED <<technique, ram, nvm, app>>
  BY DEF SwapOut
<1>2. frame \in FrameSet
  BY DEF IInv, TypeOK
<1>3. frame' = InitFrame /\ frame' \in FrameSet
  BY <1>1, <1>2 DEF FrameSet, SwapOutFrame, InitFrame, IsAnythingDirty
<1>4. \A b \in Offsets : ~ Stale(b)
  BY <1>1 DEF Stale, IsAnythingDirty
<1>5. TypeOK' /\ FlagsInv' /\ DramInv'
  BY <1>1, <1>3 DEF IInv, TypeOK, FlagsInv, DramInv, InitFrame
<1>6. NvmInv'
  BY <1>1, <1>4 DEF IInv, NvmInv
<1> QED  BY <1>5, <1>6 DEF IInv

-----------------------------------------------------------------------------
(* Whatever is done to a frame, its DRAM copy is current where it is       *)
(* called resident, and NVM is current where nothing is called dirty.      *)
THEOREM FrameInvariantHolds == Spec => []IInv
<1>1. IInv /\ [Next]_vars => IInv'
  <2> SUFFICES ASSUME IInv, [Next]_vars PROVE IInv'
    OBVIOUS
  <2>1. ASSUME NEW r \in Ranges, Ensure(r) PROVE IInv'
    BY <2>1, LinesOfRange, EnsureStep DEF Ensure
  <2>2. ASSUME EnsureResidency PROVE IInv'
    BY <2>2, EnsureStep DEF EnsureResidency
  <2>3. ASSUME NEW r \in Ranges, NEW v \in Bytes, Update(r, v) PROVE IInv'
    BY <2>3, LinesOfRange, UpdateStep DEF Update
  <2>4. ASSUME NEW r \in Ranges, NEW v \in Bytes, UpdateSomewhere(r, v) PROVE IInv'
    BY <2>4, LinesOfRange, UpdateStep DEF UpdateSomewhere
  <2>5. CASE UNCHANGED vars
    BY <2>5 DEF vars, IInv, TypeOK, FlagsInv, DramInv, NvmInv, Stale
  <2> QED  BY <2>1, <2>2, <2>3, <2>4, <2>5, SwapInStep, OverwriteStep, OverwritePageStep,
           FlushStep, FlushPMDKStep, SwapOutStep DEF Next
<1> QED  BY <1>1, InitInv, PTL DEF Spec

(* Every variable of the frame keeps its type.                             *)
THEOREM FrameTypeCorrect == Spec => []TypeOK
<1>1. IInv => TypeOK
  BY DEF IInv
<1> QED  BY <1>1, FrameInvariantHolds, PTL

(* Where pages are flushed by Flush(), the code's own sanity check of the  *)
(* flags (Invariants()) holds after any sequence of operations.            *)
THEOREM FlagsStayConsistent == Spec => []FlagsAreConsistent
<1>1. IInv => FlagsAreConsistent
  BY DEF IInv, FlagsInv, FlagsAreConsistent, FrameInvariantsHold, FrameInvariants
<1> QED  BY <1>1, FrameInvariantHolds, PTL

(* Bytes that IsResident answers for are as their users last wrote them.   *)
THEOREM ResidentStaysCurrent == Spec => []ResidentIsCurrent
<1>1. IInv => ResidentIsCurrent
  <2> SUFFICES ASSUME IInv, page_id # NoPage, NEW r \in Ranges,
                      IsResident(frame, LineRange(r[1], r[2])), NEW b \in BytesOf(r)
               PROVE  ram[b] = app[page_id][b]
    BY DEF ResidentIsCurrent
  <2>1. b \in Offsets /\ LineOf(b) \in LineRange(r[1], r[2])
    BY LinesOfRange
  <2>2. Resident(frame, LineOf(b))
    BY <2>1 DEF IsResident, Resident
  <2> QED  BY <2>1, <2>2 DEF IInv, DramInv
<1> QED  BY <1>1, FrameInvariantHolds, PTL

(* A line that is not dirty can be dropped: NVM has what was last written. *)
THEOREM CleanLinesCanBeDropped == Spec => []CleanLineIsInNvm
<1>1. IInv => CleanLineIsInNvm
  <2> SUFFICES ASSUME IInv, technique = "Strawman", NEW p \in Pages, NEW l \in Lines,
                      ~ (p = page_id /\ IsDirty(frame, {l})), NEW b \in BytesOfLines({l})
               PROVE  nvm[p][b] = app[p][b]
    BY DEF CleanLineIsInNvm
  <2>1. b \in Offsets /\ LineOf(b) = l
    BY DEF BytesOfLines, LineOf
  <2>2. ~ (p = page_id /\ Stale(b))
    BY <2>1 DEF IsDirty, Stale
  <2> QED  BY <2>1, <2>2 DEF IInv, NvmInv
<1> QED  BY <1>1, FrameInvariantHolds, PTL

(* SwapIn's four assertions hold: nothing of a page is left in the frame.  *)
THEOREM SwapInFindsTheFrameEmpty == Spec => []SwapInFindsEmptyFrame
<1>1. IInv => SwapInFindsEmptyFrame
  BY DEF IInv, FlagsInv, SwapInFindsEmptyFrame
<1> QED  BY <1>1, FrameInvariantHolds, PTL
=============================================================================
