# A TLA+ verification of pmembench

pmembench is a set of algorithms and benchmarks for persistent memory (PMem):
ways to flush database pages, to append to a log, to update in place, and the
multi-threaded programs that measure them. Its hard part is always the same.
Stores go to a volatile cache; the cache writes lines back when it likes; only
`clwb`/`ntstore` followed by `sfence` says when a line is durable; and a power
failure may happen between any two instructions. None of that can be unit
tested, since a test reads what the cache holds. These modules state what the
algorithms promise of the surviving memory, check it with TLC on small
instances, and prove nearly all of it with TLAPS for all sizes.

Release builds define `NDEBUG`: assertions of the code are treated as
preconditions that callers keep or as claims to check, never as guards.

## 1. The system

| Component | State | Operations | What is hard | What makes it correct |
|---|---|---|---|---|
| persistence primitives (`*/Common.hpp`) | a cache line: what the cache holds, what is written back, what NVM holds | store, `alex_WriteBack`, `alex_CopyAndFlush512`, `alex_FlushClToNvm`, `alex_SFence` | eviction at any time; 64-byte copies may be torn | (basis of everything below) |
| buffer frame (`page_flush/FullBufferFrame.hpp`, copied in `interference/PageFlusher.hpp`) | residency and dirtiness, per line and for the page; DRAM page; NVM page | `Init`, `SwapIn`, `EnsureResidency`, `MarkDirty`, `Translate`, `Flush`, `MakeCleanAfterFlushOfPMDK`, `SwapOut` | two representations of the same fact (flag and bits), partly resident pages | resident lines are current, clean lines are in NVM |
| micro log flush (`FlushMicroLog(MicroLog&)`, `FlushAll_MicroLog`) | the log: page id, count, mapping, lines | log, set valid, write the page, set invalid | failure in the middle of a page; a stale log | a flush is atomic; a clean page survives |
| shadow flush (`FlushShadow`, `FlushAll_Shadow`) | the page table, a spare NVM frame, headers (page id, pvn) | copy, name, number, swap | the old copy must survive until the switch; the order of the header words | the named copy is always whole |
| micro log with pop count (`MicroLog2`) | as the micro log, valid by bit count | as above with one fence less | relies on `alex_PopCount` of a buffer | as above |
| page flush harness (`RunMultiThreaded`) | ready counter, run flag | start barrier, rounds | threads meeting at counters | rounds do not overlap |
| log writers (`logging/LW_*.hpp`) | log memory, next free offset, headers or buffer | `AddLogEntry`, `GetNextLogEntry` | what commits an entry: header, footer, bit count, torn bits | an append is atomic and durable on return |
| in-place updates (`inplace/*.hpp`) | entries with two copies, or with two states and version bits per word; a redo log | `DoUpdate`, `ReadSingleResult`, the passes of `RunExperiment` | failure inside an update whose words get to NVM in any order; packed bit fields | the old or the new value is read, whole |
| coroutine tree (`coroutine/*.cpp`) | nodes with free bits, fingerprints and entries; suspended operations; a free list of frames | insert and lookup in four styles, resume, new and delete of frames | operations suspended between choosing a slot and marking it; fences shared by a group | a group does what single operations do, and durably |
| interference workers (`interference/*`) | ready, stop and iteration counters per thread | create, wait ready, start, stop, join | main and workers meet over atomics | nobody starts early, everybody stops |
| bandwidth (`bandwidth/bw.cpp`) | start counter, stop flag | barrier, blocks, stop | a stop flag looked at too late | stops when told |
| latency (`latency/*.cpp`) | an array linked to one random cycle; the flag go | build, walk; in `read_latency_alex` also replace | the cycle must not be a short one; threads overtake each other in an array they rewrite | every element visited |
| memory mapping, scripts | files | `mmap`, shell | I/O | not modelled |

The page flushers share `NvmBufferFrame`s and, in `FlushAll_Shadow`, hand the
frame one page gives up to the next page. The log writers share nothing but
the memory they are created on. The interference benchmark runs log writer,
page flusher and readers as threads next to each other. The in-place and the
coroutine programs have one thread; what they interleave is their own stores
with the cache and, in the coroutine programs, the operations of a group with
each other.

## 2. The modules

| Module | Models | Composes |
|---|---|---|
| `PMem` | one cache line `[vol, fen, dur]` and what instructions and hardware do to it | |
| `BufferFrame` | the flags of `FullBufferFrame` as a record and its methods as operators | |
| `FrameLife` | a frame in use: loading, the translate modes, in-place flush, pmemblk flush, swap in/out | `BufferFrame` |
| `FrameLifeProofs` | lemmas and theorems of the frame | `FrameLife` |
| `AtomicPages` | abstract: pages with an image and a surviving image, replaced in one step | |
| `MicroLogFlush` | `FlushAll_MicroLog` over all pages, one action per loop turn and per fence | `BufferFrame`, `PMem` |
| `MicroLogInv` | the inductive invariant of `MicroLogFlush`, by stage of the flush | `MicroLogFlush` |
| `MicroLogProofs` | lemmas and theorems of the micro log | `MicroLogInv` |
| `ShadowFlush` | `FlushAll_Shadow`, table, spare frame and headers | `BufferFrame`, `PMem` |
| `ShadowFlushProofs` | lemmas and theorems of the shadow flush | `ShadowFlush` |
| `ShadowHeaders` | the same with a history of the headers written | `ShadowFlush` |
| `LogMemory` | words in cache lines, write-back of ranges, streamed lines, drift | `PMem` |
| `DurableLog` | abstract: acknowledged, pending and surviving entries | |
| `HeaderLog` | four writers committed by a header | `LogMemory` |
| `ClassicLog` | two writers committed by a footer | `LogMemory` |
| `ZeroLog` | four writers committed by a bit count | `LogMemory` |
| `ZeroCachedLog` | the writer that buffers the last line, and its reader | `LogMemory` |
| `MnemosyneLog` | two writers with torn bits and checker words, and their reader | `LogMemory` |
| `LogWriters` | any one of these writers on a fresh memory, and what all of them promise | the five families, `DurableLog` |
| `CopiedLogsProofs` | lemmas on words in lines, on sums and on reading a log entry by entry; invariant, recovery and steps of the header, classic and zero writers | `LogWriters` |
| `LogWritersProofs` | those of the other two families, and the theorems about all of them | `CopiedLogsProofs` |
| `InterferenceWorkers` | `interference.cpp`'s main and `Run()` of its workers | |
| `FlushRounds` | `RunMultiThreaded` of the page flush benchmark | |
| `BandwidthRun` | `bw.cpp` | |
| `LatencyMain` | the cycle and the main of the two read latency benchmarks | |
| `ReadLatency`, `ReadLatencyAlex` | `read_latency.cpp`, `read_latency_alex.cpp` | `LatencyMain` |
| `Harnesses` | any one of these programs, fairness, what all of them promise | the five programs |
| `HarnessesProofs` | lemmas and theorems of all five programs | `Harnesses` |
| `CellMemory` | stretches of 8-byte words behind the cache | `PMem` |
| `AtomicCells` | abstract: entries updated one at a time, atomically and durably | |
| `CowCell` | copy-on-write: the generic entry and those for 16, 32 and 48 bytes | `CellMemory` |
| `VersionedCell` | the sliding-bit and the high-bit entry, bit by bit | `CellMemory` |
| `LogBasedCell` | the redo log and the entries behind it | `CellMemory` |
| `InplaceBench` | `RunExperiment` with any one of these schemes, its operations and `ValidationBased` | the three, `AtomicCells` |
| `InplaceBenchProofs` | lemmas and theorems of the in-place schemes and of the benchmark's passes | `InplaceBench` |
| `TreeNode` | a node of the coroutine programs | `PMem` |
| `CoroInsert`, `ReuseInsert`, `CoroLookup` | what each style of each program does between two suspensions, and the rounds of its driver | `TreeNode` |
| `CoroutineTree` | a driver resuming its group, the free list of frames, what `Validate` compares | the four |
| `CoroutineTreeProofs` | lemmas and theorems of the coroutine programs | `CoroutineTree` |

`MC*` modules add model values, symmetry over pages and data values, and the
list of workers.

### How state and actions correspond to the code

**Memory.** A line is a record: `vol` what a load returns, `fen` what the next
fence makes durable, `dur` what a power failure would leave. A power failure is
not a step: properties speak of `dur` in every reachable state, so every state
is one in which the power may fail. Each module has a `Drift` action: the cache
writes some dirty line back (`Evict`), for a 64-byte copy perhaps half of it
(`Tear`, a distinguished value `Torn`; `StreamDrift`, word by word). Stores to
one line become durable in program order, as the hardware guarantees; nothing
orders two lines but a fence after their write-back. `clwb`, `clflushopt`
and non-temporal stores are alike in this respect.

**Frames.** `frame` has the four fields `all_resident`, `resident`,
`all_dirty`, `dirty`; the bit sets are sets of line numbers. `FrameLife` keeps
DRAM and NVM byte by byte, so that the arithmetic from byte ranges to lines is
real; the flush modules keep one value per line. `app` in `FrameLife` is what
the user of the frame wrote; only properties look at it. `technique` is the
flush the benchmark was started with and never changes.

**Micro log.** `head` is the line with `page_id` and `count`, `mapping[i]`
and `cls[i]` the entries, `page[p]` the lines of NVM page `p`, `cur` and `cl`
the loop counters, `pc` the statement. `LogLine`/`PageLine` are one turn of
the loops; the other actions are the statements between fences.
`alex_WriteBack(&log, log.count + 12)` is modelled as what it reaches: head and
the mapping entries in use. `Survivor(p)` is the page a reader of the surviving
log and page finds. The repository has no recovery code; `Survivor` is the one
reading the log's format has, and only properties use it.

**Shadow.** `home[p]` is the frame of page `p` (the pointer in its buffer
frame), `free` the spare one, `id`/`pvn` the header words per frame, `data` the
lines. `HeaderStraddles` computes from `sizeof(NvmBufferFrame)` whether the two
header words of a frame share a line.

**Log writers.** The log is an array of words in lines. A copy stores its words
in any order (`todo`), since `memcpy` promises none. `log` is the history of
acknowledged payloads. A writer's `Recovered` reads `dur` the way the format
allows (`GetNextLogEntry` where the repository has it, plus the validity test
the format is built for; the classic writers by the known positions of their
entries). `LogWriters` has one variable `writer` that says which class the
benchmark created; each family takes the variables it needs and leaves the
others alone. `LogWriterZeroSimd` takes the same steps as `LogWriterZeroBlocked`
and is run under the latter's name. Word values are small numbers; the zero writers split
words in halves because `payload_size` and `bit_count` share one; the
Mnemosyne words are (upper bits, lowest bit).

**Thread harnesses.** `main` and `thread[t]` are program counters, `turn` the
index of main's loop. One step is one access to an atomic variable (or to the
vector, see below) with the private work beside it. A waiting loop, whether it
sleeps, yields or spins, is a step that is enabled when its condition holds: a
turn that finds it false changes nothing. In `InterferenceWorkers` a new thread
finds its worker by indexing a vector main may be appending to. That is a data
race; the module gives it the outcomes a build has: the thread takes the memory
the vector has (`TakeVector`), then reads the element (`LoadWorker`), and when
the vector got new memory between the two the program goes on or crashes.
`nano_seconds` counts the measurements taken, apart from `performed`.
The latency benchmarks share `LatencyMain`: the links of the array are one
cycle in the order of `helper`, turned to begin with the element every thread
begins with. Filling, shuffling and linking are one step; they happen before any
thread exists. A thread of `read_latency_alex` reads a link and replaces it in
two steps, with any steps of other threads between them.
`Exit` is the stuttering of a program that has ended, so that a deadlock of
threads waiting for each other is still reported.

**In-place updates.** An entry is a function from word numbers to `PMem` lines:
the schemes use plain stores, which may get to NVM word by word in any order up
to the next fence, so that a "line" here is one 8-byte word. `pc` is where
`DoUpdate` stands: `begun`, `data` (copy-on-write, between its fences), `log`
(redo log), `fence` (before the last one). The bit arithmetic of the version
schemes is the code's, on words of `Width` bits instead of 32: a group is
`Width - 1` words and one meta block. `pass` is the loop of `RunExperiment`,
`acked` what a `ValidationBased` beside it would hold. `Survivor` reads what a
failure leaves by the rules of the scheme (the active copy; the newest version
all blocks have; the last redo entry replayed); the repository has no recovery.

**Coroutines.** A style is a sequence of the coroutine's own steps with "await"
where it suspends (`co_await`), and its driver a sequence of rounds, each of
which resumes every member of the group once, with or without an `sfence`
behind. `at[m]` is where member `m` is suspended, `frames` the frames of the
group in the order of `operator new`. `normal_nodes` is the second copy that
`Validate` builds with the normal insert. `operations` are chosen at the start
from all the program could draw.

## 3. What the runs check

All passing runs explore their whole state space.

| Run | Instance | Shows |
|---|---|---|
| `frame_life` | 2 pages, 2 lines of 2 bytes, both flushes | a resident line holds what the user wrote or NVM holds, and `SwapIn`'s assertions hold, with either flush; with `Flush()` the flags are consistent and a clean line is in NVM |
| `micro_log` | 2 pages, 2 lines, 2 values | atomic flush, durable clean pages, the asserted free log, refinement of `AtomicPages`, the inductive invariant of the proof |
| `shadow_flush` | 2 pages of 2 lines | table and spare frame stay a permutation, the named copy whole; partly resident pages are copied whole and are durable when clean |
| `shadow_pvn` | violation | two copies of a page with the same pvn |
| `shadow_headers` | violation | a header with the page id of one page and the pvn of another |
| `log_writers` | 12 writers, 4 lines of 2 words, payloads of 1 to 3 words, 2 headers, a checker word every 2 words | every writer but the unaligned Mnemosyne implements `DurableLog`; footers mark whole entries, also in shared lines; the memory behind a zero log is zero; a line streamed again takes back nothing; what is read back by torn bits is a prefix |
| `mnemosyne_lost` | violation | an entry acknowledged but not written back |
| `harnesses` | 3 workers in 2 vectors, 2 rounds of 2 threads, 2 threads over 0 to 2 blocks, 3 threads on 4 elements | nobody works before all are prepared; what main prints is complete and no longer written; every element is read, and replaced, whoever overtakes whom; the printed iteration is over before anybody is told to stop; no thread outlives its round's stack; the vector race cannot end a run that has begun; every program ends |
| `inplace_updates` | 7 schemes, 3 entries of 2 words of 3 bits, 2 iterations of every pass | every scheme implements `AtomicCells`; reads return the last update; the dependent reads are one cycle through all entries |
| `sliding_meta_lost` | violation, entries of `Width` words | the meta block of a full group keeps another block's state as its old one |
| `coroutine_tree` | 2 nodes of 2 slots, groups of 2, 5 operations, 1 or 3 frames | groups leave what single inserts leave, durably; entries are durable before their slot counts as used; frames are neither lost nor given twice; lookups find their key |
| `reuse_full_node` | violation | a full node of `reuse.cpp` is written in place |

Runs whose modules fill a log, or run a program of one thread to its end, switch
deadlock checking off, since they really end there; everywhere else it is on.

### Bounds, and why they are enough

- Lines per page: 2 (a line flushed and one not, one torn while the other is
  whole). The loops treat every line alike.
- `Few` in `MCShadowFlush`: the pages have at most two lines between them in
  DRAM. One page whole, one half of each, or one half of one: each page is
  copied with lines from DRAM, from the old frame and from both.
- Pages: 2, so that a log or spare frame used for one page is used again for
  another; more pages repeat the pair. The proofs cover every number.
- Data values: 2, with symmetry: old and new.
- Words per line: 2; every alignment of an entry's first, last and committing
  word to a line start or end occurs. Payloads of 1 to 3 words make entries
  that end inside, at the end of and beyond a line.
- Log size: 4 lines, room for two to four entries and for the second to share
  a line with, or follow, the first; header count 2 wraps around twice.
- `CheckerPeriod` 2 for 63: entries with a full group, a full group and a
  rest, and a rest alone.
- Word values 0 and 3, and 1 and 2 as sizes: no bit, one bit and two bits set,
  and payload words that cannot be told from unwritten ones.
- `Bytes` per line in `FrameLife`: 2, so that ranges begin and end inside lines.
- Workers: 3, two in one vector, so that a vector grows beside a running thread
  and beside a thread of another vector. Threads 2 and rounds 2: one early and
  one late, and a round that follows one. `MaxIterations` 4, one more than main
  waits for; further iterations are not told apart, the loop goes on.
- `MaxIterationCount` 2: no block, one, and a stop between two. `Wrap` 5 for
  2^64: the counters wrap within the run, which keeps them finite and leaves
  the sums they are compared by intact.

- Threads of the latency benchmarks: 3 on 4 elements, so that a thread can be
  overtaken by one that is itself overtaken. `Repetitions` 4 and 5 with `STEP` 2
  and two runs: all elements read or the runs used up before, and a last run
  shorter than `STEP`.
- In-place entries: 3 (a random order that is not the sequential one) of 2 words
  (an update half way); words of 3 bits, so that two words fill a group without
  its last bit; for `sliding_meta_lost` `Width` words, the first size with more
  than one group. 2 iterations: each entry is updated four times, and the two-bit
  versions come around to where they began.
- `CoroutineTree`: 5 operations in groups of 2 on nodes of 2 slots: nodes fill
  up, are reset and filled again, and one operation is left for the loop over
  the rest. 1 and 3 frames: a pool too small and one with a frame to spare. Keys
  collide in no fingerprint more than `HashCount` 4 makes them.

### Fairness

Only `Harnesses` states fairness: weak fairness of main's steps and of each
thread's. It is what a preemptive scheduler gives: no waiting loop holds a lock
or a resource, `usleep` returns, and a spinning thread is preempted. Nothing is
assumed of which condition becomes true. `EveryRunEnds` needs all of it, as main
waits for every thread. The bandwidth benchmark ends only when a chunk has a
block (`iteration_count` > 0): the loop over the chunk is the only place that
looks at the stop flag. `EveryRunEnds` names that case and leaves it out. A run that
ends by the crash of the vector race counts as ended; `NoCrashOnceReady` says
when that can be.

The flush and log modules are about safety: their code is straight-line with
bounded loops, and their liveness is termination of a `for` loop.

## 4. What is proved

`MicroLogProofs` proves, for every number of pages, lines and data values:

| Theorem | Statement |
|---|---|
| `TypeCorrect` | `Spec => []TypeOK` |
| `InvariantHolds` | `Spec => []IInv` |
| `CleanPagesSurvive` | `Spec => []CleanPageSurvives` |
| `LogIsFree` | `Spec => []LogIsFreeAtEntry` |
| `FlushesAreAtomic` | `Spec => FlushIsAtomic` |
| `MicroLogImplementsAtomicPages` | `Spec => ImplementsAtomicPages` |

All assume `MicroLogAssumption` (positive sizes; ids and markers distinct) and
are about users that mark cache lines dirty, as `MakeRandomCacheLinesDirty`,
the one workload the benchmark runs the micro log on, does. With users that
mark whole pages dirty it is false: see the end of section 5.

None of the properties is inductive. `CleanPageSurvives` after a flush depends
on the log having been *durably* invalid or empty before, which depends on what
the lines of the log could drift to at each stage. `IInv` says that stage by
stage: `FramesInv` (the flags), `PagesInv` (a line not in flight is settled:
cache, write-back and NVM agree), and one conjunct per group of statements.
While logging, whatever survives of the head replays nothing; from the fence
after the log until the one that ends it, every dirty line has one entry that
is durable and equal to DRAM, so that the page lines may be in any state,
torn included; while retiring, all page lines are durable and equal to what
the log would replay, so it does not matter whether it survives. Atomicity and
refinement follow from these: the survivor changes only when the head with the
page id becomes durable, by the fence or by drift, and then to the image.

`MicroLogProofs` begins with the lemmas on lines (what each instruction
preserves), as do the other modules that need them; then it has one lemma per
action and part of the invariant.

### The shadow flush

`ShadowFlushProofs` proves, for any number of pages and lines and any contents:

| Theorem | Statement |
|---|---|
| `ShadowTypeCorrect` | `Spec => []TypeOK` |
| `ShadowInvariantHolds` | `Spec => []IInv` |
| `TableStaysConsistent` | `Spec => []TableIsConsistent` |
| `OldCopiesSurvive` | `Spec => []OldCopyIsIntact` |
| `CleanShadowsSurvive` | `Spec => []CleanPageSurvives` |

They assume `ShadowAssumption` and `BufferFrameAssumption` (a page and a line at
least, markers distinct from values); here users may mark lines or whole pages
dirty. A frame may only be swapped into the table if it is settled by then, which
depends on each statement before. `IInv` therefore has four parts besides the
types: `LoopInv` (where the loop is), `TableInv` (every frame the table names is
*settled*: cache, what is on its way and NVM agree on what the last flush wrote),
`FramesInv` (a resident line that is not dirty is what was flushed), and
`CopyInv` (the lines copied so far are written back and equal what users see,
and after the fence all of them are settled, in NVM and not only on their way).
The cache may write back or tear any line at any time, but
`Kept` says it cannot disturb one that is settled, and only the free frame is
stored to; so the old copy survives up to the swap, and the new one after it.

### The frame

`FrameLifeProofs` proves all five properties of the run `frame_life`, for any
number of lines, any line size, any pages and contents:

| Theorem | Statement |
|---|---|
| `FrameInvariantHolds` | `Spec => []IInv` |
| `FrameTypeCorrect` | `Spec => []TypeOK` |
| `FlagsStayConsistent` | `Spec => []FlagsAreConsistent` |
| `ResidentStaysCurrent` | `Spec => []ResidentIsCurrent` |
| `CleanLinesCanBeDropped` | `Spec => []CleanLineIsInNvm` |
| `SwapInFindsTheFrameEmpty` | `Spec => []SwapInFindsEmptyFrame` |

They assume `FrameLifeAssumption` and `BufferFrameAssumption`. None but the last
is inductive alone: what is loaded is right because NVM is current where a line is not
resident, which is so because what is dirty is resident; and what is dropped is
in NVM because what was flushed was current in DRAM. `IInv` has these together
(`DramInv`, `NvmInv`, `FlagsInv`). With `Flush()` a byte may be stale in NVM
when its line is dirty; with the pmemblk flush, whose flags are wrong, when it
is resident and anything is dirty, and as that flush always leaves line 0 dirty
nothing is ever dropped. `LinesOfRange` is the arithmetic: `offset / 64` and
`(offset + length - 1) / 64 + 1` take in the line of every byte of a range, and
none beyond the page, wherever the range begins and ends.

### The log writers

`LogWritersProofs` proves all properties of the run `log_writers`, for memories,
lines, payloads, headers and checker periods of any size:

| Theorem | Statement |
|---|---|
| `LogInvHolds` | `Spec => []LogInv` |
| `LogTypeOK` | `Spec => []TypeOK` |
| `LogFooterImpliesEntry` | `Spec => []FooterImpliesEntry`, the two classic writers |
| `LogRestIsZero` | `Spec => []RestIsZero`, the zero writers |
| `LogBufferMatchesLog` | `Spec => []BufferMatchesLog`, the writer with a buffer |
| `LogRecoveredIsPrefix` | `Spec => []RecoveredIsPrefix`, both Mnemosyne writers |
| `LogImplementsDurableLog` | `Spec => ImplementsDurableLog`, all but the unaligned Mnemosyne |

They assume `LogMemoryAssumption`: sizes of at least one, at least two words to a
line (the code has 8; with one, the length word of the aligned Mnemosyne writer
too would end its line and never be written back) and at least two payload words to a
checker word (the code has 63). `LogWritersAssumption` says only that the
writers looked at are among those of the code.

`LogInv` is one invariant per family: `HeaderInv`, `ClassicInv`, `ZeroInv`,
`BufferedInv`, `TornInv`. Each says where the entries lie (`Places` and the like:
one behind the other, as far as `next_free`), that the words of acknowledged
entries are `Settled` (cache, what is on its way and NVM agree), that the words
behind are what the family's validity test needs them to be (anything for headers and
footers, zero for bit counts and torn bits), and what the words of the entry
being added may be at each statement: those already copied hold their values in
the cache, and in NVM these or what was there before. That each step preserves it
rests on the first lemmas of `CopiedLogsProofs` on what a store, a write-back, a fence and
a streamed line keep and raise. A line the cache writes out on its own takes
words of the new entry with it, in any subset; what is settled it cannot disturb,
although an entry and the one before may share a line.

Refinement then needs that in every state of the invariant `Recovered` is `log`
or `log` and the entry being added (`Faithful`), and that a step begins,
goes on without losing what has already arrived, returns with the entry durable,
or leaves the log alone (`Begins`, `GoesOn`, `Returns`, `Rests`: `KindsOfSteps`).
`Recovered` reads the surviving memory entry by entry, a recursive function; that the
reader goes the way the entries lie and stops behind the last of them
is proved by induction over the start it reads at. The induction theorems of the
library cannot be used, as they take an operator as a parameter;
`CopiedLogsProofs` takes the least number of a set (`LeastNumber`, from
`WFMin` on the natural numbers) instead. What stops the reader
is the family's: a header that names no further entry; a bit count that is
zero where the memory is zero, or too small as long as a word of
the entry is missing, since the missing word has bits the count includes; a
torn bit not set. For the header writers the order of the header's own words and
its rotation come in; the classic writers are read at known positions. For the
unaligned Mnemosyne writer, which loses entries (section 5), what is left is
that it returns a prefix.

### The multi-threaded programs

`HarnessesProofs` proves, for any number of threads, workers and rounds:

| Theorem | Statement |
|---|---|
| `AllStartTogether` | `Spec => []NobodyStartsEarly` |
| `NoThreadIsLeftBehind` | `Spec => []NoThreadOutlivesItsRound` |
| `PrintedIterationsAreUndisturbed` | `Spec => []PrintedIterationIsUndisturbed` |
| `HarnessesTypeOK` | `Spec => []TypeOK` |
| `ResultsAreThere` | `Spec => []ResultsAreComplete` |
| `RaceIsOverOnceReady` | `Spec => NoCrashOnceReady`, an action property |

The three ways the programs start together are three arguments. The interference
workers and the latency benchmarks have flags that main sets after it has seen,
or created, every thread (`WorkersInv`, `SpinInv`). The page flush benchmark
counts: `ready_count` is the number of threads of *this* round that are prepared
(`StartInv`), which is true only because no thread of an earlier round is left
to count itself in a later one, the invariant `RoundsInv` behind
`NoThreadIsLeftBehind`. The bandwidth benchmark's barrier counts main as well,
and is full only when all have come (`BarrierInv`). That a counter at its limit
means *every* thread, not just as many, is `CountedUp`. `IterationsInv` says that
main stops no worker before it has seen three iterations of each.

That results are complete is an argument per program, together with types
(`ProgramsInv`). `ResultsInv`: a worker takes a measurement before it counts the
iteration, main joins what it has told to stop, so when it prints the second
measurement is there. The same invariant bounds the race at the start: a thread
that still reads the vector is not ready, and behind `WaitForAllToGetReady` all
are. `TimesOf`: a time is in the sum of the round exactly when its thread is
past the flush. `Progress`: run n of `read_latency.cpp` ends at (n + 1) * STEP
reads or at the last, so `LastRun` cuts nothing short as long as
(LastRun + 1) * STEP reads are enough. `BlocksInv`: a thread's blocks are those of the chunks it
finished and of the one it is in, and `global_iterations` is the sum over the
threads that have ended, all modulo the width of the counters. The
sum is `FoldFunction` of the community modules; that it grows by what one thread
adds (`FoldGrows`) needs induction over the size of the set of threads, done
with `LeastNumber` as for the log reader, and that wrapping early or late is the
same needs that a quotient and a remainder are unique (`OneRemainder`,
`WrapsOnce`).

One program runs at a time and each step is a step of its module, so the invariants hold in
`Harnesses`. `InterferenceAssumption`, `FlushRoundsAssumption`,
`BandwidthAssumption` and `LatencyAssumption` are all that is assumed; fairness
is not used.

### The latency benchmarks

`HarnessesProofs` also proves, for any number of threads and at least two elements:

| Theorem | Statement |
|---|---|
| `EveryElementIsReached` | `Spec => []EveryElementIsVisited`, of `Harnesses` |
| `EveryElementIsReplaced`, `ChasersInvariantHolds` | the same of `read_latency_alex.cpp` alone (`Alex!Spec`), and its invariant |

The threads of `read_latency_alex` race: one that comes to a link another has
replaced by a self reference stays there to the end of its loop. Why is every
link replaced all the same? `ChasersIInv` calls a thread *straight* when it has met no
replaced link: it is at `helper[i]` and everything before is replaced. Any other
is *stuck* at a replaced element. `Led` is what makes this inductive: wherever a
link is replaced, some straight thread has gone on. A thread only gets stuck at
a replaced link, so somebody straight is ahead of it; when all have done COUNT
steps, whoever is ahead of the last one has been everywhere. `ReadersIInv` is
the simpler argument for `read_latency.cpp`, where nothing is replaced. Both are
taken over to `Harnesses`: one program runs, and its steps are those of its
module.

### The coroutine programs

`CoroutineTreeProofs` proves all properties of the run `coroutine_tree`, for any
number of nodes, slots, operations and frames and any size of a group:

| Theorem | Statement |
|---|---|
| `TypeCorrect` | `Spec => []TypeOK` |
| `FramesConserved` | `Spec => []FramesAreConserved` |
| `GroupsAreNormal` | `Spec => []CoroutineEqualsScalar`, both insert programs |
| `BatchesAreDurable` | `Spec => []InsertsAreDurable`, both insert programs |
| `EntriesBeforeBits` | `Spec => []NewEntriesAreDurableFirst`, `coro_insert.cpp` |
| `LookupsFind` | `Spec => []LookupsFindTheirKey` |

They assume `CoroutineTreeAssumption`: a node has at least one slot and no more
slots than there are hash values; a group has no more members than there are
nodes or operations (section 5 says what the code does otherwise); the pools
hold at least one frame; the initial and the torn entry are no entries an insert makes.

The invariant `IInv` has a part for everything and one for each kind of
program. `PositionInv` says where the members of a group stand: those the
round has been at are where the next round begins, the others where this one
does, and only the one running may be in between; a style is a short sequence of
steps, so this is checked on a table of them (`Code`, `Starts`). `FramesInv`:
free list and group never name the same frame (`Apart`), and as many frames
are in use as members have been resumed. For the inserts, `MemberInv` ties the
node of each member to the copy that the normal insert has made of it up to
the batch (`normal_nodes`): not yet touched; slot chosen; entry stored; bit
set. The members of a group cannot disturb each other because their nodes
differ, `NodesDiffer`: operation `o` is drawn for the nodes of its place in the group, and a
group begins at a multiple of `GROUP_SIZE`. This is what makes a
group equal to single inserts, and it would be false for nodes drawn freely.
What is stored and written back in one round is behind a fence in the
next (`FencedRounds`), which `Safe` uses; what the cache and the fences for
other members may do to a node in between is `Kept`. `KeepsEntry` is the
order of entry, fingerprint and bit: a slot with an entry of an insert has its
fingerprint and the entry in NVM, so that a full node may be emptied and filled
again. For the lookups, the sum is that of the keys of the first `i + Compared`
operations (`LookupInv`).

The sums and the search through a node are folds of the community modules, which take
an operator; they are unfolded one element at a time into recursive functions
(`FoldExists`, `SumsAgree`).

### The in-place schemes

`InplaceBenchProofs` proves all properties of the run `inplace_updates`, for any
number of entries, iterations, words of an entry, bits of a word and words of a
line, and for whatever the entries are filled with:

| Theorem | Statement |
|---|---|
| `TypesAreKept` | `Spec => []TypeOK` |
| `ReadsAreExact` | `Spec => []ReadsReturnTheLastUpdate` |
| `ReadsAreComplete` | `Spec => []ReadsVisitEveryEntry` |
| `UpdatesAreAtomic` | `Spec /\ Recovers => ImplementsAtomicCells` |
| `OldStatesAreKept` | `Spec /\ Recovers => []OldStatesAreTheLastUpdate` |

They assume `InplaceBenchAssumption`: at least two entries, one word and two
bits; data that fits the words; no more entries than a word can name; a filler
that is not zero (it is 'a'). `Recovers` is about two schemes only, and the last
two theorems are false without it. For the redo log no update may be all zeroes,
since its entry could not be told from the unused log behind it (section 5). For
the sliding scheme an entry must be a single group of words (fewer than `Width`):
with more, the code loses the old state of a meta block, which is
`sliding_meta_lost`. The runs are within `Recovers` and just outside.

**Reading back.** The version schemes take a bit of every word for a version and
put it into a meta block. That no bit is lost needs that words of different
groups and positions have different blocks (`BlocksApart`), that setting or
clearing a bit leaves the others (`WithBitOps`, from powers of two), and that a
sum of displaced bits has exactly these bits (`PackedBits`). The sum is
`MapThenSumSet`, a fold that takes an operator; `SumsRemove` unfolds it word by
word, and the inductions go by the least number of a set (`LeastNumber`).

**The cycle.** `ReadsAreComplete` is about how the operations are drawn: each
entry refers to the one behind it in a permutation `h` of the entries, the last
one to the first (`OperationsAreACycle`). `CycleInv` says that dependent reads,
which begin at entry 0, are `u` places further along `h`, and have visited just the
entries between; after as many reads as there are entries these are all
(`AllVisited`). That the reads follow the references at all is
`ReadsReturnTheLastUpdate` again: entry `k` reads back `operations[k]`, since
the dependent updates have written it there (`BenchInv`).

**The invariant** is `Inv`: `BenchInv` for the loops, and `CellInv`, which says
of each entry where its update stands. Outside `DoUpdate` the active copy
(copy on write), all blocks (the versions) or the entry (the log) are settled and
are `acked`. Inside, the copy that is not active may be anything, until the
fence settles it and the byte is turned; the blocks of a version scheme are each
of the old version or the new in NVM, the new one in the cache, and the new one
has the old state beside it.

**Recovery.** A failure in the middle of a version scheme's update leaves any
subset of the blocks one version ahead. The versions go around modulo four;
if all blocks are ahead the new state counts, if none the old one, and in between
exactly the ones ahead are rolled back to a state that equals the old one
(`VersionCellBetween`). For the log the question is what a reader takes for
an entry. `LogInv` says which words of the log are written (`At`), which are
durable for certain (`Sure`), and that each of the others holds its word or zero;
a line streamed again repeats what is there. An entry with a word missing has fewer
bits than its last word says, or that word is zero (`PartialCount`), so the log
ends there. `AckedInv` ties the calls of `DoUpdate`, counted from the start, to
`acked`: an entry is what the last finished call for it wrote. Together
(`RecoveryInv`) they give `SurvivorIs`, what a failure leaves of each entry: the
update on its way if it is `Committed`, else `acked`.

**Refinement.** `Committed` is the moment the update can no longer be lost: the
byte turned in NVM, all blocks there, the whole log entry there. It is
reached at most once in an update, by a fence or by the cache, and stays
(`CommittedStays`). A step that makes it true is `Commit` of `AtomicCells`, or
part of `Return`; every other is `Begin`, `Return` or a stutter (`AtomicStep`).

### What is only model-checked

`ShadowHeaders`, and of the multi-threaded programs `EveryRunEnds`. Out of the prover's reach: fairness and `ENABLED`, and what a
definition with an operator as a parameter computes by induction, unless, as for
the sums and the reader above, it can be reduced to a recursive function over a set.

## 5. Disagreements found between code and its text

| Run | Where | What |
|---|---|---|
| `shadow_pvn` | `page_flush.cpp:175` | version numbers restart at 0 each round, the number pages start with |
| `shadow_headers` | `FullBufferFrame.hpp:382` | one fence orders page id and pvn only when they share a line; `sizeof(NvmBufferFrame)` is 16920 |
| `mnemosyne_lost` | `LW_Mnemosyne.hpp:37` | a length word at the end of a line is never written back |
| `sliding_meta_lost` | `InPlace-sliding.hpp:73` | from 32 words on, `blocks[count]` is not the meta block of the group |
| `reuse_full_node` | `reuse.cpp:317` | a full node is "reset" to full, and slot 0 overwritten while in use |

Found while modelling, latent or of no effect on what the programs print, and
without a run:

- `FullBufferFrame.hpp:80`: `dirty.set(false)` is `set(0)`: after the pmemblk
  flush line 0 counts as dirty. No caller; `FrameLife` has it as it is.
- `FullBufferFrame.hpp:401,419,428`: `FlushMicroLog` looks at the bits of
  single lines; a frame whose `MarkDirty()` set only `all_dirty` is declared
  clean unwritten. `MakeAllCacheLinesDirty`, the one user of `MarkDirty()`, has
  no caller.
- `FullBufferFrame.hpp:439`: the micro log with pop count asserts an invalid
  page id where its own end leaves 0, and `alex_PopCount` of a buffer
  (`page_flush/Common.hpp:87`) returns 0 always.
- `coro_insert.cpp:285`: a full node is reset without a write-back before slot 0
  is overwritten: in NVM the slot may still count as used. Nothing recovers nodes.
- `coro_insert.cpp:223`: `free_bits` is assigned to itself, so the nodes start
  with whatever the memory holds; `CoroInsert` starts with any.
- `coro_insert.cpp` and `reuse.cpp` `Validate`: both copies are the same file
  mapped `MAP_SHARED`, so the memory is compared with itself.
  `CoroutineEqualsScalar` compares with a copy of its own.
- `GROUP_SIZE` above `NODE_COUNT` makes `nodes_per_group` 0 and the random
  node `rand() % 0`; `CoroutineTreeAssumption` leaves it out.
- `read_latency.cpp:109`: with fewer than ten elements the array is filled in
  steps of 0. `read_latency.cpp` gives up after 500 runs and still divides the
  time by all `REPETITIONS`; `ResultsAreComplete` names the bound.
- `bench.cpp:35,59`: an entry whose number is a multiple of 256 is filled with
  zeroes; if it is also the one that refers to entry 0, its whole update is zero,
  and so is the pop count behind it in the redo log: nobody could tell it from
  unused log, and the updates behind it would be cut off with it. `Recovers` of
  `InplaceBenchProofs` excludes it. The benchmark never reads its log.
- `LogBased.hpp`: an entry of the redo log does not say which entry of the data
  it is for; a reader would have to know the order of the updates.

## 6. What is left out, and why

- **Recovery code**: the repository has none. Survivors are read by the
  properties.
- **`nvm_buffer_frame->dirty`**: written, never read. **Fix/Unfix**: a flag
  nobody reads.
- **The pmemblk pool**: library code; the flush hands it the DRAM page.
- **Initial memory**: pages are durable when the flush benchmark starts and the
  logs start on durable zeroes (header and classic logs: on any fill where the
  format does not need zeroes). The program zeroes or fills the memory and
  does not write it back; nothing claims the first seconds survive. The zero
  writers start on what other writers left when the logging benchmark runs them
  one after another, in which case their validity test means nothing; the
  modules state zeroed memory as their initial state.
- **Space assertions** of `LW_Mnemosyne` and `LW_ZeroCached` leave out the
  checker and count words; the model asks for all the space.
- **Classic's first entry**: its footer value is 0, which zeroed memory already
  holds; `FooterImpliesEntry` leaves it out.
- **The writers one after the other**: the logging benchmark zeroes its memory
  once per entry size and not between two writers; `LogWriters` has one writer.
- **Recovery by scanning** of the classic log: a payload may contain a word that
  looks like a footer; the properties use the known positions instead.
- **Who runs first**: the interference workers are started one after the other,
  and a worker may finish the printed iteration before the last has begun;
  `interference.cpp:185` says of the first iteration that it "might be bad", and
  nothing but the length of an iteration keeps the second from being so. The
  same goes for the throughput `bw.cpp` prints, whose blocks are counted from
  the barrier to the stop and whose time is taken inside that.
- **What the "PMDK" round flushes**: `page_flush.cpp:293-295` calls
  `FlushAll_Shadow`, so `FlushAll_PMDK` has no caller; `FlushRounds` leaves the
  technique of a round out, `FrameLife` has the pmemblk flush.
- **What interference workers read and write**: only its beginning and end. The
  sequential reader's check of its sum is of memory nobody else writes.
- **`write_latency.cpp`**: one thread stores, writes back and fences line after
  line and reads nothing back: nothing a property could be about.
- **The micro log with pop count, the cached classic log writer**: nothing runs
  them, and neither could work (section 5; `LW_ClassicCached.hpp:51` uses a word
  index as a number of bytes).
- **`tester.cpp`**: its `Block` is in `VersionedCell`; its own `main` is in no
  build.
- **Fingerprints on a second line** (`reuse.cpp`, nodes that begin anywhere in a
  line): treated as if they were on the line of `free_bits`.
- **Timing, output, `mmap`, scripts, libpmemlog**: no state to model.

## 7. Plan

Done, with proofs: the micro log and the shadow flush, the frame, the
multi-threaded programs with the latency benchmarks, the log writers, the
coroutine programs, the in-place schemes.

Left to model: the logging benchmark running one writer after the other on the
same memory, and the interference log writer that starts over on used memory,
whose hazards no property covers yet.

Left to prove: nothing that a passing run states and the prover can reach.
