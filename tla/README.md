# A specification of the TryBest ChampSim simulator and of its evaluation

TryBest is a fork of ChampSim, a trace-driven simulator of an out-of-order
core with its caches, TLBs, page table walker and memory controller
(`src/ChampSim/TryBest/`, C++11), together with the Python that turns its
reports into tables and figures (`src/analysis_py/`). A wrong interleaving in
the simulator does not crash: it moves a few cycles, drops a request, answers
one twice, or ends in one of its many `assert(0)` after hours. A wrong step in
the evaluation does not crash either: it moves a bar. There are no tests. This
project states, in TLA+, what the parts promise each other, model-checks them
on small instances with TLC and proves the most important promises for all
sizes with TLAPS.

Paths below are relative to `src/ChampSim/TryBest/` unless they start with
`analysis_py/`.
The build modelled is the repository's own: one core, `SANITY_CHECK`,
`INS_PAGE_TABLE_WALKER`, `LLC_BYPASS` and `DRC_BYPASS` defined.

## 1. The system

One cycle (`src/main.cc` 1468-1760) runs, in this order: retire, update the
ROB, schedule, execute, memory scheduling, memory execution (which also
operates ITLB, DTLB, STLB, PTW, L1I, L1D and L2C), update the ROB again,
decode and dispatch, fetch, read the trace; then the LLC and the memory
controller. Everything is single-threaded, but what one part reads was written
by another one, cycles ago: each part is driven by `event_cycle` numbers that
come due in any order, so the parts behave as concurrent processes with calls
as messages.

| Component | State | Operations | Whom it talks to |
|---|---|---|---|
| Front end (`src/ooo_cpu.cc`) | `IFETCH_BUFFER`, `DECODE_BUFFER`, `fetch_stall`, `fetch_resume_cycle`, `instrs_to_fetch_this_cycle` | `read_from_trace`, `fetch_instruction`, `complete_instr_fetch`, `decode_and_dispatch` | branch predictor and BTB; ITLB and L1I; ROB |
| Back end (`src/ooo_cpu.cc`) | `ROB`, `LQ`, `SQ`, `RTE0/1`, `RTL0/1`, `RTS0/1`, `STA`, inflight counters, dependence sets | `add_to_rob`, `schedule_instruction`, `execute_instruction`, `schedule_memory_instruction`, `operate_lsq`, `complete_execution`, `handle_merged_load`, `retire_rob` | DTLB and L1D; front end |
| Dependence sets (`inc/set.h`) | sorted array or bit set | `insert`, `search`, `join`, `expand` | back end |
| FIFO queues (`src/block.cc`) | ring, `head`, `tail`, `occupancy` | `check_queue`, `add_queue`, `remove_queue` | every cache |
| Priority queue (`src/block.cc`, `src/block_helper.cc`) | deque, `head` | `add_queue`, `remove_queue`, `compare_priorty` | nobody yet |
| L1I, L1D (`src/cache.cc`) | blocks, RQ, WQ, PQ, `MSHR`, `PROCESSED` | `handle_fill`, `handle_writeback`, `handle_processed`, `handle_read`, `handle_prefetch`, `add_rq/wq/pq`, `return_data` | TLBs, core, L2C |
| L2C (`src/cache.cc`) | blocks, RQ, WQ, PQ, `MSHR` | the same | L1I, L1D, PTW, LLC |
| LLC (`src/cache.cc`) | the same | the same, with bypass | L2C, memory controller |
| TLBs, PTW (`src/cache.cc`, `src/page_table_walker.cc`) | entries, `MSHR`, page tables, paging-structure caches | translation, walk, page fault, swap | L1s, L2C, `va_to_pa` |
| Memory controller (`src/dram_controller.cc`) | RQ, WQ, `bank_request`, `write_mode`, `scheduled_reads/writes`, DDRP buffer | `operate`, `schedule`, `process`, `reset_remain_requests`, `add_rq/wq/pq`, `insert_ddrp_buffer` | LLC, core (DDRP requests) |
| Prefetchers, replacement, branch prediction, off-chip prediction | tables | predict, train | their cache or the core |
| Main loop, page allocation (`src/main.cc`) | page map, cycle numbers | calls all the others | - |

Outside the simulator and not modelled: `tracer/` (a Pin tool) and the shell
scripts. `batch_prefetcher/` holds 299 generated variants of one prefetcher.

### The evaluation

Some thirty scripts in `analysis_py/` (`1core_1pref_evaluate*.py` and the like)
are copies of one program with parts exchanged; some forty others draw figures
from what they write. A script starts one process per configuration (a `.json`
beside it) and joins them. Each process does, in order:

| Part | State | Operations | Whom it talks to |
|---|---|---|---|
| Pool (`parse_origin_results`) | the listing, chunks, one table per worker, `ROI_ORIGIN_STATS` | `pool.map(parse_file, ...)`, merge | workers, by pickled results |
| Parser (`parse_file`) | the entry of the report's trace and prefetcher | one assignment per line read | the reports on disk |
| Metrics (`cal_final_results`) | `ROI_ORIGIN_STATS`, repaired in place | per cache metrics, means, `Average`, `Delta` | - |
| Recorder (`record_results`) | two CSV files: the figures' and the results' | open, a line per workload, a row per prefetcher | the disk |

The processes of a script, the scripts run one after the other and the figures
share the disk, and file names made of a suite and a date typed into the
configurations. What a figure draws is found by its position in the CSV, and
named by a list typed into the figure.

### What is hard, and what makes each part correct

* **Merging.** In every queue and MSHR, requests for a line merge, and who is
  to be answered lives in flags each merge updates differently. Correct: each
  waiting client is answered exactly once (`OwedOnce`, `ReadsOwed`,
  `WaitersAreAnswered`).
* **Undoing.** The memory controller takes requests off banks when it switches
  between reads and writes. Correct: banks, slots and counters come back
  together (`BanksMatchRequests`, `CountersExact`).
* **Ordering.** Loads and stores execute out of order. Correct: a load gets
  the last store before it (`LoadsSequential`), a register its latest producer
  (`RegistersReady`), a read behind a writeback the new data (`ReadsSeeWrites`).
* **Bare indices.** Wakers, answers and translations carry ROB, LQ and queue
  slots from an earlier time; a slot may have been taken again
  (`WaitersHaveWakers`, `NoAssertionFails`).
* **Ignored results.** `add_rq` returns -2 when its queue is full and most
  callers do not look. What excludes a loss is the relation of the queue sizes
  (`RequestsMatchMshr`, `WritebackKept`).
* **Progress.** Full queues, stalls and retries everywhere. Correct: whatever
  was accepted ends (`Drains`, `RobDrains`, `FrontendDrains`).
* **Tables that outlive a report.** A pool worker keeps its table, and a
  chunk's results are pickled when the chunk ends. Correct: nothing of another
  report shows, and the pool equals a loop (`NoCrossTalk`, `SameAsSequential`).
* **Repair in place.** Zeros and dashes become ones, the baseline's too, while
  the rows are computed in the order `glob` listed them. Correct: the order
  does not reach the numbers (`OrderIndependent`), and prefetchers are compared
  over the same traces (`AveragesComparable`).
* **Partial failure.** An exception can come from a worker, from arithmetic or
  between two lines of a file. Correct: the process ends, the two files agree
  and a figure shows one run (`EvaluationEnds`, `WritesCsvs`, `CsvsAgree`,
  `FiguresOfOneRun`).
* **Agreement by position.** Lists of labels against lists of prefetchers, in
  different files, and texts typed beside the column they are about. Correct: a
  mark is what the texts around it say (`MarksTrue`).

`PROJECT.json` lists every hazard found so far at its line, with the
properties that cover it or the reason why none does yet.

## 2. The modules

Time is abstracted in the same way everywhere: an `event_cycle` is *due* or
*not due*, chosen freely at each step, so a model has every latency the
program can have. Assertions of the code are an invariant: the model records
each failure (`failed`, or a module's own form of it) and goes on, and
`NoAssertionFails` says it never happens. Addresses, lines and registers are
model values; data, statistics, printing and the bookkeeping of epochs are
left out. Names follow the code.

**FastSet, Containers_proofs** - `fastset` of `inc/set.h`. Up to `SMALL_SIZE` indices are kept
sorted in an array, more in a bit set; `search` changes from linear to binary
to bit test at the thresholds. State: the named sets and a ghost `mem` of what
was put in. `insert`, `join`, `expand` are the code's.

**PacketQueue, BoundedFifo, Containers_proofs** - the ring of `PACKET_QUEUE`
with `head`, `tail`, `occupancy` and the two-piece scan of `check_queue`.
`BoundedFifo` is its abstract specification: a sequence of bounded length in
which `find` returns the oldest packet of an address. `PacketQueue` implements
it under the mapping that reads the ring from head on.

**Containers** puts the ring and the sets side by side: a behaviour exercises
one of the two.

**DramController, DramController_proofs** - the memory controller and the DDRP
buffer. Requests come from the LLC (`LlcMiss`, `LlcWriteback`, `LlcFill`) and
from the core's off-chip predictor (`DdrpRequest`). `Operate` is one call of
`operate`: the mode switch with `reset_remain_requests`, `schedule`, `process`,
in the code's order. The LLC is present as the set of misses it waits for.

**OooCore, OooCore_lemmas, OooCore_proofs** - the back end: ROB ring, register dependences through
`reg_dependency`, memory dependences through `mem_RAW_dependency`, the ready
rings, LQ and SQ, forwarding, the three stages of a load, release of the
waiting ones, merged loads and retirement. An instruction is any member of the
constant `Kind`, a set of records of registers and addresses. The L1D is the
environment: it takes requests and answers them in any order. Ghosts record
which store each load must read and which one it read.

**Frontend, Frontend_proofs** - `IFETCH_BUFFER` and `DECODE_BUFFER`, the stall of reading at a
branch that was mispredicted or missed in the BTB and the two places that end
it, requests to the L1I per line and their answers.

**L2Cache, L2Cache_proofs** - class `CACHE` with `cache_type == IS_L2C`, one set of it. The
calls from above are `L1I_read`, `L1D_read`, `PTW_read` (`add_rq`), `add_wq`,
`L1I_prefetch`, `L1D_prefetch`, `prefetch_line` (`add_pq`); the handlers are
`handle_fill`, `handle_writeback`, `handle_read`, `handle_prefetch`; the LLC
is `LLC_takes` and `return_data`. `waiting` holds the lines each client's MSHR
waits for, `below` those the LLC owes. The flags `fill_level`, `fill_l1i`,
`fill_l1d`, `instruction`, `send_both_cache` and `type` are kept as they are,
since each merge combines them in a way of its own. Abstracted: the
replacement policy may choose any way, the LLC's WQ and PQ may be full at any
time; page swaps (`invalidate_entry`) are left out.

**Values, ReportParser** - the cells of the tables (`'-'`, an exact fraction or
the root of one; `Raised` for arithmetic that Python refuses, `Inexact` for a sum
of roots, which nothing compares) and the nine variants of
`parse_file`: which names a script accepts, which lines it reads, which cells
they write. A line is its kind, its cache or core and its numbers.

**ResultPool, Evaluation_proofs** - `parse_origin_results`: workers take
chunks, parse each report into their own table, give the chunk back (pickled at
its end) or lose it to an exception; the parent merges. How `multiprocessing`
cuts a listing into chunks is modelled from the call.

**Metrics** - `cal_final_results`, in the four ways the scripts compute a
cache's metrics (plain, scaled by accesses, with the traffic of misses, with
the total traffic), the means over cores and traces and the
`Delta` fields. The steps of a row are its caches in order and then what spans
them; `RowVariants` names the four ways.

**Recorder, Evaluation, CsvWriter, Evaluation_proofs** - `record_results` in its ten variants, and
one evaluation process from `bingo_setting` on. `CsvWriter` is the abstract
specification of its two files: the figures' CSV is whole before the results'
CSV is opened, a results' CSV that was opened is completed, a process that dies
leaves the older one alone, and every process ends. `Evaluation` implements it
(`WritesCsvs`, fairness included). Its constants are a configuration, and its
assumptions what the code and the configurations give: a script's parts
fit each other and its fields are among the metrics (`ScriptsAssumption`); a
plain script parses the reports of its output workloads only
(`ListingsAssumption`, from the test at the start of `parse_file`); IPCI is an
output metric and there is a prefetcher (`ConfigurationAssumption`); what a
report can hold is `'-'` or a number (`CellsAssumption`); and no trace is called
`Average` (`KeyAssumption`).

**Configurations, Scripts, Figures, FigureScripts, Workspace, Workspace_proofs** - the prefetchers
of the 23 live configurations (one for several suites counts once), the 31 scripts (variant and configurations of each), the kinds
of panels and the 47 figures made of them, and a session: scripts and figures
in sequence on a shared disk, with processes that may die. What a process
computes is Evaluation's matter; in Workspace it opens, extends and completes
its files or dies, as `CsvWriter` lets it. What a panel says of the rows it is
given (`BarLabels`, `CurveLabels`, ...) comes from its texts: the axis, title or
legend of its metric (`Axis`), the title of its suite, its ticks and the order of
its curves. What it shows comes from the cell. `Meant` reads the texts: "SpeedUp"
is the column IPCI, "NMT" is LLC traffic, "SPEC CPU 2017" is `spec2k17`. A figure
without a text (`Silent`) can say nothing wrong. `Authors` are the configurations
of a session that write a file.

The `MC*` modules give constants their values and bound what is unbounded.

## 3. What is checked

Every constant in a `.cfg` is a size of the code made small; every other bound
is named `Max...`.

| Run | Instance | What it shows |
|---|---|---|
| `containers` | a ring of 4 with three packets and two addresses; two sets, elements 0..5, thresholds 3 and 5 | the ring refines `BoundedFifo`, its assertions hold and no packet is left outside; both forms of the set hold exactly what was put in and find it |
| `dram` | 3 lines, 2 banks, 2 rows, queues of 2, watermarks 2 and 1, DDRP with buffer | every miss answered once, every write kept, counters exact, no assertion fails, a read behind a writeback sees it; when requests stop, both queues drain |
| `core` | ROB 3, LQ 2, SQ 2, traces of 5 instructions of 6 kinds | loads are sequential, registers ready, counters exact, every waiter has a waker |
| `core_live` | traces of 4 in a ROB of 3, stores of two operands included | what was dispatched retires |
| `core_assert` | double store, single store, double load | *violation:* the assertion of `execute_store` |
| `core_stuck` | ROB 4, LQ 1 | *violation:* the load queue fills with loads that wait |
| `frontend` | 3 + 2 buffer entries, 2 lines, traces of 4 | a stall belongs to its branch and ends; everything read reaches the ROB, in order |
| `l2_cache` | one set of 2 ways, 2 lines and a page table, RQ 3, WQ 1, PQ 1, MSHR 2 | one answer per waiter, LLC requests match the MSHR, modified lines are kept |
| `l2_live` | the same, MSHR 1, PQ 2, 4 requests | everything drains |
| `evaluation` | all variants on one trace, four of them on two traces with two workers | the pool, the metrics and the files, as listed above |
| `accuracy_columns` | the same | *violation:* `L2C LOAD_ACCURACY` holds the L1D's |
| `workspace` | eleven sessions with every script and every figure, one process of a session may die | marks are what the texts around them say, figures show one run |

### Why the bounds are enough

* *containers, the set:* the sets grow through both thresholds, so each of the two forms
  meets each of the two in `join`, and each of the three searches is used at
  its smallest and its largest size. The proof removes the bound.
* *containers, the ring:* a ring of 4 is met at every head position with every
  occupancy, including a scan of two pieces with matches in both. The proof
  removes the bound.
* *dram:* two lines share a bank and differ in the row, the third is alone on
  the other bank; a queue of 2 is full with two requests, so switching happens
  for a full WQ, at the watermark, and for an empty RQ, with requests on the
  banks. A buffer set of two lines evicts. The proofs remove the bound.
* *core:* the ROB of three wraps within five instructions; two addresses of
  one line give merged and forwarded loads; two LQ and SQ slots are full and
  reused. Registers are written by up to three instructions in flight.
  `core` excludes traces that hold a store of two operands together with a
  load of two operands, because they reach the finding of `core_assert`; such
  stores are in `core_live`, whose traces are one longer than the ROB, so that
  entries stand on both sides of its end (`src/ooo_cpu.cc:1209`). The deadlock of `core_stuck` needs a load queue
  that is smaller than the number of waiting loads that fit in the ROB behind
  a store: with ROB 3 and LQ 2 there is none, hence the separate run.
  The proofs remove the bounds of the invariants of `core`; of `NoAssertionFails`
  for instructions of one store at most.
* *frontend:* a line of two instructions is split over two requests, an
  instruction is repeated, buffers are full; both kinds of resolution (decode
  and execution) meet in one trace. The proofs remove the bounds, but not of
  what must happen at last.
* *l2_cache:* two data lines and one of page tables compete for two ways and
  two MSHR entries; RQ holds what three clients can have in flight, so each
  merge (RQ, PQ, MSHR from RQ, MSHR from PQ, forward from WQ) happens with each
  pair of clients. Lines, and ways, are interchangeable, hence the symmetry. The proofs
  remove the bounds of the invariants.

* *evaluation:* the two workers and three or four chunks give every assignment
  of chunks; the baseline is listed twice, in different chunks, as in most
  configurations; two orders of the listing put the baseline first, last and
  between its rows. At most one report is out of the ordinary (empty, cut off
  after the IPC, of a core the configuration lacks, without misses, without
  prefetches, missing): each exception of the code is reached from one such
  report. The remaining scripts differ in what one worker does with one report
  and in the lines, so one trace in one chunk reaches their branches. Numbers
  are small but distinct, so that swapped cells differ; `LOAD_ACCURACY` is left
  to `accuracy_columns`. The proofs remove the bounds of the invariants.
* *workspace:* scripts that share files are in one session, some of them twice,
  so that old files are there; a death at each point of each process is
  enough, since files are independent. The configurations are the real ones,
  with all their prefetchers; workloads are only counted. The proofs remove
  the bounds on deaths and sessions; that the texts and lists of the figures
  suit the configurations (`MarksTrue`) is a fact about these lists, and the run
  looks at all of them.

`CHECK_DEADLOCK FALSE` appears where the system really stops: the
core and the L2C when the bounded trace or the bounded requests are done, an
evaluation or a session that is over, and `core_stuck`, whose question it is.

Distinct states: `containers` 5,404, `dram` 103,432, `core` 122,941, `core_live` 8,557,
`frontend` 124,535, `l2_cache` 1,196,522 (up to symmetry), `l2_live` 70,743, `evaluation`
49,886, `workspace` 321,964. The longest takes a little over two minutes on two
cores.

Each property was also checked against a plausible bug in a definition it
depends on (the operators named `Mut...`, listed in `PROJECT.json`): with it the
run reports a violation, so none of the properties holds by the shape of the
model.

### Fairness

Weak fairness only, of what runs in every cycle.
*Memory controller:* `operate` is called every cycle, and a request that waits
for a cycle number is due from then on, so scheduling with everything due and
processing with everything due cannot be put off for ever.
*Core:* some work that can be done is done (`WF(Work)`); no step of it can be
repeated for ever, so this is as much as fairness of each stage.
*Front end:* fetch and decode run every cycle, the resume cycle comes, the L1I
takes and answers each line's request, the ROB gets room and its branches
execute.
*L2C:* each handler, and for each line its fill and the LLC's answer. The run
bounds the requests of a behaviour: an L1 that waits for a line stops asking
because the ROB fills up, which one cache's model does not hold; without a
bound, prefetches (handled with what reads leave over) could be starved by
clients that never wait.
*Evaluation:* the parent and each worker of the pool are processes that the
operating system runs; no step waits for anything but the others' steps.

## 4. Where code and its own words disagree

* `core_assert`: `src/ooo_cpu.cc` 2116-2119 asserts that a load operand woken
  by a store names that store as its producer. The set of dependents is kept
  per instruction, not per address: S stores A and B, a younger store
  overwrites B, a load instruction reads A and B. When S's store to B executes
  it meets operand B, whose producer is the younger store.
* `core_stuck`: `src/main.cc` 1713-1715 checks for deadlock and asserts there is
  none. Loads take LQ slots out of order and keep them while they wait for a
  store (`src/ooo_cpu.cc` 1708-1740). If they take every slot before an older
  load that the store depends on, nothing moves again. With the sizes of
  `inc/ooo_cpu.h` (ROB 352, LQ 128) the ROB has room for it.
* `accuracy_columns`: the simulator prints the useful loads of each cache
  (`src/main.cc:273`), and the configuration asks for `L2C LOAD_ACCURACY`;
  `parse_file` matches the line of the L1D inside its loop over the caches
  and stores that number for each of them
  (`analysis_py/evaluation3/1core_1pref_all/1core_1pref_evaluate_all.py:161-164`).

Noticed while modelling, and stated by the models without a run of their own:

* The scripts with the total traffic let a baseline whose `TOTAL_Misses` is
  zero take the row's: there the order of the listing does reach the numbers.
  `OrderIndependent` is about the other variants.
* The detail scripts average a prefetcher over the traces it has; only the
  plain ones stop at a missing one, so `AveragesComparable` is theirs.
* A process that dies is joined like any other: the script goes on, a partial
  figures' CSV stays beside older results, and figures are drawn from them.
  `FiguresOfOneRun` and `MarksTrue` exclude the files of a process that died.
* `ThreshL2C` and `SensitiveDesign` write the same files, and a traffic column
  of `1core_1pref` has a formula that depends on which of its two scripts ran
  last.
* Several figures cannot be drawn: they read files no live configuration
  writes (`MPKI.py`, `Coverage.py`, `4core_1pref_all/IPCI.py`, `IPCI_GAP.py`,
  `IPCI_SPEC06.py`), have a legend without one of the prefetchers (`IPCI.py`,
  `L1D_Coverage.py`, `AC.py` and others), or more labels than rows
  (`ghb_occupancy/hisnum.py`). `table_size/table_size2.py` looks for an older
  name of the prefetchers and draws empty curves.
* `L2_Accuracy.py:117` and `L2_Coverage.py:117` write "SpeedUp" beside the accuracy
  of the L1D. `MarksTrue` would fail if they could be drawn, but their legends
  lack a prefetcher.
* The scale of a second axis is not modelled. `L1D_off.py:82` and `L2C.py:82`
  divide by 0.76 where the ticks span 0.75, so points stand a little low;
  `dse.py:392` divides by 0.75.

## 5. What is proved

With tlapm, for every value of the constants that satisfies the modules'
assumptions. Each invariant below was checked by TLC on the module's run before
it was proved. Every invariant that a passing run checks is stated by a theorem,
except `MarksTrue`, which is about the lists of the figures. A
module of proofs has one lemma per action (or per stage of a
long handler) and composes them; its theorems come last.

**OooCore_lemmas, OooCore_proofs.** For every ROB, load queue and store queue,
every set of instructions and registers. `IInv` has a part for each structure:
`RobTyped`, `QueuesTyped`; `Ring` (which entries are in use, their `instr_id`s
are consecutive); `RegInv` (`num_reg_dependent` counts the producers that have
the entry in their list, each of them older and not completed); `LoadInv` and
`StoreInv` (an entry and its slots name each other, a slot in use has one
owner, the ready rings hold what is to be issued); `DataInv` (a load that waits
has the nearest older store to its address as producer, and one that has a
value has the value of that store); `Failures`. None of the checked invariants
is inductive without the others: that a load is woken (`WaitersHaveWakers`)
needs to know which store it waits for, that it reads sequentially
(`LoadsSequential`) needs both, and that a counter is exact needs that each
completion finds its slot. `do_memory_scheduling` adds an instruction's
operands one by one and a load may look for its producer while half of them
are in; `Stage` is the invariant in between, with a lemma for each add. From
it: `ReadyRegisters`, `SequentialLoads`, `ExactCounters`, `WakersExist` and
`OnlyProducerFails`: of all assertions of the back end, only the one on the
producer can fail. It does fail (run `core_assert`) when an instruction stores
twice. `NoFailure` proves that it cannot when every instruction has at most one
store (`OneStoreEach`, true of the instructions of run `core`), with
`OneStoreInv`: what waits for a store waits for the one whose list it is in.
Assumed otherwise: `CoreAssumption`.

**Frontend_proofs.** For every buffer size, width and trace. `InTraceOrder`
follows from the numbers: what is dispatched, in DECODE and in IFETCH is a
gapless run of `instr_id`s. `StallMatchesBranch` needs `Flagged` (at most one
flagged branch is in the ROB, decode did not resolve it, nothing is flagged
before the warmup ends). `StallEndsResolved`, about steps, follows from the same
invariant. From it: `TraceOrderKept`, `StallsMatch`, `BranchTypesHold`,
`FetchesAreAnswered`, `StallsEndResolved`. Assumed: `FrontendAssumption`.

**L2Cache_proofs.** For every number of lines and ways and every size of the
queues. RQ, PQ and MSHR are treated as sets of packets of distinct lines, and
the lemmas about queues reduce adding, merging and removing to sets. `Held` says
which flags a packet in each of them may have (what a merge in RQ, PQ or MSHR
must keep true), `OwedInOnePlace` that what a client waits for is owed by
exactly one packet there, `ClientsBounded` that the clients' MSHRs bound what is
on its way, so that `return_data` finds room. With `RequestsMatchMshr`,
`ModifiedKept`, `TypeOK` and `NoAssertionFails` this is inductive. From it:
`QueuesKept`, `NoAnswerUnasked`, `AnsweredOnce`, `LLCOwesTheEntries`,
`WritesAreKept` and `NoRequestDropped` (a call that the code drops when a queue
is full never meets a full queue).

**DramController_proofs.** Assumed: the constants' assumptions of the module
only (a finite set of banks, functions from lines to banks, rows and
buffer sets, positive sizes; nothing about the watermarks). `BanksMatchRequests` alone is not inductive: that a reset finds the slot
of the request on a bank needs the types, that a scheduled slot is not empty
and that no line stands in a queue twice; that an answer meets a waiting miss
needs `ReadsOwed`; that a miss merges with a DDRP request only needs that
without the predictor no slot has that fill level (`OnlyDdrpIsDdrp`). The invariant `IInv` is therefore the conjunction of
`TypeOK`, `NoAssertionFails`, `BanksMatchRequests`, `CountersExact`, `ReadsOwed`,
`WritebackKept` and `OnlyDdrpIsDdrp`. `Operate` is one large step; its lemmas
follow its stages (`ResetKeeps`, `SwitchKeeps`, `ScheduleKeeps`, `ProcessKeeps`),
each stating what a stage does to a controller that is `Good`, and
`OperateKeeps` composes them. From it: `TypeCorrect`, `AssertionsHold`,
`BanksStayMatched`, `CountersStayExact`, `EveryMissIsOwed`, `WritesAreKept`. On
top of it, `BufferInv` (a set of the DDRP buffer holds no line twice, only its
own lines, and none that is being read) gives `BufferedOnce`, and with what each
step may do to the lines being read and buffered, `ReadsNeverPassWrites`.

**Containers_proofs.** *The ring.* Assumed: its size is positive and the cleared
packet is none of the packets. The invariant: types, the tail follows the head by the
occupancy (modulo the size), and packets stand in the occupied slots only.
From it `TypeCorrect`, `NeverAsserts`, `NoPacketLeftBehind` and
`RingImplementsFifo`, the refinement: each add and remove of the ring is one of
`BoundedFifo`, and what the two-piece scan returns is the position of the oldest
packet of the address (`ScanFindsOldest`). *The set.* Assumed: the thresholds
are in order. A small set is a sorted array as long as its cardinality, a large
one has its bits (`WellFormed`); `InsertAdds` and `JoinAdds` say that both
operations add the elements and keep the form, over the change of form too, and
`SearchFinds` that each of the three searches finds what is there. The binary
search and the loops of `join` are recursive functions: that they exist, and
what they yield, is shown with a least counterexample. From it `SetsAct`.

**Evaluation_proofs.** *The pool.* Assumed: the chunk size is positive and a reading is
what `parse_file` can find. Nothing is assumed of the number of workers or of the listing. `NoCrossTalk` is about the merged table only; what makes it
true is that it holds of every worker's table and of every result on its way
(`Sourced`). `SameAsSequential` needs the accounting of the chunks (`Accounted`:
what is handed out, on a worker, or back), that a worker has met the reports it
has parsed (`Met`), that an entry of copies is the entry of one (`Copied`), and
the loop invariant of the merge (`Merged`). `IInv` is the conjunction; each part
is preserved by a lemma of its own with a step per action. From it:
`PoolMixesNothingUp` and `PoolIsSequential`. *The process.* An evaluation's
pool is a pool (`PoolOfEvaluation`), so both hold of every evaluation
(`EvaluationMixesNothingUp`, `EvaluationIsSequential`). `EvaluationWritesInOrder`
is the refinement of `CsvWriter` without its fairness: `Written` says what is in
the two files at each stage, and each step is a step of `CsvWriter` or leaves
its state alone. It needs that there is a line to write (`LinesToWrite`: the
table `Average` always has one). *What the files hold.* `EvalInv` adds to the
pool's invariant and `Written` that the rows are the keys of the merged table,
each once (`Listed`), that `ROI_ORIGIN_STATS` is what `cal_final_results` makes
of them (`Computed`), and that each line and row is the one the recorder computes
from it (`Filled`); it is inductive, and the three properties follow from it by
arguments about Metrics alone.

* `AveragesCompare`: a row's last step writes its IPCI, and no later row
  touches it; had it raised, the process would have ended. So every row
  of every trace has a number there, and an average of IPCI is the root of as
  many factors as there are rows of the prefetcher. That the plain line was
  written says that the prefetcher has a row in `Average`; that each of the
  plain lines was, that it has one in every trace, because a plain script reads
  output workloads only.
* `EvaluationCsvsAgree`: the results' row and the figures' line `Average` read the
  same entry. Where the line merges (the detail scripts), the only part of
  `Average` is itself, since no trace is called so, and the mean of one value is
  that value: a number plus zero, times one, or over one is itself *in lowest
  terms*. For this, Values is proved to compute in lowest terms (`Numbers`, with
  Euclid's algorithm, `Greatest`), and the cells to stay there (`Good`, `Roots`)
  through every formula of Metrics.
* `EvaluationOrderIndependent`: a row repairs its own cells and its baseline's,
  and divides by the baseline. `Mended` is what the repairs make of a
  cell, and mending twice is mending once. Two tables are `Alike` for a row when
  they have the same row and baselines that differ in repairs only; of
  tables that are alike each variant but the one with the total traffic makes
  the same row (`Frame`: and changes nothing else). So while the rows are made in
  any order, the table stays `OnTheWay`: the rows done are what each would be if
  it were made alone, the others as they were, the baseline repaired here and
  there. The total-traffic variant is excluded by what it does (section 4).

*Assumed* besides: the assumptions of Evaluation and Metrics listed in section 2.

**Workspace_proofs.** For every list of scripts and figures. `FiguresOfOneRun`
speaks of the moment a figure is drawn; the invariant follows each file from the
start of the run that is to write it: the file is there, whole and of that run,
or its process has died, or a process of the running stage has still to write it
(`Pending`), and only processes of that stage write (`Announced`). From it:
`OneRunPerFigure` and `ReturnsWithWholeFiles`. `FilesHaveAuthors` is what a figure
that goes by position relies on: whichever scripts are run, in whichever order,
and whichever processes die, the rows of a file are those of a configuration that
writes files of its suite and name, and a whole figures' CSV has a line per
workload of that configuration and one more, which figures call Geomean. Whether the
labels suit those rows depends on the lists and stays with TLC. Assumed: sessions are made of scripts, scripts of stages that
run at least one process, and each kind of panel has its suites
(`SessionsAssumption`).

**Only model-checked.** Liveness, for which the prover has neither fairness nor
`ENABLED`: the temporal properties of the memory controller, of the core, of the
front end, of the L2 and of the evaluation (`WritesCsvs` includes that a process
ends; its safety part is proved), and that no process is stuck. The texts and
labels of the figures against the configurations (`MarksTrue`), which are data.

## 6. What is not modelled

First-level caches, LLC, TLBs and the walker, page allocation and swap: planned,
see below. Hazards there that no property covers: a store merged into a load's
MSHR entry (`src/cache.cc:929`), a translation returned to a slot taken again
(1169), a finished request dropped when `PROCESSED` is full (713), a demand
that joins a prefetch in the STLB (3421) or is sent down again into a full
queue (366), a page swapped out under the walker's own caches
(`src/page_table_walker.cc:427`), fields read from RQ for a packet of PQ (317),
and `handle_page_fault`, which ends without its return statement (425).

`PACKET_QUEUE_PRIORITY`, which no queue of the simulator is an instance of. Reading
shows that `src/block.cc:347` and 403 store a comparison of three values in a
`bool`: -1 becomes true and the packet added last is always the head, where
`inc/block.h:506` has the one of the highest priority.

Prefetchers, replacement policies, branch and off-chip predictors
decide *which* line, way or direction, and every model leaves that choice open;
as algorithms they are planned where they have an interesting invariant.
The cloudsuite trace format is left out of Frontend and OooCore. The tracing,
statistics and options of the simulator, its tracer and shell scripts are I/O.

Of the evaluation: the text of reports and CSV files; sorting the results by a
metric (every live list asks for the configuration's order); `'-'` in a cell
that a figure converts to a number; a process killed from outside while it
writes; `traverse_files_and_call_function`, which nothing calls;
`json_modify.py`; and the three figures of `sensitive_design/` that read files
nobody writes. `MAX_PF/L1D_off.py` and `page_size/L1D_off.py` are copies of
`L1D_off/L1D_off.py`.

## 7. The plan

Done: the containers, DramController, OooCore, Frontend, L2Cache and the
evaluation, all with proofs.

1. The LLC (bypass, the two calls of `return_data` for a line of code and data,
   the look at the memory controller's RQ), then the composition of L2C, LLC
   and DramController, with an abstract memory it implements: each line asked
   for comes once and carries the last write.
2. L1D and L1I with their translated queues and `handle_processed`; ITLB, DTLB,
   STLB and the page table walker; page swap and what it invalidates.
3. LRU, SRRIP, the branch target buffer, the DDRP monitor and the Hyperion
   tables as algorithms against reference definitions.
4. Proofs: every invariant that a passing run checks is proved, `MarksTrue`
   apart; what remains is what the modules of 1 and 2 add.
