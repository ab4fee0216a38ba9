# Verification of the ECE552 lab repository

The repository holds five computer-architecture labs. Each one adds a part to an
existing simulator. This directory models those parts in TLA+, checks them with
TLC on small instances, and proves their safety properties with TLAPS for
instances of any size.

## The system's parts

| Part | Source | State and operations | Modules |
|---|---|---|---|
| L1 cache controller | `Lab5/gem5/src/mem/protocol/MSI-cache.sm`, `MSI-msg.sm` | 11 states per line, cache entry, TBE (data, acknowledgement count); events from the mandatory, forward and response ports | `MSI`, `MSITransactions` |
| Directory controller | `MSI-dir.sm` | 8 states per line, owner, sharers, memory block; events from the request, response and memory ports | `MSI`, `MSITransactions` |
| Sequencer, RubyPort | `mem/ruby/system/Sequencer.cc`, `RubyPort.cc` | table of outstanding requests, LL/SC locks, hit and eviction callbacks | `MSI`, partly |
| Cache and directory memories, memory controller | `CacheMemory.cc`, `DirectoryMemory.cc`, `MemoryControl.cc` | allocation, locks, sparse map, delayed replies | `MSI`, partly |
| O3 load/store queue | `cpu/o3/lsq_unit_impl.hh` | executed, uncommitted loads | `MSI`, one flag per CPU |
| Several lines and directories | `MSI-cache.sm`, `MSI-dir.sm`, `RubySlicc_ComponentMapping.hh` | the FIFOs that all lines of a controller share | `MSILanes` |
| Message buffers, switch, throttles, event queue | `mem/ruby/buffers`, `mem/ruby/network/simple`, `mem/ruby/eventqueue` | ordered buffers with limits and delays; a consumer runs only when it is scheduled | `MessageBuffer`, `SimpleNetwork` |
| Tomasulo simulator | `Lab3/simplesim-3.0d-assig3/tomasulo.c` | instruction queue, reservation stations, functional units, one common data bus, map table; five stage functions per cycle | `Tomasulo`, `Dataflow` |
| Branch predictors | `Lab2/cbp4-assign2/predictor.cc`, `main.cc` | 2-bit, two-level and TAGE tables; predict and update | `Predictors`, `PredictorOutcomes`, `Tage` |
| Prefetchers, stall counters, SimpleScalar, rest of gem5 | the rest | see "Not modelled" | none |

Lab2 and Lab3 are sequential programs: what is hard in them is arithmetic at
boundaries and the order of updates inside one cycle. Lab5 is concurrent: every
cache, the directory, the memory controller and the network act on their own, and
messages between different pairs of machines overtake each other. Nothing is
persisted and the network loses nothing, so there is no crash recovery and no
retransmission to model. The hazards are listed in `PROJECT.json`, each with the
line where it bites and the properties that would catch it.

The parts of Lab5 fit together as follows. `SimpleNetwork` shows that what a
controller enqueues reaches each destination once, in order, and that its
consumer is woken for it. `MSI` uses exactly that: one FIFO per pair of machines
and virtual network, and fair in-ports. `MSILanes` uses two instances of `MSI`.
`SerialMemory` is what `MSI` promises to the CPUs.

## How the modules correspond to the code

### `MSI`: one cache line

SLICC compiles each `transition` into a case of `doTransition`, which runs all
its actions, the pop of the in-port included, and then `setState`, with nothing
in between. One TLA+ action is one such call. Transitions that run the same
actions from different states or events are one TLA+ action with a disjunct or a
set of states; where `PROJECT.json` maps such an action to one range of lines, the
range goes from the first to the last transition of the group. A `z_stall` transition has no action: its message stays at the
head of its port. An event without a transition ends the simulation; the model
has no action for it and `NoInvalidTransition` says that it never happens.

| Variable | Code |
|---|---|
| `requestTable` | the sequencer's read and write request tables, for the line |
| `mandatoryQueue` | the queue between sequencer and controller |
| `cacheState`, `DataBlk`, `locked` | the cache entry, `m_locked` included |
| `tbeData`, `pendingAcks` | the cache's TBE; cleared when it is deallocated |
| `requestNet`, `requestToDir` | virtual network 2: in flight from each cache, and queued at the directory |
| `forwardToCache` | virtual network 3, directory to cache |
| `responseNet` | virtual network 4, one FIFO per pair of machines |
| `dirState`, `Sharers`, `Owner`, `dirData` | the directory entry |
| `memBuffer` | requests the memory controller works on |
| `result`, `lsq` | what the CPU saw last; whether its load queue has an executed, uncommitted load of the line (LL included) and has seen no eviction of it since |
| `physMem` | M5's physical memory; without `access_phys_mem` a history variable |
| `reserved` | history: no other CPU has written since this CPU's last LL |

Definitions keep the names of the SLICC actions and C++ functions. `Environment`
is what the code does not decide: a CPU issues a request, another line takes the
way (the Replacement event), the O3 CPU commits its load.

What is abstracted:

* One line. Other lines of a set appear as Replacement, possible whenever S or M
  allows it. Other lines in a FIFO are a delay, which the interleaving already
  has; that lines may also wait for each other is the subject of `MSILanes`.
* A block is one value. A store writes the whole line, with a value picked when
  the callback merges it: no code looks at the packet before.
* `Ifetch` has Load's transitions everywhere and is not a separate event.
* `TBELen` is 0 because no transition sets `tbe.Len`, so `copyPartial` on
  Memory_Data copies nothing.
* Three configuration parameters are constants: `send_evictions`, the sparse
  directory map, and `access_phys_mem`.

Some transitions of the source cannot be reached: an Inv in state I, a load hit
in SM_AD and SM_A (the sequencer admits one request per line), and PUTM_Owner in
MS_OD and MS_MA (the owner has been cleared). They are in the model as the code
has them, as members of sets.

`MSITransactions` states two conservation laws over the messages in flight,
named by queue and position so that two equal messages count as two.

### `MSILanes`: two lines

Two instances of `MSI` without data, and for every FIFO that a controller shares
among lines its order, a sequence of line names (a lane). A step of a line takes
its message only when the line is at the head of the lane. `OneDirectory` says
whether both lines have the same home directory (`map_Address_to_Directory`).

### `MessageBuffer` and `SimpleNetwork`

`MessageBuffer` has the members and operations of `MessageBuffer.cc` as operators
on a record. The heap is a set of nodes; its front is what `operator>` puts
first. `SimpleNetwork` is one hop: in-buffers, `PerfectSwitch`, one `Throttle` per
link, out-buffers, and the `wakeup()` of a generated controller behind each. A
`wakeup()` is a sequence of steps, one for each message it moves or cannot move;
`run` names the consumer whose `wakeup()` is under way and keeps all others out,
so it is as atomic as in the code. `scheduled` is the event queue: the cycles for
which somebody scheduled a consumer. Nothing runs otherwise. `Latency` has a value
for each buffer, because the `.sm` files use another one for each out-port
(`issue_latency`, `cache_response_latency`, `directory_latency`, 1).

A controller's protocol is reduced to what the network sees: whether a state
stalls a message (`busy`, ended by a response), and whether a resource is missing.

### `Tomasulo` and `Dataflow`

`runTomasulo` calls its stage functions in reverse pipeline order. One action is
one call; `stage` says which comes next. An instruction is its position in the
trace. Which slot of an array it sits in is never observed, so stations and units
are sets. The program's output is, for each instruction, the cycle in which it
entered each stage; the properties speak of these stamps. `Dataflow` is the
promise: an instruction starts once, after its operands have been published, and
results are published one at a time.

### `Predictors`, `PredictorOutcomes`, `Tage`

One action is one round of `main.cc`'s loop: predict, then update with the
outcome. Table sizes are powers of two in the code, so masks are remainders and
shifts quotients. `PredictorOutcomes` adds the last four outcomes of each counter
as history. `Tage` is the open-ended predictor with its folding hashes; the shifts
by the width of an int in `MASK_OF_SIZE`, which C++ leaves undefined, are a choice
between both outcomes.

## Runs

| Run | Instance | States | What it shows |
|---|---|---|---|
| `msi_data` | 2 caches, 2 values, LD and ST, fair in-ports | 62 184 | every readable copy holds the last completed store and no stale one can come back (`Fresh`); the protocol implements `SerialMemory`; every request is answered, every replacement completes |
| `msi_control` | 3 caches, 1 value, symmetric | 86 765 | single writer or many readers; no event without a transition; the assertions of directory and sequencer; transactions and acknowledgements are conserved; the invariant `Coherent` of the proofs |
| `msi_se` | 2 caches, LD, LL and SC, evictions, sparse map | 224 532 | a lock on a readable line is honest; when a controller frees the entry of a line its CPU has been told |
| `msi_sc_atomic` | as `msi_se`, without evictions | violated | an SC succeeds although another CPU wrote after the LL |
| `msi_eviction` | 2 caches, LD and ST, evictions, sparse map | violated | an upgrade loses its line and the CPU, with an uncommitted load of it, is not told |
| `lanes_one_dir` | 3 caches, 2 lines, 1 directory, 6 requests or replacements | 285 985 | some controller can always move while a request is outstanding |
| `lanes_two_dirs` | the same with 2 directories | violated | forwards at the heads of two caches' FIFOs wait for each other |
| `network` | 2 senders, 2 links, 2 virtual networks, buffers of 2 messages behind the switch and of 1 behind the links, fixed and random delays | 135 953 | exactly-once delivery in order; nobody sleeps; limits; the FIFO panic is unreachable |
| `tomasulo` | all traces of 4 instructions over 8 kinds, 2 registers | 226 591 | dependences, age order for units and bus, capacities, complete stamps, a bound on the cycles, `Dataflow` |
| `predictors` | 2 columns, 2 history registers, 1-bit histories | 13 065 | ranges; a column that keeps one direction is learned |
| `tage` | 3 banks of 4 entries, 5 free branches, then a steady outcome | 362 716 | ranges; settled counters; useful entries are kept; the steady outcome is learned |

**Bounds.** Two caches give all races between a requestor and an owner or a
single sharer, with two values to tell a stale copy from a current one. Three
caches are needed for a writer with two sharers, where acknowledgements overtake
each other and the data, and for a forward that reaches a cache whose own
request is in flight; there the values do not matter and one is enough. The
queues need no bound: a cache has one request per line and `OneCarrier` shows one
message in flight for it. The refinement was also checked once with three
caches and two values (2.77 million states).

`MaxEvents` in `MSILanes` bounds requests and replacements. Six are what the
deadlock with two directories takes; with one directory also two requests per
cache for each of three caches (5 635 079 states) and loads and stores of two
caches (1 427 893 states) were checked once.

In `network`, three messages, stalls or missing resources (two with random
delays) are enough for a full buffer behind each stage, a message sent in parts,
a message to both links and two virtual networks competing. A buffer behind the
switch holds two messages, so that a pop and an enqueue of one cycle meet in it and
the switch is turned away because of the size it sees although there is room; one
sender's latency differs between its virtual networks. Three events with random
delays were checked once (902 487 states). `MaxTime` leaves time for the way
through all three stages.

Four instructions fill the queue, the integer and the floating-point
station and both units of the `tomasulo` instance; stations, units and latencies
differ between the classes so that they are told apart. In `tage` an int has 4
bits and the history 8, so that the history lengths reach the width of an int and
of the history as they do in the code. Five free branches are enough for an
allocation that finds every entry in use and lowers their usefulness, and for one
whose search starts behind the last bank.

Deadlock is checked except in `MSILanes` and `network`, whose bounds on events and
time end every behaviour. In `MSI` no CPU is obliged to issue requests, so a
deadlock would be a state in which not even a new request can be made; that
requests are answered is `RequestServed`. Symmetry is used in the runs with three
caches, which check invariants only.

**Fairness.** `RequestServed` and `WritebackCompletes` assume weak fairness of each
in-port and nothing of CPUs, replacements or commits. `Awake` is the reason: a
consumer is scheduled for the arrival of each message and again for as long as a
message waits that its state does not stall. A stalled message is not polled
(`z_stall` does not reschedule the controller); it is looked at again when the
response that ends the stalling state has the controller go through all its
in-ports. So a port whose head can be served is served. The directory's ports need
no strong fairness: a stalled head stays until the state that stalls it ends. The
predictors' `SteadyColumnLearned` and `SteadyLearned` assume nothing: they hold also
when the branches stop.

**Mutants.** Each property has a mutant: an operator next to the definition it
replaces, with a comment that starts "Mutant:", changing the code the way a
plausible mistake would. TLC finds the property violated for each.

## Disagreements between the code and its comments

Three have a run:

* **LL/SC** (`msi_sc_atomic`). A line in S, locked by an LL, goes to SM_AD for the
  SC. If another cache's store wins, Inv takes it to IM_AD. The entry stays
  allocated, IM_AD is a Busy state, and `changePermission` clears `m_locked` only for
  Invalid and NotPresent. When the data arrives `handleLlsc` finds the entry locked
  and the SC succeeds. `LockHonest` shows that locks are right in every state in
  which the line can be read; the race is exactly in the upgrade.
* **Eviction notices** (`msi_eviction`). The same transition, SM_AD on Inv, takes the
  copy away without `forward_eviction_to_cpu`, which every other way to lose the line
  has. A load that the O3 CPU has executed and not committed then stays unmarked
  although another CPU writes the line. `FreedTold` shows that the CPU is told
  whenever the entry is freed; with `WritebackCompletes`, the notice for a replaced
  line does come.
* **Two directories** (`lanes_two_dirs`). A forward stalled in IM_AD or SM_AD holds
  up the forwards of other lines behind it. With two directories, caches can wait
  for each other in a circle.

The others take a step or two and are recorded here:

* `RubyPort.cc:272` asserts `num_rw <= 1` over all controllers on a functional
  access. State M is Read_Write in the cache and in the directory.
* `forward_eviction_to_cpu` comes only with the WB_ACK for a replaced line, so
  another cache may have written before the CPU is told.
* `hitCallback` (`Sequencer.cc:531`) writes the packet into the Ruby block whether or
  not the SC succeeded. CPUs with `access_phys_mem` never read that block, and the
  testers, which do, issue no SC.
* `get_instr` (`instr.c:75`) asserts that a position lies within the chain of tables;
  the fetch of `tomasulo.c:494` looks one position behind the trace, which is outside
  when `sim_num_insn + 1` is a multiple of the table size (`get_instr_aborts`).
* `InitPredictor_2bitsat` sets W_T; its comment says weakly not taken
  (`predictor.cc:23`, `:233`).
* `folded_xor` (`predictor.cc:192`) takes the first part of a history before it is cut
  to its length. The search for a vacant entry may skip banks (`:349`) that are then
  decayed as if it had found them taken (`:359`). The periodic weakening leaves a
  usefulness of 2 as it is (`:333`, `:155`).

## Proofs

All theorems are proved for every value of the constants that satisfies the
assumptions below: any finite number of caches, any set of values, any trace and
machine size, any table size, any number of ports, links and virtual networks.
Eight modules hold them; each builds on the model only.

| Theorem | Module | States |
|---|---|---|
| `TypeCorrect`, `SequencerSafe`, `DirectorySafe`, `FreedLinesTold` | `MSITypes` | `TypeOK`, `SequencerAsserts`, `DirAssertions`, `FreedTold` |
| `CoherenceInvariant`, `FreshInvariant` | `MSIProofs` | the inductive invariants `Coherent` and `Fresh` of `MSICoherence` |
| `SingleWriter`, `EveryEventHandled`, `OneCarrierAlways`, `AcksConserved`, `LocksHonest` | `MSIProofs` | `SWMR`, `NoInvalidTransition`, `OneCarrier`, `AckConservation`, `LockHonest` |
| `DataCorrect`, `ServesOneAtATime` | `MSIProofs` | `DataValue`; the refinement `SerialSpec` |
| `Types`, `RAW`, `BusOrder`, `StartOrder`, `Accounted`, `WithinSizes`, `BoundedTime`, `Refinement` | `TomasuloProofs` | `TypeOK`, `RAWResolved`, `OldestBroadcastsFirst`, `OldestStartsFirst`, `AllAccountedFor`, `Occupancy`, `NeverSlower`; the refinement `IsDataflow` |
| `TablesTyped`, `SettledAlways` | `PredictorProofs` | `TypeOK`, `Settled` |
| `Delivery`, `Limits`, `Ordered`, `NothingSleeps`, `NetworkTyped` | `NetworkProofs` | `InOrderOnce`, `WithinLimit`, `NoPanic`, `Awake`, `TypeOK` |

### The coherence protocol

**What needs no more than types** (`MSITypes`). `TypeOK` is inductive.
`SequencerAsserts` is inductive relative to it because it is stated for all states
of the controller, not only for those that call back: a request is in the mandatory
queue, or in the controller's transient state, and never in both. The directory
asserts about M and I only; `DirAssertions` adds what the transient states must
satisfy to make it inductive, and `LastSharer` is the counting fact behind PUTS_Last.
`FreedTold` needs besides the types that `lsq` is set only where evictions are sent.

**The token** (`MSICoherence`). SWMR and NoInvalidTransition are far from inductive:
they depend on every message in flight. The invariant `Coherent` says where the
right to write the line, the token, is. A cache has it from the moment its data is
on the way until it gives the line up; otherwise the directory has it; nobody else
does (`OneToken`). A cache that can read has the token, or is a sharer of a
directory that has it, or has an invalidation on the way (`Readers`). An
invalidation or its acknowledgement on the way means that the cache it is for has
the data or is about to get it and is still counting (`AckTargets`, `AckCounts`).
Each transaction is in one place (`Carried`) and what carries it fits the state of
its cache (`AskAgrees`, `AnswerAgrees`, `MemoryAgrees`); the rest says which queue may
hold what in which order, and what the directory knows of its caches.

`MSICacheSteps` proves that the steps of a cache's mandatory queue and forward port
keep `Coherent`, `MSIDirectorySteps` the same for the directory, `MSIData` for the
response port. Each begins with what an operation on a queue does to the sets the
invariant speaks of, and continues with a lemma per group of transitions.
`MSIProofs` puts them together. SWMR then follows because two readers beside a
writer would share the token or owe an acknowledgement to a cache in M, which does
not count; NoInvalidTransition because each message pins down the states its
receiver can be in; the conservation laws of `MSITransactions` because one message
in the sets of `Coherent` is one position in one queue.

**The data.** `Fresh` says that every copy that can still be read, in a cache, a
message, a TBE, the memory's queue or the directory, is the last completed write. It
needs `Coherent`: a write is harmless because the token says that no other copy can
be read. With it each callback is a step of `SerialMemory` (`RefinementStep`), and
every other step stutters.

`DataCorrect` assumes that the directory keeps its copy (no sparse map) and no
store conditional: the code really loses data otherwise, as described above. The
refinement assumes no store conditional, and the map only with `access_phys_mem`,
which is how `se.py` configures it.

### The Tomasulo machine

RAWResolved is not inductive: whether an instruction may start is decided by its
tags, which were read from the map table when it was issued. `IInv` therefore says
what map table and tags mean in terms of the stamps: instructions are issued in
program order (`QueueInv`), the map table names the last issued writer of a register
unless its result has been broadcast (`MapInv`), and an instruction that has not
started has a tag for every producer not yet broadcast (`TagInv`). `OInv` adds the
converse, that no tag is stale, which age order needs: an older instruction that was
ready had clear tags. `AInv` adds that stamps increase from stage to stage and that
exactly what was fetched is stamped.

`NeverSlower` bounds the cycles of a run by those of a machine that executes one
instruction after the other, plus three. The proof counts. `Work` is the set of
cycles that such a machine needs, as pairs of an instruction and a cycle of it;
`Served` is the part that lies behind the machine. `PaceInv` says how far the cycle
counter may be ahead of the number of served pairs at each stage function: in every
cycle some pair is served, except in the first cycles and the last, when the pipeline
fills and drains. The step cases use that the oldest instruction in the stations has
no tags left, so that a unit is busy or takes it.

### The predictors

A counter is bounded from both sides by what it was last trained with. The theorem
on types is the bound on every index that `GetPrediction` and `UpdatePredictor`
compute.

### The network

`NetInv` states, for each sender, link and virtual network, that in-buffer, throttle
buffer and out-buffer together hold exactly the messages sent and not yet received,
in order (`InOrderOnce`), that arrival times follow the counters in each heap
(`HeapOK`), and that the size a sender sees is never below the real one (`SizeOK`,
why the limit holds although pops and enqueues of a cycle come in any order).

`Awake` says nothing while a `wakeup()` runs. `AwakeInv` does: a message that has
arrived and is not stalled has its consumer scheduled for this or the next cycle, or
the `wakeup()` under way still has its buffer on its list, or is going to reschedule
itself (`LookedAt`); the switch's count of pending messages, which lets it skip a
virtual network, is the number of messages in its in-buffers (`PendingOK`).

### Assumptions

`MSIAssumption`: finitely many caches, the directory is not a cache, the request
types are those of the sequencer. `SizesAssumption`, `ProgramsAssumption`: positive
sizes and latencies, instructions with the operands their opcode allows.
`PredictorsAssumption`: positive sizes. `BufferAssumption`, `NetworkAssumption`:
positive delays, latencies and bandwidth, in-buffers without a limit (the code gives
node buffers none). TLC evaluates them in every run that uses the module. The
invariants `Coherent` and `Fresh` are checked by `msi_control` and `msi_data`; `AInv`,
`PInv` and `AwakeInv` were model-checked on the instances of `tomasulo` and `network`
before they were proved.

## Only model-checked

* `RequestServed`, `WritebackCompletes`, `SteadyColumnLearned`, `SteadyLearned`:
  liveness, out of the prover's reach.
* `AllTypesOK`, `UsefulKept`: `Tage` uses bitwise operators, which the prover does not
  know.
* `NoDeadlock` of `MSILanes`: it says that some action is enabled. With one directory
  the argument should be that the order in which the directory handles requests
  orders the stalled forwards of all caches; an invariant that carries this order
  over both lines has not been written.
* `SCAtomic`, `EvictionSent`, and `NoDeadlock` with two directories, do not hold.

## Not modelled

* The data prefetchers of `Lab4/simplesim-3.0d-assig4/cache.c`: sequential table
  look-ups inside a third-party cache simulator; they change hit rates, not results.
* The stall counters of `Lab1/sim-safe.c`: arithmetic on register-ready times in one
  function, without concurrent state.
* Set indexing, LRU and `cacheProbe`, which only decide which line is replaced;
  functional accesses, the limit on outstanding requests, the retry list of `RubyPort`, the deadlock-check
  timer, flush, PIO, DMA and warm-up of the sequencer.
* Banks, refresh and arbitration of the memory controller: timing; a line lives in
  one bank, so its requests stay in order.
* Adaptive routing, which ordered networks do not use, topology construction, and
  the buffer operations that the MSI protocol does not call (recycle, stallMessage,
  reanalyzeMessages; the last does not count the messages it puts back in `m_size`).
* SimpleScalar, the rest of gem5, the trace reader and the microbenchmarks:
  third-party infrastructure, input and output.
