# TLA+ models of the CMPSC473 projects

This directory holds TLA+ specifications of the programs in `src/`, the
configurations with which TLC checks them on small instances, and proofs, checked
by TLAPS, that some of their properties hold for every value of the parameters.

The repository contains four course projects in C:

| project | program | its own logic |
| --- | --- | --- |
| 1 | seven exercises (`prog1` .. `prog7`) | a few lines each: crash, leak, recursion |
| 2 | `mm.c` allocator and the trace driver around it | simulated heap, range set in a splay tree, trace evaluation |
| 3 | `simulator.c`, a virtual-memory and scheduling simulator | event loop, page table, TLB, DRAM, ready/blocked queues |
| 4 | bounded channel between threads, map-reduce word count | byte ring, mutex and condition variables, close protocol |

Project 4 is the only one that is concurrent, so it comes first.


## 1. Inventory

### Project 4: channel and word count

**Byte ring and framing** (`que.c`, `buffer.c`, `queue.h`).
State: `fifo_t` (`head`, `tail`, `size`, `avilSize`, `buf`).
Operations: `fifo_init`, `fifo_read`, `fifo_write` (loops that move one byte at a
time and update `avilSize` once at the end, or not at all when they stop early);
on top of them `buffer_add_Q`, `buffer_remove_Q` and `buffer_top_message`, which
write and read a frame: a native `int` with the length, then the data.
Hard: three variables (`head`, `tail`, `avilSize`) describe one quantity and are
updated at different times; a short write or read is ignored by the caller; the
peek consumes frames for real and puts the indices and the count back by
subtraction; the loop cannot tell an empty ring from a full one and relies on the
strict `>` in `buffer_add_Q` for that.
Correct when: the count agrees with the indices between calls, no call stops in
the middle of a frame, and the frames come out whole, once and in order.

**Blocking channel** (`helper.c`, `helper.h`, `buffer.h`).
State: `state_t`: the ring, `isopen`, `chmutex`, `chconsend`, `chconrec`.
Operations: `buffer_create`, `buffer_send`, `buffer_receive`, `buffer_close`,
`buffer_destroy`.
Interaction: any number of threads call these; they meet in the mutex and the two
wait sets.
Hard: `isopen` is tested without the mutex and again with it; one `cond_signal` per
operation, to an arbitrary sleeper; threads that barge in between a signal and the
wake-up; waits that end by themselves; the signal after the unlock in the
`"splmsg"` branch of `buffer_receive`; broadcast on close.
Correct when: each call has the effect of an atomic operation on a bounded closable
queue, no wake-up is lost, nobody sleeps on a closed channel.

**Map-reduce word count** (`wordcount`, `Reducer`, `custom_eval` in `driver.c`).
State: each mapper's position in its file, the reducer's search tree (`tsearch`),
where the main thread is.
Interaction: mappers send words, the reducer receives and counts, the main thread
joins the mappers, sends `"splmsg"`, joins the reducer, closes and destroys.
Hard: mappers ignore the result of `buffer_send`; the reducer stops at the first
result that is not `BUFFER_SUCCESS`; `buffer_destroy` frees the mutex.
Correct when: the counts are those of the input, the program ends, and the buffer is
not freed under a thread that uses it.

**dividefile** (`driver.c`): cuts the input file into one piece per mapper at
separators. Correct when no word is split or dropped.

**Unit tests of the channel** (`driver.c`, `test.py`): scenarios with fixed numbers
of threads whose expected outcomes are statements about the channel.

### Project 2: allocator and trace driver

**Simulated heap** (`memlib.c`): `heap`, `mem_brk`, `mem_max_addr`; `mem_sbrk` grows
the heap or fails with -1.
**Allocator** (`mm.c`): `mm_init`, `malloc`, `free`, `realloc`, `calloc` on top of
`mem_sbrk`; the committed version is the "naive" one that never reuses a block.
Hard: the failure value of `mem_sbrk` is -1, the test is for NULL; size arithmetic.
Correct when: blocks are aligned, lie in the heap, and do not overlap.
**Trace driver** (`mdriver.c`): reads a trace of allocate/reallocate/free requests,
runs them, and checks every block against a range set; keeps `trace->blocks`,
`block_sizes`, `block_rand_base`.
Hard: the bookkeeping across several runs over the same trace; blocks that a trace
never frees.
**Splay tree** (`stree.c`): the map from addresses to ranges behind the range set;
`tree_insert`, `tree_find`, `tree_find_nearest`, `tree_remove`.
Hard: rotations that keep parent, child and root pointers consistent.
Correct when: it is a finite map whatever the order of calls.
**Evaluation** (`main`, `run_tests`, `printresults` in `mdriver.c`): one record per trace
(`mm_stats`), the count of errors, an alarm whose handler jumps back into `run_tests`.
Hard: the jump can leave any function at any place, also one that has just found
the trace valid, and also when the frame it jumps to is gone; main adds up the records
of all traces, whether they mean something or not.
Correct when: an index is given only for traces that were all checked and measured, the
alarm costs one trace at most, and the evaluation ends.
**Timing** (`fcyc.c`): repeats a function until the best samples agree; keeps the samples
sorted in place. Correct when: it ends and returns the smallest time it measured.
**Scripts and earlier versions** (`driver.pl`, `callibrate.pl`, `macro-check.pl`,
`mm TESTING/`): tooling.

### Project 3: simulator

**Simulator** (`simulator.c`): processes with their remaining traces, ready,
blocked and running lists, page tables, TLB, DRAM pages, a clock and the next disk
interrupt. Operations: `readPage`, `schedulingRR`, `processSimulator`,
`cleanUpProcess`, `diskToMemory`, `simulate`.
Hard: the same process in several lists, the clock and the pending interrupt as
unsigned times that wrap, termination of the main loop.
Correct when: every process is in exactly one list until it has finished, it is charged
what it executed, the printed times agree with the clock, and the main loop ends.
**Linked list** (`gll.c`): `gll_add`, `gll_push`, `gll_pop`, `gll_remove`, ... on a
doubly linked list with `first`, `last`, `size`. Correct when it is a sequence.
**Trace input and statistics** (`fileIO.c`), **earlier version and example**
(`simulator2.c`, `pthreadmanegsimple.c`): I/O, and code the build does not use.

### Project 1: exercises

Seven programs of at most 80 lines, most of which crash or leak on purpose.


## 2. Plan

Modules, in order, all of them there (section 3); the proofs about `X` are in `XProofs`.

1. `MsgQueue` (abstract), `Fifo` (ring and framing), `FifoQueue` (how `Fifo` implements
   `MsgQueue`), `FifoProofs`.
2. `Channel` (abstract), `Buffer` (threads, mutex, conditions), `BufferChannel` (how `Buffer`
   implements `Channel`), `BufferProofs`. `Buffer` uses the message queue that `Fifo` is shown to
   implement.
3. `DivideFile` (the cut of the input into the mappers' pieces) and `WordCount`: mappers,
   reducer and main composed with `Buffer` and `DivideFile`; `WordCountProofs`.
4. `ChannelTests`: the unit tests of `driver.c` as clients of `Buffer`.
5. `RangeSet` (operators), `AnyAllocator` (the range set under any allocator), `MallocLab`
   (`memlib.c`, `mm.c` and the evaluation of a trace with `RangeSet`); `RangeSetProofs` and
   `MallocLabProofs`.
6. `SplayTree` (`stree.c` as nodes with pointers), and `RangeTree`: the range set on this
   tree, shown to implement `AnyAllocator`, which has a finite map in its place;
   `RangeTreeProofs` has the proofs about these two and about `AnyAllocator`.
7. `Fcyc` (the sampling) and `Mdriver`: `main` and `run_tests` over several traces, with the
   alarm, composed with `Fcyc`. What a trace does to the allocator is an outcome here;
   `MallocLab` has the inside of one trace. `MdriverProofs`.
8. `Gll` (operators, the nodes and links of the linked list) and `Simulator`, the event
   loop of project 3 on these lists; `SimulatorProofs` has the proofs about both.
9. Possible later: the peek that runs while other threads use the buffer, which no caller
   does.


## 3. What is modelled

### Fifo.tla, MsgQueue.tla (que.c, buffer.c)

Each iteration of the loops in `fifo_read` and `fifo_write` is a step (`ReadByte`,
`WriteByte`), as are entry and return of the calls. `head`, `tail`, `avilSize` and
`buf` are the fields of `fifo_t`; `call`, `part` and `i` say which loop runs and how
far it is, and the remaining variables are the locals of `buffer_top_message` and
of the readers. A byte is a pair: `<<n, j>>` is byte `j` of the `int` `n`, `<<m, j>>`
byte `j` of message `m`; this keeps what the code distinguishes (which value, which
byte) without bit patterns. `actual_data_size` and the header are uninitialised
locals in the C code and start with any value of `Garbage`.

The model covers the early returns: `fifo_write` that finds no more room and
`fifo_read` that finds nothing more to read leave `avilSize` alone, and the callers
go on. The peek really drains the ring; what it does past the last message (read
nothing, decode the old header again) is in the model.

The calls run one after another. For add and remove that is the work of `chmutex`
(see `Mutex` in `BufferProofs.tla`). `buffer_top_message` takes no lock; the drivers
only call it while no other thread runs.

`MsgQueue.tla` is the promise: a queue of whole messages in a limited number of
bytes. `FifoQueue.tla` defines the refinement mapping: the queue is the sequence of messages
whose frames fill the bytes from the tail (`start`) to the head (`end`) at which the running call
started; that of a call which has returned is what lies between the two indices.

### Buffer.tla, Channel.tla (helper.c)

One step per access to shared state. `pc[t]` names the place of thread `t`:
`s_open` is before the first test of `isopen` in `buffer_send`, `s_lock` before the
lock, `s_test` holds the mutex before the loop condition, `s_wait` is inside
`pthread_cond_wait`, `s_unlock` before the unlock; `r_...` and `c_...` are the places
of `buffer_receive` and `buffer_close`. Between lock and unlock, code that only
the holder of the mutex can observe is one step: the test, the ring operation and
the signal (`SendGo`, `ReceiveGo`, `CloseGo`). The only other access to shared state
outside the mutex is the first test of `isopen`, and the signal after
the unlock in the `"splmsg"` branch (`ReceiveSignal`); both are steps of their own.

External, modelled from POSIX as `helper.c` uses it: `Acquire`, `Release`,
`Signalled` (a signal takes one arbitrary thread out of the wait set),
`SpuriousWakeup`. A thread whose wait is over is still at `s_wait` or `r_wait` but no
longer in the wait set, and must take the mutex again in competition with everybody.
The unlocked read of `isopen` is a data race in C; the flag is one byte that only
changes from true to false, so every outcome the build can produce is the old or the
new value, which the interleaving gives.

The ring is a sequence of messages with the counter `avilSize`, on which the code
decides. A mutex that cannot be created or an allocation that fails is not modelled.

`Channel.tla` is the promise of `helper.h`: each call takes effect in one step
between its start and its return. `BufferChannel.tla` maps `Buffer` to it.

### WordCount.tla, DivideFile.tla (driver.c)

`DivideFile` has the three copies of `dividefile` as actions: `FirstBytes`, so many characters,
`Rest`, on to the next separator, and `LastFile`, everything that is left. A file is a
sequence of characters: letters, punctuation, the digit 1, separators at which
`dividefile` cuts, and the tab, which only `fscanf` takes for white space.

`WordCount` extends `Buffer` with the programs of the threads: `MainDivide` takes the steps of
`DivideFile`, `MainCreate` creates the threads, and each mapper reads its piece word by word
(`MapperSend`), so that what is sent is what the cut left of the input. `ReducerCall`,
`ReducerCount` and `ReducerExit` are the reducer, `MainSend`, `MainClose` and `MainDestroy` the end
of `custom_eval`. A message is the sequence of characters that `reformat_string` keeps;
`Blank`, the empty one, is the message `" 1"` that a word of punctuation becomes, and
`Key` and `Value` say what `strtok` makes of it: -1 for the word `"1"`. `CountsCorrect` allows for
that, so it describes the output of the code, not an ideal count. The word `"splmsg"`
is a character of its own. With it in the text the reducer stops early, which may
strand the mappers; the files of the run include it, and the properties about counts
and the end are stated for files without it.

### ChannelTests.tla (driver.c)

Extends `Buffer` with the eleven tests of the channel. A test is a script, a
sequence of operations of the main thread: create threads, wait on the semaphore,
call the channel, join, assert. Each operator `test_...` lists the operations of the
function with that name in its order. `ThreadCall`, `ThreadReturn` and `ThreadPost` are
`direct_send` and `direct_receive`, `Main...` the main thread; calls take the steps of
`Buffer`. The tests sleep to let the threads get where the test wants them; the
sleeps are left out, so that an assertion that needs them would fail. Only
`buffer_top_message` needs them: it takes no lock, and the step that peeks waits until
the other threads sleep in the buffer or have ended. There are three senders and
three receivers instead of up to fifty.

### RangeSet.tla, AnyAllocator.tla (mdriver.c)

`RangeSet` has the operations on the range set as operators: a record per payload
with `hi`, `index`, `prev` and `next`, in a map from first addresses, and the head of the
list. `Accepts` is the part of `add_range` that tests, `add_range` the part that links.
The map stands for the splay tree. `AnyAllocator` calls them for blocks at any aligned
address, which is what the driver must be prepared for.

### SplayTree.tla, RangeTree.tla (stree.c, mdriver.c)

`SplayTree` has the nodes with `left`, `right` and `parent`, and one step per round of a
loop: `Search` goes down one node, `Splay` makes one or two rotations,
`subtree_minimum` goes one to the left. `left_rotate`, `right_rotate`, `replace` and `Join` make
the pointer assignments of the code in its order. A node is named by its key, since
no key is in two nodes. `RangeTree` runs `add_range` and `remove_range` with these calls:
`AddRange` starts `tree_find_nearest`, `AddTested` tests what it returned, links the
record and starts `tree_insert`; `RemoveRange` starts `tree_remove`, `RemoveDone` unlinks the
record it returned. The variables of `AnyAllocator` are variables of `RangeTree`, so the
refinement mapping is the identity.

### MallocLab.tla (mm.c, memlib.c, mdriver.c)

A trace is built request by request (`read_trace`) and then run in the four passes of
`run_tests`: two of `eval_mm_valid`, `eval_mm_util`, and `eval_mm_speed` as often as `fcyc`
likes. `StartPass` is what each pass does first: `mem_reset_brk` and `reinit_trace`.
Each request is one step, with all its early returns (`Fails`), through the
operators `malloc`, `realloc` and `mem_sbrk`. An address is a number; address 0 is NULL
and -1 is what `mem_sbrk` returns when it fails. A byte of the heap says which fill
(pass and request) wrote it and how far into the random data it was, so that equal
bytes are equal for a reason and not by chance; the heap keeps its bytes when a pass
resets it. The copy of `realloc` runs upwards and reads past the end of a smaller
block, into what it has just written, as in the code.

### Mdriver.tla, Fcyc.tla (mdriver.c, fcyc.c)

`Fcyc` is `fsec`: `FindReps` doubles the number of repetitions until a run takes long enough,
`TakeSample` adds a sample, whose time is the cost of the function and some noise of the
clock, into the sorted array (`add_sample`) until `has_converged` or the bound on samples
is reached. `Mdriver` extends it with `main`: the runs against libc (`-l`), the reference
throughput, and for each trace `ReadTrace`, `SetJmp`, the two passes of `eval_mm_valid`
(`CheckPasses`, `CheckFails`), `eval_mm_util`, the measurement (`Time`, `Timed`) and `FreeTrace`;
`Report` is `printresults` and the sums of main. What the allocator does with a trace
(`behaves`) is chosen at the start: right, wrong in the first or in the second pass, or
endless; `MallocLab` has the requests of one trace. `timeout_handler` may run between any two
steps while the alarm is set, and its jump abandons whatever ran (`Land`). When the
jump has no frame to go to, or the trace it would go back to may have been freed, the
outcome is undefined and the model says so (`pc = "undefined"`). Libc, the reference driver
and reading a trace may fail, which ends the program (`Exit`).

Two comments of the code are not what it does. `mdriver.c:246` says that the number of results
"may be less than num_tracefiles, if there's a timeout"; after a timeout `run_tests` goes on
with the next trace and always fills all records, which is what `TimeoutHitsOne` describes.
The usage text says of `-c <file>` "Run trace file <file> once"; after `-f` it is the first
file named that is run, not the one after `-c`.

### Gll.tla, Simulator.tla (gll.c, simulator.c)

`Gll` has the lists as records of `size`, `first`, `last` and a map of nodes, and all functions
of `gll.c` as operators that make the assignments to the links. `gll_first` returns NULL for
an empty list and for a first entry that is NULL, as in the code; `schedulingRR` puts such
entries into the running list. `gll_add` at a negative position adds at the end, where its
comment promises -1 on failure. `gll_destroy` yields the nodes it has not freed.

In `Simulator` a step is one call of `readPage` (`NoRequest`, `NonMem`, `Mem`), one return or
decision of `processSimulator` (`NothingRuns`, `DiskInterrupt`, `Continue`, `QuantumEnds`),
one call of `diskToMemory` (`SwapIn`, `SkipNonMem`, `DiskCrash`), of `schedulingRR`, or one
branch of the loop of `simulate`. `simPause` has the numbers of the code. `user_time` and
`OS_time` are the statistics of a process, `userTime` and `OSTime` those of all, unsigned
(`w` bits). The input, that
is the traces and the times of arrival, is chosen at the start; from there the program is
deterministic. What the model keeps of the code as it is, and a reader may not expect:

* `readPage` compares pointers with the low byte of a pointer and with a number, so every
  request for memory that is not the last one of its process faults (`Resident`);
  `diskToMemory` writes all entries of both tables, as none is ever marked as used. The
  model keeps entry 0 of each, the only one that is read. The tables are allocated
  with each other's sizes (`simulator.c:63`); what is written past their ends is not
  modelled.
* The request that faults has been taken off the list, and `diskToMemory` takes off the
  next ones up to an address: those are never executed, nor charged (`Execute`).
* With nothing running the clock goes to 0 for the pending disk interrupt (`simulator.c:646`, `660`),
  and the negative difference is added to the unsigned `OSTime`.
* Idle time before the next start is added twice (`simulator.c:633`), counted from the last
  end of a quantum before it.
* A disk interrupt with no process blocked, or whose first process has no request left,
  reads a null pointer: `DiskCrash`. The README of the project reports a crash for
  one input. For a process longer than one quantum without page faults it is the rule:
  compiled, the program also crashes on `input10.txt`, which has such processes.

As start times are unsigned, the branch for a process that starts before time 0 (line 667)
is never taken and has no action. A first process that does not start at time 0 is a null
pointer at line 514, and `StartFirst` crashes.


## 4. What TLC checks

| run | question | instance |
| --- | --- | --- |
| `fifo` | Is the byte ring a queue of whole messages? | 8 bytes, 2-byte header, messages of 1, 2 and 6 bytes, peeks up to index 3 |
| `buffer` | Is the code a bounded closable channel, and is no wake-up lost? | 2 senders, 2 receivers, 1 closer, two sizes of message, one of them `"splmsg"`, spurious wake-ups |
| `buffer_live` | Do blocked calls return after a close, that of a message that never fits too, and is a backlog drained? | 2 senders, 2 receivers, 1 closer, room for two ordinary messages, a message larger than the buffer, spurious wake-ups, fairness |
| `buffer_mixed` | Does a sender ever sleep next to room for its message? violated with two sizes | 3 senders, 1 receiver |
| `wordcount` | Is every word of the input sent and counted once, is the buffer freed safely, does the program end? | 2 mappers, all files of up to 4 characters and five longer ones, a reducer, main, fairness |
| `channel_tests` | Can an assertion of a unit test fail, does every test end, does a sender sleep next to room? | the 11 tests with 3 senders and 3 receivers, spurious wake-ups, fairness |
| `range_set` | Is the range set sound under any allocator, and its splay tree a finite map? | heap of 10 bytes, alignment 2, blocks of 2 and 3 bytes, fairness |
| `range_set_low` | Does it detect every overlap? violated | the same, with the finite map |
| `malloc_lab` | Does the allocator pass every trace, and does the bookkeeping of the driver agree with the trace? | traces of up to 6 requests on 2 ids, sizes 1, 3, 5 and, for realloc, 0 |
| `malloc_lab_full` | Does malloc report that the heap is used up? violated | the same with a heap of 6 bytes |
| `simulator` | Is every process in one place and charged what it executed, do the times agree, are the lists sequences, does the loop end? | all inputs of 3 processes with up to 3 requests that arrive at 0 or 9, fairness |
| `mdriver` | Is the index one of valid and measured traces, does a timeout cost one trace, is the best time returned, does the evaluation end? | up to 2 traces of each behaviour, three weights, the alarm at any step, a clock with noise, fairness |

### Why the bounds are enough

* `fifo`: frames take 3, 4 and 8 bytes in a ring of 8. Two frames of 3 fit, so do 3
  and 4 (exactly the 7 usable bytes); 8 never fits. As 3 and 4 do not divide 8, each
  frame is split by the end of the array at every possible byte, the header
  included. Index 3 is past the end of every content of the ring.
* `buffer`: a big and a small message fill the ring, two big ones do not fit. Two
  threads per side are enough for a signal to go to the wrong one of two
  sleepers and for a third party to barge in. `MaxCloses = 2` lets a close be repeated
  (it must return `CLOSED_ERROR`), which the code allows any number of times.
* `buffer_live`: the test for space is strict, so that a ring of 5 bytes has room for two messages of
  2 bytes and not for three; the other message is larger than the ring, and only a close can
  release its sender. Two receivers can sleep and two messages be stored
  before the first of them is awake, so that the second signal is needed: a send that signalled only
  when the queue was empty (`SendGoFirst`) would leave the second receiver asleep next to its
  message. `"splmsg"`, whose receive signals late, after the unlock, is in `buffer`, and
  under fairness in `wordcount` and `channel_tests`.
* `wordcount`: files of up to four characters have pieces of every length from none to the
  whole file, with separators at every place, in a row and at both ends, and end early.
  The longer ones have more words than the buffer holds, so that mappers block, a
  word cut at every character, both forms of `"1"`, and `"splmsg"` at the end and
  before the end.
* `channel_tests`: the strings have the sizes of the tests' strings and the buffer of 25
  bytes holds two messages of the tests. With three threads per side one remains
  after the two that are served.
* `range_set`: up to five blocks, so that a block can have neighbours on both sides,
  touch them (size 2), run into them (size 3), and be the lowest or the highest. Trees of
  five nodes have every kind of rotation, below the root too, and the removal in which
  the successor is deep and has a child.
* `malloc_lab`: `maxfill` is 2, so that a block is filled whole (1), at ends that meet
  (3) and at ends with a gap (5). Two ids allow every order of allocation and release;
  six requests allow a block to be moved, emptied and moved again. The heap
  is just large enough for the greediest trace.
* `simulator`: as in the code, the first disk time is a quantum, a swap takes longer than
  two quanta, and a context switch takes what a disk read adds to the next disk time. A
  quantum is 5 and an instruction 3 (10000 and 1 in the inputs), so that a quantum ends in the middle
  of the second request and another instruction follows. Frac-mem-inst is a number from 0
  to 1, which the code truncates; the run has 1, so that memory requests count. Times have 10
  bits, which only negative differences exceed. Three processes
  are enough for one to run, one to be ready and one to be blocked, or for two to
  be blocked while one runs; the later time of arrival falls into the work of the first
  process or after it. TLC reaches crashes and complete simulations. The README of the project
  lists four inputs with an "infinite loop"; their traces have up to a million requests,
  and `SimulationEnds` says that the loop, whatever it does to the clock, uses up the traces.
* `mdriver`: two traces are enough for a jump that lands in the wrong one, for a trace
  behind the one that timed out, and for a second endless one. Of at most five samples
  the best three must agree within a tenth; the noise of the clock is a fifth of the cost
  of a trace, so that both ends of the sampling occur.
* `MaxCloses`, `MaxIndex`, `MaxOps`, `MaxTrace` and `MaxTraces` are the only bounds on behaviour; the other
  constants choose an instance.

### Fairness

`FairSpec` asks weak fairness of the steps inside a call, for each thread
(`WF_vars(ThreadStep(t))`): a thread that can run is eventually scheduled. Nobody is
obliged to start a call. POSIX promises no fairness of the mutex, and none is
assumed: a thread that waits for it can be overtaken as long as others keep taking
it. Liveness also assumes that waits end by themselves only finitely often
(`<>[][NoSpuriousWakeup]_vars`): an endless sequence of spurious wake-ups of one thread
could otherwise keep the mutex from every other, which would refute liveness for any
code. Finitely many, at any moments, are in the runs.

In `WordCount` and `ChannelTests` fairness covers the calls too (`Run(t)`), as the
threads' programs are part of the model. `RangeTree` asks that a call that has begun
goes on, `Simulator` that the program goes on: both have one thread. `Mdriver` asks that the
program goes on and that an alarm that is set and can ring does: it is a timer of the
kernel. An endless trace without an alarm stops in that state, so the run does not look for
deadlocks. The other modules are sequential and make no liveness claim; they stop
when the trace is at its end.

### Findings

**Channel.** `helper.c:24` says of `buffer_send`: "In case the buffer is full, the function waits
till the buffer has space to write the new data". With messages of different
sizes a sender can go on waiting although its message fits: `buffer_receive`
(`helper.c:91`) signals one sender per message removed. One receive of a
big message makes room for two small ones but wakes one sender only, and
`buffer_send` wakes no other sender. The second one sleeps until another
message is received. `buffer_mixed` shows it (`NoStrandedSender` is violated),
`channel_tests` shows that with messages of one size it does not happen, and
`SleepingSenderHasHope` shows that it is never for good while receivers go on.

**Range set.** `mdriver.c:662` says: "We use the range list to detect any overlapping
allocated blocks." `add_range` finds the successor of a new block through its predecessor
(`mdriver.c:710`), so a block below all others is compared with no one:
`range_set_low` has an allocator that returns such a block across the start of the
lowest one, and it is recorded. The list then begins anew with that block.
`range_set` shows that nothing worse follows: the pointers of the records still mirror
each other and name existing records, and a block is refused only if it does
overlap. `mm.c` always returns the highest address, so `MallocLab` never gets there.

**End of the heap.** `mem_sbrk` fails with `(void *) -1`; `malloc` tests for NULL, in the line
with the comment "indicates mem_sbrk failed" (`mm.c:119`), and returns -1.
`malloc_lab_full` shows what the driver makes of it: not "mm_malloc failed", but an
address that is not aligned, or a crash when `realloc` copies to it.


## 5. What is proved

TLAPS checks these for all values of the constants that satisfy the named
assumptions.

| theorem | module | says |
| --- | --- | --- |
| `TypeCorrect` | `FifoProofs` | the ring's type invariant |
| `AccountingCorrect` | `FifoProofs` | between calls `avilSize` is the size less what lies between the indices, and at least 1 |
| `WritesComplete` | `FifoProofs` | `fifo_write` never stops early |
| `RemovesComplete` | `FifoProofs` | `buffer_remove_Q` never runs out of bytes |
| `MessagesWhole` | `FifoProofs` | what a reader gets is the whole data of one stored message |
| `QueueImplemented` | `FifoProofs` | `ImplementsMsgQueue`: every step of the ring is a step of `MsgQueue` or a stutter |
| `TypeCorrect` | `BufferProofs` | the channel's type invariant |
| `WakeupsSuffice` | `BufferProofs` | `NoLostMessage`: while a receiver sleeps there are at least as many receivers under way as messages |
| `SenderHope` | `BufferProofs` | `SleepingSenderHasHope`, if every message fits into the empty buffer |
| `ClosedWakesAll` | `BufferProofs` | nobody sleeps on a closed channel |
| `SendersUseSpace` | `BufferProofs` | `NoStrandedSender`, if all messages have one size |
| `ChannelImplemented` | `BufferProofs` | `ImplementsChannel`: every step is a step of `Channel` or a stutter |
| `PiecesHaveWords` | `WordCountProofs` | `PiecesKeepWords`: `dividefile` keeps the words of the input, in order and uncut |
| `WordsAreKept` | `WordCountProofs` | `NoWordLost`: each word read is being sent, in the buffer, received or counted |
| `OutputIsWordCount` | `WordCountProofs` | `CountsCorrect`: the output at the end is the word count of the input |
| `DestroyedWhenUnused` | `WordCountProofs` | `DestroyedUnused`: the buffer is freed when no thread is inside its functions |
| `LinksCorrect`, `AlarmsJustified` | `RangeTreeProofs` | `DoublyLinked` and `NoFalseAlarm` of the range set with a finite map |
| `FiniteMapImplemented` | `RangeTreeProofs` | `ImplementsFiniteMap`: the range set on the splay tree is the one with the map |
| `TreeCorrect` | `RangeTreeProofs` | `SearchTree`: the nodes are a search tree with consistent pointers |
| `LinksCorrectOnTree`, `AlarmsJustifiedOnTree` | `RangeTreeProofs` | `DoublyLinked` and `NoFalseAlarm` with the tree |
| `DataStays` | `MallocLabProofs` | `DataIntact`: what was written at the ends of a block stays there |
| `TotalsRight` | `MallocLabProofs` | `TotalIsLive`: the total is the sum of the sizes of the allocated blocks |
| `RangesFollow` | `MallocLabProofs` | `RangesMatchBlocks`: the range set has the payloads of the allocated blocks, and its list all of them |
| `VerdictsRight` | `MallocLabProofs` | `VerdictValid`, if the heap is large enough for the trace |
| `IndexIsOfValidTraces` | `MdriverProofs` | `IndexOfValidTraces`: an index is given only if every trace was checked and measured |
| `TimeoutHitsOnlyOne` | `MdriverProofs` | `TimeoutHitsOne`: the alarm costs one trace at most |
| `BestSamplesKept` | `MdriverProofs` | `BestSamples`: the values are the `kbest` smallest samples, in order, and the result is the smallest |
| `EachInOnePlace` | `SimulatorProofs` | `OnePlace`: a process is in one list, once, or finished |
| `ListsAgree` | `SimulatorProofs` | `ListOperationsAgree`: every operation of `gll.c` does to the nodes of the simulator's lists what it does to the sequences |
| `ExecutedIsCharged` | `SimulatorProofs` | `ChargedForExecuted`: a process that finished was charged what it executed, once and in full |
| `TimesAgree` | `SimulatorProofs` | `TimesAddUp`: the times that are printed agree with those of the processes and with the clock |

**Ring.** The first five theorems follow from one inductive invariant. None of the
properties is inductive: that a write does not stop early depends on `avilSize`
agreeing with the indices, that a read gets a whole header depends on the
reader standing at the start of a frame, and this in turn on all lengths stored
in the ring being right. `FifoProofs.tla` therefore states that the bytes between the
start and the end of the stored messages are cut into frames: there is a set `S` of
offsets that contains 0 and the total length `L`, and at every other offset of `S`
lies a frame of a message whose end is in `S` again and such that no member of
`S` is inside it. For each place in a running call the invariant says how far along
which frame the call is. `At(c, k)`, the cell `k` bytes after `c`, keeps the arithmetic
of the wrap in five small lemmas. The assumptions are those of `Fifo.tla`: positive
sizes, messages with positive lengths.

`ImplementsMsgQueue` needs more than frames: which messages they are, in which order.
`Offsets(q)` are the places at which the frames of a queue `q` begin, and `Laid(q, first, n)` says
that these frames fill `n` bytes from cell `first` on. A frame says which message it holds
(`FrameUnique`) and each has at least one byte, so that the bytes of the ring hold one queue only
(`LaidUnique`); with `Where`, which recovers the start of the running call from the invariant
above, this is the queue the refinement mapping finds (`StoredIs`). Then each action either
leaves the bytes of the queue alone (`LaidBelow`: `fifo_write` writes behind them), adds the frame
behind the last one (`LaidAppend`) or lets go of the first (`LaidTail`). The peek needs an invariant of its own
(`Peeking`): after `k` rounds the caller has message `k`, or the last one, and the reader is
in message `k + 1`, or behind the last with nothing copied; without it nothing says that the message
left in the caller's buffer is the one asked for. The code's tests of `avilSize` are the tests of the queue
(`TestsAgree`), for `avilSize` is the size less `Bytes` of the queue.

**Channel.** The invariant has the type invariant, `Mutex` (a thread at a place
between lock and unlock is the holder), `Roles` (each thread is only at places of its
own function), `Space` (`avilSize` and the queue agree: there is a list of
offsets, one per message, that starts at 0, ends at the bytes used, and grows by each
message's size) and `NoSleeperAfterClose`. `Space` is stated with a witness function
because a sum over a sequence would need an induction. `WakeupsSuffice` is proved
over it: every step that adds a message to the queue also takes a sleeping
receiver out of the wait set (or there was none), every step that removes one moves
one receiver out of the set of those coming. `SenderHope` needs the assumption
`MessagesFit`: with a message larger than the ring the sender sleeps for ever.

`NoStrandedSender` assumes `EqualSizes`; run `buffer_mixed` shows that without it the property is
false. The strengthening is `EnoughAwake`: while a sender sleeps, the senders that are awake
and the signals under way are enough to use up the free space. A receive gives back the
space of one message and wakes one sender, or will; a sender that goes on takes the space
of one; and a sender only falls asleep when there is room for none.

`ImplementsChannel` is about every step under the mapping of `BufferChannel`: `Request` maps the
place of a thread to what it has asked for and what the answer will be. The argument of
`Channel` about room is `Bytes`, a recursive function over the queue; that it equals the bytes
used (`RoomAgrees`) follows from `Space`, as there is one function only that satisfies the
equations.

**Word count.** Two invariants carry the four theorems. `Divided` says of each place in
`dividefile` that the files written so far have the words of the text up to the place where
the next file begins (`Kept`), and that this place is outside of a word (`Edge`): that is what
makes the words of the parts, scanned one by one, those of the whole. `FscanfJoins` and
`PartScanned` are the lemmas about `fscanf`: scanning from a place outside of a word gives the
words before it, followed by those of the rest. `Calls` says where each thread may be at each
step of main, so that the channel's invariant can be used (every step of the program is one of
`Buffer`) and the mutex is not used after it is freed. `NoWordLost` is then nearly inductive
(`Counted`); it needs `Hands`, what the reducer can have in its hands. `CountsCorrect` needs `Order`:
`"splmsg"` is the last message in the buffer and comes after all mappers are done, so that nothing
is left behind it when the reducer stops; and `AllRead`, that the words of the pieces, counted
mapper by mapper, are those of the text. The assumptions are those of `WordCount.tla` about
roles and characters: separators are white space, letters are not, and a message `"splmsg"`
is one that the text does not contain.

**Range set and splay tree.** For `AnyAllocator` the invariant is `DoublyLinked` with `RecordsTyped`
and `Ascending` (along `next` the addresses grow and no payload runs into the following one); from
it follows `NoFalseAlarm`. It holds although the head of the list may be wrong (see the
findings). `SizesAssumption` is the `assert(size > 0)` of the code. For the tree the invariant
carries, beside the nodes, a ghost function `sub` that names the set of nodes below each node: a tree is
then described by local conditions (`Linked`, `Sorted`, `Closed`), of which a rotation changes
those of two nodes only. `RangeTreeProofs` has a lemma for each assignment to a pointer, each
rotation, `replace`, the insertion and the removal. It then adds where each loop is (`Located`)
and that the nodes of the tree are the keys of the map (`NodesMatch`); the keys are aligned
addresses of the heap (`AddressAssumption`). The refinement carries `DoublyLinked` and `NoFalseAlarm`
over to the tree.

**Evaluation of a trace.** None of the properties of `MallocLab` is inductive: that a block is intact
after a `realloc` depends on where the others lie, and that the range set accepts it on what its
list was. `IInv` has, beside the types and what is known of the trace (`TraceOrdered`: a block is
allocated before it is used, used before it is freed, each once), `Tracks` (the records are
exactly those of the allocated blocks that have a byte, the list is these records in the order of their
addresses, and all payloads end below `mem_brk`), `Intact` (the ends of each allocated block) and
`SizesKnown` (`block_sizes` has the last size the trace asked for). `mm.c` only ever returns the end of the heap,
so a new record goes to the end of the list (`FreshRecord`, `TracksFresh`) and what is
filled or copied lies above all blocks (`FilledOnly`, `CopyKeeps`); the copy of `mm_realloc` may read
bytes that it wrote itself, but the first ones, up to the old size, are those of the old
block (`CopiedFront`). `Tracked` is empty outside of the checks: each check leaves an empty range set to
the next, as the trace frees all. The lemmas about `Walk` and `SumFunction` (`WalkComplete`,
`TotalAdd`) are about functions that TLC computes and are proved with sets closed under the successor, see
below. `MallocLabAssumption` asks for finitely many ids, positive sizes and a positive fill.

These three theorems have no assumption about the heap: when it is used up the trace fails, or
`realloc` crashes, and they hold up to there. `VerdictsRight` needs one, for run `malloc_lab_full`
is a small heap: `HeapSuffices` says that there is a number of bytes `A` that every size, rounded
up, fits into, and that the heap holds `A` bytes for each request but the last (the last request of a
trace that frees all is a free). It holds for the constants of run `malloc_lab` (`A = 6`,
`2 + 5 * 6 = 32`). Its invariant is `Space`: the heap in use, with `A` bytes for each block of
size 0, is at most `A` bytes per request done. The second part is there because `mm_realloc` of a block of
size 0 calls `malloc` twice (`mm.c:151`, `mm.c:159`): it takes double the space, but the request that made the block empty took none.

**Evaluation of all traces.** The invariant of `Mdriver` has the types, `Measured` (what `fsec` keeps: the result
is a time the clock gave), `Places` (where the driver is), `NoErrorYet` (without an error each
trace behind the driver is valid and measured), `OnlyOneHit` (of the right traces behind it one at
most does not count, none before the alarm rang) and `Verdict` (what `printresults` and the
sums were made of). `StepKinds` sorts the steps by what they write, so that the jump of the
alarm, which may leave any place, is one case. `FcycAssumption` asks for positive parameters and
for finitely many values of the noise of the clock.

`BestSamples` says what sorting would, by ranks: value `k` is the `k`-th smallest sample if fewer
than `k` samples are below it (`Below`) and at least `k` are not above it (`NotAbove`). In this form
a new sample is counted at once (`CountsAppend`), and the cardinalities of values in order are in order
(`CountsOrdered`), so that values with their ranks are sorted (`RankedSorted`), an insertion where the
search from the end stops gives each value its new rank (`InsertRanked`), and with `kbest` values only
the last can lose its place (`AddSampleRanked`). The invariant `Best` adds that fsec
returns the first value of at least one; it holds between two measurements too, when `values` is what an
alarm has left.

**Simulator.** A list of nodes stands for a sequence if there is a sequence of its nodes, without
repetition, along which `next` and `prev` lead, from `first` to `last` (`Chain`). `Walks` says that
what `gll_each` meets is this sequence; `Added` and `Removed` that a node can be put in or taken
out at any position, and `PushAdds`, `PushBackAdds`, `AddAdds` and `RemoveRemoves` that the assignments
of `gll.c` do that. `ListInv` is `OnePlace` with the chains of all lists and with `OneRuns`, that a
process runs where the loop takes the first entry of `runningProcess` for one: without it a NULL
entry could go to the ready list. Every action either leaves the lists alone or takes the first
entry of one to another (`Moves`).
`ChargedForExecuted` is about the end only. The strengthening `ChargedSoFar` says of each process that
its list has the rest of its trace (`HasRest`) and that its time is that of what is behind it, but
for `fracLeft` while an instruction is cut (`ChargedReady`), and that a process in the blocked
list waits for the disk in the sense of `Execute` (`ChargedBlocked`). It needs `EndsAndPages`:
a process only ends without requests left, and no page is ever found, as the code compares
pointers with what it stored of addresses. `SimulatorAssumption` asks that each process is named
once, that the parameters are numbers, `quantum` and the length of an instruction not 0, and that
a memory access takes 0 or 1: it is a fraction, stored in an integer (`simulator.c:180`), so that
no quantum cuts it.

`TimesAddUp` is a sum over all processes and remainders modulo `2^w`. `SumExists` shows that the fold has
a value for every finite set of processes, `SumRaised` that raising the time of one process raises
the sum by as much, and `ModAdd` and `CounterMoves` that what agrees modulo `m` still does when both
sides go on, one of them in a counter that wraps. `TimesMove` sorts the steps by what they do to the times: a process runs, a page is
swapped in, the system runs, the clock is put forward to an arrival, or none of it. The invariant adds to
`ChargeInv` that the user time is the sum (`Clocks`) and that there is a number of waits `n` with which the
times balance (`Balanced`). It also says that processes that all start at 0 have all arrived before the first
one runs: the step that breaks the balance, which puts the clock forward to an arrival
(`simulator.c:633`), cannot then be taken. The theorem has the hypothesis that `2^w` is a positive
number. It holds for every `w` that `SimulatorAssumption` allows, but the provers know nothing of
powers.

Recursive functions and sequences are reasoned about without the induction theorems of the library,
which take operators: `SetInduction` says that a set with 0 in it that is closed under the
successor has all numbers, from the fact that a non-empty set of numbers has a least member
(`LeastNatural`). It is applied to sets defined by the claim.

### Only model-checked

`ClosedCallsReturn`, `BacklogDrains`, `Termination`, `TestsEnd`, `CallsReturn`, `EvaluationEnds` and
`SimulationEnds` are liveness under fairness,
which is beyond the prover, as is `ENABLED`. `NoTestFails` and `FreedUnused` of `ChannelTests` are about
eleven fixed scripts, which TLC runs in full.


## 6. What is not modelled, and why

* `buffer_destroy` as a call of its own outside `WordCount`; allocation failures and
  `pthread_*_init` failures, whose results the code does not look at.
* `buffer_top_message` while other threads run: no caller does that.
* Words of more than 61 characters, which do not fit into the 64 bytes of `wordKV`
  (`driver.c:845`), and the cut that `fscanf` makes in words of more than 1023.
* An input of the `serialize` test that is larger than its buffer: its only thread would wait in
  `buffer_send` for good. The repository's input fits.
* Clocks that give no positive time: such readings are no samples (`fcyc.c:190`), and `fsec` would go
  on as long as they last. The theorem about `BestSamples` has them, `EvaluationEnds` does not.
* The sleeps, semaphore set-up, printing and the command line of `driver.c`; its
  `test.py` only starts the tests.
* The counters that the simulator prints (page faults, TLB misses, disk interrupts,
  context switches): nothing in the program depends on them. `totalPgFaults` and
  `totalTLBmiss` are printed but never counted, and `numberPageFaults`, which counts each fault
  twice and is shared by all processes, is printed as that of each process.
* The text that `fileIO.c` parses and prints. `readNextTrace` and `readNextMem` are the input of
  `Simulator`; the parameters are read by position, a blank line ends the list of processes.
* `tree_find`, which nobody calls, the counters of the tree and `tree_free`.
* `calloc` and `mem_memset`, which the trace driver does not reach; the options of
  `mdriver.c`, the lookup of the reference throughput in a file, the score formula and
  the layout of the tables; traces that do not free what they allocate, or free it twice:
  the repository has none. (With the former the range set would go into the second pass
  with the records of the first, as `eval_mm_valid` does not empty it.)
* `fcyc`, the same as `fsec` in cycles, the `set_fcyc` functions and the clearing of the cache,
  which `mdriver.c` does not use. The Perl and Python scripts, statistics output, the traces, the
  earlier versions (`mm TESTING/`, `simulator2.c`) and the exercises of project 1:
  tooling, input and output, code that is not built, and programs without state.
