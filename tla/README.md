# Verification of LibUCW

TLA+ models of the event-driven, concurrent and process-controlling parts of
LibUCW and of its stateful building blocks (streams, pools, transactions,
configuration, sorting, trees), checked by TLC on small instances, with proofs for every size where the
TLA+ proof system reaches. Every definition that stands for code is tied to its
lines by the table `map` of `PROJECT.json`.

    tlc -workers 2 -config WorkQueue.cfg MCWorkQueue    # one run
    tlapm WorkQueueProofs.tla                           # the proofs of one module

## 1. The system

LibUCW is a library of C building blocks. Most of it is sequential: data
structures made by macros, conversions, parsers. The part with a control logic
of its own is the part below; that is where order of events, interleavings and
failures decide whether the code is right.

| component | state | operations | talks to | what is hard | what makes it correct |
|---|---|---|---|---|---|
| work queues (`workqueue.c`) | raw queues (list, heap, mutex, semaphore), `nr_running`, threads | `worker_pool_init/cleanup`, `work_submit`, `work_wait`, `work_try_wait` | threads through raw queues | gaps between mutex and semaphore, requests on the stack of the cleanup | no request lost, doubled or missed; documented order; cleanup ends |
| asynchronous I/O (`asio.c`) | per queue: counters, idle and done lists; a shared pool | `asio_get/put/submit/wait/sync`, init and cleanup | the worker pool | submit that waits for write-backs while reaping other requests | exact counters, order of requests of a queue, calls return |
| binary heaps (`heap.h`) | array, number of elements, tracked positions | the `HEAP_*` macros | timers, work queues, sorter | positions known only through the swap callback | order, minimum on top, positions exact |
| main loop (`mainloop.c`) | lists of files, hooks, timers; `hook_min/max`; epoll interest | `file_*`, `hook_*`, `timer_*`, `main_loop`, `main_step` | user callbacks, kernel | callbacks change the lists while they are being walked | never sleeps on something to do; ends exactly when it should |
| signals and processes (`mainloop.c`) | signal list, masks, pipe, process list | `signal_add/del`, `process_add/del/fork`, the pipe's handler | kernel, user callbacks | asynchronous signals, merged SIGCHLDs, a full pipe | the right handlers called, every exit noticed |
| record I/O (`main-rec.c`) | read buffer, list of write buffers, watermark, deferred start | `rec_io_add/del/start_read/stop_read/write/set_timeout` | main loop, user callbacks | deferred start, flow control, callbacks that stop or delete | no line unseen, no overflow, no lost start |
| block I/O (`main-block.c`) | positions of one read and one write | `block_io_*` | main loop | callbacks that restart or free | each transfer completes once |
| daemons (`daemon.c`, `daemon-ctrl.c`) | PID file, guard file, locks, pipe | `daemon_init/run/exit`, `daemon_control` | other processes through the file system | crashes between writes, exits during reading | one daemon, honest statuses, no stale PID |
| transactions, resources (`trans.c`, `resource.c`) | stack of transactions, pools of resources | `trans_*`, `rp_*`, `res_*` | exceptions by `longjmp` | nesting, folding, throwing while cleaning | each resource freed once, in reverse order |
| configuration (`conf-*.c`) | journal of changed memory, pools, sections | load, set, rollback, reload | memory pools | overlapping changes, nested reloads | rollback restores everything |
| fastbufs (`fastbuf.c`, `fb-*.c`) | buffer pointers and positions; back-ends | read, write, seek, flush | files, `asio`, threads in `fb-atomic.c` | mixing reads, writes and seeks; the shared count of `fb-atomic.c` | behaves as one byte stream |
| sorter (`sorter/govern.c`, `s-*.h`) | buckets, their files, the presorting buffer | split, presort, merge, join | fastbufs | the governor's choice of method for each bucket | the output is the input sorted and unified |
| array sorter (`sorter/array.[ch]`) | array, buffer, works of threads | quicksort, radix sort, both with threads | work queues | which of the two arrays a part is in, works still running | sorted, threads never touch the same part |
| red-black trees (`redblack.h`) | nodes with a colour kept aside or in a pointer | insert, delete, search, walk | | rebalancing, exchange with the next node, equal keys | order, balance, all searches agree |
| memory pools (`mempool.c`, `eltpool.c`) | chunks, saved states | alloc, grow, push, pop, restore | | states restored while a buffer grows | no live block overlaps another |

The other components (strings, Unicode, encodings, hashes, tries, tables, JSON,
XML, images, character sets, command-line tools) are sequential conversions,
parsers or generic containers; `PROJECT.json` lists each of them with the reason
why it is left out. `hazards` there lists 40 places of the code that are hard to
test, with the properties that watch them.

## 2. The modules

    WorkPool  <--refines-- WorkQueue  <-- MCWorkQueue, WorkQueueProofs
        +----composed by-- Asio       <-- AsioProofs
    PlainFile <--refines-- Fastbuf    <-- MCLibrary
    Lists     <-- MainLoop            <-- MCMainLoop, MainLoopProofs
        ^-------- Process             <-- ProcessProofs
        ^-------- Transactions
        ^-------- ListTheorems        <-- MainLoopProofs, ProcessProofs, RecIOProofs,
                                          ComponentProofs, StructureProofs
    RecIO     <-- MCRecIO, RecIOProofs
    Heap                              <-- MCLibrary, StructureProofs
    Mempool, Transactions             <-- Pools      <-- MCLibrary, StructureProofs
    Daemon, AtomicFile, BlockIO, Conf <-- Components <-- MCLibrary, ComponentProofs
    Sorter                            <-- MCLibrary, MCSorter
    RedBlack, ArraySort               <-- MCLibrary

MCLibrary puts eleven components that do not run together side by side: a
behaviour chooses one of them in its initial state and the others stand still.
Six of them come to it through **Components** and **Pools**, which rename what
would clash, state what is assumed of the constants of each component, and name
the properties; so the run and the theorems speak of the same definitions.

Common conventions: a variable keeps the name of the field it stands for; an
action stands for one handler or one API call, or for the part of one between
two points where somebody else can run; definitions next to an action whose
name says what is wrong with it (`RawQueuePostForgotten`, `SpoutUnlocked`)
are plausible slips used to see that the properties notice them and are not part
of any specification. Logging and debugging dumps are left out everywhere.

**WorkQueue** (`workqueue.c`, `workqueue.h`). `pri0_queue`, `pri_heap` and
`queue_sem` are indexed by the raw queue: the pool's `Requests` or the
`finished` queue of a client. Everything under `queue_mutex` is one step, but
`sem_post` and `sem_wait` are steps of their own because they are outside the
mutex. `init_cleanup_sem`, the order of creation and joining, and the request on
the stack of `worker_pool_cleanup` (`Pill`, one object queued repeatedly, as the
compiler reuses the frame) are there. The array of the heap is a set of which an
element of the highest priority is taken; the array is the subject of Heap.
Creation of a thread does not fail (the code dies).

**WorkPool** is what `workqueue.h` promises a client, without threads:
submit, serve in the documented order, finish, collect. `ImplementsWorkPool` is
the refinement; the mapping forgets semaphores, control points and pills.

**Asio** (`asio.c`) composes WorkPool, with one serving thread, with the fields
of the queues. `asio_submit`, `asio_wait` and `asio_sync` block in the middle
and are split there. A failed or short write-back ends the program (`die`) and so
is not a behaviour; results of reads go to the user unseen.

**Heap** (`heap.h`, as `timer_add` uses it). The entry of each macro is an
action and so is each turn of a bubbling loop. `Init` is `HEAP_INIT` of an
arbitrary array; `Swap` is `MAIN_TIMER_SWAP`, which keeps the positions.

**Lists** (`clists.h`). The circular lists as sequences of their nodes: adding in
front, insertion behind a node, removal. **ListTheorems** says what these do to
membership, uniqueness and order, and holds the induction the proofs need.

**MainLoop** (`mainloop.c`, epoll variant). A callback is a period in which the
user makes any number of operations on any file, hook or timer and then returns
any value. Four phases: timers, hooks, sleep, files. Time passes only where the
code reads the clock. Timer handlers honour their contract (they delete or
re-arm their timer, as `mainloop.h` demands). Not there: switching between and
deleting contexts, the `poll()` variant, dumps. `fresh` and `rets` are history.

**Process** (`mainloop.c`, signals and processes). The kernel's part (pending
and blocked signals, zombies, the pipe) is external, after POSIX. Signal delivery
may come between any two steps. The walk through the signal list with its
`iter` placeholder, the reaping loop of SIGCHLD and the gap between `fork()` and
`sigaction()` are separate steps.

**RecIO** (`main-rec.c`). Bytes are positions in the peer's stream, newlines a
set of positions; the read buffer is `(rec_start, read_avail, read_prev_avail,
read_buf_size)`, the write buffers a sequence of `(full, written)`. The user's
`read_handler` is `rec_io_parse_line`. Any callback may start, stop, write or
delete, in any combination of up to two calls.

**Daemon** (`daemon.c`, `daemon-ctrl.c`). Launchers, daemons and controllers,
one system call a step. A generation number is the PID of its daemon. The PID
file is absent, empty, `starting` (the text "(starting)"), `mixed` (the PID written
over the longer text and not cut yet) or a PID. Locks belong to open files, shared
by a launcher and its daemon. Launchers and daemons die at any step; controllers
do not, but their `fork()` and `waitpid()` may fail. After a failed `waitpid()` the
guard is unlocked while the launcher goes on. The history variable `foreign` holds the
launchers nobody waited for at some moment of the current call: those, and those started
by hand; no guard of an action reads it, and `PidIsCurrent` and `StatusHonest` are
stated for the calls in which it stays empty, whatever happened before them
(`OneDaemon` and `StaleMeansCrash` are stated for all). `MaxLoose` bounds how many such
launchers there are. Not there: users and groups, `DAEMON_FLAG_SIMULATE`, PID reuse.

**BlockIO** (`main-block.c`). Each `read()` and `write()` of a handler is an
action, as the peer runs in between, and so is each callback, in which the
program may start another transfer in either direction, set the timer or delete
the block I/O. The loop calls a handler that is set, and again after HOOK_RETRY.

**Transactions** (`trans.c`, `resource.c`, `res-subpool.c`). `trans_pool` is a
stack of identifiers cut by `mp_restore`, so what is no more in it is a dangling
pointer. An exception passes through the stack of transactions step by step:
throw, fold into the parent, jump, catch, end. Resources are created, freed,
detached, made permanent, in the pool of a transaction or of the program.

**Conf** (`conf-input.c`, `conf-journal.c`, `conf-section.c`). The memory of the
configuration is a few cells; a value lies in a pool or in none; a line sets
several neighbouring cells and journals them as one block, so blocks overlap. A
file may change between two readings, a line may fail after its first value, a
file may disappear, a commit hook may change values and may refuse. Parsing
itself is abstracted to that, and of the operations on items only `set` of static
items is there. `unremembered` is history: the text of the last `cf_reload(file)`,
which the code does not add to its entries. `EntriesExplainConfig` says that it and
then the remembered entries account for every value; only while there is no such file does
this tell what the next `cf_reload(NULL)` brings back (`ReloadRepeats`, section 4).

**Fastbuf** (`fastbuf.c`, `fastbuf.h` over `fb-file.c`, `fb-mmap.c`,
`fb-grow.c`, `fb-limfd.c`, `fb-buffer.c`). Pointers are offsets, the buffer and the
file sequences of bytes. A `read()` may return less than was asked for.
`Careful` keeps the user away from exactly three situations the back-ends get wrong
(findings and observations below): a write with fb-file while its buffer holds what was
read, a read of a block when fb-grow has `bptr` behind `bstop`, and a read through fb-mmap
at the end of the file just after a flushed write. **PlainFile** is what the user is promised: a file, a
cursor, and the rule that a flush separates reading from writing.

**AtomicFile** (`fb-atomic.c`). Threads with their own buffers over one
descriptor; a write may fail; the decrement of the shared count is a load and a
store.

**Mempool** (`mempool.c`, `mempool.h`). Chunks are numbers with a size, free space
an offset from the end; small and big chains, the chain of unused chunks, one
growing buffer, saved states. The pool's own record lies in its first chunk.

**RedBlack** (`redblack.h`). The stack of the search, each turn of the two
rebalancing loops, and the exchange with the next node are there, as sequences of
the code's assignments, because with TREE_CONSERVE_SPACE an assignment to a
pointer may clear the colour and the order matters.

**Sorter** (`sorter/govern.c`, `sbuck.c`, `s-*.h`). A bucket is the sequence of its
records, the number of its runs and the bits of the hash left. `Strategy` is
`sorter_decide`; each call of the presorter, merging pass and split is an action.
The tree of the multi-way merge is there with its marks of equal keys (`eq`).
The files of the buckets are not followed.

**ArraySort** (`sorter/array.c`, `array.h`). Quicksort and radix sort turn by turn
when one thread does all; with threads, a work runs at any time between its
submission and its collection. A part given to a thread is sorted in one step,
which `WorksApart` and the sequential runs justify.

## 3. The runs

| run | instance | shows |
|---|---|---|
| `workqueue` | 2 workers, 2 clients, 3 works (one urgent) | `DequeueFindsWork` (the ASSERT in `raw_queue_do_get`), `WorkConservation` (each request in one place, `nr_running` exact), `PoolLifecycle` (threads start one by one, the pill outlives its use, nothing is used after the cleanup), `ImplementsWorkPool`, `CleanupCompletes`, `EveryWorkServed` |
| `asio` | 2 queues, 3 requests, 1 write-back in flight | `CountersExact` (all the ASSERTs of `asio.c`), `ProcessedInOrder`, `CallsReturn` |
| `mainloop` | 2 files, 2 hooks, 1 timer, clock 1..2 | `ListsConsistent`, `SleepWatchesHandlers`, `HooksRunBeforeSleep`, `TimersNotOverslept`, `ShutdownExact` |
| `process` | 2 processes, 2 forks, 2 user handlers, pipe of 2 | `SignalsExact` (a signal calls the handlers it should and no others, and is unblocked as long as it has some), `NoSilentReap`, `LaterExitsNoticed` |
| `recio` | 7 bytes, lines of 2 and 1 and a part of 4, buffer of 3 | `NoLineMissed`, `BufferGeometry`, `StartNotLost`, `WritesAccounted`, `LinesDelivered` |
| `library` | one component at a time, below | the properties of the table below |
| `recio_running`, `mainloop_relinked`, `process_fork`, `daemon_guard`, `fastbuf_mixed`, `sorter_unify` | | the disagreements of section 4 |

The run `library`, component by component:

| component | instance | shows |
|---|---|---|
| Heap | every array of up to 6 timers and 3 keys, HEAP_INIT and one macro more | `PositionsExact`, `HeapOrder`, `MinimumOnTop` |
| Daemon | 2 controllers, 2 starts, at most 1 launcher nobody waits for (started by hand or left by a failed `waitpid()`) | `OneDaemon`, `StaleMeansCrash`, `PidIsCurrent`, `StatusHonest` |
| Transactions | 3 nested, 6 objects | `TransSound` (no memory of an open transaction released, each resource freed once or held once), `RollbackUndoes` (exactly the younger ones, youngest first) |
| Conf | 3 cells, 2 files, 2 strings, 3 pools, journals of 4 blocks | `JournalUndoes` (undoing the journal gives the state at its start; failures restore), `ConfSound` (nothing in a deleted pool; the file of the last `cf_reload(file)` and the remembered entries explain the values) |
| RedBlack | 3 keys, each twice, both layouts | `TreeSound` (order, black height, parents, count, all searches agree) |
| AtomicFile | 2 threads, records of 1 to 5 bytes, 2 each | `AtomicSound` (records whole, none lost, no write to a closed file, growth only when needed) |
| Fastbuf | 5 back-ends, buffers of 4 bytes, files of 18, 2 and 0 | `FastbufIsFile` (each operation does what it does to a plain file) |
| Mempool | chunks of 6, blocks of 3, 4 and 7 | `MempoolSound` (blocks and the buffer apart, all chunks and their sizes known) |
| Sorter | every input of up to 5 records with 3 keys, 8 configurations | `SorterSorts` (the result, and nothing lost on the way) |
| ArraySort | every array of up to 6 elements with 3 keys, 2 threads | `ArraySorts` (the result, and threads apart) |
| BlockIO | blocks of 0 to 2 bytes, 3 requests | `BlockSound` (a pending request is polled for; bytes counted exactly) |

*Why these bounds.* Two workers and two clients are the least number with which
a thread can be overtaken in each gap of each raw queue and replies can go to
the wrong client; the third work lets two ordinary requests wait behind an urgent
one. Six elements give a heap of three levels whose last parent has both or one
child, and in which a deletion moves the last element into another subtree. A
heap is itself an array HEAP_INIT leaves alone, so one macro after HEAP_INIT
takes every heap of that size through every macro. A buffer of three bytes
can hold a part of a line, several lines, or a part behind an eaten line, and it
must be moved as well as grown within seven bytes; the write lengths leave a
buffer partly filled or filled exactly. A pipe of two numbers can be full. Two
starts give a successor to every daemon, in every state its predecessor left.
In `mainloop` one file is used in both directions and one is only read, so a
handler can relink itself, the file handled next and one that waits. Three nested
transactions have one folded into a parent that is itself rolled back; three pools
are one of a load, one of a reload and one more reload. Six nodes reach each case
of both rebalancing loops and an exchange with a son and with a farther node. A
file of 18 bytes has positions near, farther and farthest from a window of 4 (the
code distinguishes two and four times the buffer). A buffer of 3 bytes has to grow
within a record of 5. Chunks of 6 with a state of 2 put saved states on both sides
of the end of a chunk; a block of 7 is a big one. Presorting buffers hold two
records, so five of them make three runs and two merging passes; thresholds of
2 to 4 elements make six elements go through every routine of the array sorter.

*Deadlock* is checked except where the system may really stop: a pool that was
cleaned up, a deleted record I/O, and the components of `library`, which end with
their last call or at their bounds.

*Fairness.* The run `library` is about safety only and assumes none. WorkQueue, Asio: threads that can run do run and `go()` returns;
nobody is obliged to call anything. RecIO: handlers return and the main loop
calls hooks and ready handlers; no assumption on the peer or on writing. Process:
unblocked signals are delivered, callbacks return, the loop looks into its pipe
again and again (strong fairness: other callbacks of the loop may come first, but
not always, as `main_loop` walks all ready files). Daemon: every process is
scheduled, a daemon that got SIGTERM exits, the guard's lock, when free again and
again, is granted (strong fairness of `flock()`); none of them forces a caller to
call or a daemon to end by itself.

*Conditional liveness.* `EveryWorkServed` assumes that urgent requests stop
coming, since the documented order lets them starve the others. `LinesDelivered`
assumes that from some time on the user wants to read and nothing stops it.
`LaterExitsNoticed` assumes that the pipe does not overflow.

## 4. Findings

1. **A stopped reader may run** (`recio_running`; `main-rec.c:193`).
   `rec_io_recalc_read` compares the wish with `read_running`, which is still 0
   while a start is only scheduled. A stop in between leaves the start hook
   linked, and reading then runs although stopped; the branch that would unlink
   the hook can never be taken.
2. **A relinked file is called again** (`mainloop_relinked`; `mainloop.c:891`).
   The comment promises that relinking a file ends the processing of its
   events; the `do ... while` around the handler calls it again before
   the lists are looked at.
3. **The first exit may go unnoticed** (`process_fork`; `mainloop.c:474`).
   The first `process_fork` forks before SIGCHLD is caught.
4. **The guard file stays locked** (`daemon_guard`; `daemon-ctrl.c:206`).
   `DAEMON_CONTROL_SIGNAL` with no daemon running returns past the closing of
   the guard. The same process, calling again, waits for itself. With `goto done`
   in place of the `return`, the property holds.

5. **A write after reading destroys the file** (`fastbuf_mixed`; `fb-file.c:155`).
   `bflush` and a seek leave the bytes read in the buffer, `bfd_spout` writes them
   out in front of the new ones. `Careful` excludes it from `library`.
6. **Unification reads behind the batch** (`sorter_unify`; `s-fixint.h:99`). The
   loop over equal keys has no bound and merges a record of the previous batch
   once more. The configurations of `library` leave this combination out.

Observations met on the way, not among the runs:

- `res_permanent` (`resource.h:124`) says `flags &= RES_FLAG_TEMP` and clears all
  but the flag it should clear: `PermanentSurvives` in Transactions is false.
- Two threads closing the last two clones of an atomic file may both load the old
  `use_count` (`fb-atomic.c:95`): the file is never closed, against `fastbuf.h:532`.
  `FileClosedAtLast` in AtomicFile is false.
- A split wider than the bits left wraps around (`govern.c:288`, `300`, `304`):
  `RemainingBits` in Sorter is false unless the widths divide the bits, and a
  bucket of equal keys is then split for ever.
- With SORT_DEBUG_NO_PRESORT, `ins[1]` is NULL when it is dereferenced at
  `govern.c:167`.
- `remove_by_stack` returns before freeing a removed red node
  (`redblack.h:921-926`).
- When `waitpid()` fails, `daemon_control` reports an error and unlocks the guard
  while the launcher still runs (`daemon-ctrl.c:157-161`). The next caller meets it
  against the comment at `daemon-ctrl.c:40-42` ("no foreign process can be inside
  daemon_control() and therefore also in daemon_init() or daemon_run()"): a STOP may answer
  that nothing runs just before the launcher locks the PID file and starts the daemon.
  Without `foreign = {}` both `PidIsCurrent` and `StatusHonest` are false.
- `bfmm_refill` (`fb-mmap.c:86-103`) may return 1 with nothing to read after a
  flushed write at the end of the file; in `fb-grow.c`, `bavailr` is huge after a
  seek or a flush anywhere but at the start (the pointers are subtracted unsigned).
  `Careful` excludes both.
- `cf_reload(file)` empties the list of entries and does not remember the file it has
  loaded (`conf-input.c:381-382`), so the next `cf_reload(NULL)` forgets it, while
  `conf.h:103-104` promises to "reload all loaded configuration files": `ReloadRepeats`
  in Conf is false (one `cf_reload` of a file with one line is enough).
- `cf_close_group` whose hook fails rolls nothing back; `cf_revert` leaves the values it
  swaps out in pools it deletes. Conf has both as they are; the guards of the properties
  account for them.
- POLLERR alone on a file with a read handler only calls nobody and is reported
  again at once (`mainloop.c:886`): the loop spins.

## 5. What is proved

`WorkQueueProofs`, from `WorkQueueAssumption` only (finite sets of threads and
works, distinct names, natural priorities), for every number of workers,
clients and works:

- `Invariance`: the inductive invariant `IInv`;
- `TypeCorrect` and `DequeueSafe`, which follow: a thread past the semaphore
  finds a request.

`DequeueFindsWork` alone is not inductive. What carries it is `SemCount`: for each
raw queue, the semaphore's value, the threads past it and the threads that still
have to post it account exactly for the queued requests. A dequeue
keeps this count only if it removes one request, so a request must not be queued
twice; hence `Placement` (each work is in the requests, in service or in the
finished queue of its owner, exclusively), hence `Control` (where a thread is says
which queue it works with). The lemmas `Step...` say once how the count changes
in each kind of step.

The second part of `WorkQueueProofs` goes on from the same assumption:

- `WorksConserved`: `WorkConservation`. `Placement` says where a work may be at most;
  `Kept` adds that a submitted one is somewhere, and `Posting` that `nr_running` is
  0 where there is no work queue;
- `PoolLives`: `PoolLifecycle`. `init_cleanup_sem` is used twice, and each use has an
  invariant: `InitTurn` (at most one thread is being initialised, and the
  semaphore is 0 until it posts) and `PillTurn` (the pill is in the
  request queue behind all works, or with one worker, or the semaphore is 1).
  `GoneCount` counts the ended workers by the turns of the cleanup, `Drained` says
  that nothing is left behind the pill, since nobody submits by then;
- `PoolRefinement`: WorkQueue implements WorkPool. Each step of a thread is one step
  of the abstract pool or none; the pill is what the mapping has to leave out of the
  queue. Serving in order is where `PillTurn` comes in: works in front of the pill keep
  their places when it is put behind them and taken away.

`AsioProofs`, from `AsioAssumption` only, for any number of queues and requests and
any limit on write-backs:

- `AsioInvariance`: `Counters` (which is `CountersExact`) is kept only if a request that
  enters or leaves a list was not there twice, hence `QueuePlaces` and `PoolPlaces`
  (a request is with the pool or with its queue, in one list or one hand);
- `CountersStayExact`, and `OrderOfService` from `InOrder`: the requests of a queue
  wait in the common queue of the pool in the order of their submission, all behind the
  one being served. This is what needs the pool to have a single thread.

`RecIOProofs`, from `RecIOAssumption` only, for any sizes of buffers, limits,
placement of newlines and lengths of writes:

- `RecIOInvariance`, whose `RecOK` is stated for a record, since a callback makes
  several calls within one step: each call is shown to keep `RecOK`, and so does
  their composition;
- `BufferIsSound`, `StartsHappen` (with `Coupled`: reading runs exactly when its handler
  is set, with a buffer and with no start pending), `WritesAreAccounted` (with
  `Unfinished`: no queued buffer is written out; the sum over the buffers is a recursive
  function, and `SumExists` and the lemmas after it show what it yields when a buffer is
  appended, filled, advanced or removed);
- `LinesAreFound`: between two events no line ends in the buffer at all, during a scan
  none ends in its first `read_prev_avail` bytes; so the scan may skip those.

`MainLoopProofs`, from `MainLoopAssumption` only, for any number of files, hooks and
timers and any clock:

- `MainLoopInvariance`: `FilesOK` ties the lists to the interest set of epoll (a file
  outside of `file_recalc_list` is watched for what it has handlers for) and `HooksOK`
  the hooks not yet run to `hook_list`; `FilePhases`, `HookPhases` and `CallbacksOK` say
  which lists are empty and which callbacks run in which phase; `RoundOK` that
  `hook_min` and `hook_max` are the extremes of the answers;
- `ListsStayConsistent`, `SleepWatches`, `HooksRun`, `TimersAreMet`;
- `ShutdownIsExact`, an action property: by `RoundOK`, the extremes tell whether some
  answer is HOOK_SHUTDOWN, or there are answers and all of them are HOOK_DONE.

`ProcessProofs`, from `ProcessAssumption` only, for any number of handlers,
processes, children, and any size of the pipe:

- `ProcessInvariance`: `WalkOK` is the argument of the walk through `signal_list`: what
  is still due for the signal is just what lies behind the placeholder `iter` and has
  its number, wherever the handlers insert and whatever they remove. Handlers are added
  in front of the list, hence of the placeholder. `MasksOK` lets the mask lag behind the
  list only for the signal whose `signal_add` is in progress; `ChildrenOK` follows each
  child from `fork()` to its report;
- `SignalsAreExact`, `NothingReapedSilently`.

The first part of `StructureProofs`, from `HeapAssumption` only, for every size, number of timers and
largest key, and for `HEAP_INIT` of an arbitrary array:

- `HeapInvariance`: the inductive invariant `IInv`, with `TypeOK`,
  `PositionsExact`, `Control` and `LoopOrder`;
- `HeapStaysOrdered`, `HeapPositions`: what it says of a heap at rest and of the
  positions at every turn of a loop;
- `HeapMinimum`: the first element is a minimum.

`LoopOrder` is the argument of the bubbling loops: the order may be broken only
at `j`, and the children of `j` are not below its parent, so that a swap
breaks nothing new; while `HEAP_INIT` runs it is claimed only for the subtrees
already in order. `HeapMinimum` takes the first position with a key below
the top (there is one, as naturals are well founded); its parent comes
earlier, so it is not below the top, which contradicts the order.

The second part of `StructureProofs`, from `MempoolAssumption` (a chunk holds the
pool's own record), for any sizes of chunks, blocks and alignment and any number of them:

- `MempoolInvariance` and `MempoolSoundTheorem`: `MempoolSound`. A saved state is a
  record of the pool as it was, so what `mp_restore` brings back is right only if
  nothing it names has been given away: `SavedOK` says that the chains of each saved state
  are ends of the current ones and that its blocks are still live where they were, and
  `SavedInOrder` that a later state has at least the blocks and chunks of an earlier one.
  `ChunksOK` has every chunk in one chain, `LiveOK` every block in one chunk beside the
  others, outside the free space; `BigBuffer` and `LastBlock` say that no saved state keeps
  what may still grow. The total size is a recursive function over the chunks
  (`TotalFreed`, `TotalChanged`).

The third part, from `TransAssumption` (there is at least one identifier), for any
nesting and any number of objects:

- `TransInvariance` and `TransSoundTheorem`: `TransSound`. Pools form a forest
  (`PoolTree`: a resource in one pool, a pool under one resource, sub-pools younger than
  their parents), which makes deletion with everything below meet each object once. It is a
  recursive function over the identifiers; `FreeingIs` and `UnderIs` show, going down from
  the largest identifier, that it is what its recursion says. `KnownStack`, `StackOK` and
  `MarksOK` tie the stack of identifiers cut by `mp_restore` to the open transactions;
- `RollbackUndoesTheorem`: the action property `RollbackUndoes`. `Older` (a pool older than
  an open transaction holds only older resources) and `Homes` (a pool with anything in it
  hangs somewhere) make everything younger than the top transaction lie under its pool:
  `EveryPool` takes the least pool that would not. `AgeOrder` (nothing is added to a pool
  between the opening of a transaction and its folding into it) gives the order, in
  `FreeingFacts`.

`ComponentProofs`, each component from its own assumption in `Components`:

- `DaemonInvariance`, for any number of controllers and starts: `GenerationsOK` and
  `LocksOK` say which generation may hold which lock, `FileOK` what may be in the PID file
  when, `CtlOK` what a controller knows of the daemon at each of its steps, `SerialOK` what
  it may rely on in a call during which `foreign` is empty, that is, every launcher is
  waited for. A failed `waitpid()` and a start by hand end this; the next call that finds
  no such launcher has it again, as it begins with `foreign` empty. `OneDaemonTheorem`,
  `StaleMeansCrashTheorem`, `PidIsCurrentTheorem`, `StatusHonestTheorem` follow.
  No assumption is made on where processes die;
- `BlockSoundTheorem`, for any blocks, requests and peer: `BlockInv` adds to
  `RequestPolled` and `BytesAccounted` which callback may be running;
- `AtomicInvariance` and `AtomicSoundTheorem`, for any finite set of threads and any
  lengths: `ThreadOK` has what a thread has put either in the file or still in its buffer, where it
  begins at a record; `CountOK` keeps the racy `use_count` from dropping below
  the clones in use, whichever loads are stale; `RecordsWhole` is then kept by appending
  whole records;
- `ConfInvariance`, `JournalUndoesTheorem`, `ConfSoundTheorem`, for any cells, files,
  strings, pools and journals: undoing a journal is a recursion over its blocks, which may
  overlap. `SwappedBack` (a swap done twice changes nothing), `JournalledWrite` (cells
  changed after they were journalled do not change where undoing leads) carry it; `ConfPools`
  follows the pools of a load and of a reload apart; `Explained` says, for each cell, that its
  value and the rest of the text being read give what the whole text gives, from
  the unremembered file of the last `cf_reload(file)` on.

The lemmas of `ListTheorems` have no assumption. Induction over the natural
numbers is derived there, for a set of numbers, from the existence of a least element
(`LeastNatural`, `SetInduction`). `RecursionExists` and `RecursionUnique` show from it that
a function defined by recursion over naturals exists and is determined by its
equation; the proofs about sums, journals and the deletion of pools use a recursive
function only through them.

Proving corrected the models in one place: `main_shut_down` was possible in MainLoop
between the return of a file's handler and its next call, where no user code runs
(no state depended on it). It is now tied to a callback. Elsewhere definitions were
restated without changing what they mean: sums, the undoing of a journal and the deletion
of pools are recursive functions, and `RollbackUndoes` names what the rollback undoes by
the state before it.

*Only model-checked*: the liveness properties (`EveryWorkServed`, `CleanupCompletes`,
`CallsReturn`, `LinesDelivered`, `LaterExitsNoticed`), as fairness and ENABLED are beyond
the prover used; and of the components of `library` RedBlack (`TreeSound`), Sorter
(`SorterSorts`), ArraySort (`ArraySorts`) and Fastbuf (`FastbufIsFile`). Three of these are
about what a recursive algorithm computes from its data, where induction over sequences and
trees would be needed for every input; Fastbuf has five back-ends, with as many relations
between buffer and file.

## 6. Not modelled, and the plan

Not modelled of the components above: switching, stacking and deletion of main
loop contexts and the `poll()` variant; users and groups of daemons; `fb-direct`,
`fb-multi` and the other back-ends, the peeking interface of fastbufs and what is
left of one after an exception; the text side of the configuration; the life of
the sorter's files; element pools; the other options of the tree macros.

Theorems worth proving next: that Fastbuf implements PlainFile, one back-end at a
time; `WorksApart` of ArraySort, which is about positions and not about what is in the
array; the order of the keys in RedBlack, which a rotation keeps.

Components worth modelling next: the contexts of the main loop; `fb-direct` as a
client of Asio; `fb-multi`; binomial heaps, tries and hash tables against a
dictionary; the token bucket of `tbf.c`; log rotation.

The rest stays out. Parsers (JSON, XML, options), conversions of text and
character sets, images, compression, hashes and checksums make the larger part of
the source by lines; their difficulty is in data and tables, not in control, and
belongs to tests.
