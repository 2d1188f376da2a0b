# A TLA+ verification of the allocator and the memory monitor

The repository holds two programs. `libmyalloc.so` is a thread-safe memory
allocator with boundary tags and segregated free lists, usable through
`LD_PRELOAD`. `mem_monitor` is a process monitor with a terminal interface and an
embedded HTTP server for a web dashboard. This directory models both in TLA+,
checks the models with TLC and proves their central invariants with TLAPS.

## The system

| Part | Source | State | Concurrency |
|---|---|---|---|
| Allocator core | `src/allocator/allocator.c` | bounds of the heap, counters, boundary tags in memory | one mutex; `munmap` and the relocation of `my_realloc` run outside it |
| Free lists | `src/allocator/free_list.c` | list heads, links in the free blocks | under the allocator's mutex |
| Preload shim | `src/allocator/preload_shim.c` | bootstrap buffer, thread-local `in_allocator` | an atomic offset; calls from inside the library |
| HTTP server | `src/monitor/gui_server.c` | worker count, latest snapshot, sockets | accept thread, detached worker per connection, rwlock, condition |
| Main program | `src/monitor/main.c` | `g_running` | signal handler, sampling loop |
| Telemetry | `src/monitor/proc_parser.c` | CPU and process baselines | main thread, against a kernel that moves on |
| Signals | `src/monitor/signal_handler.c` | none | |
| Terminal interface | `src/ui/tui.c` | selection, sort mode, pending confirmation | main thread, against the operator and the clock |
| Dashboard | `web/app.js` | selected PID, token, table | requests that overlap |

The allocator serves any program, the monitor included. In the monitor the main
thread samples `/proc`, publishes the snapshot to the server or draws it; the
workers serialise the snapshot for their clients, one of which is the dashboard.

## The modules

| Module | Models | Proofs |
|---|---|---|
| `BlockLayout` | sizes, alignment, size classes | |
| `MemSpec` | what `malloc` promises a program: regions of its own | |
| `BlockHeap` | the heap as a set of blocks: what `Allocator` implements | `BlockHeapProofs` |
| `Allocator` | `allocator.c` and `free_list.c` with tags and links, used by threads | |
| `PreloadShim` | `preload_shim.c` over `MemSpec` | `PreloadShimLayout`, `PreloadShimInvariant`, `PreloadShimProofs` |
| `GuiServer` | `gui_server.c`'s threads and the main thread's part in them | `GuiServerProofs` |
| `ProcParser` | `proc_parser.c`, read by read, and the kernel behind `/proc` | `ProcParserProofs` |
| `Tui` | `tui.c` in the main loop, with the operator | `TuiProofs` |
| `Dashboard` | `app.js` and the requests it makes of `gui_server.c` | `DashboardProofs` |
| `MC...` | instances for TLC | |

### MemSpec, BlockHeap and Allocator

`MemSpec` has one variable, the regions the program holds. A region that is handed
out or resized is aligned and apart from all others, wherever the allocator puts
it. `BlockHeap` implements it: the regions start behind the headers of the blocks
in use (`Live`).

`BlockHeap` has three variables: the size of each block, the request each
allocated block serves, and the program break. Each action is what one critical
section does to that division: `Extend` and `Take` for `my_malloc`, `Release` for
`my_free`, `ResizeInPlace` and `ExpandInPlace` for Paths 1 and 2 of
`my_realloc`, `Reset` for `allocator_destroy`. `MoveBreak` is other code's `sbrk`.

`Allocator` keeps the memory itself, as 16-byte words. A header is three words
and a footer one. Words keep what was last written, so the tags of former blocks
stay behind, as they do in the program. The functions of the C code are operators
from a state record to a state record (`my_malloc`, `free_list_remove`, ...); a
failed check sets `ok` to FALSE, which ends the process. The actions `Malloc`,
`Calloc`, `Realloc`, `Free`, `Initialize` and `Destroy` apply them in one step,
because the code holds `alloc_mutex`. `Munmap`, `MoveAlloc` and `MoveFree` are
the parts that run after the unlock. `HostSbrk` is other code moving the break,
`Write` is the program using its memory.

`Allocator` implements `BlockHeap`: the blocks are those in use and those on the
lists, and the property `ImplementsBlockHeap` is the abstract specification under
that mapping. `MCAllocThreads` adds a variable, `copied`, that records whether
`my_realloc` has copied tags of former blocks, which `OnlyLiveAccepted` excepts.

### PreloadShim

The library is taken at its promise: `my_malloc` is `Place` of `MemSpec`, a region
apart from all others, at one of the addresses `HeapBases`; `BlockHeap` is proved
to keep that promise and `Allocator` is checked to implement `BlockHeap`. Above it
are the three kinds of pointers the shim tells apart: blocks of the library,
aligned pointers into one (`ah` holds their headers), and pieces of the bootstrap
buffer (`boot` holds theirs). A call is two
steps, into the library and back. In between the library may log a refused system
call (`LibraryLogs`), and the log functions may call the shim again in the same
thread; those calls see `in_allocator` and are served from the buffer.
The guard of `Malloc` says that these nested calls ask for a byte or more, as log
functions do; a nested request for zero bytes is discussed under "What the code
does not promise".
`my_free` runs without the flag and logs only when its work is done, so what that
log allocates is one more call after `Free`.

### GuiServer

The variables are the fields of `gui_server_t`, the holders of `snapshot_lock`,
the position of the main thread, the accept thread and each worker, and the
sockets. A critical section under `worker_mutex` is one step. The copying and the
serialising of a snapshot are two steps each, so that a torn snapshot would show.
Clients connect, send a request or do not, stop reading, and leave.

### ProcParser

The kernel's part is its counters and its processes: `Run` and `Wait` let time
pass (`iowait` may go back), `Fork` and `Exit` change the processes and reuse
their numbers. The parser's part is `proc_parser_take_snapshot`, one step per
read: `ReadCpu`, `ReadMem`, `OpenDir`, a `ReadEntry` per process, `Finish`. Each
read may fail. The first three make the snapshot fail; an entry that cannot be read
(`SkipEntry`) or a `readdir` that fails (`ReaddirFails`) only leaves rows out. The
kernel moves between any two steps. `witness` records, for the properties only, the
counters at the last snapshot that succeeded, whether one failed since, whether
`iowait` went back between the last two readings, and which processes the snapshot
owes a row.

### Tui

`Frame` is one pass of the loop up to the keyboard: a new table, sorted, with the
selection and the scrolling that `tui_render` adjusts, and the screen it draws.
`screen` is what can be seen: a row that falls off a low terminal, or over which the
footer or a message is written, is not highlighted for the operator. `key` is the
key that `getch` will return. It may have been typed in any earlier frame: since the
operator may type anything, the keys behind it need not be kept, and a key typed
ahead is the same as one typed when the key before it has been read.
`tui_handle_input` is the key: commands, the question before SIGKILL, its answer.
`Tick` is the clock under the messages and the question, `Type` the operator,
`sigint_handler` the signal.

### Dashboard

A poll is asked, answered and shown in separate steps, and several overlap. A
signal request is sent, served and answered while the dialog may close or change.
`Chunks` is what a single `recv` may return of a request: any beginning of it that
differs in what the server does. The signal field is a name or a number. A cut
number is a shorter number (`Beginnings`), a cut name is no name, and a field cut off
altogether means SIGTERM. `alert` stops the page, so nothing else of it
runs until the message is read.

## The runs

| Run | Expected | Shows |
|---|---|---|
| `block_heap` | pass | four heap invariants on the abstract heap, and that it implements `MemSpec` |
| `alloc_heap` | pass | refinement of `BlockHeap`, `allocator_verify_integrity` always succeeds, counters balance, no byte is lost |
| `alloc_threads` | pass | two threads: no correct program is aborted, contents survive, no stale tag is accepted unless a relocation copied it |
| `alloc_mmap` | pass | two threads: contents survive relocation between heap and mappings, failing system calls and `my_calloc` overflow; the counters balance |
| `alloc_host` | pass | other code moves the break around all calls, init and destroy |
| `destroy_host` | violation | after a second `allocator_init`, `allocator_destroy` gives back memory of other code |
| `shim` | pass | two threads and calls from inside the library: pointers never overlap, each kind is recognised, no block is lost, data survives, no allocation is entered from within |
| `gui_safety` | pass | locks outlive their users, exact worker count, whole snapshots, no socket left over |
| `gui_live` | pass | workers end and `gui_server_stop` returns |
| `telemetry` | pass | usage fits the time that passed, no work is charged twice or to the wrong process, snapshots have every process that lived and could be read, or say that they are truncated |
| `tui` | pass | signals go to what the screen shows, from nine lines on the selection stays on it, the program ends when told |
| `dashboard` | pass | signals go out as an authorised request says, a message of success is true, the table ends up current |

`PROJECT.json` quotes, for the violation, the line it disagrees with. Every
property of a passing run has a mutant: a definition with a plausible bug, next to
the right one, under which TLC finds the property violated.

### Bounds

- The break stays below `BrkLimit`, which leaves room for up to four of the
  smallest blocks (three or four are needed to merge on both sides while another
  block stays in use). The kernel's refusal beyond it is also how `sbrk` fails.
- Requests are a few sizes: ones that fill a block exactly, ones that leave a
  remainder below, at and above `min_split`, and for `alloc_mmap` ones beyond the
  threshold. The size classes are scaled down so that several are in use; the
  operators take them as a constant.
- The counters wrap at a small modulus (`SIZE_MOD`) instead of 2^64. In the runs
  that ask nothing about them the modulus is 1, which takes them out of the state.
- Two threads with two pointers where interleavings matter, else one thread with
  two or three pointers; two addresses for mappings. No list gets more than two free
  blocks, so a block is never unlinked from between two others (that takes five
  blocks), and while a block moves within the heap there is room for little else.
- The bootstrap buffer has 144 bytes, enough for two or three chunks and then for
  requests that do not fit; `MaxOffset` ends the reservations past its end. The
  library has two block addresses that differ in their alignment.
- Three connections with two workers in `gui_safety`, so that one is refused; two
  connections with two workers in `gui_live`. Snapshots have two versions,
  enough to tell two consecutive ones apart.
- Two process numbers, both in use at the start, a table of one row and one more
  process in `telemetry`: a reused number, a full table and a process that starts
  during the scan all occur. Two units of CPU time pass (`MaxJiffies`), and `iowait`
  may go back and forth within them.
- Two processes, one of them process 1, in `tui`. The terminals have one line (no
  line for the question), eight (the row is under the footer), nine (one row of the
  table) and ten (two rows); messages and questions last one tick.
- One signal request at a time and two polls in `dashboard`, two snapshots, and
  process numbers of one and of two digits, so that a number can be cut short.

### Assumptions of the models

- Other code's memory does not hold boundary tags. Heap memory keeps its contents
  when the break goes down and up again.
- `allocator_destroy` is called when the program holds no pointer, and
  `allocator_init` when, in addition, no list holds a block.
- `memcpy` and `memset` work on memory no other thread may use and are part of
  the step next to them. A size word that was overwritten reads as 0.
- The `requested_size` of a free block is forgotten; no code reads it.
- A program frees and resizes only pointers it holds and uses a pointer in one
  thread at a time. Memory of the library does not look like an aligned header
  unless the shim wrote one. What the log functions ask for from inside the library
  has at least one byte.
- The short answers of the accept thread (503) fit in the socket's buffer.
- A snapshot that fails leaves the server as it was and is no step of `GuiServer`.
- `server_fd` is read without a lock while `gui_server_stop` resets it. Either
  value leads to a failed `accept` and to the same exit.
- `/proc` lists processes in the order of their numbers. A process's CPU time
  never goes down, and a start time is never used twice for one number.
- Shares are kept as quotients of the integers they are computed from; the
  rounding of `float` is left out.
- Other clients send well-formed requests, whole or cut short, with the fields in
  the page's order and numbers of at most seven digits.
- The terminal is wide enough for a row and the question on one line each (about 80
  columns).

### Fairness

Threads are scheduled: weak fairness for the main thread, the accept thread and
each worker. The lock hands over: a thread for which `snapshot_lock` is free again
and again gets it (strong fairness of `ReadLock` and `WriteLock`), because glibc
passes the lock to a waiting thread when the last holder leaves. Clients promise
nothing, except those in `Polite`, which go on reading until they disconnect. A
client that reads again and again gets its answer (strong fairness of `Send`).
`recv` and `accept` have timeouts, which the code sets, so a worker or the accept
thread never waits for a client there.

In `Tui` the loop runs on, and a snapshot that is tried again and again succeeds
some time: weak fairness of `MainLoop`, each of whose steps stays enabled until it,
or the end of the loop, is taken. The loop tries again after every failure. In `Dashboard` the timer goes
on polling and not every connection breaks (strong fairness of the three steps of
a poll), and the operator reads messages (weak fairness of `Dismiss`).

`Allocator`, `PreloadShim` and `ProcParser` have no fairness: their calls end by
construction and only safety is claimed.

## The proofs

For each of the components with proofs, `Spec => []IInv` for an inductive
invariant `IInv`: it holds initially, every action preserves it (one lemma or step
per action), and it implies the properties. The constants are arbitrary, up to the named assumptions
of the modules. Each `IInv` was also checked with TLC on the instance of its run.

**`BlockHeapProofs`**, for every set of requests, threshold, size classes and
values of the break. `HeapCorrect`: the five invariants `TypeOK`,
`BlocksDisjoint`, `Coalesced`, `TightFit` and `WellSized`, with one theorem each
for the last four. The inductive invariant is their conjunction.
`BlocksDisjoint` needs `TightFit` and `WellSized` for the sizes of what is split.
`Coalesced` needs itself and `BlocksDisjoint`: the remainder that `my_malloc`
splits off a free block ends where that block ended, and a free block has no free
block behind it. All actions but `MoveBreak` and `Reset` replace some blocks that
cover a range of bytes by one block or two in the same range. The lemma
`RedivisionKeepsBlocks` says that this keeps the blocks disjoint and well sized,
`ServingKeepsIInv` and `CarvingKeepsIInv` add what a block in use needs, and one
lemma per action applies them.

`HeapImplementsMemory`, in the same module: the abstract heap implements
`MemSpec`. A block that is put to use becomes a region apart from the others,
because the blocks are disjoint and a block holds its request between header and
footer (`ServedIsPlaced`, which covers `my_malloc` and both in-place paths of
`my_realloc`). `Release` ends one region (`ReleasedIsFreed`); movements of the
break change none.

**`GuiServerProofs`**, for any finite number of connections, any limit on the
workers and clients of any behaviour. `LocksOutliveThreads`, `CounterIsExact`,
`AnswersAreConsistent` and `NoSocketLeaks` are the four safety properties of
`gui_safety`; `CounterStaysInRange` is its `TypeOK`, which bounds the counter of
workers by `MAX_CLIENT_WORKERS`. None is inductive. `LifeCycle` ties the phases of
the main thread to the accept thread: after the join it has exited, so only workers can still lower
the counter, and `WorkersCounted` turns the counter's zero into "no worker".
`Sockets` gives every open socket one owner. `SnapshotLock` makes the readers of
the lock the workers that serialise, and says that what such a worker has
serialised is the first half of the snapshot that is there.

**`ProcParserProofs`**, for any processes, table size and memory readings and runs
of any length. `ChargesAreRight`, `SharesAreRight`, `IntervalsAgree` and
`SnapshotsAreComplete` are the properties of `telemetry`; `RowsAlwaysFit` adds
that the table never holds more than `MAX_PROCS` rows. The strengthening is
`History`: what was recorded of a process is never ahead of the kernel while that
process lives, so a difference of CPU times cannot wrap. `UsedSince` says, of every
process in the history, that what it has used since fits in the user time since the
last successful snapshot's reading of `/proc/stat`; no more can be charged, whoever
has the number now. `Together` ties `prev_cpu_jiffies` to that reading while nothing
has failed. `Passed` says that the scan has a row for everyone it has passed and owes
one to.

**`TuiProofs`**, for any processes, terminals and durations.
`SignalsFollowTheScreen` and `SelectionStaysShown` are the safety properties of
`tui`. `OnScreen` is the strengthening: while a key is awaited, the index of the
selection and the pending question agree with what can be seen on the screen, or the
terminal is too low for it, although time passes.

**`DashboardProofs`**, for any number of requests, polls, processes and other
clients. `SignalsFollowRequests` and `SuccessMessagesTrue` are the safety properties
of `dashboard`. `UnderWay` keeps, for each request, what it asked for, how much of it
was served, and that it is for the dialog's process until the dialog changes.
`ServedRight` follows what any beginning of a request makes the server do; it rests
on `CutFacts`, what is left of a signal field, and `ParseFacts`, what is read in it.

**`PreloadShimProofs`**, for any threads, pointers and requests, any buffer and any
addresses the library may return. All properties of `shim` are theorems:
`AllocationNeverReentered`, `RegionsNeverOverlap`, `LibraryNeverRejects`,
`NoBlockLost`, `SizesAlwaysKnown` and `ReallocKeepsData`. The assumptions are that
the library's addresses lie above the buffer, by a header at least, that the buffer
has room for more than a header, that a page is larger than `ALIGNMENT` and
`SIZE_MAX` is not 0, and that `NULL` is neither a pointer nor a call. To these come
what the model assumes of the library (`MemSpec`) and of its log functions (the
guard of `Malloc`, without which `NeverRejected` fails).
The argument has three layers, one module each.
- `PreloadShimLayout` is about tables that are given: bootstrap headers, aligned
  headers and live blocks. `Layout` says that pointers into the buffer end below the
  offset and share no byte, that blocks are apart, and that each aligned pointer
  lies in a block of its own behind its header. Eight lemmas say that adding a
  chunk, a block or an aligned pointer in either, or giving one up, keeps it;
  `GiveUp` is `free` for every kind of pointer. They rest on the bounds of `RoundUp`
  and of `Place`, for all alignments and not only for powers of two.
- `PreloadShimInvariant` adds who holds what. Nothing is lost (`NothingLost`: every
  pointer that is out is held, or a `realloc` will free it), nothing is held twice,
  and sizes are those of the tables. `CallRight` is what makes calls that take two
  steps work: what a `realloc` found out before it entered the library (the kind of
  the pointer and how much to copy) is still true when the library returns, since no
  other call is for that handle and no other step changes the kind of a pointer
  (`KindsStay`). It also derives the properties from the invariant.
- `PreloadShimProofs` has one lemma per step, and the theorems. A thread in
  `my_malloc` or `my_realloc` has its flag set (`Flagged`), so its calls are served
  from the buffer. `DataKept` is an action property: it needs `CallRight` for the
  bytes copied and `HandlesRight` for the bytes there were.

Only model-checked:

- the refinement of `BlockHeap` by `Allocator` and the properties of `Allocator`
  about tags, contents and counters, because list chains are recursive data;
- liveness (`StopCompletes`, `ConnectionsEnd`, `SessionEnds`,
  `EventuallyCurrent`), which is out of the prover's reach.

## What the code does not promise

The models reach these states too. The properties are stated so that they say
what does hold; what does not is listed here.

- **`allocator_destroy` and other code's memory**: the run `destroy_host`. The record
  `last_allocator_break` is renewed by a second `allocator_init`, `initial_break` is
  not, and what other code obtained between the two calls is given back.
- **Tags in bytes the program did not write**: `my_realloc` copies whatever is in the
  old block. A header and a footer of former blocks that it copies are accepted by
  `my_free` at their new place. `OnlyLiveAccepted` is about behaviours without such a
  copy, as when a program writes the memory it asked for before it resizes it.
- **A failing `brk` in `allocator_destroy`** leaves free blocks that are on no
  list; with `BrkFails = TRUE` and `BrkLimit = 240` a later `my_free` that merges
  with one aborts a correct program.
- **Zero bytes at the end of the bootstrap buffer**: the pointer is one past the
  buffer, `is_bootstrap_ptr` does not recognise it, and `free` hands it to the
  library.
- **An aligned pointer into the bootstrap buffer** has no bootstrap header in
  front of it, so `realloc` copies nothing and `malloc_usable_size` is 0.
  `DataKept` and `SizesKnown` except these pointers.
- **A client that stops reading** keeps its worker in `send_all`, and
  `gui_server_stop` waits for it. `StopCompletes` needs every client to be polite.
- **Readers that overlap for ever** keep the sampling loop waiting for
  `snapshot_lock`, and with it the reaction to SIGINT.
- **`user_pct` and `idle_pct` above 100**: when `iowait` goes back between two
  readings, the total grows by less than its parts. `tests/test_proc_parser.c:14`
  asserts `user_pct <= 100`, which then fails; `total_usage_pct` is bounded in every
  case. `UsageWithin` says which is which.
- **A failed snapshot** advances the CPU history but not the processes' history.
  The next shares divide the work of two intervals by the time of one, once.
- **Processes that cannot be read** are missing from a snapshot that does not say so,
  and a `readdir` that fails looks like the end of the directory. `PublishedComplete`
  owes no row to them.
- **Low terminals**: below nine lines the selected row is off the screen or under the
  footer, and `s` and `c` act on it all the same, although ADR-003, section 3, says
  that the selected row remains visible. On one line the question before SIGKILL is
  not shown and can be answered.
- **Keys typed ahead**: a key typed before a frame that re-sorts the table acts on
  that frame, and a `q` typed behind `K` answers the question instead of ending the
  program. A process number may be reused between `K` and `y`: `SignalledAsShown` is
  about numbers on the screen when the key is read.
- **A request cut inside its body**: `gui_server.c` reads it with one `recv` and
  accepts a process number that was cut short, with SIGTERM for want of the signal,
  or a signal number that was cut short (`SignalledAsAsked` states exactly this). The
  page then reports success for the signal it asked for.
- **Messages of the dashboard**: an answer without a status (400, 401) shows "OK";
  the message names the process of the dialog at that time, or none when the dialog
  was closed; "Failed" may follow a signal that went out. A message of success always
  follows a signal (`SuccessTrue`).
- **Polls that overlap**: an older table may be shown over a newer one until the next
  answer arrives.

## Hazards

`PROJECT.json` lists what is hard to test in this code and which property covers
it; a note says why one has none.

## Not modelled

- The command line, the token's generation and the `--json` mode of `main.c`: they
  run once, in one thread, before anything is shared.
- `proc_parser_get_maps`, `serve_file`, `escape_json_string` and the text of
  answers: input and output without state.
- Parsing the text of `/proc`, drawing with ncurses, filters, markup and styling:
  they shape what is shown and decide nothing the properties relate.
- The wording of log messages. That logging may allocate is modelled
  (`PreloadShim`).
- One composition of all parts. `GuiServer` publishes versions instead of
  `ProcParser`'s snapshots, and `Dashboard` polls versions instead of `GuiServer`'s
  answers: each relies only on what the other is checked for (complete snapshots,
  whole answers), and the product would be out of TLC's reach.
