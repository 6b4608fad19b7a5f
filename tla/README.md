# TLA+ models of PcapDB

PcapDB captures packets to disk, indexes them by flow and answers searches for
flows and packets. This directory holds TLA+ modules for the parts of it whose
correctness depends on order: the threads of the capture process, the use of
capture slots and index files by several writers and readers, the result files
that searches share, the supervision of the capture process, the way of a
search from the web page through the search head to the capture nodes and back;
the indexing of packets; and the algorithms a search consists of: the query
language, the lookup in an index file, set operations on results, the merging of
packets. `PROJECT.json` lists components, runs, mutations, the map from definitions
to source lines, findings, hazards and theorems; this file explains them.

Paths are relative to the repository (`src/` in `PROJECT.json`).

## 1. The system

### Components

| Component | State it keeps | Operations | Talks to |
|---|---|---|---|
| Capture process (`indexer/pcapdb.c`, `capture.c`, `index.c`, `output.c`, `queue.c`, `event.c`) | three queues of buckets, what every thread holds, shutdown events, lock file | capture, index, output loops; queue push/pop/close; shutdown in stages | database, disks, signals |
| Shutdown event (`event.c`, `signal_handler`) | one flag under a mutex | event_set, event_check | every thread and the signal handler |
| Packet placement (`bucketize.c`) | chain of buckets, next free place, sizes, drop counters | get_pkt_bucket, libpcap_bucketize, send_bucket | queues, kernel counters |
| Slots and indexes (`output.c`, `models/capture.py`, `tasks/maint.py`) | disk rows (mode, usage), slot rows (used), index rows, index directories, capture files | set_save_info, output_bucket, set_index_ready, clean_indexes, Disk.activate/disable | capture process, cleaner, searches |
| Search (`indexer/search/*`, `tasks/search.py`) | result files keyed by the query, temporary files, a queue of indexes, the abort event | ord_set_init, readmode, cleanup; AND, OR, flow and packet fetch; merge in batches, upload | other searches, index files, search head |
| Index files (`output.c`, `search/subindex.c`) | sorted records, preview list, header | write_index, search_subindex | output threads, searches |
| Capture runner (`bin/capture_runner.py`, `models/status.py`, `tasks/status.py`, `tasks/stats.py`) | the Status row, copies of it in two processes, the capture processes and their lock | start, stop, restart, record pid; set_capture_state, set_capture_settings, update_stats | celery, kernel |
| Query language (`lib/search/*`) | none (trees) | parse, normalise, prune | search task |
| Disk and interface management (`lib/disk_management.py`, `models/interfaces.py`) | rows for disks and interfaces | calls of system tools | slots, runner |
| Search head (`search_head_api`, `task_api`, `stats_api`) | Search, node result and task rows, per minute statistics | Search.post, PutNodeSearchResult.put, search_merge, TaskTrack.save, MyTasks; upload of statistics | capture nodes through celery, browser |
| Browser code (`static/theme/js/pcapdb.js`, `templates/search.html`) | tasks known and displayed, timers, requests under way, the task that is watched | task_check, set_tasks, get_task, clear, clear_tasks, do_search, check_search_results | search head |
| Other web pages, login, installation | forms and templates | | |

Interactions. Capture threads hand chains of buckets to indexers, these to
output threads, and those give the buckets back; each hand-over is a push on a
blocking queue. An output thread obtains a slot and an index row in a database
transaction, writes files, and marks the index ready in a second transaction.
`clean_indexes` runs every minute and removes directories and rows. Searches
read index rows and files without any lock, and cooperate through files that
they create exclusively, rename when complete, and watch with inotify. The
runner and the celery worker share the Status row and nothing else; capture
processes exclude each other by `flock`. A search posted by the browser becomes
a celery chord: a task on each capture node, each of which uploads a file to the
search head, and a merge task after them. The browser asks again and again for
the tasks of its user and fetches the results when the merge task has succeeded.

What is hard here: wakeups through condition variables with several waiters;
the shutdown order of the stages; a signal handler that takes a mutex; database
transactions that fail, or succeed without the client learning of it; slots
that are reused while a search reads them; files that are abandoned by a dead
process or by a slow one; whole-row saves that undo each other; tasks that run
before the transaction that started them is committed; answers that overtake
each other or never come; the arithmetic of a tree that exists only as positions
in a file, written by one program and walked by another; size and counter
arithmetic at its limits.

Correctness, by component:

- capture process: a bucket is in one place at a time and never lost; no thread
  sleeps through its wakeup; the lock is held while a thread captures; shutdown
  ends and leaves nothing behind;
- packet placement: no packet passes the end of its bucket, where the padding fits;
  offsets fit; what of the dropped packets is reported, and what is not;
- slots: one index per slot; a ready index has its files; no directory without
  a row; unused slots before used ones, oldest first; disks fill evenly; a
  search gets the packets of the index it asked for, or fails because they are lost;
- result files: complete when visible, unless a write failed; a waiting search gets its answer or an
  end; nobody waits for ever;
- runner: capture runs when it was asked for, stops when asked, and is never
  stopped otherwise; the row names the process in operation;
- query language: a query that is accepted asks for what was written, and one is
  refused only if it would ask for almost everything;
- search on a node: a lookup finds all records of its range and no others; every
  index of the time span is searched or the task fails; AND and OR yield exactly the
  flows in question; packets come out in order of time, all of them; all results are
  merged;
- search head and browser: a search that succeeds has the results of all nodes or
  says that some are missing; what is displayed is what was found; the page goes
  on asking and in the end shows what the server has.

### Modules

| Module | Models | Its state and actions in the code |
|---|---|---|
| `Queue` | `queue.c` | pure operators: push with its signal, pop, close |
| `Pipeline` | threads and shutdown of the capture process | `ready`, `filled`, `indexed` are the queues; `hold[t]` a thread's chain; `pc[t]` its place; one action per stretch of code between two queue or event operations; `main` walks through `pcapdb_shutdown` |
| `BucketLife` | abstract: the life of one bucket | free, filling, full, indexing, indexed, writing, free |
| `MCPipeline`, `PipelineProofs` | instances; theorems, the refinement of `BucketLife` among them | |
| `Bucketize`, `BucketizeProofs` | `bucketize.c` arithmetic; theorems | sizes and counters with their wrap-around |
| `FlowIndex` | `index_bucket` and its splay trees, the walk of `write_index`, the sorting of offsets | `trees` is the index set of a chain, `fcap` and `subs` the files; one action per packet, then one for the flows and one for the sub-indexes |
| `SlotStore`, `MCSlotStore`, `SlotStoreProofs` | slots, index rows, directories, capture files; theorems | one action per database statement that others can see and per file operation |
| `ResultFile` | `ord_set_init` and its relatives | one action per system call on the two file names |
| `SearchHead` | Search.post, search_node, the upload, search_merge | `post[s]` is the place of the view in its transaction, `task`, `merge` the celery tasks, `file`, `meta`, `result` what is in the database |
| `TaskPanel` | the task list of `pcapdb.js` | `known` is `_TASKS_BY_ID`, `dom` what is displayed, `gets` the requests under way; one action per handler |
| `SearchPage`, `MCSearchPage`, `SearchPageProofs` | `search.html`, composed of the two above; theorems | `watched` is `RESULTS_TASK_ID`, `table` the flows displayed; instance |
| `SubIndex`, `SubIndexProofs` | the preview list of `write_index` and the walk of `search_subindex`; theorems, and the lemmas on induction the other proofs use | position and depth in both trees, last match; one action per turn of a loop |
| `NodeSearch`, `NodeSearchProofs` | the threads of the search process and the batches of `search_node`; theorems about them, `PacketFetch` and `Prune` | queue, abort event, result files; temporary and final files as the set of indexes in them |
| `Powers` | the powers of two in the sizes of trees and of a skip list | |
| `SkipList` | the skip list of `ordered_set.c` | pure operators: init, add, pop, reinsert, remove |
| `SetOps`, `OrderedSetProofs` | AND and OR of `search_lib.c`; theorems about them, `SkipList` and `ResultFile` | `rest` is what each ordered set still has, `sl` the skip list, `union` and `inter` the output; one action per turn of a loop |
| `PacketFetch` | `pcap_fetch` and the heap of flows in `packets.c` | `heap` the links between flows, `written` how many packets of each are out; one action per flow read and packet written |
| `Prune` | pruning in `node.py` | `tree` the OR of ANDs, `clause` the one that is pruned next; one action per clause |
| `Query` | `parse.py` from its tokens on, normalisation in `node.py`, then `Prune` | `levels` the calls of `build_tree`, `asked` its tree; one action per token |
| `MCAlgorithms` | instances of Bucketize, FlowIndex, Query, SubIndex, SetOps, PacketFetch and NodeSearch | |
| `CaptureRunner`, `CaptureRunnerProofs` | runner, worker, capture processes | `row` is the table, `mem` and `wmem` the two copies; load, save, kill, Popen, lock are actions |

`Pipeline` extends `Queue` and is shown to implement `BucketLife`. `SearchPage`
composes `SearchHead` and `TaskPanel`: the tasks of the list are the merge tasks,
and their steps interleave. `NodeSearch` is `SearchHead!NodeSearches` seen from
near. `Query`, `SubIndex`, `SetOps` and `PacketFetch` are what happens within one
`NodeSearch!Finish`: the pruned tree of a query, its leaves looked up, its inner
nodes computed, the packets of the flows fetched. They share no variables, since
each hands a finished file to the next; `MCAlgorithms` only puts the algorithms
into one run, and a behaviour is one of any of them. `Prune!AcceptedFits` is what
`SetOps` assumes of its inputs, and `FlowIndex!IndexFilesExact` what `SubIndex` assumes of a
file: records in the order of keys and offsets, as many as the header says. The other
modules stand alone; where two meet (the lock file in `Pipeline` and in
`CaptureRunner`) the assumption of one is a checked property of the other:
`LockCoversCapture` justifies that `CaptureRunner!Release` frees the lock only
after capturing has ended.

Definitions introduced as "Faulty form", "Mutant of" or "A mutation" are plausible bugs.
They are not part of any specification; they are what `PROJECT.json` puts in
the place of the real definition to see that a property notices.

## 2. Models in detail

### Pipeline

Packets are abstracted to what they need: nothing, one more bucket, or a new
chain. A chain is the sequence of its buckets. `pthread_cond_wait` is the label
`waiting`, a signal the choice of one waiter, who becomes `woken` and competes
for the mutex again; with `Spurious` a waiter may wake by itself. A thread in
`get_pkt_bucket` that was woken and finds the queue empty goes on with NULL,
as `queue_pop` lets it: the model then is `crashed`. The database is a variable
`dbUp` that changes freely; output threads retry while it is down and give the
chain up when they are told to stop. Thread creation is the initial state.
Atomicity: queue operations hold the queue's mutex throughout, so each is one
step; between two of them a thread touches only what it holds.

### Bucketize

The constants are the sizes in the code (record, packet header, word size, MTU,
bucket size, file size), scaled so that rounding, padding and all comparisons
keep their form. Pointer differences are converted to unsigned as in C, counters
have the width `Max32`. `NextPkt` steps by the padding the code really adds: the
rounding is done on a pointer to records, so it adds whole records, and up to
`(Word-1)*Rec` bytes instead of `Word-1`. Packets are up to the MTU, as in the code, so
`next_pkt` may come to lie past the end of the bucket. `last_pkt`, `end` and `longest` say where
the last packet of a bucket is and how long its longest one; `since`, `wraps` and `flooded` are
the history of the kernel's counter: drops since the last chain, wraps that a chain saw, and
whether the counter ever went all the way round between two chains.

### FlowIndex

A packet is its number in the chain, and a node of a tree the packet it was made for; of
a packet only its 5-tuple matters. `FindPlace` and `Splay` are the two loops of
`splay_tr_insert`, with the links turned round on the way down and back on the way up; the
mirrored cases of a rotation are one operator with the side as its parameter. `WalkTree` is the
loop of `write_index` with its six cases. All this is done by one thread to memory that
nobody else has, so a packet is one step. `IndexFails` stands for every error of the
files that the code notices; what was allocated is then lost, in the code as well.

### SlotStore

A writer is an output thread. `Begin`, `NextDisk`, `IncUsage`, `Commit` are the
statements of `set_save_info`; `IncUsage` takes the disk row's lock until the
end. `CommitLost` is a commit whose answer is lost: the code rolls back what is
already committed and retries. Then `MkDir`, `FcapOpen`, `WriteFlows`,
`WriteIndexes`, `SetIndexReady`, each of which may fail or be the last before a
crash. That `symlink` fails is not noticed: the index becomes ready without its link
(`unlinked`). A packet search selects a ready index and later reads its slot through the link
(`FetchPackets`). `fh_load` compares the length and the time stamp of a flow's first packet with
the flow's record and fails when they differ: packets of another index are never returned, except
by two flows with the same time stamp at the same place, which is left out. The cleaner deletes the expired indexes, directory before row, and expires
rows without a slot while the index device is short of space. Time is the number of transactions begun, as PostgreSQL's
`NOW()` is the start of the transaction. `lapped` marks executions in which slots
were used up so fast that a writer's slot was given away while it wrote, which
the code does not protect against and no property speaks about.

### ResultFile

One result, wanted by several searches. Files are named by their maker, so that
a file renamed by somebody else is recognised. `CleansUp` is `flow_fetch`, which
cleans up also when it did not create the file; `Pauses` lets a live search be
silent for longer than the ten seconds after which its file counts as abandoned.
`WriteFails` is a write that fails or is short (`broken`): the caller returns and leaves its
temporary file, or does not notice and goes on; `ord_set_cleanup` renames the file even after
it could not write the last buffer, and only then returns the error.
`robbed` marks executions in which the file of a live search was removed for an
abandoned one.

### CaptureRunner

Both Python processes load the row, change their copy and save all of it.
`stored` is whether an object has an id. Of the row's columns we keep `capture`,
`pid` and `settings_changed`; every assignment that goes through
`Status.__setattr__` sets the last one, and so do `stop_capture` and `start_capture`, which
set `capture_state_changed`; only `start_capture` clears it again before its save. With it and a
pid, `capture_status` says RESTART whether or not the process lives. `NoInterface` is the answer
NOT_OK about a live process when no interface is enabled: the runner then calls `start_capture`,
which stops nothing and refuses. The disk and interface checks of
`start_capture` are one action, `Refuse`. A dead process id may be given out again
once no copy of the row holds it; its reuse while a copy still holds it is left out.
The wait of `set_capture_state` only keeps the worker busy; what it answers is not
modelled.

### SearchHead, TaskPanel and SearchPage

`Search.post` is one transaction from `SendChord` to `Commit`; nothing it wrote is
visible before (`Visible`). The TaskMeta row of the merge task has a unique key and
two writers, the view and the worker that ends the task: a worker waits for a
view that has inserted the row, and a view that has looked and not yet inserted
it can be overtaken, in which case its transaction fails in the end
(`TrackInsert`, `CommitFails`). A node's task finds nothing to search, fails, or
uploads a file. The file of a flow search without flows is empty; that of a packet search without
packets has the header of a pcap file, so it counts as a result (`Store`). `MergeRaises` is a
file that can be neither moved nor copied, or a merge command that cannot be run. `found` and `botched` are history: which nodes
matched something, and whether mergecap failed unnoticed.

In the browser a handler is one step. A request is `sent`, then `answered` with
what the server held when it was read, then handled; requests do not keep their
order. A timer whose id was overwritten goes on unseen (`ForgottenTimerFires`).
The names of requests are numbers only so that the lowest free one can be taken.
Time, and so the length of the timers, is left out; after seven days a task is no longer
listed (`TaskAges`), which may be any time. `lostGets` counts failed
requests for the tasks, which nothing repeats.

### SubIndex

A record is its position. Of the keys only their order against the wanted range
matters: `less` records are below it, `equal` ones have its first key, `upto` ones
are not above it. `preview` is what the writer computes, `PreviewDepth` what the
reader computes; that the two fit is a property. A comparison with memory that was
not read may have any result (`BufferCmp`), and `garbage` remembers it. `walked` is the set of
records at which `search_index` read one record at a time, as it does in subtrees that do not
fit into its buffer; there it compares with the key of the record behind. An index
may have no records.

### SkipList and SetOps

A result file is an ordered set of offsets. The skip list of `ordered_set.c` holds the
ordered sets of a union, sorted by their next items; its operators are translated with
the counter that decides on the levels, the links that are left as they are above the
levels in use, and the search that gives up at an ordered set without items. `SetOps`
opens its inputs one by one and takes an item at a time. An AND has at least one set
that is not inverted: the usage text of `search.c` asks for it, and
`Prune!AcceptedFits` says that it is so. The buffers between a set and its file, their
errors, and the time span (`filter_flow`) are left out.

### PacketFetch

The flows are the nodes of a pairing heap, with the links `child` and `sibling` and the
time of the next packet. Packets of a flow ascend in time, as they were captured. A
failure to load or to write a packet ends the fetch (`FetchFails`). `fh_write_packet` reads
the header after the last packet too; nothing uses what it read.

### Query

The query is read token by token: operators, parentheses, and words, each of which
is the tree `tokenize` makes of it (a port, an address or a network with a direction, a
port without one, an address with a port). `levels` are the locals of `build_tree` in each
of its recursive calls. The loss of what was above the last node after an AND or NOT, and
of an atom that follows another, are as in the code. A query of white space only has no tree:
`parse_search` lets it pass and the task of the node raises an exception (`NoTokens`). `Nots` and `Collapse` are
`normalize`, with `type`, which De Morgan's law changes, beside `cls`, the class, which it
does not and on which methods and copies depend. `Prune` is a module of its own: the pairs
of a clause are numbered, the first atom with all others first (`AfterPairs`), and what
normalisation hands over is an OR of ANDs of atoms (`Trees`, part of the type invariant). Any
two atoms of a field are disjoint or nested (`PruneAssumption`): addresses and networks are, and
ports are single ones.
The module was compared with the Python program on all sequences of up to six tokens:
the trees, the outcomes and the pruned trees are the same. Regular expressions and the
names of files are left out.

### NodeSearch

A thread takes indexes from the queue until it is empty or the event is set. The
operations on one index are one step that succeeds or fails: how searches share
the files of these operations is `ResultFile`. `pcap_fetch` writes its file under its final name
and leaves it when it fails, and a file that is there is taken for the result, in this search and in
later ones: `cutOff` are the indexes whose file is not whole, in the beginning those that earlier
searches left, and `gaveUp` those on which a search failed. `MergeBatch` is one turn of the
loop over the batches, including its merge command.

## 3. Runs

Passing runs:

| Run | Properties | Instance | Shows |
|---|---|---|---|
| `pipeline_threads` | TypeOK, NoSharedBucket, NoLostBucket, CleanExit, NoLostWakeup, LockCoversCapture, ShutdownNotStuck, Lifecycle | 2 capture, 1 indexer, 1 output, 3 buckets, spurious wakeups | competition for buckets, no state of a shutdown is a standstill, Pipeline implements BucketLife |
| `pipeline_shutdown` | ShutdownCompletes | 1 thread of each kind, 3 buckets of which one is allocated late, input from files | a shutdown ends, whatever the database does |
| `store` | TypeOK, FetchFailsOnlyLost, ReadyHasData, NoOrphanDir, DisksBalanced, FreshFirst | 2 writers, 2 disks of sizes 2:1 with 3 slots, 3 indexes, cleaner, search, the larger disk disabled or activated once | allocation under failures and crashes; usage read without a lock still balances; a search fails only where packets are lost |
| `result_crash` | CompleteUnlessFailed, SearchesEnd | 3 searches, 2 deaths, 2 searches whose writes fail, slow writers | a visible file is complete exactly unless one of its own writes failed, nobody waits for ever |
| `runner` | TypeOK, TermOnRequest, CaptureRuns | 3 process ids, all requests and statistics, 1 fault | no process is stopped unasked, and capture comes back but for rows with settings_changed |
| `search_page` | TypeOK, ShownComplete, SuccessComplete, PollingAlive, PageSettles | 1 search of 2 nodes, 3 requests under way, 1 click to clear, 1 loss | from the click to the table: nothing is shown that is not complete, and the page settles |
| `algorithms` | TypeOK, InBucket, OffsetsFit, DropsReported | packets of 5 to 7, MTU 7, bucket 24, file 40, a drop counter that wraps at 3 | which packets pass the end of their bucket; which drops are reported |
| | IndexFilesExact | chains of up to 6 packets of 5 flows | the files of a chain against the sorted lists they should be |
| | QueryKept, AcceptedFits | all queries of up to 6 tokens out of 6 words and 5 operators | what pruning keeps, what is refused |
| | PreviewAgrees, LookupComplete, FailsOnlyAtEnd | files of 28 sizes from 0 to 103 with 4 keys to a block | what a lookup outputs, and which fail |
| | SkipListSound, ResultExact | up to 4 sets, inverted or not, of the items 1 to 3 | AND and OR against their definition on sets |
| | PacketsMerged | 4 flows of up to 2 packets at 3 times | the heap against the order of time |
| | AllSearched, MergedAll | 0 to 11 indexes, 2 threads, batches of 4, 1 file of an earlier search | what a node uploads |

Runs that violate what a comment of the code says (the findings in
`PROJECT.json` quote it):

| Run | Property | What happens |
|---|---|---|
| `pipeline_null` | NeverNull | `queue_pop` waits once, not in a loop: a woken capture thread finds the bucket taken and goes on with NULL |
| `result_flows` | AtomicallyReady | `flow_fetch` renames a file that another search is writing |
| `runner_start` | StartObeyed | `stop_capture` sets settings_changed, so that after a stop and a start the runner starts nothing, for ever |
| `runner_stop` | StopObeyed | the runner's save undoes a stop |
| `query_parse` | AtomsKept | of two atoms without an operator between them the parser keeps the first, and raises no error |

### Behaviour that no property covers

The models contain more that a maintainer should know. The properties above are
stated so that they hold beside it, and the hazards in `PROJECT.json` name the
lines of most of it:

- a chain whose index the database did not take is recycled unwritten during a
  shutdown; the first of several input files that ends shuts down the reading
  of all; after a failed connection test an output thread may retry for ever
  while the main thread waits for it; with too few buckets for the capture
  threads (a small `-m`) all may hold part of a chain and wait;
- a packet nearly as long as the MTU can move the next place past the end of the
  bucket (`next_pkt` counts its padding in records); the space left then looks large, and
  packets are written behind the bucket until the chain is sent (InBucket says in which
  buckets). A wrap of the kernel's drop counter hides one drop, and drops for want of a bucket
  are overwritten by `send_bucket`, both of which DropsReported says;
- an index whose link could not be made is ready, and packet searches of it fail; so do those
  of an index whose slot was given away since, which the node's search does not tell apart;
- a disk that was disabled for a while gets everything once it is active again;
  slots carry the start time of their transaction, so that a used slot may be
  taken before an older one;
- two searches that recover from one abandoned file, or one that meets a writer
  silent for ten seconds, can remove a live writer's file (`robbed`), which may
  end in an unfinished result; a file with a failed write is renamed, found and used by all later
  searches, and so is a half written packet file (AllSearched); a reader that misses the rename between its two
  look-ups fails;
- settings_changed hides the death of capture, and CaptureRuns excludes it; update_stats may put an old pid
  back; a runner started before the row exists never finds it;
- when an index file cannot be written the nodes of the chain's trees are not freed;
- `signal_handler` calls `event_set`, which waits for ever if the signal interrupted
  `event_check` on the same thread;
- a search in which one node has no index in the time span and another has
  results counts as failed, though its result is saved: the node uploads nothing,
  and `search_merge` asks for the path of no file (`DeleteResults`). A flow search
  with results from two nodes or more always fails (`search_res.path`, `MergeFlows`).
  A result uploaded before the view is committed is answered 404 and lost; the
  search then says that results are missing, or fails. A merge task that ends
  while the view looks for its TaskMeta row makes the view fail with all its rows.
  The exit status of mergecap is not looked at (`botched`);
- a failed request for the tasks ends the polling of the page unless another chain
  of timers is alive; every search adds such a chain, so a page polls faster and
  faster. A task that was cleared comes back for a moment when an older answer
  arrives;
- a lookup whose range reaches the last record of an index fails with EIO
  ("TODO This is fine until we hit EOF", `subindex.c:497`); the thread aborts the
  search, the process returns 0, and the task fails at its merge for want of a
  result file (AllSearched). A lookup of a key beyond all records may also hang in
  the preview loop. FailsOnlyAtEnd says that both are lookups of ranges that reach to the
  end of the index. A lookup may compare with memory that was never filled, although the
  comment says that it always just goes left (`subindex.c:374`), and then miss records that
  are there. That happens only when less than a quarter of the buffer's room is left behind
  the start of the range (UnreadOnlyNearEnd, part of LookupComplete), but records beyond
  the range may follow. A range whose first key
  is not in the index finds nothing (AbsentExact), unless the tree was walked record by
  record, though `subindex.c:168-171` says otherwise. Where that walk comes by the record before
  the range it is output too (PresentExact), though `subindex.c:468-469` rules it out;
- the parser loses operands: "a or b and c or d" becomes "b and c or d", "a and not b
  and c" becomes "not b and c". De Morgan's rule changes the `type` of a node and not
  its class, so that after a negation some ORs are pruned by the rule for ANDs, or end
  in an AttributeError: "port 1 and not 10.0.0.1:1" loses flows from port 1. QueryKept
  is about queries in which no OR comes out of a negation. The name of the
  result file of an AND does not say which operands are inverted (`node.py:352-364`,
  `599-605`): "a and b" and "a and not b" share one file, and so their results;
- `filter_flow` drops a flow whose last packet is after the end of the span
  (`search_lib.c:284-288`), where its comment speaks of the first packet;
- a search of so many indexes that the last batch leaves no room for the temporary
  files (MergedAll gives the condition; with batches of 500 for example 999 or 1000
  indexes) uploads the last batch alone (flows) or all but the last batch (packets).

### Bounds

- Pipeline: `ChainMax = 2` is the least with chains of more than one bucket;
  three buckets are enough for one in each queue and for two threads to want
  the same one. The theorems remove these bounds for all safety properties,
  Lifecycle included; of ShutdownNotStuck they prove the form without ENABLED.
- Bucketize: a bucket holds up to three packets and a file two buckets, so every
  comparison is met with equality and on both sides; with packets of 5 to 7 and an MTU of 7 the
  padding fits for some and not for others, and both kinds of buckets come up; a bucket is
  ready or none is (`MaxReady`); `Wide` is larger than any
  difference; `Max32 = 3` lets the drop counter wrap, from every value it may start
  with, within `MaxKernelDrops = 5`. The theorems are for all sizes and widths.
- FlowIndex: five flows make trees of depth five, in which a splay takes two double
  rotations, and the sixth packet can go to the deepest of them; four flows have one
  port in common, so that lists of three sizes are merged.
- SlotStore: `MaxIndex` exceeds the number of slots, so slots are reused;
  with one disk disabled a slot is taken a second time within three indexes; two
  writers suffice because each statement conflicts with at most one lock holder.
  `IndexSpace` and `Reserved` make the cleaner expire indexes while others are
  written. `InSpan` holds one index, since a search changes nothing. `LinkFails` holds the same
  one, since links that fail are independent of each other. `MaxToggles` bounds the
  changes of a disk's mode. The theorems remove all these bounds.
- ResultFile: three searches, so that two may meet a file the third abandoned,
  and two deaths, so that the file made in its place may be abandoned too, and as many with
  failing writes (`MaxErrors`); CompleteUnlessFailed is proved for any number of both.
- SearchPage: two nodes, so that one has results and the other has none, fails or
  is late. One search: its row, its task and its page are met by all the others'
  steps already, and two searches are out of TLC's reach in this instance. Three
  requests let an answer overtake another while a third is on its way; a step
  that would send a fourth waits, which only delays it. One loss and one clear
  happen at any point; what several losses do follows from `lostGets > 0`.
- SubIndex: an index without records; 4 keys to a block of which the header takes 2, so that the preview is cut
  off; files with no preview, with one, and so large that the walk goes record by
  record first (more than 15 records under a node); all sizes to 10, then those
  around powers of two and of the form 2^d - 2^j, where the virtual nodes are, and so large a
  file that memory which was not filled is met. The theorems are for files of any size.
- NodeSearch: up to 11 indexes in batches of 4 are 0 to 2 full batches before the
  last one, which meets the condition for the temporary files on both sides; one file is left by earlier
  searches (`MaxLeft`), whole or not. The theorems
  are for any number of indexes and any size of batches.
- SetOps: four sets (`MaxOsets`) use all three levels (`MaxLevels`) of the skip list, which
  shrink as sets run empty, and are the least for two regular and two inverted ones; with three
  items, sets are equal, disjoint, nested and overlapping. The theorems are for any number of
  sets and items, as long as the levels are enough.
- PacketFetch: four flows make `fh_merge_pairs` take two pairs, three an odd one; with
  three times, packets of different flows are equal, before and after each other. The theorem is
  for any number of flows and packets.
- Query: six tokens have room for three words, two operators and a NOT, or for a
  negated group of two; the words contain, exclude and overlap each other. `query_parse`
  needs two. The theorems about pruning are for clauses of any number and length.
- CaptureRunner: three ids let a process that ends, one that captures and one that
  waits for the lock be there at a time, and the theorems are for any number. The
  change of the settings is not among the tasks of the run: it only sets
  settings_changed, as every stop does. `runner_start` has starts and stops only, and no
  faults: the stop is all it takes. `MaxFaults` bounds refused starts,
  interfaces that are all disabled and deaths of the runner, which would otherwise prevent any progress. Deaths of capture are not bounded.

### Fairness

- Pipeline (`FairSpec`): weak fairness for each thread's steps and for the main
  thread: the kernel runs every runnable thread. Strong fairness for
  `DispatchReturn` of each capture thread: `pcap_dispatch` handles a limited number of packets and
  `pcap_breakloop` interrupts it, so a thread does not stay in it for ever, although it leaves
  the label for every packet in between. None for signals, packets,
  the database or allocation. Output threads that wait for the database are
  stopped by the shutdown, so the database needs no fairness.
- ResultFile: weak fairness of each live search; a death is not fair.
- CaptureRunner: weak fairness of the runner's loop (it wakes every second), of
  a task that has begun and of each capture process on its way to the lock or
  to its end. None for requests, refusals and deaths.
- SearchPage: weak fairness of four kinds of steps. HeadStep: views return and
  celery workers carry out what is in their queues. The answer to a search and the
  POST that clears tasks: the server answers or the browser gives the request up.
  The requests for the tasks: each is answered or fails, and its handler runs. The
  timers: they fire. Each search and each clear has only so many steps, so one
  condition per kind is enough. None for searches, clicks and losses.

Deadlock checking is off where the system really ends: the capture process
exits or crashes, searches end, the bounds on transactions and requests are used up.
`pipeline_shutdown` and the runs of `CaptureRunner` check it.

## 4. Proofs

TLAPS checks the theorems for all values of the constants that satisfy the
named assumptions.

`PipelineProofs`, for any finite sets of threads and buckets:

- `TypeCorrect`, `BucketsNotShared`, `BucketsNotLost`, `WakeupsNotLost`,
  `LockSafe`, `ExitsClean`: `Spec => []P` for the invariants of the runs.
- `RefinesLife`: `Spec => Lifecycle`, the refinement of BucketLife.
- `ShutdownMoves`: once shutdown was asked for, a thread or the main thread is at a
  label from which it goes on without anyone's help (`NotStuck`). It assumes
  an indexing and an output thread, which `pcapdb.h:191-192` guarantees, and
  `EnoughBuckets`: more buckets from the start than capture threads that all wait for
  one more can hold, `|Capture| * (ChainMax - 1)`. The code does not check the latter; without
  it the capture threads may indeed wait for each other for ever.
- Assumptions: `ThreadAssumption`, `NameAssumption` (no thread is called "ready" and so on,
  which only matters for the values of `Where`), `BucketAssumption`, `ParameterAssumption`.
- Argument. NoLostBucket is not inductive: a push on a closed queue would drop
  its chain, so one has to know that nobody is left to push when a queue is
  closed. The inductive invariant adds `HoldOK` (at which labels a thread holds a
  chain and at which none) and `PhaseOK` (which threads are gone, which queues
  empty and closed at each stage of the shutdown). With them each action moves
  buckets from one place to another. NoLostWakeup needs the number of signals
  given since the queue was empty, which the labels `waiting` and `woken` carry.
  Queue operations are treated once, in lemmas about push, pop and close.
  For the refinement, the same invariant makes `Where` the inverse of "which buckets a
  place holds" (`WhereOK`), and each way in which queue operations move buckets is one lemma about `Moves`.
  ShutdownMoves adds `StopOK`: who was told to stop tells how far the main thread is, a
  waiting capture thread has room for one more bucket, and what was allocated stays so. In a
  standstill no thread is woken, so by NoLostWakeup the queues that somebody waits on are
  empty; then capture threads hold all buckets, too many for their chains. `NotStuck`
  says by labels and guards what ShutdownNotStuck says with ENABLED, which the prover does
  not know.

`BucketizeProofs`:

- `PacketsInBucket` (InBucket): under `SizeAssumption`, for packets up to the MTU, a packet
  passes the end of its bucket only if it begins past it, and the next place is past the end
  only in a bucket with a packet near the MTU (`RoomInv`). Where the comparison in
  `get_pkt_bucket` lets a packet in, there is room for the MTU or the place is past the
  end (`HasRoom`), since the comparison is unsigned.
- `OffsetsBounded`: for all sizes, a chain's offsets stay below the file size,
  because the comparison before each packet leaves room for the largest one.
- `DropsAccounted` (DropsReported) for any width of the counter. Reported drops, those since
  the last chain and one for each wrap that was seen add up to all of them, exactly until
  the counter goes all the way round between two chains (`KernelInv`). No chain that is sent counts
  a packet that was dropped for want of a bucket: while a chain is filled `dropped` is 0 (`LostInv`), and that 0 is what `send_bucket`
  writes over the number recorded in `get_pkt_bucket`.

`SlotStoreProofs`, under `StoreAssumption`, for any disks, slots and increments, any finite
set of writers, any number of transactions, indexes and changes of a disk's mode:

- `TypeCorrect`, `FreshSlotsFirst` (an action property), `ReadyIsStored`, `FetchesFailOnlyLost`,
  `DirsHaveRows`, `DisksFillEvenly`: all properties of the run `store`; and
  `OneIndexOfASlot`, that no two rows name the same slot, on which they rest.
- Argument. Each property needs what is true between the statements of a transaction.
  FreshFirst: the slot OLDEST_SLOT_Q gave to a writer stays the oldest of its disk as long as
  the writer has the lock of the disk's row (`HandOK`, `Oldest`), and a slot has a time
  exactly if it was used (`TimesOK`). OneIndexPerSlot: a row that has a slot is not in the hands
  of the cleaner, nor expired (`SlotsOK`, `RowsOK`). ReadyHasData and NoOrphanDir: what a writer
  has done at each of its places (`ProgressOK`), that no two write the same index
  (`OwnIndex`), and that the cleaner's directory is gone before its row. FetchFailsOnlyLost: an
  index that was selected stays ready while it has its row and its slot (`SearchInv`), and a
  step takes nothing else from it (`Keeps`), so that ReadyHasData says where its link leads. DisksBalanced is not
  inductive at all, since a writer raises the usage of a disk it chose long ago:
  `BalanceInv` adds to the usage of a disk what is pending for it, one increment
  for each writer that has chosen it. TLC checked the conjunction of these on the instance of `store`
  before it was proved.

`OrderedSetProofs`, about `ResultFile`, for any searches, under `ResultAssumption`:

- `ReadyAtomically`: CompleteUnlessFailed if `~CleansUp`, with any number of deaths and failed
  writes and with pauses. (With `CleansUp` not even AtomicallyReady without failed writes is true, as the run `result_flows` shows.) A live search that makes the file owns
  the temporary one, and any other owner is dead or has failed (`OwnerOK`); what is renamed is
  complete unless a write failed (`ItemsOK`); both until a live search was robbed.
- `ReadyWithoutFaults`: without deaths, failed writes and pauses nobody is ever robbed, and what
  is found is complete without exception.

`SubIndexProofs`, for index files of any size and any lookup in them, under `SubIndexAssumption`:

- `PreviewsAgree` (PreviewAgrees), `LookupFinds` (LookupComplete), `LookupFailsAtEnd`
  (FailsOnlyAtEnd), `LookupUnreadNearEnd` (UnreadOnlyNearEnd), `LookupTypes`.
- Induction. The library's induction theorems take an operator, which no prover here can
  instantiate. The proofs use sets in the place of predicates: the least number outside
  a set (`NatMin`) gives induction (`NatInd`), and induction the existence of a function
  that is defined by recursion (`RecursionExists`). For each recursive function of the
  models one lemma (`Pow2Rec`, `NodeHeightRec`, `ListedRec`, and so on) derives that it satisfies
  its own definition. This is all that the other modules of proofs need, too.
- Argument. The writer and the reader meet in arithmetic: the preview lists the multiples of
  2^(depth - preview depth), in order (`NodeDepthMultiple`, `PreviewListFacts`), so the k-th
  entry is the key of the record the reader stands on (`PreviewOK`). A search is right as long
  as the first record of the range is between the ends of the subtree, and the last match is the
  right end if that one matches (`Bounds`); `GoLeft`, `GoCmp` and `GoSlow` carry this from a
  node to its children, virtual ones included. In the walk record by record the range may
  begin just right of the subtree, exactly if that walk came by the record before the range
  (`walked`), the off by one of PresentExact. For a key that is not there the last match is the lowest
  record at or above the start at which the walk was, if any (`AbsentInv`): comparisons in the preview and
  in the buffer are never equal.

`OrderedSetProofs`, about `SkipList` and `SetOps`, for any number of sets and items:

- `SkipListHolds` (SkipListSound): the list holds exactly the sets that are not empty, in the
  order of their next items, on every level in use. `ResultsExact` (ResultExact): the outputs
  of AND and OR are, sorted and without repetition, what the operations on sets give.
- Assumption: `SkipListAssumption`, fewer sets than 2^MaxLevels. The code has 16 levels and
  does not check the number of its inputs; each is an open file, of which a process does
  not have 65536 under the usual limits. From that number on a set would get more levels
  than it has room for.
- Argument. A level is a chain of links. To reason about it without induction over lists, each
  level is given by places: numbers that grow along it, with each set linked to the
  one with the least greater place (`LevelLinked`, `Places`). Inserting is finding a number between
  two places (`Between`), and the descent of `os_slist_reinsert` keeps a prior whose place is
  below that number (`Searching`, induction over the turns left). Levels that come into use when
  the list grows were empty before (`Unused`). For the union, what is out, what is next
  and what is left are all there is (`UnionOK`). For the AND, everything below `curr_item` is
  decided, and the sets of the last `match_count` turns have had it (`AndOK`, `Ago`).

`NodeSearchProofs`, for any threads, any number of indexes and any size of batches:

- `SearchedAll` (AllSearched): a batch passes its merge command only if the files of
  all its indexes are there, which the exit status of the search process does not say. An index
  on which the search failed and which has a file nevertheless has one that is cut off.
- `UploadIsMerged` (MergedAll): the invariant gives the contents of the temporary files
  after each batch; the lemma `Quotient` about division gives the number of full batches.

and for any number of flows and packets:

- `PacketsInOrder` (PacketsMerged): no packet is lost, none comes before an earlier one, and the
  assertion in `fh_merge` holds. A heap is described by a function that gives for each node the
  set of what hangs from it (`Hangs`); two heaps that share no node can be linked (`LinkHeaps`,
  `MergeFacts`), and merging siblings in pairs makes one heap of them all, by induction over
  their number (`PairsFacts`). The invariant says that the heap holds exactly the flows
  with packets left, each with the time of its next one (`HeapHolds`).

and for any query tree, under `PruneAssumption`:

- `AcceptedFit` (AcceptedFits), and `PruningKeeps`: no step of pruning changes which flows the
  tree asks for. A pair of atoms that is compared leaves a clause that matches the same flows
  (`PairKeeps`), by induction all pairs do (`PruneAndKeeps`), and the new list has exactly the
  atoms that are kept (`KeptOfHas`). PruningKeeps is the half of QueryKept that is about pruning;
  that it starts from the trees of `PruneInit` is part of the type invariant of `algorithms`.

`CaptureRunnerProofs`, for any process ids, tasks and number of faults:

- `TypeCorrect`, and `TermsOnRequest`: a process is sent SIGTERM only if a stop
  or restart was asked for while it ran. The invariant says that each of the
  three copies of the row that asks for a stop or restart names a process for
  which one was asked (`RowsOK`): since whole rows are saved, an old copy brings
  back its old pid together with its old request. `BranchOK` says that
  `start_capture`, called to start, finds nothing to stop.

`SearchPageProofs`, for any searches, nodes and requests:

- `TypeCorrect`, `SuccessIsComplete`, `ShownIsComplete`, `PollingGoesOn`. A success has the
  results of all nodes, or none and says so: with some missing and others there `search_merge`
  saves the result and then fails (`DeleteResults`).
- Assumptions: `HeadAssumption`, `PanelAssumption`, `PageAssumption`: the nodes of a search
  are nodes, requests are a finite set of numbers, and so are the bounds.
- Argument. A task that has succeeded stays so, and the result it was merged from
  does not change any more (`HeadInv`: `NodeOK` relates each node's task to its file,
  `PostOK` the progress of the view to what is in the database, `MergeOK` the merge task to
  the result). So an answer about tasks, however old, never claims a
  success that was not one (`AnswersTrue`), whatever answers overtake it, and the table
  is filled only from such an answer (`TableTrue`). PollingAlive needs to know for every
  request what its handler will do.

TLC checked the larger inductive invariants on small instances before they were proved. Two
statements changed on the way: the proof of FailsOnlyAtEnd failed for lookups that compared with
memory that was not filled, and TLC then showed such a lookup in a larger file; and
SkipListSound cannot hold without a bound on the number of sets.

Only model-checked:

- ShutdownCompletes, SearchesEnd, CaptureRuns and PageSettles (liveness), and ShutdownNotStuck
  as it stands (ENABLED);
- IndexFilesExact and the half of QueryKept about parsing and normalisation: splay trees and
  query trees are handled by RECURSIVE operators, which the prover does not support,
  and what they compute needs induction over trees;
- the conjunction TypeOK of `MCAlgorithms`, whose conjuncts about SubIndex and SetOps are proved.

## 5. Plan

Done: Queue, Pipeline, BucketLife; Bucketize; SlotStore; ResultFile; CaptureRunner;
SearchHead, TaskPanel and SearchPage; SubIndex and NodeSearch; SkipList, SetOps,
PacketFetch, Prune and Query; FlowIndex, with the runs and theorems above. In this order
there follow:

1. Statistics upload: the `readied__gt` cursor against indexes that become ready
   out of order, and against saves of the runner that put an old cursor back, so that
   statistics are counted twice; per minute sums.
2. Adding disks: the usage increments of all disks after a new one.
3. Proofs: normalisation and the splay trees, with trees as functions on paths in the
   place of nested records, so that the induction of `SubIndexProofs` applies.

## 6. Not modelled

- PF_RING capture calls the same functions as libpcap and needs its hardware.
- `write_status`, thread affinity, priorities: no state the properties see.
  `write_status` reads the state of threads that the shutdown has freed.
- The mutex of an event: `Pipeline` takes `event_check` and `event_set` as single
  steps, so the handler that waits for its own thread is not in it.
- Parsing of packets, the regular expressions for query text, file formats beyond the tree structure,
  printing tools: input and output.
- Partitioning, RAID, mounting, interface set-up: calls of system tools, present
  as nondeterministic failures.
- Errors that are left out: `calloc` in
  `queue_push` (`queue.c:33-37`), which refuses the item as a closed queue does, so that without
  memory a bucket would be lost, and NoLostBucket is about processes that get theirs; a process
  in `/proc` with another executable, or one that `readlink` cannot read
  (`status.py:134-142`); the empty list for a user who is not logged in
  (`task_api/views.py:42-43`); headers and previews of index files that cannot be written,
  which `write_index` does not notice (`output.c:556-565`); read errors of an ordered set,
  which count as its end (`ordered_set.c:386-391`, `packets.c:310`), and errors of
  `ord_set_push` that AND and OR ignore, within `SetOps`: `ResultFile` has them as
  `WriteFails`.
- Other web pages, login, users, installers, Docker files.
- Vendored JavaScript. Of the repository's 221,000 lines of JavaScript all but 476
  are libraries under `static/theme/plugins` (chart, table, PDF and spreadsheet
  libraries, jQuery): they are not this program. Of its own two scripts
  `datatables-helpers.js` (106 lines) formats table cells and keeps no state, and
  `pcapdb.js` (370 lines) is modelled but for its alerts and the look of a task.
