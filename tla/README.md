# fxi in TLA+

fxi indexes a source tree, searches the index, and can run as a daemon that
keeps indexes loaded and watches the trees. This directory models the parts of
fxi whose correctness depends on *order*: files replaced one after another,
threads that share a loaded index, events that are debounced and merged,
requests and responses that overtake each other; and those where an index
stands between a question and its answer: narrowing, stop-grams, encoded
postings. Paths below are relative to
the repository root.

## 1. The system

| Component | State | Operations | Hard part | What makes it correct |
|---|---|---|---|---|
| Index on disk (`src/index/writer.rs`, `build.rs`, `compact.rs`) | meta.json, docs.bin, paths.bin, segment directories | full build, incremental update, the daemon's delta, compaction | a writer may end between any two file replacements; ids are renumbered by compaction | what opens is exactly what was indexed; a partial build does not open |
| Reader (`src/index/reader.rs`) | the loaded files | open, search | missing segments are skipped silently | every live document is reachable, once |
| Lock (`src/utils/index_lock.rs`) | an advisory file lock | acquire, fail to, drop | taken at entry points only | one writer at a time, nobody waits for himself |
| Daemon index server (`src/server/daemon_core.rs`) | map of loaded indexes; each with reader, two caches, watcher | search, content search, reload, flush, rebuild, reconcile, evict | handler threads, processor and CLI interleave; values used after unlock | caches never ahead of the reader, readers never go back, everyone is answered |
| Watch pipeline (`watcher.rs`, `debouncer.rs`, `daemon_core.rs`) | event queue, debounced kinds, channel, pending batch | event, debounce, accumulate, flush, rebuild, watcher restart | events are normalised and merged while files go on changing | the last version of each file is indexed in the end |
| Socket server (`daemon_unix.rs`, `protocol.rs`) | connections: reader loop, handlers, response channel, writer | accept, read, answer, write, time out, shut down | answers leave in any order; both timeouts; limits | every request gets its own answer or an error |
| VS Code client (`vscode-extension/src/daemon/client.ts`) | socket, pending requests, fallback queue, reconnect timer | connect, send, data, close, time out, dispose | overlapping connects, late and id-less responses | no request gets another's answer; all are settled; it keeps trying |
| TUI (`src/tui/app.rs`, `mod.rs`, `src/server/client_unix.rs`) | query, results, cache, search threads, one client behind a mutex | edit, Enter, Esc, F5, poll | results that arrive for an older query or index, or are still in a thread's hand | shown and cached results belong to their query and index |
| Build pipeline (`src/index/writer.rs`) | job channel of two, writer thread with a thread per file, completion channel | process a chunk, send, write, tell, finalize | full and closed channels, errors and panics of any thread | the build ends; it succeeds with every document visible or publishes nothing |
| Queries (`src/query/`) | the cache of files read | parse, plan, narrow, verify, collect | narrowing must not lose matches; files change meanwhile; a pool that stops early | every promised match, none that no text had, limits met |
| Segment files, encodings (`segment_io.rs`, `src/utils/`) | dictionaries, postings, positions, bloom filters | write, merge, look up | lists laid end to end and skipped undecoded; files cut short | a lookup finds exactly the documents it is about |
| Daemon life cycle (`daemon_unix.rs`, `main.rs`, `server/mod.rs`) | socket and PID file, shutdown flag, processes | start, stop, Shutdown, the way out | stale files, reused PIDs, a flag that is looked at late | one daemon, reachable; stop stops; nothing lost by an exit |
| Windows transport, CLI output, UI, scores, statistics | | | | not modelled (section 7) |

How they interact. The CLI and the daemon write the index under the lock
(`fxi index`: main.rs; flush, rebuild and reconcile: daemon_core.rs). The
daemon's watcher thread sends batches through a channel to one processor
thread, for all roots. Handler threads share loaded indexes with it through an
RwLock map of `Arc`s. The extension and the TUI talk to the handlers over a
Unix socket with length-prefixed JSON frames and an optional `request_id`.

## 2. Modules

    IndexStore       <- MCIndexStore                        files on disk
                     <- StoreReaders <- MCStoreReaders      ... and who opens them
                                     <- IndexStore_proofs   about both
    BuildContract    <= ChunkedBuild <- ChunkedBuild_proofs threads of a full build
    SegmentEncoding  <- SegmentFiles <- MCSegmentFiles      bytes of a segment
    SourceText       <- GramIndex                           trigrams, stop-grams, merges
    SourceText       <- QueryLanguage                       parser and planner
    GramIndex        <- Search       <- Search_proofs       answering while files change
    Search           <= QueryEngine  <- MCQueryEngine       ... with the query language
    DaemonIndex      <- MCDaemonIndex, DaemonIndex_proofs   threads around one loaded index
    WatchPipeline    <- WatchPipeline_proofs                from a file event to the served index
    DaemonServer     <- ExtensionClient, TuiClient          sockets and threads, with each client
    ExtensionClient  <- ExtensionClient_proofs
    TuiClient        <- TuiClient_proofs
    DaemonLifecycle  <- DaemonLifecycle_proofs              processes, socket and PID file

(`<-` is EXTENDS, `<=` a refinement; QueryEngine also EXTENDS Search and
QueryLanguage.) Modules of different lines share no
variables but refine one another's data: in DaemonIndex an index is a set of
edits and a write replaces it whole (IndexStore is what makes a write), events
are collapsed into `seen` and `pending` (WatchPipeline is what they go through),
a build is one step of GramIndex and a sequence of file replacements in
IndexStore (ChunkedBuild is what makes them), and a lookup in QueryEngine is a
set comprehension (SegmentFiles is what computes it). The types of the variables are
part of the inductive invariants of section 4; no run checks them again.

**IndexStore.** A file's content is a version number, fresh at each write, and
its mtime that number with a unit. `docs` is docs.bin (a document is a path id,
an mtime, and live or not), `paths` paths.bin, `segs` the segment directories
as postings. `op`, `pc` and `plan` are the lock holder, its next step and what
it has prepared in memory. Each file replacement is an action
(`WriteSegment`, `WriteDocs`, `WritePaths`, `WriteMeta`), so an `Interrupt`, a
kill or an I/O error, falls between any two. `dirty` are the paths edited
since an update read them, `torn` says a writer was cut short between its first
and last replacement. Left out: rejected files, postings' encoding,
temporary files, power loss (a replacement is atomic and durable), two edits
of a file within one second (they have equal mtimes and the second one is not
seen by an update).

**DaemonIndex.** One root. An index is the set of edits it reflects, so "older"
is "subset". Each handler thread goes through `ensure_index_loaded` and the
request's own steps with a program counter; so does the processor.
`inst[t]` is a handler's own `Arc` of the index, which outlives the map's.
`lock` is the IndexLock, and `ReadLocked` the one read guard of `indexes` that
spans several steps. LRU eviction may take any victim. `failures`, `past` and
`since` are history. Opening an index is one step. Any acquire may fail: the
processor then gives its batch up, and a handler that starts a watcher goes on
without the lock, since daemon_core.rs:1138 never looks at the result (`Lock`).
From then on (`~Locked`) what a writer leaves on disk, and what an update builds
on it, may have any of the edits (`Leaves`), and opening it may fail. `Empties`
are the indexes without documents, for which batches are discarded
(daemon_core.rs:343-354).

**WatchPipeline.** One root, each file's version, the OS event queue, the
watcher's states, debounced kinds with the normalisation of `add_event`, the
channel, `pending_changes`, the delta read file by file while the tree changes,
rebuild with stopping and restarting the watcher, and `fxi index --force`
beside it. Time is abstracted: the debounce window and the flush interval may
end at any moment. Compaction may happen or not (it matters only for the
document count). An event of a path that is no file is dropped, as the code
does.

**DaemonServer.** The accept loop, and per connection the reader loop
(reading, draining), running and answered handlers, the response channel, the
writer, and what is on its way to the client. `Shut` and `HungUp` are the two
ends of a connection being closed. It has no Next of its own: a client module
supplies the other end.

**ExtensionClient.** `end` is each net.Socket, `socket` the client's field,
`pending`, `queue`, `counter`, `timer`, `disposed` its other fields, and
`outcome` what became of each promise. One action per event-loop turn. The
error and close events of a failed connect are one step.

**TuiClient.** `query`, `results`, `cache`, `search` are the App's; `main` is
where the event loop is (polling, waiting for a key, or in F5), `thread` the
search threads. The mutex is held exactly by who awaits a response. `spoiled`
is history: an id-less error has been sent or the client has timed out; so are
`refused`: the daemon has answered F5's reload with an error, which F5 throws away;
and `overtaken`: F5 has ended, with no query in the line, while a thread had an answer
in hand. A thread releases the mutex (`Await`) before it sends its result (`Deliver`),
as app.rs:398-410 does.

**StoreReaders.** A reader that opens IndexStore's files while one of its writers
is at work, without the lock: meta.json first, then docs.bin, paths.bin and the
listed segments in any order, each as it is at that moment. Before that it
deletes the temporary files it finds, which makes the writer's rename fail
(`LosesFile`). `may`, `hit`, `moved` and `stray` are history: which contents each
path may be found by, which paths a delta touched, whether documents were numbered
anew, and whether a listed segment has postings that are not its documents'.

**BuildContract, ChunkedBuild.** The contract: documents are accepted, and then
all become visible at once with success, or a failure is reported and nothing
opens. ChunkedBuild is the pipeline under it: `pc` is the caller in
`write_chunk` and `finalize_with_progress`, `writer` the background thread,
`channel` the bounded and `completions` the unbounded channel. A file's thread
may fail or panic at any write. `Unflushed` are the files whose `BufWriter` is
dropped without a flush: their last bytes may be lost unnoticed, and the
contract's `visible` is mapped to the documents the caller has no reason to
doubt. Fewer than 65,536 chunks: a segment id has 16 bits (build.rs:328) and
would start over.

**SegmentEncoding, SegmentFiles.** Varints, delta lists, position lists and
their filtered decoding, byte by byte, with `Payload` = 2 bits in a byte and
`Width` = 3 bits in a number instead of 7 and 32: a number then takes one or two
bytes, the last of them not full, and every number can be enumerated. A term
stands for a trigram and for a token, whose files have one structure. Bloom
filters have the double hashing of bloom.rs over two given hash functions (ahash
in the code, external). `Cut` shortens one file of a segment: nothing is synced,
so a power failure may.

**SourceText, GramIndex.** Texts over a small alphabet with every class the
tokenizer knows; trigrams and tokens with their positions. GramIndex has each
operation of IndexStore as one step and adds what it writes into the postings:
all trigrams in builds and deltas, all but the stop-grams in a merge, which
counts what it finds. `merges` counts compactions since the last build.

**Search.** The process of answering: `Ask`, `NarrowTo` (the candidates that the
lookups left), then a file at a time (`VerifyNext`, through the reader's cache) or
in the pool (`TakeUp`, `VerifyOne`), then `Finish`, while `EditFile` changes the tree
and `Reindex` the index. What a request asks of a text, what a text contributes and
what the index promises are constant operators, and the candidates any that
`KeepsPromise` admits: none that is due is left out, none that a filter rejects is
in. `SearchAssumption` is what is assumed of them: a text contributes finitely
many lines, only ones that are meant, and some if it is wanted. Order and scores are
left open, so any results may be cut off by a limit. A file is replaced whole: a
file rewritten in place under a memory map is unchecked UTF-8 in the code
(reader.rs:310) and not modelled.

**QueryLanguage, QueryEngine.** `Parse` turns lexemes into an expression and
filters, with the parser's precedences and fallbacks, `Plan` turns these into
lookups and a condition. A request carries the query and the plan that its input is
compiled to (`QueryAssumption`). QueryEngine is a Search whose constants query.cfg gives
these values: `MatchesOf` (has_match, verify_content), `NameMatchesTerms`,
`MaxResults`, and `Narrow`, where `Execute` looks the plan up in the segments, with
unions, filters and exclusions. `Means`, `Shown` and `FieldHolds` say what a query
means without an index, after docs/SEMANTICS.md, and `NodePromised` what is left of
that when the index narrows: the differences are listed in section 6. Both are
recursive, which is why the process is a module of its own (section 4).

**DaemonLifecycle.** `process` is what runs under each process id: nothing, an
unrelated program, or a daemon at a step of `IndexServer::run`. `command` is the
step of `fxi daemon start` or `stop`, each read, signal and file removal being
one. `changes` is the batch in `pending_changes`. One command runs at a time (two
concurrent starts leave an unreachable daemon), and the half second that start
waits is enough for a daemon to listen or to die; nothing is assumed of the half
second that stop waits, nor of what the daemon is doing when it is killed.

## 3. Runs

| Run | Module | Properties | Size | Shows |
|---|---|---|---|---|
| store | MCIndexStore | Exact OneDocPerPath LiveDocsSearchable Recall CountsMatch PartialBuildUnreadable DocsOnlyGrow | 2.1 M states | section 3.1 |
| readers | MCStoreReaders | RacedViewSound OpenSucceeds | 3.4 M | 3.1 |
| build | ChunkedBuild | ProgressIsTold StopGramsCountAll MeetsContract BuildEnds | 883 k | 3.2 |
| segment | MCSegmentFiles | LookupExact CutIsLocal | 30 k | 3.3 |
| query | MCQueryEngine | NarrowingComplete NothingMissed NothingForeign LimitMet ImplementsSearch | 447 k | 3.4 |
| daemon_safety | MCDaemonIndex | CacheNeverAhead ServedIsOnDisk ReaderMonotone | 2.2 M | 3.5 |
| daemon_progress | MCDaemonIndex | Answered PendingIsServed | 75 k | 3.5 |
| watch | WatchPipeline | Recall Exact ServedInTheEnd | 1.4 M | 3.6 |
| extension | ExtensionClient | OwnAnswer QueueIsPending KeepsTrying RequestsSettle | 408 k | 3.7 |
| tui | TuiClient | AwaitedCacheIsOwn CacheIsFresh ShownIsAsked SearchSettles | 509 k | 3.8 |
| lifecycle | DaemonLifecycle | OneDaemon NothingLostByExit StopStops StartServes | 97 k | 3.9 |
| daemon_self_wait | MCDaemonIndex | RunsUnderCallersLock | violation | section 6 |

Each property of a passing run has a seeded fault (the definitions marked
"Seeded fault") that breaks it.

### 3.1 store, readers

Three paths, three edits, chunks of two files, two interrupts, rebuild above
70 %, compaction above 50 % tombstones or at two deltas. Three paths with
chunks of two give builds of one and of several chunks, with these thresholds
each of update, rebuild, delta and compaction follows each other; two
interrupts allow one in the operation that repairs the first. `Symmetry`
permutes paths, which nothing distinguishes. Exact is about histories without
interrupts; Recall, LiveDocsSearchable, OneDocPerPath and CountsMatch also hold
after one, unless it fell between the first and the last replacement (`torn`).

**readers**: two paths, four edits, no interrupt beside the one that a reader's
cleanup causes, rebuild above 100 % (so that a delta may replace everything), the
other thresholds the same; it starts from a built index in either order of the walk. An opening spans at most one whole delta and the beginning of another with
these edits, which is every position of meta.json, docs.bin, paths.bin and a
segment in a commit. The properties promise nothing about an opening during
which documents are numbered anew (`moved`): compaction overwrites segment 1 in
place, and a reader that opens then may attribute old postings to other
documents (section 6); nor about one during which a delta without new documents
adopts the segment of an ended writer (`stray`, section 6), which these bounds
reach: without that exception TLC finds a file under another one's old content.
What writers do once the index is open is not followed:
the reader has mapped or read its files, and the opening is the end of the
history, hence no deadlock check. `MCStoreReaders` has a VIEW without
two history variables that nothing here reads.

### 3.2 build

Four chunks of up to two files through a channel of two: the channel is full
with one job at the thread and one waiting, and the fourth chunk waits with it.
`Parts` are the four files of a segment; any of them fails, panics, or loses its
unflushed end. *Refinement*: MeetsContract is `Contract!Spec` with `given` the
documents accepted, `published` that meta.json is whole, `visible` those of
them that the segments hold. *Fairness*: weak for the caller and for the writer
thread; a write ends, if with an error. The build comes to rest, hence no
deadlock check.

### 3.3 segment

Three documents with numbers 1, 4 and 7, of which the last needs two bytes, of
texts of which one has positions of two bytes; two or three segments, any subset
of documents deleted at each merge, one file cut at any byte; 16 lookups:
conjunctions of trigrams including one in no text and one that shares all its
bloom bits with another, tokens, substrings of tokens, and phrases restricted to
each set of candidates. CutIsLocal allows a cut segment to lose its documents
and nothing else. Nothing follows a lookup, hence no deadlock check.

### 3.4 query

Three trees of three files whose contents have the same word as a token, inside
a token, across a change of case and across `_`, in capitals, and over lines; 46
queries of every kind and combination (MCQueryEngine); a full build, an update
and a merge, in which two trigrams at most become stop-grams; one edit, at any
moment, also in the middle of a query. All that this run says of narrowing is said of
one merge: at the second one lookups do lose documents (section 6), so NarrowingComplete is PostingsComplete with
`merges <= 1`. With `ParallelOver` = 2 a query for three
candidates takes the pool. NothingMissed promises `IndexPromises`: what a query means
less what narrowing gives up by design (section 6). NothingForeign excepts matches
by file name, which follow no filter, and what `-l` with an anchored regex finds,
which is matched against the whole text. ImplementsSearch (`SearchSpec` as a
property) says that the lookups of every plan keep the promise; with
`SearchAssumption`, which TLC evaluates for the 46 queries and the contents of these
trees, that is all that the theorems about Search ask of them. A query that was answered and an index that cannot
change any more are the end of a history, hence no deadlock check.

### 3.5 daemon_safety, daemon_progress

Two handlers and two instances: each property speaks of one instance and of a
thread that races another; a third instance would need a third thread holding
an old one. One edit in the safety run (an index is old or new), a failure, a
rebuild, reloads. The failure may be that of any acquire, an unlocked handler
included; the index with the one edit is in `Empties`, so that batches for it are
discarded, and the one before it is not. The cache entries of one instance do not
influence one another but by eviction, so one query stands for both caches; the
theorems are about any number of both. The progress run has one handler and the CLI
and two edits, of which the first alone leaves no documents, without symmetry and
with no failure. CacheNeverAhead and ReaderMonotone are stated for histories in which
every writer had the lock (`Locked`), ServedIsOnDisk for those without reload,
failure and foreign indexing, PendingIsServed for a loaded index with documents:
without these conditions none of them holds (section 6).
`CHECK_DEADLOCK FALSE` in daemon_safety: the processor can wait for its own
lock, with everything else finished.

*Fairness*: weak for a thread's own steps, strong for a waiter on flock and on
the RwLock (the kernel wakes flock's waiters in order; std's RwLock lets
waiting writers in before new readers). The users are not assumed to do
anything. The CLI, once it has the lock, finishes.

### 3.6 watch

Two paths, one indexed and one that comes and goes, five changes: enough for a
change in each stage of the pipeline, and for deletion and re-creation across
two batches. Rebuild above 100 % is reached with two changes to one file.
`Mixed` leaves out histories with both a recorded deletion and a rebuild,
`missed` files edited while no watcher was registered. A watched tree comes to
rest, hence no deadlock check. *Fairness*: weak for the watcher and processor
threads.

### 3.7 extension

Two sockets, two requests, one handler per connection (so that a refusal
happens), one daemon timeout, kills, restarts, dispose at any time. Two sockets
are needed for overlapping connects; they are reused, so reconnections go on
for ever. Two requests are needed for an answer to go to the wrong one.
Other clients may use up the connection limit at any moment. RequestsSettle
assumes *nothing* about the requests' own 30 s timers, so it says the protocol
settles them; its exception is a connection whose writer thread gave up on a
write, which those timers are for. *Fairness*: weak for event-loop turns, the
reconnect timer and the daemon's threads. A disposed client comes to rest,
hence no deadlock check.

### 3.8 tui

Two queries, two presses of Enter or F5, a limit of one request at once (the next
one may come before the last one's handler is counted out, and is refused), one timeout (the daemon's idle read
timeout, the client's read timeout or the daemon's write timeout), and a kill.
Two searches are what can overtake each other; Enter and F5 what can make a
cache old. The cache holds 64 queries, so two are never evicted. Three
presses exceed the time of a run. CacheIsFresh takes the daemon's reload at its
word, unless it is an error: another client's concurrent load can break that
(ReloadIsFresh, section 6). It also excepts what comes after F5 has `overtaken` an
answer that a thread has still to send: the code then caches it (section 6).
*Fairness*: weak for the event loop, the search threads and the daemon's
threads, and for a read timeout when the daemon will never write again.

### 3.9 lifecycle

Three process ids, two crashes, two unrelated processes, any number of commands
and Shutdown requests: enough for a crash, a reuse of the crashed daemon's id
while its PID file is there, and both again. The model goes round for ever;
StartServes excepts a daemon that is killed and an id that is reused while
`start` looks. *Fairness*: weak for each daemon's threads and for a command that
has begun; nobody has to connect or to type, so StopStops does not rely on the
accept loop ever looking at its flag.

## 4. Proofs

Eight modules of proofs, each for every value of the constants, from the named
assumption of the module they are about.

**DaemonIndex_proofs** (`DaemonAssumption`):

- `TypeCorrect`: `Spec => []TypeOK`. `Typed` adds the instances a handler
  holds at each of its steps.
- `CacheSafe`: `Spec => []CacheNeverAhead`, and
- `MonotoneReader`: `Spec => ReaderMonotone`, both as long as every writer had the
  lock (`Locked`, the condition in the two properties).
- `Fresh`: `Spec => []ServedIsOnDisk`.

The inductive invariant `IInv` is the conjunction of `Typed`, of

- `Known`: the disk and the changes on their way to it are subsets of `edited`,

and, as long as `Locked`, of `Guarded`:

- `LockHeld`: a thread at a step under the lock is the lock's holder;
- `ReadersBehind`: no reader, installed or in hand, is newer than the disk,
  and one about to be swapped in *is* the disk;
- `SearchBehind`: what a search has in hand is no newer than the reader of the
  instance it holds;
- `CacheBehind`: no cached result is newer than its instance's reader.

`Locked` never becomes true again (`LockedBefore`), so each step of Guarded may
assume that the step before was Locked, where the failing branch of `Lock` and the
other choices of `Leaves` do not occur. Known holds whatever happens.

CacheBehind alone is not inductive: `Put` stores what was computed from a
reader taken earlier, so one must know that the instance's reader has only grown
since, which needs the swapped-in reader to contain the old one, which holds
because both were opened on a disk that only grows and the swap happens under
one holding of the lock. So the proof goes LockStep, KnownStep, DiskGrows,
ReadersStep, SwapGrows, SearchStep, CacheStep; MonotoneReader reuses SwapGrows.

ServedIsOnDisk speaks of the moments when nobody holds the lock. `CalmInv` says
what holds in between, while nothing failed, was reloaded or indexed from outside:
who has swapped, and is at its last steps under the lock, has left reader and disk
level (`LevelOnceSwapped`); a watched root is level unless somebody is between the
write and the swap (`LevelWhenWatched`); and the instance is not removed under the
threads that hold it (`NobodyRemoves`, `InstanceThere`). That the swap levels them
is ReadersBehind: what is about to be swapped in is the disk.

**IndexStore_proofs** (`StoreAssumption`, `NoFileAssumption`):
`BuildsUnreadable` (PartialBuildUnreadable), `Counts` (CountsMatch) and `OnlyGrow`
(DocsOnlyGrow). `IInv` is the type of each variable and plan, and

- `Removed`: a build past the removal has no meta.json beside it;
- `Opens`, `Whole`: deltas and compactions are of an index that opens, and outside
  builds meta.json, docs.bin and paths.bin come and go together unless torn;
- `Replaced`: docs.bin and paths.bin are the plan's once they are replaced;
- `Extends`: the plan of a delta has every document of docs.bin in its place, none
  revived; `NoneDead`: builds and compactions prepare no tombstones;
- `Counted`: meta.json counts docs.bin, except in the window between the two.

CountsMatch says nothing of that window, so it is not inductive: the counters that
WriteMeta writes are the plan's, and are docs.bin's by Replaced; for a build and a
compaction the zero it writes is right by NoneDead.

Its second part adds `SInv`, which has no theorem of its own:

- `ReadOnce`: nothing is left to read once a writer has left its reading phase;
- `Numbered`: the ids of a build's segments are those of its chunks, ascending; a
  delta's id is that of no listed segment (`Based`: the base is no later than some
  delta, so one past the last delta is free); a compaction prepares segment 1 only
  and removes others only;
- `Written`: the prepared segments are on disk from the moment docs.bin is replaced;
- `Listing`: while no writer was interrupted, the segments on disk are the listed
  ones and, between the replacements, the writer's own.

Its third part proves on top of `IInv` and `SInv` `PathsOnce` (OneDocPerPath),
`DocsSearchable` (LiveDocsSearchable), `FreshFound` (Recall) and `OnlyFreshFound`
(Exact). `DInv` says the same of two index states: the one on disk, while no writer
is or was ended between its replacements (`Steady`), and the one a writer prepares,
unless it started from torn files (`Sound`):

- `OnDisk`, `InPlan`: every document has a path, no path two live ones, and the
  loaded segments (for a delta, with the prepared one) have the posting of each
  live document; a file still to be read has no live document in the plan;
- `OnDisk`, `Captured`: a path outside `dirty`, or that the writer has captured
  since, is listed with the content it has now, or not at all when it is gone;
- `Idle`: a delta that says it changed nothing has the tables that are on disk;
- `Remapped`: a compaction has carried over each live document before `next`, under
  the same path and stamp, and prepares no others;
- `CleanDisk`, `CleanPlan`: with no interruption there is no other posting.

None of the four properties is inductive: WriteMeta turns what InPlan and Captured
say of the plan into OnDisk, which needs that the listed segments are the prepared
ones (Written, Numbered) and no others (Listing); a delta starts from OnDisk through
`BuriedTable` (the document that mark_tombstone finds is all that a path has) and
`ScanFresh` (what the scan leaves alone is up to date); MergeFinalize turns Remapped
into Captured. Each prepared file adds one document by `TableAppend`. Interruptions
cost nothing here since a writer that is not torn leaves the files as OnDisk says.

Its last part is about the readers of StoreReaders: `OpeningSucceeds` (OpenSucceeds)
and `RacedSound` (RacedViewSound), both of `ReadersSpec`, beside which `IInv` and
`SInv` hold too: a reader changes nothing on disk but by ending a writer. `RInv`
looks at what the reader would end up with if nothing more were written: the tables
it has read, those on disk for the others (`DocsAhead`, `PathsAhead`), the postings
it has and those it has still to read (`Reach`). It says that

- `NewOnes`: a delta's postings are of the documents it adds, each with a path in the
  plan's table, which goes on where the one on disk ends;
- `Openable`: while documents keep their numbers no file is missing, and no reader
  has failed;
- `Behind`: what it has read are earlier versions of the tables on disk, by `Grows`
  and a prefix; what it has to read is still listed; every posting within reach has
  its document and path in the tables it will have (`Rooted`);
- `Faithful`: through these, a path is found by contents it may be found by, and if
  no delta touched it by exactly those it had when the opening began;
- `Allowed`: once docs.bin is replaced, the contents a delta brings are allowed for.

RacedViewSound is Faithful at the end of an opening, and not inductive without the
rest: a newer docs.bin leads from old postings to no more than the older one
(`ThroughNewer`), and to as much where the delta leaves a path's documents alone
(`ThroughUnchanged`); a longer paths.bin changes nothing (`ThroughLonger`); the new
segment is reached only by who reads meta.json last, after docs.bin and paths.bin
are the plan's (Replaced), and brings what Allowed says (`WriteMetaKeeps`). A read
leaves all three as they were (`SameAhead`). `WriterKinds` reduces the writers'
actions to four: a delta's three replacements, and the rest, which touch no listed
file. The proof attempt found the exception `stray`: without it `WriteMetaKeeps`
fails, and TLC shows why.

**WatchPipeline_proofs** (`WatchAssumption`): `Types`, `EditsArrive` (Recall) and
`ServesFullScan` (Exact). The last two assume that some indexed file is never
removed (`Initial \ Removable # {}`): a batch for an index of no documents is
dropped (daemon_core.rs:352-354), so without one Recall does not hold of the
code. `KInv` is

- `Kept`: a file whose last edit a watcher saw is carried by some stage (event,
  debouncer, channel, pending batch, batch, contents read, disk), and no deletion
  of it waits in an earlier one;
- `NoDeletes`: no stage has a deletion while none happened;
- `Anchored`: the file that stays keeps the index and the reader from being empty.

Recall is a statement about the pipeline at rest, where only the last stage is
left; each action hands a file from one stage to the next. Normalisation and
merging keep it since a later "created" or "modified" event overrides a deletion
(`TakeEventKept`, `AccumulateKept`); a rebuild, which leaves recorded batches
where they are, keeps it while there are no deletions (hence `Mixed`). For Exact,
`OInv` says that a new file is unknown to every stage after the one that carries
its creation (`NewInQueues`), so that it is added, not replaced, when it is
applied, and has one document ever after (`OneVersion`).

**ChunkedBuild_proofs** (`BuildAssumption`): `Types`, `Progress`
(ProgressIsTold), `Counting` (StopGramsCountAll) and `Implements`
(`Spec => MeetsContract`). `IInv` is TypeOK and

- `Control`: which steps of the two threads coincide; from docs.bin on the
  thread has ended with no error and nothing left to tell;
- `Ordered`: segments go through the channel in ascending order, so none is
  written twice, and the one at hand is partial on disk;
- `AllAccounted`: while nothing has failed, the segment of each document is with
  the caller, in the channel, at the thread, or whole and counted;
- `Tallied`: the segments at each of these places and those told of add up to
  `segment_ids`.

The contract alone is not inductive: that all documents are visible when
meta.json is written follows from AllAccounted with three of its four places
empty, and that they are empty from Control. The refinement has one lemma per
action: WriteMeta is Publish, Process is Accept, the failing Join and failing
writes are Fail, everything else stutters.

**Search_proofs** (`GramAssumption`, `SearchAssumption`). About the index beneath a
search: `NarrowsUntilMergedTwice`,
`GramSpec => []NarrowingComplete`, which is `merges <= 1 => PostingsComplete`. The
invariant says that before the first merge *every* trigram of a live document is posted
(`AllPosted`); a merge keeps PostingsComplete only when AllPosted held, since
it chooses stop-grams by the postings it finds. The bound 1 is sharp: with
`MaxMerges = 2` TLC refutes PostingsComplete (section 6).

About a search, for any requests, matcher, limits and number of candidates:
`MissesNothing` (NothingMissed), `ShowsNothingForeign` (NothingForeign) and
`MeetsLimit` (LimitMet), each `SearchSpec => [](...)`. None of the three is inductive:
they speak of answers only. `SearchInv` adds

- `Documents`: the table numbers finitely many files, and what it says of each is a
  path and a content (that a build numbers the files one after another is `Ranked`, a
  counting argument);
- `Reading`: whatever a query may read of a file, from the disk or from the cache, is
  among the texts seen since it was asked;
- `Candidates`: only admitted documents are read;
- `Entries`: what is collected is meant, by a text seen;
- `Covered`: a document that is due is still to be read, or is found, unless as much
  is found as the limit asks for. A document that a thread of the pool drops is
  dropped by `Enough`, which implies that (`EnoughReached`); an edit only takes
  documents off what is due (`DueShrinks`), because the text seen first stays seen.

When all candidates are gone Covered leaves the two ways NothingMissed and LimitMet
need: every due document has an entry of its own (`AsManyFound`), or the limit is
reached. The theorems stand on `KeepsPromise`; that QueryEngine's recursive lookups
keep it is ImplementsSearch, which TLC checks.

**DaemonLifecycle_proofs** (`LifecycleAssumption`): `Types`, `Single`
(OneDaemon) and `ExitFlushes` (NothingLostByExit). `IInv` is TypeOK and

- `Started`, `Filed`, `Bound`: at each step of its life, who waits for the
  daemon and which files name it;
- `Gone`: no daemon is there when a command forks or removes files;
- `Targeted`: the process that a command waits for or signals is the only daemon;
- `Flushed`: who has ended the watcher processor has nothing pending.

OneDaemon is not inductive: that a fork adds no second daemon needs that
`is_daemon_running` cannot overlook one (Filed), and that stop's removals hit no
other daemon's files needs Targeted.

**ExtensionClient_proofs** (`ClientAssumption`, `ServerAssumption`): `Own`
(OwnAnswer), `OldestFirst` (QueueIsPending), `Trying` (KeepsTrying) and `Types`. For
the first the invariant adds the types of the connections, with
`OwnResponses` for what a handler has sent and what is on its way: each response
is an error or has the id of the request whose answer it carries. OwnAnswer alone
is not inductive, since the client believes whatever id arrives; and a response
without an id, which the client gives to its oldest request, has to be an error.

QueueIsPending is nearly inductive: `QInv` adds that pending requests have
numbers below the counter, so that a new one keeps the queue ascending at its end,
and the lemmas on `Without` say that taking a settled request out takes out that one
only. `TInv` adds the types to KeepsTrying, whose proof goes through the ways an
attempt ends: each leaves a connection, another attempt or a timer, also when the
socket that closes is not the client's.

**TuiClient_proofs** (`ServerAssumption` and TuiClient's own): `Types`, `CachedIsOwn`
(AwaitedCacheIsOwn), `CachedIsFresh` (CacheIsFresh) and `ShownAsked` (ShownIsAsked).
`BInv` holds whatever happens:

- `LinkInv`, `VersionInv`: the connection of App::new is in use until it ends, and
  the daemon has loaded what F5 built, not more;
- `ThreadInv`, `Mutex`: a search thread with a result has given the mutex up, and one
  party at most awaits a response;
- `Cleared`: the cache is empty from the beginning of F5 to its end.

While every response is awaited, `Orderly` adds `InFlight`: the connection carries
nothing, or one message, which is what the holder of the mutex asked or an answer
to it. That replaces the matching of ids, which the client does not do, and none of
the three properties is inductive without it: a result is of its thread's query
(`FoundOwn`) because the response was, and of the index loaded last (`FoundFresh`,
`LoadedInv`) because F5 waits for the searches under way to give up the mutex before
its reload is answered. F5 then searches again for the query in the line, which drops
the receiver of the search before; with none in the line a result that has been sent
is dropped by the next poll, and one that is still in hand (`InHand`) is what
CacheIsFresh excepts by `overtaken`. A reload that is refused leaves the old index
loaded, and F5 does not look (app.rs:583): CacheIsFresh excepts it by `refused`, which
the proof attempt brought to light.

Model-checked only: ImplementsSearch, LookupExact and CutIsLocal, whose operators are
recursive (tlapm has no SMT backend for modules with RECURSIVE, and no induction over
data); and all liveness (fairness and ENABLED are beyond the prover).

## 5. Reading the hazards

PROJECT.json lists what is hard to test at the line where it bites and the
properties that watch it; a hazard without a property says why.

## 6. Where the code departs from what it says

daemon_self_wait is run. The others in this table are stated in the modules and
hold in no run: TLC refutes each when it is added to the cfg named (runs are
kept for what holds).

| Property (module, cfg) | Code | Text |
|---|---|---|
| RunsUnderCallersLock (DaemonIndex, run daemon_self_wait) | the escalation to a rebuild acquires the lock its caller holds (daemon_core.rs:516 under 383) | index_lock.rs:8-10 |
| WritersHoldLock (DaemonIndex, daemon_safety) | a handler that fails to acquire the lock reconciles, reopens and swaps without it (daemon_core.rs:1138); then a reader may be swapped for an older one, below what is cached | index_lock.rs:3-6 |
| ReindexClearsCache (TuiClient, tui) | a search thread unlocks the client before it sends its result (app.rs:398-410); an answer in hand while F5 runs, after Esc, is cached when the query is typed again | app.rs:572 |
| PostingsComplete (GramIndex, query with MaxMerges = 2) | the second compaction counts stop-grams from the postings the first one left (compact.rs:116): older documents are lost to such a trigram | compact.rs:127-128, segment_io.rs:37-39 |
| NothingEditedNothingToDo (IndexStore, store) | the delta stores mtimes in ns (daemon_core.rs:1244), updates compare seconds: files the daemon indexed are indexed again | build.rs:819-820 |
| HitIsCurrentVersion (DaemonIndex, daemon_safety) | a search on the old reader fills the cache after the swap cleared it (daemon_core.rs:732) | SEMANTICS.md:125-127 |
| ReloadIsFresh (DaemonIndex, daemon_safety) | a reload answers with an index another thread opened before (daemon_core.rs:1111-1115) | DAEMON_API.md:364 |
| DeletionsApplied (WatchPipeline, watch) | events of removed files are skipped (daemon_core.rs:1319) | SEMANTICS.md:111-114, README.md:208 |
| CacheIsOwn (TuiClient, tui) | send_recv takes any response (client_unix.rs:123); after the daemon's idle timeout each search shows the answer of the one before | client_unix.rs:118 |
| EitherTermMatches (QueryEngine, query) | an alternative of `\|` without a lookup is not narrowed by, the others are | README.md:285 |

Met while modelling:

- The accept loop sees the shutdown flag at the next connection only and no
  signal is handled: `fxi daemon stop` kills with SIGTERM whatever the daemon is
  at, a flush included; after the extension's Shutdown it lives on
  (daemon_unix.rs:74; DAEMON_API.md:398, OPTIMIZATION_TECHNIQUES.md:448-457).
  Batches still in the watcher's channel are not drained by an exit. A reused PID
  makes `start` refuse and `stop` kill an unrelated program (server/mod.rs:113-132).
- The writers of grams, tokens and line maps drop their BufWriter unflushed: an
  error in their last bytes is not noticed (writer.rs:396-643).
- More than 65,535 chunks start the segment ids over (build.rs:328).
- compact.rs:53 says "Writes merged segment atomically": segment 1 is overwritten
  in place (compact.rs:119-120), under readers that open at that moment; a merge
  without positions leaves an old tokens.positions there. SegmentReader::open
  panics when the directory goes between its `exists` and its open
  (reader.rs:110-118).
- A reader's cleanup of temporary files makes a running delta fail
  (reader.rs:1118), which leads to the escalation above.
- A delta that only deletes writes no segment but lists its number
  (writer.rs:1014-1024, 1055). If a writer was ended after it had written a segment
  under that number, its directory becomes part of the index, and its postings those
  of the next documents: a file is then a candidate for contents of another one,
  which only verification against the file's text takes back.
- F5 ignores whether the daemon's reload succeeded (app.rs:583).
- After an interrupt between docs.bin and meta.json, `fxi index` may say "Index
  is up to date" (build.rs:605) though a file is not found; documents of an
  unfinished delta are answered early, though meta.json "commits the
  transaction" (writer.rs:1167).
- Narrowing by design: a bare word in other case than written is found only as a
  token; a word of two letters, or one of stop-grams only, only inside tokens
  (executor.rs:622-626 says any alphanumeric substring lies in one, which fails
  where a change of case splits it); a phrase of several tokens only where the
  text splits into the same ones.
- `-l` matches a regex against the whole file and ignores `line:` (SEMANTICS.md:71-72).
  `foo-bar` is foo without bar, a stray `)` ends the query, `foo -ext:rs`
  excludes everything, `size:>N` is at least N. A `-` part reports line 1, which
  `line:` then filters. Matches by file name follow neither filters nor `-`.
- With early termination a sorted result is not the true top.
- A modified file's old and new document are both candidates until compaction;
  the cache of files read may hold an older text (SEMANTICS.md:99-101).
- After a reload the old watcher's pending changes and the new watcher's scan
  cross; the served index may lag behind the disk.
- Changes between the reconciling scan and the registration of the watcher are
  seen by neither (daemon_core.rs:1133-1136).
- A file deleted and created again across two debounce windows gets two live
  documents (debouncer.rs:59); a deletion recorded before a rebuild above the
  threshold stays in pending_changes and may tombstone a rebuilt file
  (daemon_core.rs:359).
- Batches for an index of no documents are dropped, loaded or not
  (daemon_core.rs:343-354): PendingIsServed excepts it.
- `fxi index` on a watched root says "watched by the daemon and up to date"
  (main.rs:215-219) while events are still debounced or being applied.
- F5 (app.rs:576) and `fxi remove` (main.rs:252-256) write without the lock that
  SEMANTICS.md:117-119 says all writers hold.
- The id-less timeout error fails the extension's oldest pending request
  (client.ts:161). Two overlapping connects leave a socket whose close
  disconnects the healthy one. A dispose during a connect leaves it connected.
- A request within the pipelining limit may be refused, since a handler is
  counted out after its answer is sent (daemon_unix.rs:182-184).

## 7. Not modelled

- Two writers at once in IndexStore (F5 in the TUI, `fxi remove` and the handler of
  daemon_core.rs:1138 have no lock): each file may then be of either version, and no
  property of the store is left to check. DaemonIndex has such a handler, and lets the
  index be anything from then on. It has neither F5 nor `fxi remove`.
- Several roots on one processor thread; frames cut by a timeout; two lifecycle
  commands at once.
- Rejected files, line maps, snippets, scores and sort order, dates, reading
  characters in the parser, regex syntax beyond literals, `.`, quantifiers,
  alternation and anchors.
- The TUI without a daemon, previews; Windows transport (the same server behind
  named pipes); CLI output, statistics, rendering, webview.

## 8. Order of the modules

The store and the daemon's index came first, as what everything else reads; then
the watch pipeline and the two clients; then the query side, because a search
that misses a match is the one failure a user cannot see; then what IndexStore
takes for granted (ChunkedBuild, SegmentFiles), who opens it meanwhile
(StoreReaders), and the processes around it (DaemonLifecycle). Search was
taken out of QueryEngine when it was to be proved about. Left for later: an
abstract index, replaced whole, that IndexStore implements outside its torn
window; several roots in DaemonIndex.
