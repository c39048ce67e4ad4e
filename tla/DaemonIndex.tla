---------------------------- MODULE DaemonIndex ----------------------------
(***************************************************************************)
(* One codebase root inside the daemon: the map of loaded indexes, the     *)
(* cached instance with its reader, result caches and file watcher, the    *)
(* connection threads that search and reload it, the watcher-message       *)
(* processor that flushes observed changes, and a CLI indexer beside them. *)
(*                                                                         *)
(* The source tree is the set of edits made to it, an index is the set of  *)
(* edits it reflects, and a reader is the index it was opened on: one is   *)
(* older than another when it is a smaller set.  How files become an index *)
(* is module IndexStore's subject; here every write replaces it whole, as  *)
(* long as one writer is at work at a time.                                *)
(*                                                                         *)
(* `indexes` is an RwLock; its short read sections are single steps, and   *)
(* the one held across several, around set_pending_reader, is ReadLocked.  *)
(***************************************************************************)
EXTENDS Naturals, FiniteSets

CONSTANTS Handlers,    \* connection threads
          Processor,   \* the watcher-message processor thread
          Cli,         \* `fxi index` run by a user
          None,        \* no instance, no lock holder, no cache entry
          Instances,   \* CachedIndex objects, reused once dropped
          Queries,     \* keys of the query cache
          Contents,    \* keys of the content cache
          Reload,      \* the Reload request
          CacheSize,   \* entries of each cache
          Edits,       \* bound: edits to the tree, each to a file of its own
          Empties,     \* indexes of no documents: no file is left to be indexed
          Watch,       \* the daemon runs with --watch
          Rebuilds,    \* batches may exceed the rebuild threshold
          Indexers,    \* users run `fxi index`
          Reloads,     \* clients send Reload requests
          MaxFailures  \* bound: I/O errors of index reads and writes

ASSUME DaemonAssumption ==
    /\ IsFiniteSet(Handlers) /\ IsFiniteSet(Instances) /\ IsFiniteSet(Edits)
    /\ Processor \notin Handlers /\ Cli \notin Handlers \cup {Processor}
    /\ None \notin Handlers \cup {Processor, Cli} \cup Instances
    /\ \A answer \in SUBSET Edits : answer # None
    /\ Queries \cap Contents = {} /\ Reload \notin Queries \cup Contents
    /\ Empties \subseteq SUBSET Edits
    /\ CacheSize \in Nat \ {0} /\ MaxFailures \in Nat
    /\ Watch \in BOOLEAN /\ Rebuilds \in BOOLEAN /\ Indexers \in BOOLEAN
    /\ Reloads \in BOOLEAN

VARIABLES
    edited,   \* the tree: edits made so far
    disk,     \* the index on disk: edits it reflects
    lock,     \* holder of the IndexLock
    current,  \* the root's entry in `indexes`
    reader,   \* CachedIndex.reader of each instance
    cache,    \* CachedIndex.query_cache and content_cache: key -> answer
    watch,    \* watcher_handle: off, starting (not yet registered) or on
    seen,     \* events in the watcher's debouncer
    pending,  \* batches sent to the processor or waiting in pending_changes
    batch,    \* what the processor is applying
    rebuild,  \* the processor is in trigger_rebuild
    pc,       \* next step of each thread
    job,      \* the request a handler serves
    inst,     \* the handler's own Arc of an instance
    rd,       \* the reader a thread has in hand
    since,    \* history: the index on disk when a reload was requested
    failures, \* I/O errors so far
    past      \* history: which of "reload", "index" (by the CLI) and
              \* "unlocked" (a handler wrote without the lock) happened

vars == <<edited, disk, lock, current, reader, cache, watch, seen, pending,
          batch, rebuild, pc, job, inst, rd, since, failures, past>>

store    == <<edited, disk>>
object   == <<reader, cache, watch, seen>>
channel  == <<pending, batch, rebuild>>
request  == <<job, inst, since>>
history  == <<failures, past>>

Procs    == Handlers \cup {Processor}
Searches == Queries \cup Contents
Empty    == [k \in Searches |-> None]

\* Steps of ensure_index_loaded and the two handlers, and of the processor
HandlerSteps == {"idle", "remove", "check", "loaded", "open", "insert", "watch",
                 "lock", "reconcile", "reopen", "swap", "clearq", "clearc",
                 "spawn", "get", "reader", "lookup", "put"}
ProcessorSteps == {"idle", "count", "dlock", "apply", "rlock", "stop", "build",
                   "reopen", "swap", "clearq", "clearc", "spawn"}

---------------------------------------------------------------------------
(* Shared pieces *)

Goto(u, step) == pc' = [pc EXCEPT ![u] = step]

\* set_pending_reader runs under a read guard of `indexes`
ReadLocked == \E u \in Procs : pc[u] \in {"clearq", "clearc"}

Holders(i) == {t \in Handlers : inst[t] = i}

IsWatching(i) == watch[i] # "off"

StopWatcher(i) ==
    /\ watch' = [watch EXCEPT ![i] = "off"]
    /\ seen'  = [seen EXCEPT ![i] = {}]

\* The last Arc of instance i goes, and with it the watcher handle, whose
\* Drop stops the thread; what its debouncer holds is lost
DropInstance(i) ==
    /\ reader' = [reader EXCEPT ![i] = {}]
    /\ cache'  = [cache EXCEPT ![i] = Empty]
    /\ StopWatcher(i)

\* The request is answered, and the handler's Arc released
Finish(t) ==
    /\ Goto(t, "idle")
    /\ job'   = [job EXCEPT ![t] = None]
    /\ inst'  = [inst EXCEPT ![t] = None]
    /\ rd'    = [rd EXCEPT ![t] = {}]
    /\ since' = [since EXCEPT ![t] = {}]

\* IndexLock::acquire, once the lock is free, and its Drop
Acquire(u) == lock = None /\ lock' = u
Release(u) == lock' = IF lock = u THEN None ELSE lock

IOError == failures < MaxFailures /\ failures' = failures + 1

\* Every writer so far had the lock
Locked == "unlocked" \notin past

\* An I/O error, or what writers at work at the same time have left
Failure == (IOError \/ (~Locked /\ UNCHANGED failures)) /\ UNCHANGED past

\* A writer leaves the index as it means to.  Writers at work at the same time
\* mix their files, and the updates that follow build on them: any edits may
\* then be in it.
Leaves(index) == disk' = index \/ (~Locked /\ disk' \in SUBSET edited)

LastHolder(t) == inst[t] # current /\ inst[t] # None /\ Holders(inst[t]) = {t}

---------------------------------------------------------------------------
(* A request arrives (handle_request) *)

Request(t, j) ==
    /\ pc[t] = "idle" /\ (j = Reload => Reloads)
    /\ job' = [job EXCEPT ![t] = j]
    /\ since' = [since EXCEPT ![t] = IF j = Reload THEN disk ELSE {}]
    /\ past' = IF j = Reload THEN past \cup {"reload"} ELSE past
    /\ Goto(t, IF j = Reload THEN "remove" ELSE "check")
    /\ UNCHANGED <<store, lock, current, object, channel, inst, rd, failures>>

\* handle_reload drops the map's entry
Remove(t) ==
    /\ pc[t] = "remove" /\ ~ReadLocked
    /\ current' = None
    /\ IF current # None /\ Holders(current) = {}
       THEN DropInstance(current) ELSE UNCHANGED object
    /\ Goto(t, "check")
    /\ UNCHANGED <<store, lock, channel, request, rd, history>>

---------------------------------------------------------------------------
(* ensure_index_loaded *)

Check(t) ==
    /\ pc[t] = "check"
    /\ Goto(t, IF current # None /\ (Watch => IsWatching(current))
               THEN "get" ELSE "loaded")
    /\ UNCHANGED <<store, lock, current, object, channel, request, rd, history>>

Loaded(t) ==
    /\ pc[t] = "loaded"
    /\ Goto(t, IF current # None THEN "watch" ELSE "open")
    /\ UNCHANGED <<store, lock, current, object, channel, request, rd, history>>

\* The cold load takes no lock; it may fail while a writer is at work
Open(t) ==
    /\ pc[t] = "open"
    /\ \/ /\ rd' = [rd EXCEPT ![t] = disk]
          /\ Goto(t, "insert")
          /\ UNCHANGED request
       \/ (lock # None \/ ~Locked) /\ Finish(t)
    /\ UNCHANGED <<store, lock, current, object, channel, history>>

\* The loser of a race to load drops its reader
Insert(t) ==
    /\ pc[t] = "insert" /\ ~ReadLocked
    /\ IF current # None THEN UNCHANGED <<current, object>>
       ELSE \E i \in {j \in Instances : Holders(j) = {}} :
              /\ current' = i
              /\ reader' = [reader EXCEPT ![i] = rd[t]]
              /\ cache'  = [cache EXCEPT ![i] = Empty]
              /\ StopWatcher(i)
    /\ rd' = [rd EXCEPT ![t] = {}]
    /\ Goto(t, "watch")
    /\ UNCHANGED <<store, lock, channel, request, history>>

WatchCheck(t) ==
    /\ pc[t] = "watch"
    /\ Goto(t, IF Watch /\ current # None /\ ~IsWatching(current)
               THEN "lock" ELSE "get")
    /\ UNCHANGED <<store, lock, current, object, channel, request, rd, history>>

\* Seeded fault: `let _ = IndexLock::acquire(...)` drops the lock at once
LockDropped(t) ==
    /\ pc[t] = "lock" /\ lock = None
    /\ Goto(t, "reconcile")
    /\ UNCHANGED <<store, lock, current, object, channel, request, rd, history>>

\* Nobody looks at the result of the acquire: a handler that did not get the
\* lock goes on without it
Lock(t) ==
    /\ pc[t] = "lock"
    /\ \/ Acquire(t) /\ UNCHANGED history
       \/ IOError /\ past' = past \cup {"unlocked"} /\ UNCHANGED lock
    /\ Goto(t, "reconcile")
    /\ UNCHANGED <<store, current, object, channel, request, rd>>

\* Seeded fault: the reader is not swapped after the scan
ReconcileOnly(t) ==
    /\ pc[t] = "reconcile"
    /\ disk' = edited /\ Goto(t, "spawn")
    /\ UNCHANGED <<edited, lock, current, object, channel, request, rd, history>>

\* update_index; a failed reconcile still goes on to watch
Reconcile(t) ==
    /\ pc[t] = "reconcile"
    /\ \/ Leaves(edited) /\ Goto(t, "reopen") /\ UNCHANGED history
       \/ Failure /\ Leaves(disk) /\ Goto(t, "spawn")
    /\ UNCHANGED <<edited, lock, current, object, channel, request, rd>>

---------------------------------------------------------------------------
(* Hot swap of the reader, by a reconciling handler or by the processor,   *)
(* which holds the IndexLock                                               *)

\* The processor's delta path ends here; the others start a watcher
Restarts(u) == u # Processor \/ rebuild

\* Seeded fault: the delta path keeps the lock
AfterSwapLocked(u) ==
    IF Restarts(u) THEN Goto(u, "spawn") /\ UNCHANGED <<lock, batch>>
    ELSE Goto(u, "idle") /\ batch' = {} /\ UNCHANGED lock

AfterSwap(u) ==
    IF Restarts(u) THEN Goto(u, "spawn") /\ UNCHANGED <<lock, batch>>
    ELSE Goto(u, "idle") /\ Release(u) /\ batch' = {}

\* The processor gives up the batch, and with it the lock if it holds it
Abandon == Goto(Processor, "idle") /\ batch' = {} /\ rebuild' = FALSE /\ Release(Processor)

\* A rebuild whose result cannot be opened starts no watcher
Reopen(u) ==
    /\ pc[u] = "reopen"
    /\ \/ /\ rd' = [rd EXCEPT ![u] = disk]
          /\ Goto(u, "swap")
          /\ UNCHANGED <<lock, batch, rebuild, history>>
       \/ /\ Failure
          /\ IF u = Processor THEN Abandon
             ELSE Goto(u, "spawn") /\ UNCHANGED <<lock, batch, rebuild>>
          /\ UNCHANGED rd
    /\ UNCHANGED <<store, current, object, pending, request>>

Swap(u) ==
    /\ pc[u] = "swap"
    /\ IF current = None
       THEN AfterSwap(u) /\ UNCHANGED reader
       ELSE /\ reader' = [reader EXCEPT ![current] = rd[u]]
            /\ Goto(u, "clearq") /\ UNCHANGED <<lock, batch>>
    /\ rd' = [rd EXCEPT ![u] = {}]
    /\ UNCHANGED <<store, current, cache, watch, seen, pending, rebuild, request, history>>

Cleared(i, keys) ==
    cache' = [cache EXCEPT ![i] = [k \in Searches |-> IF k \in keys THEN None ELSE @[k]]]

ClearQueries(u) ==
    /\ pc[u] = "clearq"
    /\ Cleared(current, Queries)
    /\ Goto(u, "clearc")
    /\ UNCHANGED <<store, lock, current, reader, watch, seen, channel, request, rd, history>>

ClearContents(u) ==
    /\ pc[u] = "clearc"
    /\ Cleared(current, Contents)
    /\ AfterSwap(u)
    /\ UNCHANGED <<store, current, reader, watch, seen, pending, rebuild, request, rd, history>>

\* spawn_watcher, then the IndexLock is dropped.  A handle already there is
\* replaced: its watcher is stopped.
Spawn(u) ==
    /\ pc[u] = "spawn"
    /\ IF current = None THEN UNCHANGED <<watch, seen>>
       ELSE /\ watch' = [watch EXCEPT ![current] = "starting"]
            /\ seen'  = [seen EXCEPT ![current] = {}]
    /\ Release(u)
    /\ IF u = Processor
       THEN Goto(u, "idle") /\ batch' = {} /\ rebuild' = FALSE
       ELSE Goto(u, "get") /\ UNCHANGED <<batch, rebuild>>
    /\ UNCHANGED <<store, current, reader, cache, pending, request, rd, history>>

---------------------------------------------------------------------------
(* handle_search and handle_content_search, once the index is loaded *)

\* A reload answers here; a search takes its own Arc of the instance, and
\* fails when the entry has been removed meanwhile
Get(t) ==
    /\ pc[t] = "get"
    /\ IF job[t] = Reload \/ current = None
       THEN Finish(t)
       ELSE /\ inst' = [inst EXCEPT ![t] = current]
            /\ Goto(t, "reader")
            /\ UNCHANGED <<job, since, rd>>
    /\ UNCHANGED <<store, lock, current, object, channel, history>>

\* Seeded fault: the search opens the index afresh
GetReaderAfresh(t) ==
    /\ pc[t] = "reader"
    /\ rd' = [rd EXCEPT ![t] = disk]
    /\ Goto(t, "lookup")
    /\ UNCHANGED <<store, lock, current, object, channel, request, history>>

GetReader(t) ==
    /\ pc[t] = "reader"
    /\ rd' = [rd EXCEPT ![t] = reader[inst[t]]]
    /\ Goto(t, "lookup")
    /\ UNCHANGED <<store, lock, current, object, channel, request, history>>

Entry(t) == cache[inst[t]][job[t]]

Leave(t) ==
    /\ Finish(t)
    /\ IF LastHolder(t) THEN DropInstance(inst[t]) ELSE UNCHANGED object

Hit(t) ==
    /\ pc[t] = "lookup" /\ Entry(t) # None
    /\ Leave(t)
    /\ UNCHANGED <<store, lock, current, channel, history>>

Miss(t) ==
    /\ pc[t] = "lookup" /\ Entry(t) = None
    /\ Goto(t, "put")
    /\ UNCHANGED <<store, lock, current, object, channel, request, rd, history>>

\* Keys of the cache that k lives in
Sharing(k) == IF k \in Queries THEN Queries ELSE Contents

\* A full cache evicts its least recently used entry: here, any entry
Victims(i, k) ==
    LET held == {q \in Sharing(k) : cache[i][q] # None}
    IN  IF k \in held \/ Cardinality(held) < CacheSize THEN {k} ELSE held

\* The query runs on the reader in hand, and its result is cached
Put(t) ==
    /\ pc[t] = "put"
    /\ Finish(t)
    /\ IF LastHolder(t) THEN DropInstance(inst[t])
       ELSE /\ \E v \in Victims(inst[t], job[t]) :
                  cache' = [cache EXCEPT ![inst[t]] =
                               [@ EXCEPT ![v] = None, ![job[t]] = rd[t]]]
            /\ UNCHANGED <<reader, watch, seen>>
    /\ UNCHANGED <<store, lock, current, channel, history>>

\* A query that parses to nothing, or fails, is answered and not cached
GiveUp(t) ==
    /\ pc[t] = "put"
    /\ Leave(t)
    /\ UNCHANGED <<store, lock, current, channel, history>>

---------------------------------------------------------------------------
(* The tree, the watchers and the CLI *)

\* An edit reaches every watcher that is registered
Edit(e) ==
    /\ e \notin edited
    /\ edited' = edited \cup {e}
    /\ seen' = [i \in Instances |-> IF watch[i] = "on" THEN seen[i] \cup {e} ELSE seen[i]]
    /\ UNCHANGED <<disk, lock, current, reader, cache, watch, channel, pc, request, rd, history>>

\* run_watcher_thread registers with the OS, or fails and ends
StartWatcher(i) ==
    /\ watch[i] = "starting"
    /\ \/ watch' = [watch EXCEPT ![i] = "on"] /\ UNCHANGED history
       \/ watch' = [watch EXCEPT ![i] = "off"] /\ IOError /\ UNCHANGED past
    /\ UNCHANGED <<store, lock, current, reader, cache, seen, channel, pc, request, rd>>

\* The debounce window closes: ChangesReady, then accumulate_changes
Debounced(i) ==
    /\ seen[i] # {}
    /\ pending' = pending \cup seen[i]
    /\ seen' = [seen EXCEPT ![i] = {}]
    /\ UNCHANGED <<store, lock, current, reader, cache, watch, batch, rebuild,
                   pc, request, rd, history>>

CliLock ==
    /\ Indexers /\ Acquire(Cli)
    /\ UNCHANGED <<store, current, object, channel, pc, request, rd, history>>

\* The scan captures the tree, or the indexer is killed
CliIndex ==
    /\ lock = Cli
    /\ Leaves(edited) \/ UNCHANGED disk
    /\ Release(Cli)
    /\ past' = past \cup {"index"}
    /\ UNCHANGED <<edited, current, object, channel, pc, request, rd, failures>>

---------------------------------------------------------------------------
(* The processor (run_watcher_processor, flush_pending_changes) *)

Take ==
    /\ pc[Processor] = "idle" /\ pending # {}
    /\ batch' = pending /\ pending' = {}
    /\ Goto(Processor, "count")
    /\ UNCHANGED <<store, lock, current, object, rebuild, request, rd, history>>

\* The document count of the loaded index, 0 without one
NoDocuments == current # None => reader[current] \in Empties

\* handle_changes: the batch for an index of no documents is discarded
Count ==
    /\ pc[Processor] = "count"
    /\ \/ NoDocuments /\ batch' = {} /\ Goto(Processor, "idle")
       \/ ~NoDocuments /\ Goto(Processor, "dlock") /\ UNCHANGED batch
       \/ ~NoDocuments /\ Rebuilds /\ Goto(Processor, "rlock") /\ UNCHANGED batch
    /\ UNCHANGED <<store, lock, current, object, pending, rebuild, request, rd, history>>

DeltaLock ==
    /\ pc[Processor] = "dlock"
    /\ \/ Acquire(Processor) /\ Goto(Processor, "apply") /\ UNCHANGED <<batch, rebuild, history>>
       \/ IOError /\ Abandon /\ UNCHANGED past
    /\ UNCHANGED <<store, current, object, pending, request, rd>>

\* Seeded fault: the delta is written and the reader left as it is
ApplyOnly ==
    /\ pc[Processor] = "apply"
    /\ disk' = disk \cup batch /\ lock' = None /\ batch' = {}
    /\ Goto(Processor, "idle")
    /\ UNCHANGED <<edited, current, object, pending, rebuild, request, rd, history>>

\* apply_incremental_update up to the reload.  An error before or after the
\* delta is written calls trigger_rebuild, with the lock still held.
Apply ==
    /\ pc[Processor] = "apply"
    /\ \/ Leaves(disk \cup batch) /\ Goto(Processor, "reopen") /\ UNCHANGED history
       \/ /\ Leaves(disk) \/ Leaves(disk \cup batch)
          /\ Failure /\ Goto(Processor, "rlock")
    /\ UNCHANGED <<edited, lock, current, object, channel, request, rd>>

\* trigger_rebuild acquires the lock through a file handle of its own
RebuildLock ==
    /\ pc[Processor] = "rlock"
    /\ \/ /\ Acquire(Processor) /\ rebuild' = TRUE
          /\ Goto(Processor, "stop") /\ UNCHANGED <<batch, history>>
       \/ IOError /\ Abandon /\ UNCHANGED past
    /\ UNCHANGED <<store, current, object, pending, request, rd>>

Stop ==
    /\ pc[Processor] = "stop"
    /\ IF current = None THEN UNCHANGED <<watch, seen>> ELSE StopWatcher(current)
    /\ Goto(Processor, "build")
    /\ UNCHANGED <<store, lock, current, reader, cache, channel, request, rd, history>>

\* A failed rebuild returns with the watcher stopped
Build ==
    /\ pc[Processor] = "build"
    /\ \/ /\ Leaves(edited)
          /\ Goto(Processor, "reopen")
          /\ UNCHANGED <<lock, batch, rebuild, history>>
       \/ Failure /\ Leaves(disk) /\ Abandon
    /\ UNCHANGED <<edited, current, object, pending, request, rd>>

---------------------------------------------------------------------------

Init ==
    /\ edited = {} /\ disk = {} /\ lock = None /\ current = None
    /\ reader  = [i \in Instances |-> {}]
    /\ cache   = [i \in Instances |-> Empty]
    /\ watch   = [i \in Instances |-> "off"]
    /\ seen    = [i \in Instances |-> {}]
    /\ pending = {} /\ batch = {} /\ rebuild = FALSE
    /\ pc      = [u \in Procs |-> "idle"]
    /\ job     = [t \in Handlers |-> None]
    /\ inst    = [t \in Handlers |-> None]
    /\ rd      = [u \in Procs |-> {}]
    /\ since   = [t \in Handlers |-> {}]
    /\ failures = 0 /\ past = {}

\* Blocks on the IndexLock, or on the write lock of `indexes`
Blocking(t) == Remove(t) \/ Insert(t) \/ Lock(t)

Swapping(u) == Reopen(u) \/ Swap(u) \/ ClearQueries(u) \/ ClearContents(u) \/ Spawn(u)

Serve(t) ==
    \/ Check(t) \/ Loaded(t) \/ Open(t) \/ WatchCheck(t) \/ Reconcile(t)
    \/ Swapping(t)
    \/ Get(t) \/ GetReader(t) \/ Hit(t) \/ Miss(t) \/ Put(t) \/ GiveUp(t)

Process ==
    \/ Take \/ Count \/ Apply \/ Stop \/ Build
    \/ Swapping(Processor)

Next ==
    \/ \E t \in Handlers, j \in Searches \cup {Reload} : Request(t, j)
    \/ \E t \in Handlers : Serve(t) \/ Blocking(t)
    \/ Process \/ DeltaLock \/ RebuildLock
    \/ \E e \in Edits : Edit(e)
    \/ \E i \in Instances : StartWatcher(i) \/ Debounced(i)
    \/ CliLock \/ CliIndex

Spec == Init /\ [][Next]_vars

\* Threads run; waiters on flock and on the RwLock are woken in turn
Fairness ==
    /\ \A t \in Handlers : WF_vars(Serve(t)) /\ SF_vars(Remove(t))
                           /\ SF_vars(Insert(t)) /\ SF_vars(Lock(t))
    /\ WF_vars(Process) /\ SF_vars(DeltaLock) /\ SF_vars(RebuildLock)
    /\ \A i \in Instances : WF_vars(StartWatcher(i)) /\ WF_vars(Debounced(i))
    /\ WF_vars(CliIndex)

FairSpec == Spec /\ Fairness

---------------------------------------------------------------------------
(* Properties *)

Answers == SUBSET Edits

\* Every variable has its type.
TypeOK ==
    /\ edited \in Answers /\ disk \in Answers
    /\ lock \in Handlers \cup {Processor, Cli, None}
    /\ current \in Instances \cup {None}
    /\ reader \in [Instances -> Answers]
    /\ cache \in [Instances -> [Searches -> {None} \cup Answers]]
    /\ watch \in [Instances -> {"off", "starting", "on"}]
    /\ seen \in [Instances -> Answers]
    /\ pending \in Answers /\ batch \in Answers /\ rebuild \in BOOLEAN
    /\ pc \in [Procs -> HandlerSteps \cup ProcessorSteps]
    /\ job \in [Handlers -> Searches \cup {Reload, None}]
    /\ inst \in [Handlers -> Instances \cup {None}]
    /\ rd \in [Procs -> Answers]
    /\ since \in [Handlers -> Answers]
    /\ failures \in Nat /\ past \subseteq {"reload", "index", "unlocked"}

\* As long as every writer had the IndexLock, a cached result is never newer
\* than the instance's own reader, however a search overlaps reloads, swaps and
\* the reuse of instances: results go to the instance they were computed on
\* (handle_search's own Arc).
CacheNeverAhead ==
    Locked => \A i \in Instances, k \in Searches :
                  cache[i][k] # None => cache[i][k] \subseteq reader[i]

\* ... and the reader of the instance that serves the root never goes back to an
\* older index: whoever has the lock opens and swaps under one holding of it.
ReaderMonotone ==
    [][\A i \in Instances :
          (Locked /\ current = i /\ current' = i) => reader[i] \subseteq reader'[i]]_vars

\* While nothing failed, no reload was asked for and nobody else indexed, a
\* root that is being watched is served from the index on disk whenever
\* nobody holds the lock ("reconciles each root with one incremental scan
\* when its watcher starts, then applies file events").
ServedIsOnDisk ==
    (past = {} /\ failures = 0 /\ lock = None /\ current # None /\ IsWatching(current))
        => reader[current] = disk

\* Every request is answered: nobody waits for ever on the IndexLock or on
\* the write lock of `indexes`.
Answered == \A t \in Handlers : (pc[t] # "idle") ~> (pc[t] = "idle")

\* A change that reached the processor is served, unless nothing is loaded or
\* the loaded index has no documents: a batch discarded because its root was
\* being reloaded is made up for by the reconciling scan of the reload.
PendingIsServed ==
    \A e \in Edits : (e \in pending) ~> (NoDocuments \/ e \in reader[current])

\* ---- What a comment or a doc says and the code does not do ----

\* "A cache hit returns the previous result for the same index version; any
\* index update clears the cache": a result served from the cache is what
\* the instance's reader would give.
HitIsCurrentVersion ==
    [][\A t \in Handlers : Hit(t) => Entry(t) = reader[inst[t]]]_vars

\* "Force the daemon to reload the index for a codebase from disk": what is
\* served when a reload answers is no older than what was on disk when it
\* was asked for.
ReloadIsFresh ==
    [][\A t \in Handlers :
          (Get(t) /\ job[t] = Reload /\ current # None) => since[t] \subseteq reader[current]]_vars

\* "nested operations (an incremental update escalating to a full rebuild,
\* or triggering compaction) run under their caller's lock": no thread waits
\* for a lock it holds.
RunsUnderCallersLock == ~(pc[Processor] = "rlock" /\ lock = Processor)

\* "Anything that writes to an index [...] must hold this advisory lock so a CLI
\* `fxi index` can never interleave segment/meta writes with a watching daemon's
\* flush" (index_lock.rs:3-6).
WritersHoldLock == \A u \in Procs : pc[u] \in {"reconcile", "apply", "build"} => lock = u
=============================================================================
