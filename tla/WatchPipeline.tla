---------------------------- MODULE WatchPipeline ----------------------------
(***************************************************************************)
(* How an edit of a watched tree becomes a document of the index: the OS   *)
(* event queue, the watcher thread and its debouncer, the message channel, *)
(* the pending batch, and the processor that applies it as a delta segment *)
(* or by a rebuild.  The watcher has just been started on an index that a  *)
(* reconciling scan has brought up to date.                                *)
(*                                                                         *)
(* A file's content is a version number, fresh at every write.  An index   *)
(* is, for each path, the contents of its live documents in document order *)
(* (more than one is a duplicate), and the number of all its documents,    *)
(* the dead ones included.                                                 *)
(***************************************************************************)
EXTENDS Naturals, Sequences, FiniteSets

CONSTANTS Paths,          \* files that are watched: not hidden or ignored
          Initial,        \* those that exist, and are indexed, at the start
          Removable,      \* those that may be deleted
          MaxEdits,       \* bound: changes to the tree
          RebuildPercent, \* rebuild_threshold_percent
          Indexers        \* users run `fxi index --force` beside the daemon

ASSUME WatchAssumption ==
    /\ IsFiniteSet(Paths) /\ Initial \subseteq Paths /\ Removable \subseteq Paths
    /\ MaxEdits \in Nat /\ RebuildPercent \in Nat /\ Indexers \in BOOLEAN

VARIABLES
    fs,        \* the source tree: content of each path
    edits,     \* changes made to it
    watch,     \* the watcher thread: off, starting (not registered) or on
    events,    \* its queue of file events
    debounced, \* EventDebouncer.pending: the kind of change of each path
    channel,   \* ChangesReady messages on their way to the processor
    pending,   \* pending_changes of the root
    pc,        \* next step of the processor
    batch,     \* what it is applying
    todo,      \* the part of it that has not been read
    added,     \* contents read, for each path
    disk,      \* the index on disk
    reader,    \* the index the daemon serves from
    missed,    \* history: paths edited since the daemon's last full scan, and
               \* not since a watcher was registered
    past       \* history: which of "deletion", "rebuild", "index" happened

vars == <<fs, edits, watch, events, debounced, channel, pending, pc, batch, todo,
          added, disk, reader, missed, past>>

tree  == <<fs, edits, missed, past>>
queue == <<watch, events, debounced>>
work  == <<pc, batch, todo, added>>
index == <<disk, reader>>

Absent == 0
Blank  == 1        \* a file with nothing in it yet: never indexed
Indexable(c) == c > Blank

Kinds == {"created", "modified", "deleted"}
Unchanged == "none"

NoBatch == [created |-> {}, modified |-> {}, deleted |-> {}]
NoneAdded == [p \in Paths |-> <<>>]
Quiet == [p \in Paths |-> Unchanged]

---------------------------------------------------------------------------
(* Normalisation of changes *)

\* Seeded fault: a file deleted and created again stays deleted
NormalGone(old, kind) ==
    CASE old = Unchanged -> kind
      [] old = "created" /\ kind = "modified" -> "created"
      [] old = "created" /\ kind = "deleted" -> Unchanged
      [] old = "deleted" -> "deleted"
      [] OTHER -> kind

\* EventDebouncer::add_event: what path is recorded as when an event of this
\* kind follows what is recorded already
Normal(old, kind) ==
    CASE old = Unchanged -> kind
      [] old = "created" /\ kind = "modified" -> "created"
      [] old = "created" /\ kind = "deleted" -> Unchanged
      [] old = "deleted" /\ kind # "deleted" -> "modified"
      [] OTHER -> kind

\* EventDebouncer::flush
BatchOf(d) == [k \in Kinds |-> {p \in Paths : d[p] = k}]

\* Seeded fault: a modified file is recorded though it was just created
MergedBoth(b, c) ==
    LET created  == b.created \cup c.created
        modified == b.modified \cup c.modified
    IN  [created  |-> created \ c.deleted,
         modified |-> modified \ c.deleted,
         deleted  |-> b.deleted \cup c.deleted]

\* ChangeBatch::merge, which adds the files of c one at a time: created,
\* then modified, then deleted
Merged(b, c) ==
    LET created  == b.created \cup c.created
        modified == b.modified \cup (c.modified \ created)
    IN  [created  |-> created \ c.deleted,
         modified |-> modified \ c.deleted,
         deleted  |-> b.deleted \cup c.deleted]

Total(b) == Cardinality(b.created) + Cardinality(b.modified) + Cardinality(b.deleted)

---------------------------------------------------------------------------
(* Indexes *)

Live(ds) == Cardinality(UNION {{p} \X DOMAIN ds[p] : p \in Paths})

Index(ds, count) == [docs |-> ds, count |-> count]

\* A full scan of the tree
Scanned(t) ==
    LET ds == [p \in Paths |-> IF Indexable(t[p]) THEN <<t[p]>> ELSE <<>>]
    IN  Index(ds, Live(ds))

---------------------------------------------------------------------------
(* The tree changes; a registered watcher is told *)

Change(p, content, kind) ==
    /\ edits < MaxEdits /\ edits' = edits + 1
    /\ fs' = [fs EXCEPT ![p] = content]
    /\ IF watch = "on"
       THEN events' = Append(events, <<p, kind>>) /\ missed' = missed \ {p}
       ELSE UNCHANGED events /\ missed' = missed \cup {p}
    /\ past' = IF kind = "deleted" THEN past \cup {"deletion"} ELSE past
    /\ UNCHANGED <<watch, debounced, channel, pending, work, index>>

Create(p) == fs[p] = Absent /\ Change(p, Blank, "created")

\* Written in place, or renamed onto the path
Write(p) == Change(p, edits + 2, "modified")

Remove(p) == p \in Removable /\ fs[p] # Absent /\ Change(p, Absent, "deleted")

---------------------------------------------------------------------------
(* The watcher thread (run_watcher_thread) *)

\* It registers with the OS; events from now on are queued
StartWatcher ==
    /\ watch = "starting"
    /\ watch' = "on"
    /\ UNCHANGED <<tree, events, debounced, channel, pending, work, index>>

\* An event is looked at when it is taken: a path that is no file now is
\* skipped, whatever the event said
TakeEvent ==
    /\ watch = "on" /\ events # <<>>
    /\ events' = Tail(events)
    /\ LET p == Head(events)[1]
           k == Head(events)[2]
       IN  debounced' = IF fs[p] = Absent THEN debounced
                        ELSE [debounced EXCEPT ![p] = Normal(@, k)]
    /\ UNCHANGED <<tree, watch, channel, pending, work, index>>

\* No event was added for the length of the debounce window
Debounce ==
    /\ watch = "on" /\ debounced # Quiet
    /\ channel' = Append(channel, BatchOf(debounced))
    /\ debounced' = Quiet
    /\ UNCHANGED <<tree, watch, events, pending, work, index>>

---------------------------------------------------------------------------
(* The processor (run_watcher_processor) *)

\* accumulate_changes
Accumulate ==
    /\ pc = "idle" /\ channel # <<>>
    /\ pending' = Merged(pending, Head(channel))
    /\ channel' = Tail(channel)
    /\ UNCHANGED <<tree, queue, work, index>>

\* flush_expired_changes and handle_changes.  The share of changes is that
\* of the documents the reader knows of; with none, the batch is dropped.
Flush ==
    /\ pc = "idle" /\ pending # NoBatch
    /\ pending' = NoBatch
    /\ IF reader.count = 0 THEN UNCHANGED <<pc, batch>>
       ELSE /\ batch' = pending
            /\ pc' = IF (Total(pending) * 100) \div reader.count > RebuildPercent
                     THEN "rebuild" ELSE "delta"
    /\ UNCHANGED <<tree, queue, channel, todo, added, index>>

\* apply_incremental_update takes the IndexLock and holds it to the end
StartDelta ==
    /\ pc = "delta" /\ pc' = "read"
    /\ todo' = batch
    /\ UNCHANGED <<tree, queue, channel, pending, batch, added, index>>

\* process_file_for_delta: created files first, then modified ones; a path
\* that is both is read, and added, twice
ReadFile(p) ==
    /\ pc = "read"
    /\ IF todo.created # {}
       THEN p \in todo.created  /\ todo' = [todo EXCEPT !.created = @ \ {p}]
       ELSE p \in todo.modified /\ todo' = [todo EXCEPT !.modified = @ \ {p}]
    /\ added' = IF Indexable(fs[p]) THEN [added EXCEPT ![p] = Append(@, fs[p])] ELSE added
    /\ UNCHANGED <<tree, queue, channel, pending, pc, batch, index>>

\* mark_tombstone: paths that lose their most recent live document
Buried == {p \in batch.deleted \cup batch.modified : disk.docs[p] # <<>>}

WithDelta ==
    [p \in Paths |->
        (IF p \in Buried THEN SubSeq(disk.docs[p], 1, Len(disk.docs[p]) - 1)
         ELSE disk.docs[p]) \o added[p]]

\* Nothing is left of the batch
Done == pc' = "idle" /\ batch' = NoBatch /\ todo' = NoBatch /\ added' = NoneAdded

\* Seeded fault: the reader is not swapped
CommitOnly ==
    /\ pc = "read" /\ todo.created = {} /\ todo.modified = {}
    /\ disk' = Index(WithDelta, disk.count + Live(added))
    /\ Done
    /\ UNCHANGED <<tree, queue, channel, pending, reader>>

\* finalize, compaction if the index is fragmented (IndexStore says when),
\* and the swap of the reader; nothing to write leaves all as it was
Commit ==
    /\ pc = "read" /\ todo.created = {} /\ todo.modified = {}
    /\ IF Buried = {} /\ added = NoneAdded THEN UNCHANGED index
       ELSE /\ \/ disk' = Index(WithDelta, disk.count + Live(added))
               \/ disk' = Index(WithDelta, Live(WithDelta))
            /\ reader' = disk'
    /\ Done
    /\ UNCHANGED <<tree, queue, channel, pending>>

\* trigger_rebuild takes the lock and stops the watcher, whose events go
StopWatcher ==
    /\ pc = "rebuild" /\ pc' = "build"
    /\ watch' = "off" /\ events' = <<>> /\ debounced' = Quiet
    /\ UNCHANGED <<tree, channel, pending, batch, todo, added, index>>

\* A build from the files as they are, and the swap of the reader
Rebuild ==
    /\ pc = "build" /\ pc' = "restart"
    /\ disk' = Scanned(fs) /\ reader' = disk'
    /\ missed' = {} /\ past' = past \cup {"rebuild"}
    /\ UNCHANGED <<fs, edits, queue, channel, pending, batch, todo, added>>

Restart ==
    /\ pc = "restart"
    /\ watch' = "starting"
    /\ Done
    /\ UNCHANGED <<tree, events, debounced, channel, pending, index>>

\* `fxi index --force`, when the processor does not hold the lock
ForceIndex ==
    /\ Indexers /\ pc \in {"idle", "delta", "rebuild"}
    /\ disk' = Scanned(fs)
    /\ past' = past \cup {"index"}
    /\ UNCHANGED <<fs, edits, missed, queue, channel, pending, work, reader>>

---------------------------------------------------------------------------

Init ==
    /\ fs = [p \in Paths |-> IF p \in Initial THEN Blank + 1 ELSE Absent]
    /\ edits = 0 /\ missed = {} /\ past = {}
    /\ watch = "on" /\ events = <<>> /\ debounced = Quiet
    /\ channel = <<>> /\ pending = NoBatch
    /\ pc = "idle" /\ batch = NoBatch /\ todo = NoBatch /\ added = NoneAdded
    /\ disk = Scanned(fs) /\ reader = Scanned(fs)

Watcher == StartWatcher \/ TakeEvent \/ Debounce

Processor ==
    \/ Accumulate \/ Flush
    \/ StartDelta \/ (\E p \in Paths : ReadFile(p)) \/ Commit
    \/ StopWatcher \/ Rebuild \/ Restart

Next ==
    \/ \E p \in Paths : Create(p) \/ Write(p) \/ Remove(p)
    \/ Watcher
    \/ Processor
    \/ ForceIndex

Spec == Init /\ [][Next]_vars

\* The threads run; TakeEvent keeps Debounce waiting only while edits last,
\* and Accumulate does so with Flush
Fairness ==
    /\ WF_vars(StartWatcher) /\ WF_vars(TakeEvent) /\ WF_vars(Debounce)
    /\ WF_vars(Processor) /\ WF_vars(Flush)

FairSpec == Spec /\ Fairness

---------------------------------------------------------------------------
(* Properties *)

Contents == Nat \ {Absent}
Batches  == [Kinds -> SUBSET Paths]
Indexes  == [docs : [Paths -> Seq(Contents)], count : Nat]

\* Every variable has its type, no empty batch is sent, and the processor at
\* rest has nothing left of a batch.
TypeOK ==
    /\ fs \in [Paths -> Nat] /\ edits \in Nat
    /\ missed \subseteq Paths /\ past \subseteq {"deletion", "rebuild", "index"}
    /\ watch \in {"off", "starting", "on"}
    /\ events \in Seq(Paths \X Kinds)
    /\ debounced \in [Paths -> Kinds \cup {Unchanged}]
    /\ channel \in Seq(Batches \ {NoBatch})
    /\ pending \in Batches /\ batch \in Batches /\ todo \in Batches
    /\ added \in [Paths -> Seq(Contents)]
    /\ disk \in Indexes /\ reader \in Indexes
    /\ pc \in {"idle", "delta", "read", "rebuild", "build", "restart"}
    /\ pc = "idle" => batch = NoBatch /\ todo = NoBatch /\ added = NoneAdded

Settled ==
    /\ watch = "on" /\ events = <<>> /\ debounced = Quiet /\ channel = <<>>
    /\ pending = NoBatch /\ pc = "idle"

Holds(ix, p) == \E i \in DOMAIN ix.docs[p] : ix.docs[p][i] = fs[p]

\* A deletion that was recorded (its file was back when the event was taken)
\* and a rebuild do not go together: the recorded batch may be applied to the
\* rebuilt index and tombstone the file it has just read.
Mixed == {"deletion", "rebuild"} \subseteq past

\* Once everything has been processed, every file whose last edit a watcher
\* was there to see is indexed with its present content: no debouncing,
\* merging or skipping of events, and no index built beside the daemon, loses
\* the last version.
Recall ==
    (Settled /\ ~Mixed) => \A p \in Paths \ missed : Indexable(fs[p]) => Holds(disk, p)

\* With nothing deleted, nothing rebuilt and nobody else indexing, the index
\* served is exactly a full scan's: no file under two documents, none under
\* an old content.
Exact == (Settled /\ past = {}) => reader.docs = Scanned(fs).docs

\* A file that keeps its content is served in the end.
ServedInTheEnd ==
    \A p \in Paths :
        <>[](p \in missed \/ Mixed \/ (Indexable(fs[p]) => Holds(reader, p)))

\* ---- What a doc says and the code does not do ----

\* "the daemon first reconciles the index with one incremental scan ... then
\* applies file events": a file that is gone is not indexed.
DeletionsApplied == Settled => \A p \in Paths : fs[p] = Absent => disk.docs[p] = <<>>
=============================================================================
