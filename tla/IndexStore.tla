----------------------------- MODULE IndexStore -----------------------------
(***************************************************************************)
(* The on-disk index of one codebase root and the operations that rewrite  *)
(* it: full build, incremental update, the daemon's flush of watched       *)
(* changes, and compaction.  One writer runs at a time (IndexLock); each   *)
(* writer prepares its new files in memory and then replaces segments,     *)
(* docs.bin, paths.bin and meta.json in that order.  A writer may be cut   *)
(* short between any two of these replacements.                            *)
(*                                                                         *)
(* A file's content is a version number, fresh at every write; its mtime   *)
(* is the same number.  A segment is the set of postings <<doc, content>>. *)
(* docs.bin is a sequence: every writer numbers documents 1, 2, ..., so a  *)
(* doc id is a position.                                                   *)
(***************************************************************************)
EXTENDS Naturals, Sequences, FiniteSets

CONSTANTS Paths,          \* relative paths of files under the root
          NoFile,         \* what a missing index file reads as
          MaxEdits,       \* bound: writes to source files
          ChunkSize,      \* files per segment of a full build
          RebuildPercent, \* changes above this share of the index rebuild it
          CompactPercent, \* tombstones above this share compact it
          MergeThreshold, \* so many new delta segments compact it
          MaxInterrupts,  \* bound: writers killed, or ended by an I/O error
          Daemon          \* a watching daemon flushes batches

ASSUME StoreAssumption ==
    /\ IsFiniteSet(Paths)
    /\ MaxEdits \in Nat
    /\ ChunkSize \in Nat \ {0}
    /\ RebuildPercent \in Nat
    /\ CompactPercent \in Nat
    /\ MergeThreshold \in Nat \ {0}
    /\ MaxInterrupts \in Nat
    /\ Daemon \in BOOLEAN

VARIABLES
    fs,      \* the source tree: content of each path, Absent if none
    clock,   \* the last content written
    dir,     \* the index directory exists
    meta,    \* meta.json
    docs,    \* docs.bin
    paths,   \* paths.bin
    segs,    \* segment directories: id -> postings
    op,      \* what the lock holder is doing
    pc,      \* its next step
    plan,    \* what it has prepared in memory
    cuts,    \* how many writers were interrupted
    dirty,   \* history: paths edited since an update last captured them
    torn     \* history: a writer was cut short between its first and last
             \* replacement, and no full build has completed since

tree  == <<fs, clock>>
disk  == <<dir, meta, docs, paths, segs>>
vars  == <<fs, clock, dir, meta, docs, paths, segs, op, pc, plan, cuts, dirty, torn>>

Absent == 0

---------------------------------------------------------------------------
(* Data *)

\* Document.mtime: full builds and `fxi index` store seconds, the daemon's
\* flush stores nanoseconds; no positive file time is the same number in both
Stamp == [unit : {"s", "ns"}, at : Nat]

\* Document: size, language and segment id play no part in a lookup
Doc == [path : Nat, mtime : Stamp, live : BOOLEAN]

\* IndexMeta: base is 0 when there is no base segment
Meta == [base : Nat, deltas : Seq(Nat), baseline : Nat,
         docCount : Nat, tombstones : Nat]

\* Documents whose entry in the path table is p
DocsOf(ds, ps, p) ==
    {d \in DOMAIN ds : ds[d].path < Len(ps) /\ ps[ds[d].path + 1] = p}

LiveDocsOf(ds, ps, p) == {d \in DocsOf(ds, ps, p) : ds[d].live}

Tombstones(ds) == Cardinality({d \in DOMAIN ds : ~ds[d].live})

\* Segments a reader loads: those meta.json lists
SegmentsOf(m) ==
    {m.deltas[i] : i \in DOMAIN m.deltas} \cup
    (IF m.base = 0 THEN {} ELSE {m.base})

\* A missing file is no file's content
ASSUME NoFileAssumption ==
    NoFile \notin Meta /\ NoFile \notin Seq(Doc) /\ NoFile \notin Seq(Paths)

---------------------------------------------------------------------------
(* What a reader that opens the index now would answer from *)

\* IndexReader::open fails without all three of these
Readable == meta # NoFile /\ docs # NoFile /\ paths # NoFile

\* Postings of the listed segments whose directory exists: a missing one is
\* skipped without an error
Loaded == UNION {segs[s] : s \in SegmentsOf(meta) \cap DOMAIN segs}

\* The contents under which a query reaches path p
Found(p) == {x[2] : x \in {y \in Loaded : y[1] \in LiveDocsOf(docs, paths, p)}}

Listed(p) == LiveDocsOf(docs, paths, p)

---------------------------------------------------------------------------
(* The scan of `fxi index` (compute_index_diff) *)

\* valid_doc_ids is ascending, so the last live document of a path wins
IndexedStamp(p) ==
    docs[CHOOSE d \in Listed(p) : \A e \in Listed(p) : e <= d].mtime

SecondsOf(p) == [unit |-> "s", at |-> fs[p]]

\* Seeded fault: a file is known once it has any document, dead or alive
NewFilesByPath == {p \in Paths : fs[p] # Absent /\ DocsOf(docs, paths, p) = {}}

NewFiles      == {p \in Paths : fs[p] # Absent /\ Listed(p) = {}}
ModifiedFiles == {p \in Paths : /\ fs[p] # Absent
                                /\ Listed(p) # {}
                                /\ IndexedStamp(p) # SecondsOf(p)}
DeletedFiles  == {p \in Paths : fs[p] = Absent /\ Listed(p) # {}}

Changed == NewFiles \cup ModifiedFiles \cup DeletedFiles

\* changes * 100 / count, 100 when there is nothing to divide by
Percent(n, count) == IF count = 0 THEN 100 ELSE (n * 100) \div count

IndexedCount == Cardinality({p \in Paths : Listed(p) # {}})

---------------------------------------------------------------------------
(* A writer's plan *)

NoPlan == [unit |-> "s", todo |-> {}, read |-> 0, seg |-> 0, changed |-> FALSE,
           ids |-> <<>>, docs |-> <<>>, paths |-> <<>>,
           new |-> [s \in {} |-> {}], from |-> <<>>, next |-> 0, old |-> {}, clears |-> {}]

\* Path id of p in a table, or the next free one
PathId(ps, p) ==
    IF \E i \in DOMAIN ps : ps[i] = p
    THEN (CHOOSE i \in DOMAIN ps : ps[i] = p) - 1
    ELSE Len(ps)

\* Postings x added to segment s
AddPostings(new, s, x) ==
    [t \in DOMAIN new \cup {s} |->
        (IF t \in DOMAIN new THEN new[t] ELSE {}) \cup (IF t = s THEN x ELSE {})]

\* The plan after reading path p: a file that is gone adds nothing
AddFile(pl, p, s) ==
    IF fs[p] = Absent THEN [pl EXCEPT !.todo = @ \ {p}, !.read = @ + 1]
    ELSE [pl EXCEPT
            !.todo    = @ \ {p},
            !.read    = @ + 1,
            !.changed = TRUE,
            !.paths   = IF PathId(@, p) = Len(@) THEN Append(@, p) ELSE @,
            !.docs    = Append(@, [path  |-> PathId(pl.paths, p),
                                   mtime |-> [unit |-> pl.unit, at |-> fs[p]],
                                   live  |-> TRUE]),
            !.new     = AddPostings(@, s, {<<Len(pl.docs) + 1, fs[p]>>})]

---------------------------------------------------------------------------
(* The source tree changes under every writer *)

Write(p) ==
    /\ clock < MaxEdits
    /\ clock' = clock + 1
    /\ fs' = [fs EXCEPT ![p] = clock + 1]

Delete(p) ==
    /\ fs[p] # Absent
    /\ fs' = [fs EXCEPT ![p] = Absent]
    /\ UNCHANGED clock

Edit(p) ==
    /\ Write(p) \/ Delete(p)
    /\ dirty' = dirty \cup {p}
    /\ plan' = [plan EXCEPT !.clears = @ \ {p}]
    /\ UNCHANGED <<disk, op, pc, torn, cuts>>

---------------------------------------------------------------------------
(* Full build (build_index_with_options, ChunkedIndexWriter) *)

\* Seeded fault: the old index is left in place and written over
StartBuildInPlace ==
    /\ op' = "build"
    /\ pc' = "walk"
    /\ plan' = NoPlan
    /\ UNCHANGED <<tree, disk, dirty, torn, cuts>>

StartBuild ==
    /\ op' = "build"
    /\ pc' = IF dir THEN "remove" ELSE "walk"
    /\ plan' = NoPlan
    /\ UNCHANGED <<tree, disk, dirty, torn, cuts>>

\* `fxi index --force`
ForceBuild == op = "idle" /\ StartBuild

RemoveFile ==
    \/ /\ \E s \in DOMAIN segs :
              segs' = [t \in DOMAIN segs \ {s} |-> segs[t]]
       /\ UNCHANGED <<dir, meta, docs, paths>>
    \/ docs # NoFile  /\ docs' = NoFile  /\ UNCHANGED <<dir, meta, paths, segs>>
    \/ paths # NoFile /\ paths' = NoFile /\ UNCHANGED <<dir, meta, docs, segs>>
    \/ meta # NoFile  /\ meta' = NoFile  /\ UNCHANGED <<dir, docs, paths, segs>>

\* remove_dir_all deletes the entries in directory order, which is arbitrary
BuildRemove ==
    /\ op = "build" /\ pc = "remove"
    /\ \/ RemoveFile /\ UNCHANGED pc
       \/ /\ DOMAIN segs = {} /\ docs = NoFile /\ paths = NoFile /\ meta = NoFile
          /\ dir' = FALSE /\ pc' = "walk"
          /\ UNCHANGED <<meta, docs, paths, segs>>
    /\ UNCHANGED <<tree, op, plan, dirty, torn, cuts>>

\* A path with no file now is captured as absent
BuildWalk ==
    /\ op = "build" /\ pc = "walk"
    /\ dir' = TRUE
    /\ pc' = "read"
    /\ LET found == {p \in Paths : fs[p] # Absent}
       IN  plan' = [plan EXCEPT !.todo = found, !.clears = Paths \ found]
    /\ UNCHANGED <<tree, meta, docs, paths, segs, op, dirty, torn, cuts>>

\* The k-th file belongs to chunk (k-1) \div ChunkSize; a chunk that yields no
\* document gets no segment.  The background thread that writes the segments
\* is joined before docs.bin is written, and nothing reads them until then.
BuildRead(p) ==
    /\ op = "build" /\ pc = "read" /\ p \in plan.todo
    /\ LET s    == plan.read \div ChunkSize + 1
           fresh == fs[p] # Absent /\ ~\E i \in DOMAIN plan.ids : plan.ids[i] = s
       IN  plan' = [AddFile(plan, p, s) EXCEPT
                        !.ids    = IF fresh THEN Append(@, s) ELSE @,
                        !.clears = @ \cup {p}]
    /\ UNCHANGED <<tree, disk, op, pc, dirty, torn, cuts>>

BuildFinalize ==
    /\ op = "build" /\ pc = "read" /\ plan.todo = {}
    /\ pc' = "segment"
    /\ UNCHANGED <<tree, disk, op, plan, dirty, torn, cuts>>

BuildMeta ==
    [base       |-> IF plan.ids = <<>> THEN 0 ELSE plan.ids[1],
     deltas     |-> IF plan.ids = <<>> THEN <<>> ELSE Tail(plan.ids),
     baseline   |-> IF plan.ids = <<>> THEN 0 ELSE Len(plan.ids) - 1,
     docCount   |-> Len(plan.docs),
     tombstones |-> 0]

---------------------------------------------------------------------------
(* Incremental update (DeltaSegmentWriter) *)

\* Seeded fault: the first document of the path, which may be dead already
BuriedFirst(ps) ==
    {d \in DOMAIN docs : \E p \in ps : /\ d \in DocsOf(docs, paths, p)
                                       /\ \A e \in DocsOf(docs, paths, p) : d <= e}

\* mark_tombstone: the most recent live document of each path
Buried(ps) ==
    {d \in DOMAIN docs : \E p \in ps : /\ d \in Listed(p)
                                       /\ \A e \in Listed(p) : e <= d}

\* Seeded fault: a document's other flag bits are overwritten, not kept
MarkedAnew(dead) ==
    [d \in DOMAIN docs |-> [docs[d] EXCEPT !.live = d \notin dead]]

\* finalize sets the tombstone flag
Marked(dead) ==
    [d \in DOMAIN docs |-> [docs[d] EXCEPT !.live = @ /\ d \notin dead]]

\* Seeded fault: the deltas already there are forgotten
NextSegmentOfBase(m) == 1 + m.base

\* One past the highest delta, or past the base
NextSegment(m) ==
    1 + IF m.deltas = <<>> THEN m.base
        ELSE CHOOSE s \in {m.deltas[i] : i \in DOMAIN m.deltas} :
                 \A i \in DOMAIN m.deltas : m.deltas[i] <= s

StartDelta(created, modified, deleted, unit, clears) ==
    /\ op' = "delta"
    /\ pc' = "read"
    /\ LET dead == Buried(deleted \cup modified)
       IN  plan' = [NoPlan EXCEPT
              !.unit    = unit,
              !.todo    = created \cup modified,
              !.seg     = NextSegment(meta),
              !.changed = dead # {},
              !.docs    = Marked(dead),
              !.paths   = paths,
              !.clears  = clears]
    /\ UNCHANGED <<tree, disk, dirty, torn, cuts>>

\* update_index, with the index lock held.  It fails when the directory is
\* there and the index cannot be read: no action.
UpdateIndex ==
    /\ op = "idle"
    /\ \/ ~dir /\ StartBuild
       \/ /\ dir /\ Readable /\ Changed = {}
          /\ dirty' = {}
          /\ UNCHANGED <<tree, disk, op, pc, plan, torn, cuts>>
       \/ /\ dir /\ Readable /\ Changed # {}
          /\ Percent(Cardinality(Changed), IndexedCount) > RebuildPercent
          /\ StartBuild
       \/ /\ dir /\ Readable /\ Changed # {}
          /\ Percent(Cardinality(Changed), IndexedCount) <= RebuildPercent
          /\ StartDelta(NewFiles, ModifiedFiles, DeletedFiles, "s",
                        Paths \ (NewFiles \cup ModifiedFiles))

\* handle_changes and apply_incremental_update on a batch of edited paths,
\* classified as a watcher that lost and merged no event reports them
DaemonFlush(batch) ==
    /\ Daemon /\ op = "idle" /\ dir /\ Readable
    /\ meta.docCount # 0
    /\ LET present == {p \in batch : fs[p] # Absent}
           known   == {p \in batch : Listed(p) # {}}
       IN  IF Percent(Cardinality(batch), meta.docCount) > RebuildPercent
           THEN StartBuild
           ELSE StartDelta(present \ known, present \cap known,
                           batch \ present, "ns", batch \ present)

DeltaRead(p) ==
    /\ op = "delta" /\ pc = "read" /\ p \in plan.todo
    /\ plan' = [AddFile(plan, p, plan.seg) EXCEPT !.clears = @ \cup {p}]
    /\ UNCHANGED <<tree, disk, op, pc, dirty, torn, cuts>>

\* finalize: nothing to write without a new document or a tombstone
DeltaFinalize ==
    /\ op = "delta" /\ pc = "read" /\ plan.todo = {}
    /\ IF plan.changed
       THEN pc' = "segment" /\ UNCHANGED <<op, plan, dirty>>
       ELSE /\ op' = "idle" /\ pc' = "idle" /\ plan' = NoPlan
            /\ dirty' = dirty \ plan.clears
    /\ UNCHANGED <<tree, disk, torn, cuts>>

\* Seeded fault: the tombstone count is that of the last compaction
DeltaMetaUncounted ==
    [meta EXCEPT !.deltas = Append(@, plan.seg), !.docCount = Len(plan.docs)]

DeltaMeta ==
    [meta EXCEPT !.deltas     = Append(@, plan.seg),
                 !.docCount   = Len(plan.docs),
                 !.tombstones = Tombstones(plan.docs)]

\* should_compact; also the policy at the end of perform_incremental_update
ShouldCompact(m) ==
    \/ m.docCount > 0 /\ m.tombstones * 100 > CompactPercent * m.docCount
    \/ Len(m.deltas) >= m.baseline + MergeThreshold

---------------------------------------------------------------------------
(* Compaction (merge_segments) *)

NothingToMerge(m) ==
    \/ SegmentsOf(m) = {}
    \/ (IF m.base = 0 THEN 0 ELSE 1) + Len(m.deltas) = 1 /\ m.tombstones = 0

MergePlan == [NoPlan EXCEPT !.next = 1, !.new = [s \in {1} |-> {}]]

\* `fxi compact`
StartCompact ==
    /\ op = "idle" /\ dir /\ Readable /\ ~NothingToMerge(meta)
    /\ op' = "merge" /\ pc' = "remap" /\ plan' = MergePlan
    /\ UNCHANGED <<tree, disk, dirty, torn, cuts>>

\* One turn of build_doc_id_remapping's loop, with the postings of the
\* document carried over from every loaded segment.  Documents that are dead,
\* or whose path id is out of range, are dropped.
MergeDoc ==
    /\ op = "merge" /\ pc = "remap" /\ plan.next <= Len(docs)
    /\ LET d     == docs[plan.next]
           known == \E i \in DOMAIN plan.from : plan.from[i] = d.path
           keep  == d.live /\ (known \/ d.path < Len(paths))
           id    == Len(plan.docs) + 1
       IN  plan' = IF ~keep THEN [plan EXCEPT !.next = @ + 1]
                   ELSE [plan EXCEPT
                      !.next  = @ + 1,
                      !.from  = IF known THEN @ ELSE Append(@, d.path),
                      !.paths = IF known THEN @ ELSE Append(@, paths[d.path + 1]),
                      !.docs  = Append(@, [d EXCEPT !.path = PathId(plan.from, d.path)]),
                      !.new   = AddPostings(@, 1,
                          {<<id, x[2]>> : x \in {y \in Loaded : y[1] = plan.next}})]
    /\ UNCHANGED <<tree, disk, op, pc, dirty, torn, cuts>>

MergeFinalize ==
    /\ op = "merge" /\ pc = "remap" /\ plan.next > Len(docs)
    /\ pc' = "segment"
    /\ UNCHANGED <<tree, disk, op, plan, dirty, torn, cuts>>

MergeMeta ==
    [base |-> 1, deltas |-> <<>>, baseline |-> 0,
     docCount |-> Len(plan.docs), tombstones |-> 0]

\* The old segments go once the new meta.json is in place
MergeCleanup ==
    /\ op = "merge" /\ pc = "cleanup"
    /\ segs' = [s \in DOMAIN segs \ plan.old |-> segs[s]]
    /\ op' = "idle" /\ pc' = "idle" /\ plan' = NoPlan
    /\ UNCHANGED <<tree, dir, meta, docs, paths, dirty, torn, cuts>>

---------------------------------------------------------------------------
(* The replacements, in the order every writer makes them *)

\* Segment directories are written in place: an existing one is overwritten
WriteSegments ==
    /\ pc = "segment"
    /\ segs' = [s \in DOMAIN segs \cup DOMAIN plan.new |->
                   IF s \in DOMAIN plan.new THEN plan.new[s] ELSE segs[s]]
    /\ pc' = "docs"
    /\ UNCHANGED <<tree, dir, meta, docs, paths, op, plan, dirty, torn, cuts>>

WriteDocs ==
    /\ pc = "docs"
    /\ docs' = plan.docs
    /\ pc' = "paths"
    /\ UNCHANGED <<tree, dir, meta, paths, segs, op, plan, dirty, torn, cuts>>

\* Seeded fault: the old table is unlinked before the new one takes its place
WritePathsByRemoval ==
    /\ pc = "paths"
    /\ IF paths # NoFile
       THEN paths' = NoFile /\ UNCHANGED pc
       ELSE paths' = plan.paths /\ pc' = "meta"
    /\ UNCHANGED <<tree, dir, meta, docs, segs, op, plan, dirty, torn, cuts>>

WritePaths ==
    /\ pc = "paths"
    /\ paths' = plan.paths
    /\ pc' = "meta"
    /\ UNCHANGED <<tree, dir, meta, docs, segs, op, plan, dirty, torn, cuts>>

\* meta.json commits; a fragmented index goes on to compaction
WriteMeta ==
    /\ pc = "meta"
    /\ CASE op = "build" ->
              /\ meta' = BuildMeta
              /\ op' = "idle" /\ pc' = "idle" /\ plan' = NoPlan
         [] op = "delta" ->
              /\ meta' = DeltaMeta
              /\ IF ShouldCompact(DeltaMeta) /\ ~NothingToMerge(DeltaMeta)
                 THEN op' = "merge" /\ pc' = "remap" /\ plan' = MergePlan
                 ELSE op' = "idle" /\ pc' = "idle" /\ plan' = NoPlan
         [] op = "merge" ->
              /\ meta' = MergeMeta
              /\ op' = "merge" /\ pc' = "cleanup"
              /\ plan' = [NoPlan EXCEPT !.old = SegmentsOf(meta) \ {1}]
    /\ dirty' = IF op = "merge" THEN dirty ELSE dirty \ plan.clears
    /\ torn' = (torn /\ op # "build")
    /\ UNCHANGED <<tree, dir, docs, paths, segs, cuts>>

---------------------------------------------------------------------------
(* The writer is killed, or an I/O error ends it (a reader that opens the  *)
(* index deletes the *.tmp files of a running writer, whose rename fails)  *)

CutShort ==
    \/ op = "build" /\ pc = "remove"
    \/ op = "delta" /\ pc \in {"paths", "meta"}
    \/ op = "merge" /\ pc \in {"docs", "paths", "meta"}

EndWriter ==
    /\ cuts' = cuts + 1
    /\ op' = "idle" /\ pc' = "idle" /\ plan' = NoPlan
    /\ torn' = (torn \/ CutShort)
    /\ UNCHANGED <<tree, disk, dirty>>

Interrupt == cuts < MaxInterrupts /\ op # "idle" /\ EndWriter

---------------------------------------------------------------------------

Init ==
    /\ fs = [p \in Paths |-> Absent]
    /\ clock = 0
    /\ dir = FALSE
    /\ meta = NoFile /\ docs = NoFile /\ paths = NoFile
    /\ segs = [s \in {} |-> {}]
    /\ op = "idle" /\ pc = "idle" /\ plan = NoPlan
    /\ cuts = 0 /\ dirty = {} /\ torn = FALSE

Next ==
    \/ \E p \in Paths : Edit(p)
    \/ ForceBuild \/ BuildRemove \/ BuildWalk
    \/ \E p \in Paths : BuildRead(p)
    \/ BuildFinalize
    \/ UpdateIndex
    \/ \E batch \in SUBSET dirty \ {{}} : DaemonFlush(batch)
    \/ \E p \in Paths : DeltaRead(p)
    \/ DeltaFinalize
    \/ StartCompact \/ MergeDoc \/ MergeFinalize \/ MergeCleanup
    \/ WriteSegments \/ WriteDocs \/ WritePaths \/ WriteMeta
    \/ Interrupt

Spec == Init /\ [][Next]_vars

---------------------------------------------------------------------------
(* Properties *)

Postings == Nat \X Nat

PlanOK ==
    /\ plan.unit \in {"s", "ns"}
    /\ plan.todo \subseteq Paths /\ plan.clears \subseteq Paths
    /\ plan.read \in Nat /\ plan.seg \in Nat /\ plan.next \in Nat
    /\ plan.changed \in BOOLEAN
    /\ plan.ids \in Seq(Nat) /\ plan.from \in Seq(Nat)
    /\ plan.docs \in Seq(Doc) /\ plan.paths \in Seq(Paths)
    /\ plan.new \in [DOMAIN plan.new -> SUBSET Postings]
    /\ DOMAIN plan.new \subseteq Nat /\ plan.old \subseteq Nat

Phases == [idle  |-> {"idle"},
           build |-> {"remove", "walk", "read", "segment", "docs", "paths", "meta"},
           delta |-> {"read", "segment", "docs", "paths", "meta"},
           merge |-> {"remap", "segment", "docs", "paths", "meta", "cleanup"}]

\* Every variable has its type, and the lock holder is at a step of the
\* operation it runs.
TypeOK ==
    /\ fs \in [Paths -> Nat] /\ clock \in Nat
    /\ dir \in BOOLEAN
    /\ meta \in Meta \cup {NoFile}
    /\ docs \in Seq(Doc) \cup {NoFile}
    /\ paths \in Seq(Paths) \cup {NoFile}
    /\ segs \in [DOMAIN segs -> SUBSET Postings] /\ DOMAIN segs \subseteq Nat
    /\ op \in DOMAIN Phases /\ pc \in Phases[op]
    /\ PlanOK
    /\ cuts \in Nat /\ dirty \subseteq Paths /\ torn \in BOOLEAN

AtRest == op = "idle" /\ Readable

\* A path nobody edited since an update last looked at it is answered from
\* its present content and nothing else, under one document; a path that is
\* gone is not answered at all.  (update_index, apply_incremental_update,
\* build_index and merge_segments, while none of them has been cut short.)
Exact ==
    (AtRest /\ cuts = 0) => \A p \in Paths \ dirty :
        IF fs[p] = Absent THEN Listed(p) = {}
        ELSE Cardinality(Listed(p)) = 1 /\ Found(p) = {fs[p]}

\* However the file system and the writers interleave, no path is answered
\* twice: tombstoning and re-adding never leave two live documents for it.
OneDocPerPath == (AtRest /\ ~torn) => \A p \in Paths : Cardinality(Listed(p)) <= 1

\* Every live document can be found through a loaded segment: the segment
\* meta.json lists for it was written and not overwritten or deleted.  Holds
\* through interrupts, unless one fell between the replacements of docs.bin
\* and meta.json (or after compaction overwrote a live segment).
LiveDocsSearchable ==
    (AtRest /\ ~torn) => \A d \in DOMAIN docs :
        docs[d].live => docs[d].path < Len(paths) /\ \E x \in Loaded : x[1] = d

\* The same, for recall: an interrupt outside the commit window costs nothing.
Recall ==
    (AtRest /\ ~torn) => \A p \in Paths \ dirty :
        IF fs[p] = Absent THEN Listed(p) = {} ELSE fs[p] \in Found(p)

\* meta.json's counters, from which compaction and the daemon's rebuild
\* threshold are decided, are those of docs.bin.
CountsMatch ==
    (AtRest /\ ~torn) =>
        /\ meta.docCount = Len(docs)
        /\ meta.tombstones = Tombstones(docs)
        /\ meta.baseline <= Len(meta.deltas)

\* From the removal of the old index to the last write of the new one, and
\* after an interrupt in between, nobody can open a partly built index.
PartialBuildUnreadable ==
    /\ (op = "build" /\ pc # "remove") => ~Readable
    /\ meta # NoFile /\ ~torn /\ op # "build" => Readable

\* Outside rebuilds and compactions documents only accumulate: none
\* disappears, changes identity or comes back to life.
Grows(old, new) ==
    /\ Len(old) <= Len(new)
    /\ \A d \in DOMAIN old :
          /\ new[d].path = old[d].path /\ new[d].mtime = old[d].mtime
          /\ new[d].live => old[d].live

DocsOnlyGrow ==
    [][(op = "delta" /\ docs # NoFile) => Grows(docs, docs')]_vars

\* ---- What a comment says and the code does not do ----

\* "Seconds, matching the full-build path (compute_index_diff compares
\* against this for change detection)": with nothing edited since, the next
\* scan has nothing to do.
NothingEditedNothingToDo ==
    (AtRest /\ ~torn /\ dirty = {}) => Changed = {}
=============================================================================
