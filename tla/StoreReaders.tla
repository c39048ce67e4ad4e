---------------------------- MODULE StoreReaders ----------------------------
(***************************************************************************)
(* A reader that opens the index (IndexReader::open) while a writer of     *)
(* IndexStore is at work: readers take no lock.  open first deletes the    *)
(* *.tmp files it finds, reads meta.json, and then docs.bin, paths.bin and *)
(* the listed segments in parallel; each read sees what the writer has     *)
(* replaced by then.                                                       *)
(***************************************************************************)
EXTENDS IndexStore

VARIABLES
    rpc,   \* reader: "closed", "meta", "tables", "opened" or "failed"
    view,  \* what it has read
    may,   \* history: path -> contents it was found by since the opening began
    hit,   \* history: paths that a delta has changed since
    moved, \* history: documents were numbered anew since, or there was no whole
           \* index when the opening began
    stray  \* history: a segment has postings that are not its documents'

viewVars    == <<rpc, view>>
historyVars == <<may, hit, moved, stray>>
readerVars  == <<rpc, view, may, hit, moved, stray>>

NoView == [meta |-> NoFile, docs |-> NoFile, paths |-> NoFile,
           todo |-> {}, loaded |-> {}]

---------------------------------------------------------------------------
(* History *)

\* Contents under which path p will be found once the running delta commits
Coming(p) ==
    IF op # "delta" \/ pc = "read" THEN {}
    ELSE {x[2] : x \in {y \in UNION {plan.new[s] : s \in DOMAIN plan.new} :
                           plan.paths[plan.docs[y[1]].path + 1] = p}}

Renumbers == op = "build" \/ (op = "merge" /\ pc # "remap")

\* A delta replaces docs.bin
Committing == op = "delta" /\ pc = "docs"

Changing == {p \in Paths : LiveDocsOf(docs, paths, p) # LiveDocsOf(plan.docs, plan.paths, p)}

\* Postings whose document is still to come, or has no path yet
Strays == \E y \in Loaded : ~(y[1] \in DOMAIN docs /\ docs[y[1]].path < Len(paths))

\* A delta without new documents writes no segment, but lists its number: a
\* directory that a writer left there when it was ended becomes its segment
\* (writer.rs:1014-1024, 1055)
Adopting ==
    op = "delta" /\ pc = "meta" /\ plan.seg \in DOMAIN segs \ DOMAIN plan.new

Observe ==
    /\ stray' = (stray \/ (rpc \in {"meta", "tables"} /\ Adopting /\ meta' # meta))
    /\ moved' = (moved \/ (rpc \in {"meta", "tables"} /\ (Renumbers \/ Renumbers')))
    /\ IF rpc \in {"meta", "tables"} /\ Committing /\ docs' = plan.docs
       THEN /\ hit' = hit \cup Changing
            /\ may' = [p \in Paths |-> may[p] \cup Coming(p)]
       ELSE UNCHANGED <<hit, may>>

\* Bound: what the writers do once the index is open, or once documents have
\* been numbered anew, is not followed
WriterStep ==
    /\ rpc \notin {"opened", "failed"}
    /\ ~moved
    /\ Next
    /\ Observe
    /\ UNCHANGED viewVars

---------------------------------------------------------------------------
(* Opening *)

\* The writer whose temporary file was deleted fails to rename it and ends
LosesFile ==
    /\ op \in {"delta", "merge"} /\ pc \in {"docs", "paths", "meta"}
    /\ EndWriter

\* cleanup_tmp_files
Begin ==
    /\ rpc = "closed"
    /\ dir
    /\ rpc' = "meta"
    /\ LosesFile \/ UNCHANGED vars
    /\ may' = [p \in Paths |-> IF Readable THEN Found(p) \cup Coming(p) ELSE {}]
    /\ hit' = {p \in Paths : Coming(p) # {}}
    /\ moved' = (~Readable \/ Renumbers)
    /\ stray' = (Readable /\ Strays)
    /\ UNCHANGED view

ReadMeta ==
    /\ rpc = "meta"
    /\ IF meta = NoFile
       THEN rpc' = "failed" /\ UNCHANGED view
       ELSE /\ rpc' = "tables"
            /\ view' = [view EXCEPT !.meta = meta, !.todo = SegmentsOf(meta)]
    /\ UNCHANGED <<vars, historyVars>>

ReadTable(name, table) ==
    /\ rpc = "tables"
    /\ view[name] = NoFile
    /\ IF table = NoFile
       THEN rpc' = "failed" /\ UNCHANGED view
       ELSE view' = [view EXCEPT ![name] = table] /\ UNCHANGED rpc
    /\ UNCHANGED <<vars, historyVars>>

ReadDocs  == ReadTable("docs", docs)
ReadPaths == ReadTable("paths", paths)

\* A segment whose directory is missing is left out
ReadSegment(s) ==
    /\ rpc = "tables"
    /\ s \in view.todo
    /\ view' = [view EXCEPT !.todo = @ \ {s},
                            !.loaded = @ \cup IF s \in DOMAIN segs THEN segs[s] ELSE {}]
    /\ UNCHANGED <<rpc, vars, historyVars>>

Opened ==
    /\ rpc = "tables"
    /\ view.docs # NoFile /\ view.paths # NoFile /\ view.todo = {}
    /\ rpc' = "opened"
    /\ UNCHANGED <<view, vars, historyVars>>

ReaderStep ==
    \/ Begin \/ ReadMeta \/ ReadDocs \/ ReadPaths
    \/ \E s \in view.todo : ReadSegment(s)
    \/ Opened

---------------------------------------------------------------------------
(* Specification *)

\* An index that a full build wrote of files in the order of its walk
BuiltIndex(order) ==
    LET n    == Len(order)
        more == IF n = 0 THEN 0 ELSE (n - 1) \div ChunkSize
    IN  /\ fs = [p \in Paths |-> CHOOSE i \in 1..n : order[i] = p]
        /\ clock = n
        /\ dir = TRUE
        /\ docs = [i \in 1..n |-> [path |-> i - 1, mtime |-> [unit |-> "s", at |-> i],
                                  live |-> TRUE]]
        /\ paths = order
        /\ segs = [s \in 1..(IF n = 0 THEN 0 ELSE more + 1) |->
                      {<<i, i>> : i \in {j \in 1..n : (j - 1) \div ChunkSize + 1 = s}}]
        /\ meta = [base |-> IF n = 0 THEN 0 ELSE 1, deltas |-> [i \in 1..more |-> i + 1],
                   baseline |-> more, docCount |-> n, tombstones |-> 0]

Orders == {o \in [1..Cardinality(Paths) -> Paths] : \A p \in Paths : \E i \in DOMAIN o : o[i] = p}

ReadersInit ==
    /\ \E order \in Orders : BuiltIndex(order)
    /\ op = "idle" /\ pc = "idle" /\ plan = NoPlan
    /\ cuts = 0 /\ dirty = {} /\ torn = FALSE
    /\ rpc = "closed" /\ view = NoView
    /\ may = [p \in Paths |-> {}] /\ hit = {}
    /\ moved = FALSE /\ stray = FALSE

ReadersNext == WriterStep \/ ReaderStep

ReadersSpec == ReadersInit /\ [][ReadersNext]_<<vars, readerVars>>

---------------------------------------------------------------------------
(* Properties *)

\* The contents under which the reader reaches path p
FoundInView(p) ==
    {x[2] : x \in {y \in view.loaded : y[1] \in LiveDocsOf(view.docs, view.paths, p)}}

\* Whatever deltas were written, committed, killed or robbed of their temporary
\* files while a reader opened the index: a path they did not touch is answered
\* exactly as before, and one they did by no other content than those it had,
\* unless a delta has taken over the segment of a writer that was ended
\* (reader.rs:338-401 without the lock, writer.rs:1008-1073).
RacedViewSound ==
    (rpc = "opened" /\ ~moved /\ ~stray) => \A p \in Paths :
        IF p \in hit THEN FoundInView(p) \subseteq may[p]
        ELSE FoundInView(p) = may[p]

\* However many deltas replace its files meanwhile, an opening does not fail: it
\* takes a build, which removes them (a compaction is not followed), or an index
\* that was not whole when the opening began (reader.rs:347-406).
OpenSucceeds == rpc = "failed" => moved
=============================================================================
