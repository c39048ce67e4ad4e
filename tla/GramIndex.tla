------------------------------ MODULE GramIndex ------------------------------
(***************************************************************************)
(* What the segments of an index hold and which trigrams it gives up on    *)
(* (stop-grams), through full builds, incremental updates and compaction.  *)
(* IndexStore has the files and the crashes of these operations; here each *)
(* is one step and what matters is which postings it writes.               *)
(*                                                                         *)
(* Paths are numbers, in the order of a sort by path.  A document keeps    *)
(* its number when segments are merged: renumbering is IndexStore's.       *)
(***************************************************************************)
EXTENDS SourceText

CONSTANTS Paths,      \* files that may exist
          Contents,   \* contents a file may have
          Trees,      \* source trees to start from
          ChunkSize,  \* files per segment of a full build
          StopCap,    \* most trigrams given up on (stop_gram_count, 512)
          MaxEdits,   \* bound: writes and deletions of files
          MaxMerges   \* bound: compactions since the last full build

Missing == << >>

ASSUME GramAssumption ==
    /\ Paths \subseteq Nat
    /\ IsFiniteSet(Paths)
    /\ Missing \notin Contents
    /\ Trees \subseteq [Paths -> Contents \cup {Missing}]
    /\ ChunkSize \in Nat \ {0}
    /\ StopCap \in Nat
    /\ MaxEdits \in Nat
    /\ MaxMerges \in Nat

VARIABLES
    tree,   \* the files
    docs,   \* docs.bin: number -> path, content when indexed, live or not
    segs,   \* segments: the postings <<trigram, document>> each one holds
    stop,   \* meta.stop_grams
    edits,  \* bound: edits so far
    merges  \* history: compactions since the last full build

indexVars == <<docs, segs, stop, merges>>

Files == {p \in Paths : tree[p] # Missing}

Live      == {d \in DOMAIN docs : docs[d].live}
DocOf(p)  == {d \in Live : docs[d].path = p}

Doc(p) == [path |-> p, content |-> tree[p], live |-> TRUE]

\* Postings of the documents of ds as they were indexed
PostingsOf(table, ds) == UNION {{<<g, d>> : g \in Grams(table[d].content)} : d \in ds}

Posted(g, postings) == {x[2] : x \in {y \in postings : y[1] = g}}

---------------------------------------------------------------------------
(* Stop-grams: in more than half of the documents, the hottest first *)

Frequency(g, postings) == Cardinality(Posted(g, postings))

Hot(postings, count) ==
    {g \in {x[1] : x \in postings} : Frequency(g, postings) >= count \div 2 + 1}

\* At most StopCap of them; which of equally hot ones is left open
StopSets(postings, count) ==
    LET hot == Hot(postings, count)
    IN  IF Cardinality(hot) <= StopCap THEN {hot}
        ELSE {s \in SUBSET hot :
                /\ Cardinality(s) = StopCap
                /\ \A g \in s, h \in hot \ s :
                       Frequency(g, postings) >= Frequency(h, postings)}

---------------------------------------------------------------------------
(* The source tree *)

Edit(p) ==
    /\ edits < MaxEdits
    /\ \E c \in (Contents \cup {Missing}) \ {tree[p]} : tree' = [tree EXCEPT ![p] = c]
    /\ edits' = edits + 1
    /\ UNCHANGED indexVars

---------------------------------------------------------------------------
(* Operations on the index *)

\* Documents are numbered in the order of the walk, taken to be path order
Rank(p) == Cardinality({q \in Files : q <= p})

BuiltDocs == [d \in 1..Cardinality(Files) |->
                 Doc(CHOOSE p \in Files : Rank(p) = d)]

\* A full build: every posting is written, the frequencies are counted over
\* all chunks, and meta.json names the stop-grams at the end
Build ==
    /\ Files # {}
    /\ docs' = BuiltDocs
    /\ segs' = [s \in 1..((Cardinality(Files) + ChunkSize - 1) \div ChunkSize) |->
                   PostingsOf(docs', {d \in DOMAIN docs' : (d - 1) \div ChunkSize + 1 = s})]
    /\ stop' \in StopSets(PostingsOf(docs', DOMAIN docs'), Cardinality(Files))
    /\ merges' = 0
    /\ UNCHANGED <<tree, edits>>

\* Indexed files that changed, and new ones
Stale == {p \in Paths : \A d \in DocOf(p) : docs[d].content # tree[p]} \cap
         {p \in Paths : DocOf(p) # {} \/ tree[p] # Missing}

NewNumber(p) ==
    Cardinality({q \in Stale \cap Files : q <= p}) +
    (IF docs = << >> THEN 0 ELSE CHOOSE m \in DOMAIN docs : \A d \in DOMAIN docs : d <= m)

\* An incremental update: the documents of changed files become tombstones
\* and a delta segment takes their new text, with every trigram of it; the
\* stop-grams stay what the last build or compaction made them
Update ==
    /\ DOMAIN docs # {}
    /\ Stale # {}
    /\ LET fresh == {NewNumber(p) : p \in Stale \cap Files}
           pathOf(n) == CHOOSE p \in Stale \cap Files : NewNumber(p) = n
       IN  /\ docs' = [d \in DOMAIN docs \cup fresh |->
                          IF d \in fresh THEN Doc(pathOf(d))
                          ELSE [docs[d] EXCEPT !.live = @ /\ docs[d].path \notin Stale]]
           /\ segs' = IF fresh = {} THEN segs
                      ELSE Append(segs, PostingsOf(docs', fresh))
    /\ UNCHANGED <<tree, edits, stop, merges>>

Kept(postings) == {x \in postings : docs[x[2]].live}

AllPostings == UNION {segs[s] : s \in DOMAIN segs}

\* Seeded fault: the frequencies of the last build are kept with the segment
MergeKeepsOldStops ==
    /\ merges < MaxMerges
    /\ Len(segs) > 1 \/ Live # DOMAIN docs
    /\ docs' = [d \in Live |-> docs[d]]
    /\ \E s \in StopSets(Kept(AllPostings), Cardinality(Live)) :
           segs' = <<{x \in Kept(AllPostings) : x[1] \notin s}>>
    /\ merges' = merges + 1
    /\ UNCHANGED <<tree, edits, stop>>

\* Compaction: the postings of live documents go into one segment.  The
\* stop-grams are chosen anew by the frequencies the merged segments show, and
\* the merged segment leaves their postings out
Merge ==
    /\ merges < MaxMerges
    /\ Len(segs) > 1 \/ Live # DOMAIN docs
    /\ docs' = [d \in Live |-> docs[d]]
    /\ stop' \in StopSets(Kept(AllPostings), Cardinality(Live))
    /\ segs' = <<{x \in Kept(AllPostings) : x[1] \notin stop'}>>
    /\ merges' = merges + 1
    /\ UNCHANGED <<tree, edits>>

IndexStep == Build \/ Update \/ Merge

---------------------------------------------------------------------------
(* No index yet *)

GramInit ==
    /\ tree \in Trees
    /\ docs = << >>
    /\ segs = << >>
    /\ stop = {}
    /\ edits = 0
    /\ merges = 0

GramNext == IndexStep \/ \E p \in Paths : Edit(p)

GramSpec == GramInit /\ [][GramNext]_<<tree, edits, indexVars>>

---------------------------------------------------------------------------
(* Properties *)

\* A trigram that the executor still narrows by has the posting of every live
\* document that contains it.  segment_io.rs says as much of the stop-grams'
\* postings, which compaction drops: "they match too many documents to narrow and
\* the executor never looks them up" (segment_io.rs:38-39).
PostingsComplete ==
    \A d \in Live : \A g \in Grams(docs[d].content) \ stop : <<g, d>> \in AllPostings

\* ... which is so until the second compaction since a full build, through any
\* updates: that one counts what the first one has left.
NarrowingComplete == merges <= 1 => PostingsComplete
=============================================================================
