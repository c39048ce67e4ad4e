-------------------------- MODULE IndexStore_proofs --------------------------
(***************************************************************************)
(* Proofs about IndexStore, for any paths, edits, chunk size, thresholds   *)
(* and interruptions: a partly built index does not open, deltas only add  *)
(* to docs.bin, meta.json counts what docs.bin has, and a search finds     *)
(* every live document, each path once.  At the end, about the readers of  *)
(* StoreReaders that open the index while a writer is at work.             *)
(***************************************************************************)
EXTENDS StoreReaders, FiniteSetTheorems, SequenceTheorems, WellFoundedInduction, TLAPS

---------------------------------------------------------------------------
(* The inductive invariant *)

Segments == UNION {[S -> SUBSET Postings] : S \in SUBSET Nat}

Plan == [unit : {"s", "ns"}, todo : SUBSET Paths, read : Nat, seg : Nat,
         changed : BOOLEAN, ids : Seq(Nat), docs : Seq(Doc), paths : Seq(Paths),
         new : Segments, from : Seq(Nat), next : Nat, old : SUBSET Nat,
         clears : SUBSET Paths]

Control ==
    \/ op = "idle" /\ pc = "idle"
    \/ op = "build" /\ pc \in {"remove", "walk", "read", "segment", "docs", "paths", "meta"}
    \/ op = "delta" /\ pc \in {"read", "segment", "docs", "paths", "meta"}
    \/ op = "merge" /\ pc \in {"remap", "segment", "docs", "paths", "meta", "cleanup"}

Typed ==
    /\ fs \in [Paths -> Nat] /\ clock \in Nat
    /\ dir \in BOOLEAN
    /\ meta \in Meta \cup {NoFile}
    /\ docs \in Seq(Doc) \cup {NoFile}
    /\ paths \in Seq(Paths) \cup {NoFile}
    /\ segs \in Segments
    /\ Control
    /\ plan \in Plan
    /\ pc = "remap" => plan.next # 0
    /\ cuts \in Nat /\ dirty \subseteq Paths /\ torn \in BOOLEAN

\* meta.json is gone before a build starts on the new files, for which it
\* creates the directory
Removed ==
    /\ (~dir \/ (op = "build" /\ pc # "remove")) => meta = NoFile
    /\ (op = "build" /\ pc \notin {"remove", "walk"}) => dir

\* Updates and compactions are of an index that opens, and leave one
Opens == op \in {"delta", "merge"} => Readable

\* Outside a build's removal the three files come and go together
Whole == (meta # NoFile /\ ~torn /\ op # "build") => Readable

\* What has been replaced is what was prepared
Replaced ==
    /\ pc \in {"paths", "meta"} => docs = plan.docs
    /\ pc = "meta" => paths = plan.paths

\* A delta's document table is the one on disk, with tombstones and additions
Extends == (op = "delta" /\ pc \in {"read", "segment", "docs"}) => Grows(docs, plan.docs)

\* Builds and compactions write no tombstones
NoneDead == op \in {"build", "merge"} => \A d \in DOMAIN plan.docs : plan.docs[d].live

\* The counters are those of the table, but between the replacements
Counted ==
    /\ meta # NoFile => meta.baseline <= Len(meta.deltas)
    /\ (meta # NoFile /\ ~torn /\ op # "build" /\ ~CutShort) =>
            meta.docCount = Len(docs) /\ meta.tombstones = Tombstones(docs)

IInv == Typed /\ Removed /\ Opens /\ Whole /\ Replaced /\ Extends /\ NoneDead /\ Counted

---------------------------------------------------------------------------
(* Lemmas about the data *)

LEMMA SegmentsDef ==
  \A s : s \in Segments <=> s \in [DOMAIN s -> SUBSET Postings] /\ DOMAIN s \subseteq Nat
BY DEF Segments

LEMMA NoSegments == [s \in {} |-> {}] \in Segments
<1> DEFINE none == [s \in {} |-> {}]
<1>1. none \in [{} -> SUBSET Postings]
  OBVIOUS
<1> QED BY <1>1 DEF Segments

LEMMA NoPlanTyped == NoPlan \in Plan
BY NoSegments, EmptySeq DEF NoPlan, Plan

\* A set of numbers that is not empty has a least member.
LEMMA Least ==
  ASSUME NEW T, T \subseteq Nat, T # {}
  PROVE  \E x \in T : \A y \in T : x <= y
<1> DEFINE Below == {ss \in Nat \X Nat : ss[1] < ss[2]}
<1>1. IsWellFoundedOn(Below, Nat)
  BY NatLessThanWellFounded DEF OpToRel
<1>2. PICK x \in T : \A y \in T : ~ (<<y, x>> \in Below)
  <2> HIDE DEF Below
  <2> QED BY <1>1, WFMin
<1>3. ASSUME NEW y \in T PROVE x <= y
  <2>1. x \in Nat /\ y \in Nat /\ <<y, x>> \notin Below
    BY <1>2
  <2> QED BY <2>1
<1> QED BY <1>3

\* A value that is no less than the others before it
LEMMA Larger ==
  ASSUME NEW f, NEW n \in Nat \ {0, 1}, \A i \in 1..n : f[i] \in Nat,
         NEW k \in 1..(n - 1), \A i \in 1..(n - 1) : f[i] <= f[k]
  PROVE  \E j \in 1..n : \A i \in 1..n : f[i] <= f[j]
<1>1. f[n] \in Nat /\ f[k] \in Nat /\ n \in 1..n /\ k \in 1..n
  OBVIOUS
<1>2. \A i \in 1..n : i = n \/ i \in 1..(n - 1)
  OBVIOUS
<1>3. CASE f[n] <= f[k]
  <2>1. \A i \in 1..n : f[i] <= f[k]
    BY <1>2, <1>3
  <2> QED BY <1>1, <2>1
<1>4. CASE f[k] <= f[n]
  <2>1. ASSUME NEW i \in 1..n PROVE f[i] <= f[n]
    <3>1. f[i] \in Nat
      OBVIOUS
    <3>2. f[i] <= f[k] \/ f[i] = f[n]
      BY <1>2
    <3> QED BY <1>1, <1>4, <3>1, <3>2
  <2> QED BY <1>1, <2>1
<1> QED BY <1>1, <1>3, <1>4

\* Finitely many numbers have a greatest: the first place up to which there is
\* none would follow one with a greatest.
LEMMA Greatest ==
  ASSUME NEW f, NEW N \in Nat \ {0}, \A i \in 1..N : f[i] \in Nat
  PROVE  \E k \in 1..N : \A i \in 1..N : f[i] <= f[k]
<1> DEFINE Top(n) == \E k \in 1..n : \A i \in 1..n : f[i] <= f[k]
           bad == {n \in 1..N : ~Top(n)}
<1>1. ASSUME bad # {} PROVE FALSE
  <2>1. PICK n \in bad : \A m \in bad : n <= m
    <3>1. bad \subseteq Nat
      OBVIOUS
    <3> HIDE DEF bad
    <3> QED BY <1>1, <3>1, Least
  <2>2. n \in 1..N /\ ~Top(n)
    BY <2>1
  <2>3. n # 1
    <3>1. Top(1)
      <4>1. 1 \in 1..1 /\ \A i \in 1..1 : i = 1 /\ f[i] <= f[1]
        OBVIOUS
      <4> QED BY <4>1
    <3> QED BY <2>2, <3>1
  <2>4. n - 1 \in 1..N /\ ~(n <= n - 1)
    BY <2>2, <2>3
  <2>5. Top(n - 1)
    <3>1. n - 1 \notin bad
      BY <2>1, <2>4
    <3> QED BY <2>4, <3>1
  <2>6. Top(n)
    BY <2>2, <2>3, <2>5, Larger
  <2> QED BY <2>2, <2>6
<1>2. N \in 1..N
  OBVIOUS
<1> QED BY <1>1, <1>2

LEMMA NextSegmentTyped ==
  ASSUME NEW m \in Meta
  PROVE  NextSegment(m) \in Nat
<1> DEFINE ids == {m.deltas[i] : i \in DOMAIN m.deltas}
           top == CHOOSE s \in ids : \A i \in DOMAIN m.deltas : m.deltas[i] <= s
<1>1. m.deltas \in Seq(Nat) /\ m.base \in Nat
  BY DEF Meta
<1>2. /\ DOMAIN m.deltas = 1..Len(m.deltas) /\ Len(m.deltas) \in Nat
      /\ \A i \in 1..Len(m.deltas) : m.deltas[i] \in Nat
      /\ m.deltas # <<>> => Len(m.deltas) # 0
  BY <1>1, EmptySeq, LenProperties, ElementOfSeq
<1>3. m.deltas # <<>> => top \in ids
  <2> SUFFICES ASSUME m.deltas # <<>> PROVE \E s \in ids : \A i \in DOMAIN m.deltas : m.deltas[i] <= s
    OBVIOUS
  <2>1. \E k \in 1..Len(m.deltas) : \A i \in 1..Len(m.deltas) : m.deltas[i] <= m.deltas[k]
    BY <1>2, Greatest
  <2> QED BY <1>2, <2>1
<1>4. ids \subseteq Nat
  BY <1>2
<1>5. m.deltas # <<>> => top \in Nat
  BY <1>3, <1>4
<1> QED BY <1>1, <1>5 DEF NextSegment

LEMMA PathIdTyped ==
  ASSUME NEW S, NEW ps \in Seq(S), NEW p
  PROVE  PathId(ps, p) \in Nat /\ PathId(ps, p) <= Len(ps)
<1>1. DOMAIN ps = 1..Len(ps) /\ Len(ps) \in Nat
  BY LenProperties
<1> QED BY <1>1 DEF PathId

LEMMA AddPostingsTyped ==
  ASSUME NEW new \in Segments, NEW s \in Nat, NEW x \in SUBSET Postings
  PROVE  AddPostings(new, s, x) \in Segments
<1> DEFINE S == DOMAIN new \cup {s}
           Of(t) == (IF t \in DOMAIN new THEN new[t] ELSE {}) \cup (IF t = s THEN x ELSE {})
<1>1. new \in [DOMAIN new -> SUBSET Postings] /\ DOMAIN new \subseteq Nat
  BY SegmentsDef
<1>2. \A t \in S : Of(t) \in SUBSET Postings
  BY <1>1
<1>3. S \in SUBSET Nat
  BY <1>1
<1>4. AddPostings(new, s, x) = [t \in S |-> Of(t)]
  BY DEF AddPostings
<1> HIDE DEF S, Of
<1>5. [t \in S |-> Of(t)] \in [S -> SUBSET Postings]
  BY <1>2
<1> QED BY <1>3, <1>4, <1>5 DEF Segments

LEMMA PlanPast ==
  ASSUME NEW pl \in Plan, NEW p, NEW n \in Nat
  PROVE  [pl EXCEPT !.todo = pl.todo \ {p}, !.read = n] \in Plan
BY DEF Plan

LEMMA PlanFile ==
  ASSUME NEW pl \in Plan, NEW ps \in Seq(Paths), NEW ds \in Seq(Doc), NEW new \in Segments
  PROVE  [pl EXCEPT !.changed = TRUE, !.paths = ps, !.docs = ds, !.new = new] \in Plan
BY DEF Plan

LEMMA AddFileTyped ==
  ASSUME fs \in [Paths -> Nat], NEW pl \in Plan, NEW p \in Paths, NEW s \in Nat
  PROVE  AddFile(pl, p, s) \in Plan
<1> DEFINE past == [pl EXCEPT !.todo = pl.todo \ {p}, !.read = pl.read + 1]
<1>0. past \in Plan
  <2>1. pl.read + 1 \in Nat
    BY DEF Plan
  <2> QED BY <2>1, PlanPast
<1>1. CASE fs[p] = Absent
  <2>1. AddFile(pl, p, s) = past
    BY <1>1 DEF AddFile
  <2> QED BY <1>0, <2>1
<1>2. CASE fs[p] # Absent
  <2> DEFINE ps  == IF PathId(pl.paths, p) = Len(pl.paths) THEN Append(pl.paths, p) ELSE pl.paths
             doc == [path |-> PathId(pl.paths, p), mtime |-> [unit |-> pl.unit, at |-> fs[p]],
                     live |-> TRUE]
             ds  == Append(pl.docs, doc)
             new == AddPostings(pl.new, s, {<<Len(pl.docs) + 1, fs[p]>>})
  <2>1. pl.docs \in Seq(Doc) /\ pl.paths \in Seq(Paths) /\ pl.new \in Segments /\ pl.read \in Nat
    BY DEF Plan
  <2>2. ps \in Seq(Paths)
    BY <2>1, AppendProperties
  <2>3. doc \in Doc
    <3>1. PathId(pl.paths, p) \in Nat
      BY <2>1, PathIdTyped
    <3> QED BY <3>1 DEF Doc, Stamp, Plan
  <2>4. ds \in Seq(Doc)
    BY <2>1, <2>3, AppendProperties
  <2>5. new \in Segments
    <3>1. {<<Len(pl.docs) + 1, fs[p]>>} \in SUBSET Postings
      BY <2>1, LenProperties DEF Postings
    <3> QED BY <2>1, <3>1, AddPostingsTyped
  <2>6. AddFile(pl, p, s) = [past EXCEPT !.changed = TRUE, !.paths = ps, !.docs = ds, !.new = new]
    BY <1>2 DEF AddFile, Plan
  <2> HIDE DEF past, ps, doc, ds, new
  <2>7. [past EXCEPT !.changed = TRUE, !.paths = ps, !.docs = ds, !.new = new] \in Plan
    BY <1>0, <2>2, <2>4, <2>5, PlanFile
  <2> QED BY <2>6, <2>7
<1> QED BY <1>1, <1>2

LEMMA MarkedTyped ==
  ASSUME docs \in Seq(Doc), NEW dead
  PROVE  /\ Marked(dead) \in Seq(Doc) /\ Len(Marked(dead)) = Len(docs)
         /\ Grows(docs, Marked(dead))
<1>1. DOMAIN docs = 1..Len(docs) /\ Len(docs) \in Nat /\ \A d \in DOMAIN docs : docs[d] \in Doc
  BY LenProperties, ElementOfSeq
<1>2. \A d \in DOMAIN docs : [docs[d] EXCEPT !.live = @ /\ d \notin dead] \in Doc
  BY <1>1 DEF Doc
<1>3. Marked(dead) \in Seq(Doc) /\ Len(Marked(dead)) = Len(docs)
  BY <1>1, <1>2, IsASeq, LenProperties DEF Marked
<1> QED BY <1>1, <1>3 DEF Marked, Grows, Doc

\* A file read adds a live document, or none.
LEMMA AddFileDocs ==
  ASSUME NEW pl \in Plan, NEW p \in Paths, NEW s
  PROVE  \/ AddFile(pl, p, s).docs = pl.docs
         \/ \E d : d.live /\ AddFile(pl, p, s).docs = Append(pl.docs, d)
<1> DEFINE doc == [path |-> PathId(pl.paths, p), mtime |-> [unit |-> pl.unit, at |-> fs[p]],
                   live |-> TRUE]
<1>1. CASE fs[p] = Absent
  BY <1>1 DEF AddFile, Plan
<1>2. CASE fs[p] # Absent
  <2>1. AddFile(pl, p, s).docs = Append(pl.docs, doc)
    BY <1>2 DEF AddFile, Plan
  <2>2. doc.live
    OBVIOUS
  <2> QED BY <2>1, <2>2
<1> QED BY <1>1, <1>2

LEMMA GrowsAppend ==
  ASSUME NEW S, NEW old \in Seq(S), NEW T, NEW new \in Seq(T), Grows(old, new), NEW d
  PROVE  Grows(old, Append(new, d))
<1>1. /\ Len(old) \in Nat /\ Len(new) \in Nat /\ DOMAIN old = 1..Len(old)
      /\ Len(Append(new, d)) = Len(new) + 1
      /\ \A i \in 1..Len(new) : Append(new, d)[i] = new[i]
  BY LenProperties, AppendProperties
<1>2. Len(old) <= Len(new)
  BY DEF Grows
<1>3. \A i \in DOMAIN old : Append(new, d)[i] = new[i]
  BY <1>1, <1>2
<1> QED BY <1>1, <1>2, <1>3 DEF Grows

AllLive(ds) == \A d \in DOMAIN ds : ds[d].live

LEMMA LiveAppend ==
  ASSUME NEW S, NEW ds \in Seq(S), AllLive(ds), NEW d, d.live
  PROVE  AllLive(Append(ds, d))
<1> DEFINE new == Append(ds, d)
<1>1. /\ Len(ds) \in Nat /\ DOMAIN ds = 1..Len(ds) /\ DOMAIN new = 1..(Len(ds) + 1)
      /\ \A i \in 1..Len(ds) : new[i] = ds[i]
      /\ new[Len(ds) + 1] = d
  BY LenProperties, AppendProperties
<1> HIDE DEF new
<1>2. ASSUME NEW i \in DOMAIN new PROVE new[i].live
  <2>1. i = Len(ds) + 1 \/ i \in 1..Len(ds)
    BY <1>1, <1>2
  <2> QED BY <1>1, <2>1 DEF AllLive
<1> QED BY <1>2 DEF AllLive, new

LEMMA NoTombstones == ASSUME NEW ds, AllLive(ds) PROVE Tombstones(ds) = 0
<1>1. {d \in DOMAIN ds : ~ds[d].live} = {}
  BY DEF AllLive
<1> QED BY <1>1, FS_EmptySet DEF Tombstones

LEMMA SegmentsKept ==
  ASSUME NEW s \in Segments, NEW S
  PROVE  [t \in DOMAIN s \ S |-> s[t]] \in Segments
<1>1. s \in [DOMAIN s -> SUBSET Postings] /\ DOMAIN s \subseteq Nat
  BY SegmentsDef
<1>2. [t \in DOMAIN s \ S |-> s[t]] \in [DOMAIN s \ S -> SUBSET Postings]
  BY <1>1
<1> QED BY <1>1, <1>2 DEF Segments

LEMMA SegmentsJoined ==
  ASSUME NEW s \in Segments, NEW new \in Segments
  PROVE  [t \in DOMAIN s \cup DOMAIN new |-> IF t \in DOMAIN new THEN new[t] ELSE s[t]] \in Segments
<1> DEFINE Of(t) == IF t \in DOMAIN new THEN new[t] ELSE s[t]
           S == DOMAIN s \cup DOMAIN new
<1>1. /\ s \in [DOMAIN s -> SUBSET Postings] /\ DOMAIN s \subseteq Nat
      /\ new \in [DOMAIN new -> SUBSET Postings] /\ DOMAIN new \subseteq Nat
  BY SegmentsDef
<1>2. (\A t \in S : Of(t) \in SUBSET Postings) /\ S \in SUBSET Nat
  BY <1>1
<1> HIDE DEF S, Of
<1>3. [t \in S |-> Of(t)] \in [S -> SUBSET Postings]
  BY <1>2
<1>4. [t \in S |-> Of(t)] \in Segments
  BY <1>2, <1>3 DEF Segments
<1> QED BY <1>4 DEF S, Of

LEMMA PlanClears ==
  ASSUME NEW pl \in Plan, NEW c \in SUBSET Paths
  PROVE  LET new == [pl EXCEPT !.clears = c]
         IN  /\ new \in Plan /\ new.docs = pl.docs /\ new.paths = pl.paths
             /\ new.next = pl.next
BY DEF Plan

LEMMA MergePlanTyped == MergePlan \in Plan /\ MergePlan.docs = <<>> /\ MergePlan.next = 1
<1> DEFINE one == [s \in {1} |-> {}]
<1>1. one \in [{1} -> SUBSET Postings] /\ {1} \in SUBSET Nat
  OBVIOUS
<1>2. one \in Segments
  BY <1>1 DEF Segments
<1> HIDE DEF one
<1>3. MergePlan = [NoPlan EXCEPT !.next = 1, !.new = one]
  BY DEF MergePlan, one
<1>4. NoPlan \in Plan /\ NoPlan.docs = <<>>
  BY NoPlanTyped DEF NoPlan
<1> QED BY <1>2, <1>3, <1>4 DEF Plan

---------------------------------------------------------------------------
(* Each action preserves the invariant *)

\* A step that only reads: the files, the operation and its step stay
LEMMA Prepared ==
  ASSUME IInv, Typed', UNCHANGED <<disk, op, pc, torn>>,
         pc \in {"paths", "meta"} => plan'.docs = plan.docs /\ plan'.paths = plan.paths,
         (op = "delta" /\ pc \in {"read", "segment", "docs"}) => Grows(docs, plan'.docs),
         op \in {"build", "merge"} => AllLive(plan'.docs)
  PROVE  IInv'
<1>1. UNCHANGED <<dir, meta, docs, paths, segs>>
  BY DEF disk
<1>2. Removed' /\ Opens' /\ Whole' /\ Replaced'
  BY <1>1 DEF IInv, Removed, Opens, Whole, Readable, Replaced
<1>3. Extends' /\ NoneDead'
  BY <1>1 DEF Extends, NoneDead, AllLive
<1>4. Counted'
  BY <1>1 DEF IInv, Counted, CutShort
<1> QED BY <1>2, <1>3, <1>4 DEF IInv

\* A step that ends the operation, or has nothing prepared yet
LEMMA Emptied ==
  ASSUME IInv, Typed', plan'.docs = <<>>,
         ~(pc' \in {"docs", "paths", "meta"}), op' # "delta",
         Removed', Opens', Whole', Counted'
  PROVE  IInv'
<1>1. Replaced' /\ Extends' /\ NoneDead'
  BY DEF Replaced, Extends, NoneDead
<1> QED BY <1>1 DEF IInv

LEMMA EditStep == ASSUME IInv, NEW p \in Paths, Edit(p) PROVE IInv'
<1>1. fs' \in [Paths -> Nat] /\ clock' \in Nat
  <2>1. fs \in [Paths -> Nat] /\ clock \in Nat
    BY DEF IInv, Typed
  <2>2. CASE Write(p)
    BY <2>1, <2>2 DEF Write
  <2>3. CASE Delete(p)
    BY <2>1, <2>3 DEF Delete, Absent
  <2> QED BY <2>2, <2>3 DEF Edit
<1>2. /\ plan' \in Plan /\ plan'.docs = plan.docs /\ plan'.paths = plan.paths
      /\ plan'.next = plan.next
  <2>1. plan \in Plan /\ plan.clears \ {p} \in SUBSET Paths
    BY DEF IInv, Typed, Plan
  <2>2. plan' = [plan EXCEPT !.clears = plan.clears \ {p}]
    BY DEF Edit
  <2> QED BY <2>1, <2>2, PlanClears
<1>3. UNCHANGED <<disk, op, pc, torn, cuts>> /\ dirty' = dirty \cup {p}
  BY DEF Edit
<1>4. Typed'
  <2>1. UNCHANGED <<dir, meta, docs, paths, segs>>
    BY <1>3 DEF disk
  <2> QED BY <1>1, <1>2, <1>3, <2>1 DEF IInv, Typed, Control
<1>5. /\ (op = "delta" /\ pc \in {"read", "segment", "docs"}) => Grows(docs, plan'.docs)
      /\ op \in {"build", "merge"} => AllLive(plan'.docs)
  BY <1>2 DEF IInv, Extends, NoneDead, AllLive
<1> QED BY <1>2, <1>3, <1>4, <1>5, Prepared

LEMMA StartBuildStep == ASSUME IInv, op = "idle", StartBuild PROVE IInv'
<1>0. /\ op' = "build" /\ pc' \in {"remove", "walk"} /\ (pc' # "remove" => ~dir)
      /\ plan' = NoPlan /\ plan'.docs = <<>> /\ plan' \in Plan
      /\ UNCHANGED <<fs, clock, dir, meta, docs, paths, segs, dirty, torn, cuts>>
  BY NoPlanTyped DEF StartBuild, tree, disk, NoPlan
<1>1. Typed'
  BY <1>0 DEF IInv, Typed, Control
<1>2. Removed' /\ Opens' /\ Whole'
  BY <1>0 DEF IInv, Removed, Opens, Whole
<1>3. Counted'
  BY <1>0 DEF IInv, Counted, CutShort
<1> QED BY <1>0, <1>1, <1>2, <1>3, Emptied

LEMMA BuildRemoveStep == ASSUME IInv, BuildRemove PROVE IInv'
<1>0. op = "build" /\ pc = "remove" /\ UNCHANGED <<fs, clock, op, plan, dirty, torn, cuts>>
  BY DEF BuildRemove, tree
<1>1. /\ meta' \in {meta, NoFile} /\ docs' \in {docs, NoFile} /\ paths' \in {paths, NoFile}
      /\ segs' \in Segments
  <2>1. segs \in Segments
    BY DEF IInv, Typed
  <2>2. \A s \in DOMAIN segs : [t \in DOMAIN segs \ {s} |-> segs[t]] \in Segments
    BY <2>1, SegmentsKept
  <2> QED BY <2>1, <2>2 DEF BuildRemove, RemoveFile
<1>2. \/ pc' = "remove" /\ dir' = dir
      \/ pc' = "walk" /\ dir' = FALSE /\ meta' = NoFile
  BY <1>0 DEF BuildRemove, RemoveFile
<1>3. Typed'
  BY <1>0, <1>1, <1>2 DEF IInv, Typed, Control
<1>4. Removed' /\ Opens' /\ Whole'
  BY <1>0, <1>1, <1>2 DEF IInv, Removed, Opens, Whole
<1>5. Replaced' /\ Extends'
  BY <1>0, <1>2 DEF Replaced, Extends
<1>6. NoneDead'
  BY <1>0 DEF IInv, NoneDead
<1>7. Counted'
  BY <1>0, <1>1 DEF IInv, Counted
<1> QED BY <1>3, <1>4, <1>5, <1>6, <1>7 DEF IInv

LEMMA BuildWalkStep == ASSUME IInv, BuildWalk PROVE IInv'
<1> DEFINE found == {p \in Paths : fs[p] # Absent}
<1>0. /\ op = "build" /\ pc = "walk" /\ pc' = "read" /\ dir' = TRUE
      /\ UNCHANGED <<fs, clock, meta, docs, paths, segs, op, dirty, torn, cuts>>
  BY DEF BuildWalk, tree
<1>1. plan' \in Plan /\ plan'.docs = plan.docs
  <2>1. plan' = [plan EXCEPT !.todo = found, !.clears = Paths \ found]
    BY DEF BuildWalk
  <2>2. plan \in Plan /\ found \in SUBSET Paths
    BY DEF IInv, Typed
  <2> QED BY <2>1, <2>2 DEF Plan
<1>2. Typed'
  BY <1>0, <1>1 DEF IInv, Typed, Control
<1>3. Removed' /\ Opens' /\ Whole'
  BY <1>0 DEF IInv, Removed, Opens, Whole
<1>4. Replaced' /\ Extends'
  BY <1>0 DEF Replaced, Extends
<1>5. NoneDead'
  BY <1>0, <1>1 DEF IInv, NoneDead
<1>6. Counted'
  BY <1>0 DEF IInv, Counted
<1> QED BY <1>2, <1>3, <1>4, <1>5, <1>6 DEF IInv

LEMMA BuildReadStep == ASSUME IInv, NEW p \in Paths, BuildRead(p) PROVE IInv'
<1> DEFINE s     == plan.read \div ChunkSize + 1
           fresh == fs[p] # Absent /\ ~\E i \in DOMAIN plan.ids : plan.ids[i] = s
           added == AddFile(plan, p, s)
<1>0. /\ op = "build" /\ pc = "read" /\ plan \in Plan /\ fs \in [Paths -> Nat]
      /\ UNCHANGED <<disk, op, pc, torn>>
      /\ UNCHANGED <<fs, clock, dir, meta, docs, paths, segs, cuts, dirty>>
  BY DEF BuildRead, IInv, Typed, tree, disk
<1>1. s \in Nat
  <2>1. plan.read \in Nat /\ ChunkSize \in Nat /\ ChunkSize > 0
    BY <1>0, StoreAssumption DEF Plan
  <2>2. \A a, b \in Nat : b > 0 => a \div b + 1 \in Nat
    OBVIOUS
  <2> QED BY <2>1, <2>2
<1>2. added \in Plan
  BY <1>0, <1>1, AddFileTyped
<1>3. plan' \in Plan /\ plan'.docs = added.docs
  <2> DEFINE ids == IF fresh THEN Append(added.ids, s) ELSE added.ids
             c   == added.clears \cup {p}
  <2>1. plan' = [added EXCEPT !.ids = ids, !.clears = c]
    BY DEF BuildRead
  <2>2. ids \in Seq(Nat) /\ c \in SUBSET Paths
    <3>1. added.ids \in Seq(Nat) /\ added.clears \in SUBSET Paths
      BY <1>2 DEF Plan
    <3>2. Append(added.ids, s) \in Seq(Nat)
      BY <1>1, <3>1, AppendProperties
    <3> QED BY <3>1, <3>2
  <2> HIDE DEF added, ids, c
  <2> QED BY <1>2, <2>1, <2>2 DEF Plan
<1>4. Typed'
  BY <1>0, <1>3 DEF IInv, Typed, Control
<1>5. AllLive(plan'.docs)
  <2>1. plan.docs \in Seq(Doc) /\ AllLive(plan.docs)
    BY <1>0 DEF IInv, NoneDead, AllLive, Plan
  <2>2. added.docs = plan.docs \/ \E d : d.live /\ added.docs = Append(plan.docs, d)
    BY <1>0, AddFileDocs
  <2> QED BY <1>3, <2>1, <2>2, LiveAppend
<1> QED BY <1>0, <1>4, <1>5, Prepared

LEMMA BuildFinalizeStep == ASSUME IInv, BuildFinalize PROVE IInv'
<1>0. /\ op = "build" /\ pc = "read" /\ pc' = "segment"
      /\ UNCHANGED <<fs, clock, dir, meta, docs, paths, segs, op, plan, dirty, torn, cuts>>
  BY DEF BuildFinalize, tree, disk
<1>1. Typed'
  BY <1>0 DEF IInv, Typed, Control
<1>2. Removed' /\ Opens' /\ Whole' /\ Counted'
  BY <1>0 DEF IInv, Removed, Opens, Whole, Counted
<1>3. Replaced' /\ Extends' /\ NoneDead'
  BY <1>0 DEF IInv, Replaced, Extends, NoneDead
<1> QED BY <1>1, <1>2, <1>3 DEF IInv

LEMMA StartDeltaStep ==
  ASSUME IInv, op = "idle", Readable, NEW created \in SUBSET Paths, NEW modified \in SUBSET Paths,
         NEW deleted, NEW unit \in {"s", "ns"}, NEW clears \in SUBSET Paths,
         StartDelta(created, modified, deleted, unit, clears)
  PROVE  IInv'
<1> DEFINE dead == Buried(deleted \cup modified)
<1>0. /\ op' = "delta" /\ pc' = "read"
      /\ UNCHANGED <<fs, clock, dir, meta, docs, paths, segs, dirty, torn, cuts>>
  BY DEF StartDelta, tree, disk
<1>1. meta \in Meta /\ docs \in Seq(Doc) /\ paths \in Seq(Paths)
  BY DEF IInv, Typed, Readable
<1>2. plan' \in Plan /\ plan'.docs = Marked(dead)
  <2> DEFINE seg == NextSegment(meta)
             todo == created \cup modified
             changed == dead # {}
             ds == Marked(dead)
  <2>1. plan' = [NoPlan EXCEPT !.unit = unit, !.todo = todo, !.seg = seg, !.changed = changed,
                               !.docs = ds, !.paths = paths, !.clears = clears]
    BY DEF StartDelta
  <2>2. /\ seg \in Nat /\ todo \in SUBSET Paths /\ changed \in BOOLEAN
        /\ ds \in Seq(Doc)
    BY <1>1, NextSegmentTyped, MarkedTyped
  <2>3. NoPlan \in Plan
    BY NoPlanTyped
  <2> HIDE DEF seg, todo, changed, ds, dead
  <2>4. plan' \in Plan /\ plan'.docs = ds
    BY <1>1, <2>1, <2>2, <2>3 DEF Plan
  <2> QED BY <2>4 DEF ds
<1>3. Typed'
  BY <1>0, <1>2 DEF IInv, Typed, Control
<1>4. Removed' /\ Opens' /\ Whole'
  BY <1>0 DEF IInv, Removed, Opens, Whole, Readable
<1>5. Replaced' /\ NoneDead'
  BY <1>0 DEF Replaced, NoneDead
<1>6. Extends'
  BY <1>0, <1>1, <1>2, MarkedTyped DEF Extends
<1>7. Counted'
  BY <1>0 DEF IInv, Counted, CutShort
<1> QED BY <1>3, <1>4, <1>5, <1>6, <1>7 DEF IInv

LEMMA UpdateIndexStep == ASSUME IInv, UpdateIndex PROVE IInv'
<1>0. op = "idle"
  BY DEF UpdateIndex
<1>1. CASE StartBuild
  BY <1>0, <1>1, StartBuildStep
<1>2. CASE dirty' = {} /\ UNCHANGED <<tree, disk, op, pc, plan, torn, cuts>>
  <2>1. UNCHANGED <<fs, clock, dir, meta, docs, paths, segs>>
    BY <1>2 DEF tree, disk
  <2>2. Typed'
    BY <1>2, <2>1 DEF IInv, Typed, Control
  <2>3. op = "idle" /\ pc = "idle"
    BY <1>0 DEF IInv, Typed, Control
  <2> QED BY <1>0, <1>2, <2>2, <2>3, Prepared
<1>3. CASE /\ Readable
           /\ StartDelta(NewFiles, ModifiedFiles, DeletedFiles, "s",
                         Paths \ (NewFiles \cup ModifiedFiles))
  <2>1. NewFiles \in SUBSET Paths /\ ModifiedFiles \in SUBSET Paths
    BY DEF NewFiles, ModifiedFiles
  <2> DEFINE clears == Paths \ (NewFiles \cup ModifiedFiles)
  <2>2. clears \in SUBSET Paths /\ "s" \in {"s", "ns"}
    OBVIOUS
  <2> HIDE DEF clears
  <2>3. StartDelta(NewFiles, ModifiedFiles, DeletedFiles, "s", clears)
    BY <1>3 DEF clears
  <2> QED BY <1>0, <1>3, <2>1, <2>2, <2>3, StartDeltaStep
<1> QED BY <1>1, <1>2, <1>3 DEF UpdateIndex

LEMMA DaemonFlushStep ==
  ASSUME IInv, NEW batch \in SUBSET dirty, DaemonFlush(batch) PROVE IInv'
<1> DEFINE present == {p \in batch : fs[p] # Absent}
           known   == {p \in batch : Listed(p) # {}}
<1>0. op = "idle" /\ Readable /\ batch \in SUBSET Paths
  BY DEF DaemonFlush, IInv, Typed
<1>1. CASE StartBuild
  BY <1>0, <1>1, StartBuildStep
<1>2. CASE StartDelta(present \ known, present \cap known, batch \ present, "ns", batch \ present)
  <2>1. /\ present \ known \in SUBSET Paths /\ present \cap known \in SUBSET Paths
        /\ batch \ present \in SUBSET Paths /\ "ns" \in {"s", "ns"}
    BY <1>0
  <2> HIDE DEF present, known
  <2> QED BY <1>0, <1>2, <2>1, StartDeltaStep
<1> QED BY <1>1, <1>2 DEF DaemonFlush

LEMMA DeltaReadStep == ASSUME IInv, NEW p \in Paths, DeltaRead(p) PROVE IInv'
<1> DEFINE added == AddFile(plan, p, plan.seg)
<1>0. /\ op = "delta" /\ pc = "read" /\ plan \in Plan /\ fs \in [Paths -> Nat] /\ plan.seg \in Nat
      /\ UNCHANGED <<disk, op, pc, torn>>
      /\ UNCHANGED <<fs, clock, dir, meta, docs, paths, segs, cuts, dirty>>
  BY DEF DeltaRead, IInv, Typed, tree, disk, Plan
<1>1. added \in Plan
  BY <1>0, AddFileTyped
<1>2. plan' \in Plan /\ plan'.docs = added.docs
  <2> DEFINE c == added.clears \cup {p}
  <2>1. plan' = [added EXCEPT !.clears = c]
    BY DEF DeltaRead
  <2>2. c \in SUBSET Paths
    BY <1>1 DEF Plan
  <2> HIDE DEF added, c
  <2> QED BY <1>1, <2>1, <2>2, PlanClears
<1>3. Typed'
  BY <1>0, <1>2 DEF IInv, Typed, Control
<1>4. Grows(docs, plan'.docs)
  <2>1. docs \in Seq(Doc) /\ plan.docs \in Seq(Doc) /\ Grows(docs, plan.docs)
    BY <1>0 DEF IInv, Extends, Opens, Readable, Typed, Plan
  <2>2. added.docs = plan.docs \/ \E d : d.live /\ added.docs = Append(plan.docs, d)
    BY <1>0, AddFileDocs
  <2> HIDE DEF added
  <2> QED BY <1>2, <2>1, <2>2, GrowsAppend
<1> QED BY <1>0, <1>3, <1>4, Prepared

LEMMA DeltaFinalizeStep == ASSUME IInv, DeltaFinalize PROVE IInv'
<1>0. /\ op = "delta" /\ pc = "read"
      /\ UNCHANGED <<fs, clock, dir, meta, docs, paths, segs, torn, cuts>>
  BY DEF DeltaFinalize, tree, disk
<1>1. CASE pc' = "segment" /\ UNCHANGED <<op, plan, dirty>>
  <2>1. Typed'
    BY <1>0, <1>1 DEF IInv, Typed, Control
  <2>2. Removed' /\ Opens' /\ Whole' /\ Replaced' /\ NoneDead'
    BY <1>0, <1>1 DEF IInv, Removed, Opens, Whole, Readable, Replaced, NoneDead
  <2>3. Extends'
    BY <1>0, <1>1 DEF IInv, Extends
  <2>4. Counted'
    BY <1>0, <1>1 DEF IInv, Counted, CutShort
  <2> QED BY <2>1, <2>2, <2>3, <2>4 DEF IInv
<1>2. CASE op' = "idle" /\ pc' = "idle" /\ plan' = NoPlan /\ dirty' = dirty \ plan.clears
  <2>1. plan' \in Plan /\ plan'.docs = <<>>
    BY <1>2, NoPlanTyped DEF NoPlan
  <2>2. Typed'
    BY <1>0, <1>2, <2>1 DEF IInv, Typed, Control
  <2>3. Removed' /\ Opens' /\ Whole'
    BY <1>0, <1>2 DEF IInv, Removed, Opens, Whole, Readable
  <2>4. Counted'
    BY <1>0, <1>2 DEF IInv, Counted, CutShort
  <2> QED BY <1>2, <2>1, <2>2, <2>3, <2>4, Emptied
<1> QED BY <1>1, <1>2 DEF DeltaFinalize

LEMMA StartCompactStep == ASSUME IInv, StartCompact PROVE IInv'
<1>0. /\ op = "idle" /\ Readable /\ op' = "merge" /\ pc' = "remap"
      /\ UNCHANGED <<fs, clock, dir, meta, docs, paths, segs, dirty, torn, cuts>>
  BY DEF StartCompact, tree, disk
<1>1. plan' \in Plan /\ plan'.docs = <<>> /\ plan'.next = 1
  BY MergePlanTyped DEF StartCompact
<1>2. Typed'
  BY <1>0, <1>1 DEF IInv, Typed, Control
<1>3. Removed' /\ Opens' /\ Whole'
  BY <1>0 DEF IInv, Removed, Opens, Whole, Readable
<1>4. Counted'
  BY <1>0 DEF IInv, Counted, CutShort
<1> QED BY <1>0, <1>1, <1>2, <1>3, <1>4, Emptied

LEMMA MergeDocStep == ASSUME IInv, MergeDoc PROVE IInv'
<1> DEFINE d     == docs[plan.next]
           known == \E i \in DOMAIN plan.from : plan.from[i] = d.path
           keep  == d.live /\ (known \/ d.path < Len(paths))
           id    == Len(plan.docs) + 1
           ids   == PathId(plan.from, d.path)
<1>0. /\ op = "merge" /\ pc = "remap" /\ plan \in Plan /\ plan.next # 0
      /\ meta \in Meta /\ docs \in Seq(Doc) /\ paths \in Seq(Paths) /\ segs \in Segments
      /\ plan.next <= Len(docs)
      /\ UNCHANGED <<disk, op, pc, torn>>
      /\ UNCHANGED <<fs, clock, dir, meta, docs, paths, segs, cuts, dirty>>
  BY DEF MergeDoc, IInv, Typed, Opens, Readable, tree, disk
<1>1. /\ plan.next \in Nat /\ plan.next + 1 \in Nat /\ plan.next + 1 # 0
      /\ plan.from \in Seq(Nat) /\ plan.paths \in Seq(Paths) /\ plan.docs \in Seq(Doc)
      /\ plan.new \in Segments
  BY <1>0 DEF Plan
<1>2. d \in Doc /\ d.path \in Nat
  <2>1. plan.next \in 1..Len(docs)
    BY <1>0, <1>1, LenProperties
  <2>2. d \in Doc
    BY <1>0, <2>1, ElementOfSeq
  <2> QED BY <2>2 DEF Doc
<1>3. AllLive(plan.docs)
  BY <1>0 DEF IInv, NoneDead, AllLive
<1>4. CASE ~keep
  <2>1. plan' = [plan EXCEPT !.next = plan.next + 1]
    BY <1>4 DEF MergeDoc
  <2>2. plan' \in Plan /\ plan'.docs = plan.docs /\ plan'.next # 0
    BY <1>0, <1>1, <2>1 DEF Plan
  <2>3. Typed'
    BY <1>0, <2>2 DEF IInv, Typed, Control
  <2> QED BY <1>0, <1>3, <2>2, <2>3, Prepared
<1>5. CASE keep
  <2> DEFINE from == IF known THEN plan.from ELSE Append(plan.from, d.path)
             ps   == IF known THEN plan.paths ELSE Append(plan.paths, paths[d.path + 1])
             doc  == [d EXCEPT !.path = ids]
             ds   == Append(plan.docs, doc)
             x    == {<<id, y[2]>> : y \in {z \in Loaded : z[1] = plan.next}}
             new  == AddPostings(plan.new, 1, x)
             nxt  == plan.next + 1
  <2>1. plan' = [plan EXCEPT !.next = nxt, !.from = from, !.paths = ps, !.docs = ds, !.new = new]
    BY <1>5 DEF MergeDoc
  <2>2. from \in Seq(Nat)
    BY <1>1, <1>2, AppendProperties
  <2>3. ps \in Seq(Paths)
    <3>1. CASE known
      BY <1>1, <3>1
    <3>2. CASE ~known
      <4>1. d.path + 1 \in 1..Len(paths)
        BY <1>0, <1>2, <1>5, <3>2, LenProperties
      <4>2. paths[d.path + 1] \in Paths
        BY <1>0, <4>1, ElementOfSeq
      <4> QED BY <1>1, <3>2, <4>2, AppendProperties
    <3> QED BY <3>1, <3>2
  <2>4. doc \in Doc /\ doc.live
    <3>1. ids \in Nat
      BY <1>1, PathIdTyped
    <3> QED BY <1>2, <1>5, <3>1 DEF Doc
  <2>5. ds \in Seq(Doc) /\ AllLive(ds)
    <3> HIDE DEF doc
    <3>1. ds \in Seq(Doc)
      BY <1>1, <2>4, AppendProperties
    <3>2. AllLive(ds)
      BY <1>1, <1>3, <2>4, LiveAppend
    <3> QED BY <3>1, <3>2
  <2>6. new \in Segments
    <3>1. Loaded \subseteq Postings
      <4>1. segs \in [DOMAIN segs -> SUBSET Postings]
        BY <1>0, SegmentsDef
      <4>2. \A s \in DOMAIN segs : segs[s] \subseteq Postings
        BY <4>1
      <4> QED BY <4>2 DEF Loaded
    <3>2. \A y \in Loaded : y[2] \in Nat
      BY <3>1 DEF Postings
    <3>3. id \in Nat
      BY <1>1, LenProperties
    <3>4. x \in SUBSET Postings
      BY <3>2, <3>3 DEF Postings
    <3>5. 1 \in Nat
      OBVIOUS
    <3> HIDE DEF x
    <3> QED BY <1>1, <3>4, <3>5, AddPostingsTyped
  <2>7. plan' \in Plan /\ plan'.docs = ds /\ plan'.next # 0
    <3>1. nxt \in Nat /\ nxt # 0
      BY <1>1
    <3> HIDE DEF from, ps, ds, new, nxt
    <3> QED BY <1>0, <2>1, <2>2, <2>3, <2>5, <2>6, <3>1 DEF Plan
  <2>8. Typed'
    BY <1>0, <2>7 DEF IInv, Typed, Control
  <2> HIDE DEF ds
  <2> QED BY <1>0, <2>5, <2>7, <2>8, Prepared
<1> QED BY <1>4, <1>5

LEMMA MergeFinalizeStep == ASSUME IInv, MergeFinalize PROVE IInv'
<1>0. /\ op = "merge" /\ pc = "remap" /\ pc' = "segment"
      /\ UNCHANGED <<fs, clock, dir, meta, docs, paths, segs, op, plan, dirty, torn, cuts>>
  BY DEF MergeFinalize, tree, disk
<1>1. Typed'
  BY <1>0 DEF IInv, Typed, Control
<1>2. Removed' /\ Opens' /\ Whole'
  BY <1>0 DEF IInv, Removed, Opens, Whole, Readable
<1>3. Replaced' /\ Extends' /\ NoneDead'
  BY <1>0 DEF IInv, Replaced, Extends, NoneDead
<1>4. Counted'
  BY <1>0 DEF IInv, Counted, CutShort
<1> QED BY <1>1, <1>2, <1>3, <1>4 DEF IInv

LEMMA MergeCleanupStep == ASSUME IInv, MergeCleanup PROVE IInv'
<1>0. /\ op = "merge" /\ pc = "cleanup" /\ op' = "idle" /\ pc' = "idle" /\ plan' = NoPlan
      /\ UNCHANGED <<fs, clock, dir, meta, docs, paths, dirty, torn, cuts>>
  BY DEF MergeCleanup, tree
<1>1. segs' \in Segments
  <2>1. segs \in Segments
    BY DEF IInv, Typed
  <2> QED BY <2>1, SegmentsKept DEF MergeCleanup
<1>2. plan' \in Plan /\ plan'.docs = <<>>
  BY <1>0, NoPlanTyped DEF NoPlan
<1>3. Typed'
  BY <1>0, <1>1, <1>2 DEF IInv, Typed, Control
<1>4. Removed' /\ Opens' /\ Whole'
  BY <1>0 DEF IInv, Removed, Opens, Whole, Readable
<1>5. Counted'
  BY <1>0 DEF IInv, Counted, CutShort
<1> QED BY <1>0, <1>2, <1>3, <1>4, <1>5, Emptied

LEMMA WriteSegmentsStep == ASSUME IInv, WriteSegments PROVE IInv'
<1>0. /\ pc = "segment" /\ pc' = "docs" /\ op # "idle"
      /\ UNCHANGED <<fs, clock, dir, meta, docs, paths, op, plan, dirty, torn, cuts>>
  BY DEF WriteSegments, tree, IInv, Typed, Control
<1>1. segs' \in Segments
  <2>1. segs \in Segments /\ plan.new \in Segments
    BY DEF IInv, Typed, Plan
  <2>2. segs' = [t \in DOMAIN segs \cup DOMAIN plan.new |->
                   IF t \in DOMAIN plan.new THEN plan.new[t] ELSE segs[t]]
    BY DEF WriteSegments
  <2> QED BY <2>1, <2>2, SegmentsJoined
<1>2. Typed'
  BY <1>0, <1>1 DEF IInv, Typed, Control
<1>3. Removed' /\ Opens' /\ Whole'
  BY <1>0 DEF IInv, Removed, Opens, Whole, Readable
<1>4. Replaced' /\ NoneDead'
  BY <1>0 DEF IInv, Replaced, NoneDead
<1>5. Extends'
  BY <1>0 DEF IInv, Extends
<1>6. Counted'
  BY <1>0 DEF IInv, Counted, CutShort
<1> QED BY <1>2, <1>3, <1>4, <1>5, <1>6 DEF IInv

LEMMA WriteDocsStep == ASSUME IInv, WriteDocs PROVE IInv'
<1>0. /\ pc = "docs" /\ pc' = "paths" /\ docs' = plan.docs
      /\ op \in {"build", "delta", "merge"}
      /\ UNCHANGED <<fs, clock, dir, meta, paths, segs, op, plan, dirty, torn, cuts>>
  BY DEF WriteDocs, tree, IInv, Typed, Control
<1>1. docs' \in Seq(Doc) /\ docs' # NoFile
  BY <1>0, NoFileAssumption DEF IInv, Typed, Plan
<1>2. Typed'
  BY <1>0, <1>1 DEF IInv, Typed, Control
<1>3. Removed' /\ Opens' /\ Whole'
  BY <1>0, <1>1 DEF IInv, Removed, Opens, Whole, Readable
<1>4. Replaced' /\ Extends' /\ NoneDead'
  BY <1>0 DEF IInv, Replaced, Extends, NoneDead
<1>5. Counted'
  BY <1>0 DEF IInv, Counted, CutShort
<1> QED BY <1>2, <1>3, <1>4, <1>5 DEF IInv

LEMMA WritePathsStep == ASSUME IInv, WritePaths PROVE IInv'
<1>0. /\ pc = "paths" /\ pc' = "meta" /\ paths' = plan.paths
      /\ op \in {"build", "delta", "merge"}
      /\ UNCHANGED <<fs, clock, dir, meta, docs, segs, op, plan, dirty, torn, cuts>>
  BY DEF WritePaths, tree, IInv, Typed, Control
<1>1. paths' \in Seq(Paths) /\ paths' # NoFile
  BY <1>0, NoFileAssumption DEF IInv, Typed, Plan
<1>2. Typed'
  BY <1>0, <1>1 DEF IInv, Typed, Control
<1>3. Removed' /\ Opens' /\ Whole'
  BY <1>0, <1>1 DEF IInv, Removed, Opens, Whole, Readable
<1>4. Replaced' /\ Extends' /\ NoneDead'
  BY <1>0 DEF IInv, Replaced, Extends, NoneDead
<1>5. Counted'
  BY <1>0 DEF IInv, Counted, CutShort
<1> QED BY <1>2, <1>3, <1>4, <1>5 DEF IInv

LEMMA TombstonesTyped == ASSUME NEW ds \in Seq(Doc) PROVE Tombstones(ds) \in Nat
<1> DEFINE dead == {d \in DOMAIN ds : ~ds[d].live}
<1>1. DOMAIN ds = 1..Len(ds) /\ Len(ds) \in Nat
  BY LenProperties
<1>2. IsFiniteSet(1..Len(ds))
  BY <1>1, FS_Interval
<1>3. IsFiniteSet(dead)
  BY <1>1, <1>2, FS_Subset
<1> QED BY <1>3, FS_CardinalityType DEF Tombstones

\* What every writer has done when only meta.json is left to replace
LEMMA AllButMeta ==
  ASSUME IInv, pc = "meta"
  PROVE  /\ op \in {"build", "delta", "merge"} /\ dir = TRUE
         /\ docs = plan.docs /\ paths = plan.paths
         /\ docs \in Seq(Doc) /\ paths \in Seq(Paths) /\ docs # NoFile /\ paths # NoFile
         /\ op # "build" => meta \in Meta
<1>1. op \in {"build", "delta", "merge"} /\ docs = plan.docs /\ paths = plan.paths
  BY DEF IInv, Typed, Control, Replaced
<1>2. plan.docs \in Seq(Doc) /\ plan.paths \in Seq(Paths)
  BY DEF IInv, Typed, Plan
<1>3. docs # NoFile /\ paths # NoFile
  BY <1>1, <1>2, NoFileAssumption
<1>4. op # "build" => meta \in Meta /\ meta # NoFile
  BY <1>1 DEF IInv, Typed, Opens, Readable
<1>5. dir = TRUE
  BY <1>1, <1>4 DEF IInv, Typed, Removed
<1> QED BY <1>1, <1>2, <1>3, <1>4, <1>5

\* The new meta.json counts the tables it is written over.
LEMMA Committed ==
  ASSUME IInv, WriteMeta, meta' \in Meta, plan' \in Plan, plan'.docs = <<>>,
         \/ op' = "idle" /\ pc' = "idle"
         \/ op' = "merge" /\ pc' = "remap" /\ plan'.next # 0
         \/ op' = "merge" /\ pc' = "cleanup",
         meta'.baseline <= Len(meta'.deltas),
         meta'.docCount = Len(docs), meta'.tombstones = Tombstones(docs)
  PROVE  IInv'
<1>0. /\ dir = TRUE /\ docs # NoFile /\ paths # NoFile /\ meta' # NoFile
      /\ UNCHANGED <<fs, clock, dir, docs, paths, segs, cuts>>
  BY AllButMeta, NoFileAssumption DEF WriteMeta, tree
<1>1. dirty' \subseteq Paths
  BY DEF WriteMeta, IInv, Typed
<1>2. torn' \in BOOLEAN
  BY DEF WriteMeta
<1>3. Typed'
  BY <1>0, <1>1, <1>2 DEF IInv, Typed, Control
<1>4. Removed' /\ Opens' /\ Whole'
  BY <1>0 DEF Removed, Opens, Whole, Readable
<1>5. Counted'
  BY <1>0 DEF Counted
<1> QED BY <1>3, <1>4, <1>5, Emptied

LEMMA BuildCommits == ASSUME IInv, WriteMeta, op = "build" PROVE IInv'
<1>0. /\ pc = "meta" /\ meta' = BuildMeta
      /\ op' = "idle" /\ pc' = "idle" /\ plan' = NoPlan
  BY DEF WriteMeta
<1>1. plan.ids \in Seq(Nat) /\ docs \in Seq(Doc) /\ docs = plan.docs /\ AllLive(docs)
  BY <1>0, AllButMeta DEF IInv, Typed, Plan, NoneDead, AllLive
<1>2. /\ BuildMeta \in Meta /\ BuildMeta.baseline <= Len(BuildMeta.deltas)
      /\ BuildMeta.docCount = Len(docs) /\ BuildMeta.tombstones = 0
  <2>1. Len(docs) \in Nat
    BY <1>1, LenProperties
  <2>2. CASE plan.ids = <<>>
    <3>1. <<>> \in Seq(Nat) /\ Len(<<>>) = 0
      BY EmptySeq
    <3> QED BY <1>1, <2>1, <2>2, <3>1 DEF BuildMeta, Meta
  <2>3. CASE plan.ids # <<>>
    <3>1. /\ plan.ids[1] \in Nat /\ Tail(plan.ids) \in Seq(Nat)
          /\ Len(plan.ids) - 1 \in Nat /\ Len(Tail(plan.ids)) = Len(plan.ids) - 1
      BY <1>1, <2>3, HeadTailProperties, EmptySeq, LenProperties, ElementOfSeq
    <3> QED BY <1>1, <2>1, <2>3, <3>1 DEF BuildMeta, Meta
  <2> QED BY <2>2, <2>3
<1>3. plan' \in Plan /\ plan'.docs = <<>>
  BY <1>0, NoPlanTyped DEF NoPlan
<1>4. Tombstones(docs) = 0
  BY <1>1, NoTombstones
<1> QED BY <1>0, <1>2, <1>3, <1>4, Committed

LEMMA DeltaCommits == ASSUME IInv, WriteMeta, op = "delta" PROVE IInv'
<1>0. pc = "meta" /\ meta' = DeltaMeta
  BY DEF WriteMeta
<1>1. /\ meta \in Meta /\ docs \in Seq(Doc) /\ docs = plan.docs /\ plan.seg \in Nat
      /\ meta.baseline <= Len(meta.deltas)
  <2>1. meta \in Meta /\ docs \in Seq(Doc) /\ docs = plan.docs
    BY <1>0, AllButMeta
  <2>2. meta # NoFile
    BY <2>1, NoFileAssumption
  <2> QED BY <2>1, <2>2 DEF IInv, Typed, Plan, Counted
<1>2. /\ DeltaMeta \in Meta /\ DeltaMeta.baseline <= Len(DeltaMeta.deltas)
      /\ DeltaMeta.docCount = Len(docs) /\ DeltaMeta.tombstones = Tombstones(docs)
  <2> DEFINE deltas == Append(meta.deltas, plan.seg)
             count  == Len(plan.docs)
             dead   == Tombstones(plan.docs)
  <2>1. /\ meta.deltas \in Seq(Nat) /\ meta.baseline \in Nat
    BY <1>1 DEF Meta
  <2>2. /\ deltas \in Seq(Nat) /\ Len(deltas) = Len(meta.deltas) + 1
        /\ Len(meta.deltas) \in Nat
    BY <1>1, <2>1, AppendProperties, LenProperties
  <2>3. count \in Nat /\ dead \in Nat
    BY <1>1, LenProperties, TombstonesTyped
  <2>4. DeltaMeta = [meta EXCEPT !.deltas = deltas, !.docCount = count, !.tombstones = dead]
    BY DEF DeltaMeta
  <2> HIDE DEF deltas, count, dead
  <2>5. /\ DeltaMeta \in Meta /\ DeltaMeta.baseline = meta.baseline
        /\ DeltaMeta.deltas = deltas /\ DeltaMeta.docCount = count /\ DeltaMeta.tombstones = dead
    BY <1>1, <2>2, <2>3, <2>4 DEF Meta
  <2>6. count = Len(docs) /\ dead = Tombstones(docs)
    BY <1>1 DEF count, dead
  <2> QED BY <1>1, <2>1, <2>2, <2>5, <2>6
<1>3. \/ op' = "merge" /\ pc' = "remap" /\ plan' = MergePlan
      \/ op' = "idle" /\ pc' = "idle" /\ plan' = NoPlan
  BY <1>0 DEF WriteMeta
<1>4. plan' \in Plan /\ plan'.docs = <<>> /\ (plan' = MergePlan => plan'.next # 0)
  <2>1. NoPlan \in Plan /\ NoPlan.docs = <<>>
    BY NoPlanTyped DEF NoPlan
  <2> QED BY <1>3, <2>1, MergePlanTyped
<1> QED BY <1>0, <1>2, <1>3, <1>4, Committed

LEMMA MergeCommits == ASSUME IInv, WriteMeta, op = "merge" PROVE IInv'
<1>0. /\ pc = "meta" /\ meta' = MergeMeta /\ op' = "merge" /\ pc' = "cleanup"
      /\ plan' = [NoPlan EXCEPT !.old = SegmentsOf(meta) \ {1}]
  BY DEF WriteMeta
<1>1. meta \in Meta /\ docs \in Seq(Doc) /\ docs = plan.docs /\ AllLive(docs)
  BY <1>0, AllButMeta DEF IInv, NoneDead, AllLive
<1>2. /\ MergeMeta \in Meta /\ MergeMeta.baseline <= Len(MergeMeta.deltas)
      /\ MergeMeta.docCount = Len(docs) /\ MergeMeta.tombstones = 0
  <2>1. Len(docs) \in Nat /\ <<>> \in Seq(Nat) /\ Len(<<>>) = 0
    BY <1>1, LenProperties, EmptySeq
  <2> QED BY <1>1, <2>1 DEF MergeMeta, Meta
<1>3. plan' \in Plan /\ plan'.docs = <<>>
  <2> DEFINE old == SegmentsOf(meta) \ {1}
  <2>1. old \in SUBSET Nat
    <3>1. meta.deltas \in Seq(Nat) /\ meta.base \in Nat
      BY <1>1 DEF Meta
    <3>2. \A i \in DOMAIN meta.deltas : meta.deltas[i] \in Nat
      BY <3>1, ElementOfSeq, LenProperties
    <3> QED BY <3>1, <3>2 DEF SegmentsOf
  <2>2. NoPlan \in Plan /\ NoPlan.docs = <<>>
    BY NoPlanTyped DEF NoPlan
  <2> HIDE DEF old
  <2>3. plan' = [NoPlan EXCEPT !.old = old]
    BY <1>0 DEF old
  <2> QED BY <2>1, <2>2, <2>3 DEF Plan
<1>4. Tombstones(docs) = 0
  BY <1>1, NoTombstones
<1> QED BY <1>0, <1>2, <1>3, <1>4, Committed

LEMMA WriteMetaStep == ASSUME IInv, WriteMeta PROVE IInv'
<1>1. op \in {"build", "delta", "merge"}
  BY AllButMeta DEF WriteMeta
<1> QED BY <1>1, BuildCommits, DeltaCommits, MergeCommits

LEMMA EndWriterStep == ASSUME IInv, op # "idle", EndWriter PROVE IInv'
<1>0. /\ cuts' = cuts + 1 /\ op # "idle"
      /\ op' = "idle" /\ pc' = "idle" /\ plan' = NoPlan /\ torn' = (torn \/ CutShort)
      /\ UNCHANGED <<fs, clock, dir, meta, docs, paths, segs, dirty>>
  BY DEF EndWriter, tree, disk
<1>1. plan' \in Plan /\ plan'.docs = <<>>
  BY <1>0, NoPlanTyped DEF NoPlan
<1>2. torn' \in BOOLEAN
  BY <1>0
<1>3. Typed'
  BY <1>0, <1>1, <1>2 DEF IInv, Typed, Control
<1>4. Removed' /\ Opens' /\ Whole'
  BY <1>0 DEF IInv, Removed, Opens, Whole, Readable, CutShort, Typed, Control
<1>5. Counted'
  BY <1>0 DEF IInv, Counted, Removed, CutShort, Typed, Control
<1> QED BY <1>0, <1>1, <1>3, <1>4, <1>5, Emptied

LEMMA InitIInv == Init => IInv
<1> SUFFICES ASSUME Init PROVE IInv
  OBVIOUS
<1>1. plan \in Plan /\ plan.docs = <<>>
  BY NoPlanTyped DEF Init, NoPlan
<1>2. fs \in [Paths -> Nat]
  BY DEF Init, Absent
<1>3. segs \in Segments
  BY NoSegments DEF Init
<1>4. Typed
  BY <1>1, <1>2, <1>3 DEF Init, Typed, Control
<1> QED BY <1>1, <1>4 DEF Init, IInv, Removed, Opens, Whole, Replaced, Extends, NoneDead, Counted

LEMMA NextIInv == IInv /\ [Next]_vars => IInv'
<1> SUFFICES ASSUME IInv, [Next]_vars PROVE IInv'
  OBVIOUS
<1>1. CASE \E p \in Paths : Edit(p)
  BY <1>1, EditStep
<1>2. CASE ForceBuild
  BY <1>2, StartBuildStep DEF ForceBuild
<1>3. CASE BuildRemove \/ BuildWalk \/ BuildFinalize
  BY <1>3, BuildRemoveStep, BuildWalkStep, BuildFinalizeStep
<1>4. CASE \E p \in Paths : BuildRead(p)
  BY <1>4, BuildReadStep
<1>5. CASE UpdateIndex
  BY <1>5, UpdateIndexStep
<1>6. CASE \E batch \in SUBSET dirty \ {{}} : DaemonFlush(batch)
  BY <1>6, DaemonFlushStep
<1>7. CASE \E p \in Paths : DeltaRead(p)
  BY <1>7, DeltaReadStep
<1>8. CASE DeltaFinalize
  BY <1>8, DeltaFinalizeStep
<1>9. CASE StartCompact \/ MergeDoc \/ MergeFinalize \/ MergeCleanup
  BY <1>9, StartCompactStep, MergeDocStep, MergeFinalizeStep, MergeCleanupStep
<1>10. CASE WriteSegments \/ WriteDocs \/ WritePaths \/ WriteMeta
  BY <1>10, WriteSegmentsStep, WriteDocsStep, WritePathsStep, WriteMetaStep
<1>11. CASE Interrupt
  BY <1>11, EndWriterStep DEF Interrupt
<1>12. CASE UNCHANGED vars
  <2>1. /\ UNCHANGED <<disk, op, pc, torn, plan>>
        /\ UNCHANGED <<fs, clock, dir, meta, docs, paths, segs, cuts, dirty>>
    BY <1>12 DEF vars, disk
  <2>2. Typed'
    BY <2>1 DEF IInv, Typed, Control
  <2>3. /\ (op = "delta" /\ pc \in {"read", "segment", "docs"}) => Grows(docs, plan'.docs)
        /\ op \in {"build", "merge"} => AllLive(plan'.docs)
    BY <2>1 DEF IInv, Extends, NoneDead, AllLive
  <2> QED BY <2>1, <2>2, <2>3, Prepared
<1> QED BY <1>1, <1>2, <1>3, <1>4, <1>5, <1>6, <1>7, <1>8, <1>9, <1>10, <1>11, <1>12 DEF Next

LEMMA Invariance == Spec => []IInv
BY InitIInv, NextIInv, PTL DEF Spec

---------------------------------------------------------------------------
(* What follows from it *)

LEMMA TypedOK == IInv => TypeOK
<1> SUFFICES ASSUME IInv PROVE TypeOK
  OBVIOUS
<1>1. Typed
  BY DEF IInv
<1>2. segs \in [DOMAIN segs -> SUBSET Postings] /\ DOMAIN segs \subseteq Nat
  BY <1>1, SegmentsDef DEF Typed
<1>3. PlanOK
  <2>1. plan \in Plan
    BY <1>1 DEF Typed
  <2>2. plan.new \in Segments
    BY <2>1 DEF Plan
  <2>3. plan.new \in [DOMAIN plan.new -> SUBSET Postings] /\ DOMAIN plan.new \subseteq Nat
    BY <2>2, SegmentsDef
  <2> QED BY <2>1, <2>3 DEF PlanOK, Plan
<1>4. op \in DOMAIN Phases /\ pc \in Phases[op]
  BY <1>1 DEF Typed, Control, Phases
<1> QED BY <1>1, <1>2, <1>3, <1>4 DEF TypeOK, Typed

\* Every variable keeps its type, and the lock holder is at a step of the
\* operation it runs (the writers of src/src/index).
THEOREM Types == Spec => []TypeOK
BY Invariance, TypedOK, PTL

\* A partly built index does not open: not while a build runs past the
\* removal of the old files, not after it was killed there, and what no
\* writer has torn opens (build_index_with_options, ChunkedIndexWriter).
THEOREM BuildsUnreadable == Spec => []PartialBuildUnreadable
<1>1. IInv => PartialBuildUnreadable
  BY DEF IInv, Removed, Whole, PartialBuildUnreadable, Readable
<1> QED BY <1>1, Invariance, PTL

\* meta.json's counters, which compaction and the daemon's rebuild threshold
\* are decided from, are those of docs.bin (finalize, merge_segments).
THEOREM Counts == Spec => []CountsMatch
<1>1. IInv => CountsMatch
  BY DEF IInv, Counted, CountsMatch, AtRest, Readable, CutShort
<1> QED BY <1>1, Invariance, PTL

\* Only the replacement of docs.bin changes it during an update.
LEMMA DeltaDocs == ASSUME Next, op = "delta" PROVE WriteDocs \/ docs' = docs
<1>1. CASE \E p \in Paths : Edit(p)
  BY <1>1 DEF Edit, disk
<1>2. CASE \E p \in Paths : BuildRead(p) \/ DeltaRead(p)
  BY <1>2 DEF BuildRead, DeltaRead, disk
<1>3. CASE ForceBuild \/ UpdateIndex \/ StartCompact \/ \E batch \in SUBSET dirty \ {{}} : DaemonFlush(batch)
  BY <1>3 DEF ForceBuild, UpdateIndex, StartCompact, DaemonFlush
<1>4. CASE BuildRemove \/ BuildWalk \/ BuildFinalize
  BY <1>4 DEF BuildRemove, BuildWalk, BuildFinalize
<1>5. CASE MergeDoc \/ MergeFinalize \/ MergeCleanup
  BY <1>5 DEF MergeDoc, MergeFinalize, MergeCleanup
<1>6. CASE DeltaFinalize \/ Interrupt
  BY <1>6 DEF DeltaFinalize, Interrupt, EndWriter, disk
<1>7. CASE WriteSegments \/ WritePaths \/ WriteMeta
  BY <1>7 DEF WriteSegments, WritePaths, WriteMeta
<1> QED BY <1>1, <1>2, <1>3, <1>4, <1>5, <1>6, <1>7 DEF Next

\* An update loses no document, renames none and revives none: positions are
\* the document ids that the segments of earlier updates still use
\* (DeltaSegmentWriter::finalize).
THEOREM OnlyGrow == Spec => DocsOnlyGrow
<1>1. ASSUME IInv, [Next]_vars, op = "delta", docs # NoFile PROVE Grows(docs, docs')
  <2>1. docs \in Seq(Doc)
    BY <1>1 DEF IInv, Typed
  <2>2. CASE WriteDocs
    BY <1>1, <2>2 DEF IInv, Extends, WriteDocs
  <2>3. CASE docs' = docs
    <3>1. Len(docs) \in Nat
      BY <2>1, LenProperties
    <3> QED BY <2>3, <3>1 DEF Grows
  <2>4. WriteDocs \/ docs' = docs
    BY <1>1, DeltaDocs DEF vars
  <2> QED BY <2>2, <2>3, <2>4
<1>2. IInv /\ [Next]_vars => [(op = "delta" /\ docs # NoFile) => Grows(docs, docs')]_vars
  BY <1>1
<1> QED BY <1>2, Invariance, PTL DEF Spec, DocsOnlyGrow

---------------------------------------------------------------------------
(* SInv: which segments meta.json lists, which are on disk, and that a    *)
(* writer's own have ids that no listed segment has                        *)

\* Files are read in one phase only, and compaction reads none
ReadOnce ==
    /\ pc # "read" => plan.todo = {}
    /\ op = "merge" => plan.clears = {}
    /\ pc \in {"remove", "walk"} =>
          /\ plan.docs = <<>> /\ plan.paths = <<>> /\ plan.ids = <<>>
          /\ DOMAIN plan.new = {}

Ids(s) == {s[i] : i \in DOMAIN s}

\* The base is no later than some delta, so the next id is past it
Based(m) == m.deltas # <<>> => \E i \in DOMAIN m.deltas : m.base <= m.deltas[i]

\* Up to chunk n, the first id is the least
Ascend(s, n) == \A i \in DOMAIN s : 1 <= s[1] /\ s[1] <= s[i] /\ s[i] <= n

Chunk == plan.read \div ChunkSize + 1

\* Segment ids: those of a build ascend, a delta's is new, a merge's is 1
Numbered ==
    /\ meta # NoFile => Based(meta)
    /\ op = "build" => DOMAIN plan.new = Ids(plan.ids) /\ Ascend(plan.ids, Chunk)
    /\ op = "delta" => /\ plan.seg \notin SegmentsOf(meta) /\ meta.base <= plan.seg
                       /\ DOMAIN plan.new \subseteq {plan.seg}
    /\ (op = "merge" /\ pc # "cleanup") => DOMAIN plan.new = {1}
    /\ pc = "cleanup" => SegmentsOf(meta) = {1} /\ 1 \notin plan.old

\* The prepared segments are on disk before docs.bin is
Written ==
    pc \in {"docs", "paths", "meta"} =>
        \A s \in DOMAIN plan.new : s \in DOMAIN segs /\ segs[s] = plan.new[s]

\* Segments that meta.json does not list, unless a writer was interrupted
Unlisted == CASE pc = "cleanup" -> plan.old
              [] pc \in {"docs", "paths", "meta"} -> DOMAIN plan.new
              [] OTHER -> {}

Listing ==
    cuts = 0 =>
        /\ ~torn
        /\ (~dir \/ (op = "build" /\ pc \in {"walk", "read", "segment"})) => DOMAIN segs = {}
        /\ (op = "build" /\ pc \in {"docs", "paths", "meta"}) => DOMAIN segs \subseteq DOMAIN plan.new
        /\ (op # "build" /\ meta # NoFile) => DOMAIN segs \subseteq SegmentsOf(meta) \cup Unlisted

SInv == ReadOnce /\ Numbered /\ Written /\ Listing

---------------------------------------------------------------------------
(* Lemmas about the data *)

LEMMA ClearsOnly ==
  ASSUME NEW pl \in Plan, NEW c
  PROVE  LET new == [pl EXCEPT !.clears = c]
         IN  /\ new.clears = c /\ new.todo = pl.todo /\ new.read = pl.read /\ new.seg = pl.seg
             /\ new.changed = pl.changed /\ new.ids = pl.ids /\ new.docs = pl.docs
             /\ new.paths = pl.paths /\ new.new = pl.new /\ new.from = pl.from
             /\ new.next = pl.next /\ new.old = pl.old
BY DEF Plan

LEMMA AddPostingsDomain ==
  ASSUME NEW new, NEW s, NEW x
  PROVE  DOMAIN AddPostings(new, s, x) = DOMAIN new \cup {s}
BY DEF AddPostings

PathsWith(ps, p) == IF PathId(ps, p) = Len(ps) THEN Append(ps, p) ELSE ps

DocOf(pl, p) == [path  |-> PathId(pl.paths, p), mtime |-> [unit |-> pl.unit, at |-> fs[p]],
                 live  |-> TRUE]

PostingOf(pl, p) == {<<Len(pl.docs) + 1, fs[p]>>}

\* What reading a file does to a plan
LEMMA AddFileFields ==
  ASSUME NEW pl \in Plan, NEW p, NEW s, NEW new, new = AddFile(pl, p, s)
  PROVE  /\ new.todo = pl.todo \ {p} /\ new.read = pl.read + 1 /\ new.seg = pl.seg
         /\ new.ids = pl.ids /\ new.clears = pl.clears
         /\ fs[p] = Absent => /\ new.changed = pl.changed /\ new.docs = pl.docs
                              /\ new.paths = pl.paths /\ new.new = pl.new
         /\ fs[p] # Absent =>
                /\ new.changed
                /\ new.paths = PathsWith(pl.paths, p)
                /\ new.docs = Append(pl.docs, DocOf(pl, p))
                /\ new.new = AddPostings(pl.new, s, PostingOf(pl, p))
<1>1. CASE fs[p] = Absent
  BY <1>1 DEF AddFile, Plan
<1>2. CASE fs[p] # Absent
  BY <1>2 DEF AddFile, Plan, PathsWith, DocOf, PostingOf
<1> QED BY <1>1, <1>2

LEMMA IdsAppend ==
  ASSUME NEW S, NEW s \in Seq(S), NEW x
  PROVE  Ids(Append(s, x)) = Ids(s) \cup {x}
<1> DEFINE t == Append(s, x)
<1>1. /\ Len(s) \in Nat /\ DOMAIN s = 1..Len(s) /\ DOMAIN t = 1..(Len(s) + 1)
      /\ (\A i \in 1..Len(s) : t[i] = s[i]) /\ t[Len(s) + 1] = x
  BY LenProperties, AppendProperties
<1> HIDE DEF t
<1>2. \A i \in DOMAIN t : i \in DOMAIN s \/ i = Len(s) + 1
  BY <1>1
<1>3. (\A i \in DOMAIN s : i \in DOMAIN t) /\ Len(s) + 1 \in DOMAIN t
  BY <1>1
<1>4. Ids(t) = Ids(s) \cup {x}
  BY <1>1, <1>2, <1>3 DEF Ids
<1> QED BY <1>4 DEF t

LEMMA AscendAppend ==
  ASSUME NEW s \in Seq(Nat), NEW n \in Nat \ {0}, Ascend(s, n)
  PROVE  Ascend(Append(s, n), n)
<1> DEFINE t == Append(s, n)
<1>1. /\ Len(s) \in Nat /\ DOMAIN s = 1..Len(s) /\ DOMAIN t = 1..(Len(s) + 1)
      /\ (\A i \in 1..Len(s) : t[i] = s[i] /\ s[i] \in Nat) /\ t[Len(s) + 1] = n
  BY LenProperties, AppendProperties, ElementOfSeq
<1> HIDE DEF t
<1>2. CASE Len(s) = 0
  <2>1. DOMAIN t = {1} /\ t[1] = n
    BY <1>1, <1>2
  <2> QED BY <2>1 DEF Ascend, t
<1>3. CASE Len(s) # 0
  <2>1. t[1] = s[1] /\ 1 \in DOMAIN s /\ s[1] \in Nat
    BY <1>1, <1>3
  <2>2. 1 <= t[1] /\ t[1] <= n
    BY <2>1 DEF Ascend
  <2>3. ASSUME NEW i \in DOMAIN t PROVE t[1] <= t[i] /\ t[i] <= n
    <3>1. CASE i = Len(s) + 1
      BY <1>1, <2>2, <3>1
    <3>2. CASE i \in DOMAIN s
      BY <1>1, <2>1, <3>2 DEF Ascend
    <3> QED BY <1>1, <3>1, <3>2
  <2> QED BY <2>2, <2>3 DEF Ascend, t
<1> QED BY <1>1, <1>2, <1>3

LEMMA AscendMore ==
  ASSUME NEW s \in Seq(Nat), NEW m \in Nat, NEW n \in Nat, m <= n, Ascend(s, m)
  PROVE  Ascend(s, n)
<1>1. \A i \in DOMAIN s : s[i] \in Nat
  BY ElementOfSeq, LenProperties
<1> QED BY <1>1 DEF Ascend

\* A file more is the same chunk or a later one.
LEMMA NextChunk ==
  ASSUME NEW n \in Nat
  PROVE  /\ n \div ChunkSize + 1 \in Nat \ {0} /\ (n + 1) \div ChunkSize + 1 \in Nat
         /\ n \div ChunkSize + 1 <= (n + 1) \div ChunkSize + 1
<1>1. ChunkSize \in Nat /\ ChunkSize > 0
  BY StoreAssumption
<1>2. \A c \in Nat : c > 0 => n \div c \in Nat /\ (n + 1) \div c \in Nat
  OBVIOUS
<1>3. \A c \in Nat : c > 0 => n \div c <= (n + 1) \div c
  OBVIOUS
<1> DEFINE a == n \div ChunkSize
           b == (n + 1) \div ChunkSize
<1>4. a \in Nat /\ b \in Nat /\ a <= b
  BY <1>1, <1>2, <1>3
<1> HIDE DEF a, b
<1>5. a + 1 \in Nat \ {0} /\ b + 1 \in Nat /\ a + 1 <= b + 1
  BY <1>4
<1> QED BY <1>5 DEF a, b

LEMMA NextSegmentNew ==
  ASSUME NEW m \in Meta, Based(m)
  PROVE  NextSegment(m) \notin SegmentsOf(m) /\ m.base <= NextSegment(m)
<1> DEFINE ids == {m.deltas[i] : i \in DOMAIN m.deltas}
           top == CHOOSE s \in ids : \A i \in DOMAIN m.deltas : m.deltas[i] <= s
<1>1. m.deltas \in Seq(Nat) /\ m.base \in Nat
  BY DEF Meta
<1>2. /\ DOMAIN m.deltas = 1..Len(m.deltas) /\ Len(m.deltas) \in Nat
      /\ \A i \in 1..Len(m.deltas) : m.deltas[i] \in Nat
      /\ m.deltas # <<>> => Len(m.deltas) # 0
  BY <1>1, EmptySeq, LenProperties, ElementOfSeq
<1>3. CASE m.deltas = <<>>
  <2>1. DOMAIN m.deltas = {} /\ NextSegment(m) = 1 + m.base
    BY <1>2, <1>3, EmptySeq DEF NextSegment
  <2>2. SegmentsOf(m) \subseteq {m.base}
    BY <2>1 DEF SegmentsOf
  <2> QED BY <1>1, <2>1, <2>2
<1>4. CASE m.deltas # <<>>
  <2>1. top \in ids /\ \A i \in DOMAIN m.deltas : m.deltas[i] <= top
    <3>1. \E k \in 1..Len(m.deltas) : \A i \in 1..Len(m.deltas) : m.deltas[i] <= m.deltas[k]
      BY <1>2, <1>4, Greatest
    <3> QED BY <1>2, <3>1
  <2>2. top \in Nat
    BY <1>2, <2>1
  <2>3. NextSegment(m) = 1 + top
    BY <1>4 DEF NextSegment
  <2> HIDE DEF top
  <2>4. m.base <= top
    <3>1. PICK i \in DOMAIN m.deltas : m.base <= m.deltas[i]
      BY <1>4 DEF Based
    <3> QED BY <1>1, <1>2, <2>1, <2>2, <3>1
  <2>5. ASSUME NEW s \in SegmentsOf(m) PROVE s # 1 + top
    <3>1. s \in ids \/ s = m.base
      BY <2>5 DEF SegmentsOf
    <3>2. CASE s \in ids
      <4>1. s \in Nat /\ s <= top
        BY <1>2, <2>1, <3>2
      <4> QED BY <2>2, <4>1
    <3>3. CASE s = m.base
      BY <1>1, <2>2, <2>4, <3>3
    <3> QED BY <3>1, <3>2, <3>3
  <2> QED BY <1>1, <2>2, <2>3, <2>4, <2>5
<1> QED BY <1>3, <1>4

LEMMA MetaSegments ==
  /\ plan.ids \in Seq(Nat) /\ (plan.ids # <<>> => plan.ids[1] # 0) => SegmentsOf(BuildMeta) = Ids(plan.ids)
  /\ SegmentsOf(MergeMeta) = {1}
  /\ meta \in Meta => SegmentsOf(DeltaMeta) = SegmentsOf(meta) \cup {plan.seg}
<1>1. ASSUME plan.ids \in Seq(Nat), plan.ids # <<>> => plan.ids[1] # 0
      PROVE  SegmentsOf(BuildMeta) = Ids(plan.ids)
  <2> DEFINE ids == plan.ids
  <2>1. CASE ids = <<>>
    <3>1. BuildMeta.base = 0 /\ BuildMeta.deltas = <<>> /\ DOMAIN ids = {}
      BY <2>1, EmptySeq DEF BuildMeta
    <3> QED BY <2>1, <3>1 DEF SegmentsOf, Ids
  <2>2. CASE ids # <<>>
    <3>1. BuildMeta.base = ids[1] /\ BuildMeta.deltas = Tail(ids)
      BY <2>2 DEF BuildMeta
    <3>2. /\ Len(ids) \in Nat \ {0} /\ DOMAIN ids = 1..Len(ids)
          /\ DOMAIN Tail(ids) = 1..(Len(ids) - 1)
          /\ \A i \in 1..(Len(ids) - 1) : Tail(ids)[i] = ids[i + 1]
      BY <1>1, <2>2, HeadTailProperties, EmptySeq, LenProperties
    <3>3. {Tail(ids)[i] : i \in DOMAIN Tail(ids)} \cup {ids[1]} = Ids(ids)
      <4>1. ASSUME NEW i \in DOMAIN Tail(ids) PROVE i + 1 \in DOMAIN ids /\ Tail(ids)[i] = ids[i + 1]
        BY <3>2
      <4>2. ASSUME NEW i \in DOMAIN ids
            PROVE  i = 1 \/ (i - 1 \in DOMAIN Tail(ids) /\ Tail(ids)[i - 1] = ids[i])
        BY <3>2
      <4>3. 1 \in DOMAIN ids
        BY <3>2
      <4> HIDE DEF ids
      <4> QED BY <4>1, <4>2, <4>3 DEF Ids
    <3> QED BY <1>1, <2>2, <3>1, <3>3 DEF SegmentsOf
  <2> QED BY <2>1, <2>2
<1>2. SegmentsOf(MergeMeta) = {1}
  <2>1. MergeMeta.base = 1 /\ MergeMeta.deltas = <<>> /\ DOMAIN <<>> = {}
    BY EmptySeq DEF MergeMeta
  <2> QED BY <2>1 DEF SegmentsOf
<1>3. ASSUME meta \in Meta PROVE SegmentsOf(DeltaMeta) = SegmentsOf(meta) \cup {plan.seg}
  <2>1. DeltaMeta.base = meta.base /\ DeltaMeta.deltas = Append(meta.deltas, plan.seg)
    BY <1>3 DEF DeltaMeta, Meta
  <2>2. Ids(DeltaMeta.deltas) = Ids(meta.deltas) \cup {plan.seg}
    <3>1. meta.deltas \in Seq(Nat)
      BY <1>3 DEF Meta
    <3> QED BY <2>1, <3>1, IdsAppend
  <2> QED BY <2>1, <2>2 DEF SegmentsOf, Ids
<1> QED BY <1>1, <1>2, <1>3

---------------------------------------------------------------------------
(* Each action preserves the invariant *)

LEMMA EditSegments == ASSUME IInv, SInv, NEW p \in Paths, Edit(p) PROVE SInv'
<1> DEFINE c == plan.clears \ {p}
<1>1. UNCHANGED <<dir, meta, segs, op, pc, torn, cuts>>
  BY DEF Edit, disk
<1>2. plan' = [plan EXCEPT !.clears = c] /\ plan \in Plan
  BY DEF Edit, IInv, Typed
<1>3. /\ plan'.clears = c /\ plan'.todo = plan.todo /\ plan'.read = plan.read /\ plan'.seg = plan.seg
      /\ plan'.ids = plan.ids /\ plan'.docs = plan.docs /\ plan'.paths = plan.paths
      /\ plan'.new = plan.new /\ plan'.old = plan.old
  BY <1>2, ClearsOnly
<1>4. ReadOnce'
  BY <1>1, <1>3 DEF SInv, ReadOnce
<1>5. Numbered'
  BY <1>1, <1>3 DEF SInv, Numbered, SegmentsOf, Chunk
<1>6. Written'
  BY <1>1, <1>3 DEF SInv, Written
<1>7. Listing'
  BY <1>1, <1>3 DEF SInv, Listing, Unlisted, SegmentsOf
<1> QED BY <1>4, <1>5, <1>6, <1>7 DEF SInv

LEMMA StartBuildSegments == ASSUME IInv, SInv, op = "idle", StartBuild PROVE SInv'
<1>1. /\ op' = "build" /\ pc' \in {"remove", "walk"} /\ (pc' # "remove" => ~dir)
      /\ UNCHANGED <<dir, meta, segs, torn, cuts>>
  BY DEF StartBuild, disk
<1>2. /\ plan'.todo = {} /\ plan'.clears = {} /\ plan'.docs = <<>> /\ plan'.paths = <<>>
      /\ plan'.ids = <<>> /\ DOMAIN plan'.new = {} /\ DOMAIN plan'.ids = {}
  BY EmptySeq DEF StartBuild, NoPlan
<1>3. ReadOnce' /\ Written'
  BY <1>1, <1>2 DEF ReadOnce, Written
<1>4. Numbered'
  BY <1>1, <1>2 DEF SInv, Numbered, Ids, Ascend
<1>5. Listing'
  BY <1>1 DEF SInv, Listing
<1> QED BY <1>3, <1>4, <1>5 DEF SInv

LEMMA BuildRemoveSegments == ASSUME IInv, SInv, BuildRemove PROVE SInv'
<1>1. op = "build" /\ pc = "remove" /\ op' = "build" /\ UNCHANGED <<plan, torn, cuts>>
  BY DEF BuildRemove
<1>2. meta' \in {meta, NoFile}
  BY DEF BuildRemove, RemoveFile
<1>3. \/ pc' = "remove" /\ dir' = dir
      \/ pc' = "walk" /\ DOMAIN segs' = {}
  BY <1>1 DEF BuildRemove, RemoveFile
<1>4. dir = TRUE \/ DOMAIN segs = {} \/ cuts # 0
  BY DEF SInv, Listing, IInv, Typed
<1>5. DOMAIN segs = {} => DOMAIN segs' = {}
  BY DEF BuildRemove, RemoveFile
<1>6. ReadOnce' /\ Written'
  BY <1>1, <1>3 DEF SInv, ReadOnce, Written
<1>7. Numbered'
  BY <1>1, <1>2, <1>3 DEF SInv, Numbered, Chunk
<1>8. Listing'
  BY <1>1, <1>3, <1>4, <1>5 DEF SInv, Listing
<1> QED BY <1>6, <1>7, <1>8 DEF SInv

LEMMA BuildWalkSegments == ASSUME IInv, SInv, BuildWalk PROVE SInv'
<1> DEFINE found == {p \in Paths : fs[p] # Absent}
           gone  == Paths \ found
<1>1. /\ op = "build" /\ pc = "walk" /\ op' = "build" /\ pc' = "read" /\ dir' = TRUE
      /\ UNCHANGED <<meta, segs, torn, cuts>>
  BY DEF BuildWalk
<1>2. plan' = [plan EXCEPT !.todo = found, !.clears = gone] /\ plan \in Plan
  BY DEF BuildWalk, IInv, Typed
<1> HIDE DEF found, gone
<1>3. plan'.new = plan.new /\ plan'.ids = plan.ids /\ plan'.read = plan.read
  BY <1>2 DEF Plan
<1>4. ReadOnce' /\ Written'
  BY <1>1 DEF ReadOnce, Written
<1>5. Numbered'
  BY <1>1, <1>3 DEF SInv, Numbered, Chunk
<1>6. Listing'
  BY <1>1 DEF SInv, Listing
<1> QED BY <1>4, <1>5, <1>6 DEF SInv

LEMMA BuildReadSegments == ASSUME IInv, SInv, NEW p \in Paths, BuildRead(p) PROVE SInv'
<1> DEFINE here  == fs[p] # Absent
           known == \E i \in DOMAIN plan.ids : plan.ids[i] = Chunk
           added == AddFile(plan, p, Chunk)
           ids   == IF here /\ ~known THEN Append(added.ids, Chunk) ELSE added.ids
           c     == added.clears \cup {p}
<1>1. /\ op = "build" /\ pc = "read" /\ op' = "build" /\ pc' = "read"
      /\ UNCHANGED <<dir, meta, segs, torn, cuts>>
      /\ plan \in Plan /\ plan.read \in Nat /\ plan.ids \in Seq(Nat) /\ fs \in [Paths -> Nat]
  BY DEF BuildRead, disk, IInv, Typed, Plan
<1>2. /\ Chunk \in Nat \ {0} /\ (plan.read + 1) \div ChunkSize + 1 \in Nat
      /\ Chunk <= (plan.read + 1) \div ChunkSize + 1
  BY <1>1, NextChunk DEF Chunk
<1>3. plan' = [added EXCEPT !.ids = ids, !.clears = c] /\ added \in Plan
  <2>1. added \in Plan
    BY <1>1, <1>2, AddFileTyped
  <2>2. plan' = [added EXCEPT !.ids = ids, !.clears = c]
    BY DEF BuildRead, Chunk
  <2> QED BY <2>1, <2>2
<1>4. /\ added.read = plan.read + 1 /\ added.ids = plan.ids
      /\ ~here => added.new = plan.new
      /\ here => DOMAIN added.new = DOMAIN plan.new \cup {Chunk}
  <2> DEFINE x == PostingOf(plan, p)
  <2>0. added = AddFile(plan, p, Chunk) /\ plan \in Plan
    BY <1>1
  <2>1. /\ added.read = plan.read + 1 /\ added.ids = plan.ids
        /\ ~here => added.new = plan.new
        /\ here => added.new = AddPostings(plan.new, Chunk, x)
    BY <2>0, AddFileFields
  <2> HIDE DEF added, x
  <2>2. DOMAIN AddPostings(plan.new, Chunk, x) = DOMAIN plan.new \cup {Chunk}
    BY AddPostingsDomain
  <2> QED BY <2>1, <2>2
<1>5. ids = IF here /\ ~known THEN Append(plan.ids, Chunk) ELSE plan.ids
  BY <1>4
<1> HIDE DEF ids, c, added
<1>6. plan'.new = added.new /\ plan'.ids = ids /\ plan'.read = plan.read + 1
  BY <1>3, <1>4 DEF Plan
<1>7. Ids(ids) = Ids(plan.ids) \cup (IF here THEN {Chunk} ELSE {})
  <2>1. known => Chunk \in Ids(plan.ids)
    BY DEF Ids
  <2> QED BY <1>1, <1>5, <2>1, IdsAppend
<1>8. Ascend(ids, Chunk)
  <2>1. Ascend(plan.ids, Chunk)
    BY <1>1 DEF SInv, Numbered
  <2> QED BY <1>1, <1>2, <1>5, <2>1, AscendAppend
<1>9. Ascend(plan'.ids, Chunk')
  <2>1. Chunk' = (plan.read + 1) \div ChunkSize + 1
    BY <1>6 DEF Chunk
  <2>2. ids \in Seq(Nat)
    BY <1>1, <1>2, <1>5, AppendProperties
  <2> QED BY <1>2, <1>6, <1>8, <2>1, <2>2, AscendMore
<1>10. DOMAIN plan'.new = Ids(plan'.ids)
  <2>1. DOMAIN plan.new = Ids(plan.ids)
    BY <1>1 DEF SInv, Numbered
  <2> QED BY <1>4, <1>6, <1>7, <2>1
<1>11. ReadOnce' /\ Written'
  BY <1>1 DEF ReadOnce, Written
<1>12. Numbered'
  BY <1>1, <1>9, <1>10 DEF SInv, Numbered
<1>13. Listing'
  BY <1>1 DEF SInv, Listing
<1> QED BY <1>11, <1>12, <1>13 DEF SInv

LEMMA BuildFinalizeSegments == ASSUME IInv, SInv, BuildFinalize PROVE SInv'
<1>1. /\ op = "build" /\ pc = "read" /\ op' = "build" /\ pc' = "segment" /\ plan.todo = {}
      /\ UNCHANGED <<dir, meta, segs, plan, torn, cuts>>
  BY DEF BuildFinalize, disk
<1>2. ReadOnce' /\ Written'
  BY <1>1 DEF SInv, ReadOnce, Written
<1>3. Numbered'
  BY <1>1 DEF SInv, Numbered, Chunk
<1>4. Listing'
  BY <1>1 DEF SInv, Listing
<1> QED BY <1>2, <1>3, <1>4 DEF SInv

LEMMA StartDeltaSegments ==
  ASSUME IInv, SInv, op = "idle", Readable, NEW created, NEW modified, NEW deleted, NEW unit,
         NEW clears, StartDelta(created, modified, deleted, unit, clears)
  PROVE  SInv'
<1>1. /\ op' = "delta" /\ pc' = "read" /\ pc = "idle"
      /\ UNCHANGED <<dir, meta, segs, torn, cuts>>
      /\ meta \in Meta /\ meta # NoFile /\ Based(meta)
  BY DEF StartDelta, disk, IInv, Typed, Control, Readable, SInv, Numbered
<1>2. plan'.seg = NextSegment(meta) /\ DOMAIN plan'.new = {}
  BY DEF StartDelta, NoPlan
<1>3. ReadOnce' /\ Written'
  BY <1>1 DEF ReadOnce, Written
<1>4. Numbered'
  BY <1>1, <1>2, NextSegmentNew DEF Numbered
<1>5. Listing'
  BY <1>1 DEF SInv, Listing, Unlisted
<1> QED BY <1>3, <1>4, <1>5 DEF SInv

LEMMA UpdateIndexSegments == ASSUME IInv, SInv, UpdateIndex PROVE SInv'
<1>0. op = "idle"
  BY DEF UpdateIndex
<1>1. CASE StartBuild
  BY <1>0, <1>1, StartBuildSegments
<1>2. CASE UNCHANGED <<tree, disk, op, pc, plan, torn, cuts>>
  <2>1. UNCHANGED <<dir, meta, docs, paths, segs, op, pc, plan, torn, cuts>>
    BY <1>2 DEF disk
  <2> QED BY <2>1 DEF SInv, ReadOnce, Numbered, Chunk, Written, Listing, Unlisted
<1>3. CASE Readable /\ StartDelta(NewFiles, ModifiedFiles, DeletedFiles, "s",
                                  Paths \ (NewFiles \cup ModifiedFiles))
  BY <1>0, <1>3, StartDeltaSegments
<1> QED BY <1>1, <1>2, <1>3 DEF UpdateIndex

LEMMA DaemonFlushSegments == ASSUME IInv, SInv, NEW batch, DaemonFlush(batch) PROVE SInv'
<1> DEFINE present == {p \in batch : fs[p] # Absent}
           known   == {p \in batch : Listed(p) # {}}
<1>0. op = "idle" /\ Readable
  BY DEF DaemonFlush
<1>1. CASE StartBuild
  BY <1>0, <1>1, StartBuildSegments
<1>2. CASE StartDelta(present \ known, present \cap known, batch \ present, "ns", batch \ present)
  BY <1>0, <1>2, StartDeltaSegments
<1> QED BY <1>1, <1>2 DEF DaemonFlush

LEMMA DeltaReadSegments == ASSUME IInv, SInv, NEW p \in Paths, DeltaRead(p) PROVE SInv'
<1> DEFINE added == AddFile(plan, p, plan.seg)
           c == added.clears \cup {p}
<1>1. /\ op = "delta" /\ pc = "read" /\ op' = "delta" /\ pc' = "read"
      /\ UNCHANGED <<dir, meta, segs, torn, cuts>>
      /\ plan \in Plan /\ plan.seg \in Nat /\ fs \in [Paths -> Nat]
  BY DEF DeltaRead, disk, IInv, Typed, Plan
<1>2. added.seg = plan.seg /\ DOMAIN added.new \subseteq DOMAIN plan.new \cup {plan.seg}
  <2> DEFINE x == PostingOf(plan, p)
             seg == plan.seg
  <2>0. added = AddFile(plan, p, seg) /\ plan \in Plan
    BY <1>1
  <2> HIDE DEF seg
  <2>1. /\ added.seg = plan.seg
        /\ added.new = plan.new \/ added.new = AddPostings(plan.new, seg, x)
    BY <2>0, AddFileFields
  <2> HIDE DEF added, x
  <2>2. DOMAIN AddPostings(plan.new, seg, x) = DOMAIN plan.new \cup {seg}
    BY AddPostingsDomain
  <2>3. seg = plan.seg
    BY DEF seg
  <2> QED BY <2>1, <2>2, <2>3
<1>3. plan' = [added EXCEPT !.clears = c] /\ added \in Plan
  BY <1>1, AddFileTyped DEF DeltaRead
<1> HIDE DEF added, c
<1>4. plan'.seg = plan.seg /\ plan'.new = added.new
  BY <1>2, <1>3, ClearsOnly
<1>5. ReadOnce' /\ Written'
  BY <1>1 DEF ReadOnce, Written
<1>6. Numbered'
  BY <1>1, <1>2, <1>4 DEF SInv, Numbered, SegmentsOf
<1>7. Listing'
  BY <1>1 DEF SInv, Listing, Unlisted, SegmentsOf
<1> QED BY <1>5, <1>6, <1>7 DEF SInv

LEMMA DeltaFinalizeSegments == ASSUME IInv, SInv, DeltaFinalize PROVE SInv'
<1>1. /\ op = "delta" /\ pc = "read" /\ plan.todo = {}
      /\ UNCHANGED <<dir, meta, segs, torn, cuts>>
  BY DEF DeltaFinalize, disk
<1>2. CASE pc' = "segment" /\ UNCHANGED <<op, plan>>
  <2>1. ReadOnce' /\ Written'
    BY <1>1, <1>2 DEF SInv, ReadOnce, Written
  <2>2. Numbered'
    BY <1>1, <1>2 DEF SInv, Numbered
  <2>3. Listing'
    BY <1>1, <1>2 DEF SInv, Listing, Unlisted
  <2> QED BY <2>1, <2>2, <2>3 DEF SInv
<1>3. CASE op' = "idle" /\ pc' = "idle" /\ plan' = NoPlan
  <2>1. ReadOnce' /\ Written'
    BY <1>3 DEF ReadOnce, Written, NoPlan
  <2>2. Numbered'
    BY <1>1, <1>3 DEF SInv, Numbered
  <2>3. Listing'
    BY <1>1, <1>3 DEF SInv, Listing, Unlisted
  <2> QED BY <2>1, <2>2, <2>3 DEF SInv
<1> QED BY <1>2, <1>3 DEF DeltaFinalize

LEMMA StartCompactSegments == ASSUME IInv, SInv, StartCompact PROVE SInv'
<1>1. /\ op = "idle" /\ pc = "idle" /\ op' = "merge" /\ pc' = "remap"
      /\ UNCHANGED <<dir, meta, segs, torn, cuts>>
  BY DEF StartCompact, disk, IInv, Typed, Control
<1>2. plan'.todo = {} /\ plan'.clears = {} /\ DOMAIN plan'.new = {1}
  BY DEF StartCompact, MergePlan, NoPlan
<1>3. ReadOnce' /\ Written'
  BY <1>1, <1>2 DEF ReadOnce, Written
<1>4. Numbered'
  BY <1>1, <1>2 DEF SInv, Numbered
<1>5. Listing'
  BY <1>1 DEF SInv, Listing, Unlisted
<1> QED BY <1>3, <1>4, <1>5 DEF SInv

LEMMA MergeDocFields ==
  ASSUME IInv, MergeDoc
  PROVE  LET d     == docs[plan.next]
             known == \E i \in DOMAIN plan.from : plan.from[i] = d.path
             keep  == d.live /\ (known \/ d.path < Len(paths))
             id    == Len(plan.docs) + 1
         IN  /\ plan'.todo = plan.todo /\ plan'.clears = plan.clears /\ plan'.next = plan.next + 1
             /\ ~keep => /\ plan'.from = plan.from /\ plan'.paths = plan.paths
                         /\ plan'.docs = plan.docs /\ plan'.new = plan.new
             /\ keep  =>
                  /\ plan'.from  = IF known THEN plan.from ELSE Append(plan.from, d.path)
                  /\ plan'.paths = IF known THEN plan.paths ELSE Append(plan.paths, paths[d.path + 1])
                  /\ plan'.docs  = Append(plan.docs, [d EXCEPT !.path = PathId(plan.from, d.path)])
                  /\ plan'.new   = AddPostings(plan.new, 1,
                         {<<id, x[2]>> : x \in {y \in Loaded : y[1] = plan.next}})
<1>1. plan \in Plan
  BY DEF IInv, Typed
<1> DEFINE d     == docs[plan.next]
           known == \E i \in DOMAIN plan.from : plan.from[i] = d.path
           keep  == d.live /\ (known \/ d.path < Len(paths))
           id    == Len(plan.docs) + 1
           from  == IF known THEN plan.from ELSE Append(plan.from, d.path)
           ps    == IF known THEN plan.paths ELSE Append(plan.paths, paths[d.path + 1])
           ds    == Append(plan.docs, [d EXCEPT !.path = PathId(plan.from, d.path)])
           new   == AddPostings(plan.new, 1, {<<id, x[2]>> : x \in {y \in Loaded : y[1] = plan.next}})
           nxt   == plan.next + 1
<1>2. ~keep => plan' = [plan EXCEPT !.next = nxt]
  BY DEF MergeDoc
<1>3. keep => plan' = [plan EXCEPT !.next = nxt, !.from = from, !.paths = ps, !.docs = ds, !.new = new]
  BY DEF MergeDoc
<1> HIDE DEF keep, from, ps, ds, new, nxt
<1>4. ASSUME ~keep
      PROVE  /\ plan'.todo = plan.todo /\ plan'.clears = plan.clears /\ plan'.next = nxt
             /\ plan'.from = plan.from /\ plan'.paths = plan.paths
             /\ plan'.docs = plan.docs /\ plan'.new = plan.new
  <2>1. plan' = [plan EXCEPT !.next = nxt]
    BY <1>2, <1>4
  <2> QED BY <1>1, <2>1 DEF Plan
<1>5. ASSUME keep
      PROVE  /\ plan'.todo = plan.todo /\ plan'.clears = plan.clears /\ plan'.next = nxt
             /\ plan'.from = from /\ plan'.paths = ps /\ plan'.docs = ds /\ plan'.new = new
  <2>1. plan' = [plan EXCEPT !.next = nxt, !.from = from, !.paths = ps, !.docs = ds, !.new = new]
    BY <1>3, <1>5
  <2> QED BY <1>1, <2>1 DEF Plan
<1> QED BY <1>4, <1>5 DEF keep, from, ps, ds, new, nxt

LEMMA MergeDocSegments == ASSUME IInv, SInv, MergeDoc PROVE SInv'
<1>1. /\ op = "merge" /\ pc = "remap" /\ op' = "merge" /\ pc' = "remap"
      /\ UNCHANGED <<dir, meta, segs, torn, cuts>>
  BY DEF MergeDoc, disk
<1>2. /\ plan'.todo = plan.todo /\ plan'.clears = plan.clears
      /\ DOMAIN plan'.new \in {DOMAIN plan.new, DOMAIN plan.new \cup {1}}
  <2> DEFINE x == {<<Len(plan.docs) + 1, z[2]>> : z \in {y \in Loaded : y[1] = plan.next}}
  <2>1. /\ plan'.todo = plan.todo /\ plan'.clears = plan.clears
        /\ plan'.new = plan.new \/ plan'.new = AddPostings(plan.new, 1, x)
    BY MergeDocFields
  <2> HIDE DEF x
  <2>2. DOMAIN AddPostings(plan.new, 1, x) = DOMAIN plan.new \cup {1}
    BY AddPostingsDomain
  <2> QED BY <2>1, <2>2
<1>4. ReadOnce' /\ Written'
  BY <1>1, <1>2 DEF SInv, ReadOnce, Written
<1>5. Numbered'
  BY <1>1, <1>2 DEF SInv, Numbered
<1>6. Listing'
  BY <1>1 DEF SInv, Listing, Unlisted
<1> QED BY <1>4, <1>5, <1>6 DEF SInv

LEMMA MergeFinalizeSegments == ASSUME IInv, SInv, MergeFinalize PROVE SInv'
<1>1. /\ op = "merge" /\ pc = "remap" /\ op' = "merge" /\ pc' = "segment"
      /\ UNCHANGED <<dir, meta, segs, plan, torn, cuts>>
  BY DEF MergeFinalize, disk
<1>2. ReadOnce' /\ Written'
  BY <1>1 DEF SInv, ReadOnce, Written
<1>3. Numbered'
  BY <1>1 DEF SInv, Numbered
<1>4. Listing'
  BY <1>1 DEF SInv, Listing, Unlisted
<1> QED BY <1>2, <1>3, <1>4 DEF SInv

LEMMA MergeCleanupSegments == ASSUME IInv, SInv, MergeCleanup PROVE SInv'
<1>1. /\ op = "merge" /\ pc = "cleanup" /\ op' = "idle" /\ pc' = "idle" /\ plan' = NoPlan
      /\ segs' = [s \in DOMAIN segs \ plan.old |-> segs[s]]
      /\ UNCHANGED <<dir, meta, torn, cuts>>
  BY DEF MergeCleanup
<1>2. ReadOnce' /\ Written'
  BY <1>1 DEF ReadOnce, Written, NoPlan
<1>3. Numbered'
  BY <1>1 DEF SInv, Numbered
<1>4. Listing'
  <2>1. DOMAIN segs' = DOMAIN segs \ plan.old
    BY <1>1
  <2> QED BY <1>1, <2>1 DEF SInv, Listing, Unlisted
<1> QED BY <1>2, <1>3, <1>4 DEF SInv

LEMMA WriteSegmentsSegments == ASSUME IInv, SInv, WriteSegments PROVE SInv'
<1>1. /\ pc = "segment" /\ pc' = "docs"
      /\ UNCHANGED <<dir, meta, op, plan, torn, cuts>>
  BY DEF WriteSegments
<1>2. /\ DOMAIN segs' = DOMAIN segs \cup DOMAIN plan.new
      /\ \A s \in DOMAIN plan.new : segs'[s] = plan.new[s]
  BY DEF WriteSegments
<1>3. ReadOnce' /\ Written'
  BY <1>1, <1>2 DEF SInv, ReadOnce, Written
<1>4. Numbered'
  BY <1>1 DEF SInv, Numbered, Chunk
<1>5. Listing'
  <2>1. /\ op = "build" => dir = TRUE
        /\ op \in {"build", "delta", "merge"} /\ (op # "build" => meta # NoFile /\ dir = TRUE)
    BY <1>1 DEF IInv, Typed, Control, Removed, Opens, Readable
  <2> QED BY <1>1, <1>2, <2>1 DEF SInv, Listing, Unlisted
<1> QED BY <1>3, <1>4, <1>5 DEF SInv

LEMMA WriteTableSegments == ASSUME IInv, SInv, WriteDocs \/ WritePaths PROVE SInv'
<1>1. /\ pc \in {"docs", "paths"} /\ pc' \in {"paths", "meta"}
      /\ UNCHANGED <<dir, meta, segs, op, plan, torn, cuts>>
  BY DEF WriteDocs, WritePaths
<1>2. ReadOnce' /\ Written'
  BY <1>1 DEF SInv, ReadOnce, Written
<1>3. Numbered'
  BY <1>1 DEF SInv, Numbered, Chunk
<1>4. Listing'
  BY <1>1 DEF SInv, Listing, Unlisted
<1> QED BY <1>2, <1>3, <1>4 DEF SInv

\* meta.json lists the prepared segments from here on.
LEMMA Enlisted ==
  ASSUME IInv, SInv, WriteMeta
  PROVE  /\ Based(meta')
         /\ SegmentsOf(meta') = (IF op = "delta" THEN SegmentsOf(meta) \cup {plan.seg}
                                 ELSE DOMAIN plan.new)
<1>0. pc = "meta" /\ op \in {"build", "delta", "merge"} /\ plan \in Plan
  BY AllButMeta DEF WriteMeta, IInv, Typed
<1>1. CASE op = "build"
  <2>1. meta' = BuildMeta /\ plan.ids \in Seq(Nat) /\ DOMAIN plan.new = Ids(plan.ids)
        /\ Ascend(plan.ids, Chunk)
    BY <1>0, <1>1 DEF WriteMeta, Plan, SInv, Numbered
  <2>2. CASE plan.ids = <<>>
    <3>1. Based(BuildMeta)
      BY <2>2 DEF BuildMeta, Based
    <3> QED BY <1>1, <2>1, <2>2, <3>1, MetaSegments
  <2>3. CASE plan.ids # <<>>
    <3>1. /\ Len(plan.ids) \in Nat \ {0} /\ DOMAIN plan.ids = 1..Len(plan.ids)
          /\ DOMAIN Tail(plan.ids) = 1..(Len(plan.ids) - 1)
          /\ Len(Tail(plan.ids)) = Len(plan.ids) - 1 /\ Tail(plan.ids) \in Seq(Nat)
          /\ \A i \in 1..(Len(plan.ids) - 1) : Tail(plan.ids)[i] = plan.ids[i + 1]
      BY <2>1, <2>3, HeadTailProperties, EmptySeq, LenProperties
    <3>2. plan.ids[1] # 0
      <4>1. 1 \in DOMAIN plan.ids
        BY <3>1
      <4>2. 1 <= plan.ids[1]
        BY <2>1, <4>1 DEF Ascend
      <4> QED BY <4>2
    <3>3. Based(BuildMeta)
      <4>1. BuildMeta.base = plan.ids[1] /\ BuildMeta.deltas = Tail(plan.ids)
        BY <2>3 DEF BuildMeta
      <4>2. Tail(plan.ids) # <<>> => Len(Tail(plan.ids)) # 0
        BY <3>1, EmptySeq
      <4>3. ASSUME Tail(plan.ids) # <<>> PROVE 1 \in DOMAIN Tail(plan.ids) /\ 2 \in DOMAIN plan.ids
        BY <3>1, <4>2, <4>3
      <4>4. Tail(plan.ids) # <<>> => Tail(plan.ids)[1] = plan.ids[2]
        BY <3>1, <4>3
      <4>5. Tail(plan.ids) # <<>> => plan.ids[1] <= plan.ids[2]
        BY <2>1, <4>3 DEF Ascend
      <4> QED BY <4>1, <4>3, <4>4, <4>5 DEF Based
    <3> QED BY <1>1, <2>1, <3>2, <3>3, MetaSegments
  <2> QED BY <2>2, <2>3
<1>2. CASE op = "delta"
  <2>1. meta' = DeltaMeta /\ meta \in Meta /\ meta # NoFile /\ Based(meta) /\ meta.base <= plan.seg
    BY <1>0, <1>2, AllButMeta, NoFileAssumption DEF WriteMeta, SInv, Numbered
  <2>2. Based(DeltaMeta)
    <3> DEFINE t == Append(meta.deltas, plan.seg)
    <3>1. DeltaMeta.base = meta.base /\ DeltaMeta.deltas = t /\ meta.deltas \in Seq(Nat)
      BY <2>1 DEF DeltaMeta, Meta
    <3>2. /\ Len(meta.deltas) \in Nat /\ DOMAIN t = 1..(Len(meta.deltas) + 1)
          /\ t[Len(meta.deltas) + 1] = plan.seg
      BY <3>1, LenProperties, AppendProperties
    <3> HIDE DEF t
    <3>3. Len(meta.deltas) + 1 \in DOMAIN t
      BY <3>2
    <3> QED BY <2>1, <3>1, <3>2, <3>3 DEF Based
  <2> QED BY <1>2, <2>1, <2>2, MetaSegments
<1>3. CASE op = "merge"
  <2>1. meta' = MergeMeta /\ DOMAIN plan.new = {1}
    BY <1>0, <1>3 DEF WriteMeta, SInv, Numbered
  <2>2. Based(MergeMeta)
    BY DEF Based, MergeMeta
  <2> QED BY <1>3, <2>1, <2>2, MetaSegments
<1> QED BY <1>0, <1>1, <1>2, <1>3

LEMMA WriteMetaSegments == ASSUME IInv, SInv, WriteMeta PROVE SInv'
<1>0. /\ pc = "meta" /\ op \in {"build", "delta", "merge"} /\ dir = TRUE
      /\ UNCHANGED <<dir, segs, cuts>> /\ torn' = (torn /\ op # "build")
      /\ op # "build" => meta # NoFile
  BY AllButMeta, NoFileAssumption DEF WriteMeta
<1>1. \/ op' = "idle" /\ pc' = "idle" /\ plan' = NoPlan /\ op # "merge"
      \/ op' = "merge" /\ pc' = "remap" /\ plan' = MergePlan /\ op = "delta"
      \/ /\ op' = "merge" /\ pc' = "cleanup" /\ op = "merge"
         /\ plan' = [NoPlan EXCEPT !.old = SegmentsOf(meta) \ {1}]
  BY <1>0 DEF WriteMeta
<1>2. /\ plan'.todo = {} /\ plan'.clears = {}
      /\ plan' = MergePlan => DOMAIN plan'.new = {1}
      /\ pc' = "cleanup" => plan'.old = SegmentsOf(meta) \ {1}
  <2> DEFINE old == SegmentsOf(meta) \ {1}
             merged == [NoPlan EXCEPT !.old = old]
  <2>1. NoPlan.todo = {} /\ NoPlan.clears = {}
    BY DEF NoPlan
  <2>2. MergePlan.todo = {} /\ MergePlan.clears = {} /\ DOMAIN MergePlan.new = {1}
    BY DEF NoPlan, MergePlan
  <2>3. merged.todo = {} /\ merged.clears = {} /\ merged.old = old
    BY DEF NoPlan
  <2> HIDE DEF merged
  <2>4. pc' = "cleanup" => plan' = merged
    BY <1>1 DEF merged
  <2>5. plan' \in {NoPlan, MergePlan, merged}
    BY <1>1 DEF merged
  <2> QED BY <2>1, <2>2, <2>3, <2>4, <2>5
<1>3. ReadOnce' /\ Written'
  BY <1>1, <1>2 DEF ReadOnce, Written
<1>4. op = "merge" => DOMAIN plan.new = {1}
  BY <1>0 DEF SInv, Numbered
<1>5. Numbered'
  BY <1>1, <1>2, <1>4, Enlisted DEF Numbered
<1>6. Listing'
  <2>1. ASSUME cuts = 0
        PROVE  /\ ~torn
               /\ op = "build" => DOMAIN segs \subseteq DOMAIN plan.new
               /\ op # "build" => DOMAIN segs \subseteq SegmentsOf(meta) \cup DOMAIN plan.new
    BY <1>0, <2>1 DEF SInv, Listing, Unlisted
  <2>2. op = "delta" => DOMAIN plan.new \subseteq {plan.seg}
    BY <1>0 DEF SInv, Numbered
  <2>3. Unlisted' = IF pc' = "cleanup" THEN plan'.old ELSE {}
    BY <1>1 DEF Unlisted
  <2>4. ASSUME cuts = 0 PROVE DOMAIN segs \subseteq SegmentsOf(meta') \cup Unlisted'
    <3>1. CASE op = "build"
      BY <2>1, <2>4, <3>1, Enlisted
    <3>2. CASE op = "delta"
      BY <2>1, <2>2, <2>4, <3>2, Enlisted
    <3>3. CASE op = "merge"
      BY <1>1, <1>2, <1>4, <2>1, <2>3, <2>4, <3>3, Enlisted
    <3> QED BY <1>0, <3>1, <3>2, <3>3
  <2> QED BY <1>0, <1>1, <2>1, <2>4 DEF Listing
<1> QED BY <1>3, <1>5, <1>6 DEF SInv

LEMMA EndWriterSegments == ASSUME IInv, SInv, EndWriter PROVE SInv'
<1>1. /\ op' = "idle" /\ pc' = "idle" /\ plan' = NoPlan /\ cuts' = cuts + 1 /\ cuts \in Nat
      /\ UNCHANGED <<dir, meta, segs>>
  BY DEF EndWriter, disk, IInv, Typed
<1>2. ReadOnce' /\ Written'
  BY <1>1 DEF ReadOnce, Written, NoPlan
<1>3. Numbered'
  BY <1>1 DEF SInv, Numbered
<1>4. Listing'
  <2>1. cuts' # 0
    BY <1>1
  <2> QED BY <2>1 DEF Listing
<1> QED BY <1>2, <1>3, <1>4 DEF SInv

LEMMA InitSInv == Init => SInv
<1> SUFFICES ASSUME Init PROVE SInv
  OBVIOUS
<1>1. op = "idle" /\ pc = "idle" /\ plan = NoPlan /\ meta = NoFile /\ DOMAIN segs = {} /\ ~torn
  BY DEF Init
<1> QED BY <1>1 DEF SInv, ReadOnce, Numbered, Written, Listing, NoPlan

LEMMA NextSInv == IInv /\ SInv /\ [Next]_vars => SInv'
<1> SUFFICES ASSUME IInv, SInv, [Next]_vars PROVE SInv'
  OBVIOUS
<1>1. CASE \E p \in Paths : Edit(p)
  BY <1>1, EditSegments
<1>2. CASE ForceBuild
  BY <1>2, StartBuildSegments DEF ForceBuild
<1>3. CASE BuildRemove \/ BuildWalk \/ BuildFinalize
  BY <1>3, BuildRemoveSegments, BuildWalkSegments, BuildFinalizeSegments
<1>4. CASE \E p \in Paths : BuildRead(p)
  BY <1>4, BuildReadSegments
<1>5. CASE UpdateIndex
  BY <1>5, UpdateIndexSegments
<1>6. CASE \E batch \in SUBSET dirty \ {{}} : DaemonFlush(batch)
  BY <1>6, DaemonFlushSegments
<1>7. CASE \E p \in Paths : DeltaRead(p)
  BY <1>7, DeltaReadSegments
<1>8. CASE DeltaFinalize
  BY <1>8, DeltaFinalizeSegments
<1>9. CASE StartCompact \/ MergeDoc \/ MergeFinalize \/ MergeCleanup
  BY <1>9, StartCompactSegments, MergeDocSegments, MergeFinalizeSegments, MergeCleanupSegments
<1>10. CASE WriteSegments \/ WriteDocs \/ WritePaths \/ WriteMeta
  BY <1>10, WriteSegmentsSegments, WriteTableSegments, WriteMetaSegments
<1>11. CASE Interrupt
  BY <1>11, EndWriterSegments DEF Interrupt
<1>12. CASE UNCHANGED vars
  <2>1. UNCHANGED <<dir, meta, docs, paths, segs, op, pc, plan, torn, cuts>>
    BY <1>12 DEF vars
  <2> QED BY <2>1 DEF SInv, ReadOnce, Numbered, Chunk, Written, Listing, Unlisted
<1> QED BY <1>1, <1>2, <1>3, <1>4, <1>5, <1>6, <1>7, <1>8, <1>9, <1>10, <1>11, <1>12 DEF Next

---------------------------------------------------------------------------
(***************************************************************************)
(* What a search of the index finds: every live document, each path once,  *)
(* and what no one has edited since with the content it has, whatever the  *)
(* writers and the tree do in the meantime.                                *)
(***************************************************************************)

---------------------------------------------------------------------------
(* What a document table is good for *)

Post(d, c) == <<d, c>>

\* Every document has a path, and no path has two that are live
Good(ds, ps) ==
    /\ \A d \in DOMAIN ds : ds[d].path < Len(ps)
    /\ \A p \in Paths : \A d, e \in LiveDocsOf(ds, ps, p) : d = e

\* Postings x lead to every live document, under the content it is stamped with
Reached(ds, x) == \A d \in DOMAIN ds : ds[d].live => Post(d, ds[d].mtime.at) \in x

\* ... and to no document under another one
Pure(ds, x) == \A y \in x : y[1] \in DOMAIN ds /\ y[2] = ds[y[1]].mtime.at

\* Path p, which now has content c, is answered from it
Fresh(ds, ps, p, c) ==
    IF c = Absent THEN LiveDocsOf(ds, ps, p) = {}
    ELSE \E d \in LiveDocsOf(ds, ps, p) : ds[d].mtime.at = c

Posts(new) == UNION {new[s] : s \in DOMAIN new}

---------------------------------------------------------------------------
(* The inductive invariant, on top of IInv and SInv *)

\* Neither is a writer between its replacements nor was one ended there
Steady == Readable /\ ~torn /\ ~CutShort

\* What is prepared does not stem from torn files
Sound == op = "build" \/ (op \in {"delta", "merge"} /\ ~torn)

\* What leads to the documents of the plan: a delta keeps the listed segments
Leads == Posts(plan.new) \cup (IF op = "delta" THEN Loaded ELSE {})

OnDisk ==
    Steady => /\ Good(docs, paths) /\ Reached(docs, Loaded)
              /\ \A p \in Paths \ dirty : Fresh(docs, paths, p, fs[p])

InPlan ==
    Sound => /\ Good(plan.docs, plan.paths) /\ Reached(plan.docs, Leads)
             /\ \A p \in plan.todo : LiveDocsOf(plan.docs, plan.paths, p) = {}

\* What has been read, or was not edited, is up to date in the plan
Captured ==
    (Sound /\ pc \in {"read", "segment", "docs", "paths", "meta"}) =>
        \A p \in Paths \ plan.todo :
            (p \notin dirty \/ p \in plan.clears) => Fresh(plan.docs, plan.paths, p, fs[p])

\* A delta that says it changes nothing prepares what is on disk
Idle == (op = "delta" /\ pc = "read" /\ ~plan.changed) =>
            plan.docs = docs /\ plan.paths = paths

\* Document d of docs and ps is carried over as document e of ds2 and ps2
Becomes(ds, ps, d, ds2, ps2, e) ==
    /\ ds[d].live
    /\ ps2[ds2[e].path + 1] = ps[ds[d].path + 1]
    /\ ds2[e].mtime = ds[d].mtime

Mapped(from, ps, ps2) ==
    /\ Len(from) = Len(ps2)
    /\ \A k \in DOMAIN from : from[k] < Len(ps) /\ ps2[k] = ps[from[k] + 1]

Carried(ds, ps, n, ds2, ps2) ==
    /\ \A d \in 1..(n - 1) : ds[d].live => \E e \in DOMAIN ds2 : Becomes(ds, ps, d, ds2, ps2, e)
    /\ \A e \in DOMAIN ds2 : \E d \in 1..(n - 1) : Becomes(ds, ps, d, ds2, ps2, e)

\* A compaction has carried over what comes before document next
Remapped ==
    (pc = "remap" /\ ~torn) =>
        /\ plan.next <= Len(docs) + 1
        /\ Mapped(plan.from, paths, plan.paths)
        /\ Carried(docs, paths, plan.next, plan.docs, plan.paths)

\* No posting is left over from before, unless a writer was interrupted
CleanDisk == (Steady /\ cuts = 0) => Pure(docs, Loaded)
CleanPlan == (Sound  /\ cuts = 0) => Pure(plan.docs, Leads)

Stored == OnDisk /\ CleanDisk

Preparing == InPlan /\ Captured /\ Idle /\ Remapped /\ CleanPlan

DInv == Stored /\ Preparing

---------------------------------------------------------------------------
(* Lemmas about the data *)

LEMMA LiveDoc ==
  ASSUME NEW ds, NEW ps, NEW p, NEW d
  PROVE  d \in LiveDocsOf(ds, ps, p) <=>
            d \in DOMAIN ds /\ ds[d].path < Len(ps) /\ ps[ds[d].path + 1] = p /\ ds[d].live
BY DEF LiveDocsOf, DocsOf

LEMMA EmptyTable ==
  ASSUME NEW ps
  PROVE  /\ Good(<<>>, ps) /\ \A x : Reached(<<>>, x)
         /\ \A p : LiveDocsOf(<<>>, ps, p) = {}
<1>1. DOMAIN <<>> = {}
  BY EmptySeq
<1>2. \A p : LiveDocsOf(<<>>, ps, p) = {}
  BY <1>1, LiveDoc
<1> QED BY <1>1, <1>2 DEF Good, Reached

LEMMA PathsWithPath ==
  ASSUME NEW ps \in Seq(Paths), NEW p \in Paths
  PROVE  /\ PathsWith(ps, p) \in Seq(Paths) /\ Len(ps) <= Len(PathsWith(ps, p))
         /\ \A i \in 1..Len(ps) : PathsWith(ps, p)[i] = ps[i]
         /\ PathId(ps, p) \in Nat /\ PathId(ps, p) < Len(PathsWith(ps, p))
         /\ PathsWith(ps, p)[PathId(ps, p) + 1] = p
<1>1. DOMAIN ps = 1..Len(ps) /\ Len(ps) \in Nat
  BY LenProperties
<1>2. CASE \E i \in DOMAIN ps : ps[i] = p
  <2> DEFINE i == CHOOSE i \in DOMAIN ps : ps[i] = p
  <2>1. i \in DOMAIN ps /\ ps[i] = p
    BY <1>2
  <2>2. PathId(ps, p) = i - 1
    BY <1>2 DEF PathId
  <2> HIDE DEF i
  <2>3. PathId(ps, p) \in Nat /\ PathId(ps, p) < Len(ps) /\ PathId(ps, p) + 1 = i
    BY <1>1, <2>1, <2>2
  <2>4. PathsWith(ps, p) = ps
    <3>1. PathId(ps, p) # Len(ps)
      BY <1>1, <2>3
    <3> QED BY <3>1 DEF PathsWith
  <2> QED BY <1>1, <2>1, <2>3, <2>4
<1>3. CASE ~\E i \in DOMAIN ps : ps[i] = p
  <2>1. PathId(ps, p) = Len(ps)
    BY <1>3 DEF PathId
  <2>2. PathsWith(ps, p) = Append(ps, p)
    BY <2>1 DEF PathsWith
  <2> QED BY <1>1, <2>1, <2>2, AppendProperties
<1> QED BY <1>2, <1>3

LEMMA PostsAdd ==
  ASSUME NEW new, NEW s, NEW x
  PROVE  Posts(AddPostings(new, s, x)) = Posts(new) \cup x
<1> DEFINE n2 == AddPostings(new, s, x)
<1>1. /\ DOMAIN n2 = DOMAIN new \cup {s}
      /\ \A t \in DOMAIN n2 : \A y : y \in n2[t] <=> (t \in DOMAIN new /\ y \in new[t]) \/ (t = s /\ y \in x)
  BY DEF AddPostings
<1> HIDE DEF n2
<1>2. ASSUME NEW y \in Posts(n2) PROVE y \in Posts(new) \cup x
  <2>1. PICK t \in DOMAIN n2 : y \in n2[t]
    BY <1>2 DEF Posts
  <2> QED BY <1>1, <2>1 DEF Posts
<1>3. ASSUME NEW y \in Posts(new) PROVE y \in Posts(n2)
  <2>1. PICK t \in DOMAIN new : y \in new[t]
    BY <1>3 DEF Posts
  <2>2. t \in DOMAIN n2 /\ y \in n2[t]
    BY <1>1, <2>1
  <2> QED BY <2>2 DEF Posts
<1>4. ASSUME NEW y \in x PROVE y \in Posts(n2)
  <2>1. s \in DOMAIN n2 /\ y \in n2[s]
    BY <1>1, <1>4
  <2> QED BY <2>1 DEF Posts
<1> QED BY <1>2, <1>3, <1>4 DEF n2

Longer(ps, ps2) == Len(ps) <= Len(ps2) /\ \A i \in 1..Len(ps) : ps2[i] = ps[i]

\* Document n is added for path p
Added(ds, ps, p, doc, ds2, ps2, n) ==
    /\ LiveDocsOf(ds2, ps2, p) = {n}
    /\ \A q \in Paths : q # p => LiveDocsOf(ds2, ps2, q) = LiveDocsOf(ds, ps, q)
    /\ DOMAIN ds2 = DOMAIN ds \cup {n} /\ n \notin DOMAIN ds /\ ds2[n] = doc
    /\ \A d \in DOMAIN ds : ds2[d] = ds[d]

\* A live document is added for a path that has none.
LEMMA TableAppend ==
  ASSUME NEW ds \in Seq(Doc), NEW ps \in Seq(Paths), Good(ds, ps),
         NEW p \in Paths, LiveDocsOf(ds, ps, p) = {},
         NEW doc \in Doc, doc.live, NEW ps2 \in Seq(Paths), Longer(ps, ps2),
         doc.path < Len(ps2), ps2[doc.path + 1] = p,
         NEW ds2, ds2 = Append(ds, doc), NEW n, n = Len(ds) + 1
  PROVE  Good(ds2, ps2) /\ Added(ds, ps, p, doc, ds2, ps2, n)
<1>1. /\ Len(ds) \in Nat /\ DOMAIN ds = 1..Len(ds) /\ Len(ps) \in Nat
      /\ \A d \in DOMAIN ds : ds[d] \in Doc
  BY LenProperties, ElementOfSeq
<1>2. DOMAIN ds2 = 1..(Len(ds) + 1) /\ ds2[n] = doc /\ \A d \in DOMAIN ds : ds2[d] = ds[d]
  BY <1>1, AppendProperties
<1>3. DOMAIN ds2 = DOMAIN ds \cup {n} /\ n \notin DOMAIN ds
  BY <1>1, <1>2
<1>4. ASSUME NEW d \in DOMAIN ds
      PROVE  /\ ds[d].path < Len(ps2) /\ ds[d].path < Len(ps)
             /\ ps2[ds[d].path + 1] = ps[ds[d].path + 1]
  <2>1. ds[d].path \in Nat
    BY <1>1 DEF Doc
  <2>2. ds[d].path < Len(ps)
    BY DEF Good
  <2>3. ds[d].path + 1 \in 1..Len(ps) /\ Len(ps2) \in Nat
    BY <1>1, <2>1, <2>2, LenProperties
  <2> QED BY <1>1, <2>1, <2>2, <2>3 DEF Longer
<1>5. \A q : \A d \in DOMAIN ds : d \in LiveDocsOf(ds2, ps2, q) <=> d \in LiveDocsOf(ds, ps, q)
  <2> TAKE q
  <2> TAKE d \in DOMAIN ds
  <2>1. ds2[d] = ds[d] /\ d \in DOMAIN ds2
    BY <1>2, <1>3
  <2> QED BY <1>4, <2>1 DEF LiveDocsOf, DocsOf
<1>6. \A q : n \in LiveDocsOf(ds2, ps2, q) <=> q = p
  BY <1>2, <1>3 DEF LiveDocsOf, DocsOf
<1>7. \A q : LiveDocsOf(ds2, ps2, q) \subseteq DOMAIN ds \cup {n}
             /\ LiveDocsOf(ds, ps, q) \subseteq DOMAIN ds
  BY <1>3 DEF LiveDocsOf, DocsOf
<1>8. LiveDocsOf(ds2, ps2, p) = {n}
  BY <1>5, <1>6, <1>7
<1>9. ASSUME NEW q \in Paths, q # p PROVE LiveDocsOf(ds2, ps2, q) = LiveDocsOf(ds, ps, q)
  <2> DEFINE new == LiveDocsOf(ds2, ps2, q)
             old == LiveDocsOf(ds, ps, q)
  <2>1. /\ n \notin new /\ new \subseteq DOMAIN ds \cup {n} /\ old \subseteq DOMAIN ds
        /\ \A d \in DOMAIN ds : d \in new <=> d \in old
    BY <1>5, <1>6, <1>7, <1>9
  <2> HIDE DEF new, old
  <2>2. new = old
    BY <2>1
  <2> QED BY <2>2 DEF new, old
<1>10. Good(ds2, ps2)
  <2>1. \A d \in DOMAIN ds2 : ds2[d].path < Len(ps2)
    BY <1>2, <1>3, <1>4
  <2>2. ASSUME NEW q \in Paths, NEW d \in LiveDocsOf(ds2, ps2, q), NEW e \in LiveDocsOf(ds2, ps2, q)
        PROVE  d = e
    BY <1>8, <1>9, <2>2 DEF Good
  <2> QED BY <2>1, <2>2 DEF Good
<1> QED BY <1>2, <1>3, <1>8, <1>9, <1>10 DEF Added

LEMMA FreshSame ==
  ASSUME NEW ds, NEW ps, NEW ds2, NEW ps2, NEW p, NEW c,
         LiveDocsOf(ds2, ps2, p) = LiveDocsOf(ds, ps, p),
         \A d \in LiveDocsOf(ds, ps, p) : ds2[d].mtime = ds[d].mtime,
         Fresh(ds, ps, p, c)
  PROVE  Fresh(ds2, ps2, p, c)
BY DEF Fresh

\* Path p is read with content c, and the other paths stay
Taken(ds, ps, x, p, c, ds2, ps2, y) ==
    /\ Good(ds2, ps2) /\ Reached(ds2, y)
    /\ Pure(ds, x) => Pure(ds2, y)
    /\ Fresh(ds2, ps2, p, c)
    /\ \A q \in Paths : q # p => LiveDocsOf(ds2, ps2, q) = LiveDocsOf(ds, ps, q)
    /\ \A q \in Paths : \A k : q # p /\ Fresh(ds, ps, q, k) => Fresh(ds2, ps2, q, k)

\* A file read is found afterwards as it was read; other paths as before.
LEMMA Read ==
  ASSUME fs \in [Paths -> Nat], NEW pl \in Plan, NEW p \in Paths, NEW s \in Nat,
         NEW ds, ds = pl.docs, NEW ps, ps = pl.paths, NEW l, NEW x, x = Posts(pl.new) \cup l,
         NEW new, new = AddFile(pl, p, s), NEW y, y = Posts(new.new) \cup l,
         Good(ds, ps), LiveDocsOf(ds, ps, p) = {}, Reached(ds, x)
  PROVE  Taken(ds, ps, x, p, fs[p], new.docs, new.paths, y)
<1>1. CASE fs[p] = Absent
  <2>1. new.docs = ds /\ new.paths = ps /\ new.new = pl.new
    BY <1>1, AddFileFields
  <2>2. Fresh(ds, ps, p, fs[p])
    BY <1>1 DEF Fresh
  <2> QED BY <2>1, <2>2 DEF Taken
<1>2. CASE fs[p] # Absent
  <2> DEFINE doc == DocOf(pl, p)
             n == Len(ds) + 1
             ds2 == Append(ds, doc)
             ps2 == PathsWith(ps, p)
  <2>1. new.docs = ds2 /\ new.paths = ps2 /\ new.new = AddPostings(pl.new, s, PostingOf(pl, p))
    BY <1>2, AddFileFields
  <2>2. ds \in Seq(Doc) /\ ps \in Seq(Paths) /\ pl.unit \in {"s", "ns"}
    BY DEF Plan
  <2>3. /\ ps2 \in Seq(Paths) /\ Len(ps) <= Len(ps2) /\ \A i \in 1..Len(ps) : ps2[i] = ps[i]
        /\ PathId(ps, p) \in Nat /\ PathId(ps, p) < Len(ps2) /\ ps2[PathId(ps, p) + 1] = p
    BY <2>2, PathsWithPath
  <2>4. doc \in Doc /\ doc.live /\ doc.path = PathId(ps, p) /\ doc.mtime.at = fs[p]
    BY <2>2, <2>3 DEF DocOf, Doc, Stamp
  <2>5. PostingOf(pl, p) = {Post(n, fs[p])}
    BY DEF PostingOf, Post
  <2>6. y = x \cup {Post(n, fs[p])}
    BY <2>1, <2>5, PostsAdd
  <2>0. ds2 = Append(ds, doc) /\ n = Len(ds) + 1
    OBVIOUS
  <2> HIDE DEF doc, n, ds2, ps2
  <2>7. doc.path < Len(ps2) /\ ps2[doc.path + 1] = p
    BY <2>3, <2>4
  <2>8. /\ Good(ds2, ps2) /\ LiveDocsOf(ds2, ps2, p) = {n}
        /\ \A q \in Paths : q # p => LiveDocsOf(ds2, ps2, q) = LiveDocsOf(ds, ps, q)
        /\ DOMAIN ds2 = DOMAIN ds \cup {n} /\ n \notin DOMAIN ds /\ ds2[n] = doc
        /\ \A d \in DOMAIN ds : ds2[d] = ds[d]
    <3>1. Longer(ps, ps2) /\ ps2 \in Seq(Paths)
      BY <2>3 DEF Longer
    <3>2. Good(ds2, ps2) /\ Added(ds, ps, p, doc, ds2, ps2, n)
      BY <2>0, <2>2, <2>4, <2>7, <3>1, TableAppend
    <3> QED BY <3>2 DEF Added
  <2>13. DOMAIN ds2 = DOMAIN ds \cup {n} /\ ds2[n] = doc /\ \A d \in DOMAIN ds : ds2[d] = ds[d]
    BY <2>8
  <2>9. Reached(ds2, y)
    <3>1. x \subseteq y /\ Post(n, ds2[n].mtime.at) \in y
      BY <2>4, <2>6, <2>13
    <3> QED BY <2>13, <3>1 DEF Reached
  <2>10. ASSUME Pure(ds, x) PROVE Pure(ds2, y)
    <3>1. \A z \in y : z \in x \/ (z[1] = n /\ z[2] = ds2[n].mtime.at)
      BY <2>4, <2>6, <2>13 DEF Post
    <3> QED BY <2>13, <2>10, <3>1 DEF Pure
  <2>11. Fresh(ds2, ps2, p, fs[p])
    BY <1>2, <2>4, <2>8 DEF Fresh
  <2>12. ASSUME NEW q \in Paths, NEW c, q # p, Fresh(ds, ps, q, c) PROVE Fresh(ds2, ps2, q, c)
    <3>1. LiveDocsOf(ds2, ps2, q) = LiveDocsOf(ds, ps, q)
      BY <2>8, <2>12
    <3>2. \A d \in LiveDocsOf(ds, ps, q) : ds2[d].mtime = ds[d].mtime
      BY <2>8 DEF LiveDocsOf, DocsOf
    <3> QED BY <2>12, <3>1, <3>2, FreshSame
  <2> QED BY <2>1, <2>8, <2>9, <2>10, <2>11, <2>12 DEF Taken
<1> QED BY <1>1, <1>2

\* The same documents, some of which may have died
Outlived(ds, ds2) ==
    /\ DOMAIN ds2 = DOMAIN ds
    /\ \A d \in DOMAIN ds : /\ ds2[d].path = ds[d].path /\ ds2[d].mtime = ds[d].mtime
                            /\ ds2[d].live => ds[d].live

LEMMA OutlivedKeeps ==
  ASSUME NEW ds, NEW ds2, Outlived(ds, ds2), NEW x
  PROVE  (Reached(ds, x) => Reached(ds2, x)) /\ (Pure(ds, x) => Pure(ds2, x))
BY DEF Outlived, Reached, Pure

\* Tombstones leave the other documents as they are.
LEMMA MarkedTable ==
  ASSUME docs \in Seq(Doc), NEW dead, NEW ds, ds = Marked(dead)
  PROVE  /\ Outlived(docs, ds)
         /\ \A ps, p : LiveDocsOf(ds, ps, p) = LiveDocsOf(docs, ps, p) \ dead
         /\ dead = {} => ds = docs
<1>1. \A d \in DOMAIN docs : docs[d] \in Doc
  BY ElementOfSeq, LenProperties
<1>2. DOMAIN ds = DOMAIN docs /\ \A d \in DOMAIN docs : ds[d] = [docs[d] EXCEPT !.live = @ /\ d \notin dead]
  BY DEF Marked
<1>3. ASSUME NEW d \in DOMAIN docs
      PROVE  /\ ds[d].path = docs[d].path /\ ds[d].mtime = docs[d].mtime
             /\ ds[d].live = (docs[d].live /\ d \notin dead)
  BY <1>1, <1>2 DEF Doc
<1>4. ASSUME NEW ps, NEW p PROVE LiveDocsOf(ds, ps, p) = LiveDocsOf(docs, ps, p) \ dead
  BY <1>2, <1>3 DEF LiveDocsOf, DocsOf
<1>5. ASSUME dead = {} PROVE ds = docs
  <2>1. \A d \in DOMAIN docs : ds[d] = docs[d]
    BY <1>1, <1>2, <1>5 DEF Doc
  <2>2. docs \in [DOMAIN docs -> Doc] /\ ds = [d \in DOMAIN docs |-> ds[d]]
    BY <1>1, <1>2, LenProperties, SeqDef DEF Marked
  <2> QED BY <1>2, <2>1, <2>2
<1>6. Outlived(docs, ds)
  BY <1>2, <1>3 DEF Outlived
<1> QED BY <1>4, <1>5, <1>6

\* The document buried for a path is all it has.
LEMMA BuriedTable ==
  ASSUME docs \in Seq(Doc), paths \in Seq(Paths), Good(docs, paths),
         NEW S \in SUBSET Paths, NEW p \in Paths
  PROVE  /\ p \in S => Listed(p) \subseteq Buried(S)
         /\ p \notin S => Listed(p) \cap Buried(S) = {}
<1>1. DOMAIN docs \subseteq Nat
  BY LenProperties
<1>2. ASSUME p \in S, NEW d \in Listed(p) PROVE d \in Buried(S)
  <2>1. d \in DOMAIN docs /\ \A e \in Listed(p) : e = d
    BY <1>2 DEF Good, Listed, LiveDocsOf, DocsOf
  <2>2. \A e \in Listed(p) : e <= d
    BY <1>1, <2>1
  <2> QED BY <1>2, <2>1, <2>2 DEF Buried
<1>3. ASSUME p \notin S, NEW d \in Listed(p) PROVE d \notin Buried(S)
  <2>1. \A q \in S : d \notin Listed(q)
    BY <1>3 DEF Listed, LiveDocsOf, DocsOf
  <2> QED BY <2>1 DEF Buried
<1> QED BY <1>2, <1>3

\* What the scan leaves alone is up to date.
LEMMA ScanFresh ==
  ASSUME IInv, Good(docs, paths), NEW p \in Paths, p \notin Changed
  PROVE  Fresh(docs, paths, p, fs[p])
<1>1. CASE fs[p] = Absent
  BY <1>1 DEF Changed, DeletedFiles, Listed, Fresh
<1>2. CASE fs[p] # Absent
  <2>1. PICK d \in Listed(p) : TRUE
    BY <1>2 DEF Changed, NewFiles
  <2>2. d \in DOMAIN docs /\ \A e \in Listed(p) : e = d
    BY DEF Good, Listed, LiveDocsOf, DocsOf
  <2>3. IndexedStamp(p) = SecondsOf(p)
    BY <1>2, <2>1 DEF Changed, ModifiedFiles
  <2> DEFINE f == CHOOSE f \in Listed(p) : \A e \in Listed(p) : e <= f
  <2>4. f = d
    BY <2>1, <2>2
  <2>5. docs[d].mtime = SecondsOf(p)
    BY <2>3, <2>4 DEF IndexedStamp
  <2>6. docs[d].mtime.at = fs[p]
    BY <2>5 DEF SecondsOf
  <2> QED BY <1>2, <2>1, <2>6 DEF Fresh, Listed
<1> QED BY <1>1, <1>2

---------------------------------------------------------------------------
(* Each action preserves the invariant *)

LEMMA StoredSame ==
  ASSUME Stored, UNCHANGED <<meta, docs, paths, segs, fs, dirty, cuts>>, Steady' => Steady
  PROVE  Stored'
<1>1. OnDisk'
  BY DEF Stored, OnDisk, Loaded
<1>2. CleanDisk'
  BY DEF Stored, CleanDisk, Loaded
<1> QED BY <1>1, <1>2 DEF Stored

LEMMA StoredUnsteady == ASSUME ~Steady' PROVE Stored'
BY DEF Stored, OnDisk, CleanDisk

\* Nothing is prepared
LEMMA PreparingEnded == ASSUME IInv', op' = "idle" PROVE Preparing'
<1>1. ~Sound' /\ pc' = "idle"
  BY DEF Sound, IInv, Typed, Control
<1>2. InPlan' /\ Captured' /\ CleanPlan'
  BY <1>1 DEF InPlan, Captured, CleanPlan
<1>3. Idle' /\ Remapped'
  BY <1>1 DEF Idle, Remapped
<1> QED BY <1>2, <1>3 DEF Preparing

\* A plan without documents
LEMMA PreparingEmpty ==
  ASSUME op' # "delta", plan'.docs = <<>>, Posts(plan'.new) = {}, Captured', Remapped'
  PROVE  Preparing'
<1>1. Leads' = {}
  BY DEF Leads
<1>2. InPlan'
  BY <1>1, EmptyTable DEF InPlan
<1>3. CleanPlan'
  BY <1>1, EmptySeq DEF CleanPlan, Pure
<1>4. Idle'
  BY DEF Idle
<1> QED BY <1>2, <1>3, <1>4 DEF Preparing

\* The plan stays, and so does what it is made from
LEMMA PreparingSame ==
  ASSUME Preparing, UNCHANGED <<fs, op, torn, cuts, dirty>>, op = "delta" => Loaded' = Loaded, pc' # "remap",
         plan'.docs = plan.docs, plan'.paths = plan.paths, plan'.new = plan.new,
         plan'.todo = plan.todo, plan'.clears = plan.clears,
         pc' \in {"read", "segment", "docs", "paths", "meta"} =>
             pc \in {"read", "segment", "docs", "paths", "meta"},
         pc' = "read" => pc = "read" /\ plan'.changed = plan.changed /\ docs' = docs /\ paths' = paths
  PROVE  Preparing'
<1>1. (Sound' <=> Sound) /\ Leads' = Leads
  BY DEF Sound, Leads
<1>2. InPlan'
  BY <1>1 DEF Preparing, InPlan
<1>3. Captured'
  BY <1>1 DEF Preparing, Captured
<1>4. Idle'
  BY DEF Preparing, Idle
<1>5. Remapped'
  BY DEF Remapped
<1>6. CleanPlan'
  BY <1>1 DEF Preparing, CleanPlan
<1> QED BY <1>2, <1>3, <1>4, <1>5, <1>6 DEF Preparing

LEMMA EditDocs == ASSUME IInv, DInv, NEW p \in Paths, Edit(p) PROVE DInv'
<1>0. UNCHANGED <<meta, docs, paths, segs, op, pc, torn, cuts>> /\ dirty' = dirty \cup {p}
  BY DEF Edit, disk
<1>1. \A q \in Paths : q # p => fs'[q] = fs[q]
  BY DEF Edit, Write, Delete, IInv, Typed
<1>2. /\ plan'.docs = plan.docs /\ plan'.paths = plan.paths /\ plan'.new = plan.new
      /\ plan'.todo = plan.todo /\ plan'.clears = plan.clears \ {p}
      /\ plan'.changed = plan.changed /\ plan'.next = plan.next /\ plan'.from = plan.from
  BY ClearsOnly DEF Edit, IInv, Typed
<1>3. (Sound' <=> Sound) /\ (Steady' <=> Steady) /\ Leads' = Leads /\ Loaded' = Loaded
  BY <1>0, <1>2 DEF Sound, Steady, Readable, CutShort, Leads, Loaded
<1>4. OnDisk'
  BY <1>0, <1>1, <1>3 DEF DInv, Stored, OnDisk
<1>5. InPlan'
  BY <1>0, <1>2, <1>3 DEF DInv, Preparing, InPlan
<1>6. Captured'
  BY <1>0, <1>1, <1>2, <1>3 DEF DInv, Preparing, Captured
<1>7. Idle' /\ Remapped'
  BY <1>0, <1>2 DEF DInv, Preparing, Idle, Remapped
<1>8. CleanDisk' /\ CleanPlan'
  BY <1>0, <1>2, <1>3 DEF DInv, Stored, Preparing, CleanDisk, CleanPlan
<1> QED BY <1>4, <1>5, <1>6, <1>7, <1>8 DEF DInv, Stored, Preparing

\* What a build does leaves nothing that opens
LEMMA BuildStored == ASSUME IInv', op' = "build" PROVE Stored'
<1>1. ~Steady'
  BY DEF IInv, Removed, Steady, Readable, CutShort
<1> QED BY <1>1, StoredUnsteady

LEMMA StartBuildDocs == ASSUME IInv', StartBuild PROVE DInv'
<1>1. op' = "build" /\ pc' \in {"remove", "walk"} /\ plan' = NoPlan
  BY DEF StartBuild
<1>2. Stored'
  BY <1>1, BuildStored
<1>3. Preparing'
  <2>1. Captured' /\ Remapped'
    BY <1>1 DEF Captured, Remapped
  <2>2. plan'.docs = <<>> /\ Posts(plan'.new) = {}
    BY <1>1 DEF NoPlan, Posts
  <2> QED BY <1>1, <2>1, <2>2, PreparingEmpty
<1> QED BY <1>2, <1>3 DEF DInv

LEMMA BuildRemoveDocs == ASSUME IInv, SInv, DInv, IInv', BuildRemove PROVE DInv'
<1>1. /\ op = "build" /\ op' = "build" /\ pc' \in {"remove", "walk"}
      /\ UNCHANGED <<plan, torn, cuts>> /\ pc = "remove"
  BY DEF BuildRemove
<1>2. plan'.docs = <<>> /\ Posts(plan'.new) = {}
  BY <1>1 DEF SInv, ReadOnce, Posts
<1>3. Captured' /\ Remapped'
  BY <1>1 DEF Captured, Remapped
<1> QED BY <1>1, <1>2, <1>3, PreparingEmpty, BuildStored DEF DInv

LEMMA BuildWalkDocs == ASSUME IInv, SInv, DInv, IInv', BuildWalk PROVE DInv'
<1>1. /\ op = "build" /\ op' = "build" /\ pc = "walk" /\ pc' = "read" /\ UNCHANGED fs
  BY DEF BuildWalk, tree
<1> DEFINE found == {p \in Paths : fs[p] # Absent}
<1>2. /\ plan'.docs = plan.docs /\ plan'.paths = plan.paths /\ plan'.new = plan.new
      /\ plan'.todo = found /\ plan'.clears = Paths \ found
  BY DEF BuildWalk, IInv, Typed, Plan
<1>3. plan'.docs = <<>> /\ Posts(plan'.new) = {}
  BY <1>1, <1>2 DEF SInv, ReadOnce, Posts
<1>4. Captured'
  <2>1. ASSUME NEW p \in Paths, p \notin found PROVE Fresh(plan'.docs, plan'.paths, p, fs'[p])
    BY <1>1, <1>3, <2>1, EmptyTable DEF Fresh
  <2> QED BY <1>2, <2>1 DEF Captured
<1>5. Remapped'
  BY <1>1 DEF Remapped
<1> QED BY <1>1, <1>3, <1>4, <1>5, PreparingEmpty, BuildStored DEF DInv

\* A file is read into the plan.
LEMMA ReadTables ==
  ASSUME IInv, DInv, NEW p \in Paths, p \in plan.todo, NEW s \in Nat, NEW new, new = AddFile(plan, p, s),
         pc = "read", op \in {"build", "delta"}, UNCHANGED <<fs, meta, docs, paths, segs, op, pc, torn, cuts, dirty>>,
         plan'.docs = new.docs, plan'.paths = new.paths, plan'.new = new.new,
         plan'.changed = new.changed, plan'.todo = new.todo, plan'.clears = plan.clears \cup {p}
  PROVE  Preparing'
<1> DEFINE l == IF op = "delta" THEN Loaded ELSE {}
           x == Posts(plan.new) \cup l
           y == Posts(new.new) \cup l
           ds == plan.docs
           ps == plan.paths
<1>0. plan \in Plan /\ fs \in [Paths -> Nat]
  BY DEF IInv, Typed
<1>1. Sound' <=> Sound
  BY DEF Sound
<1>2. Leads = x /\ Leads' = y
  BY DEF Leads, Loaded
<1> HIDE DEF l, x, y, ds, ps
<1>3. ASSUME Sound PROVE Taken(ds, ps, x, p, fs[p], new.docs, new.paths, y)
  <2>1. Good(ds, ps) /\ LiveDocsOf(ds, ps, p) = {} /\ Reached(ds, x)
    BY <1>2, <1>3 DEF DInv, Preparing, InPlan, ds, ps
  <2>2. x = Posts(plan.new) \cup l /\ y = Posts(new.new) \cup l /\ ds = plan.docs /\ ps = plan.paths
    BY DEF x, y, ds, ps
  <2> QED BY <1>0, <2>1, <2>2, Read
<1>4. new.todo = plan.todo \ {p} /\ plan.todo \subseteq Paths
  <2>1. plan.todo \subseteq Paths
    BY <1>0 DEF Plan
  <2>2. new.todo = plan.todo \ {p}
    BY <1>0, AddFileFields
  <2> QED BY <2>1, <2>2
<1>5. InPlan'
  <2>1. ASSUME Sound, NEW q \in plan'.todo PROVE LiveDocsOf(new.docs, new.paths, q) = {}
    <3>1. LiveDocsOf(ds, ps, q) = {} /\ q \in Paths /\ q # p
      BY <1>4, <2>1 DEF DInv, Preparing, InPlan, ds, ps
    <3> QED BY <1>3, <2>1, <3>1 DEF Taken
  <2> QED BY <1>1, <1>2, <1>3, <2>1 DEF InPlan, Taken
<1>6. Captured'
  <2>1. ASSUME Sound, NEW q \in Paths \ plan'.todo, q \notin dirty \/ q \in plan'.clears
        PROVE  Fresh(new.docs, new.paths, q, fs[q])
    <3>1. CASE q = p
      BY <1>3, <2>1, <3>1 DEF Taken
    <3>2. CASE q # p
      <4>1. q \in Paths \ plan.todo /\ (q \notin dirty \/ q \in plan.clears)
        BY <1>4, <2>1, <3>2
      <4>2. Fresh(ds, ps, q, fs[q])
        BY <2>1, <4>1 DEF DInv, Preparing, Captured, ds, ps
      <4> QED BY <1>3, <2>1, <3>2, <4>2 DEF Taken
    <3> QED BY <3>1, <3>2
  <2> QED BY <1>1, <2>1 DEF Captured
<1>7. Idle'
  <2>1. ASSUME ~plan'.changed PROVE plan'.docs = plan.docs /\ plan'.paths = plan.paths /\ ~plan.changed
    BY <1>0, <2>1, AddFileFields
  <2> QED BY <2>1 DEF DInv, Preparing, Idle
<1>8. Remapped'
  BY DEF Remapped
<1>9. CleanPlan'
  <2>1. (Sound /\ cuts = 0) => Pure(ds, x)
    BY <1>2 DEF DInv, Preparing, CleanPlan, ds
  <2> QED BY <1>1, <1>2, <1>3, <2>1 DEF CleanPlan, Taken
<1> QED BY <1>5, <1>6, <1>7, <1>8, <1>9 DEF Preparing

LEMMA BuildReadDocs == ASSUME IInv, DInv, IInv', NEW p \in Paths, BuildRead(p) PROVE DInv'
<1> DEFINE new  == AddFile(plan, p, Chunk)
           here == fs[p] # Absent /\ ~\E i \in DOMAIN plan.ids : plan.ids[i] = Chunk
           ids  == IF here THEN Append(new.ids, Chunk) ELSE new.ids
           c    == new.clears \cup {p}
<1>1. /\ op = "build" /\ pc = "read" /\ p \in plan.todo
      /\ UNCHANGED <<fs, meta, docs, paths, segs, op, pc, torn, cuts, dirty>>
      /\ plan \in Plan /\ plan.read \in Nat /\ fs \in [Paths -> Nat]
  BY DEF BuildRead, tree, disk, IInv, Typed, Plan
<1>2. Chunk \in Nat
  BY <1>1, NextChunk DEF Chunk
<1>3. new = AddFile(plan, p, Chunk) /\ new \in Plan
  BY <1>1, <1>2, AddFileTyped
<1>4. plan' = [new EXCEPT !.ids = ids, !.clears = c]
  BY DEF BuildRead, Chunk
<1> HIDE DEF new, ids
<1>5. /\ plan'.docs = new.docs /\ plan'.paths = new.paths /\ plan'.new = new.new
      /\ plan'.changed = new.changed /\ plan'.todo = new.todo /\ plan'.clears = c
  BY <1>3, <1>4 DEF Plan
<1>6. new.clears = plan.clears
  BY <1>1, <1>3, AddFileFields
<1>7. Preparing'
  BY <1>1, <1>2, <1>3, <1>5, <1>6, ReadTables
<1> QED BY <1>1, <1>7, BuildStored DEF DInv

LEMMA BuildFinalizeDocs == ASSUME IInv, DInv, IInv', BuildFinalize PROVE DInv'
<1>1. /\ op = "build" /\ pc = "read" /\ pc' = "segment"
      /\ UNCHANGED <<fs, meta, docs, paths, segs, op, plan, torn, cuts, dirty>>
  BY DEF BuildFinalize, tree, disk
<1>2. Preparing'
  BY <1>1, PreparingSame DEF DInv
<1> QED BY <1>1, <1>2, BuildStored DEF DInv

\* An update is sound when the files it neither reads nor drops are up to date.
LEMMA StartDeltaDocs ==
  ASSUME IInv, DInv, op = "idle", Readable,
         NEW created \in SUBSET Paths, NEW modified \in SUBSET Paths, NEW deleted \in SUBSET Paths,
         NEW unit, NEW clears, StartDelta(created, modified, deleted, unit, clears),
         \A p \in created : Listed(p) = {},
         \A p \in Paths \ (created \cup modified) :
             p \in deleted => fs[p] = Absent,
         Steady => \A p \in Paths \ (created \cup modified \cup deleted) :
             (p \notin dirty \/ p \in clears) => Fresh(docs, paths, p, fs[p])
  PROVE  DInv'
<1> DEFINE gone == deleted \cup modified
           dead == Buried(gone)
           ds   == Marked(dead)
<1>1. /\ pc = "idle" /\ op' = "delta" /\ pc' = "read"
      /\ UNCHANGED <<fs, meta, docs, paths, segs, torn, cuts, dirty>>
      /\ docs \in Seq(Doc) /\ paths \in Seq(Paths)
  BY DEF StartDelta, tree, disk, IInv, Typed, Control, Readable
<1>2. /\ plan'.docs = ds /\ plan'.paths = paths /\ plan'.todo = created \cup modified
      /\ plan'.clears = clears /\ plan'.changed = (dead # {}) /\ plan'.new = [s \in {} |-> {}]
  BY DEF StartDelta, NoPlan
<1>3. Posts(plan'.new) = {}
  BY <1>2 DEF Posts
<1>4. Leads' = Loaded /\ (Sound' <=> ~torn) /\ (Steady <=> ~torn) /\ (Steady' => Steady)
  BY <1>1, <1>3 DEF Leads, Loaded, Sound, Steady, Readable, CutShort
<1>13. ds = Marked(dead)
  OBVIOUS
<1> HIDE DEF gone, dead, ds
<1>5. /\ Outlived(docs, ds)
      /\ \A p : LiveDocsOf(ds, paths, p) = Listed(p) \ dead
      /\ dead = {} => ds = docs
  BY <1>1, <1>13, MarkedTable DEF Listed
<1>6. ASSUME Steady, NEW p \in Paths
      PROVE  /\ p \in gone => LiveDocsOf(ds, paths, p) = {}
             /\ p \notin gone => LiveDocsOf(ds, paths, p) = Listed(p)
  <2>1. gone \in SUBSET Paths /\ Good(docs, paths)
    BY <1>6 DEF gone, DInv, Stored, OnDisk
  <2>2. /\ p \in gone => Listed(p) \subseteq dead
        /\ p \notin gone => Listed(p) \cap dead = {}
    BY <1>1, <2>1, BuriedTable DEF dead
  <2> QED BY <1>5, <2>2
<1>7. Stored'
  BY <1>1, <1>4, StoredSame DEF DInv
<1>8. InPlan'
  <2> SUFFICES ASSUME Steady PROVE /\ Good(ds, paths) /\ Reached(ds, Loaded)
                                   /\ \A p \in created \cup modified : LiveDocsOf(ds, paths, p) = {}
    BY <1>1, <1>2, <1>4 DEF InPlan
  <2>1. Good(docs, paths) /\ Reached(docs, Loaded)
    BY DEF DInv, Stored, OnDisk
  <2>2. \A d \in DOMAIN ds : ds[d].path < Len(paths)
    BY <1>5, <2>1 DEF Good, Outlived
  <2>3. \A p \in Paths : \A d, e \in LiveDocsOf(ds, paths, p) : d = e
    BY <1>6, <2>1 DEF Good, Listed
  <2>4. Reached(ds, Loaded)
    BY <1>5, <2>1, OutlivedKeeps
  <2>5. \A p \in created \cup modified : LiveDocsOf(ds, paths, p) = {}
    BY <1>6 DEF gone
  <2> QED BY <2>2, <2>3, <2>4, <2>5 DEF Good
<1>9. Captured'
  <2> SUFFICES ASSUME Steady, NEW p \in Paths \ (created \cup modified), p \notin dirty \/ p \in clears
               PROVE  Fresh(ds, paths, p, fs[p])
    BY <1>1, <1>2, <1>4 DEF Captured
  <2>1. CASE p \in deleted
    BY <1>6, <2>1 DEF gone, Fresh
  <2>2. CASE p \notin deleted
    <3>1. LiveDocsOf(ds, paths, p) = LiveDocsOf(docs, paths, p)
      BY <1>6, <2>2 DEF gone, Listed
    <3>2. \A d \in LiveDocsOf(docs, paths, p) : ds[d].mtime = docs[d].mtime
      BY <1>5 DEF Outlived, LiveDocsOf, DocsOf
    <3>3. Fresh(docs, paths, p, fs[p])
      BY <2>2
    <3> QED BY <3>1, <3>2, <3>3, FreshSame
  <2> QED BY <2>1, <2>2
<1>10. Idle'
  BY <1>1, <1>2, <1>5 DEF Idle
<1>11. Remapped'
  BY <1>1 DEF Remapped
<1>12. CleanPlan'
  <2>1. ASSUME Steady, cuts = 0 PROVE Pure(ds, Loaded)
    BY <1>5, <2>1, OutlivedKeeps DEF DInv, Stored, CleanDisk
  <2> QED BY <1>1, <1>2, <1>4, <2>1 DEF CleanPlan
<1> QED BY <1>7, <1>8, <1>9, <1>10, <1>11, <1>12 DEF DInv, Preparing

LEMMA UpdateIndexDocs == ASSUME IInv, DInv, IInv', UpdateIndex PROVE DInv'
<1>0. op = "idle"
  BY DEF UpdateIndex
<1>1. CASE StartBuild
  BY <1>1, StartBuildDocs
<1>2. CASE Changed = {} /\ dirty' = {} /\ UNCHANGED <<tree, disk, op, pc, plan, torn, cuts>>
  <2>1. UNCHANGED <<fs, meta, docs, paths, segs, op, pc, torn, cuts>>
    BY <1>2 DEF tree, disk
  <2>2. Steady' => Steady
    BY <2>1 DEF Steady, Readable, CutShort
  <2>3. OnDisk'
    <3>1. ASSUME Steady PROVE Good(docs, paths) /\ Reached(docs, Loaded)
      BY <3>1 DEF DInv, Stored, OnDisk
    <3>2. ASSUME Steady, NEW p \in Paths PROVE Fresh(docs, paths, p, fs[p])
      BY <1>2, <3>1, <3>2, ScanFresh
    <3> QED BY <2>1, <2>2, <3>1, <3>2 DEF OnDisk, Loaded
  <2>4. CleanDisk'
    BY <2>1, <2>2 DEF DInv, Stored, CleanDisk, Loaded
  <2>5. Preparing'
    BY <1>0, <2>1, PreparingEnded
  <2> QED BY <2>3, <2>4, <2>5 DEF DInv, Stored
<1>3. CASE Readable /\ StartDelta(NewFiles, ModifiedFiles, DeletedFiles, "s",
                                  Paths \ (NewFiles \cup ModifiedFiles))
  <2>1. /\ NewFiles \in SUBSET Paths /\ ModifiedFiles \in SUBSET Paths /\ DeletedFiles \in SUBSET Paths
        /\ \A p \in NewFiles : Listed(p) = {}
        /\ \A p \in DeletedFiles : fs[p] = Absent
    BY DEF NewFiles, ModifiedFiles, DeletedFiles
  <2>2. ASSUME Steady, NEW p \in Paths \ (NewFiles \cup ModifiedFiles \cup DeletedFiles)
        PROVE  Fresh(docs, paths, p, fs[p])
    <3>1. Good(docs, paths)
      BY <2>2 DEF DInv, Stored, OnDisk
    <3>2. p \in Paths /\ p \notin Changed
      BY <2>2 DEF Changed
    <3> QED BY <3>1, <3>2, ScanFresh
  <2> QED BY <1>0, <1>3, <2>1, <2>2, StartDeltaDocs
<1> QED BY <1>1, <1>2, <1>3 DEF UpdateIndex

LEMMA DaemonFlushDocs ==
  ASSUME IInv, DInv, IInv', NEW batch \in SUBSET dirty, DaemonFlush(batch) PROVE DInv'
<1> DEFINE present == {p \in batch : fs[p] # Absent}
           known   == {p \in batch : Listed(p) # {}}
<1>0. op = "idle" /\ Readable /\ dirty \subseteq Paths
  BY DEF DaemonFlush, IInv, Typed
<1>1. CASE StartBuild
  BY <1>1, StartBuildDocs
<1>2. CASE StartDelta(present \ known, present \cap known, batch \ present, "ns", batch \ present)
  <2> DEFINE created == present \ known
             modified == present \cap known
             deleted == batch \ present
  <2>1. created \in SUBSET Paths /\ modified \in SUBSET Paths /\ deleted \in SUBSET Paths
    BY <1>0
  <2>2. \A p \in created : Listed(p) = {}
    OBVIOUS
  <2>3. \A p \in deleted : fs[p] = Absent
    OBVIOUS
  <2>4. ASSUME Steady, NEW p \in Paths \ (created \cup modified \cup deleted), p \notin dirty \/ p \in deleted
        PROVE  Fresh(docs, paths, p, fs[p])
    <3>1. p \notin dirty
      BY <2>4
    <3> QED BY <2>4, <3>1 DEF DInv, Stored, OnDisk
  <2>5. StartDelta(created, modified, deleted, "ns", deleted)
    BY <1>2
  <2> HIDE DEF created, modified, deleted
  <2> QED BY <1>0, <2>1, <2>2, <2>3, <2>4, <2>5, StartDeltaDocs
<1> QED BY <1>1, <1>2 DEF DaemonFlush

LEMMA DeltaReadDocs == ASSUME IInv, DInv, NEW p \in Paths, DeltaRead(p) PROVE DInv'
<1> DEFINE new == AddFile(plan, p, plan.seg)
           c   == new.clears \cup {p}
<1>1. /\ op = "delta" /\ pc = "read" /\ p \in plan.todo
      /\ UNCHANGED <<fs, meta, docs, paths, segs, op, pc, torn, cuts, dirty>>
      /\ plan \in Plan /\ plan.seg \in Nat /\ fs \in [Paths -> Nat]
  BY DEF DeltaRead, tree, disk, IInv, Typed, Plan
<1>2. new = AddFile(plan, p, plan.seg) /\ new \in Plan
  BY <1>1, AddFileTyped
<1>3. plan' = [new EXCEPT !.clears = c]
  BY DEF DeltaRead
<1> HIDE DEF new, c
<1>4. /\ plan'.docs = new.docs /\ plan'.paths = new.paths /\ plan'.new = new.new
      /\ plan'.changed = new.changed /\ plan'.todo = new.todo /\ plan'.clears = c
  BY <1>2, <1>3, ClearsOnly
<1>5. c = plan.clears \cup {p}
  BY <1>1, <1>2, AddFileFields DEF c
<1>6. Preparing'
  BY <1>1, <1>2, <1>4, <1>5, ReadTables
<1>7. Stored'
  <2>1. Steady' => Steady
    BY <1>1 DEF Steady, Readable, CutShort
  <2> QED BY <1>1, <2>1, StoredSame DEF DInv
<1> QED BY <1>6, <1>7 DEF DInv

LEMMA DeltaFinalizeDocs == ASSUME IInv, DInv, IInv', DeltaFinalize PROVE DInv'
<1>1. /\ op = "delta" /\ pc = "read" /\ plan.todo = {} /\ UNCHANGED <<fs, meta, docs, paths, segs, torn, cuts>>
  BY DEF DeltaFinalize, tree, disk
<1>2. CASE pc' = "segment" /\ UNCHANGED <<op, plan, dirty>>
  <2>1. Steady' => Steady
    BY <1>1, <1>2 DEF Steady, Readable, CutShort
  <2>2. Stored'
    BY <1>1, <1>2, <2>1, StoredSame DEF DInv
  <2>3. Preparing'
    <3>1. Loaded' = Loaded
      BY <1>1 DEF Loaded
    <3> QED BY <1>1, <1>2, <3>1, PreparingSame DEF DInv
  <2> QED BY <2>2, <2>3 DEF DInv
<1>3. CASE ~plan.changed /\ op' = "idle" /\ pc' = "idle" /\ dirty' = dirty \ plan.clears
  <2>1. (Steady' => Steady) /\ (Steady => Sound)
    BY <1>1, <1>3 DEF Steady, Readable, CutShort, Sound
  <2>2. plan.docs = docs /\ plan.paths = paths
    BY <1>1, <1>3 DEF DInv, Preparing, Idle
  <2>3. OnDisk'
    <3>1. ASSUME Steady, NEW p \in Paths \ dirty' PROVE Fresh(docs, paths, p, fs[p])
      BY <1>1, <1>3, <2>1, <2>2, <3>1 DEF DInv, Preparing, Captured
    <3> QED BY <1>1, <2>1, <3>1 DEF DInv, Stored, OnDisk, Loaded
  <2>4. CleanDisk'
    BY <1>1, <2>1 DEF DInv, Stored, CleanDisk, Loaded
  <2> QED BY <1>3, <2>3, <2>4, PreparingEnded DEF DInv, Stored
<1> QED BY <1>1, <1>2, <1>3 DEF DeltaFinalize

\* A compaction begins with nothing carried over.
LEMMA MergeBegins ==
  ASSUME op' = "merge", pc' = "remap", plan' = MergePlan, Len(docs') \in Nat
  PROVE  Preparing'
<1> DEFINE one == [s \in {1} |-> {}]
<1>1. /\ plan'.docs = <<>> /\ plan'.paths = <<>> /\ plan'.from = <<>> /\ plan'.next = 1 /\ plan'.new = one
  BY DEF MergePlan, NoPlan
<1>2. Posts(plan'.new) = {}
  BY <1>1 DEF Posts
<1>3. Captured'
  BY DEF Captured
<1>4. Mapped(plan'.from, paths', plan'.paths)
  BY <1>1, EmptySeq DEF Mapped
<1>5. Carried(docs', paths', 1, plan'.docs, plan'.paths)
  BY <1>1, EmptySeq DEF Carried
<1>6. Remapped'
  BY <1>1, <1>4, <1>5 DEF Remapped
<1> QED BY <1>1, <1>2, <1>3, <1>6, PreparingEmpty

LEMMA StartCompactDocs == ASSUME IInv, DInv, StartCompact PROVE DInv'
<1>1. /\ op = "idle" /\ op' = "merge" /\ pc' = "remap" /\ plan' = MergePlan
      /\ UNCHANGED <<fs, meta, docs, paths, segs, torn, cuts, dirty>>
      /\ docs \in Seq(Doc)
  BY DEF StartCompact, tree, disk, Readable, IInv, Typed
<1>2. Steady' => Steady
  BY <1>1 DEF Steady, Readable, CutShort
<1>3. Stored'
  BY <1>1, <1>2, StoredSame DEF DInv
<1>4. Len(docs') \in Nat
  BY <1>1, LenProperties
<1> QED BY <1>1, <1>3, <1>4, MergeBegins DEF DInv

LEMMA MergeFinalizeDocs == ASSUME IInv, SInv, DInv, MergeFinalize PROVE DInv'
<1>1. /\ op = "merge" /\ pc = "remap" /\ pc' = "segment" /\ plan.next > Len(docs)
      /\ UNCHANGED <<fs, meta, docs, paths, segs, op, plan, torn, cuts, dirty>>
      /\ docs \in Seq(Doc) /\ Len(docs) \in Nat /\ DOMAIN docs = 1..Len(docs) /\ plan.next \in Nat
      /\ Readable /\ plan.clears = {}
  BY LenProperties DEF MergeFinalize, tree, disk, Readable, IInv, Typed, Plan, Opens, SInv, ReadOnce
<1>2. (Steady' => Steady) /\ (~torn => Steady) /\ (Sound <=> ~torn) /\ (Sound' <=> Sound) /\ Leads' = Leads
  BY <1>1 DEF Steady, Readable, CutShort, Sound, Leads
<1>3. Stored'
  BY <1>1, <1>2, StoredSame DEF DInv
<1>4. Captured'
  <2> SUFFICES ASSUME Sound, NEW p \in Paths \ dirty PROVE Fresh(plan.docs, plan.paths, p, fs[p])
    BY <1>1, <1>2 DEF Captured
  <2>1. /\ Fresh(docs, paths, p, fs[p]) /\ Good(docs, paths) /\ Good(plan.docs, plan.paths)
        /\ Carried(docs, paths, plan.next, plan.docs, plan.paths)
        /\ plan.next <= Len(docs) + 1
    BY <1>1, <1>2 DEF DInv, Stored, OnDisk, Preparing, InPlan, Remapped
  <2>2. 1..(plan.next - 1) = DOMAIN docs
    <3>1. plan.next = Len(docs) + 1
      BY <1>1, <2>1
    <3> QED BY <1>1, <3>1
  <2>3. CASE fs[p] = Absent
    <3>1. ASSUME NEW e \in LiveDocsOf(plan.docs, plan.paths, p) PROVE FALSE
      <4>1. e \in DOMAIN plan.docs /\ plan.paths[plan.docs[e].path + 1] = p
        BY DEF LiveDocsOf, DocsOf
      <4>2. PICK d \in DOMAIN docs : Becomes(docs, paths, d, plan.docs, plan.paths, e)
        BY <2>1, <2>2, <4>1 DEF Carried
      <4>3. d \in LiveDocsOf(docs, paths, p)
        BY <2>1, <4>1, <4>2 DEF Becomes, Good, LiveDocsOf, DocsOf
      <4> QED BY <2>1, <2>3, <4>3 DEF Fresh
    <3> QED BY <2>3, <3>1 DEF Fresh
  <2>4. CASE fs[p] # Absent
    <3>1. PICK d \in LiveDocsOf(docs, paths, p) : docs[d].mtime.at = fs[p]
      BY <2>1, <2>4 DEF Fresh
    <3>2. d \in DOMAIN docs /\ docs[d].live /\ paths[docs[d].path + 1] = p
      BY DEF LiveDocsOf, DocsOf
    <3>3. PICK e \in DOMAIN plan.docs : Becomes(docs, paths, d, plan.docs, plan.paths, e)
      BY <2>1, <2>2, <3>2 DEF Carried
    <3>4. plan.docs[e].live /\ plan.docs[e].path < Len(plan.paths)
      BY <1>1, <2>1 DEF IInv, NoneDead, Good
    <3>5. e \in LiveDocsOf(plan.docs, plan.paths, p) /\ plan.docs[e].mtime.at = fs[p]
      BY <3>1, <3>2, <3>3, <3>4 DEF Becomes, LiveDocsOf, DocsOf
    <3> QED BY <2>4, <3>5 DEF Fresh
  <2> QED BY <2>3, <2>4
<1>5. InPlan' /\ CleanPlan'
  BY <1>1, <1>2 DEF DInv, Preparing, InPlan, CleanPlan
<1>6. Idle' /\ Remapped'
  BY <1>1 DEF Idle, Remapped
<1> QED BY <1>3, <1>4, <1>5, <1>6 DEF DInv, Preparing

LEMMA MergeCleanupDocs == ASSUME IInv, SInv, DInv, IInv', MergeCleanup PROVE DInv'
<1>1. /\ op = "merge" /\ pc = "cleanup" /\ op' = "idle"
      /\ segs' = [s \in DOMAIN segs \ plan.old |-> segs[s]]
      /\ UNCHANGED <<fs, meta, docs, paths, torn, cuts, dirty>>
  BY DEF MergeCleanup, tree
<1>2. SegmentsOf(meta) = {1} /\ 1 \notin plan.old
  BY <1>1 DEF SInv, Numbered
<1>3. Loaded' = Loaded
  <2>1. DOMAIN segs' = DOMAIN segs \ plan.old /\ \A s \in DOMAIN segs' : segs'[s] = segs[s]
    BY <1>1
  <2>2. SegmentsOf(meta)' = {1}
    BY <1>1, <1>2 DEF SegmentsOf
  <2>3. 1 \in DOMAIN segs' <=> 1 \in DOMAIN segs
    BY <1>2, <2>1
  <2> QED BY <1>2, <2>1, <2>2, <2>3 DEF Loaded
<1>4. Steady' => Steady
  BY <1>1 DEF Steady, Readable, CutShort
<1>5. OnDisk' /\ CleanDisk'
  BY <1>1, <1>3, <1>4 DEF DInv, Stored, OnDisk, CleanDisk
<1> QED BY <1>1, <1>5, PreparingEnded DEF DInv, Stored

\* The tables of a compaction with the path of one more document
FromWith(from, i) == IF \E k \in DOMAIN from : from[k] = i THEN from ELSE Append(from, i)

TableWith(from, i, ps, p) == IF \E k \in DOMAIN from : from[k] = i THEN ps ELSE Append(ps, p)

LEMMA MappedFrom ==
  ASSUME NEW from \in Seq(Nat), NEW ps \in Seq(Paths), NEW ps2 \in Seq(Paths), Mapped(from, ps, ps2),
         NEW i \in Nat, i < Len(ps), NEW p, p = ps[i + 1],
         NEW from2, from2 = FromWith(from, i), NEW ps3, ps3 = TableWith(from, i, ps2, p)
  PROVE  /\ Mapped(from2, ps, ps3) /\ ps3 \in Seq(Paths) /\ Longer(ps2, ps3)
         /\ PathId(from, i) \in Nat /\ PathId(from, i) < Len(ps3) /\ ps3[PathId(from, i) + 1] = p
<1>1. /\ DOMAIN from = 1..Len(from) /\ Len(from) \in Nat /\ DOMAIN ps2 = 1..Len(ps2)
      /\ Len(from) = Len(ps2)
  BY LenProperties DEF Mapped
<1>2. CASE \E k \in DOMAIN from : from[k] = i
  <2> DEFINE k == CHOOSE k \in DOMAIN from : from[k] = i
  <2>1. k \in DOMAIN from /\ from[k] = i
    BY <1>2
  <2>2. PathId(from, i) = k - 1
    BY <1>2 DEF PathId
  <2> HIDE DEF k
  <2>3. PathId(from, i) \in Nat /\ PathId(from, i) < Len(ps2) /\ PathId(from, i) + 1 = k
    BY <1>1, <2>1, <2>2
  <2>4. ps2[k] = p
    BY <2>1 DEF Mapped
  <2>5. from2 = from /\ ps3 = ps2
    BY <1>2 DEF FromWith, TableWith
  <2>6. Longer(ps2, ps2)
    BY <1>1 DEF Longer
  <2> QED BY <2>3, <2>4, <2>5, <2>6
<1>3. CASE ~\E k \in DOMAIN from : from[k] = i
  <2>1. PathId(from, i) = Len(ps2)
    BY <1>1, <1>3 DEF PathId
  <2>2. from2 = Append(from, i) /\ ps3 = Append(ps2, p)
    BY <1>3 DEF FromWith, TableWith
  <2>3. p \in Paths
    <3>1. i + 1 \in 1..Len(ps)
      BY LenProperties
    <3> QED BY <3>1, ElementOfSeq
  <2>4. /\ ps3 \in Seq(Paths) /\ Len(ps3) = Len(ps2) + 1 /\ ps3[Len(ps2) + 1] = p
        /\ \A k \in 1..Len(ps2) : ps3[k] = ps2[k]
    BY <2>2, <2>3, AppendProperties
  <2>5. /\ DOMAIN from2 = 1..(Len(from) + 1) /\ Len(from2) = Len(from) + 1 /\ from2[Len(from) + 1] = i
        /\ \A k \in 1..Len(from) : from2[k] = from[k]
    BY <2>2, AppendProperties
  <2>6. Longer(ps2, ps3)
    BY <1>1, <2>4 DEF Longer
  <2>7. ASSUME NEW k \in DOMAIN from2 PROVE from2[k] < Len(ps) /\ ps3[k] = ps[from2[k] + 1]
    <3>1. CASE k \in 1..Len(from)
      <4>1. from2[k] = from[k] /\ ps3[k] = ps2[k] /\ k \in DOMAIN from
        BY <1>1, <2>4, <2>5, <3>1
      <4> QED BY <4>1 DEF Mapped
    <3>2. CASE k = Len(from) + 1
      BY <1>1, <2>4, <2>5, <3>2
    <3>3. k \in 1..Len(from) \/ k = Len(from) + 1
      BY <1>1, <2>5
    <3> QED BY <3>1, <3>2, <3>3
  <2>8. Mapped(from2, ps, ps3)
    BY <1>1, <2>4, <2>5, <2>7 DEF Mapped
  <2>9. PathId(from, i) \in Nat /\ PathId(from, i) < Len(ps3) /\ ps3[PathId(from, i) + 1] = p
    BY <1>1, <2>1, <2>4
  <2> QED BY <2>4, <2>6, <2>8, <2>9
<1> QED BY <1>2, <1>3

\* A document more is carried over, or left behind dead.
LEMMA CarriedOver ==
  ASSUME NEW ds, NEW ps, NEW n \in Nat \ {0}, NEW ds2, NEW ps2, Carried(ds, ps, n, ds2, ps2),
         NEW ds3, NEW ps3, NEW id, DOMAIN ds3 = DOMAIN ds2 \cup {id},
         \A e \in DOMAIN ds2 : ds3[e] = ds2[e] /\ ps3[ds2[e].path + 1] = ps2[ds2[e].path + 1],
         Becomes(ds, ps, n, ds3, ps3, id)
  PROVE  Carried(ds, ps, n + 1, ds3, ps3)
<1>1. \A d : d \in 1..n <=> d \in 1..(n - 1) \/ d = n
  OBVIOUS
<1>2. \A d : \A e \in DOMAIN ds2 : Becomes(ds, ps, d, ds2, ps2, e) => Becomes(ds, ps, d, ds3, ps3, e)
  BY DEF Becomes
<1>3. ASSUME NEW d \in 1..n, ds[d].live PROVE \E e \in DOMAIN ds3 : Becomes(ds, ps, d, ds3, ps3, e)
  <2>1. CASE d = n
    BY <2>1
  <2>2. CASE d \in 1..(n - 1)
    BY <1>2, <1>3, <2>2 DEF Carried
  <2> QED BY <1>1, <2>1, <2>2
<1>4. ASSUME NEW e \in DOMAIN ds3 PROVE \E d \in 1..n : Becomes(ds, ps, d, ds3, ps3, e)
  <2>1. CASE e = id
    BY <1>1, <2>1
  <2>2. CASE e \in DOMAIN ds2
    <3>1. PICK d \in 1..(n - 1) : Becomes(ds, ps, d, ds2, ps2, e)
      BY <2>2 DEF Carried
    <3> QED BY <1>1, <1>2, <2>2, <3>1
  <2> QED BY <2>1, <2>2
<1>5. (n + 1) - 1 = n
  OBVIOUS
<1> QED BY <1>3, <1>4, <1>5 DEF Carried

LEMMA CarriedDead ==
  ASSUME NEW ds, NEW ps, NEW n \in Nat \ {0}, NEW ds2, NEW ps2, Carried(ds, ps, n, ds2, ps2), ~ds[n].live
  PROVE  Carried(ds, ps, n + 1, ds2, ps2)
<1>1. \A d : d \in 1..n <=> d \in 1..(n - 1) \/ d = n
  OBVIOUS
<1>2. (n + 1) - 1 = n
  OBVIOUS
<1> QED BY <1>1, <1>2 DEF Carried

LEMMA MergeDocDocs == ASSUME IInv, SInv, DInv, MergeDoc PROVE DInv'
<1> DEFINE d     == docs[plan.next]
           known == \E i \in DOMAIN plan.from : plan.from[i] = d.path
           keep  == d.live /\ (known \/ d.path < Len(paths))
           n     == Len(plan.docs) + 1
           doc   == [d EXCEPT !.path = PathId(plan.from, d.path)]
           x     == {<<n, z[2]>> : z \in {y \in Loaded : y[1] = plan.next}}
           from2 == IF known THEN plan.from ELSE Append(plan.from, d.path)
           ps2   == IF known THEN plan.paths ELSE Append(plan.paths, paths[d.path + 1])
           ds2   == Append(plan.docs, doc)
<1>1. /\ op = "merge" /\ pc = "remap" /\ plan.next <= Len(docs)
      /\ UNCHANGED <<fs, meta, docs, paths, segs, op, pc, torn, cuts, dirty>>
  BY DEF MergeDoc, tree, disk
<1>2. /\ docs \in Seq(Doc) /\ paths \in Seq(Paths) /\ Readable
      /\ plan.next \in Nat \ {0} /\ plan.docs \in Seq(Doc) /\ plan.paths \in Seq(Paths)
      /\ plan.from \in Seq(Nat)
  BY <1>1 DEF IInv, Typed, Plan, Opens, Readable
<1>3. /\ plan.next \in DOMAIN docs /\ Len(docs) \in Nat /\ d \in Doc
  BY <1>1, <1>2, LenProperties, ElementOfSeq
<1>4. /\ plan'.todo = plan.todo /\ plan'.next = plan.next + 1
      /\ ~keep => /\ plan'.from = plan.from /\ plan'.paths = plan.paths
                  /\ plan'.docs = plan.docs /\ plan'.new = plan.new
      /\ keep  => /\ plan'.from = from2 /\ plan'.paths = ps2 /\ plan'.docs = ds2
                  /\ plan'.new = AddPostings(plan.new, 1, x)
  BY MergeDocFields
<1>5. (Steady' => Steady) /\ (~torn <=> Steady) /\ (Sound <=> ~torn) /\ (Sound' <=> ~torn)
  BY <1>1, <1>2 DEF Steady, Readable, CutShort, Sound
<1>6. Leads = Posts(plan.new) /\ Leads' = Posts(plan'.new)
  BY <1>1 DEF Leads
<1>7. Stored'
  BY <1>1, <1>5, StoredSame DEF DInv
<1>8. Captured' /\ Idle'
  BY <1>1 DEF Captured, Idle
<1> HIDE DEF keep, ps2, from2, ds2, x
<1>9. CASE torn
  <2>1. InPlan' /\ CleanPlan' /\ Remapped'
    BY <1>1, <1>5, <1>9 DEF InPlan, CleanPlan, Remapped
  <2> QED BY <1>7, <1>8, <2>1 DEF DInv, Preparing
<1>10. CASE ~torn
  <2>1. /\ Good(docs, paths) /\ Reached(docs, Loaded) /\ (cuts = 0 => Pure(docs, Loaded))
        /\ Good(plan.docs, plan.paths) /\ Reached(plan.docs, Leads)
        /\ (cuts = 0 => Pure(plan.docs, Leads))
        /\ \A p \in plan.todo : LiveDocsOf(plan.docs, plan.paths, p) = {}
        /\ Mapped(plan.from, paths, plan.paths)
        /\ Carried(docs, paths, plan.next, plan.docs, plan.paths)
    BY <1>1, <1>5, <1>10 DEF DInv, Stored, OnDisk, CleanDisk, Preparing, InPlan, CleanPlan, Remapped
  <2>2. d.path \in Nat /\ d.path < Len(paths)
    BY <1>3, <2>1 DEF Good, Doc
  <2>3. plan.next + 1 <= Len(docs) + 1
    BY <1>1, <1>2, <1>3
  <2>4. CASE ~keep
    <3>1. ~d.live
      BY <2>2, <2>4 DEF keep
    <3>2. Carried(docs, paths, plan.next + 1, plan.docs, plan.paths)
      BY <1>2, <2>1, <3>1, CarriedDead
    <3>3. Remapped'
      BY <1>1, <1>4, <2>1, <2>3, <2>4, <3>2 DEF Remapped
    <3>4. InPlan' /\ CleanPlan'
      BY <1>1, <1>4, <1>6, <2>1, <2>4 DEF InPlan, CleanPlan
    <3> QED BY <1>7, <1>8, <3>3, <3>4 DEF DInv, Preparing
  <2>5. CASE keep
    <3> DEFINE p == paths[d.path + 1]
    <3>1. p \in Paths
      <4>1. d.path + 1 \in 1..Len(paths)
        BY <1>2, <2>2, LenProperties
      <4> QED BY <1>2, <4>1, ElementOfSeq
    <3>2. /\ doc \in Doc /\ doc.live /\ doc.path = PathId(plan.from, d.path) /\ doc.mtime = d.mtime
      <4>1. PathId(plan.from, d.path) \in Nat
        BY <1>2, PathIdTyped
      <4> QED BY <1>3, <2>5, <4>1 DEF Doc, keep
    <3>3. /\ Mapped(from2, paths, ps2) /\ ps2 \in Seq(Paths) /\ Longer(plan.paths, ps2)
          /\ PathId(plan.from, d.path) < Len(ps2) /\ ps2[PathId(plan.from, d.path) + 1] = p
      <4> DEFINE i == d.path
      <4>1. /\ i \in Nat /\ i < Len(paths) /\ p = paths[i + 1]
            /\ from2 = FromWith(plan.from, i) /\ ps2 = TableWith(plan.from, i, plan.paths, p)
        BY <2>2 DEF from2, ps2, FromWith, TableWith
      <4> HIDE DEF i, p
      <4>2. /\ Mapped(from2, paths, ps2) /\ ps2 \in Seq(Paths) /\ Longer(plan.paths, ps2)
            /\ PathId(plan.from, i) < Len(ps2) /\ ps2[PathId(plan.from, i) + 1] = p
        BY <1>2, <2>1, <4>1, MappedFrom
      <4> QED BY <4>2 DEF i
    <3>4. LiveDocsOf(plan.docs, plan.paths, p) = {}
      <4> SUFFICES ASSUME NEW e \in LiveDocsOf(plan.docs, plan.paths, p) PROVE FALSE
        OBVIOUS
      <4>1. e \in DOMAIN plan.docs /\ plan.paths[plan.docs[e].path + 1] = p
        BY DEF LiveDocsOf, DocsOf
      <4>2. PICK b \in 1..(plan.next - 1) : Becomes(docs, paths, b, plan.docs, plan.paths, e)
        BY <2>1, <4>1 DEF Carried
      <4>3. b \in DOMAIN docs /\ b # plan.next
        BY <1>1, <1>2, <1>3, LenProperties
      <4>4. b \in LiveDocsOf(docs, paths, p)
        BY <2>1, <4>1, <4>2, <4>3 DEF Becomes, Good, LiveDocsOf, DocsOf
      <4>5. plan.next \in LiveDocsOf(docs, paths, p)
        BY <1>3, <2>2, <2>5 DEF keep, LiveDocsOf, DocsOf
      <4> QED BY <2>1, <3>1, <4>3, <4>4, <4>5 DEF Good
    <3>5. ds2 = Append(plan.docs, doc)
      BY DEF ds2
    <3> HIDE DEF doc, n, p, d
    <3>6. Good(ds2, ps2) /\ Added(plan.docs, plan.paths, p, doc, ds2, ps2, n)
      BY <1>2, <2>1, <3>1, <3>2, <3>3, <3>4, <3>5, TableAppend DEF n
    <3>7. DOMAIN ds2 = DOMAIN plan.docs \cup {n} /\ ds2[n] = doc /\ \A e \in DOMAIN plan.docs : ds2[e] = plan.docs[e]
      BY <3>6 DEF Added
    <3>8. Leads' = Leads \cup x
      BY <1>4, <1>6, <2>5, PostsAdd
    <3>9. \A z \in x : \E y \in Loaded : y[1] = plan.next /\ z = Post(n, y[2])
      BY DEF x, Post
    <3>10. Post(n, d.mtime.at) \in x
      <4>1. Post(plan.next, d.mtime.at) \in Loaded
        BY <1>3, <2>1, <2>5 DEF Reached, keep, d
      <4>2. Post(plan.next, d.mtime.at)[1] = plan.next /\ Post(plan.next, d.mtime.at)[2] = d.mtime.at
        BY DEF Post
      <4>3. <<n, Post(plan.next, d.mtime.at)[2]>> \in x
        BY <4>1, <4>2 DEF x
      <4> QED BY <4>2, <4>3 DEF Post
    <3>11. Reached(ds2, Leads')
      BY <2>1, <3>2, <3>7, <3>8, <3>10 DEF Reached
    <3>12. ASSUME cuts = 0 PROVE Pure(ds2, Leads')
      <4>1. ASSUME NEW z \in x PROVE z[1] = n /\ z[2] = doc.mtime.at
        <5>1. PICK y \in Loaded : y[1] = plan.next /\ z = Post(n, y[2])
          BY <3>9
        <5>2. y[2] = d.mtime.at
          BY <2>1, <3>12, <5>1 DEF Pure, d
        <5> QED BY <3>2, <5>1, <5>2 DEF Post
      <4> QED BY <2>1, <3>7, <3>8, <3>12, <4>1 DEF Pure
    <3>13. InPlan'
      <4>1. ASSUME NEW q \in plan.todo PROVE LiveDocsOf(ds2, ps2, q) = {}
        <5>1. plan.todo = {}
          BY <1>1 DEF SInv, ReadOnce
        <5> QED BY <4>1, <5>1
      <4> QED BY <1>4, <2>5, <3>6, <3>11, <4>1 DEF InPlan
    <3>14. CleanPlan'
      BY <1>1, <1>4, <2>5, <3>12 DEF CleanPlan
    <3>15. Carried(docs, paths, plan.next + 1, ds2, ps2)
      <4>1. ASSUME NEW e \in DOMAIN plan.docs
            PROVE  ds2[e] = plan.docs[e] /\ ps2[plan.docs[e].path + 1] = plan.paths[plan.docs[e].path + 1]
        <5>1. plan.docs[e].path \in Nat /\ plan.docs[e].path < Len(plan.paths) /\ Len(plan.paths) \in Nat
          <6>1. plan.docs[e] \in Doc /\ Len(plan.paths) \in Nat
            BY <1>2, LenProperties, ElementOfSeq
          <6>2. plan.docs[e].path < Len(plan.paths)
            BY <2>1 DEF Good
          <6> QED BY <6>1, <6>2 DEF Doc
        <5>2. plan.docs[e].path + 1 \in 1..Len(plan.paths)
          BY <5>1
        <5> QED BY <3>3, <3>7, <5>2 DEF Longer
      <4>2. Becomes(docs, paths, plan.next, ds2, ps2, n)
        BY <2>5, <3>2, <3>3, <3>7 DEF Becomes, keep, d, p
      <4>3. DOMAIN ds2 = DOMAIN plan.docs \cup {n} /\ plan.next \in Nat \ {0}
            /\ Carried(docs, paths, plan.next, plan.docs, plan.paths)
        BY <1>2, <2>1, <3>7
      <4> QED BY <4>1, <4>2, <4>3, CarriedOver
    <3>16. Remapped'
      BY <1>1, <1>4, <2>3, <2>5, <3>3, <3>15 DEF Remapped
    <3> QED BY <1>7, <1>8, <3>13, <3>14, <3>16 DEF DInv, Preparing
  <2> QED BY <2>4, <2>5
<1> QED BY <1>9, <1>10

LEMMA WriteSegmentsDocs == ASSUME IInv, SInv, DInv, IInv', WriteSegments PROVE DInv'
<1>1. /\ pc = "segment" /\ pc' = "docs" /\ op \in {"build", "delta", "merge"}
      /\ UNCHANGED <<fs, meta, docs, paths, op, plan, torn, cuts, dirty>>
  BY DEF WriteSegments, tree, IInv, Typed, Control
<1>2. /\ DOMAIN segs' = DOMAIN segs \cup DOMAIN plan.new
      /\ \A s \in DOMAIN segs : s \notin DOMAIN plan.new => segs'[s] = segs[s]
  BY DEF WriteSegments
<1>3. ASSUME op = "delta" PROVE Loaded' = Loaded
  <2>1. \A s \in SegmentsOf(meta) : s \notin DOMAIN plan.new
    BY <1>1, <1>3 DEF SInv, Numbered
  <2>2. SegmentsOf(meta)' = SegmentsOf(meta)
    BY <1>1 DEF SegmentsOf
  <2>3. /\ \A s \in SegmentsOf(meta) : s \in DOMAIN segs' <=> s \in DOMAIN segs
        /\ \A s \in SegmentsOf(meta) \cap DOMAIN segs : segs'[s] = segs[s]
    BY <1>2, <2>1
  <2> QED BY <2>2, <2>3 DEF Loaded
<1>4. Preparing'
  BY <1>1, <1>3, PreparingSame DEF DInv
<1>5. CASE op = "build"
  BY <1>1, <1>4, <1>5, BuildStored DEF DInv
<1>6. CASE op = "delta"
  <2>1. Steady' => Steady
    BY <1>1, <1>6 DEF Steady, Readable, CutShort
  <2>2. OnDisk' /\ CleanDisk'
    BY <1>1, <1>3, <1>6, <2>1 DEF DInv, Stored, OnDisk, CleanDisk
  <2> QED BY <1>4, <2>2 DEF DInv, Stored
<1>7. CASE op = "merge"
  <2>1. ~Steady'
    BY <1>1, <1>7 DEF Steady, CutShort
  <2> QED BY <1>4, <2>1, StoredUnsteady DEF DInv
<1> QED BY <1>1, <1>5, <1>6, <1>7

LEMMA WriteTableDocs == ASSUME IInv, DInv, IInv', WriteDocs \/ WritePaths PROVE DInv'
<1>1. /\ pc \in {"docs", "paths"} /\ pc' \in {"paths", "meta"} /\ op \in {"build", "delta", "merge"}
      /\ UNCHANGED <<fs, meta, segs, op, plan, torn, cuts, dirty>>
  BY DEF WriteDocs, WritePaths, tree, IInv, Typed, Control
<1>2. Loaded' = Loaded
  BY <1>1 DEF Loaded
<1>3. Preparing'
  BY <1>1, <1>2, PreparingSame DEF DInv
<1>4. CASE op = "build"
  BY <1>1, <1>3, <1>4, BuildStored DEF DInv
<1>5. CASE op \in {"delta", "merge"}
  <2>1. ~Steady'
    BY <1>1, <1>5 DEF Steady, CutShort
  <2> QED BY <1>3, <2>1, StoredUnsteady DEF DInv
<1> QED BY <1>1, <1>4, <1>5

\* meta.json makes what was prepared what is on disk.
LEMMA WriteMetaDocs == ASSUME IInv, SInv, DInv, IInv', WriteMeta PROVE DInv'
<1>0. /\ pc = "meta" /\ op \in {"build", "delta", "merge"} /\ docs = plan.docs /\ paths = plan.paths
      /\ docs \in Seq(Doc)
      /\ UNCHANGED <<fs, docs, paths, segs, cuts>> /\ torn' = (torn /\ op # "build")
      /\ dirty' = IF op = "merge" THEN dirty ELSE dirty \ plan.clears
      /\ plan.todo = {} /\ (op = "merge" => plan.clears = {})
  BY AllButMeta DEF WriteMeta, tree, SInv, ReadOnce
<1>1. \/ op' = "idle" /\ pc' = "idle"
      \/ op' = "merge" /\ pc' = "remap" /\ plan' = MergePlan
      \/ /\ op' = "merge" /\ pc' = "cleanup"
         /\ plan' = [NoPlan EXCEPT !.old = SegmentsOf(meta) \ {1}]
  BY <1>0 DEF WriteMeta
<1>2. Preparing'
  <2>1. CASE op' = "idle"
    BY <2>1, PreparingEnded
  <2>2. CASE op' = "merge" /\ pc' = "remap" /\ plan' = MergePlan
    <3>1. Len(docs') \in Nat
      BY <1>0, LenProperties
    <3> QED BY <2>2, <3>1, MergeBegins
  <2>3. CASE op' = "merge" /\ pc' = "cleanup" /\ plan' = [NoPlan EXCEPT !.old = SegmentsOf(meta) \ {1}]
    <3>1. plan'.docs = <<>> /\ plan'.new = [s \in {} |-> {}]
      BY <2>3 DEF NoPlan
    <3>2. Posts(plan'.new) = {}
      BY <3>1 DEF Posts
    <3>3. Captured' /\ Remapped'
      BY <2>3 DEF Captured, Remapped
    <3> QED BY <2>3, <3>1, <3>2, <3>3, PreparingEmpty
  <2> QED BY <1>1, <2>1, <2>2, <2>3
<1>3. Steady' => Sound
  BY <1>0 DEF Steady, Sound
<1> DEFINE ids == SegmentsOf(meta')
<1>4. /\ op = "delta" => ids = SegmentsOf(meta) \cup {plan.seg} /\ DOMAIN plan.new \subseteq {plan.seg}
      /\ op # "delta" => ids = DOMAIN plan.new
  BY <1>0, Enlisted DEF SInv, Numbered
<1>5. \A s \in DOMAIN plan.new : s \in DOMAIN segs /\ segs[s] = plan.new[s]
  BY <1>0 DEF SInv, Written
<1>6. Loaded' = UNION {segs[s] : s \in ids \cap DOMAIN segs}
  BY <1>0 DEF Loaded
<1> HIDE DEF ids
<1>7. Leads \subseteq Loaded'
  <2>1. Posts(plan.new) \subseteq Loaded'
    <3>1. \A s \in DOMAIN plan.new : s \in ids \cap DOMAIN segs /\ segs[s] = plan.new[s]
      BY <1>4, <1>5
    <3> QED BY <1>6, <3>1 DEF Posts
  <2>2. ASSUME op = "delta" PROVE Loaded \subseteq Loaded'
    <3>1. SegmentsOf(meta) \subseteq ids
      BY <1>4, <2>2
    <3> QED BY <1>6, <3>1 DEF Loaded
  <2> QED BY <2>1, <2>2 DEF Leads
<1>8. OnDisk'
  <2> SUFFICES ASSUME Steady'
               PROVE  /\ Good(docs, paths) /\ Reached(docs, Loaded')
                      /\ \A p \in Paths \ dirty' : Fresh(docs, paths, p, fs[p])
    BY <1>0 DEF OnDisk
  <2>1. Good(docs, paths) /\ Reached(docs, Leads)
    BY <1>0, <1>3 DEF DInv, Preparing, InPlan
  <2>2. Reached(docs, Loaded')
    BY <1>7, <2>1 DEF Reached
  <2>3. \A p \in Paths \ dirty' : Fresh(docs, paths, p, fs[p])
    BY <1>0, <1>3 DEF DInv, Preparing, Captured
  <2> QED BY <2>1, <2>2, <2>3
<1>9. CleanDisk'
  <2> SUFFICES ASSUME Steady', cuts = 0 PROVE Pure(docs, Loaded')
    BY <1>0 DEF CleanDisk
  <2>1. Pure(docs, Leads)
    BY <1>0, <1>3 DEF DInv, Preparing, CleanPlan
  <2>2. Loaded' \subseteq Leads
    <3> SUFFICES ASSUME NEW s \in ids \cap DOMAIN segs PROVE segs[s] \subseteq Leads
      BY <1>6
    <3>1. CASE s \in DOMAIN plan.new
      BY <1>5, <3>1 DEF Leads, Posts
    <3>2. CASE s \notin DOMAIN plan.new
      <4>1. op = "delta" /\ meta # NoFile
        BY <1>0, <1>4, <3>2 DEF IInv, Opens, Readable
      <4>2. DOMAIN segs \subseteq SegmentsOf(meta) \cup DOMAIN plan.new
        BY <1>0, <4>1 DEF SInv, Listing, Unlisted
      <4>3. s \in SegmentsOf(meta) \cap DOMAIN segs
        BY <3>2, <4>2
      <4> QED BY <4>1, <4>3 DEF Leads, Loaded
    <3> QED BY <3>1, <3>2
  <2> QED BY <2>1, <2>2 DEF Pure
<1> QED BY <1>2, <1>8, <1>9 DEF DInv, Stored

LEMMA InterruptDocs == ASSUME IInv, DInv, IInv', Interrupt PROVE DInv'
<1>1. /\ op' = "idle" /\ pc' = "idle" /\ cuts' = cuts + 1 /\ cuts \in Nat /\ torn' = (torn \/ CutShort)
      /\ UNCHANGED <<fs, meta, docs, paths, segs, dirty>>
  BY DEF Interrupt, EndWriter, tree, disk, IInv, Typed
<1>2. Steady' => Steady
  BY <1>1 DEF Steady, Readable
<1>3. OnDisk'
  BY <1>1, <1>2 DEF DInv, Stored, OnDisk, Loaded
<1>4. CleanDisk'
  <2>1. cuts' # 0
    BY <1>1
  <2> QED BY <2>1 DEF CleanDisk
<1> QED BY <1>1, <1>3, <1>4, PreparingEnded DEF DInv, Stored

LEMMA InitDInv == Init => DInv
<1> SUFFICES ASSUME Init PROVE DInv
  OBVIOUS
<1>1. op = "idle" /\ pc = "idle" /\ meta = NoFile
  BY DEF Init
<1>2. ~Steady /\ ~Sound
  BY <1>1 DEF Steady, Readable, Sound
<1>3. Stored
  BY <1>2 DEF Stored, OnDisk, CleanDisk
<1>4. Preparing
  BY <1>1, <1>2 DEF Preparing, InPlan, Captured, Idle, Remapped, CleanPlan
<1> QED BY <1>3, <1>4 DEF DInv

LEMMA StutterDocs == ASSUME DInv, UNCHANGED vars PROVE DInv'
<1>1. UNCHANGED <<fs, meta, docs, paths, segs, op, pc, plan, torn, cuts, dirty>>
  BY DEF vars
<1>2. (Steady' <=> Steady) /\ (Sound' <=> Sound) /\ Loaded' = Loaded /\ Leads' = Leads
  BY <1>1 DEF Steady, Readable, CutShort, Sound, Loaded, Leads
<1>3. Stored'
  BY <1>1, <1>2 DEF DInv, Stored, OnDisk, CleanDisk
<1>4. InPlan' /\ Captured' /\ CleanPlan'
  BY <1>1, <1>2 DEF DInv, Preparing, InPlan, Captured, CleanPlan
<1>5. Idle' /\ Remapped'
  BY <1>1 DEF DInv, Preparing, Idle, Remapped
<1> QED BY <1>3, <1>4, <1>5 DEF DInv, Preparing

LEMMA NextDInv == IInv /\ SInv /\ DInv /\ IInv' /\ [Next]_vars => DInv'
<1> SUFFICES ASSUME IInv, SInv, DInv, IInv', [Next]_vars PROVE DInv'
  OBVIOUS
<1>1. CASE \E p \in Paths : Edit(p)
  BY <1>1, EditDocs
<1>2. CASE ForceBuild
  BY <1>2, StartBuildDocs DEF ForceBuild
<1>3. CASE BuildRemove \/ BuildWalk \/ BuildFinalize
  BY <1>3, BuildRemoveDocs, BuildWalkDocs, BuildFinalizeDocs
<1>4. CASE \E p \in Paths : BuildRead(p)
  BY <1>4, BuildReadDocs
<1>5. CASE UpdateIndex
  BY <1>5, UpdateIndexDocs
<1>6. CASE \E batch \in SUBSET dirty \ {{}} : DaemonFlush(batch)
  <2>1. PICK batch \in SUBSET dirty : DaemonFlush(batch)
    BY <1>6
  <2> QED BY <2>1, DaemonFlushDocs
<1>7. CASE \E p \in Paths : DeltaRead(p)
  BY <1>7, DeltaReadDocs
<1>8. CASE DeltaFinalize
  BY <1>8, DeltaFinalizeDocs
<1>9. CASE StartCompact \/ MergeDoc \/ MergeFinalize \/ MergeCleanup
  BY <1>9, StartCompactDocs, MergeDocDocs, MergeFinalizeDocs, MergeCleanupDocs
<1>10. CASE WriteSegments \/ WriteDocs \/ WritePaths \/ WriteMeta
  BY <1>10, WriteSegmentsDocs, WriteTableDocs, WriteMetaDocs
<1>11. CASE Interrupt
  BY <1>11, InterruptDocs
<1>12. CASE UNCHANGED vars
  BY <1>12, StutterDocs
<1> QED BY <1>1, <1>2, <1>3, <1>4, <1>5, <1>6, <1>7, <1>8, <1>9, <1>10, <1>11, <1>12 DEF Next

---------------------------------------------------------------------------
(* What a search finds *)

LEMMA RecallInvariance == Spec => [](SInv /\ DInv)
<1>1. Init => SInv /\ DInv
  BY InitSInv, InitDInv
<1>2. IInv /\ IInv' /\ (SInv /\ DInv) /\ [Next]_vars => (SInv /\ DInv)'
  BY NextSInv, NextDInv
<1> QED BY <1>1, <1>2, Invariance, PTL DEF Spec

\* At rest, and untorn, the files on disk are what the invariant says.
LEMMA RestSteady == (AtRest /\ ~torn) => Steady
BY DEF AtRest, Steady, CutShort

\* However the writers, the tree and the interruptions interleave, no path is
\* answered twice (mark_tombstone, add_document, build_doc_id_remapping).
THEOREM PathsOnce == Spec => []OneDocPerPath
<1>1. DInv => OneDocPerPath
  <2> SUFFICES ASSUME DInv, AtRest, ~torn, NEW p \in Paths PROVE Cardinality(Listed(p)) <= 1
    BY DEF OneDocPerPath
  <2>1. Good(docs, paths)
    BY RestSteady DEF DInv, Stored, OnDisk
  <2>2. \A d, e \in Listed(p) : d = e
    BY <2>1 DEF Good, Listed
  <2>3. CASE Listed(p) = {}
    <3>1. Cardinality(Listed(p)) = 0
      BY <2>3, FS_EmptySet
    <3> QED BY <3>1
  <2>4. CASE Listed(p) # {}
    <3>1. PICK d \in Listed(p) : Listed(p) = {d}
      BY <2>2, <2>4
    <3>2. Cardinality(Listed(p)) = 1
      BY <3>1, FS_Singleton
    <3> QED BY <3>2
  <2> QED BY <2>3, <2>4
<1> QED BY <1>1, RecallInvariance, PTL

\* Every live document has a path, and a listed segment on disk leads to it
\* (next_segment_id, write_segment, merge_segments).
THEOREM DocsSearchable == Spec => []LiveDocsSearchable
<1>1. DInv => LiveDocsSearchable
  <2> SUFFICES ASSUME DInv, AtRest, ~torn, NEW d \in DOMAIN docs, docs[d].live
               PROVE  docs[d].path < Len(paths) /\ \E x \in Loaded : x[1] = d
    BY DEF LiveDocsSearchable
  <2>1. Good(docs, paths) /\ Reached(docs, Loaded)
    BY RestSteady DEF DInv, Stored, OnDisk
  <2>2. Post(d, docs[d].mtime.at) \in Loaded /\ docs[d].path < Len(paths)
    BY <2>1 DEF Good, Reached
  <2>3. Post(d, docs[d].mtime.at)[1] = d
    BY DEF Post
  <2> QED BY <2>2, <2>3
<1> QED BY <1>1, RecallInvariance, PTL

\* What is listed for an up-to-date path is found under its present content.
LEMMA FoundFresh ==
  ASSUME Reached(docs, Loaded), NEW p, NEW c, c # Absent, Fresh(docs, paths, p, c)
  PROVE  c \in Found(p)
<1>1. PICK d \in LiveDocsOf(docs, paths, p) : docs[d].mtime.at = c
  BY DEF Fresh
<1>2. d \in DOMAIN docs /\ docs[d].live
  BY DEF LiveDocsOf, DocsOf
<1>3. Post(d, c) \in Loaded
  BY <1>1, <1>2 DEF Reached
<1>4. Post(d, c)[1] = d /\ Post(d, c)[2] = c
  BY DEF Post
<1> QED BY <1>1, <1>3, <1>4 DEF Found

\* A file nobody edited since an update captured it is found with the content
\* it has, and one that is gone is not: whatever ran or was cut short since,
\* but between the replacements of docs.bin and meta.json (update_index,
\* apply_incremental_update, build_index, merge_segments).
THEOREM FreshFound == Spec => []Recall
<1>1. DInv => Recall
  <2> SUFFICES ASSUME DInv, AtRest, ~torn, NEW p \in Paths \ dirty
               PROVE  IF fs[p] = Absent THEN Listed(p) = {} ELSE fs[p] \in Found(p)
    BY DEF Recall
  <2>1. Fresh(docs, paths, p, fs[p]) /\ Reached(docs, Loaded)
    BY RestSteady DEF DInv, Stored, OnDisk
  <2>2. CASE fs[p] = Absent
    BY <2>1, <2>2 DEF Fresh, Listed
  <2>3. CASE fs[p] # Absent
    BY <2>1, <2>3, FoundFresh
  <2> QED BY <2>2, <2>3
<1> QED BY <1>1, RecallInvariance, PTL

\* While no writer has been interrupted it is found under one document, with
\* that content and no other.
THEOREM OnlyFreshFound == Spec => []Exact
<1>1. SInv /\ DInv => Exact
  <2> SUFFICES ASSUME SInv, DInv, AtRest, cuts = 0, NEW p \in Paths \ dirty
               PROVE  IF fs[p] = Absent THEN Listed(p) = {}
                      ELSE Cardinality(Listed(p)) = 1 /\ Found(p) = {fs[p]}
    BY DEF Exact
  <2>1. Steady
    BY RestSteady DEF SInv, Listing
  <2>2. /\ Fresh(docs, paths, p, fs[p]) /\ Reached(docs, Loaded) /\ Good(docs, paths)
        /\ Pure(docs, Loaded)
    BY <2>1 DEF DInv, Stored, OnDisk, CleanDisk
  <2>3. CASE fs[p] = Absent
    BY <2>2, <2>3 DEF Fresh, Listed
  <2>4. CASE fs[p] # Absent
    <3>1. PICK d \in Listed(p) : docs[d].mtime.at = fs[p]
      BY <2>2, <2>4 DEF Fresh, Listed
    <3>2. Listed(p) = {d}
      BY <2>2 DEF Good, Listed
    <3>3. Cardinality(Listed(p)) = 1
      BY <3>2, FS_Singleton
    <3>4. fs[p] \in Found(p)
      BY <2>2, <2>4, FoundFresh
    <3>5. ASSUME NEW c \in Found(p) PROVE c = fs[p]
      <4>1. PICK y \in Loaded : y[1] \in Listed(p) /\ c = y[2]
        BY DEF Found, Listed
      <4>2. y[2] = docs[y[1]].mtime.at
        BY <2>2 DEF Pure
      <4> QED BY <3>1, <3>2, <4>1, <4>2
    <3>6. Found(p) = {fs[p]}
      BY <3>4, <3>5
    <3> QED BY <2>4, <3>3, <3>6
  <2> QED BY <2>3, <2>4
<1> QED BY <1>1, RecallInvariance, PTL
---------------------------------------------------------------------------
(***************************************************************************)
(* The readers of StoreReaders: every step of theirs leaves the index as   *)
(* it is, or ends a writer as an interrupt does, so IInv and SInv hold     *)
(* beside them.  What a reader has in hand is compared with what was found *)
(* when it began through the tables it would end up with if nothing more   *)
(* were written: those it has read, and those on disk for the others.      *)
(***************************************************************************)

\* Postings a delta prepares are of documents it adds, and its table of paths
\* goes on where the one on disk ends
NewOnes ==
    op = "delta" =>
        /\ Longer(paths, plan.paths)
        /\ \A y \in Posts(plan.new) :
              /\ y[1] \in DOMAIN plan.docs
              /\ plan.docs[y[1]].live /\ plan.docs[y[1]].path < Len(plan.paths)
              /\ pc \in {"read", "segment", "docs"} => y[1] \notin DOMAIN docs

Views == [meta : Meta \cup {NoFile}, docs : Seq(Doc) \cup {NoFile},
          paths : Seq(Paths) \cup {NoFile}, todo : SUBSET Nat, loaded : SUBSET Postings]

\* What the reader will have of docs.bin, paths.bin and the segments
DocsAhead  == IF view.docs = NoFile THEN docs ELSE view.docs
PathsAhead == IF view.paths = NoFile THEN paths ELSE view.paths
Reach == IF rpc = "meta" THEN Loaded
         ELSE view.loaded \cup UNION {segs[s] : s \in view.todo \cap DOMAIN segs}

\* The contents by which postings x lead to path p
Through(x, ds, ps, p) == {y[2] : y \in {z \in x : z[1] \in LiveDocsOf(ds, ps, p)}}

\* Every posting is of a document that is there and has a path
Rooted(x, ds, ps) == \A y \in x : y[1] \in DOMAIN ds /\ ds[y[1]].path < Len(ps)

\* Which states of a reader are followed
Opening  == rpc \in {"meta", "tables"} /\ ~moved
Followed == rpc \in {"meta", "tables", "opened"} /\ ~moved /\ ~stray

ViewOK ==
    /\ rpc \in {"closed", "meta", "tables", "opened", "failed"}
    /\ view \in Views
    /\ rpc \in {"closed", "meta"} => view = NoView
    /\ rpc = "opened" => view.docs # NoFile /\ view.paths # NoFile /\ view.todo = {}

\* Nothing is missing while the documents keep their numbers
Openable == (Opening => Readable) /\ (rpc = "failed" => moved)

\* What it has read are earlier versions of the tables, and the segments it
\* still has to read are still listed
Behind ==
    Followed => /\ Readable
                /\ rpc # "meta" => view.todo \subseteq SegmentsOf(meta)
                /\ Grows(DocsAhead, docs) /\ Longer(PathsAhead, paths)
                /\ Rooted(Reach, DocsAhead, PathsAhead)

Faithful ==
    Followed => \A p \in Paths :
        LET found == Through(Reach, DocsAhead, PathsAhead, p)
        IN  found \subseteq may[p] /\ (p \notin hit => found = may[p])

\* Once a delta has replaced docs.bin, what it adds is allowed for
Allowed ==
    (Followed /\ op = "delta" /\ pc \in {"paths", "meta"}) =>
        \A p \in Paths : Coming(p) \subseteq may[p] /\ (Coming(p) # {} => p \in hit)

RInv == NewOnes /\ ViewOK /\ Openable /\ Behind /\ Faithful /\ Allowed

---------------------------------------------------------------------------
(* Lemmas about tables and postings *)

LEMMA PostsOf == ASSUME NEW new, NEW y PROVE y \in Posts(new) <=> \E s \in DOMAIN new : y \in new[s]
BY DEF Posts

LEMMA ThroughDef ==
  ASSUME NEW x, NEW ds, NEW ps, NEW p, NEW c
  PROVE  c \in Through(x, ds, ps, p) <=>
            \E y \in x : y[2] = c /\ y[1] \in LiveDocsOf(ds, ps, p)
BY DEF Through

LEMMA ComingDef ==
  ASSUME NEW p, NEW c
  PROVE  c \in Coming(p) <=>
            /\ op = "delta" /\ pc # "read"
            /\ \E y \in Posts(plan.new) : y[2] = c /\ plan.paths[plan.docs[y[1]].path + 1] = p
BY DEF Coming, Posts

\* A document of an older table is in the newer one, with the same path, and
\* is dead there if it was.
LEMMA Older ==
  ASSUME NEW ds \in Seq(Doc), NEW ds2 \in Seq(Doc), Grows(ds, ds2), NEW d \in DOMAIN ds
  PROVE  /\ d \in DOMAIN ds2 /\ ds2[d].path = ds[d].path /\ ds[d].path \in Nat
         /\ ds2[d].live => ds[d].live
<1>1. /\ DOMAIN ds = 1..Len(ds) /\ DOMAIN ds2 = 1..Len(ds2)
      /\ Len(ds) \in Nat /\ Len(ds2) \in Nat /\ ds[d] \in Doc
  BY LenProperties, ElementOfSeq
<1>2. d \in DOMAIN ds2
  BY <1>1 DEF Grows
<1> QED BY <1>1, <1>2 DEF Grows, Doc

LEMMA GrowsTrans ==
  ASSUME NEW a \in Seq(Doc), NEW b \in Seq(Doc), NEW c \in Seq(Doc), Grows(a, b), Grows(b, c)
  PROVE  Grows(a, c)
<1>1. Len(a) <= Len(c)
  BY LenProperties DEF Grows
<1>2. ASSUME NEW d \in DOMAIN a
      PROVE  /\ c[d].path = a[d].path /\ c[d].mtime = a[d].mtime /\ (c[d].live => a[d].live)
  <2>1. d \in DOMAIN b
    BY Older
  <2> QED BY <2>1 DEF Grows
<1> QED BY <1>1, <1>2 DEF Grows

LEMMA GrowsSame == ASSUME NEW a \in Seq(Doc) PROVE Grows(a, a)
BY LenProperties DEF Grows

LEMMA LongerTrans ==
  ASSUME NEW a \in Seq(Paths), NEW b \in Seq(Paths), NEW c \in Seq(Paths), Longer(a, b), Longer(b, c)
  PROVE  Longer(a, c)
BY LenProperties DEF Longer

LEMMA LongerSame == ASSUME NEW a \in Seq(Paths) PROVE Longer(a, a)
BY LenProperties DEF Longer

\* The path of a document is the same in a longer table.
LEMMA LongerPath ==
  ASSUME NEW ps \in Seq(Paths), NEW ps2 \in Seq(Paths), Longer(ps, ps2), NEW i \in Nat, i < Len(ps)
  PROVE  i < Len(ps2) /\ ps2[i + 1] = ps[i + 1]
<1>1. Len(ps) \in Nat /\ Len(ps2) \in Nat
  BY LenProperties
<1> QED BY <1>1 DEF Longer

LEMMA RootedLater ==
  ASSUME NEW x, NEW ds \in Seq(Doc), NEW ds2 \in Seq(Doc), NEW ps \in Seq(Paths), NEW ps2 \in Seq(Paths),
         Grows(ds, ds2), Longer(ps, ps2), Rooted(x, ds, ps)
  PROVE  Rooted(x, ds2, ps2)
<1> SUFFICES ASSUME NEW y \in x PROVE y[1] \in DOMAIN ds2 /\ ds2[y[1]].path < Len(ps2)
  BY DEF Rooted
<1>1. y[1] \in DOMAIN ds /\ ds[y[1]].path < Len(ps)
  BY DEF Rooted
<1>2. y[1] \in DOMAIN ds2 /\ ds2[y[1]].path = ds[y[1]].path /\ ds[y[1]].path \in Nat
  BY <1>1, Older
<1> QED BY <1>1, <1>2, LongerPath

\* Through a newer table of documents postings lead to no more ...
LEMMA ThroughNewer ==
  ASSUME NEW x, NEW ds \in Seq(Doc), NEW ds2 \in Seq(Doc), NEW ps, NEW p,
         Grows(ds, ds2), Rooted(x, ds, ps)
  PROVE  Through(x, ds2, ps, p) \subseteq Through(x, ds, ps, p)
<1> SUFFICES ASSUME NEW y \in x, y[1] \in LiveDocsOf(ds2, ps, p)
             PROVE  y[1] \in LiveDocsOf(ds, ps, p)
  BY ThroughDef
<1>1. y[1] \in DOMAIN ds
  BY DEF Rooted
<1>2. ds2[y[1]].path = ds[y[1]].path /\ (ds2[y[1]].live => ds[y[1]].live)
  BY <1>1, Older
<1>3. ds2[y[1]].path < Len(ps) /\ ps[ds2[y[1]].path + 1] = p /\ ds2[y[1]].live
  BY LiveDoc
<1> QED BY <1>1, <1>2, <1>3, LiveDoc

\* ... and to as much, if the documents of the path are those they were
LEMMA ThroughUnchanged ==
  ASSUME NEW x, NEW ds \in Seq(Doc), NEW ds2 \in Seq(Doc),
         NEW ps \in Seq(Paths), NEW old \in Seq(Paths), NEW new,
         NEW p, Grows(ds, ds2), Rooted(x, ds, ps), Longer(ps, old),
         LiveDocsOf(ds, old, p) = LiveDocsOf(ds2, new, p)
  PROVE  Through(x, ds2, ps, p) = Through(x, ds, ps, p)
<1>1. ASSUME NEW y \in x, y[1] \in LiveDocsOf(ds, ps, p) PROVE y[1] \in LiveDocsOf(ds2, ps, p)
  <2>1. /\ y[1] \in DOMAIN ds /\ ds[y[1]].path < Len(ps) /\ ps[ds[y[1]].path + 1] = p
        /\ ds[y[1]].live
    BY <1>1, LiveDoc
  <2>2. y[1] \in DOMAIN ds2 /\ ds2[y[1]].path = ds[y[1]].path /\ ds[y[1]].path \in Nat
    BY <2>1, Older
  <2>3. ds[y[1]].path < Len(old) /\ old[ds[y[1]].path + 1] = p
    BY <2>1, <2>2, LongerPath
  <2>4. y[1] \in LiveDocsOf(ds2, new, p)
    BY <2>1, <2>3, LiveDoc
  <2> QED BY <2>1, <2>2, <2>4, LiveDoc
<1>2. Through(x, ds, ps, p) \subseteq Through(x, ds2, ps, p)
  BY <1>1, ThroughDef
<1> QED BY <1>2, ThroughNewer

\* A longer table of paths leads where the shorter one did.
LEMMA ThroughLonger ==
  ASSUME NEW x, NEW ds \in Seq(Doc), NEW ps \in Seq(Paths), NEW ps2 \in Seq(Paths), NEW p,
         Longer(ps, ps2), Rooted(x, ds, ps)
  PROVE  Through(x, ds, ps2, p) = Through(x, ds, ps, p)
<1>1. ASSUME NEW y \in x
      PROVE  y[1] \in LiveDocsOf(ds, ps2, p) <=> y[1] \in LiveDocsOf(ds, ps, p)
  <2>1. y[1] \in DOMAIN ds /\ ds[y[1]].path < Len(ps)
    BY DEF Rooted
  <2>2. ds[y[1]].path \in Nat
    BY <2>1, GrowsSame, Older
  <2>3. ds[y[1]].path < Len(ps2) /\ ps2[ds[y[1]].path + 1] = ps[ds[y[1]].path + 1]
    BY <2>1, <2>2, LongerPath
  <2> QED BY <2>1, <2>3, LiveDoc
<1>2. \A c : c \in Through(x, ds, ps2, p) <=> c \in Through(x, ds, ps, p)
  BY <1>1, ThroughDef
<1> QED BY <1>2

---------------------------------------------------------------------------
(* A delta's new documents *)

LEMMA NewOnesSame ==
  ASSUME NewOnes, op = "delta", UNCHANGED <<docs, paths>>,
         plan'.new = plan.new, plan'.docs = plan.docs, plan'.paths = plan.paths,
         pc' \in {"read", "segment", "docs"} => pc \in {"read", "segment", "docs"}
  PROVE  NewOnes'
BY DEF NewOnes

LEMMA StartDeltaNew ==
  ASSUME IInv, Readable, NEW created, NEW modified, NEW deleted, NEW unit, NEW clears,
         StartDelta(created, modified, deleted, unit, clears)
  PROVE  NewOnes'
<1>1. plan'.paths = paths /\ plan'.new = NoPlan.new /\ paths' = paths
  BY DEF StartDelta, NoPlan, disk
<1>2. \A y : y \notin Posts(plan'.new)
  BY <1>1 DEF NoPlan, Posts
<1>3. Longer(paths', plan'.paths)
  BY <1>1, LongerSame DEF IInv, Typed, Readable
<1> QED BY <1>2, <1>3 DEF NewOnes

LEMMA DeltaReadNew == ASSUME IInv, NewOnes, NEW p \in Paths, DeltaRead(p) PROVE NewOnes'
<1> DEFINE seg == plan.seg
           added == AddFile(plan, p, seg)
           c == added.clears \cup {p}
<1>1. /\ op = "delta" /\ pc = "read" /\ op' = "delta" /\ pc' = "read"
      /\ UNCHANGED <<docs, paths>>
      /\ plan \in Plan /\ fs \in [Paths -> Nat] /\ seg \in Nat
  BY DEF DeltaRead, disk, IInv, Typed, Plan
<1>2. plan' = [added EXCEPT !.clears = c]
  BY DEF DeltaRead
<1>3. added \in Plan
  BY <1>1, AddFileTyped
<1> HIDE DEF seg
<1>4. /\ fs[p] = Absent => /\ added.docs = plan.docs /\ added.paths = plan.paths
                           /\ added.new = plan.new
      /\ fs[p] # Absent => /\ added.paths = PathsWith(plan.paths, p)
                           /\ added.docs = Append(plan.docs, DocOf(plan, p))
                           /\ added.new = AddPostings(plan.new, seg, PostingOf(plan, p))
  BY <1>1, AddFileFields
<1> HIDE DEF added, c
<1>5. plan'.docs = added.docs /\ plan'.paths = added.paths /\ plan'.new = added.new
  BY <1>2, <1>3, ClearsOnly
<1>6. CASE fs[p] = Absent
  BY <1>1, <1>4, <1>5, <1>6, NewOnesSame
<1>7. CASE fs[p] # Absent
  <2> DEFINE ds  == plan.docs
             ds2 == Append(ds, DocOf(plan, p))
             ps  == plan.paths
             ps2 == PathsWith(ps, p)
             n   == Len(ds) + 1
  <2>1. plan'.docs = ds2 /\ plan'.paths = ps2 /\ Posts(plan'.new) = Posts(plan.new) \cup {<<n, fs[p]>>}
    BY <1>4, <1>5, <1>7, PostsAdd DEF PostingOf
  <2>2. docs \in Seq(Doc) /\ ds \in Seq(Doc) /\ ps \in Seq(Paths) /\ paths \in Seq(Paths)
    BY <1>1 DEF IInv, Typed, Opens, Readable, Plan
  <2>3. /\ ps2 \in Seq(Paths) /\ Longer(ps, ps2)
        /\ PathId(ps, p) \in Nat /\ PathId(ps, p) < Len(ps2)
    BY <2>2, PathsWithPath DEF Longer
  <2>4. Longer(paths, ps2)
    BY <1>1, <2>2, <2>3, LongerTrans DEF NewOnes
  <2>5. /\ DOMAIN ds = 1..Len(ds) /\ DOMAIN ds2 = 1..n /\ Len(ds) \in Nat
        /\ ds2[n] = DocOf(plan, p) /\ \A d \in 1..Len(ds) : ds2[d] = ds[d]
        /\ DOMAIN docs = 1..Len(docs) /\ Len(docs) \in Nat
    BY <2>2, LenProperties, AppendProperties
  <2>6. Len(docs) <= Len(ds)
    BY <1>1 DEF IInv, Extends, Grows
  <2>7. n \in DOMAIN ds2 /\ n \notin DOMAIN docs /\ ds2[n].live /\ ds2[n].path < Len(ps2)
    BY <2>3, <2>5, <2>6 DEF DocOf
  <2>8. ASSUME NEW y \in Posts(plan.new)
        PROVE  /\ y[1] \in DOMAIN ds2 /\ ds2[y[1]].live /\ ds2[y[1]].path < Len(ps2)
               /\ y[1] \notin DOMAIN docs
    <3>1. y[1] \in DOMAIN ds /\ ds[y[1]].live /\ ds[y[1]].path < Len(ps) /\ y[1] \notin DOMAIN docs
      BY <1>1 DEF NewOnes
    <3>2. ds2[y[1]] = ds[y[1]] /\ y[1] \in DOMAIN ds2
      BY <2>5, <3>1
    <3>3. ds[y[1]].path \in Nat
      BY <2>2, <3>1, GrowsSame, Older
    <3> QED BY <2>2, <2>3, <3>1, <3>2, <3>3, LongerPath
  <2> HIDE DEF ds, ds2, ps, ps2, n
  <2>9. ASSUME NEW y \in Posts(plan'.new)
        PROVE  /\ y[1] \in DOMAIN ds2 /\ ds2[y[1]].live /\ ds2[y[1]].path < Len(ps2)
               /\ y[1] \notin DOMAIN docs
    <3>1. y \in Posts(plan.new) \/ y[1] = n
      BY <2>1
    <3> QED BY <2>7, <2>8, <3>1
  <2> QED BY <1>1, <2>1, <2>4, <2>9 DEF NewOnes
<1> QED BY <1>6, <1>7

LEMMA NextNewOnes == IInv /\ NewOnes /\ [Next]_vars => NewOnes'
<1> SUFFICES ASSUME IInv, NewOnes, [Next]_vars PROVE NewOnes'
  OBVIOUS
<1>1. ASSUME NEW p \in Paths, Edit(p) PROVE NewOnes'
  <2>1. UNCHANGED <<op, pc, docs, paths>> /\ plan \in Plan /\ dirty \in SUBSET Paths
    BY <1>1 DEF Edit, disk, IInv, Typed
  <2>2. plan'.docs = plan.docs /\ plan'.paths = plan.paths /\ plan'.new = plan.new
    BY <1>1, <2>1 DEF Edit, Plan
  <2> QED BY <2>1, <2>2, NewOnesSame DEF NewOnes
<1>2. CASE op' # "delta"
  BY <1>2 DEF NewOnes
<1>3. CASE ForceBuild \/ BuildRemove \/ BuildWalk \/ BuildFinalize
  BY <1>3, <1>2 DEF ForceBuild, StartBuild, BuildRemove, BuildWalk, BuildFinalize
<1>4. ASSUME NEW p \in Paths, BuildRead(p) PROVE NewOnes'
  BY <1>4, <1>2 DEF BuildRead
<1>5. CASE UpdateIndex
  <2>1. op = "idle"
    BY <1>5 DEF UpdateIndex
  <2>2. CASE /\ Readable
             /\ StartDelta(NewFiles, ModifiedFiles, DeletedFiles, "s",
                           Paths \ (NewFiles \cup ModifiedFiles))
    BY <2>2, StartDeltaNew
  <2> QED BY <1>2, <1>5, <2>1, <2>2 DEF UpdateIndex, StartBuild
<1>6. ASSUME NEW batch, DaemonFlush(batch) PROVE NewOnes'
  <2> DEFINE present == {p \in batch : fs[p] # Absent}
             known   == {p \in batch : Listed(p) # {}}
  <2>1. CASE /\ Readable
             /\ StartDelta(present \ known, present \cap known, batch \ present, "ns", batch \ present)
    <3> HIDE DEF present, known
    <3> QED BY <2>1, StartDeltaNew
  <2> QED BY <1>2, <1>6, <2>1 DEF DaemonFlush, StartBuild
<1>7. ASSUME NEW p \in Paths, DeltaRead(p) PROVE NewOnes'
  BY <1>7, DeltaReadNew
<1>8. CASE DeltaFinalize
  <2>1. op' = "delta" => op = "delta" /\ pc = "read" /\ pc' = "segment" /\ UNCHANGED <<plan, docs, paths>>
    BY <1>8 DEF DeltaFinalize, disk
  <2> QED BY <1>2, <2>1, NewOnesSame
<1>9. CASE StartCompact \/ MergeDoc \/ MergeFinalize \/ MergeCleanup
  BY <1>9, <1>2 DEF StartCompact, MergeDoc, MergeFinalize, MergeCleanup
<1>10. CASE WriteSegments
  <2>1. UNCHANGED <<op, plan, docs, paths>> /\ pc = "segment"
    BY <1>10 DEF WriteSegments
  <2> QED BY <1>2, <2>1, NewOnesSame
<1>11. CASE WriteDocs
  <2>1. UNCHANGED <<op, plan, paths>> /\ pc' = "paths"
    BY <1>11 DEF WriteDocs
  <2> QED BY <2>1 DEF NewOnes
<1>12. CASE WritePaths
  <2>1. UNCHANGED <<op, plan, docs>> /\ pc' = "meta" /\ paths' = plan.paths
    BY <1>12 DEF WritePaths
  <2>2. Longer(plan.paths, plan.paths)
    BY LongerSame DEF IInv, Typed, Plan
  <2> QED BY <2>1, <2>2 DEF NewOnes
<1>13. CASE WriteMeta \/ Interrupt
  BY <1>13, <1>2 DEF WriteMeta, Interrupt, EndWriter, IInv, Typed, Control
<1>14. CASE UNCHANGED vars
  BY <1>14, NewOnesSame DEF vars, NewOnes
<1> QED
  BY <1>1, <1>3, <1>4, <1>5, <1>6, <1>7, <1>8, <1>9, <1>10, <1>11, <1>12, <1>13, <1>14
  DEF Next

---------------------------------------------------------------------------
(* What a step of the writer does to the index a reader is opening *)

\* No listed file is touched, and a delta that has replaced docs.bin prepares
\* what it did
Unmoved ==
    /\ UNCHANGED <<meta, docs, paths>>
    /\ \A s \in SegmentsOf(meta) : /\ s \in DOMAIN segs' <=> s \in DOMAIN segs
                                   /\ s \in DOMAIN segs => segs'[s] = segs[s]
    /\ (op' = "delta" /\ pc' \in {"paths", "meta"}) =>
          /\ op = "delta" /\ pc \in {"paths", "meta"}
          /\ plan'.new = plan.new /\ plan'.docs = plan.docs /\ plan'.paths = plan.paths

LEMMA UnmovedDisk ==
  ASSUME UNCHANGED disk, op' = "delta" => pc' \notin {"paths", "meta"}
  PROVE  Unmoved
BY DEF Unmoved, disk

\* Unless documents are numbered anew, the index changes where a delta
\* replaces docs.bin, paths.bin or meta.json.
LEMMA WriterKinds ==
  ASSUME IInv, SInv, Readable, [Next]_vars, ~Renumbers, ~Renumbers'
  PROVE  Unmoved \/ (op = "delta" /\ (WriteDocs \/ WritePaths \/ WriteMeta))
<1>1. ASSUME NEW p \in Paths, Edit(p) PROVE Unmoved
  <2>1. UNCHANGED <<op, pc, dir, meta, docs, paths, segs>> /\ plan \in Plan
    BY <1>1 DEF Edit, disk, IInv, Typed
  <2>2. plan'.docs = plan.docs /\ plan'.paths = plan.paths /\ plan'.new = plan.new
    BY <1>1, <2>1 DEF Edit, Plan
  <2> QED BY <2>1, <2>2 DEF Unmoved
<1>2. op # "build" /\ op' # "build"
  BY DEF Renumbers
<1>3. CASE ForceBuild \/ BuildRemove \/ BuildWalk \/ BuildFinalize \/ \E p \in Paths : BuildRead(p)
  BY <1>2, <1>3 DEF ForceBuild, StartBuild, BuildRemove, BuildWalk, BuildRead, BuildFinalize
<1>4. CASE UpdateIndex
  <2>1. UNCHANGED disk /\ (op' = "delta" => pc' = "read")
    BY <1>2, <1>4 DEF UpdateIndex, StartBuild, StartDelta
  <2> QED BY <2>1, UnmovedDisk
<1>5. ASSUME NEW batch, DaemonFlush(batch) PROVE Unmoved
  <2>1. UNCHANGED disk /\ (op' = "delta" => pc' = "read")
    BY <1>2, <1>5 DEF DaemonFlush, StartBuild, StartDelta
  <2> QED BY <2>1, UnmovedDisk
<1>6. ASSUME NEW p \in Paths, DeltaRead(p) PROVE Unmoved
  <2>1. UNCHANGED disk /\ pc' = "read"
    BY <1>6 DEF DeltaRead
  <2> QED BY <2>1, UnmovedDisk
<1>7. CASE DeltaFinalize
  <2>1. UNCHANGED disk /\ (op' = "delta" => pc' = "segment")
    BY <1>7 DEF DeltaFinalize
  <2> QED BY <2>1, UnmovedDisk
<1>8. CASE StartCompact \/ MergeDoc
  <2>1. UNCHANGED disk /\ op' = "merge"
    BY <1>8 DEF StartCompact, MergeDoc
  <2> QED BY <2>1, UnmovedDisk
<1>9. CASE MergeFinalize \/ MergeCleanup
  BY <1>9 DEF MergeFinalize, MergeCleanup, Renumbers
<1>10. op \in {"idle", "delta"} \/ (op = "merge" /\ pc = "remap")
  BY DEF IInv, Typed, Control, Renumbers
<1>11. CASE WriteSegments
  <2>1. op = "delta" /\ pc' = "docs" /\ UNCHANGED <<meta, docs, paths>>
    BY <1>10, <1>11 DEF WriteSegments, IInv, Typed, Control
  <2>2. /\ DOMAIN segs' = DOMAIN segs \cup DOMAIN plan.new
        /\ \A s \in DOMAIN segs \ DOMAIN plan.new : segs'[s] = segs[s]
    BY <1>11 DEF WriteSegments
  <2>3. DOMAIN plan.new \subseteq {plan.seg} /\ plan.seg \notin SegmentsOf(meta)
    BY <2>1 DEF SInv, Numbered
  <2> QED BY <2>1, <2>2, <2>3 DEF Unmoved
<1>12. CASE WriteDocs \/ WritePaths \/ WriteMeta
  BY <1>10, <1>12 DEF WriteDocs, WritePaths, WriteMeta, IInv, Typed, Control
<1>13. CASE Interrupt
  <2>1. UNCHANGED disk /\ op' = "idle"
    BY <1>13 DEF Interrupt, EndWriter
  <2> QED BY <2>1, UnmovedDisk
<1>14. CASE UNCHANGED vars
  BY <1>14 DEF vars, Unmoved
<1> QED
  BY <1>1, <1>3, <1>4, <1>5, <1>6, <1>7, <1>8, <1>9, <1>11, <1>12, <1>13, <1>14 DEF Next

\* A delta brings nothing for a path it does not change.
LEMMA NothingComing ==
  ASSUME NewOnes, Committing, NEW p \in Paths, p \notin Changing
  PROVE  Coming(p) = {}
<1> SUFFICES ASSUME NEW c \in Coming(p) PROVE FALSE
  OBVIOUS
<1>1. PICK y \in Posts(plan.new) : plan.paths[plan.docs[y[1]].path + 1] = p
  BY ComingDef
<1>2. y[1] \in LiveDocsOf(plan.docs, plan.paths, p) /\ y[1] \notin LiveDocsOf(docs, paths, p)
  BY <1>1, LiveDoc DEF NewOnes, Committing
<1> QED BY <1>2 DEF Changing

\* The history only grows, and does not for a path that no delta changes.
LEMMA Observed ==
  ASSUME NewOnes, Observe, NEW p \in Paths
  PROVE  hit \subseteq hit' /\ may[p] \subseteq may'[p] /\ (p \notin hit' => may'[p] = may[p])
<1>1. CASE rpc \in {"meta", "tables"} /\ Committing /\ docs' = plan.docs
  <2>1. hit' = hit \cup Changing /\ may' = [q \in Paths |-> may[q] \cup Coming(q)]
    BY <1>1 DEF Observe
  <2>2. p \notin Changing => Coming(p) = {}
    BY <1>1, NothingComing
  <2> QED BY <2>1, <2>2
<1>2. CASE ~(rpc \in {"meta", "tables"} /\ Committing /\ docs' = plan.docs)
  <2>1. UNCHANGED <<hit, may>>
    BY <1>2 DEF Observe
  <2> QED BY <2>1
<1> QED BY <1>1, <1>2

\* A reader that is followed while it opens the index
Watched ==
    /\ IInv /\ SInv /\ NewOnes /\ ViewOK /\ Behind /\ Faithful /\ Allowed
    /\ Opening /\ ~stray /\ Readable

LEMMA InHand ==
  ASSUME IInv, ViewOK, Readable
  PROVE  /\ meta \in Meta /\ docs \in Seq(Doc) /\ paths \in Seq(Paths)
         /\ DocsAhead \in Seq(Doc) /\ PathsAhead \in Seq(Paths)
         /\ view.todo \in SUBSET Nat
<1>1. meta \in Meta /\ docs \in Seq(Doc) /\ paths \in Seq(Paths)
  BY DEF IInv, Typed, Readable
<1>2. /\ view.docs \in Seq(Doc) \cup {NoFile} /\ view.paths \in Seq(Paths) \cup {NoFile}
      /\ view.todo \in SUBSET Nat
  BY DEF ViewOK, Views
<1> QED BY <1>1, <1>2 DEF DocsAhead, PathsAhead

LEMMA WatchedFacts ==
  ASSUME Watched
  PROVE  /\ rpc # "meta" => view.todo \subseteq SegmentsOf(meta)
         /\ rpc = "meta" => view = NoView
         /\ Grows(DocsAhead, docs) /\ Longer(PathsAhead, paths)
         /\ Rooted(Reach, DocsAhead, PathsAhead)
         /\ \A p \in Paths :
               /\ Through(Reach, DocsAhead, PathsAhead, p) \subseteq may[p]
               /\ p \notin hit => Through(Reach, DocsAhead, PathsAhead, p) = may[p]
BY DEF Watched, Opening, Followed, Behind, Faithful, ViewOK

\* While meta.json stands and so do its segments, so does what is in reach.
LEMMA ReachKept ==
  ASSUME Watched, UNCHANGED <<viewVars, meta>>,
         \A s \in SegmentsOf(meta) : /\ s \in DOMAIN segs' <=> s \in DOMAIN segs
                                     /\ s \in DOMAIN segs => segs'[s] = segs[s]
  PROVE  Reach' = Reach
<1>1. UNCHANGED <<rpc, view, meta>>
  BY DEF viewVars
<1>2. ASSUME NEW S, S \subseteq SegmentsOf(meta)
      PROVE  UNION {segs'[s] : s \in S \cap DOMAIN segs'} = UNION {segs[s] : s \in S \cap DOMAIN segs}
  <2>1. S \cap DOMAIN segs' = S \cap DOMAIN segs /\ \A s \in S \cap DOMAIN segs : segs'[s] = segs[s]
    BY <1>2
  <2> QED BY <2>1
<1>3. SegmentsOf(meta)' = SegmentsOf(meta)
  BY <1>1 DEF SegmentsOf
<1>4. Loaded' = Loaded
  BY <1>2, <1>3 DEF Loaded
<1>5. rpc # "meta" => UNION {segs'[s] : s \in view.todo \cap DOMAIN segs'}
                        = UNION {segs[s] : s \in view.todo \cap DOMAIN segs}
  BY <1>2, WatchedFacts
<1> QED BY <1>1, <1>4, <1>5 DEF Reach

LEMMA UnmovedKeeps ==
  ASSUME Watched, Unmoved, Observe, UNCHANGED viewVars, Readable'
  PROVE  Behind' /\ Faithful' /\ Allowed'
<1>1. UNCHANGED <<rpc, view, meta, docs, paths>>
  BY DEF viewVars, Unmoved
<1>2. Reach' = Reach
  BY ReachKept DEF Unmoved
<1>3. DocsAhead' = DocsAhead /\ PathsAhead' = PathsAhead
  BY <1>1 DEF DocsAhead, PathsAhead
<1>4. Behind'
  BY <1>1, <1>2, <1>3, WatchedFacts DEF Behind
<1>5. Faithful'
  <2> SUFFICES ASSUME NEW p \in Paths
               PROVE  LET found == Through(Reach, DocsAhead, PathsAhead, p)
                      IN  found \subseteq may'[p] /\ (p \notin hit' => found = may'[p])
    BY <1>2, <1>3 DEF Faithful
  <2> QED BY WatchedFacts, Observed DEF Watched
<1>6. ASSUME op' = "delta", pc' \in {"paths", "meta"}, NEW p \in Paths
      PROVE  Coming(p)' \subseteq may'[p] /\ (Coming(p)' # {} => p \in hit')
  <2>1. /\ op = "delta" /\ pc \in {"paths", "meta"}
        /\ plan'.new = plan.new /\ plan'.docs = plan.docs /\ plan'.paths = plan.paths
    BY <1>6 DEF Unmoved
  <2>2. Coming(p)' = Coming(p)
    BY <1>6, <2>1 DEF Coming
  <2>3. Coming(p) \subseteq may[p] /\ (Coming(p) # {} => p \in hit)
    BY <2>1 DEF Watched, Opening, Allowed, Followed
  <2> QED BY <2>2, <2>3, Observed DEF Watched
<1>7. Allowed'
  BY <1>6 DEF Allowed
<1> QED BY <1>4, <1>5, <1>7

LEMMA WriteDocsKeeps ==
  ASSUME Watched, op = "delta", WriteDocs, Observe, UNCHANGED viewVars, Readable'
  PROVE  Behind' /\ Faithful' /\ Allowed'
<1>1. /\ UNCHANGED <<rpc, view, meta, paths, segs, plan, op>>
      /\ docs' = plan.docs /\ pc = "docs" /\ pc' = "paths" /\ Committing
  BY DEF viewVars, WriteDocs, Committing
<1>2. Reach' = Reach
  BY <1>1, ReachKept
<1>3. PathsAhead' = PathsAhead /\ DocsAhead' = IF view.docs = NoFile THEN plan.docs ELSE DocsAhead
  BY <1>1 DEF DocsAhead, PathsAhead
<1>4. /\ docs \in Seq(Doc) /\ paths \in Seq(Paths) /\ plan.docs \in Seq(Doc)
      /\ DocsAhead \in Seq(Doc) /\ PathsAhead \in Seq(Paths)
  BY InHand DEF Watched, IInv, Typed, Plan
<1>5. Grows(docs, plan.docs)
  BY <1>1 DEF Watched, IInv, Extends
<1>6. /\ Grows(DocsAhead, docs) /\ Longer(PathsAhead, paths)
      /\ Rooted(Reach, DocsAhead, PathsAhead)
  BY WatchedFacts
<1>7. /\ DocsAhead' \in Seq(Doc) /\ Grows(DocsAhead, DocsAhead') /\ Grows(DocsAhead', plan.docs)
  <2>1. CASE view.docs = NoFile
    <3>1. DocsAhead = docs /\ DocsAhead' = plan.docs
      BY <1>3, <2>1 DEF DocsAhead
    <3> QED BY <1>4, <1>5, <3>1, GrowsSame
  <2>2. CASE view.docs # NoFile
    <3>1. DocsAhead' = DocsAhead
      BY <1>3, <2>2
    <3>2. Grows(DocsAhead, plan.docs)
      BY <1>4, <1>5, <1>6, GrowsTrans
    <3> QED BY <1>4, <3>1, <3>2, GrowsSame
  <2> QED BY <2>1, <2>2
<1>8. Behind'
  <2>1. Rooted(Reach, DocsAhead', PathsAhead)
    BY <1>4, <1>6, <1>7, LongerSame, RootedLater
  <2> QED BY <1>1, <1>2, <1>3, <1>6, <1>7, <2>1, WatchedFacts DEF Behind
<1>9. Faithful'
  <2> SUFFICES ASSUME NEW p \in Paths
               PROVE  LET found == Through(Reach, DocsAhead', PathsAhead, p)
                      IN  found \subseteq may'[p] /\ (p \notin hit' => found = may'[p])
    BY <1>2, <1>3 DEF Faithful
  <2> DEFINE before == Through(Reach, DocsAhead, PathsAhead, p)
             after  == Through(Reach, DocsAhead', PathsAhead, p)
  <2>1. before \subseteq may[p] /\ (p \notin hit => before = may[p])
    BY WatchedFacts
  <2>2. after \subseteq before
    BY <1>4, <1>6, <1>7, ThroughNewer
  <2>3. hit \subseteq hit' /\ may[p] \subseteq may'[p] /\ (p \notin hit' => may'[p] = may[p])
    BY Observed DEF Watched
  <2>4. ASSUME p \notin hit' PROVE after = before
    <3>1. CASE view.docs = NoFile
      <4>1. p \notin Changing
        BY <1>1, <2>4 DEF Observe, Watched, Opening
      <4>2. LiveDocsOf(docs, paths, p) = LiveDocsOf(plan.docs, plan.paths, p)
        BY <4>1 DEF Changing
      <4>3. DocsAhead = docs /\ DocsAhead' = plan.docs
        BY <1>3, <3>1 DEF DocsAhead
      <4> QED BY <1>4, <1>5, <1>6, <4>2, <4>3, ThroughUnchanged
    <3>2. CASE view.docs # NoFile
      BY <1>3, <3>2
    <3> QED BY <3>1, <3>2
  <2> HIDE DEF before, after
  <2>5. after \subseteq may'[p] /\ (p \notin hit' => after = may'[p])
    BY <2>1, <2>2, <2>3, <2>4
  <2> QED BY <2>5 DEF after
<1>10. ASSUME NEW p \in Paths PROVE Coming(p)' \subseteq may'[p] /\ (Coming(p)' # {} => p \in hit')
  <2>1. Coming(p)' = Coming(p)
    BY <1>1 DEF Coming
  <2>2. hit' = hit \cup Changing /\ may' = [q \in Paths |-> may[q] \cup Coming(q)]
    BY <1>1 DEF Observe, Watched, Opening
  <2>3. p \notin Changing => Coming(p) = {}
    BY <1>1, NothingComing DEF Watched
  <2> QED BY <2>1, <2>2, <2>3
<1>11. Allowed'
  BY <1>10 DEF Allowed
<1> QED BY <1>8, <1>9, <1>11

LEMMA WritePathsKeeps ==
  ASSUME Watched, op = "delta", WritePaths, Observe, UNCHANGED viewVars, Readable'
  PROVE  Behind' /\ Faithful' /\ Allowed'
<1>1. /\ UNCHANGED <<rpc, view, meta, docs, segs, plan, op>>
      /\ paths' = plan.paths /\ pc = "paths" /\ pc' = "meta" /\ UNCHANGED <<may, hit>>
  BY DEF viewVars, WritePaths, Committing, Observe
<1>2. Reach' = Reach
  BY <1>1, ReachKept
<1>3. DocsAhead' = DocsAhead /\ PathsAhead' = IF view.paths = NoFile THEN plan.paths ELSE PathsAhead
  BY <1>1 DEF DocsAhead, PathsAhead
<1>4. /\ docs \in Seq(Doc) /\ paths \in Seq(Paths) /\ plan.paths \in Seq(Paths)
      /\ DocsAhead \in Seq(Doc) /\ PathsAhead \in Seq(Paths)
  BY InHand DEF Watched, IInv, Typed, Plan
<1>5. Longer(paths, plan.paths)
  BY DEF Watched, NewOnes
<1>6. /\ Grows(DocsAhead, docs) /\ Longer(PathsAhead, paths)
      /\ Rooted(Reach, DocsAhead, PathsAhead)
  BY WatchedFacts
<1>7. /\ PathsAhead' \in Seq(Paths) /\ Longer(PathsAhead, PathsAhead')
      /\ Longer(PathsAhead', plan.paths)
  <2>1. CASE view.paths = NoFile
    <3>1. PathsAhead = paths /\ PathsAhead' = plan.paths
      BY <1>3, <2>1 DEF PathsAhead
    <3> QED BY <1>4, <1>5, <3>1, LongerSame
  <2>2. CASE view.paths # NoFile
    <3>1. PathsAhead' = PathsAhead
      BY <1>3, <2>2
    <3>2. Longer(PathsAhead, plan.paths)
      BY <1>4, <1>5, <1>6, LongerTrans
    <3> QED BY <1>4, <3>1, <3>2, LongerSame
  <2> QED BY <2>1, <2>2
<1>8. Behind'
  <2>1. Rooted(Reach, DocsAhead, PathsAhead')
    BY <1>4, <1>6, <1>7, GrowsSame, RootedLater
  <2> QED BY <1>1, <1>2, <1>3, <1>6, <1>7, <2>1, WatchedFacts DEF Behind
<1>9. \A p \in Paths : Through(Reach, DocsAhead, PathsAhead', p) = Through(Reach, DocsAhead, PathsAhead, p)
  BY <1>4, <1>6, <1>7, ThroughLonger
<1>10. Faithful'
  BY <1>1, <1>2, <1>3, <1>9, WatchedFacts DEF Faithful
<1>11. \A p \in Paths : Coming(p)' = Coming(p)
  BY <1>1 DEF Coming
<1>12. Allowed'
  BY <1>1, <1>11 DEF Watched, Opening, Allowed, Followed
<1> QED BY <1>8, <1>10, <1>12

\* The new segment leads to what the history allows for.
LEMMA WriteMetaKeeps ==
  ASSUME Watched, op = "delta", WriteMeta, Observe, ~stray', UNCHANGED viewVars, Readable'
  PROVE  Behind' /\ Faithful' /\ Allowed'
<1>1. /\ UNCHANGED <<rpc, view, docs, paths, segs>>
      /\ meta' = DeltaMeta /\ op' # "delta" /\ pc = "meta" /\ UNCHANGED <<may, hit>>
  BY DEF viewVars, WriteMeta, Committing, Observe
<1>2. DocsAhead' = DocsAhead /\ PathsAhead' = PathsAhead
  BY <1>1 DEF DocsAhead, PathsAhead
<1>3. SegmentsOf(meta)' = SegmentsOf(meta) \cup {plan.seg}
  BY <1>1, MetaSegments, InHand DEF Watched
<1>4. Rooted(Reach', DocsAhead, PathsAhead) /\ Reach \subseteq Reach'
      /\ \A p \in Paths : \A y \in Reach' \ Reach :
            y[1] \in LiveDocsOf(DocsAhead, PathsAhead, p) => y[2] \in Coming(p)
  <2>1. CASE Reach' = Reach
    BY <2>1, WatchedFacts
  <2>2. CASE Reach' # Reach
    <3>1. meta' # meta
      BY <1>1, <2>2 DEF Reach, Loaded
    <3>2. rpc = "meta"
      BY <1>1, <2>2 DEF Reach
    <3>3. docs = plan.docs /\ paths = plan.paths
      BY <1>1 DEF Watched, IInv, Replaced
    <3>4. DocsAhead = plan.docs /\ PathsAhead = plan.paths
      BY <3>2, <3>3, WatchedFacts DEF DocsAhead, PathsAhead, NoView
    <3>5. plan.seg \in DOMAIN segs => plan.seg \in DOMAIN plan.new
      BY <1>1, <3>1 DEF Observe, Adopting, Watched, Opening
    <3>6. plan.seg \in DOMAIN plan.new => segs[plan.seg] = plan.new[plan.seg]
      BY <1>1 DEF Watched, SInv, Written
    <3>7. Reach = UNION {segs[s] : s \in SegmentsOf(meta) \cap DOMAIN segs}
      BY <3>2 DEF Reach, Loaded
    <3>8. Reach' = UNION {segs[s] : s \in (SegmentsOf(meta) \cup {plan.seg}) \cap DOMAIN segs}
      BY <1>1, <1>3, <3>2 DEF Reach, Loaded
    <3>9. Reach \subseteq Reach'
      BY <3>7, <3>8
    <3>10. Reach' \ Reach \subseteq Posts(plan.new)
      BY <3>5, <3>6, <3>7, <3>8, PostsOf
    <3>11. ASSUME NEW y \in Posts(plan.new)
           PROVE  y[1] \in DOMAIN plan.docs /\ plan.docs[y[1]].path < Len(plan.paths)
      BY DEF Watched, NewOnes
    <3>12. Rooted(Reach', DocsAhead, PathsAhead)
      BY <3>4, <3>10, <3>11, WatchedFacts DEF Rooted
    <3>13. ASSUME NEW p \in Paths, NEW y \in Reach' \ Reach,
                  y[1] \in LiveDocsOf(DocsAhead, PathsAhead, p)
           PROVE  y[2] \in Coming(p)
      BY <1>1, <3>4, <3>10, <3>13, LiveDoc, ComingDef
    <3> QED BY <3>9, <3>12, <3>13
  <2> QED BY <2>1, <2>2
<1>5. Behind'
  BY <1>1, <1>2, <1>3, <1>4, WatchedFacts DEF Behind
<1>6. Faithful'
  <2> SUFFICES ASSUME NEW p \in Paths
               PROVE  LET found == Through(Reach', DocsAhead, PathsAhead, p)
                      IN  found \subseteq may[p] /\ (p \notin hit => found = may[p])
    BY <1>1, <1>2 DEF Faithful
  <2> DEFINE before == Through(Reach, DocsAhead, PathsAhead, p)
             after  == Through(Reach', DocsAhead, PathsAhead, p)
  <2>1. before \subseteq may[p] /\ (p \notin hit => before = may[p])
    BY WatchedFacts
  <2>2. Coming(p) \subseteq may[p] /\ (Coming(p) # {} => p \in hit)
    BY <1>1 DEF Watched, Opening, Followed, Allowed
  <2>3. ASSUME NEW c \in after PROVE c \in before \cup Coming(p)
    <3>1. PICK y \in Reach' : y[2] = c /\ y[1] \in LiveDocsOf(DocsAhead, PathsAhead, p)
      BY <2>3, ThroughDef
    <3> QED BY <1>4, <3>1, ThroughDef
  <2>4. ASSUME NEW c \in before PROVE c \in after
    <3>1. PICK y \in Reach : y[2] = c /\ y[1] \in LiveDocsOf(DocsAhead, PathsAhead, p)
      BY <2>4, ThroughDef
    <3> QED BY <1>4, <3>1, ThroughDef
  <2> HIDE DEF before, after
  <2>5. after \subseteq may[p] /\ (p \notin hit => after = may[p])
    BY <2>1, <2>2, <2>3, <2>4
  <2> QED BY <2>5 DEF after
<1>7. Allowed'
  BY <1>1 DEF Allowed
<1> QED BY <1>5, <1>6, <1>7

---------------------------------------------------------------------------
(* Each step of a writer or a reader preserves the invariant *)

LEMMA WriterStepKeeps == ASSUME IInv, SInv, RInv, WriterStep PROVE RInv'
<1>1. /\ UNCHANGED viewVars /\ Next /\ Observe /\ rpc \notin {"opened", "failed"}
      /\ UNCHANGED <<rpc, view>> /\ ~moved
  BY DEF WriterStep, viewVars
<1>2. NewOnes'
  BY <1>1, NextNewOnes DEF RInv
<1>3. ViewOK'
  BY <1>1 DEF RInv, ViewOK, Views
<1>4. CASE ~Opening'
  BY <1>1, <1>2, <1>3, <1>4 DEF RInv, Openable, Opening, Followed, Behind, Faithful, Allowed
<1>5. CASE Opening'
  <2>1. Opening /\ Readable /\ ~Renumbers /\ ~Renumbers'
    BY <1>1, <1>5 DEF Opening, Observe, RInv, Openable
  <2>2. Unmoved \/ (op = "delta" /\ (WriteDocs \/ WritePaths \/ WriteMeta))
    BY <1>1, <2>1, WriterKinds
  <2>3. Readable'
    <3>1. CASE Unmoved
      BY <2>1, <3>1 DEF Unmoved, Readable
    <3>2. CASE op = "delta" /\ (WriteDocs \/ WritePaths \/ WriteMeta)
      <4>1. CASE WriteMeta
        <5>1. meta \in Meta /\ UNCHANGED <<docs, paths>> /\ meta' = DeltaMeta
          BY <2>1, <3>2, <4>1 DEF WriteMeta, IInv, Typed, Readable
        <5>2. Tombstones(plan.docs) \in Nat /\ Len(plan.docs) \in Nat /\ plan.seg \in Nat
          BY TombstonesTyped, LenProperties DEF IInv, Typed, Plan
        <5>3. DeltaMeta \in Meta
          BY <5>1, <5>2, AppendProperties DEF DeltaMeta, Meta
        <5> QED BY <2>1, <5>1, <5>3, NoFileAssumption DEF Readable
      <4>2. CASE WriteDocs \/ WritePaths
        <5>1. plan.docs # NoFile /\ plan.paths # NoFile
          BY NoFileAssumption DEF IInv, Typed, Plan
        <5> QED BY <2>1, <4>2, <5>1 DEF WriteDocs, WritePaths, Readable
      <4> QED BY <3>2, <4>1, <4>2
    <3> QED BY <2>2, <3>1, <3>2
  <2>4. Openable'
    BY <1>1, <2>3 DEF Openable
  <2>5. CASE stray'
    BY <1>2, <1>3, <2>4, <2>5 DEF RInv, Followed, Behind, Faithful, Allowed
  <2>6. CASE ~stray'
    <3>1. Watched
      BY <2>1, <2>6 DEF RInv, Watched, WriterStep, Observe
    <3>2. Behind' /\ Faithful' /\ Allowed'
      BY <1>1, <2>2, <2>3, <2>6, <3>1, UnmovedKeeps, WriteDocsKeeps, WritePathsKeeps, WriteMetaKeeps
    <3> QED BY <1>2, <1>3, <2>4, <3>2 DEF RInv
  <2> QED BY <2>5, <2>6
<1> QED BY <1>4, <1>5

LEMMA NewOnesStill == ASSUME NewOnes, UNCHANGED vars PROVE NewOnes'
BY NewOnesSame DEF vars, NewOnes

LEMMA BeginKeeps == ASSUME IInv, RInv, Begin PROVE RInv'
<1>1. /\ rpc = "closed" /\ rpc' = "meta" /\ view' = NoView /\ view = NoView
      /\ may' = [p \in Paths |-> IF Readable THEN Found(p) \cup Coming(p) ELSE {}]
      /\ hit' = {p \in Paths : Coming(p) # {}}
      /\ moved' = (~Readable \/ Renumbers) /\ stray' = (Readable /\ Strays)
  BY DEF Begin, RInv, ViewOK
<1>2. /\ UNCHANGED <<meta, docs, paths, segs>>
      /\ op' = "delta" => UNCHANGED vars
  BY DEF Begin, LosesFile, EndWriter, vars, disk
<1>3. NewOnes'
  <2>1. CASE op' = "delta"
    BY <1>2, <2>1, NewOnesStill DEF RInv
  <2> QED BY <2>1 DEF NewOnes
<1>4. ViewOK'
  BY <1>1 DEF RInv, ViewOK
<1>5. Readable' = Readable
  BY <1>2 DEF Readable
<1>6. Openable'
  BY <1>1, <1>5 DEF Openable, Opening
<1>7. CASE moved' \/ stray'
  BY <1>3, <1>4, <1>6, <1>7 DEF RInv, Followed, Behind, Faithful, Allowed
<1>8. CASE ~moved' /\ ~stray'
  <2>1. Readable /\ ~Strays
    BY <1>1, <1>8
  <2>2. DocsAhead' = docs /\ PathsAhead' = paths
    BY <1>1, <1>2 DEF DocsAhead, PathsAhead, NoView
  <2>3. Reach' = Loaded
    <3>1. Loaded' = Loaded
      BY <1>2 DEF Loaded, SegmentsOf
    <3> QED BY <1>1, <3>1 DEF Reach
  <2>4. Behind'
    <3>1. Rooted(Loaded, docs, paths)
      BY <2>1 DEF Strays, Rooted
    <3>2. Grows(docs, docs) /\ Longer(paths, paths)
      BY <2>1, InHand, GrowsSame, LongerSame DEF RInv
    <3> QED BY <1>1, <1>2, <1>5, <2>1, <2>2, <2>3, <3>1, <3>2 DEF Behind
  <2>5. Faithful'
    <3> SUFFICES ASSUME NEW p \in Paths
                 PROVE  LET found == Through(Loaded, docs, paths, p)
                        IN  found \subseteq may'[p] /\ (p \notin hit' => found = may'[p])
      BY <2>2, <2>3 DEF Faithful
    <3>1. Through(Loaded, docs, paths, p) = Found(p)
      BY DEF Through, Found
    <3>2. may'[p] = Found(p) \cup Coming(p) /\ (p \notin hit' => Coming(p) = {})
      BY <1>1, <2>1
    <3> QED BY <3>1, <3>2
  <2>6. Allowed'
    <3> SUFFICES ASSUME op' = "delta", NEW p \in Paths
                 PROVE  Coming(p)' \subseteq may'[p] /\ (Coming(p)' # {} => p \in hit')
      BY DEF Allowed
    <3>1. Coming(p)' = Coming(p)
      BY <1>2 DEF vars, Coming
    <3> QED BY <1>1, <2>1, <3>1
  <2> QED BY <1>3, <1>4, <1>6, <2>4, <2>5, <2>6 DEF RInv
<1> QED BY <1>7, <1>8

\* A read takes what it would have been taken to end up with anyway.
LEMMA SameAhead ==
  ASSUME RInv, UNCHANGED <<vars, historyVars>>, ViewOK',
         rpc \in {"meta", "tables"}, rpc' \in {"tables", "opened"},
         DocsAhead' = DocsAhead, PathsAhead' = PathsAhead, Reach' = Reach,
         (Opening /\ ~stray) => view'.todo \subseteq SegmentsOf(meta)
  PROVE  RInv'
<1>1. UNCHANGED <<may, hit, moved, stray, op, pc, plan, meta, docs, paths, segs>>
  BY DEF vars, historyVars
<1>2. NewOnes'
  BY NewOnesStill DEF RInv
<1>3. Readable' = Readable
  BY <1>1 DEF Readable
<1>4. Openable'
  BY <1>1, <1>3 DEF RInv, Openable, Opening
<1>5. CASE moved \/ stray
  BY <1>1, <1>2, <1>4, <1>5 DEF RInv, Followed, Behind, Faithful, Allowed
<1>6. CASE ~moved /\ ~stray
  <2>1. Followed /\ Opening
    BY <1>6 DEF Followed, Opening
  <2>2. SegmentsOf(meta)' = SegmentsOf(meta)
    BY <1>1 DEF SegmentsOf
  <2>3. Behind'
    <3>1. /\ Readable /\ Grows(DocsAhead, docs) /\ Longer(PathsAhead, paths)
          /\ Rooted(Reach, DocsAhead, PathsAhead)
      BY <2>1 DEF RInv, Behind
    <3>2. view'.todo \subseteq SegmentsOf(meta)'
      BY <1>6, <2>1, <2>2
    <3>3. /\ Readable' /\ Grows(DocsAhead', docs') /\ Longer(PathsAhead', paths')
          /\ Rooted(Reach', DocsAhead', PathsAhead')
      BY <1>1, <1>3, <3>1
    <3> QED BY <3>2, <3>3 DEF Behind
  <2>4. Faithful'
    BY <1>1, <2>1 DEF RInv, Faithful
  <2>5. \A p \in Paths : Coming(p)' = Coming(p)
    BY <1>1 DEF Coming
  <2>6. Allowed'
    BY <1>1, <2>1, <2>5 DEF RInv, Allowed
  <2> QED BY <1>2, <1>4, <2>3, <2>4, <2>6 DEF RInv
<1> QED BY <1>5, <1>6

\* An opening fails only where documents were numbered anew.
LEMMA FailureKeeps ==
  ASSUME RInv, UNCHANGED <<vars, historyVars, view>>, Opening => Readable,
         rpc \in {"meta", "tables"}, rpc' = "failed", ~Readable
  PROVE  RInv'
<1>1. moved /\ moved'
  BY DEF Opening, historyVars
<1>2. NewOnes'
  BY NewOnesStill DEF RInv
<1> QED
  BY <1>1, <1>2
  DEF RInv, ViewOK, Views, Openable, Opening, Followed, Behind, Faithful, Allowed

LEMMA ReadMetaKeeps == ASSUME IInv, RInv, ReadMeta PROVE RInv'
<1>1. CASE meta = NoFile
  BY <1>1, FailureKeeps DEF ReadMeta, RInv, Openable, Readable
<1>2. CASE meta # NoFile
  <2>1. /\ rpc = "meta" /\ rpc' = "tables" /\ view = NoView
        /\ UNCHANGED <<vars, historyVars>> /\ meta \in Meta
    BY <1>2 DEF ReadMeta, RInv, ViewOK, IInv, Typed
  <2>2. /\ view'.docs = NoFile /\ view'.paths = NoFile /\ view'.loaded = {}
        /\ view'.todo = SegmentsOf(meta)
    BY <1>2, <2>1 DEF ReadMeta, NoView
  <2>3. SegmentsOf(meta) \subseteq Nat
    <3>1. meta.base \in Nat /\ meta.deltas \in Seq(Nat)
      BY <2>1 DEF Meta
    <3>2. \A i \in DOMAIN meta.deltas : meta.deltas[i] \in Nat
      BY <3>1, ElementOfSeq, LenProperties
    <3> QED BY <3>1, <3>2 DEF SegmentsOf
  <2>4. ViewOK'
    <3>1. view' \in Views
      BY <1>2, <2>1, <2>3 DEF ReadMeta, NoView, Views
    <3> QED BY <2>1, <3>1 DEF ViewOK
  <2>5. UNCHANGED <<meta, docs, paths, segs>>
    BY <2>1 DEF vars
  <2>6. DocsAhead' = DocsAhead /\ PathsAhead' = PathsAhead
    BY <2>1, <2>2, <2>5 DEF DocsAhead, PathsAhead, NoView
  <2>7. Reach' = Reach
    BY <2>1, <2>2, <2>5 DEF Reach, Loaded
  <2> QED BY <2>1, <2>2, <2>4, <2>6, <2>7, SameAhead
<1> QED BY <1>1, <1>2

LEMMA ReadTableKeeps == ASSUME IInv, RInv, ReadDocs \/ ReadPaths PROVE RInv'
<1>1. /\ rpc = "tables" /\ UNCHANGED <<vars, historyVars>> /\ view \in Views
  BY DEF ReadDocs, ReadPaths, ReadTable, RInv, ViewOK
<1>2. UNCHANGED <<meta, docs, paths, segs>>
  BY <1>1 DEF vars
<1>3. CASE rpc' = "failed"
  <2>1. ~Readable /\ UNCHANGED view
    BY <1>1, <1>3 DEF ReadDocs, ReadPaths, ReadTable, Readable
  <2> QED BY <1>1, <1>3, <2>1, FailureKeeps DEF RInv, Openable
<1>4. CASE rpc' # "failed" /\ ReadDocs
  <2>1. /\ view.docs = NoFile /\ rpc' = "tables" /\ docs # NoFile
        /\ view' = [view EXCEPT !.docs = docs]
    BY <1>4, <1>1 DEF ReadDocs, ReadTable
  <2>2. /\ view'.docs = docs /\ view'.paths = view.paths /\ view'.todo = view.todo
        /\ view'.loaded = view.loaded /\ view' \in Views
    BY <1>1, <2>1 DEF Views, IInv, Typed
  <2>3. ViewOK'
    BY <2>1, <2>2 DEF ViewOK
  <2>4. DocsAhead' = DocsAhead /\ PathsAhead' = PathsAhead /\ Reach' = Reach
    BY <1>1, <1>2, <2>1, <2>2 DEF DocsAhead, PathsAhead, Reach
  <2>5. (Opening /\ ~stray) => view'.todo \subseteq SegmentsOf(meta)
    BY <1>1, <2>2 DEF Opening, RInv, Behind, Followed
  <2> QED BY <1>1, <2>1, <2>3, <2>4, <2>5, SameAhead
<1>5. CASE rpc' # "failed" /\ ReadPaths
  <2>1. /\ view.paths = NoFile /\ rpc' = "tables" /\ paths # NoFile
        /\ view' = [view EXCEPT !.paths = paths]
    BY <1>5, <1>1 DEF ReadPaths, ReadTable
  <2>2. /\ view'.paths = paths /\ view'.docs = view.docs /\ view'.todo = view.todo
        /\ view'.loaded = view.loaded /\ view' \in Views
    BY <1>1, <2>1 DEF Views, IInv, Typed
  <2>3. ViewOK'
    BY <2>1, <2>2 DEF ViewOK
  <2>4. DocsAhead' = DocsAhead /\ PathsAhead' = PathsAhead /\ Reach' = Reach
    BY <1>1, <1>2, <2>1, <2>2 DEF DocsAhead, PathsAhead, Reach
  <2>5. (Opening /\ ~stray) => view'.todo \subseteq SegmentsOf(meta)
    BY <1>1, <2>2 DEF Opening, RInv, Behind, Followed
  <2> QED BY <1>1, <2>1, <2>3, <2>4, <2>5, SameAhead
<1> QED BY <1>3, <1>4, <1>5 DEF RInv

LEMMA ReadSegmentKeeps == ASSUME IInv, RInv, NEW s \in view.todo, ReadSegment(s) PROVE RInv'
<1>1. /\ rpc = "tables" /\ rpc' = "tables" /\ UNCHANGED <<vars, historyVars>> /\ view \in Views
  BY DEF ReadSegment, RInv, ViewOK
<1>2. UNCHANGED <<meta, docs, paths, segs>>
  BY <1>1 DEF vars
<1>3. s \in DOMAIN segs => segs[s] \in SUBSET Postings
  BY SegmentsDef DEF IInv, Typed
<1>4. /\ view'.docs = view.docs /\ view'.paths = view.paths /\ view'.todo = view.todo \ {s}
      /\ view'.loaded = view.loaded \cup IF s \in DOMAIN segs THEN segs[s] ELSE {}
      /\ view' \in Views
  BY <1>1, <1>3 DEF ReadSegment, Views
<1>5. ViewOK'
  BY <1>1, <1>4 DEF ViewOK
<1>6. DocsAhead' = DocsAhead /\ PathsAhead' = PathsAhead
  BY <1>2, <1>4 DEF DocsAhead, PathsAhead
<1>7. Reach' = Reach
  <2>1. Reach' = view'.loaded \cup UNION {segs[t] : t \in (view.todo \ {s}) \cap DOMAIN segs}
    BY <1>1, <1>2, <1>4 DEF Reach
  <2>2. Reach = view.loaded \cup UNION {segs[t] : t \in view.todo \cap DOMAIN segs}
    BY <1>1 DEF Reach
  <2> QED BY <1>4, <2>1, <2>2
<1>8. (Opening /\ ~stray) => view'.todo \subseteq SegmentsOf(meta)
  BY <1>1, <1>4 DEF Opening, RInv, Behind, Followed
<1> QED BY <1>1, <1>5, <1>6, <1>7, <1>8, SameAhead

LEMMA OpenedKeeps == ASSUME IInv, RInv, Opened PROVE RInv'
<1>1. /\ rpc = "tables" /\ rpc' = "opened" /\ UNCHANGED <<vars, historyVars, view>>
      /\ view \in Views /\ view.docs # NoFile /\ view.paths # NoFile /\ view.todo = {}
  BY DEF Opened, RInv, ViewOK
<1>2. UNCHANGED <<meta, docs, paths, segs>>
  BY <1>1 DEF vars
<1>3. ViewOK'
  BY <1>1 DEF ViewOK
<1>4. DocsAhead' = DocsAhead /\ PathsAhead' = PathsAhead /\ Reach' = Reach
  BY <1>1, <1>2 DEF DocsAhead, PathsAhead, Reach
<1> QED BY <1>1, <1>3, <1>4, SameAhead

---------------------------------------------------------------------------
(* The index a full build wrote *)

\* Its tables have their types, and its segments those that meta.json lists.
LEMMA Built ==
  ASSUME NEW order \in Orders, BuiltIndex(order)
  PROVE  /\ fs \in [Paths -> Nat] /\ clock \in Nat /\ dir = TRUE
         /\ docs \in Seq(Doc) /\ AllLive(docs) /\ paths \in Seq(Paths) /\ segs \in Segments
         /\ meta \in Meta /\ Based(meta) /\ DOMAIN segs \subseteq SegmentsOf(meta)
         /\ meta.baseline = Len(meta.deltas) /\ meta.docCount = Len(docs) /\ meta.tombstones = 0
<1> DEFINE size == Cardinality(Paths)
           n    == Len(order)
           more == IF n = 0 THEN 0 ELSE (n - 1) \div ChunkSize
           many == IF n = 0 THEN 0 ELSE more + 1
           doc(i) == [path |-> i - 1, mtime |-> [unit |-> "s", at |-> i], live |-> TRUE]
           part(s) == {<<i, i>> : i \in {j \in 1..n : (j - 1) \div ChunkSize + 1 = s}}
<1>1. size \in Nat
  BY StoreAssumption, FS_CardinalityType
<1>2. /\ order \in [1..size -> Paths]
      /\ \A p \in Paths : \E i \in DOMAIN order : order[i] = p
  BY DEF Orders
<1>3. n = size /\ order \in Seq(Paths) /\ n \in Nat
  BY <1>1, <1>2, IsASeq, LenProperties
<1>4. more \in Nat /\ many \in Nat /\ (n # 0 => many = more + 1) /\ (n = 0 => more = 0 /\ many = 0)
  <2>1. CASE n = 0
    BY <2>1
  <2>2. CASE n # 0
    <3>1. n - 1 \in Nat
      BY <1>3, <2>2
    <3>2. (n - 1) \div ChunkSize + 1 \in Nat \ {0}
      BY <3>1, NextChunk
    <3>3. more = (n - 1) \div ChunkSize /\ many = more + 1
      BY <2>2
    <3>4. (n - 1) \div ChunkSize \in Int
      BY <3>1, StoreAssumption
    <3> HIDE DEF more, many
    <3> QED BY <2>2, <3>2, <3>3, <3>4
  <2> QED BY <2>1, <2>2
<1> HIDE DEF n, size, more, many
<1>5. /\ fs = [p \in Paths |-> CHOOSE i \in 1..n : order[i] = p]
      /\ clock = n /\ dir = TRUE
      /\ docs = [i \in 1..n |-> doc(i)] /\ paths = order
      /\ segs = [s \in 1..many |-> part(s)]
      /\ meta = [base |-> IF n = 0 THEN 0 ELSE 1, deltas |-> [i \in 1..more |-> i + 1],
                 baseline |-> more, docCount |-> n, tombstones |-> 0]
  BY DEF BuiltIndex, n, more, many
<1>6. fs \in [Paths -> Nat]
  <2>1. ASSUME NEW p \in Paths PROVE (CHOOSE i \in 1..n : order[i] = p) \in Nat
    <3>1. \E i \in 1..n : order[i] = p
      BY <1>2, <1>3
    <3>2. (CHOOSE i \in 1..n : order[i] = p) \in 1..n
      BY <3>1
    <3> QED BY <1>3, <3>2
  <2> QED BY <1>5, <2>1
<1>7. docs \in Seq(Doc) /\ Len(docs) = n /\ AllLive(docs)
  <2>1. \A i \in 1..n : doc(i) \in Doc /\ doc(i).live
    BY <1>3 DEF Doc, Stamp
  <2> HIDE DEF doc
  <2>2. docs \in [1..n -> Doc]
    BY <1>5, <2>1
  <2> QED BY <1>3, <1>5, <2>1, <2>2, IsASeq, LenProperties DEF AllLive
<1>8. segs \in Segments
  <2>1. \A s \in 1..many : part(s) \in SUBSET Postings
    BY <1>3 DEF Postings
  <2> HIDE DEF part
  <2>2. 1..many \in SUBSET Nat
    BY <1>4
  <2>3. segs \in [1..many -> SUBSET Postings]
    BY <1>5, <2>1
  <2> QED BY <2>2, <2>3 DEF Segments
<1> DEFINE ds == [i \in 1..more |-> i + 1]
<1>9. ds \in Seq(Nat) /\ Len(ds) = more /\ DOMAIN ds = 1..more
  <2>1. ds \in [1..more -> Nat]
    BY <1>4
  <2> QED BY <1>4, <2>1, IsASeq, LenProperties
<1>10. /\ meta.base = (IF n = 0 THEN 0 ELSE 1) /\ meta.deltas = ds
       /\ meta.baseline = more /\ meta.docCount = n /\ meta.tombstones = 0
  BY <1>5
<1>11. meta \in Meta
  <2> HIDE DEF ds
  <2> QED BY <1>3, <1>4, <1>5, <1>9 DEF Meta, ds
<1>12. Based(meta)
  <2> SUFFICES ASSUME ds # <<>> PROVE \E i \in DOMAIN ds : meta.base <= ds[i]
    BY <1>10 DEF Based
  <2>1. Len(ds) # 0
    BY <1>9, EmptySeq
  <2>2. 1 \in 1..more /\ ds[1] = 2
    BY <1>4, <1>9, <2>1
  <2> QED BY <1>9, <1>10, <2>2
<1>13. DOMAIN segs \subseteq SegmentsOf(meta)
  <2> SUFFICES ASSUME NEW s \in 1..many PROVE s \in SegmentsOf(meta)
    BY <1>5
  <2>1. n # 0 /\ many = more + 1 /\ meta.base = 1
    BY <1>4, <1>10
  <2>2. CASE s = 1
    BY <2>1, <2>2 DEF SegmentsOf
  <2>3. CASE s # 1
    <3>1. s - 1 \in 1..more /\ ds[s - 1] = s
      BY <1>4, <2>1, <2>3
    <3> QED BY <1>9, <1>10, <3>1 DEF SegmentsOf
  <2> QED BY <2>2, <2>3
<1> QED BY <1>3, <1>5, <1>6, <1>7, <1>8, <1>9, <1>10, <1>11, <1>12, <1>13

LEMMA ReadersInitInv == ReadersInit => IInv /\ SInv /\ RInv
<1> SUFFICES ASSUME ReadersInit PROVE IInv /\ SInv /\ RInv
  OBVIOUS
<1>1. PICK order \in Orders : BuiltIndex(order)
  BY DEF ReadersInit
<1>2. /\ fs \in [Paths -> Nat] /\ clock \in Nat /\ dir = TRUE
      /\ docs \in Seq(Doc) /\ AllLive(docs) /\ paths \in Seq(Paths) /\ segs \in Segments
      /\ meta \in Meta /\ Based(meta) /\ DOMAIN segs \subseteq SegmentsOf(meta)
      /\ meta.baseline = Len(meta.deltas) /\ meta.docCount = Len(docs) /\ meta.tombstones = 0
  BY <1>1, Built
<1>3. /\ op = "idle" /\ pc = "idle" /\ plan = NoPlan /\ cuts = 0 /\ dirty = {} /\ torn = FALSE
      /\ rpc = "closed" /\ view = NoView
  BY DEF ReadersInit
<1>4. Tombstones(docs) = 0 /\ meta.baseline \in Nat
  BY <1>2, NoTombstones DEF Meta
<1>5. Readable
  BY <1>2, NoFileAssumption DEF Readable
<1>6. Typed
  BY <1>2, <1>3, NoPlanTyped DEF Typed, Control
<1>7. IInv
  BY <1>2, <1>3, <1>4, <1>5, <1>6 DEF IInv, Removed, Opens, Whole, Replaced, Extends, NoneDead, Counted
<1>8. SInv
  BY <1>2, <1>3 DEF SInv, ReadOnce, Numbered, Written, Listing, NoPlan
<1>9. NoView \in Views
  BY DEF NoView, Views
<1>10. RInv
  BY <1>3, <1>9 DEF RInv, NewOnes, ViewOK, Openable, Opening, Followed, Behind, Faithful, Allowed
<1> QED BY <1>7, <1>8, <1>10

LEMMA ReadersNextInv ==
  IInv /\ SInv /\ RInv /\ [ReadersNext]_<<vars, readerVars>> => (IInv /\ SInv /\ RInv)'
<1> SUFFICES ASSUME IInv, SInv, RInv, [ReadersNext]_<<vars, readerVars>>
             PROVE  IInv' /\ SInv' /\ RInv'
  OBVIOUS
<1>1. CASE WriterStep
  <2>1. IInv' /\ SInv'
    BY <1>1, NextIInv, NextSInv DEF WriterStep
  <2> QED BY <1>1, <2>1, WriterStepKeeps
<1>2. CASE Begin
  <2>1. CASE LosesFile
    BY <1>2, <2>1, EndWriterStep, EndWriterSegments, BeginKeeps DEF LosesFile
  <2>2. CASE UNCHANGED vars
    BY <1>2, <2>2, NextIInv, NextSInv, BeginKeeps
  <2> QED BY <1>2, <2>1, <2>2 DEF Begin
<1>3. CASE UNCHANGED vars /\ RInv'
  BY <1>3, NextIInv, NextSInv
<1>4. CASE ReadMeta
  BY <1>3, <1>4, ReadMetaKeeps DEF ReadMeta
<1>5. CASE ReadDocs \/ ReadPaths
  BY <1>3, <1>5, ReadTableKeeps DEF ReadDocs, ReadPaths, ReadTable
<1>6. ASSUME NEW s \in view.todo, ReadSegment(s) PROVE IInv' /\ SInv' /\ RInv'
  BY <1>3, <1>6, ReadSegmentKeeps DEF ReadSegment
<1>7. CASE Opened
  BY <1>3, <1>7, OpenedKeeps DEF Opened
<1>8. CASE UNCHANGED <<vars, readerVars>>
  <2>1. UNCHANGED <<docs, paths, meta, segs, op, pc, plan, rpc, view, may, hit, moved, stray>>
    BY <1>8 DEF vars, readerVars
  <2>2. RInv'
    <3>1. NewOnes'
      BY <1>8, NewOnesStill DEF RInv
    <3>2. Reach' = Reach /\ DocsAhead' = DocsAhead /\ PathsAhead' = PathsAhead
      BY <2>1 DEF Reach, Loaded, SegmentsOf, DocsAhead, PathsAhead
    <3>3. \A p \in Paths : Coming(p)' = Coming(p)
      BY <2>1 DEF Coming
    <3>4. ViewOK' /\ Openable'
      BY <2>1 DEF RInv, ViewOK, Views, Openable, Opening, Readable
    <3>5. Followed' = Followed /\ SegmentsOf(meta)' = SegmentsOf(meta) /\ Readable' = Readable
      BY <2>1 DEF Followed, SegmentsOf, Readable
    <3>6. Behind' /\ Faithful' /\ Allowed'
      BY <2>1, <3>2, <3>3, <3>5 DEF RInv, Behind, Faithful, Allowed
    <3> QED BY <3>1, <3>4, <3>6 DEF RInv
  <2> QED BY <1>3, <1>8, <2>2
<1> QED
  BY <1>1, <1>2, <1>4, <1>5, <1>6, <1>7, <1>8 DEF ReadersNext, ReaderStep

LEMMA ReadersInvariance == ReadersSpec => [](IInv /\ SInv /\ RInv)
BY ReadersInitInv, ReadersNextInv, PTL DEF ReadersSpec

---------------------------------------------------------------------------
(* What opening an index without the lock gives *)

\* Opening fails only when documents are numbered anew, or there was no whole
\* index when it began (IndexReader::open, replacement by rename).
THEOREM OpeningSucceeds == ReadersSpec => []OpenSucceeds
<1>1. RInv => OpenSucceeds
  BY DEF RInv, Openable, OpenSucceeds
<1> QED BY <1>1, ReadersInvariance, PTL

\* An index opened in the middle of updates answers each path from contents it
\* had since the opening began, and a path they do not touch exactly as before
\* (IndexReader::open without the lock, DeltaSegmentWriter::finalize).
THEOREM RacedSound == ReadersSpec => []RacedViewSound
<1>1. RInv => RacedViewSound
  <2> SUFFICES ASSUME RInv, rpc = "opened", ~moved, ~stray, NEW p \in Paths
               PROVE  IF p \in hit THEN FoundInView(p) \subseteq may[p]
                      ELSE FoundInView(p) = may[p]
    BY DEF RacedViewSound
  <2>1. view.docs # NoFile /\ view.paths # NoFile /\ view.todo = {}
    BY DEF RInv, ViewOK
  <2>2. DocsAhead = view.docs /\ PathsAhead = view.paths /\ Reach = view.loaded
    BY <2>1 DEF DocsAhead, PathsAhead, Reach
  <2>3. FoundInView(p) = Through(Reach, DocsAhead, PathsAhead, p)
    BY <2>2 DEF FoundInView, Through
  <2>4. Followed
    BY DEF Followed
  <2> QED BY <2>3, <2>4 DEF RInv, Faithful
<1> QED BY <1>1, ReadersInvariance, PTL
=============================================================================
