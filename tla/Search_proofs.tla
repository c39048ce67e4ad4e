--------------------------- MODULE Search_proofs ---------------------------
(***************************************************************************)
(* Proofs about GramIndex and Search, for any paths, contents, chunk size, *)
(* cap on the stop-grams, requests and limits.  Until an index is          *)
(* compacted for the second time since it was built, a lookup by trigrams  *)
(* loses no live document.  And whatever candidates the lookups leave, as  *)
(* long as they keep their promise, an answer misses nothing that is due,  *)
(* has nothing foreign and meets its limit.                                *)
(***************************************************************************)
EXTENDS Search, FiniteSetTheorems, SequenceTheorems, TLAPS

---------------------------------------------------------------------------
(* The index.  NarrowingComplete is not inductive: a merge                 *)
(* chooses the stop-grams by the postings that are there, so it keeps the   *)
(* property only when none was left out before.                             *)

\* Every live document's trigrams are posted, stop-grams too
AllPosted == \A d \in Live : \A g \in Grams(docs[d].content) : <<g, d>> \in AllPostings

SegSet == {segs[s] : s \in DOMAIN segs}

DocsOK ==
    \A d \in DOMAIN docs :
        /\ docs[d] = [path |-> docs[d].path, content |-> docs[d].content, live |-> docs[d].live]
        /\ docs[d].live \in BOOLEAN

IInv ==
    /\ DocsOK
    /\ segs \in Seq(SegSet)
    /\ merges \in Nat
    /\ merges = 0 => AllPosted
    /\ merges <= 1 => PostingsComplete

---------------------------------------------------------------------------

\* What is posted for a document of a set is its trigrams.
LEMMA PostedOf ==
  ASSUME NEW table, NEW ds, NEW d \in ds, NEW g \in Grams(table[d].content)
  PROVE  <<g, d>> \in PostingsOf(table, ds)
BY DEF PostingsOf

\* A sequence of sets is one over its own members.
LEMMA OwnMembers ==
  ASSUME NEW S, NEW q \in Seq(S)
  PROVE  q \in Seq({q[s] : s \in DOMAIN q})
BY SeqOfRange DEF Range

LEMMA InitIInv == GramInit => IInv
<1> SUFFICES ASSUME GramInit PROVE IInv
  OBVIOUS
<1>1. segs \in Seq(SegSet)
  BY EmptySeq DEF GramInit
<1>2. DOMAIN docs = {} /\ merges = 0
  BY DEF GramInit
<1> QED BY <1>1, <1>2 DEF IInv, DocsOK, AllPosted, PostingsComplete, Live

\* The segment that the document's chunk belongs to exists.
LEMMA ChunkExists ==
  ASSUME NEW C \in Nat \ {0}, NEW n \in Nat, NEW d \in 1..n
  PROVE  (d - 1) \div C + 1 \in 1..((n + C - 1) \div C)
<1> DEFINE q == (d - 1) \div C
           k == (n + C - 1) \div C
<1>1. q \in Nat /\ C * q <= d - 1
  OBVIOUS
<1>2. k \in Nat /\ n + C - 1 < C * (k + 1)
  OBVIOUS
<1>3. C * (q + 1) <= n + C - 1
  <2>1. C * (q + 1) = C * q + C
    BY <1>1
  <2> QED BY <1>1, <2>1
<1>4. C * (q + 1) < C * (k + 1)
  BY <1>1, <1>2, <1>3
<1>5. q + 1 < k + 1
  BY <1>1, <1>2, <1>4
<1> QED BY <1>1, <1>2, <1>5

LEMMA BuildStep == ASSUME IInv, Build PROVE IInv'
<1> USE GramAssumption
<1> DEFINE n == Cardinality(Files)
           k == (n + ChunkSize - 1) \div ChunkSize
<1>1. n \in Nat /\ ChunkSize \in Nat \ {0}
  <2>1. IsFiniteSet(Files)
    BY FS_Subset DEF Files, GramAssumption
  <2> QED BY <2>1, FS_CardinalityType DEF GramAssumption
<1>2. /\ docs' = BuiltDocs /\ DOMAIN docs' = 1..n /\ merges' = 0
      /\ segs' = [s \in 1..k |->
                    PostingsOf(docs', {d \in DOMAIN docs' : (d - 1) \div ChunkSize + 1 = s})]
  BY DEF Build, BuiltDocs
<1>3. DocsOK'
  BY <1>2 DEF DocsOK, BuiltDocs, Doc
<1> HIDE DEF n
<1>4. k \in Nat
  BY <1>1
<1> HIDE DEF k
<1>5. segs' \in Seq(SegSet')
  <2>1. DOMAIN segs' = 1..k /\ segs' \in [1..k -> SegSet']
    BY <1>2 DEF SegSet
  <2> QED BY <1>4, <2>1
<1>6. AllPosted'
  <2> SUFFICES ASSUME NEW d \in DOMAIN docs', NEW g \in Grams(docs'[d].content)
               PROVE  <<g, d>> \in AllPostings'
    BY DEF AllPosted, Live
  <2> DEFINE s == (d - 1) \div ChunkSize + 1
             mine == {e \in DOMAIN docs' : (e - 1) \div ChunkSize + 1 = s}
  <2>1. s \in DOMAIN segs'
    BY <1>1, <1>2, ChunkExists DEF k
  <2>2. segs'[s] = PostingsOf(docs', mine)
    BY <1>2, <2>1
  <2>3. <<g, d>> \in PostingsOf(docs', mine)
    <3>1. d \in mine
      OBVIOUS
    <3> QED BY <3>1, PostedOf
  <2> QED BY <2>1, <2>2, <2>3 DEF AllPostings
<1>7. PostingsComplete'
  BY <1>6 DEF AllPosted, PostingsComplete
<1> QED BY <1>2, <1>3, <1>5, <1>6, <1>7 DEF IInv

LEMMA UpdateStep == ASSUME IInv, Update PROVE IInv'
<1> DEFINE fresh == {NewNumber(p) : p \in Stale \cap Files}
           pathOf(m) == CHOOSE p \in Stale \cap Files : NewNumber(p) = m
<1>1. /\ docs' = [d \in DOMAIN docs \cup fresh |->
                     IF d \in fresh THEN Doc(pathOf(d))
                     ELSE [docs[d] EXCEPT !.live = @ /\ docs[d].path \notin Stale]]
      /\ segs' = IF fresh = {} THEN segs ELSE Append(segs, PostingsOf(docs', fresh))
      /\ UNCHANGED <<stop, merges>>
  BY DEF Update
<1> HIDE DEF fresh
<1>2. \A d \in fresh : docs'[d] = Doc(pathOf(d))
  BY <1>1
<1>3. ASSUME NEW d \in DOMAIN docs' \ fresh
      PROVE  /\ d \in DOMAIN docs
             /\ docs'[d] = [path |-> docs'[d].path, content |-> docs'[d].content,
                            live |-> docs'[d].live]
             /\ docs'[d].live \in BOOLEAN
             /\ docs'[d].live => docs[d].live
             /\ docs'[d].content = docs[d].content
  <2> DEFINE kept == docs[d].live /\ docs[d].path \notin Stale
  <2>1. d \in DOMAIN docs /\ docs'[d] = [docs[d] EXCEPT !.live = kept]
    BY <1>1
  <2>2. docs[d] = [path |-> docs[d].path, content |-> docs[d].content, live |-> docs[d].live]
    BY <2>1 DEF IInv, DocsOK
  <2>3. kept \in BOOLEAN /\ (kept => docs[d].live)
    OBVIOUS
  <2> HIDE DEF kept
  <2>4. docs'[d] = [path |-> docs[d].path, content |-> docs[d].content, live |-> kept]
    BY <2>1, <2>2
  <2>5. docs'[d].live = kept /\ docs'[d].content = docs[d].content /\ docs'[d].path = docs[d].path
    BY <2>4
  <2> QED BY <2>1, <2>3, <2>4, <2>5
<1>4. DocsOK'
  <2> SUFFICES ASSUME NEW d \in DOMAIN docs'
               PROVE  /\ docs'[d] = [path |-> docs'[d].path, content |-> docs'[d].content,
                                     live |-> docs'[d].live]
                      /\ docs'[d].live \in BOOLEAN
    BY Zenon DEF DocsOK
  <2>1. CASE d \in fresh
    <3>1. docs'[d] = Doc(pathOf(d))
      BY <1>2, <2>1
    <3> HIDE DEF pathOf
    <3> QED BY <3>1 DEF Doc
  <2>2. CASE d \notin fresh
    BY <1>3, <2>2
  <2> QED BY <2>1, <2>2
<1>5. /\ segs' \in Seq(SegSet')
      /\ AllPostings \subseteq AllPostings'
      /\ fresh # {} => PostingsOf(docs', fresh) \subseteq AllPostings'
  <2>1. CASE fresh = {}
    BY <1>1, <2>1 DEF IInv, SegSet, AllPostings
  <2>2. CASE fresh # {}
    <3> DEFINE x == PostingsOf(docs', fresh)
               S == SegSet \cup {x}
    <3>1. segs' = Append(segs, x)
      BY <1>1, <2>2
    <3> HIDE DEF x
    <3>2. segs \in Seq(S) /\ x \in S
      BY SeqMonotonic DEF IInv
    <3>3. /\ segs' \in Seq(S) /\ Len(segs') = Len(segs) + 1
          /\ \A i \in 1..Len(segs) : segs'[i] = segs[i]
          /\ segs'[Len(segs) + 1] = x
      BY <3>1, <3>2, AppendProperties
    <3>4. /\ DOMAIN segs = 1..Len(segs) /\ DOMAIN segs' = 1..(Len(segs) + 1)
          /\ Len(segs) \in Nat
      BY <3>2, <3>3
    <3>5. segs' \in Seq(SegSet')
      BY <3>3, OwnMembers DEF SegSet
    <3>6. AllPostings \subseteq AllPostings'
      BY <3>3, <3>4 DEF AllPostings
    <3>7. x \subseteq AllPostings'
      BY <3>3, <3>4 DEF AllPostings
    <3> QED BY <3>5, <3>6, <3>7 DEF x
  <2> QED BY <2>1, <2>2
<1>6. ASSUME NEW d \in Live', NEW g \in Grams(docs'[d].content)
      PROVE  \/ <<g, d>> \in AllPostings'
             \/ d \in Live /\ g \in Grams(docs[d].content)
  <2>1. CASE d \in fresh
    BY <1>5, <2>1, PostedOf
  <2>2. CASE d \notin fresh
    <3>1. d \in DOMAIN docs' \ fresh /\ docs'[d].live
      BY <2>2 DEF Live
    <3> QED BY <1>3, <3>1 DEF Live
  <2> QED BY <2>1, <2>2
<1>7. AllPosted => AllPosted'
  BY <1>5, <1>6 DEF AllPosted
<1>8. PostingsComplete => PostingsComplete'
  BY <1>1, <1>5, <1>6 DEF PostingsComplete
<1> QED BY <1>1, <1>4, <1>5, <1>7, <1>8 DEF IInv

LEMMA MergeStep == ASSUME IInv, Merge PROVE IInv'
<1>1. /\ docs' = [d \in Live |-> docs[d]]
      /\ segs' = <<{x \in Kept(AllPostings) : x[1] \notin stop'}>>
      /\ merges' = merges + 1
  BY DEF Merge
<1>2. DocsOK' /\ Live' = Live /\ Live \subseteq DOMAIN docs
  BY <1>1 DEF IInv, DocsOK, Live
<1> DEFINE kept == {x \in Kept(AllPostings) : x[1] \notin stop'}
<1>3. segs' \in Seq(SegSet') /\ AllPostings' = kept
  <2> HIDE DEF kept
  <2>1. segs' = <<kept>> /\ DOMAIN segs' = {1} /\ segs'[1] = kept
    BY <1>1 DEF kept
  <2> QED BY <2>1 DEF SegSet, AllPostings
<1>4. merges = 0 => PostingsComplete'
  <2> SUFFICES ASSUME AllPosted, NEW d \in Live', NEW g \in Grams(docs'[d].content) \ stop'
               PROVE  <<g, d>> \in AllPostings'
    BY DEF IInv, PostingsComplete
  <2>1. d \in Live /\ docs'[d] = docs[d]
    BY <1>1, <1>2
  <2>2. <<g, d>> \in AllPostings
    BY <2>1 DEF AllPosted
  <2>3. <<g, d>> \in Kept(AllPostings)
    BY <2>1, <2>2 DEF Kept, Live
  <2> QED BY <1>3, <2>3
<1> QED BY <1>1, <1>2, <1>3, <1>4 DEF IInv

LEMMA IInvStep == IInv /\ [GramNext]_<<tree, edits, indexVars>> => IInv'
<1> SUFFICES ASSUME IInv, [GramNext]_<<tree, edits, indexVars>> PROVE IInv'
  OBVIOUS
<1>1. CASE UNCHANGED indexVars
  BY <1>1 DEF indexVars, IInv, DocsOK, SegSet, AllPosted, PostingsComplete, Live, AllPostings
<1>2. CASE IndexStep
  BY <1>2, BuildStep, UpdateStep, MergeStep DEF IndexStep
<1>3. ASSUME NEW p \in Paths, Edit(p) PROVE UNCHANGED indexVars
  BY <1>3 DEF Edit
<1> QED BY <1>1, <1>2, <1>3 DEF GramNext

LEMMA Invariance == GramSpec => []IInv
BY InitIInv, IInvStep, PTL DEF GramSpec

---------------------------------------------------------------------------

\* Until the index is compacted for the second time since it was built, the
\* trigrams that a query narrows by have the posting of every live document.
THEOREM NarrowsUntilMergedTwice == GramSpec => []NarrowingComplete
<1>1. IInv => NarrowingComplete
  BY DEF IInv, NarrowingComplete
<1> QED BY <1>1, Invariance, PTL

---------------------------------------------------------------------------
(* The inductive invariant of a search *)

\* The document table is that of files, numbered
Documents ==
    /\ tree \in [Paths -> Texts]
    /\ IsFiniteSet(DOMAIN docs)
    /\ \A d \in DOMAIN docs :
           d \in Nat /\ docs[d].path \in Paths /\ docs[d].content \in Contents

\* What a query may read is among the texts seen
Reading ==
    /\ phase \in {"idle", "narrow", "verify", "pool", "answered"}
    /\ seen \in [Paths -> SUBSET Texts]
    /\ DOMAIN cache \subseteq Paths
    /\ \A p \in DOMAIN cache : cache[p] \in Texts
    /\ phase # "idle" =>
           /\ request \in Requests
           /\ \A p \in Paths : tree[p] \in seen[p]
           /\ \A p \in DOMAIN cache : cache[p] \in seen[p]

\* Only admitted documents are read
Candidates ==
    /\ todo \cup running \subseteq DOMAIN docs
    /\ \A d \in todo \cup running : ~Unconditional(request) /\ Allows(request, docs[d])
    /\ phase \notin {"verify", "pool"} => todo = {} /\ running = {} /\ found = {}

Meant(e) ==
    /\ e.path \in Paths
    /\ e.by # ByName =>
           /\ Allows(request, docs[e.doc])
           /\ Precise(request) => \E t \in seen[e.path] : MeantAt(request, t, e.line)

\* What is collected is meant
Entries ==
    /\ IsFiniteSet(found) /\ IsFiniteSet(answer)
    /\ \A e \in found : e.path = docs[e.doc].path
    /\ \A e \in found \cup answer : Meant(e)

\* There is as much as the limit asks for
Reached == request.mode # "content" /\ TheLimit > 0 /\ Cardinality(found) >= TheLimit

\* Every document that is due is still to be read or was found, unless the
\* limit is reached
Covered ==
    phase \in {"verify", "pool"} /\ Exhaustive(request) =>
        \/ Reached
        \/ \A d \in Due : d \in todo \cup running \/ \E e \in found : e.doc = d

SearchInv ==
    /\ IInv /\ Documents
    /\ Reading /\ Candidates /\ Entries /\ Covered
    /\ NothingMissed /\ NothingForeign /\ LimitMet

---------------------------------------------------------------------------
(* Lemmas about sets *)

\* A set of numbers that is not empty has a least member.
LEMMA Least ==
  ASSUME NEW T, T \subseteq Nat, T # {}
  PROVE  \E x \in T : \A y \in T : x <= y
<1> DEFINE Below == {ss \in Nat \X Nat : ss[1] < ss[2]}
<1>1. IsWellFoundedOn(Below, Nat)
  BY NatLessThanWellFounded DEF OpToRel
<1>2. PICK x \in T : \A y \in T : ~ (<<y, x>> \in Below)
  <2> HIDE DEF Below
  <2> QED BY <1>1, WFMin
<1>3. ASSUME NEW y \in T PROVE x <= y
  <2>1. x \in Nat /\ y \in Nat /\ <<y, x>> \notin Below
    BY <1>2
  <2> QED BY <2>1
<1> QED BY <1>3

\* If some finite sets of numbers had no greatest member, one of the fewest
\* members would be among them, and one member less would make it have one.
LEMMA Greatest ==
  ASSUME NEW S, S \subseteq Nat, S # {}, IsFiniteSet(S)
  PROVE  \E x \in S : \A y \in S : y <= x
<1> DEFINE Topped(T) == \E x \in T : \A y \in T : y <= x
           Odd(T) == T # {} /\ ~Topped(T)
           sizes == {Cardinality(T) : T \in {U \in SUBSET S : Odd(U)}}
<1> SUFFICES ASSUME ~Topped(S) PROVE FALSE
  OBVIOUS
<1>1. \A T \in SUBSET S : IsFiniteSet(T) /\ Cardinality(T) \in Nat
  BY FS_Subset, FS_CardinalityType
<1>2. sizes \subseteq Nat /\ Cardinality(S) \in sizes
  BY <1>1
<1>3. PICK T \in SUBSET S : Odd(T) /\ \A U \in SUBSET S : Odd(U) => Cardinality(T) <= Cardinality(U)
  <2>1. PICK n \in sizes : \A m \in sizes : n <= m
    BY <1>2, Least
  <2> QED BY <2>1
<1>4. PICK x \in T : TRUE
  BY <1>3
<1> DEFINE U == T \ {x}
<1>5. Cardinality(U) = Cardinality(T) - 1 /\ U \in SUBSET S /\ Cardinality(T) \in Nat
  BY <1>1, <1>3, <1>4, FS_RemoveElement
<1>6. ~Odd(U)
  <2> HIDE DEF U, Odd
  <2> QED BY <1>3, <1>5
<1>7. CASE U = {}
  <2>1. \A y \in T : y <= x
    BY <1>4, <1>7
  <2> QED BY <1>3, <1>4, <2>1
<1>8. CASE Topped(U)
  <2>1. PICK z \in U : \A y \in U : y <= z
    BY <1>8
  <2>2. x \in Nat /\ z \in Nat /\ T = U \cup {x} /\ z \in T /\ U \subseteq Nat
    BY <1>3, <1>4, <2>1
  <2>3. CASE x <= z
    <3>1. \A y \in T : y <= z
      BY <2>1, <2>2, <2>3
    <3> QED BY <1>3, <2>2, <3>1
  <2>4. CASE z <= x
    <3>1. \A y \in U : y <= x
      BY <2>1, <2>2, <2>4
    <3>2. \A y \in T : y <= x
      BY <2>2, <3>1
    <3> QED BY <1>3, <1>4, <3>2
  <2> QED BY <2>2, <2>3, <2>4
<1> QED BY <1>6, <1>7, <1>8

\* What a function maps a finite set to is finite, and no larger.
LEMMA ImageOf ==
  ASSUME NEW S, IsFiniteSet(S), NEW f, DOMAIN f = S
  PROVE  /\ IsFiniteSet({f[x] : x \in S})
         /\ Cardinality({f[x] : x \in S}) \in Nat
         /\ Cardinality({f[x] : x \in S}) <= Cardinality(S)
<1> DEFINE T == {f[x] : x \in S}
           g == [x \in S |-> f[x]]
<1>1. g \in Surjection(S, T)
  BY DEF Surjection
<1> HIDE DEF g
<1>2. IsFiniteSet(T) /\ Cardinality(T) <= Cardinality(S)
  BY <1>1, FS_Surjection
<1> QED BY <1>2, FS_CardinalityType

---------------------------------------------------------------------------
(* The document table *)

LEMMA FilesOf ==
  ASSUME tree \in [Paths -> Texts]
  PROVE  /\ IsFiniteSet(Files) /\ Files \subseteq Paths /\ Files \subseteq Nat
         /\ Cardinality(Files) \in Nat
         /\ \A p \in Files : tree[p] \in Contents
<1>1. Files \subseteq Paths /\ Files \subseteq Nat /\ IsFiniteSet(Files)
  BY GramAssumption, FS_Subset DEF Files
<1>2. \A p \in Files : tree[p] \in Contents
  BY DEF Files, Texts
<1> QED BY <1>1, <1>2, FS_CardinalityType

\* The files are numbered one after another.
LEMMA Ranked ==
  ASSUME tree \in [Paths -> Texts], NEW d \in 1..Cardinality(Files)
  PROVE  \E p \in Files : Rank(p) = d
<1> DEFINE n == Cardinality(Files)
           upTo(p) == {q \in Files : q <= p}
           f == [p \in Files |-> Rank(p)]
<1>1. IsFiniteSet(Files) /\ Files \subseteq Nat /\ n \in Nat
  BY FilesOf
<1>2. ASSUME NEW p \in Files
      PROVE  /\ IsFiniteSet(upTo(p)) /\ Rank(p) = Cardinality(upTo(p))
             /\ Rank(p) \in 1..n
  <2>1. IsFiniteSet(upTo(p)) /\ Cardinality(upTo(p)) <= n
    BY <1>1, FS_Subset
  <2>2. Cardinality(upTo(p)) \in Nat
    BY <2>1, FS_CardinalityType
  <2>3. p \in upTo(p)
    BY <1>1
  <2>4. Cardinality(upTo(p)) # 0
    BY <2>1, <2>3, FS_EmptySet
  <2> QED BY <1>1, <2>1, <2>2, <2>4 DEF Rank
<1>3. ASSUME NEW p \in Files, NEW q \in Files, p < q PROVE Rank(p) # Rank(q)
  <2>1. p \in Nat /\ q \in Nat /\ \A x \in Files : x \in Nat
    BY <1>1
  <2>2. \A x \in Files : x <= p => x <= q
    BY <1>3, <2>1
  <2>3. q <= q /\ ~(q <= p)
    BY <1>3, <2>1
  <2>4. upTo(p) \subseteq upTo(q) /\ q \in upTo(q) /\ q \notin upTo(p)
    BY <2>2, <2>3
  <2>5. Cardinality(upTo(p)) # Cardinality(upTo(q))
    BY <1>2, <2>4, FS_Subset
  <2> QED BY <1>2, <2>5
<1>4. f \in Injection(Files, 1..n)
  <2>1. f \in [Files -> 1..n]
    BY <1>2
  <2>2. ASSUME NEW p \in Files, NEW q \in Files, f[p] = f[q] PROVE p = q
    <3>1. p \in Nat /\ q \in Nat /\ Rank(p) = Rank(q)
      BY <1>1, <2>2
    <3> QED BY <1>3, <3>1
  <2> HIDE DEF f
  <2> QED BY <2>1, <2>2 DEF Injection, IsInjective
<1> HIDE DEF f
<1>5. IsFiniteSet(1..n) /\ Cardinality(1..n) = n
  BY <1>1, FS_Interval
<1>6. f \in Surjection(Files, 1..n)
  BY <1>4, <1>5, FS_Injection
<1>7. PICK p \in Files : f[p] = d
  BY <1>6 DEF Surjection
<1> QED BY <1>7 DEF f

LEMMA BuildDocuments ==
  ASSUME Documents, Build PROVE Documents'
<1> DEFINE n == Cardinality(Files)
           fileOf(d) == CHOOSE p \in Files : Rank(p) = d
<1>1. tree \in [Paths -> Texts] /\ tree' = tree /\ n \in Nat
  BY FilesOf DEF Documents, Build
<1>2. docs' = [d \in 1..n |-> Doc(fileOf(d))] /\ DOMAIN docs' = 1..n
  BY DEF Build, BuiltDocs
<1>3. IsFiniteSet(DOMAIN docs')
  BY <1>1, <1>2, FS_Interval
<1>4. ASSUME NEW d \in DOMAIN docs'
      PROVE  d \in Nat /\ docs'[d].path \in Paths /\ docs'[d].content \in Contents
  <2>1. fileOf(d) \in Files /\ d \in Nat
    BY <1>1, <1>2, Ranked
  <2>2. docs'[d] = Doc(fileOf(d))
    BY <1>2
  <2> HIDE DEF fileOf
  <2>3. fileOf(d) \in Paths /\ tree[fileOf(d)] \in Contents
    BY <1>1, <2>1, FilesOf
  <2>4. docs'[d].path = fileOf(d) /\ docs'[d].content = tree[fileOf(d)]
    BY <2>2 DEF Doc
  <2> QED BY <2>1, <2>3, <2>4
<1> QED BY <1>1, <1>3, <1>4 DEF Documents

LEMMA UpdateDocuments ==
  ASSUME IInv, Documents, Update PROVE Documents'
<1> DEFINE S == Stale \cap Files
           fresh == {NewNumber(p) : p \in S}
           pathOf(m) == CHOOSE p \in S : NewNumber(p) = m
<1>1. tree \in [Paths -> Texts] /\ tree' = tree /\ DOMAIN docs # {}
  BY DEF Documents, Update
<1>2. docs' = [d \in DOMAIN docs \cup fresh |->
                 IF d \in fresh THEN Doc(pathOf(d))
                 ELSE [docs[d] EXCEPT !.live = @ /\ docs[d].path \notin Stale]]
  BY DEF Update
<1>3. IsFiniteSet(S) /\ S \subseteq Files
  BY <1>1, FilesOf, FS_Subset
<1>4. ASSUME NEW p \in S PROVE NewNumber(p) \in Nat
  <2> DEFINE before == {q \in S : q <= p}
             top == CHOOSE m \in DOMAIN docs : \A d \in DOMAIN docs : d <= m
  <2>1. Cardinality(before) \in Nat
    BY <1>3, FS_Subset, FS_CardinalityType
  <2>2. \E m \in DOMAIN docs : \A d \in DOMAIN docs : d <= m
    BY <1>1, Greatest DEF Documents
  <2>3. top \in DOMAIN docs
    BY <2>2
  <2>4. top \in Nat
    BY <2>3 DEF Documents
  <2>5. NewNumber(p) = Cardinality(before) + IF docs = << >> THEN 0 ELSE top
    BY DEF NewNumber
  <2> HIDE DEF before, top
  <2> QED BY <2>1, <2>4, <2>5
<1>5. IsFiniteSet(fresh)
  <2> DEFINE f == [p \in S |-> NewNumber(p)]
  <2>1. DOMAIN f = S /\ fresh = {f[p] : p \in S}
    OBVIOUS
  <2> HIDE DEF f
  <2> QED BY <1>3, <2>1, ImageOf
<1>6. IsFiniteSet(DOMAIN docs')
  BY <1>2, <1>5, FS_Union DEF Documents
<1>7. ASSUME NEW d \in DOMAIN docs'
      PROVE  d \in Nat /\ docs'[d].path \in Paths /\ docs'[d].content \in Contents
  <2>1. CASE d \in fresh
    <3>1. d \in Nat
      BY <1>4, <2>1
    <3>2. pathOf(d) \in S
      BY <2>1
    <3>3. docs'[d] = Doc(pathOf(d))
      BY <1>2, <2>1
    <3> HIDE DEF pathOf
    <3>4. pathOf(d) \in Paths /\ tree[pathOf(d)] \in Contents
      BY <1>1, <1>3, <3>2, FilesOf
    <3>5. docs'[d].path = pathOf(d) /\ docs'[d].content = tree[pathOf(d)]
      BY <3>3 DEF Doc
    <3> QED BY <3>1, <3>4, <3>5
  <2>2. CASE d \notin fresh
    <3> DEFINE kept == docs[d].live /\ docs[d].path \notin Stale
    <3> HIDE DEF fresh
    <3>1. d \in DOMAIN docs /\ docs'[d] = [docs[d] EXCEPT !.live = kept]
      BY <1>2, <2>2
    <3>2. docs[d] = [path |-> docs[d].path, content |-> docs[d].content, live |-> docs[d].live]
      BY <3>1 DEF IInv, DocsOK
    <3> HIDE DEF kept
    <3>3. docs'[d] = [path |-> docs[d].path, content |-> docs[d].content, live |-> kept]
      BY <3>1, <3>2
    <3>4. docs'[d].content = docs[d].content /\ docs'[d].path = docs[d].path
      BY <3>3
    <3> QED BY <3>1, <3>4 DEF Documents
  <2> QED BY <2>1, <2>2
<1> QED BY <1>1, <1>6, <1>7 DEF Documents

LEMMA MergeDocuments ==
  ASSUME Documents, Merge PROVE Documents'
<1>1. tree' = tree /\ docs' = [d \in Live |-> docs[d]] /\ Live \subseteq DOMAIN docs
  BY DEF Merge, Live
<1>2. IsFiniteSet(DOMAIN docs')
  BY <1>1, FS_Subset DEF Documents
<1> QED BY <1>1, <1>2 DEF Documents

---------------------------------------------------------------------------
(* Steps of a search *)

LEMMA IndexKept ==
  ASSUME IInv, Documents, UNCHANGED <<tree, edits, indexVars>>
  PROVE  IInv' /\ Documents'
<1>1. IInv'
  BY IInvStep
<1>2. tree' = tree /\ docs' = docs
  BY DEF indexVars
<1> QED BY <1>1, <1>2 DEF Documents

LEMMA NotAnswered ==
  ASSUME phase' # "answered" PROVE NothingMissed' /\ NothingForeign' /\ LimitMet'
BY DEF NothingMissed, NothingForeign, LimitMet, Answered

LEMMA DueKept ==
  ASSUME UNCHANGED <<docs, stop, request, seen>> PROVE Due' = Due
BY DEF Due, Unchanged, Live

\* A text that is edited is due no longer, and none is due anew.
LEMMA DueShrinks ==
  ASSUME SearchInv, phase # "idle", NEW p \in Paths, EditFile(p)
  PROVE  Due' \subseteq Due
<1>1. /\ docs' = docs /\ stop' = stop /\ request' = request
      /\ seen' = [seen EXCEPT ![p] = @ \cup {tree'[p]}]
  BY DEF EditFile, Edit, indexVars
<1>2. seen \in [Paths -> SUBSET Texts] /\ \A q \in Paths : seen[q] # {}
  BY DEF SearchInv, Reading
<1>3. \A d \in DOMAIN docs : docs[d].path \in Paths
  BY DEF SearchInv, Documents
<1>4. ASSUME NEW q \in Paths, NEW c, seen'[q] = {c} PROVE seen[q] = {c}
  BY <1>1, <1>2, <1>4
<1>5. Unchanged' \subseteq Unchanged
  BY <1>1, <1>3, <1>4 DEF Unchanged, Live
<1> QED BY <1>1, <1>5 DEF Due

\* Enough is at least what the limit asks for.
LEMMA EnoughReached ==
  ASSUME SearchInv, phase # "idle", Enough PROVE Reached
<1>1. request \in Requests /\ Cardinality(found) \in Nat
  BY FS_CardinalityType DEF SearchInv, Reading, Entries
<1>2. TheLimit \in Nat /\ request.mode \in Modes
  BY <1>1, SearchAssumption DEF TheLimit
<1>3. Target >= TheLimit /\ Target \in Nat
  BY <1>2 DEF Target
<1>4. CASE request.mode = "scored"
  <2>1. TheLimit > 0 /\ Cardinality(found) >= Target
    BY <1>4 DEF Enough
  <2> QED BY <1>1, <1>2, <1>3, <1>4, <2>1 DEF Reached
<1>5. CASE request.mode = "files"
  BY <1>5 DEF Enough, Reached
<1>6. CASE request.mode \notin {"scored", "files"}
  BY <1>6 DEF Enough
<1> QED BY <1>4, <1>5, <1>6

\* What one text contributes is finite, meant, and something if it is wanted.
LEMMA Contribution ==
  ASSUME SearchInv, phase # "idle", ~Unconditional(request),
         NEW d \in DOMAIN docs, Allows(request, docs[d]), NEW t \in seen[docs[d].path]
  PROVE  /\ IsFiniteSet(Collected(d, t))
         /\ \A e \in Collected(d, t) :
                e.doc = d /\ e.path = docs[d].path /\ Meant(e)
         /\ t \in Contents /\ Exhaustive(request) /\ Wanted(request, t)
                => Collected(d, t) # {}
<1> DEFINE ms == Yields(request, t)
           f == [m \in ms |-> Entry(d, m)]
<1>1. request \in Requests /\ docs[d].path \in Paths
  BY DEF SearchInv, Reading, Documents
<1>2. t \in Texts
  BY <1>1 DEF SearchInv, Reading
<1>3. IsFiniteSet(ms)
      /\ \A m \in ms : m.by # ByName /\ (Precise(request) => MeantAt(request, t, m.line))
  BY <1>1, <1>2, SearchAssumption
<1>4. IsFiniteSet(Collected(d, t))
  <2>1. DOMAIN f = ms /\ Collected(d, t) = {f[m] : m \in ms}
    BY DEF Collected
  <2> HIDE DEF f, ms
  <2> QED BY <1>3, <2>1, ImageOf
<1>5. ASSUME NEW e \in Collected(d, t)
      PROVE  e.doc = d /\ e.path = docs[d].path /\ Meant(e)
  <2>1. PICK m \in ms : e = Entry(d, m)
    BY DEF Collected
  <2>2. e.doc = d /\ e.path = docs[d].path /\ e.line = m.line /\ e.by = m.by
    BY <2>1 DEF Entry
  <2>3. Precise(request) => MeantAt(request, t, e.line)
    BY <1>3, <2>2
  <2> QED BY <1>1, <2>2, <2>3 DEF Meant
<1>6. t \in Contents /\ Exhaustive(request) /\ Wanted(request, t) => Collected(d, t) # {}
  <2> SUFFICES ASSUME t \in Contents, Exhaustive(request), Wanted(request, t)
               PROVE  ms # {}
    BY DEF Collected
  <2> QED BY <1>1, SearchAssumption
<1> QED BY <1>4, <1>5, <1>6

\* A document leaves the candidates with what one of its texts contributes.
LEMMA Collecting ==
  ASSUME SearchInv, phase \in {"verify", "pool"}, NEW d \in todo \cup running,
         NEW t \in seen[docs[d].path], found' = found \cup Collected(d, t),
         todo' \cup running' \subseteq todo \cup running,
         todo \cup running \subseteq todo' \cup running' \cup {d},
         UNCHANGED <<docs, stop, request, seen, answer, phase>>
  PROVE  Candidates' /\ Entries' /\ Covered'
<1>1. d \in DOMAIN docs /\ ~Unconditional(request) /\ Allows(request, docs[d])
  BY DEF SearchInv, Candidates
<1>2. /\ IsFiniteSet(Collected(d, t))
      /\ \A e \in Collected(d, t) : e.doc = d /\ e.path = docs[d].path /\ Meant(e)
      /\ t \in Contents /\ Exhaustive(request) /\ Wanted(request, t)
             => Collected(d, t) # {}
  BY <1>1, Contribution
<1>3. Candidates'
  BY DEF SearchInv, Candidates
<1>4. Entries'
  <2>1. IsFiniteSet(found') /\ IsFiniteSet(answer')
    BY <1>2, FS_Union DEF SearchInv, Entries
  <2>2. \A e \in found' : e.path = docs'[e.doc].path
    BY <1>2 DEF SearchInv, Entries
  <2>3. \A e \in found' \cup answer' : Meant(e)
    BY <1>2 DEF SearchInv, Entries
  <2>4. \A e : Meant(e) => Meant(e)'
    BY DEF Meant
  <2> QED BY <2>1, <2>2, <2>3, <2>4 DEF Entries
<1>5. Covered'
  <2> SUFFICES ASSUME Exhaustive(request), ~Reached'
               PROVE  \A x \in Due' : x \in todo' \cup running' \/ \E e \in found' : e.doc = x
    BY DEF Covered
  <2>1. ~Reached
    <3>1. IsFiniteSet(found') /\ found \subseteq found'
      BY <1>4 DEF Entries
    <3>2. Cardinality(found) <= Cardinality(found') /\ Cardinality(found) \in Nat
          /\ Cardinality(found') \in Nat
      BY <3>1, FS_Subset, FS_CardinalityType DEF SearchInv, Entries
    <3>3. TheLimit' = TheLimit /\ request' = request /\ TheLimit \in Nat
      BY SearchAssumption DEF TheLimit, SearchInv, Reading
    <3> QED BY <3>2, <3>3 DEF Reached
  <2>2. \A x \in Due : x \in todo \cup running \/ \E e \in found : e.doc = x
    BY <2>1 DEF SearchInv, Covered
  <2>3. ASSUME d \in Due PROVE \E e \in found' : e.doc = d
    <3>1. seen[docs[d].path] = {docs[d].content} /\ Wanted(request, docs[d].content)
      BY <2>3 DEF Due, Unchanged
    <3>2. t \in Contents /\ Wanted(request, t)
      BY <1>1, <3>1 DEF SearchInv, Documents
    <3> QED BY <1>2, <3>2
  <2>4. Due' = Due
    BY DueKept
  <2> QED BY <2>2, <2>3, <2>4
<1> QED BY <1>3, <1>4, <1>5

---------------------------------------------------------------------------
(* Every action keeps the invariant *)

LEMMA AskKeeps ==
  ASSUME SearchInv, NEW r \in Requests, Ask(r) PROVE SearchInv'
<1>1. /\ request' = r /\ phase' = "narrow" /\ found' = {} /\ answer' = {}
      /\ seen' = [p \in Paths |-> {tree[p]} \cup {cache[q] : q \in {p} \cap DOMAIN cache}]
      /\ UNCHANGED <<tree, edits, indexVars, cache, todo, running>>
  BY DEF Ask
<1>2. IInv' /\ Documents'
  BY <1>1, IndexKept DEF SearchInv
<1>3. Reading'
  <2>1. tree \in [Paths -> Texts] /\ DOMAIN cache \subseteq Paths
        /\ \A p \in DOMAIN cache : cache[p] \in Texts
    BY DEF SearchInv, Documents, Reading
  <2>2. seen' \in [Paths -> SUBSET Texts]
    BY <1>1, <2>1
  <2>3. \A p \in Paths : tree'[p] \in seen'[p]
    BY <1>1
  <2>4. \A p \in DOMAIN cache' : cache'[p] \in seen'[p]
    BY <1>1, <2>1
  <2> QED BY <1>1, <2>1, <2>2, <2>3, <2>4 DEF Reading
<1>4. Candidates' /\ Entries' /\ Covered'
  <2>1. phase \in {"idle", "answered"}
    BY DEF Ask
  <2>2. todo = {} /\ running = {}
    BY <2>1 DEF SearchInv, Candidates
  <2>3. Candidates'
    BY <1>1, <2>2 DEF Candidates
  <2>4. Entries'
    BY <1>1, FS_EmptySet DEF Entries
  <2>5. Covered'
    BY <1>1 DEF Covered
  <2> QED BY <2>3, <2>4, <2>5
<1> QED BY <1>1, <1>2, <1>3, <1>4, NotAnswered DEF SearchInv

\* What a step that reads leaves of the cache is among the texts seen.
LEMMA ReadingKept ==
  ASSUME SearchInv, phase # "idle", NEW ps \in SUBSET Paths,
         cache' \in {cache, WithReads(ps)},
         phase' \in {"verify", "pool", "answered"},
         UNCHANGED <<tree, seen, request>>
  PROVE  Reading'
<1>1. /\ DOMAIN cache \subseteq Paths
      /\ \A p \in Paths : tree[p] \in seen[p]
      /\ \A p \in DOMAIN cache : cache[p] \in seen[p]
      /\ seen \in [Paths -> SUBSET Texts]
  BY DEF SearchInv, Reading
<1>2. CASE cache' = cache
  BY <1>2 DEF SearchInv, Reading
<1>3. CASE cache' = WithReads(ps)
  <2>1. DOMAIN cache' \subseteq Paths
    BY <1>1, <1>3 DEF WithReads
  <2>2. \A p \in DOMAIN cache' : cache'[p] = Cached(p)
    BY <1>3 DEF WithReads
  <2>3. \A p \in DOMAIN cache' : cache'[p] \in seen[p]
    BY <1>1, <2>1, <2>2 DEF Cached
  <2>4. \A p \in DOMAIN cache' : cache'[p] \in Texts
    BY <1>1, <2>1, <2>3
  <2> QED BY <2>1, <2>3, <2>4 DEF SearchInv, Reading
<1> QED BY <1>2, <1>3

LEMMA NarrowKeeps ==
  ASSUME SearchInv, NEW ds \in SUBSET DOMAIN docs, NEW ps \in SUBSET Paths,
         NarrowTo(ds, ps), KeepsPromise(ds)
  PROVE  SearchInv'
<1>1. /\ phase = "narrow" /\ phase' \in {"verify", "pool"}
      /\ cache' = WithReads(ps) /\ running' = {}
      /\ IF Unconditional(request)
         THEN found' = {Entry(d, Mark) : d \in ds} /\ todo' = {}
         ELSE found' = {} /\ todo' = ds
      /\ UNCHANGED <<tree, edits, indexVars, request, answer, asks, seen>>
  BY DEF NarrowTo
<1>2. IInv' /\ Documents'
  BY <1>1, IndexKept DEF SearchInv
<1>3. Reading'
  BY <1>1, ReadingKept
<1>4. docs' = docs /\ stop' = stop
  BY <1>1 DEF indexVars
<1>5. Due \subseteq ds /\ \A d \in ds : Allows(request, docs[d])
  BY DEF KeepsPromise
<1>6. Candidates'
  BY <1>1, <1>4, <1>5 DEF Candidates
<1>7. ASSUME Unconditional(request), NEW d \in ds, NEW e, e = Entry(d, Mark)
      PROVE  e.doc = d /\ e.path = docs[d].path /\ Meant(e)'
  <2> DEFINE p == docs[d].path
  <2>1. e.doc = d /\ e.path = p /\ e.line = Mark.line /\ p \in Paths
    BY <1>7 DEF Entry, SearchInv, Documents
  <2>2. tree[p] \in seen[p] /\ tree[p] \in Texts /\ request \in Requests
    BY <1>1, <2>1 DEF SearchInv, Reading, Documents
  <2>3. Precise(request) => MeantAt(request, tree[p], e.line)
    BY <1>7, <2>1, <2>2, SearchAssumption
  <2>4. Meant(e)'
    BY <1>1, <1>4, <1>5, <2>1, <2>2, <2>3 DEF Meant
  <2> QED BY <2>1, <2>4
<1>8. Entries'
  <2>1. IsFiniteSet(found')
    <3>1. CASE Unconditional(request)
      <4> DEFINE f == [d \in ds |-> Entry(d, Mark)]
      <4>1. found' = {f[d] : d \in ds} /\ DOMAIN f = ds
        BY <1>1, <3>1
      <4>2. IsFiniteSet(ds)
        BY FS_Subset DEF SearchInv, Documents
      <4> HIDE DEF f
      <4> QED BY <4>1, <4>2, ImageOf
    <3>2. CASE ~Unconditional(request)
      BY <1>1, <3>2, FS_EmptySet
    <3> QED BY <3>1, <3>2
  <2>2. \A e \in found' : e.path = docs'[e.doc].path /\ Meant(e)'
    BY <1>1, <1>4, <1>7
  <2>3. \A e \in answer : Meant(e)'
    <3>1. \A e \in answer : Meant(e)
      BY DEF SearchInv, Entries
    <3> QED BY <1>1, <1>4, <3>1 DEF Meant
  <2> QED BY <1>1, <2>1, <2>2, <2>3 DEF Entries, SearchInv
<1>9. Covered'
  <2>1. Due' = Due
    BY <1>1, <1>4, DueKept
  <2>2. \A d \in ds : d \in todo' \cup running' \/ \E e \in found' : e.doc = d
    BY <1>1, <1>7
  <2> QED BY <1>5, <2>1, <2>2 DEF Covered
<1> QED BY <1>1, <1>2, <1>3, <1>6, <1>8, <1>9, NotAnswered DEF SearchInv

LEMMA VerifyNextKeeps ==
  ASSUME SearchInv, VerifyNext PROVE SearchInv'
<1> DEFINE d == CHOOSE x \in todo : \A y \in todo : x <= y
           p == docs[d].path
<1>1. /\ phase = "verify" /\ todo # {}
      /\ IF Enough THEN todo' = {} /\ UNCHANGED <<cache, found>>
         ELSE /\ todo' = todo \ {d}
              /\ found' = found \cup Collected(d, Cached(p))
              /\ cache' = WithReads({p})
      /\ UNCHANGED <<tree, edits, indexVars, phase, request, running, answer, asks, seen>>
  BY DEF VerifyNext
<1>2. IInv' /\ Documents'
  BY <1>1, IndexKept DEF SearchInv
<1>3. docs' = docs /\ stop' = stop
  BY <1>1 DEF indexVars
<1>4. d \in todo /\ p \in Paths
  <2>1. todo \subseteq DOMAIN docs /\ \A x \in DOMAIN docs : x \in Nat /\ docs[x].path \in Paths
    BY DEF SearchInv, Candidates, Documents
  <2>2. \E x \in todo : \A y \in todo : x <= y
    BY <1>1, <2>1, Least
  <2>3. d \in todo
    BY <2>2
  <2> QED BY <2>1, <2>3
<1> HIDE DEF d, p
<1>5. Reading'
  BY <1>1, <1>4, ReadingKept
<1>6. Candidates' /\ Entries' /\ Covered'
  <2>1. CASE Enough
    <3>1. Reached /\ todo' = {} /\ found' = found
      BY <1>1, <2>1, EnoughReached
    <3>2. Reached'
      BY <1>1, <3>1 DEF Reached, TheLimit
    <3>3. Candidates'
      BY <1>1, <1>3, <3>1 DEF SearchInv, Candidates
    <3>4. Entries'
      BY <1>1, <1>3, <3>1 DEF SearchInv, Entries, Meant
    <3> QED BY <3>2, <3>3, <3>4 DEF Covered
  <2>2. CASE ~Enough
    <3>1. Cached(p) \in seen[p]
      BY <1>1, <1>4 DEF Cached, SearchInv, Reading
    <3> QED BY <1>1, <1>3, <1>4, <2>2, <3>1, Collecting DEF p
  <2> QED BY <2>1, <2>2
<1> QED BY <1>1, <1>2, <1>5, <1>6, NotAnswered DEF SearchInv

LEMMA TakeUpKeeps ==
  ASSUME SearchInv, NEW d \in todo, TakeUp(d) PROVE SearchInv'
<1>1. /\ phase = "pool" /\ todo' = todo \ {d}
      /\ running' = IF Enough THEN running ELSE running \cup {d}
      /\ UNCHANGED <<tree, edits, indexVars, phase, request, cache, found, answer,
                     asks, seen>>
  BY DEF TakeUp
<1>2. IInv' /\ Documents'
  BY <1>1, IndexKept DEF SearchInv
<1>3. docs' = docs /\ stop' = stop
  BY <1>1 DEF indexVars
<1>4. Reading'
  BY <1>1, ReadingKept
<1>5. Candidates'
  BY <1>1, <1>3 DEF SearchInv, Candidates
<1>6. Entries'
  BY <1>1, <1>3 DEF SearchInv, Entries, Meant
<1>7. Covered'
  <2>1. Due' = Due /\ Reached' = Reached
    BY <1>1, <1>3, DueKept DEF Reached, TheLimit
  <2>2. CASE Enough
    BY <1>1, <2>1, <2>2, EnoughReached DEF Covered
  <2>3. CASE ~Enough
    <3>1. todo' \cup running' = todo \cup running
      BY <1>1, <2>3
    <3> QED BY <1>1, <2>1, <3>1 DEF SearchInv, Covered
  <2> QED BY <2>2, <2>3
<1> QED BY <1>1, <1>2, <1>4, <1>5, <1>6, <1>7, NotAnswered DEF SearchInv

LEMMA VerifyOneKeeps ==
  ASSUME SearchInv, NEW d \in running, VerifyOne(d) PROVE SearchInv'
<1> DEFINE p == docs[d].path
<1>1. /\ phase = "pool" /\ running' = running \ {d}
      /\ found' = found \cup Collected(d, tree[p])
      /\ UNCHANGED <<tree, edits, indexVars, phase, request, cache, todo, answer,
                     asks, seen>>
  BY DEF VerifyOne
<1>2. IInv' /\ Documents'
  BY <1>1, IndexKept DEF SearchInv
<1>3. docs' = docs /\ stop' = stop
  BY <1>1 DEF indexVars
<1>4. Reading'
  BY <1>1, ReadingKept
<1>5. tree[p] \in seen[p]
  BY <1>1 DEF SearchInv, Candidates, Documents, Reading
<1>6. Candidates' /\ Entries' /\ Covered'
  BY <1>1, <1>3, <1>5, Collecting
<1> QED BY <1>1, <1>2, <1>4, <1>6, NotAnswered DEF SearchInv

\* Each document has an entry of its own.
LEMMA AsManyFound ==
  ASSUME SearchInv, \A d \in Due : \E e \in found : e.doc = d
  PROVE  Cardinality(Due) <= Cardinality(found)
<1> DEFINE f == [e \in found |-> e.doc]
           T == {f[e] : e \in found}
<1>1. IsFiniteSet(found)
  BY DEF SearchInv, Entries
<1>2. Due \subseteq T /\ DOMAIN f = found
  OBVIOUS
<1> HIDE DEF f
<1>3. IsFiniteSet(T) /\ Cardinality(T) \in Nat /\ Cardinality(T) <= Cardinality(found)
  BY <1>1, <1>2, ImageOf
<1> HIDE DEF T
<1>4. IsFiniteSet(Due) /\ Cardinality(Due) <= Cardinality(T)
  BY <1>2, <1>3, FS_Subset
<1>5. Cardinality(Due) \in Nat /\ Cardinality(found) \in Nat
  BY <1>1, <1>4, FS_CardinalityType
<1> QED BY <1>3, <1>4, <1>5

LEMMA NamesFinite ==
  ASSUME SearchInv
  PROVE  /\ IsFiniteSet(NameMatches)
         /\ \A e \in NameMatches : e.path \in Paths /\ e.by = ByName
<1> DEFINE hits  == {d \in Live : NamedBy(request, docs[d].path)}
           first == {d \in hits : Cardinality({e \in hits : e < d}) < TheLimit}
           new   == {x \in first : \A e \in found : e.path # docs[x].path}
           f     == [d \in new |-> Entry(d, [line |-> 1, by |-> ByName])]
<1>1. NameMatches = {f[d] : d \in new} /\ DOMAIN f = new
  BY DEF NameMatches
<1>2. new \subseteq DOMAIN docs
  BY DEF Live
<1>3. \A d \in new : f[d].path = docs[d].path /\ f[d].by = ByName
  BY DEF Entry
<1> HIDE DEF new, f
<1>4. IsFiniteSet(new)
  BY <1>2, FS_Subset DEF SearchInv, Documents
<1>5. IsFiniteSet(NameMatches)
  BY <1>1, <1>4, ImageOf
<1> QED BY <1>1, <1>2, <1>3, <1>5 DEF SearchInv, Documents

LEMMA FinishKeeps ==
  ASSUME SearchInv, Finish PROVE SearchInv'
<1> DEFINE named == IF request.mode = "scored" /\ ~Unconditional(request)
                    THEN NameMatches ELSE {}
           all == found \cup named
           size == IF TheLimit = 0 \/ request.mode = "content" \/ Cardinality(all) <= TheLimit
                   THEN Cardinality(all) ELSE TheLimit
<1>1. /\ phase \in {"verify", "pool"} /\ todo = {} /\ running = {}
      /\ phase' = "answered" /\ found' = {}
      /\ UNCHANGED <<tree, edits, indexVars, request, cache, todo, running, asks, seen>>
  BY DEF Finish
<1>2. answer' \subseteq all /\ Cardinality(answer') = size
  BY DEF Finish, Truncations
<1>3. IInv' /\ Documents'
  BY <1>1, IndexKept DEF SearchInv
<1>4. docs' = docs /\ stop' = stop /\ TheLimit' = TheLimit
  BY <1>1 DEF indexVars, TheLimit
<1>5. Reading'
  BY <1>1, ReadingKept
<1>6. Candidates' /\ Covered'
  BY <1>1 DEF Candidates, Covered
<1>7. /\ IsFiniteSet(found) /\ IsFiniteSet(all) /\ found \subseteq all
      /\ \A e \in all : e \in found \/ (e.path \in Paths /\ e.by = ByName)
  <2>1. IsFiniteSet(found)
    BY DEF SearchInv, Entries
  <2>2. named = NameMatches \/ named = {}
    OBVIOUS
  <2>3. IsFiniteSet(named) /\ \A e \in named : e.path \in Paths /\ e.by = ByName
    BY <2>2, NamesFinite, FS_EmptySet
  <2> HIDE DEF named
  <2>4. IsFiniteSet(all)
    BY <2>1, <2>3, FS_Union
  <2>5. \A e \in all : e \in found \/ e \in named
    OBVIOUS
  <2> HIDE DEF all
  <2>6. \A e \in all : e \in found \/ (e.path \in Paths /\ e.by = ByName)
    BY <2>3, <2>5
  <2>7. found \subseteq all
    BY DEF all
  <2> QED BY <2>1, <2>4, <2>6, <2>7
<1> HIDE DEF all
<1>8. IsFiniteSet(answer')
  BY <1>2, <1>7, FS_Subset
<1>9. Entries'
  <2>1. ASSUME NEW e \in answer' PROVE Meant(e)'
    <3>1. Meant(e)
      BY <1>2, <1>7 DEF SearchInv, Entries, Meant
    <3> QED BY <1>1, <1>4, <3>1 DEF Meant
  <2> QED BY <1>1, <1>8, <2>1, FS_EmptySet DEF Entries
<1>10. NothingForeign'
  BY <1>9 DEF Entries, Meant, NothingForeign
<1>11. Due' = Due
  BY <1>1, <1>4, DueKept
<1>12. /\ Cardinality(all) \in Nat /\ Cardinality(found) \in Nat
       /\ Cardinality(found) <= Cardinality(all)
       /\ request \in Requests /\ TheLimit \in Nat
  <2>1. request \in Requests
    BY <1>1 DEF SearchInv, Reading
  <2>2. TheLimit \in Nat
    BY <2>1, SearchAssumption DEF TheLimit
  <2> QED BY <1>7, <2>1, <2>2, FS_Subset, FS_CardinalityType
<1>13. Cardinality(answer') = Cardinality(all) => answer' = all
  BY <1>2, <1>7, FS_Subset
<1>14. ASSUME Exhaustive(request), ~Reached
       PROVE  \A d \in Due : \E e \in found : e.doc = d
  BY <1>1, <1>14 DEF SearchInv, Covered
<1>15. NothingMissed'
  <2> SUFFICES ASSUME TheLimit = 0 \/ request.mode = "content" \/ Cardinality(answer') < TheLimit,
                      Exhaustive(request), NEW d \in Due
               PROVE  \E e \in answer' : e.path = docs[d].path
    BY <1>1, <1>4, <1>11 DEF NothingMissed
  <2>1. answer' = all
    BY <1>2, <1>12, <1>13
  <2>2. ~Reached
    BY <1>12, <2>1 DEF Reached
  <2>3. PICK e \in found : e.doc = d
    BY <1>14, <2>2
  <2> QED BY <1>7, <2>1, <2>3 DEF SearchInv, Entries
<1>16. LimitMet'
  <2> SUFFICES ASSUME request.mode # "content", TheLimit > 0
               PROVE  /\ Cardinality(answer') <= TheLimit
                      /\ Exhaustive(request) =>
                             Cardinality(answer') >= IF Cardinality(Due) < TheLimit
                                                     THEN Cardinality(Due) ELSE TheLimit
    BY <1>1, <1>4, <1>11 DEF LimitMet
  <2>1. Cardinality(answer') <= TheLimit
    BY <1>2, <1>12
  <2>2. ASSUME Exhaustive(request)
        PROVE  \/ Cardinality(answer') = TheLimit
               \/ Cardinality(answer') >= Cardinality(Due)
    <3>1. CASE Cardinality(all) <= TheLimit
      <4>1. Cardinality(answer') = Cardinality(all)
        BY <1>2, <3>1
      <4>2. CASE Reached
        BY <1>12, <3>1, <4>1, <4>2 DEF Reached
      <4>3. CASE ~Reached
        <5>1. Cardinality(Due) <= Cardinality(found)
          BY <1>14, <2>2, <4>3, AsManyFound
        <5>2. IsFiniteSet(Due)
          BY FS_Subset DEF SearchInv, Documents, Due, Unchanged, Live
        <5>3. Cardinality(Due) \in Nat
          BY <5>2, FS_CardinalityType
        <5> QED BY <1>12, <4>1, <5>1, <5>3
      <4> QED BY <4>2, <4>3
    <3>2. CASE ~(Cardinality(all) <= TheLimit)
      BY <1>2, <3>2
    <3> QED BY <3>1, <3>2
  <2>3. IsFiniteSet(Due)
    BY FS_Subset DEF SearchInv, Documents, Due, Unchanged, Live
  <2>4. Cardinality(Due) \in Nat /\ Cardinality(answer') \in Nat
    BY <1>8, <2>3, FS_CardinalityType
  <2> QED BY <1>12, <2>1, <2>2, <2>4
<1> QED BY <1>3, <1>5, <1>6, <1>9, <1>10, <1>15, <1>16 DEF SearchInv

LEMMA ForgetKeeps ==
  ASSUME SearchInv, NEW p \in Paths, Forget(p) PROVE SearchInv'
<1>1. /\ cache' = [q \in DOMAIN cache \ {p} |-> cache[q]]
      /\ UNCHANGED <<tree, edits, indexVars, phase, request, todo, running, found,
                     answer, asks, seen>>
  BY DEF Forget
<1>2. IInv' /\ Documents'
  BY <1>1, IndexKept DEF SearchInv
<1>3. docs' = docs /\ stop' = stop
  BY <1>1 DEF indexVars
<1>4. Reading'
  BY <1>1 DEF SearchInv, Reading
<1>5. Due' = Due /\ TheLimit' = TheLimit /\ Reached' = Reached
  BY <1>1, <1>3, DueKept DEF TheLimit, Reached
<1>6. Candidates' /\ Entries' /\ Covered'
  BY <1>1, <1>3, <1>5 DEF SearchInv, Candidates, Entries, Meant, Covered
<1>7. NothingMissed' /\ NothingForeign' /\ LimitMet'
  BY <1>1, <1>3, <1>5 DEF SearchInv, NothingMissed, NothingForeign, LimitMet, Answered
<1> QED BY <1>2, <1>4, <1>6, <1>7 DEF SearchInv

LEMMA EditFileKeeps ==
  ASSUME SearchInv, NEW p \in Paths, EditFile(p) PROVE SearchInv'
<1>1. /\ \E c \in Texts : tree' = [tree EXCEPT ![p] = c]
      /\ seen' = [seen EXCEPT ![p] = @ \cup {tree'[p]}]
      /\ UNCHANGED <<phase, request, cache, todo, running, found, answer, asks, indexVars>>
  BY DEF EditFile, Edit, Texts
<1>2. docs' = docs /\ stop' = stop /\ TheLimit' = TheLimit /\ Reached' = Reached
  BY <1>1 DEF indexVars, TheLimit, Reached
<1>3. IInv'
  <2>1. GramNext
    BY DEF EditFile, GramNext
  <2> QED BY <2>1, IInvStep DEF SearchInv
<1>4. tree \in [Paths -> Texts] /\ tree' \in [Paths -> Texts]
  BY <1>1 DEF SearchInv, Documents
<1>5. Documents'
  BY <1>2, <1>4 DEF SearchInv, Documents
<1>6. /\ seen' \in [Paths -> SUBSET Texts]
      /\ \A q \in Paths : seen[q] \subseteq seen'[q]
      /\ \A q \in Paths : tree'[q] = tree[q] \/ tree'[q] \in seen'[q]
  BY <1>1, <1>4 DEF SearchInv, Reading
<1>7. Reading'
  <2>1. phase' # "idle" => \A q \in Paths : tree'[q] \in seen'[q]
    BY <1>1, <1>6 DEF SearchInv, Reading
  <2>2. phase' # "idle" => \A q \in DOMAIN cache' : cache'[q] \in seen'[q]
    BY <1>1, <1>6 DEF SearchInv, Reading
  <2> QED BY <1>1, <1>6, <2>1, <2>2 DEF SearchInv, Reading
<1>8. Candidates'
  BY <1>1, <1>2 DEF SearchInv, Candidates
<1>9. \A e : Meant(e) => Meant(e)'
  BY <1>1, <1>2, <1>6 DEF Meant
<1>10. Entries'
  BY <1>1, <1>2, <1>9 DEF SearchInv, Entries
<1>11. NothingForeign'
  BY <1>10 DEF Entries, Meant, NothingForeign
<1>12. Covered' /\ NothingMissed' /\ LimitMet'
  <2>1. CASE phase = "idle"
    BY <1>1, <2>1 DEF Covered, NothingMissed, LimitMet, Answered
  <2>2. CASE phase # "idle"
    <3>1. Due' \subseteq Due
      BY <2>2, DueShrinks
    <3>2. Covered'
      BY <1>1, <1>2, <3>1 DEF SearchInv, Covered
    <3>3. NothingMissed'
      BY <1>1, <1>2, <3>1 DEF SearchInv, NothingMissed, Answered
    <3>4. LimitMet'
      <4>1. IsFiniteSet(Due) /\ IsFiniteSet(answer)
        BY FS_Subset DEF SearchInv, Documents, Entries, Due, Unchanged, Live
      <4>2. /\ Cardinality(Due) \in Nat /\ Cardinality(Due') \in Nat
            /\ Cardinality(Due') <= Cardinality(Due) /\ Cardinality(answer) \in Nat
        BY <3>1, <4>1, FS_Subset, FS_CardinalityType
      <4>3. TheLimit \in Nat
        BY <2>2, SearchAssumption DEF TheLimit, SearchInv, Reading
      <4>4. LimitMet /\ answer' = answer /\ request' = request /\ phase' = phase
        BY <1>1 DEF SearchInv
      <4> HIDE DEF Due
      <4> QED BY <1>2, <4>2, <4>3, <4>4 DEF LimitMet, Answered
    <3> QED BY <3>2, <3>3, <3>4
  <2> QED BY <2>1, <2>2
<1> QED BY <1>3, <1>5, <1>7, <1>8, <1>10, <1>11, <1>12 DEF SearchInv

LEMMA ReindexKeeps ==
  ASSUME SearchInv, Reindex PROVE SearchInv'
<1>1. /\ phase \in {"idle", "answered"} /\ IndexStep
      /\ phase' = "idle" /\ cache' = << >> /\ answer' = {} /\ seen' = NothingSeen
      /\ UNCHANGED <<todo, running, found, asks>>
  BY DEF Reindex
<1>2. IInv'
  BY <1>1, IInvStep DEF SearchInv, GramNext
<1>3. Documents'
  BY <1>1, BuildDocuments, UpdateDocuments, MergeDocuments DEF SearchInv, IndexStep
<1>4. Reading'
  BY <1>1 DEF Reading, NothingSeen
<1>5. Candidates'
  BY <1>1 DEF SearchInv, Candidates
<1>6. Entries'
  BY <1>1, FS_EmptySet DEF SearchInv, Candidates, Entries
<1>7. Covered'
  BY <1>1 DEF Covered
<1> QED BY <1>1, <1>2, <1>3, <1>4, <1>5, <1>6, <1>7, NotAnswered DEF SearchInv

LEMMA InitSearchInv == SearchInit => SearchInv
<1> SUFFICES ASSUME SearchInit PROVE SearchInv
  OBVIOUS
<1>1. IInv
  BY InitIInv DEF SearchInit
<1>2. Documents
  <2>1. tree \in [Paths -> Texts] /\ DOMAIN docs = {}
    BY GramAssumption DEF SearchInit, GramInit, Texts
  <2> QED BY <2>1, FS_EmptySet DEF Documents
<1>3. Reading
  BY DEF SearchInit, Reading, NothingSeen
<1>4. Candidates /\ Entries /\ Covered
  BY FS_EmptySet DEF SearchInit, Candidates, Entries, Covered
<1>5. NothingMissed /\ NothingForeign /\ LimitMet
  BY DEF SearchInit, NothingMissed, NothingForeign, LimitMet, Answered
<1> QED BY <1>1, <1>2, <1>3, <1>4, <1>5 DEF SearchInv

LEMMA SearchStep == SearchInv /\ [SearchNext]_searchVars => SearchInv'
<1> SUFFICES ASSUME SearchInv, [SearchNext]_searchVars PROVE SearchInv'
  OBVIOUS
<1>1. CASE UNCHANGED searchVars
  <2>1. UNCHANGED <<tree, edits, indexVars>>
    BY <1>1 DEF searchVars
  <2>2. IInv' /\ Documents'
    BY <2>1, IndexKept DEF SearchInv
  <2>3. /\ docs' = docs /\ stop' = stop /\ tree' = tree
        /\ UNCHANGED <<phase, request, cache, todo, running, found, answer, seen>>
    BY <1>1 DEF searchVars, indexVars
  <2>4. Due' = Due /\ TheLimit' = TheLimit /\ Reached' = Reached
    BY <2>3, DueKept DEF TheLimit, Reached
  <2>5. Reading' /\ Candidates' /\ Entries' /\ Covered'
    BY <2>3, <2>4 DEF SearchInv, Reading, Candidates, Entries, Meant, Covered
  <2>6. NothingMissed' /\ NothingForeign' /\ LimitMet'
    BY <2>3, <2>4 DEF SearchInv, NothingMissed, NothingForeign, LimitMet, Answered
  <2> QED BY <2>2, <2>5, <2>6 DEF SearchInv
<1>2. CASE Reindex
  BY <1>2, ReindexKeeps
<1>3. ASSUME NEW p \in Paths, EditFile(p) \/ Forget(p) PROVE SearchInv'
  BY <1>3, EditFileKeeps, ForgetKeeps
<1>4. CASE VerifyNext
  BY <1>4, VerifyNextKeeps
<1>5. ASSUME NEW d \in todo, TakeUp(d) PROVE SearchInv'
  BY <1>5, TakeUpKeeps
<1>6. ASSUME NEW d \in running, VerifyOne(d) PROVE SearchInv'
  BY <1>6, VerifyOneKeeps
<1>7. CASE Finish
  BY <1>7, FinishKeeps
<1>8. ASSUME NEW r \in Requests, Ask(r) PROVE SearchInv'
  BY <1>8, AskKeeps
<1>9. ASSUME NEW ds \in SUBSET DOMAIN docs, NEW ps \in SUBSET Paths,
             NarrowTo(ds, ps), KeepsPromise(ds)
      PROVE  SearchInv'
  BY <1>9, NarrowKeeps
<1> QED BY <1>1, <1>2, <1>3, <1>4, <1>5, <1>6, <1>7, <1>8, <1>9 DEF SearchNext, Searching

LEMMA SearchInvariance == SearchSpec => []SearchInv
BY InitSearchInv, SearchStep, PTL DEF SearchSpec

---------------------------------------------------------------------------

\* Whatever the candidates are, as long as no document that is due is missing
\* among them: none is missing from an answer that its limit did not cut, however
\* files change while they are read, one after another or by the threads.
THEOREM MissesNothing == SearchSpec => []NothingMissed
<1>1. SearchInv => NothingMissed
  BY DEF SearchInv
<1> QED BY <1>1, SearchInvariance, PTL

\* Every result is true of one text that the file had while the query ran, or
\* that was cached, and no filter rejects it.
THEOREM ShowsNothingForeign == SearchSpec => []NothingForeign
<1>1. SearchInv => NothingForeign
  BY DEF SearchInv
<1> QED BY <1>1, SearchInvariance, PTL

\* No answer exceeds its limit, and none that stopped early falls short of it.
THEOREM MeetsLimit == SearchSpec => []LimitMet
<1>1. SearchInv => LimitMet
  BY DEF SearchInv
<1> QED BY <1>1, SearchInvariance, PTL
=============================================================================
