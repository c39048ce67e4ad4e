---------------------------- MODULE SegmentFiles ----------------------------
(***************************************************************************)
(* The files of the segments of an index, written by a build, merged by    *)
(* compaction, cut short by a crash (nothing is synced to disk), and what  *)
(* the lookups of a reader make of them.                                   *)
(*                                                                         *)
(* Terms are numbers in the order of the dictionary and stand for trigrams *)
(* and for tokens: grams.* and tokens.* have one structure, and one        *)
(* dictionary of terms is both.  A text is the sequence of terms of a      *)
(* document, so a position is an index in it.  Which postings compaction   *)
(* leaves out is GramIndex's.                                              *)
(***************************************************************************)
EXTENDS SegmentEncoding

CONSTANTS Terms,      \* terms of the texts and of the queries
          Sources,    \* inputs of a build: doc id -> text
          ChunkSize,  \* documents per segment
          H1, H2,     \* the two hashes of a term (ahash with fixed seeds)
          Hashes,     \* num_hashes
          WordBits,   \* bits per word of a bloom filter (64)
          BloomWords, \* words of a new filter
          Queries     \* lookups asked

ASSUME SegmentAssumption ==
    /\ Terms \subseteq Nat
    /\ ChunkSize \in Nat \ {0} /\ WordBits \in Nat \ {0}
    /\ BloomWords \in Nat \ {0} /\ Hashes \in Nat \ {0}
    /\ H1 \in [Terms -> Nat] /\ H2 \in [Terms -> Nat]
    /\ \A s \in Sources : DOMAIN s \subseteq 1..MaxValue

VARIABLES
    texts,  \* history: the documents written, doc id -> text
    disk,   \* the segments: dictionary, postings, positions, bloom filter
    hurt,   \* history: documents of a segment of which a file was cut short
    query,  \* the last lookup
    answer  \* its documents

segmentVars == <<texts, disk, hurt, query, answer>>

NoQuery == [kind |-> "none"]

---------------------------------------------------------------------------
(* Bloom filters *)

BitsOf(t, numBits) == {(H1[t] + i * H2[t]) % numBits : i \in 0..(Hashes - 1)}

BloomOf(ts) == [words |-> BloomWords,
                bits  |-> UNION {BitsOf(t, BloomWords * WordBits) : t \in ts}]

MightContainAll(bloom, ts) ==
    \A t \in ts : BitsOf(t, bloom.words * WordBits) \subseteq bloom.bits

---------------------------------------------------------------------------
(* Writing a segment.  A postings list is a sequence of doc ids, a          *)
(* positions list one of documents with their positions.                    *)

Ascending(S) == SetToSortSeq(S, <)

\* encode_postings, and the flat writers: in order and without duplicates
EncodePostings(ds) == DeltaEncode(Ascending(Range(ds)))

\* Seeded fault: documents are counted where bytes should be
OffsetByCount(pieces, i) ==
    FoldLeft(LAMBDA n, b : n + Cardinality({k \in DOMAIN b : b[k] < Low}),
             0, SubSeq(pieces, 1, i - 1))

\* Where the i-th of some pieces laid end to end begins
Offset(pieces, i) == FoldLeft(LAMBDA n, b : n + Len(b), 0, SubSeq(pieces, 1, i - 1))

\* postings: term -> documents; positions: term -> entries
Segment(postings, positions) ==
    LET ts      == Ascending(DOMAIN postings)
        lists   == [i \in DOMAIN ts |-> EncodePostings(postings[ts[i]])]
        placed  == [i \in DOMAIN ts |->
                       IF ts[i] \in DOMAIN positions
                       THEN EncodePositionPostings(positions[ts[i]]) ELSE << >>]
    IN  [dict      |-> [i \in DOMAIN ts |->
                          [term      |-> ts[i],
                           offset    |-> Offset(lists, i),
                           length    |-> Len(lists[i]),
                           freq      |-> Cardinality(Range(postings[ts[i]])),
                           posOffset |-> Offset(placed, i),
                           posLength |-> Len(placed[i])]],
         postings  |-> FlattenSeq(lists),
         positions |-> FlattenSeq(placed),
         readable  |-> TRUE,
         bloom     |-> {BloomOf(DOMAIN postings)}]

TermsOf(src, ds) == UNION {Range(src[d]) : d \in ds}
WithTerm(src, ds, t) == {d \in ds : t \in Range(src[d])}
PositionsIn(text, t) == Ascending({i - 1 : i \in {j \in DOMAIN text : text[j] = t}})

SegmentOf(src, ds) ==
    LET entries(t) == LET with == Ascending(WithTerm(src, ds, t))
                      IN  [i \in DOMAIN with |->
                              [doc |-> with[i], at |-> PositionsIn(src[with[i]], t)]]
    IN  Segment([t \in TermsOf(src, ds) |-> Ascending(WithTerm(src, ds, t))],
                [t \in TermsOf(src, ds) |-> entries(t)])

---------------------------------------------------------------------------
(* Reading a segment (SegmentReader) *)

\* The entry of a term, as a set of at most one
EntryOf(seg, t) == {e \in Range(seg.dict) : e.term = t}

\* Bytes of a list, none if the file ends before it does
Slice(bytes, offset, length) ==
    IF offset + length > Len(bytes) THEN << >>
    ELSE SubSeq(bytes, offset + 1, offset + length)

TermDocs(seg, t) ==
    UNION {DeltaDecodeBitmap(Slice(seg.postings, e.offset, e.length)) : e \in EntryOf(seg, t)}

TermDocsIntersect(seg, t, filter) ==
    UNION {DeltaDecodeIntersect(Slice(seg.postings, e.offset, e.length), filter) :
              e \in EntryOf(seg, t)}

FreqOf(seg, t) == MapThenSumSet(LAMBDA e : e.freq, EntryOf(seg, t))

\* The rarest term first, then each of the others within what is left
GramDocsIn(seg, ts) ==
    LET order == SetToSortSeq(ts, LAMBDA t, u :
                    <<FreqOf(seg, t), t>> # <<FreqOf(seg, u), u>> /\
                    (FreqOf(seg, t) < FreqOf(seg, u) \/
                     (FreqOf(seg, t) = FreqOf(seg, u) /\ t < u)))
    IN  FoldLeft(LAMBDA docs, t : TermDocsIntersect(seg, t, docs),
                 TermDocs(seg, Head(order)), Tail(order))

\* A segment that cannot be opened is left out
Opened == {s \in DOMAIN disk : disk[s].readable}

\* get_trigram_docs_with_bloom: segments whose filter denies a term are skipped
GramDocs(ts) ==
    UNION {GramDocsIn(disk[s], ts) : s \in
        {r \in Opened : \A b \in disk[r].bloom : MightContainAll(b, ts)}}

TokenDocs(t) == UNION {TermDocs(disk[s], t) : s \in Opened}

\* get_token_docs_containing, given which tokens contain the needle
TokenDocsContaining(ts) ==
    UNION {TermDocs(disk[s], t) : t \in ts, s \in Opened}

\* get_token_positions; an empty set for "no position data"
PositionsOf(seg, t, within) ==
    {IF within = {} THEN DecodePositionPostings(b)
     ELSE DecodePositionPostingsFiltered(b, UNION within) : b \in
        {Slice(seg.positions, e.posOffset, e.posLength) : e \in
            {x \in EntryOf(seg, t) : /\ x.posLength # 0
                                     /\ x.posOffset + x.posLength <= Len(seg.positions)}}}

\* resolve_phrase_in_segment: phrase is a sequence of terms with positions
PhraseIn(seg, phrase, within) ==
    LET found  == [i \in DOMAIN phrase |-> PositionsOf(seg, phrase[i].term, within)]
        list(i) == CHOOSE l \in found[i] : TRUE
        has(i, d, n) == \E k \in DOMAIN list(i) : list(i)[k].doc = d /\ n \in Range(list(i)[k].at)
    IN  IF \E i \in DOMAIN phrase : found[i] = {} THEN {}
        ELSE {d \in {list(1)[k].doc : k \in DOMAIN list(1)} :
                \E n \in UNION {Range(list(1)[k].at) : k \in DOMAIN list(1)} :
                    /\ has(1, d, n)
                    /\ \A i \in DOMAIN phrase :
                           has(i, d, n + phrase[i].pos - phrase[1].pos)}

PhraseDocs(phrase, within) == UNION {PhraseIn(disk[s], phrase, within) : s \in Opened}

Lookup(q) ==
    CASE q.kind = "grams"      -> GramDocs(q.terms)
      [] q.kind = "token"      -> TokenDocs(q.term)
      [] q.kind = "containing" -> TokenDocsContaining(q.terms)
      [] q.kind = "phrase"     -> PhraseDocs(q.phrase, q.within)

---------------------------------------------------------------------------
(* Merging (merge_all_segments) *)

\* build_doc_id_remapping: live documents are numbered anew, in order
NewId(live, d) == Cardinality({e \in live : e <= d})

Merged(live) ==
    LET remap(ds) == Ascending({NewId(live, d) : d \in ds \cap live})
        listed(t) == UNION {TermDocs(disk[s], t) : s \in DOMAIN disk}
        known  == {t \in Terms : listed(t) \cap live # {}}
        entries(t) == UNION {UNION {Range(l) : l \in PositionsOf(disk[s], t, {})} :
                                s \in DOMAIN disk}
        places(t) == {[e EXCEPT !.doc = NewId(live, e.doc)] :
                         e \in {x \in entries(t) : x.doc \in live}}
    IN  Segment([t \in known |-> remap(listed(t))],
                [t \in {u \in known : places(u) # {}} |->
                    SetToSortSeq(places(t), LAMBDA x, y : x.doc < y.doc)])

---------------------------------------------------------------------------
(* Specification *)

Quiet == query' = NoQuery /\ answer' = {}

\* A full build: ChunkSize documents at a time
Write(src) ==
    /\ disk = << >>
    /\ LET ids == Ascending(DOMAIN src)
           chunk(s) == {ids[i] : i \in {j \in DOMAIN ids : (j - 1) \div ChunkSize + 1 = s}}
       IN  disk' = [s \in 1..((Len(ids) + ChunkSize - 1) \div ChunkSize) |->
                       SegmentOf(src, chunk(s))]
    /\ texts' = src
    /\ hurt' = {}
    /\ Quiet

\* Compaction fails on a dictionary it cannot read
Merge(live) ==
    /\ disk # << >>
    /\ Len(disk) > 1
    /\ Opened = DOMAIN disk
    /\ live # {}
    /\ disk' = <<Merged(live)>>
    /\ texts' = [n \in 1..Cardinality(live) |-> texts[CHOOSE d \in live : NewId(live, d) = n]]
    /\ hurt' = {NewId(live, d) : d \in hurt \cap live}
    /\ Quiet

\* After a power failure a file that was not synced may be shorter
Cut(s) ==
    /\ hurt = {}
    /\ \/ \E n \in 0..(Len(disk[s].postings) - 1) :
              disk' = [disk EXCEPT ![s].postings = SubSeq(@, 1, n)]
       \/ \E n \in 0..(Len(disk[s].positions) - 1) :
              disk' = [disk EXCEPT ![s].positions = SubSeq(@, 1, n)]
       \/ disk' = [disk EXCEPT ![s].readable = FALSE]
       \/ disk' = [disk EXCEPT ![s].bloom = {}]
    /\ hurt' = UNION {TermDocs(disk[s], t) : t \in Terms}
    /\ UNCHANGED texts
    /\ Quiet

Ask(q) ==
    /\ disk # << >>
    /\ query = NoQuery
    /\ query' = q
    /\ answer' = Lookup(q)
    /\ UNCHANGED <<texts, disk, hurt>>

Init ==
    /\ texts = << >>
    /\ disk = << >>
    /\ hurt = {}
    /\ query = NoQuery
    /\ answer = {}

Next ==
    \/ \E src \in Sources : Write(src)
    \/ \E live \in SUBSET DOMAIN texts : Merge(live)
    \/ \E s \in DOMAIN disk : Cut(s)
    \/ \E q \in Queries : Ask(q)

Spec == Init /\ [][Next]_segmentVars

---------------------------------------------------------------------------
(* Properties *)

\* The documents a lookup is about, from their texts
Reference(q) ==
    CASE q.kind = "grams"      -> {d \in DOMAIN texts : q.terms \subseteq Range(texts[d])}
      [] q.kind = "token"      -> {d \in DOMAIN texts : q.term \in Range(texts[d])}
      [] q.kind = "containing" -> {d \in DOMAIN texts : q.terms \cap Range(texts[d]) # {}}
      [] q.kind = "phrase"     ->
            {d \in IF q.within = {} THEN DOMAIN texts ELSE DOMAIN texts \cap UNION q.within :
                \E n \in DOMAIN texts[d] : \A i \in DOMAIN q.phrase :
                    LET at == n + q.phrase[i].pos - q.phrase[1].pos
                    IN  at \in DOMAIN texts[d] /\ texts[d][at] = q.phrase[i].term}

\* Every lookup on files that are whole finds exactly the documents whose text
\* it is about: through varints of every length, lists laid end to end, bloom
\* filters, the intersection that starts with the rarest term and stops early,
\* positions skipped undecoded, several segments and their merge
\* (encoding.rs, bloom.rs, segment_io.rs, reader.rs:602-765).
LookupExact == (query # NoQuery /\ hurt = {}) => answer = Reference(query)

\* A file cut short costs results of its own segment and never adds one: the
\* other segments are searched, what is left of the cut one is not read as other
\* documents, and a merge carries nothing else on (reader.rs:188-197, 346-372).
CutIsLocal ==
    query # NoQuery => /\ Reference(query) \ hurt \subseteq answer
                       /\ answer \subseteq Reference(query)
=============================================================================
