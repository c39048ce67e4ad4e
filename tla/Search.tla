------------------------------- MODULE Search -------------------------------
(***************************************************************************)
(* One process that answers queries from an open index: narrow by the      *)
(* postings, read each candidate file and test its text, collect,          *)
(* truncate.  Files change at any moment, also between the reads of one    *)
(* query; the index changes between queries, and the process then opens it *)
(* anew (the daemon's reload; the command line opens it for every query).  *)
(* A file changes by being replaced: it is not rewritten under a search    *)
(* that has mapped it into memory.                                         *)
(*                                                                         *)
(* What a request asks of a text is given by constants.  QueryEngine has   *)
(* the parser, planner and matcher that they stand for, and the lookups    *)
(* that choose the candidates; here these are any that keep the promise of *)
(* the index (KeepsPromise).                                               *)
(***************************************************************************)
EXTENDS GramIndex

CONSTANTS
    Requests,         \* queries asked; mode is "scored" (the daemon's search),
                      \* "content" (lines) or "files" (-l)
    NoRequest,        \* none yet
    LimitOf(_),       \* most results of a request, 0 for any number
    Unconditional(_), \* a request that no text has to be read for
    Yields(_, _),     \* what a text contributes: lines, and what matched there
    NamedBy(_, _),    \* the words of a request are in the name of a file
    ParallelOver,     \* candidates above this number are read in parallel
    MaxAsks           \* bound: queries

(* What a request means, apart from how it is answered *)
CONSTANTS
    Allows(_, _),      \* its filters admit a document
    MeantAt(_, _, _),  \* it means a text, and a line of it
    Wanted(_, _),      \* there is such a line in a text
    Promised(_, _, _), \* what an index that gives up on some trigrams still finds
    Precise(_),        \* its results follow its meaning
    Exhaustive(_)      \* ... and its meaning its results

Modes  == {"scored", "content", "files"}
Texts  == Contents \cup {Missing}
ByName == <<0>>

\* The sign that a file qualifies, whatever is in it
Mark == [line |-> 1, by |-> << >>]

\* The matcher finds nothing that a request does not mean, and something in each
\* text that it means
ASSUME SearchAssumption ==
    /\ ParallelOver \in Nat
    /\ MaxAsks \in Nat
    /\ NoRequest \notin Requests
    /\ \A r \in Requests :
        /\ r.mode \in Modes
        /\ LimitOf(r) \in Nat
        /\ Unconditional(r) /\ Precise(r) => \A t \in Texts : MeantAt(r, t, Mark.line)
        /\ ~Unconditional(r) =>
            /\ \A t \in Texts :
                /\ IsFiniteSet(Yields(r, t))
                /\ \A m \in Yields(r, t) :
                       m.by # ByName /\ (Precise(r) => MeantAt(r, t, m.line))
            /\ \A t \in Contents : Exhaustive(r) /\ Wanted(r, t) => Yields(r, t) # {}

VARIABLES
    phase,    \* "idle", "narrow", "verify" or "pool", "answered"
    request,  \* the query being answered
    cache,    \* file_cache of the reader: path -> content
    todo,     \* candidates not taken up yet
    running,  \* candidates that a thread of the pool has taken up
    found,    \* what was collected
    answer,   \* the results
    asks,     \* bound: queries so far
    seen      \* history: texts of each file that the query may have read

searchVars == <<tree, edits, indexVars,
                phase, request, cache, todo, running, found, answer, asks, seen>>

TheLimit == LimitOf(request)

NothingSeen == [p \in Paths |-> {}]

---------------------------------------------------------------------------
(* Reading files *)

InParallel(ds) == Cardinality(ds) > ParallelOver

\* read_file_cached: what the reader has read once it does not read again
Cached(p) == IF p \in DOMAIN cache THEN cache[p] ELSE tree[p]

WithReads(ps) ==
    [p \in DOMAIN cache \cup {q \in ps : tree[q] # Missing} |-> Cached(p)]

---------------------------------------------------------------------------
(* Collecting results *)

Entry(d, m) == [doc |-> d, path |-> docs[d].path, line |-> m.line, by |-> m.by]

\* What text t of document d contributes
Collected(d, t) == {Entry(d, m) : m \in Yields(request, t)}

\* Seeded fault: half of the limit instead of half as much again
HalfTarget == TheLimit \div 2

\* Early termination: scored searches collect half as much again as the limit
Target == TheLimit + TheLimit \div 2

Enough ==
    CASE request.mode = "scored" -> TheLimit > 0 /\ Cardinality(found) >= Target
      [] request.mode = "files"  -> TheLimit > 0 /\ Cardinality(found) >= TheLimit
      [] OTHER                   -> FALSE

\* find_filename_matches: the first limit documents, whatever the filters say
NameMatches ==
    LET hits  == {d \in Live : NamedBy(request, docs[d].path)}
        first == {d \in hits : Cardinality({e \in hits : e < d}) < TheLimit}
    IN  {Entry(d, [line |-> 1, by |-> ByName]) : d \in
            {x \in first : \A e \in found : e.path # docs[x].path}}

\* The order of the results (score, recency, path) is left open: which of
\* them the limit cuts off is not.  The files mode counts, the others sort and
\* cut; execute_with_content has no limit of its own.
Truncations(all) ==
    LET size == IF TheLimit = 0 \/ request.mode = "content" \/ Cardinality(all) <= TheLimit
                THEN Cardinality(all) ELSE TheLimit
    IN  {s \in SUBSET all : Cardinality(s) = size}

---------------------------------------------------------------------------
(* Answering a query *)

Ask(r) ==
    /\ phase \in {"idle", "answered"}
    /\ asks < MaxAsks
    /\ DOMAIN docs # {}
    /\ request' = r
    /\ asks' = asks + 1
    /\ phase' = "narrow"
    /\ found' = {}
    /\ answer' = {}
    /\ seen' = [p \in Paths |-> {tree[p]} \cup {cache[q] : q \in {p} \cap DOMAIN cache}]
    /\ UNCHANGED <<tree, edits, indexVars, cache, todo, running>>

\* The lookups leave the documents ds, having read the files of ps
NarrowTo(ds, ps) ==
    /\ phase = "narrow"
    /\ cache' = WithReads(ps)
    /\ IF Unconditional(request)
       THEN /\ found' = {Entry(d, Mark) : d \in ds}
            /\ todo' = {}
       ELSE /\ found' = {}
            /\ todo' = ds
    /\ running' = {}
    /\ phase' = IF InParallel(todo') THEN "pool" ELSE "verify"
    /\ UNCHANGED <<tree, edits, indexVars, request, answer, asks, seen>>

\* Few candidates: one after another, through the cache
VerifyNext ==
    /\ phase = "verify"
    /\ todo # {}
    /\ LET d == CHOOSE x \in todo : \A y \in todo : x <= y
           p == docs[d].path
       IN  IF Enough THEN todo' = {} /\ UNCHANGED <<cache, found>>
           ELSE /\ todo' = todo \ {d}
                /\ found' = found \cup Collected(d, Cached(p))
                /\ cache' = WithReads({p})
    /\ UNCHANGED <<tree, edits, indexVars, phase, request, running, answer, asks, seen>>

\* Many candidates: the threads of the pool look at the count of matches
\* before they read, and add to it after
TakeUp(d) ==
    /\ phase = "pool"
    /\ d \in todo
    /\ todo' = todo \ {d}
    /\ running' = IF Enough THEN running ELSE running \cup {d}
    /\ UNCHANGED <<tree, edits, indexVars, phase, request, cache, found, answer,
                   asks, seen>>

VerifyOne(d) ==
    /\ phase = "pool"
    /\ d \in running
    /\ running' = running \ {d}
    /\ found' = found \cup Collected(d, tree[docs[d].path])
    /\ UNCHANGED <<tree, edits, indexVars, phase, request, cache, todo, answer,
                   asks, seen>>

Finish ==
    /\ phase \in {"verify", "pool"}
    /\ todo = {} /\ running = {}
    /\ \E s \in Truncations(found \cup IF request.mode = "scored" /\ ~Unconditional(request)
                                       THEN NameMatches ELSE {}) :
           answer' = s
    /\ phase' = "answered"
    /\ found' = {}
    /\ UNCHANGED <<tree, edits, indexVars, request, cache, todo, running, asks, seen>>

---------------------------------------------------------------------------
(* The surroundings *)

\* The cache holds so many files; an entry may make room for another
Forget(p) ==
    /\ p \in DOMAIN cache
    /\ cache' = [q \in DOMAIN cache \ {p} |-> cache[q]]
    /\ UNCHANGED <<tree, edits, indexVars, phase, request, todo, running, found,
                   answer, asks, seen>>

EditFile(p) ==
    /\ Edit(p)
    /\ seen' = [seen EXCEPT ![p] = @ \cup {tree'[p]}]
    /\ UNCHANGED <<phase, request, cache, todo, running, found, answer, asks>>

\* The index is rewritten and opened again, with an empty cache
Reindex ==
    /\ phase \in {"idle", "answered"}
    /\ IndexStep
    /\ phase' = "idle"
    /\ cache' = << >>
    /\ request' = NoRequest
    /\ answer' = {}
    /\ seen' = NothingSeen
    /\ UNCHANGED <<todo, running, found, asks>>

---------------------------------------------------------------------------
(* What the lookups promise *)

\* Live documents whose file is, all the while, as it was indexed
Unchanged == {d \in Live : seen[docs[d].path] = {docs[d].content}}

\* The documents a complete answer has to name
Due == {d \in Unchanged : /\ Promised(request, docs[d].content, stop)
                          /\ Allows(request, docs[d])
                          /\ Wanted(request, docs[d].content)}

\* No document that is due is left out, and none that a filter rejects is left
KeepsPromise(ds) == Due \subseteq ds /\ \A d \in ds : Allows(request, docs[d])

---------------------------------------------------------------------------
(* Specification *)

SearchInit ==
    /\ GramInit
    /\ phase = "idle"
    /\ request = NoRequest
    /\ cache = << >>
    /\ todo = {} /\ running = {}
    /\ found = {} /\ answer = {}
    /\ asks = 0
    /\ seen = NothingSeen

\* Everything but the choice of the candidates
Searching ==
    \/ Reindex
    \/ \E p \in Paths : EditFile(p) \/ Forget(p)
    \/ VerifyNext
    \/ \E d \in todo : TakeUp(d)
    \/ \E d \in running : VerifyOne(d)
    \/ Finish

SearchNext ==
    \/ Searching
    \/ \E r \in Requests : Ask(r)
    \/ \E ds \in SUBSET DOMAIN docs, ps \in SUBSET Paths :
           NarrowTo(ds, ps) /\ KeepsPromise(ds)

SearchSpec == SearchInit /\ [][SearchNext]_searchVars

---------------------------------------------------------------------------
(* Properties *)

Answered == phase = "answered"

\* No promised document is missing from an answer that its limit did not cut,
\* whatever lookups, stop-grams, segments and exclusions stand between the query
\* and the file (executor.rs:586-742); with -l as without (SEMANTICS.md:71-72).
NothingMissed ==
    (/\ Answered
     /\ TheLimit = 0 \/ request.mode = "content" \/ Cardinality(answer) < TheLimit
     /\ Exhaustive(request))
        => \A d \in Due : \E e \in answer : e.path = docs[d].path

\* Every result is one the query means, by one single text that the file had
\* while the query ran, or that the reader had cached: nothing is taken from the
\* index alone, no text is pieced together from reads at different moments, and
\* no filter is lost (executor.rs:984-1100).
NothingForeign ==
    Answered => \A e \in answer : e.by # ByName
        => /\ Allows(request, docs[e.doc])
           /\ Precise(request) => \E t \in seen[e.path] : MeantAt(request, t, e.line)

\* A limit is kept, and is reached when there is enough to show, although a
\* search stops early and its threads count without waiting for each other
\* (executor.rs:197-214, 1050-1096).
LimitMet ==
    Answered /\ request.mode # "content" /\ TheLimit > 0
        => /\ Cardinality(answer) <= TheLimit
           /\ Exhaustive(request)
                => Cardinality(answer) >= IF Cardinality(Due) < TheLimit
                                          THEN Cardinality(Due) ELSE TheLimit
=============================================================================
