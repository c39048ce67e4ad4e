----------------------------- MODULE QueryEngine -----------------------------
(***************************************************************************)
(* Search with the query language in it: how a request is compiled, which  *)
(* documents the lookups of its plan leave, which lines of a text its      *)
(* condition matches, and what it means.                                   *)
(***************************************************************************)
EXTENDS Search, QueryLanguage

CONSTANTS Names  \* file name of each path

\* A request: the input, and the query and the plan it is compiled to; what is
\* meant by it, an expression and filters; -i; the mode, and the limit of "files"
ASSUME QueryAssumption ==
    /\ DOMAIN Names = Paths
    /\ \A r \in Requests : r.query = Parse(r.input) /\ r.plan = Plan(r.query, r.fold)

MaxResults(r) == IF r.mode = "files" THEN r.max ELSE r.query.limit

IndexOnly(r) == r.plan.cond = Nothing

---------------------------------------------------------------------------
(* Lookups in the segments (IndexReader, SegmentReader) *)

GramDocs(gs) ==
    UNION {{d \in DOMAIN docs : \A g \in gs : <<g, d>> \in segs[s]} : s \in DOMAIN segs}

TokensOf(d) == UNION {Tokens(docs[d].content[n]) : n \in DOMAIN docs[d].content}

TokenDocs(t)           == {d \in DOMAIN docs : t \in TokensOf(d)}
TokenDocsContaining(t) == {d \in DOMAIN docs : \E u \in TokensOf(d) : Occurs(t, u)}

\* The phrase's tokens stand in the document at the distances they have in it
PhraseDocs(toks) ==
    {d \in DOMAIN docs :
        LET at == TokensAt(Flat(docs[d].content))
        IN  \E x \in at :
                /\ x.token = toks[1].token
                /\ \A i \in 2..Len(toks) :
                       [token |-> toks[i].token,
                        pos   |-> x.pos + toks[i].pos - toks[1].pos] \in at}

\* Seeded fault: a word is looked up among the tokens alone
TokensOnly(step) == TokenDocs(step.token)

WordDocs(step) ==
    LET usable == step.grams \ stop
        parts  == {d \in DOMAIN docs : step.parts \subseteq TokensOf(d)}
    IN  TokenDocs(step.token) \cup
        IF usable # {} THEN GramDocs(usable)
        ELSE TokenDocsContaining(step.token) \cup
             IF Cardinality(step.parts) >= 2 THEN parts ELSE {}

SizeOf(content) == Len(Flat(content))

\* Seeded fault: a file is compared with one of the two sizes
OneSizeFilter(d, fs) ==
    /\ docs[d].live
    /\ \A f \in PathFields : \A ps \in fs.accepts[f] : docs[d].path \in ps
    /\ IF fs.sizeMin # {} THEN \A n \in fs.sizeMin : SizeOf(docs[d].content) >= n
       ELSE \A n \in fs.sizeMax : SizeOf(docs[d].content) <= n

\* apply_filter: the attributes are those of the document table
PassesFilter(d, fs) ==
    /\ docs[d].live
    /\ \A f \in PathFields : \A ps \in fs.accepts[f] : docs[d].path \in ps
    /\ \A n \in fs.sizeMin : SizeOf(docs[d].content) >= n
    /\ \A n \in fs.sizeMax : SizeOf(docs[d].content) <= n

---------------------------------------------------------------------------
(* Tests on the text of a file *)

LinesWhere(content, P(_)) == {n \in DOMAIN content : P(content[n])}

LinesWithText(content, t, fold) ==
    LinesWhere(content, LAMBDA l : IF fold THEN Occurs(Lowered(t), Lowered(l))
                                   ELSE Occurs(t, l))

\* Lines of the first term with every other term at most distance lines away
NearLines(content, terms, distance) ==
    {n \in LinesWithText(content, terms[1], TRUE) :
        \A i \in 2..Len(terms) : \E m \in LinesWithText(content, terms[i], TRUE) :
            m >= n - distance /\ m <= n + distance}

\* verify_content: the matching lines.  A line that several parts of the
\* condition match is collected once for each (by says which).  "Not" yields
\* line 1 as a sign that the file qualifies.
RECURSIVE Matches(_, _)
Matches(content, cond) ==
    LET lines(ns) == {[line |-> n, by |-> << >>] : n \in ns}
        part(i) == {[line |-> m.line, by |-> <<i>> \o m.by] :
                        m \in Matches(content, cond.nodes[i])}
        parts == UNION {part(i) : i \in DOMAIN cond.nodes}
    IN  CASE cond.kind \in {"literal", "boosted"} ->
                lines(LinesWithText(content, cond.text, TRUE))
          [] cond.kind = "phrase" -> lines(LinesWithText(content, cond.text, cond.fold))
          [] cond.kind = "regex"  ->
                lines(LinesWhere(content, LAMBDA l : RegexMatches(cond.branches, l, cond.fold)))
          [] cond.kind = "near"   -> lines(NearLines(content, cond.terms, cond.distance))
          [] cond.kind = "and"    ->
                IF \E i \in DOMAIN cond.nodes : Matches(content, cond.nodes[i]) = {}
                THEN {} ELSE parts
          [] cond.kind = "or"     -> parts
          [] cond.kind = "not"    ->
                IF Matches(content, cond.node) = {} THEN lines({1}) ELSE {}

\* has_match: is there any match.  A regex runs over the whole text at once.
RECURSIVE HasMatch(_, _)
HasMatch(content, cond) ==
    CASE cond.kind = "regex" -> RegexMatches(cond.branches, Flat(content), cond.fold)
      [] cond.kind = "and"   -> \A i \in DOMAIN cond.nodes : HasMatch(content, cond.nodes[i])
      [] cond.kind = "or"    -> \E i \in DOMAIN cond.nodes : HasMatch(content, cond.nodes[i])
      [] cond.kind = "not"   -> ~HasMatch(content, cond.node)
      [] OTHER               -> Matches(content, cond) # {}

\* read_file_mmap, of the threads of the pool
ReadFor(ds, p) == IF InParallel(ds) THEN tree[p] ELSE Cached(p)

---------------------------------------------------------------------------
(* execute_plan.  Every step narrows what the steps before it left; {} is   *)
(* no candidate set yet.  Exclusions come last, and read the files they     *)
(* are about; checked collects the documents read one after another.        *)

Narrowed(cands, ds) == IF cands = {} THEN {ds} ELSE {c \cap ds : c \in cands}

RECURSIVE Execute(_)
Execute(plan) ==
    LET lookup(acc, step) ==
            CASE step.step = "grams"  ->
                    IF step.grams \subseteq stop THEN acc
                    ELSE [acc EXCEPT !.cands = Narrowed(@, GramDocs(step.grams \ stop))]
              [] step.step = "token"  ->
                    [acc EXCEPT !.cands = Narrowed(@, TokenDocs(step.token))]
              [] step.step = "word"   ->
                    [acc EXCEPT !.cands = Narrowed(@, WordDocs(step))]
              [] step.step = "phrase" ->
                    [acc EXCEPT !.cands = Narrowed(@, PhraseDocs(step.tokens))]
              [] step.step = "union"  ->
                    LET subs == [i \in DOMAIN step.plans |-> Execute(step.plans[i])]
                    IN  [cands   |-> Narrowed(acc.cands,
                                        UNION {subs[i].docs : i \in DOMAIN subs}),
                         checked |-> acc.checked \cup
                                        UNION {subs[i].checked : i \in DOMAIN subs}]
              [] step.step = "filter" ->
                    LET from == IF acc.cands = {} THEN Live ELSE UNION acc.cands
                    IN  [acc EXCEPT !.cands =
                            {{d \in from : PassesFilter(d, step.filters)}}]
              [] OTHER                -> acc
        exclude(acc, step) ==
            IF step.step # "exclude" \/ UNION acc.cands = {} THEN acc
            ELSE LET sub   == Execute(step.plan)
                     check == sub.docs \cap UNION acc.cands
                     hit   == IF step.plan.cond = Nothing THEN check
                              ELSE {d \in check :
                                      LET c == ReadFor(check, docs[d].path)
                                      IN  c # Missing /\ HasMatch(c, step.plan.cond)}
                 IN  [cands   |-> {UNION acc.cands \ hit},
                      checked |-> acc.checked \cup sub.checked \cup
                                  IF InParallel(check) THEN {} ELSE check]
        looked   == FoldLeft(lookup, [cands |-> {}, checked |-> {}], plan.steps)
        excluded == FoldLeft(exclude, looked, plan.steps)
    IN  [docs    |-> IF excluded.cands = {} THEN Live ELSE UNION excluded.cands,
         checked |-> excluded.checked]

InLineRange(fs, n) ==
    /\ \A m \in fs.lineStart : n >= m
    /\ \A m \in fs.lineEnd : n <= m

\* What a text contributes to a request
MatchesOf(r, t) ==
    IF t = Missing THEN {}
    ELSE IF r.mode = "files"
    THEN IF HasMatch(t, r.plan.cond) THEN {Mark} ELSE {}
    ELSE {m \in Matches(t, r.plan.cond) : InLineRange(r.query.filters, m.line)}

---------------------------------------------------------------------------
(* Names of files *)

Words(t) ==
    {SubSeq(t, w[1], w[2]) : w \in {x \in (DOMAIN t) \X (DOMAIN t) :
        /\ x[1] <= x[2]
        /\ \A k \in x[1]..x[2] : t[k] # " "
        /\ x[1] = 1 \/ t[x[1] - 1] = " "
        /\ x[2] = Len(t) \/ t[x[2] + 1] = " "}}

\* The letters and digits a pattern starts with
LeadingText(branches) ==
    LET items == branches[1].items
        plain == {n \in 0..Len(items) : /\ \A i \in 1..n : items[i].char \in Alnum
                                       /\ \A i \in 1..(n - 1) : items[i].times = "1"}
    IN  IF branches[1].head THEN << >>
        ELSE LET n == CHOOSE n \in plain : \A m \in plain : m <= n
             IN  [i \in 1..n |-> items[i].char]

\* Words that a file name is searched for: not those under a "not"
RECURSIVE NameTerms(_)
NameTerms(cond) ==
    LET long(ts) == {Lowered(t) : t \in {x \in ts : Len(x) >= 2}}
    IN  CASE cond.kind \in {"literal", "boosted", "phrase"} -> long(Words(cond.text))
          [] cond.kind = "regex" -> IF cond.fold THEN {} ELSE long({LeadingText(cond.branches)})
          [] cond.kind = "near"  -> long({cond.terms[i] : i \in DOMAIN cond.terms})
          [] cond.kind \in {"and", "or"} ->
                UNION {NameTerms(cond.nodes[i]) : i \in DOMAIN cond.nodes}
          [] OTHER -> {}

\* filename_matches_terms
NameMatchesTerms(r, p) ==
    \E t \in NameTerms(r.plan.cond) : Occurs(t, Lowered(Names[p]))

---------------------------------------------------------------------------
(* Specification *)

AskQuery(r) == ~IsEmptyQuery(r.query) /\ Ask(r)

Narrow ==
    /\ phase = "narrow"
    /\ LET result == Execute(request.plan)
       IN  NarrowTo(result.docs, {docs[d].path : d \in result.checked})

Next == Searching \/ (\E r \in Requests : AskQuery(r)) \/ Narrow

Spec == SearchInit /\ [][Next]_searchVars

---------------------------------------------------------------------------
(* What a query means (docs/SEMANTICS.md), apart from how it is answered *)

SomeLine(content, P(_)) == \E n \in DOMAIN content : P(content[n])

RECURSIVE Means(_, _, _)
Means(content, node, fold) ==
    CASE node.kind \in {"literal", "boosted"} ->
            SomeLine(content, LAMBDA l : Occurs(Lowered(node.text), Lowered(l)))
      [] node.kind = "phrase" ->
            SomeLine(content, LAMBDA l : IF fold THEN Occurs(Lowered(node.text), Lowered(l))
                                         ELSE Occurs(node.text, l))
      [] node.kind = "regex" ->
            SomeLine(content, LAMBDA l : RegexMatches(node.branches, l, fold))
      [] node.kind = "near" -> NearLines(content, node.terms, node.distance) # {}
      [] node.kind = "and"  -> \A i \in DOMAIN node.nodes : Means(content, node.nodes[i], fold)
      [] node.kind = "or"   -> \E i \in DOMAIN node.nodes : Means(content, node.nodes[i], fold)
      [] node.kind = "not"  -> ~Means(content, node.node, fold)
      [] OTHER              -> TRUE

\* The lines that a query shows: those where some part of it matches
RECURSIVE Shown(_, _, _)
Shown(content, node, fold) ==
    CASE node.kind \in {"literal", "boosted"} -> LinesWithText(content, node.text, TRUE)
      [] node.kind = "phrase" -> LinesWithText(content, node.text, fold)
      [] node.kind = "regex"  ->
            LinesWhere(content, LAMBDA l : RegexMatches(node.branches, l, fold))
      [] node.kind = "near"   -> NearLines(content, node.terms, node.distance)
      [] node.kind \in {"and", "or"} ->
            UNION {Shown(content, node.nodes[i], fold) : i \in DOMAIN node.nodes}
      [] OTHER                -> {1}

FieldHolds(doc, field) ==
    CASE field.name \in PathFields -> doc.path \in field.value
      [] field.name = "size" -> IF field.value.op = ">"
                                THEN SizeOf(doc.content) >= field.value.n
                                ELSE SizeOf(doc.content) <= field.value.n
      [] OTHER -> TRUE

FieldsHold(r, doc) == \A i \in DOMAIN r.fields : FieldHolds(doc, r.fields[i])

LineFields(r) == {i \in DOMAIN r.fields : r.fields[i].name = "line"}

LineHolds(r, n) ==
    \A i \in LineFields(r) : /\ \A m \in r.fields[i].value.from : n >= m
                             /\ \A m \in r.fields[i].value.to : n <= m

ShownLine(r, t, n) == n \in Shown(t, r.means, r.fold) /\ LineHolds(r, n)

\* -l shows no lines, and a request of fields alone the first one
MeansLine(r, t, n) ==
    /\ Means(t, r.means, r.fold)
    /\ r.mode # "files" /\ r.means # Nothing => ShownLine(r, t, n)

MeansSomeLine(r, t) ==
    /\ Means(t, r.means, r.fold)
    /\ \E n \in Shown(t, r.means, r.fold) : ShownLine(r, t, n)

RECURSIVE Parts(_)
Parts(node) ==
    CASE node.kind \in {"and", "or"} -> UNION {Parts(node.nodes[i]) : i \in DOMAIN node.nodes}
      [] node.kind = "not"           -> Parts(node.node)
      [] OTHER                       -> {node}

\* A regex with ^ or $: the files mode matches it against the whole text
Anchored(r) ==
    \E x \in Parts(r.means) :
        x.kind = "regex" /\ \E b \in DOMAIN x.branches : x.branches[b].head \/ x.branches[b].tail

IsPrecise(r)    == r.mode = "files" => ~Anchored(r)
IsExhaustive(r) == r.mode = "files" => ~Anchored(r) /\ LineFields(r) = {}

---------------------------------------------------------------------------
(* What the index promises to find.  Narrowing sees the bytes of a file and *)
(* its tokens, not every text that would match: a word in another case has  *)
(* to be a token, a phrase of several tokens has to begin and end where     *)
(* tokens do, and a word all of whose trigrams are stop-grams has to lie in *)
(* a token.                                                                 *)

TokensIn(content) == UNION {Tokens(content[n]) : n \in DOMAIN content}

WordPromised(content, t, stops) ==
    \/ Len(t) < 2
    \/ Lowered(t) \in TokensIn(content)
    \/ /\ Len(t) >= 3
       /\ SomeLine(content, LAMBDA l : Occurs(t, l))
       /\ \/ ~(GramsOf(t) \subseteq stops)
          \/ \E u \in TokensIn(content) : Occurs(Lowered(t), u)

\* t occurs in line l and is split into tokens there as it is by itself
AsTokens(t, l, fold) ==
    \E i \in 0..(Len(l) - Len(t)) :
        LET here == SubSeq(l, i + 1, i + Len(t))
            end  == i + Len(t)
        IN  /\ IF fold THEN Lowered(here) = Lowered(t) ELSE here = t
            /\ {k - i : k \in Starts(l) \cap (i + 1)..end} = Starts(t)
            /\ end = Len(l) \/ l[end + 1] \notin Alnum \/ end + 1 \in Starts(l)

PhrasePromised(content, t, fold) ==
    IF Cardinality(TokensAt(t)) >= 2 THEN SomeLine(content, LAMBDA l : AsTokens(t, l, fold))
    ELSE fold => \E x \in TokensAt(t) : x.token \in TokensIn(content)

\* A part of an "or" that gives the index nothing to look up
Unnarrowed(node, fold) ==
    \/ node.kind = "literal" /\ Len(node.text) < 2
    \/ node.kind = "regex" /\ (fold \/ \A p \in Prefix(node.branches) : GramsOf(p) = {})

RECURSIVE NodePromised(_, _, _, _)
NodePromised(content, node, fold, stops) ==
    Means(content, node, fold) /\
    CASE node.kind \in {"literal", "boosted"} -> WordPromised(content, node.text, stops)
      [] node.kind = "phrase" -> PhrasePromised(content, node.text, fold)
      [] node.kind = "near"   -> \A i \in DOMAIN node.terms :
                                    /\ Lowered(node.terms[i]) \in TokensIn(content)
                                    /\ ~fold => SomeLine(content,
                                            LAMBDA l : Occurs(node.terms[i], l))
      [] node.kind = "and"    ->
            \A i \in DOMAIN node.nodes : NodePromised(content, node.nodes[i], fold, stops)
      [] node.kind = "or"     ->
            \E i \in DOMAIN node.nodes : /\ NodePromised(content, node.nodes[i], fold, stops)
                                         /\ ~Unnarrowed(node.nodes[i], fold)
      [] OTHER                -> TRUE

IndexPromises(r, t, stops) == NodePromised(t, r.means, r.fold, stops)

---------------------------------------------------------------------------
(* Properties *)

\* The lookups keep the promise of the index: whatever steps a plan has, however
\* its unions nest and its exclusions read and subtract, it leaves no document
\* that is due and lets none by that a filter rejects (executor.rs:586-742).
\* So every step is a step of a search, about which Search_proofs has theorems.
ImplementsSearch == SearchSpec

\* README.md:285 on "|": "either term matches"
EitherTermMatches ==
    Answered /\ request.mode = "content" /\ request.means.kind = "or"
        => \A d \in Unchanged :
               Means(docs[d].content, request.means, request.fold) /\ request.fields = << >>
                   => \E e \in answer : e.path = docs[d].path
=============================================================================
