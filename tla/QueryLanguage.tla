--------------------------- MODULE QueryLanguage ---------------------------
(***************************************************************************)
(* The query language: the parser, which turns an input into an expression *)
(* and a set of filters, and the planner, which turns these into index     *)
(* lookups (steps) and a condition that the text of a candidate must meet. *)
(*                                                                         *)
(* An input is a sequence of lexemes; reading characters up to a blank is  *)
(* left out.  An option (Rust's Option) is a set of at most one element.   *)
(***************************************************************************)
EXTENDS SourceText, SequencesExt

DefaultDistance == 10
DefaultLimit    == 100

---------------------------------------------------------------------------
(* Expressions (QueryNode).  A condition (VerificationStep) is an           *)
(* expression too; fold says that -i applies to a phrase or a regex.       *)

Nothing       == [kind |-> "empty"]
Literal(t)    == [kind |-> "literal", text |-> t]
Boosted(t)    == [kind |-> "boosted", text |-> t]
Phrase(t, f)  == [kind |-> "phrase", text |-> t, fold |-> f]
RegexOf(r, f) == [kind |-> "regex", branches |-> r, fold |-> f]
Near(ts, d)   == [kind |-> "near", terms |-> ts, distance |-> d]
AllOf(ns)     == [kind |-> "and", nodes |-> ns]
AnyOf(ns)     == [kind |-> "or", nodes |-> ns]
NotOf(n)      == [kind |-> "not", node |-> n]

(* A regex is a sequence of alternatives; each is a sequence of characters *)
(* ("." is any but a line feed) with a quantifier, anchored or not.        *)

Alternative(head, items, tail) == [head |-> head, items |-> items, tail |-> tail]
Item(c, q) == [char |-> c, times |-> q]      \* times: "1" "?" "*" "+"

SameChar(c, d, fold) == IF fold THEN ToLower(c) = ToLower(d) ELSE c = d
Accepts(item, d, fold) ==
    IF item.char = "." THEN d # "\n" ELSE SameChar(item.char, d, fold)

\* Where a match of one item that starts at a place of from may end
After(from, item, t, fold) ==
    LET run(i, n) == \A k \in (i + 1)..(i + n) : Accepts(item, t[k], fold)
        counts == CASE item.times = "1" -> {1}
                    [] item.times = "?" -> {0, 1}
                    [] item.times = "*" -> 0..Len(t)
                    [] item.times = "+" -> 1..Len(t)
    IN  {i + n : i \in from, n \in counts} \cap
        {j \in 0..Len(t) : \E i \in from : i <= j /\ j - i \in counts /\ run(i, j - i)}

RegexMatches(branches, t, fold) ==
    \E b \in DOMAIN branches : \E i \in 0..Len(t) :
        /\ branches[b].head => i = 0
        /\ \E j \in FoldLeft(LAMBDA from, item : After(from, item, t, fold),
                             {i}, branches[b].items) :
               branches[b].tail => j = Len(t)

---------------------------------------------------------------------------
(* Filters and options *)

PathFields == {"path", "file", "ext", "lang"}

\* accepts: the paths that a glob, a name, an extension or a language lets by
NoFilters == [accepts |-> [f \in PathFields |-> {}],
              sizeMin |-> {}, sizeMax |-> {}, lineStart |-> {}, lineEnd |-> {}]

HasFilter(fs) == fs # NoFilters

(* The parser.  A cursor is the next lexeme and the filters and the limit  *)
(* collected so far, wherever they stand in the input.                     *)

StartOf(in) == [in |-> in, at |-> 1, filters |-> NoFilters, limit |-> DefaultLimit]

AtEnd(c)     == c.at > Len(c.in)
Peek(c)      == IF AtEnd(c) THEN "end" ELSE c.in[c.at].lex
Advance(c)   == [c EXCEPT !.at = @ + 1]
Skip(c, lex) == IF Peek(c) = lex THEN Advance(c) ELSE c

\* near:a,b,5 - the distance is optional, one term alone is a literal
NearNode(value) ==
    IF Len(value.terms) + Cardinality(value.distance) < 2 THEN Nothing
    ELSE IF Len(value.terms) >= 2
         THEN Near(value.terms, IF value.distance = {} THEN DefaultDistance
                                ELSE CHOOSE d \in value.distance : TRUE)
    ELSE IF Len(value.terms) = 1 THEN Literal(value.terms[1])
    ELSE Nothing

\* parse_field: a later filter of the same name replaces an earlier one
FieldParsed(c, name, value) ==
    CASE name \in PathFields ->
            [node |-> Nothing, rest |-> [c EXCEPT !.filters.accepts[name] = {value}]]
      [] name = "size" /\ value.op = ">" ->
            [node |-> Nothing, rest |-> [c EXCEPT !.filters.sizeMin = {value.n}]]
      [] name = "size" /\ value.op = "<" ->
            [node |-> Nothing, rest |-> [c EXCEPT !.filters.sizeMax = {value.n}]]
      [] name = "line" ->
            [node |-> Nothing, rest |-> [c EXCEPT !.filters.lineStart = value.from,
                                                  !.filters.lineEnd = value.to]]
      [] name = "top"  -> [node |-> Nothing, rest |-> [c EXCEPT !.limit = value]]
      [] name = "near" -> [node |-> NearNode(value), rest |-> c]

RECURSIVE ParseOr(_), ParseAnd(_), ParsePrimary(_)

ParsePrimary(c) ==
    CASE Peek(c) = "(" ->
            LET inner == ParseOr(Advance(c))
            IN  [inner EXCEPT !.rest = Skip(@, ")")]
      [] Peek(c) = "quoted" ->
            [node |-> Phrase(c.in[c.at].text, FALSE), rest |-> Advance(c)]
      [] Peek(c) = "regex" ->
            [node |-> RegexOf(c.in[c.at].branches, FALSE), rest |-> Advance(c)]
      [] Peek(c) = "word" ->
            [node |-> Literal(c.in[c.at].text), rest |-> Advance(c)]
      [] Peek(c) = "field" ->
            FieldParsed(Advance(c), c.in[c.at].name, c.in[c.at].value)
      [] OTHER -> [node |-> Nothing, rest |-> c]

\* ^12 at the very end is read as a weight that no ":" and no term follows
BoostEatsTerm(c) ==
    /\ c.at = Len(c.in)
    /\ Peek(c) = "word"
    /\ \A i \in DOMAIN c.in[c.at].text : c.in[c.at].text[i] \in Digit

ParseUnary(c) ==
    IF Peek(c) = "-"
    THEN LET inner == ParsePrimary(Advance(c))
         IN  [inner EXCEPT !.node = NotOf(@)]
    ELSE IF Peek(c) = "^"
    THEN LET inner == ParsePrimary(Advance(c))
         IN  IF BoostEatsTerm(Advance(c)) THEN [inner EXCEPT !.node = Nothing]
             ELSE IF inner.node.kind \in {"literal", "phrase"}
             THEN [inner EXCEPT !.node = Boosted(@.text)]
             ELSE inner
    ELSE ParsePrimary(c)

One(nodes, join(_)) ==
    CASE Len(nodes) = 0 -> Nothing
      [] Len(nodes) = 1 -> nodes[1]
      [] OTHER          -> join(nodes)

RECURSIVE AndNodes(_, _), OrNodes(_, _)

AndNodes(c, nodes) ==
    IF AtEnd(c) \/ Peek(c) \in {")", "|"}
    THEN [node |-> One(nodes, AllOf), rest |-> c]
    ELSE LET next == ParseUnary(c) IN AndNodes(next.rest, Append(nodes, next.node))

ParseAnd(c) == AndNodes(c, << >>)

OrNodes(c, nodes) ==
    IF Peek(c) # "|" THEN [node |-> One(nodes, AnyOf), rest |-> c]
    ELSE LET next == ParseAnd(Advance(c)) IN OrNodes(next.rest, Append(nodes, next.node))

ParseOr(c) == LET first == ParseAnd(c) IN OrNodes(first.rest, <<first.node>>)

\* parse_query: what follows an unmatched ")" is not read
Parse(in) ==
    LET whole == ParseOr(StartOf(in))
    IN  [root    |-> whole.node,
         filters |-> whole.rest.filters,
         limit   |-> whole.rest.limit]

IsEmptyQuery(query) == query.root = Nothing /\ ~HasFilter(query.filters)

---------------------------------------------------------------------------
(* The planner *)

\* extract_regex_prefix: the text every match must contain, if it is known
MinPrefix == 3

\* Seeded fault: the optional character stays in the prefix
PrefixKeepsOptional(branches) ==
    LET text == [i \in DOMAIN branches[1].items |-> branches[1].items[i].char]
    IN  IF Len(branches) > 1 \/ Len(text) < MinPrefix THEN {} ELSE {text}

Prefix(branches) ==
    LET walk(acc, item) ==
            IF acc.done THEN acc
            ELSE IF item.char = "." THEN [acc EXCEPT !.done = TRUE]
            ELSE CASE item.times = "1" -> [acc EXCEPT !.text = Append(@, item.char)]
                   [] item.times = "+" -> [text |-> Append(acc.text, item.char), done |-> TRUE]
                   [] OTHER            -> [acc EXCEPT !.done = TRUE]
        text == FoldLeft(walk, [text |-> << >>, done |-> FALSE], branches[1].items).text
    IN  IF Len(branches) > 1 \/ Len(text) < MinPrefix THEN {} ELSE {text}

GramStep(gs)   == [step |-> "grams", grams |-> gs]
TokenStep(t)   == [step |-> "token", token |-> t]
UnionStep(ps)  == [step |-> "union", plans |-> ps]
WordStep(t)    == [step |-> "word", token |-> Lowered(t), parts |-> Tokens(t),
                   grams |-> GramsOf(t)]
ExcludeStep(p) == [step |-> "exclude", plan |-> p]
FilterStep(fs) == [step |-> "filter", filters |-> fs]
PhraseStep(ts) == [step |-> "phrase", tokens |-> ts]

\* Literal and BoostedLiteral: the parser never puts a blank in a word, so the
\* planner's branch for several words is not reached
WordSteps(t) ==
    CASE Len(t) < 2        -> << >>
      [] GramsOf(t) = {}   -> <<TokenStep(Lowered(t))>>
      [] OTHER             -> <<WordStep(t)>>

NearSteps(ts, fold) ==
    LET gs == IF fold THEN {} ELSE UNION {GramsOf(ts[i]) : i \in DOMAIN ts}
        long == SelectSeq(ts, LAMBDA t : Len(t) >= 2)
    IN  IF gs # {} THEN <<GramStep(gs)>>
        ELSE [i \in DOMAIN long |-> TokenStep(Lowered(long[i]))]

PhraseSteps(t, fold) ==
    LET toks == TokenSequence(t)
        gs   == GramsOf(t)
        adjacent == IF Len(toks) >= 2 THEN <<PhraseStep(toks)>> ELSE << >>
    IN  IF ~fold THEN (IF gs = {} THEN << >> ELSE <<GramStep(gs)>>) \o adjacent
        ELSE CASE Len(toks) >= 2 -> adjacent
               [] Len(toks) = 0  -> << >>
               [] gs = {}        -> <<TokenStep(toks[1].token)>>
               [] OTHER          -> <<[WordStep(t) EXCEPT !.token = toks[1].token]>>

RegexSteps(branches, fold) ==
    LET gs == UNION {GramsOf(p) : p \in Prefix(branches)}
    IN  IF fold \/ gs = {} THEN << >> ELSE <<GramStep(gs)>>

PlanWith(steps, cond) == [steps |-> steps, cond |-> cond]

\* The conditions that are there, joined
Join(conds, join(_)) == One(SelectSeq(conds, LAMBDA v : v # Nothing), join)

NotPlan(inner) ==
    PlanWith(<<ExcludeStep(inner)>>, IF inner.cond = Nothing THEN Nothing ELSE NotOf(inner.cond))

RECURSIVE PlanNode(_, _)
PlanNode(node, fold) ==
    LET subs == [i \in DOMAIN node.nodes |-> PlanNode(node.nodes[i], fold)]
        conds == [i \in DOMAIN node.nodes |-> subs[i].cond]
        narrowing == SelectSeq(subs, LAMBDA p : p.steps # << >>)
    IN  CASE node.kind = "empty"  -> PlanWith(<< >>, Nothing)
          [] node.kind \in {"literal", "boosted"} -> PlanWith(WordSteps(node.text), node)
          [] node.kind = "near"   -> PlanWith(NearSteps(node.terms, fold), node)
          [] node.kind = "phrase" -> PlanWith(PhraseSteps(node.text, fold),
                                              Phrase(node.text, fold))
          [] node.kind = "regex"  -> PlanWith(RegexSteps(node.branches, fold),
                                              RegexOf(node.branches, fold))
          [] node.kind = "and"    -> PlanWith(FlattenSeq([i \in DOMAIN subs |-> subs[i].steps]),
                                              Join(conds, AllOf))
          [] node.kind = "or"     -> PlanWith(IF narrowing = << >> THEN << >>
                                              ELSE <<UnionStep(narrowing)>>,
                                              Join(conds, AnyOf))
          [] node.kind = "not"    -> NotPlan(PlanNode(node.node, fold))

\* QueryPlan::from_query: filters come after every lookup
Plan(query, fold) ==
    LET main == PlanNode(query.root, fold)
    IN  [main EXCEPT !.steps = @ \o IF HasFilter(query.filters)
                                    THEN <<FilterStep(query.filters)>> ELSE << >>]
=============================================================================
