---------------------------- MODULE MCQueryEngine ----------------------------
(***************************************************************************)
(* Small source trees and the queries that tell their files apart: each    *)
(* word of the query has to be met as a token, inside a token, across a    *)
(* change of case, across "_" and across lines, in both cases, alone and   *)
(* in every way of combining it.                                           *)
(***************************************************************************)
EXTENDS QueryEngine

abc == <<"a", "b", "c">>
ABC == <<"A", "B", "C">>
de  == <<"d", "e">>
cde == <<"c", "d", "e">>
bcd == <<"b", "c", "d">>

Spaced  == <<abc \o <<" ">> \o cde>>             \* abc cde
Camel   == <<abc \o <<"D", "e">>>>                \* abcDe
Capital == <<ABC>>                                \* ABC
Inside  == <<<<"e">> \o abc \o <<"e">>>>          \* eabce
Snake   == <<abc \o <<"_">> \o cde>>             \* abc_cde
Lines   == <<cde, <<"a">>, abc>>                  \* three lines

TheContents == {Spaced, Camel, Capital, Inside, Snake, Lines}

ThePaths == 1..3

TheTrees ==
    {<<Spaced, Camel, Capital>>, <<Inside, Snake, Lines>>,
     <<Lines, Spaced, Missing>>}

TheNames == <<<<"d", "e">>, <<"a", "b", "c", ".", "d">>, <<"C", "D", "E">>>>

---------------------------------------------------------------------------
(* Inputs: an expression written out, with a field before or after it *)

Lex(l)        == <<[lex |-> l]>>
Field(n, v)   == [lex |-> "field", name |-> n, value |-> v]

RECURSIVE Written(_)
Written(node) ==
    LET inner(n) == IF n.kind \in {"and", "or"} THEN Lex("(") \o Written(n) \o Lex(")")
                    ELSE Written(n)
    IN  CASE node.kind = "empty"   -> << >>
          [] node.kind = "literal" -> <<[lex |-> "word", text |-> node.text]>>
          [] node.kind = "boosted" -> Lex("^") \o <<[lex |-> "word", text |-> node.text]>>
          [] node.kind = "phrase"  -> <<[lex |-> "quoted", text |-> node.text]>>
          [] node.kind = "regex"   -> <<[lex |-> "regex", branches |-> node.branches]>>
          [] node.kind = "near"    -> <<Field("near", [terms |-> node.terms,
                                                       distance |-> {node.distance}])>>
          [] node.kind = "not"     -> Lex("-") \o inner(node.node)
          [] node.kind = "and"     -> FlattenSeq([i \in DOMAIN node.nodes |-> inner(node.nodes[i])])
          [] node.kind = "or"      ->
                FlattenSeq([i \in DOMAIN node.nodes |->
                    (IF i = 1 THEN << >> ELSE Lex("|")) \o
                    IF node.nodes[i].kind = "or" THEN inner(node.nodes[i])
                    ELSE Written(node.nodes[i])])

Top(n) == Field("top", n)

Input(node, fields, top) ==
    (IF Len(fields) > 0 THEN <<Head(fields)>> ELSE << >>)
    \o Written(node)
    \o (IF Len(fields) > 0 THEN Tail(fields) ELSE << >>)
    \o (IF top = 0 THEN << >> ELSE <<Top(top)>>)

Req(node, fields, fold, mode, top) ==
    LET input == Input(node, fields, top)
        query == Parse(input)
    IN  [means |-> node, fields |-> fields, fold |-> fold, mode |-> mode, max |-> top,
         input |-> input, query |-> query, plan |-> Plan(query, fold)]

Plain(node)      == Req(node, << >>, FALSE, "content", 0)
Folded(node)     == Req(node, << >>, TRUE, "content", 0)
With(node, fs)   == Req(node, fs, FALSE, "content", 0)
FilesOf(node)    == Req(node, << >>, FALSE, "files", 0)
Scored(node, n)  == Req(node, << >>, FALSE, "scored", n)
TopFiles(node, n) == Req(node, << >>, FALSE, "files", n)

Chars(t) == [i \in DOMAIN t |-> Item(t[i], "1")]
Re(alts) == RegexOf(alts, FALSE)
Alt(items) == Alternative(FALSE, items, FALSE)

AbcPhrase == Phrase(abc \o <<" ">> \o cde, FALSE)
AbcDotC   == Re(<<Alt(Chars(abc) \o <<Item(".", "1"), Item("c", "1")>>)>>)
AbcStar   == Re(<<Alt(<<Item("a", "1"), Item("b", "1"), Item("c", "?"), Item("D", "1")>>)>>)
BcdOrAbce == Re(<<Alt(Chars(cde)), Alt(Chars(abc) \o <<Item("e", "1")>>)>>)
AtStart   == Re(<<Alternative(TRUE, Chars(abc), FALSE)>>)
AtEnd3    == Re(<<Alternative(FALSE, Chars(cde), TRUE)>>)

In(S)       == Field("path", S)
Size(op, n) == Field("size", [op |-> op, n |-> n])
LineAt(a, b) == Field("line", [from |-> a, to |-> b])

Words3 ==
    {Plain(Literal(abc)), FilesOf(Literal(ABC)), Plain(Literal(de)), Plain(Boosted(cde)),
     FilesOf(Literal(abc \o <<"_", "c">>)), Plain(Literal(<<"a">>)),
     Plain(Literal(bcd)), Folded(Literal(abc))}

Phrases ==
    {Plain(AbcPhrase), Folded(AbcPhrase), FilesOf(Phrase(abc, FALSE)), Folded(Phrase(ABC, FALSE)),
     Plain(Phrase(<<"b", "c", " ", "c">>, FALSE)), Folded(Phrase(ABC \o <<" ">> \o cde, FALSE))}

Regexes ==
    {Plain(AbcDotC), Plain(AbcStar), FilesOf(BcdOrAbce), Plain(AtStart), FilesOf(AtEnd3),
     Folded(AbcDotC)}

Nears == {FilesOf(Near(<<abc, cde>>, 1)), Plain(Near(<<abc, cde>>, 2)), Folded(Near(<<ABC, cde>>, 2))}

Combined ==
    {Plain(AllOf(<<Literal(abc), Literal(cde)>>)),
     Plain(AnyOf(<<Literal(cde), Phrase(ABC, FALSE)>>)),
     Plain(AllOf(<<Literal(abc), NotOf(Literal(cde))>>)),
     FilesOf(NotOf(Literal(cde))),
     Plain(AllOf(<<Literal(abc), NotOf(AnyOf(<<Literal(cde), AtStart>>))>>)),
     FilesOf(AnyOf(<<AllOf(<<Literal(abc), Literal(cde)>>), Literal(ABC)>>)),
     Plain(AllOf(<<AnyOf(<<Literal(ABC), Literal(cde)>>), Literal(abc)>>)),
     Plain(AnyOf(<<Literal(cde), AtStart>>))}

Filtered ==
    {With(Literal(abc), <<In({1, 3})>>), With(Nothing, <<In({1, 2})>>),
     With(Literal(abc), <<Size(">", 6), Size("<", 8)>>),
     With(Literal(abc), <<LineAt({2}, {3})>>),
     With(AllOf(<<Literal(abc), NotOf(Literal(de))>>), <<In({2, 3})>>)}

Limited == {Scored(Literal(abc), 1), Scored(Literal(abc), 2), TopFiles(Literal(abc), 1),
            Scored(AllOf(<<Literal(abc), Literal(cde)>>), 2), TopFiles(NotOf(Literal(de)), 1),
            Scored(Literal(de), 0)}

TheRequests == Words3 \cup Phrases \cup Regexes \cup Nears \cup Combined \cup Filtered \cup Limited
=============================================================================
