--------------------------- MODULE MCSegmentFiles ---------------------------
(***************************************************************************)
(* Three documents whose numbers and positions take one byte and two (bytes *)
(* of two bits, numbers of three).  Term 4 is in no text.                   *)
(***************************************************************************)
EXTENDS SegmentFiles

TheTerms == 1..4

LongText == <<1, 3, 3, 3, 3, 1, 2>>

TheTexts == {<<1, 2>>, <<2, 1>>, LongText, <<3>>}

TheSources ==
    {src \in [{1, 4, 7} -> TheTexts] :
        /\ src[1] # src[4]
        /\ src[7] = IF src[1] = <<3>> THEN <<2, 1>> ELSE LongText}

\* Terms 3 and 4 share all their bits, 1 and 2 none
TheH1 == <<0, 1, 2, 2>>
TheH2 == <<1, 3, 2, 2>>

Place(t, n) == [term |-> t, pos |-> n]

Grams(s)      == [kind |-> "grams", terms |-> s]
Token(t)      == [kind |-> "token", term |-> t]
Containing(s) == [kind |-> "containing", terms |-> s]
Adjacent(ph, w) == [kind |-> "phrase", phrase |-> ph, within |-> w]

TheQueries ==
    {Grams({1}), Grams({4}), Grams({1, 2}), Grams({1, 3}), Grams({2, 3, 1}), Grams({1, 4}),
     Token(2), Token(4), Containing({1, 4}), Containing({2, 3}),
     Adjacent(<<Place(1, 0), Place(2, 1)>>, {}),
     Adjacent(<<Place(1, 0), Place(2, 1)>>, {{4, 7}}),
     Adjacent(<<Place(1, 0), Place(2, 1)>>, {{2}}),
     Adjacent(<<Place(3, 0), Place(1, 1), Place(2, 2)>>, {}),
     Adjacent(<<Place(1, 0), Place(2, 6)>>, {{1, 7}}),
     Adjacent(<<Place(1, 0), Place(4, 1)>>, {})}
=============================================================================
