----------------------------- MODULE SourceText -----------------------------
(***************************************************************************)
(* What the indexer takes from a file and the planner from a query: lower  *)
(* case, trigrams and tokens with their word positions.                    *)
(*                                                                         *)
(* A text is a sequence of characters, a content a sequence of lines.  Two *)
(* letters, their capitals, a digit, "_", " " and "." stand for the byte   *)
(* classes of the tokenizer.  The fast paths of the code (byte tables,     *)
(* bit sets, an ASCII scan) compute the same sets and are one operator     *)
(* here.                                                                   *)
(***************************************************************************)
EXTENDS Integers, Sequences, FiniteSets

LowerOf == [A |-> "a", B |-> "b", C |-> "c", D |-> "d", E |-> "e"]

Upper == DOMAIN LowerOf
Lower == {LowerOf[u] : u \in Upper}
Digit == {"0", "1"}
Alnum == Upper \cup Lower \cup Digit

ToLower(c) == IF c \in Upper THEN LowerOf[c] ELSE c
Lowered(t) == [i \in DOMAIN t |-> ToLower(t[i])]

\* s is a substring of t
Occurs(s, t) == \E i \in 0..(Len(t) - Len(s)) : SubSeq(t, i + 1, i + Len(s)) = s

\* The bytes of a file: its lines joined by line feeds
Flat(content) ==
    LET upTo[n \in 0..Len(content)] ==
            IF n = 0 THEN << >>
            ELSE IF n = 1 THEN content[1]
            ELSE upTo[n - 1] \o <<"\n">> \o content[n]
    IN  upTo[Len(content)]

---------------------------------------------------------------------------
(* Trigrams: byte-exact, so case matters *)

GramsOf(t) == {SubSeq(t, i, i + 2) : i \in 1..(Len(t) - 2)}

Grams(content) == GramsOf(Flat(content))

---------------------------------------------------------------------------
(* Tokens: maximal runs of letters and digits, split where a capital       *)
(* follows a small letter, stored in lower case                            *)

MinTokenLength == 2
MaxTokenLength == 128

Starts(t) ==
    {i \in DOMAIN t : /\ t[i] \in Alnum
                      /\ \/ i = 1
                         \/ t[i - 1] \notin Alnum
                         \/ t[i] \in Upper /\ t[i - 1] \in Lower}

\* The last character of the token that starts at i
EndOf(t, i) ==
    CHOOSE j \in i..Len(t) :
        /\ \A k \in i..j : t[k] \in Alnum /\ (k > i => k \notin Starts(t))
        /\ j = Len(t) \/ t[j + 1] \notin Alnum \/ j + 1 \in Starts(t)

\* A token too short or too long is not stored but takes its position
TokensAt(t) ==
    {[token |-> Lowered(SubSeq(t, i, EndOf(t, i))),
      pos   |-> Cardinality({k \in Starts(t) : k < i})] :
        i \in {s \in Starts(t) : EndOf(t, s) - s + 1
                                    \in MinTokenLength..MaxTokenLength}}

Tokens(t) == {x.token : x \in TokensAt(t)}

\* extract_tokens_with_positions of a query, in order of position
TokenSequence(t) ==
    LET at == TokensAt(t)
        nth(n) == CHOOSE x \in at : Cardinality({y \in at : y.pos < x.pos}) = n - 1
    IN  [n \in 1..Cardinality(at) |-> nth(n)]
=============================================================================
