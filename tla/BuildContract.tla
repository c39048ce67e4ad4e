---------------------------- MODULE BuildContract ----------------------------
(***************************************************************************)
(* What a full build promises its caller, and whoever opens the index: it  *)
(* ends with all documents visible at once and reports success, or reports *)
(* a failure and nothing can be opened.  ChunkedBuild implements it.       *)
(***************************************************************************)
EXTENDS Naturals

VARIABLES
    given,     \* number of documents accepted: 1..given
    published, \* the index can be opened
    visible,   \* documents that its segments hold
    result     \* "running", "ok" or "failed"

contractVars == <<given, published, visible, result>>

Init ==
    /\ given = 0
    /\ published = FALSE
    /\ visible = {}
    /\ result = "running"

Accept ==
    /\ result = "running" /\ ~published
    /\ given' \in Nat /\ given' > given
    /\ UNCHANGED <<published, visible, result>>

Publish ==
    /\ result = "running" /\ ~published
    /\ published' = TRUE
    /\ visible' = 1..given
    /\ result' = "ok"
    /\ UNCHANGED given

Fail ==
    /\ result = "running" /\ ~published
    /\ result' = "failed"
    /\ UNCHANGED <<given, published, visible>>

Next == Accept \/ Publish \/ Fail

Spec == Init /\ [][Next]_contractVars
=============================================================================
