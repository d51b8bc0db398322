------------------------------ MODULE MCZ3Bench ------------------------------
(* An instance of Z3Bench for TLC: one file with any text of up to four     *)
(* characters, one with a few longer texts, and a file of another kind.     *)
EXTENDS Z3Bench

CONSTANTS any, fixed, other

Letters == {"a", Space, Open, Close}
MCChars == Letters \union {"0"}
ShortTexts == UNION {[1 .. n -> Letters] : n \in 0 .. 4}
LongTexts ==
  {<<Open, "a", Space, Open, "a", "a", Close, Space, Close, Space, Open, Close>>,
   <<"a", Open, Open, Space, "a", Close, Space, Close, Close, Space, "a">>}

MCDisks ==
  {[f \in Files |-> IF f = any THEN t ELSE IF f = fixed THEN u ELSE << >>] :
     t \in ShortTexts, u \in LongTexts}

(* Longer and shorter than what is there. *)
MCRewrites ==
  {<<Open, "a">>,
   <<"a", Open, Space, "a", Open, Close, Space, "a", "a", Open, Open, "a", Close, Close>>}
=============================================================================
