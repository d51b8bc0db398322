------------------------------- MODULE SExpr -------------------------------
(***************************************************************************)
(* What SExprParser of tools/z3-bench/sexpr.h reads: expressions and the   *)
(* scanning of a text.  A text is a sequence of characters: "(" and ")",   *)
(* " " for every ASCII whitespace, and others; pos_ counts from 1.  The    *)
(* parser's steps are in Z3Bench; `Reads` says, without parsing, what is   *)
(* to be read.                                                             *)
(***************************************************************************)
EXTENDS Integers, Sequences, FiniteSets

Space == " "
Open == "("
Close == ")"
Delimiters == {Space, Open, Close}

Eof(input, pos) == pos > Len(input)

(* The first position from pos on with a character of a set, or the end. *)
Until(input, pos, stops) ==
  CHOOSE p \in pos .. Len(input) + 1 :
    /\ \A q \in pos .. p - 1 : input[q] \notin stops
    /\ Eof(input, p) \/ input[p] \in stops

Characters(input) == {input[p] : p \in DOMAIN input}

SkipWhitespace(input, pos) == Until(input, pos, Characters(input) \ {Space})

(* An expression is represented by its tokens, each a sequence of          *)
(* characters, in the order in which they are printed; with the            *)
(* parentheses they determine it.  A sequence of expressions is their      *)
(* concatenation.                                                          *)
Atom(cs) == << cs >>
List(es) == << <<Open>> >> \o es \o << <<Close>> >>

(* Up to whitespace, a parenthesis or the end. *)
EndOfAtom(input, pos) == Until(input, pos, Delimiters)

AtomAt(input, pos) == Atom(SubSeq(input, pos, EndOfAtom(input, pos) - 1))
-----------------------------------------------------------------------------
StartsToken(input, p) ==
  \/ input[p] \in {Open, Close}
  \/ input[p] # Space /\ (p = 1 \/ input[p - 1] \in Delimiters)

TokenAt(input, p) ==
  IF input[p] \in Delimiters THEN << input[p] >>
  ELSE SubSeq(input, p, EndOfAtom(input, p) - 1)

(* Where tokens start among the first n characters of a text. *)
TokenStarts(input, n) == {p \in 1 .. n : StartsToken(input, p)}

(* The how-manieth token the one that starts at p is. *)
Rank(input, p) == Cardinality(TokenStarts(input, p))

(* How deep in parentheses a text is after p characters. *)
Depth(input, p) ==
  Cardinality({q \in 1 .. p : input[q] = Open}) - Cardinality({q \in 1 .. p : input[q] = Close})

(* n characters of the text come before the first ")" that closes nothing. *)
Surplus(input, n) == n < Len(input) /\ Depth(input, n + 1) < 0

Readable(input, n) ==
  /\ \A p \in 1 .. n : Depth(input, p) >= 0
  /\ n = Len(input) \/ Surplus(input, n)

(* What is to be read of a text: the tokens before the first ")" that      *)
(* closes nothing, and a ")" for each "(" left open.                       *)
Reads(input, tokens) ==
  \E n \in 0 .. Len(input) :
    /\ Readable(input, n)
    /\ Len(tokens) = Rank(input, n) + Depth(input, n)
    /\ \A p \in TokenStarts(input, n) : tokens[Rank(input, p)] = TokenAt(input, p)
    /\ \A k \in Rank(input, n) + 1 .. Len(tokens) : tokens[k] = <<Close>>
=============================================================================
