---------------------------- MODULE Z3BenchProofs ----------------------------
(***************************************************************************)
(* The two parts of tools/z3-bench/z3-bench.cpp.                           *)
(*                                                                         *)
(* Z3Bench.tla for any threads, files, texts and writes to them meanwhile: *)
(* every program is read once, and what is printed of it is what its text  *)
(* says, by counting parentheses.                                          *)
(*                                                                         *)
(* ParallelLoop.tla for any number of threads, indices, blocks and calls:  *)
(* the count of the AtomicWaiter is exact, so no access to the caller's    *)
(* frame comes after the call, and every index is run exactly once.  First *)
(* Blocks.tla: every division is a partition of the range into blocks that *)
(* differ by at most one index, for every range and number.                *)
(***************************************************************************)
EXTENDS Z3Bench, ParallelLoop, FiniteSetTheorems, SequenceTheorems, WellFoundedInduction, TLAPS

(* Scanning: Until finds the first position, if there is one. *)
LEMMA LeastOf ==
  ASSUME NEW S \in SUBSET Nat, S # {}
  PROVE  \E x \in S : \A y \in S : x <= y
<1>1. \E x \in S : \A y \in S : ~(<<y, x>> \in OpToRel(<, Nat))
  BY NatLessThanWellFounded, WFMin
<1>2. PICK x \in S : \A y \in S : ~(y < x) BY <1>1 DEF OpToRel
<1>. QED BY <1>2

LEMMA UntilFacts ==
  ASSUME NEW input \in Seq(Chars), NEW from \in 1 .. Len(input) + 1, NEW stops
  PROVE  /\ Until(input, from, stops) \in from .. Len(input) + 1
         /\ \A q \in from .. Until(input, from, stops) - 1 : input[q] \notin stops
         /\ \/ Until(input, from, stops) = Len(input) + 1
            \/ Until(input, from, stops) <= Len(input) /\ input[Until(input, from, stops)] \in stops
<1>. DEFINE S == {p \in from .. Len(input) + 1 : Eof(input, p) \/ input[p] \in stops}
            Fits(p) == /\ \A q \in from .. p - 1 : input[q] \notin stops
                       /\ Eof(input, p) \/ input[p] \in stops
            u == CHOOSE p \in from .. Len(input) + 1 : Fits(p)
<1>1. Len(input) \in Nat BY LenProperties
<1>2. S \in SUBSET Nat /\ Len(input) + 1 \in S BY <1>1 DEF Eof
<1>3. PICK p \in S : \A y \in S : p <= y
  <2>. HIDE DEF S
  <2>. QED BY <1>2, LeastOf
<1>4. \A q \in from .. p - 1 : input[q] \notin stops
  <2>. TAKE q \in from .. p - 1
  <2>1. p \in from .. Len(input) + 1 BY <1>3
  <2>2. q \in from .. Len(input) + 1 /\ q < p BY <1>1, <2>1
  <2>3. q \notin S BY <1>1, <1>3, <2>1, <2>2
  <2>. QED BY <2>2, <2>3
<1>5. p \in from .. Len(input) + 1 /\ Fits(p) BY <1>3, <1>4
<1>6. u \in from .. Len(input) + 1 /\ Fits(u)
  <2>. HIDE DEF Fits
  <2>. QED BY <1>5
<1>7. u = Until(input, from, stops) BY Zenon DEF Until
<1>8. Eof(input, u) => u = Len(input) + 1 BY <1>1, <1>6 DEF Eof
<1>9. ~Eof(input, u) => u <= Len(input) BY <1>1, <1>6 DEF Eof
<1>. HIDE DEF u
<1>. QED BY <1>6, <1>7, <1>8, <1>9

LEMMA SkipFacts ==
  ASSUME NEW input \in Seq(Chars), NEW from \in 1 .. Len(input) + 1
  PROVE  /\ SkipWhitespace(input, from) \in from .. Len(input) + 1
         /\ \A q \in from .. SkipWhitespace(input, from) - 1 : input[q] = Space
         /\ SkipWhitespace(input, from) <= Len(input) =>
              input[SkipWhitespace(input, from)] # Space
<1>. DEFINE stops == Characters(input) \ {Space}
            u == SkipWhitespace(input, from)
<1>1. /\ u \in from .. Len(input) + 1
      /\ \A q \in from .. u - 1 : input[q] \notin stops
      /\ u = Len(input) + 1 \/ (u <= Len(input) /\ input[u] \in stops)
  <2>. HIDE DEF stops
  <2>1. u = Until(input, from, stops) BY DEF SkipWhitespace, stops
  <2>. HIDE DEF u
  <2>. QED BY <2>1, UntilFacts
<1>. HIDE DEF u
<1>2. Len(input) \in Nat /\ DOMAIN input = 1 .. Len(input) BY LenProperties
<1>3. \A q \in from .. u - 1 : input[q] = Space
  <2>. TAKE q \in from .. u - 1
  <2>1. q \in DOMAIN input BY <1>1, <1>2
  <2>. QED BY <1>1, <2>1 DEF Characters
<1>4. u <= Len(input) => input[u] # Space BY <1>1, <1>2
<1>. QED BY <1>1, <1>3, <1>4 DEF u

LEMMA AtomFacts ==
  ASSUME NEW input \in Seq(Chars), NEW from \in 1 .. Len(input), input[from] \notin Delimiters
  PROVE  /\ EndOfAtom(input, from) \in from + 1 .. Len(input) + 1
         /\ \A q \in from .. EndOfAtom(input, from) - 1 : input[q] \notin Delimiters
         /\ EndOfAtom(input, from) <= Len(input) => input[EndOfAtom(input, from)] \in Delimiters
<1>. DEFINE u == EndOfAtom(input, from)
<1>1. Len(input) \in Nat /\ from \in 1 .. Len(input) + 1 BY LenProperties
<1>2. /\ u \in from .. Len(input) + 1
      /\ \A q \in from .. u - 1 : input[q] \notin Delimiters
      /\ u = Len(input) + 1 \/ (u <= Len(input) /\ input[u] \in Delimiters)
  <2>1. u = Until(input, from, Delimiters) BY DEF EndOfAtom
  <2>. HIDE DEF u
  <2>. QED BY <1>1, <2>1, UntilFacts
<1>. HIDE DEF u
<1>3. u # from
  <2>1. CASE u = Len(input) + 1 BY <1>1, <2>1
  <2>2. CASE u <= Len(input) /\ input[u] \in Delimiters BY <2>2
  <2>. QED BY <1>2, <2>1, <2>2
<1>4. u \in from + 1 .. Len(input) + 1 /\ (u <= Len(input) => input[u] \in Delimiters)
  BY <1>1, <1>2, <1>3
<1>. QED BY <1>2, <1>4 DEF u
-----------------------------------------------------------------------------
(* Counting: tokens and depth, position by position. *)
LEMMA StartsFinite ==
  ASSUME NEW input, NEW n \in Nat
  PROVE  IsFiniteSet(TokenStarts(input, n)) /\ Rank(input, n) \in Nat
<1>1. IsFiniteSet(1 .. n) BY FS_Interval
<1>2. TokenStarts(input, n) \in SUBSET (1 .. n) BY DEF TokenStarts
<1>3. IsFiniteSet(TokenStarts(input, n)) BY <1>1, <1>2, FS_Subset
<1>. QED BY <1>3, FS_CardinalityType DEF Rank

LEMMA NoStart ==
  ASSUME NEW input, NEW m \in Nat, NEW n \in Nat, m <= n,
         \A q \in m + 1 .. n : ~StartsToken(input, q)
  PROVE  TokenStarts(input, n) = TokenStarts(input, m) /\ Rank(input, n) = Rank(input, m)
<1>. DEFINE P(q) == StartsToken(input, q)
<1>1. {q \in 1 .. n : P(q)} = {q \in 1 .. m : P(q)}
  <2>1. \A q \in m + 1 .. n : ~P(q) OBVIOUS
  <2>. HIDE DEF P
  <2>2. \A q \in 1 .. n : P(q) => q \in 1 .. m BY <2>1
  <2>3. \A q \in 1 .. m : q \in 1 .. n OBVIOUS
  <2>. QED BY <2>2, <2>3
<1>2. TokenStarts(input, n) = TokenStarts(input, m) BY <1>1 DEF TokenStarts
<1>. QED BY <1>2 DEF Rank

LEMMA OneStart ==
  ASSUME NEW input, NEW n \in Nat, StartsToken(input, n + 1)
  PROVE  /\ TokenStarts(input, n + 1) = TokenStarts(input, n) \union {n + 1}
         /\ Rank(input, n + 1) = Rank(input, n) + 1
<1>. DEFINE P(q) == StartsToken(input, q)
<1>1. {q \in 1 .. n + 1 : P(q)} = {q \in 1 .. n : P(q)} \union {n + 1}
  <2>1. P(n + 1) OBVIOUS
  <2>. HIDE DEF P
  <2>. QED BY <2>1
<1>2. TokenStarts(input, n + 1) = TokenStarts(input, n) \union {n + 1} BY <1>1 DEF TokenStarts
<1>3. n + 1 \notin TokenStarts(input, n) BY DEF TokenStarts
<1>4. IsFiniteSet(TokenStarts(input, n)) BY StartsFinite
<1>. QED BY <1>2, <1>3, <1>4, FS_AddElement DEF Rank

(* The positions up to n that hold a character. *)
At(input, x, n) == {q \in 1 .. n : input[q] = x}

LEMMA Counted ==
  ASSUME NEW input, NEW x, NEW n \in Nat
  PROVE  /\ IsFiniteSet(At(input, x, n)) /\ Cardinality(At(input, x, n)) \in Nat
         /\ At(input, x, 0) = {}
         /\ Cardinality(At(input, x, n + 1)) =
              Cardinality(At(input, x, n)) + (IF input[n + 1] = x THEN 1 ELSE 0)
<1>1. IsFiniteSet(1 .. n) BY FS_Interval
<1>2. At(input, x, n) \in SUBSET (1 .. n) BY DEF At
<1>3. IsFiniteSet(At(input, x, n)) BY <1>1, <1>2, FS_Subset
<1>4. Cardinality(At(input, x, n)) \in Nat BY <1>3, FS_CardinalityType
<1>5. n + 1 \notin At(input, x, n) BY DEF At
<1>6. CASE input[n + 1] = x
  <2>1. At(input, x, n + 1) = At(input, x, n) \union {n + 1} BY <1>6 DEF At
  <2>. QED BY <1>3, <1>4, <1>5, <1>6, <2>1, FS_AddElement DEF At
<1>7. CASE input[n + 1] # x
  <2>1. At(input, x, n + 1) = At(input, x, n) BY <1>7 DEF At
  <2>. QED BY <1>3, <1>4, <1>7, <2>1 DEF At
<1>. QED BY <1>6, <1>7

LEMMA Depths ==
  ASSUME NEW input, NEW n \in Nat
  PROVE  /\ Depth(input, n) \in Int /\ Depth(input, 0) = 0
         /\ input[n + 1] = Open => Depth(input, n + 1) = Depth(input, n) + 1
         /\ input[n + 1] = Close => Depth(input, n + 1) = Depth(input, n) - 1
         /\ input[n + 1] \notin {Open, Close} => Depth(input, n + 1) = Depth(input, n)
<1>. DEFINE o(k) == Cardinality(At(input, Open, k))
            c(k) == Cardinality(At(input, Close, k))
<1>1. \A k \in Nat : Depth(input, k) = o(k) - c(k) BY DEF Depth, At
<1>2. o(n) \in Nat /\ o(n + 1) = o(n) + (IF input[n + 1] = Open THEN 1 ELSE 0) BY Counted
<1>3. c(n) \in Nat /\ c(n + 1) = c(n) + (IF input[n + 1] = Close THEN 1 ELSE 0) BY Counted
<1>4. o(0) = 0 /\ c(0) = 0 BY Counted, FS_EmptySet
<1>. HIDE DEF o, c
<1>5. Depth(input, n) = o(n) - c(n) /\ Depth(input, n + 1) = o(n + 1) - c(n + 1)
      /\ Depth(input, 0) = o(0) - c(0)
  BY <1>1
<1>6. Open # Close BY DEF Open, Close
<1>. QED BY <1>2, <1>3, <1>4, <1>5, <1>6

LEMMA DepthsBetween ==
  ASSUME NEW input, NEW m \in Nat, NEW n \in Nat, m <= n,
         \A q \in m + 1 .. n : input[q] \notin {Open, Close}
  PROVE  \A p \in m .. n : Depth(input, p) = Depth(input, m)
<1>. DEFINE S == {p \in Nat : p \in m .. n => Depth(input, p) = Depth(input, m)}
<1>. SUFFICES ASSUME Nat \ S # {} PROVE FALSE
  OBVIOUS
<1>1. PICK x \in Nat \ S : \A y \in Nat \ S : x <= y
  <2>. HIDE DEF S
  <2>1. Nat \ S \in SUBSET Nat OBVIOUS
  <2>. QED BY <2>1, LeastOf
<1>2. x \in m .. n /\ Depth(input, x) # Depth(input, m) BY <1>1
<1>3. x # m BY <1>2
<1>4. x - 1 \in Nat /\ x - 1 \in m .. n /\ x \in m + 1 .. n /\ x - 1 < x BY <1>2, <1>3
<1>5. x - 1 \in S BY <1>1, <1>4
<1>6. Depth(input, x - 1) = Depth(input, m) BY <1>4, <1>5
<1>7. Depth(input, (x - 1) + 1) = Depth(input, x - 1)
  <2>1. (x - 1) + 1 = x BY <1>4
  <2>2. input[(x - 1) + 1] \notin {Open, Close} BY <1>4, <2>1
  <2>. QED BY <1>4, <2>2, Depths
<1>8. (x - 1) + 1 = x BY <1>4
<1>. QED BY <1>2, <1>6, <1>7, <1>8
-----------------------------------------------------------------------------
(* The stack of parse_list's calls against the tokens read.  out is what   *)
(* was read outside of lists, ls what each list has, e an expression about *)
(* to be put into the innermost: between them, and an "(" for each list,   *)
(* they are the tokens in order.  cut says where the lists begin.          *)
Tokens == Seq(Chars)

Holds(toks, out, ls, e) ==
  \E cut \in [1 .. Len(ls) + 1 -> 1 .. Len(toks) + 1] :
    /\ out = SubSeq(toks, 1, cut[1] - 1)
    /\ \A j \in 1 .. Len(ls) :
         /\ cut[j] < cut[j + 1] /\ toks[cut[j]] = <<Open>>
         /\ ls[j] = SubSeq(toks, cut[j] + 1, cut[j + 1] - 1)
    /\ e = SubSeq(toks, cut[Len(ls) + 1], Len(toks))

Stacks == Seq(Seq(Tokens))

LEMMA HoldsNothing == Holds(<< >>, << >>, << >>, << >>)
<1>. DEFINE cut == [j \in 1 .. 1 |-> 1]
<1>1. Len(<< >>) = 0 OBVIOUS
<1>2. cut \in [1 .. 0 + 1 -> 1 .. 0 + 1] /\ cut[1] = 1 OBVIOUS
<1>3. SubSeq(<< >>, 1, 0) = << >> BY SubSeqEmpty
<1>. HIDE DEF cut
<1>. QED BY <1>1, <1>2, <1>3 DEF Holds

(* A prefix of tokens is not changed by another one. *)
LEMMA SameSubSeq ==
  ASSUME NEW toks \in Seq(Tokens), NEW t \in Tokens,
         NEW a \in 1 .. Len(toks) + 1, NEW b \in 0 .. Len(toks)
  PROVE  SubSeq(Append(toks, t), a, b) = SubSeq(toks, a, b)
<1>. DEFINE more == Append(toks, t)
<1>1. Len(toks) \in Nat BY LenProperties
<1>2. /\ more \in Seq(Tokens) /\ Len(more) = Len(toks) + 1
      /\ \A i \in 1 .. Len(toks) : more[i] = toks[i]
  BY AppendProperties
<1>3. \A i \in 1 .. Len(toks) : toks[i] \in Tokens BY ElementOfSeq
<1>. HIDE DEF more
<1>4. \A i \in a .. b : more[i] \in Tokens /\ toks[i] \in Tokens BY <1>1, <1>2, <1>3
<1>5. /\ SubSeq(more, a, b) \in Seq(Tokens) /\ SubSeq(toks, a, b) \in Seq(Tokens)
      /\ Len(SubSeq(more, a, b)) = Len(SubSeq(toks, a, b))
  BY <1>1, <1>4, SubSeqProperties
<1>6. ASSUME NEW i \in 1 .. Len(SubSeq(more, a, b))
      PROVE  SubSeq(more, a, b)[i] = SubSeq(toks, a, b)[i]
  <2>1. Len(SubSeq(more, a, b)) = IF a <= b THEN b - a + 1 ELSE 0 BY <1>4, <1>1, SubSeqProperties
  <2>2. i \in 1 .. b - a + 1 /\ a + i - 1 \in 1 .. Len(toks) BY <1>1, <2>1
  <2>3. SubSeq(more, a, b)[i] = more[a + i - 1] BY <1>1, <1>4, <2>2, SubSeqProperties
  <2>4. SubSeq(toks, a, b)[i] = toks[a + i - 1] BY <1>1, <1>4, <2>2, SubSeqProperties
  <2>. QED BY <1>2, <2>2, <2>3, <2>4
<1>7. SubSeq(more, a, b) = SubSeq(toks, a, b) BY <1>5, <1>6, SeqEqual
<1>. QED BY <1>7 DEF more

LEMMA HoldsToken ==
  ASSUME NEW toks \in Seq(Tokens), NEW t \in Tokens, NEW out, NEW ls \in Stacks,
         Holds(toks, out, ls, << >>)
  PROVE  Holds(Append(toks, t), out, ls, <<t>>)
<1>. DEFINE more == Append(toks, t)
            m == Len(ls)
            n == Len(toks)
<1>1. m \in Nat /\ n \in Nat BY LenProperties DEF Stacks
<1>2. /\ more \in Seq(Tokens) /\ Len(more) = n + 1
      /\ (\A i \in 1 .. n : more[i] = toks[i]) /\ more[n + 1] = t
  BY AppendProperties
<1>3. PICK cut \in [1 .. m + 1 -> 1 .. n + 1] :
        /\ out = SubSeq(toks, 1, cut[1] - 1)
        /\ \A j \in 1 .. m :
             /\ cut[j] < cut[j + 1] /\ toks[cut[j]] = <<Open>>
             /\ ls[j] = SubSeq(toks, cut[j] + 1, cut[j + 1] - 1)
        /\ << >> = SubSeq(toks, cut[m + 1], n)
  BY DEF Holds
<1>4. \A a \in 1 .. n + 1, b \in 0 .. n : SubSeq(more, a, b) = SubSeq(toks, a, b) BY SameSubSeq
<1>. HIDE DEF more, m, n
<1>5. \A j \in 1 .. m + 1 : cut[j] \in 1 .. n + 1 /\ cut[j] \in 1 .. n + 2 BY <1>1, <1>3
<1>6. cut[m + 1] = n + 1
  <2>1. m + 1 \in 1 .. m + 1 BY <1>1
  <2>2. cut[m + 1] \in 1 .. n + 1 BY <1>5, <2>1
  <2>3. \A i \in 1 .. n : toks[i] \in Tokens BY ElementOfSeq DEF n
  <2>4. Len(<< >>) = 0 OBVIOUS
  <2>5. Len(SubSeq(toks, cut[m + 1], n)) = IF cut[m + 1] <= n THEN n - cut[m + 1] + 1 ELSE 0
    BY <1>1, <2>2, <2>3, SubSeqProperties
  <2>6. SubSeq(toks, cut[m + 1], n) = << >> BY <1>3
  <2>7. Len(SubSeq(toks, cut[m + 1], n)) = 0 BY <2>4, <2>6
  <2>. QED BY <1>1, <2>2, <2>5, <2>7
<1>7. out = SubSeq(more, 1, cut[1] - 1)
  <2>1. cut[1] \in 1 .. n + 1 /\ 1 \in 1 .. n + 1 BY <1>1, <1>5
  <2>2. cut[1] - 1 \in 0 .. n BY <1>1, <2>1
  <2>. QED BY <1>3, <1>4, <2>1, <2>2
<1>8. ASSUME NEW j \in 1 .. m
      PROVE  /\ cut[j] < cut[j + 1] /\ more[cut[j]] = <<Open>>
             /\ ls[j] = SubSeq(more, cut[j] + 1, cut[j + 1] - 1)
  <2>1. j \in 1 .. m + 1 /\ j + 1 \in 1 .. m + 1 BY <1>1
  <2>2. cut[j] \in 1 .. n + 1 /\ cut[j + 1] \in 1 .. n + 1 /\ cut[j] < cut[j + 1]
    BY <1>3, <1>5, <2>1
  <2>3. cut[j] \in 1 .. n /\ cut[j] + 1 \in 1 .. n + 1 /\ cut[j + 1] - 1 \in 0 .. n BY <1>1, <2>2
  <2>. QED BY <1>2, <1>3, <1>4, <2>2, <2>3
<1>9. <<t>> = SubSeq(more, n + 1, n + 1)
  <2>1. n + 1 \in 1 .. Len(more) /\ n + 1 \in n + 1 .. Len(more) BY <1>1, <1>2
  <2>2. SubSeq(more, n + 1, n + 1) = << more[n + 1] >> \o SubSeq(more, n + 1 + 1, n + 1)
    BY <1>2, <2>1, SubSeqRecursiveFirst
  <2>3. SubSeq(more, n + 1 + 1, n + 1) = << >> BY <1>1, SubSeqEmpty
  <2>4. <<t>> \in Seq(Tokens) OBVIOUS
  <2>5. <<t>> \o << >> = <<t>> BY <2>4, ConcatEmptySeq
  <2>. QED BY <1>2, <2>2, <2>3, <2>5
<1>10. cut \in [1 .. Len(ls) + 1 -> 1 .. Len(more) + 1] BY <1>1, <1>2, <1>3, <1>5 DEF m
<1>11. <<t>> = SubSeq(more, cut[m + 1], Len(more)) BY <1>2, <1>6, <1>9
<1>12. Holds(more, out, ls, <<t>>)
  BY <1>7, <1>8, <1>10, <1>11 DEF Holds, m
<1>. QED BY <1>12 DEF more

(* "(": a list begins. *)
LEMMA HoldsOpen ==
  ASSUME NEW toks \in Seq(Tokens), NEW out, NEW ls \in Stacks, <<Open>> \in Tokens,
         Holds(toks, out, ls, << >>)
  PROVE  Holds(Append(toks, <<Open>>), out, Append(ls, << >>), << >>)
<1>. DEFINE more == Append(toks, <<Open>>)
            m == Len(ls)
            n == Len(toks)
            deeper == Append(ls, << >>)
<1>1. m \in Nat /\ n \in Nat BY LenProperties DEF Stacks
<1>2. /\ more \in Seq(Tokens) /\ Len(more) = n + 1
      /\ (\A i \in 1 .. n : more[i] = toks[i]) /\ more[n + 1] = <<Open>>
  BY AppendProperties
<1>3. Holds(more, out, ls, << <<Open>> >>) BY HoldsToken
<1>4. << >> \in Seq(Tokens) OBVIOUS
<1>5. /\ Len(deeper) = m + 1 /\ (\A i \in 1 .. m : deeper[i] = ls[i])
      /\ deeper[m + 1] = << >>
  BY <1>4, AppendProperties DEF Stacks
<1>. HIDE DEF more, m, n, deeper
<1>6. PICK cut \in [1 .. m + 1 -> 1 .. n + 2] :
        /\ out = SubSeq(more, 1, cut[1] - 1)
        /\ \A j \in 1 .. m :
             /\ cut[j] < cut[j + 1] /\ more[cut[j]] = <<Open>>
             /\ ls[j] = SubSeq(more, cut[j] + 1, cut[j + 1] - 1)
        /\ << <<Open>> >> = SubSeq(more, cut[m + 1], n + 1)
  <2>1. n + 1 + 1 = n + 2 BY <1>1
  <2>. QED BY <1>2, <1>3, <2>1 DEF Holds, m
<1>7. cut[m + 1] = n + 1
  <2>1. m + 1 \in 1 .. m + 1 BY <1>1
  <2>2. cut[m + 1] \in 1 .. n + 2 BY <1>6, <2>1
  <2>3. \A i \in 1 .. n + 1 : more[i] \in Tokens BY <1>2, ElementOfSeq
  <2>4. Len(<< <<Open>> >>) = 1 OBVIOUS
  <2>5. Len(SubSeq(more, cut[m + 1], n + 1)) =
          IF cut[m + 1] <= n + 1 THEN n + 1 - cut[m + 1] + 1 ELSE 0
    BY <1>1, <2>2, <2>3, SubSeqProperties
  <2>6. SubSeq(more, cut[m + 1], n + 1) = << <<Open>> >> BY <1>6
  <2>7. 1 = IF cut[m + 1] <= n + 1 THEN n + 1 - cut[m + 1] + 1 ELSE 0 BY <2>4, <2>5, <2>6, Zenon
  <2>. QED BY <1>1, <2>2, <2>7
<1>. DEFINE next == [j \in 1 .. m + 2 |-> IF j = m + 2 THEN n + 2 ELSE cut[j]]
<1>8. next \in [1 .. m + 2 -> 1 .. n + 2]
  <2>. SUFFICES ASSUME NEW j \in 1 .. m + 2, j # m + 2 PROVE cut[j] \in 1 .. n + 2
    BY <1>1
  <2>1. j \in 1 .. m + 1 BY <1>1
  <2>. QED BY <1>6, <2>1
<1>9. next[1] = cut[1] /\ next[m + 2] = n + 2 /\ \A j \in 1 .. m + 1 : next[j] = cut[j]
  BY <1>1
<1>. HIDE DEF next
<1>10. ASSUME NEW j \in 1 .. m + 1
       PROVE  /\ next[j] < next[j + 1] /\ more[next[j]] = <<Open>>
              /\ deeper[j] = SubSeq(more, next[j] + 1, next[j + 1] - 1)
  <2>1. CASE j = m + 1
    <3>1. j + 1 = m + 2 BY <1>1, <2>1
    <3>2. next[j] = n + 1 /\ next[j + 1] = n + 2 BY <1>7, <1>9, <2>1, <3>1
    <3>3. \A a, b \in Nat : a = n + 1 /\ b = n + 2 => SubSeq(more, a + 1, b - 1) = << >>
      BY <1>1, SubSeqEmpty
    <3>4. next[j] \in Nat /\ next[j + 1] \in Nat BY <1>1, <3>2
    <3>5. deeper[j] = SubSeq(more, next[j] + 1, next[j + 1] - 1)
      BY <1>5, <2>1, <3>2, <3>3, <3>4, Zenon
    <3>6. more[next[j]] = <<Open>> BY <1>2, <3>2, Zenon
    <3>7. next[j] < next[j + 1] BY <1>1, <3>2
    <3>. QED BY <3>5, <3>6, <3>7
  <2>2. CASE j # m + 1
    <3>1. j \in 1 .. m /\ j + 1 \in 1 .. m + 1 BY <1>1, <2>2
    <3>2. next[j] = cut[j] /\ next[j + 1] = cut[j + 1] /\ deeper[j] = ls[j] BY <1>5, <1>9, <3>1
    <3>. QED BY <1>6, <3>1, <3>2
  <2>. QED BY <2>1, <2>2
<1>11. << >> = SubSeq(more, next[m + 2], n + 1) BY <1>1, <1>9, SubSeqEmpty
<1>12. out = SubSeq(more, 1, next[1] - 1) BY <1>6, <1>9
<1>13. m + 1 + 1 = m + 2 /\ n + 1 + 1 = n + 2 BY <1>1
<1>14. next \in [1 .. Len(deeper) + 1 -> 1 .. Len(more) + 1] BY <1>2, <1>5, <1>8, <1>13
<1>15. << >> = SubSeq(more, next[Len(deeper) + 1], Len(more)) BY <1>2, <1>5, <1>11, <1>13
<1>16. Holds(more, out, deeper, << >>)
  BY <1>5, <1>10, <1>12, <1>14, <1>15 DEF Holds
<1>. QED BY <1>16 DEF more, deeper

(* The outer lists of a list. *)
LEMMA FrontFacts ==
  ASSUME NEW S, NEW ls \in Seq(S), ls # << >>
  PROVE  /\ Len(ls) \in Nat \ {0} /\ Front(ls) \in Seq(S) /\ Len(Front(ls)) = Len(ls) - 1
         /\ \A j \in 1 .. Len(ls) - 1 : Front(ls)[j] = ls[j]
         /\ Last(ls) \in S /\ Last(ls) = ls[Len(ls)]
         /\ Front(ls) = << >> <=> Len(ls) = 1
<1>. DEFINE m == Len(ls)
            f == Front(ls)
<1>1. m \in Nat \ {0} BY LenProperties, EmptySeq
<1>2. \A i \in 1 .. m : ls[i] \in S BY ElementOfSeq
<1>3. f = SubSeq(ls, 1, m - 1) BY DEF Front
<1>. HIDE DEF m, f
<1>4. /\ f \in Seq(S) /\ Len(f) = (IF 1 <= m - 1 THEN m - 1 - 1 + 1 ELSE 0)
      /\ \A i \in 1 .. m - 1 - 1 + 1 : f[i] = ls[1 + i - 1]
  BY <1>1, <1>2, <1>3, SubSeqProperties
<1>5. Len(f) = m - 1 BY <1>1, <1>4
<1>6. \A j \in 1 .. m - 1 : f[j] = ls[j]
  <2>. TAKE j \in 1 .. m - 1
  <2>1. j \in 1 .. m - 1 - 1 + 1 /\ 1 + j - 1 = j BY <1>1
  <2>. QED BY <1>4, <2>1
<1>7. f = << >> <=> m = 1
  <2>1. f = << >> <=> Len(f) = 0 BY <1>4, EmptySeq
  <2>. QED BY <1>1, <1>5, <2>1
<1>8. Last(ls) = ls[m] /\ ls[m] \in S BY <1>1, <1>2 DEF Last, m
<1>. QED BY <1>1, <1>4, <1>5, <1>6, <1>7, <1>8 DEF m, f

(* ")": the innermost list is an expression of its outer one. *)
LEMMA HoldsClose ==
  ASSUME NEW toks \in Seq(Tokens), NEW out, NEW ls \in Stacks, ls # << >>,
         <<Open>> \in Tokens, <<Close>> \in Tokens, Holds(toks, out, ls, << >>)
  PROVE  Holds(Append(toks, <<Close>>), out, Front(ls), List(Last(ls)))
<1>. DEFINE t == <<Close>>
            more == Append(toks, t)
            m == Len(ls)
            n == Len(toks)
            f == Front(ls)
<1>1. n \in Nat BY LenProperties
<1>2. /\ more \in Seq(Tokens) /\ Len(more) = n + 1
      /\ (\A i \in 1 .. n : more[i] = toks[i]) /\ more[n + 1] = t
  BY AppendProperties
<1>3. Holds(more, out, ls, <<t>>) BY HoldsToken
<1>4. /\ m \in Nat \ {0} /\ Len(f) = m - 1 /\ Last(ls) = ls[m] /\ Last(ls) \in Seq(Tokens)
      /\ \A j \in 1 .. m - 1 : f[j] = ls[j]
  BY FrontFacts DEF Stacks
<1>. HIDE DEF more, m, n, f, t
<1>5. PICK cut \in [1 .. m + 1 -> 1 .. n + 2] :
        /\ out = SubSeq(more, 1, cut[1] - 1)
        /\ \A j \in 1 .. m :
             /\ cut[j] < cut[j + 1] /\ more[cut[j]] = <<Open>>
             /\ ls[j] = SubSeq(more, cut[j] + 1, cut[j + 1] - 1)
        /\ <<t>> = SubSeq(more, cut[m + 1], n + 1)
  <2>1. n + 1 + 1 = n + 2 BY <1>1
  <2>. QED BY <1>2, <1>3, <2>1 DEF Holds, m
<1>6. m \in 1 .. m + 1 /\ m + 1 \in 1 .. m + 1 /\ m \in 1 .. m BY <1>4
<1>7. cut[m + 1] = n + 1
  <2>2. cut[m + 1] \in 1 .. n + 2 BY <1>5, <1>6
  <2>3. \A i \in 1 .. n + 1 : more[i] \in Tokens BY <1>2, ElementOfSeq
  <2>4. Len(<<t>>) = 1 OBVIOUS
  <2>5. Len(SubSeq(more, cut[m + 1], n + 1)) =
          IF cut[m + 1] <= n + 1 THEN n + 1 - cut[m + 1] + 1 ELSE 0
    BY <1>1, <2>2, <2>3, SubSeqProperties
  <2>6. SubSeq(more, cut[m + 1], n + 1) = <<t>> BY <1>5
  <2>7. 1 = IF cut[m + 1] <= n + 1 THEN n + 1 - cut[m + 1] + 1 ELSE 0 BY <2>4, <2>5, <2>6, Zenon
  <2>8. \A c \in 1 .. n + 2 : 1 = (IF c <= n + 1 THEN n + 1 - c + 1 ELSE 0) => c = n + 1 BY <1>1
  <2>. QED BY <2>2, <2>7, <2>8, Zenon
<1>8. cut[m] \in 1 .. n
  <2>1. cut[m] \in 1 .. n + 2 /\ cut[m] < cut[m + 1] BY <1>5, <1>6
  <2>. QED BY <1>1, <1>7, <2>1
(* List(Last(ls)) is what comes from its "(" on. *)
<1>9. List(Last(ls)) = SubSeq(more, cut[m], n + 1)
  <2>. DEFINE inner == SubSeq(more, cut[m] + 1, n)
  <2>1. Last(ls) = inner /\ more[cut[m]] = <<Open>>
    <3>1. cut[m + 1] - 1 = n BY <1>1, <1>7
    <3>. QED BY <1>4, <1>5, <1>6, <3>1
  <2>2. cut[m] \in 1 .. Len(more) /\ n + 1 \in cut[m] .. Len(more) BY <1>1, <1>2, <1>8
  <2>3. SubSeq(more, cut[m], n + 1) = << more[cut[m]] >> \o SubSeq(more, cut[m] + 1, n + 1)
    BY <1>2, <2>2, SubSeqRecursiveFirst
  <2>4. cut[m] + 1 \in 1 .. Len(more) /\ n + 1 \in cut[m] + 1 .. Len(more) BY <1>1, <1>2, <1>8
  <2>5. SubSeq(more, cut[m] + 1, n + 1) = SubSeq(more, cut[m] + 1, n) \o << more[n + 1] >>
    <3>. DEFINE a == cut[m] + 1
                b == n + 1
    <3>1. a \in 1 .. Len(more) /\ b \in a .. Len(more) BY <2>4
    <3>2. b - 1 = n BY <1>1
    <3>. HIDE DEF a, b
    <3>3. SubSeq(more, a, b) = SubSeq(more, a, b - 1) \o << more[b] >>
      BY <1>2, <3>1, SubSeqRecursiveSecond
    <3>4. SubSeq(more, a, b) = SubSeq(more, a, n) \o << more[b] >> BY <3>2, <3>3, Zenon
    <3>. QED BY <3>4, Zenon DEF a, b
  <2>7. SubSeq(more, cut[m], n + 1) = << <<Open>> >> \o (inner \o <<t>>)
    BY <1>2, <2>1, <2>3, <2>5
  <2>8. << <<Open>> >> \in Seq(Tokens) /\ <<t>> \in Seq(Tokens) /\ inner \in Seq(Tokens)
    BY <1>4, <2>1 DEF t
  <2>. HIDE DEF inner
  <2>9. (<< <<Open>> >> \o inner) \o <<t>> = << <<Open>> >> \o (inner \o <<t>>)
    BY <2>8, ConcatAssociative
  <2>10. List(Last(ls)) = (<< <<Open>> >> \o inner) \o <<t>> BY <2>1 DEF List, t
  <2>. QED BY <2>7, <2>9, <2>10
<1>. DEFINE next == [j \in 1 .. m |-> cut[j]]
<1>10. next \in [1 .. m -> 1 .. n + 2] /\ next[1] = cut[1] /\ next[m] = cut[m]
       /\ \A j \in 1 .. m - 1 : next[j] = cut[j] /\ next[j + 1] = cut[j + 1]
  <2>1. \A j \in 1 .. m : j \in 1 .. m + 1 BY <1>4
  <2>2. 1 \in 1 .. m /\ \A j \in 1 .. m - 1 : j \in 1 .. m /\ j + 1 \in 1 .. m BY <1>4
  <2>. QED BY <1>5, <1>6, <2>1, <2>2
<1>. HIDE DEF next
<1>11. ASSUME NEW j \in 1 .. m - 1
       PROVE  /\ next[j] < next[j + 1] /\ more[next[j]] = <<Open>>
              /\ f[j] = SubSeq(more, next[j] + 1, next[j + 1] - 1)
  <2>1. j \in 1 .. m BY <1>4
  <2>2. next[j] = cut[j] /\ next[j + 1] = cut[j + 1] /\ f[j] = ls[j] BY <1>4, <1>10
  <2>. QED BY <1>5, <2>1, <2>2
<1>12. m - 1 + 1 = m /\ n + 1 + 1 = n + 2 BY <1>1, <1>4
<1>13. next \in [1 .. Len(f) + 1 -> 1 .. Len(more) + 1] BY <1>2, <1>4, <1>10, <1>12
<1>14. List(Last(ls)) = SubSeq(more, next[Len(f) + 1], Len(more)) BY <1>2, <1>4, <1>9, <1>10, <1>12
<1>15. out = SubSeq(more, 1, next[1] - 1) BY <1>5, <1>10
<1>16. Holds(more, out, f, List(Last(ls)))
  BY <1>4, <1>11, <1>13, <1>14, <1>15 DEF Holds
<1>. QED BY <1>16 DEF more, f, t

(* What Return does with an expression. *)
LEMMA HoldsReturn ==
  ASSUME NEW toks \in Seq(Tokens), NEW out, NEW ls \in Stacks, NEW e, Holds(toks, out, ls, e)
  PROVE  /\ ls = << >> => out \o e = toks /\ Holds(toks, out \o e, << >>, << >>)
         /\ ls # << >> => Holds(toks, out, Append(Front(ls), Last(ls) \o e), << >>)
<1>. DEFINE m == Len(ls)
            n == Len(toks)
<1>1. m \in Nat /\ n \in Nat BY LenProperties DEF Stacks
<1>. HIDE DEF m, n
<1>2. PICK cut \in [1 .. m + 1 -> 1 .. n + 1] :
        /\ out = SubSeq(toks, 1, cut[1] - 1)
        /\ \A j \in 1 .. m :
             /\ cut[j] < cut[j + 1] /\ toks[cut[j]] = <<Open>>
             /\ ls[j] = SubSeq(toks, cut[j] + 1, cut[j + 1] - 1)
        /\ e = SubSeq(toks, cut[m + 1], n)
  BY DEF Holds, m, n
<1>3. \A j \in 1 .. m + 1 : cut[j] \in 1 .. n + 1 BY <1>2
<1>4. SubSeq(toks, n + 1, n) = << >> BY <1>1, SubSeqEmpty
<1>5. ASSUME ls = << >>
      PROVE  out \o e = toks /\ Holds(toks, out \o e, << >>, << >>)
  <2>1. m = 0 /\ Len(<< >>) = 0 BY <1>5 DEF m
  <2>2. cut[1] \in 1 .. n + 1 /\ e = SubSeq(toks, cut[1], n)
    <3>1. m + 1 = 1 /\ 1 \in 1 .. m + 1 BY <2>1
    <3>. QED BY <1>2, <1>3, <3>1
  <2>3. /\ 1 \in 1 .. Len(toks) + 1 /\ cut[1] - 1 \in 1 - 1 .. Len(toks)
        /\ n \in cut[1] - 1 .. Len(toks) /\ (cut[1] - 1) + 1 = cut[1]
    BY <1>1, <2>2 DEF n
  <2>4. SubSeq(toks, 1, cut[1] - 1) \o SubSeq(toks, (cut[1] - 1) + 1, n) = SubSeq(toks, 1, n)
    BY <2>3, ConcatAdjacentSubSeq
  <2>5. SubSeq(toks, 1, n) = toks BY SubSeqFull DEF n
  <2>6. out \o e = toks BY <1>2, <2>2, <2>3, <2>4, <2>5
  <2>. DEFINE next == [j \in 1 .. 1 |-> n + 1]
  <2>7. next \in [1 .. 0 + 1 -> 1 .. n + 1] /\ next[1] = n + 1 /\ next[0 + 1] = n + 1 BY <1>1
  <2>. HIDE DEF next
  <2>8. n + 1 - 1 = n BY <1>1
  <2>9. toks = SubSeq(toks, 1, next[1] - 1)
    <3>1. \A b \in Nat : b = n + 1 => b - 1 = n BY <1>1
    <3>2. next[1] \in Nat BY <1>1, <2>7
    <3>. QED BY <2>5, <2>7, <3>1, <3>2, Zenon
  <2>10. << >> = SubSeq(toks, next[0 + 1], n) BY <1>4, <2>7
  <2>11. Holds(toks, toks, << >>, << >>) BY <2>1, <2>7, <2>9, <2>10 DEF Holds, n
  <2>. QED BY <2>6, <2>11
<1>6. ASSUME ls # << >>
      PROVE  Holds(toks, out, Append(Front(ls), Last(ls) \o e), << >>)
  <2>. DEFINE f == Front(ls)
              top == Last(ls) \o e
              new == Append(f, top)
  <2>1. /\ m \in Nat \ {0} /\ Len(f) = m - 1 /\ Last(ls) = ls[m] /\ f \in Seq(Seq(Tokens))
        /\ \A j \in 1 .. m - 1 : f[j] = ls[j]
    BY <1>6, FrontFacts DEF Stacks, m
  <2>2. m \in 1 .. m /\ m \in 1 .. m + 1 /\ m + 1 \in 1 .. m + 1 BY <2>1
  <2>3. /\ cut[m] \in 1 .. n + 1 /\ cut[m + 1] \in 1 .. n + 1 /\ cut[m] < cut[m + 1]
        /\ ls[m] = SubSeq(toks, cut[m] + 1, cut[m + 1] - 1)
    BY <1>2, <1>3, <2>2
  <2>4. top = SubSeq(toks, cut[m] + 1, n)
    <3>1. /\ cut[m] + 1 \in 1 .. Len(toks) + 1
          /\ cut[m + 1] - 1 \in (cut[m] + 1) - 1 .. Len(toks)
          /\ n \in cut[m + 1] - 1 .. Len(toks) /\ (cut[m + 1] - 1) + 1 = cut[m + 1]
      BY <1>1, <2>3 DEF n
    <3>2. SubSeq(toks, cut[m] + 1, cut[m + 1] - 1) \o SubSeq(toks, (cut[m + 1] - 1) + 1, n)
            = SubSeq(toks, cut[m] + 1, n)
      BY <3>1, ConcatAdjacentSubSeq
    <3>3. SubSeq(toks, (cut[m + 1] - 1) + 1, n) = e BY <1>2, <3>1
    <3>. QED BY <2>1, <2>3, <3>2, <3>3
  <2>5. top \in Seq(Tokens)
    <3>1. \A i \in cut[m] + 1 .. n : i \in 1 .. n BY <1>1, <2>3
    <3>2. \A i \in 1 .. n : toks[i] \in Tokens BY ElementOfSeq DEF n
    <3>3. \A i \in cut[m] + 1 .. n : toks[i] \in Tokens BY <3>1, <3>2
    <3>4. cut[m] + 1 \in Int /\ n \in Int BY <1>1, <2>3
    <3>5. SubSeq(toks, cut[m] + 1, n) \in Seq(Tokens) BY <3>3, <3>4, SubSeqProperties
    <3>. QED BY <2>4, <3>5
  <2>. HIDE DEF f, top
  <2>6. Len(new) = m /\ new[m] = top /\ \A j \in 1 .. m - 1 : new[j] = ls[j]
    BY <2>1, <2>5, AppendProperties
  <2>. HIDE DEF new
  <2>. DEFINE next == [j \in 1 .. m + 1 |-> IF j = m + 1 THEN n + 1 ELSE cut[j]]
  <2>7. next \in [1 .. m + 1 -> 1 .. n + 1] BY <1>1, <1>3
  <2>8. next[1] = cut[1] /\ next[m + 1] = n + 1 /\ \A j \in 1 .. m : next[j] = cut[j]
    BY <2>1
  <2>. HIDE DEF next
  <2>9. ASSUME NEW j \in 1 .. m
        PROVE  /\ next[j] < next[j + 1] /\ toks[next[j]] = <<Open>>
               /\ new[j] = SubSeq(toks, next[j] + 1, next[j + 1] - 1)
    <3>1. next[j] = cut[j] /\ toks[cut[j]] = <<Open>> BY <1>2, <2>8
    <3>2. CASE j = m
      <4>1. next[j + 1] = n + 1 /\ n + 1 - 1 = n BY <1>1, <2>8, <3>2
      <4>2. new[j] = SubSeq(toks, next[j] + 1, next[j + 1] - 1)
        <5>1. \A b \in Nat : b = n + 1 => b - 1 = n BY <1>1
        <5>2. next[j] = cut[m] /\ next[j + 1] \in Nat BY <1>1, <3>1, <3>2, <4>1
        <5>. QED BY <2>4, <2>6, <3>2, <4>1, <5>1, <5>2, Zenon
      <4>3. next[j] < next[j + 1] BY <1>1, <2>3, <3>1, <3>2, <4>1
      <4>. QED BY <3>1, <4>2, <4>3
    <3>3. CASE j # m
      <4>1. j \in 1 .. m - 1 /\ j + 1 \in 1 .. m BY <2>1, <3>3
      <4>2. next[j + 1] = cut[j + 1] /\ new[j] = ls[j] BY <2>6, <2>8, <4>1
      <4>. QED BY <1>2, <3>1, <4>2
    <3>. QED BY <3>2, <3>3
  <2>10. out = SubSeq(toks, 1, next[1] - 1) BY <1>2, <2>8
  <2>11. << >> = SubSeq(toks, next[m + 1], n) BY <1>4, <2>8
  <2>12. Holds(toks, out, new, << >>)
    BY <2>6, <2>7, <2>9, <2>10, <2>11 DEF Holds, n
  <2>. QED BY <2>12 DEF new, f, top
<1>. QED BY <1>5, <1>6
-----------------------------------------------------------------------------
(* The tokens read of the first n characters of a text, and the ")" added   *)
(* at its end.                                                             *)
SoFar(T, toks, n) ==
  /\ toks \in Seq(Tokens) /\ Rank(T, n) <= Len(toks)
  /\ \A p \in TokenStarts(T, n) : toks[Rank(T, p)] = TokenAt(T, p)
  /\ \A k \in Rank(T, n) + 1 .. Len(toks) : toks[k] = <<Close>>

LEMMA RankRange ==
  ASSUME NEW T, NEW n \in Nat, NEW p \in TokenStarts(T, n)
  PROVE  Rank(T, p) \in 1 .. Rank(T, n)
<1>1. p \in 1 .. n /\ p \in Nat /\ StartsToken(T, p) BY DEF TokenStarts
<1>2. \A q \in 1 .. p : q \in 1 .. n BY <1>1
<1>3. TokenStarts(T, p) \in SUBSET TokenStarts(T, n) BY <1>2 DEF TokenStarts
<1>4. p \in TokenStarts(T, p)
  <2>1. p \in 1 .. p BY <1>1
  <2>. QED BY <1>1, <2>1 DEF TokenStarts
<1>5. IsFiniteSet(TokenStarts(T, n)) /\ IsFiniteSet(TokenStarts(T, p))
      /\ Rank(T, n) \in Nat /\ Rank(T, p) \in Nat
  BY <1>1, StartsFinite
<1>6. Rank(T, p) <= Rank(T, n) BY <1>3, <1>5, FS_Subset DEF Rank
<1>7. Rank(T, p) # 0 BY <1>4, <1>5, FS_EmptySet DEF Rank
<1>. QED BY <1>5, <1>6, <1>7

(* One more token. *)
LEMMA Advance ==
  ASSUME NEW T, NEW toks, NEW n \in Nat, NEW m \in Nat, n + 1 <= m,
         SoFar(T, toks, n), Len(toks) = Rank(T, n),
         StartsToken(T, n + 1), \A q \in n + 2 .. m : ~StartsToken(T, q),
         TokenAt(T, n + 1) \in Tokens
  PROVE  /\ SoFar(T, Append(toks, TokenAt(T, n + 1)), m)
         /\ Rank(T, m) = Rank(T, n) + 1
<1>. DEFINE t == TokenAt(T, n + 1)
            more == Append(toks, t)
<1>1. Rank(T, n) \in Nat /\ toks \in Seq(Tokens) BY StartsFinite DEF SoFar
<1>2. /\ TokenStarts(T, n + 1) = TokenStarts(T, n) \union {n + 1}
      /\ Rank(T, n + 1) = Rank(T, n) + 1
  BY OneStart
<1>3. TokenStarts(T, m) = TokenStarts(T, n + 1) /\ Rank(T, m) = Rank(T, n + 1)
  <2>1. n + 1 \in Nat /\ n + 1 + 1 = n + 2 OBVIOUS
  <2>2. \A q \in n + 1 + 1 .. m : ~StartsToken(T, q) BY <2>1
  <2>. QED BY <2>1, <2>2, NoStart
<1>4. /\ more \in Seq(Tokens) /\ Len(more) = Len(toks) + 1
      /\ (\A i \in 1 .. Len(toks) : more[i] = toks[i]) /\ more[Len(toks) + 1] = t
  BY <1>1, AppendProperties
<1>. HIDE DEF more
<1>5. ASSUME NEW p \in TokenStarts(T, m)
      PROVE  more[Rank(T, p)] = TokenAt(T, p)
  <2>1. CASE p = n + 1 BY <1>2, <1>4, <2>1
  <2>2. CASE p \in TokenStarts(T, n)
    <3>1. Rank(T, p) \in 1 .. Len(toks) BY <2>2, RankRange
    <3>. QED BY <1>4, <2>2, <3>1 DEF SoFar
  <2>. QED BY <1>2, <1>3, <2>1, <2>2
<1>6. Rank(T, m) = Len(more) BY <1>2, <1>3, <1>4
<1>7. \A k \in Rank(T, m) + 1 .. Len(more) : more[k] = <<Close>> BY <1>1, <1>2, <1>3, <1>6
<1>8. Rank(T, m) <= Len(more) BY <1>1, <1>2, <1>3, <1>6
<1>9. SoFar(T, more, m) BY <1>4, <1>5, <1>7, <1>8 DEF SoFar
<1>. QED BY <1>2, <1>3, <1>9 DEF more

(* A ")" added at the end. *)
LEMMA AddClose ==
  ASSUME NEW T, NEW toks, NEW n \in Nat, SoFar(T, toks, n), <<Close>> \in Tokens
  PROVE  SoFar(T, Append(toks, <<Close>>), n)
<1>. DEFINE t == <<Close>>
            more == Append(toks, t)
<1>1. Rank(T, n) \in Nat /\ toks \in Seq(Tokens) /\ Rank(T, n) <= Len(toks)
  BY StartsFinite DEF SoFar
<1>2. /\ more \in Seq(Tokens) /\ Len(more) = Len(toks) + 1 /\ Len(toks) \in Nat
      /\ (\A i \in 1 .. Len(toks) : more[i] = toks[i]) /\ more[Len(toks) + 1] = t
  BY <1>1, AppendProperties, LenProperties
<1>. HIDE DEF more
<1>3. ASSUME NEW p \in TokenStarts(T, n)
      PROVE  more[Rank(T, p)] = TokenAt(T, p)
  <2>1. Rank(T, p) \in 1 .. Rank(T, n) BY RankRange
  <2>2. Rank(T, p) \in 1 .. Len(toks) BY <1>1, <1>2, <2>1
  <2>. QED BY <1>2, <2>2 DEF SoFar
<1>4. ASSUME NEW k \in Rank(T, n) + 1 .. Len(more)
      PROVE  more[k] = <<Close>>
  <2>1. CASE k = Len(toks) + 1 BY <1>2, <2>1
  <2>2. CASE k # Len(toks) + 1
    <3>1. k \in Rank(T, n) + 1 .. Len(toks) /\ k \in 1 .. Len(toks) BY <1>1, <1>2, <2>2
    <3>. QED BY <1>2, <3>1 DEF SoFar
  <2>. QED BY <2>1, <2>2
<1>5. Rank(T, n) <= Len(more) BY <1>1, <1>2
<1>6. SoFar(T, more, n) BY <1>2, <1>3, <1>4, <1>5 DEF SoFar
<1>. QED BY <1>6 DEF more

(* Where the parser is after whitespace: no token was passed, and another  *)
(* begins, or the text ends.                                               *)
LEMMA Skipped ==
  ASSUME NEW T \in Seq(Chars), NEW from \in 1 .. Len(T) + 1,
         from = 1 \/ T[from - 1] \in Delimiters \/ (from <= Len(T) => T[from] \in Delimiters)
  PROVE  /\ \A q \in from .. SkipWhitespace(T, from) - 1 :
              ~StartsToken(T, q) /\ Depth(T, q) = Depth(T, from - 1)
         /\ Depth(T, SkipWhitespace(T, from) - 1) = Depth(T, from - 1)
         /\ SkipWhitespace(T, from) <= Len(T) => StartsToken(T, SkipWhitespace(T, from))
         /\ SkipWhitespace(T, from) \in from .. Len(T) + 1
<1>. DEFINE u == SkipWhitespace(T, from)
<1>1. Len(T) \in Nat BY LenProperties
<1>2. /\ u \in from .. Len(T) + 1 /\ (\A q \in from .. u - 1 : T[q] = Space)
      /\ u <= Len(T) => T[u] # Space
  BY SkipFacts
<1>. HIDE DEF u
<1>3. Space \notin {Open, Close} /\ Delimiters = {Space, Open, Close}
  BY DEF Space, Open, Close, Delimiters
<1>4. \A q \in from .. u - 1 : ~StartsToken(T, q) BY <1>2, <1>3 DEF StartsToken
<1>5. \A p \in from - 1 .. u - 1 : Depth(T, p) = Depth(T, from - 1)
  <2>1. from - 1 \in Nat /\ u - 1 \in Nat /\ from - 1 <= u - 1 /\ from - 1 + 1 = from
    BY <1>1, <1>2
  <2>2. \A q \in (from - 1) + 1 .. u - 1 : T[q] \notin {Open, Close} BY <1>2, <1>3, <2>1
  <2>. QED BY <2>1, <2>2, DepthsBetween
<1>6. \A q \in from .. u - 1 : Depth(T, q) = Depth(T, from - 1) BY <1>1, <1>2, <1>5
<1>7. Depth(T, u - 1) = Depth(T, from - 1) BY <1>1, <1>2, <1>5
<1>8. ASSUME u <= Len(T) PROVE StartsToken(T, u)
  <2>1. CASE u = from
    <3>1. CASE from = 1 BY <1>2, <1>8, <2>1, <3>1 DEF StartsToken
    <3>2. CASE T[from - 1] \in Delimiters BY <1>2, <1>8, <2>1, <3>2 DEF StartsToken
    <3>3. CASE from <= Len(T) => T[from] \in Delimiters
      BY <1>2, <1>3, <1>8, <2>1, <3>3 DEF StartsToken
    <3>. QED BY <3>1, <3>2, <3>3
  <2>2. CASE u # from
    <3>1. u - 1 \in from .. u - 1 BY <1>1, <1>2, <2>2
    <3>2. T[u - 1] \in Delimiters BY <1>2, <1>3, <3>1
    <3>. QED BY <1>2, <1>8, <3>2 DEF StartsToken
  <2>. QED BY <2>1, <2>2
<1>. QED BY <1>2, <1>4, <1>6, <1>7, <1>8 DEF u
-----------------------------------------------------------------------------
(* Where parsing stands: with pos_ at a token or at the end, the stack and *)
(* what is printed hold the tokens before it.                              *)
Parsed(T, p, ls, out) ==
  /\ \E toks :
       /\ SoFar(T, toks, p - 1) /\ Holds(toks, out, ls, << >>)
       /\ Len(toks) + Len(ls) = Rank(T, p - 1) + Depth(T, p - 1)
       /\ p <= Len(T) => Len(toks) = Rank(T, p - 1)
  /\ \A q \in 1 .. p - 1 : Depth(T, q) >= 0
  /\ p <= Len(T) => StartsToken(T, p)

LEMMA ParsedNothing ==
  ASSUME NEW T \in Seq(Chars)
  PROVE  Parsed(T, SkipWhitespace(T, 1), << >>, << >>)
<1>. DEFINE u == SkipWhitespace(T, 1)
<1>1. Len(T) \in Nat /\ 1 \in 1 .. Len(T) + 1 /\ 1 - 1 = 0 BY LenProperties
<1>2. /\ \A q \in 1 .. u - 1 : ~StartsToken(T, q) /\ Depth(T, q) = Depth(T, 0)
      /\ Depth(T, u - 1) = Depth(T, 0)
      /\ u <= Len(T) => StartsToken(T, u)
      /\ u \in 1 .. Len(T) + 1
  BY <1>1, Skipped
<1>. HIDE DEF u
<1>3. Depth(T, 0) = 0 BY Depths
<1>4. 0 \in Nat /\ u - 1 \in Nat /\ 0 <= u - 1 /\ 0 + 1 = 1 BY <1>2
<1>5. TokenStarts(T, u - 1) = TokenStarts(T, 0) /\ Rank(T, u - 1) = Rank(T, 0)
  <2>1. \A q \in 0 + 1 .. u - 1 : ~StartsToken(T, q) BY <1>2
  <2>. QED BY <1>4, <2>1, NoStart
<1>6. TokenStarts(T, 0) = {} BY DEF TokenStarts
<1>7. Rank(T, 0) = 0 BY <1>6, FS_EmptySet DEF Rank
<1>8. << >> \in Seq(Tokens) /\ Len(<< >>) = 0 OBVIOUS
<1>9. SoFar(T, << >>, u - 1) BY <1>5, <1>6, <1>7, <1>8 DEF SoFar
<1>10. Len(<< >>) + Len(<< >>) = Rank(T, u - 1) + Depth(T, u - 1) /\ Len(<< >>) = Rank(T, u - 1)
  BY <1>2, <1>3, <1>5, <1>7, <1>8
<1>11. \A q \in 1 .. u - 1 : Depth(T, q) >= 0 BY <1>2, <1>3
<1>12. Parsed(T, u, << >>, << >>)
  BY <1>2, <1>9, <1>10, <1>11, HoldsNothing, Zenon DEF Parsed
<1>. QED BY <1>12 DEF u

(* After toks comes the token at p, which ends before from, depth deep. *)
Passes(T, p, from, toks, depth) ==
  /\ SoFar(T, toks, p - 1) /\ Len(toks) = Rank(T, p - 1)
  /\ StartsToken(T, p) /\ TokenAt(T, p) \in Tokens
  /\ \A q \in p + 1 .. from - 1 : ~StartsToken(T, q)
  /\ \A q \in 1 .. p - 1 : Depth(T, q) >= 0
  /\ \A q \in p .. from - 1 : Depth(T, q) = depth
  /\ T[from - 1] \in Delimiters \/ (from <= Len(T) => T[from] \in Delimiters)

LEMMA ParsedToken ==
  ASSUME NEW T \in Seq(Chars), NEW p \in 1 .. Len(T), NEW from \in p + 1 .. Len(T) + 1,
         NEW toks, NEW deeper \in Stacks, NEW printing,
         Passes(T, p, from, toks, Len(deeper)),
         Holds(Append(toks, TokenAt(T, p)), printing, deeper, << >>)
  PROVE  Parsed(T, SkipWhitespace(T, from), deeper, printing)
<1>. USE DEF Passes
<1>. DEFINE u == SkipWhitespace(T, from)
            n == p - 1
            more == Append(toks, TokenAt(T, p))
<1>1. Len(T) \in Nat /\ Len(deeper) \in Nat BY LenProperties DEF Stacks
<1>2. n \in Nat /\ n + 1 = p /\ n + 2 = p + 1 OBVIOUS
<1>3. /\ \A q \in from .. u - 1 : ~StartsToken(T, q) /\ Depth(T, q) = Depth(T, from - 1)
      /\ Depth(T, u - 1) = Depth(T, from - 1)
      /\ u <= Len(T) => StartsToken(T, u)
      /\ u \in from .. Len(T) + 1
  <2>1. from \in 1 .. Len(T) + 1 BY <1>1
  <2>. QED BY <2>1, Skipped
<1>. HIDE DEF u, n
<1>4. Depth(T, from - 1) = Len(deeper) BY <1>1
<1>5. SoFar(T, more, u - 1) /\ Rank(T, u - 1) = Rank(T, n) + 1
  <2>1. u - 1 \in Nat /\ n + 1 <= u - 1 BY <1>1, <1>2, <1>3
  <2>2. \A q \in n + 2 .. u - 1 : ~StartsToken(T, q)
    <3>. TAKE q \in n + 2 .. u - 1
    <3>1. q \in p + 1 .. from - 1 \/ q \in from .. u - 1 BY <1>1, <1>2, <1>3
    <3>. QED BY <1>3, <3>1
  <2>3. SoFar(T, toks, n) /\ Len(toks) = Rank(T, n) BY DEF n
  <2>. QED BY <1>2, <2>1, <2>2, <2>3, Advance
<1>6. Len(more) = Rank(T, u - 1)
  <2>1. toks \in Seq(Tokens) BY DEF SoFar
  <2>2. Len(more) = Len(toks) + 1 BY <2>1, AppendProperties
  <2>. QED BY <1>5, <2>2 DEF n
<1>7. \A q \in 1 .. u - 1 : Depth(T, q) >= 0
  <2>. TAKE q \in 1 .. u - 1
  <2>1. q \in 1 .. p - 1 \/ q \in p .. from - 1 \/ q \in from .. u - 1 BY <1>1, <1>3
  <2>. QED BY <1>1, <1>3, <1>4, <2>1
<1>. HIDE DEF more
<1>8. Len(more) + Len(deeper) = Rank(T, u - 1) + Depth(T, u - 1) BY <1>3, <1>4, <1>6
<1>9. Parsed(T, u, deeper, printing)
  BY <1>3, <1>5, <1>6, <1>7, <1>8 DEF Parsed, more
<1>. QED BY <1>9 DEF u

(* At a token, what Parsed says of the depth. *)
LEMMA ParsedAt ==
  ASSUME NEW T \in Seq(Chars), NEW p \in 1 .. Len(T) + 1, NEW ls \in Stacks, NEW out,
         Parsed(T, p, ls, out)
  PROVE  \E toks :
           /\ SoFar(T, toks, p - 1) /\ toks \in Seq(Tokens) /\ Holds(toks, out, ls, << >>)
           /\ Len(toks) + Len(ls) = Rank(T, p - 1) + Depth(T, p - 1)
           /\ p <= Len(T) => Len(toks) = Rank(T, p - 1) /\ Len(ls) = Depth(T, p - 1)
<1>1. PICK toks :
        /\ SoFar(T, toks, p - 1) /\ Holds(toks, out, ls, << >>)
        /\ Len(toks) + Len(ls) = Rank(T, p - 1) + Depth(T, p - 1)
        /\ p <= Len(T) => Len(toks) = Rank(T, p - 1)
  BY DEF Parsed
<1>2. p - 1 \in Nat BY LenProperties
<1>3. Rank(T, p - 1) \in Nat /\ Depth(T, p - 1) \in Int /\ Len(ls) \in Nat
  BY <1>2, StartsFinite, Depths, LenProperties DEF Stacks
<1>4. toks \in Seq(Tokens) BY <1>1 DEF SoFar
<1>5. p <= Len(T) => Len(ls) = Depth(T, p - 1) BY <1>1, <1>3
<1>. QED BY <1>1, <1>4, <1>5

(* "(" *)
LEMMA ParsedOpen ==
  ASSUME NEW T \in Seq(Chars), NEW p \in 1 .. Len(T), NEW ls \in Stacks, NEW out,
         Parsed(T, p, ls, out), T[p] = Open, <<Open>> \in Tokens
  PROVE  Parsed(T, SkipWhitespace(T, p + 1), Append(ls, << >>), out)
<1>. DEFINE deeper == Append(ls, << >>)
<1>1. p \in 1 .. Len(T) + 1 /\ Len(T) \in Nat BY LenProperties
<1>2. PICK toks :
        /\ SoFar(T, toks, p - 1) /\ toks \in Seq(Tokens) /\ Holds(toks, out, ls, << >>)
        /\ Len(toks) = Rank(T, p - 1) /\ Len(ls) = Depth(T, p - 1)
  BY <1>1, ParsedAt
<1>3. Open \in Delimiters /\ TokenAt(T, p) = <<Open>> BY DEF Delimiters, TokenAt
<1>4. Holds(Append(toks, <<Open>>), out, deeper, << >>) BY <1>2, HoldsOpen
<1>5. deeper \in Stacks /\ Len(deeper) = Len(ls) + 1
  <2>1. << >> \in Seq(Tokens) OBVIOUS
  <2>. QED BY <2>1, AppendProperties DEF Stacks
<1>. HIDE DEF deeper
<1>6. Depth(T, p) = Depth(T, p - 1) + 1
  <2>1. p - 1 \in Nat /\ p - 1 + 1 = p OBVIOUS
  <2>2. T[p - 1 + 1] = Open BY <2>1
  <2>. QED BY <2>1, <2>2, Depths
<1>7. p + 1 \in p + 1 .. Len(T) + 1 /\ p + 1 - 1 = p BY <1>1
<1>8. \A q \in p .. p + 1 - 1 : Depth(T, q) = Len(deeper) BY <1>2, <1>5, <1>6
<1>9. \A q \in p + 1 .. p + 1 - 1 : ~StartsToken(T, q) OBVIOUS
<1>10. T[p + 1 - 1] \in Delimiters BY <1>3, <1>7
<1>11. (\A q \in 1 .. p - 1 : Depth(T, q) >= 0) /\ StartsToken(T, p) BY <1>1 DEF Parsed
<1>12. Holds(Append(toks, TokenAt(T, p)), out, deeper, << >>) /\ TokenAt(T, p) \in Tokens
  BY <1>3, <1>4
<1>13. Passes(T, p, p + 1, toks, Len(deeper))
  BY <1>2, <1>8, <1>9, <1>10, <1>11, <1>12 DEF Passes
<1>14. Parsed(T, SkipWhitespace(T, p + 1), deeper, out)
  BY <1>5, <1>7, <1>12, <1>13, ParsedToken
<1>. QED BY <1>14 DEF deeper

(* What Return makes of the lists and of what is printed. *)
Into(ls, e) == IF ls = << >> THEN ls ELSE Append(Front(ls), Last(ls) \o e)
Printing(out, ls, e) == IF ls = << >> THEN out \o e ELSE out

LEMMA Returned ==
  ASSUME NEW ls \in Stacks, NEW e \in Seq(Tokens), NEW out \in Seq(Tokens)
  PROVE  /\ Into(ls, e) \in Stacks /\ Len(Into(ls, e)) = Len(ls)
         /\ Printing(out, ls, e) \in Seq(Tokens)
         /\ \A toks \in Seq(Tokens) : Holds(toks, out, ls, e) =>
              Holds(toks, Printing(out, ls, e), Into(ls, e), << >>)
<1>1. ASSUME ls # << >>
      PROVE  Into(ls, e) \in Stacks /\ Len(Into(ls, e)) = Len(ls)
  <2>1. /\ Len(ls) \in Nat \ {0} /\ Front(ls) \in Seq(Seq(Tokens))
        /\ Len(Front(ls)) = Len(ls) - 1 /\ Last(ls) \in Seq(Tokens)
    BY <1>1, FrontFacts DEF Stacks
  <2>2. Last(ls) \o e \in Seq(Tokens) BY <2>1, ConcatProperties
  <2>3. /\ Append(Front(ls), Last(ls) \o e) \in Seq(Seq(Tokens))
        /\ Len(Append(Front(ls), Last(ls) \o e)) = Len(Front(ls)) + 1
    BY <2>1, <2>2, AppendProperties
  <2>4. Len(Front(ls)) + 1 = Len(ls) BY <2>1
  <2>. QED BY <1>1, <2>3, <2>4 DEF Into, Stacks
<1>2. ASSUME ls = << >>
      PROVE  Into(ls, e) \in Stacks /\ Len(Into(ls, e)) = Len(ls)
  BY <1>2 DEF Into
<1>3. Printing(out, ls, e) \in Seq(Tokens)
  <2>1. out \o e \in Seq(Tokens) BY ConcatProperties
  <2>. QED BY <2>1 DEF Printing
<1>4. ASSUME NEW toks \in Seq(Tokens), Holds(toks, out, ls, e)
      PROVE  Holds(toks, Printing(out, ls, e), Into(ls, e), << >>)
  <2>1. /\ ls = << >> => Holds(toks, out \o e, << >>, << >>)
        /\ ls # << >> => Holds(toks, out, Append(Front(ls), Last(ls) \o e), << >>)
    BY <1>4, HoldsReturn
  <2>2. CASE ls = << >> BY <2>1, <2>2, Zenon DEF Printing, Into
  <2>3. CASE ls # << >> BY <2>1, <2>3, Zenon DEF Printing, Into
  <2>. QED BY <2>2, <2>3
<1>. QED BY <1>1, <1>2, <1>3, <1>4

(* ")", or the end within a list *)
LEMMA ParsedClose ==
  ASSUME NEW T \in Seq(Chars), NEW p \in 1 .. Len(T) + 1, NEW ls \in Stacks, ls # << >>,
         NEW out \in Seq(Tokens), Parsed(T, p, ls, out), p <= Len(T) => T[p] = Close,
         <<Open>> \in Tokens, <<Close>> \in Tokens,
         NEW e, e = List(Last(ls)),
         NEW from, from = IF Eof(T, p) THEN p ELSE p + 1
  PROVE  /\ Parsed(T, SkipWhitespace(T, from), Into(Front(ls), e), Printing(out, Front(ls), e))
         /\ e \in Seq(Tokens) /\ Front(ls) \in Stacks /\ from \in 1 .. Len(T) + 1
<1>. DEFINE f == Front(ls)
            deeper == Into(f, e)
            printing == Printing(out, f, e)
<1>1. Len(T) \in Nat BY LenProperties
<1>2. PICK toks :
        /\ SoFar(T, toks, p - 1) /\ toks \in Seq(Tokens) /\ Holds(toks, out, ls, << >>)
        /\ Len(toks) + Len(ls) = Rank(T, p - 1) + Depth(T, p - 1)
        /\ p <= Len(T) => Len(toks) = Rank(T, p - 1) /\ Len(ls) = Depth(T, p - 1)
  BY ParsedAt
<1>3. /\ Len(ls) \in Nat \ {0} /\ f \in Stacks /\ Len(f) = Len(ls) - 1 /\ Last(ls) \in Seq(Tokens)
  BY FrontFacts DEF Stacks
<1>4. e \in Seq(Tokens)
  <2>1. << <<Open>> >> \in Seq(Tokens) /\ << <<Close>> >> \in Seq(Tokens) OBVIOUS
  <2>2. << <<Open>> >> \o Last(ls) \in Seq(Tokens) BY <1>3, <2>1, ConcatProperties
  <2>3. << <<Open>> >> \o Last(ls) \o << <<Close>> >> \in Seq(Tokens)
    BY <2>1, <2>2, ConcatProperties
  <2>. QED BY <2>3 DEF List
<1>5. deeper \in Stacks /\ Len(deeper) = Len(ls) - 1 BY <1>3, <1>4, Returned
<1>6. Holds(Append(toks, <<Close>>), printing, deeper, << >>)
  <2>1. Append(toks, <<Close>>) \in Seq(Tokens) BY <1>2, AppendProperties
  <2>2. Holds(Append(toks, <<Close>>), out, f, e) BY <1>2, HoldsClose
  <2>. HIDE DEF f
  <2>. QED BY <1>3, <1>4, <2>1, <2>2, Returned
<1>. HIDE DEF f, deeper, printing
<1>7. ASSUME p = Len(T) + 1
      PROVE  from \in 1 .. Len(T) + 1 /\ Parsed(T, SkipWhitespace(T, from), deeper, printing)
  <2>1. from = p BY <1>1, <1>7 DEF Eof
  <2>2. SkipWhitespace(T, p) = p
    <3>1. SkipWhitespace(T, p) \in p .. Len(T) + 1 BY SkipFacts
    <3>. QED BY <1>1, <1>7, <3>1
  <2>3. p - 1 \in Nat BY <1>1
  <2>4. SoFar(T, Append(toks, <<Close>>), p - 1) BY <1>2, <2>3, AddClose
  <2>5. Len(Append(toks, <<Close>>)) = Len(toks) + 1 /\ Len(toks) \in Nat
    BY <1>2, AppendProperties, LenProperties
  <2>6. Rank(T, p - 1) \in Nat /\ Depth(T, p - 1) \in Int BY <2>3, StartsFinite, Depths
  <2>7. Len(Append(toks, <<Close>>)) + Len(deeper) = Rank(T, p - 1) + Depth(T, p - 1)
    BY <1>2, <1>3, <1>5, <2>5, <2>6
  <2>8. ~(p <= Len(T)) BY <1>1, <1>7
  <2>9. \A q \in 1 .. p - 1 : Depth(T, q) >= 0 BY DEF Parsed
  <2>10. Parsed(T, p, deeper, printing) BY <1>6, <2>4, <2>7, <2>8, <2>9, Zenon DEF Parsed
  <2>. QED BY <2>1, <2>2, <2>10
<1>8. ASSUME p <= Len(T)
      PROVE  from \in 1 .. Len(T) + 1 /\ Parsed(T, SkipWhitespace(T, from), deeper, printing)
  <2>1. from = p + 1 /\ p \in 1 .. Len(T) /\ p + 1 \in p + 1 .. Len(T) + 1 /\ p + 1 - 1 = p
    BY <1>1, <1>8 DEF Eof
  <2>2. Close \in Delimiters /\ TokenAt(T, p) = <<Close>> BY <1>8 DEF Delimiters, TokenAt
  <2>3. Depth(T, p) = Len(deeper)
    <3>1. p - 1 \in Nat /\ p - 1 + 1 = p BY <2>1
    <3>2. T[p - 1 + 1] = Close BY <1>8, <3>1
    <3>3. Depth(T, p) = Depth(T, p - 1) - 1 BY <3>1, <3>2, Depths
    <3>. QED BY <1>2, <1>5, <1>8, <3>3
  <2>4. /\ \A q \in p .. p + 1 - 1 : Depth(T, q) = Len(deeper)
        /\ \A q \in p + 1 .. p + 1 - 1 : ~StartsToken(T, q)
    BY <2>1, <2>3
  <2>5. T[p + 1 - 1] \in Delimiters BY <1>8, <2>1, <2>2
  <2>6. (\A q \in 1 .. p - 1 : Depth(T, q) >= 0) /\ StartsToken(T, p) BY <1>8 DEF Parsed
  <2>7. Holds(Append(toks, TokenAt(T, p)), printing, deeper, << >>) /\ TokenAt(T, p) \in Tokens
    BY <1>6, <2>2
  <2>8. Passes(T, p, p + 1, toks, Len(deeper))
    BY <1>2, <1>8, <2>4, <2>5, <2>6, <2>7 DEF Passes
  <2>9. Parsed(T, SkipWhitespace(T, p + 1), deeper, printing)
    BY <1>5, <2>1, <2>7, <2>8, ParsedToken
  <2>. QED BY <1>1, <2>1, <2>9
<1>9. from \in 1 .. Len(T) + 1 /\ Parsed(T, SkipWhitespace(T, from), deeper, printing)
  BY <1>1, <1>7, <1>8
<1>. QED BY <1>3, <1>4, <1>9 DEF f, deeper, printing

(* An atom *)
LEMMA ParsedAtom ==
  ASSUME NEW T \in Seq(Chars), NEW p \in 1 .. Len(T), NEW ls \in Stacks,
         NEW out \in Seq(Tokens), Parsed(T, p, ls, out), T[p] \notin {Open, Close},
         NEW e, e = AtomAt(T, p), NEW from, from = EndOfAtom(T, p)
  PROVE  /\ Parsed(T, SkipWhitespace(T, from), Into(ls, e), Printing(out, ls, e))
         /\ e \in Seq(Tokens) /\ from \in 1 .. Len(T) + 1
<1>. DEFINE t == SubSeq(T, p, from - 1)
            deeper == Into(ls, e)
            printing == Printing(out, ls, e)
<1>1. Len(T) \in Nat /\ p \in 1 .. Len(T) + 1 BY LenProperties
<1>2. PICK toks :
        /\ SoFar(T, toks, p - 1) /\ toks \in Seq(Tokens) /\ Holds(toks, out, ls, << >>)
        /\ Len(toks) = Rank(T, p - 1) /\ Len(ls) = Depth(T, p - 1)
  BY <1>1, ParsedAt
<1>3. (\A q \in 1 .. p - 1 : Depth(T, q) >= 0) /\ StartsToken(T, p) BY <1>1 DEF Parsed
<1>4. Delimiters = {Space, Open, Close} /\ Space \notin {Open, Close}
  BY DEF Delimiters, Space, Open, Close
<1>5. T[p] \notin Delimiters BY <1>3, <1>4 DEF StartsToken
<1>6. /\ from \in p + 1 .. Len(T) + 1
      /\ \A q \in p .. from - 1 : T[q] \notin Delimiters
      /\ from <= Len(T) => T[from] \in Delimiters
  BY <1>5, AtomFacts
<1>7. TokenAt(T, p) = t /\ e = <<t>> BY <1>5 DEF TokenAt, AtomAt, Atom
<1>8. t \in Tokens
  <2>1. \A i \in 1 .. Len(T) : T[i] \in Chars BY ElementOfSeq
  <2>2. \A i \in p .. from - 1 : T[i] \in Chars BY <1>1, <1>6, <2>1
  <2>. QED BY <1>1, <1>6, <2>2, SubSeqProperties DEF Tokens
<1>9. e \in Seq(Tokens) BY <1>7, <1>8
<1>. HIDE DEF t
<1>10. deeper \in Stacks /\ Len(deeper) = Len(ls) BY <1>9, Returned
<1>11. Holds(Append(toks, t), printing, deeper, << >>)
  <2>1. Append(toks, t) \in Seq(Tokens) BY <1>2, <1>8, AppendProperties
  <2>2. Holds(Append(toks, t), out, ls, e) BY <1>2, <1>7, <1>8, HoldsToken
  <2>. QED BY <1>9, <2>1, <2>2, Returned
<1>. HIDE DEF deeper, printing
<1>12. ASSUME NEW q \in p + 1 .. from - 1
       PROVE  ~StartsToken(T, q)
  <2>1. q \in p .. from - 1 /\ q - 1 \in p .. from - 1 /\ q # 1 BY <1>1, <1>6
  <2>2. T[q] \notin Delimiters /\ T[q - 1] \notin Delimiters BY <1>6, <2>1
  <2>. QED BY <1>4, <2>1, <2>2 DEF StartsToken
<1>13. ASSUME NEW q \in p .. from - 1
       PROVE  Depth(T, q) = Len(deeper)
  <2>1. p - 1 \in Nat /\ from - 1 \in Nat /\ p - 1 <= from - 1 /\ p - 1 + 1 = p
        /\ q \in p - 1 .. from - 1
    BY <1>1, <1>6
  <2>2. \A i \in (p - 1) + 1 .. from - 1 : T[i] \notin {Open, Close} BY <1>4, <1>6, <2>1
  <2>3. Depth(T, q) = Depth(T, p - 1) BY <2>1, <2>2, DepthsBetween
  <2>. QED BY <1>2, <1>10, <2>3
<1>14. Passes(T, p, from, toks, Len(deeper))
  BY <1>2, <1>3, <1>6, <1>7, <1>8, <1>12, <1>13 DEF Passes
<1>15. Parsed(T, SkipWhitespace(T, from), deeper, printing)
  BY <1>6, <1>7, <1>10, <1>11, <1>14, ParsedToken
<1>16. from \in 1 .. Len(T) + 1 BY <1>1, <1>6
<1>. QED BY <1>9, <1>15, <1>16 DEF deeper, printing

(* Outside of lists at the end, or at a ")" that closes nothing *)
LEMMA ParsedEnd ==
  ASSUME NEW T \in Seq(Chars), NEW p \in 1 .. Len(T) + 1, NEW out \in Seq(Tokens),
         Parsed(T, p, << >>, out), p <= Len(T) => T[p] = Close
  PROVE  Reads(T, out)
<1>. DEFINE n == p - 1
<1>1. Len(T) \in Nat /\ n \in 0 .. Len(T) /\ n \in Nat /\ n + 1 = p BY LenProperties
<1>2. << >> \in Stacks /\ Len(<< >>) = 0 BY DEF Stacks
<1>3. PICK toks :
        /\ SoFar(T, toks, n) /\ toks \in Seq(Tokens) /\ Holds(toks, out, << >>, << >>)
        /\ Len(toks) + Len(<< >>) = Rank(T, n) + Depth(T, n)
        /\ p <= Len(T) => Len(toks) = Rank(T, n) /\ Len(<< >>) = Depth(T, n)
  BY <1>2, ParsedAt
<1>. HIDE DEF n
<1>4. out = toks
  <2>1. out \o << >> = toks BY <1>2, <1>3, HoldsReturn
  <2>2. out \o << >> = out BY ConcatEmptySeq
  <2>. QED BY <2>1, <2>2
<1>5. Rank(T, n) \in Nat /\ Depth(T, n) \in Int BY <1>1, StartsFinite, Depths
<1>6. Len(out) = Rank(T, n) + Depth(T, n)
  <2>1. Len(toks) \in Nat BY <1>3, LenProperties
  <2>. QED BY <1>2, <1>3, <1>4, <1>5, <2>1
<1>7. n = Len(T) \/ Surplus(T, n)
  <2>1. CASE p = Len(T) + 1 BY <1>1, <2>1
  <2>2. CASE p # Len(T) + 1
    <3>1. p <= Len(T) /\ n < Len(T) BY <1>1, <2>2
    <3>2. T[n + 1] = Close BY <1>1, <3>1
    <3>3. Depth(T, n + 1) = Depth(T, n) - 1 BY <1>1, <3>2, Depths
    <3>4. Depth(T, n) = 0 BY <1>2, <1>3, <3>1
    <3>. QED BY <3>1, <3>3, <3>4 DEF Surplus
  <2>. QED BY <2>1, <2>2
<1>8. \A q \in 1 .. n : Depth(T, q) >= 0 BY DEF Parsed, n
<1>9. Readable(T, n) BY <1>7, <1>8 DEF Readable
<1>. QED BY <1>1, <1>3, <1>4, <1>6, <1>9 DEF Reads, SoFar
-----------------------------------------------------------------------------
(* The tasks: a file is waited for, queued or read by one thread at most. *)
TasksOK ==
  /\ queue \intersect unvisited = {}
  /\ \A t \in Threads : thread[t] # "free" => job[t] \in Smt2 \ (unvisited \union queue)
  /\ \A t, u \in Threads :
       thread[t] # "free" /\ thread[u] # "free" /\ job[t] = job[u] => t = u

(* Who is in push_back, or past it, has the mutex; so the size it found is *)
(* still the vector's.                                                     *)
LockOK == \A t \in Threads : thread[t] \in {"size", "put", "unlock"} => mutex = t
SizeOK == \A t \in Threads : thread[t] = "put" => size[t] = Len(smt2_progs)

(* s is a text that f held, or as much of it as another was long. *)
IsTextOf(s, f) ==
  \E text, other \in Texts(f) : Len(other) <= Len(text) /\ s = SubSeq(text, 1, Len(other))

ContentOK ==
  \A t \in Threads :
    /\ thread[t] = "read" => \E other \in Texts(job[t]) : sz[t] = Len(other)
    /\ thread[t] \in {"lock", "size", "put"} => IsTextOf(content[t], job[t])

(* The vector has the text of each file that a task was finished with, once. *)
Reading(t, f) == thread[t] \in {"fstat", "read", "lock", "size", "put"} /\ job[t] = f
Appended == {f \in Smt2 \ (unvisited \union queue) : \A t \in Threads : ~Reading(t, f)}

VectorOK ==
  \E order \in [1 .. Len(smt2_progs) -> Appended] :
    /\ \A j, k \in 1 .. Len(smt2_progs) : order[j] = order[k] => j = k
    /\ \A f \in Appended : \E k \in 1 .. Len(smt2_progs) : order[k] = f
    /\ \A k \in 1 .. Len(smt2_progs) : IsTextOf(smt2_progs[k], order[k])

(* After the wait nothing is left to read. *)
QuietOK ==
  /\ pc \in {"wait", "parse", "done"} => unvisited = {}
  /\ pc \in {"parse", "done"} => queue = {} /\ \A t \in Threads : thread[t] = "free"

(* The programs before prog are printed, and prog as far as it is parsed. *)
ParsedOK ==
  /\ pc \in {"parse", "done"} =>
       /\ Len(printed) = Len(smt2_progs)
       /\ \A k \in 1 .. prog - 1 : Reads(smt2_progs[k], printed[k])
       /\ \A k \in prog + 1 .. Len(smt2_progs) : printed[k] = << >>
  /\ pc = "parse" => Parsed(smt2_progs[prog], pos, lists, printed[prog])
  /\ pc = "done" => prog = Len(smt2_progs) + 1

ReadingInv == TasksOK /\ LockOK /\ SizeOK /\ ContentOK /\ VectorOK
IInv == TypeOK /\ ReadingInv /\ QuietOK /\ ParsedOK

LEMMA InitInv == Init => IInv
<1>. SUFFICES ASSUME Init PROVE IInv
  OBVIOUS
<1>. USE Z3BenchAssumption
<1>1. PICK d \in Disks : held = [f \in Files |-> << d[f] >>] BY DEF Init
<1>2. held \in [Files -> Seq(Seq(Chars))] /\ \A f \in Files : Len(held[f]) = 1
  <2>1. \A f \in Files : d[f] \in Seq(Chars) OBVIOUS
  <2>. QED BY <1>1, <2>1
<1>3. << >> \in Seq(Chars) /\ << >> \in Seq(Seq(Chars)) /\ << >> \in Seq(Seq(Seq(Chars)))
      /\ Len(<< >>) = 0
  OBVIOUS
<1>4. TypeOK
  <2>1. \A f \in Files : Len(held[f]) \in 1 .. MaxWrites + 1
    <3>1. 1 \in 1 .. MaxWrites + 1 OBVIOUS
    <3>. QED BY <1>2, <3>1, Zenon
  <2>2. unvisited \subseteq Files /\ queue \subseteq Smt2 BY DEF Init
  <2>3. /\ thread \in [Threads -> {"free", "fstat", "read", "lock", "size", "put", "unlock"}]
        /\ job \in [Threads -> Smt2 \union {NoFile}]
        /\ size \in [Threads -> Nat] /\ sz \in [Threads -> Nat]
        /\ content \in [Threads -> Seq(Chars)]
        /\ mutex \in Threads \union {NoThread}
    BY <1>3 DEF Init
  <2>4. smt2_progs = << >> /\ pc = "main" /\ prog = 1 /\ lists = << >> /\ printed = << >>
    BY DEF Init
  <2>. QED BY <1>2, <1>3, <2>1, <2>2, <2>3, <2>4 DEF TypeOK
<1>5. \A t \in Threads : thread[t] = "free" BY DEF Init
<1>6. TasksOK /\ LockOK /\ SizeOK /\ ContentOK
  <2>1. queue \intersect unvisited = {} BY DEF Init
  <2>. QED BY <1>5, <2>1 DEF TasksOK, LockOK, SizeOK, ContentOK
<1>7. VectorOK
  <2>1. Appended = {} BY DEF Init, Appended
  <2>2. 1 .. Len(smt2_progs) = {} BY <1>3 DEF Init
  <2>. DEFINE order == [k \in {} |-> NoFile]
  <2>3. order \in [1 .. Len(smt2_progs) -> Appended] BY <2>1, <2>2
  <2>. QED BY <2>1, <2>2, <2>3 DEF VectorOK
<1>8. QuietOK /\ ParsedOK BY DEF Init, QuietOK, ParsedOK
<1>. QED BY <1>4, <1>6, <1>7, <1>8 DEF IInv, ReadingInv

(* A step that leaves the files and the threads alone. *)
LEMMA KeepsReading ==
  ASSUME ReadingInv, UNCHANGED <<held, reading>>
  PROVE  ReadingInv'
<1>1. UNCHANGED <<held, unvisited, queue, thread, job, size, sz, content, mutex, smt2_progs>>
  BY DEF reading, slurping
<1>2. TasksOK' /\ LockOK' /\ SizeOK'
  BY <1>1 DEF ReadingInv, TasksOK, LockOK, SizeOK
<1>3. \A f : Texts(f)' = Texts(f) BY <1>1 DEF Texts
<1>4. \A s, f : IsTextOf(s, f)' <=> IsTextOf(s, f) BY <1>3, Zenon DEF IsTextOf
<1>5. ContentOK' BY <1>1, <1>3, <1>4 DEF ReadingInv, ContentOK
<1>6. Appended' = Appended BY <1>1 DEF Appended, Reading
<1>7. VectorOK' BY <1>1, <1>4, <1>6 DEF ReadingInv, VectorOK
<1>. QED BY <1>2, <1>5, <1>7 DEF ReadingInv

(* Steps of the main thread before it parses *)
LEMMA KeepsArguments == IInv /\ Arguments => IInv'
<1>. SUFFICES ASSUME IInv, Arguments PROVE IInv'
  OBVIOUS
<1>1. ReadingInv' BY KeepsReading DEF IInv, Arguments
<1>2. TypeOK' BY DEF IInv, TypeOK, Arguments, reading, slurping, parsing
<1>3. QuietOK' /\ ParsedOK' BY DEF Arguments, QuietOK, ParsedOK
<1>. QED BY <1>1, <1>2, <1>3 DEF IInv

LEMMA KeepsSearchFails == IInv /\ SearchFails => IInv'
<1>. SUFFICES ASSUME IInv, SearchFails PROVE IInv'
  OBVIOUS
<1>1. ReadingInv' BY KeepsReading DEF IInv, SearchFails
<1>2. TypeOK' BY DEF IInv, TypeOK, SearchFails, reading, slurping, parsing
<1>3. QuietOK' /\ ParsedOK' BY DEF SearchFails, QuietOK, ParsedOK
<1>. QED BY <1>1, <1>2, <1>3 DEF IInv

LEMMA KeepsEndSearch == IInv /\ EndSearch => IInv'
<1>. SUFFICES ASSUME IInv, EndSearch PROVE IInv'
  OBVIOUS
<1>1. ReadingInv' BY KeepsReading DEF IInv, EndSearch
<1>2. TypeOK' BY DEF IInv, TypeOK, EndSearch, reading, slurping, parsing
<1>3. QuietOK' /\ ParsedOK' BY DEF EndSearch, QuietOK, ParsedOK, reading
<1>. QED BY <1>1, <1>2, <1>3 DEF IInv

LEMMA KeepsVisit == \A f \in Files : IInv /\ Visit(f) => IInv'
<1>. SUFFICES ASSUME NEW f \in Files, IInv, Visit(f) PROVE IInv'
  OBVIOUS
<1>. USE DEF IInv, ReadingInv
<1>1. /\ pc = "search" /\ f \in unvisited /\ unvisited' = unvisited \ {f}
      /\ queue' = IF f \in Smt2 THEN queue \union {f} ELSE queue
      /\ UNCHANGED <<held, thread, job, size, sz, content, mutex, smt2_progs, pc>>
      /\ UNCHANGED <<prog, pos, lists, printed>>
  BY DEF Visit, slurping, parsing
<1>2. TypeOK'
  <2>1. unvisited' \subseteq Files /\ queue' \subseteq Smt2 BY <1>1 DEF TypeOK
  <2>. QED BY <1>1, <2>1 DEF TypeOK
<1>3. TasksOK' BY <1>1 DEF TasksOK
<1>4. LockOK' /\ SizeOK' BY <1>1 DEF LockOK, SizeOK
<1>5. \A g : Texts(g)' = Texts(g) BY <1>1 DEF Texts
<1>6. \A s, g : IsTextOf(s, g)' <=> IsTextOf(s, g) BY <1>5, Zenon DEF IsTextOf
<1>7. ContentOK' BY <1>1, <1>5, <1>6 DEF ContentOK
<1>8. Appended' = Appended
  <2>1. \A t, g : Reading(t, g)' <=> Reading(t, g) BY <1>1 DEF Reading
  <2>2. \A g \in Smt2 : g \in (unvisited \union queue)' <=> g \in unvisited \union queue
    BY <1>1
  <2>. QED BY <2>1, <2>2 DEF Appended
<1>9. VectorOK' BY <1>1, <1>6, <1>8 DEF VectorOK
<1>10. QuietOK' /\ ParsedOK' BY <1>1 DEF QuietOK, ParsedOK
<1>. QED BY <1>2, <1>3, <1>4, <1>7, <1>9, <1>10

(* The k-th program, if there is one, is about to be parsed. *)
LEMMA BeginsParsing ==
  ASSUME NEW progs \in Seq(Seq(Chars)), NEW k \in 1 .. Len(progs)
  PROVE  /\ SkipWhitespace(progs[k], 1) \in 1 .. Len(progs[k]) + 1
         /\ Parsed(progs[k], SkipWhitespace(progs[k], 1), << >>, << >>)
<1>1. progs[k] \in Seq(Chars) BY ElementOfSeq
<1>2. 1 \in 1 .. Len(progs[k]) + 1 BY <1>1, LenProperties
<1>. QED BY <1>1, <1>2, SkipFacts, ParsedNothing

LEMMA KeepsPoolWait == IInv /\ PoolWait => IInv'
<1>. SUFFICES ASSUME IInv, PoolWait PROVE IInv'
  OBVIOUS
<1>1. ReadingInv' BY KeepsReading DEF IInv, PoolWait
<1>2. /\ UNCHANGED <<held, unvisited, queue, thread, job, size, sz, content, mutex, smt2_progs>>
      /\ pc = "wait" /\ queue = {} /\ \A t \in Threads : thread[t] = "free"
  BY DEF PoolWait, reading, slurping
<1>3. /\ smt2_progs \in Seq(Seq(Chars)) /\ Len(smt2_progs) \in Nat
      /\ DOMAIN smt2_progs = 1 .. Len(smt2_progs)
  BY LenProperties DEF IInv, TypeOK
<1>. DEFINE L == Len(smt2_progs)
<1>4. printed' = [k \in 1 .. L |-> << >>] BY <1>3 DEF PoolWait
<1>5. /\ prog' = 1 /\ lists' = << >>
      /\ pc' = IF 1 <= L THEN "parse" ELSE "done"
      /\ pos' = IF 1 <= L THEN SkipWhitespace(smt2_progs[1], 1) ELSE 1
  BY DEF PoolWait, Begin
<1>6. 1 <= L => /\ SkipWhitespace(smt2_progs[1], 1) \in 1 .. Len(smt2_progs[1]) + 1
               /\ Parsed(smt2_progs[1], SkipWhitespace(smt2_progs[1], 1), << >>, << >>)
  <2>. SUFFICES ASSUME 1 <= L
                PROVE  /\ SkipWhitespace(smt2_progs[1], 1) \in 1 .. Len(smt2_progs[1]) + 1
                       /\ Parsed(smt2_progs[1], SkipWhitespace(smt2_progs[1], 1), << >>, << >>)
    OBVIOUS
  <2>1. 1 \in 1 .. Len(smt2_progs) BY <1>3
  <2>. QED BY <1>3, <2>1, BeginsParsing
<1>7. printed' \in Seq(Seq(Seq(Chars))) /\ Len(printed') = L
  <2>1. << >> \in Seq(Seq(Chars)) OBVIOUS
  <2>2. printed' \in [1 .. L -> Seq(Seq(Chars))] BY <1>4, <2>1
  <2>. QED BY <1>3, <1>4, <2>2, SeqDef, LenProperties
<1>. HIDE DEF L
<1>8. TypeOK'
  <2>1. << >> \in Seq(Seq(Seq(Chars))) OBVIOUS
  <2>2. prog' \in 1 .. L + 1 BY <1>3, <1>5 DEF L
  <2>3. pc' \in {"parse", "done"} /\ (pc' = "parse" => 1 <= L) BY <1>5
  <2>4. pc' = "parse" => prog' <= L /\ pos' \in 1 .. Len(smt2_progs[prog']) + 1
    BY <1>5, <1>6, <2>3
  <2>. QED BY <1>2, <1>5, <1>7, <2>1, <2>2, <2>3, <2>4 DEF IInv, TypeOK, L
<1>9. QuietOK' BY <1>2, <1>5 DEF IInv, QuietOK
<1>10. ParsedOK'
  <2>1. \A k \in 1 .. L : printed'[k] = << >> BY <1>4
  <2>2. pc' = "parse" => 1 <= L /\ 1 \in 1 .. L BY <1>3, <1>5 DEF L
  <2>3. pc' = "parse" => Parsed(smt2_progs'[prog'], pos', lists', printed'[prog'])
    BY <1>2, <1>5, <1>6, <2>1, <2>2
  <2>4. pc' = "done" => prog' = L + 1 BY <1>3, <1>5 DEF L
  <2>5. \A k \in prog' + 1 .. L : printed'[k] = << >> BY <1>3, <1>5, <2>1 DEF L
  <2>6. \A k \in 1 .. prog' - 1 : FALSE BY <1>5
  <2>. QED BY <1>2, <1>7, <2>3, <2>4, <2>5, <2>6 DEF ParsedOK, L
<1>. QED BY <1>1, <1>8, <1>9, <1>10 DEF IInv

(* Steps of the parser *)
LEMMA WhileParsing ==
  ASSUME IInv, pc = "parse"
  PROVE  /\ Text \in Seq(Chars) /\ pos \in 1 .. Len(Text) + 1 /\ lists \in Stacks
         /\ printed[prog] \in Seq(Tokens) /\ Parsed(Text, pos, lists, printed[prog])
         /\ prog \in 1 .. Len(smt2_progs) /\ Len(smt2_progs) \in Nat
         /\ Len(printed) = Len(smt2_progs) /\ DOMAIN printed = 1 .. Len(smt2_progs)
         /\ printed \in [1 .. Len(smt2_progs) -> Seq(Tokens)]
         /\ <<Open>> \in Tokens /\ <<Close>> \in Tokens
<1>. USE DEF IInv
<1>1. /\ smt2_progs \in Seq(Seq(Chars)) /\ prog \in 1 .. Len(smt2_progs) + 1
      /\ prog <= Len(smt2_progs) /\ pos \in 1 .. Len(smt2_progs[prog]) + 1
      /\ lists \in Stacks /\ printed \in Seq(Seq(Tokens))
  BY DEF TypeOK, Stacks, Tokens
<1>2. Len(smt2_progs) \in Nat BY <1>1, LenProperties
<1>3. prog \in 1 .. Len(smt2_progs) BY <1>1, <1>2
<1>4. Text \in Seq(Chars) BY <1>1, <1>3, ElementOfSeq DEF Text
<1>5. Len(printed) = Len(smt2_progs) BY DEF ParsedOK
<1>6. DOMAIN printed = 1 .. Len(smt2_progs) /\ printed \in [1 .. Len(smt2_progs) -> Seq(Tokens)]
  BY <1>1, <1>5, LenProperties
<1>7. printed[prog] \in Seq(Tokens) BY <1>3, <1>6
<1>8. Parsed(Text, pos, lists, printed[prog]) BY DEF ParsedOK, Text
<1>9. Open \in Chars /\ Close \in Chars BY Z3BenchAssumption DEF Delimiters
<1>10. <<Open>> \in Tokens /\ <<Close>> \in Tokens BY <1>9 DEF Tokens
<1>. QED BY <1>1, <1>2, <1>3, <1>4, <1>5, <1>6, <1>7, <1>8, <1>10 DEF Text

LEMMA KeepsParsing ==
  ASSUME IInv, pc = "parse", UNCHANGED <<held, reading, pc, prog>>,
         pos' \in 1 .. Len(Text) + 1, lists' \in Stacks, NEW out \in Seq(Tokens),
         printed' = [printed EXCEPT ![prog] = out], Parsed(Text, pos', lists', out)
  PROVE  IInv'
<1>1. ReadingInv' BY KeepsReading DEF IInv
<1>2. UNCHANGED <<held, unvisited, queue, thread, job, size, sz, content, mutex, smt2_progs>>
  BY DEF reading, slurping
<1>3. QuietOK' BY <1>2 DEF IInv, QuietOK
<1>4. /\ prog \in 1 .. Len(smt2_progs) /\ Len(smt2_progs) \in Nat
      /\ printed \in [1 .. Len(smt2_progs) -> Seq(Tokens)]
  BY WhileParsing
<1>5. printed' \in [1 .. Len(smt2_progs) -> Seq(Tokens)] /\ printed'[prog] = out
      /\ \A k \in 1 .. Len(smt2_progs) : k # prog => printed'[k] = printed[k]
  BY <1>4
<1>6. printed' \in Seq(Seq(Tokens)) /\ Len(printed') = Len(smt2_progs)
  BY <1>4, <1>5, SeqDef, LenProperties
<1>7. TypeOK'
  <2>1. pc' = "parse" => prog' <= Len(smt2_progs') /\ pos' \in 1 .. Len(smt2_progs'[prog']) + 1
    BY <1>2, <1>4 DEF Text
  <2>2. printed' \in Seq(Seq(Seq(Chars))) /\ lists' \in Seq(Seq(Seq(Chars)))
        /\ Len(printed') <= Len(smt2_progs')
    BY <1>2, <1>4, <1>6 DEF Tokens, Stacks
  <2>3. prog' \in 1 .. Len(smt2_progs') + 1 BY <1>2, <1>4
  <2>. QED BY <1>2, <2>1, <2>2, <2>3 DEF IInv, TypeOK
<1>8. ParsedOK'
  <2>1. /\ \A k \in 1 .. prog - 1 : Reads(smt2_progs[k], printed[k])
        /\ \A k \in prog + 1 .. Len(smt2_progs) : printed[k] = << >>
    BY DEF IInv, ParsedOK
  <2>2. \A k \in 1 .. prog - 1 : Reads(smt2_progs[k], printed'[k])
    <3>. TAKE k \in 1 .. prog - 1
    <3>1. k \in 1 .. Len(smt2_progs) /\ k # prog BY <1>4
    <3>2. printed'[k] = printed[k] BY <1>5, <3>1
    <3>. QED BY <2>1, <3>2
  <2>3. \A k \in prog + 1 .. Len(smt2_progs) : printed'[k] = << >>
    <3>. TAKE k \in prog + 1 .. Len(smt2_progs)
    <3>1. k \in 1 .. Len(smt2_progs) /\ k # prog BY <1>4
    <3>2. printed'[k] = printed[k] BY <1>5, <3>1
    <3>. QED BY <2>1, <3>2
  <2>4. Parsed(smt2_progs'[prog'], pos', lists', printed'[prog']) BY <1>2, <1>5 DEF Text
  <2>. QED BY <1>2, <1>6, <2>2, <2>3, <2>4 DEF ParsedOK
<1>. QED BY <1>1, <1>3, <1>7, <1>8 DEF IInv

LEMMA KeepsOpenList == IInv /\ OpenList => IInv'
<1>. SUFFICES ASSUME IInv, OpenList PROVE IInv'
  OBVIOUS
<1>1. /\ pc = "parse" /\ ~Eof(Text, pos) /\ Text[pos] = Open
      /\ lists' = Append(lists, << >>) /\ pos' = SkipWhitespace(Text, pos + 1)
      /\ UNCHANGED <<held, reading, pc, prog>> /\ printed' = printed
  BY DEF OpenList, AtEnd
<1>2. /\ Text \in Seq(Chars) /\ pos \in 1 .. Len(Text) + 1 /\ lists \in Stacks
      /\ printed[prog] \in Seq(Tokens) /\ Parsed(Text, pos, lists, printed[prog])
      /\ prog \in 1 .. Len(smt2_progs) /\ <<Open>> \in Tokens
      /\ printed \in [1 .. Len(smt2_progs) -> Seq(Tokens)]
  BY <1>1, WhileParsing
<1>3. Len(Text) \in Nat BY <1>2, LenProperties
<1>4. pos \in 1 .. Len(Text) /\ pos + 1 \in 1 .. Len(Text) + 1 BY <1>1, <1>2, <1>3 DEF Eof
<1>5. Parsed(Text, pos', lists', printed[prog]) BY <1>1, <1>2, <1>4, ParsedOpen
<1>6. pos' \in 1 .. Len(Text) + 1
  <2>1. pos' \in pos + 1 .. Len(Text) + 1 BY <1>1, <1>2, <1>4, SkipFacts
  <2>. QED BY <1>3, <1>4, <2>1
<1>7. lists' \in Stacks
  <2>1. << >> \in Seq(Tokens) OBVIOUS
  <2>. QED BY <1>1, <1>2, <2>1, AppendProperties DEF Stacks
<1>8. printed' = [printed EXCEPT ![prog] = printed[prog]] BY <1>1, <1>2
<1>. QED BY <1>1, <1>2, <1>5, <1>6, <1>7, <1>8, KeepsParsing

(* Return does what Into and Printing say. *)
LEMMA KeepsReturn ==
  ASSUME IInv, pc = "parse", UNCHANGED <<held, reading, pc, prog>>,
         NEW e \in Seq(Tokens), NEW outer \in Stacks, NEW p \in 1 .. Len(Text) + 1,
         Return(e, outer, p),
         Parsed(Text, SkipWhitespace(Text, p), Into(outer, e), Printing(printed[prog], outer, e))
  PROVE  IInv'
<1>1. /\ Text \in Seq(Chars) /\ printed[prog] \in Seq(Tokens)
      /\ prog \in 1 .. Len(smt2_progs) /\ printed \in [1 .. Len(smt2_progs) -> Seq(Tokens)]
  BY WhileParsing
<1>2. pos' = SkipWhitespace(Text, p) BY DEF Return
<1>3. pos' \in 1 .. Len(Text) + 1
  <2>1. pos' \in p .. Len(Text) + 1 BY <1>1, <1>2, SkipFacts
  <2>2. Len(Text) \in Nat BY <1>1, LenProperties
  <2>. QED BY <2>1, <2>2
<1>4. lists' = Into(outer, e) BY DEF Return, Into
<1>5. printed' = [printed EXCEPT ![prog] = Printing(printed[prog], outer, e)]
  <2>1. CASE outer = << >> BY <2>1 DEF Return, Printing
  <2>2. CASE outer # << >>
    <3>1. printed' = printed /\ Printing(printed[prog], outer, e) = printed[prog]
      BY <2>2 DEF Return, Printing
    <3>. QED BY <1>1, <3>1
  <2>. QED BY <2>1, <2>2
<1>6. lists' \in Stacks /\ Printing(printed[prog], outer, e) \in Seq(Tokens)
  BY <1>1, <1>4, Returned
<1>7. Parsed(Text, pos', lists', Printing(printed[prog], outer, e)) BY <1>2, <1>4
<1>. QED BY <1>3, <1>5, <1>6, <1>7, KeepsParsing

LEMMA KeepsCloseList == IInv /\ CloseList => IInv'
<1>. SUFFICES ASSUME IInv, CloseList PROVE IInv'
  OBVIOUS
<1>. DEFINE e == List(Last(lists))
            from == IF Eof(Text, pos) THEN pos ELSE pos + 1
<1>1. /\ pc = "parse" /\ lists # << >> /\ (Eof(Text, pos) \/ Text[pos] = Close)
      /\ Return(e, Front(lists), from) /\ UNCHANGED <<held, reading, pc, prog>>
  BY DEF CloseList, Within, AtEnd, AtClose
<1>2. /\ Text \in Seq(Chars) /\ pos \in 1 .. Len(Text) + 1 /\ lists \in Stacks
      /\ printed[prog] \in Seq(Tokens) /\ Parsed(Text, pos, lists, printed[prog])
      /\ <<Open>> \in Tokens /\ <<Close>> \in Tokens
  BY <1>1, WhileParsing
<1>3. pos <= Len(Text) => Text[pos] = Close
  <2>1. Len(Text) \in Nat BY <1>2, LenProperties
  <2>. QED BY <1>1, <1>2, <2>1 DEF Eof
<1>4. /\ Parsed(Text, SkipWhitespace(Text, from), Into(Front(lists), e),
                Printing(printed[prog], Front(lists), e))
      /\ e \in Seq(Tokens) /\ Front(lists) \in Stacks /\ from \in 1 .. Len(Text) + 1
  BY <1>1, <1>2, <1>3, ParsedClose
<1>. HIDE DEF e, from
<1>. QED BY <1>1, <1>4, KeepsReturn

LEMMA KeepsParseAtom == IInv /\ ParseAtom => IInv'
<1>. SUFFICES ASSUME IInv, ParseAtom PROVE IInv'
  OBVIOUS
<1>. DEFINE e == AtomAt(Text, pos)
            from == EndOfAtom(Text, pos)
<1>1. /\ pc = "parse" /\ ~Eof(Text, pos) /\ Text[pos] \notin {Open, Close}
      /\ Return(e, lists, from) /\ UNCHANGED <<held, reading, pc, prog>>
  BY DEF ParseAtom, AtEnd
<1>2. /\ Text \in Seq(Chars) /\ pos \in 1 .. Len(Text) + 1 /\ lists \in Stacks
      /\ printed[prog] \in Seq(Tokens) /\ Parsed(Text, pos, lists, printed[prog])
  BY <1>1, WhileParsing
<1>3. pos \in 1 .. Len(Text)
  <2>1. Len(Text) \in Nat BY <1>2, LenProperties
  <2>. QED BY <1>1, <1>2, <2>1 DEF Eof
<1>4. /\ Parsed(Text, SkipWhitespace(Text, from), Into(lists, e),
                Printing(printed[prog], lists, e))
      /\ e \in Seq(Tokens) /\ from \in 1 .. Len(Text) + 1
  BY <1>1, <1>2, <1>3, ParsedAtom
<1>. HIDE DEF e, from
<1>. QED BY <1>1, <1>2, <1>4, KeepsReturn

LEMMA KeepsNextProgram == IInv /\ NextProgram => IInv'
<1>. SUFFICES ASSUME IInv, NextProgram PROVE IInv'
  OBVIOUS
<1>. DEFINE L == Len(smt2_progs)
            k == prog + 1
<1>1. /\ pc = "parse" /\ lists = << >> /\ (Eof(Text, pos) \/ Text[pos] = Close)
      /\ UNCHANGED <<held, reading, printed>>
      /\ prog' = k /\ lists' = << >>
      /\ pc' = IF k <= L THEN "parse" ELSE "done"
      /\ pos' = IF k <= L THEN SkipWhitespace(smt2_progs[k], 1) ELSE 1
  BY DEF NextProgram, Within, AtEnd, AtClose, Begin
<1>2. UNCHANGED <<held, unvisited, queue, thread, job, size, sz, content, mutex, smt2_progs>>
  BY <1>1 DEF reading, slurping
<1>3. /\ Text \in Seq(Chars) /\ pos \in 1 .. Len(Text) + 1
      /\ printed[prog] \in Seq(Tokens) /\ Parsed(Text, pos, << >>, printed[prog])
      /\ prog \in 1 .. L /\ L \in Nat /\ Len(printed) = L
      /\ printed \in [1 .. L -> Seq(Tokens)]
  BY <1>1, WhileParsing
<1>4. pos <= Len(Text) => Text[pos] = Close
  <2>1. Len(Text) \in Nat BY <1>3, LenProperties
  <2>. QED BY <1>1, <1>3, <2>1 DEF Eof
<1>5. Reads(Text, printed[prog]) BY <1>3, <1>4, ParsedEnd
<1>6. ReadingInv' BY <1>1, KeepsReading DEF IInv
<1>7. QuietOK' BY <1>1, <1>2 DEF IInv, QuietOK
<1>8. k \in Nat /\ k \in 1 .. L + 1 /\ k - 1 = prog BY <1>3
<1>9. ASSUME k <= L
      PROVE  /\ k \in 1 .. L /\ printed[k] = << >>
             /\ SkipWhitespace(smt2_progs[k], 1) \in 1 .. Len(smt2_progs[k]) + 1
             /\ Parsed(smt2_progs[k], SkipWhitespace(smt2_progs[k], 1), << >>, << >>)
  <2>1. k \in 1 .. L /\ k \in prog + 1 .. L BY <1>3, <1>8, <1>9
  <2>2. smt2_progs \in Seq(Seq(Chars)) BY DEF IInv, TypeOK
  <2>3. printed[k] = << >> BY <1>1, <2>1 DEF IInv, ParsedOK
  <2>. QED BY <2>1, <2>2, <2>3, BeginsParsing
<1>10. \A j \in 1 .. k - 1 : Reads(smt2_progs[j], printed[j])
  <2>. TAKE j \in 1 .. k - 1
  <2>1. CASE j = prog BY <1>5, <2>1 DEF Text
  <2>2. CASE j # prog
    <3>1. j \in 1 .. prog - 1 BY <1>3, <1>8, <2>2
    <3>. QED BY <1>1, <3>1 DEF IInv, ParsedOK
  <2>. QED BY <2>1, <2>2
<1>11. \A j \in k + 1 .. L : printed[j] = << >>
  <2>. TAKE j \in k + 1 .. L
  <2>1. j \in prog + 1 .. L BY <1>3
  <2>. QED BY <1>1, <2>1 DEF IInv, ParsedOK
<1>. HIDE DEF k, L
<1>12. TypeOK'
  <2>1. << >> \in Seq(Seq(Seq(Chars))) OBVIOUS
  <2>2. pc' \in {"parse", "done"} /\ (pc' = "parse" => k <= L) BY <1>1
  <2>3. pc' = "parse" => prog' <= L /\ pos' \in 1 .. Len(smt2_progs[prog']) + 1
    BY <1>1, <1>9, <2>2
  <2>. QED BY <1>1, <1>2, <1>8, <2>1, <2>2, <2>3 DEF IInv, TypeOK, L
<1>13. ParsedOK'
  <2>1. pc' = "parse" => Parsed(smt2_progs'[prog'], pos', lists', printed'[prog'])
    BY <1>1, <1>2, <1>9
  <2>2. pc' = "done" => prog' = L + 1 BY <1>1, <1>3, <1>8
  <2>. QED BY <1>1, <1>2, <1>3, <1>10, <1>11, <2>1, <2>2 DEF ParsedOK, L
<1>. QED BY <1>6, <1>7, <1>12, <1>13 DEF IInv

(* Steps of the pool: while there is one, nothing is parsed. *)
LEMMA WhileReading ==
  ASSUME IInv, NEW t \in Threads, thread[t] # "free" \/ queue # {},
         pc' = pc \/ pc' = "aborted", UNCHANGED <<unvisited, parsing>>
  PROVE  QuietOK' /\ ParsedOK' /\ pc \notin {"parse", "done"}
<1>1. pc \notin {"parse", "done"} BY DEF IInv, QuietOK
<1>2. pc' \notin {"parse", "done"} /\ (pc' = "wait" => pc = "wait") BY <1>1
<1>3. QuietOK' BY <1>2 DEF IInv, QuietOK
<1>4. ParsedOK' BY <1>2, Zenon DEF ParsedOK
<1>. QED BY <1>1, <1>3, <1>4

Readers == {"fstat", "read", "lock", "size", "put"}

LEMMA TextsStay ==
  ASSUME UNCHANGED held
  PROVE  (\A f : Texts(f)' = Texts(f)) /\ \A s, f : IsTextOf(s, f)' <=> IsTextOf(s, f)
<1>1. \A f : Texts(f)' = Texts(f) BY DEF Texts
<1>2. \A s, f : IsTextOf(s, f)' <=> IsTextOf(s, f) BY <1>1, Zenon DEF IsTextOf
<1>. QED BY <1>1, <1>2

LEMMA VectorStays ==
  ASSUME VectorOK, UNCHANGED <<held, smt2_progs>>, Appended' = Appended
  PROVE  VectorOK'
<1>1. \A s, f : IsTextOf(s, f)' <=> IsTextOf(s, f) BY TextsStay
<1>. QED BY <1>1 DEF VectorOK

(* A thread goes on with its file. *)
LEMMA KeepsReader ==
  ASSUME ReadingInv, NEW t \in Threads, NEW to \in Readers,
         UNCHANGED <<held, unvisited, queue, job, smt2_progs>>,
         thread \in [Threads -> Readers \union {"free", "unlock"}],
         thread[t] \in Readers, thread' = [thread EXCEPT ![t] = to]
  PROVE  TasksOK' /\ VectorOK'
<1>1. \A u \in Threads : thread'[u] = IF u = t THEN to ELSE thread[u] OBVIOUS
<1>2. \A u \in Threads : thread'[u] \in Readers <=> thread[u] \in Readers BY <1>1
<1>3. \A u \in Threads : thread'[u] # "free" <=> thread[u] # "free" BY <1>1 DEF Readers
<1>4. TasksOK' BY <1>3 DEF ReadingInv, TasksOK
<1>5. \A u \in Threads : \A f : Reading(u, f)' <=> Reading(u, f) BY <1>2 DEF Reading, Readers
<1>6. Appended' = Appended BY <1>5 DEF Appended
<1>7. VectorOK' BY <1>6, VectorStays DEF ReadingInv
<1>. QED BY <1>4, <1>7

LEMMA ThreadStates ==
  ASSUME TypeOK
  PROVE  thread \in [Threads -> Readers \union {"free", "unlock"}]
BY DEF TypeOK, Readers

LEMMA KeepsTake == \A t \in Threads : IInv /\ Take(t) => IInv'
<1>. SUFFICES ASSUME NEW t \in Threads, IInv, Take(t) PROVE IInv'
  OBVIOUS
<1>. USE DEF IInv, ReadingInv
<1>1. PICK f \in queue : queue' = queue \ {f} /\ job' = [job EXCEPT ![t] = f] BY DEF Take
<1>2. /\ thread[t] = "free" /\ thread' = [thread EXCEPT ![t] = "fstat"]
      /\ UNCHANGED <<held, unvisited, size, sz, content, mutex, smt2_progs, pc>>
      /\ UNCHANGED <<prog, pos, lists, printed>>
  BY DEF Take, Goto, slurping, parsing
<1>3. /\ thread \in [Threads -> Readers \union {"free", "unlock"}]
      /\ job \in [Threads -> Smt2 \union {NoFile}] /\ queue \subseteq Smt2 /\ f \in Smt2
  BY <1>1, ThreadStates DEF TypeOK
<1>4. \A u \in Threads : /\ thread'[u] = IF u = t THEN "fstat" ELSE thread[u]
                        /\ job'[u] = IF u = t THEN f ELSE job[u]
  BY <1>1, <1>2, <1>3
<1>5. QuietOK' /\ ParsedOK' BY <1>1, <1>2, WhileReading DEF parsing
<1>6. TypeOK'
  <2>1. /\ thread' \in [Threads -> {"free", "fstat", "read", "lock", "size", "put", "unlock"}]
        /\ job' \in [Threads -> Smt2 \union {NoFile}] /\ queue' \subseteq Smt2
    BY <1>1, <1>2, <1>3 DEF TypeOK
  <2>. QED BY <1>2, <2>1 DEF TypeOK
<1>7. TasksOK'
  <2>1. queue' \intersect unvisited' = {} BY <1>1, <1>2 DEF TasksOK
  <2>2. \A u \in Threads : thread'[u] # "free" => job'[u] \in Smt2 \ (unvisited' \union queue')
    BY <1>1, <1>2, <1>3, <1>4 DEF TasksOK
  <2>3. \A u, v \in Threads :
          thread'[u] # "free" /\ thread'[v] # "free" /\ job'[u] = job'[v] => u = v
    BY <1>1, <1>4 DEF TasksOK
  <2>. QED BY <2>1, <2>2, <2>3 DEF TasksOK
<1>8. LockOK' /\ SizeOK' BY <1>2, <1>4 DEF LockOK, SizeOK
<1>9. ContentOK'
  <2>1. (\A g : Texts(g)' = Texts(g)) /\ \A s, g : IsTextOf(s, g)' <=> IsTextOf(s, g)
    BY <1>2, TextsStay
  <2>. QED BY <1>2, <1>4, <2>1 DEF ContentOK
<1>10. Appended' = Appended
  <2>1. \A u \in Threads : \A g : g # f => (Reading(u, g)' <=> Reading(u, g))
    BY <1>2, <1>4 DEF Reading
  <2>2. Reading(t, f)' BY <1>4 DEF Reading
  <2>3. f \notin Appended /\ f \notin Appended' BY <1>1, <2>2 DEF Appended
  <2>4. \A g : g # f => (g \in unvisited' \union queue' <=> g \in unvisited \union queue)
    BY <1>1, <1>2
  <2>5. \A g : g # f => (g \in Appended' <=> g \in Appended) BY <2>1, <2>4 DEF Appended
  <2>6. \A g : g \in Appended' <=> g \in Appended BY <2>3, <2>5
  <2>. HIDE DEF Appended
  <2>. QED BY <2>6
<1>11. VectorOK' BY <1>2, <1>10, VectorStays
<1>. QED BY <1>5, <1>6, <1>7, <1>8, <1>9, <1>11

LEMMA NowIsText ==
  ASSUME TypeOK, NEW f \in Files
  PROVE  Now(f) \in Texts(f) /\ Now(f) \in Seq(Chars) /\ Len(Now(f)) \in Nat
<1>1. held[f] \in Seq(Seq(Chars)) /\ Len(held[f]) \in 1 .. MaxWrites + 1 BY DEF TypeOK
<1>2. MaxWrites \in Nat BY Z3BenchAssumption
<1>3. Len(held[f]) \in 1 .. Len(held[f]) BY <1>1, <1>2
<1>4. Now(f) = held[f][Len(held[f])] BY DEF Now, Last
<1>5. DOMAIN held[f] = 1 .. Len(held[f]) BY <1>1, LenProperties
<1>6. Now(f) \in Seq(Chars) BY <1>1, <1>3, <1>4, ElementOfSeq
<1>. QED BY <1>3, <1>4, <1>5, <1>6, LenProperties DEF Texts

LEMMA KeepsFstat == \A t \in Threads : IInv /\ Fstat(t) => IInv'
<1>. SUFFICES ASSUME NEW t \in Threads, IInv, Fstat(t) PROVE IInv'
  OBVIOUS
<1>. USE DEF IInv, ReadingInv
<1>. DEFINE now == Now(job[t])
<1>1. /\ thread[t] = "fstat" /\ thread' = [thread EXCEPT ![t] = "read"]
      /\ sz' = [sz EXCEPT ![t] = Len(now)]
      /\ UNCHANGED <<held, unvisited, queue, job, size, content, mutex, smt2_progs, pc>>
      /\ UNCHANGED <<prog, pos, lists, printed>>
  BY DEF Fstat, Goto, parsing
<1>2. /\ thread \in [Threads -> Readers \union {"free", "unlock"}]
      /\ sz \in [Threads -> Nat] /\ job[t] \in Files
  <2>1. job[t] \in Smt2 BY <1>1 DEF TasksOK
  <2>. QED BY <2>1, ThreadStates, Z3BenchAssumption DEF TypeOK
<1>3. now \in Texts(job[t]) BY <1>2, NowIsText
<1>4. Len(now) \in Nat BY <1>2, NowIsText
<1>. HIDE DEF now
<1>5. QuietOK' /\ ParsedOK' BY <1>1, WhileReading DEF parsing
<1>6. TypeOK'
  <2>1. /\ thread' \in [Threads -> {"free", "fstat", "read", "lock", "size", "put", "unlock"}]
        /\ sz' \in [Threads -> Nat]
    BY <1>1, <1>2, <1>4 DEF TypeOK
  <2>. QED BY <1>1, <2>1 DEF TypeOK
<1>7. TasksOK' /\ VectorOK'
  <2>1. "fstat" \in Readers /\ "read" \in Readers BY DEF Readers
  <2>. QED BY <1>1, <1>2, <2>1, KeepsReader
<1>8. \A u \in Threads : /\ thread'[u] = IF u = t THEN "read" ELSE thread[u]
                        /\ sz'[u] = IF u = t THEN Len(now) ELSE sz[u]
  BY <1>1, <1>2
<1>9. LockOK' /\ SizeOK' BY <1>1, <1>8 DEF LockOK, SizeOK
<1>10. ContentOK'
  <2>1. (\A g : Texts(g)' = Texts(g)) /\ \A s, g : IsTextOf(s, g)' <=> IsTextOf(s, g)
    BY <1>1, TextsStay
  <2>. QED BY <1>1, <1>3, <1>8, <2>1 DEF ContentOK
<1>. QED BY <1>5, <1>6, <1>7, <1>9, <1>10

LEMMA LesserOf ==
  ASSUME NEW a \in Nat, NEW b \in Nat
  PROVE  Min({a, b}) = IF a <= b THEN a ELSE b
<1>. DEFINE c == IF a <= b THEN a ELSE b
<1>1. c \in {a, b} /\ \A y \in {a, b} : c <= y OBVIOUS
<1>2. \A x \in {a, b} : (\A y \in {a, b} : x <= y) => x = c OBVIOUS
<1>. HIDE DEF c
<1>3. Min({a, b}) = CHOOSE x \in {a, b} : \A y \in {a, b} : x <= y BY Zenon DEF Min
<1>4. Min({a, b}) \in {a, b} /\ \A y \in {a, b} : Min({a, b}) <= y BY <1>1, <1>3, Zenon
<1>. QED BY <1>2, <1>4, Zenon DEF c

LEMMA KeepsRead == \A t \in Threads : IInv /\ Read(t) => IInv'
<1>. SUFFICES ASSUME NEW t \in Threads, IInv, Read(t) PROVE IInv'
  OBVIOUS
<1>. USE DEF IInv, ReadingInv
<1>1. /\ thread[t] = "read" /\ thread' = [thread EXCEPT ![t] = "lock"]
      /\ Len(Got(t)) = sz[t] /\ content' = [content EXCEPT ![t] = Got(t)]
      /\ UNCHANGED <<held, unvisited, queue, job, size, sz, mutex, smt2_progs, pc>>
      /\ UNCHANGED <<prog, pos, lists, printed>>
  BY DEF Read, Goto, parsing
<1>2. /\ thread \in [Threads -> Readers \union {"free", "unlock"}]
      /\ content \in [Threads -> Seq(Chars)] /\ sz[t] \in Nat /\ job[t] \in Files
  <2>1. job[t] \in Smt2 BY <1>1 DEF TasksOK
  <2>. QED BY <2>1, ThreadStates, Z3BenchAssumption DEF TypeOK
<1>3. QuietOK' /\ ParsedOK' BY <1>1, WhileReading DEF parsing
<1>. DEFINE now == Now(job[t])
<1>4. now \in Texts(job[t]) /\ now \in Seq(Chars) BY <1>2, NowIsText
<1>5. Got(t) = SubSeq(now, 1, Min({sz[t], Len(now)})) BY Zenon DEF Got
<1>. HIDE DEF now
<1>. DEFINE got == Min({sz[t], Len(now)})
<1>6. Len(now) \in Nat /\ got = IF sz[t] <= Len(now) THEN sz[t] ELSE Len(now)
  BY <1>2, <1>4, LenProperties, LesserOf
<1>7. Got(t) = SubSeq(now, 1, got) BY <1>5
<1>. HIDE DEF got
<1>8. got \in 0 .. Len(now) /\ got <= sz[t] BY <1>2, <1>6
<1>9. Got(t) \in Seq(Chars) /\ Len(Got(t)) = got
  <2>1. \A i \in 1 .. Len(now) : now[i] \in Chars BY <1>4, ElementOfSeq
  <2>2. \A i \in 1 .. got : now[i] \in Chars BY <1>6, <1>8, <2>1
  <2>3. /\ SubSeq(now, 1, got) \in Seq(Chars)
        /\ Len(SubSeq(now, 1, got)) = IF 1 <= got THEN got - 1 + 1 ELSE 0
    BY <1>6, <1>8, <2>2, SubSeqProperties
  <2>. QED BY <1>6, <1>7, <1>8, <2>3
<1>10. IsTextOf(Got(t), job[t])
  <2>1. got = sz[t] BY <1>1, <1>9
  <2>2. PICK other \in Texts(job[t]) : sz[t] = Len(other) BY <1>1 DEF ContentOK
  <2>3. Len(other) <= Len(now) BY <1>6, <1>8, <2>1, <2>2
  <2>. QED BY <1>4, <1>7, <2>1, <2>2, <2>3 DEF IsTextOf
<1>11. TypeOK'
  <2>1. /\ thread' \in [Threads -> {"free", "fstat", "read", "lock", "size", "put", "unlock"}]
        /\ content' \in [Threads -> Seq(Chars)]
    BY <1>2, <1>1, <1>9 DEF TypeOK
  <2>. QED BY <1>1, <2>1 DEF TypeOK
<1>12. TasksOK' /\ VectorOK'
  <2>1. "lock" \in Readers /\ "read" \in Readers BY DEF Readers
  <2>. QED BY <1>1, <1>2, <2>1, KeepsReader
<1>13. \A u \in Threads : /\ thread'[u] = IF u = t THEN "lock" ELSE thread[u]
                         /\ content'[u] = IF u = t THEN Got(t) ELSE content[u]
  BY <1>2, <1>1
<1>14. LockOK' /\ SizeOK' BY <1>1, <1>13 DEF LockOK, SizeOK
<1>15. ContentOK'
  <2>1. (\A g : Texts(g)' = Texts(g)) /\ \A s, g : IsTextOf(s, g)' <=> IsTextOf(s, g)
    BY <1>1, TextsStay
  <2>2. \A u \in Threads : job'[u] = job[u] /\ sz'[u] = sz[u] BY <1>1
  <2>. QED BY <1>10, <1>13, <2>1, <2>2 DEF ContentOK
<1>. QED BY <1>3, <1>11, <1>12, <1>14, <1>15

LEMMA KeepsAssertionFails == \A t \in Threads : IInv /\ AssertionFails(t) => IInv'
<1>. SUFFICES ASSUME NEW t \in Threads, IInv, AssertionFails(t) PROVE IInv'
  OBVIOUS
<1>1. /\ thread[t] \in {"fstat", "read"} /\ pc' = "aborted"
      /\ UNCHANGED <<held, reading, prog, pos, lists, printed>>
  BY DEF AssertionFails, parsing
<1>2. ReadingInv' BY <1>1, KeepsReading DEF IInv
<1>3. QuietOK' /\ ParsedOK' BY <1>1 DEF QuietOK, ParsedOK
<1>4. thread[t] # "free" BY <1>1
<1>5. pc \notin {"parse", "done"} BY <1>4 DEF IInv, QuietOK
<1>6. TypeOK' BY <1>1, <1>5 DEF IInv, TypeOK, reading, slurping
<1>. QED BY <1>2, <1>3, <1>6 DEF IInv

LEMMA KeepsLock == \A t \in Threads : IInv /\ Lock(t) => IInv'
<1>. SUFFICES ASSUME NEW t \in Threads, IInv, Lock(t) PROVE IInv'
  OBVIOUS
<1>. USE DEF IInv, ReadingInv
<1>1. /\ thread[t] = "lock" /\ thread' = [thread EXCEPT ![t] = "size"]
      /\ mutex = NoThread /\ mutex' = t
      /\ UNCHANGED <<held, unvisited, queue, job, size, sz, content, smt2_progs, pc>>
      /\ UNCHANGED <<prog, pos, lists, printed>>
  BY DEF Lock, Goto, slurping, parsing
<1>2. thread \in [Threads -> Readers \union {"free", "unlock"}] BY ThreadStates
<1>3. QuietOK' /\ ParsedOK' BY <1>1, WhileReading DEF parsing
<1>4. TypeOK'
  <2>1. thread' \in [Threads -> {"free", "fstat", "read", "lock", "size", "put", "unlock"}]
    BY <1>1 DEF TypeOK
  <2>. QED BY <1>1, <2>1 DEF TypeOK
<1>5. TasksOK' /\ VectorOK'
  <2>1. "lock" \in Readers /\ "size" \in Readers BY DEF Readers
  <2>. QED BY <1>1, <1>2, <2>1, KeepsReader
<1>6. \A u \in Threads : thread'[u] = IF u = t THEN "size" ELSE thread[u] BY <1>1, <1>2
<1>7. \A u \in Threads : thread[u] \notin {"size", "put", "unlock"}
  BY <1>1, Z3BenchAssumption DEF LockOK
<1>8. LockOK' /\ SizeOK' BY <1>1, <1>6, <1>7 DEF LockOK, SizeOK
<1>9. ContentOK'
  <2>1. (\A g : Texts(g)' = Texts(g)) /\ \A s, g : IsTextOf(s, g)' <=> IsTextOf(s, g)
    BY <1>1, TextsStay
  <2>. QED BY <1>1, <1>6, <2>1 DEF ContentOK
<1>. QED BY <1>3, <1>4, <1>5, <1>8, <1>9

LEMMA KeepsPushSize == \A t \in Threads : IInv /\ PushSize(t) => IInv'
<1>. SUFFICES ASSUME NEW t \in Threads, IInv, PushSize(t) PROVE IInv'
  OBVIOUS
<1>. USE DEF IInv, ReadingInv
<1>1. /\ thread[t] = "size" /\ thread' = [thread EXCEPT ![t] = "put"]
      /\ size' = [size EXCEPT ![t] = Len(smt2_progs)]
      /\ UNCHANGED <<held, unvisited, queue, job, sz, content, mutex, smt2_progs, pc>>
      /\ UNCHANGED <<prog, pos, lists, printed>>
  BY DEF PushSize, Goto, slurping, parsing
<1>2. /\ thread \in [Threads -> Readers \union {"free", "unlock"}]
      /\ size \in [Threads -> Nat] /\ Len(smt2_progs) \in Nat
  BY ThreadStates, LenProperties DEF TypeOK
<1>3. QuietOK' /\ ParsedOK' BY <1>1, WhileReading DEF parsing
<1>4. TypeOK'
  <2>1. /\ thread' \in [Threads -> {"free", "fstat", "read", "lock", "size", "put", "unlock"}]
        /\ size' \in [Threads -> Nat]
    BY <1>1, <1>2 DEF TypeOK
  <2>. QED BY <1>1, <2>1 DEF TypeOK
<1>5. TasksOK' /\ VectorOK'
  <2>1. "put" \in Readers /\ "size" \in Readers BY DEF Readers
  <2>. QED BY <1>1, <1>2, <2>1, KeepsReader
<1>6. \A u \in Threads : /\ thread'[u] = IF u = t THEN "put" ELSE thread[u]
                        /\ size'[u] = IF u = t THEN Len(smt2_progs) ELSE size[u]
  BY <1>1, <1>2
<1>7. LockOK' /\ SizeOK' BY <1>1, <1>6 DEF LockOK, SizeOK
<1>8. ContentOK'
  <2>1. (\A g : Texts(g)' = Texts(g)) /\ \A s, g : IsTextOf(s, g)' <=> IsTextOf(s, g)
    BY <1>1, TextsStay
  <2>. QED BY <1>1, <1>6, <2>1 DEF ContentOK
<1>. QED BY <1>3, <1>4, <1>5, <1>7, <1>8

LEMMA KeepsPushPut == \A t \in Threads : IInv /\ PushPut(t) => IInv'
<1>. SUFFICES ASSUME NEW t \in Threads, IInv, PushPut(t) PROVE IInv'
  OBVIOUS
<1>. USE DEF IInv, ReadingInv
<1>. DEFINE f == job[t]
            L == Len(smt2_progs)
<1>1. /\ thread[t] = "put" /\ thread' = [thread EXCEPT ![t] = "unlock"]
      /\ smt2_progs' = Append(SubSeq(smt2_progs, 1, size[t]), content[t])
      /\ UNCHANGED <<held, unvisited, queue, job, size, sz, content, mutex, pc>>
      /\ UNCHANGED <<prog, pos, lists, printed>>
  BY DEF PushPut, Goto, slurping, parsing
<1>2. /\ thread \in [Threads -> Readers \union {"free", "unlock"}]
      /\ smt2_progs \in Seq(Seq(Chars)) /\ L \in Nat /\ content[t] \in Seq(Chars)
  BY ThreadStates, LenProperties DEF TypeOK
<1>3. smt2_progs' = Append(smt2_progs, content[t])
  <2>1. size[t] = L BY <1>1 DEF SizeOK
  <2>2. SubSeq(smt2_progs, 1, L) = smt2_progs BY <1>2, SubSeqFull
  <2>. QED BY <1>1, <2>1, <2>2
<1>4. /\ smt2_progs' \in Seq(Seq(Chars)) /\ Len(smt2_progs') = L + 1
      /\ \A k \in 1 .. L : smt2_progs'[k] = smt2_progs[k]
      /\ smt2_progs'[L + 1] = content[t]
  BY <1>2, <1>3, AppendProperties
<1>5. QuietOK' /\ ParsedOK' /\ pc \notin {"parse", "done"} BY <1>1, WhileReading DEF parsing
<1>6. TypeOK'
  <2>1. thread' \in [Threads -> {"free", "fstat", "read", "lock", "size", "put", "unlock"}]
    BY <1>1 DEF TypeOK
  <2>2. prog' \in 1 .. Len(smt2_progs') + 1 /\ Len(printed') <= Len(smt2_progs')
    <3>1. prog \in 1 .. L + 1 /\ Len(printed) <= L /\ Len(printed) \in Nat
      BY LenProperties DEF TypeOK
    <3>. QED BY <1>1, <1>2, <1>4, <3>1
  <2>. QED BY <1>1, <1>4, <1>5, <2>1, <2>2 DEF TypeOK
<1>7. \A u \in Threads : thread'[u] = IF u = t THEN "unlock" ELSE thread[u] BY <1>1, <1>2
<1>8. TasksOK' BY <1>1, <1>7 DEF TasksOK
<1>9. mutex = t /\ \A u \in Threads : thread[u] \in {"size", "put", "unlock"} => u = t
  BY <1>1 DEF LockOK
<1>10. LockOK' /\ SizeOK' BY <1>1, <1>7, <1>9 DEF LockOK, SizeOK
<1>11. (\A g : Texts(g)' = Texts(g)) /\ \A s, g : IsTextOf(s, g)' <=> IsTextOf(s, g)
  BY <1>1, TextsStay
<1>12. ContentOK' BY <1>1, <1>7, <1>11 DEF ContentOK
<1>13. f \in Smt2 \ (unvisited \union queue) /\ f \notin Appended
  <2>1. Reading(t, f) BY <1>1 DEF Reading
  <2>. QED BY <1>1, <2>1 DEF TasksOK, Appended
<1>14. \A g : g \in Appended' <=> g \in Appended \/ g = f
  <2>1. \A u \in Threads : \A g : Reading(u, g)' <=> Reading(u, g) /\ u # t
    BY <1>1, <1>7 DEF Reading
  <2>2. \A g : Reading(t, g) <=> g = f BY <1>1 DEF Reading
  <2>3. \A u \in Threads : Reading(u, f) => u = t BY <1>1 DEF Reading, TasksOK
  <2>4. f \in Appended' BY <1>1, <1>13, <2>1, <2>3 DEF Appended
  <2>5. ASSUME NEW g, g # f
        PROVE  g \in Appended' <=> g \in Appended
    <3>1. \A u \in Threads : Reading(u, g)' <=> Reading(u, g) BY <2>1, <2>2, <2>5
    <3>. QED BY <1>1, <3>1 DEF Appended
  <2>. QED BY <2>4, <2>5
<1>15. IsTextOf(content[t], f) BY <1>1 DEF ContentOK
<1>16. VectorOK'
  <2>1. PICK order \in [1 .. L -> Appended] :
          /\ \A j, k \in 1 .. L : order[j] = order[k] => j = k
          /\ \A g \in Appended : \E k \in 1 .. L : order[k] = g
          /\ \A k \in 1 .. L : IsTextOf(smt2_progs[k], order[k])
    BY DEF VectorOK
  <2>. DEFINE next == [k \in 1 .. L + 1 |-> IF k = L + 1 THEN f ELSE order[k]]
  <2>2. L + 1 \in 1 .. L + 1 /\ \A k \in 1 .. L : k \in 1 .. L + 1 /\ k # L + 1 BY <1>2
  <2>3. \A k \in 1 .. L + 1 : k = L + 1 \/ k \in 1 .. L BY <1>2
  <2>. HIDE DEF f, L, Appended
  <2>4. next[L + 1] = f /\ \A k \in 1 .. L : next[k] = order[k] BY <2>2
  <2>5. next \in [1 .. L + 1 -> Appended'] BY <1>14, <2>1, <2>3
  <2>. HIDE DEF next
  <2>6. \A k \in 1 .. L : next[k] \in Appended /\ next[k] # f BY <1>13, <2>1, <2>4
  <2>7. \A j, k \in 1 .. L + 1 : next[j] = next[k] => j = k BY <2>1, <2>3, <2>4, <2>6
  <2>8. \A g \in Appended' : \E k \in 1 .. L + 1 : next[k] = g BY <1>14, <2>1, <2>2, <2>4
  <2>9. \A k \in 1 .. L + 1 : IsTextOf(smt2_progs'[k], next[k])
    <3>. TAKE k \in 1 .. L + 1
    <3>1. CASE k = L + 1 BY <1>4, <1>15, <2>4, <3>1 DEF f
    <3>2. CASE k \in 1 .. L BY <1>4, <2>1, <2>4, <3>2
    <3>. QED BY <2>3, <3>1, <3>2
  <2>10. PICK new \in [1 .. L + 1 -> Appended'] :
           /\ \A j, k \in 1 .. L + 1 : new[j] = new[k] => j = k
           /\ \A g \in Appended' : \E k \in 1 .. L + 1 : new[k] = g
           /\ \A k \in 1 .. L + 1 : IsTextOf(smt2_progs'[k], new[k])
    BY <2>5, <2>7, <2>8, <2>9
  <2>11. \A k \in 1 .. L + 1 : IsTextOf(smt2_progs[k], new[k])' BY <1>11, <2>10
  <2>. QED BY <1>4, <2>10, <2>11 DEF VectorOK
<1>. QED BY <1>5, <1>6, <1>8, <1>10, <1>12, <1>16

LEMMA KeepsUnlock == \A t \in Threads : IInv /\ Unlock(t) => IInv'
<1>. SUFFICES ASSUME NEW t \in Threads, IInv, Unlock(t) PROVE IInv'
  OBVIOUS
<1>. USE DEF IInv, ReadingInv
<1>1. /\ thread[t] = "unlock" /\ thread' = [thread EXCEPT ![t] = "free"]
      /\ mutex' = NoThread /\ job' = [job EXCEPT ![t] = NoFile]
      /\ size' = [size EXCEPT ![t] = 0] /\ sz' = [sz EXCEPT ![t] = 0]
      /\ content' = [content EXCEPT ![t] = << >>]
      /\ UNCHANGED <<held, unvisited, queue, smt2_progs, pc>>
      /\ UNCHANGED <<prog, pos, lists, printed>>
  BY DEF Unlock, Release, Goto, parsing
<1>2. /\ thread \in [Threads -> Readers \union {"free", "unlock"}]
      /\ job \in [Threads -> Smt2 \union {NoFile}] /\ size \in [Threads -> Nat]
      /\ sz \in [Threads -> Nat] /\ content \in [Threads -> Seq(Chars)]
  BY ThreadStates DEF TypeOK
<1>3. QuietOK' /\ ParsedOK' BY <1>1, WhileReading DEF parsing
<1>4. TypeOK'
  <2>1. << >> \in Seq(Chars) OBVIOUS
  <2>2. /\ thread' \in [Threads -> {"free", "fstat", "read", "lock", "size", "put", "unlock"}]
        /\ job' \in [Threads -> Smt2 \union {NoFile}] /\ size' \in [Threads -> Nat]
        /\ sz' \in [Threads -> Nat] /\ content' \in [Threads -> Seq(Chars)]
        /\ mutex' \in Threads \union {NoThread}
    BY <1>1, <1>2, <2>1 DEF TypeOK
  <2>. QED BY <1>1, <2>2 DEF TypeOK
<1>5. \A u \in Threads :
        /\ thread'[u] = IF u = t THEN "free" ELSE thread[u]
        /\ u # t => job'[u] = job[u] /\ size'[u] = size[u]
        /\ u # t => sz'[u] = sz[u] /\ content'[u] = content[u]
  BY <1>1, <1>2
<1>6. TasksOK' BY <1>1, <1>5 DEF TasksOK
<1>7. LockOK' /\ SizeOK'
  <2>1. mutex = t BY <1>1 DEF LockOK
  <2>. QED BY <1>1, <1>5, <2>1 DEF LockOK, SizeOK
<1>8. (\A g : Texts(g)' = Texts(g)) /\ \A s, g : IsTextOf(s, g)' <=> IsTextOf(s, g)
  BY <1>1, TextsStay
<1>9. ContentOK' BY <1>5, <1>8 DEF ContentOK
<1>10. Appended' = Appended
  <2>1. \A u \in Threads : \A g : Reading(u, g)' <=> Reading(u, g) BY <1>1, <1>5 DEF Reading
  <2>. QED BY <1>1, <2>1 DEF Appended
<1>11. VectorOK' BY <1>1, <1>10, VectorStays
<1>. QED BY <1>3, <1>4, <1>6, <1>7, <1>9, <1>11

(* A file is overwritten: the texts it held before are still among those   *)
(* it has held.                                                            *)
LEMMA KeepsOverwrite == \A f \in Written : IInv /\ Overwrite(f) => IInv'
<1>. SUFFICES ASSUME NEW f \in Written, IInv, Overwrite(f) PROVE IInv'
  OBVIOUS
<1>. USE DEF IInv, ReadingInv
<1>1. /\ Len(held[f]) <= MaxWrites
      /\ UNCHANGED <<unvisited, queue, thread, job, size, sz, content, mutex, smt2_progs, pc>>
      /\ UNCHANGED <<prog, pos, lists, printed>>
  BY DEF Overwrite, reading, slurping, parsing
<1>2. PICK text \in Rewrites : held' = [held EXCEPT ![f] = Append(held[f], text)]
  BY DEF Overwrite
<1>3. /\ f \in Files /\ text \in Seq(Chars) /\ MaxWrites \in Nat
      /\ held \in [Files -> Seq(Seq(Chars))] /\ \A g \in Files : Len(held[g]) \in 1 .. MaxWrites + 1
  BY Z3BenchAssumption DEF TypeOK
<1>4. held[f] \in Seq(Seq(Chars)) /\ Len(held[f]) \in 1 .. MaxWrites BY <1>1, <1>3
<1>5. /\ Append(held[f], text) \in Seq(Seq(Chars))
      /\ Len(Append(held[f], text)) = Len(held[f]) + 1
      /\ \A j \in 1 .. Len(held[f]) : Append(held[f], text)[j] = held[f][j]
  BY <1>3, <1>4, AppendProperties
<1>6. TypeOK'
  <2>1. held' \in [Files -> Seq(Seq(Chars))] BY <1>2, <1>3, <1>5
  <2>2. \A g \in Files : Len(held'[g]) \in 1 .. MaxWrites + 1 BY <1>2, <1>3, <1>4, <1>5
  <2>. QED BY <1>1, <2>1, <2>2 DEF TypeOK
<1>7. \A g \in Files : Texts(g) \subseteq Texts(g)'
  <2>. SUFFICES ASSUME NEW g \in Files, NEW j \in DOMAIN held[g]
                PROVE  held[g][j] \in Texts(g)'
    BY DEF Texts
  <2>1. CASE g = f
    <3>1. held'[g] = Append(held[f], text) BY <1>2, <1>3, <2>1
    <3>2. DOMAIN held[f] = 1 .. Len(held[f]) /\ DOMAIN held'[g] = 1 .. Len(held[f]) + 1
      BY <1>4, <1>5, <3>1, LenProperties
    <3>3. j \in DOMAIN held'[g] /\ held'[g][j] = held[g][j] BY <1>4, <1>5, <2>1, <3>1, <3>2
    <3>. QED BY <3>3 DEF Texts
  <2>2. CASE g # f
    <3>1. held'[g] = held[g] BY <1>2, <1>3, <2>2
    <3>. QED BY <3>1 DEF Texts
  <2>. QED BY <2>1, <2>2
<1>8. \A s : \A g \in Files : IsTextOf(s, g) => IsTextOf(s, g)' BY <1>7, Zenon DEF IsTextOf
<1>9. TasksOK' /\ LockOK' /\ SizeOK' BY <1>1 DEF TasksOK, LockOK, SizeOK
<1>10. ContentOK'
  <2>1. \A u \in Threads : thread[u] # "free" => job[u] \in Files
    BY Z3BenchAssumption DEF TasksOK
  <2>. QED BY <1>1, <1>7, <1>8, <2>1 DEF ContentOK
<1>11. VectorOK'
  <2>1. Appended' = Appended BY <1>1 DEF Appended, Reading
  <2>2. Appended \subseteq Files BY Z3BenchAssumption DEF Appended
  <2>. HIDE DEF Appended
  <2>. QED BY <1>1, <1>8, <2>1, <2>2 DEF VectorOK
<1>12. QuietOK' BY <1>1 DEF QuietOK
<1>13. ParsedOK' BY <1>1 DEF ParsedOK
<1>. QED BY <1>6, <1>9, <1>10, <1>11, <1>12, <1>13

LEMMA NextInv == IInv /\ [Next]_vars => IInv'
<1>. SUFFICES ASSUME IInv, [Next]_vars PROVE IInv'
  OBVIOUS
<1>1. CASE MainThread
  BY <1>1, KeepsArguments, KeepsVisit, KeepsSearchFails, KeepsEndSearch, KeepsPoolWait, KeepsOpenList,
     KeepsCloseList, KeepsParseAtom, KeepsNextProgram DEF MainThread, Parse
<1>2. CASE \E t \in Threads : PoolThread(t)
  BY <1>2, KeepsTake, KeepsFstat, KeepsRead, KeepsAssertionFails, KeepsLock, KeepsPushSize,
     KeepsPushPut, KeepsUnlock DEF PoolThread
<1>3. CASE \E f \in Written : Overwrite(f) BY <1>3, KeepsOverwrite
<1>4. CASE UNCHANGED vars
  <2>1. UNCHANGED <<held, reading, pc, prog, pos, lists, printed>>
    BY <1>4 DEF vars, parsing
  <2>2. UNCHANGED <<held, unvisited, queue, thread, job, size, sz, content, mutex, smt2_progs>>
    BY <2>1 DEF reading, slurping
  <2>3. ReadingInv' BY <2>1, KeepsReading DEF IInv
  <2>4. TypeOK' /\ QuietOK' /\ ParsedOK' BY <2>1, <2>2 DEF IInv, TypeOK, QuietOK, ParsedOK
  <2>. QED BY <2>3, <2>4 DEF IInv
<1>. QED BY <1>1, <1>2, <1>3, <1>4 DEF Next

THEOREM InvariantHolds == Spec => []IInv
BY InitInv, NextInv, PTL DEF Spec

(* Every state is one of the kind described: whatever the threads do, the  *)
(* vector is a sequence of programs and the parser is within one of them.  *)
THEOREM TypeCorrect == Spec => []TypeOK
<1>1. IInv => TypeOK BY DEF IInv
<1>. QED BY <1>1, InvariantHolds, PTL

(* At the end every .smt2 file was read once, with nobody's program lost   *)
(* between threads that append at the same time, and what is printed of    *)
(* each is what its text says.                                             *)
LEMMA PrintsAtTheEnd == IInv => PrintsFiles
<1>. SUFFICES ASSUME IInv, pc = "done"
              PROVE  /\ Len(printed) = Cardinality(Smt2)
                     /\ \E order \in [DOMAIN printed -> Smt2] :
                          /\ \A j, k \in DOMAIN printed : order[j] = order[k] => j = k
                          /\ \A k \in DOMAIN printed : \E text, other \in Texts(order[k]) :
                               Len(other) <= Len(text)
                               /\ Reads(SubSeq(text, 1, Len(other)), printed[k])
  BY DEF PrintsFiles
<1>. DEFINE L == Len(smt2_progs)
<1>1. L \in Nat /\ Len(printed) = L /\ DOMAIN printed = 1 .. L
  BY LenProperties DEF IInv, TypeOK, ParsedOK
<1>2. \A k \in 1 .. L : Reads(smt2_progs[k], printed[k])
  <2>1. prog = L + 1 BY DEF IInv, ParsedOK
  <2>2. prog - 1 = L BY <1>1, <2>1
  <2>. QED BY <2>2 DEF IInv, ParsedOK
<1>3. Appended = Smt2 BY DEF IInv, QuietOK, Appended, Reading
<1>. HIDE DEF L
<1>4. PICK order \in [1 .. L -> Smt2] :
        /\ \A j, k \in 1 .. L : order[j] = order[k] => j = k
        /\ \A f \in Smt2 : \E k \in 1 .. L : order[k] = f
        /\ \A k \in 1 .. L : IsTextOf(smt2_progs[k], order[k])
  BY <1>3 DEF IInv, ReadingInv, VectorOK, L
<1>5. Cardinality(Smt2) = L
  <2>1. order \in Bijection(1 .. L, Smt2)
    BY <1>4 DEF Bijection, Injection, Surjection, IsInjective
  <2>2. ExistsBijection(1 .. L, Smt2) BY <2>1 DEF ExistsBijection
  <2>. QED BY <1>1, <2>2, FS_CountingElements
<1>6. \A k \in 1 .. L : \E text, other \in Texts(order[k]) :
        Len(other) <= Len(text) /\ Reads(SubSeq(text, 1, Len(other)), printed[k])
  BY <1>2, <1>4 DEF IsTextOf
<1>. QED BY <1>1, <1>4, <1>5, <1>6

THEOREM PrintsItsFiles == Spec => []PrintsFiles
BY InvariantHolds, PrintsAtTheEnd, PTL
-----------------------------------------------------------------------------
(* The thread pool's loop: first how a range is divided. *)
LEMMA DivMod ==
  ASSUME NEW T \in Nat, NEW n \in Nat \ {0}
  PROVE  /\ T \div n \in Nat /\ T % n \in 0 .. n - 1
         /\ T = n * (T \div n) + (T % n)
         /\ n <= T => T \div n >= 1
  OBVIOUS

LEMMA Distribute ==
  ASSUME NEW a \in Int, NEW b \in Int, NEW c \in Int
  PROVE  (a + b) * c = a * c + b * c /\ c * (a + b) = c * a + c * b
  OBVIOUS

LEMMA Monotone ==
  ASSUME NEW a \in Int, NEW b \in Int, NEW c \in Nat, a <= b
  PROVE  a * c <= b * c
  OBVIOUS

(* What the constructor of blocks computes. *)
LEMMA Division ==
  ASSUME NEW lo \in Int, NEW hi \in Int, NEW wanted \in Nat \ {0}, lo < hi,
         NEW n, n = NumBlocks(lo, hi, wanted)
  PROVE  /\ n \in Nat /\ n >= 1 /\ n <= hi - lo /\ n <= wanted
         /\ BlockSize(lo, hi, n) \in Nat /\ BlockSize(lo, hi, n) >= 1
         /\ Remainder(lo, hi, n) \in 0 .. n - 1
         /\ hi - lo = n * BlockSize(lo, hi, n) + Remainder(lo, hi, n)
<1>1. n \in Nat \ {0} /\ n <= hi - lo /\ n <= wanted
  BY DEF NumBlocks, TotalSize, Least
<1>. DEFINE T == hi - lo
<1>2. T \in Nat /\ n <= T BY <1>1
<1>. HIDE DEF T
<1>3. /\ T \div n \in Nat /\ T % n \in 0 .. n - 1 /\ T \div n >= 1
      /\ T = n * (T \div n) + (T % n)
  BY <1>1, <1>2, DivMod
<1>4. BlockSize(lo, hi, n) = T \div n /\ Remainder(lo, hi, n) = T % n
  BY DEF BlockSize, Remainder, TotalSize, T
<1>5. n >= 1 BY <1>1
<1>. QED BY <1>1, <1>3, <1>4, <1>5 DEF T

(* Consecutive blocks touch, and the first r of them have one index more. *)
LEMMA StartNext ==
  ASSUME NEW lo \in Int, NEW hi \in Int, NEW wanted \in Nat \ {0}, lo < hi,
         NEW n, n = NumBlocks(lo, hi, wanted), NEW b \in Nat
  PROVE  Start(lo, hi, n, b + 1)
           = Start(lo, hi, n, b) + BlockSize(lo, hi, n)
               + (IF b < Remainder(lo, hi, n) THEN 1 ELSE 0)
<1>. DEFINE q == BlockSize(lo, hi, n)
            r == Remainder(lo, hi, n)
<1>1. q \in Nat /\ r \in Nat BY Division
<1>. HIDE DEF q, r
<1>2. (b + 1) * q = b * q + q BY <1>1, Distribute
<1>3. b * q \in Nat BY <1>1
<1>4. Least(b + 1, r) = Least(b, r) + (IF b < r THEN 1 ELSE 0) BY <1>1 DEF Least
<1>5. Least(b, r) \in Nat BY <1>1 DEF Least
<1>. QED BY <1>1, <1>2, <1>3, <1>4, <1>5 DEF Start, q, r

LEMMA StartMonotone ==
  ASSUME NEW lo \in Int, NEW hi \in Int, NEW wanted \in Nat \ {0}, lo < hi,
         NEW n, n = NumBlocks(lo, hi, wanted), NEW b \in Nat, NEW c \in Nat, b <= c
  PROVE  /\ Start(lo, hi, n, b) \in Int
         /\ Start(lo, hi, n, b) <= Start(lo, hi, n, c)
<1>. DEFINE q == BlockSize(lo, hi, n)
            r == Remainder(lo, hi, n)
<1>1. q \in Nat /\ r \in Nat BY Division
<1>. HIDE DEF q, r
<1>2. b * q <= c * q /\ b * q \in Nat /\ c * q \in Nat BY <1>1, Monotone
<1>3. Least(b, r) <= Least(c, r) /\ Least(b, r) \in Nat /\ Least(c, r) \in Nat
  BY <1>1 DEF Least
<1>. QED BY <1>2, <1>3 DEF Start, q, r

(* The special case in end() agrees with the start of a block after the    *)
(* last one.                                                               *)
LEMMA EndIsNextStart ==
  ASSUME NEW lo \in Int, NEW hi \in Int, NEW wanted \in Nat \ {0}, lo < hi,
         NEW n, n = NumBlocks(lo, hi, wanted), NEW b \in 0 .. n - 1
  PROVE  /\ End(lo, hi, n, b) = Start(lo, hi, n, b + 1)
         /\ Start(lo, hi, n, n) = hi /\ Start(lo, hi, n, 0) = lo
<1>. DEFINE q == BlockSize(lo, hi, n)
            r == Remainder(lo, hi, n)
<1>1. n \in Nat /\ n >= 1 /\ q \in Nat /\ r \in 0 .. n - 1 /\ hi - lo = n * q + r
  BY Division
<1>. HIDE DEF q, r
<1>2. n * q \in Nat /\ 0 * q = 0 BY <1>1
<1>3. Least(n, r) = r /\ Least(0, r) = 0 BY <1>1 DEF Least
<1>4. Start(lo, hi, n, n) = hi /\ Start(lo, hi, n, 0) = lo
  BY <1>1, <1>2, <1>3 DEF Start, q, r
<1>5. CASE b = n - 1
  <2>1. b + 1 = n BY <1>1, <1>5
  <2>. QED BY <1>4, <1>5, <2>1 DEF End
<1>6. CASE b # n - 1 BY <1>4, <1>6 DEF End
<1>. QED BY <1>5, <1>6

(* The block that an index falls in. *)
LEMMA Covered ==
  ASSUME NEW lo \in Int, NEW hi \in Int, NEW wanted \in Nat \ {0}, lo < hi,
         NEW n, n = NumBlocks(lo, hi, wanted), NEW x \in lo .. hi - 1
  PROVE  \E b \in 0 .. n - 1 :
           Start(lo, hi, n, b) <= x /\ x < Start(lo, hi, n, b + 1)
<1>. DEFINE q == BlockSize(lo, hi, n)
            r == Remainder(lo, hi, n)
            d == x - lo
<1>1. /\ n \in Nat /\ n >= 1 /\ q \in Nat /\ q >= 1 /\ r \in 0 .. n - 1
      /\ hi - lo = n * q + r
  BY Division
<1>2. d \in Nat /\ d < n * q + r BY <1>1
<1>3. \A b \in Nat : Start(lo, hi, n, b) = lo + b * q + Least(b, r) BY DEF Start
<1>. HIDE DEF q, r, d
<1>4. r * q \in Nat /\ n * q \in Nat /\ r \in Nat BY <1>1
<1>5. x = lo + d BY DEF d
<1>6. CASE d < r * q + r
  <2>. DEFINE b == d \div (q + 1)
  <2>1. q + 1 \in Nat \ {0} BY <1>1
  <2>2. b \in Nat /\ d % (q + 1) \in 0 .. q /\ d = (q + 1) * b + (d % (q + 1))
    <3>. DEFINE m == q + 1
    <3>1. m \in Nat \ {0} /\ d \in Nat BY <1>2, <2>1
    <3>. HIDE DEF m
    <3>2. d \div m \in Nat /\ d % m \in 0 .. m - 1 /\ d = m * (d \div m) + (d % m)
      BY <3>1, DivMod
    <3>3. m - 1 = q BY <1>1 DEF m
    <3>. QED BY <3>2, <3>3 DEF m
  <2>. HIDE DEF b
  <2>3. (q + 1) * b = b * q + b BY <1>1, <2>2
  <2>4. b < r
    <3>. SUFFICES ASSUME r <= b PROVE FALSE BY <1>4, <2>2
    <3>1. r * q <= b * q BY <1>1, <1>4, <2>2, Monotone
    <3>2. b * q \in Nat BY <1>1, <2>2
    <3>. QED BY <1>2, <1>4, <1>6, <2>2, <2>3, <3>1, <3>2
  <2>5. Least(b, r) = b /\ Least(b + 1, r) = b + 1 BY <1>4, <2>2, <2>4 DEF Least
  <2>6. (b + 1) * q = b * q + q /\ b * q \in Nat BY <1>1, <2>2, Distribute
  <2>7. b \in 0 .. n - 1 /\ b + 1 \in Nat BY <1>1, <2>2, <2>4
  <2>8. Start(lo, hi, n, b) = lo + b * q + b BY <1>3, <2>2, <2>5
  <2>9. Start(lo, hi, n, b + 1) = lo + b * q + q + b + 1
    BY <1>1, <1>3, <2>2, <2>5, <2>6, <2>7
  <2>. QED BY <1>1, <1>2, <1>5, <2>2, <2>3, <2>6, <2>7, <2>8, <2>9
<1>7. CASE d >= r * q + r
  <2>. DEFINE e == d - (r * q + r)
              k == e \div q
              b == r + k
  <2>1. e \in Nat BY <1>2, <1>4, <1>7
  <2>2. k \in Nat /\ e % q \in 0 .. q - 1 /\ e = q * k + (e % q)
    <3>1. q \in Nat \ {0} BY <1>1
    <3>. HIDE DEF e
    <3>. QED BY <2>1, <3>1, DivMod
  <2>3. d = r * q + r + e BY <1>2, <1>4
  <2>. HIDE DEF e, k
  <2>4. q * k = k * q /\ k * q \in Nat BY <1>1, <2>2
  <2>5. r + k < n
    <3>. SUFFICES ASSUME n <= r + k PROVE FALSE BY <1>1, <2>2
    <3>1. n * q <= (r + k) * q BY <1>1, <1>4, <2>2, Monotone
    <3>2. (r + k) * q = r * q + k * q BY <1>1, <1>4, <2>2, Distribute
    <3>. QED BY <1>1, <1>2, <1>4, <2>1, <2>2, <2>3, <2>4, <3>1, <3>2
  <2>6. Least(b, r) = r /\ Least(b + 1, r) = r BY <1>4, <2>2 DEF Least
  <2>7. b * q = r * q + k * q /\ (b + 1) * q = r * q + k * q + q
    <3>1. b \in Nat /\ (b + 1) * q = b * q + q BY <1>1, <1>4, <2>2, Distribute
    <3>2. b * q = r * q + k * q BY <1>1, <1>4, <2>2, Distribute
    <3>. QED BY <3>1, <3>2
  <2>8. b \in 0 .. n - 1 /\ b \in Nat /\ b + 1 \in Nat BY <1>1, <1>4, <2>2, <2>5
  <2>9. Start(lo, hi, n, b) = lo + r * q + k * q + r
    BY <1>3, <1>4, <2>4, <2>6, <2>7, <2>8
  <2>10. Start(lo, hi, n, b + 1) = lo + r * q + k * q + q + r
    BY <1>1, <1>3, <1>4, <2>4, <2>6, <2>7, <2>8
  <2>. HIDE DEF b
  <2>. QED BY <1>1, <1>2, <1>4, <1>5, <2>1, <2>2, <2>3, <2>4, <2>8, <2>9, <2>10
<1>. QED BY <1>2, <1>4, <1>6, <1>7

(* blocks of tools/z3-bench/z3-bench.cpp (lines 98-143) partitions every   *)
(* non-empty range into non-empty blocks whose sizes differ by at most     *)
(* one, whatever number of blocks is asked for.                            *)
THEOREM BlocksPartition ==
  ASSUME NEW lo \in Int, NEW hi \in Int, NEW wanted \in Nat \ {0}, lo < hi,
         NEW n, n = NumBlocks(lo, hi, wanted)
  PROVE  /\ \A x \in lo .. hi - 1 : \E b \in 0 .. n - 1 : x \in Block(lo, hi, n, b)
         /\ \A b \in 0 .. n - 1 : Block(lo, hi, n, b) \subseteq lo .. hi - 1
         /\ \A b, c \in 0 .. n - 1 :
              b # c => Block(lo, hi, n, b) \cap Block(lo, hi, n, c) = {}
         /\ \A b \in 0 .. n - 1 :
              End(lo, hi, n, b) - Start(lo, hi, n, b)
                \in {BlockSize(lo, hi, n), BlockSize(lo, hi, n) + 1}
         /\ BlockSize(lo, hi, n) >= 1
<1>. DEFINE S(b) == Start(lo, hi, n, b)
<1>1. /\ n \in Nat /\ n >= 1
      /\ BlockSize(lo, hi, n) \in Nat /\ BlockSize(lo, hi, n) >= 1
  BY Division
<1>2. \A b \in 0 .. n - 1 : Block(lo, hi, n, b) = S(b) .. S(b + 1) - 1
  BY EndIsNextStart DEF Block
<1>3. \A b, c \in Nat : b <= c => S(b) \in Int /\ S(c) \in Int /\ S(b) <= S(c)
  BY StartMonotone
<1>4. S(n) = hi /\ S(0) = lo BY <1>1, EndIsNextStart
<1>5. \A x \in lo .. hi - 1 : \E b \in 0 .. n - 1 : S(b) <= x /\ x < S(b + 1)
  BY Covered
<1>6. \A b \in 0 .. n - 1 :
        S(b + 1) = S(b) + BlockSize(lo, hi, n)
                     + (IF b < Remainder(lo, hi, n) THEN 1 ELSE 0)
  <2>. SUFFICES ASSUME NEW b \in 0 .. n - 1
                PROVE  S(b + 1) = S(b) + BlockSize(lo, hi, n)
                                    + (IF b < Remainder(lo, hi, n) THEN 1 ELSE 0)
    OBVIOUS
  <2>1. b \in Nat OBVIOUS
  <2>2. Start(lo, hi, n, b + 1)
          = Start(lo, hi, n, b) + BlockSize(lo, hi, n)
              + (IF b < Remainder(lo, hi, n) THEN 1 ELSE 0)
    <3>. HIDE DEF S
    <3>. QED BY <2>1, StartNext, SMTT(30)
  <2>. QED BY <2>2
<1>7. \A b \in 0 .. n - 1 : End(lo, hi, n, b) = S(b + 1) BY EndIsNextStart
<1>. HIDE DEF S
<1>8. \A x \in lo .. hi - 1 : \E b \in 0 .. n - 1 : x \in Block(lo, hi, n, b)
  <2>. SUFFICES ASSUME NEW x \in lo .. hi - 1
                PROVE  \E b \in 0 .. n - 1 : x \in Block(lo, hi, n, b)
    OBVIOUS
  <2>1. PICK b \in 0 .. n - 1 : S(b) <= x /\ x < S(b + 1) BY <1>5
  <2>2. S(b) \in Int /\ S(b + 1) \in Int BY <1>1, <1>3
  <2>3. x \in S(b) .. S(b + 1) - 1 BY <2>1, <2>2
  <2>. QED BY <1>2, <2>3
<1>9. ASSUME NEW b \in 0 .. n - 1 PROVE Block(lo, hi, n, b) \subseteq lo .. hi - 1
  <2>1. lo <= S(b) /\ S(b + 1) <= hi /\ S(b) \in Int /\ S(b + 1) \in Int
    BY <1>1, <1>3, <1>4
  <2>. QED BY <1>2, <2>1
<1>10. ASSUME NEW b \in 0 .. n - 1, NEW c \in 0 .. n - 1, b < c
       PROVE  Block(lo, hi, n, b) \cap Block(lo, hi, n, c) = {}
  <2>1. S(b + 1) <= S(c) /\ S(b) \in Int /\ S(b + 1) \in Int /\ S(c) \in Int /\ S(c + 1) \in Int
    BY <1>1, <1>3, <1>10
  <2>. QED BY <1>2, <2>1
<1>11. \A b, c \in 0 .. n - 1 :
         b # c => Block(lo, hi, n, b) \cap Block(lo, hi, n, c) = {}
  <2>. SUFFICES ASSUME NEW b \in 0 .. n - 1, NEW c \in 0 .. n - 1, b # c
                PROVE  Block(lo, hi, n, b) \cap Block(lo, hi, n, c) = {}
    OBVIOUS
  <2>1. b < c \/ c < b OBVIOUS
  <2>. QED BY <1>10, <2>1
<1>12. \A b \in 0 .. n - 1 :
         End(lo, hi, n, b) - S(b)
           \in {BlockSize(lo, hi, n), BlockSize(lo, hi, n) + 1}
  <2>. SUFFICES ASSUME NEW b \in 0 .. n - 1
                PROVE  End(lo, hi, n, b) - S(b)
                         \in {BlockSize(lo, hi, n), BlockSize(lo, hi, n) + 1}
    OBVIOUS
  <2>1. S(b) \in Int BY <1>1, <1>3
  <2>. QED BY <1>1, <1>6, <1>7, <2>1
<1>. QED BY <1>1, <1>8, <1>9, <1>11, <1>12 DEF S
-----------------------------------------------------------------------------
(* blks is what the constructor of blocks makes of some call, or of none.  *)
BlksOK ==
  IF first < last THEN \E wanted \in Nat \ {0} : num = NumBlocks(first, last, wanted)
  ELSE num = 0

(* A task stands for a block of its own that has been detached. *)
LoopTasksOK ==
  /\ IsFiniteSet(pool)
  /\ \A p \in pool : p[1] = calls /\ p[2] \in 0 .. posted - 1
  /\ \A t \in Running : /\ task[t][1] = calls /\ task[t][2] \in 0 .. posted - 1
                        /\ task[t] \notin pool
                        /\ \A u \in Running : task[t] = task[u] => t = u

(* Where the caller is says how far it has come. *)
CallerOK ==
  /\ caller # "post" => posted = num
  /\ caller = "out" => m_cnt = 0

(* A block that has not been run. *)
Unrun(b) == \/ b >= posted
            \/ <<calls, b>> \in pool
            \/ \E t \in Workers : worker[t] = "loop" /\ task[t] = <<calls, b>>

RunsOK ==
  \A x \in Indices :
    runs[x] = IF /\ x \in first .. last - 1
                 /\ \A b \in 0 .. num - 1 : Unrun(b) => x \notin Block(first, last, num, b)
              THEN 1 ELSE 0

LoopInv == LoopTypeOK /\ CountExact /\ BlksOK /\ LoopTasksOK /\ CallerOK /\ RunsOK

USE LoopBoundsAssumption

LEMMA RunningFinite ==
  /\ IsFiniteSet(Running) /\ Cardinality(Running) \in Nat
  /\ IsFiniteSet(Running)' /\ Cardinality(Running)' \in Nat
<1>1. Running \subseteq Workers /\ Running' \subseteq Workers BY DEF Running
<1>. QED BY <1>1, WorkersAssumption, FS_Subset, FS_CardinalityType

LEMMA WantedPositive == ASSUME NEW wanted \in Nat PROVE Wanted(wanted) \in Nat \ {0}
<1>1. Cardinality(Workers) \in Nat /\ Cardinality(Workers) # 0
  BY WorkersAssumption, FS_CardinalityType, FS_EmptySet
<1>. QED BY <1>1 DEF Wanted

(* At zero nothing is left: no task waits and none runs. *)
LEMMA ZeroMeansDone ==
  ASSUME LoopInv, m_cnt = 0
  PROVE  pool = {} /\ Running = {} /\ posted = num
<1>1. Cardinality(pool) \in Nat BY FS_CardinalityType DEF LoopInv, LoopTasksOK
<1>2. Cardinality(pool) = 0 /\ Cardinality(Running) = 0 /\ posted = num
  BY <1>1, RunningFinite DEF LoopInv, CountExact, LoopTypeOK
<1>. QED BY <1>2, RunningFinite, FS_EmptySet DEF LoopInv, LoopTasksOK

LEMMA AliveFromInv == LoopInv => FrameAlive
<1>. SUFFICES ASSUME LoopInv PROVE FrameAlive OBVIOUS
<1>1. caller = "out" => pool = {} /\ Running = {} BY ZeroMeansDone DEF LoopInv, CallerOK
<1>2. \A p \in pool : p[1] = calls BY DEF LoopInv, LoopTasksOK
<1>3. \A t \in Workers : Active(t) => t \in Running BY DEF Running
<1>4. \A t \in Running : task[t][1] = calls BY DEF LoopInv, LoopTasksOK
<1>. QED BY <1>1, <1>2, <1>3, <1>4 DEF FrameAlive

LEMMA InitLoopInv == LoopInit => LoopInv
<1>. SUFFICES ASSUME LoopInit PROVE LoopInv OBVIOUS
<1>0. Running = {} BY DEF LoopInit, Running, Active
<1>1. LoopTypeOK BY DEF LoopInit, LoopTypeOK, None
<1>2. CountExact BY <1>0, FS_EmptySet DEF LoopInit, CountExact
<1>3. BlksOK BY DEF LoopInit, BlksOK
<1>4. LoopTasksOK BY <1>0, FS_EmptySet DEF LoopInit, LoopTasksOK
<1>5. CallerOK BY DEF LoopInit, CallerOK
<1>6. RunsOK BY DEF LoopInit, RunsOK
<1>. QED BY <1>1, <1>2, <1>3, <1>4, <1>5, <1>6 DEF LoopInv

LEMMA StepCall ==
  ASSUME LoopInv, NEW f \in 0 .. MaxIndex, NEW l \in 0 .. MaxIndex, NEW wanted \in Nat,
         Call(f, l, wanted)
  PROVE  LoopInv'
<1>. DEFINE n == NumBlocks(f, l, Wanted(wanted))
<1>. USE DEF Call, OpenFrame
<1>0. pool = {} /\ Running = {} BY ZeroMeansDone DEF LoopInv, CallerOK
<1>1. pool' = {} /\ Running' = {} BY <1>0 DEF Running, Active
<1>2. Wanted(wanted) \in Nat \ {0} BY WantedPositive
<1>3. n \in 0 .. MaxIndex /\ (f >= l => n = 0) BY <1>2 DEF NumBlocks, Least, TotalSize
<1>. HIDE DEF n
<1>4. first' = f /\ last' = l /\ num' = n /\ m_cnt' = n /\ posted' = 0 BY DEF n
<1>5. LoopTypeOK' BY <1>3, <1>4 DEF LoopInv, LoopTypeOK
<1>6. CountExact' BY <1>1, <1>3, <1>4, FS_EmptySet DEF CountExact
<1>7. BlksOK' BY <1>2, <1>3, <1>4 DEF BlksOK, n
<1>8. LoopTasksOK' BY <1>1, FS_EmptySet DEF LoopTasksOK
<1>9. CallerOK' BY DEF CallerOK
<1>10. RunsOK'
  <2>1. \A b \in 0 .. num' - 1 : Unrun(b)' BY <1>3, <1>4 DEF Unrun
  <2>2. \A x \in f .. l - 1 : \E b \in 0 .. n - 1 : x \in Block(f, l, n, b)
    <3>1. CASE f < l
      <4>1. n = NumBlocks(f, l, Wanted(wanted)) /\ f \in Int /\ l \in Int BY DEF n
      <4>. QED BY <1>2, <3>1, <4>1, BlocksPartition
    <3>2. CASE ~(f < l) BY <3>2
    <3>. QED BY <3>1, <3>2
  <2>. QED BY <1>4, <2>1, <2>2 DEF RunsOK
<1>. QED BY <1>5, <1>6, <1>7, <1>8, <1>9, <1>10 DEF LoopInv

(* wait_on_n_tasks is a call for n indices that asks for n blocks. *)
LEMMA TasksAreBlocks ==
  ASSUME NEW n \in 0 .. MaxIndex, wait_on_n_tasks(n) PROVE Call(0, n, n)
<1>1. n \in Nat BY LoopBoundsAssumption
<1>2. NumBlocks(0, n, Wanted(n)) = n BY <1>1 DEF NumBlocks, Wanted, Least, TotalSize
<1>. QED BY <1>2 DEF wait_on_n_tasks, Call

LEMMA StepPost ==
  ASSUME LoopInv, Post PROVE LoopInv'
<1>. USE DEF Post, blks
<1>0. <<calls, posted>> \notin pool /\ IsFiniteSet(pool)
  BY DEF LoopInv, LoopTasksOK, LoopTypeOK
<1>1. LoopTypeOK' BY DEF LoopInv, LoopTypeOK
<1>2. CountExact'
  <2>1. Cardinality(pool') = Cardinality(pool) + 1 BY <1>0, FS_AddElement
  <2>2. Running' = Running BY DEF Running, Active
  <2>3. Cardinality(pool) \in Nat BY <1>0, FS_CardinalityType
  <2>. QED BY <2>1, <2>2, <2>3, RunningFinite DEF LoopInv, CountExact, LoopTypeOK
<1>3. BlksOK' BY DEF LoopInv, BlksOK
<1>4. LoopTasksOK'
  <2>1. Running' = Running BY DEF Running, Active
  <2>2. IsFiniteSet(pool') BY <1>0, FS_AddElement
  <2>3. \A t \in Running : task[t] # <<calls, posted>>
    BY DEF LoopInv, LoopTasksOK, LoopTypeOK
  <2>. QED BY <2>1, <2>2, <2>3 DEF LoopInv, LoopTasksOK, LoopTypeOK
<1>5. CallerOK' BY DEF LoopInv, CallerOK
<1>6. RunsOK'
  <2>1. \A b \in 0 .. num - 1 : Unrun(b)' <=> Unrun(b)
    BY DEF Unrun, LoopInv, LoopTypeOK
  <2>. QED BY <2>1 DEF LoopInv, RunsOK
<1>. QED BY <1>1, <1>2, <1>3, <1>4, <1>5, <1>6 DEF LoopInv

(* The steps that move neither the count nor a task. *)
LEMMA StepCaller ==
  ASSUME LoopInv, Load \/ Wait PROVE LoopInv'
<1>. USE DEF Load, Wait, blks
<1>0. Running' = Running BY DEF Running, Active
<1>1. LoopTypeOK' BY DEF LoopInv, LoopTypeOK
<1>2. CountExact' BY <1>0 DEF LoopInv, CountExact
<1>3. BlksOK' BY DEF LoopInv, BlksOK
<1>4. LoopTasksOK' BY <1>0 DEF LoopInv, LoopTasksOK
<1>5. CallerOK' BY DEF LoopInv, CallerOK
<1>6. RunsOK'
  <2>1. \A b \in 0 .. num - 1 : Unrun(b)' <=> Unrun(b) BY DEF Unrun
  <2>. QED BY <2>1 DEF LoopInv, RunsOK
<1>. QED BY <1>1, <1>2, <1>3, <1>4, <1>5, <1>6 DEF LoopInv

LEMMA StepTake ==
  ASSUME LoopInv, NEW t \in Workers, TakeTask(t) PROVE LoopInv'
<1>. USE DEF TakeTask, blks
<1>0. PICK p \in pool : pool' = pool \ {p} /\ task' = [task EXCEPT ![t] = p] OBVIOUS
<1>a. worker \in [Workers -> {"free", "loop", "release", "notify"}]
      /\ task \in [Workers -> Nat \X Nat] /\ pool \subseteq Nat \X Nat
  BY DEF LoopInv, LoopTypeOK
<1>1. t \notin Running /\ Running' = Running \union {t} BY <1>a DEF Running, Active
<1>b. task'[t] = p /\ \A u \in Workers : u # t => task'[u] = task[u] BY <1>0, <1>a
<1>2. LoopTypeOK'
  <2>1. p \in Nat \X Nat BY <1>0, <1>a
  <2>2. task' \in [Workers -> Nat \X Nat] BY <1>0, <1>a, <2>1
  <2>3. worker' \in [Workers -> {"free", "loop", "release", "notify"}] BY <1>a
  <2>. QED BY <1>0, <2>2, <2>3 DEF LoopInv, LoopTypeOK
<1>3. CountExact'
  <2>1. Cardinality(Running') = Cardinality(Running) + 1
    BY <1>1, RunningFinite, FS_AddElement
  <2>2. Cardinality(pool') = Cardinality(pool) - 1
    BY <1>0, FS_RemoveElement DEF LoopInv, LoopTasksOK
  <2>3. Cardinality(pool) \in Nat BY FS_CardinalityType DEF LoopInv, LoopTasksOK
  <2>. QED BY <2>1, <2>2, <2>3, RunningFinite DEF LoopInv, CountExact, LoopTypeOK
<1>4. BlksOK' BY DEF LoopInv, BlksOK
<1>5. LoopTasksOK'
  <2>1. IsFiniteSet(pool') BY <1>0, FS_RemoveElement DEF LoopInv, LoopTasksOK
  <2>2. \A q \in pool' : q[1] = calls' /\ q[2] \in 0 .. posted' - 1
    BY <1>0 DEF LoopInv, LoopTasksOK
  <2>3. p[1] = calls /\ p[2] \in 0 .. posted - 1 BY DEF LoopInv, LoopTasksOK
  <2>4. \A u \in Running : task[u] # p BY DEF LoopInv, LoopTasksOK
  <2>5. ASSUME NEW u \in Running'
        PROVE  /\ task'[u][1] = calls' /\ task'[u][2] \in 0 .. posted' - 1
               /\ task'[u] \notin pool'
               /\ \A v \in Running' : task'[u] = task'[v] => u = v
    <3>1. CASE u = t
      <4>1. \A v \in Running' : v # t => task'[v] # p
        BY <1>1, <1>b, <2>4 DEF Running
      <4>. QED BY <3>1, <1>0, <1>b, <2>3, <4>1
    <3>2. CASE u # t
      <4>1. u \in Running /\ task'[u] = task[u] BY <1>1, <1>b, <3>2 DEF Running
      <4>2. /\ task[u][1] = calls /\ task[u][2] \in 0 .. posted - 1 /\ task[u] \notin pool
            /\ \A v \in Running : task[u] = task[v] => u = v
        BY <4>1 DEF LoopInv, LoopTasksOK
      <4>3. \A v \in Running' : v # t => v \in Running /\ task'[v] = task[v]
        BY <1>1, <1>b DEF Running
      <4>4. task[u] # p BY <4>1, <2>4
      <4>. QED BY <1>0, <1>b, <4>1, <4>2, <4>3, <4>4
    <3>. QED BY <3>1, <3>2
  <2>. QED BY <2>1, <2>2, <2>5 DEF LoopTasksOK
<1>6. CallerOK' BY DEF LoopInv, CallerOK
<1>7. RunsOK'
  <2>1. p = <<calls, p[2]>> BY <1>a DEF LoopInv, LoopTasksOK
  <2>2. ASSUME NEW b \in 0 .. num - 1 PROVE Unrun(b)' <=> Unrun(b)
    <3>1. (\E u \in Workers : worker'[u] = "loop" /\ task'[u] = <<calls, b>>)
          <=> (p = <<calls, b>> \/ \E u \in Workers : worker[u] = "loop" /\ task[u] = <<calls, b>>)
      BY <1>a, <1>b
    <3>2. <<calls, b>> \in pool' <=> <<calls, b>> \in pool /\ p # <<calls, b>> BY <1>0
    <3>. QED BY <1>0, <3>1, <3>2 DEF Unrun
  <2>. QED BY <2>2 DEF LoopInv, RunsOK
<1>. QED BY <1>2, <1>3, <1>4, <1>5, <1>6, <1>7 DEF LoopInv

(* The body runs on the block's indices, which nobody has run before.      *)
LEMMA StepRunLoop ==
  ASSUME LoopInv, NEW t \in Workers, RunLoop(t)
  PROVE  /\ LoopInv'
         /\ \A x \in Indices : runs'[x] # runs[x] =>
              x \in first .. last - 1 /\ runs[x] = 0 /\ runs'[x] = 1
<1>. USE DEF RunLoop, blks
<1>a. /\ worker \in [Workers -> {"free", "loop", "release", "notify"}]
      /\ task \in [Workers -> Nat \X Nat] /\ t \in Running
      /\ num \in Nat /\ posted \in 0 .. num /\ first \in Int /\ last \in Int
      /\ calls \in Nat /\ runs \in [Indices -> Nat]
  BY DEF LoopInv, LoopTypeOK, Running, Active
<1>0. Running' = Running BY <1>a DEF Running, Active
<1>k. PICK k \in Nat : k = task[t][2] BY <1>a
<1>b. task[t] = <<calls, k>> /\ k \in 0 .. posted - 1 /\ k \in 0 .. num - 1
  BY <1>a, <1>k DEF LoopInv, LoopTasksOK
<1>c. runs' = [x \in Indices |-> runs[x] + IF x \in Block(first, last, num, k) THEN 1 ELSE 0]
  BY <1>k
<1>1. LoopTypeOK'
  <2>1. runs' \in [Indices -> Nat] BY <1>a, <1>c
  <2>2. worker' \in [Workers -> {"free", "loop", "release", "notify"}] BY <1>a
  <2>. QED BY <2>1, <2>2 DEF LoopInv, LoopTypeOK
<1>2. CountExact' BY <1>0 DEF LoopInv, CountExact
<1>3. BlksOK' BY DEF LoopInv, BlksOK
<1>4. LoopTasksOK' BY <1>0 DEF LoopInv, LoopTasksOK
<1>5. CallerOK' BY DEF LoopInv, CallerOK
<1>6. Unrun(k) /\ ~Unrun(k)'
  <2>1. Unrun(k) BY <1>b DEF Unrun
  <2>2. \A u \in Workers : worker'[u] = "loop" => u # t /\ worker[u] = "loop" BY <1>a
  <2>3. \A u \in Workers : worker'[u] = "loop" => task[u] # task[t]
    BY <1>a, <2>2 DEF LoopInv, LoopTasksOK, Running, Active
  <2>4. task[t] \notin pool BY <1>a DEF LoopInv, LoopTasksOK
  <2>5. \A u \in Workers : ~(worker'[u] = "loop" /\ task[u] = <<calls, k>>) BY <1>b, <2>3
  <2>6. <<calls, k>> \notin pool BY <1>b, <2>4
  <2>7. ~(k >= posted) BY <1>a, <1>b
  <2>. QED BY <2>1, <2>5, <2>6, <2>7 DEF Unrun
<1>7. ASSUME NEW b \in 0 .. num - 1, b # k PROVE Unrun(b)' <=> Unrun(b)
  <2>1. \A u \in Workers : u # t => worker'[u] = worker[u] BY <1>a
  <2>2. task[t] # <<calls, b>> BY <1>b, <1>7
  <2>. QED BY <2>1, <2>2 DEF Unrun
<1>8. /\ Block(first, last, num, k) \subseteq first .. last - 1
      /\ \A b \in 0 .. num - 1 :
           b # k => Block(first, last, num, b) \cap Block(first, last, num, k) = {}
  <2>1. first < last BY <1>b DEF LoopInv, BlksOK
  <2>2. PICK wanted \in Nat \ {0} : num = NumBlocks(first, last, wanted)
    BY <2>1 DEF LoopInv, BlksOK
  <2>. QED BY <1>a, <1>b, <2>1, <2>2, BlocksPartition
<1>9. ASSUME NEW x \in Indices
      PROVE  /\ x \in Block(first, last, num, k) => x \in first .. last - 1 /\ runs[x] = 0
             /\ runs'[x] = IF /\ x \in first .. last - 1
                              /\ \A b \in 0 .. num - 1 :
                                   Unrun(b)' => x \notin Block(first, last, num, b)
                           THEN 1 ELSE 0
  <2>1. runs[x] = IF /\ x \in first .. last - 1
                     /\ \A b \in 0 .. num - 1 : Unrun(b) => x \notin Block(first, last, num, b)
                  THEN 1 ELSE 0
    BY DEF LoopInv, RunsOK
  <2>2. CASE x \in Block(first, last, num, k)
    <3>1. x \in first .. last - 1 BY <1>8, <2>2
    <3>2. runs[x] = 0 BY <1>6, <1>b, <2>1, <2>2
    <3>3. runs'[x] = 1 BY <1>c, <2>2, <3>2
    <3>4. \A b \in 0 .. num - 1 : Unrun(b)' => x \notin Block(first, last, num, b)
      <4>. SUFFICES ASSUME NEW b \in 0 .. num - 1, Unrun(b)'
                    PROVE  x \notin Block(first, last, num, b)
        OBVIOUS
      <4>1. b # k BY <1>6
      <4>. QED BY <1>8, <2>2, <4>1
    <3>. QED BY <3>1, <3>2, <3>3, <3>4
  <2>3. CASE x \notin Block(first, last, num, k)
    <3>1. runs'[x] = runs[x] BY <1>a, <1>c, <2>3
    <3>2. \A b \in 0 .. num - 1 :
            (Unrun(b)' => x \notin Block(first, last, num, b))
              <=> (Unrun(b) => x \notin Block(first, last, num, b))
      BY <1>7, <2>3
    <3>. QED BY <2>1, <2>3, <3>1, <3>2
  <2>. QED BY <2>2, <2>3
<1>10. RunsOK' BY <1>9 DEF RunsOK
<1>11. \A x \in Indices : runs'[x] # runs[x] =>
         x \in first .. last - 1 /\ runs[x] = 0 /\ runs'[x] = 1
  BY <1>a, <1>c, <1>9
<1>. QED BY <1>1, <1>2, <1>3, <1>4, <1>5, <1>10, <1>11 DEF LoopInv

LEMMA StepRelease ==
  ASSUME LoopInv, NEW t \in Workers, release(t) PROVE LoopInv'
<1>. USE DEF release, blks
<1>a. worker \in [Workers -> {"free", "loop", "release", "notify"}] BY DEF LoopInv, LoopTypeOK
<1>1. t \in Running /\ Running' = Running \ {t} BY <1>a DEF Running, Active
<1>2. CountExact' /\ m_cnt' \in Nat
  <2>1. Cardinality(Running') = Cardinality(Running) - 1
    BY <1>1, RunningFinite, FS_RemoveElement
  <2>2. Cardinality(pool) \in Nat BY FS_CardinalityType DEF LoopInv, LoopTasksOK
  <2>3. num - posted \in Nat BY DEF LoopInv, LoopTypeOK
  <2>4. m_cnt = (num - posted) + Cardinality(pool) + Cardinality(Running)
    BY DEF LoopInv, CountExact
  <2>5. m_cnt' = (num - posted) + Cardinality(pool) + Cardinality(Running')
        /\ m_cnt' \in Nat
    BY <2>1, <2>2, <2>3, <2>4, RunningFinite
  <2>. QED BY <2>5 DEF CountExact
<1>3. LoopTypeOK'
  <2>1. worker' \in [Workers -> {"free", "loop", "release", "notify"}] BY <1>a
  <2>. QED BY <1>2, <2>1 DEF LoopInv, LoopTypeOK
<1>4. BlksOK' BY DEF LoopInv, BlksOK
<1>5. LoopTasksOK' BY <1>1 DEF LoopInv, LoopTasksOK
<1>6. CallerOK'
  <2>1. caller # "out" BY <1>1, ZeroMeansDone DEF LoopInv, CallerOK
  <2>. QED BY <2>1 DEF LoopInv, CallerOK
<1>7. RunsOK'
  <2>1. \A u \in Workers : worker'[u] = "loop" <=> worker[u] = "loop" BY <1>a
  <2>2. \A b \in 0 .. num - 1 : Unrun(b)' <=> Unrun(b) BY <2>1 DEF Unrun
  <2>. QED BY <2>2 DEF LoopInv, RunsOK
<1>. QED BY <1>2, <1>3, <1>4, <1>5, <1>6, <1>7 DEF LoopInv

LEMMA StepNotify ==
  ASSUME LoopInv, NEW t \in Workers, Notify(t) PROVE LoopInv'
<1>. USE DEF Notify, blks
<1>a. worker \in [Workers -> {"free", "loop", "release", "notify"}] BY DEF LoopInv, LoopTypeOK
<1>1. Running' = Running BY <1>a DEF Running, Active
<1>2. LoopTypeOK'
  <2>1. worker' \in [Workers -> {"free", "loop", "release", "notify"}] BY <1>a
  <2>. QED BY <2>1 DEF LoopInv, LoopTypeOK
<1>3. CountExact' BY <1>1 DEF LoopInv, CountExact
<1>4. BlksOK' BY DEF LoopInv, BlksOK
<1>5. LoopTasksOK' BY <1>1 DEF LoopInv, LoopTasksOK
<1>6. CallerOK' BY DEF LoopInv, CallerOK
<1>7. RunsOK'
  <2>1. \A u \in Workers : worker'[u] = "loop" <=> worker[u] = "loop" BY <1>a
  <2>2. \A b \in 0 .. num - 1 : Unrun(b)' <=> Unrun(b) BY <2>1 DEF Unrun
  <2>. QED BY <2>2 DEF LoopInv, RunsOK
<1>. QED BY <1>2, <1>3, <1>4, <1>5, <1>6, <1>7 DEF LoopInv

LEMMA StepLoopInv == LoopInv /\ [LoopNext]_loop_vars => LoopInv'
<1>. SUFFICES ASSUME LoopInv, [LoopNext]_loop_vars PROVE LoopInv' OBVIOUS
<1>1. CASE \E f \in 0 .. MaxIndex, l \in 0 .. MaxIndex, wanted \in 0 .. MaxWanted :
             Call(f, l, wanted)
  BY <1>1, StepCall, LoopBoundsAssumption
<1>5. CASE \E n \in 0 .. MaxIndex : wait_on_n_tasks(n)
  <2>1. PICK n \in 0 .. MaxIndex : wait_on_n_tasks(n) BY <1>5
  <2>2. Call(0, n, n) BY <2>1, TasksAreBlocks
  <2>3. n \in Nat /\ 0 \in 0 .. MaxIndex BY LoopBoundsAssumption
  <2>. QED BY <2>2, <2>3, StepCall
<1>2. CASE Caller BY <1>2, StepPost, StepCaller DEF Caller
<1>3. CASE \E t \in Workers : Worker(t)
  BY <1>3, StepTake, StepRunLoop, StepRelease, StepNotify DEF Worker
<1>4. CASE UNCHANGED loop_vars
  <2>. USE <1>4 DEF loop_vars
  <2>1. Running' = Running BY DEF Running, Active
  <2>2. \A b : Unrun(b)' <=> Unrun(b) BY DEF Unrun
  <2>3. RunsOK' BY <2>2 DEF LoopInv, RunsOK
  <2>. QED BY <2>1, <2>3 DEF LoopInv, LoopTypeOK, CountExact, BlksOK, LoopTasksOK, CallerOK
<1>. QED BY <1>1, <1>2, <1>3, <1>4, <1>5 DEF LoopNext

LEMMA LoopInvariance == LoopSpec => []LoopInv
  BY InitLoopInv, StepLoopInv, PTL DEF LoopSpec

(* The refinement: Call forks, RunLoop runs, the Load that returns joins. *)
LEMMA JoinDone ==
  ASSUME LoopInv, m_cnt = 0 PROVE \A x \in first .. last - 1 : runs[x] # 0
<1>1. pool = {} /\ Running = {} /\ posted = num BY ZeroMeansDone
<1>2. \A b \in 0 .. num - 1 : ~Unrun(b)
  BY <1>1 DEF Unrun, Running, Active, LoopInv, LoopTypeOK
<1>3. \A x \in first .. last - 1 : x \in Indices BY DEF LoopInv, LoopTypeOK, Indices
<1>. QED BY <1>2, <1>3 DEF LoopInv, RunsOK

LEMMA ForkJoinStep == LoopInv /\ [LoopNext]_loop_vars => [FJ!Next]_(FJ!vars)
<1>. SUFFICES ASSUME LoopInv, [LoopNext]_loop_vars PROVE [FJ!Next]_(FJ!vars) OBVIOUS
<1>. DEFINE todo == {x \in first .. last - 1 : runs[x] = 0}
            ran  == {x \in Indices : runs[x] = 1}
<1>0. first .. last - 1 \subseteq Indices BY DEF LoopInv, LoopTypeOK, Indices
<1>1. ASSUME NEW f \in 0 .. MaxIndex, NEW l \in 0 .. MaxIndex, NEW wanted \in Nat,
             Call(f, l, wanted)
      PROVE  FJ!Next
  <2>1. caller = "out" /\ caller' # "out" BY <1>1 DEF Call, OpenFrame
  <2>2. ran' = {} BY <1>1 DEF Call, OpenFrame
  <2>3. todo' \subseteq Indices BY <1>1 DEF Call, OpenFrame, Indices
  <2>. QED BY <2>1, <2>2, <2>3 DEF FJ!Next, FJ!Fork
<1>2. ASSUME Post \/ Wait \/ (\E t \in Workers : TakeTask(t) \/ release(t) \/ Notify(t))
      PROVE  UNCHANGED FJ!vars
  <2>1. (caller' # "out") = (caller # "out") BY <1>2 DEF Post, Wait, TakeTask, release, Notify
  <2>2. UNCHANGED <<first, last, runs>>
    BY <1>2 DEF Post, Wait, TakeTask, release, Notify, blks
  <2>. QED BY <2>1, <2>2 DEF FJ!vars
<1>3. ASSUME Load PROVE [FJ!Next]_(FJ!vars)
  <2>1. UNCHANGED <<first, last, runs>> /\ caller # "out" BY <1>3 DEF Load, blks
  <2>2. CASE m_cnt = 0
    <3>1. caller' = "out" BY <1>3, <2>2 DEF Load
    <3>2. todo = {} BY <2>2, JoinDone
    <3>3. todo' = todo /\ ran' = ran BY <2>1
    <3>. QED BY <2>1, <3>1, <3>2, <3>3 DEF FJ!Next, FJ!Join
  <2>3. CASE m_cnt # 0
    <3>1. caller' # "out" BY <1>3, <2>3 DEF Load
    <3>. QED BY <2>1, <3>1 DEF FJ!vars
  <2>. QED BY <2>2, <2>3
<1>4. ASSUME NEW t \in Workers, RunLoop(t) PROVE FJ!Next
  <2>1. UNCHANGED <<first, last, caller>> /\ caller # "out"
    <3>1. t \in Running BY <1>4 DEF RunLoop, Running, Active
    <3>2. caller # "out" BY <3>1, ZeroMeansDone DEF LoopInv, CallerOK
    <3>. QED BY <1>4, <3>2 DEF RunLoop, blks
  <2>2. \A x \in Indices : runs'[x] # runs[x] =>
          x \in first .. last - 1 /\ runs[x] = 0 /\ runs'[x] = 1
    BY <1>4, StepRunLoop
  <2>3. todo' \subseteq todo BY <1>0, <2>1, <2>2
  <2>4. ran' = ran \union (todo \ todo') BY <1>0, <2>1, <2>2
  <2>. QED BY <2>1, <2>3, <2>4 DEF FJ!Next, FJ!Run
<1>5. CASE UNCHANGED loop_vars BY <1>5 DEF loop_vars, FJ!vars
<1>6. ASSUME NEW n \in 0 .. MaxIndex, wait_on_n_tasks(n) PROVE FJ!Next
  BY <1>1, <1>6, TasksAreBlocks, LoopBoundsAssumption
<1>. QED BY <1>1, <1>2, <1>3, <1>4, <1>5, <1>6, LoopBoundsAssumption DEF LoopNext, Caller, Worker

(* Every variable of the loop, the waiter and the pool keeps its type, for *)
(* any threads, ranges and calls (z3-bench.cpp:60-79 and 183-198).         *)
THEOREM LoopTypeCorrect == LoopSpec => []LoopTypeOK
<1>1. LoopInv => LoopTypeOK BY DEF LoopInv
<1>. QED BY <1>1, LoopInvariance, PTL

(* parallelize_indexed_loop (z3-bench.cpp:183-198) runs every index of its *)
(* range exactly once and returns when all have run, for any number of     *)
(* threads, any range and any number of blocks.                            *)
THEOREM LoopCorrect == LoopSpec => RunsEachOnce
<1>1. LoopInit => FJ!Init BY DEF LoopInit, FJ!Init
<1>. QED BY <1>1, ForkJoinStep, LoopInvariance, PTL DEF LoopSpec, RunsEachOnce, FJ!Spec

(* AtomicWaiter's count is what is still to be released (z3-bench.cpp:62-78 *)
(* and 190-196), for any number of threads and blocks; in particular it    *)
(* never goes below zero.                                                  *)
THEOREM CountCorrect == LoopSpec => [](CountExact /\ m_cnt \in Nat)
<1>1. LoopInv => CountExact /\ m_cnt \in Nat BY DEF LoopInv, LoopTypeOK
<1>. QED BY <1>1, LoopInvariance, PTL

(* No task looks at the caller's frame after parallelize_indexed_loop has  *)
(* returned, but for the notification (z3-bench.cpp:190-197).              *)
THEOREM FrameSafe == LoopSpec => []FrameAlive
  BY AliveFromInv, LoopInvariance, PTL
=============================================================================
