------------------------------ MODULE MCTester ------------------------------
(* An instance of Tester for TLC: distances of four bits, addresses of two   *)
(* bytes, one or two instructions, numbers around each power of ten.         *)
EXTENDS Tester

Others == {36 * 2^ImmBits, 38 * 2^ImmBits + 1, 5 * 2^ImmBits + 15}
Bls == {Bl * 2^ImmBits + d : d \in 0 .. 2^ImmBits - 1}

MCCodes ==
  {<<b>> : b \in Bls} \union {<<n, b>> : n \in Others, b \in Bls}
    \union {<<b, c>> : b \in Bls, c \in {Bl * 2^ImmBits + 3}}
MCBases == {16, 4660, 65528}
MCNumbers == 0 .. 120 \union 995 .. 1005 \union 9995 .. 10005
=============================================================================
