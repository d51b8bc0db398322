----------------------------- MODULE Interposing -----------------------------
(***************************************************************************)
(* What tools/z3-bench/dyld-interposing.c does before there is an          *)
(* allocator: set_program_vars looks in the machine code of                *)
(* _libc_initializer for the first branch with link (BL) and prints and    *)
(* calls the function it goes to; numbers and addresses are printed        *)
(* through fixed buffers by noalloc-stdio.c.  Characters are their ASCII   *)
(* codes; a buffer is a sequence of them, the index from 1.                *)
(*                                                                         *)
(* A BL is six bits of opcode and ImmBits (26 in the code) of signed       *)
(* distance in words.  Addresses have Bytes (8) bytes and wrap.            *)
(***************************************************************************)
EXTENDS Integers, Sequences

CONSTANTS ImmBits, Bytes,
          Codes,    \* sequences of instructions that hold a BL
          Bases,    \* addresses of _libc_initializer
          Numbers,  \* arguments of write_size_to_strbuf
          Sizes     \* and sizes of its buffer

Power(b, n) == LET pow[k \in Nat] == IF k = 0 THEN 1 ELSE b * pow[k - 1] IN pow[n]

WordBits == 6 + ImmBits
Bl == 37  \* BL_OPC_MATCH >> 26
Addresses == 0 .. Power(256, Bytes) - 1
Unwritten == 0

is_bl(inst) == inst \div Power(2, ImmBits) = Bl

ASSUME InterposingAssumption ==
  /\ ImmBits \in Nat \ {0} /\ Bytes \in Nat \ {0}
  /\ Codes \subseteq Seq(0 .. Power(2, WordBits) - 1)
  /\ \A c \in Codes : \E k \in DOMAIN c : is_bl(c[k])
  /\ Bases \subseteq Addresses /\ Numbers \subseteq Nat /\ Sizes \subseteq Nat

VARIABLES
  pc,      \* "idle", "scan", "ptr", "size" or "aborted"
  code, base, at,  \* of set_program_vars: the instructions, their address, the one looked at
  value,   \* p of write_ptr_to_strbuf, v of write_size_to_strbuf
  i, done, \* locals of the loops
  buf,     \* the buffer
  called   \* history: the last call and its argument

vars == <<pc, code, base, at, value, i, done, buf, called>>
-----------------------------------------------------------------------------
PrintInit ==
  /\ pc = "idle" /\ code = << >> /\ base = 0 /\ at = 1
  /\ value = 0 /\ i = 0 /\ done = FALSE /\ buf = << >>
  /\ called = << >>

Blank(sz) == [k \in 1 .. sz |-> Unwritten]

SetProgramVars(c, b) ==
  /\ pc = "idle"
  /\ pc' = "scan"
  /\ code' = c /\ base' = b /\ at' = 1
  /\ value' = 0 /\ i' = 0 /\ done' = FALSE /\ buf' = << >>
  /\ called' = <<"set_program_vars">>

NextInstruction ==
  /\ pc = "scan" /\ ~is_bl(code[at])
  /\ at' = at + 1
  /\ UNCHANGED <<pc, code, base, value, i, done, buf, called>>

Signed(x) == IF x >= Power(2, WordBits - 1) THEN x - Power(2, WordBits) ELSE x

(* Mutant: the distance is not sign-extended. *)
decode_bl_unsigned(inst) == (inst % Power(2, ImmBits)) * 4

(* Shifted left by 6, which drops the opcode, and right by 4 as a signed   *)
(* number.                                                                 *)
decode_bl_offset(inst) == Signed(((inst % Power(2, ImmBits)) * 2^6) % Power(2, WordBits)) \div 2^4

(* puts_ptr of the address found: write_ptr_to_strbuf begins. *)
Found ==
  /\ pc = "scan" /\ is_bl(code[at])
  /\ value' = (base + 4 * (at - 1) + decode_bl_offset(code[at])) % Power(256, Bytes)
  /\ pc' = "ptr" /\ i' = 0
  /\ buf' = [Blank(2 + 2 * Bytes) EXCEPT ![1] = 48, ![2] = 120]
  /\ UNCHANGED <<code, base, at, done, called>>

(* Mutant: every nibble is a digit. *)
nibble_to_ascii_dec(nib) == nib + 48

nibble_to_ascii_hex(nib) == IF nib <= 9 THEN nib + 48 ELSE nib - 10 + 97

(* A byte of the address, the most significant first. *)
PtrByte ==
  LET b == (value \div Power(256, Bytes - 1 - i)) % 256 IN
  /\ pc = "ptr" /\ i < Bytes
  /\ buf' = [buf EXCEPT ![3 + 2 * i] = nibble_to_ascii_hex(b \div 16),
                        ![4 + 2 * i] = nibble_to_ascii_hex(b % 16)]
  /\ i' = i + 1
  /\ UNCHANGED <<pc, code, base, at, value, done, called>>

PtrWritten ==
  /\ pc = "ptr" /\ i = Bytes
  /\ pc' = "idle"
  /\ UNCHANGED <<code, base, at, value, i, done, buf, called>>

WriteSize(v, sz) ==
  /\ pc = "idle"
  /\ pc' = "size"
  /\ value' = v /\ i' = 0 /\ done' = FALSE
  /\ buf' = Blank(sz)
  /\ code' = << >> /\ base' = 0 /\ at' = 1
  /\ called' = <<"write_size", v>>

(* Mutant: 0 is no digit. *)
SizeDigitOrBlank(v, z) == IF z \/ v = 0 THEN 32 ELSE (v % 10) + 48

SizeDigit(v, z) == IF z THEN 32 ELSE (v % 10) + 48

(* A digit or, when there are no more, a space; from the right. *)
SizeTurn ==
  /\ pc = "size" /\ i < Len(buf)
  /\ buf' = [buf EXCEPT ![Len(buf) - i] = SizeDigit(value, done)]
  /\ value' = value \div 10
  /\ done' = (done \/ value' = 0)
  /\ i' = i + 1
  /\ UNCHANGED <<pc, code, base, at, called>>

SizeWritten ==
  /\ pc = "size" /\ i = Len(buf)
  /\ pc' = IF done THEN "idle" ELSE "aborted"
  /\ UNCHANGED <<code, base, at, value, i, done, buf, called>>

(* The loops of set_program_vars and of the printing functions. *)
Running == NextInstruction \/ Found \/ PtrByte \/ PtrWritten \/ SizeTurn \/ SizeWritten
-----------------------------------------------------------------------------
PrintingOK ==
  /\ pc \in {"idle", "scan", "ptr", "size", "aborted"}
  /\ code \in Codes \union {<< >>} /\ base \in Addresses
  /\ pc = "scan" => at \in DOMAIN code
  /\ value \in Nat /\ i \in 0 .. Len(buf) /\ done \in BOOLEAN
  /\ \A k \in DOMAIN buf : buf[k] \in {Unwritten, 32, 120} \union 48 .. 57 \union 97 .. 102

Digit(c) == IF c <= 57 THEN c - 48 ELSE c - 97 + 10

(* The number that the characters from position k on spell. *)
Spelled(text, k, radix) ==
  LET upTo[n \in k - 1 .. Len(text)] ==
        IF n < k THEN 0 ELSE radix * upTo[n - 1] + Digit(text[n])
  IN  upTo[Len(text)]

(* write_size_to_strbuf right-aligns the number in decimal without leading *)
(* zeros, and aborts exactly when the buffer is too short for it.          *)
SizeFits ==
  called # << >> /\ called[1] = "write_size" =>
    /\ pc = "aborted" => buf = << >> \/ called[2] >= Power(10, Len(buf))
    /\ pc = "idle" =>
         \E k \in DOMAIN buf :
           /\ \A j \in 1 .. k - 1 : buf[j] = 32
           /\ \A j \in k .. Len(buf) : buf[j] \in 48 .. 57
           /\ Spelled(buf, k, 10) = called[2]
           /\ buf[k] = 48 => k = Len(buf)

(* set_program_vars prints the whole address to which the first BL goes:   *)
(* its own plus the signed distance.                                       *)
FirstBl == CHOOSE k \in DOMAIN code : is_bl(code[k]) /\ \A j \in 1 .. k - 1 : ~is_bl(code[j])

PrintsTarget ==
  called = <<"set_program_vars">> /\ pc = "idle" =>
    \E distance \in -(Power(2, ImmBits - 1)) .. Power(2, ImmBits - 1) - 1 :
      /\ code[FirstBl] = (Bl * Power(2, ImmBits)) + (distance % Power(2, ImmBits))
      /\ SubSeq(buf, 1, 2) = <<48, 120>> /\ Len(buf) = 2 + 2 * Bytes
      /\ Spelled(buf, 3, 16) = (base + 4 * (FirstBl - 1 + distance)) % Power(256, Bytes)
=============================================================================
