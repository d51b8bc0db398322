------------------------- MODULE MimallocTestProofs -------------------------
(***************************************************************************)
(* MimallocTest.tla for any images, slots, calls and number of calls: what *)
(* the hooks are bound to, what they replaced, and why no call of a hook   *)
(* comes back to it.                                                       *)
(***************************************************************************)
EXTENDS MimallocTest, SequenceTheorems, WellFoundedInduction, TLAPS

Own == {"malloc", "free", "rand"}
HookOf(s) == IF s = "malloc" THEN "exe_malloc" ELSE IF s = "free" THEN "exe_free" ELSE "exe_rand"

Asked(list, s) == Entries(list, s) # {}

Callable == Hooks \union Called \union {"my_rand", "exe_cb", "main", "prepend_rebindings"}
Callees == Called \union {"exe_cb", "orig"}
Frames == [fn : Callable, rest : Seq(Callees)]

(* The names a function calls. *)
CalledBy(f) ==
  IF f = "main" THEN Called
  ELSE IF f = "prepend_rebindings" THEN {"free"}
  ELSE IF f \in Hooks THEN {"printf", "orig"}
  ELSE IF f = "my_rand" THEN {"printf", "exe_cb"}
  ELSE IF f = "exe_cb" THEN {"printf"}
  ELSE IF f = "printf" THEN {"malloc"}
  ELSE {}

(* A function only gets to ones of lower rank. *)
Rank(f) ==
  IF f \in {"main", "prepend_rebindings"} THEN 6
  ELSE IF f \in Hooks THEN 5
  ELSE IF f = "my_rand" THEN 4
  ELSE IF f = "exe_cb" THEN 3
  ELSE IF f = "printf" THEN 2
  ELSE 1

Types == TypeOK /\ stack \in Seq(Frames)

(* No function runs during a rebinding; what is allocated is the list and, *)
(* for a call about one image, that call's own.                            *)
OneAtATime ==
  /\ stack # << >> => cur = << >>
  /\ cur = << >> => todo = {} /\ left = {}
  /\ registered <=> _rebindings_head # << >>
  /\ blocks = 2 * Len(_rebindings_head) + (IF owned /\ cur # << >> THEN 2 ELSE 0)

Unhooked == \A x \in Slots : bindings[x] \notin Hooks

(* Nothing is hooked before stdout has its buffer. *)
BegunOK == buffered \/ (Unhooked /\ cur = << >> /\ _rebindings_head = << >>)

(* A slot holds what dyld bound or the name's own hook, and the hook has   *)
(* something to call.                                                      *)
SlotsOK ==
  \A x \in Slots :
    /\ bindings[x] \in Hooks => /\ x.symbol \in Own /\ bindings[x] = HookOf(x.symbol)
                                /\ replaced[bindings[x]] # None
    /\ bindings[x] \notin Hooks => bindings[x] = Bound(x.symbol)
    /\ ~Exposed(x) => bindings[x] = Bound(x.symbol)

ReplacedOK == \A s \in Own : replaced[HookOf(s)] \in {None, Bound(s)}

WantOK ==
  \A x \in Slots :
    /\ x.image \notin images => bindings[x] = Bound(x.symbol) /\ want[x] = Bound(x.symbol)
    /\ x.image \in images /\ Asked(_rebindings_head, x.symbol) => want[x] = HookOf(x.symbol)

(* What is still to be done is what was asked for last. *)
TodoOK ==
  \A x \in Slots :
    /\ x.image \in todo \/ x \in left =>
         x.image \in images /\ (Asked(cur, x.symbol) => want[x] = HookOf(x.symbol))
    /\ x \in left => Readable(x.image) /\ x \in Pointers(x.image)

PendingOK ==
  \A x \in Slots : x.image \in images /\ Exposed(x) =>
    \/ bindings[x] = want[x]
    \/ (x.image \in todo \/ x \in left) /\ Asked(cur, x.symbol)

StackOK ==
  /\ \A k \in DOMAIN stack :
       /\ \A j \in DOMAIN stack[k].rest : stack[k].rest[j] \in CalledBy(stack[k].fn)
       /\ stack[k].fn \in Hooks => replaced[stack[k].fn] # None
       /\ stack[k].fn = "printf" /\ stack[k].rest # << >> => Unhooked
  /\ \A k, l \in DOMAIN stack : k < l => Rank(stack[l].fn) < Rank(stack[k].fn)

IInv ==
  /\ Types /\ OneAtATime /\ BegunOK /\ SlotsOK /\ ReplacedOK /\ WantOK /\ TodoOK /\ PendingOK
  /\ StackOK
-----------------------------------------------------------------------------
(* The rebinding of a list that decides. *)
LEMMA MinIs ==
  ASSUME NEW T \in SUBSET Nat, T # {} PROVE Min(T) \in T
<1>1. IsWellFoundedOn(OpToRel(<, Nat), Nat) BY NatLessThanWellFounded
<1>2. \E x \in T : \A y \in T : ~(<<y, x>> \in OpToRel(<, Nat)) BY <1>1, WFMin
<1>3. PICK x \in T : \A y \in T : ~(y < x) BY <1>2 DEF OpToRel
<1>4. \A y \in T : x <= y BY <1>3
<1>. QED BY <1>4 DEF Min

LEMMA Decides ==
  ASSUME Arguments \subseteq Seq(Rebindings), NEW list \in Seq(Arguments), NEW s, Asked(list, s)
  PROVE  s \in Own /\ Replacement(list, s) = HookOf(s)
<1>. DEFINE k == Min(Entries(list, s))
<1>0. DOMAIN list \subseteq Nat OBVIOUS
<1>1. Entries(list, s) \subseteq Nat /\ Entries(list, s) # {} BY <1>0 DEF Asked, Entries
<1>2. k \in Entries(list, s) BY <1>1, MinIs
<1>. DEFINE rs == list[k]
            j == Min(Matches(rs, s))
<1>3. k \in DOMAIN list /\ Matches(rs, s) # {} BY <1>2 DEF Entries
<1>8. rs \in Arguments
  <2>. HIDE DEF k
  <2>. QED BY <1>3
<1>9. rs \in Seq(Rebindings) /\ Replacement(list, s) = rs[j].replacement BY <1>8 DEF Replacement
<1>. HIDE DEF rs
<1>4. Matches(rs, s) \subseteq Nat BY <1>9 DEF Matches
<1>5. j \in Matches(rs, s) BY <1>3, <1>4, MinIs
<1>6. j \in DOMAIN rs /\ rs[j].name = s BY <1>5 DEF Matches
<1>. HIDE DEF j
<1>7. rs[j] \in Rebindings BY <1>6, <1>9
<1>. QED BY <1>6, <1>7, <1>9 DEF Rebindings, Own, HookOf

LEMMA Prepended ==
  ASSUME NEW list \in Seq(Arguments), NEW rs \in Arguments, NEW s
  PROVE  /\ Prepend(list, rs) \in Seq(Arguments) /\ Prepend(list, rs) # << >>
         /\ Len(Prepend(list, rs)) = Len(list) + 1
         /\ <<rs>> \in Seq(Arguments) /\ <<rs>> # << >>
         /\ Asked(Prepend(list, rs), s) <=> Asked(<<rs>>, s) \/ Asked(list, s)
<1>. DEFINE p == <<rs>> \o list
<1>1. /\ p \in Seq(Arguments) /\ Len(p) = Len(list) + 1 /\ <<rs>> \in Seq(Arguments)
      /\ Len(<<rs>>) = 1 /\ <<rs>>[1] = rs /\ DOMAIN <<rs>> = {1} /\ p[1] = rs
      /\ \A k \in 2 .. Len(list) + 1 : p[k] = list[k - 1]
      /\ Len(list) \in Nat /\ DOMAIN p = 1 .. Len(list) + 1 /\ DOMAIN list = 1 .. Len(list)
  OBVIOUS
<1>. HIDE DEF p
<1>2. p # << >> /\ <<rs>> # << >> BY <1>1
<1>3. ASSUME Asked(p, s) PROVE Asked(<<rs>>, s) \/ Asked(list, s)
  <2>1. PICK k \in DOMAIN p : Matches(p[k], s) # {} BY <1>3 DEF Asked, Entries
  <2>2. CASE k = 1
    <3>1. 1 \in DOMAIN <<rs>> /\ Matches(<<rs>>[1], s) # {} BY <1>1, <2>1, <2>2
    <3>. QED BY <3>1 DEF Asked, Entries
  <2>3. CASE k # 1
    <3>1. k - 1 \in DOMAIN list /\ k \in 2 .. Len(list) + 1 BY <1>1, <2>3
    <3>2. Matches(list[k - 1], s) # {} BY <1>1, <2>1, <3>1
    <3>. QED BY <3>1, <3>2 DEF Asked, Entries
  <2>. QED BY <2>2, <2>3
<1>4. ASSUME Asked(<<rs>>, s) PROVE Asked(p, s)
  <2>1. Matches(p[1], s) # {} BY <1>1, <1>4 DEF Asked, Entries
  <2>2. 1 \in DOMAIN p BY <1>1
  <2>. QED BY <2>1, <2>2 DEF Asked, Entries
<1>5. ASSUME Asked(list, s) PROVE Asked(p, s)
  <2>1. PICK k \in DOMAIN list : Matches(list[k], s) # {} BY <1>5 DEF Asked, Entries
  <2>2. k + 1 \in 2 .. Len(list) + 1 /\ k + 1 \in DOMAIN p /\ (k + 1) - 1 = k BY <1>1
  <2>3. p[k + 1] = list[k] BY <1>1, <2>2
  <2>. QED BY <2>1, <2>2, <2>3 DEF Asked, Entries
<1>. QED BY <1>1, <1>2, <1>3, <1>4, <1>5 DEF Prepend, p

LEMMA NothingAsked == \A s : ~Asked(<< >>, s)
BY DEF Asked, Entries

(* A call, and a return. *)
CallFrom(st, fr) == Append([st EXCEPT ![Len(st)].rest = Tail(@)], fr)

LEMMA Pushed ==
  ASSUME NEW st \in Seq(Frames), st # << >>, st[Len(st)].rest # << >>, NEW fr \in Frames, NEW new,
         new = CallFrom(st, fr)
  PROVE  /\ new \in Seq(Frames) /\ Len(new) = Len(st) + 1
         /\ new[Len(st) + 1] = fr
         /\ \A k \in 1 .. Len(st) : /\ new[k].fn = st[k].fn
                                    /\ k # Len(st) => new[k] = st[k]
         /\ new[Len(st)].rest = Tail(st[Len(st)].rest)
<1>. DEFINE F == Frames
            n == Len(st)
            top == [st[n] EXCEPT !.rest = Tail(@)]
            u == [st EXCEPT ![n] = top]
<1>0. st \in Seq(F) /\ fr \in F OBVIOUS
<1>1. n \in Nat /\ n \in DOMAIN st /\ DOMAIN st = 1 .. n /\ st[n] \in F
  <2>. HIDE DEF F
  <2>. QED BY <1>0
<1>2. st[n].rest \in Seq(Callees) /\ Tail(st[n].rest) \in Seq(Callees) BY <1>1 DEF Frames
<1>3. top \in F /\ top.fn = st[n].fn /\ top.rest = Tail(st[n].rest) BY <1>1, <1>2 DEF Frames
<1>4. new = Append(u, fr) BY DEF CallFrom
<1>. HIDE DEF F, top
<1>5. u \in Seq(F) /\ Len(u) = n /\ u[n] = top /\ \A k \in 1 .. n : k # n => u[k] = st[k]
  <2>. HIDE DEF n
  <2>. QED BY <1>0, <1>1, <1>3, ExceptSeq
<1>. HIDE DEF u, n
<1>6. /\ new \in Seq(F) /\ Len(new) = n + 1 /\ new[n + 1] = fr
      /\ \A k \in 1 .. n : new[k] = u[k]
  <2>1. /\ new \in Seq(F) /\ Len(new) = Len(u) + 1 /\ new[Len(u) + 1] = fr
        /\ \A k \in 1 .. Len(u) : new[k] = u[k]
    <3>1. u \in Seq(F) /\ fr \in F BY <1>0, <1>5
    <3>2. /\ Append(u, fr) \in Seq(F) /\ Len(Append(u, fr)) = Len(u) + 1
          /\ \A k \in 1 .. Len(u) : Append(u, fr)[k] = u[k]
          /\ Append(u, fr)[Len(u) + 1] = fr
      BY ONLY <3>1, AppendProperties
    <3>. QED BY <1>4, <3>2
  <2>. QED BY <1>5, <2>1
<1>7. \A k \in 1 .. n : new[k].fn = st[k].fn /\ (k # n => new[k] = st[k]) BY <1>3, <1>5, <1>6
<1>8. new[n].rest = Tail(st[n].rest) BY <1>1, <1>3, <1>5, <1>6
<1>. QED BY <1>6, <1>7, <1>8 DEF F, n

LEMMA Popped ==
  ASSUME NEW S, NEW st \in Seq(S), st # << >>, NEW new, new = SubSeq(st, 1, Len(st) - 1)
  PROVE  /\ new \in Seq(S) /\ Len(new) = Len(st) - 1 /\ Len(st) \in Nat
         /\ \A k \in DOMAIN new : k \in DOMAIN st /\ new[k] = st[k]
<1>. DEFINE n == Len(st) - 1
<1>1. Len(st) \in Nat /\ Len(st) >= 1 /\ n \in Nat OBVIOUS
<1>2. \A k \in 1 .. n : st[k] \in S BY <1>1
<1>5. new = SubSeq(st, 1, n) OBVIOUS
<1>3. new \in Seq(S) /\ Len(new) = n /\ \A k \in 1 .. n : new[k] = st[k]
  <2>. HIDE DEF n
  <2>1. /\ new \in Seq(S) /\ Len(new) = IF 1 <= n THEN n - 1 + 1 ELSE 0
        /\ \A k \in 1 .. n - 1 + 1 : new[k] = st[1 + k - 1]
    BY <1>1, <1>2, <1>5, SubSeqProperties
  <2>2. n - 1 + 1 = n /\ \A k \in 1 .. n : 1 + k - 1 = k BY <1>1
  <2>3. Len(new) = n BY <1>1, <2>1
  <2>. QED BY <2>1, <2>2, <2>3
<1>4. DOMAIN new = 1 .. Len(st) - 1 BY <1>3
<1>. QED BY <1>1, <1>3, <1>4
-----------------------------------------------------------------------------
USE MimallocTestAssumption

(* Names, hooks and what dyld binds a name to. *)
LEMMA Names ==
  /\ \A s \in Own : /\ HookOf(s) \in Hooks /\ Bound(s) \notin Hooks /\ Bound(s) # None
                    /\ Bound(s) \in Functions /\ Bound(s) \in Callable
                    /\ Rank(Bound(s)) < Rank(HookOf(s))
  /\ \A x \in Slots : Bound(x.symbol) \notin Hooks /\ Bound(x.symbol) \in Functions
  /\ \A h \in Hooks : h # None /\ h \in Functions /\ h \in Callable /\ \E s \in Own : h = HookOf(s)
  /\ \A s \in Own, t \in Own : HookOf(s) = HookOf(t) => s = t
<1>1. \A s \in Own : /\ HookOf(s) \in Hooks /\ Bound(s) \notin Hooks /\ Bound(s) # None
                     /\ Bound(s) \in Functions /\ Bound(s) \in Callable
                     /\ Rank(Bound(s)) < Rank(HookOf(s))
  BY DEF Own, HookOf, Hooks, Bound, None, Functions, Called, Callable, Rank
<1>2. \A x \in Slots : Bound(x.symbol) \notin Hooks /\ Bound(x.symbol) \in Functions
  <2>. SUFFICES ASSUME NEW x \in Slots
                PROVE  Bound(x.symbol) \notin Hooks /\ Bound(x.symbol) \in Functions
    OBVIOUS
  <2>1. x.symbol \in Named /\ x.symbol \notin Hooks BY DEF Named
  <2>. QED BY <2>1 DEF Bound, Functions, Hooks
<1>3. \A h \in Hooks : h # None /\ h \in Functions /\ h \in Callable /\ \E s \in Own : h = HookOf(s)
  BY DEF Own, HookOf, Hooks, None, Functions, Callable
<1>4. \A s \in Own, t \in Own : HookOf(s) = HookOf(t) => s = t BY DEF Own, HookOf
<1>. QED BY <1>1, <1>2, <1>3, <1>4

(* A slot that can be found and written is one of an image whose slots are *)
(* looked at.                                                              *)
LEMMA Found ==
  ASSUME NEW x \in Slots
  PROVE  /\ Exposed(x) => Readable(x.image) /\ x \in Pointers(x.image) /\ x.image \notin Refused
         /\ Readable(x.image) /\ x \in Pointers(x.image) /\ x.image \notin Refused => Exposed(x)
         /\ x.symbol \in Own => Points(x)
<1>1. /\ x.image \in DOMAIN Images /\ x.segment \in {"__DATA", "__DATA_CONST", "__AUTH_CONST"}
      /\ x.type \in {"lazy", "non_lazy", "regular"}
  OBVIOUS
<1>2. Images[x.image] \in [{"dladdr", "symtab", "dysymtab", "linkedit", "indirect"} -> BOOLEAN]
  BY <1>1
<1>3. (\A part \in DOMAIN Images[x.image] : Images[x.image][part]) <=> Readable(x.image)
  BY <1>2 DEF Readable
<1>4. x.symbol \in Own => Points(x) BY DEF Own, Points
<1>. QED BY <1>1, <1>3, <1>4 DEF Exposed, Pointers
-----------------------------------------------------------------------------
(* The invariant, action by action. *)
LEMMA InitIInv == Init => IInv
<1>. SUFFICES ASSUME Init PROVE IInv OBVIOUS
<1>1. /\ _rebindings_head = << >> /\ blocks = 0 /\ registered = FALSE /\ images = Resident
      /\ bindings = Genuine /\ replaced = [h \in Hooks |-> None] /\ todo = {} /\ cur = << >>
      /\ left = {} /\ owned = FALSE /\ stack = << >> /\ buffered = FALSE /\ made = 0 /\ want = Genuine
  BY DEF Init
<1>2. /\ Genuine \in [Slots -> Functions]
      /\ \A x \in Slots : Genuine[x] = Bound(x.symbol) /\ Bound(x.symbol) \notin Hooks
  BY Names DEF Genuine
<1>3. \A s \in Own : replaced[HookOf(s)] = None BY <1>1, Names
<1>4. Types
  <2>1. /\ _rebindings_head \in Seq(Arguments) /\ cur \in Seq(Arguments) /\ blocks \in Nat
        /\ images \subseteq DOMAIN Images /\ todo \subseteq images /\ left \subseteq Slots
        /\ bindings \in [Slots -> Functions] /\ want \in [Slots -> Functions]
        /\ replaced \in [Hooks -> Functions \union {None}] /\ made \in 0 .. MaxCalls
        /\ DOMAIN stack = {} /\ stack \in Seq(Frames)
    BY <1>1, <1>2
  <2>2. registered \in BOOLEAN /\ owned \in BOOLEAN /\ buffered \in BOOLEAN BY <1>1, Zenon
  <2>. QED BY <2>1, <2>2 DEF Types, TypeOK
<1>5. OneAtATime
  <2>1. Len(_rebindings_head) = 0 BY <1>1
  <2>. QED BY <1>1, <2>1 DEF OneAtATime
<1>6. Unhooked BY <1>1, <1>2 DEF Unhooked
<1>7. BegunOK BY <1>1, <1>6 DEF BegunOK
<1>8. SlotsOK BY <1>1, <1>2 DEF SlotsOK
<1>9. ReplacedOK BY <1>3 DEF ReplacedOK
<1>10. WantOK BY <1>1, <1>2, NothingAsked DEF WantOK
<1>11. TodoOK BY <1>1 DEF TodoOK
<1>12. PendingOK BY <1>1 DEF PendingOK
<1>13. StackOK BY <1>1 DEF StackOK
<1>. QED BY <1>4, <1>5, <1>7, <1>8, <1>9, <1>10, <1>11, <1>12, <1>13 DEF IInv

(* Between calls nothing is left to do. *)
LEMMA Finished ==
  ASSUME IInv, ~Rebinding
  PROVE  /\ cur = << >> /\ todo = {} /\ left = {} /\ blocks = 2 * Len(_rebindings_head)
         /\ \A x \in Slots : x.image \in images /\ Exposed(x) => bindings[x] = want[x]
<1>1. cur = << >> /\ todo = {} /\ left = {} BY DEF Rebinding, IInv, OneAtATime
<1>2. _rebindings_head \in Seq(Arguments) BY DEF IInv, Types, TypeOK
<1>3. blocks = 2 * Len(_rebindings_head) + 0 BY <1>1 DEF IInv, OneAtATime
<1>4. blocks = 2 * Len(_rebindings_head) BY <1>2, <1>3
<1>. QED BY <1>1, <1>4 DEF IInv, PendingOK

LEMMA Asking ==
  ASSUME IInv, NEW list \in Seq(Arguments), NEW ms, Ask(list, ms)
  PROVE  /\ made' = made + 1 /\ want' \in [Slots -> Functions]
         /\ \A x \in Slots :
              /\ x.image \in ms /\ Asked(list, x.symbol) => want'[x] = HookOf(x.symbol)
              /\ ~(x.image \in ms /\ Asked(list, x.symbol)) => want'[x] = want[x]
<1>1. \A x \in Slots : Asked(list, x.symbol) =>
        Replacement(list, x.symbol) = HookOf(x.symbol) /\ x.symbol \in Own
  BY Decides
<1>2. /\ made' = made + 1
      /\ want' = [x \in Slots |-> IF x.image \in ms /\ Asked(list, x.symbol)
                                  THEN Replacement(list, x.symbol) ELSE want[x]]
  BY DEF Ask, Asked
<1>3. \A x \in Slots : want[x] \in Functions BY DEF IInv, Types, TypeOK
<1>4. \A x \in Slots : Asked(list, x.symbol) => Replacement(list, x.symbol) \in Functions
  BY <1>1, Names
<1>5. want' \in [Slots -> Functions] BY <1>2, <1>3, <1>4
<1>. QED BY <1>1, <1>2, <1>5

LEMMA StepRebindSymbols ==
  ASSUME IInv, NEW rs \in Arguments, rebind_symbols(rs) PROVE IInv'
<1>1. /\ stack = << >> /\ ~Rebinding /\ buffered /\ made < MaxCalls
      /\ _rebindings_head' = Prepend(_rebindings_head, rs) /\ cur' = Prepend(_rebindings_head, rs)
      /\ blocks' = blocks + 2 /\ registered' = TRUE /\ todo' = images /\ owned' = FALSE
      /\ Ask(<<rs>>, images)
      /\ UNCHANGED <<images, bindings, replaced, left, stack, buffered>>
  BY DEF rebind_symbols, Idle, Begun, client
<1>2. /\ _rebindings_head \in Seq(Arguments) /\ images \subseteq DOMAIN Images
      /\ made \in 0 .. MaxCalls /\ MaxCalls \in Nat
      /\ bindings \in [Slots -> Functions] /\ replaced \in [Hooks -> Functions \union {None}]
  BY DEF IInv, Types, TypeOK
<1>3. /\ todo = {} /\ left = {} /\ blocks = 2 * Len(_rebindings_head)
      /\ \A x \in Slots : x.image \in images /\ Exposed(x) => bindings[x] = want[x]
  BY <1>1, Finished
<1>4. /\ _rebindings_head' \in Seq(Arguments) /\ _rebindings_head' # << >>
      /\ Len(_rebindings_head') = Len(_rebindings_head) + 1 /\ <<rs>> \in Seq(Arguments)
      /\ \A s : Asked(_rebindings_head', s) <=> Asked(<<rs>>, s) \/ Asked(_rebindings_head, s)
  BY <1>1, <1>2, Prepended
<1>5. /\ made' = made + 1 /\ want' \in [Slots -> Functions]
      /\ \A x \in Slots :
           /\ x.image \in images /\ Asked(<<rs>>, x.symbol) => want'[x] = HookOf(x.symbol)
           /\ ~(x.image \in images /\ Asked(<<rs>>, x.symbol)) => want'[x] = want[x]
  BY <1>1, <1>4, Asking
<1>6. \A x \in Slots : x.image \in images /\ Asked(_rebindings_head', x.symbol) =>
        want'[x] = HookOf(x.symbol)
  BY <1>4, <1>5 DEF IInv, WantOK
<1>7. Types'
  <2>1. registered' \in BOOLEAN /\ owned' \in BOOLEAN BY <1>1, Zenon
  <2>2. made' \in 0 .. MaxCalls /\ Len(_rebindings_head) \in Nat BY <1>1, <1>2, <1>5
  <2>3. blocks' \in Nat BY <1>1, <1>3, <2>2
  <2>4. left' \subseteq Slots /\ todo' \subseteq images' BY <1>1, <1>3
  <2>. QED BY <1>1, <1>2, <1>4, <1>5, <2>1, <2>2, <2>3, <2>4 DEF IInv, Types, TypeOK
<1>8. OneAtATime'
  <2>1. Len(_rebindings_head) \in Nat BY <1>2
  <2>2. blocks' = 2 * Len(_rebindings_head') + 0 BY <1>1, <1>3, <1>4, <2>1
  <2>. QED BY <1>1, <1>4, <2>2 DEF OneAtATime
<1>9. BegunOK' BY <1>1 DEF BegunOK
<1>10. SlotsOK' /\ ReplacedOK' BY <1>1 DEF IInv, SlotsOK, ReplacedOK
<1>11. WantOK' BY <1>1, <1>5, <1>6 DEF IInv, WantOK
<1>12. TodoOK' BY <1>1, <1>3, <1>6 DEF TodoOK
<1>13. PendingOK'
  <2>. SUFFICES ASSUME NEW x \in Slots, x.image \in images, Exposed(x)
                PROVE  bindings[x] = want'[x] \/ Asked(cur', x.symbol)
    BY <1>1 DEF PendingOK
  <2>1. cur' = _rebindings_head' BY <1>1
  <2>2. Asked(<<rs>>, x.symbol) => Asked(cur', x.symbol) BY <1>4, <2>1
  <2>. QED BY <1>3, <1>5, <2>2
<1>14. StackOK' BY <1>1 DEF StackOK
<1>. QED BY <1>7, <1>8, <1>9, <1>10, <1>11, <1>12, <1>13, <1>14 DEF IInv

LEMMA StepRebindSymbolsImage ==
  ASSUME IInv, NEW m \in images, NEW rs \in Arguments, rebind_symbols_image(m, rs) PROVE IInv'
<1>1. /\ stack = << >> /\ ~Rebinding /\ buffered /\ made < MaxCalls
      /\ cur' = <<rs>> /\ blocks' = blocks + 2 /\ todo' = {m} /\ owned' = TRUE
      /\ Ask(<<rs>>, {m})
      /\ UNCHANGED <<_rebindings_head, registered, images, bindings, replaced, left, stack, buffered>>
  BY DEF rebind_symbols_image, Idle, Begun, client
<1>2. /\ _rebindings_head \in Seq(Arguments) /\ images \subseteq DOMAIN Images
      /\ made \in 0 .. MaxCalls /\ MaxCalls \in Nat
      /\ bindings \in [Slots -> Functions] /\ replaced \in [Hooks -> Functions \union {None}]
  BY DEF IInv, Types, TypeOK
<1>3. /\ todo = {} /\ left = {} /\ blocks = 2 * Len(_rebindings_head)
      /\ \A x \in Slots : x.image \in images /\ Exposed(x) => bindings[x] = want[x]
  BY <1>1, Finished
<1>4. <<rs>> \in Seq(Arguments) /\ <<rs>> # << >> BY <1>2, Prepended
<1>5. /\ made' = made + 1 /\ want' \in [Slots -> Functions]
      /\ \A x \in Slots :
           /\ x.image = m /\ Asked(<<rs>>, x.symbol) => want'[x] = HookOf(x.symbol)
           /\ ~(x.image = m /\ Asked(<<rs>>, x.symbol)) => want'[x] = want[x]
  <2>1. /\ made' = made + 1 /\ want' \in [Slots -> Functions]
        /\ \A x \in Slots :
             /\ x.image \in {m} /\ Asked(<<rs>>, x.symbol) => want'[x] = HookOf(x.symbol)
             /\ ~(x.image \in {m} /\ Asked(<<rs>>, x.symbol)) => want'[x] = want[x]
    BY <1>1, <1>4, Asking
  <2>. QED BY <2>1
<1>7. Types'
  <2>1. owned' \in BOOLEAN BY <1>1, Zenon
  <2>2. made' \in 0 .. MaxCalls /\ Len(_rebindings_head) \in Nat BY <1>1, <1>2, <1>5
  <2>3. blocks' \in Nat BY <1>1, <1>3, <2>2
  <2>4. left' \subseteq Slots /\ todo' \subseteq images' BY <1>1, <1>3
  <2>. QED BY <1>1, <1>2, <1>4, <1>5, <2>1, <2>2, <2>3, <2>4 DEF IInv, Types, TypeOK
<1>8. OneAtATime' BY <1>1, <1>3, <1>4 DEF IInv, OneAtATime
<1>9. BegunOK' BY <1>1 DEF BegunOK
<1>10. SlotsOK' /\ ReplacedOK' BY <1>1 DEF IInv, SlotsOK, ReplacedOK
<1>11. WantOK'
  <2>1. \A s : Asked(_rebindings_head', s) <=> Asked(_rebindings_head, s) BY <1>1
  <2>. QED BY <1>1, <1>5, <2>1 DEF IInv, WantOK
<1>12. TodoOK'
  <2>1. \A s : Asked(cur', s) <=> Asked(<<rs>>, s) BY <1>1
  <2>. QED BY <1>1, <1>3, <1>5, <2>1 DEF TodoOK
<1>13. PendingOK'
  <2>1. \A s : Asked(cur', s) <=> Asked(<<rs>>, s) BY <1>1
  <2>. QED BY <1>1, <1>3, <1>5, <2>1 DEF PendingOK
<1>14. StackOK' BY <1>1 DEF StackOK
<1>. QED BY <1>7, <1>8, <1>9, <1>10, <1>11, <1>12, <1>13, <1>14 DEF IInv

LEMMA StepImage ==
  ASSUME IInv, NEW m \in todo, rebind_symbols_for_image(m) PROVE IInv'
<1>1. /\ left = {} /\ todo' = todo \ {m} /\ left' = IF Readable(m) THEN Pointers(m) ELSE {}
      /\ UNCHANGED <<_rebindings_head, blocks, registered, images, bindings, replaced, cur, owned,
                     stack, buffered, made, want>>
  BY DEF rebind_symbols_for_image, client, history
<1>2. cur # << >> /\ stack = << >> BY DEF IInv, OneAtATime
<1>3. todo \subseteq images BY DEF IInv, Types, TypeOK
<1>4. \A x \in left' : x \in Slots /\ x.image = m /\ Readable(x.image) /\ x \in Pointers(x.image)
  BY <1>1 DEF Pointers
<1>5. \A x \in Slots : x.image = m /\ Exposed(x) => x \in left' BY <1>1, Found
<1>6. \A s : Asked(cur', s) <=> Asked(cur, s) BY <1>1
<1>7. \A s : Asked(_rebindings_head', s) <=> Asked(_rebindings_head, s) BY <1>1
<1>8. Types'
  <2>1. left' \subseteq Slots /\ todo' \subseteq images' BY <1>1, <1>3, <1>4
  <2>. QED BY <1>1, <2>1 DEF IInv, Types, TypeOK
<1>9. OneAtATime' BY <1>1, <1>2 DEF IInv, OneAtATime
<1>10. BegunOK' BY <1>1 DEF IInv, BegunOK, Unhooked
<1>11. SlotsOK' /\ ReplacedOK' BY <1>1 DEF IInv, SlotsOK, ReplacedOK
<1>12. WantOK' BY <1>1, <1>7 DEF IInv, WantOK
<1>13. TodoOK' BY <1>1, <1>3, <1>4, <1>6 DEF IInv, TodoOK
<1>14. PendingOK' BY <1>1, <1>5, <1>6 DEF IInv, PendingOK
<1>15. StackOK' BY <1>1, <1>2 DEF StackOK
<1>. QED BY <1>8, <1>9, <1>10, <1>11, <1>12, <1>13, <1>14, <1>15 DEF IInv

(* What the hook of a slot's name calls in the end. *)
LEMMA Saving ==
  ASSUME IInv, NEW x \in Slots, x.symbol \in Own
  PROVE  Saved(HookOf(x.symbol), x) = Bound(x.symbol)
<1>. DEFINE h == HookOf(x.symbol)
<1>1. h \in Hooks /\ Bound(x.symbol) \notin Hooks BY Names
<1>2. CASE bindings[x] = h
  <2>1. replaced[h] # None BY <1>1, <1>2 DEF IInv, SlotsOK
  <2>. QED BY <1>2, <2>1 DEF IInv, ReplacedOK, Saved
<1>3. CASE bindings[x] # h
  <2>1. bindings[x] = Bound(x.symbol) BY <1>3 DEF IInv, SlotsOK
  <2>. QED BY <1>3, <2>1 DEF Saved
<1>. QED BY <1>2, <1>3

LEMMA StepPointer ==
  ASSUME IInv, NEW x \in left, RebindPointer(x) PROVE IInv'
<1>. DEFINE h == Replacement(cur, x.symbol)
<1>0. left \subseteq Slots /\ x \in Slots /\ cur \in Seq(Arguments) BY DEF IInv, Types, TypeOK
<1>1. /\ left' = left \ {x}
      /\ UNCHANGED <<_rebindings_head, blocks, registered, images, todo, cur, owned, stack, buffered,
                     made, want>>
  BY DEF RebindPointer, client, history
<1>2. cur # << >> /\ stack = << >> BY DEF IInv, OneAtATime
<1>3. buffered BY <1>2 DEF IInv, BegunOK
<1>4. /\ x.image \in images /\ Readable(x.image) /\ x \in Pointers(x.image)
      /\ Asked(cur, x.symbol) => want[x] = HookOf(x.symbol)
  BY <1>0 DEF IInv, TodoOK
<1>5. \A s : Asked(cur', s) <=> Asked(cur, s) BY <1>1
<1>6. \A s : Asked(_rebindings_head', s) <=> Asked(_rebindings_head, s) BY <1>1
<1>7. OneAtATime' BY <1>1, <1>2 DEF IInv, OneAtATime
<1>8. BegunOK' BY <1>1, <1>3 DEF BegunOK
<1>9. TodoOK' BY <1>1, <1>5 DEF IInv, TodoOK
<1>10. StackOK' BY <1>1, <1>2 DEF StackOK
<1>11. CASE ~Asked(cur, x.symbol)
  <2>1. bindings' = bindings /\ replaced' = replaced BY <1>11 DEF RebindPointer, Asked
  <2>2. Types' BY <1>1, <2>1 DEF IInv, Types, TypeOK
  <2>3. SlotsOK' /\ ReplacedOK' BY <2>1 DEF IInv, SlotsOK, ReplacedOK
  <2>4. WantOK' BY <1>1, <1>6, <2>1 DEF IInv, WantOK
  <2>5. PendingOK' BY <1>1, <1>5, <1>11, <2>1 DEF IInv, PendingOK
  <2>. QED BY <1>7, <1>8, <1>9, <1>10, <2>2, <2>3, <2>4, <2>5 DEF IInv
<1>12. CASE Asked(cur, x.symbol)
  <2>1. x.symbol \in Own /\ h = HookOf(x.symbol) /\ Points(x) /\ h \in Hooks
    BY <1>0, <1>12, Decides, Found, Names
  <2>2. /\ replaced' = [replaced EXCEPT ![h] = Saved(h, x)]
        /\ bindings' = IF x.image \notin Refused THEN [bindings EXCEPT ![x] = h] ELSE bindings
    BY <1>12, <2>1 DEF RebindPointer, Asked
  <2>3. /\ Saved(h, x) = Bound(x.symbol) /\ Bound(x.symbol) # None /\ Bound(x.symbol) \in Functions
        /\ h \in Functions
    BY <1>0, <2>1, Saving, Names
  <2>. HIDE DEF h
  <2>4. /\ replaced \in [Hooks -> Functions \union {None}] /\ bindings \in [Slots -> Functions]
    BY DEF IInv, Types, TypeOK
  <2>5. /\ replaced' \in [Hooks -> Functions \union {None}] /\ bindings' \in [Slots -> Functions]
        /\ replaced'[h] = Bound(x.symbol) /\ \A g \in Hooks : g # h => replaced'[g] = replaced[g]
        /\ \A y \in Slots : y # x => bindings'[y] = bindings[y]
        /\ x.image \notin Refused => bindings'[x] = h
        /\ x.image \in Refused => bindings'[x] = bindings[x]
    BY <1>0, <2>1, <2>2, <2>3, <2>4
  <2>6. /\ Exposed(x) <=> x.image \notin Refused BY <1>0, <1>4, Found
  <2>7. Types' BY <1>1, <2>5 DEF IInv, Types, TypeOK
  <2>8. SlotsOK'
    <3>. SUFFICES ASSUME NEW y \in Slots
                  PROVE  /\ bindings'[y] \in Hooks => /\ y.symbol \in Own
                                                      /\ bindings'[y] = HookOf(y.symbol)
                                                      /\ replaced'[bindings'[y]] # None
                         /\ bindings'[y] \notin Hooks => bindings'[y] = Bound(y.symbol)
                         /\ ~Exposed(y) => bindings'[y] = Bound(y.symbol)
      BY DEF SlotsOK
    <3>1. \A g \in Hooks : replaced[g] # None => replaced'[g] # None BY <2>3, <2>5
    <3>2. CASE bindings'[y] = bindings[y] BY <3>1, <3>2 DEF IInv, SlotsOK
    <3>3. CASE y = x /\ x.image \notin Refused BY <2>1, <2>3, <2>5, <2>6, <3>3
    <3>. QED BY <2>5, <3>2, <3>3
  <2>9. ReplacedOK'
    <3>1. \A s \in Own : HookOf(s) \in Hooks /\ (HookOf(s) = h => s = x.symbol) BY <2>1, Names
    <3>. QED BY <2>5, <3>1 DEF IInv, ReplacedOK
  <2>10. WantOK' BY <1>1, <1>4, <1>6, <2>5 DEF IInv, WantOK
  <2>11. PendingOK'
    <3>1. bindings'[x] = want[x] \/ ~Exposed(x) BY <1>4, <1>12, <2>1, <2>5, <2>6
    <3>. QED BY <1>1, <1>5, <2>5, <3>1 DEF IInv, PendingOK
  <2>. QED BY <1>7, <1>8, <1>9, <1>10, <2>7, <2>8, <2>9, <2>10, <2>11 DEF IInv
<1>. QED BY <1>11, <1>12

LEMMA StepReturn ==
  ASSUME IInv, Return PROVE IInv'
<1>1. /\ todo = {} /\ left = {} /\ cur # << >> /\ cur' = << >>
      /\ blocks' = IF owned THEN blocks - 2 ELSE blocks
      /\ UNCHANGED <<_rebindings_head, registered, images, bindings, replaced, todo, left, owned,
                     stack, buffered, made, want>>
  BY DEF Return, client, history
<1>2. stack = << >> /\ buffered BY <1>1 DEF IInv, OneAtATime, BegunOK
<1>3. \A s : Asked(_rebindings_head', s) <=> Asked(_rebindings_head, s) BY <1>1
<1>4. blocks' = 2 * Len(_rebindings_head) /\ Len(_rebindings_head) \in Nat
  BY <1>1 DEF IInv, OneAtATime, Types, TypeOK
<1>5. Types'
  <2>1. blocks' \in Nat BY <1>4
  <2>2. cur' \in Seq(Arguments) BY <1>1
  <2>. QED BY <1>1, <2>1, <2>2 DEF IInv, Types, TypeOK
<1>6. OneAtATime'
  <2>1. blocks' = 2 * Len(_rebindings_head) + 0 BY <1>4
  <2>. QED BY <1>1, <2>1 DEF IInv, OneAtATime
<1>7. BegunOK' BY <1>1, <1>2 DEF BegunOK
<1>8. SlotsOK' /\ ReplacedOK' BY <1>1 DEF IInv, SlotsOK, ReplacedOK
<1>9. WantOK' BY <1>1, <1>3 DEF IInv, WantOK
<1>10. TodoOK' BY <1>1 DEF TodoOK
<1>11. PendingOK' BY <1>1 DEF IInv, PendingOK
<1>12. StackOK' BY <1>1, <1>2 DEF StackOK
<1>. QED BY <1>5, <1>6, <1>7, <1>8, <1>9, <1>10, <1>11, <1>12 DEF IInv

LEMMA StepLoad ==
  ASSUME IInv, NEW m \in DOMAIN Images, Load(m) PROVE IInv'
<1>1. /\ stack = << >> /\ ~Rebinding /\ m \notin images /\ images' = images \union {m}
      /\ IF registered THEN todo' = {m} /\ cur' = _rebindings_head /\ owned' = FALSE
         ELSE UNCHANGED <<todo, cur, owned>>
      /\ want' = [x \in Slots |->
           IF x.image = m /\ Asked(_rebindings_head, x.symbol)
           THEN Replacement(_rebindings_head, x.symbol) ELSE want[x]]
      /\ UNCHANGED <<_rebindings_head, blocks, registered, bindings, replaced, left, stack, buffered,
                     made>>
  BY DEF Load, Idle, client, Asked
<1>2. /\ _rebindings_head \in Seq(Arguments) /\ images \subseteq DOMAIN Images
      /\ want \in [Slots -> Functions]
      /\ registered \in BOOLEAN /\ owned \in BOOLEAN
  BY DEF IInv, Types, TypeOK
<1>3. /\ cur = << >> /\ todo = {} /\ left = {} /\ blocks = 2 * Len(_rebindings_head)
      /\ \A x \in Slots : x.image \in images /\ Exposed(x) => bindings[x] = want[x]
  BY <1>1, Finished
<1>4. \A x \in Slots : Asked(_rebindings_head, x.symbol) =>
        /\ Replacement(_rebindings_head, x.symbol) = HookOf(x.symbol)
        /\ HookOf(x.symbol) \in Functions
  BY <1>2, Decides, Names
<1>5. /\ want' \in [Slots -> Functions]
      /\ \A x \in Slots :
           /\ x.image = m /\ Asked(_rebindings_head, x.symbol) => want'[x] = HookOf(x.symbol)
           /\ ~(x.image = m /\ Asked(_rebindings_head, x.symbol)) => want'[x] = want[x]
  <2>1. \A x \in Slots : want[x] \in Functions BY <1>2
  <2>. QED BY <1>1, <1>4, <2>1
<1>6. registered <=> _rebindings_head # << >> BY DEF IInv, OneAtATime
<1>7. \A s : Asked(_rebindings_head', s) <=> Asked(_rebindings_head, s) BY <1>1
<1>8. CASE registered
  <2>1. todo' = {m} /\ cur' = _rebindings_head /\ owned' = FALSE BY <1>1, <1>8
  <2>2. Types'
    <3>1. owned' \in BOOLEAN BY <2>1, Zenon
    <3>2. images' \subseteq DOMAIN Images /\ todo' \subseteq images' BY <1>1, <1>2, <2>1
    <3>. QED BY <1>1, <1>2, <1>5, <2>1, <3>1, <3>2 DEF IInv, Types, TypeOK
  <2>3. OneAtATime'
    <3>0. Len(_rebindings_head) \in Nat BY <1>2
    <3>1. blocks' = 2 * Len(_rebindings_head') + 0 BY <1>1, <1>3, <3>0
    <3>. QED BY <1>1, <1>6, <1>8, <2>1, <3>1 DEF OneAtATime
  <2>4. BegunOK' BY <1>1, <1>6, <1>8 DEF IInv, BegunOK
  <2>5. SlotsOK' /\ ReplacedOK' BY <1>1 DEF IInv, SlotsOK, ReplacedOK
  <2>6. WantOK' BY <1>1, <1>5, <1>7 DEF IInv, WantOK
  <2>7. \A s : Asked(cur', s) <=> Asked(_rebindings_head, s) BY <2>1
  <2>8. TodoOK' BY <1>1, <1>3, <1>5, <2>1, <2>7 DEF TodoOK
  <2>9. PendingOK' BY <1>1, <1>3, <1>5, <2>1, <2>7 DEF IInv, WantOK, PendingOK
  <2>10. StackOK' BY <1>1 DEF StackOK
  <2>. QED BY <2>2, <2>3, <2>4, <2>5, <2>6, <2>8, <2>9, <2>10 DEF IInv
<1>9. CASE ~registered
  <2>1. todo' = todo /\ cur' = cur /\ owned' = owned BY <1>1, <1>9
  <2>2. \A s : ~Asked(_rebindings_head, s) BY <1>6, <1>9, NothingAsked
  <2>3. Types'
    <3>1. images' \subseteq DOMAIN Images /\ todo' \subseteq images' BY <1>1, <1>2, <1>3, <2>1
    <3>. QED BY <1>1, <1>5, <2>1, <3>1 DEF IInv, Types, TypeOK
  <2>4. OneAtATime' BY <1>1, <2>1 DEF IInv, OneAtATime
  <2>5. BegunOK' BY <1>1, <2>1 DEF IInv, BegunOK, Unhooked
  <2>6. SlotsOK' /\ ReplacedOK' BY <1>1 DEF IInv, SlotsOK, ReplacedOK
  <2>7. WantOK' BY <1>1, <1>5, <1>7, <2>2 DEF IInv, WantOK
  <2>8. TodoOK' BY <1>1, <1>3, <2>1 DEF TodoOK
  <2>9. PendingOK' BY <1>1, <1>3, <1>5, <2>2 DEF IInv, WantOK, PendingOK
  <2>10. StackOK' BY <1>1 DEF StackOK
  <2>. QED BY <2>3, <2>4, <2>5, <2>6, <2>7, <2>8, <2>9, <2>10 DEF IInv
<1>. QED BY <1>8, <1>9

(* Calls and returns leave the library alone. *)
LEMMA LibraryKept ==
  ASSUME IInv, UNCHANGED <<library, history>>, buffered' \in BOOLEAN, buffered => buffered',
         stack' \in Seq(Frames), cur = << >>
  PROVE  /\ Types' /\ OneAtATime' /\ BegunOK' /\ SlotsOK' /\ ReplacedOK' /\ WantOK' /\ TodoOK'
         /\ PendingOK' /\ Unhooked' = Unhooked
<1>. USE DEF library, history
<1>1. Types'
  <2>1. \A k \in DOMAIN stack' : stack'[k] \in Frames OBVIOUS
  <2>2. \A k \in DOMAIN stack' : stack'[k].fn \in Callable BY <2>1 DEF Frames
  <2>3. Callable \subseteq Functions \union {"main", "prepend_rebindings"} BY DEF Callable, Functions
  <2>4. \A k \in DOMAIN stack' : stack'[k].fn \in Functions \union {"main", "prepend_rebindings"}
    BY <2>2, <2>3
  <2>. QED BY <2>4 DEF IInv, Types, TypeOK
<1>2. OneAtATime' BY DEF IInv, OneAtATime
<1>3. Unhooked' = Unhooked BY DEF Unhooked
<1>4. BegunOK' BY <1>3 DEF IInv, BegunOK
<1>5. SlotsOK' BY DEF IInv, SlotsOK
<1>6. ReplacedOK' BY DEF IInv, ReplacedOK
<1>7. \A s : /\ Asked(cur', s) <=> Asked(cur, s)
             /\ Asked(_rebindings_head', s) <=> Asked(_rebindings_head, s)
  OBVIOUS
<1>8. WantOK' BY <1>7 DEF IInv, WantOK
<1>9. TodoOK' BY <1>7 DEF IInv, TodoOK
<1>10. PendingOK' BY <1>7 DEF IInv, PendingOK
<1>. QED BY <1>1, <1>2, <1>3, <1>4, <1>5, <1>6, <1>8, <1>9, <1>10

LEMMA OneFrame ==
  ASSUME NEW f \in Callable, NEW s \in Callees, f \notin Hooks, f # "printf", s \in CalledBy(f),
         stack' = <<[fn |-> f, rest |-> <<s>>]>>
  PROVE  stack' \in Seq(Frames) /\ StackOK'
<1>1. /\ <<s>> \in Seq(Callees) /\ DOMAIN <<s>> = {1} /\ <<s>>[1] = s OBVIOUS
<1>2. PICK fr \in Frames : fr = [fn |-> f, rest |-> <<s>>] BY <1>1 DEF Frames
<1>3. stack' = <<fr>> /\ fr.fn = f /\ fr.rest = <<s>> BY <1>2
<1>4. DOMAIN stack' = {1} /\ stack'[1] = fr /\ stack' \in Seq(Frames) BY <1>3
<1>. QED BY <1>1, <1>3, <1>4 DEF StackOK

LEMMA StepPrependFails ==
  ASSUME IInv, PrependFails PROVE IInv'
<1>1. /\ stack = << >> /\ cur = << >> /\ blocks' = blocks
      /\ UNCHANGED <<_rebindings_head, registered, images, bindings, replaced, todo, cur, left, owned,
                     buffered, history>>
      /\ \/ stack' = stack
         \/ stack' = <<[fn |-> "prepend_rebindings", rest |-> <<"free">>]>>
  BY DEF PrependFails, Idle, Rebinding, new_entry_freed, IInv, Types, TypeOK
<1>2. UNCHANGED <<library, history>> BY <1>1 DEF library
<1>3. stack' \in Seq(Frames) /\ StackOK'
  <2>1. CASE stack' = stack BY <1>1, <2>1 DEF StackOK
  <2>2. CASE stack' = <<[fn |-> "prepend_rebindings", rest |-> <<"free">>]>>
    <3>1. /\ "prepend_rebindings" \in Callable /\ "free" \in Callees
          /\ "prepend_rebindings" \notin Hooks /\ "free" \in CalledBy("prepend_rebindings")
      BY DEF Callable, Callees, Called, Hooks, CalledBy
    <3>. QED BY <2>2, <3>1, OneFrame
  <2>. QED BY <1>1, <2>1, <2>2
<1>4. buffered' \in BOOLEAN /\ (buffered => buffered') BY <1>1, Zenon DEF IInv, Types, TypeOK
<1>. QED BY <1>1, <1>2, <1>3, <1>4, LibraryKept DEF IInv

LEMMA StepMainCalls ==
  ASSUME IInv, NEW s \in Called, MainCalls(s) PROVE IInv'
<1>1. cur = << >> /\ stack' = <<[fn |-> "main", rest |-> <<s>>]>>
      /\ UNCHANGED <<library, buffered, history>>
  BY DEF MainCalls, Idle, Rebinding
<1>2. stack' \in Seq(Frames) /\ StackOK'
  <2>1. "main" \in Callable /\ s \in Callees /\ "main" \notin Hooks /\ s \in CalledBy("main")
    BY DEF Callable, Callees, Hooks, CalledBy
  <2>. QED BY <1>1, <2>1, OneFrame
<1>3. buffered' \in BOOLEAN /\ (buffered => buffered') BY <1>1, Zenon DEF IInv, Types, TypeOK
<1>. QED BY <1>1, <1>2, <1>3, LibraryKept DEF IInv

LEMMA Tuples ==
  ASSUME NEW T, NEW a \in T, NEW b \in T, NEW d \in T
  PROVE  /\ << >> \in Seq(T) /\ <<a>> \in Seq(T) /\ <<a, b>> \in Seq(T)
         /\ <<a, b, d>> \in Seq(T)
OBVIOUS

(* The names in a function's body are those it calls. *)
LEMMA Bodies ==
  ASSUME NEW f \in Callable, f \notin {"main", "prepend_rebindings"}, buffered \in BOOLEAN
  PROVE  /\ Body(f) \in Seq(Callees)
         /\ \A j \in DOMAIN Body(f) : Body(f)[j] \in CalledBy(f)
         /\ f = "printf" /\ Body(f) # << >> => ~buffered
<1>. DEFINE T == CalledBy(f)
<1>1. T \subseteq Callees BY DEF CalledBy, Callees, Called
<1>2. Body(f) \in Seq(T)
  <2>. HIDE DEF T
  <2>1. CASE f \in Hooks
    <3>1. Body(f) = <<"printf", "orig">> \/ Body(f) = <<"printf", "orig", "printf">>
      BY <2>1 DEF Body, Hooks
    <3>2. "printf" \in T /\ "orig" \in T BY <2>1 DEF T, CalledBy, Hooks
    <3>3. <<"printf", "orig">> \in Seq(T) BY <3>2, Tuples
    <3>4. <<"printf", "orig", "printf">> \in Seq(T) BY <3>2, Tuples
    <3>. QED BY <3>1, <3>3, <3>4
  <2>2. CASE f = "my_rand"
    <3>1. Body(f) = <<"printf", "printf", "exe_cb">> BY <2>2 DEF Body
    <3>2. "printf" \in T /\ "exe_cb" \in T BY <2>2 DEF T, CalledBy, Hooks
    <3>. QED BY <3>1, <3>2, Tuples
  <2>3. CASE f = "exe_cb"
    <3>1. Body(f) = <<"printf">> BY <2>3 DEF Body
    <3>2. "printf" \in T BY <2>3 DEF T, CalledBy, Hooks
    <3>. QED BY <3>1, <3>2, Tuples
  <2>4. CASE f = "printf"
    <3>1. Body(f) = << >> \/ Body(f) = <<"malloc">> BY <2>4 DEF Body
    <3>2. "malloc" \in T BY <2>4 DEF T, CalledBy, Hooks
    <3>3. << >> \in Seq(T) /\ <<"malloc">> \in Seq(T) BY <3>2, Tuples
    <3>. QED BY <3>1, <3>3
  <2>5. CASE f \in Own
    <3>1. Body(f) = << >> BY <2>5 DEF Body, Own
    <3>. QED BY <3>1
  <2>. QED BY <2>1, <2>2, <2>3, <2>4, <2>5 DEF Callable, Called, Own
<1>3. f = "printf" /\ buffered => Body(f) = << >> BY DEF Body
<1>. HIDE DEF T
<1>4. Body(f) \in Seq(Callees) /\ \A j \in DOMAIN Body(f) : Body(f)[j] \in T BY <1>1, <1>2
<1>. QED BY <1>3, <1>4 DEF T

(* A call by name reaches the name itself, what dyld bound it to, or its   *)
(* own hook.                                                               *)
LEMMA Reached ==
  ASSUME IInv, NEW f \in Callable, NEW s, s # "orig", s \notin Hooks, NEW g \in Targets(f, s)
  PROVE  /\ g \in {s, Bound(s)} \/ (s \in Own /\ g = HookOf(s) /\ replaced[g] # None)
         /\ Unhooked => g \in {s, Bound(s)}
<1>1. CASE g = s
  BY <1>1 DEF Unhooked
<1>2. CASE \E x \in Slots : x.symbol = s /\ g = bindings[x]
  <2>1. PICK x \in Slots : x.symbol = s /\ g = bindings[x] BY <1>2
  <2>2. CASE bindings[x] \in Hooks BY <2>1, <2>2 DEF IInv, SlotsOK, Unhooked
  <2>3. CASE bindings[x] \notin Hooks BY <2>1, <2>3 DEF IInv, SlotsOK
  <2>. QED BY <2>2, <2>3
<1>3. g = s \/ \E x \in Slots : x.symbol = s /\ g = bindings[x]
  BY DEF Targets
<1>. QED BY <1>1, <1>2, <1>3

LEMMA Calling ==
  ASSUME IInv, NEW f \in Callable, NEW s \in CalledBy(f), f \in Hooks => replaced[f] # None,
         f = "printf" => Unhooked, NEW g \in Targets(f, s)
  PROVE  /\ g \in Callable \ {"main", "prepend_rebindings"}
         /\ Rank(g) < Rank(f)
         /\ g \in Hooks => replaced[g] # None
<1>1. CASE s = "orig"
  <2>1. f \in Hooks BY <1>1 DEF CalledBy, Called
  <2>2. g = replaced[f] BY <1>1 DEF Targets
  <2>3. PICK n \in Own : f = HookOf(n) BY <2>1, Names
  <2>4. g = Bound(n) BY <2>1, <2>2, <2>3 DEF IInv, ReplacedOK
  <2>5. g \in {"malloc", "free", "rand", "my_rand"} BY <2>4 DEF Own, Bound
  <2>. QED BY <2>3, <2>4, <2>5, Names DEF Hooks
<1>2. CASE s \in {"printf", "exe_cb"}
  <2>1. s \notin Own /\ Bound(s) = s /\ s \notin Hooks BY <1>2 DEF Own, Bound, Hooks
  <2>2. g = s BY <1>2, <2>1, Reached
  <2>3. /\ s = "printf" => f \in {"main", "my_rand", "exe_cb"} \union Hooks
        /\ s = "exe_cb" => f = "my_rand"
    BY <1>2 DEF CalledBy, Called, Callable, Hooks
  <2>4. Rank(s) < Rank(f) BY <1>2, <2>3 DEF Rank, Hooks
  <2>. QED BY <1>2, <2>2, <2>4 DEF Callable, Called, Hooks
<1>3. CASE s \in Own
  <2>1. s \notin Hooks /\ s # "orig" BY <1>3 DEF Own, Hooks
  <2>2. /\ g \in {s, Bound(s)} \/ (g = HookOf(s) /\ replaced[g] # None)
        /\ Unhooked => g \in {s, Bound(s)}
    BY <2>1, Reached
  <2>3. f \in {"main", "prepend_rebindings"} \/ (f = "printf" /\ s = "malloc")
    BY <1>3 DEF CalledBy, Called, Callable, Own, Hooks
  <2>4. CASE f = "printf" /\ s = "malloc"
    <3>1. g = "malloc" BY <2>2, <2>4 DEF Bound
    <3>. QED BY <2>4, <3>1 DEF Rank, Callable, Called, Hooks
  <2>5. CASE f \in {"main", "prepend_rebindings"}
    <3>1. g \in Own \union {"my_rand"} \union Hooks /\ (g \in Hooks => replaced[g] # None)
      BY <1>3, <2>2 DEF Own, Bound, HookOf, Hooks
    <3>2. Rank(f) = 6 BY <2>5 DEF Rank
    <3>3. Rank(g) < 6 BY <3>1 DEF Rank, Own, Hooks
    <3>. QED BY <3>1, <3>2, <3>3 DEF Callable, Called, Own, Hooks
  <2>. QED BY <2>3, <2>4, <2>5
<1>. QED BY <1>1, <1>2, <1>3 DEF CalledBy, Called, Own, Callable, Hooks

LEMMA StepCallNext ==
  ASSUME IInv, CallNext PROVE IInv'
<1>. DEFINE n == Len(stack)
            f == stack[n].fn
            r == stack[n].rest
            s == Head(r)
<1>0. stack \in Seq(Frames) /\ stack # << >> /\ r # << >> /\ UNCHANGED <<library, buffered, history>>
  BY DEF CallNext, Top, IInv, Types
<1>1. n \in Nat /\ n >= 1 /\ n \in DOMAIN stack /\ DOMAIN stack = 1 .. n /\ stack[n] \in Frames
  BY <1>0
<1>2. f \in Callable /\ r \in Seq(Callees) BY <1>1 DEF Frames
<1>3. PICK g \in Targets(f, s) :
        stack' = CallFrom(stack, [fn |-> g, rest |-> Body(g)])
  BY DEF CallNext, Top, CallFrom
<1>4. /\ cur = << >> /\ \A j \in DOMAIN r : r[j] \in CalledBy(f)
      /\ f \in Hooks => replaced[f] # None
      /\ f = "printf" => Unhooked
  BY <1>0, <1>1 DEF IInv, OneAtATime, StackOK
<1>. DEFINE t == Tail(r)
<1>5. s \in CalledBy(f) /\ \A j \in DOMAIN t : t[j] \in CalledBy(f)
  <2>. HIDE DEF f, r
  <2>1. /\ 1 \in DOMAIN r /\ s = r[1] /\ \A j \in DOMAIN t : j + 1 \in DOMAIN r /\ t[j] = r[j + 1]
    BY <1>0, <1>2
  <2>. QED BY <1>4, <2>1
<1>6. /\ g \in Callable \ {"main", "prepend_rebindings"} /\ Rank(g) < Rank(f)
      /\ g \in Hooks => replaced[g] # None
  <2>. HIDE DEF f, s
  <2>. QED BY <1>2, <1>3, <1>4, <1>5, Calling
<1>7. buffered \in BOOLEAN BY DEF IInv, Types, TypeOK
<1>8. /\ Body(g) \in Seq(Callees) /\ \A j \in DOMAIN Body(g) : Body(g)[j] \in CalledBy(g)
      /\ g = "printf" /\ Body(g) # << >> => Unhooked
  BY <1>6, <1>7, Bodies DEF IInv, BegunOK
<1>9. PICK fr \in Frames : fr = [fn |-> g, rest |-> Body(g)] BY <1>6, <1>8 DEF Frames
<1>10. fr.fn = g /\ fr.rest = Body(g) /\ stack' = CallFrom(stack, fr)
  BY <1>3, <1>9
<1>11. /\ stack' \in Seq(Frames) /\ Len(stack') = n + 1 /\ stack'[n + 1] = fr
       /\ \A k \in 1 .. n : stack'[k].fn = stack[k].fn /\ (k # n => stack'[k] = stack[k])
       /\ stack'[n].rest = t
  BY <1>0, <1>10, Pushed
<1>12. buffered' \in BOOLEAN /\ (buffered => buffered') BY <1>0, <1>7, Zenon
<1>13. /\ Types' /\ OneAtATime' /\ BegunOK' /\ SlotsOK' /\ ReplacedOK' /\ WantOK' /\ TodoOK'
       /\ PendingOK' /\ Unhooked' = Unhooked
  BY <1>0, <1>4, <1>11, <1>12, LibraryKept
<1>14. StackOK'
  <2>0. DOMAIN stack' = 1 .. n + 1 /\ replaced' = replaced
    <3>. HIDE DEF n, f, r, s
    <3>1. stack' \in Seq(Frames) /\ Len(stack') = n + 1 BY <1>11
    <3>2. DOMAIN stack' = 1 .. Len(stack') BY <3>1
    <3>3. replaced' = replaced BY <1>0 DEF library
    <3>. QED BY <3>1, <3>2, <3>3
  <2>. HIDE DEF n
  <2>1. ASSUME NEW k \in DOMAIN stack'
        PROVE  /\ \A j \in DOMAIN stack'[k].rest : stack'[k].rest[j] \in CalledBy(stack'[k].fn)
               /\ stack'[k].fn \in Hooks => replaced[stack'[k].fn] # None
               /\ stack'[k].fn = "printf" /\ stack'[k].rest # << >> => Unhooked
    <3>1. CASE k = n + 1 BY <1>6, <1>8, <1>10, <1>11, <3>1
    <3>2. CASE k = n BY <1>1, <1>4, <1>5, <1>11, <3>2
    <3>3. CASE k # n /\ k # n + 1
      <4>1. k \in 1 .. n /\ k \in DOMAIN stack BY <1>1, <2>0, <3>3
      <4>2. stack'[k] = stack[k] BY <1>11, <3>3, <4>1
      <4>. QED BY <4>1, <4>2 DEF IInv, StackOK
    <3>. QED BY <3>1, <3>2, <3>3
  <2>2. ASSUME NEW k \in DOMAIN stack', NEW l \in DOMAIN stack', k < l
        PROVE  Rank(stack'[l].fn) < Rank(stack'[k].fn)
    <3>1. k \in 1 .. n /\ stack'[k].fn = stack[k].fn BY <1>1, <1>11, <2>0, <2>2
    <3>2. CASE l \in 1 .. n
      <4>1. stack'[l].fn = stack[l].fn BY <1>11, <3>2
      <4>. QED BY <1>1, <2>2, <3>1, <3>2, <4>1 DEF IInv, StackOK
    <3>3. CASE l \notin 1 .. n
      <4>1. l = n + 1 /\ stack'[l].fn = g BY <1>1, <1>10, <1>11, <2>0, <3>3
      <4>2. k = n \/ Rank(f) < Rank(stack[k].fn) BY <1>1, <3>1 DEF IInv, StackOK
      <4>3. Rank(g) \in Nat /\ Rank(f) \in Nat /\ Rank(stack[k].fn) \in Nat BY DEF Rank
      <4>. QED BY <1>6, <3>1, <4>1, <4>2, <4>3
    <3>. QED BY <3>2, <3>3
  <2>. QED BY <1>13, <2>0, <2>1, <2>2 DEF StackOK
<1>. QED BY <1>13, <1>14 DEF IInv

LEMMA StepLeave ==
  ASSUME IInv, Leave PROVE IInv'
<1>1. /\ stack \in Seq(Frames) /\ stack # << >> /\ stack' = SubSeq(stack, 1, Len(stack) - 1)
      /\ UNCHANGED <<library, history>>
  BY DEF Leave, IInv, Types
<1>2. buffered' \in BOOLEAN /\ (buffered => buffered')
  <2>1. buffered \in BOOLEAN /\ buffered' = (buffered \/ Top.fn = "printf")
    BY DEF Leave, IInv, Types, TypeOK
  <2>. QED BY <2>1, Zenon
<1>3. stack' \in Seq(Frames) /\ \A k \in DOMAIN stack' : k \in DOMAIN stack /\ stack'[k] = stack[k]
  BY <1>1, Popped
<1>4. cur = << >> BY <1>1 DEF IInv, OneAtATime
<1>5. /\ Types' /\ OneAtATime' /\ BegunOK' /\ SlotsOK' /\ ReplacedOK' /\ WantOK' /\ TodoOK'
      /\ PendingOK' /\ Unhooked' = Unhooked
  BY <1>1, <1>2, <1>3, <1>4, LibraryKept
<1>6. replaced' = replaced BY <1>1 DEF library
<1>7. StackOK' BY <1>3, <1>5, <1>6 DEF IInv, StackOK
<1>. QED BY <1>5, <1>7 DEF IInv

LEMMA NextIInv == IInv /\ [Next]_vars => IInv'
<1>. SUFFICES ASSUME IInv, [Next]_vars PROVE IInv' OBVIOUS
<1>1. CASE UNCHANGED vars
  <2>1. UNCHANGED <<library, client, history>> BY <1>1 DEF vars
  <2>2. Types' BY <2>1 DEF library, client, history, IInv, Types, TypeOK
  <2>3. OneAtATime' BY <2>1 DEF library, client, IInv, OneAtATime
  <2>4. Unhooked' = Unhooked BY <2>1 DEF library, Unhooked
  <2>5. BegunOK' BY <2>1, <2>4 DEF library, client, IInv, BegunOK
  <2>6. SlotsOK' /\ ReplacedOK' BY <2>1 DEF library, IInv, SlotsOK, ReplacedOK
  <2>7. \A s : /\ Asked(cur', s) <=> Asked(cur, s)
               /\ Asked(_rebindings_head', s) <=> Asked(_rebindings_head, s)
    BY <2>1 DEF library
  <2>8. WantOK' BY <2>1, <2>7 DEF library, history, IInv, WantOK
  <2>9. TodoOK' BY <2>1, <2>7 DEF library, history, IInv, TodoOK
  <2>10. PendingOK' BY <2>1, <2>7 DEF library, history, IInv, PendingOK
  <2>11. StackOK' BY <2>1, <2>4 DEF library, client, IInv, StackOK
  <2>. QED BY <2>2, <2>3, <2>5, <2>6, <2>8, <2>9, <2>10, <2>11 DEF IInv
<1>. QED BY <1>1, StepRebindSymbols, StepRebindSymbolsImage, StepPrependFails, StepImage, StepPointer,
         StepReturn, StepLoad, StepMainCalls, StepCallNext, StepLeave DEF Next

LEMMA Invariant == Spec => []IInv
BY InitIInv, NextIInv, PTL DEF Spec

(* Every variable keeps its type; in particular no more blocks are freed   *)
(* than were allocated, and every call through a slot or an orig_... finds *)
(* a function.                                                             *)
THEOREM TypeCorrect == Spec => []TypeOK
<1>1. IInv => TypeOK BY DEF IInv, Types
<1>. QED BY <1>1, Invariant, PTL

(* Between calls every slot that can be found and written holds what the   *)
(* calls that succeeded asked for last, every other what dyld bound, and   *)
(* the memory taken is the list's.                                         *)
THEOREM CallsAllOrNothing == Spec => []AllOrNothing
<1>1. IInv => AllOrNothing
  <2>. SUFFICES ASSUME IInv, ~Rebinding
                PROVE  /\ \A x \in Slots : x.image \in images =>
                            bindings[x] = IF Exposed(x) THEN want[x] ELSE Genuine[x]
                       /\ blocks = 2 * Len(_rebindings_head)
    BY DEF AllOrNothing
  <2>1. \A x \in Slots : ~Exposed(x) => bindings[x] = Genuine[x] BY DEF IInv, SlotsOK, Genuine
  <2>. QED BY <2>1, Finished
<1>. QED BY <1>1, Invariant, PTL

(* The hooks print and allocate, and printing allocates: still no function *)
(* is entered again before it has returned, as each only reaches functions *)
(* of lower rank, and a hook's call finds what it replaced.                *)
THEOREM HooksGetThrough == Spec => []HooksReturn
<1>1. IInv => HooksReturn
  <2>. SUFFICES ASSUME IInv PROVE HooksReturn OBVIOUS
  <2>1. ASSUME NEW k \in DOMAIN stack, stack[k].rest # << >>, Head(stack[k].rest) = "orig"
        PROVE  replaced[stack[k].fn] \notin Hooks \union {None}
    <3>. DEFINE f == stack[k].fn
                r == stack[k].rest
    <3>1. stack[k] \in Frames BY DEF IInv, Types
    <3>2. f \in Callable /\ r \in Seq(Callees) BY <3>1 DEF Frames
    <3>3. (\A j \in DOMAIN r : r[j] \in CalledBy(f)) /\ (f \in Hooks => replaced[f] # None)
      BY DEF IInv, StackOK
    <3>. HIDE DEF f, r
    <3>4. 1 \in DOMAIN r /\ Head(r) = r[1] BY <2>1, <3>2 DEF r
    <3>5. "orig" \in CalledBy(f) BY <2>1, <3>3, <3>4 DEF r
    <3>6. f \in Hooks BY <3>5 DEF CalledBy, Called
    <3>7. PICK s \in Own : f = HookOf(s) BY <3>6, Names
    <3>8. replaced[f] = Bound(s) BY <3>3, <3>6, <3>7 DEF IInv, ReplacedOK
    <3>. QED BY <3>8, Names DEF f
  <2>2. ASSUME NEW k \in DOMAIN stack, NEW l \in DOMAIN stack, stack[k].fn = stack[l].fn
        PROVE  k = l
    <3>1. k \in Nat /\ l \in Nat BY DEF IInv, Types
    <3>2. Rank(stack[k].fn) \in Nat BY DEF Rank
    <3>3. ~(k < l) /\ ~(l < k) BY <2>2, <3>2 DEF IInv, StackOK
    <3>. QED BY <3>1, <3>3
  <2>. QED BY <2>1, <2>2 DEF HooksReturn
<1>. QED BY <1>1, Invariant, PTL
=============================================================================
