--------------------------- MODULE FishhookProofs ---------------------------
(***************************************************************************)
(* Fishhook.tla for any images, names, hooks, calls and size of the heap.  *)
(* That every image is bound as asked, and that the chains of saved        *)
(* functions end, holds under two conditions, each of which a run shows to *)
(* be needed: no image comes or goes during a call (FishhookRace), so that *)
(* one thread at a time is at work, and no name is rebound both everywhere *)
(* and in one image (FishhookOverlap).  The images that are there from the *)
(* start and stay need the second condition only.                          *)
(***************************************************************************)
EXTENDS Fishhook, SequenceTheorems, WellFoundedInduction, TLAPS

Everywhere(s) == \E rs \in Calls : Rebound(rs, s)
InOneImage(s) == \E rs \in ImageCalls : Rebound(rs, s)
Separate == \A s \in Symbols : ~(Everywhere(s) /\ InOneImage(s))

Conditions == ~Concurrent /\ Separate

Walking(t) == pc[t] \in {"slots", "write"}

(* What is being rewritten is a name of an image that is there, and the    *)
(* list used has a rebinding for it.                                       *)
WalkType ==
  /\ \A t \in Threads : Walking(t) =>
       \A s \in left[t] : s \in Symbols /\ Rebound(using[t], s) /\ at[t] \in Images
  /\ \A t \in Threads : pc[t] = "write" => name[t] \in left[t]
  /\ pc["loader"] = "callback" => at["loader"] \in Images
  /\ pc["rebinder"] # "callback" /\ pc["loader"] # "next"

TypeInv == TypeOK /\ WalkType
-----------------------------------------------------------------------------
(* One thread at a time, and dyld's list stays as it is meanwhile. *)
OneAtATime ==
  /\ pc["rebinder"] = "idle" \/ pc["loader"] = "idle"
  /\ pc["rebinder"] # "idle" => c \in {0, Len(images)}
  /\ pc["loader"] = "callback" => at["loader"] \in Loaded

(* The list holds what the calls for all images brought. *)
HeadOK ==
  /\ \A s \in Symbols : Rebound(rebindings_head, s) => Everywhere(s) /\ registered
  /\ \A h \in HooksOf(rebindings_head) : age[h] > 0

(* What was asked for last, name by name, is what the list finds first. *)
WantOK ==
  \A m \in Loaded, s \in Symbols :
    /\ Everywhere(s) => want[m][s] = Replacement(rebindings_head, s)
    /\ want[m][s] \in Hooks => age[want[m][s]] > 0

WalkOK ==
  \A t \in Threads : Walking(t) =>
    \A s \in left[t] :
      at[t] \in Loaded /\ s \in Imports[at[t]] /\ Replacement(using[t], s) = want[at[t]][s]

(* A name that is not bound as asked is still to be rewritten. *)
Pending(m, s) ==
  \/ /\ pc["rebinder"] # "idle" /\ Rebound(rebindings_head, s)
     /\ \E k \in i + 1 .. c : images[k] = m
  \/ pc["loader"] = "callback" /\ at["loader"] = m /\ Rebound(rebindings_head, s)
  \/ \E t \in Threads : Walking(t) /\ at[t] = m /\ s \in left[t]

PendingOK ==
  \A m \in Loaded \ (Skipped \union ReadOnly) : \A s \in Imports[m] :
    slots[m][s] = want[m][s] \/ Pending(m, s)

(* What a slot holds is what was asked for last or came before it. *)
SlotsOK ==
  \A m \in Loaded, s \in Symbols : slots[m][s] \in Hooks =>
    /\ age[slots[m][s]] > 0
    /\ slots[m][s] = want[m][s]
         \/ (want[m][s] \in Hooks /\ age[slots[m][s]] < age[want[m][s]])

AgesOK ==
  \A h \in Hooks :
    /\ age[h] <= made
    /\ age[h] = 0 => replaced[h] = None
    /\ replaced[h] \in Hooks => 0 < age[replaced[h]] /\ age[replaced[h]] < age[h]

SavedOK ==
  /\ \A m \in Images, s \in Symbols :
       slots[m][s] \in Hooks \ Silent => replaced[slots[m][s]] # None
  /\ \A t \in Threads : pc[t] = "write" /\ Replacement(using[t], name[t]) \in Hooks \ Silent =>
       replaced[Replacement(using[t], name[t])] # None

IInv ==
  /\ TypeInv /\ OneAtATime /\ HeadOK /\ WantOK /\ WalkOK
  /\ PendingOK /\ SlotsOK /\ AgesOK /\ SavedOK
-----------------------------------------------------------------------------
(* The rebinding of a list that decides. *)
LEMMA FirstIs ==
  ASSUME NEW rs \in Seq(Rebindings), NEW s, NEW k \in DOMAIN rs, rs[k][1] = s,
         \A l \in DOMAIN rs : rs[l][1] = s => k <= l
  PROVE  First(rs, s) = k
<1>1. DOMAIN rs \subseteq Nat OBVIOUS
<1>2. \A l \in DOMAIN rs :
        (rs[l][1] = s /\ \A j \in DOMAIN rs : rs[j][1] = s => l <= j) <=> l = k
  BY <1>1
<1>. QED BY <1>2 DEF First

LEMMA FirstFacts ==
  ASSUME NEW rs \in Seq(Rebindings), NEW s, Rebound(rs, s)
  PROVE  \E k \in DOMAIN rs : /\ rs[k][1] = s /\ First(rs, s) = k
                              /\ \A l \in DOMAIN rs : rs[l][1] = s => k <= l
<1>. DEFINE T == {k \in DOMAIN rs : rs[k][1] = s}
<1>1. T \subseteq Nat /\ T # {} BY DEF Rebound
<1>2. IsWellFoundedOn(OpToRel(<, Nat), Nat) BY NatLessThanWellFounded
<1>3. \E x \in T : \A y \in T : ~(<<y, x>> \in OpToRel(<, Nat)) BY <1>1, <1>2, WFMin
<1>4. PICK x \in T : \A y \in T : ~(y < x) BY <1>1, <1>3 DEF OpToRel
<1>5. \A l \in DOMAIN rs : rs[l][1] = s => x <= l BY <1>1, <1>4
<1>. QED BY <1>5, FirstIs

LEMMA ReplacementFacts ==
  ASSUME NEW rs \in Seq(Rebindings), NEW s
  PROVE  /\ Rebound(rs, s) => /\ Replacement(rs, s) \in Hooks /\ Replacement(rs, s) \in HooksOf(rs)
                              /\ s \in Symbols
         /\ ~Rebound(rs, s) => Replacement(rs, s) = s
         /\ HooksOf(rs) \subseteq Hooks
<1>1. \A k \in DOMAIN rs : rs[k][1] \in Symbols /\ rs[k][2] \in Hooks BY DEF Rebindings
<1>2. ASSUME Rebound(rs, s)
      PROVE  Replacement(rs, s) \in Hooks /\ Replacement(rs, s) \in HooksOf(rs) /\ s \in Symbols
  <2>1. PICK k \in DOMAIN rs : rs[k][1] = s /\ First(rs, s) = k BY <1>2, FirstFacts
  <2>. QED BY <1>1, <1>2, <2>1 DEF Replacement, HooksOf
<1>. QED BY <1>1, <1>2 DEF Replacement, HooksOf

(* A list put in front of another takes precedence. *)
LEMMA Joined ==
  ASSUME NEW a \in Seq(Rebindings), NEW b \in Seq(Rebindings), NEW s
  PROVE  /\ a \o b \in Seq(Rebindings)
         /\ Rebound(a \o b, s) <=> (Rebound(a, s) \/ Rebound(b, s))
         /\ Replacement(a \o b, s) = IF Rebound(a, s) THEN Replacement(a, s) ELSE Replacement(b, s)
         /\ HooksOf(a \o b) = HooksOf(a) \union HooksOf(b)
<1>. DEFINE j == a \o b
<1>1. /\ j \in Seq(Rebindings) /\ Len(j) = Len(a) + Len(b) /\ Len(a) \in Nat /\ Len(b) \in Nat
      /\ DOMAIN j = 1 .. Len(j) /\ DOMAIN a = 1 .. Len(a) /\ DOMAIN b = 1 .. Len(b)
  OBVIOUS
<1>2. \A k \in DOMAIN a : k \in DOMAIN j /\ j[k] = a[k] BY <1>1
<1>3. \A k \in DOMAIN b : Len(a) + k \in DOMAIN j /\ j[Len(a) + k] = b[k] BY <1>1
<1>4. \A k \in DOMAIN j : k \in DOMAIN a \/ \E l \in DOMAIN b : k = Len(a) + l
  <2>. SUFFICES ASSUME NEW k \in DOMAIN j, k \notin DOMAIN a
                PROVE  \E l \in DOMAIN b : k = Len(a) + l
    OBVIOUS
  <2>1. k - Len(a) \in DOMAIN b /\ k = Len(a) + (k - Len(a)) BY <1>1
  <2>. QED BY <2>1
<1>. HIDE DEF j
<1>5. Rebound(j, s) <=> (Rebound(a, s) \/ Rebound(b, s)) BY <1>2, <1>3, <1>4 DEF Rebound
<1>6. HooksOf(j) = HooksOf(a) \union HooksOf(b)
  <2>1. HooksOf(j) \subseteq HooksOf(a) \union HooksOf(b) BY <1>2, <1>3, <1>4 DEF HooksOf
  <2>2. HooksOf(a) \subseteq HooksOf(j) BY <1>2 DEF HooksOf
  <2>3. HooksOf(b) \subseteq HooksOf(j) BY <1>3 DEF HooksOf
  <2>. QED BY <2>1, <2>2, <2>3
<1>7. CASE Rebound(a, s)
  <2>1. PICK k \in DOMAIN a : /\ a[k][1] = s /\ First(a, s) = k
                              /\ \A l \in DOMAIN a : a[l][1] = s => k <= l
    BY <1>7, FirstFacts
  <2>2. \A l \in DOMAIN j : j[l][1] = s => k <= l BY <1>1, <1>2, <1>4, <2>1
  <2>3. First(j, s) = k BY <1>1, <1>2, <2>1, <2>2, FirstIs
  <2>. QED BY <1>1, <1>2, <1>5, <1>6, <1>7, <2>1, <2>3 DEF Replacement, j
<1>8. CASE ~Rebound(a, s) /\ Rebound(b, s)
  <2>1. PICK k \in DOMAIN b : /\ b[k][1] = s /\ First(b, s) = k
                              /\ \A l \in DOMAIN b : b[l][1] = s => k <= l
    BY <1>8, FirstFacts
  <2>2. \A l \in DOMAIN j : j[l][1] = s => Len(a) + k <= l
    <3>. SUFFICES ASSUME NEW l \in DOMAIN j, j[l][1] = s PROVE Len(a) + k <= l OBVIOUS
    <3>1. l \notin DOMAIN a BY <1>2, <1>8 DEF Rebound
    <3>2. PICK n \in DOMAIN b : l = Len(a) + n BY <1>4, <3>1
    <3>3. k <= n BY <1>3, <2>1, <3>2
    <3>. QED BY <1>1, <3>2, <3>3
  <2>3. First(j, s) = Len(a) + k BY <1>1, <1>3, <2>1, <2>2, FirstIs
  <2>. QED BY <1>1, <1>3, <1>5, <1>6, <1>8, <2>1, <2>3 DEF Replacement, j
<1>9. CASE ~Rebound(a, s) /\ ~Rebound(b, s)
  BY <1>1, <1>5, <1>6, <1>9 DEF Replacement, j
<1>. QED BY <1>7, <1>8, <1>9
(* dyld's list without one of its entries. *)
LEMMA Unlisted ==
  ASSUME NEW S, NEW s \in Seq(S), NEW k \in DOMAIN s
  PROVE  /\ Without(s, k) \in Seq(S) /\ Len(Without(s, k)) = Len(s) - 1
         /\ \A j \in DOMAIN Without(s, k) : \E l \in DOMAIN s : Without(s, k)[j] = s[l]
         /\ \A j \in 1 .. k - 1 : Without(s, k)[j] = s[j]
<1>. DEFINE a == SubSeq(s, 1, k - 1)
            b == SubSeq(s, k + 1, Len(s))
<1>1. k \in Nat /\ k >= 1 /\ k <= Len(s) /\ Len(s) \in Nat /\ DOMAIN s = 1 .. Len(s) OBVIOUS
<1>2. a \in Seq(S) /\ Len(a) = k - 1 /\ \A j \in 1 .. k - 1 : a[j] = s[j]
  <2>1. \A j \in 1 .. k - 1 : s[j] \in S BY <1>1
  <2>. QED BY <1>1, <2>1, SubSeqProperties
<1>3. b \in Seq(S) /\ Len(b) = Len(s) - k /\ \A j \in 1 .. Len(s) - k : b[j] = s[k + j]
  <2>1. \A j \in k + 1 .. Len(s) : s[j] \in S BY <1>1
  <2>2. /\ b \in Seq(S) /\ Len(b) = IF k + 1 <= Len(s) THEN Len(s) - (k + 1) + 1 ELSE 0
        /\ \A j \in 1 .. Len(s) - (k + 1) + 1 : b[j] = s[(k + 1) + j - 1]
    BY <1>1, <2>1, SubSeqProperties
  <2>3. \A j \in 1 .. Len(s) - k : (k + 1) + j - 1 = k + j BY <1>1
  <2>4. Len(s) - (k + 1) + 1 = Len(s) - k BY <1>1
  <2>5. Len(b) = Len(s) - k BY <1>1, <2>2, <2>4
  <2>. HIDE DEF b
  <2>. QED BY <2>2, <2>3, <2>4, <2>5
<1>. HIDE DEF a, b
<1>4. /\ a \o b \in Seq(S) /\ Len(a \o b) = Len(a) + Len(b)
      /\ \A j \in 1 .. Len(a) + Len(b) : (a \o b)[j] = IF j <= Len(a) THEN a[j] ELSE b[j - Len(a)]
  BY <1>2, <1>3, ConcatProperties
<1>5. Len(a) + Len(b) = Len(s) - 1 BY <1>1, <1>2, <1>3
<1>6. ASSUME NEW j \in 1 .. Len(s) - 1 PROVE \E l \in DOMAIN s : (a \o b)[j] = s[l]
  <2>2. CASE j <= k - 1
    <3>1. (a \o b)[j] = s[j] /\ j \in DOMAIN s BY <1>1, <1>2, <1>4, <1>5, <1>6, <2>2
    <3>. QED BY <3>1
  <2>3. CASE ~(j <= k - 1)
    <3>1. (a \o b)[j] = b[j - (k - 1)] BY <1>2, <1>4, <1>5, <1>6, <2>3
    <3>2. j - (k - 1) \in 1 .. Len(s) - k /\ j + 1 \in DOMAIN s /\ k + (j - (k - 1)) = j + 1
      BY <1>1, <1>6, <2>3
    <3>3. b[j - (k - 1)] = s[j + 1] BY <1>3, <3>2
    <3>. QED BY <3>1, <3>2, <3>3
  <2>. QED BY <2>2, <2>3
<1>7. DOMAIN (a \o b) = 1 .. Len(s) - 1 BY <1>4, <1>5
<1>8. \A j \in 1 .. k - 1 : (a \o b)[j] = s[j] BY <1>1, <1>2, <1>4, <1>5
<1>. QED BY <1>4, <1>5, <1>6, <1>7, <1>8 DEF a, b, Without

-----------------------------------------------------------------------------
(* Types. *)
USE FishhookAssumption

LEMMA TypeInit == Init => TypeInv
<1>. SUFFICES ASSUME Init PROVE TypeInv OBVIOUS
<1>. USE DEF Init
<1>1. slots \in [Images -> [Symbols -> Functions]] /\ want \in [Images -> [Symbols -> Functions]]
  BY DEF Genuine, Functions
<1>2. using \in [Threads -> Seq(Rebindings)] /\ rebindings_head \in Seq(Rebindings) OBVIOUS
<1>3. pc \in [Threads -> {"idle", "next", "callback", "slots", "write"}] /\ heap \in 0 .. HeapSize
  OBVIOUS
<1>4. /\ images \in Seq(Images) /\ replaced \in [Hooks -> Functions \union {None}]
      /\ at \in [Threads -> Images \union {None}] /\ left \in [Threads -> SUBSET Symbols]
      /\ name \in [Threads -> Symbols \union {None}] /\ age \in [Hooks -> Nat]
  OBVIOUS
<1>5. /\ entries = 0 /\ aborted = FALSE /\ registered = FALSE /\ c = 0 /\ i = 0 /\ locked = FALSE
      /\ made = 0
  OBVIOUS
<1>. HIDE DEF Init
<1>8. entries \in Nat /\ c \in Nat /\ i \in 0 .. c /\ made \in Nat BY <1>5
<1>9. aborted \in BOOLEAN /\ registered \in BOOLEAN /\ locked \in BOOLEAN BY <1>5, Zenon
<1>6. WalkType BY DEF Init, WalkType, Walking, Threads
<1>7. TypeOK BY <1>1, <1>2, <1>3, <1>4, <1>8, <1>9 DEF TypeOK
<1>. QED BY <1>6, <1>7 DEF TypeInv

LEMMA TypeAsk ==
  ASSUME TypeInv, NEW rs \in Seq(Rebindings), NEW ms, Ask(rs, ms)
  PROVE  made' \in Nat /\ age' \in [Hooks -> Nat] /\ want' \in [Images -> [Symbols -> Functions]]
<1>1. made' \in Nat /\ age' \in [Hooks -> Nat] BY DEF Ask, TypeInv, TypeOK
<1>2. \A s \in Symbols : Replacement(rs, s) \in Functions BY ReplacementFacts DEF Functions
<1>3. want' \in [Images -> [Symbols -> Functions]] BY <1>2 DEF Ask, TypeInv, TypeOK
<1>. QED BY <1>1, <1>3

LEMMA MatchingFacts ==
  ASSUME TypeInv, NEW m, NEW rs
  PROVE  /\ Matching(m, rs) \subseteq Symbols
         /\ \A s \in Matching(m, rs) : Rebound(rs, s) /\ m \in Loaded \ Skipped /\ s \in Imports[m]
         /\ Loaded \subseteq Images
<1>1. Loaded \subseteq Images BY DEF Loaded, TypeInv, TypeOK
<1>2. \A n \in Loaded : Imports[n] \subseteq Symbols BY <1>1
<1>. QED BY <1>1, <1>2 DEF Matching

LEMMA TypeWalk ==
  ASSUME TypeInv, NEW t \in Threads, NEW m \in Images \union {None}, NEW rs \in Seq(Rebindings),
         Walk(t, m, rs)
  PROVE  /\ at' \in [Threads -> Images \union {None}] /\ using' \in [Threads -> Seq(Rebindings)]
         /\ left' \in [Threads -> SUBSET Symbols] /\ name' = name
         /\ pc' \in [Threads -> {"idle", "next", "callback", "slots", "write"}]
         /\ WalkType'
<1>1. Matching(m, rs) \subseteq Symbols
      /\ \A s \in Matching(m, rs) : Rebound(rs, s) /\ m \in Images
  BY MatchingFacts
<1>2. /\ at' = [at EXCEPT ![t] = m] /\ using' = [using EXCEPT ![t] = rs]
      /\ left' = [left EXCEPT ![t] = Matching(m, rs)] /\ pc' = [pc EXCEPT ![t] = "slots"]
      /\ name' = name
  BY DEF Walk
<1>3. /\ at \in [Threads -> Images \union {None}] /\ using \in [Threads -> Seq(Rebindings)]
      /\ left \in [Threads -> SUBSET Symbols]
      /\ pc \in [Threads -> {"idle", "next", "callback", "slots", "write"}]
  BY DEF TypeInv, TypeOK
<1>4. WalkType'
  <2>1. \A u \in Threads : Walking(u)' =>
          \A s \in left'[u] : s \in Symbols /\ Rebound(using'[u], s) /\ at'[u] \in Images
    BY <1>1, <1>2, <1>3 DEF TypeInv, WalkType, Walking
  <2>2. \A u \in Threads : pc'[u] = "write" => name'[u] \in left'[u]
    BY <1>2, <1>3 DEF TypeInv, WalkType
  <2>3. pc'["loader"] = "callback" => at'["loader"] \in Images
    BY <1>2, <1>3 DEF TypeInv, WalkType, Threads
  <2>4. pc'["rebinder"] # "callback" /\ pc'["loader"] # "next"
    BY <1>2, <1>3 DEF TypeInv, WalkType, Threads
  <2>. QED BY <2>1, <2>2, <2>3, <2>4 DEF WalkType
<1>. QED BY <1>1, <1>2, <1>3, <1>4

LEMMA TypeAbort ==
  ASSUME TypeInv, NEW rs, Abort(rs) PROVE TypeInv'
<1>. USE DEF Abort, walk, loop, history
<1>1. TypeOK' BY DEF TypeInv, TypeOK
<1>2. WalkType' BY DEF TypeInv, WalkType, Walking
<1>. QED BY <1>1, <1>2 DEF TypeInv

LEMMA TypeWrongSlide ==
  ASSUME TypeInv, WrongSlide PROVE TypeInv'
<1>. USE DEF WrongSlide, walk, loop, history
<1>1. TypeOK' BY DEF TypeInv, TypeOK
<1>2. WalkType' BY DEF TypeInv, WalkType, Walking
<1>. QED BY <1>1, <1>2 DEF TypeInv

LEMMA TypeRebindSymbols ==
  ASSUME TypeInv, NEW rs \in Calls, RebindSymbols(rs) PROVE TypeInv'
<1>0. rs \in Seq(Rebindings) /\ Len(rs) \in Nat OBVIOUS
<1>1. CASE Abort(rs) BY <1>1, TypeAbort
<1>2. CASE ~Abort(rs)
  <2>1. /\ Fits(rs) /\ heap' = heap + Needs(rs) /\ rebindings_head' = rs \o rebindings_head
        /\ entries' = entries + 1 /\ registered' = TRUE /\ locked' = (entries = 0)
        /\ i' = 0 /\ c' = Len(images) /\ pc' = [pc EXCEPT !["rebinder"] = "next"]
        /\ Ask(rs, Loaded) /\ UNCHANGED <<aborted, images, slots, replaced, walk>>
    BY <1>2 DEF RebindSymbols, Prepend
  <2>2. made' \in Nat /\ age' \in [Hooks -> Nat] /\ want' \in [Images -> [Symbols -> Functions]]
    BY <1>0, <2>1, TypeAsk
  <2>3. rebindings_head' \in Seq(Rebindings) /\ Len(images) \in Nat
    BY <1>0, <2>1 DEF TypeInv, TypeOK
  <2>4. heap' \in 0 .. HeapSize BY <1>0, <2>1 DEF TypeInv, TypeOK, Fits, Needs
  <2>5. pc' \in [Threads -> {"idle", "next", "callback", "slots", "write"}]
    BY <2>1 DEF TypeInv, TypeOK
  <2>6. TypeOK' BY <2>1, <2>2, <2>3, <2>4, <2>5 DEF TypeInv, TypeOK, walk
  <2>7. WalkType' BY <2>1 DEF TypeInv, TypeOK, WalkType, Walking, walk, Threads
  <2>. QED BY <2>6, <2>7 DEF TypeInv
<1>. QED BY <1>1, <1>2

LEMMA TypeRebindSymbolsImage ==
  ASSUME TypeInv, NEW rs \in ImageCalls, NEW m \in Images, RebindSymbolsImage(m, rs)
  PROVE  TypeInv'
<1>0. rs \in Seq(Rebindings) /\ Len(rs) \in Nat /\ "rebinder" \in Threads BY DEF Threads
<1>1. CASE Abort(rs) BY <1>1, TypeAbort
<1>2. CASE ~Abort(rs)
  <2>1. /\ Fits(rs) /\ heap' = heap + Needs(rs) /\ i' = 0 /\ c' = 0 /\ Walk("rebinder", m, rs)
        /\ Ask(rs, {m})
        /\ UNCHANGED <<rebindings_head, entries, aborted, registered, locked,
                       images, slots, replaced>>
    BY <1>2 DEF RebindSymbolsImage
  <2>2. made' \in Nat /\ age' \in [Hooks -> Nat] /\ want' \in [Images -> [Symbols -> Functions]]
    BY <1>0, <2>1, TypeAsk
  <2>3. /\ at' \in [Threads -> Images \union {None}] /\ using' \in [Threads -> Seq(Rebindings)]
        /\ left' \in [Threads -> SUBSET Symbols] /\ name' = name
        /\ pc' \in [Threads -> {"idle", "next", "callback", "slots", "write"}]
        /\ WalkType'
    BY <1>0, <2>1, TypeWalk
  <2>4. heap' \in 0 .. HeapSize BY <1>0, <2>1 DEF TypeInv, TypeOK, Fits, Needs
  <2>5. TypeOK' BY <2>1, <2>2, <2>3, <2>4 DEF TypeInv, TypeOK
  <2>. QED BY <2>3, <2>5 DEF TypeInv
<1>. QED BY <1>1, <1>2

LEMMA TypeNextImage ==
  ASSUME TypeInv, NextImage PROVE TypeInv'
<1>. DEFINE m == IF i < Len(images) THEN images[i + 1] ELSE None
<1>1. m \in Images \union {None} BY DEF TypeInv, TypeOK
<1>2. /\ i' = i + 1 /\ i < c /\ UNCHANGED <<list, images, slots, replaced, c, locked, history>>
      /\ Walk("rebinder", m, rebindings_head)
  BY DEF NextImage
<1>3. PICK q : q = m OBVIOUS
<1>4. PICK r \in Seq(Rebindings) : r = rebindings_head BY DEF TypeInv, TypeOK
<1>5. Walk("rebinder", q, r) BY <1>2, <1>3, <1>4 DEF Walk
<1>. HIDE DEF m
<1>6. /\ at' \in [Threads -> Images \union {None}] /\ using' \in [Threads -> Seq(Rebindings)]
      /\ left' \in [Threads -> SUBSET Symbols] /\ name' = name
      /\ pc' \in [Threads -> {"idle", "next", "callback", "slots", "write"}]
      /\ WalkType'
  BY <1>1, <1>3, <1>4, <1>5, TypeWalk DEF Threads
<1>7. i' \in 0 .. c BY <1>2 DEF TypeInv, TypeOK
<1>8. TypeOK' BY <1>2, <1>6, <1>7 DEF TypeInv, TypeOK, list, history
<1>. QED BY <1>6, <1>8 DEF TypeInv

LEMMA TypeCallback ==
  ASSUME TypeInv, Callback PROVE TypeInv'
<1>1. UNCHANGED <<list, images, slots, replaced, loop, history>> BY DEF Callback
<1>3. PICK q \in Images : q = at["loader"] BY DEF Callback, TypeInv, WalkType
<1>4. PICK r \in Seq(Rebindings) : r = rebindings_head BY DEF TypeInv, TypeOK
<1>5. Walk("loader", q, r) BY <1>3, <1>4 DEF Callback, Walk
<1>6. /\ at' \in [Threads -> Images \union {None}] /\ using' \in [Threads -> Seq(Rebindings)]
      /\ left' \in [Threads -> SUBSET Symbols] /\ name' = name
      /\ pc' \in [Threads -> {"idle", "next", "callback", "slots", "write"}]
      /\ WalkType'
  BY <1>5, TypeWalk DEF Threads
<1>8. TypeOK' BY <1>1, <1>6 DEF TypeInv, TypeOK, list, history, loop
<1>. QED BY <1>6, <1>8 DEF TypeInv

LEMMA TypeReturn ==
  ASSUME TypeInv, Return PROVE TypeInv'
<1>. USE DEF Return, list, walk, history
<1>1. pc' \in [Threads -> {"idle", "next", "callback", "slots", "write"}] BY DEF TypeInv, TypeOK
<1>2. TypeOK' BY <1>1 DEF TypeInv, TypeOK
<1>3. WalkType' BY DEF TypeInv, TypeOK, WalkType, Walking, Threads
<1>. QED BY <1>2, <1>3 DEF TypeInv

(* The hook that a walking thread writes, and the slot it writes to. *)
LEMMA WalkFacts ==
  ASSUME TypeInv, NEW t \in Threads, Walking(t), NEW s \in left[t]
  PROVE  /\ at[t] \in Images /\ s \in Symbols /\ using[t] \in Seq(Rebindings)
         /\ Rebound(using[t], s) /\ Replacement(using[t], s) \in Hooks
         /\ slots[at[t]][s] \in Functions
<1>1. /\ at[t] \in Images /\ s \in Symbols /\ using[t] \in Seq(Rebindings) /\ Rebound(using[t], s)
  BY DEF TypeInv, TypeOK, WalkType
<1>2. Replacement(using[t], s) \in Hooks BY <1>1, ReplacementFacts
<1>3. slots[at[t]][s] \in Functions BY <1>1 DEF TypeInv, TypeOK
<1>. QED BY <1>1, <1>2, <1>3

LEMMA TypeSaveSlot ==
  ASSUME TypeInv, NEW t \in Threads, NEW s \in Symbols, SaveSlot(t, s) PROVE TypeInv'
<1>. USE DEF SaveSlot, Save, list, history, loop
<1>1. Walking(t) /\ s \in left[t] BY DEF Walking
<1>2. /\ Replacement(using[t], s) \in Hooks /\ slots[at[t]][s] \in Functions BY <1>1, WalkFacts
<1>3. replaced' \in [Hooks -> Functions \union {None}] BY <1>2 DEF TypeInv, TypeOK
<1>4. pc' \in [Threads -> {"idle", "next", "callback", "slots", "write"}]
      /\ name' \in [Threads -> Symbols \union {None}]
  BY DEF TypeInv, TypeOK
<1>5. TypeOK' BY <1>3, <1>4 DEF TypeInv, TypeOK
<1>6. WalkType' BY <1>1 DEF TypeInv, TypeOK, WalkType, Walking, Threads
<1>. QED BY <1>5, <1>6 DEF TypeInv

LEMMA TypeWriteSlot ==
  ASSUME TypeInv, NEW t \in Threads, WriteSlot(t) PROVE TypeInv'
<1>. USE DEF WriteSlot, list, history, loop
<1>1. Walking(t) /\ name[t] \in left[t] BY DEF Walking, TypeInv, WalkType
<1>2. /\ Replacement(using[t], name[t]) \in Functions /\ at[t] \in Images /\ name[t] \in Symbols
  BY <1>1, WalkFacts DEF Functions
<1>3. slots' \in [Images -> [Symbols -> Functions]] BY <1>2 DEF TypeInv, TypeOK
<1>4. pc' \in [Threads -> {"idle", "next", "callback", "slots", "write"}]
      /\ left' \in [Threads -> SUBSET Symbols]
  BY DEF TypeInv, TypeOK
<1>5. TypeOK' BY <1>3, <1>4 DEF TypeInv, TypeOK
<1>6. WalkType' BY <1>1 DEF TypeInv, TypeOK, WalkType, Walking, Threads
<1>. QED BY <1>5, <1>6 DEF TypeInv

LEMMA TypeLeave ==
  ASSUME TypeInv, NEW t \in Threads, Leave(t) PROVE TypeInv'
<1>. USE DEF Leave, list, history, loop
<1>1. pc' \in [Threads -> {"idle", "next", "callback", "slots", "write"}]
      /\ at' \in [Threads -> Images \union {None}]
  BY DEF TypeInv, TypeOK
<1>2. TypeOK' BY <1>1 DEF TypeInv, TypeOK
<1>3. WalkType' BY DEF TypeInv, TypeOK, WalkType, Walking, Threads
<1>. QED BY <1>2, <1>3 DEF TypeInv

LEMMA TypeLoad ==
  ASSUME TypeInv, NEW m \in Images, Load(m) PROVE TypeInv'
<1>. USE DEF Load, list, loop, May
<1>1. slots' \in [Images -> [Symbols -> Functions]] BY DEF TypeInv, TypeOK, Genuine, Functions
<1>2. \A s \in Symbols : Replacement(rebindings_head, s) \in Functions
  BY ReplacementFacts DEF Functions, TypeInv, TypeOK
<1>3. want' \in [Images -> [Symbols -> Functions]] BY <1>2 DEF TypeInv, TypeOK
<1>4. images' \in Seq(Images) BY DEF TypeInv, TypeOK
<1>5. pc' \in [Threads -> {"idle", "next", "callback", "slots", "write"}]
      /\ at' \in [Threads -> Images \union {None}]
  BY DEF TypeInv, TypeOK
<1>6. TypeOK' BY <1>1, <1>3, <1>4, <1>5 DEF TypeInv, TypeOK
<1>7. WalkType' BY DEF TypeInv, TypeOK, WalkType, Walking, Threads
<1>. QED BY <1>6, <1>7 DEF TypeInv

LEMMA UnloadFacts ==
  ASSUME TypeInv, NEW m \in Images, Unload(m)
  PROVE  /\ images' \in Seq(Images) /\ Loaded' \subseteq Loaded /\ May("loader")
         /\ UNCHANGED <<list, slots, replaced, pc, walk, loop, history>>
<1>1. PICK k \in DOMAIN images : images' = Without(images, k) BY DEF Unload
<1>2. images' \in Seq(Images) /\ \A j \in DOMAIN images' : \E l \in DOMAIN images : images'[j] = images[l]
  BY <1>1, Unlisted DEF TypeInv, TypeOK
<1>. QED BY <1>2 DEF Unload, Loaded

LEMMA TypeUnload ==
  ASSUME TypeInv, NEW m \in Images, Unload(m) PROVE TypeInv'
<1>1. images' \in Seq(Images) /\ UNCHANGED <<list, slots, replaced, pc, walk, loop, history>>
  BY UnloadFacts
<1>. USE DEF list, walk, loop, history
<1>2. TypeOK' BY <1>1 DEF TypeInv, TypeOK
<1>3. WalkType' BY <1>1 DEF TypeInv, WalkType, Walking
<1>. QED BY <1>2, <1>3 DEF TypeInv

LEMMA TypeStep == TypeInv /\ [Next]_vars => TypeInv'
<1>. SUFFICES ASSUME TypeInv, [Next]_vars PROVE TypeInv' OBVIOUS
<1>1. ASSUME NEW t \in Threads, Rewrite(t) PROVE TypeInv'
  BY <1>1, TypeLeave, TypeWriteSlot, TypeSaveSlot DEF Rewrite
<1>2. CASE Rebinder BY <1>1, <1>2, TypeNextImage, TypeReturn DEF Rebinder, Threads
<1>3. CASE Loader BY <1>1, <1>3, TypeCallback DEF Loader, Threads
<1>4. CASE UNCHANGED vars
  <2>. USE <1>4 DEF vars, list, walk, loop, history
  <2>1. TypeOK' BY DEF TypeInv, TypeOK
  <2>2. WalkType' BY DEF TypeInv, WalkType, Walking
  <2>. QED BY <2>1, <2>2 DEF TypeInv
<1>. QED BY <1>2, <1>3, <1>4, TypeRebindSymbols, TypeRebindSymbolsImage, TypeLoad, TypeUnload,
     TypeWrongSlide
     DEF Next, Begin

LEMMA TypeInvariant == Spec => []TypeInv
BY TypeInit, TypeStep, PTL DEF Spec

(* Every variable keeps its type: fishhook_malloc never gives out more     *)
(* than the heap has, whatever is asked for and in whatever order.         *)
THEOREM TypeCorrect == Spec => []TypeOK
<1>1. TypeInv => TypeOK BY DEF TypeInv
<1>. QED BY <1>1, TypeInvariant, PTL
-----------------------------------------------------------------------------
(* What is bound where. *)
LEMMA Kept ==
  ASSUME IInv, UNCHANGED <<rebindings_head, registered, images, want, age>>
  PROVE  HeadOK' /\ WantOK'
<1>1. HeadOK' BY DEF IInv, HeadOK, Rebound, HooksOf
<1>2. Loaded' = Loaded BY DEF Loaded
<1>3. \A s : Replacement(rebindings_head', s) = Replacement(rebindings_head, s) OBVIOUS
<1>4. WantOK' BY <1>2, <1>3 DEF IInv, WantOK
<1>. QED BY <1>1, <1>4

LEMMA KeptSlots ==
  ASSUME IInv, UNCHANGED <<images, slots, want, age, made, replaced>>
  PROVE  SlotsOK' /\ AgesOK'
<1>1. Loaded' = Loaded BY DEF Loaded
<1>2. SlotsOK' BY <1>1 DEF IInv, SlotsOK
<1>3. AgesOK' BY DEF IInv, AgesOK
<1>. QED BY <1>2, <1>3

LEMMA NobodyWalks ==
  ASSUME IInv, Quiet
  PROVE  /\ \A t \in Threads : ~Walking(t) /\ pc[t] = "idle"
         /\ pc["rebinder"] = "idle" /\ pc["loader"] = "idle"
         /\ \A m \in Loaded \ (Skipped \union ReadOnly) : \A s \in Imports[m] :
              slots[m][s] = want[m][s]
<1>1. \A t \in Threads : ~Walking(t) /\ pc[t] = "idle" BY DEF Quiet, Walking
<1>2. pc["rebinder"] = "idle" /\ pc["loader"] = "idle" BY <1>1 DEF Threads
<1>3. \A m, s : ~Pending(m, s) BY <1>1, <1>2 DEF Pending
<1>. QED BY <1>1, <1>2, <1>3 DEF IInv, PendingOK

(* Hooks are not names, and None is neither. *)
LEMMA Kinds ==
  /\ \A h \in Hooks : h \notin Symbols /\ h # None
  /\ \A s \in Symbols : s \notin Hooks /\ s # None
BY DEF Functions

LEMMA InitIInv == Init => IInv
<1>. SUFFICES ASSUME Init PROVE IInv OBVIOUS
<1>0. TypeInv BY TypeInit
<1>. USE DEF Init
<1>1. \A t \in Threads : pc[t] = "idle" /\ ~Walking(t) BY DEF Walking
<1>2. OneAtATime BY DEF OneAtATime, Threads
<1>3. \A s : ~Rebound(rebindings_head, s) /\ HooksOf(rebindings_head) = {} BY DEF Rebound, HooksOf
<1>4. \A m \in Images, s \in Symbols : slots[m][s] = s /\ want[m][s] = s BY DEF Genuine
<1>5. Loaded \subseteq Images BY <1>0, MatchingFacts
<1>. HIDE DEF Init
<1>6. HeadOK BY <1>3 DEF HeadOK
<1>7. WantOK
  <2>1. \A s : Replacement(rebindings_head, s) = s BY <1>3 DEF Replacement
  <2>. QED BY <1>4, <1>5, <2>1, Kinds DEF WantOK
<1>8. WalkOK BY <1>1 DEF WalkOK
<1>9. PendingOK BY <1>4, <1>5 DEF PendingOK
<1>10. SlotsOK BY <1>4, <1>5, Kinds DEF SlotsOK
<1>11. AgesOK BY Kinds DEF Init, AgesOK
<1>12. SavedOK BY <1>1, <1>4, Kinds DEF SavedOK
<1>. QED BY <1>0, <1>2, <1>6, <1>7, <1>8, <1>9, <1>10, <1>11, <1>12 DEF IInv

(* A call that asks for something brings hooks that are younger than all   *)
(* that are bound.                                                         *)
LEMMA AskKeeps ==
  ASSUME IInv, NEW rs \in Seq(Rebindings), NEW ms \in SUBSET Loaded, Fresh(rs), Ask(rs, ms),
         UNCHANGED <<images, slots, replaced>>
  PROVE  /\ \A h \in Hooks : age[h] > 0 => age'[h] = age[h]
         /\ \A h \in HooksOf(rs) : h \in Hooks /\ age'[h] = made + 1 /\ age'[h] > 0
         /\ \A m \in Loaded, s \in Symbols :
              /\ m \in ms /\ Rebound(rs, s) => want'[m][s] = Replacement(rs, s)
              /\ ~(m \in ms /\ Rebound(rs, s)) => want'[m][s] = want[m][s]
              /\ want'[m][s] \in Hooks => age'[want'[m][s]] > 0
         /\ AgesOK' /\ SlotsOK'
<1>0. /\ made \in Nat /\ made' = made + 1 /\ age \in [Hooks -> Nat] /\ Loaded \subseteq Images
      /\ Loaded' = Loaded
  BY MatchingFacts DEF Ask, IInv, TypeInv, TypeOK, Loaded
<1>1. \A h \in Hooks : age'[h] = IF h \in HooksOf(rs) THEN made + 1 ELSE age[h] BY DEF Ask
<1>2. \A h \in HooksOf(rs) : h \in Hooks /\ age[h] = 0 BY ReplacementFacts DEF Fresh
<1>3. \A h \in Hooks : age[h] > 0 => age'[h] = age[h] /\ h \notin HooksOf(rs) BY <1>1, <1>2
<1>4. \A h \in HooksOf(rs) : h \in Hooks /\ age'[h] = made + 1 /\ age'[h] > 0 BY <1>0, <1>1, <1>2
<1>5. \A m \in Loaded, s \in Symbols :
        want'[m][s] = IF m \in ms /\ Rebound(rs, s) THEN Replacement(rs, s) ELSE want[m][s]
  BY <1>0 DEF Ask
<1>6. ASSUME NEW m \in Loaded, NEW s \in Symbols, want'[m][s] \in Hooks
      PROVE  age'[want'[m][s]] > 0
  <2>1. CASE m \in ms /\ Rebound(rs, s)
    <3>1. want'[m][s] \in HooksOf(rs) BY <1>5, <2>1, ReplacementFacts
    <3>. QED BY <1>4, <3>1
  <2>2. CASE ~(m \in ms /\ Rebound(rs, s))
    <3>1. want'[m][s] = want[m][s] /\ age[want[m][s]] > 0 BY <1>5, <1>6, <2>2 DEF IInv, WantOK
    <3>. QED BY <1>3, <1>6, <3>1
  <2>. QED BY <2>1, <2>2
<1>7. AgesOK'
  <2>. SUFFICES ASSUME NEW h \in Hooks
                PROVE  /\ age'[h] <= made + 1
                       /\ age'[h] = 0 => replaced[h] = None
                       /\ replaced[h] \in Hooks => 0 < age'[replaced[h]] /\ age'[replaced[h]] < age'[h]
    BY <1>0 DEF AgesOK
  <2>1. /\ age[h] <= made
        /\ age[h] = 0 => replaced[h] = None
        /\ replaced[h] \in Hooks => 0 < age[replaced[h]] /\ age[replaced[h]] < age[h]
    BY DEF IInv, AgesOK
  <2>2. age[h] \in Nat BY <1>0
  <2>3. age'[h] <= made + 1 BY <1>0, <1>1, <2>1, <2>2
  <2>4. age'[h] = 0 => replaced[h] = None BY <1>0, <1>1, <2>1
  <2>5. ASSUME replaced[h] \in Hooks
        PROVE  0 < age'[replaced[h]] /\ age'[replaced[h]] < age'[h]
    <3>1. age'[replaced[h]] = age[replaced[h]] BY <1>3, <2>1, <2>5
    <3>2. age[h] # 0 BY <2>1, <2>5, Kinds
    <3>3. age'[h] = age[h] BY <1>3, <2>2, <3>2
    <3>. QED BY <2>1, <2>5, <3>1, <3>3
  <2>. QED BY <2>3, <2>4, <2>5
<1>8. SlotsOK'
  <2>. SUFFICES ASSUME NEW m \in Loaded, NEW s \in Symbols, slots[m][s] \in Hooks
                PROVE  /\ age'[slots[m][s]] > 0
                       /\ slots[m][s] = want'[m][s]
                            \/ (want'[m][s] \in Hooks /\ age'[slots[m][s]] < age'[want'[m][s]])
    BY <1>0 DEF SlotsOK
  <2>1. /\ age[slots[m][s]] > 0
        /\ slots[m][s] = want[m][s]
             \/ (want[m][s] \in Hooks /\ age[slots[m][s]] < age[want[m][s]])
    BY DEF IInv, SlotsOK
  <2>2. age'[slots[m][s]] = age[slots[m][s]] /\ age[slots[m][s]] <= made /\ age[slots[m][s]] \in Nat
    BY <1>0, <1>3, <2>1 DEF IInv, AgesOK
  <2>3. CASE m \in ms /\ Rebound(rs, s)
    <3>1. want'[m][s] \in HooksOf(rs) BY <1>5, <2>3, ReplacementFacts
    <3>2. want'[m][s] \in Hooks /\ age'[want'[m][s]] = made + 1 BY <1>4, <3>1
    <3>. QED BY <1>0, <2>1, <2>2, <3>2
  <2>4. CASE ~(m \in ms /\ Rebound(rs, s))
    <3>1. want'[m][s] = want[m][s] BY <1>5, <2>4
    <3>2. want[m][s] \in Hooks => age'[want[m][s]] = age[want[m][s]]
      BY <1>3 DEF IInv, WantOK
    <3>. QED BY <2>1, <2>2, <3>1, <3>2
  <2>. QED BY <2>3, <2>4
<1>. QED BY <1>3, <1>4, <1>5, <1>6, <1>7, <1>8

(* Who rewrites what is not touched. *)
LEMMA SameWalk ==
  ASSUME WalkOK, Loaded' = Loaded, UNCHANGED <<pc, at, using, left, want>>
  PROVE  WalkOK'
<1>1. \A t \in Threads : Walking(t)' = Walking(t) BY DEF Walking
<1>2. \A t \in Threads : \A s : Replacement(using'[t], s) = Replacement(using[t], s) OBVIOUS
<1>. QED BY <1>1, <1>2 DEF WalkOK

LEMMA StepAbort ==
  ASSUME IInv, NEW rs, Abort(rs) PROVE IInv'
<1>0. UNCHANGED <<rebindings_head, registered, images, slots, replaced, pc, walk, loop, history>>
  BY DEF Abort
<1>. USE DEF walk, loop, history
<1>1. TypeInv' BY TypeAbort DEF IInv
<1>2. HeadOK' /\ WantOK' /\ SlotsOK' /\ AgesOK' BY <1>0, Kept, KeptSlots
<1>3. Loaded' = Loaded BY <1>0 DEF Loaded
<1>4. OneAtATime' BY <1>0, <1>3 DEF IInv, OneAtATime
<1>5. WalkOK' BY <1>0, <1>3, SameWalk DEF IInv
<1>6. PendingOK' BY <1>0, <1>3 DEF IInv, PendingOK, Pending, Walking, Rebound
<1>7. SavedOK' BY <1>0 DEF IInv, SavedOK
<1>. QED BY <1>1, <1>2, <1>4, <1>5, <1>6, <1>7 DEF IInv

LEMMA StepRebindSymbols ==
  ASSUME Conditions, IInv, NEW rs \in Calls, RebindSymbols(rs) PROVE IInv'
<1>0. rs \in Seq(Rebindings) /\ rebindings_head \in Seq(Rebindings)
  BY DEF IInv, TypeInv, TypeOK
<1>1. CASE Abort(rs) BY <1>1, StepAbort
<1>2. CASE ~Abort(rs)
  <2>1. /\ Quiet /\ Fresh(rs) /\ rebindings_head' = rs \o rebindings_head
        /\ registered' = TRUE /\ i' = 0 /\ c' = Len(images)
        /\ pc' = [pc EXCEPT !["rebinder"] = "next"]
        /\ Ask(rs, Loaded) /\ UNCHANGED <<aborted, images, slots, replaced, walk>>
    BY <1>2 DEF RebindSymbols, Prepend, May, Conditions
  <2>2. TypeInv' BY TypeRebindSymbols DEF IInv
  <2>3. /\ \A t \in Threads : ~Walking(t) /\ pc[t] = "idle"
        /\ \A m \in Loaded \ (Skipped \union ReadOnly) : \A s \in Imports[m] :
              slots[m][s] = want[m][s]
    BY <2>1, NobodyWalks
  <2>4. /\ pc'["rebinder"] = "next" /\ pc'["loader"] = "idle"
        /\ \A t \in Threads : ~Walking(t)' /\ pc'[t] # "write"
    BY <2>1, <2>3 DEF IInv, TypeInv, TypeOK, Threads, Walking
  <2>5. OneAtATime' BY <2>1, <2>4 DEF OneAtATime
  <2>6. /\ \A h \in Hooks : age[h] > 0 => age'[h] = age[h]
        /\ \A h \in HooksOf(rs) : h \in Hooks /\ age'[h] = made + 1 /\ age'[h] > 0
        /\ \A m \in Loaded, s \in Symbols :
              /\ Rebound(rs, s) => want'[m][s] = Replacement(rs, s)
              /\ ~Rebound(rs, s) => want'[m][s] = want[m][s]
              /\ want'[m][s] \in Hooks => age'[want'[m][s]] > 0
        /\ AgesOK' /\ SlotsOK'
    BY <1>0, <2>1, AskKeeps
  <2>7. \A s : /\ Rebound(rebindings_head', s) <=> (Rebound(rs, s) \/ Rebound(rebindings_head, s))
               /\ Replacement(rebindings_head', s) =
                    IF Rebound(rs, s) THEN Replacement(rs, s) ELSE Replacement(rebindings_head, s)
               /\ HooksOf(rebindings_head') = HooksOf(rs) \union HooksOf(rebindings_head)
    BY <1>0, <2>1, Joined
  <2>8. Loaded' = Loaded /\ Loaded \subseteq Images
    <3>1. Loaded \subseteq Images BY DEF IInv, TypeInv, TypeOK, Loaded
    <3>. QED BY <2>1, <3>1 DEF Loaded
  <2>9. HeadOK'
    <3>1. \A s \in Symbols : Rebound(rebindings_head', s) => Everywhere(s) /\ registered'
      BY <2>1, <2>7 DEF Everywhere, IInv, HeadOK
    <3>2. \A h \in HooksOf(rebindings_head') : age'[h] > 0
      <4>1. \A h \in HooksOf(rebindings_head) : h \in Hooks /\ age[h] > 0
        BY <1>0, ReplacementFacts DEF IInv, HeadOK
      <4>. QED BY <2>6, <2>7, <4>1
    <3>. QED BY <3>1, <3>2 DEF HeadOK
  <2>10. WantOK' BY <2>6, <2>7, <2>8 DEF IInv, WantOK
  <2>11. WalkOK' BY <2>4 DEF WalkOK
  <2>12. PendingOK'
    <3>. SUFFICES ASSUME NEW m \in Loaded \ (Skipped \union ReadOnly), NEW s \in Imports[m]
                  PROVE  slots[m][s] = want'[m][s] \/ Pending(m, s)'
      BY <2>1, <2>8 DEF PendingOK
    <3>1. s \in Symbols /\ slots[m][s] = want[m][s] BY <2>3, <2>8
    <3>2. CASE Rebound(rs, s)
      <4>1. PICK k \in 1 .. Len(images) : images[k] = m BY DEF Loaded, IInv, TypeInv, TypeOK
      <4>2. k \in i' + 1 .. c' /\ images'[k] = m BY <2>1, <4>1
      <4>. QED BY <2>4, <2>7, <3>2, <4>2 DEF Pending
    <3>3. CASE ~Rebound(rs, s) BY <2>6, <3>1, <3>3
    <3>. QED BY <3>2, <3>3
  <2>13. SavedOK' BY <2>1, <2>4 DEF IInv, SavedOK
  <2>. QED BY <2>2, <2>5, <2>6, <2>9, <2>10, <2>11, <2>12, <2>13 DEF IInv
<1>. QED BY <1>1, <1>2

LEMMA StepRebindSymbolsImage ==
  ASSUME Conditions, IInv, NEW rs \in ImageCalls, NEW m \in Images, RebindSymbolsImage(m, rs)
  PROVE  IInv'
<1>0. rs \in Seq(Rebindings) /\ "rebinder" \in Threads BY DEF Threads
<1>1. CASE Abort(rs) BY <1>1, StepAbort
<1>2. CASE ~Abort(rs)
  <2>1. /\ Quiet /\ Fresh(rs) /\ m \in Loaded /\ i' = 0 /\ c' = 0
        /\ pc' = [pc EXCEPT !["rebinder"] = "slots"]
        /\ at' = [at EXCEPT !["rebinder"] = m] /\ using' = [using EXCEPT !["rebinder"] = rs]
        /\ left' = [left EXCEPT !["rebinder"] = Matching(m, rs)]
        /\ Ask(rs, {m})
        /\ UNCHANGED <<rebindings_head, registered, images, slots, replaced>>
    BY <1>2 DEF RebindSymbolsImage, May, Conditions, Walk
  <2>2. TypeInv' BY TypeRebindSymbolsImage DEF IInv
  <2>3. /\ \A t \in Threads : ~Walking(t) /\ pc[t] = "idle"
        /\ \A n \in Loaded \ (Skipped \union ReadOnly) : \A s \in Imports[n] :
              slots[n][s] = want[n][s]
    BY <2>1, NobodyWalks
  <2>4. /\ pc'["rebinder"] = "slots" /\ pc'["loader"] = "idle" /\ Walking("rebinder")'
        /\ at'["rebinder"] = m /\ using'["rebinder"] = rs /\ left'["rebinder"] = Matching(m, rs)
        /\ \A t \in Threads : Walking(t)' => t = "rebinder"
        /\ \A t \in Threads : pc'[t] # "write"
    BY <2>1, <2>3 DEF IInv, TypeInv, TypeOK, Threads, Walking
  <2>5. Loaded' = Loaded /\ Loaded \subseteq Images
    <3>1. Loaded \subseteq Images BY DEF IInv, TypeInv, TypeOK, Loaded
    <3>. QED BY <2>1, <3>1 DEF Loaded
  <2>6. OneAtATime' BY <2>1, <2>4 DEF OneAtATime
  <2>7. /\ \A h \in Hooks : age[h] > 0 => age'[h] = age[h]
        /\ \A n \in Loaded, s \in Symbols :
              /\ n = m /\ Rebound(rs, s) => want'[n][s] = Replacement(rs, s)
              /\ ~(n = m /\ Rebound(rs, s)) => want'[n][s] = want[n][s]
              /\ want'[n][s] \in Hooks => age'[want'[n][s]] > 0
        /\ AgesOK' /\ SlotsOK'
    BY <1>0, <2>1, AskKeeps
  <2>8. \A s \in Symbols : Everywhere(s) => ~Rebound(rs, s)
    BY DEF Conditions, Separate, InOneImage
  <2>9. HeadOK'
    <3>1. \A h \in HooksOf(rebindings_head) : h \in Hooks /\ age[h] > 0
      BY ReplacementFacts DEF IInv, HeadOK, TypeInv, TypeOK
    <3>. QED BY <2>1, <2>7, <3>1 DEF IInv, HeadOK
  <2>10. WantOK'
    <3>1. \A n \in Loaded, s \in Symbols : Everywhere(s) =>
            want'[n][s] = Replacement(rebindings_head, s)
      BY <2>7, <2>8 DEF IInv, WantOK
    <3>2. rebindings_head' = rebindings_head BY <2>1
    <3>. QED BY <2>5, <2>7, <3>1, <3>2 DEF WantOK
  <2>11. \A s \in Matching(m, rs) : Rebound(rs, s) /\ s \in Imports[m] /\ s \in Symbols
    BY MatchingFacts DEF IInv
  <2>12. WalkOK' BY <2>1, <2>4, <2>5, <2>7, <2>11 DEF WalkOK
  <2>13. PendingOK'
    <3>. SUFFICES ASSUME NEW n \in Loaded \ (Skipped \union ReadOnly), NEW s \in Imports[n]
                  PROVE  slots[n][s] = want'[n][s] \/ Pending(n, s)'
      BY <2>1, <2>5 DEF PendingOK
    <3>1. s \in Symbols /\ slots[n][s] = want[n][s] BY <2>3, <2>5
    <3>2. CASE n = m /\ Rebound(rs, s)
      <4>1. s \in Matching(m, rs) BY <3>2 DEF Matching
      <4>. QED BY <1>0, <2>4, <3>2, <4>1 DEF Pending
    <3>3. CASE ~(n = m /\ Rebound(rs, s)) BY <2>7, <3>1, <3>3
    <3>. QED BY <3>2, <3>3
  <2>14. SavedOK' BY <2>1, <2>4 DEF IInv, SavedOK
  <2>. QED BY <2>2, <2>6, <2>7, <2>9, <2>10, <2>12, <2>13, <2>14 DEF IInv
<1>. QED BY <1>1, <1>2

LEMMA StepNextImage ==
  ASSUME IInv, NextImage PROVE IInv'
<1>. DEFINE m == images[i + 1]
<1>1. /\ pc["rebinder"] = "next" /\ pc["loader"] = "idle" /\ c = Len(images) /\ i < c
      /\ i \in Nat /\ c \in Nat /\ images \in Seq(Images)
      /\ rebindings_head \in Seq(Rebindings) /\ "rebinder" \in Threads
  BY DEF NextImage, IInv, OneAtATime, TypeInv, TypeOK, Threads
<1>2. /\ i' = i + 1 /\ pc' = [pc EXCEPT !["rebinder"] = "slots"]
      /\ at' = [at EXCEPT !["rebinder"] = m] /\ using' = [using EXCEPT !["rebinder"] = rebindings_head]
      /\ left' = [left EXCEPT !["rebinder"] = Matching(m, rebindings_head)]
      /\ UNCHANGED <<rebindings_head, registered, images, slots, replaced, c, made, want, age>>
  BY <1>1 DEF NextImage, Walk, list, history
<1>3. m \in Loaded BY <1>1 DEF Loaded
<1>4. Loaded' = Loaded BY <1>2 DEF Loaded
<1>. HIDE DEF m
<1>5. /\ pc'["rebinder"] = "slots" /\ pc'["loader"] = "idle" /\ Walking("rebinder")'
      /\ at'["rebinder"] = m /\ using'["rebinder"] = rebindings_head
      /\ left'["rebinder"] = Matching(m, rebindings_head)
      /\ \A t \in Threads : Walking(t)' => t = "rebinder"
      /\ \A t \in Threads : ~Walking(t) /\ pc'[t] # "write"
  BY <1>1, <1>2 DEF IInv, TypeInv, TypeOK, Threads, Walking
<1>6. TypeInv' BY TypeNextImage DEF IInv
<1>7. HeadOK' /\ WantOK' /\ SlotsOK' /\ AgesOK' BY <1>2, Kept, KeptSlots
<1>8. OneAtATime' BY <1>1, <1>2, <1>5 DEF OneAtATime
<1>9. \A s \in Matching(m, rebindings_head) :
        Rebound(rebindings_head, s) /\ s \in Imports[m] /\ s \in Symbols
  BY MatchingFacts DEF IInv
<1>10. WalkOK'
  <2>1. \A s \in Matching(m, rebindings_head) : Replacement(rebindings_head, s) = want[m][s]
    BY <1>3, <1>9 DEF IInv, HeadOK, WantOK
  <2>. QED BY <1>2, <1>3, <1>4, <1>5, <1>9, <2>1 DEF WalkOK
<1>11. PendingOK'
  <2>. SUFFICES ASSUME NEW n \in Loaded \ (Skipped \union ReadOnly), NEW s \in Imports[n],
                       slots[n][s] # want[n][s]
                PROVE  Pending(n, s)'
    BY <1>2, <1>4 DEF PendingOK
  <2>1. Rebound(rebindings_head, s) /\ \E k \in i + 1 .. c : images[k] = n
    BY <1>1, <1>5 DEF IInv, PendingOK, Pending
  <2>2. PICK k \in i + 1 .. c : images[k] = n BY <2>1
  <2>3. CASE k = i + 1
    <3>1. n = m BY <2>2, <2>3 DEF m
    <3>2. s \in Matching(m, rebindings_head) BY <2>1, <3>1 DEF Matching
    <3>. QED BY <1>1, <1>5, <3>1, <3>2 DEF Pending
  <2>4. CASE k # i + 1
    <3>1. k \in i' + 1 .. c' /\ images'[k] = n BY <1>1, <1>2, <2>2, <2>4
    <3>2. Rebound(rebindings_head', s) BY <1>2, <2>1
    <3>. QED BY <1>5, <3>1, <3>2 DEF Pending
  <2>. QED BY <2>3, <2>4
<1>12. SavedOK' BY <1>2, <1>5 DEF IInv, SavedOK
<1>. QED BY <1>6, <1>7, <1>8, <1>10, <1>11, <1>12 DEF IInv

LEMMA StepReturn ==
  ASSUME IInv, Return PROVE IInv'
<1>1. /\ pc["rebinder"] = "next" /\ pc["loader"] = "idle" /\ i = c /\ c \in Nat
      /\ pc' = [pc EXCEPT !["rebinder"] = "idle"]
      /\ UNCHANGED <<rebindings_head, registered, images, slots, replaced, at, using, left, made, want, age>>
  BY DEF Return, IInv, OneAtATime, TypeInv, TypeOK, list, walk, history
<1>2. /\ pc'["rebinder"] = "idle" /\ pc'["loader"] = "idle"
      /\ \A t \in Threads : ~Walking(t) /\ ~Walking(t)' /\ pc'[t] # "write"
  BY <1>1 DEF IInv, TypeInv, TypeOK, Threads, Walking
<1>3. TypeInv' BY TypeReturn DEF IInv
<1>4. HeadOK' /\ WantOK' /\ SlotsOK' /\ AgesOK' BY <1>1, Kept, KeptSlots
<1>5. OneAtATime' BY <1>2 DEF OneAtATime
<1>6. WalkOK' BY <1>2 DEF WalkOK
<1>7. \A n, s : ~Pending(n, s) BY <1>1, <1>2 DEF Pending
<1>8. Loaded' = Loaded BY <1>1 DEF Loaded
<1>9. PendingOK' BY <1>1, <1>7, <1>8 DEF IInv, PendingOK
<1>10. SavedOK' BY <1>1, <1>2 DEF IInv, SavedOK
<1>. QED BY <1>3, <1>4, <1>5, <1>6, <1>9, <1>10 DEF IInv

LEMMA StepCallback ==
  ASSUME IInv, Callback PROVE IInv'
<1>. DEFINE m == at["loader"]
<1>1. /\ pc["rebinder"] = "idle" /\ pc["loader"] = "callback" /\ m \in Loaded
      /\ rebindings_head \in Seq(Rebindings) /\ "loader" \in Threads
  BY DEF Callback, IInv, OneAtATime, Threads, TypeInv, TypeOK
<1>2. /\ pc' = [pc EXCEPT !["loader"] = "slots"]
      /\ at' = [at EXCEPT !["loader"] = m] /\ using' = [using EXCEPT !["loader"] = rebindings_head]
      /\ left' = [left EXCEPT !["loader"] = Matching(m, rebindings_head)]
      /\ UNCHANGED <<rebindings_head, registered, images, slots, replaced, made, want, age>>
  BY DEF Callback, Walk, list, history
<1>4. Loaded' = Loaded BY <1>2 DEF Loaded
<1>5. /\ pc'["loader"] = "slots" /\ pc'["rebinder"] = "idle" /\ Walking("loader")'
      /\ at'["loader"] = m /\ using'["loader"] = rebindings_head
      /\ left'["loader"] = Matching(m, rebindings_head)
      /\ \A t \in Threads : Walking(t)' => t = "loader"
      /\ \A t \in Threads : ~Walking(t) /\ pc'[t] # "write"
  BY <1>1, <1>2 DEF IInv, TypeInv, TypeOK, Threads, Walking
<1>. HIDE DEF m
<1>6. TypeInv' BY TypeCallback DEF IInv
<1>7. HeadOK' /\ WantOK' /\ SlotsOK' /\ AgesOK' BY <1>2, Kept, KeptSlots
<1>8. OneAtATime' BY <1>5 DEF OneAtATime
<1>9. \A s \in Matching(m, rebindings_head) :
        Rebound(rebindings_head, s) /\ s \in Imports[m] /\ s \in Symbols
  BY MatchingFacts DEF IInv
<1>10. WalkOK'
  <2>1. \A s \in Matching(m, rebindings_head) : Replacement(rebindings_head, s) = want[m][s]
    BY <1>1, <1>9 DEF IInv, HeadOK, WantOK
  <2>. QED BY <1>1, <1>2, <1>4, <1>5, <1>9, <2>1 DEF WalkOK
<1>11. PendingOK'
  <2>. SUFFICES ASSUME NEW n \in Loaded \ (Skipped \union ReadOnly), NEW s \in Imports[n],
                       slots[n][s] # want[n][s]
                PROVE  Pending(n, s)'
    BY <1>2, <1>4 DEF PendingOK
  <2>1. n = m /\ Rebound(rebindings_head, s)
    BY <1>1, <1>5 DEF IInv, PendingOK, Pending, m
  <2>2. s \in Matching(m, rebindings_head) BY <2>1 DEF Matching
  <2>. QED BY <1>1, <1>5, <2>1, <2>2 DEF Pending
<1>12. SavedOK' BY <1>2, <1>5 DEF IInv, SavedOK
<1>. QED BY <1>6, <1>7, <1>8, <1>10, <1>11, <1>12 DEF IInv

(* What is still to be rewritten is bound to what came before it. *)
LEMMA WalksDown ==
  ASSUME IInv, NEW t \in Threads, Walking(t), NEW s \in left[t]
  PROVE  /\ at[t] \in Loaded /\ at[t] \in Images /\ s \in Symbols /\ s \in Imports[at[t]]
         /\ Replacement(using[t], s) \in Hooks /\ Replacement(using[t], s) = want[at[t]][s]
         /\ age[Replacement(using[t], s)] > 0
         /\ slots[at[t]][s] \in Functions
         /\ slots[at[t]][s] \in Hooks /\ slots[at[t]][s] # Replacement(using[t], s) =>
              /\ 0 < age[slots[at[t]][s]]
              /\ age[slots[at[t]][s]] < age[Replacement(using[t], s)]
<1>1. /\ at[t] \in Images /\ s \in Symbols /\ Replacement(using[t], s) \in Hooks
      /\ slots[at[t]][s] \in Functions
  BY WalkFacts DEF IInv
<1>2. at[t] \in Loaded /\ s \in Imports[at[t]] /\ Replacement(using[t], s) = want[at[t]][s]
  BY DEF IInv, WalkOK
<1>3. age[want[at[t]][s]] > 0 BY <1>1, <1>2 DEF IInv, WantOK
<1>4. slots[at[t]][s] \in Hooks /\ slots[at[t]][s] # want[at[t]][s] =>
        0 < age[slots[at[t]][s]] /\ age[slots[at[t]][s]] < age[want[at[t]][s]]
  <2>1. age \in [Hooks -> Nat] BY DEF IInv, TypeInv, TypeOK
  <2>. QED BY <1>1, <1>2, <2>1 DEF IInv, SlotsOK
<1>. QED BY <1>1, <1>2, <1>3, <1>4

LEMMA StepSaveSlot ==
  ASSUME IInv, NEW t \in Threads, NEW s \in Symbols, SaveSlot(t, s) PROVE IInv'
<1>. DEFINE h == Replacement(using[t], s)
            now == slots[at[t]][s]
<1>1. /\ pc[t] = "slots" /\ s \in left[t] /\ Walking(t)
      /\ pc' = [pc EXCEPT ![t] = "write"] /\ name' = [name EXCEPT ![t] = s]
      /\ replaced' = IF h \notin Silent /\ now # h THEN [replaced EXCEPT ![h] = now] ELSE replaced
      /\ UNCHANGED <<rebindings_head, registered, images, slots, at, using, left, i, c, made, want, age>>
  BY DEF SaveSlot, Save, Walking, list, loop, history
<1>2. /\ h \in Hooks /\ h = want[at[t]][s] /\ age[h] > 0 /\ now \in Functions
      /\ now \in Hooks /\ now # h => 0 < age[now] /\ age[now] < age[h]
      /\ at[t] \in Images
  BY <1>1, WalksDown
<1>3. now # None /\ now = slots[at[t]][s] BY <1>2
<1>. HIDE DEF h, now
<1>4. TypeInv' BY TypeSaveSlot DEF IInv
<1>5. HeadOK' /\ WantOK' BY <1>1, Kept
<1>6. Loaded' = Loaded BY <1>1 DEF Loaded
<1>7. pc'[t] = "write" /\ \A u \in Threads : (u # t => pc'[u] = pc[u]) /\ Walking(u)' = Walking(u)
  BY <1>1 DEF IInv, TypeInv, TypeOK, Walking
<1>8. OneAtATime' BY <1>1, <1>6, <1>7 DEF IInv, OneAtATime, Threads
<1>9. WalkOK'
  <2>1. \A u \in Threads : \A x : Replacement(using'[u], x) = Replacement(using[u], x) BY <1>1
  <2>. QED BY <1>1, <1>6, <1>7, <2>1 DEF IInv, WalkOK
<1>10. PendingOK'
  <2>. SUFFICES ASSUME NEW n \in Loaded \ (Skipped \union ReadOnly), NEW x \in Imports[n],
                       Pending(n, x)
                PROVE  Pending(n, x)'
    BY <1>1, <1>6 DEF IInv, PendingOK
  <2>1. pc["rebinder"] # "idle" => pc'["rebinder"] # "idle" BY <1>7 DEF Threads
  <2>2. pc["loader"] = "callback" => pc'["loader"] = "callback" BY <1>1, <1>7 DEF Threads
  <2>. QED BY <1>1, <1>7, <2>1, <2>2 DEF Pending
<1>11. SlotsOK' BY <1>1, <1>6 DEF IInv, SlotsOK
<1>12. \A x \in Hooks : replaced'[x] = replaced[x] \/ (x = h /\ replaced'[x] = now /\ now # h)
  BY <1>1 DEF IInv, TypeInv, TypeOK
<1>13. AgesOK'
  <2>. SUFFICES ASSUME NEW x \in Hooks
                PROVE  /\ age[x] <= made
                       /\ age[x] = 0 => replaced'[x] = None
                       /\ replaced'[x] \in Hooks => 0 < age[replaced'[x]] /\ age[replaced'[x]] < age[x]
    BY <1>1 DEF AgesOK
  <2>1. CASE replaced'[x] = replaced[x] BY <2>1 DEF IInv, AgesOK
  <2>2. CASE x = h /\ replaced'[x] = now /\ now # h
    <3>1. age[x] <= made BY DEF IInv, AgesOK
    <3>2. age[x] # 0 BY <1>2, <2>2
    <3>. QED BY <1>2, <2>2, <3>1, <3>2
  <2>. QED BY <1>12, <2>1, <2>2
<1>14. SavedOK'
  <2>1. \A x \in Hooks : replaced[x] # None => replaced'[x] # None BY <1>3, <1>12
  <2>2. \A n \in Images, x \in Symbols :
          slots[n][x] \in Hooks \ Silent => replaced'[slots[n][x]] # None
    BY <2>1 DEF IInv, SavedOK
  <2>3. ASSUME h \notin Silent PROVE replaced'[h] # None
    <3>1. CASE now # h
      <4>1. replaced'[h] = now BY <1>1, <1>2, <2>3, <3>1 DEF IInv, TypeInv, TypeOK
      <4>. QED BY <1>3, <4>1
    <3>2. CASE now = h BY <1>2, <1>3, <2>2, <2>3, <3>2
    <3>. QED BY <3>1, <3>2
  <2>4. ASSUME NEW u \in Threads, pc'[u] = "write", Replacement(using'[u], name'[u]) \in Hooks \ Silent
        PROVE  replaced'[Replacement(using'[u], name'[u])] # None
    <3>1. CASE u = t
      <4>1. name'[u] = s /\ using'[u] = using[t] BY <1>1, <3>1 DEF IInv, TypeInv, TypeOK
      <4>2. Replacement(using'[u], name'[u]) = h BY <4>1 DEF h
      <4>. QED BY <2>3, <2>4, <4>2
    <3>2. CASE u # t
      <4>1. name'[u] = name[u] /\ using'[u] = using[u] /\ pc[u] = "write"
        BY <1>1, <1>7, <2>4, <3>2 DEF IInv, TypeInv, TypeOK
      <4>2. Replacement(using'[u], name'[u]) = Replacement(using[u], name[u]) BY <4>1
      <4>3. replaced[Replacement(using[u], name[u])] # None
        BY <2>4, <4>1, <4>2 DEF IInv, SavedOK
      <4>. QED BY <2>1, <2>4, <4>2, <4>3
    <3>. QED BY <3>1, <3>2
  <2>. QED BY <1>1, <2>2, <2>4 DEF SavedOK
<1>. QED BY <1>4, <1>5, <1>8, <1>9, <1>10, <1>11, <1>13, <1>14 DEF IInv

LEMMA StepWriteSlot ==
  ASSUME IInv, NEW t \in Threads, WriteSlot(t) PROVE IInv'
<1>. DEFINE s == name[t]
            m == at[t]
            h == Replacement(using[t], s)
<1>1. /\ pc[t] = "write" /\ Walking(t) /\ s \in left[t]
      /\ pc' = [pc EXCEPT ![t] = "slots"] /\ left' = [left EXCEPT ![t] = @ \ {s}]
      /\ slots' = IF m \in ReadOnly THEN slots ELSE [slots EXCEPT ![m][s] = h]
      /\ UNCHANGED <<rebindings_head, registered, images, replaced, at, using, name, i, c, made, want, age>>
  BY DEF WriteSlot, Walking, list, loop, history, IInv, TypeInv, WalkType
<1>2. /\ h \in Hooks /\ h = want[m][s] /\ age[h] > 0 /\ m \in Images /\ s \in Symbols
  BY <1>1, WalksDown
<1>3. h \notin Silent => replaced[h] # None BY <1>1, <1>2 DEF IInv, SavedOK
<1>. HIDE DEF h
<1>4. TypeInv' BY TypeWriteSlot DEF IInv
<1>5. HeadOK' /\ WantOK' BY <1>1, Kept
<1>6. Loaded' = Loaded /\ Loaded \subseteq Images
  <2>1. Loaded \subseteq Images BY DEF IInv, TypeInv, TypeOK, Loaded
  <2>. QED BY <1>1, <2>1 DEF Loaded
<1>7. /\ pc'[t] = "slots" /\ left'[t] = left[t] \ {s}
      /\ \A u \in Threads : /\ u # t => pc'[u] = pc[u] /\ left'[u] = left[u]
                            /\ Walking(u)' = Walking(u) /\ left'[u] \subseteq left[u]
  BY <1>1 DEF IInv, TypeInv, TypeOK, Walking
<1>8. \A n \in Images, x \in Symbols :
        slots'[n][x] = slots[n][x] \/ (n = m /\ x = s /\ slots'[n][x] = h)
  BY <1>1, <1>2 DEF IInv, TypeInv, TypeOK
<1>9. m \notin ReadOnly => slots'[m][s] = h BY <1>1, <1>2 DEF IInv, TypeInv, TypeOK
<1>. HIDE DEF s, m
<1>10. OneAtATime' BY <1>1, <1>6, <1>7 DEF IInv, OneAtATime, Threads
<1>11. WalkOK'
  <2>1. \A u \in Threads : \A x : Replacement(using'[u], x) = Replacement(using[u], x) BY <1>1
  <2>. QED BY <1>1, <1>6, <1>7, <2>1 DEF IInv, WalkOK
<1>12. PendingOK'
  <2>. SUFFICES ASSUME NEW n \in Loaded \ (Skipped \union ReadOnly), NEW x \in Imports[n]
                PROVE  slots'[n][x] = want[n][x] \/ Pending(n, x)'
    BY <1>1, <1>6 DEF PendingOK
  <2>0. n \in Images /\ x \in Symbols BY <1>6
  <2>1. CASE n = m /\ x = s BY <1>2, <1>9, <2>1
  <2>2. CASE ~(n = m /\ x = s)
    <3>1. slots'[n][x] = slots[n][x] BY <1>8, <2>0, <2>2
    <3>2. CASE slots[n][x] = want[n][x] BY <3>1, <3>2
    <3>3. CASE Pending(n, x)
      <4>1. pc["rebinder"] # "idle" => pc'["rebinder"] # "idle" BY <1>7 DEF Threads
      <4>2. pc["loader"] = "callback" => pc'["loader"] = "callback" BY <1>1, <1>7 DEF Threads
      <4>3. \A u \in Threads : Walking(u) /\ at[u] = n /\ x \in left[u] => x \in left'[u]
        BY <1>7, <2>2 DEF m
      <4>. QED BY <1>1, <1>7, <3>3, <4>1, <4>2, <4>3 DEF Pending
    <3>. QED BY <3>2, <3>3 DEF IInv, PendingOK
  <2>. QED BY <2>1, <2>2
<1>13. SlotsOK'
  <2>. SUFFICES ASSUME NEW n \in Loaded, NEW x \in Symbols, slots'[n][x] \in Hooks
                PROVE  /\ age[slots'[n][x]] > 0
                       /\ slots'[n][x] = want[n][x]
                            \/ (want[n][x] \in Hooks /\ age[slots'[n][x]] < age[want[n][x]])
    BY <1>1, <1>6 DEF SlotsOK
  <2>1. CASE slots'[n][x] = slots[n][x] BY <2>1 DEF IInv, SlotsOK
  <2>2. CASE n = m /\ x = s /\ slots'[n][x] = h BY <1>2, <2>2
  <2>. QED BY <1>6, <1>8, <2>1, <2>2
<1>14. AgesOK' BY <1>1 DEF IInv, AgesOK
<1>15. SavedOK'
  <2>1. \A n \in Images, x \in Symbols :
          slots'[n][x] \in Hooks \ Silent => replaced[slots'[n][x]] # None
    BY <1>3, <1>8 DEF IInv, SavedOK
  <2>2. ASSUME NEW u \in Threads, pc'[u] = "write", Replacement(using'[u], name'[u]) \in Hooks \ Silent
        PROVE  replaced[Replacement(using[u], name[u])] # None
    <3>1. pc[u] = "write" BY <1>7, <2>2
    <3>2. Replacement(using'[u], name'[u]) = Replacement(using[u], name[u]) BY <1>1
    <3>. QED BY <2>2, <3>1, <3>2 DEF IInv, SavedOK
  <2>. QED BY <1>1, <2>1, <2>2 DEF SavedOK
<1>. QED BY <1>4, <1>5, <1>10, <1>11, <1>12, <1>13, <1>14, <1>15 DEF IInv

LEMMA StepLeave ==
  ASSUME IInv, NEW t \in Threads, Leave(t) PROVE IInv'
<1>1. /\ pc[t] = "slots" /\ left[t] = {} /\ Walking(t)
      /\ pc' = [pc EXCEPT ![t] = IF t = "rebinder" THEN "next" ELSE "idle"]
      /\ at' = [at EXCEPT ![t] = None]
      /\ UNCHANGED <<rebindings_head, registered, images, slots, replaced, using, left, name, i, c,
                     made, want, age>>
  BY DEF Leave, Walking, list, loop, history
<1>2. TypeInv' BY TypeLeave DEF IInv
<1>3. HeadOK' /\ WantOK' /\ SlotsOK' /\ AgesOK' BY <1>1, Kept, KeptSlots
<1>4. Loaded' = Loaded BY <1>1 DEF Loaded
<1>5. /\ pc'[t] = (IF t = "rebinder" THEN "next" ELSE "idle") /\ ~Walking(t)'
      /\ \A u \in Threads : u # t => pc'[u] = pc[u] /\ at'[u] = at[u] /\ Walking(u)' = Walking(u)
      /\ \A u \in Threads : pc'[u] = "write" => pc[u] = "write"
  BY <1>1 DEF IInv, TypeInv, TypeOK, Walking
<1>6. OneAtATime' BY <1>1, <1>4, <1>5 DEF IInv, OneAtATime, Threads
<1>7. WalkOK'
  <2>1. \A u \in Threads : \A x : Replacement(using'[u], x) = Replacement(using[u], x) BY <1>1
  <2>. QED BY <1>1, <1>4, <1>5, <2>1 DEF IInv, WalkOK
<1>8. PendingOK'
  <2>. SUFFICES ASSUME NEW n \in Loaded \ (Skipped \union ReadOnly), NEW x \in Imports[n],
                       Pending(n, x)
                PROVE  Pending(n, x)'
    BY <1>1, <1>4 DEF IInv, PendingOK
  <2>1. pc["rebinder"] # "idle" => pc'["rebinder"] # "idle" BY <1>5 DEF Threads
  <2>2. pc["loader"] = "callback" => pc'["loader"] = "callback" /\ at'["loader"] = at["loader"]
    BY <1>1, <1>5 DEF Threads
  <2>3. \A u \in Threads : x \in left[u] => u # t BY <1>1
  <2>. QED BY <1>1, <1>5, <2>1, <2>2, <2>3 DEF Pending
<1>9. SavedOK'
  <2>1. \A u \in Threads : Replacement(using'[u], name'[u]) = Replacement(using[u], name[u]) BY <1>1
  <2>. QED BY <1>1, <1>5, <2>1 DEF IInv, SavedOK
<1>. QED BY <1>2, <1>3, <1>6, <1>7, <1>8, <1>9 DEF IInv

LEMMA StepLoad ==
  ASSUME Conditions, IInv, NEW m \in Images, Load(m) PROVE IInv'
<1>1. /\ Quiet /\ m \notin Loaded /\ images' = Append(images, m)
      /\ slots' = [slots EXCEPT ![m] = Genuine]
      /\ want' = [want EXCEPT ![m] = [s \in Symbols |-> Replacement(rebindings_head, s)]]
      /\ at' = [at EXCEPT !["loader"] = m]
      /\ pc' = IF registered THEN [pc EXCEPT !["loader"] = "callback"] ELSE pc
      /\ UNCHANGED <<rebindings_head, registered, replaced, i, c, made, age>>
  BY DEF Load, May, Conditions, list, loop
<1>2. /\ \A t \in Threads : ~Walking(t) /\ pc[t] = "idle"
      /\ pc["rebinder"] = "idle" /\ pc["loader"] = "idle"
      /\ \A n \in Loaded \ (Skipped \union ReadOnly) : \A s \in Imports[n] :
            slots[n][s] = want[n][s]
  BY <1>1, NobodyWalks
<1>3. /\ pc'["rebinder"] = "idle" /\ at'["loader"] = m
      /\ registered => pc'["loader"] = "callback"
      /\ \A t \in Threads : ~Walking(t)' /\ pc'[t] # "write"
  BY <1>1, <1>2 DEF IInv, TypeInv, TypeOK, Threads, Walking
<1>4. TypeInv' BY TypeLoad DEF IInv
<1>5. Loaded' = Loaded \union {m} /\ Loaded \subseteq Images
  <2>0. images \in Seq(Images) BY DEF IInv, TypeInv, TypeOK
  <2>1. Loaded \subseteq Images BY <2>0 DEF Loaded
  <2>2. /\ DOMAIN images' = 1 .. Len(images) + 1 /\ DOMAIN images = 1 .. Len(images)
        /\ images'[Len(images) + 1] = m /\ Len(images) \in Nat
        /\ \A k \in DOMAIN images : k \in DOMAIN images' /\ images'[k] = images[k]
        /\ \A k \in DOMAIN images' : k \in DOMAIN images \/ k = Len(images) + 1
    BY <1>1, <2>0
  <2>. QED BY <2>1, <2>2 DEF Loaded
<1>6. /\ \A n \in Loaded, s \in Symbols : n # m /\ slots'[n][s] = slots[n][s] /\ want'[n][s] = want[n][s]
      /\ \A s \in Symbols : slots'[m][s] = s /\ want'[m][s] = Replacement(rebindings_head, s)
  BY <1>1, <1>5 DEF IInv, TypeInv, TypeOK, Genuine
<1>7. \A n \in Images, s \in Symbols : slots'[n][s] = slots[n][s] \/ slots'[n][s] = s
  BY <1>1 DEF IInv, TypeInv, TypeOK, Genuine
<1>8. \A s : /\ Rebound(rebindings_head, s) => Replacement(rebindings_head, s) \in HooksOf(rebindings_head)
             /\ ~Rebound(rebindings_head, s) => Replacement(rebindings_head, s) = s
  BY ReplacementFacts DEF IInv, TypeInv, TypeOK
<1>9. OneAtATime' BY <1>3, <1>5 DEF OneAtATime
<1>10. HeadOK'
  <2>1. \A s : Rebound(rebindings_head', s) <=> Rebound(rebindings_head, s) BY <1>1
  <2>2. HooksOf(rebindings_head') = HooksOf(rebindings_head) BY <1>1
  <2>. QED BY <1>1, <2>1, <2>2 DEF IInv, HeadOK
<1>11. WantOK'
  <2>1. \A s : Replacement(rebindings_head', s) = Replacement(rebindings_head, s) BY <1>1
  <2>2. \A s \in Symbols : Replacement(rebindings_head, s) \in Hooks =>
          age[Replacement(rebindings_head, s)] > 0
    BY <1>8, Kinds DEF IInv, HeadOK
  <2>3. \A s \in Symbols : /\ want'[m][s] = Replacement(rebindings_head', s)
                           /\ want'[m][s] \in Hooks => age'[want'[m][s]] > 0
    BY <1>1, <1>6, <2>1, <2>2
  <2>4. \A n \in Loaded, s \in Symbols :
          /\ Everywhere(s) => want'[n][s] = Replacement(rebindings_head', s)
          /\ want'[n][s] \in Hooks => age'[want'[n][s]] > 0
    BY <1>1, <1>6, <2>1 DEF IInv, WantOK
  <2>. QED BY <1>5, <2>3, <2>4 DEF WantOK
<1>12. WalkOK' BY <1>3 DEF WalkOK
<1>13. PendingOK'
  <2>. SUFFICES ASSUME NEW n \in Loaded' \ (Skipped \union ReadOnly), NEW s \in Imports[n]
                PROVE  slots'[n][s] = want'[n][s] \/ Pending(n, s)'
    BY DEF PendingOK
  <2>0. s \in Symbols BY <1>5
  <2>1. CASE n # m BY <1>2, <1>5, <1>6, <2>0, <2>1
  <2>2. CASE n = m /\ Rebound(rebindings_head, s)
    <3>1. registered BY <2>0, <2>2 DEF IInv, HeadOK
    <3>2. Rebound(rebindings_head', s) BY <1>1, <2>2
    <3>. QED BY <1>3, <2>2, <3>1, <3>2 DEF Pending
  <2>3. CASE n = m /\ ~Rebound(rebindings_head, s) BY <1>6, <1>8, <2>0, <2>3
  <2>. QED BY <2>1, <2>2, <2>3
<1>14. SlotsOK' BY <1>1, <1>5, <1>6, Kinds DEF IInv, SlotsOK
<1>15. AgesOK' BY <1>1 DEF IInv, AgesOK
<1>16. SavedOK' BY <1>1, <1>3, <1>7, Kinds DEF IInv, SavedOK
<1>. QED BY <1>4, <1>9, <1>10, <1>11, <1>12, <1>13, <1>14, <1>15, <1>16 DEF IInv

LEMMA StepUnload ==
  ASSUME Conditions, IInv, NEW m \in Images, Unload(m) PROVE IInv'
<1>1. /\ Quiet /\ Loaded' \subseteq Loaded
      /\ UNCHANGED <<rebindings_head, registered, slots, replaced, pc, at, using, left, name, made, want, age>>
  BY UnloadFacts DEF May, Conditions, IInv, list, walk, history
<1>2. /\ \A t \in Threads : ~Walking(t) /\ pc[t] = "idle"
      /\ pc["rebinder"] = "idle" /\ pc["loader"] = "idle"
      /\ \A n \in Loaded \ (Skipped \union ReadOnly) : \A s \in Imports[n] :
            slots[n][s] = want[n][s]
  BY <1>1, NobodyWalks
<1>3. \A t \in Threads : ~Walking(t)' /\ pc'[t] = "idle" BY <1>1, <1>2 DEF Walking
<1>4. TypeInv' BY TypeUnload DEF IInv
<1>5. OneAtATime' BY <1>1, <1>2 DEF OneAtATime
<1>6. /\ \A s : Rebound(rebindings_head', s) <=> Rebound(rebindings_head, s)
      /\ \A s : Replacement(rebindings_head', s) = Replacement(rebindings_head, s)
      /\ HooksOf(rebindings_head') = HooksOf(rebindings_head)
  BY <1>1
<1>7. HeadOK' BY <1>1, <1>6 DEF IInv, HeadOK
<1>8. WantOK' BY <1>1, <1>6 DEF IInv, WantOK
<1>9. WalkOK' BY <1>3 DEF WalkOK
<1>10. PendingOK' BY <1>1, <1>2 DEF PendingOK
<1>11. SlotsOK' BY <1>1 DEF IInv, SlotsOK
<1>12. AgesOK' BY <1>1 DEF IInv, AgesOK
<1>13. SavedOK' BY <1>1, <1>3 DEF IInv, SavedOK
<1>. QED BY <1>4, <1>5, <1>7, <1>8, <1>9, <1>10, <1>11, <1>12, <1>13 DEF IInv

LEMMA NextIInv == Conditions /\ IInv /\ [Next]_vars => IInv'
<1>. SUFFICES ASSUME Conditions, IInv, [Next]_vars PROVE IInv' OBVIOUS
<1>1. ASSUME NEW t \in Threads, Rewrite(t) PROVE IInv'
  BY <1>1, StepLeave, StepWriteSlot, StepSaveSlot DEF Rewrite
<1>2. CASE Rebinder BY <1>1, <1>2, StepNextImage, StepReturn DEF Rebinder, Threads
<1>3. CASE Loader BY <1>1, <1>3, StepCallback DEF Loader, Threads
<1>4. CASE UNCHANGED vars
  <2>. USE <1>4 DEF vars, list, walk, loop, history
  <2>1. TypeInv' BY TypeStep DEF IInv
  <2>2. HeadOK' /\ WantOK' /\ SlotsOK' /\ AgesOK' BY Kept, KeptSlots
  <2>3. Loaded' = Loaded BY DEF Loaded
  <2>4. OneAtATime' BY <2>3 DEF IInv, OneAtATime
  <2>5. WalkOK' BY <2>3, SameWalk DEF IInv
  <2>6. PendingOK' BY <2>3 DEF IInv, PendingOK, Pending, Walking, Rebound
  <2>7. SavedOK' BY DEF IInv, SavedOK
  <2>. QED BY <2>1, <2>2, <2>4, <2>5, <2>6, <2>7 DEF IInv
<1>. QED BY <1>2, <1>3, <1>4, StepRebindSymbols, StepRebindSymbolsImage, StepLoad, StepUnload
     DEF Next, Begin, WrongSlide, Conditions

LEMMA Invariant == ASSUME Conditions PROVE Spec => []IInv
<1>1. IInv /\ [Next]_vars => IInv' BY NextIInv
<1>. QED BY <1>1, InitIInv, PTL DEF Spec

(* Whatever images came and went and whatever calls were made before, the  *)
(* names of every image are bound as the last call for them asked, between *)
(* calls and loads.                                                        *)
THEOREM BoundAsAsked == ASSUME Conditions PROVE Spec => []LatestWins
<1>1. IInv => LatestWins BY NobodyWalks DEF LatestWins, AsAsked
<1>. QED BY <1>1, Invariant, PTL

(* At every moment, and from every hook that is bound, the chain of saved  *)
(* functions goes to ever older hooks, so it ends at the genuine one.      *)
THEOREM ChainsEnd == ASSUME Conditions PROVE Spec => []OriginalReached
<1>1. IInv => OriginalReached BY DEF IInv, SavedOK, AgesOK, OriginalReached
<1>. QED BY <1>1, Invariant, PTL
-----------------------------------------------------------------------------
(* The images that stay, while others come and go during the calls. *)
Stays == {Resident[k] : k \in DOMAIN Resident}

(* Those that come and go do so behind them in dyld's list. *)
FirstInList ==
  /\ Len(Resident) <= Len(images)
  /\ \A k \in DOMAIN Resident : images[k] = Resident[k]

(* What the calls for all images asked for is what the list finds first. *)
StaysWant ==
  /\ \A s \in Symbols : Rebound(rebindings_head, s) => Everywhere(s)
  /\ \A m \in Stays, s \in Symbols : Everywhere(s) => want[m][s] = Replacement(rebindings_head, s)

(* Only the caller rewrites them, with what was asked for last. *)
StaysWalk ==
  /\ at["loader"] \notin Stays
  /\ Walking("rebinder") /\ at["rebinder"] \in Stays =>
       \A s \in left["rebinder"] :
         Replacement(using["rebinder"], s) = want[at["rebinder"]][s]

(* A name not bound as asked is being rewritten, or its image is still to  *)
(* come in the loop.                                                       *)
ToCome(m, s) ==
  /\ pc["rebinder"] # "idle" /\ Rebound(rebindings_head, s)
  /\ \E k \in i + 1 .. c : k \in DOMAIN Resident /\ Resident[k] = m

InHand(m, s) == Walking("rebinder") /\ at["rebinder"] = m /\ s \in left["rebinder"]

StaysPending ==
  \A m \in Stays \ (Skipped \union ReadOnly) : \A s \in Imports[m] :
    slots[m][s] = want[m][s] \/ ToCome(m, s) \/ InHand(m, s)

StaysInv == TypeInv /\ FirstInList /\ StaysWant /\ StaysWalk /\ StaysPending

LEMMA StaysFacts ==
  ASSUME TypeInv, FirstInList
  PROVE  /\ Stays \subseteq Loaded /\ Loaded \subseteq Images /\ None \notin Stays
         /\ DOMAIN Resident = 1 .. Len(Resident) /\ Len(Resident) \in Nat
         /\ DOMAIN images = 1 .. Len(images) /\ Len(images) \in Nat
         /\ "rebinder" \in Threads /\ "loader" \in Threads
<1>1. /\ DOMAIN Resident = 1 .. Len(Resident) /\ Len(Resident) \in Nat
      /\ DOMAIN images = 1 .. Len(images) /\ Len(images) \in Nat
      /\ \A k \in DOMAIN images : images[k] \in Images
  BY DEF TypeInv, TypeOK
<1>2. Loaded \subseteq Images BY <1>1 DEF Loaded
<1>3. \A k \in DOMAIN Resident : k \in DOMAIN images /\ images[k] = Resident[k]
  BY <1>1 DEF FirstInList
<1>4. Stays \subseteq Loaded BY <1>3 DEF Stays, Loaded
<1>. QED BY <1>1, <1>2, <1>4 DEF Threads

LEMMA StaysInit == Init => StaysInv
<1>. SUFFICES ASSUME Init PROVE StaysInv OBVIOUS
<1>1. TypeInv BY TypeInit
<1>. USE DEF Init
<1>2. FirstInList BY DEF FirstInList
<1>3. "rebinder" \in Threads /\ "loader" \in Threads /\ ~Walking("rebinder") BY DEF Threads, Walking
<1>4. \A m \in Stays : m \in Images BY <1>1, <1>2, StaysFacts
<1>5. StaysWant
  <2>1. \A s : ~Rebound(rebindings_head, s) BY DEF Rebound
  <2>2. \A m \in Stays, s \in Symbols : want[m][s] = s BY <1>4 DEF Genuine
  <2>. QED BY <2>1, <2>2 DEF StaysWant, Replacement
<1>6. StaysWalk BY <1>1, <1>2, <1>3, StaysFacts DEF StaysWalk
<1>7. StaysPending BY <1>4 DEF StaysPending
<1>. QED BY <1>1, <1>2, <1>5, <1>6, <1>7 DEF StaysInv

(* Steps that leave the caller's loop and what the images that stay hold,  *)
(* and were to hold, as they are: all those of the loader's.               *)
LEMMA Aside ==
  ASSUME StaysInv, TypeInv', FirstInList', at'["loader"] \notin Stays,
         UNCHANGED <<rebindings_head, i, c, at["rebinder"], using["rebinder"], left["rebinder"]>>,
         Walking("rebinder")' = Walking("rebinder"),
         pc'["rebinder"] = "idle" <=> pc["rebinder"] = "idle",
         \A m \in Stays : slots'[m] = slots[m] /\ want'[m] = want[m]
  PROVE  StaysInv'
<1>0. \A s : Replacement(rebindings_head', s) = Replacement(rebindings_head, s)
             /\ Rebound(rebindings_head', s) = Rebound(rebindings_head, s)
  OBVIOUS
<1>1. StaysWant' BY <1>0 DEF StaysInv, StaysWant, Stays
<1>2. StaysWalk' BY DEF StaysInv, StaysWalk, Stays
<1>3. \A m, s : ToCome(m, s)' = ToCome(m, s) BY <1>0 DEF ToCome
<1>4. \A m, s : InHand(m, s)' = InHand(m, s) BY DEF InHand
<1>5. StaysPending' BY <1>3, <1>4 DEF StaysInv, StaysPending, Stays
<1>. QED BY <1>1, <1>2, <1>5 DEF StaysInv

LEMMA StaysAbort ==
  ASSUME StaysInv, TypeInv',
         UNCHANGED <<rebindings_head, images, slots, pc, walk, loop, history>>
  PROVE  StaysInv'
<1>1. FirstInList' BY DEF StaysInv, FirstInList
<1>2. Walking("rebinder")' = Walking("rebinder") BY DEF Walking, walk
<1>. QED BY <1>1, <1>2, Aside DEF StaysInv, StaysWalk, walk, loop, history

LEMMA StaysRebindSymbols ==
  ASSUME StaysInv, TypeInv', NEW rs \in Calls, RebindSymbols(rs)
  PROVE  StaysInv'
<1>1. CASE Abort(rs) BY <1>1, StaysAbort DEF Abort
<1>2. CASE ~Abort(rs)
  <2>1. /\ pc["rebinder"] = "idle" /\ rebindings_head' = rs \o rebindings_head
        /\ i' = 0 /\ c' = Len(images) /\ pc' = [pc EXCEPT !["rebinder"] = "next"]
        /\ Ask(rs, Loaded) /\ UNCHANGED <<images, slots, at, using, left>>
    BY <1>2 DEF RebindSymbols, Prepend, May, walk
  <2>2. /\ rs \in Seq(Rebindings) /\ rebindings_head \in Seq(Rebindings) /\ Len(rs) \in Nat
        /\ pc'["rebinder"] = "next" /\ ~Walking("rebinder") /\ ~Walking("rebinder")'
    BY <2>1 DEF StaysInv, TypeInv, TypeOK, Threads, Walking
  <2>3. Stays \subseteq Loaded /\ Loaded \subseteq Images BY StaysFacts DEF StaysInv
  <2>4. FirstInList' BY <2>1 DEF StaysInv, FirstInList
  <2>5. \A s : /\ Rebound(rebindings_head', s) <=> (Rebound(rs, s) \/ Rebound(rebindings_head, s))
               /\ Replacement(rebindings_head', s) =
                    IF Rebound(rs, s) THEN Replacement(rs, s) ELSE Replacement(rebindings_head, s)
    BY <2>1, <2>2, Joined
  <2>6. \A m \in Stays, s \in Symbols :
          want'[m][s] = IF Rebound(rs, s) THEN Replacement(rs, s) ELSE want[m][s]
    BY <2>1, <2>3 DEF Ask, StaysInv, TypeInv, TypeOK
  <2>7. StaysWant'
    <3>1. \A s \in Symbols : Rebound(rebindings_head', s) => Everywhere(s)
      BY <2>5 DEF Everywhere, StaysInv, StaysWant
    <3>2. \A m \in Stays, s \in Symbols : Everywhere(s) =>
            want'[m][s] = Replacement(rebindings_head', s)
      BY <2>5, <2>6 DEF StaysInv, StaysWant
    <3>. QED BY <3>1, <3>2 DEF StaysWant, Stays
  <2>8. StaysWalk' BY <2>1, <2>2 DEF StaysInv, StaysWalk, Stays
  <2>9. StaysPending'
    <3>. SUFFICES ASSUME NEW m \in Stays \ (Skipped \union ReadOnly), NEW s \in Imports[m]
                  PROVE  slots[m][s] = want'[m][s] \/ ToCome(m, s)'
      BY <2>1 DEF StaysPending, Stays
    <3>1. s \in Symbols BY <2>3
    <3>2. CASE Rebound(rs, s)
      <4>1. PICK k \in DOMAIN Resident : Resident[k] = m BY DEF Stays
      <4>2. k \in i' + 1 .. c' BY <2>1, <4>1, StaysFacts DEF StaysInv, FirstInList
      <4>. QED BY <2>2, <2>5, <3>2, <4>1, <4>2 DEF ToCome
    <3>3. CASE ~Rebound(rs, s)
      <4>1. want'[m][s] = want[m][s] BY <2>6, <3>1, <3>3
      <4>2. slots[m][s] = want[m][s] BY <2>1, <2>2 DEF StaysInv, StaysPending, ToCome, InHand
      <4>. QED BY <4>1, <4>2
    <3>. QED BY <3>2, <3>3
  <2>. QED BY <2>4, <2>7, <2>8, <2>9 DEF StaysInv
<1>. QED BY <1>1, <1>2

LEMMA StaysRebindSymbolsImage ==
  ASSUME Separate, StaysInv, TypeInv', NEW rs \in ImageCalls, NEW n \in Images,
         RebindSymbolsImage(n, rs)
  PROVE  StaysInv'
<1>1. CASE Abort(rs) BY <1>1, StaysAbort DEF Abort
<1>2. CASE ~Abort(rs)
  <2>1. /\ pc["rebinder"] = "idle" /\ n \in Loaded /\ i' = 0 /\ c' = 0
        /\ pc' = [pc EXCEPT !["rebinder"] = "slots"]
        /\ at' = [at EXCEPT !["rebinder"] = n] /\ using' = [using EXCEPT !["rebinder"] = rs]
        /\ left' = [left EXCEPT !["rebinder"] = Matching(n, rs)]
        /\ Ask(rs, {n}) /\ UNCHANGED <<rebindings_head, images, slots>>
    BY <1>2 DEF RebindSymbolsImage, Walk, May
  <2>2. /\ ~Walking("rebinder") /\ Walking("rebinder")'
        /\ at'["rebinder"] = n /\ using'["rebinder"] = rs /\ left'["rebinder"] = Matching(n, rs)
        /\ at'["loader"] = at["loader"]
    BY <2>1 DEF StaysInv, TypeInv, TypeOK, Threads, Walking
  <2>3. Stays \subseteq Loaded /\ Loaded \subseteq Images BY StaysFacts DEF StaysInv
  <2>4. FirstInList' BY <2>1 DEF StaysInv, FirstInList
  <2>5. \A m \in Stays, s \in Symbols :
          want'[m][s] = IF m = n /\ Rebound(rs, s) THEN Replacement(rs, s) ELSE want[m][s]
    BY <2>1, <2>3 DEF Ask, StaysInv, TypeInv, TypeOK
  <2>6. \A s \in Symbols : Everywhere(s) => ~Rebound(rs, s) BY DEF Separate, InOneImage
  <2>7. StaysWant'
    <3>1. \A m \in Stays, s \in Symbols : Everywhere(s) =>
            want'[m][s] = Replacement(rebindings_head, s)
      BY <2>5, <2>6 DEF StaysInv, StaysWant
    <3>2. rebindings_head' = rebindings_head BY <2>1
    <3>. QED BY <3>1, <3>2 DEF StaysInv, StaysWant, Stays
  <2>8. \A s \in Matching(n, rs) : Rebound(rs, s) /\ s \in Symbols
    BY MatchingFacts DEF StaysInv
  <2>9. StaysWalk' BY <2>2, <2>5, <2>8 DEF StaysInv, StaysWalk, Stays
  <2>10. StaysPending'
    <3>. SUFFICES ASSUME NEW m \in Stays \ (Skipped \union ReadOnly), NEW s \in Imports[m]
                  PROVE  slots[m][s] = want'[m][s] \/ InHand(m, s)'
      BY <2>1 DEF StaysPending, Stays
    <3>1. s \in Symbols BY <2>3
    <3>2. CASE m = n /\ Rebound(rs, s)
      <4>1. s \in Matching(n, rs) BY <2>1, <3>2 DEF Matching
      <4>. QED BY <2>2, <3>2, <4>1 DEF InHand
    <3>3. CASE ~(m = n /\ Rebound(rs, s))
      <4>1. want'[m][s] = want[m][s] BY <2>5, <3>1, <3>3
      <4>2. slots[m][s] = want[m][s] BY <2>1, <2>2 DEF StaysInv, StaysPending, ToCome, InHand
      <4>. QED BY <4>1, <4>2
    <3>. QED BY <3>2, <3>3
  <2>. QED BY <2>4, <2>7, <2>9, <2>10 DEF StaysInv
<1>. QED BY <1>1, <1>2

(* However the list is shifted behind them, the index of an image that     *)
(* stays is its own.                                                       *)
LEMMA StaysNextImage ==
  ASSUME StaysInv, TypeInv', NextImage
  PROVE  StaysInv'
<1>. DEFINE n == IF i < Len(images) THEN images[i + 1] ELSE None
<1>1. /\ pc["rebinder"] = "next" /\ i < c /\ i \in Nat /\ c \in Nat
      /\ i' = i + 1 /\ pc' = [pc EXCEPT !["rebinder"] = "slots"]
      /\ at' = [at EXCEPT !["rebinder"] = n]
      /\ using' = [using EXCEPT !["rebinder"] = rebindings_head]
      /\ left' = [left EXCEPT !["rebinder"] = Matching(n, rebindings_head)]
      /\ UNCHANGED <<rebindings_head, images, slots, c, want>>
  BY DEF NextImage, Walk, list, history, StaysInv, TypeInv, TypeOK
<1>2. \A k \in DOMAIN Resident : k = i + 1 => n = Resident[k]
  BY <1>1, StaysFacts DEF StaysInv, FirstInList
<1>. HIDE DEF n
<1>3. /\ pc'["rebinder"] = "slots" /\ ~Walking("rebinder") /\ Walking("rebinder")'
      /\ at'["rebinder"] = n /\ using'["rebinder"] = rebindings_head
      /\ left'["rebinder"] = Matching(n, rebindings_head) /\ at'["loader"] = at["loader"]
  BY <1>1 DEF StaysInv, TypeInv, TypeOK, Threads, Walking
<1>4. FirstInList' BY <1>1 DEF StaysInv, FirstInList
<1>5. \A s : Replacement(rebindings_head', s) = Replacement(rebindings_head, s)
             /\ Rebound(rebindings_head', s) = Rebound(rebindings_head, s)
  BY <1>1
<1>6. StaysWant' BY <1>1, <1>5 DEF StaysInv, StaysWant, Stays
<1>7. \A s \in Matching(n, rebindings_head) : Rebound(rebindings_head, s) /\ s \in Symbols
  BY MatchingFacts DEF StaysInv
<1>8. StaysWalk' BY <1>1, <1>3, <1>7 DEF StaysInv, StaysWant, StaysWalk, Stays
<1>9. StaysPending'
  <2>. SUFFICES ASSUME NEW m \in Stays \ (Skipped \union ReadOnly), NEW s \in Imports[m],
                       slots[m][s] # want[m][s]
                PROVE  ToCome(m, s)' \/ InHand(m, s)'
    BY <1>1 DEF StaysPending, Stays
  <2>1. ToCome(m, s) BY <1>3 DEF StaysInv, StaysPending, InHand
  <2>2. PICK k \in i + 1 .. c : k \in DOMAIN Resident /\ Resident[k] = m BY <2>1 DEF ToCome
  <2>3. CASE k = i + 1
    <3>1. m = n /\ m \in Loaded BY <1>2, <2>2, <2>3, StaysFacts DEF StaysInv
    <3>2. s \in Matching(n, rebindings_head) BY <2>1, <3>1 DEF Matching, ToCome
    <3>. QED BY <1>3, <3>1, <3>2 DEF InHand
  <2>4. CASE k # i + 1
    <3>1. k \in i' + 1 .. c' BY <1>1, <2>2, <2>4
    <3>. QED BY <1>3, <1>5, <2>1, <2>2, <3>1 DEF ToCome
  <2>. QED BY <2>3, <2>4
<1>. QED BY <1>4, <1>6, <1>8, <1>9 DEF StaysInv

LEMMA StaysReturn ==
  ASSUME StaysInv, TypeInv', Return
  PROVE  StaysInv'
<1>1. /\ pc["rebinder"] = "next" /\ i = c /\ c \in Nat /\ pc' = [pc EXCEPT !["rebinder"] = "idle"]
      /\ UNCHANGED <<rebindings_head, images, slots, at, using, left, i, c, want>>
  BY DEF Return, list, walk, history, StaysInv, TypeInv, TypeOK
<1>2. ~Walking("rebinder") /\ ~Walking("rebinder")'
  BY <1>1 DEF StaysInv, TypeInv, TypeOK, Threads, Walking
<1>3. FirstInList' BY <1>1 DEF StaysInv, FirstInList
<1>4. \A s : Replacement(rebindings_head', s) = Replacement(rebindings_head, s)
             /\ Rebound(rebindings_head', s) = Rebound(rebindings_head, s)
  BY <1>1
<1>5. StaysWant' BY <1>1, <1>4 DEF StaysInv, StaysWant, Stays
<1>6. StaysWalk' BY <1>1, <1>2 DEF StaysInv, StaysWalk, Stays
<1>7. \A m, s : ~ToCome(m, s) /\ ~InHand(m, s) BY <1>1, <1>2 DEF ToCome, InHand
<1>8. StaysPending' BY <1>1, <1>7 DEF StaysInv, StaysPending, Stays
<1>. QED BY <1>3, <1>5, <1>6, <1>8 DEF StaysInv

LEMMA StaysSaveSlot ==
  ASSUME StaysInv, TypeInv', NEW t \in Threads, NEW s \in Symbols, SaveSlot(t, s)
  PROVE  StaysInv'
<1>1. /\ pc[t] = "slots" /\ pc' = [pc EXCEPT ![t] = "write"]
      /\ UNCHANGED <<rebindings_head, images, slots, at, using, left, i, c, want>>
  BY DEF SaveSlot, Save, list, loop, history
<1>2. /\ Walking("rebinder")' = Walking("rebinder")
      /\ pc'["rebinder"] = "idle" <=> pc["rebinder"] = "idle"
  BY <1>1 DEF StaysInv, TypeInv, TypeOK, Threads, Walking
<1>3. FirstInList' BY <1>1 DEF StaysInv, FirstInList
<1>. QED BY <1>1, <1>2, <1>3, Aside DEF StaysInv, StaysWalk

LEMMA StaysWriteSlot ==
  ASSUME StaysInv, TypeInv', NEW t \in Threads, WriteSlot(t)
  PROVE  StaysInv'
<1>. DEFINE x == name[t]
            n == at[t]
            h == Replacement(using[t], x)
<1>1. /\ pc[t] = "write" /\ Walking(t) /\ x \in left[t]
      /\ pc' = [pc EXCEPT ![t] = "slots"] /\ left' = [left EXCEPT ![t] = @ \ {x}]
      /\ slots' = IF n \in ReadOnly THEN slots ELSE [slots EXCEPT ![n][x] = h]
      /\ UNCHANGED <<rebindings_head, images, at, using, i, c, want>>
  BY DEF WriteSlot, Walking, list, loop, history, StaysInv, TypeInv, WalkType
<1>2. n \in Images /\ x \in Symbols BY <1>1, WalkFacts DEF StaysInv
<1>3. /\ Walking("rebinder")' = Walking("rebinder")
      /\ pc'["rebinder"] = "idle" <=> pc["rebinder"] = "idle"
  BY <1>1 DEF StaysInv, TypeInv, TypeOK, Threads, Walking
<1>4. FirstInList' BY <1>1 DEF StaysInv, FirstInList
<1>5. Stays \subseteq Images BY StaysFacts DEF StaysInv
<1>6. CASE t = "loader"
  <2>1. n \notin Stays BY <1>6 DEF StaysInv, StaysWalk
  <2>2. \A m \in Stays : slots'[m] = slots[m]
    BY <1>1, <1>5, <2>1 DEF StaysInv, TypeInv, TypeOK
  <2>3. left'["rebinder"] = left["rebinder"] BY <1>1, <1>6 DEF StaysInv, TypeInv, TypeOK, Threads
  <2>. QED BY <1>1, <1>3, <1>4, <2>2, <2>3, Aside DEF StaysInv, StaysWalk
<1>7. CASE t = "rebinder"
  <2>1. left'["rebinder"] = left["rebinder"] \ {x}
    BY <1>1, <1>7 DEF StaysInv, TypeInv, TypeOK
  <2>2. \A m \in Images, s \in Symbols : ~(m = n /\ s = x) => slots'[m][s] = slots[m][s]
    BY <1>1, <1>2 DEF StaysInv, TypeInv, TypeOK
  <2>3. n \notin ReadOnly => slots'[n][x] = h BY <1>1, <1>2 DEF StaysInv, TypeInv, TypeOK
  <2>4. n \in Stays => h = want[n][x] BY <1>1, <1>7 DEF StaysInv, StaysWalk
  <2>5. \A s : Replacement(rebindings_head', s) = Replacement(rebindings_head, s)
               /\ Rebound(rebindings_head', s) = Rebound(rebindings_head, s)
    BY <1>1
  <2>6. StaysWant' BY <1>1, <2>5 DEF StaysInv, StaysWant, Stays
  <2>7. StaysWalk' BY <1>1, <1>3, <2>1 DEF StaysInv, StaysWalk, Stays
  <2>. HIDE DEF h
  <2>8. StaysPending'
    <3>. SUFFICES ASSUME NEW m \in Stays \ (Skipped \union ReadOnly), NEW s \in Imports[m]
                  PROVE  slots'[m][s] = want[m][s] \/ ToCome(m, s)' \/ InHand(m, s)'
      BY <1>1 DEF StaysPending, Stays
    <3>0. m \in Images /\ s \in Symbols BY <1>5
    <3>1. CASE m = n /\ s = x BY <2>3, <2>4, <3>1
    <3>2. CASE ~(m = n /\ s = x)
      <4>1. slots'[m][s] = slots[m][s] BY <2>2, <3>0, <3>2
      <4>2. ToCome(m, s) => ToCome(m, s)' BY <1>1, <1>3, <2>5 DEF ToCome
      <4>3. InHand(m, s) => InHand(m, s)' BY <1>1, <1>3, <1>7, <2>1, <3>2 DEF InHand
      <4>. QED BY <4>1, <4>2, <4>3 DEF StaysInv, StaysPending
    <3>. QED BY <3>1, <3>2
  <2>. QED BY <1>4, <2>6, <2>7, <2>8 DEF StaysInv
<1>. QED BY <1>6, <1>7 DEF Threads

LEMMA StaysLeave ==
  ASSUME StaysInv, TypeInv', NEW t \in Threads, Leave(t)
  PROVE  StaysInv'
<1>1. /\ pc[t] = "slots" /\ left[t] = {}
      /\ pc' = [pc EXCEPT ![t] = IF t = "rebinder" THEN "next" ELSE "idle"]
      /\ at' = [at EXCEPT ![t] = None]
      /\ UNCHANGED <<rebindings_head, images, slots, using, left, i, c, want>>
  BY DEF Leave, list, loop, history
<1>2. FirstInList' BY <1>1 DEF StaysInv, FirstInList
<1>3. None \notin Stays BY StaysFacts DEF StaysInv
<1>4. CASE t = "loader"
  <2>1. /\ at'["loader"] = None /\ at'["rebinder"] = at["rebinder"]
        /\ pc'["rebinder"] = pc["rebinder"] /\ Walking("rebinder")' = Walking("rebinder")
    BY <1>1, <1>4 DEF StaysInv, TypeInv, TypeOK, Threads, Walking
  <2>. QED BY <1>1, <1>2, <1>3, <2>1, Aside
<1>5. CASE t = "rebinder"
  <2>1. /\ at'["loader"] = at["loader"] /\ pc'["rebinder"] = "next" /\ ~Walking("rebinder")'
        /\ pc["rebinder"] # "idle"
    BY <1>1, <1>5 DEF StaysInv, TypeInv, TypeOK, Threads, Walking
  <2>2. \A s : Replacement(rebindings_head', s) = Replacement(rebindings_head, s)
               /\ Rebound(rebindings_head', s) = Rebound(rebindings_head, s)
    BY <1>1
  <2>3. StaysWant' BY <1>1, <2>2 DEF StaysInv, StaysWant, Stays
  <2>4. StaysWalk' BY <2>1 DEF StaysInv, StaysWalk, Stays
  <2>5. \A m, s : ~InHand(m, s) BY <1>1, <1>5 DEF InHand
  <2>6. \A m, s : ToCome(m, s) => ToCome(m, s)' BY <1>1, <2>1, <2>2 DEF ToCome
  <2>7. StaysPending' BY <1>1, <2>5, <2>6 DEF StaysInv, StaysPending, Stays
  <2>. QED BY <1>2, <2>3, <2>4, <2>7 DEF StaysInv
<1>. QED BY <1>4, <1>5 DEF Threads

LEMMA StaysLoad ==
  ASSUME StaysInv, TypeInv', NEW n \in Images, Load(n)
  PROVE  StaysInv'
<1>1. /\ n \notin Loaded /\ images' = Append(images, n) /\ slots' = [slots EXCEPT ![n] = Genuine]
      /\ want' = [want EXCEPT ![n] = [s \in Symbols |-> Replacement(rebindings_head, s)]]
      /\ at' = [at EXCEPT !["loader"] = n]
      /\ pc' = IF registered THEN [pc EXCEPT !["loader"] = "callback"] ELSE pc
      /\ UNCHANGED <<rebindings_head, using, left, i, c>>
  BY DEF Load, list, loop
<1>2. n \notin Stays /\ Stays \subseteq Images BY <1>1, StaysFacts DEF StaysInv
<1>3. /\ at'["loader"] = n /\ at'["rebinder"] = at["rebinder"]
      /\ pc'["rebinder"] = pc["rebinder"] /\ Walking("rebinder")' = Walking("rebinder")
  BY <1>1 DEF StaysInv, TypeInv, TypeOK, Threads, Walking
<1>4. FirstInList' BY <1>1, StaysFacts DEF StaysInv, FirstInList, TypeInv, TypeOK
<1>5. \A m \in Stays : slots'[m] = slots[m] /\ want'[m] = want[m]
  BY <1>1, <1>2 DEF StaysInv, TypeInv, TypeOK
<1>. QED BY <1>1, <1>2, <1>3, <1>4, <1>5, Aside

LEMMA StaysCallback ==
  ASSUME StaysInv, TypeInv', Callback
  PROVE  StaysInv'
<1>1. /\ pc["loader"] = "callback" /\ Walk("loader", at["loader"], rebindings_head)
      /\ UNCHANGED <<rebindings_head, images, slots, i, c, want>>
  BY DEF Callback, list, loop, history
<1>2. /\ at'["loader"] = at["loader"] /\ at'["rebinder"] = at["rebinder"]
      /\ using'["rebinder"] = using["rebinder"] /\ left'["rebinder"] = left["rebinder"]
      /\ pc'["rebinder"] = pc["rebinder"] /\ Walking("rebinder")' = Walking("rebinder")
  BY <1>1 DEF Walk, StaysInv, TypeInv, TypeOK, Threads, Walking
<1>3. FirstInList' BY <1>1 DEF StaysInv, FirstInList
<1>. QED BY <1>1, <1>2, <1>3, Aside DEF StaysInv, StaysWalk

LEMMA StaysUnload ==
  ASSUME StaysInv, TypeInv', NEW n \in Images, Unload(n)
  PROVE  StaysInv'
<1>1. /\ n \notin Stays /\ UNCHANGED <<rebindings_head, slots, pc, at, using, left, i, c, want>>
  BY DEF Unload, MayGo, Stays, list, walk, loop, history
<1>2. PICK k \in DOMAIN images : images[k] = n /\ images' = Without(images, k) BY DEF Unload
<1>3. /\ Len(images') = Len(images) - 1
      /\ \A j \in 1 .. k - 1 : images'[j] = images[j]
  <2>1. images \in Seq(Images) BY DEF StaysInv, TypeInv, TypeOK
  <2>2. /\ Len(Without(images, k)) = Len(images) - 1
        /\ \A j \in 1 .. k - 1 : Without(images, k)[j] = images[j]
    BY <2>1, Unlisted
  <2>. QED BY <1>2, <2>2
<1>4. k \in 1 .. Len(images) /\ Len(images) \in Nat /\ Len(Resident) \in Nat
      /\ DOMAIN Resident = 1 .. Len(Resident)
  BY <1>2, StaysFacts DEF StaysInv
<1>5. Len(Resident) < k
  <2>1. \A j \in DOMAIN Resident : j # k BY <1>1, <1>2 DEF StaysInv, FirstInList, Stays
  <2>. QED BY <1>4, <2>1
<1>6. FirstInList' BY <1>3, <1>4, <1>5 DEF StaysInv, FirstInList
<1>7. Walking("rebinder")' = Walking("rebinder") BY <1>1 DEF Walking
<1>. QED BY <1>1, <1>6, <1>7, Aside DEF StaysInv, StaysWalk

LEMMA StaysStep == Separate /\ StaysInv /\ [Next]_vars => StaysInv'
<1>. SUFFICES ASSUME Separate, StaysInv, [Next]_vars PROVE StaysInv' OBVIOUS
<1>0. TypeInv' BY TypeStep DEF StaysInv
<1>1. ASSUME NEW t \in Threads, Rewrite(t) PROVE StaysInv'
  BY <1>0, <1>1, StaysLeave, StaysWriteSlot, StaysSaveSlot DEF Rewrite
<1>2. CASE Rebinder BY <1>0, <1>1, <1>2, StaysNextImage, StaysReturn DEF Rebinder, Threads
<1>3. CASE Loader BY <1>0, <1>1, <1>3, StaysCallback DEF Loader, Threads
<1>4. CASE WrongSlide BY <1>0, <1>4, StaysAbort DEF WrongSlide
<1>5. CASE UNCHANGED vars BY <1>0, <1>5, StaysAbort DEF vars, list
<1>. QED BY <1>0, <1>2, <1>3, <1>4, <1>5, StaysRebindSymbols, StaysRebindSymbolsImage, StaysLoad,
     StaysUnload
     DEF Next, Begin

(* The images that are there from the start and stay are bound as the last *)
(* call asked whenever no call is under way, even if others are loaded and *)
(* unloaded while the loop goes through dyld's list by index.              *)
THEOREM ResidentBound == ASSUME Separate PROVE Spec => []ResidentLatest
<1>1. StaysInv => ResidentLatest
  <2>. SUFFICES ASSUME StaysInv, Quiet, NEW k \in DOMAIN Resident,
                       Resident[k] \notin Skipped \union ReadOnly
                PROVE  AsAsked(Resident[k])
    BY DEF ResidentLatest
  <2>1. Resident[k] \in Stays \ (Skipped \union ReadOnly) BY DEF Stays
  <2>2. pc["rebinder"] = "idle" BY DEF Quiet, Threads
  <2>3. \A m, s : ~ToCome(m, s) /\ ~InHand(m, s) BY <2>2 DEF ToCome, InHand, Walking
  <2>. QED BY <2>1, <2>3 DEF StaysInv, StaysPending, AsAsked
<1>2. Separate /\ StaysInv /\ [Next]_vars => StaysInv' BY StaysStep
<1>. QED BY <1>1, <1>2, StaysInit, PTL DEF Spec
=============================================================================
