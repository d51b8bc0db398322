--------------------------- MODULE SatBenchProofs ---------------------------
(***************************************************************************)
(* SatBench.tla for any directories, any passes in any order, any number   *)
(* of domains and any chunk_size: the passes keep the interface of         *)
(* z3_mini.c, so that what Z3MiniProofs shows of it holds in them, and     *)
(* implement Batch.tla.  The verdict of a program is the program's own     *)
(* whichever domain judges it, because that domain's context is used by no *)
(* other domain and each check starts from a reset solver.                 *)
(***************************************************************************)
EXTENDS SatBench, FunctionTheorems, FiniteSetTheorems, TLAPS

P == INSTANCE Z3MiniProofs WITH Callers <- Domains

MakePCs == {"malloc", "config", "context", "solver"}
CheckPCs == {"reset", "push", "parse", "check", "pop", "model", "copy"}
Verdicts == {"False", "Undef", "True"}

(* The directories: what has been read and is a program is in the table.   *)
FilesOK ==
  /\ unread \in [Roots -> SUBSET UNION {Paths(root) : root \in Roots}]
  /\ \A root \in Roots : unread[root] \subseteq Paths(root)
  /\ file_map = [root \in Roots |->
                   [p \in (Paths(root) \ unread[root]) \intersect Smt2 |-> Tree[root][p]]]
  /\ pass > 0 => \A root \in Roots : unread[root] = {}

(* The array of a pass: each program of its directory once. *)
Due(k) == Paths(RootOf(k)) \intersect Smt2

Enumerates(b, S) ==
  /\ b \in [1 .. Len(b) -> S]
  /\ \A i, j \in 1 .. Len(b) : b[i] = b[j] => i = j
  /\ \A p \in S : \E i \in 1 .. Len(b) : b[i] = p

BlobsOK ==
  /\ Len(blobs) \in 0 .. MaxFiles
  /\ IF pass = 0 THEN blobs = << >> ELSE Enumerates(blobs, Due(pass))

(* The parts of the range: an index is in one part, which waits or which a *)
(* domain is working on, until it has its verdict.                         *)
In(i, w) == w[1] <= i /\ i <= w[2]
Has(d, i) == at[d] # "free" /\ In(i, part[d])

PartsOK ==
  /\ \A w \in work : w \in Int \X Int /\ 0 <= w[1] /\ w[1] <= w[2] + 1 /\ w[2] < Len(blobs)
  /\ part \in [Domains -> (0 .. MaxFiles) \X (-1 .. MaxFiles - 1)]
  /\ \A d \in Domains : at[d] # "free" => part[d][1] <= part[d][2] /\ part[d][2] < Len(blobs)
  /\ \A i \in 0 .. Len(blobs) - 1 :
       /\ \A v, w \in work : In(i, v) /\ In(i, w) => v = w
       /\ \A w \in work, d \in Domains : ~(In(i, w) /\ Has(d, i))
       /\ \A d, e \in Domains : Has(d, i) /\ Has(e, i) => d = e
  /\ ~running => work = {} /\ \A d \in Domains : at[d] = "free"

(* The verdicts that are right for an index. *)
Right(i) ==
  IF Passes[pass] = Subproc THEN ExeVerdicts(Blob(i)) ELSE Z!Possible(Z!Asserted(Blob(i)))

ResOK ==
  /\ res \in [0 .. Len(blobs) - 1 -> Verdicts \union {"Uninit"}]
  /\ \A i \in 0 .. Len(blobs) - 1 :
       IF (\E w \in work : In(i, w)) \/ (\E d \in Domains : Has(d, i))
       THEN res[i] = "Uninit"
       ELSE res[i] \in Right(i)

(* The contexts: each belongs to one domain.  A context is left to make    *)
(* for the main domain and, in each pass that needs them, for each helper. *)
Lacks == {h \in Helpers : dls[h] = NoCtx}
Unmade(d) == IF dls[d] = NoCtx THEN 1 ELSE 0
Needs(k) == k > 0 /\ Passes[k] # Subproc
Budget(k) == 1 + Cardinality(MiniPasses(k)) * Cardinality(Helpers)

CtxsOK ==
  /\ made \in 0 .. MaxCtxs
  /\ dls \in [Domains -> 0 .. made]
  /\ \A d, e \in Domains : dls[d] = dls[e] /\ dls[d] # NoCtx => d = e
  /\ \A c \in Ctxs : c > made => stage[c] = "unused"
  /\ made + Unmade(Main) + (IF Needs(pass) THEN Cardinality(Lacks) ELSE 0) <= Budget(pass)

(* A domain: it works in its own context only, and once Z3 has answered    *)
(* its verdict is one of the program it was asked about.                   *)
Judging(d) ==
  IF Passes[pass] = Subproc
  THEN pc[d] = "idle" /\ verdict[d] \in ExeVerdicts(Blob(part[d][1]))
  ELSE /\ pc[d] \in {"idle"} \union CheckPCs /\ smt2[d] = Blob(part[d][1])
       /\ pc[d] \in {"idle", "pop", "model", "copy"} =>
            result[d] \in Z!Possible(Z!Asserted(smt2[d]))

DomainOK(d) ==
  /\ pc[d] # "idle" => dls[d] # NoCtx /\ on[d] = dls[d]
  /\ at[d] \in {"free", "stuck"} => pc[d] = "idle"
  /\ at[d] = "body" => pc[d] = "idle" \/ (pc[d] \in MakePCs /\ Passes[pass] # Subproc)
  /\ at[d] = "store" => Judging(d)

KindsOK ==
  /\ chunk_size \in ChunkSizes
  /\ pass \in 0 .. Len(Passes) /\ running \in BOOLEAN /\ crashed \in BOOLEAN
  /\ running => pass > 0
  /\ at \in [Domains -> {"free", "body", "store", "stuck"}]
  /\ verdict \in [Domains -> Verdicts \union {"Uninit"}]

Inv ==
  /\ P!IInv
  /\ KindsOK /\ FilesOK /\ BlobsOK /\ PartsOK /\ ResOK /\ CtxsOK
  /\ \A d \in Domains : DomainOK(d)

USE SatBenchAssumption
-----------------------------------------------------------------------------
(* The two sets of files are finite, so that MaxFiles bounds an array. *)
LEMMA MaxFilesBound ==
  MaxFiles \in Nat /\ \A root \in Roots : Cardinality(Paths(root)) <= MaxFiles
<1>. DEFINE a == Cardinality(Paths("root_dir"))
            b == Cardinality(Paths("root_non_api_dir"))
            best(n) == n \in {a, b} /\ a <= n /\ b <= n
<1>1. a \in Nat /\ b \in Nat BY FS_CardinalityType DEF Roots
<1>. HIDE DEF a, b
<1>2. \E n : best(n)
  <2>1. best(a) \/ best(b) BY <1>1
  <2>. QED BY <2>1
<1>. USE DEF a, b
<1>3. MaxFiles = CHOOSE n : best(n)
  <2>1. {Cardinality(Paths(root)) : root \in Roots} = {a, b} BY DEF Roots
  <2>2. \A n : (\A root \in Roots : Cardinality(Paths(root)) <= n) <=> (a <= n /\ b <= n)
    BY DEF Roots
  <2>. QED BY <2>1, <2>2 DEF MaxFiles
<1>4. best(MaxFiles) BY <1>2, <1>3
<1>. QED BY <1>1, <1>4 DEF Roots

(* Hashtbl.data, into an array: every program once. *)
LEMMA SeqsEnumerate ==
  ASSUME NEW S, IsFiniteSet(S), NEW b \in SetToSeqs(S)
  PROVE  Enumerates(b, S) /\ Len(b) = Cardinality(S)
<1>. DEFINE n == Cardinality(S)
<1>1. n \in Nat BY FS_CardinalityType
<1>2. b \in [1 .. n -> S] /\ \A i, j \in 1 .. n : i # j => b[i] # b[j] BY DEF SetToSeqs
<1>3. Len(b) = n
  <2>1. b \in Seq(S) BY <1>1, <1>2
  <2>. QED BY <1>1, <1>2, <2>1
<1>4. b \in Injection(1 .. n, S) BY <1>2 DEF Injection, IsInjective
<1>5. Cardinality(1 .. n) = n BY <1>1, FS_Interval
<1>6. b \in Surjection(1 .. n, S) BY <1>4, <1>5, FS_Injection
<1>. QED BY <1>1, <1>2, <1>3, <1>6 DEF Enumerates, Surjection

LEMMA DueFinite ==
  ASSUME NEW k PROVE IsFiniteSet(Due(k)) /\ Cardinality(Due(k)) \in 0 .. MaxFiles
<1>1. RootOf(k) \in Roots BY DEF RootOf, Roots
<1>2. IsFiniteSet(Paths(RootOf(k))) BY <1>1
<1>3. IsFiniteSet(Due(k)) /\ Cardinality(Due(k)) <= Cardinality(Paths(RootOf(k)))
  BY <1>2, FS_Intersection DEF Due
<1>4. Cardinality(Due(k)) \in Nat /\ Cardinality(Paths(RootOf(k))) \in Nat
  BY <1>2, <1>3, FS_CardinalityType
<1>. QED BY <1>1, <1>3, <1>4, MaxFilesBound

(* The passes that make contexts, and how many contexts are made. *)
LEMMA PassesCounted ==
  ASSUME NEW k \in 0 .. Len(Passes)
  PROVE  IsFiniteSet(MiniPasses(k)) /\ Cardinality(MiniPasses(k)) \in Nat
<1>1. IsFiniteSet(1 .. k) BY FS_Interval
<1>2. MiniPasses(k) \in SUBSET (1 .. k) BY DEF MiniPasses
<1>3. IsFiniteSet(MiniPasses(k)) BY <1>1, <1>2, FS_Subset
<1>. QED BY <1>3, FS_CardinalityType

LEMMA BudgetGrows ==
  ASSUME NEW k \in 0 .. Len(Passes) - 1
  PROVE  Budget(k + 1) = Budget(k) + (IF Needs(k + 1) THEN Cardinality(Helpers) ELSE 0)
<1>. DEFINE H == Cardinality(Helpers)
            m == Cardinality(MiniPasses(k))
<1>1. Len(Passes) \in Nat /\ k + 1 \in 0 .. Len(Passes) OBVIOUS
<1>2. H \in Nat BY FS_CardinalityType
<1>3. m \in Nat /\ IsFiniteSet(MiniPasses(k)) BY <1>1, PassesCounted
<1>4. k + 1 \notin MiniPasses(k) BY DEF MiniPasses
<1>5. CASE Needs(k + 1)
  <2>1. MiniPasses(k + 1) = MiniPasses(k) \union {k + 1} BY <1>5 DEF Needs, MiniPasses
  <2>2. Cardinality(MiniPasses(k + 1)) = m + 1 BY <1>3, <1>4, <2>1, FS_AddElement
  <2>3. (m + 1) * H = m * H + H BY <1>2, <1>3
  <2>4. m * H \in Nat BY <1>2, <1>3
  <2>. QED BY <1>2, <1>5, <2>2, <2>3, <2>4 DEF Budget
<1>6. CASE ~Needs(k + 1)
  <2>1. MiniPasses(k + 1) = MiniPasses(k) BY <1>6 DEF Needs, MiniPasses
  <2>2. m * H \in Nat BY <1>2, <1>3
  <2>. QED BY <1>6, <2>1, <2>2 DEF Budget
<1>. QED BY <1>5, <1>6

LEMMA BudgetBounded ==
  ASSUME NEW k \in 0 .. Len(Passes) PROVE Budget(k) \in Nat /\ Budget(k) <= MaxCtxs
<1>. DEFINE H == Cardinality(Helpers)
            m == Cardinality(MiniPasses(k))
            n == Cardinality(MiniPasses(Len(Passes)))
<1>1. Len(Passes) \in Nat OBVIOUS
<1>2. H \in Nat BY FS_CardinalityType
<1>3. m \in Nat /\ n \in Nat /\ IsFiniteSet(MiniPasses(Len(Passes))) BY <1>1, PassesCounted
<1>4. MiniPasses(k) \subseteq MiniPasses(Len(Passes)) BY <1>1 DEF MiniPasses
<1>5. m <= n BY <1>3, <1>4, FS_Subset
<1>. DEFINE x == n - m
<1>6. x \in Nat /\ n = m + x BY <1>3, <1>5
<1>. HIDE DEF x, m, n, H
<1>7. n * H = m * H + x * H /\ m * H \in Nat /\ x * H \in Nat BY <1>2, <1>3, <1>6
<1>. QED BY <1>7 DEF Budget, MaxCtxs, m, n, H
-----------------------------------------------------------------------------
(* Z and P are the same instance of Z3Mini. *)
LEMMA SameMaking == ASSUME NEW d, Z!Making(d) PROVE P!Making(d)
BY DEF Z!Making, Z!Malloc, Z!MkConfig, Z!MkContext, Z!MkSolver, Z!Made, Z!ReturnsNull, Z!Goto,
       Z!caller, P!Making, P!Malloc, P!MkConfig, P!MkContext, P!MkSolver, P!Made,
       P!ReturnsNull, P!Goto, P!caller

LEMMA SameChecking == ASSUME NEW d, Z!Checking(d) PROVE P!Checking(d)
BY DEF Z!Checking, Z!Reset, Z!Push, Z!Parse, Z!Check, Z!Pop, Z!GetModel, Z!CopyModel, Z!Goto,
       Z!solver, Z!caller, Z!Visible, Z!Possible, Z!Asserted, Z!AfterCheck, Z!Pushes,
       Z!Verdicts, P!Checking, P!Reset, P!Push, P!Parse, P!Check, P!Pop, P!GetModel,
       P!CopyModel, P!Goto, P!solver, P!caller, P!Visible, P!Possible, P!Asserted,
       P!AfterCheck, P!Pushes, P!Verdicts

LEMMA SameMake ==
  ASSUME NEW d \in Domains, NEW c \in Ctxs, Z!Make(d, c) PROVE Z!Next /\ P!Next
BY DEF Z!Next, P!Next, Z!Make, P!Make, Z!Goto, P!Goto

LEMMA SameCall ==
  ASSUME NEW d \in Domains, NEW c \in Ctxs, NEW f \in Z!Fns, NEW p \in Programs,
         stage[c] = "ready", \A u \in Domains \ {d} : pc[u] # "idle" => on[u] # c,
         Z!Enter(d, c, f, p)
  PROVE  Z!Next /\ P!Next
<1>1. Z!Call(d, c, f, p) BY DEF Z!Call, Z!Exclusive
<1>2. P!Call(d, c, f, p) BY <1>1 DEF Z!Call, P!Call, Z!Exclusive, P!Exclusive, Z!Enter, P!Enter,
        Z!Goto, P!Goto, Z!solver, P!solver
<1>3. f \in P!Fns BY DEF Z!Fns, P!Fns
<1>. QED BY <1>1, <1>2, <1>3 DEF Z!Next, P!Next

LEMMA SameStep ==
  ASSUME NEW d \in Domains, ZStep(d) PROVE Z!Next /\ P!Next
BY SameMaking, SameChecking DEF ZStep, Z!Next, P!Next

LEMMA SameStutter == UNCHANGED zvars => UNCHANGED Z!vars /\ UNCHANGED P!vars
BY DEF zvars, Z!vars, P!vars

LEMMA SamePossible == \A ps : P!Possible(ps) = Z!Possible(ps)
BY DEF Z!Possible, P!Possible, Z!Verdicts, P!Verdicts

LEMMA SameAsserted == \A p : P!Asserted(p) = Z!Asserted(p)
BY DEF Z!Asserted, P!Asserted

LEMMA ZAssumption == P!AnswerAssumption
BY DEF P!AnswerAssumption

LEMMA AssertedIsPrograms ==
  ASSUME NEW p \in Programs PROVE Z!Asserted(p) \in SUBSET Programs
BY DEF Z!Asserted

LEMMA PossibleIsVerdicts ==
  ASSUME NEW ps \in SUBSET Programs PROVE Z!Possible(ps) \subseteq Verdicts
<1>1. P!Possible(ps) \subseteq P!Verdicts BY ZAssumption, P!PossibleIsVerdicts
<1>. QED BY <1>1, SamePossible DEF P!Verdicts, Verdicts

LEMMA FitsIsVerdict ==
  ASSUME NEW p \in Programs
  PROVE  Z!Possible(Z!Asserted(p)) \subseteq Verdicts /\ ExeVerdicts(p) \subseteq Verdicts
<1>1. ExeVerdicts(p) \subseteq Verdicts BY DEF ExeVerdicts, VerdictOf, Verdicts
<1>. QED BY <1>1, AssertedIsPrograms, PossibleIsVerdicts
-----------------------------------------------------------------------------
LEMMA InitInv == Init => Inv
<1>. SUFFICES ASSUME Init PROVE Inv OBVIOUS
<1>. USE DEF Init
<1>1. P!IInv
  <2>1. P!Init BY DEF Z!Init, P!Init
  <2>. QED BY <2>1, ZAssumption, P!InitIInv
<1>2. KindsOK
  <2>1. Len(Passes) \in Nat OBVIOUS
  <2>2. pass \in 0 .. Len(Passes) BY <2>1
  <2>3. at \in [Domains -> {"free"}] /\ verdict \in [Domains -> {"Uninit"}] OBVIOUS
  <2>4. pass = 0 /\ running = FALSE /\ crashed = FALSE /\ chunk_size \in ChunkSizes OBVIOUS
  <2>. HIDE DEF Init
  <2>. QED BY <2>2, <2>3, <2>4 DEF KindsOK
<1>3. FilesOK
  <2>1. \A root \in Roots : [p \in (Paths(root) \ unread[root]) \intersect Smt2 |-> Tree[root][p]] = << >>
    OBVIOUS
  <2>. QED BY <2>1 DEF FilesOK
<1>4. BlobsOK BY MaxFilesBound DEF BlobsOK
<1>5. PartsOK BY MaxFilesBound DEF PartsOK, Nothing, In, Has
<1>6. ResOK BY DEF ResOK
<1>7. CtxsOK
  <2>1. 0 \in 0 .. Len(Passes) OBVIOUS
  <2>2. MaxCtxs \in Nat BY <2>1, BudgetBounded DEF MaxCtxs, Budget
  <2>3. Budget(0) = 1
    <3>1. Cardinality(Helpers) \in Nat BY FS_CardinalityType
    <3>2. Cardinality(MiniPasses(0)) = 0
      <4>1. MiniPasses(0) = {} BY DEF MiniPasses
      <4>. QED BY <4>1, FS_EmptySet
    <3>3. \A h \in Nat : 1 + 0 * h = 1 OBVIOUS
    <3>. QED BY <3>1, <3>2, <3>3 DEF Budget
  <2>4. \A c \in Ctxs : stage[c] = "unused" BY DEF Z!Init
  <2>. QED BY <2>2, <2>3, <2>4 DEF CtxsOK, NoCtx, Unmade, Needs, Domains
<1>8. ASSUME NEW d \in Domains PROVE DomainOK(d) BY DEF DomainOK, Z!Init
<1>. QED BY <1>1, <1>2, <1>3, <1>4, <1>5, <1>6, <1>7, <1>8 DEF Inv
-----------------------------------------------------------------------------
(* What a step of a check or of mk does, seen from outside. *)
OneStep(d) ==
  /\ pc[d] # "idle" /\ UNCHANGED <<on, smt2>>
  /\ \A e \in Domains \ {d} : pc'[e] = pc[e] /\ result'[e] = result[e]
  /\ \A c \in Ctxs \ {on[d]} : stage'[c] = stage[c]
  /\ pc[d] \in MakePCs => pc'[d] \in {"idle"} \union MakePCs /\ result'[d] = result[d]
  /\ pc[d] \in CheckPCs =>
       /\ pc'[d] \in {"idle"} \union CheckPCs
       /\ pc'[d] \in {"idle", "pop", "model", "copy"} =>
            \/ pc[d] \in {"pop", "model", "copy"} /\ result'[d] = result[d]
            \/ result'[d] \in Z!Possible(Z!Asserted(smt2[d]))

LEMMA MakingIsOneStep ==
  ASSUME P!IInv, NEW d \in Domains, Z!Making(d) PROVE OneStep(d)
<1>0. pc \in [Domains -> {"idle"} \union MakePCs \union CheckPCs] /\ on \in [Domains -> Ctxs]
      /\ stage \in [Ctxs -> {"unused", "making", "ready", "nil", "deleted"}]
  BY DEF P!IInv, P!TypeOK, P!MakePCs, P!CheckPCs, MakePCs, CheckPCs
<1>1. PICK from \in MakePCs, to \in {"idle"} \union MakePCs :
        /\ pc[d] = from /\ pc' = [pc EXCEPT ![d] = to]
        /\ UNCHANGED <<on, smt2, result>>
        /\ \A c \in Ctxs \ {on[d]} : stage'[c] = stage[c]
  <2>1. CASE Z!Malloc(d)
    BY <1>0, <2>1 DEF Z!Malloc, Z!Made, Z!ReturnsNull, Z!Goto, Z!caller, MakePCs
  <2>2. CASE Z!MkConfig(d)
    BY <1>0, <2>2 DEF Z!MkConfig, Z!Made, Z!ReturnsNull, Z!Goto, Z!caller, MakePCs
  <2>3. CASE Z!MkContext(d)
    BY <1>0, <2>3 DEF Z!MkContext, Z!Made, Z!ReturnsNull, Z!Goto, Z!caller, MakePCs
  <2>4. CASE Z!MkSolver(d)
    BY <1>0, <2>4 DEF Z!MkSolver, Z!ReturnsNull, Z!Goto, Z!caller, MakePCs
  <2>. QED BY <2>1, <2>2, <2>3, <2>4 DEF Z!Making
<1>. QED BY <1>0, <1>1 DEF OneStep, MakePCs, CheckPCs

LEMMA CheckingIsOneStep ==
  ASSUME P!IInv, NEW d \in Domains, Z!Checking(d) PROVE OneStep(d)
<1>0. pc \in [Domains -> {"idle"} \union MakePCs \union CheckPCs]
      /\ result \in [Domains -> P!Verdicts]
  BY DEF P!IInv, P!TypeOK, P!MakePCs, P!CheckPCs, MakePCs, CheckPCs
<1>. USE DEF Z!Goto, Z!caller, Z!solver
<1>1. ASSUME NEW from \in CheckPCs, NEW to \in {"idle"} \union CheckPCs,
             pc[d] = from, pc' = [pc EXCEPT ![d] = to], UNCHANGED <<stage, on, smt2, result>>,
             to \in {"idle", "pop", "model", "copy"} => from \in {"pop", "model", "copy"}
      PROVE  OneStep(d)
  BY <1>0, <1>1 DEF OneStep, MakePCs, CheckPCs
<1>2. CASE Z!Reset(d) BY <1>1, <1>2 DEF Z!Reset, CheckPCs
<1>3. CASE Z!Push(d) BY <1>1, <1>3 DEF Z!Push, CheckPCs
<1>4. CASE Z!Parse(d) BY <1>1, <1>4 DEF Z!Parse, CheckPCs
<1>5. CASE Z!Pop(d) BY <1>1, <1>5 DEF Z!Pop, CheckPCs
<1>6. CASE Z!GetModel(d) BY <1>1, <1>6 DEF Z!GetModel, CheckPCs
<1>7. CASE Z!CopyModel(d) BY <1>1, <1>7 DEF Z!CopyModel, CheckPCs
<1>8. CASE Z!Check(d)
  <2>1. PICK v \in Z!Possible(Z!Visible(on[d])) :
          /\ pc[d] = "check" /\ pc' = [pc EXCEPT ![d] = Z!AfterCheck(fn[d], v)]
          /\ result' = [result EXCEPT ![d] = v] /\ UNCHANGED <<stage, on, smt2>>
    BY <1>8 DEF Z!Check
  <2>2. P!VerdictIsolated
    BY P!VisibleInStack DEF P!IInv, P!TypeOK, P!CallerOK, P!ScopesOK, P!VerdictIsolated
  <2>3. Z!Visible(on[d]) = Z!Asserted(smt2[d])
    BY <2>1, <2>2, SameAsserted DEF P!VerdictIsolated, P!Visible, Z!Visible
  <2>4. Z!AfterCheck(fn[d], v) \in {"idle", "pop", "model"} BY DEF Z!AfterCheck
  <2>. QED BY <1>0, <2>1, <2>3, <2>4 DEF OneStep, MakePCs, CheckPCs
<1>. QED BY <1>2, <1>3, <1>4, <1>5, <1>6, <1>7, <1>8 DEF Z!Checking
-----------------------------------------------------------------------------
(* A program of a pass is one of its directory. *)
LEMMA BlobIs ==
  ASSUME FilesOK, BlobsOK, KindsOK, NEW i \in 0 .. Len(blobs) - 1
  PROVE  /\ pass > 0 /\ blobs[i + 1] \in Due(pass)
         /\ Blob(i) = Tree[RootOf(pass)][blobs[i + 1]] /\ Blob(i) \in Programs
<1>1. pass > 0 BY DEF BlobsOK, KindsOK
<1>2. blobs[i + 1] \in Due(pass) BY <1>1 DEF BlobsOK, Enumerates
<1>3. RootOf(pass) \in Roots BY DEF RootOf, Roots
<1>4. blobs[i + 1] \in (Paths(RootOf(pass)) \ unread[RootOf(pass)]) \intersect Smt2
  BY <1>1, <1>2, <1>3 DEF FilesOK, Due
<1>5. Blob(i) = Tree[RootOf(pass)][blobs[i + 1]] BY <1>3, <1>4 DEF FilesOK, Blob
<1>6. Tree[RootOf(pass)] \in [Paths(RootOf(pass)) -> Programs] BY <1>3
<1>. QED BY <1>1, <1>2, <1>5, <1>6 DEF Due

(* The index a domain is at, and its program. *)
LEMMA AtIndex ==
  ASSUME Inv, NEW d \in Domains, at[d] # "free"
  PROVE  /\ running /\ pass \in 1 .. Len(Passes)
         /\ part[d][1] \in 0 .. Len(blobs) - 1 /\ part[d][2] \in Int
         /\ Blob(part[d][1]) \in Programs
<1>1. running /\ pass \in 1 .. Len(Passes) BY DEF Inv, PartsOK, KindsOK
<1>2. part[d][1] \in 0 .. Len(blobs) - 1 /\ part[d][2] \in Int BY MaxFilesBound DEF Inv, PartsOK, BlobsOK
<1>. QED BY <1>1, <1>2, BlobIs DEF Inv

(* There is a context left for a domain that has none. *)
LEMMA OneLeft ==
  ASSUME Inv, NEW d \in Domains, dls[d] = NoCtx, Needs(pass)
  PROVE  made \in Nat /\ made + 1 \in Ctxs
<1>1. /\ made \in Nat /\ pass \in 0 .. Len(Passes)
      /\ made + Unmade(Main) + Cardinality(Lacks) <= Budget(pass)
  <2>1. MaxCtxs \in Nat BY BudgetBounded DEF MaxCtxs, Budget
  <2>. QED BY <2>1 DEF Inv, KindsOK, CtxsOK
<1>2. IsFiniteSet(Lacks) /\ Cardinality(Lacks) \in Nat
  <2>1. Lacks \in SUBSET Helpers BY DEF Lacks
  <2>. QED BY <2>1, FS_Subset, FS_CardinalityType
<1>3. Unmade(Main) + Cardinality(Lacks) >= 1
  <2>1. CASE d = Main BY <1>2, <2>1 DEF Unmade
  <2>2. CASE d \in Helpers
    <3>1. Lacks # {} BY <2>2 DEF Lacks
    <3>2. Cardinality(Lacks) # 0 BY <1>2, <3>1, FS_EmptySet
    <3>. QED BY <1>2, <3>2 DEF Unmade
  <2>. QED BY <2>1, <2>2 DEF Domains
<1>4. Budget(pass) \in Nat /\ Budget(pass) <= MaxCtxs /\ MaxCtxs \in Nat
  BY <1>1, BudgetBounded DEF MaxCtxs, Budget
<1>5. Unmade(Main) \in Nat BY DEF Unmade
<1>. QED BY <1>1, <1>2, <1>3, <1>4, <1>5 DEF Ctxs
-----------------------------------------------------------------------------
(* Every step of a pass is a step that z3_mini.c allows. *)
LEMMA StepKeeps ==
  ASSUME Inv, [Next]_vars PROVE [Z!Next]_(Z!vars) /\ [P!Next]_(P!vars)
<1>1. CASE UNCHANGED zvars BY <1>1, SameStutter
<1>2. ASSUME NEW d \in Domains, MakeCtx(d) PROVE Z!Next /\ P!Next
  <2>1. Needs(pass) BY <1>2, AtIndex DEF MakeCtx, Needs
  <2>2. made + 1 \in Ctxs BY <1>2, <2>1, OneLeft DEF MakeCtx
  <2>. QED BY <1>2, <2>2, SameMake DEF MakeCtx
<1>3. ASSUME NEW d \in Domains, CallCheck(d) PROVE Z!Next /\ P!Next
  <2>. DEFINE c == dls[d]
  <2>. USE <1>3 DEF CallCheck, CtxOf
  <2>1. c \in Ctxs /\ stage[c] = "ready"
    <3>1. MaxCtxs \in Nat BY BudgetBounded DEF MaxCtxs, Budget
    <3>. QED BY <3>1 DEF Inv, CtxsOK, Ctxs, NoCtx
  <2>2. Passes[pass] \in Z!Fns BY AtIndex DEF Z!Fns
  <2>3. Blob(part[d][1]) \in Programs BY AtIndex
  <2>4. \A u \in Domains \ {d} : pc[u] # "idle" => on[u] # c
    BY DEF Inv, DomainOK, CtxsOK
  <2>. QED BY <2>1, <2>2, <2>3, <2>4, SameCall
<1>4. ASSUME NEW d \in Domains, ZStep(d) PROVE Z!Next /\ P!Next BY <1>4, SameStep
<1>. QED
  BY <1>1, <1>2, <1>3, <1>4
     DEF Next, MainStep, DomainStep, vars, StartPass, BeginPass, EndPass, Collect, Split,
         TakePart, AssertFails, RunExe, Store

LEMMA StepZInv ==
  ASSUME Inv, [Next]_vars PROVE P!IInv'
BY StepKeeps, ZAssumption, P!NextIInv DEF Inv
-----------------------------------------------------------------------------
(* What each step does to the rest of the invariant. *)
Rest ==
  /\ KindsOK /\ FilesOK /\ BlobsOK /\ PartsOK /\ ResOK /\ CtxsOK
  /\ \A d \in Domains : DomainOK(d)

LEMMA OtherDomain ==
  ASSUME NEW e \in Domains, DomainOK(e), UNCHANGED <<file_map, blobs, pass>>,
         pc'[e] = pc[e], on'[e] = on[e], smt2'[e] = smt2[e], result'[e] = result[e],
         part'[e] = part[e], at'[e] = at[e], dls'[e] = dls[e], verdict'[e] = verdict[e]
  PROVE  DomainOK(e)'
<1>1. \A i : Blob(i)' = Blob(i) BY DEF Blob, RootOf
<1>2. at[e] = "store" /\ Judging(e) => Judging(e)' BY <1>1 DEF Judging
<1>. QED BY <1>2 DEF DomainOK

LEMMA SameResults ==
  ASSUME ResOK, UNCHANGED <<file_map, blobs, pass, work, part, at, res>> PROVE ResOK'
<1>1. \A i : Right(i)' = Right(i) BY DEF Right, Blob, RootOf
<1>. QED BY <1>1 DEF ResOK, In, Has

LEMMA SameParts ==
  ASSUME PartsOK, UNCHANGED <<blobs, running, work, part, at>> PROVE PartsOK'
BY DEF PartsOK, In, Has

LEMMA SameCtxs ==
  ASSUME CtxsOK, UNCHANGED <<stage, pass, dls, made>> PROVE CtxsOK'
BY DEF CtxsOK, Unmade, Lacks

LEMMA StepCollect ==
  ASSUME Inv, NEW root \in Roots, Collect(root) PROVE Rest'
<1>. USE DEF Collect, collected, zvars
<1>0. unread[root] # {} /\ pass = 0 /\ Len(blobs) = 0 /\ ~running
  BY DEF Inv, FilesOK, BlobsOK, KindsOK
<1>1. KindsOK' BY DEF Inv, KindsOK
<1>2. FilesOK'
  <2>1. CASE UNCHANGED <<unread, file_map>> BY <2>1 DEF Inv, FilesOK
  <2>2. ASSUME NEW path \in unread[root], unread' = [unread EXCEPT ![root] = @ \ {path}],
               file_map' = [file_map EXCEPT ![root] = Collected(root, path)]
        PROVE  FilesOK'
    <3>. DEFINE T(r, u) == [p \in (Paths(r) \ u) \intersect Smt2 |-> Tree[r][p]]
    <3>1. unread' \in [Roots -> SUBSET UNION {Paths(r) : r \in Roots}]
          /\ \A r \in Roots : unread'[r] \subseteq Paths(r)
      BY <2>2 DEF Inv, FilesOK
    <3>2. Collected(root, path) = T(root, unread[root] \ {path})
      <4>1. DOMAIN file_map[root] = (Paths(root) \ unread[root]) \intersect Smt2
        BY DEF Inv, FilesOK
      <4>2. path \in Paths(root) BY <2>2 DEF Inv, FilesOK
      <4>3. DOMAIN file_map[root] \union ({path} \intersect Smt2)
            = (Paths(root) \ (unread[root] \ {path})) \intersect Smt2
        BY <2>2, <4>1, <4>2
      <4>. QED BY <4>3 DEF Collected
    <3>3. file_map' = [r \in Roots |-> T(r, unread'[r])]
      <4>1. file_map = [r \in Roots |-> T(r, unread[r])] BY DEF Inv, FilesOK
      <4>2. \A r \in Roots \ {root} : unread'[r] = unread[r] BY <2>2 DEF Inv, FilesOK
      <4>3. unread'[root] = unread[root] \ {path} BY <2>2 DEF Inv, FilesOK
      <4>. HIDE DEF T
      <4>. QED BY <2>2, <3>2, <4>1, <4>2, <4>3
    <3>. QED BY <1>0, <3>1, <3>3 DEF FilesOK
  <2>. QED BY <2>1, <2>2
<1>3. BlobsOK' BY <1>0 DEF Inv, BlobsOK
<1>4. PartsOK' BY SameParts DEF Inv
<1>5. ResOK' BY <1>0 DEF Inv, ResOK
<1>6. CtxsOK' BY SameCtxs DEF Inv
<1>7. ASSUME NEW d \in Domains PROVE DomainOK(d)'
  BY <1>0 DEF Inv, DomainOK, PartsOK
<1>. QED BY <1>1, <1>2, <1>3, <1>4, <1>5, <1>6, <1>7 DEF Rest

LEMMA StepStartPass ==
  ASSUME Inv, StartPass PROVE Rest'
<1>. USE DEF StartPass, BeginPass, collected, zvars
<1>. DEFINE k == pass + 1
<1>0. pass \in Nat /\ k \in 1 .. Len(Passes) /\ pass' = k /\ Len(Passes) \in Nat
  BY DEF Inv, KindsOK
<1>1. KindsOK' BY <1>0 DEF Inv, KindsOK
<1>2. FilesOK' BY DEF Inv, FilesOK
<1>3. Enumerates(blobs', Due(k)) /\ Len(blobs') \in 0 .. MaxFiles
  <2>1. DOMAIN file_map[RootOf(k)] = Due(k)
    <3>1. RootOf(k) \in Roots BY DEF RootOf, Roots
    <3>. QED BY <3>1 DEF Inv, FilesOK, Due
  <2>2. blobs' \in SetToSeqs(Due(k)) BY <1>0, <2>1
  <2>. QED BY <2>2, DueFinite, SeqsEnumerate
<1>4. BlobsOK' BY <1>0, <1>3 DEF BlobsOK
<1>5. \A d \in Domains : at[d] = "free" BY DEF Inv, PartsOK
<1>6. work' = {<<0, Len(blobs') - 1>>} BY <1>3, MaxFilesBound
<1>7. PartsOK'
  <2>1. part' \in [Domains -> (0 .. MaxFiles) \X (-1 .. MaxFiles - 1)] BY DEF Inv, PartsOK
  <2>. QED BY <1>3, <1>5, <1>6, <2>1, MaxFilesBound DEF PartsOK, In, Has
<1>8. ResOK'
  <2>1. res' = [i \in 0 .. Len(blobs') - 1 |-> "Uninit"] OBVIOUS
  <2>2. \A i \in 0 .. Len(blobs') - 1 : In(i, <<0, Len(blobs') - 1>>)
    BY <1>3, MaxFilesBound DEF In
  <2>. QED BY <1>6, <2>1, <2>2 DEF ResOK
<1>9. CtxsOK'
  <2>. DEFINE H == Cardinality(Helpers)
              L == Cardinality(Lacks)
              M == Unmade(Main)
  <2>1. /\ dls' \in [Domains -> 0 .. made] /\ UNCHANGED <<made, stage>> /\ dls'[Main] = dls[Main]
        /\ \A h \in Helpers : dls'[h] = NoCtx
    BY DEF Inv, CtxsOK, Domains, NoCtx
  <2>2. \A d, e \in Domains : dls'[d] = dls'[e] /\ dls'[d] # NoCtx => d = e
    BY <2>1 DEF Domains
  <2>3. H \in Nat /\ L \in Nat /\ M \in Nat
    <3>1. Lacks \in SUBSET Helpers BY DEF Lacks
    <3>. QED BY <3>1, FS_Subset, FS_CardinalityType DEF Unmade
  <2>4. Budget(k) = Budget(pass) + (IF Needs(k) THEN H ELSE 0) BY <1>0, BudgetGrows
  <2>5. made \in Nat /\ made + M <= Budget(pass) /\ Budget(pass) \in Nat
    <3>1. MaxCtxs \in Nat BY BudgetBounded DEF MaxCtxs, Budget
    <3>2. Budget(pass) \in Nat BY BudgetBounded DEF Inv, KindsOK
    <3>. QED BY <2>3, <3>1, <3>2 DEF Inv, CtxsOK
  <2>6. Lacks' = Helpers /\ Unmade(Main)' = M BY <2>1 DEF Lacks, Unmade
  <2>7. made' + Unmade(Main)' + (IF Needs(pass') THEN Cardinality(Lacks') ELSE 0) <= Budget(pass')
    <3>. HIDE DEF H, L, M
    <3>1. Cardinality(Lacks') = H BY <2>6 DEF H
    <3>. QED BY <1>0, <2>1, <2>3, <2>4, <2>5, <2>6, <3>1
  <2>. QED BY <2>1, <2>2, <2>7 DEF Inv, CtxsOK
<1>10. ASSUME NEW d \in Domains PROVE DomainOK(d)' BY <1>5 DEF Inv, DomainOK
<1>. QED BY <1>1, <1>2, <1>4, <1>7, <1>8, <1>9, <1>10 DEF Rest

(* A part is halved only when it has two indices or more, whatever integer *)
(* chunk_size is.                                                          *)
LEMMA LongHasTwo ==
  ASSUME Inv, NEW w \in work, Long(w)
  PROVE  w[2] - w[1] >= 1
<1>1. /\ w[1] \in Int /\ w[2] \in Int /\ 0 <= w[1] /\ w[2] < Len(blobs)
      /\ Len(blobs) \in Nat /\ chunk_size \in Int
  BY MaxFilesBound DEF Inv, PartsOK, BlobsOK, KindsOK
<1>2. w[2] - w[1] >= Chunk BY DEF Long
<1>3. CASE chunk_size > 0 BY <1>1, <1>2, <1>3 DEF Chunk
<1>4. CASE ~(chunk_size > 0) /\ Helpers = {}
  <2>1. Chunk = Len(blobs) BY <1>4 DEF Chunk
  <2>. QED BY <1>1, <1>2, <2>1
<1>5. CASE ~(chunk_size > 0) /\ Helpers # {}
  <2>. DEFINE own == Len(blobs) \div (8 * Cardinality(Domains))
  <2>1. Chunk = IF own > 1 THEN own ELSE 1 BY <1>5 DEF Chunk
  <2>2. own \in Int
    <3>1. IsFiniteSet(Domains) /\ Cardinality(Domains) = Cardinality(Helpers) + 1
      <4>1. Domains = Helpers \union {Main} BY DEF Domains
      <4>. QED BY <4>1, FS_AddElement
    <3>2. Cardinality(Helpers) \in Nat BY FS_CardinalityType
    <3>3. 8 * Cardinality(Domains) \in Nat \ {0} BY <3>1, <3>2
    <3>. HIDE DEF Domains
    <3>. QED BY <1>1, <3>3
  <2>. HIDE DEF own
  <2>. QED BY <1>1, <1>2, <2>1, <2>2
<1>. QED BY <1>3, <1>4, <1>5

(* Halving a part: the halves are disjoint and make it up. *)
LEMMA Halves ==
  ASSUME NEW a \in Int, NEW b \in Int, NEW m \in Int, m = a + (b - a) \div 2, b - a >= 1
  PROVE  /\ a <= m /\ m < b
         /\ \A i \in Int : In(i, <<a, b>>) <=> In(i, <<a, m>>) \/ In(i, <<m + 1, b>>)
         /\ \A i \in Int : ~(In(i, <<a, m>>) /\ In(i, <<m + 1, b>>))
<1>1. a <= m /\ m < b OBVIOUS
<1>. QED BY <1>1 DEF In

LEMMA StepSplit ==
  ASSUME Inv, NEW d \in Domains, Split(d) PROVE Rest'
<1>. DEFINE mid(v) == v[1] + (v[2] - v[1]) \div 2
            l(v) == <<v[1], mid(v)>>
            r(v) == <<mid(v) + 1, v[2]>>
<1>0. PICK w \in work :
        /\ at[d] = "free" /\ Long(w) /\ work' = (work \ {w}) \union {l(w), r(w)}
        /\ UNCHANGED <<zvars, collected, blobs, pass, running, part, at, dls, made, verdict, res, crashed>>
  BY DEF Split
<1>1. /\ w \in Int \X Int /\ w[1] \in Int /\ w[2] \in Int /\ w = <<w[1], w[2]>> /\ w[2] - w[1] >= 1
      /\ 0 <= w[1] /\ w[2] < Len(blobs) /\ Len(blobs) \in Nat /\ running
  BY <1>0, MaxFilesBound, LongHasTwo DEF Inv, PartsOK, BlobsOK
<1>2. mid(w) \in Int BY <1>1
<1>3. /\ w[1] <= mid(w) /\ mid(w) < w[2]
      /\ \A i \in Int : In(i, w) <=> In(i, l(w)) \/ In(i, r(w))
      /\ \A i \in Int : ~(In(i, l(w)) /\ In(i, r(w)))
  <2>. DEFINE a == w[1]
              b == w[2]
              m == mid(w)
  <2>1. a \in Int /\ b \in Int /\ m \in Int /\ m = a + (b - a) \div 2 /\ b - a >= 1 /\ w = <<a, b>>
    BY <1>1, <1>2
  <2>. HIDE DEF a, b, m
  <2>2. /\ a <= m /\ m < b
        /\ \A i \in Int : In(i, <<a, b>>) <=> In(i, <<a, m>>) \/ In(i, <<m + 1, b>>)
        /\ \A i \in Int : ~(In(i, <<a, m>>) /\ In(i, <<m + 1, b>>))
    BY <2>1, Halves
  <2>. QED BY <2>1, <2>2 DEF a, b, m
<1>4. l(w) \in Int \X Int /\ r(w) \in Int \X Int /\ l(w)[1] = w[1] /\ l(w)[2] = mid(w)
      /\ r(w)[1] = mid(w) + 1 /\ r(w)[2] = w[2]
  BY <1>1, <1>2
<1>. HIDE DEF mid, l, r
<1>. USE DEF collected, zvars
<1>5. KindsOK' /\ FilesOK' /\ BlobsOK' BY <1>0 DEF Inv, KindsOK, FilesOK, BlobsOK
<1>6. PartsOK'
  <2>1. \A i : \A e \in Domains : Has(e, i)' <=> Has(e, i) BY <1>0 DEF Has, In
  <2>2. \A v \in work' : v \in Int \X Int /\ 0 <= v[1] /\ v[1] <= v[2] + 1 /\ v[2] < Len(blobs)
    BY <1>0, <1>1, <1>2, <1>3, <1>4 DEF Inv, PartsOK
  <2>3. ASSUME NEW i \in 0 .. Len(blobs) - 1
        PROVE  /\ \A v, x \in work' : In(i, v) /\ In(i, x) => v = x
               /\ \A v \in work', e \in Domains : ~(In(i, v) /\ Has(e, i))
    <3>1. i \in Int BY <1>1
    <3>2. /\ \A v, x \in work : In(i, v) /\ In(i, x) => v = x
          /\ \A v \in work, e \in Domains : ~(In(i, v) /\ Has(e, i))
      BY DEF Inv, PartsOK
    <3>. QED BY <1>0, <1>3, <3>1, <3>2
  <2>. QED BY <1>0, <1>1, <2>1, <2>2, <2>3 DEF Inv, PartsOK
<1>7. ResOK'
  <2>1. \A i : Right(i)' = Right(i) BY <1>0 DEF Right, Blob, RootOf
  <2>2. \A i : \A e \in Domains : Has(e, i)' <=> Has(e, i) BY <1>0 DEF Has, In
  <2>3. ASSUME NEW i \in 0 .. Len(blobs) - 1
        PROVE  (\E v \in work' : In(i, v)) <=> (\E v \in work : In(i, v))
    <3>1. i \in Int BY <1>1
    <3>. QED BY <1>0, <1>3, <3>1
  <2>. QED BY <1>0, <2>1, <2>2, <2>3 DEF Inv, ResOK
<1>8. CtxsOK' BY <1>0, SameCtxs DEF Inv
<1>9. ASSUME NEW e \in Domains PROVE DomainOK(e)' BY <1>0, OtherDomain DEF Inv
<1>. QED BY <1>5, <1>6, <1>7, <1>8, <1>9 DEF Rest

LEMMA StepTakePart ==
  ASSUME Inv, NEW d \in Domains, TakePart(d) PROVE Rest'
<1>. USE DEF collected, zvars
<1>0. PICK w \in work :
        /\ at[d] = "free" /\ work' = work \ {w} /\ part' = [part EXCEPT ![d] = w]
        /\ at' = [at EXCEPT ![d] = IF w[1] <= w[2] THEN "body" ELSE "free"]
        /\ UNCHANGED <<zvars, collected, blobs, pass, running, dls, made, verdict, res, crashed>>
  BY DEF TakePart
<1>1. /\ w \in Int \X Int /\ w[1] \in Int /\ w[2] \in Int /\ w = <<w[1], w[2]>>
      /\ 0 <= w[1] /\ w[1] <= w[2] + 1 /\ w[2] < Len(blobs)
      /\ Len(blobs) \in 0 .. MaxFiles /\ MaxFiles \in Nat /\ running
  BY <1>0, MaxFilesBound DEF Inv, PartsOK, BlobsOK
<1>2. w \in (0 .. MaxFiles) \X (-1 .. MaxFiles - 1)
  <2>1. w[1] \in 0 .. MaxFiles /\ w[2] \in -1 .. MaxFiles - 1 BY <1>1
  <2>. QED BY <1>1, <2>1
<1>3. /\ part'[d] = w /\ \A e \in Domains \ {d} : part'[e] = part[e] /\ at'[e] = at[e]
      /\ at'[d] = IF w[1] <= w[2] THEN "body" ELSE "free"
  BY <1>0 DEF Inv, KindsOK, PartsOK
<1>4. KindsOK' /\ FilesOK' /\ BlobsOK' BY <1>0 DEF Inv, KindsOK, FilesOK, BlobsOK
<1>5. ASSUME NEW i \in 0 .. Len(blobs) - 1
      PROVE  /\ \A e \in Domains \ {d} : Has(e, i)' <=> Has(e, i)
             /\ (Has(d, i)' <=> In(i, w)) /\ ~Has(d, i)
  <2>1. i \in Int BY <1>1
  <2>2. In(i, w) => w[1] <= w[2] BY <1>1, <2>1 DEF In
  <2>. QED BY <1>0, <1>3, <2>2 DEF Has, In
<1>6. PartsOK'
  <2>1. part' \in [Domains -> (0 .. MaxFiles) \X (-1 .. MaxFiles - 1)]
    BY <1>0, <1>2 DEF Inv, PartsOK
  <2>2. \A e \in Domains : at'[e] # "free" => part'[e][1] <= part'[e][2] /\ part'[e][2] < Len(blobs)
    BY <1>1, <1>3 DEF Inv, PartsOK
  <2>3. ASSUME NEW i \in 0 .. Len(blobs) - 1
        PROVE  /\ \A v, x \in work' : In(i, v) /\ In(i, x) => v = x
               /\ \A v \in work', e \in Domains : ~(In(i, v) /\ Has(e, i)')
               /\ \A e, f \in Domains : Has(e, i)' /\ Has(f, i)' => e = f
    <3>1. /\ \A v, x \in work : In(i, v) /\ In(i, x) => v = x
          /\ \A v \in work, e \in Domains : ~(In(i, v) /\ Has(e, i))
          /\ \A e, f \in Domains : Has(e, i) /\ Has(f, i) => e = f
      BY DEF Inv, PartsOK
    <3>. QED BY <1>0, <1>5, <3>1
  <2>4. \A v \in work' : v \in Int \X Int /\ 0 <= v[1] /\ v[1] <= v[2] + 1 /\ v[2] < Len(blobs)
    BY <1>0 DEF Inv, PartsOK
  <2>. QED BY <1>0, <1>1, <2>1, <2>2, <2>3, <2>4 DEF PartsOK
<1>7. ResOK'
  <2>1. \A i : Right(i)' = Right(i) BY <1>0 DEF Right, Blob, RootOf
  <2>2. ASSUME NEW i \in 0 .. Len(blobs) - 1
        PROVE  ((\E v \in work' : In(i, v)) \/ (\E e \in Domains : Has(e, i)'))
               <=> ((\E v \in work : In(i, v)) \/ (\E e \in Domains : Has(e, i)))
    BY <1>0, <1>5
  <2>. QED BY <1>0, <2>1, <2>2 DEF Inv, ResOK
<1>8. CtxsOK' BY <1>0, SameCtxs DEF Inv
<1>9. ASSUME NEW e \in Domains PROVE DomainOK(e)'
  <2>1. CASE e = d BY <1>0, <1>3, <2>1 DEF Inv, DomainOK
  <2>2. CASE e # d BY <1>0, <1>3, <2>2, OtherDomain DEF Inv
  <2>. QED BY <2>1, <2>2
<1>. QED BY <1>4, <1>6, <1>7, <1>8, <1>9 DEF Rest

(* From the start of the body to its end a domain keeps its part. *)
LEMMA BodyKeepsPart ==
  ASSUME Inv, NEW d \in Domains, at[d] # "free",
         NEW s \in {"store", "stuck"}, at' = [at EXCEPT ![d] = s],
         UNCHANGED <<file_map, blobs, pass, running, work, part, res>>
  PROVE  PartsOK' /\ ResOK'
<1>1. /\ \A i : \A e \in Domains : Has(e, i)' <=> Has(e, i)
      /\ \A e \in Domains : at'[e] = "free" <=> at[e] = "free"
  BY DEF Inv, KindsOK, Has, In
<1>2. \A i : Right(i)' = Right(i) BY DEF Right, Blob, RootOf
<1>3. PartsOK' BY <1>1 DEF Inv, PartsOK
<1>4. ResOK' BY <1>1, <1>2 DEF Inv, ResOK
<1>. QED BY <1>3, <1>4

LEMMA StepMakeCtx ==
  ASSUME Inv, NEW d \in Domains, MakeCtx(d) PROVE Rest'
<1>. USE DEF MakeCtx, Z!Make, Z!Goto
<1>. DEFINE c == made + 1
<1>0. /\ Needs(pass) /\ made \in Nat /\ c \in Ctxs /\ dls[d] = NoCtx
      /\ pc \in [Domains -> {"idle"} \union MakePCs \union CheckPCs] /\ on \in [Domains -> Ctxs]
      /\ stage \in [Ctxs -> {"unused", "making", "ready", "nil", "deleted"}]
      /\ dls \in [Domains -> 0 .. made]
  <2>1. Needs(pass) BY AtIndex DEF Needs
  <2>2. pc \in [Domains -> {"idle"} \union MakePCs \union CheckPCs] /\ on \in [Domains -> Ctxs]
        /\ stage \in [Ctxs -> {"unused", "making", "ready", "nil", "deleted"}]
    BY DEF Inv, P!IInv, P!TypeOK, P!MakePCs, P!CheckPCs, MakePCs, CheckPCs
  <2>. QED BY <2>1, <2>2, OneLeft DEF Inv, CtxsOK
<1>1. KindsOK' /\ FilesOK' /\ BlobsOK' BY DEF Inv, KindsOK, FilesOK, BlobsOK, collected
<1>2. PartsOK' BY SameParts DEF Inv
<1>3. ResOK' BY SameResults DEF Inv, collected
<1>4. /\ dls'[d] = c /\ pc'[d] = "malloc" /\ on'[d] = c /\ made' = c
      /\ \A e \in Domains \ {d} : dls'[e] = dls[e] /\ pc'[e] = pc[e] /\ on'[e] = on[e]
      /\ \A x \in Ctxs \ {c} : stage'[x] = stage[x]
  BY <1>0
<1>5. CtxsOK'
  <2>1. made' \in 0 .. MaxCtxs BY <1>0, <1>4 DEF Ctxs
  <2>2. dls' \in [Domains -> 0 .. made'] BY <1>0, <1>4
  <2>3. \A e, f \in Domains : dls'[e] = dls'[f] /\ dls'[e] # NoCtx => e = f
    <3>1. \A e \in Domains : dls[e] # c BY <1>0
    <3>. QED BY <1>4, <3>1 DEF Inv, CtxsOK
  <2>4. \A x \in Ctxs : x > made' => stage'[x] = "unused"
    BY <1>0, <1>4 DEF Inv, CtxsOK, Ctxs
  <2>5. made' + Unmade(Main)' + Cardinality(Lacks') <= Budget(pass)
    <3>1. IsFiniteSet(Lacks)
      <4>1. Lacks \in SUBSET Helpers BY DEF Lacks
      <4>. QED BY <4>1, FS_Subset
    <3>2. made + Unmade(Main) + Cardinality(Lacks) <= Budget(pass) /\ Cardinality(Lacks) \in Nat
      BY <1>0, <3>1, FS_CardinalityType DEF Inv, CtxsOK
    <3>3. c # NoCtx BY <1>0 DEF NoCtx
    <3>4. CASE d = Main
      <4>1. Lacks' = Lacks BY <1>4, <3>4 DEF Lacks, Domains
      <4>2. Unmade(Main) = 1 /\ Unmade(Main)' = 0 BY <1>0, <1>4, <3>3, <3>4 DEF Unmade
      <4>3. Cardinality(Lacks') = Cardinality(Lacks) BY <4>1
      <4>. QED BY <1>0, <1>4, <3>2, <4>2, <4>3
    <3>5. CASE d # Main
      <4>1. d \in Lacks BY <1>0, <3>5 DEF Lacks, Domains
      <4>2. Lacks' = Lacks \ {d}
        <5>1. \A h \in Helpers : dls'[h] = IF h = d THEN c ELSE dls[h] BY <1>4 DEF Domains
        <5>. QED BY <3>3, <5>1 DEF Lacks
      <4>3. Cardinality(Lacks') = Cardinality(Lacks) - 1
        BY <3>1, <4>1, <4>2, FS_RemoveElement
      <4>4. Unmade(Main)' = Unmade(Main) /\ Unmade(Main) \in Nat
        BY <1>4, <3>5 DEF Unmade, Domains
      <4>5. made + Unmade(Main) + Cardinality(Lacks) = (made + 1) + Unmade(Main) + (Cardinality(Lacks) - 1)
        BY <1>0, <3>2, <4>4
      <4>. QED BY <1>4, <3>2, <4>3, <4>4, <4>5
    <3>. QED BY <3>4, <3>5
  <2>6. Budget(pass)' = Budget(pass) /\ pass' = pass OBVIOUS
  <2>. QED BY <1>0, <2>1, <2>2, <2>3, <2>4, <2>5, <2>6 DEF CtxsOK
<1>6. ASSUME NEW e \in Domains PROVE DomainOK(e)'
  <2>1. CASE e = d
    BY <1>0, <1>4, <2>1 DEF DomainOK, NoCtx, MakePCs
  <2>2. CASE e # d BY <1>4, <2>2, OtherDomain DEF Inv, collected
  <2>. QED BY <2>1, <2>2
<1>. QED BY <1>1, <1>2, <1>3, <1>5, <1>6 DEF Rest

LEMMA StepCallCheck ==
  ASSUME Inv, NEW d \in Domains, CallCheck(d) PROVE Rest'
<1>. USE DEF CallCheck, CtxOf, Z!Enter, Z!Goto, Z!solver
<1>0. /\ pc \in [Domains -> {"idle"} \union MakePCs \union CheckPCs] /\ on \in [Domains -> Ctxs]
      /\ smt2 \in [Domains -> Programs]
  BY DEF Inv, P!IInv, P!TypeOK, P!MakePCs, P!CheckPCs, MakePCs, CheckPCs
<1>1. KindsOK' /\ FilesOK' /\ BlobsOK' BY DEF Inv, KindsOK, FilesOK, BlobsOK, collected
<1>2. PartsOK' /\ ResOK' BY BodyKeepsPart DEF collected
<1>3. CtxsOK' BY SameCtxs DEF Inv
<1>4. ASSUME NEW e \in Domains PROVE DomainOK(e)'
  <2>1. CASE e = d
    <3>1. /\ pc'[d] = "reset" /\ on'[d] = dls[d] /\ smt2'[d] = Blob(part[d][1])
          /\ at'[d] = "store" /\ dls'[d] = dls[d] /\ part' = part
      BY <1>0 DEF Inv, KindsOK
    <3>2. \A i : Blob(i)' = Blob(i) BY DEF Blob, RootOf, collected
    <3>3. Judging(d)' BY <3>1, <3>2 DEF Judging, CheckPCs
    <3>. QED BY <2>1, <3>1, <3>3 DEF DomainOK
  <2>2. CASE e # d
    <3>1. /\ pc'[e] = pc[e] /\ on'[e] = on[e] /\ smt2'[e] = smt2[e] /\ at'[e] = at[e]
      BY <1>0, <2>2 DEF Inv, KindsOK
    <3>. QED BY <3>1, OtherDomain DEF Inv, collected
  <2>. QED BY <2>1, <2>2
<1>. QED BY <1>1, <1>2, <1>3, <1>4 DEF Rest

LEMMA StepAssertFails ==
  ASSUME Inv, NEW d \in Domains, AssertFails(d) PROVE Rest'
<1>. USE DEF AssertFails, zvars, collected
<1>1. KindsOK' /\ FilesOK' /\ BlobsOK' BY DEF Inv, KindsOK, FilesOK, BlobsOK
<1>2. PartsOK' /\ ResOK' /\ CtxsOK' BY SameParts, SameResults, SameCtxs DEF Inv
<1>3. ASSUME NEW e \in Domains PROVE DomainOK(e)' BY OtherDomain DEF Inv
<1>. QED BY <1>1, <1>2, <1>3 DEF Rest

LEMMA StepRunExe ==
  ASSUME Inv, NEW d \in Domains, RunExe(d) PROVE Rest'
<1>. USE DEF zvars, collected
<1>. DEFINE p == Blob(part[d][1])
<1>0. at[d] = "body" /\ Passes[pass] = Subproc /\ p \in Programs /\ pc[d] = "idle"
  BY AtIndex DEF RunExe, Inv, DomainOK
<1>1. UNCHANGED <<zvars, collected, blobs, pass, running, work, part, dls, made, res>>
  BY DEF RunExe
<1>2. CASE UNCHANGED <<verdict, at>> /\ crashed' = TRUE
  <2>1. KindsOK' /\ FilesOK' /\ BlobsOK' BY <1>1, <1>2 DEF Inv, KindsOK, FilesOK, BlobsOK
  <2>2. PartsOK' /\ ResOK' /\ CtxsOK'
    BY <1>1, <1>2, SameParts, SameResults, SameCtxs DEF Inv
  <2>3. ASSUME NEW e \in Domains PROVE DomainOK(e)' BY <1>1, <1>2, OtherDomain DEF Inv
  <2>. QED BY <2>1, <2>2, <2>3 DEF Rest
<1>3. ASSUME NEW v \in Verdicts \union {"Uninit"}, NEW s \in {"store", "stuck"},
             s = "store" => v \in ExeVerdicts(p),
             verdict' = [verdict EXCEPT ![d] = v], at' = [at EXCEPT ![d] = s],
             UNCHANGED crashed
      PROVE  Rest'
  <2>1. KindsOK' /\ FilesOK' /\ BlobsOK'
    BY <1>1, <1>3 DEF Inv, KindsOK, FilesOK, BlobsOK
  <2>2. PartsOK' /\ ResOK' /\ CtxsOK' BY <1>0, <1>1, <1>3, BodyKeepsPart, SameCtxs DEF Inv
  <2>3. ASSUME NEW e \in Domains PROVE DomainOK(e)'
    <3>1. CASE e = d
      <4>1. \A i : Blob(i)' = Blob(i) BY <1>1 DEF Blob, RootOf
      <4>2. verdict'[d] = v /\ at'[d] = s BY <1>3 DEF Inv, KindsOK
      <4>3. at'[d] = "store" => Judging(d)' BY <1>0, <1>1, <1>3, <4>1, <4>2 DEF Judging, ExeVerdicts
      <4>. QED BY <1>0, <1>1, <1>3, <3>1, <4>2, <4>3 DEF DomainOK
    <3>2. CASE e # d
      <4>1. verdict'[e] = verdict[e] /\ at'[e] = at[e] BY <1>3, <3>2 DEF Inv, KindsOK
      <4>. QED BY <1>1, <4>1, OtherDomain DEF Inv
    <3>. QED BY <3>1, <3>2
  <2>. QED BY <2>1, <2>2, <2>3 DEF Rest
<1>4. CASE UNCHANGED <<verdict, crashed>> /\ at' = [at EXCEPT ![d] = "stuck"]
  <2>1. verdict[d] \in Verdicts \union {"Uninit"} /\ verdict' = [verdict EXCEPT ![d] = verdict[d]]
    BY <1>4 DEF Inv, KindsOK
  <2>. QED BY <1>3, <1>4, <2>1
<1>5. ExeVerdicts(p) \subseteq Verdicts BY <1>0, FitsIsVerdict
<1>. QED BY <1>2, <1>3, <1>4, <1>5 DEF RunExe

LEMMA StepZ ==
  ASSUME Inv, NEW d \in Domains, ZStep(d) PROVE Rest'
<1>. USE DEF bvars, collected
<1>0. UNCHANGED bvars /\ OneStep(d)
  BY MakingIsOneStep, CheckingIsOneStep DEF ZStep, Inv
<1>1. KindsOK' /\ FilesOK' /\ BlobsOK' BY <1>0 DEF Inv, KindsOK, FilesOK, BlobsOK
<1>2. PartsOK' /\ ResOK' BY <1>0, SameParts, SameResults DEF Inv
<1>3. on[d] = dls[d] /\ dls[d] # NoCtx /\ dls[d] \in 0 .. made /\ made \in Int
  <2>1. MaxCtxs \in Nat BY BudgetBounded DEF MaxCtxs, Budget
  <2>. QED BY <1>0, <2>1 DEF Inv, DomainOK, CtxsOK, OneStep
<1>4. CtxsOK'
  <2>1. \A c \in Ctxs : c > made => stage'[c] = "unused"
    BY <1>0, <1>3 DEF Inv, CtxsOK, OneStep, Ctxs
  <2>2. Unmade(Main)' = Unmade(Main) /\ Lacks' = Lacks BY <1>0 DEF Unmade, Lacks
  <2>. QED BY <1>0, <2>1, <2>2 DEF Inv, CtxsOK
<1>5. ASSUME NEW e \in Domains PROVE DomainOK(e)'
  <2>0. \A i : Blob(i)' = Blob(i) BY <1>0 DEF Blob, RootOf
  <2>1. CASE e # d
    BY <1>0, <2>1, OtherDomain DEF Inv, OneStep
  <2>2. CASE e = d /\ at[d] = "body"
    BY <1>0, <1>3, <2>2 DEF Inv, DomainOK, OneStep
  <2>3. CASE e = d /\ at[d] = "store"
    <3>1. Passes[pass] # Subproc /\ pc[d] \in CheckPCs /\ smt2[d] = Blob(part[d][1])
          /\ (pc[d] \in {"idle", "pop", "model", "copy"} =>
                 result[d] \in Z!Possible(Z!Asserted(smt2[d])))
      BY <1>0, <2>3 DEF Inv, DomainOK, Judging, OneStep
    <3>2. Judging(d)' BY <1>0, <2>0, <3>1 DEF Judging, OneStep
    <3>. QED BY <1>0, <1>3, <2>3, <3>2 DEF DomainOK, OneStep
  <2>4. at[d] \in {"body", "store"}
    BY <1>0 DEF Inv, DomainOK, KindsOK, OneStep
  <2>. QED BY <2>1, <2>2, <2>3, <2>4
<1>. QED BY <1>1, <1>2, <1>4, <1>5 DEF Rest

LEMMA StepEndPass ==
  ASSUME Inv, EndPass PROVE Rest'
<1>. USE DEF EndPass, zvars, collected
<1>1. KindsOK' /\ FilesOK' /\ BlobsOK' BY DEF Inv, KindsOK, FilesOK, BlobsOK
<1>2. PartsOK' BY DEF Inv, PartsOK, In, Has
<1>3. ResOK' /\ CtxsOK' BY SameResults, SameCtxs DEF Inv
<1>4. ASSUME NEW e \in Domains PROVE DomainOK(e)' BY OtherDomain DEF Inv
<1>. QED BY <1>1, <1>2, <1>3, <1>4 DEF Rest

(* What is stored is a verdict of the program of the index. *)
Given(d) == IF Passes[pass] = Subproc THEN verdict[d] ELSE result[d]

LEMMA Stored ==
  ASSUME Inv, NEW d \in Domains, Store(d)
  PROVE  /\ at[d] = "store" /\ part[d][1] \in 0 .. Len(blobs) - 1 /\ res[part[d][1]] = "Uninit"
         /\ Given(d) \in Right(part[d][1]) /\ Given(d) \in Verdicts
         /\ res' = [res EXCEPT ![part[d][1]] = Given(d)]
         /\ UNCHANGED <<file_map, blobs, pass, running>>
<1>. DEFINE i == part[d][1]
<1>1. at[d] = "store" /\ i \in 0 .. Len(blobs) - 1 /\ Blob(i) \in Programs
  BY AtIndex DEF Store
<1>2. Has(d, i)
  <2>1. part[d][1] <= part[d][2] BY <1>1 DEF Inv, PartsOK
  <2>. QED BY <1>1, <2>1 DEF Has, In
<1>3. res[i] = "Uninit" BY <1>1, <1>2 DEF Inv, ResOK
<1>4. Given(d) \in Right(i)
  BY <1>1 DEF Store, Inv, DomainOK, Judging, Given, Right
<1>. QED BY <1>1, <1>3, <1>4, FitsIsVerdict DEF Store, Given, Right, collected

LEMMA StepStore ==
  ASSUME Inv, NEW d \in Domains, Store(d) PROVE Rest'
<1>. USE DEF zvars, collected
<1>. DEFINE a == part[d][1]
            b == part[d][2]
<1>0. /\ at[d] = "store" /\ pc[d] = "idle" /\ a \in Int /\ b \in Int /\ 0 <= a /\ a <= b
      /\ b < Len(blobs) /\ Len(blobs) \in 0 .. MaxFiles /\ MaxFiles \in Nat
      /\ part[d] \in (0 .. MaxFiles) \X (-1 .. MaxFiles - 1) /\ running
  BY AtIndex, MaxFilesBound DEF Store, Inv, PartsOK, BlobsOK
<1>1. /\ UNCHANGED <<zvars, collected, blobs, pass, running, work, dls, made, crashed>>
      /\ verdict' = [verdict EXCEPT ![d] = "Uninit"]
      /\ part' = [part EXCEPT ![d] = <<a + 1, b>>]
      /\ at' = [at EXCEPT ![d] = IF a < b THEN "body" ELSE "free"]
  BY DEF Store
<1>2. /\ part'[d] = <<a + 1, b>> /\ part'[d][1] = a + 1 /\ part'[d][2] = b
      /\ at'[d] = IF a < b THEN "body" ELSE "free"
      /\ \A e \in Domains \ {d} : part'[e] = part[e] /\ at'[e] = at[e] /\ verdict'[e] = verdict[e]
  BY <1>1 DEF Inv, KindsOK, PartsOK
<1>. HIDE DEF a, b
<1>3. KindsOK' /\ FilesOK' /\ BlobsOK' BY <1>1 DEF Inv, KindsOK, FilesOK, BlobsOK
<1>4. ASSUME NEW i \in 0 .. Len(blobs) - 1
      PROVE  /\ \A e \in Domains \ {d} : Has(e, i)' <=> Has(e, i)
             /\ Has(d, i)' <=> (Has(d, i) /\ i # a)
             /\ i = a => Has(d, i)
  <2>1. i \in Int BY <1>0
  <2>2. Has(d, i) <=> (a <= i /\ i <= b) BY <1>0 DEF Has, In, a, b
  <2>3. Has(d, i)' <=> (a < b /\ a + 1 <= i /\ i <= b) BY <1>2 DEF Has, In
  <2>4. \A e \in Domains \ {d} : Has(e, i)' <=> Has(e, i) BY <1>2 DEF Has, In
  <2>. QED BY <1>0, <2>1, <2>2, <2>3, <2>4
<1>5. PartsOK'
  <2>1. <<a + 1, b>> \in (0 .. MaxFiles) \X (-1 .. MaxFiles - 1)
    <3>1. a + 1 \in 0 .. MaxFiles /\ b \in -1 .. MaxFiles - 1 BY <1>0
    <3>. QED BY <3>1
  <2>2. part' \in [Domains -> (0 .. MaxFiles) \X (-1 .. MaxFiles - 1)]
    BY <1>1, <2>1 DEF Inv, PartsOK
  <2>3. \A e \in Domains : at'[e] # "free" => part'[e][1] <= part'[e][2] /\ part'[e][2] < Len(blobs)
    <3>1. at'[d] # "free" => part'[d][1] <= part'[d][2] /\ part'[d][2] < Len(blobs)
      BY <1>0, <1>2
    <3>. QED BY <1>2, <3>1 DEF Inv, PartsOK
  <2>4. ASSUME NEW i \in 0 .. Len(blobs) - 1
        PROVE  /\ \A v, w \in work : In(i, v) /\ In(i, w) => v = w
               /\ \A v \in work, e \in Domains : ~(In(i, v) /\ Has(e, i)')
               /\ \A e, f \in Domains : Has(e, i)' /\ Has(f, i)' => e = f
    <3>1. \A e \in Domains : Has(e, i)' => Has(e, i) BY <1>4
    <3>. QED BY <3>1 DEF Inv, PartsOK
  <2>5. \A w \in work : w \in Int \X Int /\ 0 <= w[1] /\ w[1] <= w[2] + 1 /\ w[2] < Len(blobs)
    BY DEF Inv, PartsOK
  <2>. QED BY <1>0, <1>1, <2>2, <2>3, <2>4, <2>5 DEF PartsOK
<1>6. ResOK'
  <2>0. /\ a \in 0 .. Len(blobs) - 1 /\ Given(d) \in Verdicts /\ res' = [res EXCEPT ![a] = Given(d)]
        /\ Given(d) \in Right(a)
    BY Stored DEF a
  <2>1. \A i : Right(i)' = Right(i) BY <1>1 DEF Right, Blob, RootOf
  <2>2. res' \in [0 .. Len(blobs) - 1 -> Verdicts \union {"Uninit"}]
    BY <2>0 DEF Inv, ResOK
  <2>3. ASSUME NEW i \in 0 .. Len(blobs) - 1
        PROVE  IF (\E w \in work : In(i, w)) \/ (\E e \in Domains : Has(e, i)')
               THEN res'[i] = "Uninit"
               ELSE res'[i] \in Right(i)
    <3>1. CASE i = a
      <4>1. Has(d, i) /\ ~Has(d, i)' BY <1>4, <3>1
      <4>2. ~(\E w \in work : In(i, w)) /\ \A e \in Domains \ {d} : ~Has(e, i)
        BY <4>1 DEF Inv, PartsOK
      <4>3. \A e \in Domains : ~Has(e, i)' BY <1>4, <4>1, <4>2
      <4>4. res'[i] = Given(d) BY <2>0, <3>1 DEF Inv, ResOK
      <4>. QED BY <2>0, <3>1, <4>2, <4>3, <4>4
    <3>2. CASE i # a
      <4>1. \A e \in Domains : Has(e, i)' <=> Has(e, i) BY <1>4, <3>2
      <4>2. res'[i] = res[i] BY <2>0, <3>2 DEF Inv, ResOK
      <4>. QED BY <4>1, <4>2 DEF Inv, ResOK
    <3>. QED BY <3>1, <3>2
  <2>. QED BY <1>1, <2>1, <2>2, <2>3 DEF ResOK
<1>7. CtxsOK' BY <1>1, SameCtxs DEF Inv
<1>8. ASSUME NEW e \in Domains PROVE DomainOK(e)'
  <2>1. CASE e = d BY <1>0, <1>1, <1>2, <2>1 DEF DomainOK
  <2>2. CASE e # d BY <1>1, <1>2, <2>2, OtherDomain DEF Inv
  <2>. QED BY <2>1, <2>2
<1>. QED BY <1>3, <1>5, <1>6, <1>7, <1>8 DEF Rest

LEMMA NextInv ==
  ASSUME Inv, [Next]_vars PROVE Inv'
<1>1. P!IInv' BY StepZInv
<1>2. Rest'
  <2>1. CASE UNCHANGED vars
    <3>. USE <2>1 DEF vars, bvars, zvars, collected
    <3>1. KindsOK' /\ FilesOK' /\ BlobsOK' BY DEF Inv, KindsOK, FilesOK, BlobsOK
    <3>2. PartsOK' /\ ResOK' /\ CtxsOK' BY SameParts, SameResults, SameCtxs DEF Inv
    <3>3. ASSUME NEW e \in Domains PROVE DomainOK(e)' BY OtherDomain DEF Inv
    <3>. QED BY <3>1, <3>2, <3>3 DEF Rest
  <2>2. CASE MainStep BY <2>2, StepStartPass, StepEndPass, StepCollect DEF MainStep
  <2>3. ASSUME NEW d \in Domains, DomainStep(d) PROVE Rest'
    BY <2>3, StepSplit, StepTakePart, StepMakeCtx, StepCallCheck, StepAssertFails,
       StepRunExe, StepZ, StepStore
       DEF DomainStep
  <2>. QED BY <2>1, <2>2, <2>3 DEF Next
<1>. QED BY <1>1, <1>2 DEF Rest, Inv

LEMMA Invariant == Spec => []Inv
<1>1. Inv /\ [Next]_vars => Inv' BY NextInv
<1>. QED BY <1>1, InitInv, PTL DEF Spec
-----------------------------------------------------------------------------
(* Every variable keeps its type: no part of the range reaches outside the *)
(* array and there is a context for every domain that asks for one.        *)
THEOREM TypeCorrect == Spec => []TypeOK
<1>1. Inv => TypeOK
  <2>. SUFFICES ASSUME Inv PROVE TypeOK OBVIOUS
  <2>0. MaxFiles \in Nat /\ MaxCtxs \in Nat /\ made \in 0 .. MaxCtxs /\ Len(blobs) \in 0 .. MaxFiles
    <3>1. MaxCtxs \in Nat BY BudgetBounded DEF MaxCtxs, Budget
    <3>. QED BY <3>1, MaxFilesBound DEF Inv, CtxsOK, BlobsOK
  <2>1. \A root \in Roots : unread[root] \subseteq Paths(root) /\ DOMAIN file_map[root] \subseteq Paths(root)
    BY DEF Inv, FilesOK
  <2>2. work \subseteq (0 .. MaxFiles) \X (-1 .. Len(blobs) - 1)
    <3>. SUFFICES ASSUME NEW w \in work PROVE w \in (0 .. MaxFiles) \X (-1 .. Len(blobs) - 1)
      OBVIOUS
    <3>1. w \in Int \X Int /\ 0 <= w[1] /\ w[1] <= w[2] + 1 /\ w[2] < Len(blobs)
      BY DEF Inv, PartsOK
    <3>2. w[1] \in 0 .. MaxFiles /\ w[2] \in -1 .. Len(blobs) - 1 /\ w = <<w[1], w[2]>>
      BY <2>0, <3>1
    <3>. QED BY <3>2
  <2>3. dls \in [Domains -> Ctxs \union {NoCtx}]
    <3>1. 0 .. made \subseteq Ctxs \union {NoCtx} BY <2>0 DEF Ctxs, NoCtx
    <3>. QED BY <3>1 DEF Inv, CtxsOK
  <2>4. Z!Verdicts = Verdicts BY DEF Z!Verdicts, Verdicts
  <2>. QED BY <2>0, <2>1, <2>2, <2>3, <2>4 DEF Inv, KindsOK, PartsOK, ResOK, TypeOK
<1>. QED BY <1>1, Invariant, PTL

(* The passes use z3_mini.c as it has to be used: a context is one         *)
(* domain's, used only when mk has made it, and MaxCtxs contexts, one for  *)
(* the main domain and one for a helper of a pass, are enough.             *)
THEOREM Interface == Spec => KeepsInterface
<1>1. Init => Z!Init BY DEF Init
<1>2. Inv /\ [Next]_vars => [Z!Next]_(Z!vars) BY StepKeeps
<1>. QED BY <1>1, <1>2, Invariant, PTL DEF Spec, KeepsInterface, Z!Spec
-----------------------------------------------------------------------------
(* The refinement of Batch: the verdicts by program instead of by index.   *)
ByProgram(b, r) ==
  [path \in {b[k] : k \in DOMAIN b} |-> r[CHOOSE i \in DOMAIN r : b[i + 1] = path]]

LEMMA EnumeratedAt ==
  ASSUME NEW S, NEW b, Len(b) \in Nat, Enumerates(b, S), NEW p \in S
  PROVE  \E i \in 0 .. Len(b) - 1 : p = b[i + 1]
<1>1. PICK k \in 1 .. Len(b) : b[k] = p BY DEF Enumerates
<1>2. k - 1 \in 0 .. Len(b) - 1 /\ (k - 1) + 1 = k OBVIOUS
<1>. QED BY <1>1, <1>2

LEMMA ByProgramIs ==
  ASSUME NEW S, NEW b, Len(b) \in Nat, Enumerates(b, S), NEW r, DOMAIN r = 0 .. Len(b) - 1
  PROVE  /\ DOMAIN ByProgram(b, r) = S
         /\ \A i \in 0 .. Len(b) - 1 : ByProgram(b, r)[b[i + 1]] = r[i]
<1>. USE DEF Enumerates
<1>1. DOMAIN b = 1 .. Len(b) OBVIOUS
<1>2. {b[k] : k \in DOMAIN b} = S BY <1>1
<1>3. ASSUME NEW i \in 0 .. Len(b) - 1 PROVE ByProgram(b, r)[b[i + 1]] = r[i]
  <2>1. i + 1 \in 1 .. Len(b) /\ b[i + 1] \in S OBVIOUS
  <2>2. \A j \in DOMAIN r : b[j + 1] = b[i + 1] <=> j = i
    <3>1. \A j \in 0 .. Len(b) - 1 : j + 1 \in 1 .. Len(b) OBVIOUS
    <3>. QED BY <2>1, <3>1
  <2>3. (CHOOSE j \in DOMAIN r : b[j + 1] = b[i + 1]) = i BY <2>2
  <2>. QED BY <1>2, <2>1, <2>3 DEF ByProgram
<1>. QED BY <1>2, <1>3 DEF ByProgram

(* The verdicts that fit the program of an index. *)
LEMMA FitsIs ==
  ASSUME FilesOK, BlobsOK, KindsOK, NEW i \in 0 .. Len(blobs) - 1
  PROVE  Fits[blobs[i + 1]] = Right(i)
<1>1. blobs[i + 1] \in Due(pass) /\ Blob(i) = Tree[RootOf(pass)][blobs[i + 1]] BY BlobIs
<1>2. blobs[i + 1] \in Smt2 /\ blobs[i + 1] \in Paths(RootOf(pass)) BY <1>1 DEF Due
<1>3. CASE Passes[pass] = Subproc
  <2>1. RootOf(pass) = "root_non_api_dir" BY <1>3 DEF RootOf
  <2>2. blobs[i + 1] \notin Paths("root_dir") BY <1>2, <2>1
  <2>. QED BY <1>1, <1>2, <1>3, <2>1, <2>2 DEF Fits, Right
<1>4. CASE Passes[pass] # Subproc
  <2>1. RootOf(pass) = "root_dir" BY <1>4 DEF RootOf
  <2>. QED BY <1>1, <1>2, <1>4, <2>1 DEF Fits, Right
<1>. QED BY <1>3, <1>4

LEMMA BatchStep ==
  ASSUME Inv, Inv', [Next]_vars PROVE [B!Next]_(B!vars)
<1>. DEFINE Over == [k \in DOMAIN Passes |-> Paths(RootOf(k)) \intersect Smt2]
            bar == ByProgram(blobs, res)
<1>0. B!vars = <<pass, running, bar>> BY DEF B!vars, ByProgram, Index
<1>1. CASE UNCHANGED <<pass, running, blobs, res>>
  <2>1. bar' = bar BY <1>1 DEF ByProgram
  <2>2. B!vars' = <<pass', running', bar'>> BY DEF B!vars, ByProgram, Index
  <2>. HIDE DEF bar
  <2>. QED BY <1>0, <1>1, <2>1, <2>2
<1>2. CASE StartPass
  <2>. DEFINE k == pass + 1
  <2>1. /\ ~running /\ running' /\ pass' = k /\ k \in DOMAIN Passes
        /\ res' = [i \in 0 .. Len(blobs') - 1 |-> "Uninit"]
    <3>1. pass \in Nat /\ pass < Len(Passes) /\ Len(Passes) \in Nat
      BY <1>2 DEF StartPass, BeginPass, Inv, KindsOK
    <3>. QED BY <1>2, <3>1 DEF StartPass, BeginPass
  <2>2. Enumerates(blobs', Due(k)) /\ Len(blobs') \in Nat
    <3>1. pass' > 0 BY <2>1 DEF Inv, KindsOK
    <3>. QED BY <2>1, <3>1, MaxFilesBound DEF Inv, BlobsOK
  <2>3. bar' = [p \in Due(k) |-> "Uninit"]
    <3>1. /\ DOMAIN ByProgram(blobs', res') = Due(k)
          /\ \A i \in 0 .. Len(blobs') - 1 : ByProgram(blobs', res')[blobs'[i + 1]] = res'[i]
      <4>1. DOMAIN res' = 0 .. Len(blobs') - 1 BY <2>1
      <4>. QED BY <2>2, <4>1, ByProgramIs
    <3>2. ASSUME NEW p \in Due(k) PROVE ByProgram(blobs', res')[p] = "Uninit"
      <4>1. PICK i \in 0 .. Len(blobs') - 1 : p = blobs'[i + 1] BY <2>2, EnumeratedAt
      <4>. QED BY <2>1, <3>1, <4>1
    <3>3. ByProgram(blobs', res') = [p \in Due(k) |-> ByProgram(blobs', res')[p]]
      BY <3>1 DEF ByProgram
    <3>. QED BY <3>2, <3>3
  <2>4. bar' = [p \in Over[pass'] |-> "Uninit"] BY <2>1, <2>3 DEF Due
  <2>5. B!Open BY <2>1, <2>4 DEF B!Open, ByProgram, Index
  <2>. QED BY <2>5 DEF B!Next
<1>3. ASSUME NEW d \in Domains, Store(d) PROVE B!Next
  <2>. DEFINE i == part[d][1]
              p == blobs[i + 1]
  <2>1. /\ i \in 0 .. Len(blobs) - 1 /\ res[i] = "Uninit" /\ running /\ pass > 0
        /\ Given(d) \in Right(i) /\ res' = [res EXCEPT ![i] = Given(d)]
        /\ UNCHANGED <<blobs, pass, running>>
    <3>1. running BY <1>3, AtIndex DEF Store
    <3>. QED BY <1>3, <3>1, Stored DEF Inv, KindsOK
  <2>2. /\ Enumerates(blobs, Due(pass)) /\ Len(blobs) \in Nat /\ DOMAIN res = 0 .. Len(blobs) - 1
        /\ DOMAIN res' = 0 .. Len(blobs) - 1
    BY <2>1, MaxFilesBound DEF Inv, BlobsOK, ResOK, KindsOK
  <2>3. DOMAIN bar = Due(pass) /\ \A j \in 0 .. Len(blobs) - 1 : bar[blobs[j + 1]] = res[j]
    BY <2>2, ByProgramIs
  <2>4. /\ DOMAIN ByProgram(blobs, res') = Due(pass)
        /\ \A j \in 0 .. Len(blobs) - 1 : ByProgram(blobs, res')[blobs[j + 1]] = res'[j]
    BY <2>2, ByProgramIs
  <2>5. p \in Due(pass) /\ bar[p] = "Uninit" BY <2>1, <2>2, <2>3 DEF Enumerates
  <2>6. ByProgram(blobs, res') = [bar EXCEPT ![p] = Given(d)]
    <3>1. \A q \in Due(pass) : ByProgram(blobs, res')[q] = IF q = p THEN Given(d) ELSE bar[q]
      <4>. SUFFICES ASSUME NEW q \in Due(pass)
                    PROVE  ByProgram(blobs, res')[q] = IF q = p THEN Given(d) ELSE bar[q]
        OBVIOUS
      <4>0. PICK j \in 0 .. Len(blobs) - 1 : q = blobs[j + 1] BY <2>2, EnumeratedAt
      <4>1. blobs[j + 1] = p <=> j = i
        <5>1. j + 1 \in 1 .. Len(blobs) /\ i + 1 \in 1 .. Len(blobs) BY <2>1, <2>2
        <5>. QED BY <2>1, <2>2, <5>1 DEF Enumerates
      <4>2. res'[j] = IF j = i THEN Given(d) ELSE res[j] BY <2>1, <2>2
      <4>. HIDE DEF bar, p, i
      <4>. QED BY <2>3, <2>4, <4>0, <4>1, <4>2
    <3>2. ByProgram(blobs, res') = [q \in Due(pass) |-> ByProgram(blobs, res')[q]]
          /\ bar = [q \in Due(pass) |-> bar[q]]
      BY <2>3, <2>4 DEF ByProgram
    <3>. HIDE DEF bar
    <3>. QED BY <3>1, <3>2, <2>5
  <2>7. Given(d) \in Fits[p] BY <2>1, FitsIs DEF Inv
  <2>8. PICK q : q = p OBVIOUS
  <2>9. B!Judge(q)
    <3>1. bar' = [bar EXCEPT ![q] = Given(d)] BY <2>1, <2>6, <2>8
    <3>. QED BY <2>1, <2>5, <2>7, <2>8, <3>1 DEF B!Judge, Fits, ByProgram, Index
  <2>10. q \in DOMAIN [path \in {blobs[k] : k \in DOMAIN blobs} |-> res[Index(path)]]
    BY <2>3, <2>5, <2>8 DEF ByProgram, Index
  <2>. QED BY <2>9, <2>10 DEF B!Next
<1>4. CASE EndPass
  <2>1. /\ running /\ ~running' /\ work = {} /\ \A d \in Domains : at[d] = "free"
        /\ UNCHANGED <<pass, blobs, res>> /\ pass \in DOMAIN Passes
    BY <1>4 DEF EndPass, Inv, KindsOK
  <2>2. Enumerates(blobs, Due(pass)) /\ Len(blobs) \in Nat /\ DOMAIN res = 0 .. Len(blobs) - 1
    BY <2>1, MaxFilesBound DEF Inv, BlobsOK, ResOK, KindsOK
  <2>3. \A j \in 0 .. Len(blobs) - 1 : bar[blobs[j + 1]] = res[j] BY <2>2, ByProgramIs
  <2>4. \A j \in 0 .. Len(blobs) - 1 : res[j] \in Fits[blobs[j + 1]]
    <3>. SUFFICES ASSUME NEW j \in 0 .. Len(blobs) - 1 PROVE res[j] \in Fits[blobs[j + 1]] OBVIOUS
    <3>1. res[j] \in Right(j) BY <2>1 DEF Inv, ResOK, Has
    <3>. QED BY <3>1, FitsIs DEF Inv
  <2>5. ASSUME NEW q \in Over[pass] PROVE bar[q] \in Fits[q]
    <3>1. q \in Due(pass) BY <2>1 DEF Due
    <3>2. PICK j \in 0 .. Len(blobs) - 1 : q = blobs[j + 1] BY <2>2, <3>1, EnumeratedAt
    <3>. HIDE DEF bar
    <3>. QED BY <2>3, <2>4, <3>2
  <2>6. bar' = bar BY <2>1
  <2>7. B!Close BY <2>1, <2>5, <2>6 DEF B!Close, Fits, ByProgram, Index
  <2>. QED BY <2>7 DEF B!Next
<1>. QED
  BY <1>1, <1>2, <1>3, <1>4
     DEF Next, MainStep, DomainStep, vars, bvars, Collect, Split, TakePart, MakeCtx, CallCheck,
         AssertFails, RunExe, ZStep

(* Starting a pass opens it, a verdict that is stored judges the program   *)
(* of its index, and Task.run returns when every program has been judged;  *)
(* no other step shows.                                                    *)
THEOREM BatchRefined == Spec => JudgesEach
<1>1. Init => B!Init
  <2>1. Init => ByProgram(blobs, res) = << >> BY DEF Init, ByProgram
  <2>. QED BY <2>1 DEF Init, B!Init, ByProgram, Index
<1>2. Inv /\ Inv' /\ [Next]_vars => [B!Next]_(B!vars) BY BatchStep
<1>. QED BY <1>1, <1>2, Invariant, PTL DEF Spec, JudgesEach, B!Spec
=============================================================================
