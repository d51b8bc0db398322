---------------------------- MODULE Z3ExeProofs ----------------------------
(***************************************************************************)
(* Z3Exe.tla for any texts and any scripts, sizes of a text and of a pipe, *)
(* and any number of calls: whatever the solver prints, whenever it dies   *)
(* and whichever call of the operating system fails, a verdict is the      *)
(* solver's own, and what is left behind is left by calls that raised.     *)
(***************************************************************************)
EXTENDS Z3Exe, FiniteSetTheorems, SequenceTheorems, TLAPS

(* The lines for standard output among the first n. *)
SaidBy(n) == {i \in SaidAt : i <= n}

(* What has been read and what is in the pipe, in this order, is what the  *)
(* solver has said: as many lines, and the same one first.                 *)
Lines == Len(got) + Len(stdout)
FirstOut == IF got # << >> THEN got[1] ELSE stdout[1]

OutputOK ==
  child # "none" =>
    /\ Lines = Cardinality(SaidBy(printed))
    /\ Lines > 0 =>
         \E k \in SaidBy(printed) :
           FirstOut = script.prints[k] /\ \A i \in SaidAt : k <= i

(* A solver that is about to print has something to print; one that has    *)
(* exited was killed or is through with its script.                        *)
SolverOK ==
  /\ child = "print" => printed < Len(script.prints)
  /\ child = "exited" =>
       status = -1 \/ (status = script.status /\ printed = Len(script.prints))

(* How far the call is. *)
CallOK ==
  /\ pc = "idle" => child \in {"none", "exited"}
  /\ pc \in {"file", "spawn"} => child = "none" /\ got = << >>
  /\ pc \in {"write", "out", "err", "close"} => child # "none"
  /\ pc = "file" => mode = "tmp"
  /\ pc \in {"write", "dead"} => mode = "notmp"
  /\ pc = "write" \/ (pc = "out" /\ mode = "notmp") => got = << >>
  /\ pc \in {"err", "close"} =>
       /\ got = << >> => stdout = << >> /\ child = "exited"
       /\ mode = "tmp" => stdout = << >> /\ child = "exited" /\ Len(got) = 1
  /\ pc = "close" => child = "exited"
  /\ result # "none" => pc = "idle"
  /\ result \in Verdicts => child = "none"

(* The call's own file, and what earlier calls have left. *)
Own == IF mode = "tmp" /\ pc \in {"spawn", "out", "err", "close"} THEN 1 ELSE 0

LeftOK ==
  /\ Own <= files /\ files <= failed + Own
  /\ zombies <= failed
  /\ pc # "idle" => failed < calls

IInv == TypeOK /\ OutputOK /\ SolverOK /\ CallOK /\ LeftOK /\ VerdictFits

USE Z3ExeAssumption
-----------------------------------------------------------------------------
LEMMA SaidFinite ==
  ASSUME TypeOK, NEW n \in Nat
  PROVE  /\ IsFiniteSet(SaidAt) /\ IsFiniteSet(SaidBy(n)) /\ Cardinality(SaidBy(n)) \in Nat
         /\ SaidAt \subseteq 1 .. Len(script.prints)
<1>1. Len(script.prints) \in Nat /\ DOMAIN script.prints = 1 .. Len(script.prints) BY DEF TypeOK
<1>2. IsFiniteSet(1 .. Len(script.prints)) BY <1>1, FS_Interval
<1>3. SaidAt \in SUBSET (1 .. Len(script.prints)) BY <1>1 DEF SaidAt
<1>4. SaidBy(n) \in SUBSET SaidAt BY DEF SaidBy
<1>5. IsFiniteSet(SaidAt) BY <1>2, <1>3, FS_Subset
<1>6. IsFiniteSet(SaidBy(n)) BY <1>4, <1>5, FS_Subset
<1>. QED BY <1>3, <1>5, <1>6, FS_CardinalityType

(* One more line is said, or complained. *)
LEMMA SaidGrows ==
  ASSUME TypeOK, NEW n \in 0 .. Len(script.prints) - 1
  PROVE  LET l == script.prints[n + 1] IN
         IF l = Complaint THEN SaidBy(n + 1) = SaidBy(n)
         ELSE /\ SaidBy(n + 1) = SaidBy(n) \union {n + 1} /\ n + 1 \in SaidAt
              /\ Cardinality(SaidBy(n + 1)) = Cardinality(SaidBy(n)) + 1
<1>0. Len(script.prints) \in Nat /\ n \in Nat /\ n + 1 \in DOMAIN script.prints BY DEF TypeOK
<1>1. \A i \in SaidAt : i \in Nat BY <1>0, SaidFinite
<1>2. CASE script.prints[n + 1] = Complaint
  <2>1. n + 1 \notin SaidAt BY <1>2 DEF SaidAt
  <2>2. \A i \in SaidAt : i <= n + 1 <=> i <= n BY <1>0, <1>1, <2>1
  <2>. QED BY <1>2, <2>2 DEF SaidBy
<1>3. CASE script.prints[n + 1] # Complaint
  <2>1. n + 1 \in SaidAt BY <1>0, <1>3 DEF SaidAt
  <2>2. \A i \in SaidAt : i <= n + 1 <=> (i <= n \/ i = n + 1) BY <1>0, <1>1
  <2>3. SaidBy(n + 1) = SaidBy(n) \union {n + 1} BY <2>1, <2>2 DEF SaidBy
  <2>4. n + 1 \notin SaidBy(n) BY <1>0 DEF SaidBy
  <2>5. Cardinality(SaidBy(n + 1)) = Cardinality(SaidBy(n)) + 1
    BY <1>0, <2>3, <2>4, SaidFinite, FS_AddElement
  <2>. QED BY <1>3, <2>1, <2>3, <2>5
<1>. QED BY <1>2, <1>3

LEMMA Joined ==
  ASSUME NEW S, NEW s \in Seq(S), NEW t \in Seq(S)
  PROVE  /\ s \o t \in Seq(S) /\ Len(s \o t) = Len(s) + Len(t)
         /\ s # << >> => s \o t # << >> /\ (s \o t)[1] = s[1]
         /\ s = << >> => s \o t = t
<1>1. s \o t \in Seq(S) /\ Len(s \o t) = Len(s) + Len(t) OBVIOUS
<1>2. ASSUME s # << >> PROVE s \o t # << >> /\ (s \o t)[1] = s[1]
  <2>1. Len(s) \in Nat /\ Len(s) > 0 /\ Len(t) \in Nat BY <1>2
  <2>2. Len(s \o t) > 0 BY <1>1, <2>1
  <2>. QED BY <1>1, <2>1, <2>2
<1>3. ASSUME s = << >> PROVE s \o t = t BY <1>3
<1>. QED BY <1>1, <1>2, <1>3

LEMMA VerdictIsVerdict == \A l : VerdictOf(l) \in Verdicts
BY DEF VerdictOf, Verdicts
-----------------------------------------------------------------------------
LEMMA InitIInv == Init => IInv
<1>. SUFFICES ASSUME Init PROVE IInv OBVIOUS
<1>. USE DEF Init
<1>1. TypeOK
  <2>1. /\ script.prints = << >> /\ script.status = 0
        /\ stdout = << >> /\ got = << >> /\ unsent = 0 /\ stdin = 0 /\ stdinOpen = FALSE
        /\ stderr = 0 /\ printed = 0 /\ status = 0 /\ files = 0 /\ zombies = 0
        /\ calls = 0 /\ failed = 0 /\ mode = "tmp" /\ pc = "idle" /\ child = "none"
        /\ result = "none"
    OBVIOUS
  <2>. HIDE DEF Init
  <2>2. << >> \in Seq(Answers) /\ << >> \in Seq(Answers \union {Complaint}) /\ Len(<< >>) = 0
    OBVIOUS
  <2>3. stdout \in Seq(Answers) /\ Len(stdout) <= Capacity /\ got \in Seq(Answers)
        /\ script.prints \in Seq(Answers \union {Complaint}) /\ printed \in 0 .. Len(script.prints)
    BY <2>1, <2>2
  <2>4. /\ unsent \in 0 .. TextSize /\ stdin \in 0 .. Capacity /\ stderr \in 0 .. Capacity
        /\ calls \in 0 .. MaxCalls /\ failed \in 0 .. calls /\ script.status \in Nat
    BY <2>1
  <2>. QED BY <2>1, <2>3, <2>4 DEF TypeOK, Modes
<1>2. OutputOK /\ SolverOK /\ LeftOK BY DEF OutputOK, SolverOK, LeftOK, Own
<1>3. CallOK /\ VerdictFits BY DEF CallOK, Verdicts, VerdictFits
<1>. QED BY <1>1, <1>2, <1>3 DEF IInv

(* A step of the caller that leaves the solver and its output alone. *)
LEMMA SameOutput ==
  ASSUME IInv, UNCHANGED <<stdout, script, printed, child, got>> PROVE OutputOK'
BY DEF IInv, OutputOK, Lines, FirstOut, SaidBy, SaidAt

LEMMA NoVerdict ==
  ASSUME result' \notin Verdicts PROVE VerdictFits'
BY DEF VerdictFits

LEMMA SameVerdict ==
  ASSUME IInv, UNCHANGED <<result, script, printed, mode>> PROVE VerdictFits'
BY DEF IInv, VerdictFits, FirstSaid, SaidAt

(* Any exception: the file of the call is left if there is one. *)
LEMMA StepRaise ==
  ASSUME IInv, NEW f \in Nat, NEW z \in Nat, Raise(f, z), pc # "idle",
         f <= failed + 1, z <= failed + 1, child' \in {"none", "exited"},
         child' # "none" => child' = child /\ UNCHANGED <<stdout, script, printed, status, got>>,
         UNCHANGED mode, stdinOpen' \in BOOLEAN,
         UNCHANGED <<unsent, stdin, stdout, stderr, script, printed, status, got>>
  PROVE  IInv'
<1>. USE DEF Raise
<1>1. TypeOK'
  <2>1. failed + 1 \in 0 .. calls BY DEF IInv, TypeOK, LeftOK
  <2>. QED BY <2>1 DEF IInv, TypeOK
<1>2. OutputOK' BY DEF IInv, OutputOK, Lines, FirstOut, SaidBy, SaidAt
<1>3. SolverOK' BY DEF IInv, SolverOK
<1>4. CallOK' BY DEF IInv, CallOK, Verdicts
<1>5. LeftOK' BY DEF IInv, LeftOK, Own, TypeOK
<1>6. VerdictFits' BY NoVerdict DEF Verdicts
<1>. QED BY <1>1, <1>2, <1>3, <1>4, <1>5, <1>6 DEF IInv

LEMMA StepCall ==
  ASSUME IInv, NEW m \in Modes, Call(m) PROVE IInv'
<1>. USE DEF Call, pipes
<1>1. TypeOK'
  <2>1. calls + 1 \in 0 .. MaxCalls /\ failed \in 0 .. calls + 1 BY DEF IInv, TypeOK
  <2>2. got' \in Seq(Answers) OBVIOUS
  <2>. QED BY <2>1, <2>2 DEF IInv, TypeOK, Modes
<1>2. OutputOK' /\ SolverOK' BY DEF OutputOK, SolverOK
<1>3. CallOK' BY DEF CallOK, Modes, Verdicts
<1>4. LeftOK'
  <2>1. Own = 0 /\ Own' = 0 BY DEF Own
  <2>. QED BY <2>1 DEF IInv, LeftOK, TypeOK
<1>5. VerdictFits' BY NoVerdict DEF Verdicts
<1>. QED BY <1>1, <1>2, <1>3, <1>4, <1>5 DEF IInv

LEMMA StepWriteFile ==
  ASSUME IInv, WriteFile PROVE IInv'
<1>. USE DEF pipes, solver
<1>0. /\ pc = "file" /\ mode = "tmp" /\ child = "none" /\ files \in Nat /\ zombies \in Nat /\ failed \in Nat
      /\ files <= failed /\ zombies <= failed /\ stdinOpen \in BOOLEAN /\ calls \in Nat
      /\ UNCHANGED <<mode, pipes, solver, got>>
  BY DEF WriteFile, IInv, TypeOK, CallOK, LeftOK, Own
<1>1. CASE Raise(files, zombies) BY <1>0, <1>1, StepRaise
<1>2. CASE Raise(files + 1, zombies) BY <1>0, <1>2, StepRaise
<1>3. CASE pc' = "spawn" /\ files' = files + 1 /\ UNCHANGED <<result, zombies, calls, failed>>
  <2>1. TypeOK' BY <1>0, <1>3 DEF IInv, TypeOK
  <2>2. OutputOK' BY <1>0, SameOutput
  <2>3. SolverOK' /\ CallOK' BY <1>0, <1>3 DEF IInv, SolverOK, CallOK
  <2>4. LeftOK' BY <1>0, <1>3 DEF IInv, LeftOK, Own
  <2>5. VerdictFits' BY <1>0, <1>3, SameVerdict
  <2>. QED BY <2>1, <2>2, <2>3, <2>4, <2>5 DEF IInv
<1>. QED BY <1>1, <1>2, <1>3 DEF WriteFile

LEMMA StepSpawn ==
  ASSUME IInv, NEW t \in Texts, Spawn(t) PROVE IInv'
<1>0. /\ pc = "spawn" /\ child = "none" /\ got = << >> /\ mode \in Modes /\ UNCHANGED <<mode, got>>
      /\ files \in Nat /\ zombies \in Nat /\ failed \in Nat /\ stdinOpen \in BOOLEAN
      /\ files <= failed + 1 /\ zombies <= failed /\ result = "none"
  BY DEF Spawn, IInv, TypeOK, CallOK, LeftOK, Own
<1>1. CASE Raise(files, zombies) /\ UNCHANGED <<pipes, solver>>
  BY <1>0, <1>1, StepRaise DEF pipes, solver
<1>2. CASE ~(Raise(files, zombies) /\ UNCHANGED <<pipes, solver>>)
  <2>1. PICK s \in Scripts[t] :
          /\ pc' = IF mode = "tmp" THEN "out" ELSE "write"
          /\ script' = s /\ printed' = 0 /\ child' = "run" /\ status' = 0
          /\ unsent' = IF mode = "tmp" THEN 0 ELSE TextSize
          /\ stdin' = 0 /\ stdinOpen' = TRUE /\ stdout' = << >> /\ stderr' = 0
          /\ UNCHANGED <<result, files, zombies, calls, failed>>
    BY <1>2 DEF Spawn, kept
  <2>2. s.prints \in Seq(Answers \union {Complaint}) /\ s.status \in Nat OBVIOUS
  <2>3. TypeOK'
    <3>1. Len(s.prints) \in Nat /\ stdout' \in Seq(Answers) /\ Len(stdout') = 0 BY <2>1, <2>2
    <3>. QED BY <1>0, <2>1, <2>2, <3>1 DEF IInv, TypeOK, Modes
  <2>4. OutputOK'
    <3>1. SaidBy(printed)' = {}
      <4>1. DOMAIN s.prints \subseteq 1 .. Len(s.prints) BY <2>2
      <4>. QED BY <2>1, <2>2, <4>1 DEF SaidBy, SaidAt
    <3>2. Lines' = 0 BY <1>0, <2>1 DEF Lines
    <3>3. Cardinality(SaidBy(printed)') = 0 BY <3>1, FS_EmptySet
    <3>. QED BY <3>2, <3>3 DEF OutputOK
  <2>5. SolverOK' BY <2>1 DEF SolverOK
  <2>6. CallOK' BY <1>0, <2>1 DEF CallOK, Modes, Verdicts
  <2>7. LeftOK'
    <3>1. Own' = Own /\ pc' # "idle" BY <1>0, <2>1 DEF Own
    <3>. QED BY <1>0, <2>1, <3>1 DEF IInv, LeftOK
  <2>8. VerdictFits' BY <1>0, <2>1, NoVerdict DEF Verdicts
  <2>. QED BY <2>3, <2>4, <2>5, <2>6, <2>7, <2>8 DEF IInv
<1>. QED BY <1>1, <1>2

LEMMA StepWrite ==
  ASSUME IInv, Write PROVE IInv'
<1>. USE DEF Write, solver, kept
<1>1. TypeOK'
  <2>1. stdin' \in 0 .. Capacity /\ unsent' \in 0 .. TextSize BY DEF IInv, TypeOK
  <2>. QED BY <2>1 DEF IInv, TypeOK
<1>2. OutputOK' BY SameOutput
<1>3. SolverOK' BY DEF IInv, SolverOK
<1>4. CallOK' BY DEF IInv, CallOK, Verdicts
<1>5. LeftOK' BY DEF IInv, LeftOK, Own, CallOK
<1>6. VerdictFits' BY SameVerdict
<1>. QED BY <1>1, <1>2, <1>3, <1>4, <1>5, <1>6 DEF IInv

LEMMA StepCloseStdin ==
  ASSUME IInv, CloseStdin PROVE IInv'
<1>. USE DEF CloseStdin, EndInput, solver, kept
<1>1. TypeOK' BY DEF IInv, TypeOK
<1>2. OutputOK' BY SameOutput
<1>3. SolverOK' BY DEF IInv, SolverOK
<1>4. CallOK' BY DEF IInv, CallOK, Verdicts
<1>5. LeftOK' BY DEF IInv, LeftOK, Own, CallOK
<1>6. VerdictFits' BY SameVerdict
<1>. QED BY <1>1, <1>2, <1>3, <1>4, <1>5, <1>6 DEF IInv

(* Reading moves the lines and keeps their order. *)
LEMMA StepReadOut ==
  ASSUME IInv, ReadOut PROVE IInv'
<1>. USE DEF ReadOut, solver, kept
<1>0. /\ got \in Seq(Answers) /\ stdout \in Seq(Answers) /\ stdout # << >> /\ Len(stdout) > 0
      /\ Len(got) \in Nat /\ Len(stdout) \in Nat /\ mode \in Modes
  BY DEF IInv, TypeOK
<1>1. /\ got' \in Seq(Answers) /\ Len(got') = Len(got) + Len(stdout) /\ got' # << >>
      /\ got # << >> => got'[1] = got[1]
      /\ got = << >> => got'[1] = stdout[1]
  BY <1>0, Joined
<1>2. TypeOK'
  <2>1. stdout' \in Seq(Answers) /\ Len(stdout') = 0 OBVIOUS
  <2>. QED BY <1>1, <2>1 DEF IInv, TypeOK
<1>3. OutputOK'
  <2>1. Lines' = Lines BY <1>0, <1>1 DEF Lines
  <2>2. FirstOut' = FirstOut BY <1>0, <1>1 DEF FirstOut
  <2>3. SaidBy(printed)' = SaidBy(printed) /\ SaidAt' = SaidAt BY DEF SaidBy, SaidAt
  <2>. QED BY <2>1, <2>2, <2>3 DEF IInv, OutputOK
<1>4. SolverOK' BY DEF IInv, SolverOK
<1>5. CallOK' BY <1>0, <1>1 DEF IInv, CallOK, Verdicts, Modes
<1>6. LeftOK' BY <1>0 DEF IInv, LeftOK, Own, Modes
<1>7. VerdictFits' BY SameVerdict
<1>. QED BY <1>2, <1>3, <1>4, <1>5, <1>6, <1>7 DEF IInv

LEMMA StepEndOfOut ==
  ASSUME IInv, EndOfOut PROVE IInv'
<1>. USE DEF pipes, solver, kept
<1>0. /\ pc = "out" /\ stdout = << >> /\ child = "exited" /\ UNCHANGED <<mode, pipes, solver, got>>
      /\ files \in Nat /\ zombies \in Nat /\ failed \in Nat /\ stdinOpen \in BOOLEAN
      /\ files <= failed + 1 /\ zombies <= failed
  BY DEF EndOfOut, IInv, TypeOK, LeftOK, Own
<1>1. CASE Raise(files, zombies + 1) BY <1>0, <1>1, StepRaise
<1>2. CASE ~(mode = "tmp" /\ Len(got) # 1)
  <2>0. pc' = "err" /\ UNCHANGED <<result, files, zombies, calls, failed>> BY <1>2 DEF EndOfOut
  <2>1. TypeOK' BY <1>0, <2>0 DEF IInv, TypeOK
  <2>2. OutputOK' BY <1>0, SameOutput
  <2>3. SolverOK' BY <1>0 DEF IInv, SolverOK
  <2>4. CallOK' BY <1>0, <1>2, <2>0 DEF IInv, CallOK, Verdicts
  <2>5. LeftOK' BY <1>0, <2>0 DEF IInv, LeftOK, Own
  <2>6. VerdictFits' BY <1>0, <2>0, SameVerdict
  <2>. QED BY <2>1, <2>2, <2>3, <2>4, <2>5, <2>6 DEF IInv
<1>. QED BY <1>1, <1>2 DEF EndOfOut

LEMMA StepReadErr ==
  ASSUME IInv, ReadErr PROVE IInv'
<1>. USE DEF ReadErr, solver, kept
<1>1. TypeOK' BY DEF IInv, TypeOK
<1>2. OutputOK' BY SameOutput
<1>3. SolverOK' BY DEF IInv, SolverOK
<1>4. CallOK' BY DEF IInv, CallOK, Verdicts
<1>5. LeftOK' BY DEF IInv, LeftOK, Own
<1>6. VerdictFits' BY SameVerdict
<1>. QED BY <1>1, <1>2, <1>3, <1>4, <1>5, <1>6 DEF IInv

LEMMA StepEndOfErr ==
  ASSUME IInv, EndOfErr PROVE IInv'
<1>. USE DEF EndOfErr, solver, kept, pipes
<1>1. TypeOK' BY DEF IInv, TypeOK
<1>2. OutputOK' BY SameOutput
<1>3. SolverOK' BY DEF IInv, SolverOK
<1>4. CallOK' BY DEF IInv, CallOK, Verdicts
<1>5. LeftOK' BY DEF IInv, LeftOK, Own
<1>6. VerdictFits' BY SameVerdict
<1>. QED BY <1>1, <1>2, <1>3, <1>4, <1>5, <1>6 DEF IInv

(* When the solver has exited with status 0 it has said all of its script, *)
(* and what was read first of that is what it said first.                  *)
LEMMA ReadIsSaid ==
  ASSUME IInv, pc = "close", status = 0
  PROVE  /\ script.status = 0 /\ printed = Len(script.prints)
         /\ VerdictOf(FirstLine(got)) = VerdictOf(FirstSaid)
         /\ mode = "tmp" => Cardinality(SaidAt) = 1
<1>0. /\ child = "exited" /\ got \in Seq(Answers) /\ stdout \in Seq(Answers) /\ Len(got) \in Nat
      /\ Len(stdout) \in Nat /\ (got = << >> => stdout = << >>)
      /\ (mode = "tmp" => stdout = << >> /\ Len(got) = 1)
  BY DEF IInv, CallOK, TypeOK
<1>1. script.status = 0 /\ printed = Len(script.prints) /\ printed \in Nat
  BY <1>0 DEF IInv, SolverOK, TypeOK
<1>2. SaidBy(printed) = SaidAt /\ IsFiniteSet(SaidAt) /\ \A i \in SaidAt : i \in Nat
  <2>1. SaidAt \subseteq 1 .. printed BY <1>1, SaidFinite DEF IInv
  <2>2. \A i \in SaidAt : i \in Nat /\ i <= printed BY <1>1, <2>1
  <2>3. SaidBy(printed) = SaidAt BY <2>2 DEF SaidBy
  <2>. QED BY <1>1, <2>2, <2>3, SaidFinite DEF IInv
<1>3. Len(got) + Len(stdout) = Cardinality(SaidAt) BY <1>0, <1>2 DEF IInv, OutputOK, Lines
<1>4. VerdictOf(FirstLine(got)) = VerdictOf(FirstSaid)
  <2>1. CASE got = << >>
    <3>1. Cardinality(SaidAt) = 0 BY <1>0, <1>3, <2>1
    <3>2. SaidAt = {} BY <1>2, <3>1, FS_EmptySet
    <3>. QED BY <2>1, <3>2 DEF FirstLine, FirstSaid
  <2>2. CASE got # << >>
    <3>1. Lines > 0 BY <1>0, <2>2 DEF Lines
    <3>2. PICK k \in SaidAt : got[1] = script.prints[k] /\ \A i \in SaidAt : k <= i
      BY <1>0, <1>2, <2>2, <3>1 DEF IInv, OutputOK, FirstOut
    <3>3. Min(SaidAt) = k
      <4>1. \A x \in SaidAt : (\A y \in SaidAt : x <= y) <=> x = k BY <1>2, <3>2
      <4>. QED BY <4>1 DEF Min
    <3>. QED BY <2>2, <3>2, <3>3 DEF FirstLine, FirstSaid
  <2>. QED BY <2>1, <2>2
<1>5. mode = "tmp" => Cardinality(SaidAt) = 1
  <2>1. ASSUME mode = "tmp" PROVE Cardinality(SaidAt) = 1
    <3>1. Len(stdout) = 0 /\ Len(got) = 1 BY <1>0, <2>1
    <3>. QED BY <1>3, <3>1
  <2>. QED BY <2>1
<1>. QED BY <1>1, <1>4, <1>5

LEMMA StepClose ==
  ASSUME IInv, Close PROVE IInv'
<1>0. /\ pc = "close" /\ child' = "none" /\ stdinOpen' = FALSE /\ mode \in Modes
      /\ UNCHANGED <<mode, unsent, stdin, stdout, stderr, script, printed, status, got>>
      /\ files \in Nat /\ zombies \in Nat /\ failed \in Nat /\ Own <= files
      /\ files <= failed + Own /\ zombies <= failed /\ Own = IF mode = "tmp" THEN 1 ELSE 0
  BY DEF Close, IInv, TypeOK, LeftOK, Own
<1>1. CASE Raise(files, zombies)
  <2>2. Own \in {0, 1} /\ stdinOpen' \in BOOLEAN BY <1>0
  <2>3. files <= failed + 1 /\ zombies <= failed + 1 BY <1>0, <2>2
  <2>. QED BY <1>0, <1>1, <2>2, <2>3, StepRaise
<1>2. CASE status = 0 /\ Answer(IF mode = "tmp" THEN files - 1 ELSE files)
  <2>0. /\ pc' = "idle" /\ result' = VerdictOf(FirstLine(got)) /\ files' = files - Own
        /\ UNCHANGED <<zombies, calls, failed>> /\ result' \in Verdicts
    BY <1>0, <1>2, VerdictIsVerdict DEF Answer
  <2>1. TypeOK'
    <3>1. files' \in Nat BY <1>0, <2>0
    <3>. QED BY <1>0, <2>0, <3>1 DEF IInv, TypeOK
  <2>2. OutputOK' /\ SolverOK' BY <1>0 DEF OutputOK, SolverOK
  <2>3. CallOK' BY <1>0, <2>0 DEF CallOK, Verdicts
  <2>4. LeftOK'
    <3>1. Own' = 0 BY <2>0 DEF Own
    <3>. QED BY <1>0, <2>0, <3>1 DEF LeftOK
  <2>5. VerdictFits'
    <3>1. FirstSaid' = FirstSaid /\ SaidAt' = SaidAt BY <1>0 DEF FirstSaid, SaidAt
    <3>. QED BY <1>0, <1>2, <2>0, <3>1, ReadIsSaid DEF VerdictFits
  <2>. QED BY <2>1, <2>2, <2>3, <2>4, <2>5 DEF IInv
<1>. QED BY <1>1, <1>2 DEF Close
-----------------------------------------------------------------------------
(* The solver's own steps; the caller has asked it and has no verdict yet. *)
LEMMA AtWork ==
  ASSUME IInv, child \in {"run", "print"}
  PROVE  result \notin Verdicts /\ pc \in {"write", "out", "err", "dead"}
BY DEF IInv, CallOK, TypeOK

LEMMA StepReadInput ==
  ASSUME IInv, ReadInput PROVE IInv'
<1>. USE DEF ReadInput, solver, kept
<1>1. TypeOK'
  <2>1. stdin' \in 0 .. Capacity BY DEF IInv, TypeOK
  <2>. QED BY <2>1 DEF IInv, TypeOK
<1>2. OutputOK' BY SameOutput
<1>3. SolverOK' BY DEF IInv, SolverOK
<1>4. CallOK' BY DEF IInv, CallOK, Verdicts
<1>5. LeftOK' BY DEF IInv, LeftOK, Own
<1>6. VerdictFits' BY SameVerdict
<1>. QED BY <1>1, <1>2, <1>3, <1>4, <1>5, <1>6 DEF IInv

LEMMA StepBeginPrint ==
  ASSUME IInv, BeginPrint PROVE IInv'
<1>. USE DEF BeginPrint, pipes, kept
<1>1. TypeOK' BY DEF IInv, TypeOK
<1>2. OutputOK' BY DEF IInv, OutputOK, Lines, FirstOut, SaidBy, SaidAt
<1>3. SolverOK' BY DEF IInv, SolverOK
<1>4. CallOK' BY DEF IInv, CallOK, Verdicts
<1>5. LeftOK' BY DEF IInv, LeftOK, Own
<1>6. VerdictFits' BY AtWork, NoVerdict
<1>. QED BY <1>1, <1>2, <1>3, <1>4, <1>5, <1>6 DEF IInv

LEMMA StepPrintLine ==
  ASSUME IInv, PrintLine PROVE IInv'
<1>. DEFINE n == printed + 1
            l == script.prints[n]
<1>0. /\ child = "print" /\ printed \in 0 .. Len(script.prints) - 1 /\ n \in 1 .. Len(script.prints)
      /\ Len(script.prints) \in Nat /\ l \in Answers \union {Complaint} /\ printed \in Nat
      /\ printed' = n /\ child' = "run"
      /\ UNCHANGED <<mode, pc, unsent, stdin, stdinOpen, script, status, got, result, kept>>
      /\ got \in Seq(Answers) /\ stdout \in Seq(Answers) /\ Len(got) \in Nat /\ Len(stdout) \in Nat
  <2>1. printed \in 0 .. Len(script.prints) - 1 /\ Len(script.prints) \in Nat
        /\ script.prints \in Seq(Answers \union {Complaint})
    BY DEF PrintLine, IInv, TypeOK, SolverOK
  <2>. QED BY <2>1 DEF PrintLine, IInv, TypeOK
<1>1. \/ l = Complaint /\ stderr < Capacity /\ stderr' = stderr + 1 /\ UNCHANGED stdout
      \/ /\ l # Complaint /\ l \in Answers /\ Len(stdout) < Capacity
         /\ stdout' = Append(stdout, l) /\ UNCHANGED stderr
  BY <1>0 DEF PrintLine
<1>. HIDE DEF l
<1>2. TypeOK'
  <2>1. stdout' \in Seq(Answers) /\ Len(stdout') <= Capacity
    <3>1. CASE UNCHANGED stdout BY <3>1 DEF IInv, TypeOK
    <3>2. CASE l \in Answers /\ Len(stdout) < Capacity /\ stdout' = Append(stdout, l)
      <4>1. stdout' \in Seq(Answers) /\ Len(stdout') = Len(stdout) + 1 BY <1>0, <3>2
      <4>. QED BY <1>0, <3>2, <4>1
    <3>. QED BY <1>1, <3>1, <3>2
  <2>2. stderr' \in 0 .. Capacity BY <1>1 DEF IInv, TypeOK
  <2>3. printed' \in 0 .. Len(script'.prints) BY <1>0
  <2>. QED BY <1>0, <2>1, <2>2, <2>3 DEF IInv, TypeOK, kept
<1>3. OutputOK'
  <2>0. /\ SaidAt' = SaidAt
        /\ Cardinality(SaidBy(printed)) \in Nat
        /\ Lines = Cardinality(SaidBy(printed))
        /\ \A i \in SaidAt : i \in Nat
    <3>1. SaidAt' = SaidAt BY <1>0 DEF SaidAt
    <3>2. Cardinality(SaidBy(printed)) \in Nat BY <1>0, SaidFinite DEF IInv
    <3>3. Lines = Cardinality(SaidBy(printed)) BY <1>0 DEF IInv, OutputOK
    <3>4. SaidAt \subseteq 1 .. Len(script.prints) BY <1>0, SaidFinite DEF IInv
    <3>. QED BY <1>0, <3>1, <3>2, <3>3, <3>4
  <2>1. SaidBy(printed)' = SaidBy(n) BY <1>0, <2>0 DEF SaidBy, SaidAt
  <2>2. CASE l = Complaint
    <3>1. SaidBy(n) = SaidBy(printed) BY <1>0, <2>2, SaidGrows DEF l, IInv
    <3>2. Lines' = Lines /\ FirstOut' = FirstOut BY <1>0, <1>1, <2>2 DEF Lines, FirstOut
    <3>3. script' = script /\ SaidBy(printed)' = SaidBy(printed) BY <1>0, <2>1, <3>1
    <3>. QED BY <1>0, <2>0, <3>2, <3>3 DEF IInv, OutputOK
  <2>3. CASE l # Complaint
    <3>1. /\ SaidBy(n) = SaidBy(printed) \union {n} /\ n \in SaidAt
          /\ Cardinality(SaidBy(n)) = Cardinality(SaidBy(printed)) + 1
      BY <1>0, <2>3, SaidGrows DEF l, IInv
    <3>2. /\ Len(stdout') = Len(stdout) + 1
          /\ stdout = << >> => stdout'[1] = l
          /\ stdout # << >> => stdout'[1] = stdout[1]
      <4>1. l \in Answers /\ stdout' = Append(stdout, l) BY <1>1, <2>3
      <4>2. Len(stdout') = Len(stdout) + 1 BY <1>0, <4>1
      <4>3. ASSUME stdout = << >> PROVE stdout'[1] = l BY <4>1, <4>3
      <4>4. ASSUME stdout # << >> PROVE stdout'[1] = stdout[1]
        <5>1. 1 \in 1 .. Len(stdout) BY <1>0, <4>4
        <5>. QED BY <1>0, <4>1, <5>1
      <4>. QED BY <4>2, <4>3, <4>4
    <3>3. Lines' = Cardinality(SaidBy(printed)') /\ got' = got
      BY <1>0, <2>0, <2>1, <3>1, <3>2 DEF Lines
    <3>4. CASE Lines > 0
      <4>1. got # << >> \/ stdout # << >> BY <1>0, <3>4 DEF Lines
      <4>2. FirstOut' = FirstOut BY <3>2, <3>3, <4>1 DEF FirstOut
      <4>3. PICK k \in SaidBy(printed) : FirstOut = script.prints[k] /\ \A i \in SaidAt : k <= i
        BY <1>0, <3>4 DEF IInv, OutputOK
      <4>. QED BY <1>0, <2>0, <2>1, <3>1, <3>3, <4>2, <4>3 DEF OutputOK
    <3>5. CASE ~(Lines > 0)
      <4>1. Lines = 0 /\ Len(got) = 0 /\ Len(stdout) = 0 BY <1>0, <3>5 DEF Lines
      <4>2. got = << >> /\ stdout = << >> BY <1>0, <4>1
      <4>3. FirstOut' = l BY <3>2, <3>3, <4>2 DEF FirstOut
      <4>4. SaidBy(printed) = {} BY <2>0, <4>1, SaidFinite, FS_EmptySet, <1>0 DEF IInv
      <4>5. \A i \in SaidAt : n <= i BY <1>0, <2>0, <4>4 DEF SaidBy
      <4>. QED BY <1>0, <2>0, <2>1, <3>1, <3>3, <4>3, <4>5 DEF OutputOK, l
    <3>. QED BY <3>4, <3>5
  <2>. QED BY <2>2, <2>3
<1>4. SolverOK' BY <1>0 DEF SolverOK
<1>5. CallOK' BY <1>0, <1>1 DEF IInv, CallOK, Verdicts
<1>6. LeftOK' BY <1>0 DEF IInv, LeftOK, Own, kept
<1>7. VerdictFits' BY <1>0, AtWork, NoVerdict
<1>. QED BY <1>2, <1>3, <1>4, <1>5, <1>6, <1>7 DEF IInv

LEMMA StepExits ==
  ASSUME IInv, Exit \/ Die PROVE IInv'
<1>0. /\ child \in {"run", "print"} /\ child' = "exited"
      /\ status' = -1 \/ (status' = script.status /\ printed = Len(script.prints))
      /\ UNCHANGED <<mode, pc, pipes, script, printed, got, result, kept>>
  BY DEF Exit, Die
<1>. USE DEF pipes, kept
<1>1. TypeOK'
  <2>1. status' \in Nat \union {-1} BY <1>0 DEF IInv, TypeOK
  <2>. QED BY <1>0, <2>1 DEF IInv, TypeOK
<1>2. OutputOK' BY <1>0 DEF IInv, OutputOK, Lines, FirstOut, SaidBy, SaidAt
<1>3. SolverOK' BY <1>0 DEF SolverOK
<1>4. CallOK' BY <1>0 DEF IInv, CallOK, Verdicts
<1>5. LeftOK' BY <1>0 DEF IInv, LeftOK, Own
<1>6. VerdictFits' BY <1>0, AtWork, NoVerdict
<1>. QED BY <1>1, <1>2, <1>3, <1>4, <1>5, <1>6 DEF IInv

LEMMA NextIInv ==
  ASSUME IInv, [Next]_vars PROVE IInv'
<1>1. CASE UNCHANGED vars
  <2>. USE <1>1 DEF vars, pipes, solver, kept
  <2>1. TypeOK' BY DEF IInv, TypeOK
  <2>2. OutputOK' /\ VerdictFits' BY SameOutput, SameVerdict
  <2>3. SolverOK' /\ CallOK' /\ LeftOK' BY DEF IInv, SolverOK, CallOK, LeftOK, Own
  <2>. QED BY <2>1, <2>2, <2>3 DEF IInv
<1>2. CASE Caller
  BY <1>2, StepWriteFile, StepSpawn, StepWrite, StepCloseStdin, StepReadOut, StepEndOfOut,
     StepReadErr, StepEndOfErr, StepClose DEF Caller
<1>3. CASE Solver BY <1>3, StepReadInput, StepBeginPrint, StepPrintLine, StepExits DEF Solver
<1>. QED BY <1>1, <1>2, <1>3, StepCall, StepExits DEF Next

LEMMA Invariant == Spec => []IInv
<1>1. IInv /\ [Next]_vars => IInv' BY NextIInv
<1>. QED BY <1>1, InitIInv, PTL DEF Spec
-----------------------------------------------------------------------------
(* Every variable keeps its type: the pipes hold what fits in them, and a  *)
(* file is removed only when there is one.                                 *)
THEOREM TypeCorrect == Spec => []TypeOK
<1>1. IInv => TypeOK BY DEF IInv
<1>. QED BY <1>1, Invariant, PTL

(* What z3_exe_check_sat returns is what the solver said first, in a run   *)
(* that ended with status 0, and with a temporary file all it said.        *)
THEOREM VerdictSafe == Spec => []VerdictFits
<1>1. IInv => VerdictFits BY DEF IInv
<1>. QED BY <1>1, Invariant, PTL

(* A call that returns leaves no file and no process; one that raises      *)
(* leaves at most one of each.                                             *)
THEOREM LeavesNothing == Spec => []NothingLeft
<1>1. IInv => NothingLeft BY DEF IInv, LeftOK, Own, NothingLeft, TypeOK
<1>. QED BY <1>1, Invariant, PTL
=============================================================================
