------------------------------- MODULE Z3Exe -------------------------------
(***************************************************************************)
(* z3_exe_check_sat of bin/z3_ocaml_sandbox_demo.ml: one domain that runs  *)
(* the z3 program for one SMT-LIB text after another, the text on standard *)
(* input ("notmp") or in a temporary file ("tmp").  Calls in other domains *)
(* have their own process, pipes and file.                                 *)
(*                                                                         *)
(* The operating system and the solver are outside the repository.  A pipe *)
(* holds Capacity units; who writes to a full one or reads from an empty   *)
(* one waits; a reader gets all that is there; writing when the reader is  *)
(* gone kills the program by SIGPIPE, which nothing here ignores.  The     *)
(* solver reads its input when it likes, prints the lines of its script in *)
(* order, standard error included, and exits when its input is at an end;  *)
(* or it dies at any moment.                                               *)
(***************************************************************************)
EXTENDS Integers, Sequences, FiniteSets, FiniteSetsExt

CONSTANTS Texts,     \* SMT-LIB texts
          Scripts,   \* text -> what the solver may do with it: records of the lines it
                     \* prints, in order, and the status it exits with
          TextSize,  \* units of a text
          Capacity,  \* units, or lines, in a pipe
          MaxCalls   \* bound: calls

Answers == {"sat", "unsat", "unknown", "text"}  \* "text": any other line
Complaint == "error"                            \* a line on standard error
Modes == {"tmp", "notmp"}
Verdicts == {"True", "False", "Undef"}

ASSUME Z3ExeAssumption ==
  /\ TextSize \in Nat /\ Capacity \in Nat \ {0} /\ MaxCalls \in Nat
  /\ DOMAIN Scripts = Texts
  /\ \A t \in Texts : \A s \in Scripts[t] :
       s.prints \in Seq(Answers \union {Complaint}) /\ s.status \in Nat

VARIABLES
  mode,      \* of the call
  pc,        \* where the call is: "idle", "file", "spawn", "write", "out", "err", "close", "dead"
  unsent,    \* units of the text not yet written
  stdin,     \* units in the solver's standard input
  stdinOpen, \* the caller's end of it is open
  stdout,    \* lines in its standard output
  stderr,    \* lines in its standard error
  script,    \* the solver's script
  printed,   \* lines of it printed
  child,     \* "none", "run", "print" or "exited"
  status,    \* of the solver: its exit status, or -1 for a signal
  got,       \* lines the caller has read from standard output
  result,    \* of the last call: a verdict, "raised" or "none"
  files,     \* temporary files in existence
  zombies,   \* solvers that have exited and will not be waited for
  calls,     \* calls made
  failed     \* history: calls that raised an exception

pipes == <<unsent, stdin, stdinOpen, stdout, stderr>>
solver == <<script, printed, child, status>>
kept == <<files, zombies, calls, failed>>
vars == <<mode, pc, pipes, solver, got, result, kept>>
-----------------------------------------------------------------------------
Init ==
  /\ mode = "tmp" /\ pc = "idle"
  /\ unsent = 0 /\ stdin = 0 /\ stdinOpen = FALSE /\ stdout = << >> /\ stderr = 0
  /\ script = [prints |-> << >>, status |-> 0]
  /\ printed = 0 /\ child = "none" /\ status = 0
  /\ got = << >> /\ result = "none"
  /\ files = 0 /\ zombies = 0 /\ calls = 0 /\ failed = 0

(* An exception leaves the function, with so many files and processes left. *)
Raise(f, z) ==
  /\ pc' = "idle" /\ result' = "raised"
  /\ files' = f /\ zombies' = z
  /\ failed' = failed + 1
  /\ UNCHANGED calls

(* z3_exe_check_sat z3_bin_path no_tmp smt2 *)
Call(m) ==
  /\ pc = "idle" /\ calls < MaxCalls
  /\ mode' = m
  /\ pc' = IF m = "tmp" THEN "file" ELSE "spawn"
  /\ calls' = calls + 1
  /\ got' = << >> /\ result' = "none" /\ child' = "none"
  /\ UNCHANGED <<pipes, script, printed, status, files, zombies, failed>>

(* Filename.open_temp_file, which may fail, output_string and close_out,   *)
(* which may fail when the file is there.                                  *)
WriteFile ==
  /\ pc = "file"
  /\ \/ /\ pc' = "spawn" /\ files' = files + 1
        /\ UNCHANGED <<result, zombies, calls, failed>>
     \/ Raise(files, zombies)
     \/ Raise(files + 1, zombies)
  /\ UNCHANGED <<mode, pipes, solver, got>>

(* Unix.open_process_full *)
Spawn(t) ==
  /\ pc = "spawn"
  /\ \/ /\ pc' = IF mode = "tmp" THEN "out" ELSE "write"
        /\ \E s \in Scripts[t] : script' = s
        /\ printed' = 0 /\ child' = "run" /\ status' = 0
        /\ unsent' = IF mode = "tmp" THEN 0 ELSE TextSize
        /\ stdin' = 0 /\ stdinOpen' = TRUE /\ stdout' = << >> /\ stderr' = 0
        /\ UNCHANGED <<result, kept>>
     \/ Raise(files, zombies) /\ UNCHANGED <<pipes, solver>>
  /\ UNCHANGED <<mode, got>>

(* output_string smt_in smt2, with the flush of close_out *)
Write ==
  /\ pc = "write" /\ unsent > 0
  /\ \/ /\ child # "exited" /\ stdin < Capacity
        /\ stdin' = stdin + 1 /\ unsent' = unsent - 1
        /\ UNCHANGED pc
     \/ /\ child = "exited" /\ pc' = "dead"
        /\ UNCHANGED <<stdin, unsent>>
  /\ UNCHANGED <<mode, stdinOpen, stdout, stderr, solver, got, result, kept>>

EndInput(open) ==
  /\ pc = "write" /\ unsent = 0
  /\ stdinOpen' = open /\ pc' = "out"
  /\ UNCHANGED <<mode, unsent, stdin, stdout, stderr, solver, got, result, kept>>

(* Mutant: smt_in is only flushed. *)
FlushStdin == EndInput(TRUE)

(* close_out smt_in *)
CloseStdin == EndInput(FALSE)

(* input_line smt_out, once or until the end *)
ReadOut ==
  /\ pc = "out" /\ stdout # << >>
  /\ got' = got \o stdout
  /\ stdout' = << >>
  /\ pc' = IF mode = "tmp" THEN "out" ELSE "err"
  /\ UNCHANGED <<mode, unsent, stdin, stdinOpen, stderr, solver, result, kept>>

(* End_of_file: List.combine raises in "tmp" unless there was one line; the *)
(* process is not waited for then.                                         *)
EndOfOut ==
  /\ pc = "out" /\ stdout = << >> /\ child = "exited"
  /\ IF mode = "tmp" /\ Len(got) # 1 THEN Raise(files, zombies + 1)
     ELSE pc' = "err" /\ UNCHANGED <<result, kept>>
  /\ UNCHANGED <<mode, pipes, solver, got>>

(* input_all smt_err *)
ReadErr ==
  /\ pc = "err" /\ stderr > 0
  /\ stderr' = 0
  /\ UNCHANGED <<mode, pc, unsent, stdin, stdinOpen, stdout, solver, got, result, kept>>

EndOfErr ==
  /\ pc = "err" /\ stderr = 0 /\ child = "exited"
  /\ pc' = "close"
  /\ UNCHANGED <<mode, pipes, solver, got, result, kept>>

(* Mutant: a line that is not known is no verdict of the three. *)
VerdictOfText(l) ==
  IF l = "unsat" THEN "False" ELSE IF l = "unknown" THEN "Undef"
  ELSE IF l = "sat" THEN "True" ELSE "Uninit"

(* List.find "unsat", else List.filter "unknown" *)
VerdictOf(l) ==
  IF l = "unsat" THEN "False" ELSE IF l = "unknown" THEN "Undef" ELSE "True"

FirstLine(ls) == IF ls = << >> THEN "unknown" ELSE ls[1]

Answer(f) ==
  /\ pc' = "idle"
  /\ result' = VerdictOf(FirstLine(got))
  /\ files' = f
  /\ UNCHANGED <<zombies, calls, failed>>

(* Mutants: the exit status is not looked at; the file is not removed. *)
CloseUnchecked ==
  /\ pc = "close"
  /\ Answer(IF mode = "tmp" THEN files - 1 ELSE files)
  /\ child' = "none" /\ stdinOpen' = FALSE
  /\ UNCHANGED <<mode, unsent, stdin, stdout, stderr, script, printed, status, got>>

CloseKeepsFile ==
  /\ pc = "close"
  /\ IF status = 0 THEN Answer(files) ELSE Raise(files, zombies)
  /\ child' = "none" /\ stdinOpen' = FALSE
  /\ UNCHANGED <<mode, unsent, stdin, stdout, stderr, script, printed, status, got>>

(* Unix.close_process_full waits for the process; a status other than 0    *)
(* raises, else the file is removed, which may fail, and the verdict found. *)
Close ==
  /\ pc = "close"
  /\ \/ status = 0 /\ Answer(IF mode = "tmp" THEN files - 1 ELSE files)
     \/ (status # 0 \/ mode = "tmp") /\ Raise(files, zombies)
  /\ child' = "none" /\ stdinOpen' = FALSE
  /\ UNCHANGED <<mode, unsent, stdin, stdout, stderr, script, printed, status, got>>
-----------------------------------------------------------------------------
ReadInput ==
  /\ child = "run" /\ stdin > 0
  /\ stdin' = stdin - 1
  /\ UNCHANGED <<mode, pc, unsent, stdinOpen, stdout, stderr, solver, got, result, kept>>

(* The solver goes on to print its next line, and does nothing else until  *)
(* it is printed.                                                          *)
BeginPrint ==
  /\ child = "run" /\ printed < Len(script.prints)
  /\ child' = "print"
  /\ UNCHANGED <<mode, pc, pipes, script, printed, status, got, result, kept>>

PrintLine ==
  LET l == script.prints[printed + 1] IN
  /\ child = "print"
  /\ IF l = Complaint THEN stderr < Capacity /\ stderr' = stderr + 1 /\ UNCHANGED stdout
     ELSE Len(stdout) < Capacity /\ stdout' = Append(stdout, l) /\ UNCHANGED stderr
  /\ printed' = printed + 1 /\ child' = "run"
  /\ UNCHANGED <<mode, pc, unsent, stdin, stdinOpen, script, status, got, result, kept>>

(* z3 -in exits at the end of its input, z3 file when it is through. *)
Exit ==
  /\ child = "run" /\ printed = Len(script.prints)
  /\ mode = "notmp" => stdin = 0 /\ ~stdinOpen
  /\ child' = "exited" /\ status' = script.status
  /\ UNCHANGED <<mode, pc, pipes, script, printed, got, result, kept>>

Die ==
  /\ child \in {"run", "print"}
  /\ child' = "exited" /\ status' = -1
  /\ UNCHANGED <<mode, pc, pipes, script, printed, got, result, kept>>

Caller ==
  \/ WriteFile \/ (\E t \in Texts : Spawn(t)) \/ Write \/ CloseStdin
  \/ ReadOut \/ EndOfOut \/ ReadErr \/ EndOfErr \/ Close
Solver == ReadInput \/ BeginPrint \/ PrintLine \/ Exit

Next == (\E m \in Modes : Call(m)) \/ Caller \/ Solver \/ Die

Spec == Init /\ [][Next]_vars

(* The operating system runs the domain and the solver; the solver's -t    *)
(* makes it answer in the end.                                             *)
FairSpec == Spec /\ WF_vars(Caller) /\ WF_vars(Solver)
-----------------------------------------------------------------------------
TypeOK ==
  /\ mode \in Modes
  /\ pc \in {"idle", "file", "spawn", "write", "out", "err", "close", "dead"}
  /\ unsent \in 0 .. TextSize /\ stdin \in 0 .. Capacity /\ stdinOpen \in BOOLEAN
  /\ stdout \in Seq(Answers) /\ Len(stdout) <= Capacity
  /\ stderr \in 0 .. Capacity
  /\ script.prints \in Seq(Answers \union {Complaint}) /\ script.status \in Nat
  /\ printed \in 0 .. Len(script.prints)
  /\ child \in {"none", "run", "print", "exited"}
  /\ status \in Nat \union {-1}
  /\ got \in Seq(Answers)
  /\ result \in Verdicts \union {"raised", "none"}
  /\ files \in Nat /\ zombies \in Nat /\ calls \in 0 .. MaxCalls /\ failed \in 0 .. calls

(* The lines of the script for standard output, and for standard error.    *)
SaidAt == {i \in DOMAIN script.prints : script.prints[i] # Complaint}
ComplainedAt == DOMAIN script.prints \ SaidAt
FirstSaid == IF SaidAt = {} THEN "unknown" ELSE script.prints[Min(SaidAt)]

(* A verdict is the solver's own: it got to the end of its script and      *)
(* exited with status 0, the verdict is that of its first line whatever    *)
(* came after, and with a temporary file there was no other line.  So the  *)
(* two ways agree on every text that is answered by one line.              *)
VerdictFits ==
  result \in Verdicts =>
    /\ script.status = 0 /\ printed = Len(script.prints)
    /\ result = VerdictOf(FirstSaid)
    /\ mode = "tmp" => Cardinality(SaidAt) = 1

(* What is left behind is left by calls that raised: at most one file and  *)
(* one process each.                                                       *)
NothingLeft == pc = "idle" => files <= failed /\ zombies <= failed

(* The solver prints more than a pipe holds where the caller may not be    *)
(* reading: the text is still being written, or the other pipe is read.    *)
Flood ==
  \/ Cardinality(ComplainedAt) > Capacity
  \/ mode = "notmp" /\ Cardinality(SaidAt) > Capacity

(* Caller and solver never wait for each other, as long as the solver's    *)
(* output fits: the call returns or raises, or SIGPIPE ends the program.   *)
InCall == pc \notin {"idle", "dead"}
CallEnds == InCall /\ child # "none" /\ ~Flood ~> ~InCall
=============================================================================
