------------------------------ MODULE MCZ3Exe ------------------------------
(* An instance of Z3Exe for TLC: texts answered by one line, by none, by    *)
(* two, by an error, by a line about something else ("unsupported") and by  *)
(* more than a pipe holds on either output.                                 *)
EXTENDS Z3Exe

CONSTANTS easy, hard, wrong, silent, odd, double, models, warns

S(prints, s) == [prints |-> prints, status |-> s]

MCScripts ==
  [t \in Texts |->
     CASE t = easy   -> {S(<<"sat">>, 0)}
       [] t = hard   -> {S(<<"unsat">>, 0), S(<<"unknown">>, 0)}
       [] t = wrong  -> {S(<<"text">>, 1)}
       [] t = silent -> {S(<< >>, 0)}
       [] t = odd    -> {S(<<"text", "sat">>, 0)}
       [] t = double -> {S(<<"sat", "unsat">>, 0)}
       [] t = models -> {S(<<"sat", "text", "text", "text">>, 0)}
       [] t = warns  -> {S(<<"error", "error", "error", "sat">>, 0)}]
=============================================================================
