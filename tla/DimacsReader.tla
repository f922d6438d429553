---------------------------- MODULE DimacsReader ----------------------------
(***************************************************************************)
(* Instance::loadFormula, which reads a DIMACS file character by           *)
(* character.  Each call of gzgetc is a step.                              *)
(***************************************************************************)
EXTENDS DimacsFile, SequencesExt

CONSTANT MaxLen  \* BOUND: length of a file

ASSUME MaxLenAssumption == MaxLen \in Nat

EOF == "EOF"

VARIABLES
  pos,          \* how many characters have been read
  num,          \* the number being read
  neg,
  num_clauses,
  tot_literals,
  max_var

instanceVars == <<clauses, num_clauses, tot_literals>>
vars == <<file, pos, pc, num, neg, clause, max_var, instanceVars>>

Init ==
  /\ file \in UNION {[1 .. n -> Chars] : n \in 0 .. MaxLen}
  /\ pos = 0
  /\ pc = "main"
  /\ num = 0
  /\ neg = FALSE
  /\ clause = <<>>
  /\ clauses = <<>>
  /\ num_clauses = 0
  /\ tot_literals = 0
  /\ max_var = 0

\* gzgetc goes on returning EOF at the end of the file.
Char == IF pos < Len(file) THEN file[pos + 1] ELSE EOF
Read(from, to) ==
  /\ pc = from
  /\ pc' = to
  /\ pos' = IF pos < Len(file) THEN pos + 1 ELSE pos
  /\ UNCHANGED file

-----------------------------------------------------------------------------

EndOfFile ==
  /\ Char = EOF
  /\ Read("main", "done")
  /\ UNCHANGED <<num, neg, clause, max_var, instanceVars>>

\* A comment, or the problem line
BeginLine ==
  /\ Char \in {"c", "p"}
  /\ Read("main", "skip")
  /\ UNCHANGED <<num, neg, clause, max_var, instanceVars>>

\* Mutant: the end of the line is that of a DOS file.
SkipToCarriageReturn ==
  /\ Read("skip", IF Char = "return" THEN "main" ELSE "skip")
  /\ UNCHANGED <<num, neg, clause, max_var, instanceVars>>

SkipLine ==
  /\ Read("skip", IF Char = "newline" THEN "main" ELSE "skip")
  /\ UNCHANGED <<num, neg, clause, max_var, instanceVars>>

Minus ==
  /\ Char = "-"
  /\ Read("main", "main")
  /\ neg' = TRUE
  /\ UNCHANGED <<num, clause, max_var, instanceVars>>

\* White space, and any other character
Ignore ==
  /\ Char \notin Digit \cup {"c", "p", "-", EOF}
  /\ Read("main", "main")
  /\ UNCHANGED <<num, neg, clause, max_var, instanceVars>>

BeginNumber ==
  /\ Char \in Digit
  /\ Read("main", "number")
  /\ num' = Digits[Char]
  /\ UNCHANGED <<neg, clause, max_var, instanceVars>>

NextDigit ==
  /\ Char \in Digit
  /\ Read("number", "number")
  /\ num' = 10 * num + Digits[Char]
  /\ UNCHANGED <<neg, clause, max_var, instanceVars>>

Literal == IF neg THEN -num ELSE num

\* A literal of the clause, or the 0 that ends it
StoreNumber ==
  \/ /\ num # 0
     /\ clause' = Append(clause, Literal)
     /\ max_var' = Max({max_var, num})
     /\ UNCHANGED instanceVars
  \/ /\ num = 0
     /\ clauses' = Append(clauses, clause)
     /\ num_clauses' = num_clauses + 1
     /\ tot_literals' = tot_literals + Len(clause)
     /\ clause' = <<>>
     /\ UNCHANGED max_var

\* Mutant: the sign is kept for the next number.
EndNumberKeepsSign ==
  /\ Char \notin Digit
  /\ Read("number", "main")
  /\ StoreNumber
  /\ UNCHANGED <<neg, num>>

\* The first character after a number is read and lost.
EndNumber ==
  /\ Char \notin Digit
  /\ Read("number", "main")
  /\ StoreNumber
  /\ neg' = FALSE
  /\ UNCHANGED num

Terminated == pc = "done" /\ UNCHANGED vars

Next ==
  \/ EndOfFile \/ BeginLine \/ SkipLine \/ Minus \/ Ignore
  \/ BeginNumber \/ NextDigit \/ EndNumber
  \/ Terminated

Spec == Init /\ [][Next]_vars
FairSpec == Spec /\ WF_vars(Next)

-----------------------------------------------------------------------------
(* Property                                                                *)

\* Reading ends, unless the last line of the file has a comment and no line
\* break: SkipLine does not look for the end of the file.
ReadingEnds ==
  (\A c \in ToSet(Last(Cut(file, {"newline"}))) : c \notin {"c", "p"}) => <>(pc = "done")
=============================================================================
