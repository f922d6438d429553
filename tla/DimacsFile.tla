----------------------------- MODULE DimacsFile -----------------------------
(***************************************************************************)
(* What a DIMACS file says, by words and lines, and what Instance::        *)
(* loadFormula promises: the clauses it has read when it ends.             *)
(***************************************************************************)
EXTENDS Integers, Sequences

CONSTANT Chars  \* the characters that files are made of

Digits == [c \in {"0", "1", "2"} |->
             IF c = "0" THEN 0 ELSE IF c = "1" THEN 1 ELSE 2]
Digit == DOMAIN Digits
Space == {"space", "newline"}

ASSUME CharsAssumption == Chars \subseteq Digit \cup Space \cup {"c", "p", "-", "%"}

VARIABLES
  file,    \* the characters; never changes
  pc,      \* the loop that calls gzgetc next, or "done"
  clause,
  clauses  \* instance

-----------------------------------------------------------------------------
(* Words                                                                   *)

\* f cut at the characters in seps: a sequence of sequences.
Cut(f, seps) ==
  LET cut[n \in 0 .. Len(f)] ==
        IF n = 0 THEN << <<>> >>
        ELSE IF f[n] \in seps THEN Append(cut[n - 1], <<>>)
        ELSE [cut[n - 1] EXCEPT ![Len(cut[n - 1])] = Append(@, f[n])]
  IN  cut[Len(f)]

\* A line that begins with c or p is a comment.
InComment(f, n) ==
  \E b \in 1 .. n : /\ f[b] \in {"c", "p"}
                    /\ b = 1 \/ f[b - 1] = "newline"
                    /\ \A i \in b .. n : f[i] # "newline"

\* No word goes on at n.
Blank(f, n) == n = 0 \/ f[n] \in Space \/ InComment(f, n)

\* The words among the first n characters, for each n
WordsUpTo(f) ==
  LET words[n \in 0 .. Len(f)] ==
        IF n = 0 THEN <<>>
        ELSE IF Blank(f, n) THEN words[n - 1]
        ELSE IF Blank(f, n - 1) THEN Append(words[n - 1], <<f[n]>>)
        ELSE [words[n - 1] EXCEPT ![Len(words[n - 1])] = Append(@, f[n])]
  IN  words

Words(f) == WordsUpTo(f)[Len(f)]

\* A word that is an integer: a sign or none, and at least one digit
IsInteger(word) ==
  /\ word[Len(word)] \in Digit
  /\ \A n \in 1 .. Len(word) : word[n] \in Digit \/ (n = 1 /\ word[n] = "-")

\* The value of the digits
Magnitude(word) ==
  LET abs[n \in 0 .. Len(word)] ==
        IF n = 0 THEN 0
        ELSE IF word[n] = "-" THEN 0
        ELSE 10 * abs[n - 1] + Digits[word[n]]
  IN  abs[Len(word)]

Value(word) == IF word[1] = "-" THEN -Magnitude(word) ELSE Magnitude(word)

WellFormed(f) ==
  \A n \in 1 .. Len(Words(f)) : IsInteger(Words(f)[n])

\* Clauses and, at the end, the literals that no 0 follows
ClausesAndRest(f) ==
  LET words == Words(f)
  IN  Cut([n \in 1 .. Len(words) |-> Value(words[n])], {0})

-----------------------------------------------------------------------------
(* Property                                                                *)

\* The clauses read are those the file says, for every well-formed file with
\* comments, line breaks and spaces anywhere.
ReadsFormula ==
  pc = "done" /\ WellFormed(file) => Append(clauses, clause) = ClausesAndRest(file)
=============================================================================
