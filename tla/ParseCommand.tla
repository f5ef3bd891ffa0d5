----------------------------- MODULE ParseCommand -----------------------------
(***************************************************************************)
(* The tokenizer of SSH_ORIGINAL_COMMAND, one character per step.  The     *)
(* input grows with the steps, so that the states are the inputs up to a   *)
(* length, each with the state of the loop after it.                       *)
(***************************************************************************)
EXTENDS Naturals, Sequences, FiniteSets

CONSTANTS
  Quote,   \* the single quote
  Space,   \* a white-space character
  Others,  \* all other characters
  MaxLen   \* bound: length of the input

VARIABLES
  input,  \* the characters read
  scan    \* the variables of the loop: args, cur, inQuote, started

vars == <<input, scan>>

Chars == {Quote, Space} \cup Others

Start == [args |-> <<>>, cur |-> <<>>, inQuote |-> FALSE, started |-> FALSE]

-----------------------------------------------------------------------------

\* Mutant of Scan: quotes alone do not begin a word.
ScanEmptyDropped(s, c) ==
  CASE c = Quote -> [s EXCEPT !.inQuote = ~@]
    [] c = Space /\ ~s.inQuote ->
         IF s.started THEN [Start EXCEPT !.args = Append(s.args, s.cur)] ELSE s
    [] OTHER -> [s EXCEPT !.cur = Append(@, c), !.started = TRUE]

\* One round of the loop.
Scan(s, c) ==
  CASE c = Quote -> [s EXCEPT !.inQuote = ~@, !.started = TRUE]
    [] c = Space /\ ~s.inQuote ->
         IF s.started THEN [Start EXCEPT !.args = Append(s.args, s.cur)] ELSE s
    [] OTHER -> [s EXCEPT !.cur = Append(@, c), !.started = TRUE]

\* What ParseCommand returns after the loop.
Result(s) ==
  IF s.inQuote
  THEN [err |-> TRUE, args |-> <<>>]
  ELSE [err |-> FALSE, args |-> IF s.started THEN Append(s.args, s.cur) ELSE s.args]

Init == input = <<>> /\ scan = Start

Next ==
  /\ Len(input) < MaxLen
  /\ \E c \in Chars : input' = Append(input, c) /\ scan' = Scan(scan, c)

Spec == Init /\ [][Next]_vars

-----------------------------------------------------------------------------
(* Properties *)

\* The characters before position i leave a quote open.
Quoted(i) == Cardinality({j \in 1..(i - 1) : input[j] = Quote}) % 2 = 1

Separator(i) == input[i] = Space /\ ~Quoted(i)

\* The words, by position: the longest runs without a separator, less their quotes.
Begins == {i \in DOMAIN input : ~Separator(i) /\ (i = 1 \/ Separator(i - 1))}

Kept == {i \in DOMAIN input : ~Separator(i) /\ input[i] # Quote}

\* The number of the word that position i is in, and its characters.
Word(i) == Cardinality({b \in Begins : b <= i})

InWord(k) == {i \in Kept : Word(i) = k}

\* The place of the character at position i in its word.
Place(i) == Cardinality({j \in InWord(Word(i)) : j <= i})

\* These are the words.
AreWords(list) ==
  /\ Len(list) = Cardinality(Begins)
  /\ \A k \in DOMAIN list : Len(list[k]) = Cardinality(InWord(k))
  /\ \A i \in Kept : list[Word(i)][Place(i)] = input[i]

\* ParseCommand returns the words of its input, also when they are empty, joined
\* from quoted parts or at the end, and an error exactly for an open quote.
IsWords ==
  LET r == Result(scan)
  IN  /\ r.err = Quoted(Len(input) + 1)
      /\ ~r.err => AreWords(r.args)
==============================================================================
