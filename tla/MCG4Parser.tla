---------------------------- MODULE MCG4Parser ----------------------------
(***************************************************************************)
(* Grammar files for G4Parser.                                             *)
(*                                                                         *)
(* Every body of up to five characters over a lowercase and an uppercase  *)
(* letter, the quote, the bar, brackets and the space (with the spacing   *)
(* the rule regex leaves: no space at either end, none doubled), as the   *)
(* one rule of a file; and files of several rules: token rules, a skipped *)
(* token rule, EOF, repeated names, literals, unreadable and undeclared   *)
(* files.                                                                  *)
(***************************************************************************)
EXTENDS G4Parser

BodyChars == {"a", "A", "'", "|", "(", ")", " "}

SpacedAsRead(b) ==
  /\ b # <<>> => b[1] # " " /\ b[Len(b)] # " "
  /\ \A i \in 1..(Len(b) - 1) : ~(b[i] = " " /\ b[i + 1] = " ")

MCBodies == {b \in BoundedSeq(BodyChars, 5) : SpacedAsRead(b)}

Rule(n, b) == [name |-> n, body |-> b]
GrammarFile(rs) == [readable |-> TRUE, declared |-> TRUE, rules |-> rs]

s == <<"s">>
t == <<"t">>
T == <<"T">>
W == <<"W">>

MCFiles ==
  {GrammarFile(<<Rule(s, b)>>) : b \in MCBodies}
  \cup
  { \* json-like: a literal, a token reference and a skipped token rule
    GrammarFile(<<Rule(s, <<"'", "a", "'", " ", "T", " ", "t">>),
                  Rule(t, <<"T", " ", "|", " ", "E", "O", "F">>),
                  Rule(T, <<"'", "a", "'">>),
                  Rule(W, <<"a", " ", "-", ">", " ", "s", "k", "i", "p">>)>>),
    \* a rule named twice, and a parser rule after a token rule
    GrammarFile(<<Rule(T, <<"a">>), Rule(s, <<"t", " ", "T">>),
                  Rule(s, <<"(", "t", "|", "T", ")">>), Rule(t, <<"a">>)>>),
    \* literals holding a bracket, a bar and a space
    GrammarFile(<<Rule(s, <<"'", "(", "'", " ", "|", " ", "t">>),
                  Rule(t, <<"'", " ", "'", " ", "'", "|", "'">>)>>),
    \* only token rules: no start symbol
    GrammarFile(<<Rule(T, <<"a">>), Rule(W, <<"A">>)>>),
    [readable |-> TRUE,  declared |-> FALSE, rules |-> <<Rule(s, <<"a">>)>>],
    [readable |-> FALSE, declared |-> TRUE,  rules |-> <<Rule(s, <<"a">>)>>]
  }

=============================================================================
