----------------------------- MODULE Recognizer -----------------------------
(***************************************************************************)
(* What create_lalr1_parser followed by parse() promises a client, with   *)
(* the automaton, the table and the stack abstracted away: building the   *)
(* parser either throws (a conflict) or yields a parser, and a parse of a *)
(* token sequence eventually returns, accepting exactly the sentences of  *)
(* the grammar.  Which grammars conflict is left open here; TableIsSLR    *)
(* (LALRTable) pins it down.                                               *)
(***************************************************************************)
EXTENDS Language

CONSTANTS
  Grammars,   \* augmented grammars
  Inputs      \* token-type sequences

VARIABLES
  grammar,    \* the grammar the parser is built for
  word,       \* the tokens being parsed (<<>> before parse() is called)
  verdict     \* "idle", "conflicts", "running", "accept" or "reject"

rvars == <<grammar, word, verdict>>

Init == grammar \in Grammars /\ word = <<>> /\ verdict = "idle"

\* create_lalr1_parser, then parse() on some input
Create ==
  /\ verdict = "idle"
  /\ \/ verdict' = "conflicts" /\ UNCHANGED word
     \/ \E w \in Inputs : word' = w /\ verdict' = "running"
  /\ UNCHANGED grammar

\* parse() returns its answer
Decide ==
  /\ verdict = "running"
  /\ verdict' = IF Derives(grammar, word) THEN "accept" ELSE "reject"
  /\ UNCHANGED <<grammar, word>>

Next == Create \/ Decide

\* A started parse returns; creating a parser is up to the client
Spec == Init /\ [][Next]_rvars /\ WF_rvars(Decide)

\* Spec split into what an implementation must check: its safety part,
\* and what WF_rvars(Decide) demands, Decide being enabled exactly while
\* a parse is running
Safety  == Init /\ [][Next]_rvars
Returns == (verdict = "running") ~> (verdict \in {"accept", "reject"})

=============================================================================
