------------------------------ MODULE MCDriver ------------------------------
(* The pipeline over every augmented grammar S' -> S, P1 [, P2] whose     *)
(* client productions have lhs S or A and a rhs of up to two symbols over  *)
(* S, A and a (an empty rhs for an epsilon production), parsing token     *)
(* sequences of up to three IDENTIFIERs, and one NUMBER, which no          *)
(* terminal has.                                                           *)
EXTENDS Driver

S  == MkSymbol(Name("S", 0), NONTERMINAL, EOF_TOKEN)
A  == MkSymbol(Name("A", 0), NONTERMINAL, EOF_TOKEN)
Ta == MkSymbol(Name("a", 0), TERMINAL, "IDENTIFIER")
S1 == MkSymbol(Quote(S.name), NONTERMINAL, EOF_TOKEN)

MCRhs == UNION {[1..m -> {S, A, Ta}] : m \in 0..2}
MCProductions == {[lhs |-> l, rhs |-> r] : l \in {S, A}, r \in MCRhs}
MCGrammars ==
  {<<[lhs |-> S1, rhs |-> <<S>>]>> \o u :
     u \in UNION {[1..n -> MCProductions] : n \in 1..2}}
MCInputs == UNION {[1..n -> {"IDENTIFIER"}] : n \in 0..3} \cup {<<"NUMBER">>}

\* An epsilon production written as the one-symbol rhs [eps], as the
\* grammar loader (SimpleLexer.h) writes it: S -> a A, A -> [eps]
MCEpsilonRhsGrammars ==
  {<<[lhs |-> S1, rhs |-> <<S>>], [lhs |-> S, rhs |-> <<Ta, A>>],
     [lhs |-> A, rhs |-> <<EpsilonSymbol>>]>>}
=============================================================================
