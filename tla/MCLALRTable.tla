---------------------------- MODULE MCLALRTable ----------------------------
(* LALRTable over every augmented grammar S' -> S, P1 [, P2] whose       *)
(* client productions have lhs S or A and a rhs of up to two symbols over  *)
(* S, A and the terminal a, or the rhs [eps].                              *)
EXTENDS LALRTable

S  == MkSymbol(Name("S", 0), NONTERMINAL, EOF_TOKEN)
A  == MkSymbol(Name("A", 0), NONTERMINAL, EOF_TOKEN)
Ta == MkSymbol(Name("a", 0), TERMINAL, "IDENTIFIER")
S1 == MkSymbol(Quote(S.name), NONTERMINAL, EOF_TOKEN)

MCRhs == UNION {[1..m -> {S, A, Ta}] : m \in 0..2} \cup {<<EpsilonSymbol>>}
MCProductions == {[lhs |-> l, rhs |-> r] : l \in {S, A}, r \in MCRhs}
MCGrammars ==
  {<<[lhs |-> S1, rhs |-> <<S>>]>> \o u :
     u \in UNION {[1..n -> MCProductions] : n \in 1..2}}

\* A client grammar with a nonterminal whose name ends in an apostrophe:
\* S -> A', A' -> a (augmented as S' -> S)
A1 == MkSymbol(Quote(A.name), NONTERMINAL, EOF_TOKEN)
MCQuotedGrammars ==
  {<<[lhs |-> S1, rhs |-> <<S>>], [lhs |-> S, rhs |-> <<A1>>], [lhs |-> A1, rhs |-> <<Ta>>]>>}
=============================================================================
