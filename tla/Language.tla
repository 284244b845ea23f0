------------------------------ MODULE Language ------------------------------
(***************************************************************************)
(* What a grammar means, independent of how the generator builds a parser *)
(* for it: the strings of terminals its start symbol derives, decided by   *)
(* spans of the input rather than by an automaton, and what a parse tree   *)
(* of such a string is.  Shared by the abstract Recognizer and the checks  *)
(* of Driver.  A grammar here is augmented: production 1 is S' -> S.       *)
(***************************************************************************)
EXTENDS GrammarAnalysis

RECURSIVE SeqSpans(_, _, _, _, _)
\* rhs[m..] derives w[i..j-1], given the facts G = {<<X, i, j>>}
SeqSpans(rhs, m, i, j, G) ==
  IF m > Len(rhs) THEN i = j
  ELSE \E k \in i..j : <<rhs[m], i, k>> \in G /\ SeqSpans(rhs, m + 1, k, j, G)

RECURSIVE SpanFix(_, _, _)
SpanFix(g, w, G) ==
  LET n    == Len(w) + 1
      next == G \cup {<<p.lhs, i, j>> :
                        <<p, i, j>> \in {x \in Elems(g) \X (1..n) \X (1..n) :
                                           x[2] <= x[3] /\ SeqSpans(x[1].rhs, 1, x[2], x[3], G)}}
  IN  IF next = G THEN G ELSE SpanFix(g, w, next)

\* The user start symbol S (rhs of S' -> S) derives the terminals w
InLanguage(g, w) ==
  LET base == {<<w[i], i, i + 1>> : i \in DOMAIN w} \cup {<<EpsilonSymbol, i, i>> : i \in 1..(Len(w) + 1)}
  IN  <<g[1].rhs[1], 1, Len(w) + 1>> \in SpanFix(g, w, base)

\* The terminals of g a token of type kind stands for
TokenTerminals(g, kind) ==
  {x \in UNION {Elems(p.rhs) : p \in Elems(g)} : IsTerminal(x) /\ x.tok = kind}

\* The terminal sequence of a token sequence, when each type has one terminal
AsTerminals(g, w) == [i \in DOMAIN w |-> CHOOSE t \in TokenTerminals(g, w[i]) : TRUE]
Recognizable(g, w) == \A i \in DOMAIN w : TokenTerminals(g, w[i]) # {}

\* The token sequence w is a sentence of g
Derives(g, w) == Recognizable(g, w) /\ InLanguage(g, AsTerminals(g, w))

RECURSIVE Yield(_)
Yield(n) ==
  IF n.kids = <<>> /\ IsTerminal(n.sym) THEN <<n.sym>>
  ELSE LET RECURSIVE Cat(_)
           Cat(i) == IF i > Len(n.kids) THEN <<>> ELSE Yield(n.kids[i]) \o Cat(i + 1)
       IN  Cat(1)

RECURSIVE IsDerivation(_, _)
\* every interior node is a production of g with its children's labels
IsDerivation(g, n) ==
  \/ IsTerminal(n.sym) /\ n.kids = <<>>
  \/ /\ \E q \in Elems(g) : q.lhs = n.sym /\ q.rhs = [i \in DOMAIN n.kids |-> n.kids[i].sym]
     /\ \A i \in DOMAIN n.kids : IsDerivation(g, n.kids[i])

=============================================================================
