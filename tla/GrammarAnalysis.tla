-------------------------- MODULE GrammarAnalysis --------------------------
(***************************************************************************)
(* Nullability, FIRST and FOLLOW as computed by Grammar (grammar.cpp).    *)
(*                                                                         *)
(* A symbol is a record [name, kind, tok]: the fields Symbol keeps         *)
(* (symbol.h).  A production is a record [lhs, rhs] with rhs a sequence   *)
(* of symbols; a grammar is the sequence of its productions, in the order *)
(* of Grammar::productions_ (TLA+ index i is the code's index i-1).       *)
(*                                                                         *)
(* The code's three fixed-point loops are translated as RECURSIVE         *)
(* operators: one pass visits the productions in order and updates the    *)
(* map in place, and passes repeat until a pass changes nothing (the      *)
(* `changed` flag).  A map of the code (std::unordered_map) is a TLA+     *)
(* function; a key it lacks reads as the default the code returns.        *)
(*                                                                         *)
(* The second half states what the sets are meant to be (spec section     *)
(* 4.2), by derivations and reachability rather than by passes, so the    *)
(* code's loops can be checked against it.                                 *)
(***************************************************************************)
EXTENDS Integers, Sequences, FiniteSets, TLC

\* SymbolType (part_004:11-16)
TERMINAL     == "T"
NONTERMINAL  == "NT"
EPSILON      == "EPS"
END_OF_INPUT == "EOI"

EOF_TOKEN == "EOF"

Name(b, k) == [base |-> b, primes |-> k]
\* Symbol(name, type) sets token_type_ to EOF_TOKEN; Symbol(name, token_type)
\* is a terminal
MkSymbol(n, kind, tok) == [name |-> n, kind |-> kind, tok |-> tok]
EpsilonSymbol == MkSymbol(Name("eps", 0), EPSILON, EOF_TOKEN)
EndSymbol     == MkSymbol(Name("$", 0), END_OF_INPUT, EOF_TOKEN)
NoSymbol      == MkSymbol(Name("none", 0), "NONE", EOF_TOKEN)

\* start_symbol_->name() + "'"
Quote(n) == [n EXCEPT !.primes = @ + 1]

IsTerminal(s)    == s.kind = TERMINAL
IsNonterminal(s) == s.kind = NONTERMINAL
IsEpsilon(s)     == s.kind = EPSILON
IsEndOfInput(s)  == s.kind = END_OF_INPUT

Nonterminals(syms) == {s \in syms : IsNonterminal(s)}
Terminals(syms)    == {s \in syms : IsTerminal(s)}
EpsilonOf(syms)    == CHOOSE s \in syms : IsEpsilon(s)
EndOf(syms)        == CHOOSE s \in syms : IsEndOfInput(s)

\* map.find(k) with a default for a missing key, and map[k] = v
Lookup(m, k, default) == IF k \in DOMAIN m THEN m[k] ELSE default
Put(m, k, v) == (k :> v) @@ m

Elems(seq) == {seq[i] : i \in DOMAIN seq}
MinOf(S) == CHOOSE x \in S : \A y \in S : x <= y

-----------------------------------------------------------------------------
(* compute_epsilon_derivers                                                *)

\* A -> eps: an empty rhs, or a rhs holding only the epsilon symbol
IsEpsilonRhs(rhs) == rhs = <<>> \/ (Len(rhs) = 1 /\ IsEpsilon(rhs[1]))

\* One production of a pass: skip a known deriver; otherwise mark the lhs
\* when the rhs is an epsilon rhs or every symbol of it derives epsilon
\* (a terminal or $ stops the scan).
EpsilonStep(d, p) ==
  IF Lookup(d, p.lhs, FALSE) THEN d
  ELSE IF \/ IsEpsilonRhs(p.rhs)
          \/ \A i \in DOMAIN p.rhs :
                /\ ~IsTerminal(p.rhs[i]) /\ ~IsEndOfInput(p.rhs[i])
                /\ Lookup(d, p.rhs[i], FALSE)
       THEN Put(d, p.lhs, TRUE)
       ELSE d

RECURSIVE EpsilonPass(_, _, _)
EpsilonPass(d, prods, i) ==
  IF i > Len(prods) THEN d ELSE EpsilonPass(EpsilonStep(d, prods[i]), prods, i + 1)

RECURSIVE EpsilonLoop(_, _)
EpsilonLoop(d, prods) ==
  LET next == EpsilonPass(d, prods, 1)
  IN  IF next = d THEN d ELSE EpsilonLoop(next, prods)

ComputeEpsilonDerivers(syms, prods) ==
  EpsilonLoop(Put([n \in Nonterminals(syms) |-> FALSE], EpsilonOf(syms), TRUE), prods)

\* derives_epsilon(symbol) and derives_epsilon(symbols)
DerivesEpsilon(d, s) == Lookup(d, s, FALSE)
DerivesEpsilonSeq(d, seq) == \A i \in DOMAIN seq : DerivesEpsilon(d, seq[i])

\* The index of the first symbol that does not derive epsilon (the `break`
\* of the scans), or Len(seq) + 1 when every symbol does.
StopIndex(d, seq) ==
  LET blocking == {i \in DOMAIN seq : ~DerivesEpsilon(d, seq[i])}
  IN  IF blocking = {} THEN Len(seq) + 1 ELSE MinOf(blocking)

\* The indices the scan visits: up to and including the blocking symbol.
Scanned(d, seq) == 1..(IF StopIndex(d, seq) > Len(seq) THEN Len(seq) ELSE StopIndex(d, seq))

-----------------------------------------------------------------------------
(* compute_first_sets                                                      *)

FirstInit(syms) == [s \in syms |-> IF IsNonterminal(s) THEN {} ELSE {s}]

FirstStep(d, eps, f, p) ==
  LET add == UNION {Lookup(f, p.rhs[i], {}) \ {eps} : i \in Scanned(d, p.rhs)}
             \cup (IF StopIndex(d, p.rhs) > Len(p.rhs) THEN {eps} ELSE {})
  IN  Put(f, p.lhs, Lookup(f, p.lhs, {}) \cup add)

RECURSIVE FirstPass(_, _, _, _, _)
FirstPass(d, eps, f, prods, i) ==
  IF i > Len(prods) THEN f
  ELSE FirstPass(d, eps, FirstStep(d, eps, f, prods[i]), prods, i + 1)

RECURSIVE FirstLoop(_, _, _, _)
FirstLoop(d, eps, f, prods) ==
  LET next == FirstPass(d, eps, f, prods, 1)
  IN  IF next = f THEN f ELSE FirstLoop(d, eps, next, prods)

\* d is the epsilon map the loop consults through derives_epsilon
ComputeFirstSets(syms, prods, d) ==
  FirstLoop(d, EpsilonOf(syms), FirstInit(syms), prods)

\* first_set(symbols): FIRST of a sequence
FirstOfSeq(d, f, eps, seq) ==
  UNION {Lookup(f, seq[i], {}) \ {eps} : i \in Scanned(d, seq)}
  \cup (IF seq = <<>> \/ DerivesEpsilonSeq(d, seq) THEN {eps} ELSE {})

-----------------------------------------------------------------------------
(* compute_follow_sets                                                     *)

\* FollowAt without the FOLLOW(A) contribution for a nullable, non-empty beta
FollowAtNoInherit(d, f, eps, fo, p, i) ==
  LET B    == p.rhs[i]
      beta == SubSeq(p.rhs, i + 1, Len(p.rhs))
      add  == IF beta = <<>> THEN Lookup(fo, p.lhs, {}) ELSE FirstOfSeq(d, f, eps, beta) \ {eps}
  IN  IF IsNonterminal(B) THEN Put(fo, B, Lookup(fo, B, {}) \cup add) ELSE fo

\* The B = rhs[i] of a production A -> alpha B beta, for one i
FollowAt(d, f, eps, fo, p, i) ==
  LET B    == p.rhs[i]
      beta == SubSeq(p.rhs, i + 1, Len(p.rhs))
      fa   == Lookup(fo, p.lhs, {})
      add  == IF beta = <<>> THEN fa
              ELSE (FirstOfSeq(d, f, eps, beta) \ {eps})
                   \cup (IF DerivesEpsilonSeq(d, beta) THEN fa ELSE {})
  IN  IF IsNonterminal(B) THEN Put(fo, B, Lookup(fo, B, {}) \cup add) ELSE fo

RECURSIVE FollowScan(_, _, _, _, _, _)
FollowScan(d, f, eps, fo, p, i) ==
  IF i > Len(p.rhs) THEN fo
  ELSE FollowScan(d, f, eps, FollowAt(d, f, eps, fo, p, i), p, i + 1)

RECURSIVE FollowPass(_, _, _, _, _, _)
FollowPass(d, f, eps, fo, prods, i) ==
  IF i > Len(prods) THEN fo
  ELSE FollowPass(d, f, eps, FollowScan(d, f, eps, fo, prods[i], 1), prods, i + 1)

RECURSIVE FollowLoop(_, _, _, _, _)
FollowLoop(d, f, eps, fo, prods) ==
  LET next == FollowPass(d, f, eps, fo, prods, 1)
  IN  IF next = fo THEN fo ELSE FollowLoop(d, f, eps, next, prods)

FollowInit(syms, start) ==
  LET empty == [n \in Nonterminals(syms) |-> {}]
  IN  IF start \in syms THEN Put(empty, start, {EndOf(syms)}) ELSE empty

ComputeFollowSets(syms, prods, start, d, f) ==
  FollowLoop(d, f, EpsilonOf(syms), FollowInit(syms, start), prods)

-----------------------------------------------------------------------------
(***************************************************************************)
(* Reference definitions (spec 4.2).                                       *)
(***************************************************************************)

\* The smallest set N of nonterminals closed under: A \in N when some
\* production A -> X1..Xk has every Xi in N or the epsilon symbol.
NullableRef(syms, prods) ==
  LET Closed(N) == \A p \in Elems(prods) :
                     (\A i \in DOMAIN p.rhs : p.rhs[i] \in N \/ IsEpsilon(p.rhs[i]))
                        => p.lhs \in N
  IN  {n \in Nonterminals(syms) :
         \A N \in {M \in SUBSET Nonterminals(syms) : Closed(M)} : n \in N}

NullableSymbol(N, s) == s \in N \/ IsEpsilon(s)

\* X "begins" Y: some production X -> Y1..Yk has Y = Yj with Y1..Yj-1
\* nullable.  FIRST(X) is the terminals and $ reachable along "begins".
LeadingNullable(N, seq) ==
  {j \in DOMAIN seq : \A m \in 1..(j - 1) : NullableSymbol(N, seq[m])}

BeginsEdges(prods, N) ==
  UNION {{<<p.lhs, p.rhs[j]>> : j \in LeadingNullable(N, p.rhs)} : p \in Elems(prods)}

RECURSIVE ReachFrom(_, _)
ReachFrom(E, S) ==
  LET next == S \cup {e[2] : e \in {x \in E : x[1] \in S}}
  IN  IF next = S THEN S ELSE ReachFrom(E, next)

FirstRef(syms, prods, s) ==
  LET N == NullableRef(syms, prods)
  IN  {x \in ReachFrom(BeginsEdges(prods, N), {s}) : ~IsNonterminal(x) /\ ~IsEpsilon(x)}
      \cup (IF NullableSymbol(N, s) THEN {EpsilonOf(syms)} ELSE {})

FirstSeqRef(syms, prods, seq) ==
  LET N == NullableRef(syms, prods)
  IN  UNION {FirstRef(syms, prods, seq[i]) \ {EpsilonOf(syms)} : i \in LeadingNullable(N, seq)}
      \cup (IF \A i \in DOMAIN seq : NullableSymbol(N, seq[i]) THEN {EpsilonOf(syms)} ELSE {})

\* FOLLOW(B) \supseteq FOLLOW(A) for A -> alpha B beta with beta nullable:
\* FOLLOW(B) is what the nonterminals reachable from B along these edges
\* contribute directly (FIRST of what follows them, and $ for the start).
FollowRef(syms, prods, start, b) ==
  LET N      == NullableRef(syms, prods)
      eps    == EpsilonOf(syms)
      Sites  == UNION {{<<p, i>> : i \in DOMAIN p.rhs} : p \in Elems(prods)}
      Beta(p, i) == SubSeq(p.rhs, i + 1, Len(p.rhs))
      Inherit == {<<p.rhs[i], p.lhs>> :
                    <<p, i>> \in {x \in Sites :
                       \A m \in DOMAIN Beta(x[1], x[2]) : NullableSymbol(N, Beta(x[1], x[2])[m])}}
      Direct(a) == UNION {FirstSeqRef(syms, prods, Beta(x[1], x[2])) \ {eps} :
                            x \in {y \in Sites : y[1].rhs[y[2]] = a}}
                   \cup (IF a = start THEN {EndOf(syms)} ELSE {})
  IN  UNION {Direct(a) : a \in ReachFrom(Inherit, {b})}

=============================================================================
