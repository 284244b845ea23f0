------------------------------ MODULE Grammar ------------------------------
(***************************************************************************)
(* The grammar-construction API: SymbolTable (symbol.cpp) and Grammar     *)
(* (grammar.cpp) with its lazily filled, invalidated analysis caches.      *)
(*                                                                         *)
(* Every public operation that changes state is an action: interning a    *)
(* terminal or nonterminal, adding a production, setting the start symbol, *)
(* augmenting, and the three queries (derives_epsilon, first_set,         *)
(* follow_set), whose only effect on state is to fill a cache that is not *)
(* yet computed.  A query against a filled cache is a read and changes     *)
(* nothing.  A client may call the operations in any order, as the code   *)
(* does not forbid any order.                                              *)
(*                                                                         *)
(* A name is a record [base, primes]: `primes` counts the trailing         *)
(* apostrophes, so name + "'" (augment) is one more prime and             *)
(* name().back() == '\'' is primes > 0.                                    *)
(***************************************************************************)
EXTENDS GrammarAnalysis

CONSTANTS
  NonterminalBases,   \* base names a client interns nonterminals with
  TerminalBases,      \* base names of terminals
  TokenKinds,         \* TokenType values a terminal may carry
  MaxPrimes,          \* apostrophes a client-chosen name may end with
  MaxProductions,     \* bound on add_production calls
  MaxRhsLength        \* bound on the length of a right-hand side

VARIABLES
  symbols,            \* SymbolTable::symbols_
  productions,        \* Grammar::productions_
  start,              \* Grammar::start_symbol_ (NoSymbol for nullptr)
  augmented,          \* Grammar::is_augmented_
  epsilonComputed, firstComputed, followComputed,   \* the *_computed_ flags
  epsilonDerivers, firstSets, followSets            \* the cached maps

grammarVars == <<symbols, productions, start, augmented, epsilonComputed, firstComputed,
          followComputed, epsilonDerivers, firstSets, followSets>>

ClientNonterminalNames == {Name(b, k) : b \in NonterminalBases, k \in 0..MaxPrimes}

\* Right-hand sides a client passes: grammar symbols, or the single epsilon
\* symbol written for A -> eps.
RhsChoices ==
  UNION {[1..m -> {s \in symbols : IsTerminal(s) \/ IsNonterminal(s)}] : m \in 0..MaxRhsLength}
  \cup {<<EpsilonSymbol>>}

GrammarSymbols ==
  Nonterminals(symbols) \cup UNION {Elems(p.rhs) \cup {p.lhs} : p \in Elems(productions)}

-----------------------------------------------------------------------------

\* Grammar::clear_cache
ClearCache ==
  /\ epsilonComputed' = FALSE /\ firstComputed' = FALSE /\ followComputed' = FALSE
  /\ epsilonDerivers' = <<>>  /\ firstSets' = <<>>      /\ followSets' = <<>>

\* SymbolTable::SymbolTable and Grammar::Grammar
GrammarInit ==
  /\ symbols = {EpsilonSymbol, EndSymbol}
  /\ productions = <<>>
  /\ start = NoSymbol
  /\ augmented = FALSE
  /\ epsilonComputed = FALSE /\ firstComputed = FALSE /\ followComputed = FALSE
  /\ epsilonDerivers = <<>>  /\ firstSets = <<>>      /\ followSets = <<>>

\* SymbolTable::get_terminal: returns the symbol with this name and token
\* type, creating it if there is none.  The caches are left alone.
GetTerminal(b, tok) ==
  /\ symbols' = symbols \cup {MkSymbol(Name(b, 0), TERMINAL, tok)}
  /\ UNCHANGED <<productions, start, augmented, epsilonComputed, firstComputed,
                 followComputed, epsilonDerivers, firstSets, followSets>>

\* SymbolTable::get_nonterminal
GetNonterminal(n) ==
  /\ symbols' = symbols \cup {MkSymbol(n, NONTERMINAL, EOF_TOKEN)}
  /\ UNCHANGED <<productions, start, augmented, epsilonComputed, firstComputed,
                 followComputed, epsilonDerivers, firstSets, followSets>>

\* add_production without its clear_cache call
AddProductionKeepCache(lhs, rhs) ==
  /\ Len(productions) < MaxProductions
  /\ productions' = Append(productions, [lhs |-> lhs, rhs |-> rhs])
  /\ UNCHANGED <<symbols, start, augmented, epsilonComputed, firstComputed,
                 followComputed, epsilonDerivers, firstSets, followSets>>

\* Grammar::add_production: append, then clear_cache
AddProduction(lhs, rhs) ==
  /\ Len(productions) < MaxProductions
  /\ productions' = Append(productions, [lhs |-> lhs, rhs |-> rhs])
  /\ ClearCache
  /\ UNCHANGED <<symbols, start, augmented>>

\* Grammar::set_start_symbol (inline in grammar.h): nothing else
SetStartSymbol(s) ==
  /\ start' = s
  /\ UNCHANGED <<symbols, productions, augmented, epsilonComputed, firstComputed,
                 followComputed, epsilonDerivers, firstSets, followSets>>

\* augment creating S' directly instead of through get_nonterminal, so
\* that S' is missing from the symbol table
AugmentNoIntern ==
  /\ ~augmented
  /\ start # NoSymbol
  /\ LET newStart == MkSymbol(Quote(start.name), NONTERMINAL, EOF_TOKEN)
     IN  /\ productions' = <<[lhs |-> newStart, rhs |-> <<start>>]>> \o productions
         /\ start' = newStart
  /\ augmented' = TRUE
  /\ ClearCache
  /\ UNCHANGED symbols

\* Grammar::augment: a no-op when already augmented or without a start
\* symbol; otherwise interns start + "'", moves S' -> S to the front,
\* makes S' the start symbol and clears the caches.
Augment ==
  /\ ~augmented
  /\ start # NoSymbol
  /\ LET newStart == MkSymbol(Quote(start.name), NONTERMINAL, EOF_TOKEN)
     IN  /\ symbols' = symbols \cup {newStart}
         /\ productions' = <<[lhs |-> newStart, rhs |-> <<start>>]>> \o productions
         /\ start' = newStart
  /\ augmented' = TRUE
  /\ ClearCache

\* Whether compute_first_sets (or compute_follow_sets) calls
\* derives_epsilon at all: only for a production with a non-empty rhs.
ConsultsEpsilon == \E i \in DOMAIN productions : productions[i].rhs # <<>>

\* The epsilon map a computation sees: the cache, or a fresh computation
EpsilonMap ==
  IF epsilonComputed THEN epsilonDerivers ELSE ComputeEpsilonDerivers(symbols, productions)

\* The FIRST map compute_follow_sets sees
FirstMap ==
  IF firstComputed THEN firstSets ELSE ComputeFirstSets(symbols, productions, EpsilonMap)

\* Grammar::derives_epsilon(symbol) on an empty cache
DerivesEpsilonQuery ==
  /\ ~epsilonComputed
  /\ epsilonDerivers' = ComputeEpsilonDerivers(symbols, productions)
  /\ epsilonComputed' = TRUE
  /\ UNCHANGED <<symbols, productions, start, augmented, firstComputed, followComputed,
                 firstSets, followSets>>

\* Grammar::first_set(symbol) on an empty cache: compute_first_sets, which
\* fills the epsilon cache through derives_epsilon when it consults it
FirstSetQuery ==
  /\ ~firstComputed
  /\ firstSets' = ComputeFirstSets(symbols, productions, EpsilonMap)
  /\ firstComputed' = TRUE
  /\ epsilonDerivers' = IF ConsultsEpsilon THEN EpsilonMap ELSE epsilonDerivers
  /\ epsilonComputed' = (epsilonComputed \/ ConsultsEpsilon)
  /\ UNCHANGED <<symbols, productions, start, augmented, followComputed, followSets>>

\* Grammar::follow_set(symbol) on an empty cache: compute_follow_sets, which
\* first computes the FIRST sets if they are not cached
FollowSetQuery ==
  /\ ~followComputed
  /\ followSets' = ComputeFollowSets(symbols, productions, start, EpsilonMap, FirstMap)
  /\ followComputed' = TRUE
  /\ firstSets' = FirstMap
  /\ firstComputed' = TRUE
  /\ epsilonDerivers' = IF ConsultsEpsilon THEN EpsilonMap ELSE epsilonDerivers
  /\ epsilonComputed' = (epsilonComputed \/ ConsultsEpsilon)
  /\ UNCHANGED <<symbols, productions, start, augmented>>

GrammarNext ==
  \/ \E b \in TerminalBases, tok \in TokenKinds : GetTerminal(b, tok)
  \/ \E n \in ClientNonterminalNames : GetNonterminal(n)
  \/ \E lhs \in Nonterminals(symbols), rhs \in RhsChoices : AddProduction(lhs, rhs)
  \/ \E s \in Nonterminals(symbols) : SetStartSymbol(s)
  \/ Augment
  \/ DerivesEpsilonQuery
  \/ FirstSetQuery
  \/ FollowSetQuery

GrammarSpec == GrammarInit /\ [][GrammarNext]_grammarVars

-----------------------------------------------------------------------------
(* Properties                                                              *)

GrammarTypeOK ==
  /\ EpsilonSymbol \in symbols /\ EndSymbol \in symbols
  /\ \A s \in symbols : s.kind \in {TERMINAL, NONTERMINAL, EPSILON, END_OF_INPUT}
  /\ \A i \in DOMAIN productions : productions[i].lhs \in Nonterminals(symbols)
  /\ start \in Nonterminals(symbols) \cup {NoSymbol}
  /\ augmented \in BOOLEAN
  /\ {epsilonComputed, firstComputed, followComputed} \subseteq BOOLEAN
  /\ \A s \in DOMAIN firstSets : firstSets[s] \subseteq symbols

\* The three fixed-point loops (compute_epsilon_derivers, compute_first_sets
\* with first_set(symbols), compute_follow_sets), run on whatever grammar
\* the client has built, give exactly the nullable set, FIRST and FOLLOW
\* of spec 4.2: the in-place passes, the early `break` on a non-nullable
\* symbol, the epsilon-only rhs and the `changed` test all have to be right.
SetAnalysisMatchesReference ==
  LET d  == ComputeEpsilonDerivers(symbols, productions)
      f  == ComputeFirstSets(symbols, productions, d)
      fo == ComputeFollowSets(symbols, productions, start, d, f)
      N  == NullableRef(symbols, productions)
  IN  /\ \A n \in Nonterminals(symbols) : DerivesEpsilon(d, n) <=> n \in N
      /\ \A s \in symbols : Lookup(f, s, {}) = FirstRef(symbols, productions, s)
      /\ \A n \in Nonterminals(symbols) :
            Lookup(fo, n, {}) = FollowRef(symbols, productions, start, n)

\* A filled epsilon or FIRST cache answers, for every symbol of the grammar,
\* what a fresh computation on the current grammar answers: whatever
\* interning, production additions and augmentation happened since it was
\* filled (add_production and augment must invalidate it).
CachesCoherent ==
  LET d == ComputeEpsilonDerivers(symbols, productions)
      f == ComputeFirstSets(symbols, productions, d)
  IN  /\ epsilonComputed =>
           \A s \in GrammarSymbols : DerivesEpsilon(epsilonDerivers, s) = DerivesEpsilon(d, s)
      /\ firstComputed =>
           \A s \in GrammarSymbols : Lookup(firstSets, s, {}) = Lookup(f, s, {})

\* A filled FOLLOW cache answers what a fresh computation answers for every
\* nonterminal.  set_start_symbol does not clear the caches, although
\* FOLLOW depends on the start symbol ($ \in FOLLOW(start)).
FollowCacheCoherent ==
  followComputed =>
    \A n \in Nonterminals(symbols) :
      Lookup(followSets, n, {}) =
        Lookup(ComputeFollowSets(symbols, productions, start, EpsilonMap, FirstMap), n, {})

\* augment() introduces S' as a fresh nonterminal: when it runs, no
\* existing production mentions S', so that afterwards S' -> S is the only
\* production for S' (spec 3, "Grammar").
AugmentCreatesFreshStart ==
  [][~augmented /\ augmented' =>
       \A p \in Elems(productions) : p.lhs # start' /\ start' \notin Elems(p.rhs)]_grammarVars

=============================================================================
