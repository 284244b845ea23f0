----------------------------- MODULE LALRTable -----------------------------
(***************************************************************************)
(* LALR1Generator (parse_table.cpp): the constructor builds the LR(0)      *)
(* automaton (the steps of LR0Automaton), then generate_table() runs       *)
(* build_lalr_states() and fills the action and goto tables state by      *)
(* state through ParseTable::set_action / set_goto.                        *)
(*                                                                         *)
(* build_lalr_states is one step: it has no choice in it.  generate_table  *)
(* visits the states in id order and, inside a state, the LR1 items in    *)
(* std::set<LR1Item> order, which compares ProductionPtr and SymbolPtr    *)
(* addresses: the model emits the items of a state in any order, one per  *)
(* step, since which of two conflicting actions a cell ends with depends  *)
(* on that order.  FIRST and FOLLOW are Grammar's (GrammarAnalysis) on    *)
(* the augmented grammar, whose caches augment() has just cleared.         *)
(***************************************************************************)
EXTENDS LR0Automaton

VARIABLES
  phase,        \* "lr0" (constructor), "emit" (generate_table), "done"
  lalrStates,   \* states_: id -> set of LR1 items <<item, lookahead>>
  row,          \* id of the state generate_table is filling
  todo,         \* LR1 items of that state not yet visited
  action,       \* ParseTable::action_table_: <<id, terminal>> -> action
  gotoTable,    \* ParseTable::goto_table_: <<id, nonterminal>> -> id
  conflicts     \* ParseTable::conflicts_: <<id, terminal, existing, new>>

tableVars == <<phase, lalrStates, row, todo, action, gotoTable, conflicts>>
allVars == <<vars, tableVars>>

\* Action (parse_table.h)
Shift(s)  == [type |-> "SHIFT", value |-> s]
Reduce(p) == [type |-> "REDUCE", value |-> p]
Accept    == [type |-> "ACCEPT", value |-> -1]   \* Action(ActionType::ACCEPT): v = -1

\* The symbol table as the grammar's symbols, epsilon and $
GrammarSyms(g) ==
  {EpsilonSymbol, EndSymbol} \cup UNION {{p.lhs} \cup Elems(p.rhs) : p \in Elems(g)}

Eps(g)    == ComputeEpsilonDerivers(GrammarSyms(g), g)
First(g)  == ComputeFirstSets(GrammarSyms(g), g, Eps(g))
Follow(g) == ComputeFollowSets(GrammarSyms(g), g, g[1].lhs, Eps(g), First(g))

\* The test generate_table and build_lalr_states use for S' -> S:
\* lhs()->name().back() == '\'' && rhs().size() == 1
LooksAugmented(g, item) == g[item[1]].lhs.name.primes > 0 /\ Len(Rhs(g, item)) = 1

\* Lookaheads with FIRST(A) in place of FOLLOW(A) for a complete item
LookaheadsFirstForFollow(g, item) ==
  IF IsComplete(g, item)
  THEN IF LooksAugmented(g, item) THEN {EndSymbol}
       ELSE Lookup(First(g), g[item[1]].lhs, {}) \ {EpsilonSymbol}
  ELSE IF IsTerminal(NextSymbol(g, item)) THEN {NextSymbol(g, item)}
  ELSE IF IsNonterminal(NextSymbol(g, item))
       THEN Lookup(First(g), NextSymbol(g, item), {})
  ELSE {}

\* build_lalr_states: the lookaheads of one LR(0) item
Lookaheads(g, item) ==
  IF IsComplete(g, item)
  THEN IF LooksAugmented(g, item) THEN {EndSymbol}
       ELSE Lookup(Follow(g), g[item[1]].lhs, {})
  ELSE IF IsTerminal(NextSymbol(g, item)) THEN {NextSymbol(g, item)}
  ELSE IF IsNonterminal(NextSymbol(g, item))
       THEN Lookup(First(g), NextSymbol(g, item), {})
  ELSE {}

\* LALRState::add_lookahead rebuilds items_ from the core items that have a
\* lookahead: an item without one is not in items_
LR1Items(g, items) == UNION {{<<it, la>> : la \in Lookaheads(g, it)} : it \in items}

\* ParseTable::set_action: a different action already in the cell is
\* recorded as a conflict; the new action is stored either way
SetAction(s, t, a) ==
  /\ conflicts' = IF <<s, t>> \in DOMAIN action /\ action[<<s, t>>] # a
                  THEN Append(conflicts, <<s, t, action[<<s, t>>], a>>)
                  ELSE conflicts
  /\ action' = (<<s, t>> :> a) @@ action

\* ParseTable::get_goto: the stored target, or -1 when the cell is absent
GetGoto(s, X) == IF <<s, X>> \in DOMAIN gotoTable THEN gotoTable[<<s, X>>] ELSE -1

\* ParseTable::has_conflicts
HasConflicts == conflicts # <<>>

-----------------------------------------------------------------------------

TableInit ==
  /\ Init
  /\ phase = "lr0"
  /\ lalrStates = <<>> /\ row = 0 /\ todo = {}
  /\ action = <<>> /\ gotoTable = <<>> /\ conflicts = <<>>

\* A step of the LALR1Generator constructor (the LR0Automaton member)
BuildAutomaton == phase = "lr0" /\ Next /\ UNCHANGED tableVars

\* generate_table up to the loop: the grammar is augmented (every grammar
\* of Grammars is), then build_lalr_states
BuildLalrStates ==
  /\ phase = "lr0"
  /\ Constructed
  /\ lalrStates' = [id \in 0..(Len(states) - 1) |-> LR1Items(grammar, states[id + 1])]
  /\ phase' = "emit"
  /\ row' = 0
  /\ todo' = lalrStates'[0]
  /\ UNCHANGED <<vars, action, gotoTable, conflicts>>

\* One LR1 item of the current state: accept, reduce by the index of its
\* production, or shift along the LR(0) transition if there is one
EmitItem ==
  /\ phase = "emit"
  /\ \E lr1 \in todo :
       LET item == lr1[1]
           la   == lr1[2]
       IN  /\ todo' = todo \ {lr1}
           /\ IF IsComplete(grammar, item)
              THEN IF LooksAugmented(grammar, item)
                   THEN SetAction(row, la, Accept)
                   ELSE SetAction(row, la, Reduce(item[1] - 1))
              ELSE IF IsTerminal(NextSymbol(grammar, item))
                      /\ GetTransition(row, NextSymbol(grammar, item)) >= 0
                   THEN SetAction(row, NextSymbol(grammar, item),
                                  Shift(GetTransition(row, NextSymbol(grammar, item))))
                   ELSE UNCHANGED <<action, conflicts>>
  /\ UNCHANGED <<vars, phase, lalrStates, row, gotoTable>>

\* FinishRow storing the state after the goto target
FinishRowGotoOffByOne ==
  /\ phase = "emit"
  /\ todo = {}
  /\ LET ntSyms == {X \in TransitionSymbols(grammar, {lr1[1] : lr1 \in lalrStates[row]}) :
                      IsNonterminal(X) /\ <<row, X>> \in DOMAIN transitions}
     IN  gotoTable' = [k \in {<<row, X>> : X \in ntSyms} |-> transitions[k] + 1] @@ gotoTable
  /\ IF row + 1 < Len(states)
     THEN row' = row + 1 /\ todo' = lalrStates[row + 1] /\ phase' = phase
     ELSE row' = row /\ todo' = {} /\ phase' = "done"
  /\ UNCHANGED <<vars, lalrStates, action, conflicts>>

\* After the items of a state: its goto entries, from the transition
\* symbols of the LALR state's items_, then on to the next state
FinishRow ==
  /\ phase = "emit"
  /\ todo = {}
  /\ LET ntSyms == {X \in TransitionSymbols(grammar, {lr1[1] : lr1 \in lalrStates[row]}) :
                      IsNonterminal(X) /\ GetTransition(row, X) >= 0}
     IN  gotoTable' = [k \in {<<row, X>> : X \in ntSyms} |-> GetTransition(k[1], k[2])] @@ gotoTable
  /\ IF row + 1 < Len(states)
     THEN row' = row + 1 /\ todo' = lalrStates[row + 1] /\ phase' = phase
     ELSE row' = row /\ todo' = {} /\ phase' = "done"
  /\ UNCHANGED <<vars, lalrStates, action, conflicts>>

TableNext == BuildAutomaton \/ BuildLalrStates \/ EmitItem \/ FinishRow

\* Table construction is a single call that runs to completion; the
\* liveness checked of it is that the automaton's work list empties, so
\* fairness is stated for the automaton steps
TableSpec == TableInit /\ [][TableNext]_allVars /\ WF_allVars(BuildAutomaton)

-----------------------------------------------------------------------------
(* Reference: the SLR(1) table of spec 4.4 over the same LR(0) states      *)

RefActions(g, id, t) ==
  LET I == states[id + 1]
  IN  {Shift(transitions[<<id, t>>]) :
         x \in {x \in {<<id, t>>} : x \in DOMAIN transitions /\ IsTerminal(t)}}
      \cup {Reduce(it[1] - 1) :
              it \in {it \in I : IsComplete(g, it) /\ it[1] # 1
                                 /\ t \in FollowRef(GrammarSyms(g), g, g[1].lhs, g[it[1]].lhs)}}
      \cup (IF <<1, 1>> \in I /\ t = EndSymbol THEN {Accept} ELSE {})

\* B derives some terminal string or epsilon: FIRST(B) is not empty
Productive(g, B) == FirstRef(GrammarSyms(g), g, B) # {}

RefCells == {<<id, t>> \in (0..(Len(states) - 1)) \X (Terminals(GrammarSyms(grammar)) \cup {EndSymbol}) :
               RefActions(grammar, id, t) # {}}

-----------------------------------------------------------------------------
(* Properties                                                              *)

TableTypeOK ==
  /\ phase \in {"lr0", "emit", "done"}
  /\ \A k \in DOMAIN action : action[k].type \in {"SHIFT", "REDUCE", "ACCEPT"}
  /\ \A k \in DOMAIN gotoTable : gotoTable[k] \in 0..(Len(states) - 1)
  /\ todo \subseteq (IF phase = "emit" THEN lalrStates[row] ELSE {})

\* When generate_table returns, it has reported a conflict exactly when the
\* grammar is not SLR(1) over these LR(0) states, and a conflict-free table
\* is the SLR(1) table: every cell with the one action spec 4.4 gives it,
\* and the goto table equal to the LR(0) transitions on productive
\* nonterminals.  (An item A -> alpha . B beta with FIRST(B) empty gets no
\* lookahead, so build_lalr_states drops it and its goto: harmless, since
\* no reduction to an unproductive B ever happens.)
\* This ties together the FOLLOW lookaheads, the production numbering, the
\* accept test and the transitions generate_table looks up.
TableIsSLR ==
  phase = "done" =>
    /\ (conflicts = <<>>) <=> (\A c \in RefCells : Cardinality(RefActions(grammar, c[1], c[2])) = 1)
    /\ conflicts = <<>> =>
         /\ DOMAIN action = RefCells
         /\ \A c \in RefCells : RefActions(grammar, c[1], c[2]) = {action[c]}
         /\ gotoTable = [k \in {k \in DOMAIN transitions :
                                   IsNonterminal(k[2]) /\ Productive(grammar, k[2])} |->
                           transitions[k]]

\* Spec 4.3/4.4: Accept appears only for the augmented item S' -> S . on $
AcceptOnlyForAugmentedItem ==
  phase = "done" =>
    \A k \in DOMAIN action :
      action[k] = Accept => (<<1, 1>> \in states[k[1] + 1] /\ k[2] = EndSymbol)

=============================================================================
