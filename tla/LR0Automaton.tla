---------------------------- MODULE LR0Automaton ----------------------------
(***************************************************************************)
(* The constructor of LR0Automaton (lr_items.cpp): the canonical           *)
(* collection of LR(0) item sets, built with a work list.                  *)
(*                                                                         *)
(* An item is <<p, d>>: production index p of the grammar (a sequence, so  *)
(* p is the code's index + 1; the code compares ProductionPtr, and two    *)
(* productions are distinct objects exactly when their indices differ)    *)
(* and dot position d.  A state id is the code's id (from 0); states[id+1] *)
(* is its item set.  The loop over get_transition_symbols() runs in       *)
(* std::set<SymbolPtr> order, i.e. by heap address, which the program     *)
(* does not control: the model picks the next symbol nondeterministically. *)
(*                                                                         *)
(* One step is one iteration of the code: PopState is work_queue.back() / *)
(* pop_back() together with evaluating get_transition_symbols(), and       *)
(* ProcessSymbol is one iteration of the inner for loop.                   *)
(***************************************************************************)
EXTENDS GrammarAnalysis

CONSTANT Grammars   \* the augmented grammars the automaton may be built for

VARIABLES
  grammar,      \* the Grammar& passed to the constructor (never changes)
  states,       \* states_: sequence of item sets, states[id + 1]
  transitions,  \* transitions_: <<from id, symbol>> -> to id
  workQueue,    \* work_queue: ids, the back is the last element
  current,      \* id of current_state (-1 before the first pop)
  pending       \* transition symbols of current_state not yet visited

vars == <<grammar, states, transitions, workQueue, current, pending>>

-----------------------------------------------------------------------------
(* Items, closure and goto (lr_items.cpp)                                  *)

Rhs(g, item) == g[item[1]].rhs

\* LR0Item::is_complete and LR0Item::next_symbol
IsComplete(g, item) == item[2] >= Len(Rhs(g, item))
NextSymbol(g, item) == Rhs(g, item)[item[2] + 1]

\* LR0Item::advance
Advance(item) == <<item[1], item[2] + 1>>

\* Grammar::productions_for: the indices of the productions of X
ProductionsFor(g, X) == {q \in DOMAIN g : g[q].lhs = X}

\* The items closure adds for one item: its nonterminal's productions,
\* as LR(0) items with the dot at the left
Predicted(g, item) ==
  IF ~IsComplete(g, item) /\ IsNonterminal(NextSymbol(g, item))
  THEN {<<q, 0>> : q \in ProductionsFor(g, NextSymbol(g, item))}
  ELSE {}

\* closure with the loop stopping after its first pass (no `changed` loop)
ClosureOnePass(g, items) ==
  items \cup UNION {Predicted(g, it) : it \in items}

\* LR0Automaton::closure: passes over `result` until no new item appears
RECURSIVE Closure(_, _)
Closure(g, items) ==
  LET new == UNION {Predicted(g, it) : it \in items} \ items
  IN  IF new = {} THEN items ELSE Closure(g, items \cup new)

\* LR0State::get_transition_symbols
TransitionSymbols(g, items) ==
  {NextSymbol(g, it) : it \in {it \in items : ~IsComplete(g, it)}}

\* get_items_for_symbol, advance each, then closure (also goto_set)
GotoItems(g, items, X) ==
  Closure(g, {Advance(it) :
                it \in {it \in items : ~IsComplete(g, it) /\ NextSymbol(g, it) = X}})

\* LR0Automaton::get_transition: the target, or -1 when there is none
GetTransition(s, X) == IF <<s, X>> \in DOMAIN transitions THEN transitions[<<s, X>>] ELSE -1

-----------------------------------------------------------------------------

\* The constructor up to the while loop: state 0 is the closure of the
\* item for productions()[0] with the dot at the left
Init ==
  /\ grammar \in Grammars
  /\ states = <<Closure(grammar, {<<1, 0>>})>>
  /\ transitions = <<>>
  /\ workQueue = <<0>>
  /\ current = -1
  /\ pending = {}

\* Next while-iteration: take the back of the work queue
PopState ==
  /\ pending = {}
  /\ workQueue # <<>>
  /\ LET id == workQueue[Len(workQueue)]
     IN  /\ current' = id
         /\ pending' = TransitionSymbols(grammar, states[id + 1])
  /\ workQueue' = SubSeq(workQueue, 1, Len(workQueue) - 1)
  /\ UNCHANGED <<grammar, states, transitions>>

\* ProcessSymbol with the new id read after push_back (states_.size() + 1)
ProcessSymbolIdAfterPush ==
  \E X \in pending :
    LET J        == GotoItems(grammar, states[current + 1], X)
        existing == {i \in DOMAIN states : states[i] = J}
        target   == IF existing = {} THEN Len(states) + 1 ELSE MinOf(existing) - 1
    IN  /\ states' = IF existing = {} THEN Append(states, J) ELSE states
        /\ workQueue' = IF existing = {} THEN Append(workQueue, target) ELSE workQueue
        /\ transitions' = (<<current, X>> :> target) @@ transitions
        /\ pending' = pending \ {X}
        /\ UNCHANGED <<grammar, current>>

\* ProcessSymbol that never removes the symbol it visited
ProcessSymbolNoAdvance ==
  \E X \in pending :
    LET J        == GotoItems(grammar, states[current + 1], X)
        existing == {i \in DOMAIN states : states[i] = J}
        target   == IF existing = {} THEN Len(states) ELSE MinOf(existing) - 1
    IN  /\ states' = IF existing = {} THEN Append(states, J) ELSE states
        /\ workQueue' = IF existing = {} THEN Append(workQueue, target) ELSE workQueue
        /\ transitions' = (<<current, X>> :> target) @@ transitions
        /\ UNCHANGED <<grammar, current, pending>>

\* One iteration of the for loop over the transition symbols: compute the
\* goto set, find the first existing state with equal items or append a
\* new one with id states_.size() and push it, record the transition.
ProcessSymbol ==
  \E X \in pending :
    LET J        == GotoItems(grammar, states[current + 1], X)
        existing == {i \in DOMAIN states : states[i] = J}
        target   == IF existing = {} THEN Len(states) ELSE MinOf(existing) - 1
    IN  /\ states' = IF existing = {} THEN Append(states, J) ELSE states
        /\ workQueue' = IF existing = {} THEN Append(workQueue, target) ELSE workQueue
        /\ transitions' = (<<current, X>> :> target) @@ transitions
        /\ pending' = pending \ {X}
        /\ UNCHANGED <<grammar, current>>

Next == PopState \/ ProcessSymbol

\* The constructor runs to completion in one thread: nothing can stop it
Spec == Init /\ [][Next]_vars /\ WF_vars(Next)

\* The constructor has returned
Constructed == workQueue = <<>> /\ pending = {}

-----------------------------------------------------------------------------
(* Reference: the canonical collection by spec 4.3                         *)

Items(g) == UNION {{<<p, d>> : d \in 0..Len(g[p].rhs)} : p \in DOMAIN g}

\* Closure(I) as reachability along the "predicts" edges
RefClosure(g, I) ==
  ReachFrom(UNION {{<<it, q>> : q \in Predicted(g, it)} : it \in Items(g)}, I)

RefGoto(g, I, X) ==
  RefClosure(g, {<<it[1], it[2] + 1>> :
                   it \in {it \in I : ~IsComplete(g, it) /\ NextSymbol(g, it) = X}})

\* The smallest set of item sets holding state 0 and closed under RefGoto
RECURSIVE RefCollectionFrom(_, _)
RefCollectionFrom(g, C) ==
  LET next == C \cup UNION {{RefGoto(g, I, X) : X \in TransitionSymbols(g, I)} : I \in C}
  IN  IF next = C THEN C ELSE RefCollectionFrom(g, next)

RefCollection(g) == RefCollectionFrom(g, {RefClosure(g, {<<1, 0>>})})

-----------------------------------------------------------------------------
(* Properties                                                              *)

TypeOK ==
  /\ grammar \in Grammars
  /\ \A i \in DOMAIN states : states[i] \subseteq Items(grammar)
  /\ \A k \in DOMAIN transitions : transitions[k] \in 0..(Len(states) - 1)
  /\ \A i \in DOMAIN workQueue : workQueue[i] \in 0..(Len(states) - 1)
  /\ current \in -1..(Len(states) - 1)

\* When the constructor returns, states_ is exactly the canonical
\* collection, each item set once, state 0 is the closure of the
\* augmented item, and transitions_ is exactly Goto on every (state,
\* transition symbol) pair: the work list, the equality search over
\* states_ and the closure loop together must lose or duplicate nothing.
CollectionIsCanonical ==
  Constructed =>
    /\ Elems(states) = RefCollection(grammar)
    /\ Len(states) = Cardinality(Elems(states))
    /\ states[1] = RefClosure(grammar, {<<1, 0>>})
    /\ DOMAIN transitions =
         UNION {{<<i - 1, X>> : X \in TransitionSymbols(grammar, states[i])} : i \in DOMAIN states}
    /\ \A k \in DOMAIN transitions :
         states[transitions[k] + 1] = RefGoto(grammar, states[k[1] + 1], k[2])

\* The constructor returns: the work list empties because only new
\* states are pushed and there are finitely many item sets.
ConstructionTerminates == <>Constructed

=============================================================================
