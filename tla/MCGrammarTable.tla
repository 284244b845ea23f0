---------------------------- MODULE MCGrammarTable ----------------------------
(* The grammar layer under one specification: a behaviour is either a     *)
(* client's sequence of Grammar API calls (MCGrammar's bounds) or the     *)
(* automaton and table generate_table builds for one of MCLALRTable's     *)
(* augmented grammars.  Which one is chosen at the start; they share no   *)
(* state.                                                                  *)
EXTENDS MCGrammar, MCLALRTable

VARIABLE layer   \* "api" or "table"

layerVars == <<grammarVars, allVars, layer>>

GrammarTableInit ==
  /\ GrammarInit /\ TableInit
  /\ layer \in {"api", "table"}
  \* the table's state is idle in a behaviour of API calls
  /\ layer = "api" => grammar = CHOOSE g \in Grammars : TRUE

GrammarTableNext ==
  \/ layer = "api" /\ GrammarNext /\ UNCHANGED <<allVars, layer>>
  \/ layer = "table" /\ TableNext /\ UNCHANGED <<grammarVars, layer>>

\* TableSpec's fairness: the automaton's work loop runs to completion;
\* client calls to the Grammar API are not assumed to happen
GrammarTableSpec ==
  GrammarTableInit /\ [][GrammarTableNext]_layerVars /\ WF_allVars(BuildAutomaton)
=============================================================================
