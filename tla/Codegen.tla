------------------------------ MODULE Codegen ------------------------------
(***************************************************************************)
(* The parser that CppCodeGenerator (cpp_codegen.cpp) writes out, run on   *)
(* the table and augmented grammar of the pipeline (Driver), on the same   *)
(* input the interpreter (parse_internal) parsed.                           *)
(*                                                                         *)
(* The generated source is modelled by what it does, not by its text:     *)
(*   ACTION_TABLE     the integer code of each table action                *)
(*                    (write_action_table);                               *)
(*   GOTO_TABLE       get_goto per nonterminal column (write_goto_table); *)
(*   PRODUCTION_LHS   the column of each production's lhs, PRODUCTION_LENGTH*)
(*                    its rhs size (write_production_rules);              *)
(*   create_production_node  the switch whose case labels count from 1;   *)
(*   parse / shift / reduce  the loop of write_parsing_methods.            *)
(* A generated token is the terminal it was lexed as; the generated       *)
(* lexer appends an EOF token (generate_lexer_source).  errors_ is         *)
(* abstracted to whether it is empty: no generated code reads its length.  *)
(* The generator is used on conflict-free tables (create_lalr1_parser      *)
(* throws on the others).                                                  *)
(***************************************************************************)
EXTENDS Driver

LOCAL SX == INSTANCE SequencesExt

VARIABLES
  gtokens,    \* tokens_: the lexed terminals, EndSymbol last (EOF token)
  gpos,       \* current_token_ + 1
  gstack,     \* state_stack_: [state, node], bottom first
  gerror,     \* errors_ is not empty
  gresult     \* "idle", "running", "accept" or "null" (parse returned nullptr)

genVars == <<gtokens, gpos, gstack, gerror, gresult>>
codegenVars == <<pipelineVars, genVars>>

-----------------------------------------------------------------------------
(* The tables the generator writes                                         *)

\* ACTION_TABLE with reduce p written as -p
ActionCodeNoOffset(s, t) ==
  LET a == ActionAt(s, t)
  IN  CASE a.type = "SHIFT"  -> a.value
        [] a.type = "REDUCE" -> -a.value
        [] a.type = "ACCEPT" -> 0
        [] OTHER             -> -1

\* ACTION_TABLE with shift s' written as s'+1, clear of accept (0), as
\* reduce is kept clear of error (-1)
ActionCodeShiftShifted(s, t) ==
  LET a == ActionAt(s, t)
  IN  CASE a.type = "SHIFT"  -> a.value + 1
        [] a.type = "REDUCE" -> -(a.value + 1)
        [] a.type = "ACCEPT" -> 0
        [] OTHER             -> -1

\* ACTION_TABLE[s][column of t]: shift s' -> s', reduce p -> -(p+1),
\* accept -> 0, error -> -1.  Both the table columns and token_to_index
\* follow the same get_terminals() order, then EOF, so a column is its
\* terminal.
ActionCode(s, t) ==
  LET a == ActionAt(s, t)
  IN  CASE a.type = "SHIFT"  -> a.value
        [] a.type = "REDUCE" -> -(a.value + 1)
        [] a.type = "ACCEPT" -> 0
        [] OTHER             -> -1

\* The generated get_action: -1 outside 0..num_states-1
GenGetAction(s, t) == IF s \in 0..(Len(states) - 1) THEN ActionCode(s, t) ELSE -1

\* The dispatch of the generated loop on the action code
Decode(code) ==
  CASE code > 0  -> Shift(code)
    [] code < -1 -> Reduce(-(code + 1))
    [] code = 0  -> Accept
    [] OTHER     -> [type |-> "ERROR", value |-> -1]

\* nt_vec: the nonterminals sorted with names containing ' first, then by
\* name.  Names are distinct, so the order is total; GOTO_TABLE and
\* PRODUCTION_LHS sort the same vector the same way, and only the index of
\* a nonterminal in it is ever used.
NtVec == SX!SetToSeq(Nonterminals(GrammarSyms(grammar)))
ColumnOf(X) == CHOOSE i \in DOMAIN NtVec : NtVec[i] = X

\* The generated get_goto on GOTO_TABLE[state][column]: -1 when absent
GenGetGoto(s, col) ==
  IF s \in 0..(Len(states) - 1) THEN GetGoto(s, NtVec[col]) ELSE -1

\* PRODUCTION_LHS with the dummy row for production 0 that is commented out
\* in write_production_rules put back
ProductionLhsWithDummy(p) == ColumnOf(grammar[p].lhs)

\* PRODUCTION_LHS[p]: the column of the lhs of production p (code index)
ProductionLhs(p) == ColumnOf(grammar[p + 1].lhs)

ProductionLength(p) == Len(grammar[p + 1].rhs)

\* create_production_node's switch: prod_id counts every production from 1
\* and gives it the case label prod_id, except (no case) one whose lhs is
\* named start_symbol() + "'".  After augment the start symbol is S' itself
\* (grammar[1].lhs), so that is a production of S''.  reduce(p) passes the
\* code index p, which selects case p: the production with TLA index p.
\* Each child goes through the node class's add_child, which drops a
\* nullptr (cpp_codegen.cpp:358-360).
HasCase(i) == grammar[i].lhs.name # Quote(grammar[1].lhs.name)
CreateProductionNode(p, children) ==
  IF p \in DOMAIN grammar /\ HasCase(p)
  THEN [sym |-> grammar[p].lhs, kids |-> SelectSeq(children, LAMBDA c : c # NoNode)]
  ELSE NoNode

-----------------------------------------------------------------------------

GenInit == gtokens = <<>> /\ gpos = 1 /\ gstack = <<>> /\ gerror = FALSE /\ gresult = "idle"

\* parse(tokens) after the interpreter is done with the same input: the
\* tokens with the EOF token appended, a fresh stack holding state 0
GenStart ==
  /\ gresult = "idle"
  /\ Finished /\ result \notin {"conflicts", "unknown token"}
  /\ gtokens' = AsTerminals(grammar, word) \o <<EndSymbol>>
  /\ gpos' = 1
  /\ gstack' = <<[state |-> 0, node |-> NoNode]>>
  /\ gerror' = FALSE
  /\ gresult' = "running"
  /\ UNCHANGED pipelineVars

GTop == gstack[Len(gstack)]
\* get_current_token_type: EOF past the end of tokens_
GenCurrent == IF gpos <= Len(gtokens) THEN gtokens[gpos] ELSE EndSymbol

\* shift(state): only while current_token_ < tokens_.size()
GenShift(code) ==
  /\ Decode(code).type = "SHIFT"
  /\ IF gpos <= Len(gtokens)
     THEN /\ gstack' = Append(gstack, [state |-> code, node |-> [sym |-> GenCurrent, kids |-> <<>>]])
          /\ gpos' = gpos + 1
     ELSE UNCHANGED <<gstack, gpos>>
  /\ UNCHANGED <<gerror, gresult>>

\* reduce(production_id): pop up to PRODUCTION_LENGTH frames (stopping
\* silently on an empty stack), children in stack order, nulls kept; build
\* the node; push the goto, or record "Invalid goto state" and push nothing
GenReduce(code) ==
  /\ Decode(code).type = "REDUCE"
  /\ LET p      == Decode(code).value
         k      == IF ProductionLength(p) < Len(gstack) THEN ProductionLength(p) ELSE Len(gstack)
         rest   == SubSeq(gstack, 1, Len(gstack) - k)
         kids   == [j \in 1..k |-> gstack[Len(gstack) - k + j].node]
         node   == CreateProductionNode(p, kids)
         after  == IF rest = <<>> THEN 0 ELSE rest[Len(rest)].state
         target == GenGetGoto(after, ProductionLhs(p))
     IN  /\ gstack' = IF target >= 0 THEN Append(rest, [state |-> target, node |-> node]) ELSE rest
         /\ gerror' = (gerror \/ node = NoNode \/ target < 0)
  /\ UNCHANGED <<gpos, gresult>>

\* The accept branch without its return
GenAcceptNoReturn(code) ==
  /\ Decode(code).type = "ACCEPT"
  /\ UNCHANGED <<gstack, gpos, gerror, gresult>>

\* Accept: return the top node when the stack holds two frames or more,
\* else record an error and return nullptr
GenAccept(code) ==
  /\ Decode(code).type = "ACCEPT"
  /\ IF Len(gstack) >= 2
     THEN gresult' = "accept" /\ UNCHANGED gerror
     ELSE gresult' = "null" /\ gerror' = TRUE
  /\ UNCHANGED <<gstack, gpos>>

GenError(code) ==
  /\ Decode(code).type = "ERROR"
  /\ gerror' = TRUE /\ gresult' = "null"
  /\ UNCHANGED <<gstack, gpos>>

\* One iteration of the generated while (true) loop
GenStep ==
  /\ gresult = "running"
  /\ LET code == GenGetAction(GTop.state, GenCurrent)
     IN  GenShift(code) \/ GenReduce(code) \/ GenAccept(code) \/ GenError(code)
  /\ UNCHANGED <<pipelineVars, gtokens>>

CodegenInit == DriverInit /\ GenInit

CodegenNext == (DriverNext /\ UNCHANGED genVars) \/ GenStart \/ GenStep

\* Both loops run to completion in one thread once started
CodegenSpec ==
  /\ CodegenInit
  /\ [][CodegenNext]_codegenVars
  /\ WF_driverVars(ParseStep \/ UnknownToken)
  /\ WF_genVars(GenStep)

GenFinished == gresult \in {"accept", "null"}

-----------------------------------------------------------------------------
(* Properties                                                              *)

GenTypeOK ==
  /\ gresult \in {"idle", "running", "accept", "null"}
  /\ gerror \in BOOLEAN
  /\ gpos \in 1..(Len(gtokens) + 1)
  /\ \A i \in DOMAIN gstack : gstack[i].state \in 0..(Len(states) - 1)

\* The integer encoding of write_action_table and the dispatch of the
\* generated loop are inverse on every cell of a finished conflict-free
\* table: no shift target is read as accept (0), no reduce as error (-1)
\* and no reduce index is off by one.
ActionCodesDecode ==
  (phase = "done" /\ conflicts = <<>>) =>
    \A s \in 0..(Len(states) - 1), t \in Terminals(GrammarSyms(grammar)) \cup {EndSymbol} :
      Decode(GenGetAction(s, t)) = ActionAt(s, t)

\* On accept the generated parser returns the tree the interpreter builds:
\* every interior node labelled with the lhs of the production reduced.
GeneratedTreeMatches ==
  (GenFinished /\ gresult = "accept") => GTop.node = stack[2].node

\* The generated parser's answer as the Recognizer sees it; its parse
\* starts only once create_lalr1_parser has returned a parser.
GenVerdict ==
  IF result = "conflicts" THEN "conflicts"
  ELSE CASE gresult = "null" -> "reject"
         [] OTHER            -> gresult

GenAbstract == INSTANCE Recognizer
                 WITH word <- IF gresult = "idle" THEN <<>> ELSE word, verdict <- GenVerdict

\* The generated parser implements the Recognizer as well: its while
\* (true) loop returns, and it accepts exactly the sentences of the
\* grammar, so PRODUCTION_LHS, PRODUCTION_LENGTH and GOTO_TABLE send every
\* reduction to the state the table's get_goto gives.
GeneratedImplementsRecognizer == GenAbstract!Safety /\ GenAbstract!Returns

=============================================================================
