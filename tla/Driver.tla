------------------------------- MODULE Driver -------------------------------
(***************************************************************************)
(* create_lalr1_parser and LALR1Parser::parse_internal (parser.cpp): the   *)
(* table is built (LALRTable), a table with conflicts makes               *)
(* create_lalr1_parser throw, and otherwise the shift/reduce driver runs   *)
(* on one token sequence, one loop iteration per step.                     *)
(*                                                                         *)
(* A token is its TokenType; the lexeme and coordinates only feed error   *)
(* messages and are left out.  A parse-tree node is a record [sym, kids]; *)
(* the null node of the bottom stack frame is NoNode.  get_terminals()     *)
(* is a std::set<SymbolPtr>, so when several terminals share a token type  *)
(* the one found first is the one with the lowest address: the model      *)
(* takes any of them.                                                      *)
(***************************************************************************)
EXTENDS LALRTable, Language

CONSTANTS
  Inputs      \* token-type sequences the lexer may produce (EOF excluded)

VARIABLES
  word,       \* the token types of this parse
  pos,        \* index of current_token in word (Len(word) + 1: EOF)
  stack,      \* std::stack<StackElement>: [state, sym, node], bottom first
  result      \* "idle", "running", or how parse_internal returned

driverVars == <<word, pos, stack, result>>
pipelineVars == <<allVars, driverVars>>

\* ParseNode(symbol) with add_child called once per child, in order
ParseNode(sym, children) == [sym |-> sym, kids |-> children]
NoNode == ParseNode(NoSymbol, <<>>)
Frame(s, x, n) == [state |-> s, sym |-> x, node |-> n]

\* The terminal for the current token: $ at EOF, else a terminal with the
\* token's type (the first in get_terminals() order)
TerminalsFor(g, kind) == {t \in Terminals(GrammarSyms(g)) : t.tok = kind}
CurrentTerminals ==
  IF pos > Len(word) THEN {EndSymbol} ELSE TerminalsFor(grammar, word[pos])

Top == stack[Len(stack)]
ActionAt(s, t) == IF <<s, t>> \in DOMAIN action THEN action[<<s, t>>] ELSE [type |-> "ERROR", value |-> -1]

-----------------------------------------------------------------------------

DriverInit == TableInit /\ word = <<>> /\ pos = 1 /\ stack = <<>> /\ result = "idle"

\* The LALR1Generator steps inside create_lalr1_parser
BuildTable == TableNext /\ UNCHANGED driverVars

\* create_lalr1_parser after generate_table: throw on conflicts, else the
\* parse starts: push state 0 and read the first token
StartParse ==
  /\ phase = "done" /\ result = "idle"
  /\ IF HasConflicts
     THEN result' = "conflicts" /\ UNCHANGED <<word, pos, stack>>
     ELSE /\ \E w \in Inputs : word' = w
          /\ pos' = 1
          /\ stack' = <<Frame(0, NoSymbol, NoNode)>>
          /\ result' = "running"
  /\ UNCHANGED allVars

\* No terminal has the token's type
UnknownToken ==
  /\ result = "running" /\ CurrentTerminals = {}
  /\ result' = "unknown token"
  /\ UNCHANGED <<allVars, word, pos, stack>>

DriverShift(t) ==
  /\ ActionAt(Top.state, t).type = "SHIFT"
  /\ stack' = Append(stack, Frame(ActionAt(Top.state, t).value, t, ParseNode(t, <<>>)))
  /\ pos' = pos + 1
  /\ UNCHANGED result

\* DriverReduce popping one frame more than the rhs has
DriverReducePopOneMore(t) ==
  /\ ActionAt(Top.state, t).type = "REDUCE"
  /\ LET p      == grammar[ActionAt(Top.state, t).value + 1]
         k      == Len(p.rhs) + 1
         rest   == SubSeq(stack, 1, Len(stack) - k)
         popped == SubSeq(stack, Len(stack) - k + 1, Len(stack))
         kids   == SelectSeq([j \in 1..k |-> popped[j].node], LAMBDA nd : nd # NoNode)
         after  == IF rest = <<>> THEN 0 ELSE rest[Len(rest)].state
     IN  IF Len(stack) < k THEN result' = "stack underflow" /\ UNCHANGED stack
         ELSE IF GetGoto(after, p.lhs) < 0
              THEN result' = "no goto" /\ UNCHANGED stack
              ELSE /\ stack' = Append(rest, Frame(GetGoto(after, p.lhs), p.lhs,
                                                  ParseNode(p.lhs, kids)))
                   /\ UNCHANGED result
  /\ UNCHANGED pos

\* DriverReduce adding the children in popping order (no reversal)
DriverReduceChildrenReversed(t) ==
  /\ ActionAt(Top.state, t).type = "REDUCE"
  /\ LET p      == grammar[ActionAt(Top.state, t).value + 1]
         k      == Len(p.rhs)
         rest   == SubSeq(stack, 1, Len(stack) - k)
         popped == SubSeq(stack, Len(stack) - k + 1, Len(stack))
         kids   == SelectSeq([j \in 1..k |-> popped[k + 1 - j].node], LAMBDA nd : nd # NoNode)
         after  == IF rest = <<>> THEN 0 ELSE rest[Len(rest)].state
     IN  IF Len(stack) < k THEN result' = "stack underflow" /\ UNCHANGED stack
         ELSE IF GetGoto(after, p.lhs) < 0
              THEN result' = "no goto" /\ UNCHANGED stack
              ELSE /\ stack' = Append(rest, Frame(GetGoto(after, p.lhs), p.lhs,
                                                  ParseNode(p.lhs, kids)))
                   /\ UNCHANGED result
  /\ UNCHANGED pos

\* Pop rhs().size() frames, failing only when the stack is empty before a
\* pop; state 0 if the stack is then empty; null nodes are not children
DriverReduce(t) ==
  /\ ActionAt(Top.state, t).type = "REDUCE"
  /\ LET p      == grammar[ActionAt(Top.state, t).value + 1]
         k      == Len(p.rhs)
         rest   == SubSeq(stack, 1, Len(stack) - k)
         popped == SubSeq(stack, Len(stack) - k + 1, Len(stack))
         kids   == SelectSeq([j \in 1..k |-> popped[j].node], LAMBDA nd : nd # NoNode)
         after  == IF rest = <<>> THEN 0 ELSE rest[Len(rest)].state
     IN  IF Len(stack) < k THEN result' = "stack underflow" /\ UNCHANGED stack
         ELSE IF GetGoto(after, p.lhs) < 0
              THEN result' = "no goto" /\ UNCHANGED stack
              ELSE /\ stack' = Append(rest, Frame(GetGoto(after, p.lhs), p.lhs,
                                                  ParseNode(p.lhs, kids)))
                   /\ UNCHANGED result
  /\ UNCHANGED pos

DriverAccept(t) ==
  /\ ActionAt(Top.state, t).type = "ACCEPT"
  /\ result' = IF Len(stack) >= 2 THEN "accept" ELSE "invalid accept"
  /\ UNCHANGED <<stack, pos>>

\* The error branch without its return
DriverErrorNoReturn(t) ==
  /\ ActionAt(Top.state, t).type = "ERROR"
  /\ UNCHANGED <<stack, pos, result>>

DriverError(t) ==
  /\ ActionAt(Top.state, t).type = "ERROR"
  /\ result' = "syntax error"
  /\ UNCHANGED <<stack, pos>>

\* One iteration of the while loop
ParseStep ==
  /\ result = "running"
  /\ \E t \in CurrentTerminals :
       DriverShift(t) \/ DriverReduce(t) \/ DriverAccept(t) \/ DriverError(t)
  /\ UNCHANGED <<allVars, word>>

DriverNext == BuildTable \/ StartParse \/ UnknownToken \/ ParseStep

\* parse_internal's loop runs in one thread with nothing to wait for: once
\* parsing has started, a step of it is always taken
DriverSpec == DriverInit /\ [][DriverNext]_pipelineVars /\ WF_driverVars(ParseStep \/ UnknownToken)

Finished == result \notin {"idle", "running"}

-----------------------------------------------------------------------------
(* Properties                                                              *)

DriverTypeOK ==
  /\ pos \in 1..(Len(word) + 1)
  /\ stack # <<>> => stack[1] = Frame(0, NoSymbol, NoNode)
  /\ \A i \in DOMAIN stack : stack[i].state \in 0..(Len(states) - 1)
  /\ result \in {"idle", "running", "conflicts", "unknown token", "stack underflow",
                 "no goto", "accept", "invalid accept", "syntax error"}

\* What parse() returns on accept is a parse tree of S (not S') over the
\* whole input, with the stack exactly [initial frame, S frame] (spec 4.5):
\* the children of each reduction are taken from the stack in the order
\* they were shifted, and the null node of the bottom frame is never one.
AcceptReturnsParseTree ==
  result = "accept" =>
    /\ Len(stack) = 2 /\ Top.sym = grammar[1].rhs[1]
    /\ IsDerivation(grammar, Top.node)
    /\ Yield(Top.node) = AsTerminals(grammar, word)

\* How parse_internal has returned, as the Recognizer sees it: every
\* failure (unknown token, syntax error, stack underflow, missing goto,
\* accept on a short stack) is a rejection.
Verdict ==
  IF result \in {"idle", "running", "conflicts", "accept"} THEN result ELSE "reject"

Abstract == INSTANCE Recognizer WITH verdict <- Verdict

\* create_lalr1_parser and parse_internal implement the Recognizer: a
\* started parse returns (no endless chain of epsilon reductions, no
\* stuck loop) and accepts exactly the sentences of the grammar; a token
\* type no terminal has, and every error return, happen only on inputs
\* that are not sentences.
ImplementsRecognizer == Abstract!Safety /\ Abstract!Returns

=============================================================================
