----------------------------- MODULE MCGrammar -----------------------------
(* Grammar instantiated for TLC: one nonterminal base S that a client may   *)
(* also write as S' (so that augment's S' can collide with it), one        *)
(* terminal, up to two client productions of length up to two.             *)
EXTENDS Grammar

MCNonterminalBases == {"S"}
MCTerminalBases == {"a"}
MCTokenKinds == {"IDENTIFIER"}
=============================================================================
