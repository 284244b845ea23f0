------------------------------ MODULE MCCodegen -----------------------------
(* The generated parser run after the interpreter, over the grammars and  *)
(* inputs of MCDriver.                                                     *)
EXTENDS Codegen, MCDriver
=============================================================================
