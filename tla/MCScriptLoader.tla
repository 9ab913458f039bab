---------------------------- MODULE MCScriptLoader ----------------------------
(* Instances of ScriptLoader for TLC. *)
EXTENDS ScriptLoader

(* No load statement, one of any name, a loop, or two: chains, diamonds,   *)
(* repeated imports, self imports and cycles of every length.              *)
ShortImports ==
  {<< >>} \cup {<<n>> : n \in Names}
  \cup {<<"m1", "m2">>, <<"m2", "m3">>, <<"m3", "m1">>, <<"m1", "m1">>, <<"m2", "main">>}
================================================================================
