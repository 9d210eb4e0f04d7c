-------------------------- MODULE MCScriptedAnalyst --------------------------
(* Small instances of ScriptedAnalyst.                                     *)
EXTENDS ScriptedAnalyst
=============================================================================
