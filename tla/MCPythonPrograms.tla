-------------------------- MODULE MCPythonPrograms --------------------------
(* Four items, so that an orphan has items before it and after it; batches   *)
(* that run through the end of an epoch, and steps that do not end with one. *)
EXTENDS PythonPrograms
=============================================================================
