--------------------------- MODULE PythonPrograms ---------------------------
(***************************************************************************)
(* The Python programs: the client of the cluster, the serve loop of the   *)
(* model and the trainer.  They run in processes of their own and share no *)
(* state, so a behaviour of one of them with the others at rest shows all  *)
(* it can do; "part" names it.                                             *)
(***************************************************************************)
EXTENDS ClusterMap, PipelinedServe, Training

VARIABLE part

pythonVars == <<part, vars, serveVars, trainVars>>

PythonInit ==
  /\ part \in {"map", "serve", "trainer"}
  /\ Init /\ ServeInit /\ TrainInit
  /\ part # "trainer" => ~weighted

PythonNext ==
  /\ \/ part = "map" /\ Next /\ UNCHANGED <<serveVars, trainVars>>
     \/ part = "serve" /\ ServeNext /\ UNCHANGED <<vars, trainVars>>
     \/ part = "trainer" /\ TrainNext /\ UNCHANGED <<vars, serveVars>>
  /\ UNCHANGED part

\* The fairness of ClusterMap and of PipelinedServe. A caller at rest submits
\* nothing; the threads of a serve loop at rest have nothing to do.
PythonSpec ==
  /\ PythonInit
  /\ [][PythonNext]_pythonVars
  /\ WF_vars(part = "map" /\ (Polling \/ Cancelling))
  /\ WF_vars(part = "map" /\ (SubmitMap \/ Reconnect))
  /\ \A j \in 1..Size : WF_vars(Finish(j))
  /\ ServeFairness

\* A request that is submitted and not cancelled completes.
SubmittedCompletes == part = "map" => Completes
=============================================================================
