------------------------------ MODULE Services ------------------------------
(***************************************************************************)
(* Two services of the back end that share no state, one in a behaviour:   *)
(* a history file (HistoryFile), of the repairs or of measurements, or the *)
(* accounts (Auth).  app.py makes one object of each, and a request        *)
(* reaches only its own.                                                   *)
(***************************************************************************)
EXTENDS HistoryFile, Auth

VARIABLE scene

servicesVars == <<scene, fileVars, authVars>>

\* Only the file of the repairs has a lock.
ServicesInit ==
  /\ scene \in {"repairs", "measurements", "accounts"}
  /\ FileInit /\ locked = (scene = "repairs")
  /\ AuthInit

ServicesNext ==
  /\ UNCHANGED scene
  /\ \/ scene # "accounts" /\ FileNext /\ UNCHANGED authVars
     \/ scene = "accounts" /\ AuthNext /\ UNCHANGED fileVars

ServicesSpec == ServicesInit /\ [][ServicesNext]_servicesVars

\* Every variable of both services has its type.
ServicesTypeOK ==
  scene \in {"repairs", "measurements", "accounts"} /\ FileTypeOK /\ AuthTypeOK
=============================================================================
