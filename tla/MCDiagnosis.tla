---------------------------- MODULE MCDiagnosis ----------------------------
(* Diagnosis with three jobs, of which two get a thread, three checks, and a *)
(* report from before the service was started.                              *)
EXTENDS Diagnosis

McStored == <<0>>
=============================================================================
