----------------------------- MODULE NetConfig -----------------------------
(***************************************************************************)
(* What the privileged helper promises about a request that concerns one   *)
(* interface, as the rest of NetCheck may rely on it: "backup with         *)
(* automatic rollback" (compliance/privileged-channel.md).  The saved      *)
(* configuration changes all at once or not at all, at the moment of the   *)
(* answer; only a request that was answered with success, or whose helper  *)
(* died or hit a disk error, changes it.                                   *)
(***************************************************************************)
CONSTANTS Ifaces,   \* the network interfaces
          Texts     \* what the .network file of an interface may be

VARIABLES config,   \* interface -> the saved configuration
          answer    \* of the last request

Answers == {"none", "ok", "failed", "unknown"}

Init == config \in [Ifaces -> Texts] /\ answer = "none"

\* A request is taken up.
Take == answer' = "none" /\ UNCHANGED config

\* A request that changes the file of one interface, or none, has succeeded.
Succeed ==
  /\ answer' = "ok"
  /\ \/ UNCHANGED config
     \/ \E i \in Ifaces, v \in Texts : config' = [config EXCEPT ![i] = v]

\* A request was refused, or failed and was rolled back.
Fail == answer' = "failed" /\ UNCHANGED config

\* The helper died or met a disk error: one file is in doubt, the others are not.
Doubt ==
  /\ answer' = "unknown"
  /\ \/ UNCHANGED config
     \/ \E i \in Ifaces, v \in Texts : config' = [config EXCEPT ![i] = v]

Next == Take \/ Succeed \/ Fail \/ Doubt

Spec == Init /\ [][Next]_<<config, answer>>
============================================================================
