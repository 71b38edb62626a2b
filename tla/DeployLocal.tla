----------------------------- MODULE DeployLocal -----------------------------
(***************************************************************************)
(* What deploy() does on the user's machine: the gate, and once it has let *)
(* a script through and the secrets are recovered, the package.            *)
(***************************************************************************)
EXTENDS Gate, Package

Init == GateInit /\ PackageInit

Next ==
  \/ call # "package" /\ GateNext /\ UNCHANGED packageVars
  \/ call = "package" /\ PackageNext /\ UNCHANGED gateVars

Spec == Init /\ [][Next]_<<gateVars, packageVars>>
=============================================================================
