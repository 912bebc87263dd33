------------------------ MODULE MCMachineLifecycle -------------------------
(* Instances of MachineLifecycle for TLC.                                  *)
EXTENDS MachineLifecycle, TLC

\* No Secret is special; the Machine names any of them to begin with.
SecretSymmetry == Permutations(Secrets)
=============================================================================
