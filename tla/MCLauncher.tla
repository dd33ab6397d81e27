----------------------------- MODULE MCLauncher -----------------------------
(* A small instance: launches of run.sh one after another, with and without *)
(* servers of the scripts, and launches that overlap.                      *)
EXTENDS LauncherProperties, TLC

RunModes == {"auto", "reuse", "reload"}

SmallConfigs ==
  { [overlap |-> FALSE, scripts |-> FALSE, modes |-> RunModes, limit |-> 3],
    [overlap |-> FALSE, scripts |-> TRUE, modes |-> RunModes \cup {"node"}, limit |-> 3],
    [overlap |-> TRUE, scripts |-> FALSE, modes |-> {"auto", "reload"}, limit |-> 2] }

Symmetry == Permutations(Launches) \cup Permutations(Servers)

=============================================================================
