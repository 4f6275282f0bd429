---------------------------- MODULE MCSnapshots ----------------------------
(* Small instances of Snapshots. Jobs, sources and handlers are model values *)
(* that no action tells apart.                                               *)
EXTENDS Snapshots, TLC

CONSTANTS j1, j2, j3, a, b, h1, h2

Symmetric ==
  Permutations(Jobs) \cup Permutations(Sources) \cup Permutations(Handlers)

=============================================================================
