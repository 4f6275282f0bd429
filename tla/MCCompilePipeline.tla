------------------------- MODULE MCCompilePipeline -------------------------
(* Small instances of CompilePipeline: two paths, a main file and a figure.  *)
EXTENDS CompilePipeline, TLC

CONSTANTS j1, j2, j3, p1, main, fig, v1, v2, img, w1, w2

\* Every job belongs to the same project: the case in which they can interfere.
OneProject == [j \in Jobs |-> p1]

\* The first version has one file more than the second.
TwoVersions ==
  {main :> v1 @@ fig :> v1, main :> v2 @@ fig :> Absent}

\* A project of one file: the runs about messages and faults need no more.
OneFile == {main :> v1}

\* A project with a binary figure, and without it.
WithImage == {main :> v1 @@ fig :> img, main :> v2 @@ fig :> Absent}

=============================================================================
