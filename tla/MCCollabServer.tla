--------------------------- MODULE MCCollabServer ---------------------------
(* Small instances of CollabServer. Pages, edits and instances are model   *)
(* values no action tells apart; documents are chosen, hence not symmetric. *)
EXTENDS CollabServer, TLC

CONSTANTS i1, i2, e1, e2, u1, u2

Symmetric ==
  Permutations(Editors) \cup Permutations(Edits) \cup Permutations(Instances)

\* Documents nobody refers to are garbage.
LiveState ==
  <<redisVars, state, trackVars, calls, wireVars, editorVars, accepted, happened,
    hooked \ Unused, [d \in Documents |-> IF d \in Unused THEN {} ELSE contents[d]]>>

=============================================================================
