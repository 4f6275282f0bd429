---------------------------- MODULE MCFileBinding ----------------------------
(* One page that opens main.tex, whose text somebody else may have open, and *)
(* that may go on to another file.                                           *)
EXTENDS FileBinding

MCSpec == BindingInit /\ [][BindingNext]_bindingVars
=============================================================================
