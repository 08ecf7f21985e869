-------------------------- MODULE MCCompositionRun --------------------------
(* Two specs: a lone template, then a template whose two dependencies are a  *)
(* template and a group.                                                     *)
EXTENDS CompositionRun

MCSpecOf == <<1, 2, 2, 2>>
=============================================================================
