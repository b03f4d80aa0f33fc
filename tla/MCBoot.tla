--------------------------------- MODULE MCBoot ---------------------------------
(***************************************************************************)
(* A small instance of the deployment: instances of an old image and of a  *)
(* new one, a seed job and one with -force, over a layout of three plots.  *)
(***************************************************************************)
EXTENDS Boot, TLC

CONSTANTS old, new

MCBuild == [p \in Processes |-> IF p \in {old, 1} THEN 1 ELSE Migrations]

MCOwnerPlots == <<2, 3>>

MCAmount == [n \in Plots |-> n]
=============================================================================
