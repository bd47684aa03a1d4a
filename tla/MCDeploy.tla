-------------------------------- MODULE MCDeploy --------------------------------
(* Three images: the second brings a migration, the third is broken.       *)
EXTENDS Deploy, TLC

MCImages == 1..3
MCNeed   == <<1, 2, 2>>
MCBroken == {3}

RunSymmetry == Permutations(Jobs) \cup Permutations(Runs \ Jobs)
================================================================================
