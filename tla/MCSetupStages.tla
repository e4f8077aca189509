---------------------------- MODULE MCSetupStages ----------------------------
(* Runs of make setup with two objects to remove; or, in a tree that is set  *)
(* up, edits and runs of make.  They share no state but the libraries, which *)
(* make finds or, by the same stages, makes.                                 *)
EXTENDS SetupStages

CONSTANTS MaxEdits, MaxErrors
VARIABLES half, turn, running, took, edits, file, old, holds, result, errors,
  edited, missed
Kernel == INSTANCE KernelBuild

ASSUME SetupAssumed == SetupAssumption
ASSUME BuildAssumed == Kernel!BuildAssumption

MCRemoved == <<"malloc", "mmap">>

buildVars == <<turn, running, took, edits, file, old, holds, result, errors,
               edited, missed>>
bothVars == <<half, vars, buildVars>>

MCInit == half \in {"setup", "make"} /\ Init /\ Kernel!BuildInit
MCNext ==
  /\ UNCHANGED half
  /\ \/ half = "setup" /\ Next /\ UNCHANGED buildVars
     \/ half = "make" /\ Kernel!BuildNext /\ UNCHANGED vars
MCSpec ==
  /\ MCInit /\ [][MCNext]_bothVars
  /\ half = "setup" => Fairness
  /\ half = "make" => Kernel!BuildFairness

\* See KernelBuild; with the types of both.
ImageCurrent == Kernel!ImageCurrent /\ Kernel!BuildTypeOK /\ TypeOK

\* Whatever failed or was killed, setup gets complete again and again; and
\* whatever failed, make clean leads to a next image.
SetupAndBuildRecover ==
  /\ half = "setup" => Recovers
  /\ half = "make" => Kernel!BuildRecovers
=============================================================================
