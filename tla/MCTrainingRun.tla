--------------------------- MODULE MCTrainingRun ---------------------------
(* A small instance of TrainingRun, and of Alignment over it. *)
EXTENDS Alignment

At(step, fault, target) == [step |-> step, fault |-> fault, target |-> target]

(* The trace of the experiment; one B0 that is skipped; two kills; a class *)
(* that cannot be injected; a step the run never reaches.                  *)
MCTraces == {<<At(1, "B1", 2)>>,
             <<At(1, "B0", 0), At(1, "B1", 1)>>,
             <<At(1, "B1", 0), At(1, "B1", 2), At(2, "B1", 2)>>,
             <<At(1, "B1", 2), At(1, "B4", 2)>>,
             <<At(3, "B1", 2)>>}
=============================================================================
