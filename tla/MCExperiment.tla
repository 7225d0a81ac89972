---------------------------- MODULE MCExperiment ----------------------------
(* Instances of Experiment for TLC: two interchangeable runs.              *)
EXTENDS Experiment, TLC
=============================================================================
