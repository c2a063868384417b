---------------------------- MODULE MCControlsB ----------------------------
(* Finite instances of ControlsB. *)
EXTENDS ControlsB

MCRuns      == 1..2
OneRun      == 1..1
MCBackfills == { << 1, 2 >> }
NoBackfills == {}

(* The tables of a task are treated alike: recon has its two, one table of
   supply_ops stands for all it writes. *)
MCTables    == [t \in Work |-> IF t = "recon" THEN 2 ELSE 1]
=============================================================================
