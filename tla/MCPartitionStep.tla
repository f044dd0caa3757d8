-------------------------- MODULE MCPartitionStep --------------------------
(* Instances of PartitionStep: the partitions are interchangeable. *)
EXTENDS PartitionStep, TLC

=============================================================================
