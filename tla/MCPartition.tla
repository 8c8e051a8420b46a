----------------------------- MODULE MCPartition ----------------------------
(***************************************************************************)
(* An instance of Partition: months of two days and a prefill period of    *)
(* two days, the shortest calendar in which a plan reaches the next month, *)
(* names of both formats meet there, and the prefill period is as long as  *)
(* the shortest month.                                                     *)
(***************************************************************************)
EXTENDS Partition

MCMonthStart == <<0, 2, 5, 7>>
=============================================================================
