------------------------------ MODULE MCHcqExecution ------------------------------
(* The lanes run every plan of MCHcqPlans.                                     *)
EXTENDS MCHcqPlans, HcqExecution

=================================================================================
