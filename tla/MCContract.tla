---------------------------- MODULE MCContract ------------------------------
(***************************************************************************)
(* Instances of AdmissionContract for TLC.                                 *)
(***************************************************************************)
EXTENDS MCAdmission, AdmissionContract
=============================================================================
