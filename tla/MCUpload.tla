------------------------------ MODULE MCUpload ------------------------------
(* Instances of Upload for TLC.                                            *)
EXTENDS Upload

TwoFiles == <<2, 1>>
=============================================================================
