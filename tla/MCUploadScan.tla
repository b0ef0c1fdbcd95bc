---------------------------- MODULE MCUploadScan ----------------------------
(* A small instance of UploadScan.                                         *)
EXTENDS UploadScan

CONSTANTS w1, w2
=============================================================================
