---------------------------- MODULE MCEventUpload ----------------------------
(***************************************************************************)
(* EventUpload with two channels, files of 3 blocks and 10 blocks to       *)
(* record: a message may come in the third file, when there are two files  *)
(* before it, and wait until the third is full. Two blocks are wanted      *)
(* before an event and two after it, so that the unsigned size of          *)
(* Scenario 2 wraps.                                                       *)
(***************************************************************************)
EXTENDS EventUpload
=============================================================================
