---------------------------- MODULE MCUploadPool ----------------------------
(***************************************************************************)
(* Two threads, and a queue of four that three tasks and the nulls of the  *)
(* destructor overfill: the MQTT and the main thread block in push. The    *)
(* window is smaller than what libcurl asks for, so a read has to be cut.  *)
(***************************************************************************)
EXTENDS UploadPool
=============================================================================
