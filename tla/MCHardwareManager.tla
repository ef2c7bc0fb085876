------------------------- MODULE MCHardwareManager -------------------------
(***************************************************************************)
(* HardwareManager with a ring of 2 or 3 buffers instead of 494, files of  *)
(* 1 or 2 blocks instead of 19382, and 1 or 2 channels instead of 4: the   *)
(* ring wraps, the queue fills up and files break several times within the *)
(* MaxBlocks blocks the FPGA fills.                                        *)
(***************************************************************************)
EXTENDS HardwareManager
=============================================================================
