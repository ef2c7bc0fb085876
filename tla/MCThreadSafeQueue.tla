-------------------------- MODULE MCThreadSafeQueue --------------------------
(***************************************************************************)
(* Two threads that push and two that pop are what it takes for a signal   *)
(* to go to the wrong sleeper. hw also polls size, as HWThread does, and   *)
(* main polls size and pops, as HardwareManager::Stop does. With MaxSize = *)
(* 1 the queue is full and empty all the time.                             *)
(***************************************************************************)
EXTENDS ThreadSafeQueue
=============================================================================
