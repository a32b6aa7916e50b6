---------------------------- MODULE MCDispatcher ----------------------------
(* Instance of Dispatcher for TLC: every fault of the module. *)
EXTENDS Dispatcher
AllFaults == FaultKind
=============================================================================
