---------------------------- MODULE MCEventLoop ----------------------------
(* Two slots, so that a callback finds slots behind and ahead of it, and   *)
(* two nested passes.                                                      *)
EXTENDS EventLoop
=============================================================================
