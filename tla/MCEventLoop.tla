----------------------------- MODULE MCEventLoop ------------------------------
(* EventLoop for TLC; the .cfg files give the constants their values. *)
EXTENDS EventLoop

=============================================================================
