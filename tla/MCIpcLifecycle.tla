--------------------------- MODULE MCIpcLifecycle ---------------------------
(* IpcLifecycle for TLC: all of its constants are given in the cfg files.  *)
EXTENDS IpcLifecycle

=============================================================================
