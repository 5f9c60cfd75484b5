----------------------------- MODULE MCCmdExec ------------------------------
(* Small instances of CmdExec for TLC.                                     *)
EXTENDS CmdExec
=============================================================================
