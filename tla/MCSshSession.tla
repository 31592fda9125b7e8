---------------------------- MODULE MCSshSession ----------------------------
(* SshSession for TLC: the window's thread, one scp, two sessions in turn. *)
EXTENDS SshSession
=============================================================================
