--------------------------- MODULE MCSftpSession ---------------------------
(* SftpSession for TLC: a host with two keys of one type and one of another. *)
EXTENDS SftpSession
MCHostKeys == {<<"rsa", 1>>, <<"rsa", 2>>, <<"ed25519", 1>>}
=============================================================================
