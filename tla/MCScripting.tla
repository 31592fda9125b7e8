---------------------------- MODULE MCScripting ----------------------------
(* A script and the HTTP server beside a user and a host. *)
EXTENDS Scripting
MCCommands == [t \in Threads |-> IF t = Http THEN {"line"}
                                 ELSE {"line", "Clear", "Prompt", "Recv"}]
\* Every command, for Scripting_Commands.cfg.
AllCommands == [t \in Threads |-> IF t = Http THEN {"line"}
                                  ELSE {"line", "connect", "Clear", "Prompt", "Recv", "scp", "Send", "Disp"}]
=============================================================================
