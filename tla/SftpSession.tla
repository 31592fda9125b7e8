---------------------------- MODULE SftpSession ----------------------------
(***************************************************************************)
(* An sftp session: sftpHost::read logs in, asks for commands and carries  *)
(* them out, while the user may disconnect and a script's thread sends     *)
(* dropped files.  The log-in, with the check of the host's key and the    *)
(* authentication, is sshHost's and an ssh session does the same.          *)
(*                                                                         *)
(* libssh2 and the host answer as they like, and so does the user: gets()  *)
(* returns a line or, in time or at a disconnect, Null.                    *)
(***************************************************************************)
EXTENDS Integers

CONSTANTS
    HostKeys,       \* the keys a host may have, pairs of a type and a key
    Tries,          \* times gets() is called for one command: 1 + 10
    MaxSize,        \* bound: the units of a file
    MaxFiles,       \* bound: the files of one command
    MaxSessions,    \* bound: sessions in turn
    MaxDrops        \* bound: files dropped

ASSUME SftpAssumption ==
    /\ {Tries, MaxSize, MaxFiles} \subseteq Nat \ {0}
    /\ {MaxSessions, MaxDrops} \subseteq Nat

Threads == {"reader", "copier"}
Nobody == "nobody"

VARIABLES
    pc,             \* sftpHost::read
    known,          \* the keys of the host in .ssh/known_hosts
    key,            \* the key of the host, this time
    user, pass,     \* username is set; password is "none", "given" or "typed"
    tries,          \* passwords, calls of gets() or files that are left
    bRunning, mtx,
    sftp_session,   \* "none", "open" or "shut"
    x,              \* the transfer of each thread, in it or the last one
    copier,         \* send_file, in a script's thread
    sessions, drops,
    yes,            \* history: the user accepted the key in this log-in
    asked,          \* history: the user disconnected while commands were served
    misused         \* history: a call met no sftp session, after which all may happen

login == <<known, key, user, pass, yes>>
files == <<x, copier, drops>>
vars == <<pc, login, tries, bRunning, mtx, sftp_session, files, sessions, asked, misused>>

NoTransfer == [pc |-> "none", kind |-> "get", size |-> 0, left |-> 0, done |-> 0,
               cut |-> FALSE, total |-> FALSE]

TypeOK ==
    /\ pc \in {"idle", "handshake", "knownhost", "update", "add", "auth", "prompt", "init", "start",
               "loop", "gets", "lock", "sftp", "shutdown", "free"}
    /\ known \subseteq HostKeys /\ key \in HostKeys
    /\ user \in BOOLEAN /\ pass \in {"none", "given", "typed"}
    /\ tries \in Nat
    /\ {bRunning, yes, asked, misused} \subseteq BOOLEAN
    /\ mtx \in Threads \cup {Nobody}
    /\ sftp_session \in {"none", "open", "shut"}
    /\ x \in [Threads -> [pc: {"none", "open", "copy", "write", "stuck"}, kind: {"get", "put"}, size: 0..MaxSize,
                          left: 0..MaxSize, done: 0..MaxSize, cut: BOOLEAN, total: BOOLEAN]]
    /\ copier \in {"none", "lock", "send"}
    /\ sessions \in 0..MaxSessions /\ drops \in 0..MaxDrops

Init ==
    /\ pc = "idle" /\ sessions = 0
    /\ known \in SUBSET HostKeys /\ key \in HostKeys
    /\ user \in BOOLEAN /\ pass \in {"none", "given"}
    /\ tries = 0 /\ bRunning = FALSE /\ mtx = Nobody
    /\ sftp_session = "none"
    /\ x = [t \in Threads |-> NoTransfer] /\ copier = "none" /\ drops = 0
    /\ yes = FALSE /\ asked = FALSE /\ misused = FALSE

----------------------------------------------------------------------------
(* The log-in *)

\* tcp() and the handshake, in which the host shows its key.
Connect ==
    /\ pc = "idle" /\ sessions < MaxSessions
    /\ sessions' = sessions + 1
    /\ pc' = "handshake"
    /\ UNCHANGED <<login, tries, bRunning, mtx, sftp_session, files, asked, misused>>

Handshake ==
    /\ pc = "handshake"
    /\ \/ pc' = "idle" /\ UNCHANGED key
       \/ pc' = "free" /\ UNCHANGED key
       \/ pc' = "knownhost" /\ key' \in HostKeys
    /\ UNCHANGED <<known, user, pass, yes, tries, bRunning, mtx, sftp_session, files, sessions, asked, misused>>

\* knownhost_check: a match, a key of the same type, or anything else to be added.
CheckKey ==
    /\ pc = "knownhost"
    /\ \/ key \in known /\ pc' = "auth"
       \/ key \notin known /\ (\E k \in known : k[1] = key[1]) /\ pc' = "update"
       \/ key \notin known /\ (known = {} \/ \E k \in known : k[1] # key[1]) /\ pc' = "add"
    /\ UNCHANGED <<login, tries, bRunning, mtx, sftp_session, files, sessions, asked, misused>>

\* Slip: no answer is taken for a yes.
AskKey_NullIsYes ==
    /\ pc \in {"update", "add"}
    /\ \E answer \in {"null", "yes", "no"} :
          IF answer # "no"
          THEN /\ \E saved \in BOOLEAN : known' = IF saved THEN known \cup {key} ELSE known
               /\ yes' = (answer = "yes")
               /\ pc' = "auth"
          ELSE pc' = "free" /\ UNCHANGED <<known, yes>>
    /\ UNCHANGED <<key, user, pass, tries, bRunning, mtx, sftp_session, files, sessions, asked, misused>>

\* The user is asked; only a yes goes on.  The changed key goes, the new one is
\* added, and the file is written, or not.
AskKey ==
    /\ pc \in {"update", "add"}
    /\ \E answer \in {"null", "yes", "no"} :
          IF answer = "yes"
          THEN /\ \/ UNCHANGED known
                  \/ pc = "add" /\ known' = known \cup {key}
                  \/ /\ pc = "update"
                     /\ \E old \in known : old[1] = key[1] /\ known' = (known \ {old}) \cup {key}
               /\ yes' = TRUE
               /\ pc' = "auth"
          ELSE pc' = "free" /\ UNCHANGED <<known, yes>>
    /\ UNCHANGED <<key, user, pass, tries, bRunning, mtx, sftp_session, files, sessions, asked, misused>>

\* ssh_authentication's ends: with and without forgetting what it was given.
Authenticated == pc' = "init" /\ user' = FALSE /\ pass' = "none" /\ tries' = 0
Refused == pc' = "free" /\ user' = FALSE /\ pass' = "none" /\ tries' = 0
Kept(p) == pc' = p /\ UNCHANGED <<pass, tries>>

\* The name, the list of methods, a password that was given, and the public keys.
Auth ==
    /\ pc = "auth"
    /\ \/ ~user /\ Kept("free") /\ UNCHANGED user          \* no name, or an empty one
       \/ Kept("init") /\ user' = TRUE                     \* the host asks for nothing
       \/ pass = "given" /\ Kept("free") /\ user' = TRUE   \* the password is wrong
       \/ Authenticated
       \/ Refused
       \/ /\ pc' = "prompt" /\ tries' = 3
          /\ user' = TRUE /\ UNCHANGED pass
    /\ UNCHANGED <<known, key, yes, bRunning, mtx, sftp_session, files, sessions, asked, misused>>

\* Slip: the password that works is not forgotten.
TypePassword_Returns ==
    /\ pc = "prompt"
    /\ \/ pc' = "init" /\ pass' = "typed" /\ tries' = 0 /\ user' = FALSE
       \/ tries = 1 /\ Refused
       \/ tries > 1 /\ tries' = tries - 1 /\ pass' \in {pass, "typed"} /\ UNCHANGED <<pc, user>>
    /\ UNCHANGED <<known, key, yes, bRunning, mtx, sftp_session, files, sessions, asked, misused>>

\* A password, or the answers of the keyboard-interactive method, three times.
TypePassword ==
    /\ pc = "prompt"
    /\ \/ Authenticated
       \/ tries = 1 /\ Refused
       \/ tries > 1 /\ tries' = tries - 1 /\ pass' \in {pass, "typed"} /\ UNCHANGED <<pc, user>>
    /\ UNCHANGED <<known, key, yes, bRunning, mtx, sftp_session, files, sessions, asked, misused>>

InitSftp ==
    /\ pc = "init"
    /\ \/ pc' = "free" /\ UNCHANGED sftp_session
       \/ pc' = "start" /\ sftp_session' = "open"
    /\ UNCHANGED <<login, tries, bRunning, mtx, files, sessions, asked, misused>>

----------------------------------------------------------------------------
(* The commands *)

Start ==
    /\ pc = "start"
    /\ bRunning' = TRUE /\ pc' = "loop"
    /\ UNCHANGED <<login, tries, mtx, sftp_session, files, sessions, asked, misused>>

\* Slip: the session ends at "bye" and in time only.
Loop_Forever ==
    /\ pc = "loop"
    /\ pc' = "gets" /\ tries' = Tries
    /\ UNCHANGED <<login, bRunning, mtx, sftp_session, files, sessions, asked, misused>>

Loop ==
    /\ pc = "loop"
    /\ IF bRunning THEN pc' = "gets" /\ tries' = Tries ELSE pc' = "shutdown" /\ UNCHANGED tries
    /\ UNCHANGED <<login, bRunning, mtx, sftp_session, files, sessions, asked, misused>>

\* A line, or none: gets() is called again while tries are left and the session runs.
Gets ==
    /\ pc = "gets"
    /\ \/ pc' = "lock" /\ tries' = 0
       \/ tries > 1 /\ bRunning /\ tries' = tries - 1 /\ UNCHANGED pc
       \/ (tries = 1 \/ ~bRunning) /\ pc' = "shutdown" /\ tries' = 0
    /\ UNCHANGED <<login, bRunning, mtx, sftp_session, files, sessions, asked, misused>>

Lock ==
    /\ pc = "lock" /\ mtx = Nobody
    /\ mtx' = "reader" /\ pc' = "sftp"
    /\ tries' \in 0..MaxFiles
    /\ UNCHANGED <<login, bRunning, sftp_session, files, sessions, asked, misused>>

disconn ==
    /\ pc # "idle"
    /\ bRunning' = FALSE
    /\ asked' = (asked \/ pc \in {"loop", "gets", "lock", "sftp"})
    /\ UNCHANGED <<pc, login, tries, mtx, sftp_session, files, sessions, misused>>

Shutdown ==
    /\ pc = "shutdown"
    /\ sftp_session' = "shut"
    /\ user' = FALSE /\ pass' = "none"
    /\ pc' = "free"
    /\ UNCHANGED <<known, key, yes, tries, bRunning, mtx, files, sessions, asked, misused>>

Free ==
    /\ pc = "free"
    /\ pc' = "idle" /\ yes' = FALSE /\ asked' = FALSE
    /\ UNCHANGED <<known, key, user, pass, tries, bRunning, mtx, sftp_session, files, sessions, misused>>

----------------------------------------------------------------------------
(* sftp_get_one and sftp_put_one, in either thread *)

XGo(t, p) == x' = [x EXCEPT ![t].pc = p]
Calling(t) == misused' = (misused \/ sftp_session # "open")
Rest == <<pc, login, tries, bRunning, mtx, sftp_session, copier, drops, sessions, asked>>

\* A file is got or put; a pattern makes several of them.
Begin(t, kind) ==
    \E n \in 0..MaxSize :
        x' = [x EXCEPT ![t] = [NoTransfer EXCEPT !.pc = "open", !.kind = kind, !.size = n, !.left = n]]
sftp_get(t) == Begin(t, "get")
sftp_put(t) == Begin(t, "put")

\* The remote file, then the local one.
Open(t) ==
    /\ x[t].pc = "open"
    /\ XGo(t, "copy") \/ XGo(t, "none")
    /\ Calling(t)
    /\ UNCHANGED Rest

\* The end of a get: what fwrite took reaches the file, or fclose fails, which
\* nobody looks at, and some of it does not.
GetEnd(t) ==
    /\ x[t].left = 0
    /\ \/ x' = [x EXCEPT ![t].pc = "none", ![t].total = TRUE]
       \/ \E n \in 0..x[t].done :
             x' = [x EXCEPT ![t].pc = "none", ![t].total = TRUE, ![t].cut = TRUE, ![t].done = n]

\* sftp_read and fwrite: a block, the end of the file, or a failure of either.
GetBlock(t) ==
    /\ x[t].pc = "copy" /\ x[t].kind = "get"
    /\ \/ GetEnd(t)
       \/ XGo(t, "none")
       \/ x[t].left > 0 /\ x' = [x EXCEPT ![t].left = @ - 1, ![t].done = @ + 1]
    /\ Calling(t)
    /\ UNCHANGED Rest

\* fread: a block, or its end, which a failure to read looks like.
PutRead(t) ==
    /\ x[t].pc = "copy" /\ x[t].kind = "put"
    /\ \/ \E n \in 1..x[t].left : x' = [x EXCEPT ![t].pc = "write", ![t].left = @ - n]
       \/ x' = [x EXCEPT ![t].pc = "none", ![t].total = TRUE, ![t].cut = (x[t].left > 0)]
    /\ Calling(t)
    /\ UNCHANGED Rest

\* Slip: what sftp_write did not take is not written.
PutWrite_Once(t) ==
    /\ x[t].pc = "write"
    /\ \/ \E n \in 1..(x[t].size - x[t].left - x[t].done) :
             x' = [x EXCEPT ![t].done = @ + n, ![t].pc = "copy"]
       \/ XGo(t, "none")
    /\ Calling(t)
    /\ UNCHANGED Rest

\* sftp_write takes a part of the block and is called again, until it is written or
\* a call fails; while it returns 0 the loop goes round, for ever if it must.
PutWrite(t) ==
    /\ x[t].pc = "write"
    /\ \/ \E n \in 1..(x[t].size - x[t].left - x[t].done) :
             x' = [x EXCEPT ![t].done = @ + n,
                            ![t].pc = IF x[t].done + n + x[t].left = x[t].size THEN "copy" ELSE "write"]
       \/ XGo(t, "none") \/ XGo(t, "stuck")
    /\ Calling(t)
    /\ UNCHANGED Rest

Transfer(t) == Open(t) \/ GetBlock(t) \/ PutRead(t) \/ PutWrite(t)

\* sftp(): its transfers begin in turn; then, or when it is some other command, it
\* returns, and the user may have said "bye".
Command ==
    /\ pc = "sftp" /\ x["reader"].pc = "none"
    /\ \/ /\ tries > 0 /\ tries' = tries - 1
          /\ sftp_get("reader") \/ sftp_put("reader")
          /\ UNCHANGED <<pc, mtx>>
       \/ /\ tries = 0 /\ UNCHANGED tries
          /\ pc' \in {"loop", "shutdown"} /\ mtx' = Nobody
          /\ x' = [x EXCEPT !["reader"] = NoTransfer]
    /\ UNCHANGED <<login, bRunning, sftp_session, copier, drops, sessions, asked, misused>>

----------------------------------------------------------------------------
(* send_file(), for a file dropped on a terminal that is live *)

Drop ==
    /\ copier = "none" /\ pc # "idle" /\ drops < MaxDrops
    /\ copier' = "lock" /\ drops' = drops + 1
    /\ UNCHANGED <<pc, login, tries, bRunning, mtx, sftp_session, x, sessions, asked, misused>>

SendFile ==
    /\ copier = "lock" /\ mtx = Nobody
    /\ mtx' = "copier" /\ copier' = "send"
    /\ sftp_put("copier")
    /\ UNCHANGED <<pc, login, tries, bRunning, sftp_session, drops, sessions, asked, misused>>

Sent ==
    /\ copier = "send" /\ x["copier"].pc = "none"
    /\ mtx' = Nobody /\ copier' = "none"
    /\ x' = [x EXCEPT !["copier"] = NoTransfer]
    /\ UNCHANGED <<pc, login, tries, bRunning, sftp_session, drops, sessions, asked, misused>>

----------------------------------------------------------------------------
Reader ==
    \/ Handshake \/ CheckKey \/ AskKey \/ Auth \/ TypePassword \/ InitSftp \/ Start
    \/ Loop \/ Gets \/ Lock \/ Command \/ Shutdown \/ Free
Copier == SendFile \/ Sent

Next ==
    \/ Connect \/ disconn \/ Drop \/ Reader \/ Copier
    \/ \E t \in Threads : Transfer(t)

Spec == Init /\ [][Next]_vars

(* The threads are scheduled; the user and the host answer, or gets() and   *)
(* libssh2 return without an answer.                                        *)
FairSpec ==
    /\ Spec
    /\ WF_vars(Reader) /\ WF_vars(Copier)
    /\ \A t \in Threads : WF_vars(Transfer(t))

----------------------------------------------------------------------------
(* Properties *)

\* Nothing is sent to a host, no name and no password, before its key is in
\* known_hosts or the user has answered yes in this very log-in (ssh_knownhost).
KeyIsAccepted ==
    pc \in {"auth", "prompt", "init", "start", "loop", "gets", "lock", "sftp"} => key \in known \/ yes

\* A password the user typed is forgotten when the log-in is over, however it
\* ended and whoever else is served next (ssh_authentication).
TypedIsForgotten == pass = "typed" => pc = "prompt"

\* A total is printed for a file only when all of it was copied, unless the local
\* file failed where the code does not look: fread of a put, whose failure looks
\* like the end (1245), or fclose of a get (1220) (sftp_get_one, sftp_put_one).
TotalIsWhole ==
    \A t \in Threads : x[t].total => x[t].done = x[t].size \/ x[t].cut

\* A session the user disconnects while commands are served ends, whatever the
\* user goes on typing, once a transfer that is going on is done; a write to which
\* libssh2 answers 0 for ever never is (1249-1250).
Stuck == \E t \in Threads : x[t].pc = "stuck"
DisconnectEnds == asked ~> pc = "idle" \/ misused \/ Stuck

\* run_script() sends dropped files "connected and files dropped": a call that
\* sends one meets an open session.
DropMeetsSession == ~misused
=============================================================================
