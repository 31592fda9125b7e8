----------------------------- MODULE Scripting -----------------------------
(***************************************************************************)
(* Commands and their replies.  A dropped script or list of files gets a   *)
(* thread, an HTTP request runs in the server's thread, and all of them    *)
(* call Fl_Term::command, which sends a line to the host and polls until   *)
(* append(), in the reader, finds a prompt.  They share recv0, bPrompt and *)
(* the text with each other and with the user, without a lock.             *)
(***************************************************************************)
EXTENDS Integers, Sequences, SequencesExt

CONSTANTS
    Scripts,    \* script threads the window may start, each once
    Http,       \* the thread of the HTTP server
    Commands,   \* the commands a thread may give
    TimeOut,    \* polls without output after which a wait ends: iTimeOut*10
    PacketLen,  \* the most of a reply one send() is given: 8192
    Todo,       \* commands, or files, of a script
    MaxLines,   \* bound: lines the host answers
    MaxActs,    \* bound: what the user, and the end of the session, do
    MaxText     \* bound: what scripts, the host and the user put into the text

ASSUME ScriptingAssumption ==
    /\ Http \notin Scripts /\ "nobody" \notin Scripts \cup {Http}
    /\ Commands \in [Scripts \cup {Http} -> SUBSET {"line", "Send", "Recv", "Disp", "Clear",
                                                   "Prompt", "scp", "connect"}]
    /\ {TimeOut, PacketLen, Todo, MaxLines, MaxActs, MaxText} \subseteq Nat \ {0}

Threads == Scripts \cup {Http}

VARIABLES
    live,           \* host->live()
    text,           \* the scroll back buffer; cursor_x is its length
    owed,           \* what the host has yet to say
    lines,          \* lines the host was sent and answers
    recv0, bPrompt, \* as in Fl_Term
    sPrompt,        \* what is taken for a prompt: the "prompt", or some other "out"put
    bScriptRun, bScriptPause,
    th,             \* the threads, in command() or around it
    acts,           \* what the user has done
    alone,          \* history: the thread whose command nothing has disturbed
    said,           \* history: what that command has put into the text
    quit,           \* history: scripts the user quit, until one is started
    late            \* history: commands and files they have begun since

term == <<live, text, owed, lines, recv0, bPrompt, sPrompt>>
history == <<alone, said>>
quits == <<quit, late>>
vars == <<term, bScriptRun, bScriptPause, th, acts, history, quits>>

Nobody == "nobody"
Said == {"out", "prompt"}
cursor_x == Len(text)

\* The commands that wait for a prompt.
Asks == {"line", "connect", "scp"}

Pcs == {"none", "start", "loop", "run", "next", "end", "mark", "recv0", "act", "wait", "reply",
        "recv", "done", "body", "over"}

TypeOK ==
    /\ live \in BOOLEAN
    /\ text \in Seq(Said) /\ owed \in Seq(Said)
    /\ lines \in 0..MaxLines /\ acts \in 0..MaxActs
    /\ recv0 \in 0..MaxText
    /\ {bPrompt, bScriptRun, bScriptPause} \subseteq BOOLEAN
    /\ sPrompt \in {"prompt", "out"}
    /\ th \in [Threads -> [pc: Pcs, files: BOOLEAN, todo: 0..Todo, cmd: Asks \cup {"Send", "Disp", ""},
                           oldlen: 0..MaxText, silent: 0..TimeOut, timedout: BOOLEAN,
                           reply: 0..(2 * MaxText), len: 0..MaxText, rc: -MaxText..MaxText]]
    /\ alone \in Threads \cup {Nobody} /\ said \in Seq(Said)
    /\ quit \subseteq Scripts /\ late \in [Scripts -> 0..Todo]

Idle == [pc |-> "none", files |-> FALSE, todo |-> 0, cmd |-> "",
         oldlen |-> 0, silent |-> 0, timedout |-> FALSE, reply |-> 0, len |-> 0, rc |-> 0]

Init ==
    /\ live \in BOOLEAN
    /\ text = <<>> /\ owed = <<>> /\ lines = 0
    /\ recv0 = 0 /\ bPrompt = TRUE /\ sPrompt = "prompt"
    /\ bScriptRun = FALSE /\ bScriptPause = FALSE
    /\ th = [t \in Threads |-> Idle]
    /\ acts = 0 /\ alone = Nobody /\ said = <<>>
    /\ quit = {} /\ late = [t \in Scripts |-> 0]

----------------------------------------------------------------------------
(* The host and the reader *)

\* What a line makes a host say.
Answer == <<"out", "prompt">>

\* The text is appended to, and with it what the command alone has put there.
Add(items) ==
    /\ cursor_x + Len(items) <= MaxText
    /\ text' = text \o items
    /\ said' = IF alone' = Nobody THEN <<>> ELSE said \o items

\* What is sent to a host that is live; after MaxLines lines it falls silent.
Tell(answer) ==
    IF live' /\ lines < MaxLines
    THEN lines' = lines + 1 /\ owed' = owed \o answer
    ELSE UNCHANGED <<lines, owed>>

Acts == acts < MaxActs /\ acts' = acts + 1

NobodyAlone == alone' = Nobody /\ said' = <<>>

\* append(): the reader may get the text in any parts; a prompt is looked for at
\* the end of each.
HostSays ==
    \E n \in 1..Len(owed) :
        /\ UNCHANGED alone
        /\ Add(SubSeq(owed, 1, n))
        /\ owed' = SubSeq(owed, n + 1, Len(owed))
        /\ bPrompt' = (bPrompt \/ owed[n] = sPrompt)
        /\ UNCHANGED <<live, lines, recv0, sPrompt, bScriptRun, bScriptPause, th, acts, quits>>

\* The session ends; what the host has not said is lost.
HostEnds ==
    /\ Acts
    /\ live
    /\ live' = FALSE /\ owed' = <<>> /\ NobodyAlone
    /\ UNCHANGED <<text, lines, recv0, bPrompt, sPrompt, bScriptRun, bScriptPause, th, quits>>

\* The user types a line.
Type ==
    /\ Acts
    /\ live /\ UNCHANGED live
    /\ Tell(Answer)
    /\ NobodyAlone
    /\ UNCHANGED <<text, recv0, bPrompt, sPrompt, bScriptRun, bScriptPause, th, quits>>

----------------------------------------------------------------------------
(* Fl_Term::command *)

At(t, pc) == th[t].pc = pc
Go(t, pc) == th' = [th EXCEPT ![t].pc = pc]
InCommand(t) == th[t].pc \in {"mark", "recv0", "act", "wait", "reply", "recv"}

\* A thread that does something others may notice is alone afterwards only if it
\* was before.
Disturbs(t) == IF alone = t THEN UNCHANGED history ELSE NobodyAlone

\* The command is over: what comes now is not its own.
Leaves(t) == IF alone = t THEN NobodyAlone ELSE UNCHANGED history

\* The branches of command() that return at once.
DoDisp(t) ==        \* a line when not live
    /\ alone' = Nobody /\ Add(<<"out">>)
    /\ Go(t, "done")
    /\ UNCHANGED <<live, owed, lines, recv0, bPrompt, sPrompt>>

clear(t) ==
    /\ text' = <<>> /\ recv0' = 0 /\ bPrompt' = TRUE
    /\ Go(t, "done") /\ NobodyAlone
    /\ UNCHANGED <<live, owed, lines, sPrompt>>

learn_prompt(t) ==
    /\ sPrompt' = IF cursor_x > 0 THEN Last(text) ELSE sPrompt
    /\ Go(t, "done") /\ NobodyAlone
    /\ UNCHANGED <<live, text, owed, lines, recv0, bPrompt>>

\* "!Recv": the reply is what came since the last mark, and a mark is set after it.
Recv(t) ==
    /\ th' = [th EXCEPT ![t].pc = "recv", ![t].reply = recv0, ![t].rc = cursor_x - recv0]
    /\ UNCHANGED <<term, history>>

\* Where a command begins.  A command to a host is alone when the host owes
\* nothing and no other thread is in one.
Begin(t, c) ==
    CASE c = "line" /\ ~live   -> DoDisp(t)
      [] c = "connect" /\ live -> Go(t, "done") /\ UNCHANGED <<term, history>>
      [] c = "Clear"  -> clear(t)
      [] c = "Prompt" -> learn_prompt(t)
      [] c = "Recv"   -> Recv(t)
      [] OTHER ->
            /\ th' = [th EXCEPT ![t].pc = "mark", ![t].cmd = c, ![t].timedout = FALSE]
            /\ alone' = IF owed = <<>> /\ \A u \in Threads \ {t} : ~InCommand(u)
                        THEN t ELSE Nobody
            /\ said' = <<>>
            /\ UNCHANGED term

\* mark_prompt(), its two statements.
Mark(t) ==
    /\ At(t, "mark")
    /\ bPrompt' = FALSE
    /\ Go(t, "recv0") /\ Disturbs(t)
    /\ UNCHANGED <<live, text, owed, lines, recv0, sPrompt, bScriptRun, bScriptPause, acts, quits>>

\* Slip: the mark is left where it was.
MarkRecv0_Forgotten(t) ==
    /\ At(t, "recv0")
    /\ Go(t, "act") /\ Disturbs(t)
    /\ UNCHANGED <<term, bScriptRun, bScriptPause, acts, quits>>

MarkRecv0(t) ==
    /\ At(t, "recv0")
    /\ recv0' = cursor_x
    /\ Go(t, "act") /\ Disturbs(t)
    /\ UNCHANGED <<live, text, owed, lines, bPrompt, sPrompt, bScriptRun, bScriptPause, acts, quits>>

\* What follows the mark.  A '\r' to a host that is gone connects again; "!scp"
\* prints, and ends with a '\r'; "!Send" sends without one.
Act(t) ==
    /\ At(t, "act")
    /\ LET c == th[t].cmd
           waits == [th EXCEPT ![t].pc = "wait", ![t].oldlen = recv0,
                               ![t].reply = IF c = "line" THEN 0 ELSE recv0]
           answer == CASE c = "scp" -> <<"prompt">> [] c = "Send" -> <<"out">> [] OTHER -> Answer
       IN  /\ alone' = IF alone = t THEN t ELSE Nobody
           /\ IF c \in {"scp", "Disp"}
              THEN Add(<<"out">>)
              ELSE said' = (IF alone = t THEN said ELSE <<>>) /\ UNCHANGED text
           /\ live' = (live \/ c \in {"line", "connect"})
           /\ IF c = "Disp" THEN UNCHANGED <<lines, owed>> ELSE Tell(answer)
           /\ IF c \in Asks THEN th' = waits ELSE Go(t, "done")
    /\ UNCHANGED <<recv0, bPrompt, sPrompt, bScriptRun, bScriptPause, acts, quits>>

\* Slip: the time is not looked at.
Poll_NoTimeOut(t) ==
    /\ At(t, "wait") /\ ~bPrompt
    /\ th' = [th EXCEPT ![t].silent = IF cursor_x > th[t].oldlen THEN 1 ELSE @ + 1,
                        ![t].oldlen = IF cursor_x > @ THEN cursor_x ELSE @]
    /\ UNCHANGED <<term, bScriptRun, bScriptPause, acts, history, quits>>

\* Slip: any text since the command began counts as new.
Poll_SinceMark(t) ==
    /\ At(t, "wait") /\ ~bPrompt /\ th[t].silent < TimeOut
    /\ th' = [th EXCEPT ![t].silent = IF cursor_x > th[t].oldlen THEN 1 ELSE @ + 1]
    /\ UNCHANGED <<term, bScriptRun, bScriptPause, acts, history, quits>>

\* waitfor_prompt(): 100 ms without a prompt; output starts the count again.
Poll(t) ==
    /\ At(t, "wait") /\ ~bPrompt /\ th[t].silent < TimeOut
    /\ th' = [th EXCEPT ![t].silent = IF cursor_x > th[t].oldlen THEN 1 ELSE @ + 1,
                        ![t].oldlen = IF cursor_x > @ THEN cursor_x ELSE @]
    /\ UNCHANGED <<term, bScriptRun, bScriptPause, acts, history, quits>>

\* The wait ends, with a prompt or without.
Waited(t) ==
    /\ At(t, "wait") /\ (bPrompt \/ th[t].silent = TimeOut)
    /\ th' = [th EXCEPT ![t].pc = IF th[t].cmd = "line" THEN "reply" ELSE "done",
                        ![t].timedout = ~bPrompt, ![t].rc = cursor_x - recv0,
                        ![t].oldlen = 0, ![t].silent = 0]
    /\ bPrompt' = TRUE
    /\ Disturbs(t)
    /\ UNCHANGED <<live, text, owed, lines, recv0, sPrompt, bScriptRun, bScriptPause, acts, quits>>

\* *preply = buff+recv0, after the wait.
Reply(t) ==
    /\ At(t, "reply")
    /\ th' = [th EXCEPT ![t].pc = "done", ![t].reply = recv0]
    /\ UNCHANGED <<term, bScriptRun, bScriptPause, acts, history, quits>>

\* "!Recv" sets its mark.
RecvMark(t) ==
    /\ At(t, "recv")
    /\ recv0' = cursor_x
    /\ Go(t, "done") /\ Disturbs(t)
    /\ UNCHANGED <<live, text, owed, lines, bPrompt, sPrompt, bScriptRun, bScriptPause, acts, quits>>

command(t) ==
    Mark(t) \/ MarkRecv0(t) \/ Act(t) \/ Poll(t) \/ Waited(t) \/ Reply(t) \/ RecvMark(t)

----------------------------------------------------------------------------
(* Scripts *)

\* run_script(): refused while bScriptRun; files only when live.
run_script(t, files) ==
    /\ At(t, "none") /\ ~bScriptRun
    /\ files => live
    /\ th' = [th EXCEPT ![t] = [Idle EXCEPT !.pc = "start", !.files = files, !.todo = Todo]]
    /\ sPrompt' = IF live /\ cursor_x > 0 THEN Last(text) ELSE sPrompt
    /\ NobodyAlone
    /\ UNCHANGED <<live, text, owed, lines, recv0, bPrompt, bScriptRun, bScriptPause, acts, quits>>

\* The thread starts: copier() asks an ssh host for its directory first.
StartScript(t) ==
    /\ At(t, "start")
    /\ bScriptRun' = TRUE /\ bScriptPause' = FALSE
    /\ \/ th[t].files /\ Begin(t, "line")
       \/ Go(t, "loop") /\ UNCHANGED <<term, history>>
    /\ quit' = {} /\ late' = [u \in Scripts |-> 0]
    /\ UNCHANGED acts

\* Slip: only the end of a script stops it.
TestRun_AfterQuit(t) ==
    /\ At(t, "loop")
    /\ Go(t, IF th[t].todo > 0 THEN "run" ELSE "end")
    /\ UNCHANGED <<term, bScriptRun, bScriptPause, acts, history, quits>>

\* The loop of scripter() and of copier() tests bScriptRun, and then bScriptPause.
TestRun(t) ==
    /\ At(t, "loop")
    /\ Go(t, IF bScriptRun /\ th[t].todo > 0 THEN "run" ELSE "end")
    /\ UNCHANGED <<term, bScriptRun, bScriptPause, acts, history, quits>>

\* Slip: it sleeps until it is resumed.
TestPause_Sleeps(t) ==
    /\ At(t, "run") /\ ~bScriptPause
    /\ Go(t, "next")
    /\ UNCHANGED <<term, bScriptRun, bScriptPause, acts, history, quits>>

TestPause(t) ==
    /\ At(t, "run")
    /\ Go(t, IF bScriptPause THEN "loop" ELSE "next")
    /\ UNCHANGED <<term, bScriptRun, bScriptPause, acts, history, quits>>

\* The next command, or the next file, whatever has been quit since the tests.
NextCommand(t) ==
    /\ At(t, "next")
    /\ IF th[t].files
       THEN /\ alone' = Nobody /\ Add(<<"out">>)
            /\ th' = [th EXCEPT ![t].pc = "loop", ![t].todo = @ - 1]
            /\ UNCHANGED <<live, owed, lines, recv0, bPrompt, sPrompt>>
       ELSE \E c \in Commands[t] : Begin(t, c)
    /\ late' = [late EXCEPT ![t] = IF t \in quit THEN @ + 1 ELSE @]
    /\ UNCHANGED <<bScriptRun, bScriptPause, acts, quit>>

CommandDone(t) ==
    /\ At(t, "done")
    /\ th' = [th EXCEPT ![t] = [Idle EXCEPT !.pc = "loop", !.files = th[t].files,
                                  !.todo = IF th[t].files THEN th[t].todo ELSE th[t].todo - 1]]
    /\ Leaves(t)
    /\ UNCHANGED <<term, bScriptRun, bScriptPause, acts, quits>>

\* The end of the script, or of the script that was quit, stops every other one;
\* copier() asks for a prompt.
EndScript(t) ==
    /\ At(t, "end")
    /\ bScriptRun' = FALSE /\ bScriptPause' = FALSE /\ UNCHANGED live
    /\ IF th[t].files THEN Tell(<<"prompt">>) ELSE UNCHANGED <<lines, owed>>
    /\ th' = [th EXCEPT ![t] = [Idle EXCEPT !.pc = "over"]]
    /\ quit' = quit \ {t} /\ late' = [late EXCEPT ![t] = 0]
    /\ Disturbs(t)
    /\ UNCHANGED <<text, recv0, bPrompt, sPrompt, acts>>

quit_script ==
    /\ Acts
    /\ bScriptRun' = FALSE /\ bScriptPause' = FALSE
    /\ quit' = {t \in Scripts : th[t].pc \notin {"none", "start", "over"}}
    /\ UNCHANGED <<term, th, history, late>>

pause_script ==
    /\ Acts
    /\ bScriptPause' = ~bScriptPause
    /\ UNCHANGED <<term, bScriptRun, th, history, quits>>

\* The menu's Clear.
UserClears ==
    /\ Acts
    /\ text' = <<>> /\ recv0' = 0 /\ bPrompt' = TRUE
    /\ NobodyAlone
    /\ UNCHANGED <<live, owed, lines, sPrompt, bScriptRun, bScriptPause, th, quits>>

----------------------------------------------------------------------------
(* httpd() *)

Request ==
    /\ At(Http, "none")
    /\ \E c \in Commands[Http] : Begin(Http, c)
    /\ UNCHANGED <<bScriptRun, bScriptPause, acts, quits>>

Header ==
    /\ At(Http, "done")
    /\ th' = [th EXCEPT ![Http] = [Idle EXCEPT !.pc = "body", !.reply = th[Http].reply, !.rc = th[Http].rc]]
    /\ Leaves(Http)
    /\ UNCHANGED <<term, bScriptRun, bScriptPause, acts, quits>>

\* send(reply+len, ...) and reply += len: len is what the last send() took, of a
\* packet any part.  It fails when the client is gone.  Bound: one request.
Packet ==
    /\ At(Http, "body")
    /\ LET r == th[Http]
       IN  \/ \E n \in 1..(IF r.rc > PacketLen THEN PacketLen ELSE r.rc) :
                th' = [th EXCEPT ![Http].len = n, ![Http].reply = @ + n, ![Http].rc = @ - n]
           \/ th' = [th EXCEPT ![Http] = [Idle EXCEPT !.pc = "over"]]
    /\ UNCHANGED <<term, bScriptRun, bScriptPause, acts, history, quits>>

----------------------------------------------------------------------------
Script(t) == \/ StartScript(t) \/ TestRun(t) \/ TestPause(t) \/ NextCommand(t)
             \/ CommandDone(t) \/ EndScript(t) \/ command(t)
Server == Header \/ Packet \/ command(Http)
User == Type \/ UserClears \/ quit_script \/ pause_script
        \/ \E t \in Scripts, files \in BOOLEAN : run_script(t, files)

Next ==
    \/ HostSays \/ HostEnds \/ User
    \/ \E t \in Scripts : Script(t)
    \/ Request \/ Server

Spec == Init /\ [][Next]_vars

(* Threads are scheduled.  Nothing is assumed of the host or of the user, nor *)
(* of the HTTP client, which may ask for nothing.                             *)
FairSpec ==
    /\ Spec
    /\ \A t \in Scripts : WF_vars(Script(t))
    /\ WF_vars(Server)

----------------------------------------------------------------------------
(* Properties *)

Got(t) == SubSeq(text, th[t].reply + 1, th[t].reply + th[t].rc)

\* A command that nothing disturbs, of a script or of an HTTP client, gets what the
\* host said to it, from the first item on, and all of it when the wait ended with
\* the host's prompt (1133-1156).
ReplyIsOwn ==
    \A t \in Threads :
        alone = t /\ At(t, "done") /\ th[t].cmd \in Asks =>
            /\ IsPrefix(Got(t), said)
            /\ ~th[t].timedout /\ sPrompt = "prompt" =>
                   /\ Got(t) = said /\ Last(said) = "prompt"
                   /\ owed = <<>>

\* "CGI request": the reply is sent without a hole.  A packet starts at reply+len,
\* and what has not been sent at reply (tiny2.cxx 1025-1031).
PacketsJoin == At(Http, "body") /\ th[Http].rc > 0 => th[Http].len = 0

\* "another script is still running": run_script() refuses a second one (1366).
OneScriptRuns ==
    \A t, u \in Scripts :
        {th[t].pc, th[u].pc} \cap {"none", "start", "over"} = {} => t = u

\* A script the user quits may begin the one command or file whose tests it had
\* passed, and no other, until some script is started, which sets bScriptRun for
\* all of them (1327-1336, 1349-1357, 1402).
QuitStops == \A t \in quit : late[t] <= 1

\* A script the user quits ends, although it waits or is paused, and whatever the
\* user pauses again or types, or the host says, meanwhile, unless a script is
\* started.  A text that is full, the bound, may hold a script up.
QuitEnds == \A t \in Scripts : t \in quit ~> t \notin quit \/ cursor_x = MaxText

\* The wait for a prompt ends, however little the host says and whoever else
\* waits; the bounds keep the host from talking for ever (waitfor_prompt).
WaitsEnd ==
    \A t \in Threads : At(t, "wait") ~> ~At(t, "wait")
=============================================================================
