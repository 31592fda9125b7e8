-------------------------- MODULE Scripting_proofs --------------------------
(***************************************************************************)
(* The reply to a command that nothing disturbs is what the host said to   *)
(* it, for a script and for a client of the HTTP server, with any number   *)
(* of threads beside it; and a script that was quit begins at most the one *)
(* command whose tests it had passed, with any number of scripts.          *)
(*                                                                         *)
(* Own says what such a command has established where it stands: before    *)
(* its line is sent nobody is owed anything; from then on the text behind  *)
(* the mark is the part of the one answer that was said, and the rest is   *)
(* owed; a prompt can only be the end of it.  What others do either leaves *)
(* all of that alone or ends the claim.  Quits says where a script that    *)
(* was quit can stand: bScriptRun stays FALSE while one is, and the one    *)
(* command it may still begin takes it past the tests.                     *)
(***************************************************************************)
EXTENDS Scripting, SequenceTheorems, TLAPS

\* What th holds of a thread.
Thread == [pc: Pcs, files: BOOLEAN, todo: 0..Todo, cmd: Asks \cup {"Send", "Disp", ""},
           oldlen: 0..MaxText, silent: 0..TimeOut, timedout: BOOLEAN,
           reply: 0..(2 * MaxText), len: 0..MaxText, rc: -MaxText..MaxText]

\* The same without the values, which do not matter where a record is changed.
Record(U) == [pc: U, files: U, todo: U, cmd: U, oldlen: U, silent: U,
              timedout: U, reply: U, len: U, rc: U]
Form == \E U : th \in [Threads -> Record(U)]

Values(u) ==
    /\ th[u].pc \in Pcs /\ th[u].files \in BOOLEAN /\ th[u].todo \in 0..Todo
    /\ th[u].cmd \in Asks \cup {"Send", "Disp", ""} /\ th[u].oldlen \in 0..MaxText
    /\ th[u].silent \in 0..TimeOut /\ th[u].timedout \in BOOLEAN
    /\ th[u].reply \in 0..(2 * MaxText) /\ th[u].len \in 0..MaxText
    /\ th[u].rc \in -MaxText..MaxText

\* Where a thread has no command.
Outside == {"none", "start", "loop", "run", "next", "end", "body", "over"}

\* How the values of a thread fit its pc: it has a command only while it is in
\* one, of a script there is one more to do, and its reply ends within bounds.
Fit(t, pc, files, todo, cmd, reply, rc) ==
    /\ pc \in Outside \cup {"recv"} => cmd = ""
    /\ pc # "body" => reply <= MaxText
    /\ rc > 0 => reply + rc <= 2 * MaxText
    /\ t \in Scripts =>
          /\ pc \notin Outside => files \/ todo > 0
          /\ pc \in {"run", "next"} => todo > 0

ThreadsTyped ==
    /\ Form
    /\ \A u \in Threads :
          /\ Values(u)
          /\ Fit(u, th[u].pc, th[u].files, th[u].todo, th[u].cmd, th[u].reply, th[u].rc)

TermTyped ==
    /\ live \in BOOLEAN /\ bPrompt \in BOOLEAN /\ sPrompt \in Said
    /\ text \in Seq(Said) /\ Len(text) <= MaxText /\ owed \in Seq(Said)
    /\ lines \in 0..MaxLines /\ recv0 \in 0..MaxText

HistoryTyped == alone \in Threads \cup {Nobody} /\ said \in Seq(Said)

ScriptsTyped == bScriptRun \in BOOLEAN /\ bScriptPause \in BOOLEAN /\ acts \in 0..MaxActs

Typed == ThreadsTyped /\ TermTyped /\ HistoryTyped /\ ScriptsTyped

\* The host has said all of an answer, and the prompt was its end.
Answered == owed = <<>> /\ said # <<>> /\ Last(said) = "prompt"

\* What is owed is the end of one answer: a prompt is the last of it.
Owes ==
    /\ \A i \in 1..Len(owed) : owed[i] = "prompt" => i = Len(owed)
    /\ Len(said) + Len(owed) <= Len(Answer)

\* The text from the mark on is what the command has been told.
Marked == Len(text) = recv0 + Len(said) /\ \A i \in 1..Len(said) : text[recv0 + i] = said[i]

\* What t takes for its reply: the first part of it, all of it after a prompt.
Taken(t, n) ==
    /\ n \in 0..Len(said)
    /\ ~th[t].timedout /\ sPrompt = "prompt" => n = Len(said) /\ Answered

\* The command of t, in which nothing has disturbed it.
Own(t) ==
    /\ th[t].pc \in {"mark", "recv0", "act", "wait", "reply", "done"}
    /\ th[t].pc \in {"mark", "recv0", "act"} => owed = <<>> /\ said = <<>>
    /\ th[t].pc \in {"recv0", "act"} => ~bPrompt
    /\ th[t].pc = "act" => recv0 = cursor_x
    /\ th[t].pc \in {"wait", "reply", "done"} => Owes /\ Marked
    /\ th[t].pc = "wait" =>
          /\ bPrompt /\ sPrompt = "prompt" => Answered
          /\ th[t].cmd # "line" => th[t].reply = recv0
    /\ th[t].pc \in {"reply", "done"} => Taken(t, th[t].rc)
    /\ th[t].pc = "done" => th[t].reply = recv0

OwnCommand == \A t \in Threads : alone = t /\ th[t].cmd \in Asks => Own(t)

\* A script that was quit, and what it has begun since: bScriptRun, when it is
\* tested, ends it, and only one that was past the test has begun anything.
Quit(t) ==
    /\ t \in quit => ~bScriptRun /\ th[t].pc \notin {"none", "start", "over"}
    /\ late[t] = 1 => t \in quit /\ th[t].pc \notin {"run", "next"}

Quits ==
    /\ quit \subseteq Scripts /\ late \in [Scripts -> {0, 1}]
    /\ \A t \in Scripts : Quit(t)

IInv == Typed /\ OwnCommand /\ Quits

----------------------------------------------------------------------------
(* What a thread becomes *)

\* The step gives t these values and leaves the others alone.
Becomes(t, pc, files, todo, cmd, oldlen, silent, timedout, reply, len, rc) ==
    /\ Form'
    /\ th'[t].pc = pc /\ th'[t].files = files /\ th'[t].todo = todo /\ th'[t].cmd = cmd
    /\ th'[t].oldlen = oldlen /\ th'[t].silent = silent /\ th'[t].timedout = timedout
    /\ th'[t].reply = reply /\ th'[t].len = len /\ th'[t].rc = rc
    /\ \A u \in Threads \ {t} : th'[u] = th[u]

LEMMA Numbers ==
    /\ TimeOut \in Nat /\ TimeOut > 0 /\ PacketLen \in Nat /\ PacketLen > 0
    /\ Todo \in Nat /\ Todo > 0 /\ MaxLines \in Nat /\ MaxLines > 0
    /\ MaxActs \in Nat /\ MaxActs > 0 /\ MaxText \in Nat /\ MaxText > 0
BY ScriptingAssumption

LEMMA ThreadValues ==
    ASSUME th \in [Threads -> Thread]
    PROVE  Form /\ \A u \in Threads : Values(u)
<1> DEFINE U == UNION {Pcs, BOOLEAN, 0..Todo, Asks \cup {"Send", "Disp", ""}, 0..MaxText,
                       0..TimeOut, 0..(2 * MaxText), -MaxText..MaxText}
<1>1. th \in [Threads -> Thread]
  OBVIOUS
<1>2. Thread \subseteq Record(U)
  BY Zenon DEF Thread, Record
<1>3. ASSUME NEW u \in Threads PROVE Values(u)
  <2>1. th[u] \in Thread
    BY <1>1, <1>3
  <2> QED BY <2>1, Zenon DEF Thread, Values
<1> HIDE DEF U
<1> QED BY <1>1, <1>2, <1>3 DEF Form

LEMMA ThreadTyped ==
    ASSUME Form, \A u \in Threads : Values(u)
    PROVE  th \in [Threads -> Thread]
<1>1. PICK U : th \in [Threads -> Record(U)]
  BY DEF Form
<1>2. ASSUME NEW u \in Threads PROVE th[u] \in Thread
  <2>1. th[u] = [pc |-> th[u].pc, files |-> th[u].files, todo |-> th[u].todo, cmd |-> th[u].cmd,
                 oldlen |-> th[u].oldlen, silent |-> th[u].silent, timedout |-> th[u].timedout,
                 reply |-> th[u].reply, len |-> th[u].len, rc |-> th[u].rc]
    BY <1>1 DEF Record
  <2>2. Values(u)
    BY <1>2
  <2> QED BY <2>1, <2>2, Zenon DEF Thread, Values
<1> QED BY <1>1, <1>2

\* Whatever values a thread is given, the threads keep their form.
LEMMA Given ==
    ASSUME Form, NEW t \in Threads,
           NEW p, NEW f, NEW d, NEW c, NEW o, NEW s, NEW m, NEW r, NEW l, NEW n,
           th' = [th EXCEPT ![t] = [pc |-> p, files |-> f, todo |-> d, cmd |-> c, oldlen |-> o,
                                    silent |-> s, timedout |-> m, reply |-> r, len |-> l, rc |-> n]]
    PROVE  Becomes(t, p, f, d, c, o, s, m, r, l, n)
<1>1. PICK U : th \in [Threads -> Record(U)]
  BY DEF Form
<1> DEFINE V == U \cup {p, f, d, c, o, s, m, r, l, n}
<1>2. th \in [Threads -> Record(V)]
  BY <1>1 DEF Record
<1>3. [pc |-> p, files |-> f, todo |-> d, cmd |-> c, oldlen |-> o,
       silent |-> s, timedout |-> m, reply |-> r, len |-> l, rc |-> n] \in Record(V)
  BY DEF Record
<1> HIDE DEF V
<1>4. th' \in [Threads -> Record(V)]
  BY <1>2, <1>3
<1>5. Form'
  BY <1>4 DEF Form
<1> QED BY <1>1, <1>5 DEF Becomes

\* A step that only goes on.
LEMMA GoStep ==
    ASSUME Form, NEW t \in Threads, NEW p,
           th' = [th EXCEPT ![t].pc = p]
    PROVE  Becomes(t, p, th[t].files, th[t].todo, th[t].cmd, th[t].oldlen, th[t].silent, th[t].timedout, th[t].reply, th[t].len, th[t].rc)
<1>1. PICK U : th \in [Threads -> Record(U)]
  BY DEF Form
<1> DEFINE V == U \cup {p}
<1>2. th \in [Threads -> Record(V)]
  BY <1>1 DEF Record
<1>3. p \in V
  OBVIOUS
<1> HIDE DEF V
<1>4. th' \in [Threads -> Record(V)]
  BY <1>2, <1>3 DEF Record
<1>5. Form'
  BY <1>4 DEF Form
<1> QED BY <1>1, <1>5 DEF Becomes, Record

\* "!Recv" takes its reply.
LEMMA RecvStep ==
    ASSUME Form, NEW t \in Threads, NEW p, NEW r, NEW n,
           th' = [th EXCEPT ![t].pc = p, ![t].reply = r, ![t].rc = n]
    PROVE  Becomes(t, p, th[t].files, th[t].todo, th[t].cmd, th[t].oldlen, th[t].silent, th[t].timedout, r, th[t].len, n)
<1>1. PICK U : th \in [Threads -> Record(U)]
  BY DEF Form
<1> DEFINE V == U \cup {p, r, n}
<1>2. th \in [Threads -> Record(V)]
  BY <1>1 DEF Record
<1>3. p \in V /\ r \in V /\ n \in V
  OBVIOUS
<1> HIDE DEF V
<1>4. th' \in [Threads -> Record(V)]
  BY <1>2, <1>3 DEF Record
<1>5. Form'
  BY <1>4 DEF Form
<1> QED BY <1>1, <1>5 DEF Becomes, Record

\* A command begins.
LEMMA BeginStep ==
    ASSUME Form, NEW t \in Threads, NEW p, NEW c, NEW m,
           th' = [th EXCEPT ![t].pc = p, ![t].cmd = c, ![t].timedout = m]
    PROVE  Becomes(t, p, th[t].files, th[t].todo, c, th[t].oldlen, th[t].silent, m, th[t].reply, th[t].len, th[t].rc)
<1>1. PICK U : th \in [Threads -> Record(U)]
  BY DEF Form
<1> DEFINE V == U \cup {p, c, m}
<1>2. th \in [Threads -> Record(V)]
  BY <1>1 DEF Record
<1>3. p \in V /\ c \in V /\ m \in V
  OBVIOUS
<1> HIDE DEF V
<1>4. th' \in [Threads -> Record(V)]
  BY <1>2, <1>3 DEF Record
<1>5. Form'
  BY <1>4 DEF Form
<1> QED BY <1>1, <1>5 DEF Becomes, Record

\* A wait begins.
LEMMA SentStep ==
    ASSUME Form, NEW t \in Threads, NEW p, NEW o, NEW r,
           th' = [th EXCEPT ![t].pc = p, ![t].oldlen = o, ![t].reply = r]
    PROVE  Becomes(t, p, th[t].files, th[t].todo, th[t].cmd, o, th[t].silent, th[t].timedout, r, th[t].len, th[t].rc)
<1>1. PICK U : th \in [Threads -> Record(U)]
  BY DEF Form
<1> DEFINE V == U \cup {p, o, r}
<1>2. th \in [Threads -> Record(V)]
  BY <1>1 DEF Record
<1>3. p \in V /\ o \in V /\ r \in V
  OBVIOUS
<1> HIDE DEF V
<1>4. th' \in [Threads -> Record(V)]
  BY <1>2, <1>3 DEF Record
<1>5. Form'
  BY <1>4 DEF Form
<1> QED BY <1>1, <1>5 DEF Becomes, Record

\* A poll.
LEMMA PollStep ==
    ASSUME Form, NEW t \in Threads, NEW s, NEW o,
           th' = [th EXCEPT ![t].silent = s, ![t].oldlen = o]
    PROVE  Becomes(t, th[t].pc, th[t].files, th[t].todo, th[t].cmd, o, s, th[t].timedout, th[t].reply, th[t].len, th[t].rc)
<1>1. PICK U : th \in [Threads -> Record(U)]
  BY DEF Form
<1> DEFINE V == U \cup {s, o}
<1>2. th \in [Threads -> Record(V)]
  BY <1>1 DEF Record
<1>3. s \in V /\ o \in V
  OBVIOUS
<1> HIDE DEF V
<1>4. th' \in [Threads -> Record(V)]
  BY <1>2, <1>3 DEF Record
<1>5. Form'
  BY <1>4 DEF Form
<1> QED BY <1>1, <1>5 DEF Becomes, Record

\* A wait ends.
LEMMA WaitedStep ==
    ASSUME Form, NEW t \in Threads, NEW p, NEW m, NEW n, NEW o, NEW s,
           th' = [th EXCEPT ![t].pc = p, ![t].timedout = m, ![t].rc = n, ![t].oldlen = o, ![t].silent = s]
    PROVE  Becomes(t, p, th[t].files, th[t].todo, th[t].cmd, o, s, m, th[t].reply, th[t].len, n)
<1>1. PICK U : th \in [Threads -> Record(U)]
  BY DEF Form
<1> DEFINE V == U \cup {p, m, n, o, s}
<1>2. th \in [Threads -> Record(V)]
  BY <1>1 DEF Record
<1>3. p \in V /\ m \in V /\ n \in V /\ o \in V /\ s \in V
  OBVIOUS
<1> HIDE DEF V
<1> DEFINE f == [th EXCEPT ![t].pc = p, ![t].timedout = m, ![t].rc = n]
<1>3a. f \in [Threads -> Record(V)]
  BY <1>2, <1>3 DEF Record
<1>3b. th' = [f EXCEPT ![t].oldlen = o, ![t].silent = s]
  OBVIOUS
<1> HIDE DEF f
<1>4. th' \in [Threads -> Record(V)]
  BY ONLY <1>3a, <1>3b, <1>3, t \in Threads DEF Record
<1> USE DEF f
<1>5. Form'
  BY <1>4 DEF Form
<1> QED BY <1>1, <1>5 DEF Becomes, Record

\* The reply is taken.
LEMMA ReplyStep ==
    ASSUME Form, NEW t \in Threads, NEW p, NEW r,
           th' = [th EXCEPT ![t].pc = p, ![t].reply = r]
    PROVE  Becomes(t, p, th[t].files, th[t].todo, th[t].cmd, th[t].oldlen, th[t].silent, th[t].timedout, r, th[t].len, th[t].rc)
<1>1. PICK U : th \in [Threads -> Record(U)]
  BY DEF Form
<1> DEFINE V == U \cup {p, r}
<1>2. th \in [Threads -> Record(V)]
  BY <1>1 DEF Record
<1>3. p \in V /\ r \in V
  OBVIOUS
<1> HIDE DEF V
<1>4. th' \in [Threads -> Record(V)]
  BY <1>2, <1>3 DEF Record
<1>5. Form'
  BY <1>4 DEF Form
<1> QED BY <1>1, <1>5 DEF Becomes, Record

\* A file is sent.
LEMMA FileStep ==
    ASSUME Form, NEW t \in Threads, NEW p, NEW d,
           th' = [th EXCEPT ![t].pc = p, ![t].todo = d]
    PROVE  Becomes(t, p, th[t].files, d, th[t].cmd, th[t].oldlen, th[t].silent, th[t].timedout, th[t].reply, th[t].len, th[t].rc)
<1>1. PICK U : th \in [Threads -> Record(U)]
  BY DEF Form
<1> DEFINE V == U \cup {p, d}
<1>2. th \in [Threads -> Record(V)]
  BY <1>1 DEF Record
<1>3. p \in V /\ d \in V
  OBVIOUS
<1> HIDE DEF V
<1>4. th' \in [Threads -> Record(V)]
  BY <1>2, <1>3 DEF Record
<1>5. Form'
  BY <1>4 DEF Form
<1> QED BY <1>1, <1>5 DEF Becomes, Record

\* The header of a reply.
LEMMA HeaderStep ==
    ASSUME Form, NEW t \in Threads, NEW p, NEW r, NEW n,
           th' = [th EXCEPT ![t] = [Idle EXCEPT !.pc = p, !.reply = r, !.rc = n]]
    PROVE  Becomes(t, p, FALSE, 0, "", 0, 0, FALSE, r, 0, n)
<1>1. PICK U : th \in [Threads -> Record(U)]
  BY DEF Form
<1> DEFINE V == U \cup {p, r, n, "", 0, FALSE}
<1>2. th \in [Threads -> Record(V)]
  BY <1>1 DEF Record
<1>3. p \in V /\ r \in V /\ n \in V /\ "" \in V /\ 0 \in V /\ FALSE \in V
  OBVIOUS
<1> HIDE DEF V
<1>4. th' \in [Threads -> Record(V)]
  BY <1>2, <1>3 DEF Record, Idle
<1>5. Form'
  BY <1>4 DEF Form
<1> QED BY <1>1, <1>5 DEF Becomes, Record, Idle

\* A packet of a reply.
LEMMA PacketStep ==
    ASSUME Form, NEW t \in Threads, NEW l, NEW r, NEW n,
           th' = [th EXCEPT ![t].len = l, ![t].reply = r, ![t].rc = n]
    PROVE  Becomes(t, th[t].pc, th[t].files, th[t].todo, th[t].cmd, th[t].oldlen, th[t].silent, th[t].timedout, r, l, n)
<1>1. PICK U : th \in [Threads -> Record(U)]
  BY DEF Form
<1> DEFINE V == U \cup {l, r, n}
<1>2. th \in [Threads -> Record(V)]
  BY <1>1 DEF Record
<1>3. l \in V /\ r \in V /\ n \in V
  OBVIOUS
<1> HIDE DEF V
<1>4. th' \in [Threads -> Record(V)]
  BY <1>2, <1>3 DEF Record
<1>5. Form'
  BY <1>4 DEF Form
<1> QED BY <1>1, <1>5 DEF Becomes, Record

\* A thread that has no command.
LEMMA IdleStep ==
    ASSUME Form, NEW t \in Threads, NEW p, NEW f, NEW d,
           th' = [th EXCEPT ![t] = [Idle EXCEPT !.pc = p, !.files = f, !.todo = d]]
    PROVE  Becomes(t, p, f, d, "", 0, 0, FALSE, 0, 0, 0)
<1>1. PICK U : th \in [Threads -> Record(U)]
  BY DEF Form
<1> DEFINE V == U \cup {p, f, d, "", 0, FALSE}
<1>2. th \in [Threads -> Record(V)]
  BY <1>1 DEF Record
<1>3. p \in V /\ f \in V /\ d \in V /\ "" \in V /\ 0 \in V /\ FALSE \in V
  OBVIOUS
<1> HIDE DEF V
<1>4. th' \in [Threads -> Record(V)]
  BY <1>2, <1>3 DEF Record, Idle
<1>5. Form'
  BY <1>4 DEF Form
<1> QED BY <1>1, <1>5 DEF Becomes, Record, Idle

----------------------------------------------------------------------------
(* Types *)

LEMMA ThreadStep ==
    ASSUME ThreadsTyped, NEW t \in Threads,
           NEW p \in Pcs, NEW f \in BOOLEAN, NEW d \in 0..Todo,
           NEW c \in Asks \cup {"Send", "Disp", ""}, NEW o \in 0..MaxText, NEW s \in 0..TimeOut,
           NEW m \in BOOLEAN, NEW r \in 0..(2 * MaxText), NEW l \in 0..MaxText,
           NEW n \in -MaxText..MaxText,
           Becomes(t, p, f, d, c, o, s, m, r, l, n), Fit(t, p, f, d, c, r, n)
    PROVE  ThreadsTyped'
<1>1. Form'
  BY DEF Becomes
<1>2. ASSUME NEW u \in Threads
      PROVE  Values(u)' /\ Fit(u, th[u].pc, th[u].files, th[u].todo, th[u].cmd, th[u].reply, th[u].rc)'
  <2>1. CASE u = t
    <3>1. /\ th'[u].pc = p /\ th'[u].files = f /\ th'[u].todo = d /\ th'[u].cmd = c
          /\ th'[u].oldlen = o /\ th'[u].silent = s /\ th'[u].timedout = m
          /\ th'[u].reply = r /\ th'[u].len = l /\ th'[u].rc = n
      BY <2>1, Zenon DEF Becomes
    <3>2. Values(u)'
      BY <3>1, Zenon DEF Values
    <3>3. Fit(u, th[u].pc, th[u].files, th[u].todo, th[u].cmd, th[u].reply, th[u].rc)'
      BY <2>1, <3>1, Zenon DEF Fit
    <3> QED BY <3>2, <3>3
  <2>2. CASE u # t
    <3>1. th'[u] = th[u]
      BY <2>2 DEF Becomes
    <3>2. Values(u) /\ Fit(u, th[u].pc, th[u].files, th[u].todo, th[u].cmd, th[u].reply, th[u].rc)
      BY DEF ThreadsTyped
    <3> QED BY <3>1, <3>2, Zenon DEF Values, Fit
  <2> QED BY <2>1, <2>2
<1> QED BY <1>1, <1>2, Zenon DEF ThreadsTyped

LEMMA ThreadsSame == ASSUME ThreadsTyped, th' = th PROVE ThreadsTyped'
BY Zenon DEF ThreadsTyped, Form, Values, Fit

LEMMA ThreadFacts ==
    ASSUME ThreadsTyped, NEW t \in Threads
    PROVE  /\ Values(t)
           /\ Fit(t, th[t].pc, th[t].files, th[t].todo, th[t].cmd, th[t].reply, th[t].rc)
BY DEF ThreadsTyped

LEMMA TypedIsTypeOK == Typed /\ Quits => TypeOK
<1> SUFFICES ASSUME Typed, Quits PROVE TypeOK
  OBVIOUS
<1>1. th \in [Threads -> Thread]
  BY ThreadTyped DEF Typed, ThreadsTyped
<1>2. ThreadsTyped /\ TermTyped /\ HistoryTyped /\ ScriptsTyped
  BY DEF Typed
<1>3. \A b \in {bPrompt, bScriptRun, bScriptPause} : b \in BOOLEAN
  BY <1>2 DEF TermTyped, ScriptsTyped
<1>4. quit \subseteq Scripts /\ late \in [Scripts -> 0..Todo]
  <2>1. 0 \in 0..Todo /\ 1 \in 0..Todo
    BY Numbers
  <2> QED BY <2>1 DEF Quits
<1> QED BY <1>1, <1>2, <1>3, <1>4, Zenon DEF TypeOK, Thread, TermTyped, HistoryTyped, ScriptsTyped, Said

LEMMA AddTyped ==
    ASSUME TermTyped, HistoryTyped, NEW items \in Seq(Said), Add(items)
    PROVE  text' \in Seq(Said) /\ Len(text') <= MaxText /\ said' \in Seq(Said)
<1>1. text \in Seq(Said) /\ said \in Seq(Said)
  BY DEF TermTyped, HistoryTyped
<1>2. text \o items \in Seq(Said) /\ said \o items \in Seq(Said) /\ <<>> \in Seq(Said)
  BY <1>1
<1>3. Len(text \o items) = Len(text) + Len(items)
  BY <1>1
<1> QED BY <1>1, <1>2, <1>3 DEF Add, cursor_x

LEMMA InitTyped == Init => Typed
<1> SUFFICES ASSUME Init PROVE Typed
  OBVIOUS
<1> USE Numbers
<1>1. Idle \in Thread
  BY DEF Idle, Thread, Pcs, Asks
<1>2. th \in [Threads -> Thread] /\ \A u \in Threads : th[u] = Idle
  BY <1>1 DEF Init
<1>3. ThreadsTyped
  <2>1. Form /\ \A u \in Threads : Values(u)
    BY <1>2, ThreadValues
  <2>2. ASSUME NEW u \in Threads
        PROVE  Fit(u, th[u].pc, th[u].files, th[u].todo, th[u].cmd, th[u].reply, th[u].rc)
    <3>1. th[u].pc = "none" /\ th[u].cmd = "" /\ th[u].reply = 0 /\ th[u].rc = 0
      <4>1. th[u] = Idle
        BY <1>2
      <4>2. Idle.pc = "none" /\ Idle.cmd = "" /\ Idle.reply = 0 /\ Idle.rc = 0
        BY Zenon DEF Idle
      <4> QED BY <4>1, <4>2
    <3>2. ~(0 > 0) /\ 0 <= MaxText
      OBVIOUS
    <3> QED BY ONLY <3>1, <3>2 DEF Fit, Outside
  <2> QED BY <2>1, <2>2 DEF ThreadsTyped
<1>4. TermTyped
  BY DEF Init, TermTyped, Said
<1>5. HistoryTyped
  BY DEF Init, HistoryTyped
<1>6. ScriptsTyped
  <2>1. acts \in 0..MaxActs
    BY DEF Init
  <2> QED BY <2>1, Zenon DEF Init, ScriptsTyped
<1> QED BY <1>3, <1>4, <1>5, <1>6 DEF Typed

LEMMA DisturbsTyped ==
    ASSUME HistoryTyped, NEW t \in Threads, Disturbs(t)
    PROVE  HistoryTyped'
<1>1. CASE alone = t
  BY <1>1 DEF HistoryTyped, Disturbs, history
<1>2. CASE alone # t
  BY <1>2 DEF HistoryTyped, Disturbs, NobodyAlone
<1> QED BY <1>1, <1>2

LEMMA NobodyTyped == ASSUME NobodyAlone PROVE HistoryTyped'
BY DEF NobodyAlone, HistoryTyped

LEMMA HistorySame == ASSUME HistoryTyped, UNCHANGED history PROVE HistoryTyped'
BY DEF history, HistoryTyped

LEMMA TermSame == ASSUME TermTyped, UNCHANGED term PROVE TermTyped'
BY Zenon DEF term, TermTyped

\* What is said of a thread's values holds with another pc, too.
LEMMA GoTyped ==
    ASSUME ThreadsTyped, NEW t \in Threads, NEW p \in Pcs, Go(t, p),
           p # "body", th[t].pc # "body",
           p \in Outside \cup {"recv"} => th[t].cmd = "",
           t \in Scripts /\ p \notin Outside => th[t].files \/ th[t].todo > 0,
           t \in Scripts /\ p \in {"run", "next"} => th[t].todo > 0
    PROVE  /\ ThreadsTyped'
           /\ th'[t].pc = p /\ \A u \in Threads \ {t} : th'[u] = th[u]
<1>1. Becomes(t, p, th[t].files, th[t].todo, th[t].cmd, th[t].oldlen, th[t].silent,
              th[t].timedout, th[t].reply, th[t].len, th[t].rc)
  <2>1. Form
    BY DEF ThreadsTyped
  <2> QED BY <2>1, GoStep DEF Go
<1>2. /\ Values(t)
      /\ Fit(t, th[t].pc, th[t].files, th[t].todo, th[t].cmd, th[t].reply, th[t].rc)
  BY ThreadFacts
<1>3. Fit(t, p, th[t].files, th[t].todo, th[t].cmd, th[t].reply, th[t].rc)
  BY <1>2, Zenon DEF Fit
<1>4. ThreadsTyped'
  <2>1. /\ th[t].files \in BOOLEAN /\ th[t].todo \in 0..Todo
        /\ th[t].cmd \in Asks \cup {"Send", "Disp", ""} /\ th[t].oldlen \in 0..MaxText
        /\ th[t].silent \in 0..TimeOut /\ th[t].timedout \in BOOLEAN
        /\ th[t].reply \in 0..(2 * MaxText) /\ th[t].len \in 0..MaxText
        /\ th[t].rc \in -MaxText..MaxText
    BY <1>2, Zenon DEF Values
  <2> QED BY ONLY <1>1, <1>3, <2>1, ThreadsTyped, t \in Threads, p \in Pcs, ThreadStep
<1>5. th'[t].pc = p /\ \A u \in Threads \ {t} : th'[u] = th[u]
  BY <1>1, Zenon DEF Becomes
<1> QED BY <1>4, <1>5

AllCommands == {"line", "Send", "Recv", "Disp", "Clear", "Prompt", "scp", "connect"}

LEMMA CommandsAre == \A t \in Threads : Commands[t] \subseteq AllCommands
BY ScriptingAssumption DEF Threads, AllCommands

\* A thread that may begin a command.
Ready(t) ==
    /\ th[t].pc \in {"none", "start", "next"}
    /\ t \in Scripts => th[t].files \/ th[t].todo > 0

LEMMA BeginTyped ==
    ASSUME Typed, NEW t \in Threads, NEW c \in AllCommands, Begin(t, c), Ready(t)
    PROVE  /\ ThreadsTyped' /\ TermTyped' /\ HistoryTyped'
           /\ th'[t].pc \in {"done", "mark", "recv"} /\ \A u \in Threads \ {t} : th'[u] = th[u]
<1> USE Numbers DEF Ready
<1>1. ThreadsTyped /\ TermTyped /\ HistoryTyped
  BY DEF Typed
<1>2. /\ Values(t)
      /\ Fit(t, th[t].pc, th[t].files, th[t].todo, th[t].cmd, th[t].reply, th[t].rc)
  BY <1>1, ThreadFacts
<1>3. th[t].cmd = ""
  BY <1>2 DEF Fit, Outside
<1>4. ASSUME Go(t, "done")
      PROVE  /\ ThreadsTyped' /\ th'[t].pc = "done"
             /\ \A u \in Threads \ {t} : th'[u] = th[u]
  <2>1. "done" \in Pcs
    BY DEF Pcs
  <2>2. ThreadsTyped' /\ th'[t].pc = "done" /\ \A u \in Threads \ {t} : th'[u] = th[u]
    BY <1>1, <1>3, <1>4, <2>1, GoTyped DEF Outside
  <2> QED BY <2>2
<1>5. CASE c = "line" /\ ~live
  <2>1. DoDisp(t)
    BY <1>5 DEF Begin
  <2>2. Go(t, "done")
    BY <2>1 DEF DoDisp
  <2>3. <<"out">> \in Seq(Said)
    BY DEF Said
  <2>4. text' \in Seq(Said) /\ Len(text') <= MaxText /\ said' \in Seq(Said)
    BY <1>1, <2>1, <2>3, AddTyped DEF DoDisp
  <2>5. TermTyped' /\ HistoryTyped'
    BY <1>1, <2>1, <2>4, Zenon DEF DoDisp, TermTyped, HistoryTyped
  <2> QED BY <1>4, <2>2, <2>5
<1>6. CASE c = "connect" /\ live
  <2>1. Go(t, "done") /\ UNCHANGED <<term, history>>
    BY <1>6 DEF Begin
  <2> QED BY <1>1, <1>4, <2>1, TermSame, HistorySame
<1>7. CASE c = "Clear"
  <2>1. clear(t)
    BY <1>7 DEF Begin
  <2>2. TermTyped'
    <3>1. <<>> \in Seq(Said) /\ Len(<<>>) <= MaxText /\ 0 \in 0..MaxText
      OBVIOUS
    <3> QED BY <1>1, <2>1, <3>1, Zenon DEF clear, TermTyped
  <2> QED BY <1>4, <2>1, <2>2, NobodyTyped DEF clear
<1>8. CASE c = "Prompt"
  <2>1. learn_prompt(t)
    BY <1>8 DEF Begin
  <2>2. sPrompt' \in Said
    BY <1>1, <2>1 DEF learn_prompt, TermTyped, Last, cursor_x
  <2>3. TermTyped'
    BY <1>1, <2>1, <2>2, Zenon DEF learn_prompt, TermTyped
  <2> QED BY <1>4, <2>1, <2>3, NobodyTyped DEF learn_prompt
<1>9. CASE c = "Recv"
  <2>1. Recv(t)
    BY <1>9 DEF Begin
  <2> DEFINE n == cursor_x - recv0
  <2>2. recv0 \in 0..MaxText /\ n \in -MaxText..MaxText
    BY <1>1 DEF TermTyped, cursor_x
  <2>3. Becomes(t, "recv", th[t].files, th[t].todo, th[t].cmd, th[t].oldlen, th[t].silent,
                th[t].timedout, recv0, th[t].len, n)
    BY <1>1, <2>1, RecvStep DEF ThreadsTyped, Recv
  <2> HIDE DEF n
  <2>4. Fit(t, "recv", th[t].files, th[t].todo, th[t].cmd, recv0, n)
    <3>1. recv0 <= MaxText /\ (n > 0 => recv0 + n <= 2 * MaxText)
      BY <2>2
    <3> QED BY <1>2, <1>3, <3>1, Zenon DEF Fit, Outside
  <2>5. "recv" \in Pcs /\ recv0 \in 0..(2 * MaxText)
    BY <2>2 DEF Pcs
  <2>6. ThreadsTyped'
    <3>1. /\ th[t].files \in BOOLEAN /\ th[t].todo \in 0..Todo
          /\ th[t].cmd \in Asks \cup {"Send", "Disp", ""} /\ th[t].oldlen \in 0..MaxText
          /\ th[t].silent \in 0..TimeOut /\ th[t].timedout \in BOOLEAN /\ th[t].len \in 0..MaxText
      BY <1>2, Zenon DEF Values
    <3> QED BY ONLY <1>1, <2>2, <2>3, <2>4, <2>5, <3>1, t \in Threads, ThreadStep
  <2>7. th'[t].pc = "recv" /\ \A u \in Threads \ {t} : th'[u] = th[u]
    BY <2>3, Zenon DEF Becomes
  <2>8. TermTyped' /\ HistoryTyped'
    BY <1>1, <2>1, TermSame, HistorySame DEF Recv
  <2> QED BY <2>6, <2>7, <2>8
<1>10. CASE c \notin {"Clear", "Prompt", "Recv"} /\ ~(c = "line" /\ ~live) /\ ~(c = "connect" /\ live)
  <2>1. /\ th' = [th EXCEPT ![t].pc = "mark", ![t].cmd = c, ![t].timedout = FALSE]
        /\ alone' \in {t, Nobody} /\ said' = <<>> /\ UNCHANGED term
    BY <1>10 DEF Begin
  <2>2. c \in Asks \cup {"Send", "Disp", ""}
    BY <1>10 DEF AllCommands, Asks
  <2>3. Becomes(t, "mark", th[t].files, th[t].todo, c, th[t].oldlen, th[t].silent,
                FALSE, th[t].reply, th[t].len, th[t].rc)
    BY <1>1, <2>1, BeginStep DEF ThreadsTyped
  <2>4. Fit(t, "mark", th[t].files, th[t].todo, c, th[t].reply, th[t].rc)
    BY <1>2, Zenon DEF Fit, Outside
  <2>5. "mark" \in Pcs /\ FALSE \in BOOLEAN
    BY DEF Pcs
  <2>6. ThreadsTyped'
    <3>1. /\ th[t].files \in BOOLEAN /\ th[t].todo \in 0..Todo /\ th[t].oldlen \in 0..MaxText
          /\ th[t].silent \in 0..TimeOut /\ th[t].reply \in 0..(2 * MaxText)
          /\ th[t].len \in 0..MaxText /\ th[t].rc \in -MaxText..MaxText
      BY <1>2, Zenon DEF Values
    <3> QED BY ONLY <1>1, <2>2, <2>3, <2>4, <2>5, <3>1, t \in Threads, ThreadStep
  <2>7. th'[t].pc = "mark" /\ \A u \in Threads \ {t} : th'[u] = th[u]
    BY <2>3, Zenon DEF Becomes
  <2>8. TermTyped' /\ HistoryTyped'
    BY <1>1, <2>1, TermSame DEF HistoryTyped
  <2> QED BY <2>6, <2>7, <2>8
<1> QED BY <1>5, <1>6, <1>7, <1>8, <1>9, <1>10

LEMMA TypedParts ==
    ASSUME Typed
    PROVE  ThreadsTyped /\ TermTyped /\ HistoryTyped /\ ScriptsTyped
BY DEF Typed

LEMMA ScriptsSame ==
    ASSUME ScriptsTyped, UNCHANGED <<bScriptRun, bScriptPause, acts>>
    PROVE  ScriptsTyped'
BY Zenon DEF ScriptsTyped

LEMMA ActCounted == ASSUME ScriptsTyped, Acts PROVE acts' \in 0..MaxActs
BY Numbers DEF ScriptsTyped, Acts

\* What a host may be made to say.
Said1 == {<<"prompt">>, <<"out">>, Answer}

LEMMA TellTyped ==
    ASSUME TermTyped, NEW a \in Said1, Tell(a)
    PROVE  /\ owed' \in Seq(Said) /\ lines' \in 0..MaxLines
           /\ owed' = owed \o a \/ owed' = owed
<1>1. a \in Seq(Said)
  <2>1. <<"prompt">> \in Seq(Said) /\ <<"out">> \in Seq(Said)
    BY DEF Said
  <2>2. Answer \in Seq(Said)
    BY DEF Answer, Said
  <2> QED BY <2>1, <2>2, Zenon DEF Said1
<1>2. owed \in Seq(Said) /\ lines \in 0..MaxLines
  BY DEF TermTyped
<1>3. CASE live' /\ lines < MaxLines
  <2>1. lines' = lines + 1 /\ owed' = owed \o a
    BY <1>3 DEF Tell
  <2>2. lines' \in 0..MaxLines
    BY <1>2, <1>3, <2>1, Numbers
  <2>3. owed \o a \in Seq(Said)
    BY <1>1, <1>2
  <2> QED BY <2>1, <2>2, <2>3
<1>4. CASE ~(live' /\ lines < MaxLines)
  BY <1>2, <1>4 DEF Tell
<1> QED BY <1>3, <1>4

LEMMA HostSaysTyped == ASSUME Typed, HostSays PROVE Typed'
<1> USE TypedParts
<1>1. PICK n \in 1..Len(owed) :
         /\ UNCHANGED alone /\ Add(SubSeq(owed, 1, n))
         /\ owed' = SubSeq(owed, n + 1, Len(owed))
         /\ bPrompt' = (bPrompt \/ owed[n] = sPrompt)
         /\ UNCHANGED <<live, lines, recv0, sPrompt, bScriptRun, bScriptPause, th, acts, quits>>
  BY DEF HostSays
<1>2. owed \in Seq(Said)
  BY DEF TermTyped
<1>3. SubSeq(owed, 1, n) \in Seq(Said) /\ SubSeq(owed, n + 1, Len(owed)) \in Seq(Said)
  BY <1>2
<1>4. text' \in Seq(Said) /\ Len(text') <= MaxText /\ said' \in Seq(Said)
  BY <1>1, <1>3, AddTyped
<1>5. bPrompt' \in BOOLEAN
  BY <1>1, Zenon DEF TermTyped
<1>6. TermTyped'
  BY <1>1, <1>3, <1>4, <1>5, Zenon DEF TermTyped
<1>7. HistoryTyped'
  BY <1>1, <1>4, Zenon DEF HistoryTyped
<1>8. ThreadsTyped' /\ ScriptsTyped'
  BY <1>1, ThreadsSame, ScriptsSame
<1> QED BY <1>6, <1>7, <1>8 DEF Typed

LEMMA HostEndsTyped == ASSUME Typed, HostEnds PROVE Typed'
<1> USE TypedParts DEF HostEnds
<1>1. <<>> \in Seq(Said) /\ live' \in BOOLEAN
  <2>1. <<>> \in Seq(Said)
    OBVIOUS
  <2> QED BY <2>1, Zenon
<1>2. TermTyped'
  BY <1>1, Zenon DEF TermTyped
<1>3. ThreadsTyped' /\ HistoryTyped'
  BY ThreadsSame, NobodyTyped
<1>4. ScriptsTyped'
  BY ActCounted, Zenon DEF ScriptsTyped
<1> QED BY <1>2, <1>3, <1>4 DEF Typed

LEMMA TypeTyped == ASSUME Typed, Type PROVE Typed'
<1> USE TypedParts DEF Type
<1>1. owed' \in Seq(Said) /\ lines' \in 0..MaxLines
  BY TellTyped DEF Said1
<1>2. TermTyped'
  BY <1>1, Zenon DEF TermTyped
<1>3. ThreadsTyped' /\ HistoryTyped'
  BY ThreadsSame, NobodyTyped
<1>4. ScriptsTyped'
  BY ActCounted, Zenon DEF ScriptsTyped
<1> QED BY <1>2, <1>3, <1>4 DEF Typed

LEMMA UserClearsTyped == ASSUME Typed, UserClears PROVE Typed'
<1> USE TypedParts DEF UserClears
<1>1. <<>> \in Seq(Said) /\ Len(<<>>) <= MaxText /\ 0 \in 0..MaxText
  BY Numbers
<1>2. TermTyped'
  BY <1>1, Zenon DEF TermTyped
<1>3. ThreadsTyped' /\ HistoryTyped'
  BY ThreadsSame, NobodyTyped
<1>4. ScriptsTyped'
  BY ActCounted, Zenon DEF ScriptsTyped
<1> QED BY <1>2, <1>3, <1>4 DEF Typed

LEMMA quit_scriptTyped == ASSUME Typed, quit_script PROVE Typed'
<1> USE TypedParts DEF quit_script
<1>1. TermTyped' /\ HistoryTyped' /\ ThreadsTyped'
  BY TermSame, HistorySame, ThreadsSame
<1>2. ScriptsTyped'
  BY ActCounted, Zenon DEF ScriptsTyped
<1> QED BY <1>1, <1>2 DEF Typed

LEMMA pause_scriptTyped == ASSUME Typed, pause_script PROVE Typed'
<1> USE TypedParts DEF pause_script
<1>1. TermTyped' /\ HistoryTyped' /\ ThreadsTyped'
  BY TermSame, HistorySame, ThreadsSame
<1>2. ScriptsTyped'
  BY ActCounted, Zenon DEF ScriptsTyped
<1> QED BY <1>1, <1>2 DEF Typed

\* A step in a command that only goes on.
LEMMA GoesOnTyped ==
    ASSUME Typed, NEW t \in Threads, InCommand(t), NEW p \in {"recv0", "act", "done"}, Go(t, p)
    PROVE  /\ ThreadsTyped'
           /\ th'[t].pc = p /\ \A u \in Threads \ {t} : th'[u] = th[u]
<1>1. ThreadsTyped
  BY TypedParts
<1>2. th[t].pc \notin Outside /\ p \in Pcs /\ p \notin Outside \cup {"recv"}
  BY DEF InCommand, Pcs, Outside
<1>3. t \in Scripts => th[t].files \/ th[t].todo > 0
  BY <1>1, <1>2, ThreadFacts, Zenon DEF Fit
<1> QED BY <1>1, <1>2, <1>3, GoTyped DEF Outside

LEMMA MarkTyped == ASSUME Typed, NEW t \in Threads, Mark(t) PROVE Typed'
<1> USE TypedParts DEF Mark
<1>1. InCommand(t) /\ th[t].pc # "body"
  BY DEF At, InCommand
<1>2. ThreadsTyped' /\ \A u \in Threads \ {t} : th'[u] = th[u]
  BY <1>1, GoesOnTyped
<1>3. TermTyped'
  BY Zenon DEF TermTyped
<1>4. HistoryTyped'
  BY DisturbsTyped
<1>5. ScriptsTyped'
  BY <1>1, <1>2, ScriptsSame
<1> QED BY <1>2, <1>3, <1>4, <1>5 DEF Typed

LEMMA MarkRecv0Typed == ASSUME Typed, NEW t \in Threads, MarkRecv0(t) PROVE Typed'
<1> USE TypedParts DEF MarkRecv0
<1>1. InCommand(t) /\ th[t].pc # "body"
  BY DEF At, InCommand
<1>2. ThreadsTyped' /\ \A u \in Threads \ {t} : th'[u] = th[u]
  BY <1>1, GoesOnTyped
<1>3. recv0' \in 0..MaxText
  BY DEF cursor_x, TermTyped
<1>4. TermTyped'
  BY <1>3, Zenon DEF TermTyped
<1>5. HistoryTyped'
  BY DisturbsTyped
<1>6. ScriptsTyped'
  BY <1>1, <1>2, ScriptsSame
<1> QED BY <1>2, <1>4, <1>5, <1>6 DEF Typed

LEMMA RecvMarkTyped == ASSUME Typed, NEW t \in Threads, RecvMark(t) PROVE Typed'
<1> USE TypedParts DEF RecvMark
<1>1. InCommand(t) /\ th[t].pc # "body"
  BY DEF At, InCommand
<1>2. ThreadsTyped' /\ \A u \in Threads \ {t} : th'[u] = th[u]
  BY <1>1, GoesOnTyped
<1>3. recv0' \in 0..MaxText
  BY DEF cursor_x, TermTyped
<1>4. TermTyped'
  BY <1>3, Zenon DEF TermTyped
<1>5. HistoryTyped'
  BY DisturbsTyped
<1>6. ScriptsTyped'
  BY <1>1, <1>2, ScriptsSame
<1> QED BY <1>2, <1>4, <1>5, <1>6 DEF Typed

\* The values of a thread, each by itself.
LEMMA ValuesOf ==
    ASSUME ThreadsTyped, NEW t \in Threads
    PROVE  /\ th[t].pc \in Pcs /\ th[t].files \in BOOLEAN /\ th[t].todo \in 0..Todo
           /\ th[t].cmd \in Asks \cup {"Send", "Disp", ""} /\ th[t].oldlen \in 0..MaxText
           /\ th[t].silent \in 0..TimeOut /\ th[t].timedout \in BOOLEAN
           /\ th[t].reply \in 0..(2 * MaxText) /\ th[t].len \in 0..MaxText
           /\ th[t].rc \in -MaxText..MaxText
<1>1. Values(t)
  BY ThreadFacts
<1> QED BY <1>1, Zenon DEF Values

\* In a command, and with its reply, a thread has something to do.
LEMMA FitsIn ==
    ASSUME ThreadsTyped, NEW t \in Threads, th[t].pc \notin Outside,
           NEW p \in Pcs, p \notin Outside \cup {"recv"},
           NEW r \in 0..MaxText, NEW n \in -MaxText..MaxText
    PROVE  Fit(t, p, th[t].files, th[t].todo, th[t].cmd, r, n)
<1>1. Fit(t, th[t].pc, th[t].files, th[t].todo, th[t].cmd, th[t].reply, th[t].rc)
  BY ThreadFacts
<1>2. t \in Scripts => th[t].files \/ th[t].todo > 0
  BY <1>1, Zenon DEF Fit
<1>3. r <= MaxText /\ (n > 0 => r + n <= 2 * MaxText)
  BY Numbers
<1> QED BY <1>2, <1>3, Zenon DEF Fit, Outside

\* The wait begins, with the mark as the reply or without one.
LEMMA ActWaits ==
    ASSUME ThreadsTyped, TermTyped, NEW t \in Threads, th[t].pc = "act", NEW r \in {0, recv0},
           th' = [th EXCEPT ![t].pc = "wait", ![t].oldlen = recv0, ![t].reply = r]
    PROVE  /\ ThreadsTyped'
           /\ Becomes(t, "wait", th[t].files, th[t].todo, th[t].cmd, recv0, th[t].silent,
                      th[t].timedout, r, th[t].len, th[t].rc)
<1>1. Becomes(t, "wait", th[t].files, th[t].todo, th[t].cmd, recv0, th[t].silent,
              th[t].timedout, r, th[t].len, th[t].rc)
  BY SentStep DEF ThreadsTyped
<1>2. recv0 \in 0..MaxText /\ r \in 0..MaxText /\ r \in 0..(2 * MaxText) /\ "wait" \in Pcs
  BY Numbers DEF TermTyped, Pcs
<1>3. Fit(t, "wait", th[t].files, th[t].todo, th[t].cmd, r, th[t].rc)
  BY <1>2, FitsIn, ValuesOf DEF Outside
<1>4. ThreadsTyped'
  <2>1. /\ th[t].files \in BOOLEAN /\ th[t].todo \in 0..Todo
        /\ th[t].cmd \in Asks \cup {"Send", "Disp", ""}
        /\ th[t].silent \in 0..TimeOut /\ th[t].timedout \in BOOLEAN
        /\ th[t].len \in 0..MaxText /\ th[t].rc \in -MaxText..MaxText
    BY ValuesOf
  <2> QED BY ONLY <1>1, <1>2, <1>3, <2>1, ThreadsTyped, t \in Threads, ThreadStep
<1> QED BY <1>1, <1>4

LEMMA ActTyped == ASSUME Typed, NEW t \in Threads, Act(t) PROVE Typed'
<1> USE TypedParts
<1> DEFINE c == th[t].cmd
<1>1. /\ th[t].pc = "act"
      /\ alone' = IF alone = t THEN t ELSE Nobody
      /\ IF c \in {"scp", "Disp"} THEN Add(<<"out">>)
         ELSE said' = (IF alone = t THEN said ELSE <<>>) /\ UNCHANGED text
      /\ live' = (live \/ c \in {"line", "connect"})
      /\ UNCHANGED <<recv0, bPrompt, sPrompt, bScriptRun, bScriptPause, acts, quits>>
  BY DEF Act, At
<1>2. owed' \in Seq(Said) /\ lines' \in 0..MaxLines
  <2>1. UNCHANGED <<lines, owed>> \/ \E a \in Said1 : Tell(a)
    BY DEF Act, Said1
  <2>2. CASE UNCHANGED <<lines, owed>>
    BY <2>2 DEF TermTyped
  <2> QED BY <2>1, <2>2, TellTyped
<1>3. \/ Go(t, "done")
      \/ \E r \in {0, recv0} : th' = [th EXCEPT ![t].pc = "wait", ![t].oldlen = recv0, ![t].reply = r]
  BY DEF Act
<1>5. text' \in Seq(Said) /\ Len(text') <= MaxText /\ said' \in Seq(Said)
  <2>1. CASE c \in {"scp", "Disp"}
    <3>1. <<"out">> \in Seq(Said) /\ Add(<<"out">>)
      BY <1>1, <2>1 DEF Said
    <3> QED BY <3>1, AddTyped
  <2>2. CASE c \notin {"scp", "Disp"}
    <3>1. text' = text /\ (said' = said \/ said' = <<>>)
      BY <1>1, <2>2
    <3>2. <<>> \in Seq(Said)
      OBVIOUS
    <3> QED BY <3>1, <3>2, Zenon DEF TermTyped, HistoryTyped
  <2> QED BY <2>1, <2>2
<1>6. TermTyped'
  <2>1. live' \in BOOLEAN
    BY <1>1, Zenon DEF TermTyped
  <2> QED BY <1>1, <1>2, <1>5, <2>1, Zenon DEF TermTyped
<1>7. HistoryTyped'
  BY <1>1, <1>5 DEF HistoryTyped
<1>8. ThreadsTyped' /\ \A u \in Threads \ {t} : th'[u] = th[u]
  <2>1. CASE Go(t, "done")
    <3>1. InCommand(t)
      BY <1>1 DEF InCommand
    <3> QED BY <2>1, <3>1, GoesOnTyped
  <2>2. ASSUME NEW r \in {0, recv0},
               th' = [th EXCEPT ![t].pc = "wait", ![t].oldlen = recv0, ![t].reply = r]
        PROVE  ThreadsTyped' /\ \A u \in Threads \ {t} : th'[u] = th[u]
    <3>1. /\ ThreadsTyped'
          /\ Becomes(t, "wait", th[t].files, th[t].todo, th[t].cmd, recv0, th[t].silent,
                     th[t].timedout, r, th[t].len, th[t].rc)
      BY <1>1, <2>2, ActWaits
    <3> QED BY <3>1, Zenon DEF Becomes
  <2> QED BY <1>3, <2>1, <2>2
<1>9. ScriptsTyped'
  BY <1>1, <1>8, ScriptsSame
<1> QED BY <1>6, <1>7, <1>8, <1>9 DEF Typed

LEMMA PollTyped == ASSUME Typed, NEW t \in Threads, Poll(t) PROVE Typed'
<1> USE TypedParts
<1> DEFINE o == IF cursor_x > th[t].oldlen THEN cursor_x ELSE th[t].oldlen
           s == IF cursor_x > th[t].oldlen THEN 1 ELSE th[t].silent + 1
<1>1. /\ th[t].pc = "wait" /\ th[t].silent < TimeOut
      /\ UNCHANGED <<term, bScriptRun, bScriptPause, acts, history, quits>>
  BY DEF Poll, At
<1>2. /\ th[t].pc \in Pcs /\ th[t].files \in BOOLEAN /\ th[t].todo \in 0..Todo
      /\ th[t].cmd \in Asks \cup {"Send", "Disp", ""} /\ th[t].oldlen \in 0..MaxText
      /\ th[t].silent \in 0..TimeOut /\ th[t].timedout \in BOOLEAN
      /\ th[t].reply \in 0..(2 * MaxText) /\ th[t].len \in 0..MaxText
      /\ th[t].rc \in -MaxText..MaxText
  BY ValuesOf
<1>3. th' = [th EXCEPT ![t].silent = s, ![t].oldlen = o]
  <2>1. PICK U : th \in [Threads -> Record(U)]
    BY DEF ThreadsTyped, Form
  <2> QED BY <2>1 DEF Poll, Record
<1>4. o \in 0..MaxText /\ s \in 0..TimeOut
  <2>1. PICK k \in Nat : k = cursor_x /\ k <= MaxText
    BY DEF TermTyped, cursor_x
  <2>2. PICK q \in Nat : q = th[t].oldlen /\ q <= MaxText
    <3>1. th[t].oldlen \in 0..MaxText
      BY <1>2, Zenon
    <3> QED BY ONLY <3>1, Numbers
  <2>3. PICK z \in Nat : z = th[t].silent /\ z < TimeOut
    <3>1. th[t].silent \in 0..TimeOut
      BY <1>2, Zenon
    <3>2. th[t].silent < TimeOut
      BY <1>1
    <3> QED BY ONLY <3>1, <3>2, Numbers
  <2>4. /\ (IF k > q THEN k ELSE q) \in 0..MaxText
        /\ (IF k > q THEN 1 ELSE z + 1) \in 0..TimeOut
    BY <2>1, <2>2, <2>3, Numbers
  <2> QED BY <2>1, <2>2, <2>3, <2>4
<1> HIDE DEF o, s
<1>5. Becomes(t, th[t].pc, th[t].files, th[t].todo, th[t].cmd, o, s,
              th[t].timedout, th[t].reply, th[t].len, th[t].rc)
  BY <1>3, PollStep DEF ThreadsTyped
<1>6. ThreadsTyped' /\ \A u \in Threads \ {t} : th'[u] = th[u]
  <2>1. Fit(t, th[t].pc, th[t].files, th[t].todo, th[t].cmd, th[t].reply, th[t].rc)
    BY ThreadFacts
  <2>2. ThreadsTyped'
    BY ONLY <1>2, <1>4, <1>5, <2>1, t \in Threads, ThreadsTyped, ThreadStep
  <2> QED BY <1>5, <2>2, Zenon DEF Becomes
<1>7. TermTyped' /\ HistoryTyped'
  BY <1>1, TermSame, HistorySame
<1>8. ScriptsTyped'
  BY <1>1, <1>6, ScriptsSame
<1> QED BY <1>6, <1>7, <1>8 DEF Typed

\* The values a wait ends with.
LEMMA WaitedThread ==
    ASSUME ThreadsTyped, TermTyped, NEW t \in Threads, Waited(t)
    PROVE  /\ ThreadsTyped'
           /\ Becomes(t, IF th[t].cmd = "line" THEN "reply" ELSE "done", th[t].files, th[t].todo,
                      th[t].cmd, 0, 0, ~bPrompt, th[t].reply, th[t].len, cursor_x - recv0)
<1> DEFINE p == IF th[t].cmd = "line" THEN "reply" ELSE "done"
           n == cursor_x - recv0
           m == ~bPrompt
<1>1. th[t].pc = "wait"
  BY DEF Waited, At
<1>2. th' = [th EXCEPT ![t].pc = p, ![t].timedout = m, ![t].rc = n, ![t].oldlen = 0, ![t].silent = 0]
  BY DEF Waited
<1>3. n \in -MaxText..MaxText /\ 0 \in 0..MaxText /\ 0 \in 0..TimeOut
  BY Numbers DEF TermTyped, cursor_x
<1>4. p \in Pcs /\ p \notin Outside \cup {"recv"} /\ m \in BOOLEAN
  BY DEF Pcs, Outside
<1> HIDE DEF p, n, m
<1>5. Becomes(t, p, th[t].files, th[t].todo, th[t].cmd, 0, 0, m, th[t].reply, th[t].len, n)
  BY <1>2, WaitedStep DEF ThreadsTyped
<1>6. th[t].reply \in 0..MaxText
  <2>1. th[t].reply \in 0..(2 * MaxText)
    BY ValuesOf
  <2>2. Fit(t, th[t].pc, th[t].files, th[t].todo, th[t].cmd, th[t].reply, th[t].rc)
    BY ThreadFacts
  <2>3. th[t].reply <= MaxText
    BY <1>1, <2>2 DEF Fit
  <2> QED BY ONLY <2>1, <2>3, Numbers
<1>7. Fit(t, p, th[t].files, th[t].todo, th[t].cmd, th[t].reply, n)
  BY <1>1, <1>3, <1>4, <1>6, FitsIn DEF Outside
<1>8. ThreadsTyped'
  <2>1. /\ th[t].files \in BOOLEAN /\ th[t].todo \in 0..Todo
        /\ th[t].cmd \in Asks \cup {"Send", "Disp", ""}
        /\ th[t].reply \in 0..(2 * MaxText) /\ th[t].len \in 0..MaxText
    BY ValuesOf
  <2>2. p \in Pcs /\ m \in BOOLEAN
    BY <1>4
  <2> QED BY ONLY <1>3, <1>5, <1>7, <2>1, <2>2, ThreadsTyped, t \in Threads, ThreadStep
<1> QED BY <1>5, <1>8 DEF p, n, m

LEMMA WaitedTyped == ASSUME Typed, NEW t \in Threads, Waited(t) PROVE Typed'
<1> USE TypedParts
<1>1. /\ th[t].pc = "wait" /\ bPrompt' = TRUE /\ Disturbs(t)
      /\ UNCHANGED <<live, text, owed, lines, recv0, sPrompt, bScriptRun, bScriptPause, acts, quits>>
  BY DEF Waited, At
<1>2. ThreadsTyped' /\ \A u \in Threads \ {t} : th'[u] = th[u]
  BY WaitedThread, Zenon DEF Becomes
<1>3. TermTyped' /\ HistoryTyped'
  <2>1. TermTyped'
    BY <1>1, Zenon DEF TermTyped
  <2> QED BY <1>1, <2>1, DisturbsTyped
<1>4. ScriptsTyped'
  BY <1>1, <1>2, ScriptsSame
<1> QED BY <1>2, <1>3, <1>4 DEF Typed

LEMMA ReplyThread ==
    ASSUME ThreadsTyped, TermTyped, NEW t \in Threads, Reply(t)
    PROVE  /\ ThreadsTyped'
           /\ Becomes(t, "done", th[t].files, th[t].todo, th[t].cmd, th[t].oldlen, th[t].silent,
                      th[t].timedout, recv0, th[t].len, th[t].rc)
<1>1. th[t].pc = "reply" /\ th' = [th EXCEPT ![t].pc = "done", ![t].reply = recv0]
  BY DEF Reply, At
<1>2. Becomes(t, "done", th[t].files, th[t].todo, th[t].cmd, th[t].oldlen, th[t].silent,
              th[t].timedout, recv0, th[t].len, th[t].rc)
  BY <1>1, ReplyStep DEF ThreadsTyped
<1>3. recv0 \in 0..MaxText /\ recv0 \in 0..(2 * MaxText) /\ "done" \in Pcs
  BY Numbers DEF TermTyped, Pcs
<1>4. Fit(t, "done", th[t].files, th[t].todo, th[t].cmd, recv0, th[t].rc)
  BY <1>1, <1>3, FitsIn, ValuesOf DEF Outside
<1>5. ThreadsTyped'
  <2>1. /\ th[t].files \in BOOLEAN /\ th[t].todo \in 0..Todo
        /\ th[t].cmd \in Asks \cup {"Send", "Disp", ""} /\ th[t].oldlen \in 0..MaxText
        /\ th[t].silent \in 0..TimeOut /\ th[t].timedout \in BOOLEAN
        /\ th[t].len \in 0..MaxText /\ th[t].rc \in -MaxText..MaxText
    BY ValuesOf
  <2> QED BY ONLY <1>2, <1>3, <1>4, <2>1, ThreadsTyped, t \in Threads, ThreadStep
<1> QED BY <1>2, <1>5

LEMMA ReplyTyped == ASSUME Typed, NEW t \in Threads, Reply(t) PROVE Typed'
<1> USE TypedParts
<1>1. th[t].pc = "reply" /\ UNCHANGED <<term, bScriptRun, bScriptPause, acts, history, quits>>
  BY DEF Reply, At
<1>2. ThreadsTyped' /\ \A u \in Threads \ {t} : th'[u] = th[u]
  BY ReplyThread, Zenon DEF Becomes
<1>3. TermTyped' /\ HistoryTyped'
  BY <1>1, TermSame, HistorySame
<1>4. ScriptsTyped'
  BY <1>1, <1>2, ScriptsSame
<1> QED BY <1>2, <1>3, <1>4 DEF Typed

----------------------------------------------------------------------------
(* Types in scripts and in the HTTP server *)

\* A thread without a command.
LEMMA IdleThread ==
    ASSUME ThreadsTyped, NEW t \in Threads, NEW p \in {"start", "loop", "over"},
           NEW f \in BOOLEAN, NEW d \in 0..Todo,
           th' = [th EXCEPT ![t] = [Idle EXCEPT !.pc = p, !.files = f, !.todo = d]]
    PROVE  /\ ThreadsTyped'
           /\ Becomes(t, p, f, d, "", 0, 0, FALSE, 0, 0, 0)
<1>1. Becomes(t, p, f, d, "", 0, 0, FALSE, 0, 0, 0)
  BY IdleStep DEF ThreadsTyped
<1>2. /\ 0 \in 0..MaxText /\ 0 \in 0..TimeOut /\ 0 \in 0..(2 * MaxText) /\ 0 \in -MaxText..MaxText
      /\ 0 <= MaxText /\ ~(0 > 0)
  BY Numbers
<1>3. p \in Pcs /\ p # "body" /\ FALSE \in BOOLEAN /\ "" \in Asks \cup {"Send", "Disp", ""}
  BY DEF Pcs
<1>4. Fit(t, p, f, d, "", 0, 0)
  BY <1>2, <1>3 DEF Fit, Outside
<1>5. ThreadsTyped'
  BY ONLY <1>1, <1>2, <1>3, <1>4, f \in BOOLEAN, d \in 0..Todo, ThreadsTyped, t \in Threads, ThreadStep
<1> QED BY <1>1, <1>5

LEMMA OverIsIdle == [Idle EXCEPT !.pc = "over"] = [Idle EXCEPT !.pc = "over", !.files = FALSE, !.todo = 0]
<1> DEFINE S == {"none", "over", "", 0, FALSE}
<1>1. Idle \in Record(S)
  BY Zenon DEF Idle, Record
<1>2. Idle.files = FALSE /\ Idle.todo = 0
  BY Zenon DEF Idle
<1> HIDE DEF S
<1> QED BY <1>1, <1>2 DEF Record

\* A thread that ends.
LEMMA OverThread ==
    ASSUME ThreadsTyped, NEW t \in Threads, th' = [th EXCEPT ![t] = [Idle EXCEPT !.pc = "over"]]
    PROVE  /\ ThreadsTyped' /\ \A u \in Threads \ {t} : th'[u] = th[u]
           /\ th'[t].pc = "over" /\ th'[t].cmd = ""
<1>1. th' = [th EXCEPT ![t] = [Idle EXCEPT !.pc = "over", !.files = FALSE, !.todo = 0]]
  BY OverIsIdle
<1>2. 0 \in 0..Todo /\ FALSE \in BOOLEAN
  BY Numbers
<1>3. ThreadsTyped' /\ Becomes(t, "over", FALSE, 0, "", 0, 0, FALSE, 0, 0, 0)
  BY <1>1, <1>2, IdleThread
<1> QED BY <1>3, Zenon DEF Becomes

LEMMA HttpIsNoScript == Http \in Threads /\ Http \notin Scripts /\ Scripts \subseteq Threads
BY ScriptingAssumption DEF Threads

LEMMA run_scriptTyped ==
    ASSUME Typed, NEW t \in Scripts, NEW files \in BOOLEAN, run_script(t, files)
    PROVE  Typed'
<1> USE TypedParts, HttpIsNoScript
<1>1. th' = [th EXCEPT ![t] = [Idle EXCEPT !.pc = "start", !.files = files, !.todo = Todo]]
  BY DEF run_script
<1>2. /\ th[t].pc = "none" /\ NobodyAlone
      /\ sPrompt' = IF live /\ cursor_x > 0 THEN Last(text) ELSE sPrompt
      /\ UNCHANGED <<live, text, owed, lines, recv0, bPrompt, bScriptRun, bScriptPause, acts, quits>>
  BY DEF run_script, At
<1>3. Todo \in 0..Todo
  BY Numbers
<1>4. ThreadsTyped' /\ \A u \in Threads \ {t} : th'[u] = th[u]
  <2>1. /\ ThreadsTyped'
        /\ Becomes(t, "start", files, Todo, "", 0, 0, FALSE, 0, 0, 0)
    BY <1>1, <1>3, IdleThread
  <2> QED BY <2>1, Zenon DEF Becomes
<1>5. TermTyped'
  <2>1. sPrompt' \in Said
    BY <1>2 DEF TermTyped, Last, cursor_x
  <2> QED BY <1>2, <2>1, Zenon DEF TermTyped
<1>6. HistoryTyped'
  BY <1>2, NobodyTyped
<1>7. ScriptsTyped'
  BY <1>2, ScriptsSame
<1> QED BY <1>4, <1>5, <1>6, <1>7 DEF Typed

LEMMA StartScriptTyped == ASSUME Typed, NEW t \in Scripts, StartScript(t) PROVE Typed'
<1> USE TypedParts, HttpIsNoScript
<1>1. /\ th[t].pc = "start" /\ bScriptRun' = TRUE /\ bScriptPause' = FALSE
      /\ UNCHANGED acts
  BY DEF StartScript, At
<1>2. Fit(t, th[t].pc, th[t].files, th[t].todo, th[t].cmd, th[t].reply, th[t].rc)
  BY ThreadFacts
<1>3. /\ ThreadsTyped' /\ TermTyped' /\ HistoryTyped'
      /\ \A u \in Threads \ {t} : th'[u] = th[u]
  <2>1. CASE th[t].files /\ Begin(t, "line")
    <3>1. Ready(t) /\ "line" \in AllCommands
      BY <1>1, <2>1 DEF Ready, AllCommands
    <3> QED BY <2>1, <3>1, BeginTyped
  <2>2. CASE Go(t, "loop") /\ UNCHANGED <<term, history>>
    <3>1. "loop" \in Pcs /\ th[t].cmd = ""
      BY <1>1, <1>2 DEF Pcs, Fit, Outside
    <3>2. ThreadsTyped' /\ th'[t].pc = "loop" /\ \A u \in Threads \ {t} : th'[u] = th[u]
      BY <1>1, <2>2, <3>1, GoTyped DEF Outside
    <3> QED BY <2>2, <3>2, TermSame, HistorySame
  <2> QED BY <2>1, <2>2 DEF StartScript
<1>4. ScriptsTyped'
  BY <1>1, Zenon DEF ScriptsTyped
<1> QED BY <1>3, <1>4 DEF Typed

\* A test of the loop goes on to the next one, back, or to the end.
LEMMA TestThread ==
    ASSUME ThreadsTyped, NEW t \in Scripts, TestRun(t) \/ TestPause(t)
    PROVE  /\ ThreadsTyped' /\ \A u \in Threads \ {t} : th'[u] = th[u]
           /\ th[t].cmd = "" /\ th'[t].cmd = ""
           /\ th[t].pc \in {"loop", "run"} /\ th'[t].pc \in {"loop", "run", "next", "end"}
           /\ th[t].pc = "loop" /\ ~bScriptRun => th'[t].pc = "end"
<1> USE HttpIsNoScript
<1> DEFINE p == IF th[t].pc = "loop" THEN IF bScriptRun /\ th[t].todo > 0 THEN "run" ELSE "end"
                ELSE IF bScriptPause THEN "loop" ELSE "next"
<1>1. th[t].pc \in {"loop", "run"} /\ Go(t, p)
  BY DEF TestRun, TestPause, At
<1>2. Fit(t, th[t].pc, th[t].files, th[t].todo, th[t].cmd, th[t].reply, th[t].rc)
  BY ThreadFacts
<1>3. th[t].cmd = "" /\ th[t].pc # "body"
  BY <1>1, <1>2 DEF Fit, Outside
<1>4. p \in {"run", "next"} => th[t].todo > 0
  BY <1>1, <1>2 DEF Fit
<1>5. p \in {"loop", "run", "next", "end"} /\ (th[t].pc = "loop" /\ ~bScriptRun => p = "end")
  OBVIOUS
<1> HIDE DEF p
<1>6. p \in Pcs /\ p \in Outside /\ p # "body"
  BY <1>5 DEF Pcs, Outside
<1>7. ThreadsTyped' /\ th'[t].pc = p /\ \A u \in Threads \ {t} : th'[u] = th[u]
  BY <1>1, <1>3, <1>4, <1>6, GoTyped
<1>8. th'[t].cmd = ""
  <2>1. Becomes(t, p, th[t].files, th[t].todo, th[t].cmd, th[t].oldlen, th[t].silent,
                th[t].timedout, th[t].reply, th[t].len, th[t].rc)
    BY <1>1, GoStep DEF ThreadsTyped, Go
  <2> QED BY <1>3, <2>1, Zenon DEF Becomes
<1> QED BY <1>1, <1>3, <1>5, <1>7, <1>8

LEMMA TestTyped == ASSUME Typed, NEW t \in Scripts, TestRun(t) \/ TestPause(t) PROVE Typed'
<1> USE TypedParts
<1>1. UNCHANGED <<term, bScriptRun, bScriptPause, acts, history, quits>>
  BY DEF TestRun, TestPause
<1>2. TermTyped' /\ HistoryTyped' /\ ScriptsTyped'
  BY <1>1, TermSame, HistorySame, ScriptsSame
<1>3. ThreadsTyped'
  BY TestThread
<1> QED BY <1>2, <1>3 DEF Typed

\* The next file of a script that has one.
LEMMA FileThread ==
    ASSUME ThreadsTyped, NEW t \in Scripts, th[t].pc = "next",
           th' = [th EXCEPT ![t].pc = "loop", ![t].todo = th[t].todo - 1]
    PROVE  ThreadsTyped' /\ th'[t].pc = "loop" /\ \A u \in Threads \ {t} : th'[u] = th[u]
<1> USE HttpIsNoScript
<1> DEFINE d == th[t].todo - 1
<1>1. Fit(t, th[t].pc, th[t].files, th[t].todo, th[t].cmd, th[t].reply, th[t].rc)
  BY ThreadFacts
<1>2. d \in 0..Todo
  <2>1. th[t].todo \in 0..Todo
    BY ValuesOf
  <2>2. th[t].todo > 0
    BY <1>1 DEF Fit
  <2> QED BY <2>1, <2>2, Numbers
<1>3. th' = [th EXCEPT ![t].pc = "loop", ![t].todo = d]
  OBVIOUS
<1> HIDE DEF d
<1>4. Becomes(t, "loop", th[t].files, d, th[t].cmd, th[t].oldlen, th[t].silent,
              th[t].timedout, th[t].reply, th[t].len, th[t].rc)
  BY <1>3, FileStep DEF ThreadsTyped
<1>5. Fit(t, "loop", th[t].files, d, th[t].cmd, th[t].reply, th[t].rc)
  <2>1. "next" \in Outside /\ "loop" \in Outside /\ "next" # "body"
    BY DEF Outside
  <2> QED BY <1>1, <2>1, Zenon DEF Fit
<1>6. ThreadsTyped'
  <2>1. /\ th[t].files \in BOOLEAN
        /\ th[t].cmd \in Asks \cup {"Send", "Disp", ""} /\ th[t].oldlen \in 0..MaxText
        /\ th[t].silent \in 0..TimeOut /\ th[t].timedout \in BOOLEAN
        /\ th[t].reply \in 0..(2 * MaxText) /\ th[t].len \in 0..MaxText
        /\ th[t].rc \in -MaxText..MaxText
    BY ValuesOf
  <2>2. t \in Threads /\ "loop" \in Pcs
    BY DEF Pcs
  <2> QED BY ONLY <1>2, <1>4, <1>5, <2>1, <2>2, ThreadsTyped, ThreadStep
<1> QED BY <1>4, <1>6, Zenon DEF Becomes

LEMMA NextCommandThread ==
    ASSUME Typed, NEW t \in Scripts, NextCommand(t)
    PROVE  /\ ThreadsTyped' /\ TermTyped' /\ HistoryTyped'
           /\ th[t].pc = "next" /\ th'[t].pc \in {"loop", "done", "mark", "recv"}
           /\ \A u \in Threads \ {t} : th'[u] = th[u]
<1> USE TypedParts, HttpIsNoScript
<1>1. th[t].pc = "next"
  BY DEF NextCommand, At
<1>2. th[t].todo > 0
  <2>1. Fit(t, th[t].pc, th[t].files, th[t].todo, th[t].cmd, th[t].reply, th[t].rc)
    BY ThreadFacts
  <2> QED BY <1>1, <2>1 DEF Fit
<1>3. CASE th[t].files
  <2>1. /\ alone' = Nobody /\ Add(<<"out">>)
        /\ th' = [th EXCEPT ![t].pc = "loop", ![t].todo = th[t].todo - 1]
        /\ UNCHANGED <<live, owed, lines, recv0, bPrompt, sPrompt>>
    <3>1. PICK U : th \in [Threads -> Record(U)]
      BY DEF ThreadsTyped, Form
    <3> QED BY <1>3, <3>1 DEF NextCommand, Record
  <2>2. ThreadsTyped' /\ th'[t].pc = "loop" /\ \A u \in Threads \ {t} : th'[u] = th[u]
    BY <1>1, <2>1, FileThread
  <2>3. <<"out">> \in Seq(Said)
    BY DEF Said
  <2>4. text' \in Seq(Said) /\ Len(text') <= MaxText /\ said' \in Seq(Said)
    BY <2>1, <2>3, AddTyped
  <2>5. TermTyped' /\ HistoryTyped'
    BY <2>1, <2>4, Zenon DEF TermTyped, HistoryTyped
  <2> QED BY <1>1, <2>2, <2>5
<1>4. CASE ~th[t].files
  <2>1. PICK c \in Commands[t] : Begin(t, c)
    BY <1>4 DEF NextCommand
  <2>2. c \in AllCommands /\ Ready(t)
    BY <1>1, <1>2, CommandsAre DEF Ready
  <2>3. /\ ThreadsTyped' /\ TermTyped' /\ HistoryTyped'
        /\ th'[t].pc \in {"done", "mark", "recv"} /\ \A u \in Threads \ {t} : th'[u] = th[u]
    BY <2>1, <2>2, BeginTyped
  <2> QED BY <1>1, <2>3
<1> QED BY <1>3, <1>4

LEMMA NextCommandTyped == ASSUME Typed, NEW t \in Scripts, NextCommand(t) PROVE Typed'
<1>1. ScriptsTyped'
  BY TypedParts, ScriptsSame DEF NextCommand
<1> QED BY <1>1, NextCommandThread DEF Typed

LEMMA CommandDoneThread ==
    ASSUME ThreadsTyped, NEW t \in Scripts, CommandDone(t)
    PROVE  /\ ThreadsTyped' /\ \A u \in Threads \ {t} : th'[u] = th[u]
           /\ th'[t].pc = "loop" /\ th'[t].cmd = ""
           /\ th[t].pc = "done" /\ Leaves(t)
           /\ UNCHANGED <<term, bScriptRun, bScriptPause, acts, quits>>
<1> USE HttpIsNoScript
<1> DEFINE d == IF th[t].files THEN th[t].todo ELSE th[t].todo - 1
           f == th[t].files
<1>1. /\ th[t].pc = "done"
      /\ th' = [th EXCEPT ![t] = [Idle EXCEPT !.pc = "loop", !.files = f, !.todo = d]]
      /\ Leaves(t) /\ UNCHANGED <<term, bScriptRun, bScriptPause, acts, quits>>
  BY DEF CommandDone, At
<1>2. d \in 0..Todo /\ f \in BOOLEAN
  <2>1. th[t].todo \in 0..Todo /\ th[t].files \in BOOLEAN
    BY ValuesOf
  <2>2. th[t].files \/ th[t].todo > 0
    <3>1. Fit(t, th[t].pc, th[t].files, th[t].todo, th[t].cmd, th[t].reply, th[t].rc)
      BY ThreadFacts
    <3> QED BY <1>1, <3>1 DEF Fit, Outside
  <2>3. CASE th[t].files
    BY <2>1, <2>3
  <2>4. CASE ~th[t].files
    <3>1. th[t].todo > 0 /\ d = th[t].todo - 1
      BY <2>2, <2>4
    <3>2. d \in 0..Todo
      <4>1. th[t].todo \in 0..Todo
        BY <2>1
      <4> QED BY ONLY <3>1, <4>1, Numbers
    <3> QED BY <2>1, <3>2
  <2> QED BY <2>3, <2>4
<1> HIDE DEF d, f
<1>3. /\ ThreadsTyped'
      /\ Becomes(t, "loop", f, d, "", 0, 0, FALSE, 0, 0, 0)
  <2>1. t \in Threads
    OBVIOUS
  <2> QED BY <1>1, <1>2, <2>1, IdleThread
<1> QED BY <1>1, <1>3, Zenon DEF Becomes

LEMMA LeavesTyped == ASSUME HistoryTyped, NEW t, Leaves(t) PROVE HistoryTyped'
<1>1. CASE alone = t
  BY <1>1, NobodyTyped DEF Leaves
<1>2. CASE alone # t
  BY <1>2, HistorySame DEF Leaves
<1> QED BY <1>1, <1>2

LEMMA CommandDoneTyped == ASSUME Typed, NEW t \in Scripts, CommandDone(t) PROVE Typed'
<1> USE TypedParts
<1>1. /\ ThreadsTyped' /\ Leaves(t)
      /\ UNCHANGED <<term, bScriptRun, bScriptPause, acts, quits>>
  BY CommandDoneThread
<1>2. TermTyped' /\ HistoryTyped' /\ ScriptsTyped'
  BY <1>1, TermSame, LeavesTyped, ScriptsSame
<1> QED BY <1>1, <1>2 DEF Typed

LEMMA EndScriptThread ==
    ASSUME ThreadsTyped, NEW t \in Scripts, EndScript(t)
    PROVE  /\ ThreadsTyped' /\ \A u \in Threads \ {t} : th'[u] = th[u]
           /\ th'[t].pc = "over" /\ th'[t].cmd = ""
BY OverThread, HttpIsNoScript DEF EndScript

LEMMA EndScriptTyped == ASSUME Typed, NEW t \in Scripts, EndScript(t) PROVE Typed'
<1> USE TypedParts, HttpIsNoScript
<1>1. /\ bScriptRun' = FALSE /\ bScriptPause' = FALSE /\ Disturbs(t)
      /\ UNCHANGED <<live, text, recv0, bPrompt, sPrompt, acts>>
  BY DEF EndScript
<1>2. owed' \in Seq(Said) /\ lines' \in 0..MaxLines
  <2>1. CASE th[t].files
    <3>1. Tell(<<"prompt">>)
      BY <2>1 DEF EndScript
    <3> QED BY <3>1, TellTyped DEF Said1
  <2>2. CASE ~th[t].files
    BY <2>2 DEF EndScript, TermTyped
  <2> QED BY <2>1, <2>2
<1>3. ThreadsTyped'
  BY EndScriptThread
<1>4. TermTyped'
  BY <1>1, <1>2, Zenon DEF TermTyped
<1>5. HistoryTyped'
  BY <1>1, DisturbsTyped
<1>6. ScriptsTyped'
  BY <1>1, Zenon DEF ScriptsTyped
<1> QED BY <1>3, <1>4, <1>5, <1>6 DEF Typed

LEMMA RequestTyped == ASSUME Typed, Request PROVE Typed'
<1> USE TypedParts, HttpIsNoScript
<1>1. PICK c \in Commands[Http] : Begin(Http, c)
  BY DEF Request
<1>2. th[Http].pc = "none" /\ UNCHANGED <<bScriptRun, bScriptPause, acts, quits>>
  BY DEF Request, At
<1>3. c \in AllCommands /\ Ready(Http)
  BY <1>2, CommandsAre DEF Ready
<1>4. /\ ThreadsTyped' /\ TermTyped' /\ HistoryTyped'
      /\ \A u \in Threads \ {Http} : th'[u] = th[u]
  BY <1>1, <1>3, BeginTyped
<1>5. ScriptsTyped'
  BY <1>2, <1>4, ScriptsSame
<1> QED BY <1>4, <1>5 DEF Typed

LEMMA HeaderThread ==
    ASSUME ThreadsTyped, Header
    PROVE  /\ ThreadsTyped' /\ th[Http].pc = "done"
           /\ th'[Http].cmd = "" /\ \A u \in Threads \ {Http} : th'[u] = th[u]
<1> USE HttpIsNoScript
<1>1. /\ th[Http].pc = "done"
      /\ th' = [th EXCEPT ![Http] = [Idle EXCEPT !.pc = "body", !.reply = th[Http].reply, !.rc = th[Http].rc]]
  BY DEF Header, At
<1>2. Becomes(Http, "body", FALSE, 0, "", 0, 0, FALSE, th[Http].reply, 0, th[Http].rc)
  BY <1>1, HeaderStep DEF ThreadsTyped
<1>3. Fit(Http, "body", FALSE, 0, "", th[Http].reply, th[Http].rc)
  <2>1. Fit(Http, th[Http].pc, th[Http].files, th[Http].todo, th[Http].cmd, th[Http].reply, th[Http].rc)
    BY ThreadFacts
  <2> QED BY <2>1, Zenon DEF Fit
<1>4. ThreadsTyped'
  <2>1. th[Http].reply \in 0..(2 * MaxText) /\ th[Http].rc \in -MaxText..MaxText
    BY ValuesOf
  <2>2. /\ 0 \in 0..MaxText /\ 0 \in 0..Todo /\ 0 \in 0..TimeOut
        /\ "body" \in Pcs /\ Http \in Threads
        /\ FALSE \in BOOLEAN /\ "" \in Asks \cup {"Send", "Disp", ""}
    BY Numbers DEF Pcs
  <2> QED BY ONLY <1>2, <1>3, <2>1, <2>2, ThreadsTyped, ThreadStep
<1> QED BY <1>1, <1>2, <1>4, Zenon DEF Becomes

LEMMA HeaderTyped == ASSUME Typed, Header PROVE Typed'
<1> USE TypedParts
<1>1. Leaves(Http) /\ UNCHANGED <<term, bScriptRun, bScriptPause, acts, quits>>
  BY DEF Header
<1>2. TermTyped' /\ HistoryTyped' /\ ScriptsTyped'
  BY <1>1, TermSame, LeavesTyped, ScriptsSame
<1> QED BY <1>2, HeaderThread DEF Typed

\* What a packet takes of the reply is taken off it.
LEMMA PacketThread ==
    ASSUME ThreadsTyped, th[Http].pc = "body",
           NEW n \in 1..(IF th[Http].rc > PacketLen THEN PacketLen ELSE th[Http].rc),
           th' = [th EXCEPT ![Http].len = n, ![Http].reply = @ + n, ![Http].rc = @ - n]
    PROVE  /\ ThreadsTyped'
           /\ Becomes(Http, th[Http].pc, th[Http].files, th[Http].todo, th[Http].cmd, th[Http].oldlen,
                      th[Http].silent, th[Http].timedout, th[Http].reply + n, n, th[Http].rc - n)
<1> USE HttpIsNoScript
<1> DEFINE r == th[Http].reply + n
           z == th[Http].rc - n
<1>1. th' = [th EXCEPT ![Http].len = n, ![Http].reply = r, ![Http].rc = z]
  <2>1. PICK U : th \in [Threads -> Record(U)]
    BY DEF ThreadsTyped, Form
  <2> QED BY <2>1 DEF Record
<1>2. Fit(Http, th[Http].pc, th[Http].files, th[Http].todo, th[Http].cmd, th[Http].reply, th[Http].rc)
  BY ThreadFacts
<1>3. /\ n \in 0..MaxText
      /\ r \in 0..(2 * MaxText) /\ z \in -MaxText..MaxText /\ r + z <= 2 * MaxText
  <2>1. th[Http].reply \in 0..(2 * MaxText) /\ th[Http].rc \in -MaxText..MaxText
    BY ValuesOf
  <2>2. PICK a \in Nat : a = th[Http].reply
    BY <2>1, Numbers
  <2>3. PICK b \in Int : b = th[Http].rc /\ b <= MaxText
    BY <2>1, Numbers
  <2>4. n \in 1..(IF b > PacketLen THEN PacketLen ELSE b)
    BY <2>3
  <2>5. n \in Nat /\ n <= b /\ b > 0
    BY ONLY <2>3, <2>4, Numbers
  <2>6. th[Http].reply + th[Http].rc <= 2 * MaxText
    BY <1>2, <2>3, <2>5 DEF Fit
  <2>7. a + b <= 2 * MaxText /\ r = a + n /\ z = b - n
    BY <2>2, <2>3, <2>6
  <2> QED BY ONLY <2>2, <2>3, <2>5, <2>7, Numbers
<1> HIDE DEF r, z
<1>4. Becomes(Http, th[Http].pc, th[Http].files, th[Http].todo, th[Http].cmd, th[Http].oldlen,
              th[Http].silent, th[Http].timedout, r, n, z)
  BY <1>1, PacketStep DEF ThreadsTyped
<1>5. Fit(Http, th[Http].pc, th[Http].files, th[Http].todo, th[Http].cmd, r, z)
  BY <1>2, <1>3, Zenon DEF Fit
<1>6. ThreadsTyped'
  <2>1. /\ th[Http].pc \in Pcs /\ th[Http].files \in BOOLEAN /\ th[Http].todo \in 0..Todo
        /\ th[Http].cmd \in Asks \cup {"Send", "Disp", ""} /\ th[Http].oldlen \in 0..MaxText
        /\ th[Http].silent \in 0..TimeOut /\ th[Http].timedout \in BOOLEAN
    BY ValuesOf
  <2>2. Http \in Threads
    OBVIOUS
  <2>3. n \in 0..MaxText /\ r \in 0..(2 * MaxText) /\ z \in -MaxText..MaxText
    BY <1>3
  <2> QED BY ONLY <1>4, <1>5, <2>1, <2>2, <2>3, ThreadsTyped, ThreadStep
<1> QED BY <1>3, <1>4, <1>6 DEF r, z

LEMMA PacketTyped == ASSUME Typed, Packet PROVE Typed'
<1> USE TypedParts, HttpIsNoScript
<1>1. /\ th[Http].pc = "body"
      /\ UNCHANGED <<term, bScriptRun, bScriptPause, acts, history, quits>>
  BY DEF Packet, At
<1>2. TermTyped' /\ HistoryTyped' /\ ScriptsTyped'
  BY <1>1, TermSame, HistorySame, ScriptsSame
<1>3. ThreadsTyped'
  BY <1>1, PacketThread, OverThread DEF Packet
<1> QED BY <1>2, <1>3 DEF Typed

LEMMA PacketStays ==
    ASSUME ThreadsTyped, Packet
    PROVE  th'[Http].cmd = "" /\ \A u \in Threads \ {Http} : th'[u] = th[u]
<1> USE HttpIsNoScript
<1>1. th[Http].pc = "body"
  BY DEF Packet, At
<1>2. th[Http].cmd = ""
  <2>1. Fit(Http, th[Http].pc, th[Http].files, th[Http].todo, th[Http].cmd, th[Http].reply, th[Http].rc)
    BY ThreadFacts
  <2> QED BY <1>1, <2>1 DEF Fit, Outside
<1>3. CASE th' = [th EXCEPT ![Http] = [Idle EXCEPT !.pc = "over"]]
  BY <1>3, OverThread
<1>4. ASSUME NEW n \in 1..(IF th[Http].rc > PacketLen THEN PacketLen ELSE th[Http].rc),
             th' = [th EXCEPT ![Http].len = n, ![Http].reply = @ + n, ![Http].rc = @ - n]
      PROVE  th'[Http].cmd = "" /\ \A u \in Threads \ {Http} : th'[u] = th[u]
  BY <1>1, <1>2, <1>4, PacketThread, Zenon DEF Becomes
<1> QED BY <1>3, <1>4 DEF Packet

LEMMA NextTyped == Typed /\ [Next]_vars => Typed'
<1> SUFFICES ASSUME Typed, [Next]_vars PROVE Typed'
  OBVIOUS
<1> USE HttpIsNoScript
<1>1. CASE UNCHANGED vars
  BY <1>1, TypedParts, TermSame, HistorySame, ThreadsSame, ScriptsSame, Zenon DEF vars, Typed
<1>2. CASE HostSays \/ HostEnds
  BY <1>2, HostSaysTyped, HostEndsTyped
<1>3. CASE User
  BY <1>3, TypeTyped, UserClearsTyped, quit_scriptTyped, pause_scriptTyped, run_scriptTyped DEF User
<1>4. ASSUME NEW t \in Threads, command(t) PROVE Typed'
  BY <1>4, MarkTyped, MarkRecv0Typed, ActTyped, PollTyped, WaitedTyped, ReplyTyped, RecvMarkTyped
     DEF command
<1>5. ASSUME NEW t \in Scripts, Script(t) PROVE Typed'
  BY <1>4, <1>5, StartScriptTyped, TestTyped, NextCommandTyped, CommandDoneTyped, EndScriptTyped DEF Script
<1>6. CASE Request \/ Server
  BY <1>4, <1>6, RequestTyped, HeaderTyped, PacketTyped DEF Server
<1> QED BY <1>1, <1>2, <1>3, <1>4, <1>5, <1>6 DEF Next

----------------------------------------------------------------------------
(* A command that nothing disturbs *)

LEMMA NobodyIsNone == Nobody \notin Threads
BY ScriptingAssumption DEF Nobody, Threads

LEMMA OwnNobody == ASSUME alone' = Nobody PROVE OwnCommand'
BY NobodyIsNone DEF OwnCommand

\* No thread is alone in a command but one that has been given a command.
LEMMA OwnEmpty ==
    ASSUME NEW t \in Threads, alone' \in {t, Nobody}, th'[t].cmd \notin Asks
    PROVE  OwnCommand'
BY NobodyIsNone DEF OwnCommand

\* A thread that is left alone stays as it was.
LEMMA OwnLeft ==
    ASSUME Typed, OwnCommand, UNCHANGED <<text, owed, recv0, bPrompt, sPrompt, alone, said>>,
           alone \in Threads => th'[alone] = th[alone]
    PROVE  OwnCommand'
<1> SUFFICES ASSUME NEW t \in Threads, alone = t, th[t].cmd \in Asks
             PROVE  Own(t)'
  BY DEF OwnCommand
<1>1. Own(t) /\ th'[t] = th[t]
  BY DEF OwnCommand
<1>2. Owes' = Owes /\ Marked' = Marked /\ Answered' = Answered /\ cursor_x' = cursor_x
  BY Zenon DEF Owes, Marked, Answered, cursor_x
<1>3. \A n : Taken(t, n) => Taken(t, n)'
  BY <1>1, <1>2, Zenon DEF Taken
<1>4. Taken(t, th[t].rc) => Taken(t, th[t].rc)'
  BY <1>1, <1>3
<1> QED BY <1>1, <1>2, <1>4, Zenon DEF Own

\* What another thread does, without a notice of it, is no matter.
LEMMA OwnOfOthers ==
    ASSUME Typed, OwnCommand, UNCHANGED <<text, owed, recv0, bPrompt, sPrompt, alone, said>>,
           NEW u \in Threads, alone # u, \A v \in Threads \ {u} : th'[v] = th[v]
    PROVE  OwnCommand'
BY OwnLeft

\* A thread that disturbs another leaves nobody alone.
LEMMA OwnDisturbed ==
    ASSUME NEW t \in Threads, Disturbs(t), alone # t
    PROVE  OwnCommand'
BY OwnNobody DEF Disturbs, NobodyAlone

LEMMA BeginOwn ==
    ASSUME Typed, OwnCommand, NEW t \in Threads, NEW c \in AllCommands, Begin(t, c), Ready(t)
    PROVE  OwnCommand'
<1>1. ThreadsTyped
  BY TypedParts
<1>2. th[t].cmd = ""
  <2>1. Fit(t, th[t].pc, th[t].files, th[t].todo, th[t].cmd, th[t].reply, th[t].rc)
    BY <1>1, ThreadFacts
  <2> QED BY <2>1 DEF Ready, Fit, Outside
<1>3. \A u \in Threads \ {t} : th'[u] = th[u]
  BY BeginTyped
<1>4. ASSUME th'[t].cmd = "", UNCHANGED <<term, history>> PROVE OwnCommand'
  <2>1. UNCHANGED <<text, owed, recv0, bPrompt, sPrompt, alone, said>>
    BY <1>4 DEF term, history
  <2>2. CASE alone = t
    BY <1>4, <2>1, <2>2, OwnEmpty DEF Asks
  <2>3. CASE alone # t
    BY <1>3, <2>1, <2>3, OwnOfOthers
  <2> QED BY <2>2, <2>3
<1>5. CASE (c = "line" /\ ~live) \/ c = "Clear" \/ c = "Prompt"
  <2>1. alone' = Nobody
    BY <1>5 DEF Begin, DoDisp, clear, learn_prompt, NobodyAlone
  <2> QED BY <2>1, OwnNobody
<1>6. CASE c = "connect" /\ live
  <2>1. Go(t, "done") /\ UNCHANGED <<term, history>>
    BY <1>6 DEF Begin
  <2>2. th'[t].cmd = ""
    <3>1. Becomes(t, "done", th[t].files, th[t].todo, th[t].cmd, th[t].oldlen, th[t].silent,
                  th[t].timedout, th[t].reply, th[t].len, th[t].rc)
      BY <1>1, <2>1, GoStep DEF ThreadsTyped, Go
    <3> QED BY <1>2, <3>1 DEF Becomes
  <2> QED BY <1>4, <2>1, <2>2
<1>7. CASE c = "Recv"
  <2>1. /\ th' = [th EXCEPT ![t].pc = "recv", ![t].reply = recv0, ![t].rc = cursor_x - recv0]
        /\ UNCHANGED <<term, history>>
    BY <1>7 DEF Begin, Recv
  <2>2. th'[t].cmd = ""
    <3>1. Becomes(t, "recv", th[t].files, th[t].todo, th[t].cmd, th[t].oldlen, th[t].silent,
                  th[t].timedout, recv0, th[t].len, cursor_x - recv0)
      BY <1>1, <2>1, RecvStep DEF ThreadsTyped
    <3> QED BY <1>2, <3>1 DEF Becomes
  <2> QED BY <1>4, <2>1, <2>2
<1>8. CASE c \notin {"Clear", "Prompt", "Recv"} /\ ~(c = "line" /\ ~live) /\ ~(c = "connect" /\ live)
  <2>1. /\ th' = [th EXCEPT ![t].pc = "mark", ![t].cmd = c, ![t].timedout = FALSE]
        /\ alone' \in {t, Nobody} /\ said' = <<>> /\ UNCHANGED term
        /\ alone' = t => owed = <<>>
    BY <1>8, NobodyIsNone DEF Begin
  <2>2. Becomes(t, "mark", th[t].files, th[t].todo, c, th[t].oldlen, th[t].silent,
                FALSE, th[t].reply, th[t].len, th[t].rc)
    BY <1>1, <2>1, BeginStep DEF ThreadsTyped
  <2>3. th'[t].pc = "mark"
    BY <2>2 DEF Becomes
  <2>4. CASE alone' = t
    <3>1. Own(t)'
      BY <2>1, <2>3, <2>4 DEF Own, term
    <3> QED BY <2>4, <3>1 DEF OwnCommand
  <2> QED BY <2>1, <2>4, OwnNobody
<1> QED BY <1>5, <1>6, <1>7, <1>8

LEMMA InitOwn == Init => OwnCommand
BY NobodyIsNone DEF Init, OwnCommand

\* Sequences of which the last item follows another.
LEMMA Joined ==
    ASSUME NEW s \in Seq(Said), NEW q \in Seq(Said), q # <<>>
    PROVE  s \o q # <<>> /\ Last(s \o q) = q[Len(q)]
<1>1. Len(s \o q) = Len(s) + Len(q) /\ Len(q) > 0
  OBVIOUS
<1>2. (s \o q)[Len(s) + Len(q)] = q[Len(q)]
  OBVIOUS
<1> QED BY <1>1, <1>2 DEF Last

\* What the host says goes to the end of what has been said and of the text.
LEMMA HostSaysOwn == ASSUME Typed, OwnCommand, HostSays PROVE OwnCommand'
<1>1. PICK n \in 1..Len(owed) :
         /\ UNCHANGED alone /\ Add(SubSeq(owed, 1, n))
         /\ owed' = SubSeq(owed, n + 1, Len(owed))
         /\ bPrompt' = (bPrompt \/ owed[n] = sPrompt)
         /\ UNCHANGED <<live, lines, recv0, sPrompt, bScriptRun, bScriptPause, th, acts, quits>>
  BY DEF HostSays
<1> SUFFICES ASSUME NEW t \in Threads, alone = t, th[t].cmd \in Asks
             PROVE  Own(t)'
  BY <1>1 DEF OwnCommand
<1> DEFINE S == SubSeq(owed, 1, n)
<1>2. Own(t)
  BY DEF OwnCommand
<1>3. /\ owed \in Seq(Said) /\ text \in Seq(Said) /\ said \in Seq(Said) /\ recv0 \in Nat
      /\ owed # <<>> /\ n \in Nat /\ 1 <= n /\ n <= Len(owed)
  BY TypedParts, <1>1, Numbers DEF TermTyped, HistoryTyped
<1>4. /\ S \in Seq(Said) /\ Len(S) = n /\ \A i \in 1..n : S[i] = owed[i]
      /\ owed' \in Seq(Said) /\ Len(owed') = Len(owed) - n
      /\ \A i \in 1..(Len(owed) - n) : owed'[i] = owed[n + i]
  BY <1>1, <1>3
<1>5. text' = text \o S /\ said' = said \o S /\ th' = th /\ recv0' = recv0
      /\ sPrompt' = sPrompt
  BY <1>1, NobodyIsNone DEF Add
<1> HIDE DEF S
<1>6. /\ Len(text') = Len(text) + n /\ Len(said') = Len(said) + n
      /\ \A i \in 1..Len(said) : said'[i] = said[i]
      /\ \A i \in 1..Len(text) : text'[i] = text[i]
      /\ \A i \in 1..n : said'[Len(said) + i] = S[i] /\ text'[Len(text) + i] = S[i]
  BY <1>3, <1>4, <1>5
<1>7. th[t].pc \in {"wait", "reply", "done"} /\ Owes /\ Marked
  BY <1>2, <1>3 DEF Own
<1>8. Owes'
  <2>1. Len(said') + Len(owed') <= Len(Answer)'
    <3>1. Len(said) + Len(owed) <= Len(Answer)
      BY <1>7 DEF Owes
    <3> QED BY <1>3, <1>4, <1>6, <3>1 DEF Answer
  <2>2. ASSUME NEW i \in 1..Len(owed'), owed'[i] = "prompt" PROVE i = Len(owed')
    <3>1. owed[n + i] = "prompt" /\ n + i \in 1..Len(owed)
      BY <1>3, <1>4, <2>2
    <3>2. n + i = Len(owed)
      BY <1>7, <3>1 DEF Owes
    <3>3. PICK k \in Nat : k = Len(owed)
      BY <1>3
    <3>4. Len(owed') = k - n /\ n \in Nat /\ n <= k
      BY <1>3, <1>4, <3>3
    <3>5. i \in 1..(k - n) /\ n + i = k
      BY <3>2, <3>3, <3>4
    <3> QED BY ONLY <3>3, <3>4, <3>5
  <2> QED BY <2>1, <2>2 DEF Owes
<1>9. Marked'
  <2>1. Len(text) = recv0 + Len(said) /\ \A i \in 1..Len(said) : text[recv0 + i] = said[i]
    BY <1>7 DEF Marked
  <2>2. PICK k \in Nat : k = Len(said)
    BY <1>3
  <2>3. PICK r \in Nat : r = recv0
    BY <1>3
  <2>4. ASSUME NEW i \in 1..(k + n) PROVE text'[r + i] = said'[i]
    <3>1. CASE i <= k
      <4>1. r + i \in 1..Len(text) /\ i \in 1..Len(said)
        BY <2>1, <2>2, <2>3, <3>1
      <4> QED BY <1>6, <2>1, <2>3, <4>1
    <3>2. CASE i > k
      <4>1. PICK j \in 1..n : i = k + j
        <5>1. i - k \in 1..n /\ i = k + (i - k)
          BY <1>3, <3>2
        <5> QED BY <5>1
      <4>2. r + i = Len(text) + j /\ i = Len(said) + j
        BY <2>1, <2>2, <2>3, <4>1
      <4> QED BY <1>6, <4>2
    <3> QED BY <3>1, <3>2, <1>3
  <2> QED BY <1>5, <1>6, <2>1, <2>2, <2>3, <2>4 DEF Marked
<1>10. ~Answered
  BY <1>3 DEF Answered
<1>11. bPrompt' /\ sPrompt = "prompt" /\ th[t].pc = "wait" => Answered'
  <2> SUFFICES ASSUME bPrompt', sPrompt = "prompt", th[t].pc = "wait" PROVE Answered'
    OBVIOUS
  <2>1. owed[n] = "prompt"
    BY <1>1, <1>2, <1>10 DEF Own
  <2>2. n = Len(owed)
    BY <1>3, <1>7, <2>1 DEF Owes
  <2>3. owed' = <<>>
    BY <1>4, <2>2
  <2>4. S # <<>> /\ S[Len(S)] = "prompt"
    BY <1>3, <1>4, <2>1
  <2>5. said' # <<>> /\ Last(said') = "prompt"
    BY <1>3, <1>4, <1>5, <2>4, Joined
  <2> QED BY <2>3, <2>5 DEF Answered, Last
<1>12. ASSUME NEW u \in Threads, NEW k, Taken(u, k) PROVE Taken(u, k)'
  <2>1. k \in 0..Len(said) /\ (th[u].timedout \/ sPrompt # "prompt")
    BY <1>10, <1>12 DEF Taken
  <2>2. k \in 0..Len(said')
    BY <1>3, <1>6, <2>1
  <2> QED BY <1>5, <2>1, <2>2 DEF Taken
<1>13. Taken(t, th[t].rc) => Taken(t, th[t].rc)'
  BY <1>5, <1>12
<1> QED BY <1>2, <1>5, <1>7, <1>8, <1>9, <1>11, <1>13, Zenon DEF Own

\* The pc, and nothing else, is another.
LEMMA GoValues ==
    ASSUME ThreadsTyped, NEW t \in Threads, NEW p, Go(t, p)
    PROVE  /\ th'[t].pc = p /\ th'[t].cmd = th[t].cmd /\ th'[t].reply = th[t].reply
           /\ th'[t].rc = th[t].rc /\ th'[t].timedout = th[t].timedout
           /\ \A u \in Threads \ {t} : th'[u] = th[u]
<1>1. Becomes(t, p, th[t].files, th[t].todo, th[t].cmd, th[t].oldlen, th[t].silent,
              th[t].timedout, th[t].reply, th[t].len, th[t].rc)
  BY GoStep DEF ThreadsTyped, Go
<1> QED BY <1>1, Zenon DEF Becomes

LEMMA MarkOwn == ASSUME Typed, OwnCommand, NEW t \in Threads, Mark(t) PROVE OwnCommand'
<1>1. /\ th[t].pc = "mark" /\ ~bPrompt' /\ Go(t, "recv0") /\ Disturbs(t)
      /\ UNCHANGED <<text, owed, recv0, sPrompt>>
  BY DEF Mark, At
<1>2. th'[t].pc = "recv0" /\ th'[t].cmd = th[t].cmd
  BY <1>1, TypedParts, GoValues
<1>3. CASE alone = t /\ th[t].cmd \in Asks
  <2>1. Own(t) /\ UNCHANGED <<alone, said>>
    BY <1>1, <1>3 DEF OwnCommand, Disturbs, history
  <2>2. Own(t)'
    BY <1>1, <1>2, <2>1 DEF Own
  <2> QED BY <1>3, <2>1, <2>2 DEF OwnCommand
<1>4. CASE alone = t /\ th[t].cmd \notin Asks
  BY <1>1, <1>2, <1>4, OwnEmpty DEF Disturbs, history
<1>5. CASE alone # t
  BY <1>1, <1>5, OwnDisturbed
<1> QED BY <1>3, <1>4, <1>5

LEMMA MarkRecv0Own == ASSUME Typed, OwnCommand, NEW t \in Threads, MarkRecv0(t) PROVE OwnCommand'
<1>1. /\ th[t].pc = "recv0" /\ recv0' = cursor_x /\ Go(t, "act") /\ Disturbs(t)
      /\ UNCHANGED <<text, owed, bPrompt, sPrompt>>
  BY DEF MarkRecv0, At
<1>2. th'[t].pc = "act" /\ th'[t].cmd = th[t].cmd
  BY <1>1, TypedParts, GoValues
<1>3. CASE alone = t /\ th[t].cmd \in Asks
  <2>1. Own(t) /\ UNCHANGED <<alone, said>>
    BY <1>1, <1>3 DEF OwnCommand, Disturbs, history
  <2>2. cursor_x' = cursor_x
    BY <1>1 DEF cursor_x
  <2>3. Own(t)'
    BY <1>1, <1>2, <2>1, <2>2 DEF Own
  <2> QED BY <1>3, <2>1, <2>3 DEF OwnCommand
<1>4. CASE alone = t /\ th[t].cmd \notin Asks
  BY <1>1, <1>2, <1>4, OwnEmpty DEF Disturbs, history
<1>5. CASE alone # t
  BY <1>1, <1>5, OwnDisturbed
<1> QED BY <1>3, <1>4, <1>5

LEMMA RecvMarkOwn == ASSUME Typed, OwnCommand, NEW t \in Threads, RecvMark(t) PROVE OwnCommand'
<1>1. th[t].pc = "recv" /\ Go(t, "done") /\ Disturbs(t)
  BY DEF RecvMark, At
<1>2. th'[t].cmd = th[t].cmd /\ th[t].cmd = ""
  <2>1. Fit(t, th[t].pc, th[t].files, th[t].todo, th[t].cmd, th[t].reply, th[t].rc)
    BY TypedParts, ThreadFacts
  <2> QED BY <1>1, <2>1, TypedParts, GoValues DEF Fit
<1>3. CASE alone = t
  BY <1>1, <1>2, <1>3, OwnEmpty DEF Disturbs, history, Asks
<1>4. CASE alone # t
  BY <1>1, <1>4, OwnDisturbed
<1> QED BY <1>3, <1>4

\* The line is sent and owed an answer; "!scp" puts its own line into the text.
LEMMA ActOwn == ASSUME Typed, OwnCommand, NEW t \in Threads, Act(t) PROVE OwnCommand'
<1> DEFINE c == th[t].cmd
           r == IF c = "line" THEN 0 ELSE recv0
<1>1. /\ th[t].pc = "act"
      /\ alone' = IF alone = t THEN t ELSE Nobody
      /\ IF c \in {"scp", "Disp"} THEN Add(<<"out">>)
         ELSE said' = (IF alone = t THEN said ELSE <<>>) /\ UNCHANGED text
      /\ UNCHANGED <<recv0, bPrompt, sPrompt>>
  BY DEF Act, At
<1>2. CASE alone # t
  BY <1>1, <1>2, OwnNobody
<1>3. CASE alone = t /\ c \notin Asks
  <2>1. Go(t, "done")
    BY <1>3 DEF Act
  <2>2. th'[t].cmd = c
    BY <2>1, TypedParts, GoValues
  <2> QED BY <1>1, <1>3, <2>2, OwnEmpty
<1>4. CASE alone = t /\ c \in Asks
  <2>1. Own(t) /\ owed = <<>> /\ said = <<>> /\ ~bPrompt /\ recv0 = cursor_x
    BY <1>1, <1>4 DEF OwnCommand, Own
  <2>2. th' = [th EXCEPT ![t].pc = "wait", ![t].oldlen = recv0, ![t].reply = r]
    BY <1>4 DEF Act
  <2>3. th'[t].pc = "wait" /\ th'[t].cmd = c /\ th'[t].reply = r
    <3>1. Becomes(t, "wait", th[t].files, th[t].todo, th[t].cmd, recv0, th[t].silent,
                  th[t].timedout, r, th[t].len, th[t].rc)
      BY <2>2, SentStep, TypedParts DEF ThreadsTyped
    <3> QED BY <3>1 DEF Becomes
  <2>4. text \in Seq(Said) /\ Len(text) \in Nat /\ recv0 = Len(text)
    BY <2>1, TypedParts DEF TermTyped, cursor_x
  <2>5. Owes' /\ Marked'
    <3>1. CASE c = "scp"
      <4>1. text' = text \o <<"out">> /\ said' = <<"out">>
        <5>1. alone' # Nobody /\ Add(<<"out">>)
          BY <1>1, <1>4, <3>1, NobodyIsNone
        <5> QED BY <2>1, <5>1 DEF Add
      <4>2. owed' = <<"prompt">> \/ owed' = <<>>
        <5>1. owed' = owed \o <<"prompt">> \/ owed' = owed
          <6>1. Tell(<<"prompt">>)
            BY <3>1 DEF Act
          <6> QED BY <6>1, TypedParts, TellTyped DEF Said1
        <5> QED BY <2>1, <5>1
      <4>3. Len(said') = 1 /\ Len(Answer)' = 2
        BY <4>1 DEF Answer
      <4>4. ASSUME owed' = <<"prompt">> PROVE Owes'
        <5>1. Len(owed') = 1
          BY <4>4
        <5>2. \A i \in 1..Len(owed') : i = Len(owed')
          BY <5>1
        <5> QED BY <4>3, <5>1, <5>2 DEF Owes
      <4>5. ASSUME owed' = <<>> PROVE Owes'
        <5>1. Len(owed') = 0
          BY <4>5
        <5> QED BY <4>3, <5>1 DEF Owes
      <4>6. Marked'
        BY <1>1, <2>4, <4>1 DEF Marked
      <4> QED BY <4>2, <4>4, <4>5, <4>6
    <3>2. CASE c \in {"line", "connect"}
      <4>1. text' = text /\ said' = <<>>
        BY <1>1, <1>4, <2>1, <3>2
      <4>2. owed' = <<"out", "prompt">> \/ owed' = <<>>
        <5>1. Tell(Answer)
          BY <3>2 DEF Act
        <5>2. owed' = owed \o Answer \/ owed' = owed
          BY <5>1, TypedParts, TellTyped DEF Said1
        <5>3. <<>> \o Answer = <<"out", "prompt">>
          BY DEF Answer
        <5> QED BY <2>1, <5>2, <5>3
      <4>3. Owes'
        <5>1. ASSUME owed' = <<"out", "prompt">> PROVE Owes'
          BY <4>1, <5>1 DEF Owes, Answer
        <5>2. ASSUME owed' = <<>> PROVE Owes'
          <6>1. Len(owed') = 0 /\ Len(said') = 0 /\ Len(Answer)' = 2
            BY <4>1, <5>2 DEF Answer
          <6> QED BY <6>1 DEF Owes
        <5> QED BY <4>2, <5>1, <5>2
      <4>4. Marked'
        BY <1>1, <2>4, <4>1 DEF Marked
      <4> QED BY <4>3, <4>4
    <3> QED BY <1>4, <3>1, <3>2 DEF Asks
  <2>6. Own(t)'
    BY <1>1, <2>1, <2>3, <2>5 DEF Own
  <2> QED BY <1>1, <1>4, <2>6 DEF OwnCommand
<1> QED BY <1>2, <1>3, <1>4

LEMMA PollOwn == ASSUME Typed, OwnCommand, NEW t \in Threads, Poll(t) PROVE OwnCommand'
<1> DEFINE o == IF cursor_x > th[t].oldlen THEN cursor_x ELSE th[t].oldlen
           s == IF cursor_x > th[t].oldlen THEN 1 ELSE th[t].silent + 1
<1>1. th[t].pc = "wait" /\ UNCHANGED <<text, owed, recv0, bPrompt, sPrompt, alone, said>>
  BY DEF Poll, At, term, history
<1>2. th' = [th EXCEPT ![t].silent = s, ![t].oldlen = o]
  <2>1. PICK U : th \in [Threads -> Record(U)]
    BY TypedParts DEF ThreadsTyped, Form
  <2> QED BY <2>1 DEF Poll, Record
<1> HIDE DEF o, s
<1>3. Becomes(t, th[t].pc, th[t].files, th[t].todo, th[t].cmd, o, s,
              th[t].timedout, th[t].reply, th[t].len, th[t].rc)
  BY <1>2, PollStep, TypedParts DEF ThreadsTyped
<1>4. CASE alone # t
  <2>1. \A u \in Threads \ {t} : th'[u] = th[u]
    BY <1>3, Zenon DEF Becomes
  <2> QED BY <1>1, <1>4, <2>1, OwnOfOthers
<1>5. CASE alone = t
  <2>1. th'[t].pc = "wait" /\ th'[t].cmd = th[t].cmd /\ th'[t].reply = th[t].reply
    BY <1>1, <1>3, Zenon DEF Becomes
  <2>2. CASE th[t].cmd \in Asks
    <3>1. Own(t)
      BY <1>5, <2>2 DEF OwnCommand
    <3>2. Owes' = Owes /\ Marked' = Marked /\ Answered' = Answered
      BY <1>1, Zenon DEF Owes, Marked, Answered
    <3>3. Own(t)'
      BY <1>1, <2>1, <3>1, <3>2 DEF Own
    <3> QED BY <1>1, <1>5, <3>3 DEF OwnCommand
  <2> QED BY <1>1, <1>5, <2>1, <2>2, OwnEmpty
<1> QED BY <1>4, <1>5

\* The wait takes all the text from the mark on, which is what has been said.
LEMMA WaitedOwn == ASSUME Typed, OwnCommand, NEW t \in Threads, Waited(t) PROVE OwnCommand'
<1>1. Disturbs(t) /\ th[t].pc = "wait" /\ UNCHANGED <<text, owed, recv0, sPrompt>>
  BY DEF Waited, At
<1>2. Becomes(t, IF th[t].cmd = "line" THEN "reply" ELSE "done", th[t].files, th[t].todo,
              th[t].cmd, 0, 0, ~bPrompt, th[t].reply, th[t].len, cursor_x - recv0)
  BY TypedParts, WaitedThread
<1>3. /\ th'[t].pc = (IF th[t].cmd = "line" THEN "reply" ELSE "done")
      /\ th'[t].cmd = th[t].cmd /\ th'[t].timedout = ~bPrompt
      /\ th'[t].reply = th[t].reply /\ th'[t].rc = cursor_x - recv0
  BY <1>2, Zenon DEF Becomes
<1>4. CASE alone # t
  BY <1>1, <1>4, OwnDisturbed
<1>5. CASE alone = t /\ th[t].cmd \notin Asks
  BY <1>1, <1>3, <1>5, OwnEmpty DEF Disturbs, history
<1>6. CASE alone = t /\ th[t].cmd \in Asks
  <2>1. Own(t) /\ UNCHANGED <<alone, said>>
    BY <1>1, <1>6 DEF OwnCommand, Disturbs, history
  <2>2. /\ Owes /\ Marked
        /\ bPrompt /\ sPrompt = "prompt" => Answered
        /\ th[t].cmd # "line" => th[t].reply = recv0
    BY <1>1, <2>1 DEF Own
  <2>3. Owes' = Owes /\ Marked' = Marked /\ Answered' = Answered
    BY <1>1, <2>1, Zenon DEF Owes, Marked, Answered
  <2>4. th'[t].rc = Len(said) /\ Len(said) \in 0..Len(said')
    <3>1. Len(text) = recv0 + Len(said)
      BY <2>2 DEF Marked
    <3>2. PICK r \in Nat : r = recv0
      BY TypedParts, Numbers DEF TermTyped
    <3>3. PICK k \in Nat : k = Len(said)
      BY TypedParts DEF HistoryTyped
    <3>4. th'[t].rc = (r + k) - r
      BY <1>3, <3>1, <3>2, <3>3 DEF cursor_x
    <3> QED BY <2>1, <3>2, <3>3, <3>4
  <2>5. Taken(t, Len(said))'
    <3>1. ~th'[t].timedout => bPrompt
      BY <1>3, Zenon
    <3>2. Len(said) = Len(said') /\ sPrompt' = sPrompt
      BY <1>1, <2>1
    <3> QED BY <2>2, <2>3, <2>4, <3>1, <3>2, Zenon DEF Taken
  <2>6. Taken(t, th[t].rc)'
    BY <2>1, <2>4, <2>5
  <2>7. Own(t)'
    BY <1>1, <1>3, <2>2, <2>3, <2>6 DEF Own
  <2> QED BY <1>6, <2>1, <2>7 DEF OwnCommand
<1> QED BY <1>4, <1>5, <1>6

LEMMA ReplyOwn == ASSUME Typed, OwnCommand, NEW t \in Threads, Reply(t) PROVE OwnCommand'
<1>1. /\ th[t].pc = "reply"
      /\ UNCHANGED <<text, owed, recv0, bPrompt, sPrompt, alone, said>>
  BY DEF Reply, At, term, history
<1>2. Becomes(t, "done", th[t].files, th[t].todo, th[t].cmd, th[t].oldlen, th[t].silent,
              th[t].timedout, recv0, th[t].len, th[t].rc)
  BY TypedParts, ReplyThread
<1>3. /\ th'[t].pc = "done" /\ th'[t].cmd = th[t].cmd /\ th'[t].timedout = th[t].timedout
      /\ th'[t].reply = recv0 /\ th'[t].rc = th[t].rc
      /\ \A u \in Threads \ {t} : th'[u] = th[u]
  BY <1>2, Zenon DEF Becomes
<1>4. CASE alone # t
  BY <1>1, <1>3, <1>4, OwnOfOthers
<1>5. CASE alone = t /\ th[t].cmd \notin Asks
  BY <1>1, <1>3, <1>5, OwnEmpty
<1>6. CASE alone = t /\ th[t].cmd \in Asks
  <2>1. Own(t)
    BY <1>6 DEF OwnCommand
  <2>2. Owes /\ Marked /\ Taken(t, th[t].rc)
    BY <1>1, <2>1 DEF Own
  <2>3. Owes' = Owes /\ Marked' = Marked /\ Answered' = Answered
    BY <1>1, Zenon DEF Owes, Marked, Answered
  <2>4. Taken(t, th[t].rc)'
    BY <1>1, <1>3, <2>2, <2>3, Zenon DEF Taken
  <2>5. Own(t)'
    BY <1>1, <1>3, <2>2, <2>3, <2>4, Zenon DEF Own
  <2> QED BY <1>1, <1>6, <2>5 DEF OwnCommand
<1> QED BY <1>4, <1>5, <1>6

LEMMA StartScriptOwn ==
    ASSUME Typed, OwnCommand, NEW t \in Scripts, StartScript(t)
    PROVE  OwnCommand'
<1> USE HttpIsNoScript
<1>1. th[t].pc = "start"
  BY DEF StartScript, At
<1>2. CASE th[t].files /\ Begin(t, "line")
  <2>1. Ready(t) /\ "line" \in AllCommands
    BY <1>1, <1>2 DEF Ready, AllCommands
  <2> QED BY <1>1, <1>2, <2>1, BeginOwn
<1>3. CASE Go(t, "loop") /\ UNCHANGED <<term, history>>
  <2>1. th[t].cmd = ""
    <3>1. Fit(t, th[t].pc, th[t].files, th[t].todo, th[t].cmd, th[t].reply, th[t].rc)
      BY TypedParts, ThreadFacts
    <3> QED BY <1>1, <3>1 DEF Fit, Outside
  <2>2. th'[t].cmd = "" /\ \A u \in Threads \ {t} : th'[u] = th[u]
    BY <1>3, <2>1, TypedParts, GoValues
  <2>3. UNCHANGED <<text, owed, recv0, bPrompt, sPrompt, alone, said>>
    BY <1>3 DEF term, history
  <2>4. CASE alone = t
    BY <2>2, <2>3, <2>4, OwnEmpty DEF Asks
  <2>5. CASE alone # t
    BY <1>1, <2>2, <2>3, <2>5, OwnOfOthers
  <2> QED BY <2>4, <2>5
<1> QED BY <1>2, <1>3 DEF StartScript

LEMMA NextCommandOwn ==
    ASSUME Typed, OwnCommand, NEW t \in Scripts, NextCommand(t)
    PROVE  OwnCommand'
<1> USE HttpIsNoScript
<1>1. th[t].pc = "next" /\ th[t].todo > 0
  <2>1. Fit(t, th[t].pc, th[t].files, th[t].todo, th[t].cmd, th[t].reply, th[t].rc)
    BY TypedParts, ThreadFacts
  <2> QED BY <2>1 DEF NextCommand, At, Fit
<1>2. CASE th[t].files
  BY <1>2, OwnNobody DEF NextCommand
<1>3. CASE ~th[t].files
  <2>1. PICK c \in Commands[t] : Begin(t, c)
    BY <1>3 DEF NextCommand
  <2>2. c \in AllCommands /\ Ready(t)
    BY <1>1, CommandsAre DEF Ready
  <2> QED BY <2>1, <2>2, BeginOwn
<1> QED BY <1>2, <1>3

LEMMA TestOwn ==
    ASSUME Typed, OwnCommand, NEW t \in Scripts, TestRun(t) \/ TestPause(t)
    PROVE  OwnCommand'
<1> USE HttpIsNoScript
<1>1. UNCHANGED <<text, owed, recv0, bPrompt, sPrompt, alone, said>>
  BY DEF TestRun, TestPause, term, history
<1>2. th'[t].cmd = "" /\ \A u \in Threads \ {t} : th'[u] = th[u]
  BY TypedParts, TestThread
<1>3. CASE alone = t
  BY <1>1, <1>2, <1>3, OwnEmpty DEF Asks
<1>4. CASE alone # t
  BY <1>1, <1>2, <1>4, OwnOfOthers
<1> QED BY <1>3, <1>4

\* A command that is over was alone until then, or is no matter to the one that is.
LEMMA LeavesOwn ==
    ASSUME Typed, OwnCommand, NEW t \in Threads, Leaves(t), UNCHANGED term,
           \A u \in Threads \ {t} : th'[u] = th[u]
    PROVE  OwnCommand'
<1>1. CASE alone = t
  BY <1>1, OwnNobody DEF Leaves, NobodyAlone
<1>2. CASE alone # t
  <2>1. UNCHANGED <<text, owed, recv0, bPrompt, sPrompt, alone, said>>
    BY <1>2 DEF Leaves, term, history
  <2> QED BY <1>2, <2>1, OwnOfOthers
<1> QED BY <1>1, <1>2

LEMMA CommandDoneOwn ==
    ASSUME Typed, OwnCommand, NEW t \in Scripts, CommandDone(t)
    PROVE  OwnCommand'
BY HttpIsNoScript, TypedParts, CommandDoneThread, LeavesOwn

LEMMA EndScriptOwn ==
    ASSUME Typed, OwnCommand, NEW t \in Scripts, EndScript(t)
    PROVE  OwnCommand'
<1> USE HttpIsNoScript
<1>1. Disturbs(t) /\ th'[t].cmd = ""
  BY TypedParts, EndScriptThread DEF EndScript
<1>2. CASE alone = t
  BY <1>1, <1>2, OwnEmpty DEF Asks, Disturbs, history
<1>3. CASE alone # t
  BY <1>1, <1>3, OwnDisturbed
<1> QED BY <1>2, <1>3

LEMMA UserOwn == ASSUME Typed, OwnCommand, User PROVE OwnCommand'
<1>1. CASE Type \/ UserClears
  BY <1>1, OwnNobody DEF Type, UserClears, NobodyAlone
<1>2. CASE quit_script \/ pause_script
  <2>1. th' = th /\ UNCHANGED <<text, owed, recv0, bPrompt, sPrompt, alone, said>>
    BY <1>2 DEF quit_script, pause_script, term, history
  <2> QED BY <2>1, OwnLeft
<1>3. CASE \E t \in Scripts, files \in BOOLEAN : run_script(t, files)
  BY <1>3, OwnNobody DEF run_script, NobodyAlone
<1> QED BY <1>1, <1>2, <1>3 DEF User

LEMMA RequestOwn == ASSUME Typed, OwnCommand, Request PROVE OwnCommand'
<1> USE HttpIsNoScript
<1>1. PICK c \in Commands[Http] : Begin(Http, c)
  BY DEF Request
<1>2. th[Http].pc = "none"
  BY DEF Request, At
<1>3. c \in AllCommands /\ Ready(Http)
  BY <1>2, CommandsAre DEF Ready
<1> QED BY <1>1, <1>2, <1>3, BeginOwn

LEMMA HeaderOwn == ASSUME Typed, OwnCommand, Header PROVE OwnCommand'
BY HttpIsNoScript, TypedParts, HeaderThread, LeavesOwn DEF Header

LEMMA PacketOwn == ASSUME Typed, OwnCommand, Packet PROVE OwnCommand'
<1> USE HttpIsNoScript
<1>1. /\ th[Http].pc = "body"
      /\ UNCHANGED <<text, owed, recv0, bPrompt, sPrompt, alone, said>>
  BY DEF Packet, At, term, history
<1>2. th'[Http].cmd = "" /\ \A u \in Threads \ {Http} : th'[u] = th[u]
  BY <1>1, TypedParts, PacketStays
<1>3. CASE alone = Http
  BY <1>1, <1>2, <1>3, OwnEmpty DEF Asks
<1>4. CASE alone # Http
  BY <1>1, <1>2, <1>4, OwnOfOthers
<1> QED BY <1>3, <1>4

LEMMA NextOwn == IInv /\ [Next]_vars => OwnCommand'
<1> SUFFICES ASSUME Typed, OwnCommand, [Next]_vars PROVE OwnCommand'
  BY DEF IInv
<1>1. CASE UNCHANGED vars
  BY <1>1, OwnLeft DEF vars, term, history
<1>2. CASE HostSays
  BY <1>2, HostSaysOwn
<1>3. CASE HostEnds
  BY <1>3, OwnNobody DEF HostEnds, NobodyAlone
<1>4. CASE User
  BY <1>4, UserOwn
<1>5. ASSUME NEW t \in Threads, command(t) PROVE OwnCommand'
  BY <1>5, MarkOwn, MarkRecv0Own, ActOwn, PollOwn, WaitedOwn, ReplyOwn, RecvMarkOwn DEF command
<1>6. ASSUME NEW t \in Scripts, Script(t) PROVE OwnCommand'
  BY <1>5, <1>6, HttpIsNoScript, StartScriptOwn, TestOwn, NextCommandOwn, CommandDoneOwn, EndScriptOwn DEF Script
<1>7. CASE Request \/ Server
  BY <1>5, <1>7, HttpIsNoScript, RequestOwn, HeaderOwn, PacketOwn DEF Server
<1> QED BY <1>1, <1>2, <1>3, <1>4, <1>5, <1>6, <1>7 DEF Next

\* The first n of a sequence, of another one that holds them.
LEMMA FirstOf ==
    ASSUME NEW s \in Seq(Said), NEW q \in Seq(Said), NEW n \in 0..Len(s), Len(q) = n,
           \A i \in 1..n : q[i] = s[i]
    PROVE  /\ IsPrefix(q, s)
           /\ n = Len(s) => q = s
<1>1. n \in Nat /\ n <= Len(s)
  OBVIOUS
<1>2. SubSeq(q, 1, Len(q)) = SubSeq(s, 1, Len(q))
  <2>1. /\ SubSeq(q, 1, n) \in Seq(Said) /\ Len(SubSeq(q, 1, n)) = n
        /\ \A i \in 1..n : SubSeq(q, 1, n)[i] = q[i]
    BY <1>1
  <2>2. /\ SubSeq(s, 1, n) \in Seq(Said) /\ Len(SubSeq(s, 1, n)) = n
        /\ \A i \in 1..n : SubSeq(s, 1, n)[i] = s[i]
    BY <1>1
  <2> QED BY <1>1, <2>1, <2>2
<1>3. n = Len(s) => q = s
  OBVIOUS
<1> QED BY <1>1, <1>2, <1>3 DEF IsPrefix

LEMMA OwnReply == IInv => ReplyIsOwn
<1> SUFFICES ASSUME IInv, NEW t \in Threads, alone = t, th[t].pc = "done", th[t].cmd \in Asks
             PROVE  /\ IsPrefix(Got(t), said)
                    /\ ~th[t].timedout /\ sPrompt = "prompt" =>
                           /\ Got(t) = said /\ Last(said) = "prompt"
                           /\ owed = <<>>
  BY DEF ReplyIsOwn, At
<1>1. Own(t) /\ Typed
  BY HttpIsNoScript DEF IInv, OwnCommand
<1>2. Marked /\ Taken(t, th[t].rc) /\ th[t].reply = recv0
  BY <1>1 DEF Own
<1>3. PICK n \in Nat, k \in Nat, r \in Nat : k = Len(said) /\ n = th[t].rc /\ n <= k /\ r = recv0
  <2>1. th[t].rc \in 0..Len(said) /\ Len(said) \in Nat /\ recv0 \in Nat
    BY <1>1, <1>2, TypedParts, Numbers DEF Taken, HistoryTyped, TermTyped
  <2> QED BY <2>1
<1>4. text \in Seq(Said) /\ said \in Seq(Said)
  BY <1>1, TypedParts DEF TermTyped, HistoryTyped
<1>5. Len(text) = r + k /\ \A i \in 1..k : text[r + i] = said[i]
  BY <1>2, <1>3 DEF Marked
<1>6. Got(t) = SubSeq(text, r + 1, r + n)
  BY <1>2, <1>3 DEF Got
<1>7. /\ Got(t) \in Seq(Said) /\ Len(Got(t)) = n
      /\ \A i \in 1..n : Got(t)[i] = text[r + i]
  <2>1. /\ SubSeq(text, r + 1, r + n) \in Seq(Said) /\ Len(SubSeq(text, r + 1, r + n)) = n
        /\ \A i \in 1..n : SubSeq(text, r + 1, r + n)[i] = text[r + i]
    <3>1. /\ Len(SubSeq(text, r + 1, r + n)) = IF r + 1 <= r + n THEN (r + n) - (r + 1) + 1 ELSE 0
          /\ SubSeq(text, r + 1, r + n) \in Seq(Said)
          /\ \A i \in 1..((r + n) - (r + 1) + 1) : SubSeq(text, r + 1, r + n)[i] = text[r + 1 + i - 1]
      <4>1. r + 1 \in 1..(Len(text) + 1) /\ r + n \in 0..Len(text)
        BY <1>3, <1>5
      <4> QED BY ONLY <1>4, <4>1, SubSeqProperties
    <3>2. (r + n) - (r + 1) + 1 = n /\ (r + 1 <= r + n <=> n # 0)
      BY <1>3
    <3>3. \A i \in 1..n : r + 1 + i - 1 = r + i
      BY <1>3
    <3> QED BY <3>1, <3>2, <3>3
  <2> QED BY <1>6, <2>1
<1>8. \A i \in 1..n : Got(t)[i] = said[i]
  BY <1>3, <1>5, <1>7
<1>9. IsPrefix(Got(t), said) /\ (n = Len(said) => Got(t) = said)
  <2>1. n \in 0..Len(said)
    BY <1>3
  <2> QED BY <1>4, <1>7, <1>8, <2>1, FirstOf
<1> QED BY <1>2, <1>3, <1>9 DEF Taken, Answered

\* A step of command() is another thread's no matter, and stays in the command.
LEMMA CommandStays ==
    ASSUME Typed, NEW t \in Threads, command(t)
    PROVE  /\ \A u \in Threads \ {t} : th'[u] = th[u]
           /\ th[t].pc \notin Outside /\ th'[t].pc \notin Outside
           /\ UNCHANGED <<bScriptRun, quits>>
<1> USE TypedParts DEF Outside
<1>1. CASE Mark(t)
  BY <1>1, GoValues DEF Mark, At
<1>2. CASE MarkRecv0(t)
  BY <1>2, GoValues DEF MarkRecv0, At
<1>3. CASE RecvMark(t)
  BY <1>3, GoValues DEF RecvMark, At
<1>4. CASE Act(t)
  <2> DEFINE r == IF th[t].cmd = "line" THEN 0 ELSE recv0
  <2>1. th[t].pc = "act" /\ UNCHANGED <<bScriptRun, quits>>
    BY <1>4 DEF Act, At
  <2>2. CASE Go(t, "done")
    BY <2>1, <2>2, GoValues
  <2>3. CASE th' = [th EXCEPT ![t].pc = "wait", ![t].oldlen = recv0, ![t].reply = r]
    <3>1. Becomes(t, "wait", th[t].files, th[t].todo, th[t].cmd, recv0, th[t].silent,
                  th[t].timedout, r, th[t].len, th[t].rc)
      BY <2>3, SentStep DEF ThreadsTyped
    <3> QED BY <2>1, <3>1, Zenon DEF Becomes
  <2> QED BY <1>4, <2>2, <2>3 DEF Act
<1>5. CASE Poll(t)
  <2> DEFINE o == IF cursor_x > th[t].oldlen THEN cursor_x ELSE th[t].oldlen
             s == IF cursor_x > th[t].oldlen THEN 1 ELSE th[t].silent + 1
  <2>1. th[t].pc = "wait" /\ UNCHANGED <<bScriptRun, quits>>
    BY <1>5 DEF Poll, At
  <2>2. th' = [th EXCEPT ![t].silent = s, ![t].oldlen = o]
    <3>1. PICK U : th \in [Threads -> Record(U)]
      BY DEF ThreadsTyped, Form
    <3> QED BY <1>5, <3>1 DEF Poll, Record
  <2> HIDE DEF o, s
  <2>3. Becomes(t, th[t].pc, th[t].files, th[t].todo, th[t].cmd, o, s,
                th[t].timedout, th[t].reply, th[t].len, th[t].rc)
    BY <2>2, PollStep DEF ThreadsTyped
  <2> QED BY <2>1, <2>3, Zenon DEF Becomes
<1>6. CASE Waited(t)
  <2> DEFINE p == IF th[t].cmd = "line" THEN "reply" ELSE "done"
  <2>1. th[t].pc = "wait" /\ UNCHANGED <<bScriptRun, quits>>
    BY <1>6 DEF Waited, At
  <2>2. Becomes(t, p, th[t].files, th[t].todo, th[t].cmd, 0, 0, ~bPrompt,
                th[t].reply, th[t].len, cursor_x - recv0)
    BY <1>6, WaitedThread
  <2>3. p \notin Outside
    OBVIOUS
  <2> HIDE DEF p
  <2> QED BY <2>1, <2>2, <2>3, Zenon DEF Becomes
<1>7. CASE Reply(t)
  <2>1. th[t].pc = "reply" /\ UNCHANGED <<bScriptRun, quits>>
    BY <1>7 DEF Reply, At
  <2>2. Becomes(t, "done", th[t].files, th[t].todo, th[t].cmd, th[t].oldlen, th[t].silent,
                th[t].timedout, recv0, th[t].len, th[t].rc)
    BY <1>7, ReplyThread
  <2> QED BY <2>1, <2>2, Zenon DEF Becomes
<1> QED BY <1>1, <1>2, <1>3, <1>4, <1>5, <1>6, <1>7 DEF command

\* A step of the HTTP server is no script's matter.
LEMMA HttpApart ==
    ASSUME Typed, Request \/ Header \/ Packet \/ command(Http)
    PROVE  (\A u \in Scripts : th'[u] = th[u]) /\ UNCHANGED <<bScriptRun, quits>>
<1> USE TypedParts, HttpIsNoScript
<1>1. CASE Request
  <2>1. PICK c \in Commands[Http] : Begin(Http, c)
    BY <1>1 DEF Request
  <2>2. th[Http].pc = "none"
    BY <1>1 DEF Request, At
  <2>3. c \in AllCommands /\ Ready(Http)
    BY <2>2, CommandsAre DEF Ready
  <2>4. \A u \in Threads \ {Http} : th'[u] = th[u]
    BY <2>1, <2>3, BeginTyped
  <2> QED BY <1>1, <2>4 DEF Request
<1>2. CASE Header
  BY <1>2, HeaderThread DEF Header
<1>3. CASE Packet
  BY <1>3, PacketStays DEF Packet
<1>4. CASE command(Http)
  BY <1>4, CommandStays
<1> QED BY <1>1, <1>2, <1>3, <1>4

\* A step that leaves scripts, bScriptRun and what was quit alone.
LEMMA QuitsSame ==
    ASSUME Quits, \A u \in Scripts : th'[u] = th[u], UNCHANGED <<bScriptRun, quits>>
    PROVE  Quits'
BY DEF Quits, Quit, quits

\* A step of a script that does not touch bScriptRun and what was quit.
LEMMA QuitsOfOthers ==
    ASSUME Quits, NEW t \in Threads, \A u \in Threads \ {t} : th'[u] = th[u],
           UNCHANGED <<bScriptRun, quits>>,
           t \in quit => th'[t].pc \notin {"none", "start", "over", "run", "next"}
    PROVE  Quits'
<1>1. quit' = quit /\ late' = late /\ bScriptRun' = bScriptRun
  BY DEF quits
<1>2. ASSUME NEW u \in Scripts PROVE Quit(u)'
  <2>1. Quit(u)
    BY DEF Quits
  <2>2. CASE u = t
    BY <1>1, <2>1, <2>2 DEF Quit
  <2>3. CASE u # t
    BY <1>1, <2>1, <2>3, HttpIsNoScript DEF Quit
  <2> QED BY <2>2, <2>3
<1> QED BY <1>1, <1>2 DEF Quits

LEMMA NextCommandQuits ==
    ASSUME Typed, Quits, NEW t \in Scripts, NextCommand(t)
    PROVE  Quits'
<1>1. /\ th[t].pc = "next" /\ th'[t].pc \in {"loop", "done", "mark", "recv"}
      /\ \A u \in Threads \ {t} : th'[u] = th[u]
  BY NextCommandThread
<1>2. /\ late' = [late EXCEPT ![t] = IF t \in quit THEN @ + 1 ELSE @]
      /\ UNCHANGED <<bScriptRun, quit>>
  BY DEF NextCommand
<1>3. late[t] = 0 /\ late \in [Scripts -> {0, 1}] /\ quit \subseteq Scripts
  BY <1>1 DEF Quits, Quit
<1>4. /\ late' \in [Scripts -> {0, 1}] /\ late'[t] = (IF t \in quit THEN 1 ELSE 0)
      /\ \A u \in Scripts \ {t} : late'[u] = late[u]
  BY <1>2, <1>3
<1>5. ASSUME NEW u \in Scripts PROVE Quit(u)'
  <2>1. Quit(u)
    BY DEF Quits
  <2>2. CASE u = t
    BY <1>1, <1>2, <1>4, <2>1, <2>2 DEF Quit
  <2>3. CASE u # t
    BY <1>1, <1>2, <1>4, <2>1, <2>3, HttpIsNoScript DEF Quit
  <2> QED BY <2>2, <2>3
<1> QED BY <1>2, <1>3, <1>4, <1>5 DEF Quits

LEMMA EndScriptQuits ==
    ASSUME Typed, Quits, NEW t \in Scripts, EndScript(t)
    PROVE  Quits'
<1>1. \A u \in Threads \ {t} : th'[u] = th[u]
  BY TypedParts, EndScriptThread
<1>2. ~bScriptRun' /\ quit' = quit \ {t} /\ late' = [late EXCEPT ![t] = 0]
  BY DEF EndScript
<1>3. late \in [Scripts -> {0, 1}] /\ quit \subseteq Scripts
  BY DEF Quits
<1>4. late' \in [Scripts -> {0, 1}] /\ late'[t] = 0 /\ \A u \in Scripts \ {t} : late'[u] = late[u]
  BY <1>2, <1>3
<1>5. ASSUME NEW u \in Scripts PROVE Quit(u)'
  <2>1. Quit(u)
    BY DEF Quits
  <2>2. CASE u = t
    BY <1>2, <1>4, <2>2 DEF Quit
  <2>3. CASE u # t
    BY <1>1, <1>2, <1>4, <2>1, <2>3, HttpIsNoScript DEF Quit
  <2> QED BY <2>2, <2>3
<1> QED BY <1>2, <1>3, <1>4, <1>5 DEF Quits

LEMMA UserQuits == ASSUME Typed, Quits, User PROVE Quits'
<1>1. CASE Type \/ UserClears \/ pause_script
  BY <1>1, QuitsSame DEF Type, UserClears, pause_script
<1>2. CASE quit_script
  BY <1>2 DEF quit_script, Quits, Quit
<1>3. ASSUME NEW t \in Scripts, NEW files \in BOOLEAN, run_script(t, files) PROVE Quits'
  <2>1. /\ th' = [th EXCEPT ![t] = [Idle EXCEPT !.pc = "start", !.files = files, !.todo = Todo]]
        /\ th[t].pc = "none" /\ UNCHANGED <<bScriptRun, quits>>
    BY <1>3 DEF run_script, At
  <2>2. \A u \in Threads \ {t} : th'[u] = th[u]
    <3>1. Becomes(t, "start", files, Todo, "", 0, 0, FALSE, 0, 0, 0)
      BY <2>1, HttpIsNoScript, TypedParts, IdleStep DEF ThreadsTyped
    <3> QED BY <3>1, Zenon DEF Becomes
  <2>3. t \notin quit
    BY <2>1 DEF Quits, Quit
  <2> QED BY <2>1, <2>2, <2>3, HttpIsNoScript, QuitsOfOthers
<1> QED BY <1>1, <1>2, <1>3 DEF User

LEMMA NextQuits == ASSUME Typed, Quits, [Next]_vars PROVE Quits'
<1> USE HttpIsNoScript, TypedParts
<1>1. CASE UNCHANGED vars
  BY <1>1, QuitsSame DEF vars
<1>2. CASE HostSays \/ HostEnds
  BY <1>2, QuitsSame DEF HostSays, HostEnds
<1>3. CASE User
  BY <1>3, UserQuits
<1>4. ASSUME NEW t \in Scripts, Script(t) PROVE Quits'
  <2>1. CASE StartScript(t)
    BY <2>1 DEF StartScript, Quits, Quit
  <2>2. CASE TestRun(t) \/ TestPause(t)
    <3>1. /\ \A u \in Threads \ {t} : th'[u] = th[u]
          /\ th[t].pc \in {"loop", "run"} /\ th'[t].pc \in {"loop", "run", "next", "end"}
          /\ th[t].pc = "loop" /\ ~bScriptRun => th'[t].pc = "end"
      BY <2>2, TestThread
    <3>2. UNCHANGED <<bScriptRun, quit, late>>
      BY <2>2 DEF TestRun, TestPause, quits
    <3>3. ASSUME NEW u \in Scripts PROVE Quit(u)'
      <4>1. Quit(u)
        BY DEF Quits
      <4>2. CASE u = t
        BY <3>1, <3>2, <4>1, <4>2 DEF Quit
      <4>3. CASE u # t
        BY <3>1, <3>2, <4>1, <4>3 DEF Quit
      <4> QED BY <4>2, <4>3
    <3> QED BY <3>2, <3>3 DEF Quits
  <2>3. CASE NextCommand(t)
    BY <2>3, NextCommandQuits
  <2>4. CASE CommandDone(t)
    <3>1. /\ \A u \in Threads \ {t} : th'[u] = th[u]
          /\ th'[t].pc = "loop" /\ UNCHANGED <<bScriptRun, quits>>
      BY <2>4, CommandDoneThread
    <3> QED BY <3>1, QuitsOfOthers
  <2>5. CASE EndScript(t)
    BY <2>5, EndScriptQuits
  <2>6. CASE command(t)
    <3>1. /\ \A u \in Threads \ {t} : th'[u] = th[u]
          /\ th'[t].pc \notin Outside /\ UNCHANGED <<bScriptRun, quits>>
      BY <2>6, CommandStays
    <3> QED BY <3>1, QuitsOfOthers DEF Outside
  <2> QED BY <1>4, <2>1, <2>2, <2>3, <2>4, <2>5, <2>6 DEF Script
<1>5. CASE Request \/ Server
  BY <1>5, HttpApart, QuitsSame DEF Server
<1> QED BY <1>1, <1>2, <1>3, <1>4, <1>5 DEF Next

LEMMA InitQuits == Init => Quits
BY DEF Init, Quits, Quit

\* What is true of every step is true of every state.
LEMMA InvariantHolds == Spec => []IInv
<1>1. Init => IInv
  BY InitTyped, InitOwn, InitQuits DEF IInv
<1>2. IInv /\ [Next]_vars => IInv'
  BY NextTyped, NextOwn, NextQuits DEF IInv
<1> QED BY <1>1, <1>2, PTL DEF Spec

----------------------------------------------------------------------------
(* What is proved of every number of threads, commands and lines *)

\* The values of every variable: no wait is longer than it may be, and no reply
\* ends beyond what the text has ever held (Fl_Term.cxx 1129-1405, tiny2.cxx 1000-1037).
THEOREM TypeCorrect == Spec => []TypeOK
<1>1. IInv => TypeOK
  BY TypedIsTypeOK DEF IInv
<1> QED BY <1>1, InvariantHolds, PTL

\* The command that nothing has disturbed owns what it sees: nothing is owed when it
\* begins, its line makes the host owe one answer, the text from its mark on is the
\* part of the answer that was said, and what it takes for its reply is the first of
\* that, and all of it if a prompt ended the wait (Fl_Term.cxx 1117-1156).
THEOREM CommandOwnsReply == Spec => []IInv
BY InvariantHolds

\* A command, of a script or of an HTTP client, that neither the user nor another
\* thread disturbs gets the reply to it and no other, though nothing locks recv0,
\* bPrompt and the text (Fl_Term.cxx 1133-1156).
THEOREM ReplyToOwnCommand == Spec => []ReplyIsOwn
BY InvariantHolds, OwnReply, PTL

\* A script that was quit begins at most the one command or file whose tests it had
\* passed, however many scripts there are and whatever they and the user do, until a
\* script is started (quit_script, Fl_Term.cxx 1396-1402, and the loops of scripter
\* and copier, 1327-1336, 1349-1357).
THEOREM QuitIsHeeded == Spec => []QuitStops
<1>1. IInv => QuitStops
  BY DEF IInv, Quits, QuitStops
<1> QED BY <1>1, InvariantHolds, PTL

=============================================================================
