# FLTerm: a verification development

FLTerm is a terminal emulator: a window with one or more terminals, each
connected to a shell, a serial line, or a telnet, ssh, sftp or netconf host.
Every connection has a thread of its own, scripts have threads, ssh tunnels have
threads, and an HTTP server runs commands for other programs.  They share the
terminal, its text and the connection, mostly without locks.  The specifications
here are about that sharing, and about the bookkeeping of the text.

Line numbers refer to `src/` of the repository at the commit this development
was written against.

## 1. The system

| Component | State | Operations | Source |
|---|---|---|---|
| Host lifecycle | `Fl_Term::host`, `HOST::state`, `HOST::reader` | `Fl_Term::connect`, `HOST::connect`, `read()`, `disconn()`, Enter | host.h, host.cxx, Fl_Term.cxx 46-147 |
| Line input for hosts | `bGets`, `bReturn`, `bPassword`, `cursor`, `keys` | `gets`, `write`, `disconn` | Fl_Term.cxx 91-147 |
| ssh session | `session`, `channel`, `mtx` | `read`, `write`, `send_size`, `disconn`, scp | ssh2.cxx 363-790 |
| Locks | FLTK's lock, `append_mtx`, `mtx`, `tunnel_mtx` | every routine that takes one | Fl_Term.cxx, ssh2.cxx |
| Scroll back buffer | `buff`, `line`, `cursor_x/y`, `screen_y`, `bScrollbar` | `append`, `next_line`, `clear`, scrolling, `resize` | Fl_Term.cxx 183-640 |
| vt100 escape sequences | `bEscape`, `ESC_code`, modes, `roll_top/bot` | `vt100_Escape` | Fl_Term.cxx 650-1128 |
| Telnet options | `bEcho` | `telnet_options` | Fl_Term.cxx 1407-1468 |
| Scripts and prompts | `bScriptRun`, `bScriptPause`, `sPrompt`, `bPrompt`, `recv0` | `run_script`, `copier`, `scripter`, `command`, `waitfor_prompt` | Fl_Term.cxx 1129-1405 |
| xmodem sender | `bXmodem`, `xmodem_*` | `send_file`, `xmodem_recv` | host.cxx 73-168, 279-287 |
| Tunnels | `tunnel_list`, sockets, channels | `tun`, `tun_local`, `tun_remote`, `tun_worker` | ssh2.cxx 792-1059 |
| sftp | `bRunning`, `sftp_session`, `realpath` | `read`, the commands, `send_file` | ssh2.cxx 1061-1525 |
| Known hosts, authentication | `username`, `password`, the file `known_hosts` | `ssh_knownhost`, `ssh_authentication` | ssh2.cxx 204-362 |
| Command history | the list of `Fl_Browser_Input`, `id` | `add`, `first`, `next`, keys | Fl_Browser_Input.cxx |
| HTTP server | the reply being sent | `httpd`, `term_command` | tiny2.cxx 261-285, 1000-1039 |
| Window, tabs, menus, settings | `pTerm`, `pTabs`, settings | callbacks of FLTK | tiny2.cxx |

How they interact.  The window's thread calls a terminal's `handle`, `draw`,
`write`, `resize`, `connect` and `disconn`.  `HOST::connect` starts the reader
thread, which calls back through `host_cb` (text, status) and `host_cb1`
(`gets`).  A script or the HTTP thread calls `Fl_Term::command`, which sends to
the host and polls for the prompt that `append`, in the reader, finds.

What makes it hard.  Threads meet in unlocked fields (`host`, `reader`, `keys`,
`session`); a reader outlives the operation that ends it; four locks are nested
in different orders; the text moves in memory while others hold positions in it;
and hosts may answer late, never, or while the window is closing.  PROJECT.json
lists the hazards at their lines, with the properties about them.

What makes each component correct, in short: one session at a time and no thread
object destroyed with its thread (lifecycle); the line the user typed, a password
never displayed, an end to every wait (line input); no call on a freed session and
an end to every disconnected session (ssh); no circular wait (locks); an ordered
index, room for the line being written and no line lost (buffer); blocks in order
and "Completed" only when the receiver has them all (xmodem); a command's own reply
(scripts, HTTP); streams in order and unmixed, and a list that names what is open (tunnels); no
password to a host whose key nobody accepted, and whole files (sftp); rows that stay
where the host put them (escape sequences).

## 2. The modules

| Module | Models | Proofs |
|---|---|---|
| `TermSession` | abstract: a terminal serves one session at a time | |
| `HostLifecycle` | `Fl_Term::connect`, `HOST::connect`, the readers of com, tcp, pipe and ssh hosts | `Reader_proofs` |
| `KeyboardGets` | `gets` in the reader against `write` and `disconn` in the window's thread | `Reader_proofs` |
| `SshSession` | the libssh2 session and shell channel shared by reader, users and copies | `Locks_proofs` |
| `SftpSession` | the log-in of an ssh host, the sftp command loop, transfers, dropped files | `SftpSession_proofs` |
| `Tunnels` | the list of tunnels, listeners, workers, sockets known by their numbers | `Tunnels_proofs` |
| `TermLocks` | the nesting of the four locks | `Locks_proofs` |
| `Scripting` | scripts, dropped files and HTTP requests giving commands and waiting for prompts | `Scripting_proofs` |
| `ScrollBuffer` | plain text, the index of the lines, scrolling | `ScrollBuffer_proofs` |
| `Vt100Grid` | abstract: the screen as a grid of characters | |
| `Screen` | escape sequences, carried out on lines of the scroll back buffer | `Screen_proofs` |
| `FileTransfer` | abstract: a file is received from its first block on | |
| `Xmodem` | `send_file` and `xmodem_recv` of comHost, the serial line, a receiver | `Xmodem_proofs` |

The modules meet at the calls they share.  `HostLifecycle` has the readers' ends,
`SshSession` and `SftpSession` what two of the readers do in between; `KeyboardGets`
is the `gets()` that the log-in of `SftpSession` calls, which takes from it that it
returns a line or, in the end, NULL.  `TermLocks` has the locks of all of them.
`Scripting` relies on `append` finding the prompt, not on how text is stored;
`Screen` and `ScrollBuffer` share the index of the lines, the one with a screen laid
out by a host and the other with a buffer that runs out.

`MC<module>` with `MC<module>.cfg` is the main run of a module (of `TermLocks`, whose
constants are model values only, `TermLocks.cfg` with the module itself).  The other `.cfg`
files each check one thing that the code does not keep (section 5), except two that
widen a main run and pass: `Tunnels_Types.cfg` the types of Tunnels when the user closes
one, `Scripting_Commands.cfg` the safety of every command.
Beside some definitions stands a mutated form, marked "Slip": a plausible mistake
in that code that makes a property fail.  Slips are not part of `Next`.

**HostLifecycle.**  An action per statement that reads or writes what threads
share: `connect` is `ConnectCheck` (`if host->live() return`), `ConnectDelete`,
`ConnectAssign`, then `StartReader` and `SwapReader` of `HOST::connect`.  A reader
goes through entry, opening, loop, closing and detach; the order of the notice and
of `status(HOST_IDLE)` differs between kinds and is kept.  `aborted` records what
ends the process: `~thread()` of a joinable thread or an assignment to one, `detach()` of
one that is not joinable, the use of a deleted host, or `kill(-1)`.  Nothing keeps the
callers apart, as nothing in the code does; the history variable `raced` is set when one
enters `connect` or Enter while another is inside, or turns to the host while another is
replacing it.

**KeyboardGets.**  Every statement of `gets()` on a shared field is a step, and a
key takes three: the loop's test of `bGets`, the store, and what follows it.
`keys` has `MaxKey + 1` bytes and what lies behind it is `bPassword`.  The history
variables `line` and `hasty` say what the user typed and whether a key was in
flight outside the wait.

**SshSession.**  A libssh2 call is `Acquire` (the lock is taken and the pointer
read) and a return; pointers tested before the lock are tested in a step of their
own.  Sessions are numbers, so that a stale one is told from the present one.

**TermLocks.**  A thread is the stack of lock-taking routines it is in; who calls
what from where is `WindowCalls` ... `NestedCalls`.

**ScrollBuffer.**  One action per byte of output (first and continuation bytes of a
character, LF, CR, BS, Tab) and per scrolling event.  `NextLine` gives the buffers
`next_line()` may leave: unchanged, doubled, cleared when `realloc` fails, halved.
Of the text only the continuation bytes are kept, of the line being written, which
is all that `append` and BS look at.  A character has one of the lengths in `CharBytes`, up
to the four bytes of UTF-8.  The row's last character is cut by the wrap when it has more
than one, and a BS may then step over the start of the line: `cursor_x` may be the byte
before its line, and before the buffer.

**Xmodem.**  `send_file` runs in a script's thread and is four steps; the rest of the
sender is `xmodem_recv`, which the reader calls for every poll with the last byte it
got, or with none.  A block is its number, the place in the file it was read from and
the kind of its check; `RefuseBlock` stands for a check that fails.  `hasty` marks a
transfer the reader polled for before `send_file` had prepared it (host.cxx 160-165):
nothing holds of it, as the reader may send the last packet of the previous file or
read a closed one.  `crashed` is a closed FILE that is read or closed again.

**Scripting.**  A script is a loop of three steps, since the window writes the flags at
any moment: `TestRun` (`bScriptRun`), `TestPause` (`bScriptPause`) and `NextCommand`, after
which `Fl_Term::command` is the two statements of `mark_prompt`, the send,
the polls of `waitfor_prompt` and the reading of the reply; the threads of scripts,
of dropped files (`files`) and of the HTTP server (`Http`) run it.  `Packet` is one turn of
the loop that sends a reply: `send()` takes any part of a packet, and both `reply` and the
index into it advance.  The text is a
sequence of two kinds of output, of which the last may be taken for a prompt.  The
history variable `alone` names the thread whose command nothing has disturbed: no
other command, no clear, nothing typed, and a host that owed nothing when it began;
`said` is what the host said since.  `quit` are the scripts the user quit, until a script
is started, which sets `bScriptRun` for all of them; `late` counts what they begin after it.

**Tunnels.**  `file` maps a socket's number to what is open on it, and a new socket
gets the lowest free number, so that a number in the list or in a worker's hands may
have passed to another connection.  The session's socket is `wire`: whoever reads it,
the main reader or a worker, takes all of it and leaves each channel's part in `down`.
A worker is `Select`, `Recv`, `Write`, `Read`, `Send`, `Close`, `Del`; a write takes
any part of its buffer, and fails once the server has closed its end.  A stream is its
bytes by number, with its end as the last.  A client closes or, if it is one of `Halves`,
only ends its stream (`"shut"`) and goes on receiving, which the worker does not tell apart.
`select(tun_sock+1)` watches the session's socket only from numbers above it: `Lower` are
those below.  "!tun n" closes the number once for each entry that has it (`tun`,
`tunAgain`), with `tunnel_mtx` held in between (`again`).

**SftpSession.**  The log-in is followed from the key the host shows to the password
it accepts, the command loop statement by statement, a transfer unit by unit with a
write that takes a part.  `copier` is the script's thread that sends a dropped file
under `mtx`.  What the code ignores is there: a failing `fread` or `fclose` of the local
file (`cut`), and a write to which libssh2 answers 0 for ever (`"stuck"`).  `misused` marks a dropped file that meets no session, after which the
run promises nothing.

**Screen.**  The variable `scr` holds the bytes, the index `line`, the cursor as a
byte and a line, `screen_y`, the scroll region and the modes.  A sequence is one step
on that record, made of the code's copies of bytes in the code's order (`Copied`,
`CopyLines`).  `Vt100Grid` has the same sequences on a grid of rows and columns, and
`DrawsGrid` maps the one to the other while the alternate screen is on.  A host is
assumed to keep to the screen: its counts stay within the row, the region and the
margins, it edits outside of the alternate screen on the last line only, resets
the margins before it leaves the alternate screen, and has one mode at a time off its
default.  The window moves `screen_y` as well: `Wheel` and `PageKey` outside of the
alternate screen, `KeyDown`, `Drag` (a selection dragged out of the window) and `Slide` (a
push on the scrollbar, or its slider dragged) on both.  `Cares` names what a host and a user
have to avoid for the properties to hold.  Section 5 lists what happens otherwise.

## 3. The runs

| Run | States | Shows |
|---|---|---|
| `host_lifecycle` | 251 thousand | three hosts of any kind, two readers, two callers that overlap as they please: what can abort the process, the safety properties and the refinement of `TermSession` until two callers race, and that a disconnect completes |
| `keyboard_gets` | 336 thousand | two printable keys, a buffer of three bytes, two sleeps: the line, the secrecy and the bounds for a user who waits for the prompt; `gets` returns for every user |
| `ssh_session` | 45 thousand | two sessions in turn, a user and a copy: channel calls are safe, disconnects end sessions |
| `ssh_protected` | finding | `disconn` and others use a session that was freed |
| `sftp_session` | 468 thousand | two sessions in turn, three host keys, files of two units, a dropped file: accepted keys, forgotten passwords, whole totals, disconnects that end |
| `tunnels` | 621 thousand | a tunnel each way, three socket numbers, a client that half-closes: streams in order and unmixed and what may be dropped of them, a true list, an end to tunnels whose client closed or ended its stream |
| `term_locks` | 211 thousand | window, reader, a script, two tunnels |
| `term_locks_key` | finding | window and reader deadlock over `append_mtx` and FLTK's lock |
| `scripting` | 622 thousand | a script of two commands or files and the HTTP server: own replies, an end to waits, at most one command after a quit, and an end of what was quit |
| `scroll_buffer` | 438 thousand | a buffer doubled once and then halved again and again, any text |
| `screen` | 140 thousand | three rows of two columns, a line of scroll back, a host and a user who take every care: rows in place, text kept, refinement of `Vt100Grid` |
| `xmodem` | 47 thousand | two files, each empty or of four blocks: order, refinement of `FileTransfer`, an end to every transfer |

*Bounds and why they are enough.*
HostLifecycle: the third host lets a deleted one be followed by another, and two
readers let one end while the next begins.  Host objects are not reused.  After a race
the calls under way and disconnects go on, and `connect` and Enter are not begun again
(`AfterRace` is FALSE): all properties but `DisconnectCompletes` are about the time before.
The proofs have both values.
KeyboardGets: the line, its limit, both ends of the buffer and the restart of the
wait are all reached with a buffer of three bytes; the one counter, the sleeps,
is that of the code with 2 for 600.
SshSession: the second session makes a stale pointer different from a NULL one.
TermLocks: four locks, one thread per role and a second tunnel; the proof covers
every number.
ScrollBuffer: 4 and 8 lines stand for 4096 and 65536, 2 bytes a line for 64, 4 bytes
of slack for 1024.  The sizes keep the code's order: a line (`MaxLine` and its LF)
fits in the slack, and the larger buffer, once full, has at least its half of the
lines (`ShortLines`).  The main run and the theorems are about these lines only, although
the code sees to neither: `ScrollBuffer_Tab.cfg` has a line longer than the slack and
`ScrollBuffer_Half.cfg` lines that fill the bytes first.  Characters are of one byte and of three, so
that the row's last may be cut before its second byte or before its third.
Xmodem: block numbers modulo 3 stand for 256, so that a file of four blocks wraps them
around while a block, its successor and its predecessor stay apart; 2 and 4 polls stand
for 10000 and 60000; the second file meets what the first has left behind.
Scripting: one script beside the HTTP server is two threads in `command`; three items
of text hold a reply and what came before it; two polls stand for `iTimeOut` seconds; the
host answers one line and then falls silent, each script is started once, and the HTTP
client makes one request.  The proofs have any number of scripts.
Tunnels: three numbers for a listener and two connections, so that the first number
to be freed is taken while its last owner is still listed; two items per run of the
model are a buffer that may be written in parts.  One of the two clients may half-close,
and one number is below the session's socket; in the proofs any may.
SftpSession: two keys of one type and one of another give the match, the change and
the new key; two units make a partial write; the second session meets what the first
has left.
Screen: with three rows a scroll region may have rows outside it, and with two columns
a character has a neighbour; one line above the screen is what scrolling keeps.

*Two kinds of users.*  The window, a script and the HTTP thread may all connect, and the
HostLifecycle run lets them overlap.  Two `connect` calls that do delete a host under its
reader at once, so that most of its properties speak of the time before (`raced`).
`OnlyRacesAbort` speaks of all of it: a thread object is destroyed with its thread, or a
deleted host used, only after such a race, and `detach()` throws only then or for a reader
that is done before `swap()` stored it (host.cxx 39).  Disconnects and writes may overlap
with anything.  In KeyboardGets `hasty` separates the user who
types when asked from the one who types ahead.

*What the xmodem run assumes.*  `Timely = TRUE`: the sender counts a poll as empty only
when nothing is on its way, which is what its comments mean by 10 and 60 seconds
(host.cxx 124, 129) and what the Windows branch's reads of one millisecond give.  The
POSIX branch opens the port with O_NDELAY (253) and polls without waiting; with
`Timely = FALSE` a block sent again too early is acknowledged twice, the second ACK
acknowledges a block that may be lost, and `ImplementsTransfer` fails.  `OneByOne =
TRUE`: the user drops a file when no other is being sent; of files dropped together
`copier` starts the next at once, in place of the one before.

*What scripting, tunnels and the screen assume.*  `ReplyIsOwn` is about commands nobody
disturbs; `QuitStops` and `QuitEnds` hold until a script is started after the quit: the
code has no lock that would ensure more.  That a quit script begins not one command more
does not hold, as the flag is tested before the command begins (1349-1357).
`StreamsIntact` and `OpenIsListed` are about users who do not close a tunnel by its number.
Even so a tunnel may drop what the host still owes its client: when the client has ended its
stream, which ends the tunnel (848), or when a write to the channel fails because the host
has closed it (854).  `StreamsIntact` says that there is no third case.
The screen's run and theorems have `Care = Cares`: after the alternate screen the host sends
text before a line feed, and there the user drags neither a selection out of the window nor
the slider of a scrollbar that Page Up has left.  Without any one of them section 5 shows
the text damaged.  `LineFeed` is restricted by nothing else: a cursor that CUF has moved
behind the text is no obstacle.

*Deadlock* is checked only in KeyboardGets, ScrollBuffer and Screen.  The others can
stop: after an abort of the process, when the sessions, lines or items of the bound are
used up, or in a deadlock of the locks, which is what the properties of TermLocks speak
of.

### Fairness

- A reader, and a caller in the middle of an operation, is scheduled (weak fairness).
- A reader leaves its receive loop only when its connection was ended: a serial
  reader polls its status, and a peer closes a socket whose other side was shut down
  or that was told to disconnect.  A shell may ignore SIGTERM, so nothing is assumed
  of it.
- ssh: no thread is starved of `mtx` (strong fairness of `Acquire`); once the
  connection is set up, libssh2 is in non-blocking mode and `wait_socket` waits
  10 ms, so calls return.  During the set-up calls may block for ever, and
  `WindowGoesOn` says so.
- Locks: strong fairness of taking and of leaving, so that `KeyPressHandled` can
  fail only by a circular wait.
- KeyboardGets: the reader is scheduled; nothing is assumed of the user.
- Scripting: the threads are scheduled; nothing is assumed of the host, which may
  never answer, nor of the user or the HTTP client.
- Tunnels: the workers are scheduled, and the host's side takes what is written to it.
  Nothing is assumed of clients, servers, listeners and the main reader.
- SftpSession: the reader and the dropping script are scheduled and libssh2's blocking
  calls return; the user answers or `gets` gives up, which is `GetsReturns` of
  KeyboardGets.  `DisconnectEnds` exempts the write to which libssh2 answers 0 for ever
  (`Stuck`), which the code repeats for ever.
- Xmodem: a connected reader polls and `send_file` goes on; the line does not garble or
  lose every packet for ever.  Nothing is assumed of the receiver, which may fall
  silent, nor of the user.

## 4. What is proved

The theorems hold for every value of the constants.

**Reader_proofs, the lifecycle.**  `SInv` relates the callers in the middle of an operation
to the reader: at most one reader is active, it serves the present host, and the
host's thread object holds it or is about to.  `ReaderUsesPresentHost` alone is not
inductive: nothing in it says that the host a caller is about to delete has no
reader, which follows only from the check made steps before and from no other caller
being in `connect` or Enter.  `Peaceful`, its part about callers and readers, therefore
holds until two race; no assumption keeps them from it.  `OneSession` shows that
`HostLifecycle` implements `TermSession`, in which the race is a step of its own, after
which it promises nothing.

**Reader_proofs, the prompts.**  The invariant is the types and `Patient`, which is about a
user who has not been hasty: `Prepared` says that no key is in `write()` while
`gets()` sets its fields one by one, `Typed` that during the wait `keys` up to `cursor`
is the line, but for the key in hand, and `Secret` that `bPassword` is that of this
question.  `LineIntact` alone is not inductive, as it speaks of the moment `gets()`
returns; the key in hand needs `Edited`, the editor as a function of a line, and a
lemma that a line stays one.

**Locks_proofs, the ssh session.**  The invariant says who may be in a call (the owner of `mtx`),
what the pointer of a call in progress is (the present channel, or NULL), and that
`channel` is cleared before the session is freed.  From it: calls on the shell
channel never meet freed memory although their tests are made without the lock.

**Locks_proofs, the order of the locks.**  `LInv` gives each routine a rank (0: sftp, tunDel, tunList,
event; 1: append; 2: grow, clear, call) and says that stacks ascend, that a waiting
thread waits for a later rank unless it echoes to itself, and that no lock has two
holders.  In a circle of threads behind the window the rank would rise without end,
and there are three ranks.  The window is outside of the order, since an event may ask
for any lock: `AppendDeadlocks` proves that a deadlock then needs a thread in
`append()`.

**SftpSession_proofs.**  `KeyAccepted` and `TypedForgotten` follow from where the
log-in is and what it has kept of the answers; `InTransit` adds up what of a file is
left, on its way and written, which is what `TotalWhole` needs: a write that takes a
part leaves the rest to be written.  The exemptions of `TotalIsWhole` are the two failures
of the local file the code ignores.

**Xmodem_proofs.**  `IInv` has three parts.  `Typed` is the types and the counted polls.
`Flight`: at most one packet or one answer is on its way, which is where `Timely` is
needed: a sender that repeats a block while its answer travels has two.  `Sending`: the
block in the sender's buffer is the last one the receiver got or the one after it, an
ACK on the way means the former, and packets on the way are copies of the buffer; the
block numbers tell the two apart modulo any number from 2 on.  Both
theorems assume `Timely` and `OneByOne`, the pace of Windows: on POSIX (O_NDELAY,
host.cxx 253) they say nothing.  `Implements` is the refinement of
`FileTransfer`, action by action.

**Tunnels_proofs.**  Two threads may have entries with the same number, and each
removes the first one it finds, so that who owns which entry is not fixed.
`ListMatches` says that there is a one-to-one match of entries and threads by
number: when a thread removes another's entry, the other is matched with the one it
left.  `NothingStaysBehind` counts through that match.  `OpenIsListed` needs more:
`Files` (a number is open on one thing, and a thing has one number, so that by counting
there is a free number for one more), `Own` (a thread's number stays its own until its
own `closesocket()`, as long as the user closes nothing), `Latest` (the entry of what
is open is the latest with its number; an entry removed for a thread on its way out is
an earlier one) and `Once` (only "!tun" leaves a number to be closed again).  `NothingStaysBehind` holds whatever the user closes.

`StreamsIntact` follows from `Flows`: what one end got, what the worker has in hand, what
waits in the socket, in libssh2 and on the wire follow one another without a gap, the end
of the stream last, for as long as nobody else gets the worker's number; and `Whole`: a
worker on its way out has delivered all of both, or its client has ended its stream, or the
host its channel.

**ScrollBuffer_proofs.**  `ShortLines` is assumed, of the host, as the code does not see to
it: where a line is longer than the slack it may outgrow the buffer, and where the bytes run
out first the code halves the lines of a buffer that has fewer than that (section 5).  `Good` says that the line
starts ascend, that the cursor is at most one byte before its line, that the index is
zero behind the cursor's line, and that there is `Room` for what one `append` loop writes.
`Spread` is what joins bytes and lines: two lines are at most as many bytes apart as so
many longest lines.  It is a part of the invariant, kept step by step, rather than a
consequence of it, which would be an induction over lines.  Hence a largest buffer whose
bytes have run out has its half of the lines, and after halving there is room again.
`FinishedLinesKept` compares a state with the next.  The next tab stop is found by the
least number (`Least`).

**Scripting_proofs.**  `Own` is about the thread `alone`: the host owes it nothing until
its line is sent, and then one answer; the text behind its mark is a part of the answer
said so far, and a prompt only ends an answer.  `ReplyIsOwn` alone is not inductive, as it
speaks of the moment a command returns.  The steps of others leave everything `Own` speaks
of alone, or leave nobody `alone`.  `Quits` is about the scripts that were quit: `bScriptRun`
is FALSE, and what one may still begin is what its place between the tests and the command
leaves open.  `QuitIsHeeded` follows for any number of scripts.

**Screen_proofs.**  The theorems hold for windows of every size, scroll back of every
length and every set of counts; they assume a host and a user who take every care
(`Care = Cares`), without whom three configurations of section 5 show the text damaged.  `Good` is the inductive invariant:
`OfScreen` (margins and saved cursor are on the screen), `TextAbove` (the index is ordered
up to the first line output may change, and that line begins at most a row and LF per line
behind the start, which is why the bytes suffice), and the mode's own part: on the
alternate screen `OnScreen`, every row a line of `size_x` bytes with nothing indexed behind
them; elsewhere `InText`, the cursor's line the last and a row at most.  `RowsInPlace` alone
is not inductive: a sequence would leave the rows where they are, but nothing in it keeps
the cursor, the saved cursor and the margins on the screen from which the next sequence
computes its bytes, nor the text's index to which the alternate screen returns.

Every sequence is taken in two parts.  `Draws` says what it leaves in the buffer: bytes
behind the text only, the index as it was, and rows that show a given grid.  `Shows` says
the same of the variables of `Vt100Grid`, so that a sequence that draws the right grid is
a step of it.  The loops of copies are recursive functions of the number of copies
(`Copies`), which by the least counterexample (`Induct`, from `NatLessThanWellFounded`)
make the copies one after the other (`CopiesInTurn`); taken in an order in which none reads
what an earlier one wrote, they are all made at once (`CopiesAtOnce`), and this is where the
direction of the loops of L, M, S, T, P and @ matters.
`BlankLines`, which lays out the rows by
`next_line()`, is treated the same way (`Laid`).  The `Sound` lemmas, one per action, then
give the invariant, `ScrollbackKept` and the refinement at once.

Only model-checked: the liveness properties (`DisconnectCompletes`, `GetsReturns`,
`DisconnectEndsSession`, `WindowGoesOn`, `TransferEnds`, `WaitsEnd`, `QuitEnds`,
`TunnelsEnd`, `DisconnectEnds`), which are out of the prover's reach.

## 5. Disagreements between the code and what it says

Two are runs:

1. `ssh_protected`: `session` is tested outside of `mtx` (ssh2.cxx 506) or not at all
   (478, 527, 551).
2. `term_locks_key`: `append_mtx` and FLTK's lock are taken in both orders
   (Fl_Term.cxx 476, 520).

The others have a configuration that gives the counterexample
(`tlc -config <file> MC<module>`, and `ScrollBuffer` itself where the table says so):

| Configuration | Property | What the code does |
|---|---|---|
| `HostLifecycle_Enter.cfg` | `EnterRestarts` | `pipeHost::read` returns without `detach()` when `posix_openpt` fails (host.cxx 522), and so does the first, empty host (host.h 68): Enter no longer reconnects |
| `KeyboardGets_Password.cfg` | `NoPasswordEcho` | `bGets` is set before `bPassword` (Fl_Term.cxx 129-131): a key in between is displayed |
| `ScrollBuffer_Half.cfg`, with `ScrollBuffer` | `CursorInBuffer` | half of the lines is erased even when the bytes ran out first (Fl_Term.cxx 475, 498) |
| `ScrollBuffer_Tab.cfg`, with `ScrollBuffer` | `LineInBuffer` | after a Tab past the last column a line never has `size_x` characters again (Fl_Term.cxx 616-624) and goes on past the room that is kept for it, and past the buffer |
| `ScrollBuffer_Cut.cfg` | `CursorInLine` | a wrap comes before any byte of a full row, a continuation byte too (Fl_Term.cxx 616-624), and BS goes back over continuation bytes without looking for the line's start (541-547): it leaves its line, and at the first line the buffer |
| `ScrollBuffer_Slider.cfg` | `ScrollbarHasText` | Page Up shows a scrollbar that has no text (Fl_Term.cxx 438), and `draw()` divides by zero (308) |
| `Scripting_Packets.cfg` | `PacketsJoin` | `reply` and the index into it both advance (tiny2.cxx 1029-1031): a reply that `send()` takes in parts is sent with holes |
| `Scripting_Two.cfg` | `OneScriptRuns` | `run_script` tests `bScriptRun`, which the script's thread sets later (Fl_Term.cxx 1309, 1348, 1365): two scripts run at once although "another script is still running" (1366) |
| `Tunnels_Close.cfg` | `OnlyThatTunnel` | `!tun n` closes a socket under its worker (ssh2.cxx 1037), which goes on with whatever gets the number next |
| `Tunnels_Half.cfg` | `AnswerArrives` | `recv()` = 0 ends the tunnel (ssh2.cxx 848): what the host still sends to a client that has only ended its own stream is dropped |
| `SftpSession_Drop.cfg` | `DropMeetsSession` | a file dropped before the log-in is over, or while it ends, uses an sftp session that is not there (ssh2.cxx 1515) |
| `Screen_Leave.cfg` | `LineFeedAfterLeave` | `?1049l` forgets where the cursor's own line ends, too (Fl_Term.cxx 931-932): a line feed before any text (566) is written at the start of the buffer, over the oldest text |
| `Screen_Drag.cfg` | `ScrollbackKept` | dragging a selection out of the window moves `screen_y` on the alternate screen too (Fl_Term.cxx 372): the host's rows are then drawn over the text above |
| `Screen_Slider.cfg` | `ScrollbackKept` | so does a push on the scrollbar (Fl_Term.cxx 350) or a drag of its slider (370), which a Page Up before `?1049h` leaves shown |

Met while reading, and claimed by no property: a script
dropped after a quit starts the quit one again (1348); a tunnel's worker may sleep on
data the main reader has taken for its channel (ssh2.cxx 857), and on POSIX on data of the
session's socket when that has the higher number (843); one refused connection
ends a local tunnel's listener (930-936); a remote tunnel whose local service cannot be
reached leaves its channel open.  Escape sequences (Fl_Term.cxx): G and ` are off by one
(758-768); L and M two rows below the region clear a negative length (824-843);
S and T of more than the region clear outside of it; P, @ and X beyond the row
reach into the next; @ outside of the alternate screen loses the end of the line
(857-866); ESC E and a wrap at the bottom row do not scroll; 0J erases all of the
cursor's row, 1J moves the cursor home, 2J with the cursor below the first row moves the
screen; the column of H is not limited; `screen_clear` keeps a line number
over a halving of the buffer (663-671).  Telnet (1424-1468): a subnegotiation, IAC SB, is
never passed, since the search for its end begins at its own IAC, so that the reader
answers it for ever under `append_mtx`; the byte after the options is dropped (1467);
`*p` is compared with ECHO where `p[2]` is meant (1439); options split between two reads
are read behind the buffer.

## 6. What is left

Done of the plan: the core (lifecycle, line input, ssh, locks, buffer, xmodem), the
scripts, the tunnels, sftp and the log-in, the screen.  Worth adding, in this order:
the telnet parser against a reference; the session's end under its tunnels
(`tun_closeall`), composing `Tunnels` with `SshSession`; characters of several bytes
and tab stops in `Screen`; several terminals and their tabs over `HostLifecycle`.
Every safety and action property of the runs that pass is proved; to be proved yet are
the safety facts the liveness properties rest on, such as which thread can still move
when a session is to end.

## 7. Not modelled, and why

Drawing, fonts, dialogs, menus and the settings file: user interface and file I/O
without shared state.  Telnet options: a parser run by one thread, whose faults section
5 lists; a model of it would show nothing beyond them.  The command history
(Fl_Browser_Input.cxx): a sorted list and an index that only the window's thread uses.
The selection: nothing else depends on it.  The contents of sftp commands and local
files: I/O.  libssh2 and FLTK: only what their callers rely on.  Windows code: the same structure with
other system calls; the POSIX branch is modelled, but for the pace of the xmodem polls
(section 3).  `keepalive()` has no caller.
`cocoa_wrapper.mm` sets a window's transparency.
