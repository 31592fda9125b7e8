---------------------------- MODULE KeyboardGets ---------------------------
(***************************************************************************)
(* How a host asks the user for a line: Fl_Term::gets, run by a reader     *)
(* thread (user name, password, host key confirmation, sftp command), and  *)
(* Fl_Term::write, run by the event thread for every key.  They share      *)
(* bGets, bReturn, cursor, keys and bPassword without a lock, so every     *)
(* statement that reads or writes one of them is a step of its own.        *)
(***************************************************************************)
EXTENDS Integers, Sequences

CONSTANTS
    Chars,     \* the printable keys
    MaxKey,    \* the last index of keys[64], 63 in the code
    Limit      \* the sleeps gets() waits for a key, 600 in the code

ASSUME KeysAssumption == /\ MaxKey \in Nat \ {0}
                         /\ Limit \in Nat \ {0}
                         /\ Chars \cap {"BS", "CR", "NUL"} = {}

Keys  == Chars \cup {"BS", "CR"}
Bytes == Chars \cup {"NUL"}

VARIABLES
    bGets, bReturn, bPassword, cursor, keys,   \* as in Fl_Term
    gets,     \* gets(): pc, its echo argument, i, old_cursor
    wr,       \* write(): pc and the key it was called with
    line,     \* history: the line the keys pressed for this prompt make up,
              \* kept while hasty is FALSE
    hasty,    \* history: a key was in hand while gets() was not waiting
    shown,    \* history: a key typed for a password was displayed
    overrun   \* history: keys was written outside its bounds

fl   == <<bGets, bReturn, bPassword, cursor, keys>>
hist == <<line, hasty, shown, overrun>>
getsVars == <<bGets, bReturn, bPassword, cursor, keys, gets, wr, line,
              hasty, shown, overrun>>

GetsPcs == {"idle", "cursor", "bGets", "bReturn", "bPassword", "loop",
            "clear", "return", "copy"}
WritePcs == {"idle", "test", "edit", "post"}

GetsTypeOK ==
    /\ bGets \in BOOLEAN /\ bReturn \in BOOLEAN /\ bPassword \in BOOLEAN
    /\ cursor \in 0 .. MaxKey + 2
    /\ keys \in [0 .. MaxKey -> Bytes]
    /\ gets \in [pc: GetsPcs, echo: BOOLEAN, i: 0 .. Limit, old: 0 .. MaxKey + 2]
    /\ wr \in [pc: WritePcs, key: Keys]
    /\ line \in Seq(Chars) /\ Len(line) <= MaxKey
    /\ hasty \in BOOLEAN /\ shown \in BOOLEAN /\ overrun \in BOOLEAN

\* The constructor sets none of these but bGets (in connect): bPassword and
\* keys start with whatever was in memory.
GetsInit ==
    /\ bGets = FALSE /\ bReturn = FALSE /\ bPassword \in BOOLEAN
    /\ cursor = 0
    /\ keys = [n \in 0 .. MaxKey |-> "NUL"]
    /\ gets = [pc |-> "idle", echo |-> TRUE, i |-> 0, old |-> 0]
    /\ wr = [pc |-> "idle", key |-> "CR"]
    /\ line = <<>> /\ hasty = FALSE /\ shown = FALSE /\ overrun = FALSE

----------------------------------------------------------------------------
(* gets(prompt, echo), in the reader thread *)

GetsAt(pc) == gets.pc = pc
GetsGoes(pc) == gets' = [gets EXCEPT !.pc = pc]

\* disp(prompt): from here on the user sees that input is wanted.
Prompt(echo) ==
    /\ GetsAt("idle")
    /\ gets' = [gets EXCEPT !.pc = "cursor", !.echo = echo]
    /\ line' = <<>>
    /\ hasty' = (wr.pc # "idle")
    /\ shown' = FALSE /\ overrun' = FALSE
    /\ UNCHANGED <<fl, wr>>

ResetCursor ==
    /\ GetsAt("cursor")
    /\ cursor' = 0
    /\ GetsGoes("bGets")
    /\ UNCHANGED <<bGets, bReturn, bPassword, keys, wr, hist>>

SetGets ==
    /\ GetsAt("bGets")
    /\ bGets' = TRUE
    /\ GetsGoes("bReturn")
    /\ UNCHANGED <<bReturn, bPassword, cursor, keys, wr, hist>>

ClearReturn ==
    /\ GetsAt("bReturn")
    /\ bReturn' = FALSE
    /\ GetsGoes("bPassword")
    /\ UNCHANGED <<bGets, bPassword, cursor, keys, wr, hist>>

\* Slip: bPassword is left as the last gets() set it.
SetPassword_Stale ==
    /\ GetsAt("bPassword")
    /\ gets' = [gets EXCEPT !.pc = "loop", !.i = 0, !.old = cursor]
    /\ UNCHANGED <<bGets, bReturn, bPassword, cursor, keys, wr, hist>>

\* `bPassword = !echo; int old_cursor = cursor;` and i=0
SetPassword ==
    /\ GetsAt("bPassword")
    /\ bPassword' = ~gets.echo
    /\ gets' = [gets EXCEPT !.pc = "loop", !.i = 0, !.old = cursor]
    /\ UNCHANGED <<bGets, bReturn, cursor, keys, wr, hist>>

Waiting == gets.i < Limit /\ bGets /\ ~bReturn

\* Slip: any change of the line, and so every pair of key and BS, restarts
\* the wait.
Sleep100_AnyChange ==
    /\ GetsAt("loop")
    /\ Waiting
    /\ gets' = IF cursor # gets.old THEN [gets EXCEPT !.old = cursor, !.i = 1]
                                    ELSE [gets EXCEPT !.i = @ + 1]
    /\ UNCHANGED <<fl, wr, hist>>

\* One turn of the loop: a longer line restarts the wait.
Sleep100 ==
    /\ GetsAt("loop")
    /\ Waiting
    /\ gets' = IF cursor > gets.old THEN [gets EXCEPT !.old = cursor, !.i = 1]
                                    ELSE [gets EXCEPT !.i = @ + 1]
    /\ UNCHANGED <<fl, wr, hist>>

LoopExit ==
    /\ GetsAt("loop")
    /\ ~Waiting
    /\ gets' = [gets EXCEPT !.pc = "clear", !.i = 0, !.old = 0]
    /\ UNCHANGED <<fl, wr, hist>>

ClearGets ==
    /\ GetsAt("clear")
    /\ bGets' = FALSE
    /\ GetsGoes("return")
    /\ UNCHANGED <<bReturn, bPassword, cursor, keys, wr, hist>>

\* `return bReturn?keys:NULL`
Return ==
    /\ GetsAt("return")
    /\ GetsGoes(IF bReturn THEN "copy" ELSE "idle")
    /\ UNCHANGED <<fl, wr, hist>>

\* The C string in keys; without a NUL the caller reads past the array.
Terminated == \E n \in 0 .. MaxKey : keys[n] = "NUL"
StrLen == CHOOSE n \in 0 .. MaxKey :
             keys[n] = "NUL" /\ \A m \in 0 .. n - 1 : keys[m] # "NUL"
KeysLine == IF Terminated THEN [n \in 1 .. StrLen |-> keys[n - 1]]
                          ELSE <<"unterminated">>

\* The caller copies the line (strncpy into username or password, a command).
CopyKeys ==
    /\ GetsAt("copy")
    /\ GetsGoes("idle")
    /\ UNCHANGED <<fl, wr, hist>>

----------------------------------------------------------------------------
(* write(&key, 1) and disconn(), in the event thread *)

WriteAt(pc) == wr.pc = pc
IdleWrite == [pc |-> "idle", key |-> "CR"]
WriteGoes(pc) == wr' = [wr EXCEPT !.pc = pc]

\* The line editor the user sees: MaxKey characters, erased from the right.
Edited(l, k) == CASE k = "CR" -> l
                  [] k = "BS" -> IF l = <<>> THEN l ELSE SubSeq(l, 1, Len(l) - 1)
                  [] OTHER    -> IF Len(l) < MaxKey THEN Append(l, k) ELSE l

\* The user presses k.  Without a gets() the key goes to host->write.
Press(k) ==
    /\ WriteAt("idle")
    /\ wr' = IF bGets THEN [pc |-> "test", key |-> k] ELSE wr
    /\ hasty' = (hasty \/ ~GetsAt("loop") \/ bReturn)
    /\ line' = IF hasty' THEN <<>> ELSE Edited(line, k)
    /\ UNCHANGED <<fl, gets, shown, overrun>>

\* `for ( int i=0; i<len&&bGets; i++ )`: the key is dropped when gets() has
\* just returned.
WriteLoop ==
    /\ WriteAt("test")
    /\ IF bGets THEN WriteGoes("edit") ELSE wr' = IdleWrite
    /\ UNCHANGED <<fl, gets, hist>>

\* keys[cursor] = b, wherever that is: the byte after keys is bPassword.
StoreKey(b) ==
    /\ keys' = IF cursor <= MaxKey THEN [keys EXCEPT ![cursor] = b] ELSE keys
    /\ bPassword' = IF cursor = MaxKey + 1 THEN b # "NUL" ELSE bPassword
    /\ overrun' = (overrun \/ cursor > MaxKey)

\* Slip: Enter does not end the string.
EditKey_Unterminated ==
    /\ WriteAt("edit")
    /\ WriteGoes("post")
    /\ \/ /\ wr.key = "BS"
          /\ cursor' = IF cursor > 0 THEN cursor - 1 ELSE cursor
          /\ UNCHANGED <<keys, bPassword, overrun>>
       \/ /\ wr.key = "CR"
          /\ UNCHANGED <<keys, bPassword, overrun, cursor>>
       \/ /\ wr.key \in Chars
          /\ StoreKey(wr.key)
          /\ cursor' = IF cursor + 1 > MaxKey THEN MaxKey ELSE cursor + 1
    /\ UNCHANGED <<bGets, bReturn, gets, line, hasty, shown>>

\* Slip: the line is not clamped to the buffer.
EditKey_Unclamped ==
    /\ WriteAt("edit")
    /\ WriteGoes("post")
    /\ \/ /\ wr.key = "BS"
          /\ cursor' = IF cursor > 0 THEN cursor - 1 ELSE cursor
          /\ UNCHANGED <<keys, bPassword, overrun>>
       \/ /\ wr.key # "BS"
          /\ StoreKey(IF wr.key = "CR" THEN "NUL" ELSE wr.key)
          /\ cursor' = cursor + 1
    /\ UNCHANGED <<bGets, bReturn, gets, line, hasty, shown>>

\* Bound: cursor is not followed further than two past keys.
EditKey ==
    /\ WriteAt("edit")
    /\ WriteGoes("post")
    /\ \/ /\ wr.key = "BS"
          /\ cursor' = IF cursor > 0 THEN cursor - 1 ELSE cursor
          /\ UNCHANGED <<keys, bPassword, overrun>>
       \/ /\ wr.key = "CR"
          /\ StoreKey("NUL")
          /\ cursor' = IF cursor > MaxKey + 1 THEN cursor ELSE cursor + 1
       \/ /\ wr.key \in Chars
          /\ StoreKey(wr.key)
          /\ cursor' = IF cursor + 1 > MaxKey THEN MaxKey ELSE cursor + 1
    /\ UNCHANGED <<bGets, bReturn, gets, line, hasty, shown>>

\* Enter: append("\r\n"), bReturn=true.  A character: `if ( !bPassword )
\* append(buf+i, 1)`.
PostKey ==
    /\ WriteAt("post")
    /\ wr' = IdleWrite
    /\ bReturn' = (bReturn \/ wr.key = "CR")
    /\ shown' = (shown \/ (/\ wr.key \in Chars /\ ~bPassword
                           /\ ~gets.echo /\ ~GetsAt("idle")))
    /\ UNCHANGED <<bGets, bPassword, cursor, keys, gets, line, hasty,
                   overrun>>

\* Fl_Term::disconn: `bGets = false`, between two keys of the same thread.
DisconnGets ==
    /\ WriteAt("idle")
    /\ bGets' = FALSE
    /\ UNCHANGED <<bReturn, bPassword, cursor, keys, gets, wr, hist>>

----------------------------------------------------------------------------
GetsSteps ==
    \/ ResetCursor \/ SetGets \/ ClearReturn \/ SetPassword
    \/ Sleep100 \/ LoopExit \/ ClearGets \/ Return \/ CopyKeys
WriteSteps == WriteLoop \/ EditKey \/ PostKey

GetsNext ==
    \/ \E echo \in BOOLEAN : Prompt(echo)
    \/ \E k \in Keys : Press(k)
    \/ GetsSteps \/ WriteSteps \/ DisconnGets

GetsSpec == GetsInit /\ [][GetsNext]_getsVars

\* The reader thread is scheduled; the user may do anything, for ever.
GetsFairSpec == GetsSpec /\ WF_getsVars(GetsSteps)

----------------------------------------------------------------------------
(* Properties *)

\* What gets() hands to its caller is the line the user typed and corrected,
\* for a user who types while gets() waits and stops at Enter.
LineIntact ==
    GetsAt("copy") /\ ~hasty => Terminated /\ KeysLine = line

\* For such a user no key of a password is displayed.
PasswordHidden == shown => hasty

\* Nor is a byte written past keys, however long the line is.
KeysInBounds == overrun => hasty

\* Whatever the user types, gets() returns: only a longer line restarts the
\* wait, and the line cannot grow for ever.
GetsReturns == GetsAt("loop") ~> GetsAt("idle")

\* The comment on bPassword, "no echo if yes".
NoPasswordEcho == ~shown
=============================================================================
