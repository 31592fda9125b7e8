---------------------------- MODULE TermSession ----------------------------
(***************************************************************************)
(* What the host lifecycle promises to the rest of FLTerm: a terminal      *)
(* serves one session at a time.  A session is one run of a reader thread; *)
(* it opens, may become connected, winds down and ends, and no other       *)
(* session starts in between.  Everything Fl_Term keeps per connection     *)
(* (the prompt, the gets buffer, the title) is unguarded because of this.  *)
(* The promise lasts until two threads race to connect the terminal.       *)
(***************************************************************************)
CONSTANT Threads

VARIABLES phase,    \* phase[t]: what the session run by thread t is doing
          raced     \* the terminal's users got in each other's way

sessionVars == <<phase, raced>>

SessionInit == phase = [t \in Threads |-> "none"] /\ raced = FALSE

\* A session may begin only when the terminal has none.
Begin(t) == /\ \A u \in Threads : phase[u] = "none"
            /\ phase' = [phase EXCEPT ![t] = "opening"]

Establish(t) == /\ phase[t] = "opening"
                /\ phase' = [phase EXCEPT ![t] = "open"]

\* The peer is gone or was never reached; the session winds down.
Close(t) == /\ phase[t] \in {"opening", "open"}
            /\ phase' = [phase EXCEPT ![t] = "closing"]

\* An opening session may end without winding down.
End(t) == /\ phase[t] \in {"opening", "closing"}
          /\ phase' = [phase EXCEPT ![t] = "none"]

\* Nothing is promised of a race, nor of what follows it.
Race == raced' = TRUE

SessionNext ==
    \/ Race
    \/ /\ UNCHANGED raced
       /\ \E t \in Threads : Begin(t) \/ Establish(t) \/ Close(t) \/ End(t)

SessionSpec == SessionInit /\ [][SessionNext]_sessionVars
=============================================================================
