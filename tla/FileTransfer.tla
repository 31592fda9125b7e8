---------------------------- MODULE FileTransfer ----------------------------
(***************************************************************************)
(* What sending a file promises: the receiver gets the blocks of one file  *)
(* one by one, in order, and the user is told "Completed" only when the    *)
(* receiver has them all.                                                  *)
(***************************************************************************)
EXTENDS Naturals

CONSTANT Sizes      \* sizes of files, in blocks

VARIABLES
    size,       \* blocks of the file being sent
    received,   \* how many of them the receiver has: the first ones
    result      \* "sending", or what the user was told

vars == <<size, received, result>>

Init == size = 0 /\ received = 0 /\ result = "none"

\* A file is sent to a receiver that has nothing yet.
Start == /\ result # "sending"
         /\ size' \in Sizes
         /\ received' = 0
         /\ result' = "sending"

\* Blocks go on arriving after the sender gave up.
Receive == /\ received < size
           /\ received' = received + 1
           /\ UNCHANGED <<size, result>>

Complete == /\ result = "sending"
            /\ received = size
            /\ result' = "Completed"
            /\ UNCHANGED <<size, received>>

Abort == /\ result = "sending"
         /\ result' = "Aborted"
         /\ UNCHANGED <<size, received>>

\* Nothing is promised of a transfer that was disturbed before it began.
Void == /\ result = "sending"
        /\ size' = 0 /\ received' = 0 /\ result' = "void"

Next == Start \/ Receive \/ Complete \/ Abort \/ Void

Spec == Init /\ [][Next]_vars
=============================================================================
