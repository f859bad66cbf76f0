----------------------------- MODULE StatusBoard -----------------------------
(***************************************************************************)
(* What the status topic promises, without messages, sessions, queues and  *)
(* faults: while the node is connected it may announce itself; while it is *)
(* not, a power-up that was not yet followed by a later one on the board   *)
(* is withdrawn, which may be noticed only when the node comes back.  The  *)
(* server's row shows no power-up before the board did.                    *)
(***************************************************************************)
EXTENDS Integers

VARIABLES
    boot,    \* power-ups so far
    live,    \* the node is connected
    board,   \* what the topic says: of which power-up, and whether it is online
    row      \* what the server shows

vars == <<boot, live, board, row>>

Entry(up, b) == [online |-> up, boot |-> b]

Init ==
    /\ boot = 0 /\ live = FALSE
    /\ board = Entry(FALSE, 0) /\ row = Entry(FALSE, 0)

PowerUp == ~live /\ boot' = boot + 1 /\ UNCHANGED <<live, board, row>>

Withdrawn == \E b \in board.boot..boot : board' = Entry(FALSE, b)

Connect ==
    /\ ~live
    /\ live' = TRUE
    /\ Withdrawn \/ UNCHANGED board
    /\ UNCHANGED <<boot, row>>

Disconnect == live /\ live' = FALSE /\ UNCHANGED <<boot, board, row>>

Announce == live /\ board' = Entry(TRUE, boot) /\ UNCHANGED <<boot, live, row>>

Withdraw == ~live /\ Withdrawn /\ UNCHANGED <<boot, live, row>>

Show ==
    /\ \E up \in BOOLEAN, b \in 0..board.boot : row' = Entry(up, b)
    /\ UNCHANGED <<boot, live, board>>

Next == PowerUp \/ Connect \/ Disconnect \/ Announce \/ Withdraw \/ Show

Spec == Init /\ [][Next]_vars
=============================================================================
