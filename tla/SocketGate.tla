----------------------------- MODULE SocketGate -----------------------------
(***************************************************************************)
(* What SOCKET::invoke and wait_invokers promise (drivers/libdrv): calls   *)
(* are let in until the gate is shut, and the socket is closed when the    *)
(* last one has left, or when the closing thread has given up waiting.     *)
(***************************************************************************)
CONSTANT Threads
VARIABLES
    inside,  \* threads inside a WSK function
    state,   \* "open", "shut" or "closed"
    gaveUp   \* the wait was ended by its timeout

gate == <<inside, state, gaveUp>>

Init == inside = {} /\ state = "open" /\ gaveUp = FALSE

Enter(t) ==
    /\ state = "open" /\ t \notin inside
    /\ inside' = inside \cup {t}
    /\ UNCHANGED <<state, gaveUp>>

Leave(t) ==
    /\ t \in inside
    /\ inside' = inside \ {t}
    /\ UNCHANGED <<state, gaveUp>>

Shut ==
    /\ state = "open"
    /\ state' = "shut"
    /\ UNCHANGED <<inside, gaveUp>>

GiveUp ==
    /\ state = "shut"
    /\ gaveUp' = TRUE
    /\ UNCHANGED <<inside, state>>

Close ==
    /\ state = "shut"
    /\ inside = {} \/ gaveUp
    /\ state' = "closed"
    /\ UNCHANGED <<inside, gaveUp>>

Next == (\E t \in Threads : Enter(t) \/ Leave(t)) \/ Shut \/ GiveUp \/ Close

Spec == Init /\ [][Next]_gate
=============================================================================
