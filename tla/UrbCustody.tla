----------------------------- MODULE UrbCustody -----------------------------
(***************************************************************************)
(* What send(), send_complete, ret_command, cancel_request and             *)
(* endpoint_purge promise together (drivers/ude): a request belongs to one *)
(* of them at a time.  It comes from the framework to its sender, which    *)
(* puts it in device_ctx::requests; whoever takes it out of the list, or   *)
(* is called by the framework to cancel it, has it to himself and completes *)
(* it; only then does the handle come back with another URB.               *)
(***************************************************************************)
CONSTANT Requests
VARIABLE holder  \* per request, "none" when the driver does not own it

Init == holder = [r \in Requests |-> "none"]

Pass(r, from, to) == holder[r] = from /\ holder' = [holder EXCEPT ![r] = to]

Accept(r) == Pass(r, "none", "sender")

Link(r) == Pass(r, "sender", "list")

Take(r) == \E h \in {"sender", "purge", "receiver"} : Pass(r, "list", h)

\* The framework cancels one request, or all the cancelable ones of a queue.
Cancel(R) ==
    /\ \A r \in R : holder[r] = "list"
    /\ holder' = [r \in Requests |-> IF r \in R THEN "canceller" ELSE holder[r]]

Complete(r) == \E h \in {"sender", "purge", "receiver", "canceller"} : Pass(r, h, "none")

\* A failed send was applied to another URB: nothing is promised from then on.
Undefined == holder' = [r \in Requests |-> "undefined"]

Next ==
    \/ \E r \in Requests : Accept(r) \/ Link(r) \/ Take(r) \/ Complete(r)
    \/ \E R \in SUBSET Requests : Cancel(R)
    \/ Undefined

Spec == Init /\ [][Next]_holder
=============================================================================
