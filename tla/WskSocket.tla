----------------------------- MODULE WskSocket -----------------------------
(***************************************************************************)
(* The gate in front of the WSK functions of one socket                    *)
(* (drivers/libdrv/wsk_cpp.cpp, struct SOCKET).                            *)
(*                                                                         *)
(* WskCloseSocket must not run while another function of the socket does,  *)
(* and SOCKET outlives the close, so calls keep coming.  invoke counts the *)
(* calls in the low bits of invoke_cnt; wait_invokers sets the CLOSING     *)
(* bit, which turns new calls away, and waits for the last call inside to  *)
(* set an event.  A call turned away is counted too while it looks at the  *)
(* bit.  Each Interlocked operation is one step.                           *)
(***************************************************************************)
EXTENDS Naturals, FiniteSets

CONSTANTS
    Threads,  \* threads that call functions of the socket
    Closers,  \* those of them that may call close_socket
    MaxCalls  \* bound: number of calls of invoke in a behaviour

ASSUME ThreadsAssumption ==
    /\ IsFiniteSet(Threads)
    /\ Closers \subseteq Threads
    /\ MaxCalls \in Nat

VARIABLES
    pc,         \* where each thread is
    then,       \* where it goes after invoke: "close" for the disconnect of close_socket
    count,      \* invoke_cnt & COUNT_MASK
    closing,    \* invoke_cnt & CLOSING
    eventSet,   \* invoke_cnt & EVENT_SET
    can_close,  \* the notification event
    timedOut,   \* the wait of wait_invokers ended by its timeout
    closed,     \* WskCloseSocket was called
    calls       \* number of calls of invoke so far

vars == <<pc, then, count, closing, eventSet, can_close, timedOut, closed, calls>>

\* In invoke: "calling" is inside the WSK function, "refused" was turned away,
\* "last" and "signal" set the event.  The others are in wait_invokers and close.
Places == {"idle", "calling", "refused", "last", "signal",
           "close", "mark", "waiting", "woken"}

Counted == {t \in Threads : pc[t] \in {"calling", "refused"}}
Callers == {t \in Threads : pc[t] = "calling"}

Init ==
    /\ pc = [t \in Threads |-> "idle"]
    /\ then = [t \in Threads |-> "idle"]
    /\ count = 0
    /\ closing = FALSE /\ eventSet = FALSE /\ can_close = FALSE
    /\ timedOut = FALSE /\ closed = FALSE
    /\ calls = 0

Goto(t, place) == pc' = [pc EXCEPT ![t] = place]

-----------------------------------------------------------------------------
(* SOCKET::invoke                                                           *)

\* InterlockedIncrement64 and the test of CLOSING in its result.
invoke_enter(t, after) ==
    /\ pc[t] = "idle"
    /\ calls < MaxCalls
    /\ calls' = calls + 1
    /\ then' = [then EXCEPT ![t] = after]
    /\ count' = count + 1
    /\ Goto(t, IF closing THEN "refused" ELSE "calling")
    /\ UNCHANGED <<closing, eventSet, can_close, timedOut, closed>>

\* Mutant of invoke_leave: calls turned away do not set the event.
leave_refused_silently(t) ==
    /\ pc[t] \in {"calling", "refused"}
    /\ count' = count - 1
    /\ Goto(t, IF pc[t] = "calling" /\ count = 1 /\ closing /\ ~eventSet
                 THEN "last" ELSE then[t])
    /\ UNCHANGED <<then, closing, eventSet, can_close, timedOut, closed, calls>>

\* The function has returned; InterlockedDecrement64 == CLOSING: the count is zero
\* and the event is not set.
invoke_leave(t) ==
    /\ pc[t] \in {"calling", "refused"}
    /\ count' = count - 1
    /\ Goto(t, IF count = 1 /\ closing /\ ~eventSet THEN "last" ELSE then[t])
    /\ UNCHANGED <<then, closing, eventSet, can_close, timedOut, closed, calls>>

\* InterlockedBitTestAndSet64(&invoke_cnt, EVENT_SET_OFFSET)
test_and_set_event(t) ==
    /\ pc[t] = "last"
    /\ eventSet' = TRUE
    /\ Goto(t, IF eventSet THEN then[t] ELSE "signal")
    /\ UNCHANGED <<then, count, closing, can_close, timedOut, closed, calls>>

\* KeSetEvent
set_can_close(t) ==
    /\ pc[t] = "signal"
    /\ can_close' = TRUE
    /\ Goto(t, then[t])
    /\ UNCHANGED <<then, count, closing, eventSet, timedOut, closed, calls>>

\* wsk::send and wsk::receive; the IRP is completed later.
send_or_receive(t) == invoke_enter(t, "idle")

-----------------------------------------------------------------------------
(* close_socket disconnects, then closes.                                   *)

\* wsk::disconnect waits for the completion of WskDisconnect.
disconnect(t) == invoke_enter(t, "close")

close_socket(t) == t \in Closers /\ disconnect(t)

\* Mutant of wait_invokers: a second close is not turned away.
wait_invokers_again(t) ==
    /\ pc[t] = "close"
    /\ closing' = TRUE
    /\ Goto(t, IF count > 0 THEN "waiting" ELSE "mark")
    /\ UNCHANGED <<then, count, eventSet, can_close, timedOut, closed, calls>>

\* InterlockedOr64(&invoke_cnt, CLOSING) and the tests of the old value.
wait_invokers(t) ==
    /\ pc[t] = "close"
    /\ closing' = TRUE
    /\ \/ closing /\ Goto(t, "idle")
       \/ ~closing /\ Goto(t, IF count > 0 THEN "waiting" ELSE "mark")
    /\ UNCHANGED <<then, count, eventSet, can_close, timedOut, closed, calls>>

wait_mark(t) ==
    /\ pc[t] = "mark"
    /\ eventSet' = TRUE
    /\ Goto(t, "woken")
    /\ UNCHANGED <<then, count, closing, can_close, timedOut, closed, calls>>

wait_signalled(t) ==
    /\ pc[t] = "waiting"
    /\ can_close
    /\ Goto(t, "woken")
    /\ UNCHANGED <<then, count, closing, eventSet, can_close, timedOut, closed, calls>>

\* After 30 seconds; the status of the wait is not looked at.
wait_timeout(t) ==
    /\ pc[t] = "waiting"
    /\ ~can_close
    /\ timedOut' = TRUE
    /\ Goto(t, "woken")
    /\ UNCHANGED <<then, count, closing, eventSet, can_close, closed, calls>>

WskCloseSocket(t) ==
    /\ pc[t] = "woken"
    /\ closed' = TRUE
    /\ Goto(t, "idle")
    /\ UNCHANGED <<then, count, closing, eventSet, can_close, timedOut, calls>>

-----------------------------------------------------------------------------
InvokeNext(t) == invoke_leave(t) \/ test_and_set_event(t) \/ set_can_close(t)
CloseNext(t) == wait_invokers(t) \/ wait_mark(t) \/ wait_signalled(t) \/ WskCloseSocket(t)

Next == \E t \in Threads :
    \/ send_or_receive(t)
    \/ close_socket(t)
    \/ InvokeNext(t)
    \/ CloseNext(t)
    \/ wait_timeout(t)

Spec == Init /\ [][Next]_vars

\* WSK functions are asynchronous, so they return, and a thread in the driver
\* runs on.  Nobody has to call, and the timeout need not expire.
Fairness == \A t \in Threads : WF_vars(InvokeNext(t)) /\ WF_vars(CloseNext(t))

FairSpec == Spec /\ Fairness

-----------------------------------------------------------------------------
(* Properties.                                                              *)

\* Type invariant of SOCKET.
TypeOK ==
    /\ pc \in [Threads -> Places]
    /\ then \in [Threads -> {"idle", "close"}]
    /\ count \in Nat
    /\ closing \in BOOLEAN /\ eventSet \in BOOLEAN /\ can_close \in BOOLEAN
    /\ timedOut \in BOOLEAN /\ closed \in BOOLEAN
    /\ calls \in 0..MaxCalls

\* What the gate promises.
Gate == INSTANCE SocketGate
    WITH inside <- Callers,
         state <- IF closed THEN "closed" ELSE IF closing THEN "shut" ELSE "open",
         gaveUp <- timedOut

\* "a WSK application must ensure that there are no other function calls in
\* progress" (comment above close): the counter and the two bits implement the
\* abstract gate.
ImplementsGate == Gate!Spec

\* can_close is set once (NT_VERIFY in invoke), whoever leaves last.
SignalledOnce ==
    \A t \in Threads : pc[t] = "signal" =>
        ~can_close /\ \A u \in Threads : pc[u] = "signal" => u = t

\* A close that waits is woken by the last call inside, without the timeout,
\* whatever calls are being turned away at that time.
NoLostWakeup == \A t \in Threads : (pc[t] = "waiting") ~> (can_close \/ timedOut)

\* Whoever waits has somebody to wait for: the event is set, or a call is still inside
\* that will set it or leave it to another (invoke, wait_invokers).
WakerExists ==
    (\E t \in Threads : pc[t] = "waiting") =>
        can_close \/ \E t \in Threads : pc[t] \in {"calling", "refused", "last", "signal"}

-----------------------------------------------------------------------------
(* The inductive invariant: once CLOSING is set and the count has been zero, *)
(* nobody is inside, although the count may grow again.                      *)

Passing == {"mark", "waiting", "woken"}

Emptied == \/ eventSet \/ can_close
           \/ \E t \in Threads : pc[t] \in {"last", "signal", "mark"}
           \/ ~timedOut /\ \E t \in Threads : pc[t] = "woken"

IInv ==
    /\ TypeOK
    /\ count = Cardinality(Counted)
    /\ Emptied => closing /\ Callers = {}
    /\ closed => closing /\ (timedOut \/ Callers = {})
    /\ \A t \in Threads : pc[t] \in Passing =>
         closing /\ ~closed /\ \A u \in Threads : pc[u] \in Passing => u = t
    /\ closing => closed \/ \E t \in Threads : pc[t] \in Passing
    /\ timedOut => closing
    /\ SignalledOnce
    /\ can_close \/ (\E t \in Threads : pc[t] = "signal") => eventSet

\* EVENT_SET while somebody waits means that the event is set, or is just being set.
WakeInv ==
    /\ IInv
    /\ WakerExists
    /\ eventSet /\ (\E t \in Threads : pc[t] = "waiting") =>
         can_close \/ \E t \in Threads : pc[t] = "signal"
=============================================================================
