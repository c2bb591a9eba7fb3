------------------------------ MODULE WskProofs ------------------------------
(***************************************************************************)
(* Proofs about what goes through the socket of a device. WskSocket, for   *)
(* any finite number of threads: the counter and its flag bits implement   *)
(* the abstract gate. Transfers, for any URBs and any answers: messages    *)
(* fit their chains of MDLs, and data end up where they belong.            *)
(***************************************************************************)
EXTENDS WskSocket, Transfers, FiniteSetTheorems, SequenceTheorems, TLAPS

\* The threads that are counted are finite in number.
LEMMA CountedFinite == IsFiniteSet(Counted) /\ IsFiniteSet(Counted')
  <1>1. Counted \subseteq Threads /\ Counted' \subseteq Threads
    BY DEF Counted
  <1> QED BY <1>1, FS_Subset, ThreadsAssumption

\* InterlockedIncrement64 and InterlockedDecrement64 keep the counter equal to
\* the number of threads between them.
LEMMA CountInvariant ==
  ASSUME TypeOK, count = Cardinality(Counted), [Next]_vars
  PROVE  count' = Cardinality(Counted')
  <1>1. ASSUME NEW t \in Threads, NEW after, invoke_enter(t, after)
        PROVE  count' = Cardinality(Counted')
    <2>1. t \notin Counted /\ Counted' = Counted \cup {t}
      BY <1>1 DEF invoke_enter, Goto, Counted, TypeOK
    <2> QED BY <1>1, <2>1, CountedFinite, FS_AddElement DEF invoke_enter
  <1>2. ASSUME NEW t \in Threads, invoke_leave(t)
        PROVE  count' = Cardinality(Counted')
    <2>1. t \in Counted /\ Counted' = Counted \ {t}
      BY <1>2 DEF invoke_leave, Goto, Counted, TypeOK
    <2> QED BY <1>2, <2>1, CountedFinite, FS_RemoveElement DEF invoke_leave
  <1>3. ASSUME NEW t \in Threads, count' = count,
               pc[t] \notin {"calling", "refused"},
               NEW place \in Places \ {"calling", "refused"}, Goto(t, place)
        PROVE  count' = Cardinality(Counted')
    <2>1. Counted' = Counted
      BY <1>3 DEF Goto, Counted, TypeOK
    <2> QED BY <1>3, <2>1
  <1>4. ASSUME NEW t \in Threads,
               \/ test_and_set_event(t) \/ set_can_close(t) \/ CloseNext(t) \/ wait_timeout(t)
        PROVE  count' = Cardinality(Counted')
    <2>1. PICK place \in Places \ {"calling", "refused"} : Goto(t, place)
      BY <1>4 DEF test_and_set_event, set_can_close, CloseNext, wait_invokers, wait_mark,
         wait_signalled, wait_timeout, WskCloseSocket, Places, TypeOK
    <2>2. count' = count /\ pc[t] \notin {"calling", "refused"}
      BY <1>4 DEF test_and_set_event, set_can_close, CloseNext, wait_invokers, wait_mark,
         wait_signalled, wait_timeout, WskCloseSocket
    <2> QED BY <1>3, <2>1, <2>2
  <1>5. CASE UNCHANGED vars
    BY <1>5 DEF vars, Counted
  <1> QED
    BY <1>1, <1>2, <1>4, <1>5 DEF Next, send_or_receive, close_socket, disconnect, InvokeNext

\* SOCKET stays well typed.
LEMMA TypeNext == IInv /\ [Next]_vars => TypeOK'
  <1> SUFFICES ASSUME IInv, [Next]_vars PROVE TypeOK'
    OBVIOUS
  <1>1. count' \in Nat
    BY CountInvariant, CountedFinite, FS_CardinalityType DEF IInv
  <1> USE ThreadsAssumption DEF IInv, TypeOK, Places, Goto
  <1>2. ASSUME NEW t \in Threads, NEW after \in {"idle", "close"}, invoke_enter(t, after)
        PROVE  TypeOK'
    BY <1>1, <1>2 DEF invoke_enter
  <1>3. ASSUME NEW t \in Threads, InvokeNext(t) PROVE TypeOK'
    BY <1>1, <1>3 DEF InvokeNext, invoke_leave, test_and_set_event, set_can_close
  <1>4. ASSUME NEW t \in Threads, CloseNext(t) \/ wait_timeout(t) PROVE TypeOK'
    BY <1>1, <1>4 DEF CloseNext, wait_invokers, wait_mark, wait_signalled,
       wait_timeout, WskCloseSocket
  <1>5. CASE UNCHANGED vars
    BY <1>5 DEF vars
  <1> HIDE DEF TypeOK
  <1> QED
    BY <1>2, <1>3, <1>4, <1>5 DEF Next, send_or_receive, close_socket, disconnect

\* A count of one means that the thread leaving is the only one inside.
LEMMA LastLeaves ==
  ASSUME count = Cardinality(Counted), count = 1, NEW t \in Counted
  PROVE  Counted = {t}
  <1>1. /\ IsFiniteSet(Counted \ {t})
        /\ Cardinality(Counted \ {t}) = Cardinality(Counted) - 1
    BY CountedFinite, FS_RemoveElement
  <1>2. Cardinality(Counted \ {t}) = 0
    BY <1>1
  <1>3. Counted \ {t} = {}
    BY <1>1, <1>2, FS_EmptySet
  <1> QED BY <1>3

\* Every step of invoke and wait_invokers keeps the invariant.
LEMMA InvariantNext == IInv /\ [Next]_vars => IInv'
  <1> SUFFICES ASSUME IInv, [Next]_vars PROVE IInv'
    OBVIOUS
  <1>1. TypeOK' /\ count' = Cardinality(Counted')
    BY TypeNext, CountInvariant DEF IInv
  <1> USE ThreadsAssumption DEF TypeOK, IInv, Emptied, Callers, Passing, Goto, SignalledOnce
  <1>2. ASSUME NEW t \in Threads, NEW after \in {"idle", "close"}, invoke_enter(t, after)
        PROVE  IInv'
    BY <1>1, <1>2 DEF invoke_enter
  <1>3. ASSUME NEW t \in Threads, invoke_leave(t) PROVE IInv'
    <2>1. CASE count = 1 /\ closing /\ ~eventSet
      <3>1. Counted = {t}
        BY <1>3, <2>1, LastLeaves DEF invoke_leave, Counted
      <3>2. Callers' = {}
        BY <1>3, <3>1 DEF invoke_leave, Counted
      <3> QED BY <1>1, <1>3, <2>1, <3>2 DEF invoke_leave
    <2>2. CASE ~(count = 1 /\ closing /\ ~eventSet)
      BY <1>1, <1>3, <2>2 DEF invoke_leave
    <2> QED BY <2>1, <2>2
  <1>4. ASSUME NEW t \in Threads, test_and_set_event(t) \/ set_can_close(t) PROVE IInv'
    BY <1>1, <1>4 DEF test_and_set_event, set_can_close
  <1>5. ASSUME NEW t \in Threads, wait_invokers(t) PROVE IInv'
    <2>1. CASE closing
      BY <1>1, <1>5, <2>1 DEF wait_invokers
    <2>2. CASE ~closing /\ count > 0
      BY <1>1, <1>5, <2>2 DEF wait_invokers
    <2>3. CASE ~closing /\ ~(count > 0)
      <3>1. Counted = {}
        BY <2>3, CountedFinite, FS_EmptySet
      <3>2. Callers' = {}
        BY <1>5, <2>3, <3>1 DEF wait_invokers, Counted
      <3> QED BY <1>1, <1>5, <2>3, <3>2 DEF wait_invokers
    <2> QED BY <2>1, <2>2, <2>3
  <1>6. ASSUME NEW t \in Threads, wait_mark(t) \/ wait_signalled(t) PROVE IInv'
    BY <1>1, <1>6 DEF wait_mark, wait_signalled
  <1>7. ASSUME NEW t \in Threads, wait_timeout(t) PROVE IInv'
    BY <1>1, <1>7 DEF wait_timeout
  <1>8. ASSUME NEW t \in Threads, WskCloseSocket(t) PROVE IInv'
    BY <1>1, <1>8 DEF WskCloseSocket
  <1>9. CASE UNCHANGED vars
    BY <1>1, <1>9 DEF vars
  <1> HIDE DEF IInv
  <1> QED
    BY <1>2, <1>3, <1>4, <1>5, <1>6, <1>7, <1>8, <1>9
    DEF Next, send_or_receive, close_socket, disconnect, InvokeNext, CloseNext

\* The initial state satisfies the invariant.
LEMMA InvariantInit == Init => IInv
  <1> SUFFICES ASSUME Init PROVE IInv
    OBVIOUS
  <1>1. Counted = {}
    BY DEF Init, Counted
  <1>2. count = Cardinality(Counted)
    BY <1>1, FS_EmptySet DEF Init
  <1>3. TypeOK
    <2>1. pc \in [Threads -> Places] /\ then \in [Threads -> {"idle", "close"}]
      BY DEF Init, Places
    <2>2. count \in Nat /\ calls \in 0..MaxCalls
      BY ThreadsAssumption DEF Init
    <2>3. /\ closing \in BOOLEAN /\ eventSet \in BOOLEAN /\ can_close \in BOOLEAN
          /\ timedOut \in BOOLEAN /\ closed \in BOOLEAN
      BY Zenon DEF Init
    <2> QED BY <2>1, <2>2, <2>3 DEF TypeOK
  <1>4. \A t \in Threads : pc[t] = "idle"
    BY DEF Init
  <1>5. ~eventSet /\ ~can_close /\ ~closed /\ ~closing /\ ~timedOut
    BY DEF Init
  <1>6. ~Emptied
    BY <1>4, <1>5 DEF Emptied
  <1>7. \A t \in Threads : pc[t] \notin Passing
    BY <1>4 DEF Passing
  <1> QED
    BY <1>2, <1>3, <1>4, <1>5, <1>6, <1>7 DEF IInv, SignalledOnce

\* At any time the counter tells how many threads are in invoke, and after the
\* event nobody is inside a WSK function.
THEOREM Invariance == Spec => []IInv
  BY InvariantInit, InvariantNext, PTL DEF Spec

\* can_close is set once, whichever call leaves last.
THEOREM SignalledOnceHolds == Spec => []SignalledOnce
  <1>1. IInv => SignalledOnce
    BY DEF IInv
  <1> QED BY <1>1, Invariance, PTL

\* Nobody waits in vain.
LEMMA WakeNext == WakeInv /\ [Next]_vars => WakeInv'
  <1> SUFFICES ASSUME WakeInv, [Next]_vars PROVE WakeInv'
    OBVIOUS
  <1>1. IInv /\ IInv'
    BY InvariantNext DEF WakeInv
  <1> USE DEF WakerExists, Goto, TypeOK
  <1>2. ASSUME NEW t \in Threads, NEW after, invoke_enter(t, after) PROVE WakeInv'
    BY <1>1, <1>2 DEF invoke_enter, WakeInv, IInv
  <1>3. ASSUME NEW t \in Threads, invoke_leave(t) PROVE WakeInv'
    <2>1. pc[t] \in {"calling", "refused"} /\ t \in Counted
      BY <1>3 DEF invoke_leave, Counted
    <2>2. CASE count = 1 /\ closing /\ ~eventSet
      <3>1. pc'[t] = "last"
        BY <1>1, <1>3, <2>2 DEF invoke_leave, IInv
      <3>2. UNCHANGED <<eventSet, can_close>>
        BY <1>3 DEF invoke_leave
      <3> QED BY <1>1, <2>2, <3>1, <3>2 DEF WakeInv, IInv
    <2>3. CASE eventSet
      <3>1. \A u \in Threads : pc[u] \in {"waiting", "signal"} => u # t /\ pc'[u] = pc[u]
        BY <1>1, <1>3, <2>1 DEF invoke_leave, IInv
      <3>2. \A u \in Threads : pc'[u] = "waiting" => pc[u] = "waiting"
        BY <1>1, <1>3, <2>3 DEF invoke_leave, IInv
      <3>3. UNCHANGED <<eventSet, can_close>>
        BY <1>3 DEF invoke_leave
      <3> QED BY <1>1, <2>3, <3>1, <3>2, <3>3 DEF WakeInv
    <2>4. CASE ~eventSet /\ ~(count = 1 /\ closing)
      <3>1. ASSUME NEW w \in Threads, pc'[w] = "waiting"
            PROVE  \E u \in Threads : pc'[u] \in {"calling", "refused"}
        <4>1. pc[w] = "waiting"
          BY <1>1, <1>3, <2>4, <3>1 DEF invoke_leave, IInv
        <4>2. closing
          BY <1>1, <4>1 DEF IInv, Passing
        <4>3. count # 1
          BY <2>4, <4>2
        <4>4. Counted # {t}
          <5>1. count = Cardinality(Counted)
            BY <1>1 DEF IInv
          <5> QED BY <4>3, <5>1, FS_Singleton
        <4>5. PICK u \in Counted : u # t
          BY <2>1, <4>4
        <4>6. u \in Threads /\ pc'[u] = pc[u] /\ pc[u] \in {"calling", "refused"}
          BY <1>1, <1>3, <4>5 DEF invoke_leave, Counted, IInv
        <4> QED BY <4>6
      <3>2. UNCHANGED <<eventSet, can_close>>
        BY <1>3 DEF invoke_leave
      <3> QED BY <1>1, <2>4, <3>1, <3>2 DEF WakeInv
    <2> QED BY <2>2, <2>3, <2>4
  <1>4. ASSUME NEW t \in Threads, test_and_set_event(t) PROVE WakeInv'
    <2>1. CASE eventSet
      BY <1>1, <1>4, <2>1 DEF test_and_set_event, WakeInv, IInv
    <2>2. CASE ~eventSet
      <3>1. pc'[t] = "signal"
        BY <1>1, <1>4, <2>2 DEF test_and_set_event, IInv
      <3> QED BY <1>1, <3>1 DEF WakeInv
    <2> QED BY <2>1, <2>2
  <1>5. ASSUME NEW t \in Threads, set_can_close(t) PROVE WakeInv'
    BY <1>1, <1>5 DEF set_can_close, WakeInv
  <1>6. ASSUME NEW t \in Threads, wait_invokers(t) PROVE WakeInv'
    <2>1. CASE closing
      BY <1>1, <1>6, <2>1 DEF wait_invokers, WakeInv, IInv
    <2>2. CASE ~closing /\ count > 0
      <3>1. Counted # {}
        <4>1. count = Cardinality(Counted)
          BY <1>1 DEF IInv
        <4> QED BY <2>2, <4>1, FS_EmptySet
      <3>2. PICK u \in Counted : TRUE
        BY <3>1
      <3>3. u \in Threads /\ pc'[u] \in {"calling", "refused"}
        BY <1>1, <1>6, <3>2 DEF wait_invokers, Counted, IInv
      <3>4. ~eventSet'
        BY <1>1, <1>6, <2>2 DEF wait_invokers, IInv, Emptied
      <3> QED BY <1>1, <3>3, <3>4 DEF WakeInv
    <2>3. CASE ~closing /\ ~(count > 0)
      <3>1. \A u \in Threads : pc'[u] # "waiting"
        BY <1>1, <1>6, <2>3 DEF wait_invokers, IInv, Passing
      <3> QED BY <1>1, <3>1 DEF WakeInv
    <2> QED BY <2>1, <2>2, <2>3
  <1>7. ASSUME NEW t \in Threads, \/ wait_mark(t) \/ wait_signalled(t) \/ wait_timeout(t) \/ WskCloseSocket(t)
        PROVE  WakeInv'
    <2>1. pc[t] \in Passing /\ pc'[t] \in {"woken", "idle"} /\ \A u \in Threads : u # t => pc'[u] = pc[u]
      BY <1>1, <1>7 DEF wait_mark, wait_signalled, wait_timeout, WskCloseSocket, Passing, IInv
    <2>2. \A u \in Threads : pc'[u] # "waiting"
      BY <1>1, <2>1 DEF IInv, Passing
    <2> QED BY <1>1, <2>2 DEF WakeInv
  <1>8. CASE UNCHANGED vars
    BY <1>1, <1>8 DEF vars, WakeInv
  <1> QED
    BY <1>2, <1>3, <1>4, <1>5, <1>6, <1>7, <1>8
    DEF Next, send_or_receive, close_socket, disconnect, InvokeNext, CloseNext

\* A close never waits without a call inside that will wake it: what NoLostWakeup needs
\* besides fairness, for any number of threads (invoke, wait_invokers).
THEOREM WakerExistsHolds == Spec => []WakerExists
  <1>1. Init => WakeInv
    <2> SUFFICES ASSUME Init PROVE WakeInv
      OBVIOUS
    <2>1. \A t \in Threads : pc[t] # "waiting"
      BY DEF Init
    <2> QED BY <2>1, InvariantInit DEF WakeInv, WakerExists
  <1>2. WakeInv => WakerExists
    BY DEF WakeInv
  <1> QED BY <1>1, <1>2, WakeNext, PTL DEF Spec

\* SOCKET::invoke, wait_invokers and close implement the abstract gate: a call is
\* let in only before CLOSING, and WskCloseSocket is called once, when nobody is
\* inside or the wait timed out.
THEOREM Refinement == Spec => ImplementsGate
  <1>1. Init => Gate!Init
    BY DEF Init, Gate!Init, Callers
  <1>2. IInv /\ [Next]_vars => [Gate!Next]_Gate!gate
    <2> SUFFICES ASSUME IInv, [Next]_vars PROVE [Gate!Next]_Gate!gate
      OBVIOUS
    <2> USE DEF Gate!gate, Goto, Callers, TypeOK, IInv
    <2>1. ASSUME NEW t \in Threads, NEW after, invoke_enter(t, after)
          PROVE  [Gate!Next]_Gate!gate
      <3>1. CASE closing
        BY <2>1, <3>1 DEF invoke_enter
      <3>2. CASE ~closing
        <4>1. Gate!Enter(t)
          BY <2>1, <3>2 DEF invoke_enter, Gate!Enter
        <4> QED BY <4>1 DEF Gate!Next
      <3> QED BY <3>1, <3>2
    <2>2. ASSUME NEW t \in Threads, invoke_leave(t) PROVE [Gate!Next]_Gate!gate
      <3>1. CASE pc[t] = "refused"
        BY <2>2, <3>1 DEF invoke_leave
      <3>2. CASE pc[t] = "calling"
        <4>1. Gate!Leave(t)
          BY <2>2, <3>2 DEF invoke_leave, Gate!Leave
        <4> QED BY <4>1 DEF Gate!Next
      <3> QED BY <2>2, <3>1, <3>2 DEF invoke_leave
    <2>3. ASSUME NEW t \in Threads, test_and_set_event(t) \/ set_can_close(t)
          PROVE  UNCHANGED Gate!gate
      BY <2>3 DEF test_and_set_event, set_can_close
    <2>4. ASSUME NEW t \in Threads, wait_mark(t) \/ wait_signalled(t)
          PROVE  UNCHANGED Gate!gate
      BY <2>4 DEF wait_mark, wait_signalled
    <2>5. ASSUME NEW t \in Threads, wait_invokers(t) PROVE [Gate!Next]_Gate!gate
      <3>1. CASE closing
        BY <2>5, <3>1 DEF wait_invokers
      <3>2. CASE ~closing
        <4>1. Gate!Shut
          BY <2>5, <3>2 DEF wait_invokers, Gate!Shut
        <4> QED BY <4>1 DEF Gate!Next
      <3> QED BY <3>1, <3>2
    <2>6. ASSUME NEW t \in Threads, wait_timeout(t) PROVE Gate!GiveUp
      BY <2>6 DEF wait_timeout, Gate!GiveUp, Passing
    <2>7. ASSUME NEW t \in Threads, WskCloseSocket(t) PROVE Gate!Close
      BY <2>7 DEF WskCloseSocket, Gate!Close, Passing, Emptied
    <2>8. CASE UNCHANGED vars
      BY <2>8 DEF vars
    <2> HIDE DEF IInv, Gate!gate
    <2> QED
      BY <2>1, <2>2, <2>3, <2>4, <2>5, <2>6, <2>7, <2>8
      DEF Next, send_or_receive, close_socket, disconnect, InvokeNext, CloseNext, Gate!Next
  <1> QED BY <1>1, <1>2, Invariance, PTL DEF Spec, ImplementsGate, Gate!Spec

-----------------------------------------------------------------------------
\* A set of numbers has a least one.
LEMMA LeastNumber ==
  ASSUME NEW T, T \subseteq Nat, T # {}
  PROVE  \E x \in T : \A y \in T : x <= y
  <1> DEFINE R == OpToRel(<, Nat)
  <1>1. PICK x \in T : \A y \in T : ~(<<y, x>> \in R)
    <2>1. IsWellFoundedOn(R, Nat) BY NatLessThanWellFounded
    <2> HIDE DEF R
    <2> QED BY <2>1, WFMin
  <1>2. \A y \in T : x <= y
    <2> TAKE y \in T
    <2>1. y \in Nat /\ x \in Nat BY <1>1
    <2>2. ~(y < x) BY <1>1, <2>1 DEF OpToRel
    <2> HIDE DEF R
    <2> QED BY <2>1, <2>2
  <1> QED BY <1>1, <1>2

\* A set with zero and every successor has all numbers.
LEMMA SetInduction ==
  ASSUME NEW S, 0 \in S, \A n \in Nat : n \in S => n + 1 \in S
  PROVE  Nat \subseteq S
  <1> SUFFICES ASSUME Nat \ S # {} PROVE FALSE
    OBVIOUS
  <1>1. PICK x \in Nat \ S : \A y \in Nat \ S : x <= y
    BY LeastNumber
  <1> QED BY <1>1

-----------------------------------------------------------------------------
(* Sequence numbers.                                                        *)

\* The remainder of a number that is less than twice the divisor.
LEMMA SmallRemainder ==
  ASSUME NEW w \in Nat, w > 0, NEW x \in Nat, x < 2 * w
  PROVE  x % w = IF x < w THEN x ELSE x - w
  <1> DEFINE q == x \div w
             m == x % w
  <1>1. q \in Int /\ m \in Int /\ 0 <= m /\ m < w /\ x = w * q + m
    OBVIOUS
  <1> HIDE DEF q, m
  <1>2. CASE q <= -1
    <2>1. w * q <= w * (-1)
      BY <1>1, <1>2
    <2> QED BY <1>1, <2>1
  <1>3. CASE q >= 2
    <2>1. w * q >= w * 2
      BY <1>1, <1>3
    <2> QED BY <1>1, <2>1
  <1>4. CASE q = 0
    BY <1>1, <1>4 DEF m
  <1>5. CASE q = 1
    BY <1>1, <1>5 DEF m
  <1> QED BY <1>1, <1>2, <1>3, <1>4, <1>5

\* next_seqnum: valid, with the direction in its first bit.
LEMMA NextSeqnum ==
  ASSUME NEW n \in Nat, n < SeqnumWidth, NEW in \in BOOLEAN
  PROVE  LET num == next_seqnum(n, in)
         IN  /\ num.counter \in Nat /\ num.counter < SeqnumWidth
             /\ is_valid_seqnum(num.seqnum) /\ (extract_dir_in(num.seqnum) <=> in)
  <1> DEFINE W == SeqnumWidth
             one == (n + 1) % W
             two == (n + 2) % W
             c == IF (2 * one) % W # 0 THEN one ELSE two
             b == IF in THEN 1 ELSE 0
             e == (2 * c) % W
  <1>1. W \in Nat /\ W >= 4 /\ W % 2 = 0
    BY BoundsAssumption
  <1>2. PICK h \in Nat : W = 2 * h
    <2>1. W = (2 * (W \div 2)) + (W % 2) /\ W \div 2 \in Nat
      BY <1>1
    <2> QED BY <1>1, <2>1
  <1>3. one \in Nat /\ one < W /\ two \in Nat /\ two < W
    BY <1>1
  <1>4. next_seqnum(n, in) = [counter |-> c, seqnum |-> e + b]
    BY DEF next_seqnum
  <1> HIDE DEF W
  <1>5. one = (IF n + 1 < W THEN n + 1 ELSE n + 1 - W)
    BY <1>1, SmallRemainder DEF W
  <1>6. two = (IF n + 2 < W THEN n + 2 ELSE n + 2 - W)
    BY <1>1, SmallRemainder DEF W
  <1>7. (2 * one) % W = (IF 2 * one < W THEN 2 * one ELSE 2 * one - W)
    <2> HIDE DEF one
    <2>1. 2 * one \in Nat /\ 2 * one < 2 * W
      BY <1>1, <1>3
    <2> QED BY <1>1, <2>1, SmallRemainder
  <1>8. (2 * two) % W = (IF 2 * two < W THEN 2 * two ELSE 2 * two - W)
    <2> HIDE DEF two
    <2>1. 2 * two \in Nat /\ 2 * two < 2 * W
      BY <1>1, <1>3
    <2> QED BY <1>1, <2>1, SmallRemainder
  <1> DEFINE f == (2 * one) % W
             g == (2 * two) % W
  <1>9. c = (IF f # 0 THEN one ELSE two) /\ e = (IF f # 0 THEN f ELSE g)
    OBVIOUS
  <1> HIDE DEF one, two, c, e, f, g
  <1>10. f = (IF 2 * one < W THEN 2 * one ELSE 2 * one - W) /\ g = (IF 2 * two < W THEN 2 * two ELSE 2 * two - W)
    BY <1>7, <1>8 DEF f, g
  <1>11. f = 0 => g # 0
    BY <1>1, <1>3, <1>5, <1>6, <1>10, <1>2
  <1>12. \E k \in Nat : e = 2 * k /\ k > 0
    <2>1. f # 0 => \E k \in Nat : f = 2 * k /\ k > 0
      <3>1. CASE 2 * one < W
        BY <3>1, <1>3, <1>10
      <3>2. CASE ~(2 * one < W)
        <4>1. f = 2 * (one - h) /\ one - h \in Nat
          BY <3>2, <1>2, <1>3, <1>10
        <4> QED BY <4>1
      <3> QED BY <3>1, <3>2
    <2>2. g # 0 => \E k \in Nat : g = 2 * k /\ k > 0
      <3>1. CASE 2 * two < W
        BY <3>1, <1>3, <1>10
      <3>2. CASE ~(2 * two < W)
        <4>1. g = 2 * (two - h) /\ two - h \in Nat
          BY <3>2, <1>2, <1>3, <1>10
        <4> QED BY <4>1
      <3> QED BY <3>1, <3>2
    <2> QED BY <1>9, <1>11, <2>1, <2>2
  <1>13. PICK k \in Nat : e = 2 * k /\ k > 0
    BY <1>12
  <1>14. c \in Nat /\ c < W
    BY <1>3, <1>9
  <1>15. (e + b) \div 2 # 0 /\ ((e + b) % 2 = 1 <=> in)
    BY <1>13
  <1>16. next_seqnum(n, in).counter = c /\ next_seqnum(n, in).seqnum = e + b
    BY <1>4
  <1> QED BY <1>14, <1>15, <1>16 DEF is_valid_seqnum, extract_dir_in, W

-----------------------------------------------------------------------------
(* Contexts, and the MDLs of a buffer.                                      *)

\* The contexts that SentMessageFits speaks of.
Context == {c \in [isoc_alloc_cnt : Nat, mdl_isoc : Nat, is_isoc : BOOLEAN, buf_tail : BOOLEAN, mdl_buf_tail : Nat] :
              c.mdl_isoc <= c.isoc_alloc_cnt /\ (c.mdl_buf_tail > 0 => c.buf_tail)}

\* What the lookaside list allocates is a context.
LEMMA NewContext == allocate_function_ex \in Context
  BY DEF allocate_function_ex, Context

\* A context that is prepared for n packets describes as many.
LEMMA PreparedContext ==
  ASSUME NEW c \in Context, NEW n \in Nat
  PROVE  LET p == prepare_isoc(c, n)
         IN  p \in Context /\ (p.is_isoc <=> n > 0) /\ (n > 0 => p.mdl_isoc = n)
  <1>1. CASE n = 0
    <2> DEFINE p == prepare_isoc(c, n)
    <2>1. p = [c EXCEPT !.is_isoc = FALSE]
      BY <1>1 DEF prepare_isoc
    <2>2. p \in [isoc_alloc_cnt : Nat, mdl_isoc : Nat, is_isoc : BOOLEAN, buf_tail : BOOLEAN, mdl_buf_tail : Nat]
      BY <2>1 DEF Context
    <2>3. /\ p.is_isoc = FALSE /\ p.mdl_isoc = c.mdl_isoc /\ p.buf_tail = c.buf_tail
          /\ p.mdl_buf_tail = c.mdl_buf_tail /\ p.isoc_alloc_cnt = c.isoc_alloc_cnt
      BY <2>1 DEF Context
    <2> HIDE DEF p
    <2>4. p \in Context
      BY <2>2, <2>3 DEF Context
    <2>5. ~(n > 0)
      BY <1>1
    <2> QED BY <2>3, <2>4, <2>5 DEF p
  <1>2. CASE n # 0
    <2> DEFINE p == prepare_isoc(c, n)
    <2>1. p = [c EXCEPT !.is_isoc = TRUE, !.isoc_alloc_cnt = IF @ < n THEN n ELSE @, !.mdl_isoc = n]
      BY <1>2 DEF prepare_isoc
    <2>2. p \in [isoc_alloc_cnt : Nat, mdl_isoc : Nat, is_isoc : BOOLEAN, buf_tail : BOOLEAN, mdl_buf_tail : Nat]
      BY <2>1 DEF Context
    <2>3. /\ p.is_isoc = TRUE /\ p.mdl_isoc = n /\ p.buf_tail = c.buf_tail /\ p.mdl_buf_tail = c.mdl_buf_tail
          /\ p.isoc_alloc_cnt = IF c.isoc_alloc_cnt < n THEN n ELSE c.isoc_alloc_cnt
      BY <2>1 DEF Context
    <2> HIDE DEF p
    <2>4. c.isoc_alloc_cnt \in Nat /\ (c.mdl_buf_tail > 0 => c.buf_tail)
      BY DEF Context
    <2>5. p \in Context
      BY <2>2, <2>3, <2>4 DEF Context
    <2>6. n > 0
      BY <1>2
    <2>7. p.is_isoc /\ p.mdl_isoc = n
      BY <2>3
    <2> QED BY <2>5, <2>6, <2>7 DEF p
  <1> QED BY <1>1, <1>2

\* The MDL of what is left over.
LEMMA TailContext ==
  ASSUME NEW c \in Context, NEW n \in Nat
  PROVE  LET p == alloc_mdl_buf_tail(c, n) IN p \in Context /\ p.is_isoc = c.is_isoc
  <1> DEFINE p == alloc_mdl_buf_tail(c, n)
  <1>1. p = [[c EXCEPT !.buf_tail = TRUE] EXCEPT !.mdl_buf_tail = n]
    BY DEF alloc_mdl_buf_tail, alloc_buf_tail
  <1>2. p \in [isoc_alloc_cnt : Nat, mdl_isoc : Nat, is_isoc : BOOLEAN, buf_tail : BOOLEAN, mdl_buf_tail : Nat]
    BY <1>1 DEF Context
  <1>3. /\ p.is_isoc = c.is_isoc /\ p.mdl_isoc = c.mdl_isoc /\ p.isoc_alloc_cnt = c.isoc_alloc_cnt
        /\ p.buf_tail = TRUE
    BY <1>1 DEF Context
  <1> HIDE DEF p
  <1>4. p \in Context
    BY <1>2, <1>3 DEF Context
  <1> QED BY <1>3, <1>4 DEF p

\* make_transfer_buffer_mdl: an error, or a number of bytes.  What is read is described
\* to the last byte.
LEMMA BufferMdl ==
  ASSUME NEW u \in Urbs, NEW size \in Nat, NEW read \in BOOLEAN
  PROVE  LET n == make_transfer_buffer_mdl(u, size, read)
         IN  n \in Int /\ (~Error(n) => n <= size /\ (read => n = size))
  <1>1. u.length \in Nat /\ u.size \in Nat /\ u.buffer \in {"mdl", "chain", "plain", "none"}
    BY UrbsAssumption
  <1> DEFINE n == make_transfer_buffer_mdl(u, size, read)
  <1>2. CASE size > u.length
    BY <1>2 DEF make_transfer_buffer_mdl, Error, Invalid
  <1>3. CASE ~(size > u.length) /\ size = 0
    BY <1>3 DEF make_transfer_buffer_mdl, Error
  <1>4. CASE ~(size > u.length) /\ size # 0
    <2>1. n = CASE u.buffer \in {"mdl", "chain"} /\ u.size < size /\ (u.buffer = "chain" \/ read) -> TooSmall
           [] u.buffer = "mdl" /\ ~(u.size < size /\ read) -> Smaller(u.size, size)
           [] u.buffer = "chain" /\ u.size >= size -> size
           [] u.buffer = "plain" -> size
           [] u.buffer = "none" -> Invalid
      BY <1>4 DEF make_transfer_buffer_mdl
    <2> SUFFICES n \in Int /\ (~Error(n) => n <= size /\ (read => n = size))
      OBVIOUS
    <2> HIDE DEF n
    <2>2. CASE u.buffer = "mdl"
      BY <1>1, <2>1, <2>2 DEF Error, TooSmall, Smaller
    <2>3. CASE u.buffer = "chain"
      BY <1>1, <2>1, <2>3 DEF Error, TooSmall
    <2>4. CASE u.buffer = "plain"
      BY <1>1, <2>1, <2>4 DEF Error
    <2>5. CASE u.buffer = "none"
      BY <1>1, <2>1, <2>5 DEF Error, Invalid
    <2> QED BY <1>1, <2>2, <2>3, <2>4, <2>5
  <1> QED BY <1>1, <1>2, <1>3, <1>4

-----------------------------------------------------------------------------
(* The invariant.                                                           *)

\* The contexts, and where the URB is.
TransferTypes ==
    /\ pool \in Seq(Context)
    /\ tx \in Seq(Context) /\ Len(tx) <= 1
    /\ rx \in Seq(Context) /\ Len(rx) <= 1 /\ (stage # "unplugged" => Len(rx) = 1)
    /\ stage \in {"unplugged", "idle", "sent", "header", "done", "undefined"}
    /\ counter \in Nat /\ counter < SeqnumWidth

\* What is known of a message between its submission and its answer.
MessageFits(u, m) ==
    /\ u \in Urbs /\ RepackAccepts(u) /\ m.isoc = repack(u)
    /\ verify(get_total_size(m.header), m.chain, u.function = "isoch")
    /\ u.function = "isoch" => m.swapped = Len(u.offsets)
    /\ is_valid_seqnum(m.header.seqnum) /\ (extract_dir_in(m.header.seqnum) <=> ~u.out)
    /\ m.header.out = u.out
    /\ "SHORT_NOT_OK" \in m.header.transfer_flags => ~u.out

\* The inductive invariant.
TransferInv ==
    /\ TransferTypes
    /\ stage \in {"sent", "header"} => MessageFits(urb, cmd)
    /\ stage \in {"unplugged", "idle", "sent"} => ret = <<>>
    /\ stage = "header" => Len(ret) = 1 /\ ret[1] \in Answers
    /\ stage = "undefined" => ret[1].actual_length < 0
    /\ DataInPlace

\* The context that is taken from the list, and the list with one that was freed.
LEMMA PoolContexts ==
  ASSUME pool \in Seq(Context)
  PROVE  /\ Taken \in Context /\ PoolAfterTake \in Seq(Context)
         /\ \A c \in Context, p \in Seq(Context) : free(c, p) \in Seq(Context)
  <1>1. Taken \in Context
    BY NewContext, HeadTailProperties DEF Taken
  <1>2. PoolAfterTake \in Seq(Context)
    BY HeadTailProperties DEF PoolAfterTake
  <1>3. \A c \in Context, p \in Seq(Context) : free(c, p) \in Seq(Context)
    <2> SUFFICES ASSUME NEW c \in Context, NEW p \in Seq(Context) PROVE free(c, p) \in Seq(Context)
      OBVIOUS
    <2>1. <<c>> \in Seq(Context)
      OBVIOUS
    <2>2. <<c>> \o p \in Seq(Context)
      BY <2>1, ConcatProperties
    <2> QED BY <2>2 DEF free
  <1> QED BY <1>1, <1>2, <1>3

\* One context, as tx and rx hold it.
LEMMA OneContext ==
  /\ \A c \in Context : <<c>> \in Seq(Context) /\ Len(<<c>>) = 1 /\ <<c>>[1] = c
  /\ \A s \in Seq(Context) : Len(s) = 1 => s[1] \in Context
  /\ <<>> \in Seq(Context) /\ Len(<<>>) = 0
  OBVIOUS

\* Whatever ends the receive loop leaves nothing behind.
LEMMA LeaveNext ==
  ASSUME TransferInv, NEW c \in Context, Leave(c), UNCHANGED <<tx, counter>>
  PROVE  TransferInv'
  <1>1. /\ stage' = "unplugged" /\ pool' = free(c, pool) /\ rx' = <<>> /\ ret' = <<>>
        /\ UNCHANGED <<tx, counter>>
    BY DEF Leave, Forget
  <1>2. pool' \in Seq(Context)
    BY <1>1, PoolContexts DEF TransferInv, TransferTypes
  <1>3. TransferTypes'
    BY <1>1, <1>2, OneContext DEF TransferInv, TransferTypes
  <1> QED BY <1>1, <1>3 DEF TransferInv, DataInPlace

\* A new device starts with a context of its own.
LEMMA ThreadStartNext ==
  ASSUME TransferInv, recv_thread_start
  PROVE  TransferInv'
  <1>1. /\ stage = "unplugged" /\ stage' = "idle" /\ rx' = <<prepare_isoc(Taken, 0)>> /\ pool' = PoolAfterTake
        /\ counter' = 0 /\ UNCHANGED <<tx, ret>>
    BY DEF recv_thread_start
  <1>2. Taken \in Context /\ PoolAfterTake \in Seq(Context)
    BY PoolContexts DEF TransferInv, TransferTypes
  <1>3. prepare_isoc(Taken, 0) \in Context
    BY <1>2, PreparedContext
  <1>4. TransferTypes'
    BY <1>1, <1>2, <1>3, OneContext, BoundsAssumption DEF TransferInv, TransferTypes
  <1> QED BY <1>1, <1>4 DEF TransferInv, DataInPlace

\* A URB that is completed with an error.
LEMMA ErrorInPlace ==
  ASSUME NEW e, NEW n, NEW d, NEW l, result' = Completed(e, n, d, l), e # NoError
  PROVE  DataInPlace'
  <1>1. result'.status = e
    BY DEF Completed
  <1> QED BY <1>1 DEF DataInPlace

\* An URB that is completed before anything is sent.
LEMMA AtOnceNext ==
  ASSUME TransferInv, usb_submit_urb_at_once
  PROVE  TransferInv'
  <1>1. stage = "idle" /\ stage' = "done" /\ UNCHANGED <<pool, tx, rx, counter, cmd, ret>>
    BY DEF usb_submit_urb_at_once
  <1>2. PICK u \in Urbs :
           /\ \/ Refusal(u) # NoError /\ result' = Completed(Refusal(u), 0, <<>>, <<>>)
              \/ AnsweredHere(u) /\ result' = Completed(NoError, SerialLength(u), <<>>, <<>>)
              \/ result' = Completed(NoResources, 0, <<>>, <<>>)
           /\ urb' = u
    BY DEF usb_submit_urb_at_once
  <1>3. TransferTypes'
    BY <1>1 DEF TransferInv, TransferTypes
  <1>4. DataInPlace'
    <2>1. CASE Refusal(u) # NoError /\ result' = Completed(Refusal(u), 0, <<>>, <<>>)
      BY <2>1, ErrorInPlace
    <2>2. CASE AnsweredHere(u) /\ result' = Completed(NoError, SerialLength(u), <<>>, <<>>)
      <3>1. result'.length = SerialLength(u) /\ result'.data = <<>>
        BY <2>2 DEF Completed
      <3>2. u.length \in Nat /\ u.serial \in Nat /\ u.length >= 2
        BY <2>2, UrbsAssumption DEF AnsweredHere
      <3>3. SerialLength(u) <= u.length
        BY <3>2 DEF SerialLength, Smaller
      <3>4. ret' = <<>>
        BY <1>1 DEF TransferInv
      <3> QED BY <1>2, <3>1, <3>3, <3>4 DEF DataInPlace
    <2>3. CASE result' = Completed(NoResources, 0, <<>>, <<>>)
      <3>1. NoResources # NoError
        BY DEF NoResources, NoError
      <3> QED BY <2>3, <3>1, ErrorInPlace
    <2> QED BY <1>2, <2>1, <2>2, <2>3
  <1> QED BY <1>1, <1>3, <1>4 DEF TransferInv

\* The context goes back to the list, prepared as it is.
LEMMA LockFailedNext ==
  ASSUME TransferInv, usb_submit_urb_lock_failed
  PROVE  TransferInv'
  <1>1. /\ stage = "idle" /\ stage' = "done" /\ UNCHANGED <<tx, rx, cmd, ret>>
        /\ result' = Completed(NoResources, 0, <<>>, <<>>)
    BY DEF usb_submit_urb_lock_failed
  <1>2. PICK u \in Urbs : /\ counter' = next_seqnum(counter, FALSE).counter
                          /\ pool' = free(prepare_isoc(Taken, NumberOfPackets(u)), PoolAfterTake)
    BY DEF usb_submit_urb_lock_failed
  <1>3. NumberOfPackets(u) \in Nat
    BY UrbsAssumption DEF NumberOfPackets
  <1>4. prepare_isoc(Taken, NumberOfPackets(u)) \in Context
    BY <1>3, PoolContexts, PreparedContext DEF TransferInv, TransferTypes
  <1>5. pool' \in Seq(Context)
    BY <1>2, <1>4, PoolContexts DEF TransferInv, TransferTypes
  <1>6. counter' \in Nat /\ counter' < SeqnumWidth
    BY <1>2, NextSeqnum DEF TransferInv, TransferTypes
  <1>7. TransferTypes'
    BY <1>1, <1>5, <1>6 DEF TransferInv, TransferTypes
  <1>8. DataInPlace'
    BY <1>1, ErrorInPlace DEF NoResources, NoError
  <1> QED BY <1>1, <1>7, <1>8 DEF TransferInv

\* So does the context of a message that was sent.
LEMMA SendCompleteNext ==
  ASSUME TransferInv, send_complete
  PROVE  TransferInv'
  <1>1. /\ tx # <<>> /\ pool' = free(tx[1], pool) /\ tx' = <<>>
        /\ UNCHANGED <<rx, stage, counter, urb, cmd, ret, result>>
    BY DEF send_complete
  <1>2. tx[1] \in Context
    BY <1>1 DEF TransferInv, TransferTypes
  <1>3. pool' \in Seq(Context)
    BY <1>1, <1>2, PoolContexts DEF TransferInv, TransferTypes
  <1>4. TransferTypes'
    BY <1>1, <1>3, OneContext DEF TransferInv, TransferTypes
  <1>5. DataInPlace'
    BY <1>1 DEF TransferInv, DataInPlace, Answer
  <1> QED BY <1>1, <1>4, <1>5 DEF TransferInv

\* A header is accepted, or the receive loop ends.
LEMMA HeaderNext ==
  ASSUME TransferInv, recv_usbip_header
  PROVE  TransferInv'
  <1>1. stage = "sent" /\ UNCHANGED <<tx, counter>>
    BY DEF recv_usbip_header
  <1>2. PICK r \in Answers : \/ stage' = "header" /\ ret' = <<r>> /\ UNCHANGED <<pool, rx, urb, cmd, result>>
                             \/ Leave(rx[1])
    BY DEF recv_usbip_header
  <1>3. CASE stage' = "header" /\ ret' = <<r>> /\ UNCHANGED <<pool, rx, urb, cmd, result>>
    <2>1. TransferTypes'
      BY <1>1, <1>3 DEF TransferInv, TransferTypes
    <2>2. Len(ret') = 1 /\ ret'[1] \in Answers
      BY <1>3
    <2> QED BY <1>1, <1>3, <2>1, <2>2 DEF TransferInv, DataInPlace
  <1>4. CASE Leave(rx[1])
    <2>1. rx[1] \in Context
      BY <1>1, OneContext DEF TransferInv, TransferTypes
    <2> QED BY <1>1, <1>4, <2>1, LeaveNext
  <1> QED BY <1>2, <1>3, <1>4

\* The answer was not for the URB, the URB is back with its owner, the connection is lost,
\* or nothing happens.
LEMMA OthersNext ==
  ASSUME TransferInv, drain_payload \/ complete \/ disconnected \/ UNCHANGED transfersVars
  PROVE  TransferInv'
  <1>1. CASE drain_payload
    <2>1. /\ stage = "header" /\ UNCHANGED <<tx, counter>>
          /\ \/ stage' = "sent" /\ ret' = <<>> /\ UNCHANGED <<pool, rx, urb, cmd, result>>
             \/ Leave(rx[1])
      BY <1>1 DEF drain_payload
    <2>2. rx[1] \in Context
      BY <2>1, OneContext DEF TransferInv, TransferTypes
    <2>3. CASE stage' = "sent" /\ ret' = <<>> /\ UNCHANGED <<pool, rx, urb, cmd, result>>
      BY <2>1, <2>3 DEF TransferInv, TransferTypes, DataInPlace
    <2> QED BY <2>1, <2>2, <2>3, LeaveNext
  <1>2. CASE complete
    BY <1>2 DEF complete, Forget, TransferInv, TransferTypes, DataInPlace
  <1>3. CASE disconnected
    <2>1. stage \in {"idle", "sent", "header", "undefined"} /\ Leave(rx[1]) /\ UNCHANGED <<tx, counter>>
      BY <1>3 DEF disconnected
    <2>2. rx[1] \in Context
      BY <2>1, OneContext DEF TransferInv, TransferTypes
    <2> QED BY <2>1, <2>2, LeaveNext
  <1>4. CASE UNCHANGED transfersVars
    <2>1. UNCHANGED <<pool, tx, rx, stage, counter, urb, cmd, ret, result>>
      BY <1>4 DEF transfersVars
    <2>2. TransferTypes' /\ (stage' \in {"sent", "header"} => MessageFits(urb', cmd'))
      BY <2>1 DEF TransferInv, TransferTypes
    <2>3. DataInPlace'
      BY <2>1 DEF TransferInv, DataInPlace, Answer
    <2> QED BY <2>1, <2>2, <2>3 DEF TransferInv
  <1> QED BY <1>1, <1>2, <1>3, <1>4

\* What usb_submit_urb sends fits what it was made from.
LEMMA SubmittedFits ==
  ASSUME NEW u \in Urbs, NEW c0 \in Context, NEW n \in Nat, n < SeqnumWidth,
         Refusal(u) = NoError, RepackAccepts(u),
         ~Error(prepare_wsk_buf(u, prepare_isoc(c0, NumberOfPackets(u))))
  PROVE  LET c == prepare_isoc(c0, NumberOfPackets(u))
             h == set_cmd_submit_usbip_header(u, next_seqnum(n, ~u.out).seqnum)
         IN  MessageFits(u, [header |-> h, chain |-> prepare_wsk_buf(u, c), isoc |-> repack(u),
                             swapped |-> SwappedPackets(c)])
  <1> DEFINE k == NumberOfPackets(u)
             c == prepare_isoc(c0, k)
             s == next_seqnum(n, ~u.out).seqnum
             h == set_cmd_submit_usbip_header(u, s)
             chain == prepare_wsk_buf(u, c)
             buf == IF u.out /\ u.function # "none" THEN make_transfer_buffer_mdl(u, u.length, TRUE) ELSE 0
             m == [header |-> h, chain |-> chain, isoc |-> repack(u), swapped |-> SwappedPackets(c)]
  <1>1. /\ u.out \in BOOLEAN /\ u.length \in Nat /\ u.wLength \in Nat /\ u.offsets \in Seq(Nat)
        /\ (u.function = "none" => u.length = 0)
    BY UrbsAssumption
  <1>2. k \in Nat /\ k = IF u.function = "isoch" THEN Len(u.offsets) ELSE 0
    BY <1>1 DEF NumberOfPackets
  <1>3. is_valid_seqnum(s) /\ (extract_dir_in(s) <=> ~u.out)
    BY <1>1, NextSeqnum
  <1> HIDE DEF k, s
  <1>4. (c.is_isoc <=> k > 0) /\ (k > 0 => c.mdl_isoc = k)
    BY <1>2, PreparedContext
  <1>5. SwappedPackets(c) = k
    BY <1>2, <1>4 DEF number_of_packets, SwappedPackets
  <1> HIDE DEF c
  <1>6. chain = IF Error(buf) THEN buf ELSE HeaderSize + buf + DescriptorSize * SwappedPackets(c)
    BY DEF prepare_wsk_buf
  <1>7. /\ h.seqnum = s /\ h.out = u.out /\ h.transfer_buffer_length = WireLength(u)
        /\ h.number_of_packets = (IF u.function = "isoch" THEN Len(u.offsets) ELSE NonIsoch)
        /\ h.transfer_flags = to_linux_flags(fix_transfer_flags(TransferFlags(u), u.out), ~u.out)
    BY DEF set_cmd_submit_usbip_header
  <1>8. m.header = h /\ m.chain = chain /\ m.isoc = repack(u) /\ m.swapped = SwappedPackets(c)
    OBVIOUS
  <1>9. ~Error(chain)
    BY DEF c, k
  <1> HIDE DEF h, chain
  <1>10. ~Error(buf)
    BY <1>6, <1>9
  <1>11. u.out /\ u.function # "none" => buf = u.length
    <2>1. CASE u.out /\ u.function # "none"
      BY <1>1, <1>10, <2>1, BufferMdl
    <2> QED BY <2>1
  <1>12. buf \in Nat /\ (u.out => buf = u.length)
    <2>1. CASE u.out /\ u.function # "none"
      BY <1>1, <1>11, <2>1
    <2>2. CASE u.out /\ u.function = "none"
      BY <1>1, <2>2
    <2>3. CASE ~u.out
      BY <1>1, <2>3
    <2> QED BY <1>1, <2>1, <2>2, <2>3
  <1> HIDE DEF buf
  <1> DEFINE w == WireLength(u)
  <1>13. w \in Nat /\ w <= u.length /\ (u.function = "isoch" => w = u.length)
    BY <1>1 DEF WireLength, Smaller
  <1> HIDE DEF w
  <1>14. Packets(h.number_of_packets) = k
    BY <1>1, <1>2, <1>7 DEF Packets, NonIsoch
  <1>15. get_total_size(h) = 48 + (IF u.out THEN w ELSE 0) + 16 * k
    BY <1>7, <1>14 DEF get_total_size, HeaderSize, DescriptorSize, w
  <1>16. chain = 48 + buf + 16 * k
    BY <1>5, <1>6, <1>10 DEF HeaderSize, DescriptorSize
  <1>17. verify(get_total_size(h), chain, u.function = "isoch")
    <2>1. get_total_size(h) > 0 /\ get_total_size(h) <= chain
      <3>1. CASE u.out
        <4>1. get_total_size(h) = 48 + w + 16 * k /\ buf = u.length
          BY <1>12, <1>15, <3>1
        <4>2. buf \in Nat /\ w \in Nat /\ w <= buf /\ k \in Nat
          BY <1>2, <1>12, <1>13, <4>1
        <4>3. chain = 48 + buf + 16 * k
          BY <1>16
        <4> QED BY <4>1, <4>2, <4>3
      <3>2. CASE ~u.out
        <4>1. get_total_size(h) = 48 + 0 + 16 * k /\ buf \in Nat
          BY <1>12, <1>15, <3>2
        <4> QED BY <1>2, <1>16, <4>1
      <3> QED BY <3>1, <3>2
    <2>2. u.function = "isoch" => get_total_size(h) = chain \/ ~u.out
      BY <1>1, <1>2, <1>12, <1>13, <1>15, <1>16
    <2>3. ~u.out => buf = 0
      BY DEF buf
    <2>4. u.function = "isoch" => get_total_size(h) = chain
      BY <1>2, <1>15, <1>16, <2>2, <2>3
    <2> QED BY <2>1, <2>4 DEF verify
  <1>18. u.function = "isoch" => SwappedPackets(c) = Len(u.offsets)
    BY <1>2, <1>5
  <1>19. "SHORT_NOT_OK" \in h.transfer_flags => ~u.out
    BY <1>7, <1>1 DEF to_linux_flags
  <1>20. MessageFits(u, m)
    BY <1>3, <1>7, <1>8, <1>17, <1>18, <1>19 DEF MessageFits
  <1> QED BY <1>20 DEF m, h, chain, c, k, s

\* A message is sent, or the URB is completed with an error.
LEMMA SubmitNext ==
  ASSUME TransferInv, usb_submit_urb
  PROVE  TransferInv'
  <1>1. stage = "idle" /\ UNCHANGED <<rx, ret>>
    BY DEF usb_submit_urb
  <1>2. PICK u \in Urbs :
          LET c == prepare_isoc(Taken, NumberOfPackets(u))
              num == next_seqnum(counter, ~u.out)
              h == set_cmd_submit_usbip_header(u, num.seqnum)
              chain == prepare_wsk_buf(u, c)
              error == IF BadFlags(u) \/ ~RepackAccepts(u) THEN Invalid
                       ELSE IF Error(chain) THEN chain ELSE NoError
          IN  /\ Refusal(u) = NoError
              /\ urb' = u
              /\ counter' = IF BadFlags(u) THEN counter ELSE num.counter
              /\ IF error # NoError
                 THEN /\ result' = Completed(error, 0, <<>>, <<>>)
                      /\ pool' = free(c, PoolAfterTake)
                      /\ stage' = "done"
                      /\ UNCHANGED <<tx, cmd>>
                 ELSE /\ cmd' = [header |-> h, chain |-> chain, isoc |-> repack(u), swapped |-> SwappedPackets(c)]
                      /\ tx' = <<c>>
                      /\ pool' = PoolAfterTake
                      /\ stage' = "sent"
                      /\ UNCHANGED result
    BY DEF usb_submit_urb
  <1> DEFINE c == prepare_isoc(Taken, NumberOfPackets(u))
             num == next_seqnum(counter, ~u.out)
             h == set_cmd_submit_usbip_header(u, num.seqnum)
             chain == prepare_wsk_buf(u, c)
             error == IF BadFlags(u) \/ ~RepackAccepts(u) THEN Invalid
                      ELSE IF Error(chain) THEN chain ELSE NoError
             m == [header |-> h, chain |-> chain, isoc |-> repack(u), swapped |-> SwappedPackets(c)]
  <1>3. Taken \in Context /\ PoolAfterTake \in Seq(Context) /\ \A x \in Context, p \in Seq(Context) : free(x, p) \in Seq(Context)
    BY PoolContexts DEF TransferInv, TransferTypes
  <1>4. NumberOfPackets(u) \in Nat /\ u.out \in BOOLEAN
    BY UrbsAssumption DEF NumberOfPackets
  <1>5. c \in Context
    BY <1>3, <1>4, PreparedContext
  <1>6. num.counter \in Nat /\ num.counter < SeqnumWidth
    BY <1>4, NextSeqnum DEF TransferInv, TransferTypes
  <1>7. Refusal(u) = NoError /\ urb' = u /\ counter' \in Nat /\ counter' < SeqnumWidth
    <2>1. Refusal(u) = NoError /\ urb' = u /\ counter' = IF BadFlags(u) THEN counter ELSE num.counter
      BY <1>2
    <2> HIDE DEF num
    <2> QED BY <1>6, <2>1 DEF TransferInv, TransferTypes
  <1>8. CASE error # NoError
    <2>1. /\ result' = Completed(error, 0, <<>>, <<>>) /\ pool' = free(c, PoolAfterTake) /\ stage' = "done" /\ tx' = tx
      BY <1>2, <1>8
    <2> HIDE DEF c, error
    <2>2. DataInPlace'
      BY <1>8, <2>1, ErrorInPlace
    <2>3. pool' \in Seq(Context)
      BY <1>3, <1>5, <2>1
    <2>4. TransferTypes'
      BY <1>1, <1>7, <2>1, <2>3 DEF TransferInv, TransferTypes
    <2> QED BY <2>1, <2>2, <2>4 DEF TransferInv
  <1>9. CASE error = NoError
    <2>1. cmd' = m /\ tx' = <<c>> /\ pool' = PoolAfterTake /\ stage' = "sent"
      BY <1>2, <1>9
    <2>2. RepackAccepts(u) /\ ~Error(chain)
      <3> HIDE DEF chain
      <3> QED BY <1>9 DEF Invalid, NoError, Error
    <2>3. MessageFits(u, m)
      <3>1. counter \in Nat /\ counter < SeqnumWidth
        BY DEF TransferInv, TransferTypes
      <3> QED BY <1>3, <1>7, <2>2, <3>1, SubmittedFits
    <2> HIDE DEF c, m
    <2>4. TransferTypes'
      BY <1>1, <1>3, <1>5, <1>7, <2>1, OneContext DEF TransferInv, TransferTypes
    <2>5. MessageFits(urb', cmd')
      BY <1>7, <2>1, <2>3
    <2>6. ret' = <<>>
      BY <1>1 DEF TransferInv
    <2> QED BY <2>1, <2>4, <2>5, <2>6 DEF TransferInv, DataInPlace
  <1> QED BY <1>8, <1>9

-----------------------------------------------------------------------------
(* The payload.                                                             *)

\* The numbers of an answer, and the size of its payload.
LEMMA AnswerNumbers ==
  ASSUME NEW r \in Answers
  PROVE  /\ r.actual_length \in Int /\ r.actual_length >= UlongWidth - SizeWidth
         /\ Packets(r.number_of_packets) \in Nat
         /\ \A out \in BOOLEAN : get_payload_size(out, r) \in Nat
  <1> DEFINE k == Packets(r.number_of_packets)
             al == r.actual_length
  <1>1. al \in ActualLengths /\ r.number_of_packets \in {NonIsoch} \cup (0 .. MaxIsoPackets + 1)
    BY DEF Answers
  <1>2. al \in Int /\ al >= UlongWidth - SizeWidth /\ UlongWidth \in Nat /\ SizeWidth \in Nat
    BY <1>1, WidthsAssumption
  <1>3. k \in Nat
    BY <1>1, BoundsAssumption DEF Packets, NonIsoch
  <1>4. ASSUME NEW out \in BOOLEAN PROVE get_payload_size(out, r) \in Nat
    <2>1. get_payload_size(out, r) = IF r.command = "RET_UNLINK" THEN 0
                                     ELSE AsSize((IF out THEN 0 ELSE al) + 16 * k)
      BY DEF get_payload_size, DescriptorSize
    <2> HIDE DEF al, k
    <2>2. AsSize((IF out THEN 0 ELSE al) + 16 * k) \in Nat
      BY <1>2, <1>3 DEF AsSize
    <2> QED BY <2>1, <2>2
  <1> QED BY <1>2, <1>3, <1>4

\* What prepare_wsk_mdl makes holds the payload to the byte, or it fails; the answer is
\* not longer than the buffer of the URB then, and its length not negative.
LEMMA PayloadChain ==
  ASSUME NEW u \in Urbs, NEW r \in Answers, r.command = "RET_SUBMIT", NEW c0 \in Context, NEW in \in BOOLEAN
  PROVE  LET p == prepare_wsk_mdl(u, r, c0, in)
         IN  /\ p.ctx \in Context
             /\ ~Error(p.chain) => /\ p.chain = get_payload_size(~in, r) /\ r.actual_length \in 0 .. u.length
                                   /\ Packets(r.number_of_packets) > 0 =>
                                         number_of_packets(p.ctx) = Packets(r.number_of_packets)
  <1> DEFINE k == Packets(r.number_of_packets)
             c == prepare_isoc(c0, k)
             buf == IF in THEN make_transfer_buffer_mdl(u, r.actual_length, FALSE) ELSE 0
             gap == Gap(r, buf, in)
             isoc == IF c.is_isoc THEN DescriptorSize * number_of_packets(c) ELSE 0
             bad == \/ u.buffer = "none"
                    \/ ~check(u.length, r.actual_length)
                    \/ ~c.is_isoc /\ (~in \/ r.actual_length = 0)
                    \/ u.length = 0
             p == prepare_wsk_mdl(u, r, c0, in)
  <1>1. r.actual_length \in Int /\ k \in Nat
    BY AnswerNumbers
  <1>2. p = IF bad THEN [chain |-> BadSize, ctx |-> c]
            ELSE IF Error(buf) THEN [chain |-> buf, ctx |-> c]
            ELSE IF gap > MaxTail THEN [chain |-> TooSmall, ctx |-> c]
            ELSE [chain |-> buf + gap + isoc, ctx |-> IF gap > 0 THEN alloc_mdl_buf_tail(c, gap) ELSE c]
    BY DEF prepare_wsk_mdl
  <1>3. ~bad => r.actual_length \in 0 .. u.length
    BY <1>1, UrbsAssumption DEF check
  <1>4. get_payload_size(~in, r) = AsSize((IF in THEN r.actual_length ELSE 0) + 16 * k)
    BY DEF get_payload_size, DescriptorSize
  <1> SUFFICES /\ p.ctx \in Context
               /\ ~Error(p.chain) => /\ p.chain = get_payload_size(~in, r) /\ r.actual_length \in 0 .. u.length
                                     /\ k > 0 => number_of_packets(p.ctx) = k
    OBVIOUS
  <1> HIDE DEF k
  <1>5. c \in Context /\ (c.is_isoc <=> k > 0) /\ (k > 0 => c.mdl_isoc = k)
    BY <1>1, PreparedContext
  <1> HIDE DEF c, p, bad
  <1>6. isoc = 16 * k
    BY <1>1, <1>5 DEF DescriptorSize, number_of_packets
  <1>13. u.length \in Nat
    BY UrbsAssumption
  <1>7. ~bad => buf \in Int /\ (in /\ ~Error(buf) => buf <= r.actual_length) /\ (~in => buf = 0)
    <2>1. CASE in
      <3> SUFFICES ASSUME ~bad PROVE buf \in Int /\ (~Error(buf) => buf <= r.actual_length)
        BY <2>1
      <3>1. r.actual_length \in Nat
        BY <1>1, <1>3, <1>13
      <3> QED BY <2>1, <3>1, BufferMdl
    <2>2. CASE ~in
      BY <2>2
    <2> QED BY <2>1, <2>2
  <1> HIDE DEF buf, isoc
  <1>8. ~bad /\ ~Error(buf) => gap \in Nat /\ buf + gap = (IF in THEN r.actual_length ELSE 0)
    BY <1>1, <1>3, <1>7 DEF Gap
  <1> HIDE DEF gap
  <1>9. CASE bad
    BY <1>2, <1>5, <1>9 DEF Error, BadSize
  <1>10. CASE ~bad /\ Error(buf)
    BY <1>2, <1>5, <1>10
  <1>11. CASE ~bad /\ ~Error(buf) /\ gap > MaxTail
    BY <1>2, <1>5, <1>11 DEF Error, TooSmall
  <1>12. CASE ~bad /\ ~Error(buf) /\ ~(gap > MaxTail)
    <2>1. p.chain = buf + gap + isoc /\ p.ctx = IF gap > 0 THEN alloc_mdl_buf_tail(c, gap) ELSE c
      BY <1>2, <1>12
    <2>2. p.ctx \in Context
      BY <1>5, <1>8, <1>12, <2>1, TailContext
    <2>3. p.chain = get_payload_size(~in, r)
      <3>1. p.chain = (IF in THEN r.actual_length ELSE 0) + 16 * k
        BY <1>1, <1>6, <1>7, <1>8, <1>12, <2>1
      <3>2. (IF in THEN r.actual_length ELSE 0) + 16 * k >= 0
        BY <1>1, <1>3, <1>12, <1>13
      <3> QED BY <1>4, <3>1, <3>2 DEF AsSize
    <2>4. k > 0 => number_of_packets(p.ctx) = k
      <3>1. p.ctx.mdl_isoc = c.mdl_isoc
        BY <1>5, <2>1 DEF alloc_mdl_buf_tail, alloc_buf_tail, Context
      <3> QED BY <1>5, <3>1 DEF number_of_packets
    <2> QED BY <1>3, <1>12, <2>2, <2>3, <2>4
  <1> QED BY <1>9, <1>10, <1>11, <1>12

-----------------------------------------------------------------------------
(* The status of an URB.                                                    *)

\* No error number of Linux means a success, and zero is none.
LEMMA SuccessIsZero ==
  ASSUME NEW status \in Int
  PROVE  to_windows_status_ex(status, FALSE) = "SUCCESS" <=> status = 0
  <1> DEFINE n == IF status >= 0 THEN status ELSE -status
             D == DOMAIN LinuxErrors
             e == CHOOSE x \in D : n \in LinuxErrors[x]
             known == \E x \in D : n \in LinuxErrors[x]
             w == to_windows_status_ex(status, FALSE)
  <1>1. w = CASE n = 0 -> "SUCCESS"
              [] n = 18 -> "ISOCH_REQUEST_FAILED"
              [] known -> e
              [] OTHER -> "INVALID_PARAMETER"
    BY Zenon DEF to_windows_status_ex
  <1>2. n = 0 <=> status = 0
    OBVIOUS
  <1>3. "SUCCESS" \notin D
    BY DEF LinuxErrors
  <1>4. known => e \in D
    BY Zenon
  <1>5. 0 # 18 /\ (n = 0 => ~known)
    <2>1. \A x \in D : 0 \notin LinuxErrors[x]
      BY DEF LinuxErrors
    <2> QED BY <2>1
  <1>6. "SUCCESS" # "ISOCH_REQUEST_FAILED" /\ "SUCCESS" # "INVALID_PARAMETER"
    OBVIOUS
  <1> HIDE DEF n, w, e, known, D
  <1>7. n = 0 => w = "SUCCESS"
    <2>1. CASE n = 0
      <3>1. n # 18 /\ ~known
        BY <2>1, <1>5
      <3> QED BY <1>1, <2>1, <3>1, Zenon
    <2> QED BY <2>1
  <1>8. n # 0 => w # "SUCCESS"
    <2>1. CASE n # 0 /\ n = 18
      <3>1. CASE known
        <4>1. w \in {"ISOCH_REQUEST_FAILED", e}
          BY <1>1, <2>1, <3>1
        <4> QED BY <1>3, <1>4, <1>6, <2>1, <3>1, <4>1
      <3>2. CASE ~known
        BY <1>1, <1>6, <2>1, <3>2
      <3> QED BY <3>1, <3>2
    <2>2. CASE n # 0 /\ n # 18 /\ known
      <3>1. w = e
        BY <1>1, <2>2
      <3> QED BY <1>3, <1>4, <2>2, <3>1
    <2>3. CASE n # 0 /\ n # 18 /\ ~known
      <3>1. w = "INVALID_PARAMETER"
        BY <1>1, <2>3, Zenon
      <3> QED BY <1>6, <3>1
    <2> QED BY <2>1, <2>2, <2>3
  <1>9. w = "SUCCESS" <=> status = 0
    BY <1>2, <1>7, <1>8
  <1> QED BY <1>9 DEF w

-----------------------------------------------------------------------------
(* fill_isoc_data.                                                          *)

\* The sum of n numbers is what any function says that adds them one by one.
LEMMA SumIs ==
  ASSUME NEW s, NEW n \in Nat, NEW g, g[0] = 0, \A i \in 1 .. n : g[i] = g[i - 1] + s[i]
  PROVE  SumOf(s, n) = g[n]
  <1> DEFINE Adds(f) == [i \in 0 .. n |-> IF i = 0 THEN 0 ELSE f[i - 1] + s[i]]
             h == [i \in 0 .. n |-> g[i]]
             upto == CHOOSE f : f = Adds(f)
  <1>1. SumOf(s, n) = upto[n]
    BY DEF SumOf
  <1>2. h = Adds(h)
    <2>1. \A i \in 0 .. n : h[i] = IF i = 0 THEN 0 ELSE h[i - 1] + s[i]
      <3> SUFFICES ASSUME NEW i \in 0 .. n PROVE h[i] = IF i = 0 THEN 0 ELSE h[i - 1] + s[i]
        OBVIOUS
      <3>1. CASE i = 0
        BY <3>1
      <3>2. CASE i # 0
        <4>1. i \in 1 .. n /\ i - 1 \in 0 .. n
          BY <3>2
        <4>2. h[i] = g[i] /\ h[i - 1] = g[i - 1]
          BY <4>1
        <4> QED BY <3>2, <4>1, <4>2
      <3> QED BY <3>1, <3>2
    <2>2. h = [i \in 0 .. n |-> h[i]]
      OBVIOUS
    <2> HIDE DEF h
    <2> QED BY <2>1, <2>2
  <1>3. upto = Adds(upto)
    <2> HIDE DEF h, Adds
    <2> QED BY <1>2
  <1> HIDE DEF upto
  <1>4. \A i \in 0 .. n : upto[i] = IF i = 0 THEN 0 ELSE upto[i - 1] + s[i]
    BY <1>3
  <1> HIDE DEF Adds
  <1> DEFINE T == {i \in Nat : i <= n => upto[i] = g[i]}
  <1>5. 0 \in T
    BY <1>4
  <1>6. \A i \in Nat : i \in T => i + 1 \in T
    <2> SUFFICES ASSUME NEW i \in Nat, i \in T, i + 1 <= n PROVE upto[i + 1] = g[i + 1]
      OBVIOUS
    <2>1. upto[i] = g[i]
      OBVIOUS
    <2>2. i + 1 \in 1 .. n /\ i + 1 \in 0 .. n /\ i + 1 # 0 /\ (i + 1) - 1 = i
      OBVIOUS
    <2>3. upto[i + 1] = upto[i] + s[i + 1]
      BY <1>4, <2>2
    <2>4. g[i + 1] = g[i] + s[i + 1]
      BY <2>2
    <2> QED BY <2>1, <2>3, <2>4
  <1>7. n \in T
    <2> HIDE DEF T
    <2> QED BY <1>5, <1>6, SetInduction
  <1> QED BY <1>1, <1>7

\* Packets that repack accepts lie one after the other.
LEMMA OffsetsRise ==
  ASSUME NEW u \in Urbs, RepackAccepts(u), NEW i \in 1 .. Len(u.offsets), NEW j \in 1 .. Len(u.offsets), i < j
  PROVE  NextOffset(u, i) <= u.offsets[j]
  <1> DEFINE n == Len(u.offsets)
             T == {m \in Nat : i + 1 + m <= n => u.offsets[i + 1] <= u.offsets[i + 1 + m]}
  <1>1. n \in Nat /\ DOMAIN u.offsets = 1 .. n /\ \A x \in 1 .. n : u.offsets[x] \in Nat
    BY UrbsAssumption
  <1>2. \A x \in 1 .. n : x < n => u.offsets[x] <= u.offsets[x + 1]
    BY <1>1 DEF RepackAccepts, NextOffset
  <1> HIDE DEF n
  <1>3. 0 \in T
    BY <1>1 DEF n
  <1>4. \A m \in Nat : m \in T => m + 1 \in T
    <2> SUFFICES ASSUME NEW m \in Nat, m \in T, i + 1 + (m + 1) <= n
                 PROVE  u.offsets[i + 1] <= u.offsets[i + 1 + (m + 1)]
      OBVIOUS
    <2>1. i + 1 + m \in 1 .. n /\ i + 1 + m < n /\ i + 1 \in 1 .. n /\ i + 1 + (m + 1) \in 1 .. n
      BY <1>1 DEF n
    <2>2. u.offsets[i + 1 + m] <= u.offsets[(i + 1 + m) + 1] /\ (i + 1 + m) + 1 = i + 1 + (m + 1)
      BY <1>2, <2>1
    <2>3. u.offsets[i + 1] <= u.offsets[i + 1 + m]
      BY <2>1
    <2> QED BY <1>1, <2>1, <2>2, <2>3
  <1>5. j - (i + 1) \in T
    <2>1. j - (i + 1) \in Nat
      OBVIOUS
    <2> HIDE DEF T
    <2> QED BY <1>3, <1>4, <2>1, SetInduction
  <1>6. u.offsets[i + 1] <= u.offsets[j]
    BY <1>5, <1>1 DEF n
  <1>7. NextOffset(u, i) = u.offsets[i + 1]
    BY <1>1 DEF NextOffset, n
  <1> QED BY <1>6, <1>7

\* What the server says of a packet.
Packet == [offset : Nat, length : Nat, actual_length : Nat, status : Int]

\* The state of its loop.
FillState(u) ==
    {s \in [status : Int, left : Int, data : [1 .. u.length -> Nat], lengths : [1 .. Len(u.offsets) -> Nat], reach : Nat] :
        s.left <= u.length}

\* One packet.
LEMMA FillStepIs ==
  ASSUME NEW u \in Urbs, NEW i \in 1 .. Len(u.offsets), NEW s \in FillState(u), s.status = NoError, NEW d \in Packet
  PROVE  LET t == FillStep(u, s, d, i)
         IN  /\ t \in FillState(u)
             /\ t.status = NoError =>
                   /\ t.left = s.left - d.actual_length
                   /\ t.lengths = [s.lengths EXCEPT ![i] = d.actual_length]
                   /\ d.actual_length = 0 => t.data = s.data /\ t.reach = s.reach
                   /\ d.actual_length # 0 =>
                        /\ t.left >= 0 /\ t.left <= u.offsets[i] /\ u.offsets[i] + d.actual_length <= u.length
                        /\ t.data = Move(s.data, t.left, u.offsets[i], d.actual_length)
                        /\ t.reach = s.reach \/ t.reach = u.offsets[i] + d.actual_length
  <1> DEFINE t == FillStep(u, s, d, i)
             al == d.actual_length
             o == u.offsets[i]
             left == s.left - al
             bad == \/ al > d.length
                    \/ d.offset # o
                    \/ left < 0
                    \/ o + al > u.length
                    \/ o < left
             R == [status : Int, left : Int, data : [1 .. u.length -> Nat], lengths : [1 .. Len(u.offsets) -> Nat], reach : Nat]
  <1>1. u.length \in Nat /\ u.offsets \in Seq(Nat) /\ o \in Nat /\ al \in Nat
    BY UrbsAssumption DEF Packet
  <1>2. s \in R /\ s.left \in Int /\ s.left <= u.length /\ s.data \in [1 .. u.length -> Nat]
        /\ s.lengths \in [1 .. Len(u.offsets) -> Nat] /\ s.reach \in Nat
    BY DEF FillState
  <1>3. t = IF al = 0 THEN [s EXCEPT !.lengths[i] = 0]
            ELSE IF bad THEN [s EXCEPT !.status = Invalid]
            ELSE [s EXCEPT !.left = left, !.lengths[i] = al, !.data = Move(@, left, o, al),
                           !.reach = IF @ < o + al THEN o + al ELSE @]
    BY DEF FillStep
  <1> SUFFICES /\ t \in FillState(u)
               /\ t.status = NoError =>
                     /\ t.left = s.left - al
                     /\ t.lengths = [s.lengths EXCEPT ![i] = al]
                     /\ al = 0 => t.data = s.data /\ t.reach = s.reach
                     /\ al # 0 =>
                          /\ t.left >= 0 /\ t.left <= o /\ o + al <= u.length
                          /\ t.data = Move(s.data, t.left, o, al)
                          /\ t.reach = s.reach \/ t.reach = o + al
    OBVIOUS
  <1> HIDE DEF t, al, o, R
  <1>4. CASE al = 0
    <2>1. t = [s EXCEPT !.lengths[i] = 0]
      BY <1>3, <1>4
    <2>2. t \in R
      BY <1>2, <2>1 DEF R
    <2>3. /\ t.left = s.left /\ t.lengths = [s.lengths EXCEPT ![i] = 0] /\ t.data = s.data
          /\ t.reach = s.reach
      BY <1>2, <2>1 DEF R
    <2>4. t \in FillState(u)
      BY <1>2, <2>2, <2>3 DEF FillState, R
    <2> QED BY <1>2, <1>4, <2>3, <2>4
  <1>5. CASE al # 0 /\ bad
    <2>1. t = [s EXCEPT !.status = Invalid]
      BY <1>3, <1>5
    <2>2. t \in R /\ t.left = s.left /\ t.status = Invalid
      BY <1>2, <2>1 DEF R, Invalid
    <2>3. t \in FillState(u)
      BY <1>2, <2>2 DEF FillState, R
    <2> QED BY <2>2, <2>3 DEF Invalid, NoError
  <1>6. CASE al # 0 /\ ~bad
    <2> DEFINE data == Move(s.data, left, o, al)
               reach == IF s.reach < o + al THEN o + al ELSE s.reach
               lengths == [s.lengths EXCEPT ![i] = al]
    <2>1. left \in Int /\ left >= 0 /\ left <= o /\ o + al <= u.length /\ left <= u.length
      BY <1>1, <1>2, <1>6
    <2>2. data \in [1 .. u.length -> Nat]
      <3>1. DOMAIN s.data = 1 .. u.length
        BY <1>2
      <3>2. ASSUME NEW p \in 1 .. u.length, p \in o + 1 .. o + al PROVE s.data[p - o + left] \in Nat
        <4>1. p - o + left \in 1 .. u.length
          <5>1. p \in Int /\ o + 1 <= p /\ p <= o + al
            BY <1>1, <3>2
          <5>2. left + al <= u.length
            BY <1>1, <1>2
          <5>3. left \in Int /\ left >= 0
            BY <2>1
          <5> HIDE DEF left, bad
          <5> QED BY <1>1, <5>1, <5>2, <5>3
        <4> QED BY <1>2, <4>1
      <3> QED BY <1>2, <3>1, <3>2 DEF Move
    <2>3. reach \in Nat /\ (reach = s.reach \/ reach = o + al) /\ lengths \in [1 .. Len(u.offsets) -> Nat]
      BY <1>1, <1>2
    <2>4. t = [s EXCEPT !.left = left, !.lengths[i] = al, !.data = Move(@, left, o, al),
                        !.reach = IF @ < o + al THEN o + al ELSE @]
      BY <1>3, <1>6
    <2>5. /\ t.left = left /\ t.lengths = lengths /\ t.data = data /\ t.reach = reach
          /\ t.status = s.status /\ DOMAIN t = DOMAIN s
      BY <1>2, <2>4 DEF R
    <2>6. t = [status |-> t.status, left |-> t.left, data |-> t.data, lengths |-> t.lengths, reach |-> t.reach]
      BY <1>2, <2>4 DEF R
    <2> HIDE DEF data, reach, lengths, left
    <2>7. t \in R
      BY <1>2, <2>1, <2>2, <2>3, <2>5, <2>6 DEF R
    <2>8. t \in FillState(u)
      BY <2>1, <2>5, <2>7 DEF FillState, R
    <2> QED BY <1>6, <2>1, <2>3, <2>5, <2>8 DEF data, lengths, left
  <1> QED BY <1>4, <1>5, <1>6

\* The packets are looked at from the last one to the first.
FillStart(u, data, actual) ==
    [status |-> NoError, left |-> actual, data |-> data, lengths |-> [i \in 1 .. Len(u.offsets) |-> 0], reach |-> 0]

\* The step for packet i, from what f says of the one after it.
FillFrom(u, f, src, i) == IF f[i + 1].status # NoError THEN f[i + 1] ELSE FillStep(u, f[i + 1], src[i], i)

\* The recursive function of fill_isoc_data exists, so that it is what it is defined to be.
LEMMA FillRuns ==
  ASSUME NEW u \in Urbs, NEW data, NEW actual, NEW src
  PROVE  \E f :
            /\ f[Len(u.offsets) + 1] = FillStart(u, data, actual)
            /\ \A i \in 1 .. Len(u.offsets) : f[i] = FillFrom(u, f, src, i)
            /\ fill_isoc_data(u, data, actual, src) =
                  IF f[1].status = NoError /\ f[1].left # 0 THEN [f[1] EXCEPT !.status = Invalid] ELSE f[1]
  <1> DEFINE n == Len(u.offsets)
             start == FillStart(u, data, actual)
             Body(h, i) == IF i > n THEN start ELSE FillFrom(u, h, src, i)
             Steps(h) == [i \in 1 .. n + 1 |-> Body(h, i)]
             from == CHOOSE h : h = Steps(h)
             T == {m \in Nat : m <= n => \E h : \A i \in n + 1 - m .. n + 1 : h[i] = Body(h, i)}
  <1>1. n \in Nat
    BY UrbsAssumption
  <1>2. fill_isoc_data(u, data, actual, src) =
           IF from[1].status = NoError /\ from[1].left # 0 THEN [from[1] EXCEPT !.status = Invalid] ELSE from[1]
    BY DEF fill_isoc_data, FillFrom, FillStart
  <1> HIDE DEF n, start
  <1>3. 0 \in T
    <2> DEFINE h == [i \in 1 .. n + 1 |-> start]
    <2>1. \A i \in n + 1 - 0 .. n + 1 : h[i] = Body(h, i)
      <3> SUFFICES ASSUME NEW i \in n + 1 - 0 .. n + 1 PROVE h[i] = Body(h, i)
        OBVIOUS
      <3>1. i \in 1 .. n + 1 /\ i > n
        BY <1>1
      <3> QED BY <3>1
    <2> HIDE DEF h, Body
    <2> QED BY <2>1
  <1>4. \A m \in Nat : m \in T => m + 1 \in T
    <2> SUFFICES ASSUME NEW m \in Nat, m \in T, m + 1 <= n
                 PROVE  \E h : \A i \in n + 1 - (m + 1) .. n + 1 : h[i] = Body(h, i)
      OBVIOUS
    <2> DEFINE k == n - m
    <2>1. k \in 1 .. n /\ n + 1 - (m + 1) = k /\ n + 1 - m = k + 1
      BY <1>1
    <2>2. PICK h : \A i \in k + 1 .. n + 1 : h[i] = Body(h, i)
      BY <1>1, <2>1
    <2> HIDE DEF k
    <2> DEFINE g == [i \in 1 .. n + 1 |-> IF i > k THEN h[i] ELSE Body(h, i)]
    <2>3. \A i \in k .. n + 1 : g[i] = Body(g, i)
      <3> SUFFICES ASSUME NEW i \in k .. n + 1 PROVE g[i] = Body(g, i)
        OBVIOUS
      <3>1. i \in 1 .. n + 1
        BY <1>1, <2>1
      <3>2. g[i] = Body(h, i)
        <4>1. CASE i > k
          <5>1. g[i] = h[i] /\ i \in k + 1 .. n + 1
            BY <1>1, <2>1, <3>1, <4>1
          <5> HIDE DEF Body, g
          <5> QED BY <2>2, <5>1
        <4>2. CASE ~(i > k)
          BY <3>1, <4>2
        <4> QED BY <4>1, <4>2
      <3>3. CASE i > n
        BY <3>2, <3>3
      <3>4. CASE ~(i > n)
        <4>1. i + 1 \in 1 .. n + 1 /\ i + 1 > k
          BY <1>1, <2>1, <3>1, <3>4
        <4>2. g[i + 1] = h[i + 1]
          BY <4>1
        <4> HIDE DEF g
        <4> QED BY <3>2, <3>4, <4>2 DEF FillFrom
      <3> QED BY <3>3, <3>4
    <2> HIDE DEF g, Body
    <2> QED BY <2>1, <2>3
  <1>5. n \in T
    <2> HIDE DEF T
    <2> QED BY <1>1, <1>3, <1>4, SetInduction
  <1>6. PICK h : \A i \in 1 .. n + 1 : h[i] = Body(h, i)
    <2>1. n + 1 - n = 1
      BY <1>1
    <2> HIDE DEF Body
    <2> QED BY <1>1, <1>5, <2>1
  <1> DEFINE g == [i \in 1 .. n + 1 |-> h[i]]
  <1>7. g = Steps(g)
    <2>1. \A i \in 1 .. n + 1 : Body(h, i) = Body(g, i)
      <3> SUFFICES ASSUME NEW i \in 1 .. n + 1 PROVE Body(h, i) = Body(g, i)
        OBVIOUS
      <3>1. CASE i > n
        BY <3>1
      <3>2. CASE ~(i > n)
        <4>1. i + 1 \in 1 .. n + 1
          BY <1>1, <3>2
        <4>2. g[i + 1] = h[i + 1]
          BY <4>1
        <4> HIDE DEF g
        <4> QED BY <3>2, <4>2 DEF FillFrom
      <3> QED BY <3>1, <3>2
    <2>2. \A i \in 1 .. n + 1 : h[i] = Body(g, i)
      <3> HIDE DEF g, Body
      <3> QED BY <1>6, <2>1
    <2>3. g = [i \in 1 .. n + 1 |-> h[i]]
      OBVIOUS
    <2> HIDE DEF g, Body
    <2> QED BY <2>2, <2>3
  <1>8. from = Steps(from)
    <2> HIDE DEF g, Steps
    <2> QED BY <1>7
  <1> HIDE DEF from, g
  <1>9. from[n + 1] = start
    BY <1>1, <1>8
  <1>10. \A i \in 1 .. n : from[i] = FillFrom(u, from, src, i)
    <2> SUFFICES ASSUME NEW i \in 1 .. n PROVE from[i] = FillFrom(u, from, src, i)
      OBVIOUS
    <2>1. i \in 1 .. n + 1 /\ ~(i > n)
      BY <1>1
    <2>2. from[i] = Body(from, i)
      <3> HIDE DEF Body
      <3> QED BY <1>8, <2>1
    <2> QED BY <2>1, <2>2
  <1> QED BY <1>2, <1>9, <1>10 DEF n, start

\* What holds of the state s after packets n .. i were looked at without an error.
Filled(u, f, src, actual, i) ==
    /\ f[i].left >= 0 /\ f[i].left <= actual
    /\ f[i].reach <= u.length
    /\ f[i].lengths = [j \in 1 .. Len(u.offsets) |-> IF j >= i THEN src[j].actual_length ELSE 0]
    /\ \A p \in 1 .. f[i].left : f[i].data[p] = p
    /\ \A j \in i .. Len(u.offsets) :
          /\ f[j + 1].left = f[j].left + src[j].actual_length
          /\ src[j].actual_length = 0 \/ u.offsets[j] + src[j].actual_length <= u.length

\* Every packet that was looked at is at its offset.
PacketsInPlace(u, f, src, i) ==
    \A j \in i .. Len(u.offsets) : \A k \in 1 .. src[j].actual_length :
        f[i].data[u.offsets[j] + k] = f[j].left + k

\* Each packet is as long as the one that was asked for, or shorter.
Roomy(u, src) == \A j \in 1 .. Len(u.offsets) : src[j].actual_length <= NextOffset(u, j) - u.offsets[j]

\* One more packet.
LEMMA FilledStep ==
  ASSUME NEW u \in Urbs, NEW i \in 1 .. Len(u.offsets), NEW f, NEW src \in [1 .. Len(u.offsets) -> Packet],
         NEW actual \in Nat, actual <= u.length,
         f[i + 1] \in FillState(u), f[i + 1].status = NoError, Filled(u, f, src, actual, i + 1),
         f[i] = FillStep(u, f[i + 1], src[i], i), f[i].status = NoError
  PROVE  /\ Filled(u, f, src, actual, i)
         /\ RepackAccepts(u) /\ Roomy(u, src) /\ PacketsInPlace(u, f, src, i + 1) => PacketsInPlace(u, f, src, i)
  <1> DEFINE n == Len(u.offsets)
             s == f[i + 1]
             t == f[i]
             o == u.offsets[i]
             al == src[i].actual_length
  <1>1. n \in Nat /\ i \in 1 .. n /\ u.length \in Nat /\ \A j \in 1 .. n : u.offsets[j] \in Nat
    BY UrbsAssumption
  <1>2. src[i] \in Packet /\ \A j \in 1 .. n : src[j].actual_length \in Nat
    BY DEF Packet
  <1>3. /\ t \in FillState(u)
        /\ t.left = s.left - al
        /\ t.lengths = [s.lengths EXCEPT ![i] = al]
        /\ al = 0 => t.data = s.data /\ t.reach = s.reach
        /\ al # 0 =>
             /\ t.left >= 0 /\ t.left <= o /\ o + al <= u.length
             /\ t.data = Move(s.data, t.left, o, al)
             /\ t.reach = s.reach \/ t.reach = o + al
    BY <1>2, FillStepIs
  <1>4. /\ s.left >= 0 /\ s.left <= actual /\ s.reach <= u.length
        /\ s.lengths = [j \in 1 .. n |-> IF j >= i + 1 THEN src[j].actual_length ELSE 0]
        /\ \A p \in 1 .. s.left : s.data[p] = p
        /\ \A j \in i + 1 .. n :
              /\ f[j + 1].left = f[j].left + src[j].actual_length
              /\ src[j].actual_length = 0 \/ u.offsets[j] + src[j].actual_length <= u.length
    BY DEF Filled
  <1>5. /\ s.left \in Int /\ t.left \in Int /\ s.reach \in Nat /\ t.reach \in Nat /\ al \in Nat /\ o \in Nat
        /\ DOMAIN s.data = 1 .. u.length /\ DOMAIN s.lengths = 1 .. n
    <2>1. s \in FillState(u)
      OBVIOUS
    <2>2. al \in Nat /\ o \in Nat
      BY <1>1, <1>2
    <2> HIDE DEF s, t, al, o, n
    <2>3. s.left \in Int /\ s.reach \in Nat /\ DOMAIN s.data = 1 .. u.length /\ DOMAIN s.lengths = 1 .. n
      BY <2>1 DEF FillState, n
    <2>4. t.left \in Int /\ t.reach \in Nat
      BY <1>3 DEF FillState
    <2> QED BY <2>2, <2>3, <2>4
  <1> HIDE DEF n, s, t, o, al
  <1>6. t.left >= 0 /\ t.left <= actual /\ s.left = t.left + al /\ t.left <= s.left
    BY <1>3, <1>4, <1>5
  <1>7. t.reach <= u.length
    BY <1>3, <1>4, <1>5
  <1>8. t.lengths = [j \in 1 .. n |-> IF j >= i THEN src[j].actual_length ELSE 0]
    <2>1. \A j \in 1 .. n : j # i => (j >= i + 1 <=> j >= i)
      BY <1>1
    <2>2. t.lengths = [j \in 1 .. n |-> IF j = i THEN al ELSE s.lengths[j]]
      BY <1>3, <1>5
    <2>3. \A j \in 1 .. n : s.lengths[j] = IF j >= i + 1 THEN src[j].actual_length ELSE 0
      BY <1>4
    <2>4. \A j \in 1 .. n : (IF j = i THEN al ELSE s.lengths[j]) = IF j >= i THEN src[j].actual_length ELSE 0
      <3> SUFFICES ASSUME NEW j \in 1 .. n
                   PROVE  (IF j = i THEN al ELSE s.lengths[j]) = IF j >= i THEN src[j].actual_length ELSE 0
        OBVIOUS
      <3>1. CASE j = i
        <4>1. j >= i
          BY <1>1, <3>1
        <4> QED BY <3>1, <4>1 DEF al
      <3>2. CASE j # i
        BY <2>1, <2>3, <3>2
      <3> QED BY <3>1, <3>2
    <2> QED BY <2>2, <2>4
  <1>9. \A p \in 1 .. u.length : (al = 0 \/ ~(p \in o + 1 .. o + al)) => t.data[p] = s.data[p]
    BY <1>3, <1>5 DEF Move
  <1>10. \A p \in 1 .. t.left : t.data[p] = p
    <2> SUFFICES ASSUME NEW p \in 1 .. t.left PROVE t.data[p] = p
      OBVIOUS
    <2>1. p \in 1 .. s.left /\ p \in 1 .. u.length
      BY <1>1, <1>4, <1>5, <1>6
    <2>2. al = 0 \/ ~(p \in o + 1 .. o + al)
      BY <1>3, <1>5
    <2> QED BY <1>4, <1>9, <2>1, <2>2
  <1>11. \A j \in i .. n :
            /\ f[j + 1].left = f[j].left + src[j].actual_length
            /\ src[j].actual_length = 0 \/ u.offsets[j] + src[j].actual_length <= u.length
    <2> SUFFICES ASSUME NEW j \in i .. n
                 PROVE  /\ f[j + 1].left = f[j].left + src[j].actual_length
                        /\ src[j].actual_length = 0 \/ u.offsets[j] + src[j].actual_length <= u.length
      OBVIOUS
    <2>1. CASE j = i
      BY <2>1, <1>3, <1>6 DEF s, t, al, o
    <2>2. CASE j # i
      <3>1. j \in i + 1 .. n
        BY <1>1, <2>2
      <3> QED BY <1>4, <3>1
    <2> QED BY <2>1, <2>2
  <1>12. Filled(u, f, src, actual, i)
    BY <1>6, <1>7, <1>8, <1>10, <1>11 DEF Filled, t, n
  <1>13. ASSUME RepackAccepts(u), Roomy(u, src), PacketsInPlace(u, f, src, i + 1)
         PROVE  PacketsInPlace(u, f, src, i)
    <2> SUFFICES ASSUME NEW j \in i .. n, NEW k \in 1 .. src[j].actual_length
                 PROVE  t.data[u.offsets[j] + k] = f[j].left + k
      BY DEF PacketsInPlace, t, n
    <2>1. j \in 1 .. n /\ src[j].actual_length \in Nat /\ src[j].actual_length # 0 /\ u.offsets[j] \in Nat
          /\ k \in Int /\ 1 <= k /\ k <= src[j].actual_length
      BY <1>1, <1>2
    <2>2. u.offsets[j] + src[j].actual_length <= u.length
      BY <1>11, <2>1
    <2> DEFINE p == u.offsets[j] + k
    <2>3. p \in 1 .. u.length
      <3> DEFINE x == u.offsets[j]
                 y == src[j].actual_length
      <3>1. x \in Nat /\ y \in Nat /\ x + y <= u.length /\ k \in Int /\ 1 <= k /\ k <= y /\ p = x + k
        BY <2>1, <2>2
      <3> HIDE DEF x, y, p
      <3> QED BY <1>1, <3>1
    <2>4. CASE j = i
      <3>1. al # 0 /\ p = o + k /\ k <= al /\ k \in Int /\ 1 <= k
        BY <2>1, <2>4 DEF al, o
      <3> HIDE DEF p
      <3>2. p \in o + 1 .. o + al /\ p - o = k
        BY <1>5, <3>1
      <3>3. t.data = Move(s.data, t.left, o, al)
        BY <1>3, <3>1
      <3>4. t.data[p] = s.data[k + t.left]
        BY <1>5, <2>3, <3>2, <3>3 DEF Move
      <3>5. k + t.left \in 1 .. s.left
        BY <1>5, <1>6, <3>1
      <3>6. s.data[k + t.left] = k + t.left
        BY <1>4, <3>5
      <3>7. k + t.left = t.left + k
        BY <1>5, <3>1
      <3> QED BY <2>4, <3>4, <3>6, <3>7 DEF p, t
    <2>5. CASE j # i
      <3>1. j \in i + 1 .. n /\ i < j
        BY <1>1, <2>5
      <3>2. s.data[p] = f[j].left + k
        BY <1>13, <3>1 DEF PacketsInPlace, s, n
      <3>3. NextOffset(u, i) <= u.offsets[j]
        BY <1>13, <2>1, <3>1, OffsetsRise DEF n
      <3>4. al <= NextOffset(u, i) - o
        BY <1>1, <1>13 DEF Roomy, al, o, n
      <3>5. NextOffset(u, i) \in Nat
        <4>1. i + 1 \in 1 .. n
          BY <1>1, <3>1
        <4> QED BY <1>1, <4>1 DEF NextOffset, n
      <3>6. o + al <= u.offsets[j]
        BY <1>5, <2>1, <3>3, <3>4, <3>5
      <3>7. p > o + al
        BY <1>5, <2>1, <3>6
      <3> HIDE DEF p
      <3>8. ~(p \in o + 1 .. o + al)
        BY <1>5, <2>3, <3>7
      <3>9. t.data[p] = s.data[p]
        BY <1>9, <2>3, <3>8
      <3> QED BY <3>2, <3>9 DEF p
    <2> QED BY <2>4, <2>5
  <1> QED BY <1>12, <1>13

\* The buffer before and after fill_isoc_data.
BufferReceived(u, data, actual) ==
    actual \in Nat /\ actual <= u.length /\ data \in [1 .. u.length -> Nat] /\ \A p \in 1 .. actual : data[p] = p

FillDone(u, r) ==
    r.status = NoError =>
        /\ r.reach <= u.length
        /\ r.lengths \in [1 .. Len(u.offsets) -> Nat]
        /\ (\A i \in 1 .. Len(u.offsets) : r.lengths[i] <= NextOffset(u, i) - u.offsets[i]) =>
              \A i \in 1 .. Len(u.offsets) : \A k \in 1 .. r.lengths[i] :
                 r.data[u.offsets[i] + k] = SumOf(r.lengths, i - 1) + k

\* fill_isoc_data as a whole.
LEMMA FillData ==
  ASSUME NEW u \in Urbs, RepackAccepts(u), NEW actual, NEW data, BufferReceived(u, data, actual),
         NEW src \in [1 .. Len(u.offsets) -> Packet]
  PROVE  FillDone(u, fill_isoc_data(u, data, actual, src))
  <1> DEFINE n == Len(u.offsets)
             r == fill_isoc_data(u, data, actual, src)
  <1>1. n \in Nat /\ u.length \in Nat
    BY UrbsAssumption
  <1> USE DEF BufferReceived
  <1>2. PICK f :
            /\ f[n + 1] = FillStart(u, data, actual)
            /\ \A i \in 1 .. n : f[i] = FillFrom(u, f, src, i)
            /\ r = IF f[1].status = NoError /\ f[1].left # 0 THEN [f[1] EXCEPT !.status = Invalid] ELSE f[1]
    BY FillRuns
  <1> SUFFICES ASSUME r.status = NoError
               PROVE  /\ r.reach <= u.length
                      /\ r.lengths \in [1 .. n -> Nat]
                      /\ (\A i \in 1 .. n : r.lengths[i] <= NextOffset(u, i) - u.offsets[i]) =>
                            \A i \in 1 .. n : \A k \in 1 .. r.lengths[i] :
                               r.data[u.offsets[i] + k] = SumOf(r.lengths, i - 1) + k
    BY DEF FillDone
  <1> HIDE DEF n, r
  <1> DEFINE Good(i) == /\ f[i] \in FillState(u)
                        /\ f[i].status = NoError => /\ Filled(u, f, src, actual, i)
                                                    /\ Roomy(u, src) => PacketsInPlace(u, f, src, i)
             T == {m \in Nat : m <= n => Good(n + 1 - m)}
  <1>3. 0 \in T
    <2>1. /\ f[n + 1].left = actual /\ f[n + 1].data = data /\ f[n + 1].reach = 0
          /\ f[n + 1].lengths = [j \in 1 .. n |-> 0]
      BY <1>2 DEF FillStart, n
    <2>2. f[n + 1] \in FillState(u)
      BY <1>2 DEF FillStart, FillState, NoError
    <2>3. \A j \in 1 .. n : ~(j >= n + 1)
      BY <1>1
    <2>4. f[n + 1].lengths = [j \in 1 .. n |-> IF j >= n + 1 THEN src[j].actual_length ELSE 0]
      BY <2>1, <2>3
    <2>5. n + 1 .. n = {}
      BY <1>1
    <2>6. Filled(u, f, src, actual, n + 1)
      BY <1>1, <2>1, <2>4, <2>5 DEF Filled, n
    <2>7. PacketsInPlace(u, f, src, n + 1)
      BY <2>5 DEF PacketsInPlace, n
    <2>8. Good(n + 1)
      BY <2>2, <2>6, <2>7
    <2>9. n + 1 - 0 = n + 1
      BY <1>1
    <2> HIDE DEF Good
    <2> QED BY <2>8, <2>9
  <1>4. \A m \in Nat : m \in T => m + 1 \in T
    <2> SUFFICES ASSUME NEW m \in Nat, m \in T, m + 1 <= n PROVE Good(n + 1 - (m + 1))
      OBVIOUS
    <2> DEFINE i == n - m
    <2>1. i \in 1 .. n /\ n + 1 - (m + 1) = i /\ n + 1 - m = i + 1 /\ m <= n
      BY <1>1
    <2>2. Good(i + 1)
      <3> HIDE DEF Good, i
      <3> QED BY <2>1
    <2> HIDE DEF i
    <2>3. f[i] = FillFrom(u, f, src, i)
      BY <1>2, <2>1
    <2>4. CASE f[i + 1].status # NoError
      <3>1. f[i] = f[i + 1]
        BY <2>3, <2>4 DEF FillFrom
      <3>2. Good(i)
        BY <2>2, <2>4, <3>1
      <3> HIDE DEF Good
      <3> QED BY <2>1, <3>2
    <2>5. CASE f[i + 1].status = NoError
      <3>1. f[i] = FillStep(u, f[i + 1], src[i], i)
        BY <2>3, <2>5 DEF FillFrom
      <3>2. src[i] \in Packet
        BY <2>1 DEF n
      <3>3. f[i] \in FillState(u)
        <4>1. f[i + 1] \in FillState(u) /\ i \in 1 .. Len(u.offsets)
          BY <2>1, <2>2 DEF n
        <4> HIDE DEF Good
        <4>2. FillStep(u, f[i + 1], src[i], i) \in FillState(u)
          BY <2>5, <3>2, <4>1, FillStepIs
        <4> QED BY <3>1, <4>2
      <3>4. ASSUME f[i].status = NoError
            PROVE  Filled(u, f, src, actual, i) /\ (Roomy(u, src) => PacketsInPlace(u, f, src, i))
        BY <2>1, <2>2, <2>5, <3>1, <3>4, FilledStep DEF n
      <3>5. Good(i)
        BY <3>3, <3>4
      <3> HIDE DEF Good
      <3> QED BY <2>1, <3>5
    <2> QED BY <2>4, <2>5
  <1>5. Good(1)
    <2>1. n \in T
      <3> HIDE DEF T
      <3> QED BY <1>1, <1>3, <1>4, SetInduction
    <2>2. n + 1 - n = 1
      BY <1>1
    <2> HIDE DEF Good
    <2> QED BY <1>1, <2>1, <2>2
  <1>6. r = f[1] /\ f[1].left = 0
    <2>1. CASE f[1].status = NoError /\ f[1].left # 0
      <3>1. r = [f[1] EXCEPT !.status = Invalid]
        BY <1>2, <2>1
      <3>2. f[1] \in FillState(u)
        BY <1>5
      <3>3. r.status = Invalid
        BY <3>1, <3>2 DEF FillState
      <3> QED BY <3>3 DEF Invalid, NoError
    <2>2. CASE ~(f[1].status = NoError /\ f[1].left # 0)
      <3>1. r = f[1]
        BY <1>2, <2>2
      <3> QED BY <2>2, <3>1
    <2> QED BY <2>1, <2>2
  <1>7. Filled(u, f, src, actual, 1) /\ (Roomy(u, src) => PacketsInPlace(u, f, src, 1))
    BY <1>5, <1>6
  <1> HIDE DEF Good
  <1>8. \A j \in 1 .. n : src[j].actual_length \in Nat
    BY DEF Packet, n
  <1>9. r.lengths = [j \in 1 .. n |-> src[j].actual_length]
    <2>1. r.lengths = [j \in 1 .. n |-> IF j >= 1 THEN src[j].actual_length ELSE 0]
      BY <1>6, <1>7 DEF Filled, n
    <2>2. \A j \in 1 .. n : j >= 1
      BY <1>1
    <2> QED BY <2>1, <2>2
  <1>10. r.reach <= u.length
    BY <1>6, <1>7 DEF Filled
  <1>11. ASSUME \A i \in 1 .. n : r.lengths[i] <= NextOffset(u, i) - u.offsets[i],
                NEW i \in 1 .. n, NEW k \in 1 .. r.lengths[i]
         PROVE  r.data[u.offsets[i] + k] = SumOf(r.lengths, i - 1) + k
    <2>1. Roomy(u, src)
      BY <1>9, <1>11 DEF Roomy, n
    <2>2. r.data[u.offsets[i] + k] = f[i].left + k
      BY <1>6, <1>7, <1>9, <1>11, <2>1 DEF PacketsInPlace, n
    <2> DEFINE g == [j \in 0 .. i - 1 |-> f[j + 1].left]
    <2>3. i - 1 \in Nat /\ 0 \in 0 .. i - 1 /\ i - 1 \in 0 .. i - 1
      BY <1>1
    <2>4. g[0] = 0
      BY <1>6, <2>3
    <2>5. \A j \in 1 .. i - 1 : g[j] = g[j - 1] + r.lengths[j]
      <3> SUFFICES ASSUME NEW j \in 1 .. i - 1 PROVE g[j] = g[j - 1] + r.lengths[j]
        OBVIOUS
      <3>1. j \in 0 .. i - 1 /\ j - 1 \in 0 .. i - 1 /\ j - 1 + 1 = j /\ j \in 1 .. n
        BY <1>1, <2>3
      <3>2. g[j] = f[j + 1].left /\ g[j - 1] = f[j].left
        BY <3>1
      <3>3. f[j + 1].left = f[j].left + src[j].actual_length
        BY <1>7, <3>1 DEF Filled, n
      <3>4. r.lengths[j] = src[j].actual_length
        BY <1>9, <3>1
      <3> QED BY <3>2, <3>3, <3>4
    <2>6. g[i - 1] = f[i].left
      <3>1. i - 1 + 1 = i
        BY <1>1
      <3> QED BY <2>3, <3>1
    <2> HIDE DEF g
    <2>7. SumOf(r.lengths, i - 1) = f[i].left
      BY <2>3, <2>4, <2>5, <2>6, SumIs
    <2> QED BY <2>2, <2>7
  <1> QED BY <1>8, <1>9, <1>10, <1>11

-----------------------------------------------------------------------------
(* The answer.                                                              *)

\* ret_submit completes an URB with data that are where they belong.
LEMMA ResultInPlace ==
  ASSUME NEW u \in Urbs, RepackAccepts(u), NEW r \in Answers, NEW in \in BOOLEAN,
         in /\ u.function = "isoch" /\ SamePackets(u, r) => r.actual_length \in 0 .. u.length,
         NEW src \in IsocReplies(u, IF u.function = "isoch" THEN Packets(r.number_of_packets) ELSE 0),
         ret_submit(u, r, in, src).status = NoError
  PROVE  LET x == ret_submit(u, r, in, src)
         IN  /\ x.length <= u.length
             /\ u.function = "isoch" /\ x.data # <<>> =>
                  /\ DOMAIN x.lengths = 1 .. Len(u.offsets)
                  /\ (\A i \in 1 .. Len(u.offsets) : x.lengths[i] <= NextOffset(u, i) - u.offsets[i]) =>
                       \A i \in 1 .. Len(u.offsets) : \A k \in 1 .. x.lengths[i] :
                          x.data[u.offsets[i] + k] = SumOf(x.lengths, i - 1) + k
             /\ u.function # "none" =>
                  (x.usbd = "SUCCESS" <=> (r.status = 0 /\ ~(u.function = "isoch" /\ r.all_failed)))
  <1> DEFINE x == ret_submit(u, r, in, src)
             n == Len(u.offsets)
             w == UrbStatus(u, r)
             Placed == /\ x.length <= u.length
                       /\ u.function = "isoch" /\ x.data # <<>> =>
                            /\ DOMAIN x.lengths = 1 .. n
                            /\ (\A i \in 1 .. n : x.lengths[i] <= NextOffset(u, i) - u.offsets[i]) =>
                                 \A i \in 1 .. n : \A k \in 1 .. x.lengths[i] :
                                    x.data[u.offsets[i] + k] = SumOf(x.lengths, i - 1) + k
  <1>1. /\ r.actual_length \in Int /\ r.status \in Int /\ r.all_failed \in BOOLEAN
        /\ u.length \in Nat /\ n \in Nat /\ \A i \in 1 .. n : u.offsets[i] \in Nat
    <2>1. r.actual_length \in Int /\ r.status \in Int /\ r.all_failed \in BOOLEAN
      <3>1. r.actual_length \in ActualLengths /\ r.status \in Statuses /\ r.all_failed \in BOOLEAN
        BY DEF Answers
      <3>2. ActualLengths \subseteq Int /\ Statuses \subseteq Int
        BY BoundsAssumption, WidthsAssumption
      <3>3. r.actual_length \in Int
        BY <3>1, <3>2, Zenon
      <3>4. r.status \in Int
        BY <3>1, <3>2, Zenon
      <3> QED BY <3>1, <3>3, <3>4, Zenon
    <2>2. u.length \in Nat /\ u.offsets \in Seq(Nat)
      BY UrbsAssumption
    <2> QED BY <2>1, <2>2
  <1>2. w = "SUCCESS" <=> (r.status = 0 /\ ~(u.function = "isoch" /\ r.all_failed))
    <2>1. CASE u.function = "isoch" /\ r.all_failed
      <3>1. w = "ISOCH_REQUEST_FAILED"
        BY <2>1 DEF UrbStatus
      <3> QED BY <2>1, <3>1
    <2>2. CASE ~(u.function = "isoch" /\ r.all_failed)
      <3>1. w = to_windows_status_ex(r.status, FALSE)
        BY <2>2 DEF UrbStatus
      <3> QED BY <1>1, <2>2, <3>1, SuccessIsZero
    <2> QED BY <2>1, <2>2
  <1> HIDE DEF w
  <1> SUFFICES Placed /\ (u.function # "none" => x.usbd = w)
    BY <1>2
  <1>3. CASE u.function = "none"
    <2>1. x.length = 0
      BY <1>3 DEF ret_submit, Completed
    <2> HIDE DEF x
    <2> QED BY <1>1, <1>3, <2>1
  <1>4. CASE u.function \notin {"none", "isoch"}
    <2>1. x = [other_transfer(u, r, in) EXCEPT !.usbd = w]
      BY <1>4 DEF ret_submit, ret_submit_urb, w
    <2> HIDE DEF x
    <2>2. CASE u.buffer = "none"
      <3>1. x = [Completed(NoError, 0, <<>>, <<>>) EXCEPT !.usbd = w]
        BY <2>1, <2>2 DEF other_transfer
      <3>2. x.length = 0 /\ x.usbd = w
        BY <3>1 DEF Completed
      <3> QED BY <1>1, <1>4, <3>2
    <2>3. CASE u.buffer # "none" /\ check(u.length, r.actual_length)
      <3>1. x = [Completed(NoError, r.actual_length, Received(u, r, in), <<>>) EXCEPT !.usbd = w]
        BY <2>1, <2>3 DEF other_transfer
      <3>2. x.length = r.actual_length /\ x.usbd = w
        BY <3>1 DEF Completed
      <3>3. r.actual_length <= u.length
        BY <1>1, <2>3 DEF check
      <3> QED BY <1>4, <3>2, <3>3
    <2>4. CASE u.buffer # "none" /\ ~check(u.length, r.actual_length)
      <3>1. x = [Completed(BadSize, 0, <<>>, <<>>) EXCEPT !.usbd = w]
        BY <2>1, <2>4 DEF other_transfer
      <3>2. x.status = BadSize
        BY <3>1 DEF Completed
      <3> QED BY <3>2 DEF BadSize, NoError, x
    <2> QED BY <2>2, <2>3, <2>4
  <1>5. CASE u.function = "isoch"
    <2> DEFINE ps == [i \in DOMAIN src |-> to_windows_status_ex(src[i].status, TRUE)]
               f == fill_isoc_data(u, Received(u, r, in), r.actual_length, src)
    <2>1. x = [isoch_transfer(u, r, in, src) EXCEPT !.usbd = w]
      BY <1>5 DEF ret_submit, ret_submit_urb, w
    <2> HIDE DEF x, ps, f
    <2>2. CASE Packets(r.number_of_packets) # n
      <3>1. x = [Completed(Invalid, u.length, <<>>, <<>>) EXCEPT !.usbd = w]
        BY <2>1, <2>2 DEF isoch_transfer, SamePackets
      <3>2. x.status = Invalid
        BY <3>1 DEF Completed
      <3> QED BY <3>2 DEF Invalid, NoError, x
    <2>3. CASE Packets(r.number_of_packets) = n /\ ~in
      <3>1. x = [[Completed(NoError, u.length, <<>>, <<>>) EXCEPT !.packets = ps] EXCEPT !.usbd = w]
        BY <2>1, <2>3 DEF isoch_transfer, SamePackets, ps
      <3>2. x.length = u.length /\ x.data = <<>> /\ x.usbd = w
        BY <3>1 DEF Completed
      <3> QED BY <1>1, <3>2
    <2>4. CASE Packets(r.number_of_packets) = n /\ in
      <3>1. x = [[Completed(f.status, f.reach, f.data, f.lengths) EXCEPT !.packets = ps] EXCEPT !.usbd = w]
        BY <2>1, <2>4 DEF isoch_transfer, SamePackets, ps, f
      <3>2. x.status = f.status /\ x.length = f.reach /\ x.data = f.data /\ x.lengths = f.lengths /\ x.usbd = w
        BY <3>1 DEF Completed
      <3>3. f.status = NoError
        BY <3>2 DEF x
      <3>4. src \in [1 .. n -> Packet]
        <4>1. Range(u.offsets) \subseteq Nat
          BY UrbsAssumption DEF Range
        <4>2. [offset : {0} \cup Range(u.offsets), length : 0 .. MaxLength, actual_length : 0 .. MaxLength,
               status : PacketStatuses] \subseteq Packet
          <5>1. {0} \cup Range(u.offsets) \subseteq Nat /\ 0 .. MaxLength \subseteq Nat /\ PacketStatuses \subseteq Int
            BY <4>1, BoundsAssumption
          <5> QED BY <5>1 DEF Packet
        <4>3. src \in IsocReplies(u, n)
          BY <1>5, <2>4
        <4> QED BY <4>2, <4>3 DEF IsocReplies
      <3>5. Received(u, r, in) \in [1 .. u.length -> Nat] /\ \A p \in 1 .. r.actual_length : Received(u, r, in)[p] = p
        <4>1. r.actual_length \in 0 .. u.length /\ u.length \in Nat
          BY <1>1, <1>5, <2>4 DEF SamePackets
        <4> QED BY <2>4, <4>1 DEF Received
      <3>6. /\ f.reach <= u.length
            /\ f.lengths \in [1 .. n -> Nat]
            /\ (\A i \in 1 .. n : f.lengths[i] <= NextOffset(u, i) - u.offsets[i]) =>
                  \A i \in 1 .. n : \A k \in 1 .. f.lengths[i] :
                     f.data[u.offsets[i] + k] = SumOf(f.lengths, i - 1) + k
        <4> DEFINE data == Received(u, r, in)
                   actual == r.actual_length
        <4>1. actual <= u.length /\ actual \in Nat
          BY <1>1, <1>5, <2>4 DEF SamePackets
        <4>2. data \in [1 .. u.length -> Nat] /\ \A p \in 1 .. actual : data[p] = p
          BY <3>5
        <4>3. f = fill_isoc_data(u, data, actual, src)
          BY DEF f
        <4> HIDE DEF data, actual
        <4>4. BufferReceived(u, data, actual)
          BY <4>1, <4>2 DEF BufferReceived
        <4>5. FillDone(u, fill_isoc_data(u, data, actual, src))
          BY <3>4, <4>4, FillData
        <4> QED BY <3>3, <4>3, <4>5 DEF FillDone
      <3> QED BY <3>2, <3>6
    <2> QED BY <2>2, <2>3, <2>4
  <1> QED BY <1>3, <1>4, <1>5

\* The URB is filled and completed, or the receive loop ends.
LEMMA RecvPayloadNext ==
  ASSUME TransferInv, recv_payload
  PROVE  TransferInv'
  <1> DEFINE size == get_payload_size(~DirIn, Answer)
             p == prepare_wsk_mdl(urb, Answer, rx[1], DirIn)
             ctx == IF size = 0 THEN rx[1] ELSE p.ctx
             packets == IF urb.function = "isoch" THEN Packets(Answer.number_of_packets) ELSE 0
  <1>1. /\ stage = "header" /\ Found /\ UNCHANGED <<tx, counter>>
        /\ IF size > 0 /\ Error(p.chain)
           THEN Leave(ctx)
           ELSE IF StaleDescriptors(urb, Answer, size)
           THEN stage' = "undefined" /\ UNCHANGED <<pool, rx, urb, cmd, ret, result>>
           ELSE /\ stage' = "done"
                /\ rx' = <<ctx>>
                /\ \E src \in IsocReplies(urb, packets) : result' = ret_submit(urb, Answer, DirIn, src)
                /\ UNCHANGED <<pool, urb, cmd, ret>>
    BY DEF recv_payload
  <1>2. /\ urb \in Urbs /\ RepackAccepts(urb) /\ cmd.isoc = repack(urb) /\ Answer \in Answers
        /\ Answer.command = "RET_SUBMIT" /\ DirIn \in BOOLEAN /\ rx[1] \in Context
    BY <1>1, OneContext DEF TransferInv, TransferTypes, MessageFits, Answer, Found, DirIn, extract_dir_in
  <1>3. p.ctx \in Context /\ (~Error(p.chain) => Answer.actual_length \in 0 .. urb.length)
    BY <1>2, PayloadChain
  <1>4. /\ size \in Nat
        /\ size = 0 /\ DirIn /\ Packets(Answer.number_of_packets) = 0 => Answer.actual_length = 0
        /\ size = 0 /\ Packets(Answer.number_of_packets) > 0 => Answer.actual_length < 0
    <2> DEFINE al == Answer.actual_length
               k == Packets(Answer.number_of_packets)
    <2>1. k \in Nat /\ size \in Nat /\ al \in Int /\ al >= UlongWidth - SizeWidth
      BY <1>2, AnswerNumbers
    <2>2. size = AsSize((IF DirIn THEN al ELSE 0) + 16 * k)
      BY <1>2 DEF get_payload_size, DescriptorSize
    <2>3. UlongWidth \in Nat /\ SizeWidth \in Nat /\ UlongWidth > 0
      BY WidthsAssumption
    <2> SUFFICES /\ size \in Nat
                 /\ size = 0 /\ DirIn /\ k = 0 => al = 0
                 /\ size = 0 /\ k > 0 => al < 0
      OBVIOUS
    <2> HIDE DEF size, al, k
    <2>4. CASE DirIn
      BY <2>1, <2>2, <2>3, <2>4 DEF AsSize
    <2>5. CASE ~DirIn
      BY <2>1, <2>2, <2>3, <2>5 DEF AsSize
    <2> QED BY <1>2, <2>4, <2>5
  <1>5. ctx \in Context
    BY <1>2, <1>3
  <1> HIDE DEF size, p, ctx
  <1>6. CASE size > 0 /\ Error(p.chain)
    BY <1>1, <1>5, <1>6, LeaveNext
  <1>8. CASE ~(size > 0 /\ Error(p.chain)) /\ StaleDescriptors(urb, Answer, size)
    <2>1. stage' = "undefined" /\ UNCHANGED <<pool, rx, urb, cmd, ret, result, tx, counter>>
      BY <1>1, <1>8
    <2>2. Answer.actual_length < 0
      <3>1. urb.offsets \in Seq(Nat) /\ urb.offsets # <<>> /\ Packets(Answer.number_of_packets) = Len(urb.offsets)
        BY <1>2, <1>8, UrbsAssumption DEF StaleDescriptors, SamePackets
      <3>2. Packets(Answer.number_of_packets) > 0 /\ size = 0
        BY <1>8, <3>1 DEF StaleDescriptors
      <3> QED BY <1>4, <3>2
    <2>3. TransferTypes'
      BY <1>1, <2>1 DEF TransferInv, TransferTypes
    <2> QED BY <2>1, <2>2, <2>3 DEF TransferInv, DataInPlace, Answer
  <1>7. CASE ~(size > 0 /\ Error(p.chain)) /\ ~StaleDescriptors(urb, Answer, size)
    <2>1. stage' = "done" /\ rx' = <<ctx>> /\ UNCHANGED <<pool, tx, counter, urb, cmd, ret>>
      BY <1>1, <1>7
    <2>2. PICK src \in IsocReplies(urb, packets) : result' = ret_submit(urb, Answer, DirIn, src)
      BY <1>1, <1>7
    <2>3. TransferTypes'
      BY <1>5, <2>1, OneContext DEF TransferInv, TransferTypes
    <2>4. DirIn /\ urb.function = "isoch" /\ SamePackets(urb, Answer) => Answer.actual_length \in 0 .. urb.length
      <3> SUFFICES ASSUME DirIn, urb.function = "isoch", SamePackets(urb, Answer)
                   PROVE  Answer.actual_length \in 0 .. urb.length
        OBVIOUS
      <3>1. urb.length \in Nat
        BY <1>2, UrbsAssumption
      <3>2. CASE size > 0
        BY <1>3, <1>7, <3>2
      <3>3. CASE size = 0
        <4>1. Packets(Answer.number_of_packets) = 0
          BY <1>7, <3>3 DEF StaleDescriptors, SamePackets
        <4> QED BY <1>4, <3>1, <3>3, <4>1
      <3> QED BY <1>4, <3>2, <3>3
    <2>5. DataInPlace'
      <3> SUFFICES ASSUME result'.status = NoError PROVE DataInPlace'
        BY DEF DataInPlace
      <3> DEFINE x == ret_submit(urb, Answer, DirIn, src)
                 n == Len(urb.offsets)
      <3>1. /\ x.length <= urb.length
            /\ urb.function = "isoch" /\ x.data # <<>> =>
                 /\ DOMAIN x.lengths = 1 .. n
                 /\ (\A i \in 1 .. n : x.lengths[i] <= NextOffset(urb, i) - urb.offsets[i]) =>
                      \A i \in 1 .. n : \A k \in 1 .. x.lengths[i] :
                         x.data[urb.offsets[i] + k] = SumOf(x.lengths, i - 1) + k
            /\ urb.function # "none" =>
                 (x.usbd = "SUCCESS" <=> (Answer.status = 0 /\ ~(urb.function = "isoch" /\ Answer.all_failed)))
        BY <1>2, <2>2, <2>4, ResultInPlace
      <3>2. result' = x /\ urb' = urb /\ cmd' = cmd /\ ret' = ret /\ Answer' = Answer
        BY <2>1, <2>2 DEF Answer
      <3>3. \A i \in 1 .. n : cmd.isoc[i].length = NextOffset(urb, i) - urb.offsets[i]
        BY <1>2, UrbsAssumption DEF repack
      <3> HIDE DEF x, n
      <3>4. urb.function = "isoch" /\ x.data # <<>>
              /\ (\A i \in DOMAIN x.lengths : x.lengths[i] <= cmd.isoc[i].length) =>
                \A i \in DOMAIN x.lengths : \A k \in 1 .. x.lengths[i] :
                    x.data[urb.offsets[i] + k] = SumOf(x.lengths, i - 1) + k
        BY <3>1, <3>3
      <3>5. urb.function # "none" =>
               (x.usbd = "SUCCESS") = (Answer.status = 0 /\ ~(urb.function = "isoch" /\ Answer.all_failed))
        BY <3>1, Zenon
      <3> QED BY <3>1, <3>2, <3>4, <3>5 DEF DataInPlace
    <2> QED BY <2>1, <2>3, <2>5 DEF TransferInv
  <1> QED BY <1>6, <1>7, <1>8

-----------------------------------------------------------------------------
(* The theorems.                                                            *)

(***************************************************************************)
(* TransferInv holds of every behaviour: each context fits the MDLs it     *)
(* has, whatever message it carried before; the message of an URB that is  *)
(* under way is the one its header announces; and DataInPlace.             *)
(***************************************************************************)
THEOREM TransfersInvariance == TransfersSpec => []TransferInv
  <1>1. TransfersInit => TransferInv
    BY OneContext, BoundsAssumption DEF TransfersInit, TransferInv, TransferTypes, DataInPlace
  <1>2. TransferInv /\ [TransfersNext]_transfersVars => TransferInv'
    <2> SUFFICES ASSUME TransferInv, [TransfersNext]_transfersVars PROVE TransferInv'
      OBVIOUS
    <2>1. CASE recv_thread_start
      BY <2>1, ThreadStartNext
    <2>2. CASE usb_submit_urb_at_once
      BY <2>2, AtOnceNext
    <2>3. CASE usb_submit_urb
      BY <2>3, SubmitNext
    <2>4. CASE usb_submit_urb_lock_failed
      BY <2>4, LockFailedNext
    <2>5. CASE send_complete
      BY <2>5, SendCompleteNext
    <2>6. CASE recv_usbip_header
      BY <2>6, HeaderNext
    <2>7. CASE recv_payload
      BY <2>7, RecvPayloadNext
    <2>8. CASE drain_payload \/ complete \/ disconnected \/ UNCHANGED transfersVars
      BY <2>8, OthersNext
    <2> QED BY <2>1, <2>2, <2>3, <2>4, <2>5, <2>6, <2>7, <2>8 DEF TransfersNext
  <1> QED BY <1>1, <1>2, PTL DEF TransfersSpec

(***************************************************************************)
(* A message that goes out fits the chain of MDLs it was made from, for    *)
(* every URB and every history of the contexts in the lookaside list.      *)
(***************************************************************************)
THEOREM SentMessageFitsHolds == TransfersSpec => []SentMessageFits
  <1>1. TransferInv => SentMessageFits
    <2> SUFFICES ASSUME TransferInv PROVE SentMessageFits
      OBVIOUS
    <2>1. InUse \subseteq Context
      BY DEF TransferInv, TransferTypes, InUse, Range
    <2>2. \A c \in InUse : c.mdl_isoc <= c.isoc_alloc_cnt /\ (c.mdl_buf_tail > 0 => c.buf_tail)
      BY <2>1 DEF Context
    <2>3. ASSUME stage = "sent"
          PROVE  /\ verify(get_total_size(cmd.header), cmd.chain, urb.function = "isoch")
                 /\ urb.function = "isoch" => cmd.swapped = Len(urb.offsets)
                 /\ \A i \in DOMAIN cmd.isoc : cmd.isoc[i].offset + cmd.isoc[i].length = NextOffset(urb, i)
                 /\ \A i \in DOMAIN cmd.isoc : cmd.isoc[i].length >= 0 /\ NextOffset(urb, i) <= urb.length
      <3>1. MessageFits(urb, cmd)
        BY <2>3 DEF TransferInv
      <3>2. urb \in Urbs /\ RepackAccepts(urb) /\ cmd.isoc = repack(urb)
        BY <3>1 DEF MessageFits
      <3>3. /\ DOMAIN cmd.isoc = DOMAIN urb.offsets
            /\ \A i \in DOMAIN urb.offsets : /\ cmd.isoc[i].offset = urb.offsets[i]
                                             /\ cmd.isoc[i].length = NextOffset(urb, i) - urb.offsets[i]
        BY <3>2 DEF repack
      <3>4. \A i \in DOMAIN urb.offsets : urb.offsets[i] \in Nat /\ NextOffset(urb, i) \in Nat
        <4> SUFFICES ASSUME NEW i \in DOMAIN urb.offsets PROVE urb.offsets[i] \in Nat /\ NextOffset(urb, i) \in Nat
          OBVIOUS
        <4>1. /\ urb.length \in Nat /\ Len(urb.offsets) \in Nat /\ i \in 1 .. Len(urb.offsets)
              /\ \A j \in 1 .. Len(urb.offsets) : urb.offsets[j] \in Nat
          BY <3>2, UrbsAssumption
        <4>2. i < Len(urb.offsets) => i + 1 \in 1 .. Len(urb.offsets)
          BY <4>1
        <4> QED BY <4>1, <4>2 DEF NextOffset
      <3>5. \A i \in DOMAIN urb.offsets : NextOffset(urb, i) >= urb.offsets[i] /\ NextOffset(urb, i) <= urb.length
        BY <3>2 DEF RepackAccepts
      <3>6. \A i \in DOMAIN urb.offsets :
               cmd.isoc[i].offset + cmd.isoc[i].length = NextOffset(urb, i) /\ cmd.isoc[i].length >= 0
        <4> SUFFICES ASSUME NEW i \in DOMAIN urb.offsets
                     PROVE  cmd.isoc[i].offset + cmd.isoc[i].length = NextOffset(urb, i) /\ cmd.isoc[i].length >= 0
          OBVIOUS
        <4> DEFINE a == urb.offsets[i]
                   b == NextOffset(urb, i)
        <4>1. cmd.isoc[i].offset = a /\ cmd.isoc[i].length = b - a /\ a \in Nat /\ b \in Nat /\ b >= a
          BY <3>3, <3>4, <3>5
        <4> HIDE DEF a, b
        <4>2. a + (b - a) = b /\ b - a >= 0
          BY <4>1
        <4> QED BY <4>1, <4>2 DEF b
      <3> QED BY <3>1, <3>3, <3>5, <3>6 DEF MessageFits
    <2> QED BY <2>2, <2>3 DEF SentMessageFits
  <1> QED BY <1>1, TransfersInvariance, PTL

(***************************************************************************)
(* prepare_wsk_mdl makes a chain that holds the payload of an answer to    *)
(* the byte, or it fails, and with as many descriptors as are used then,   *)
(* whatever the server says in the header, negative numbers included;      *)
(* except for those by which there is no payload (StaleDescriptors).       *)
(***************************************************************************)
THEOREM PayloadFitsHolds == TransfersSpec => []PayloadFits
  <1>1. TransferInv => PayloadFits
    <2> DEFINE p == prepare_wsk_mdl(urb, Answer, rx[1], DirIn)
               size == get_payload_size(~DirIn, Answer)
    <2>4. TransferInv /\ stage = "undefined" => Answer.actual_length < 0
      BY DEF TransferInv, Answer
    <2> SUFFICES ASSUME TransferInv, stage = "header", Found, size > 0, ~Error(p.chain)
                 PROVE  /\ verify(size, p.chain, p.ctx.is_isoc)
                        /\ urb.function = "isoch" /\ SamePackets(urb, Answer) /\ urb.offsets # <<>> =>
                              number_of_packets(p.ctx) = Len(urb.offsets)
      BY <2>4 DEF PayloadFits
    <2>1. /\ urb \in Urbs /\ Answer \in Answers
          /\ Answer.command = "RET_SUBMIT" /\ DirIn \in BOOLEAN /\ rx[1] \in Context
      BY OneContext DEF TransferInv, TransferTypes, MessageFits, Answer, Found, DirIn, extract_dir_in
    <2>2. /\ p.chain = size
          /\ Packets(Answer.number_of_packets) > 0 => number_of_packets(p.ctx) = Packets(Answer.number_of_packets)
      BY <2>1, PayloadChain
    <2>3. size \in Nat
      BY <2>1, AnswerNumbers
    <2> HIDE DEF p, size
    <2>5. urb.offsets # <<>> => Len(urb.offsets) > 0
      BY <2>1, UrbsAssumption
    <2>6. verify(size, p.chain, p.ctx.is_isoc)
      BY <2>2, <2>3 DEF verify
    <2> QED BY <2>2, <2>5, <2>6 DEF SamePackets
  <1> QED BY <1>1, TransfersInvariance, PTL

(***************************************************************************)
(* The sequence number that goes out is valid and has the direction of the *)
(* URB, for every value of the counter that wraps around.                  *)
(***************************************************************************)
THEOREM DirectionSurvivesHolds == TransfersSpec => []DirectionSurvives
  <1>1. TransferInv => DirectionSurvives
    <2> SUFFICES ASSUME TransferInv, stage = "sent" PROVE DirectionSurvives
      BY DEF DirectionSurvives
    <2>1. MessageFits(urb, cmd)
      BY DEF TransferInv
    <2>2. urb.out \in BOOLEAN
      BY <2>1, UrbsAssumption DEF MessageFits
    <2>3. extract_dir_in(cmd.header.seqnum) = ~urb.out
      BY <2>1, <2>2, Zenon DEF MessageFits, extract_dir_in
    <2> QED BY <2>1, <2>3 DEF MessageFits, DirectionSurvives
  <1> QED BY <1>1, TransfersInvariance, PTL

(***************************************************************************)
(* fill_isoc_data never writes past the buffer of the URB, and moves every *)
(* packet to its own offset in the buffer that holds all of them, for any  *)
(* number of packets of any lengths.                                       *)
(***************************************************************************)
THEOREM DataInPlaceHolds == TransfersSpec => []DataInPlace
  <1>1. TransferInv => DataInPlace
    BY DEF TransferInv
  <1> QED BY <1>1, TransfersInvariance, PTL
=============================================================================
