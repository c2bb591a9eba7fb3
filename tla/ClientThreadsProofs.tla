------------------------- MODULE ClientThreadsProofs -------------------------
(***************************************************************************)
(* Proofs about the device list that the GUI thread receives, for replies  *)
(* of any length, about the persistent devices that it stores and reads,   *)
(* for lists of any length, among all the threads of ClientThreads, and    *)
(* about what the GUI thread waits for.                                    *)
(***************************************************************************)
EXTENDS ClientThreads, SequenceTheorems, TLAPS

-----------------------------------------------------------------------------
(* The inductive invariant.                                                 *)

ShownDevices == [got : {"all", "part"}, left : Nat]

\* The list is well typed.
ListTypes == ndev \in Nat /\ shown \in Seq(ShownDevices)

\* Only what was received to the last byte is shown, and a device is announced only
\* when the interfaces of the one before it are all there.
ShownSoFar ==
  /\ \A i \in 1..Len(shown) : shown[i].got = "all"
  /\ \A i \in 1..Len(shown) : i < Len(shown) => shown[i].left = 0

\* What comes next agrees with what is shown.
NextFits ==
  /\ enum \in {"idle", "send", "header", "count"} => shown = <<>>
  /\ enum \in {"device", "interface", "done"} =>
       Len(shown) <= ndev /\ enum = After(ndev, shown)

ListInv == ListTypes /\ ShownSoFar /\ NextFits

\* A list is received only while the GUI thread is in add_exported_devices.
NoOtherList == gui # "list" => enum = "idle"

IInv == ListInv /\ NoOtherList

-----------------------------------------------------------------------------
\* Nothing is shown at first, or any more.
LEMMA EmptyList ==
  ASSUME ndev \in Nat, shown = <<>>, enum \in {"idle", "send", "header", "count"}
  PROVE  ListInv
  <1>1. <<>> \in Seq(ShownDevices) /\ Len(<<>>) = 0 /\ 1..0 = {}
    OBVIOUS
  <1> QED BY <1>1 DEF ListInv, ListTypes, ShownSoFar, NextFits

\* The same of the next state.
LEMMA EmptyListNext ==
  ASSUME ndev' \in Nat, shown' = <<>>, enum' \in {"idle", "send", "header", "count"}
  PROVE  ListInv'
  <1>1. <<>> \in Seq(ShownDevices) /\ Len(<<>>) = 0 /\ 1..0 = {}
    OBVIOUS
  <1> QED BY <1>1 DEF ListInv, ListTypes, ShownSoFar, NextFits

\* The list does not change, and what comes next is an error or waits for a reply.
LEMMA ListFrame ==
  ASSUME ListInv, UNCHANGED <<ndev, shown>>, enum' \in {enum, "failed"}
  PROVE  ListInv'
  BY DEF ListInv, ListTypes, ShownSoFar, NextFits

\* The number of devices arrives.
LEMMA CountNext == ListInv /\ recv_count => ListInv'
  <1> SUFFICES ASSUME ListInv, recv_count PROVE ListInv'
    OBVIOUS
  <1>1. CASE EnumFailed
    BY <1>1, ListFrame DEF EnumFailed
  <1>2. CASE ndev' \in 0..MaxDevices /\ enum' = After(ndev', <<>>) /\ UNCHANGED shown
    <2>1. shown = <<>> /\ Len(<<>>) = 0 /\ 1..0 = {}
      BY DEF recv_count, ListInv, NextFits
    <2>2. ndev' \in Nat /\ Len(<<>>) <= ndev'
      BY <1>2, <2>1, DeviceListAssumption
    <2>3. enum' \in {"device", "done"}
      BY <1>2, <2>1 DEF After
    <2> QED BY <1>2, <2>1, <2>2, <2>3 DEF ListInv, ListTypes, ShownSoFar, NextFits
  <1> QED BY <1>1, <1>2 DEF recv_count

\* A device arrives.
LEMMA DeviceNext == ListInv /\ recv_device => ListInv'
  <1> SUFFICES ASSUME ListInv, recv_device PROVE ListInv'
    OBVIOUS
  <1>1. CASE EnumFailed
    BY <1>1, ListFrame DEF EnumFailed
  <1>2. ASSUME NEW n \in 0..MaxInterfaces,
               shown' = Append(shown, [got |-> "all", left |-> n]),
               enum' = After(ndev, shown'), UNCHANGED ndev
        PROVE  ListInv'
    <2> DEFINE d == [got |-> "all", left |-> n]
    <2>1. d \in ShownDevices /\ d.got = "all" /\ shown \in Seq(ShownDevices) /\ ndev \in Nat
      BY DeviceListAssumption DEF ShownDevices, ListInv, ListTypes
    <2>2. d.got = "all"
      OBVIOUS
    <2> HIDE DEF d
    <2>3. shown' = Append(shown, d)
      BY <1>2 DEF d
    <2>4. /\ shown' \in Seq(ShownDevices) /\ Len(shown) \in Nat
          /\ Len(shown') = Len(shown) + 1 /\ shown'[Len(shown) + 1] = d
          /\ \A i \in 1..Len(shown) : shown'[i] = shown[i]
      BY <2>1, <2>3
    <2>5. Len(shown) < ndev /\ (Len(shown) > 0 => ~(shown[Len(shown)].left > 0))
      <3>1. After(ndev, shown) = "device"
        BY DEF recv_device, ListInv, NextFits
      <3> QED BY <3>1 DEF After
    <2>6. \A i \in 1..Len(shown) : shown[i].left \in Nat
      <3>1. \A i \in 1..Len(shown) : shown[i] \in ShownDevices
        BY <2>1
      <3> QED BY <3>1 DEF ShownDevices
    <2>7. \A i \in 1..Len(shown) : shown[i].left = 0 /\ shown[i].got = "all"
      <3> SUFFICES ASSUME NEW i \in 1..Len(shown) PROVE shown[i].left = 0 /\ shown[i].got = "all"
        OBVIOUS
      <3>1. shown[i].got = "all" /\ (i < Len(shown) => shown[i].left = 0)
        BY DEF ListInv, ShownSoFar
      <3>2. CASE i < Len(shown)
        BY <3>1, <3>2
      <3>3. CASE i = Len(shown)
        <4>1. Len(shown) > 0 /\ shown[i].left \in Nat
          BY <3>3, <2>4, <2>6
        <4> QED BY <4>1, <3>1, <3>3, <2>5
      <3> QED BY <3>2, <3>3, <2>4
    <2>8. \A i \in 1..Len(shown') : i \in 1..Len(shown) \/ i = Len(shown) + 1
      BY <2>4
    <2>9. ShownSoFar'
      <3>1. ASSUME NEW i \in 1..Len(shown') PROVE shown'[i].got = "all"
        BY <2>2, <2>4, <2>7, <2>8
      <3>2. ASSUME NEW i \in 1..Len(shown'), i < Len(shown') PROVE shown'[i].left = 0
        <4>1. i \in 1..Len(shown)
          BY <3>2, <2>4
        <4> QED BY <4>1, <2>4, <2>7
      <3> QED BY <3>1, <3>2 DEF ShownSoFar
    <2>10. Len(shown') <= ndev
      BY <2>1, <2>4, <2>5
    <2>11. enum' \in {"device", "interface", "done"}
      BY <1>2 DEF After
    <2> QED BY <1>2, <2>1, <2>4, <2>9, <2>10, <2>11 DEF ListInv, ListTypes, NextFits
  <1> QED BY <1>1, <1>2 DEF recv_device, recv

\* An interface of the last device arrives.
LEMMA InterfaceNext == ListInv /\ recv_interface => ListInv'
  <1> SUFFICES ASSUME ListInv, recv_interface PROVE ListInv'
    OBVIOUS
  <1>1. CASE EnumFailed
    BY <1>1, ListFrame DEF EnumFailed
  <1>2. ASSUME shown' = [shown EXCEPT ![Len(shown)].left = @ - 1,
                                      ![Len(shown)].got = IF @ = "all" THEN "all" ELSE @],
               enum' = After(ndev, shown'), UNCHANGED ndev
        PROVE  ListInv'
    <2> DEFINE n == Len(shown)
               d == [shown[n] EXCEPT !.left = @ - 1, !.got = IF @ = "all" THEN "all" ELSE @]
    <2>1. shown \in Seq(ShownDevices) /\ ndev \in Nat /\ n \in Nat /\ n <= ndev
      BY DEF ListInv, ListTypes, NextFits, recv_interface
    <2>2. n > 0 /\ shown[n].left > 0
      <3>1. After(ndev, shown) = "interface"
        BY DEF recv_interface, ListInv, NextFits
      <3> QED BY <3>1 DEF After
    <2>3. n \in 1..n /\ shown[n] \in ShownDevices /\ shown[n].got = "all"
      <3>1. n \in 1..Len(shown)
        BY <2>1, <2>2
      <3>2. shown[n] \in ShownDevices
        BY <3>1, <2>1
      <3>3. shown[n].got = "all"
        BY <3>1 DEF ListInv, ShownSoFar
      <3> QED BY <3>1, <3>2, <3>3
    <2>4. d \in ShownDevices /\ d.got = "all"
      <3>1. shown[n].left \in Nat /\ shown[n].left - 1 \in Nat
        BY <2>2, <2>3 DEF ShownDevices
      <3>2. /\ d = [c \in DOMAIN d |-> d[c]] /\ DOMAIN d = DOMAIN shown[n]
            /\ DOMAIN shown[n] = {"got", "left"}
        BY <2>3 DEF ShownDevices
      <3>3. d.got = "all" /\ d.left = shown[n].left - 1
        BY <2>3 DEF ShownDevices
      <3> QED BY <3>1, <3>2, <3>3 DEF ShownDevices
    <2>5. shown' = [shown EXCEPT ![n] = d]
      BY <1>2
    <2> HIDE DEF d
    <2>6. /\ shown' \in Seq(ShownDevices) /\ Len(shown') = n
          /\ \A i \in 1..n : shown'[i] = IF i = n THEN d ELSE shown[i]
      BY <2>1, <2>3, <2>4, <2>5
    <2>7. \A i \in 1..n : shown[i].got = "all" /\ (i < n => shown[i].left = 0)
      BY DEF ListInv, ShownSoFar
    <2>8. ShownSoFar'
      BY <2>1, <2>4, <2>6, <2>7 DEF ShownSoFar
    <2>9. enum' \in {"device", "interface", "done"}
      BY <1>2 DEF After
    <2> QED BY <1>2, <2>1, <2>6, <2>8, <2>9 DEF ListInv, ListTypes, NextFits
  <1> QED BY <1>1, <1>2 DEF recv_interface, recv

\* Every step of every thread.
LEMMA InvariantNext == IInv /\ [Next]_vars => IInv'
  <1> SUFFICES ASSUME IInv, [Next]_vars PROVE IInv'
    OBVIOUS
  <1>1. ASSUME UNCHANGED listVars, gui = "list" => gui' = "list" PROVE IInv'
    BY <1>1, ListFrame DEF listVars, IInv, NoOtherList
  <1>2. CASE ReaderStep \/ ReadDone \/ on_device_state
    BY <1>1, <1>2 DEF ReaderStep, ReadFile, QueueEvent, read_loop_exit, ReadDone,
                      on_device_state, readerFrame, ownVars
  <1>3. CASE \/ WaitDone \/ WaitTimeout \/ EndModal \/ cancel \/ join \/ break_read_loop
             \/ read_thread_join \/ GetPersistent
    BY <1>1, <1>3 DEF WaitDone, WaitTimeout, EndModal, cancel, join, break_read_loop,
                      read_thread_join, GetPersistent, guiFrame, closeFrame, ownVars
  <1>4. CASE WorkerStep \/ Ioctl
    BY <1>1, <1>4 DEF WorkerStep, DeviceIoControl, FunctionReturns, SetEvent, CallAfter, Ioctl,
                      workerFrame, ownVars
  <1>5. CASE User \/ OtherClient
    BY <1>1, <1>5 DEF User, call_driver, connect, run_cancellable, CancelPressed,
                      iconize_to_tray, Restore, on_close_to_tray, on_close, on_save, on_load,
                      OtherClient, guiFrame, closeFrame, ownVars
  <1>6. CASE (Network \/ ResolverStops) /\ UNCHANGED remoteFrame
    BY <1>1, <1>6 DEF remoteFrame, workerFrame, ownVars
  <1>7. CASE UNCHANGED vars
    BY <1>1, <1>7 DEF vars, ownVars
  <1>8. CASE update_from_saved
    <2>1. CASE gui = "load" /\ UNCHANGED listVars
      BY <2>1, <1>1
    <2>2. CASE gui = "marks" /\ gui' = "list" /\ enum' = "send" /\ UNCHANGED <<peer, ndev, shown>>
      <3>1. enum = "idle" /\ ndev' \in Nat /\ shown' = <<>>
        BY <2>2 DEF IInv, NoOtherList, ListInv, ListTypes, NextFits
      <3>2. ListInv'
        BY <3>1, <2>2, EmptyListNext
      <3> QED BY <3>2, <2>2 DEF IInv, NoOtherList
    <2> QED BY <1>8, <2>1, <2>2 DEF update_from_saved
  <1>9. CASE add_exported_devices
    <2>1. ListInv'
      BY <1>9, EmptyListNext DEF add_exported_devices
    <2> QED BY <1>9, <2>1 DEF add_exported_devices, IInv, NoOtherList
  <1>10. ASSUME gui = "list", UNCHANGED gui, ListInv' PROVE IInv'
    BY <1>10 DEF IInv, NoOtherList
  <1>11. CASE SendListRequest
    <2>1. CASE EnumFailed
      BY <2>1, <1>10, <1>11, ListFrame DEF EnumFailed, SendListRequest, IInv
    <2>2. CASE enum' = "header" /\ UNCHANGED <<ndev, shown>> /\ enum = "send"
      <3>1. ndev' \in Nat /\ shown' = <<>>
        BY <2>2 DEF IInv, ListInv, ListTypes, NextFits
      <3> QED BY <3>1, <2>2, <1>10, <1>11, EmptyListNext DEF SendListRequest
    <2> QED BY <1>11, <2>1, <2>2 DEF SendListRequest, send_op_common
  <1>12. CASE ServerAnswers
    <2>1. ASSUME recv_header PROVE ListInv'
      <3>1. CASE EnumFailed
        BY <3>1, ListFrame DEF EnumFailed, IInv
      <3>2. CASE enum' = "count" /\ UNCHANGED <<ndev, shown>> /\ enum = "header"
        <4>1. ndev' \in Nat /\ shown' = <<>>
          BY <3>2 DEF IInv, ListInv, ListTypes, NextFits
        <4> QED BY <4>1, <3>2, EmptyListNext
      <3> QED BY <2>1, <3>1, <3>2 DEF recv_header
    <2>2. ListInv'
      BY <1>12, <2>1, CountNext, DeviceNext, InterfaceNext DEF ServerAnswers, Receive, IInv
    <2> QED BY <1>10, <1>12, <2>2 DEF ServerAnswers
  <1> QED BY <1>2, <1>3, <1>4, <1>5, <1>6, <1>7, <1>8, <1>9, <1>11, <1>12 DEF Next, GuiStep

-----------------------------------------------------------------------------
\* The list that is being received has no gap, in every behaviour of the threads.
THEOREM Invariance == Spec => []IInv
  <1>1. Init => IInv
    BY EmptyList DEF Init, ListInit, IInv, NoOtherList
  <1> QED BY <1>1, InvariantNext, PTL DEF Spec

\* enum_exportable_devices succeeds only with every device and interface that the server
\* announced, however many there are and wherever the connection breaks.
THEOREM ListIsWholeHolds == Spec => []ListIsWhole
  <1>1. IInv => ListIsWhole
    <2> SUFFICES ASSUME IInv, enum = "done"
                 PROVE  Len(shown) = ndev
                        /\ \A i \in DOMAIN shown : shown[i].got = "all" /\ shown[i].left = 0
      BY DEF ListIsWhole
    <2>1. /\ ndev \in Nat /\ shown \in Seq(ShownDevices) /\ Len(shown) \in Nat
          /\ DOMAIN shown = 1..Len(shown) /\ Len(shown) <= ndev
      BY DEF IInv, ListInv, ListTypes, NextFits
    <2>2. "done" = After(ndev, shown)
      BY DEF IInv, ListInv, NextFits
    <2>3. ~(Len(shown) < ndev) /\ ~(Len(shown) > 0 /\ shown[Len(shown)].left > 0)
      BY <2>2 DEF After
    <2>4. ASSUME NEW i \in 1..Len(shown) PROVE shown[i].got = "all" /\ shown[i].left = 0
      <3>1. shown[i].got = "all" /\ (i < Len(shown) => shown[i].left = 0)
        BY DEF IInv, ListInv, ShownSoFar
      <3>2. shown[i] \in ShownDevices
        BY <2>1
      <3>3. shown[i].left \in Nat
        BY <3>2 DEF ShownDevices
      <3>4. i = Len(shown) => shown[i].left = 0
        BY <3>3, <2>1, <2>3
      <3>5. Len(shown) \in Nat
        BY <2>1
      <3>6. i < Len(shown) \/ i = Len(shown)
        BY <3>5
      <3> QED BY <3>1, <3>4, <3>6
    <2>5. Len(shown) \in Nat /\ ndev \in Nat /\ Len(shown) <= ndev
      BY <2>1
    <2>6. Len(shown) = ndev
      BY <2>3, <2>5
    <2>7. DOMAIN shown = 1..Len(shown)
      BY <2>1
    <2> QED BY <2>4, <2>6, <2>7
  <1> QED BY <1>1, Invariance, PTL

---------------------------------------------------------------
(* What is written and read again.                                          *)

\* The body of the recursive function of Selected.
SelectStep(s, T, f) ==
  [n \in 0..Len(s) |->
     IF n = 0 THEN <<>>
     ELSE IF n \in T THEN Append(f[n - 1], s[n]) ELSE f[n - 1]]

\* Only the elements at the positions that are selected matter.
LEMMA SelectedSame ==
  ASSUME NEW s, NEW t, NEW T, Len(s) = Len(t), Len(s) \in Nat,
         \A i \in 1..Len(s) : i \in T => s[i] = t[i]
  PROVE  Selected(s, T) = Selected(t, T)
  <1>1. ASSUME NEW f
        PROVE  SelectStep(s, T, f) = SelectStep(t, T, f)
    <2>1. \A n \in 0..Len(s) : n # 0 /\ n \in T => s[n] = t[n]
      OBVIOUS
    <2> QED BY <2>1 DEF SelectStep
  <1>2. (CHOOSE f : f = SelectStep(s, T, f)) = (CHOOSE f : f = SelectStep(t, T, f))
    BY <1>1, Zenon
  <1>3. Selected(s, T) = (CHOOSE f : f = SelectStep(s, T, f))[Len(s)]
    BY DEF Selected, SelectStep
  <1>4. Selected(t, T) = (CHOOSE f : f = SelectStep(t, T, f))[Len(s)]
    BY DEF Selected, SelectStep
  <1> QED BY <1>2, <1>3, <1>4

\* A text of one field after the others.
LEMMA OneMore ==
  ASSUME NEW U, NEW q \in Seq(U), NEW b \in Seq(U), Len(b) = 1
  PROVE  /\ q \o b \in Seq(U) /\ Len(q \o b) = Len(q) + 1
         /\ \A i \in 1..Len(q) : (q \o b)[i] = q[i]
         /\ (q \o b)[Len(q) + 1] = b[1]
  <1> DEFINE n == Len(q)
             c == q \o b
  <1>1. n \in Nat
    BY LenProperties
  <1>2. c \in Seq(U) /\ Len(c) = n + Len(b)
        /\ \A i \in 1..n + Len(b) : c[i] = IF i <= n THEN q[i] ELSE b[i - n]
    BY ConcatProperties
  <1> HIDE DEF n, c
  <1>3. Len(c) = n + 1 /\ (\A i \in 1..n : c[i] = q[i]) /\ c[n + 1] = b[(n + 1) - n] /\ (n + 1) - n = 1
    BY <1>1, <1>2
  <1> QED BY <1>2, <1>3 DEF n, c

\* split takes the first field off.
LEMMA SplitOne ==
  ASSUME NEW U, NEW s \in Seq(U), Len(s) > 1
  PROVE  /\ split(s).head = <<s[1]>> /\ split(s).tail \in Seq(U)
         /\ Len(split(s).tail) = Len(s) - 1
         /\ \A i \in 1..Len(s) - 1 : split(s).tail[i] = s[i + 1]
  <1>1. split(s).head = <<s[1]>> /\ split(s).tail = Tail(s)
    BY DEF split
  <1>2. s # <<>>
    OBVIOUS
  <1>3. /\ Tail(s) \in Seq(U) /\ Len(Tail(s)) = Len(s) - 1
        /\ \A i \in 1..Len(Tail(s)) : Tail(s)[i] = s[i + 1]
    BY <1>2, HeadTailProperties
  <1> QED BY <1>1, <1>3, Zenon

\* The fields of a device in a row.
LEMMA FormattedFields ==
  ASSUME NEW d, IsDevice(d)
  PROVE  /\ \E U : Formatted(d) \in Seq(U)
         /\ Len(Formatted(d)) \in Nat
         /\ HasNoComma(d) => /\ Len(Formatted(d)) = 4
                             /\ Formatted(d)[1] = d.host[1] /\ Formatted(d)[2] = d.service[1]
                             /\ Formatted(d)[3] = d.busid[1] /\ Formatted(d)[4] = d.serial[1]
                             /\ d.host = <<d.host[1]>> /\ d.service = <<d.service[1]>>
                             /\ d.busid = <<d.busid[1]>> /\ d.serial = <<d.serial[1]>>
         /\ ~HasNoComma(d) => Len(Formatted(d)) > 4
  <1> DEFINE h == d.host
             s == d.service
             b == d.busid
             r == d.serial
             U == Range(h) \cup Range(s) \cup Range(b) \cup Range(r)
  <1>1. h \in Seq(Range(h)) /\ s \in Seq(Range(s)) /\ b \in Seq(Range(b)) /\ r \in Seq(Range(r))
        /\ h # <<>> /\ s # <<>> /\ b # <<>> /\ r # <<>>
    BY DEF IsDevice
  <1>2. \A f, R, S : f \in Seq(R) /\ R \subseteq S => f \in Seq(S)
    <2> SUFFICES ASSUME NEW f, NEW R, NEW S, f \in Seq(R), R \subseteq S
                 PROVE  f \in Seq(S)
      OBVIOUS
    <2>1. Len(f) \in Nat /\ f \in [1..Len(f) -> R]
      BY LenProperties, ElementOfSeq
    <2>2. f \in [1..Len(f) -> S]
      BY <2>1
    <2> QED BY <2>1, <2>2, SeqDef
  <1> HIDE DEF h, s, b, r
  <1>3. h \in Seq(U) /\ s \in Seq(U) /\ b \in Seq(U) /\ r \in Seq(U)
    BY <1>1, <1>2
  <1> HIDE DEF U
  <1>4. /\ Len(h) \in Nat /\ Len(s) \in Nat /\ Len(b) \in Nat /\ Len(r) \in Nat
        /\ Len(h) >= 1 /\ Len(s) >= 1 /\ Len(b) >= 1 /\ Len(r) >= 1
    BY <1>1, <1>3, LenProperties, EmptySeq
  <1>5. h \o s \in Seq(U) /\ Len(h \o s) = Len(h) + Len(s)
    BY <1>3, ConcatProperties
  <1>6. h \o s \o b \in Seq(U) /\ Len(h \o s \o b) = Len(h) + Len(s) + Len(b)
    BY <1>3, <1>5, ConcatProperties
  <1>7. h \o s \o b \o r \in Seq(U) /\ Len(h \o s \o b \o r) = Len(h) + Len(s) + Len(b) + Len(r)
    BY <1>3, <1>6, ConcatProperties
  <1>8. Formatted(d) = h \o s \o b \o r
    BY DEF Formatted, h, s, b, r
  <1>9. HasNoComma(d) <=> Len(h) = 1 /\ Len(s) = 1 /\ Len(b) = 1 /\ Len(r) = 1
    BY DEF HasNoComma, h, s, b, r
  <1>10. CASE HasNoComma(d)
    <2>1. Len(h) = 1 /\ Len(s) = 1 /\ Len(b) = 1 /\ Len(r) = 1
      BY <1>9, <1>10
    <2>2. h = <<h[1]>> /\ s = <<s[1]>> /\ b = <<b[1]>> /\ r = <<r[1]>>
      BY <1>3, <2>1
    <2>3. Len(h \o s) = 2 /\ (h \o s)[1] = h[1] /\ (h \o s)[2] = s[1]
      BY <1>3, <1>5, <2>1, OneMore
    <2>4. /\ Len(h \o s \o b) = 3 /\ (h \o s \o b)[1] = h[1]
          /\ (h \o s \o b)[2] = s[1] /\ (h \o s \o b)[3] = b[1]
      <3> DEFINE q == h \o s
      <3>1. q \in Seq(U) /\ Len(q) = 2 /\ q[1] = h[1] /\ q[2] = s[1]
        BY <1>5, <2>3
      <3> HIDE DEF q
      <3>2. Len(q \o b) = 3 /\ (q \o b)[1] = q[1] /\ (q \o b)[2] = q[2] /\ (q \o b)[3] = b[1]
        <4>1. /\ Len(q \o b) = Len(q) + 1 /\ (\A i \in 1..Len(q) : (q \o b)[i] = q[i])
              /\ (q \o b)[Len(q) + 1] = b[1]
          <5>1. q \in Seq(U) /\ b \in Seq(U) /\ Len(b) = 1
            BY <3>1, <2>1, <1>3
          <5> QED BY <5>1, OneMore, Zenon
        <4>2. Len(q) = 2
          BY <3>1
        <4> HIDE DEF q
        <4> QED BY <4>1, <4>2
      <3> QED BY <3>1, <3>2 DEF q
    <2>5. /\ Len(h \o s \o b \o r) = 4 /\ (h \o s \o b \o r)[1] = h[1]
          /\ (h \o s \o b \o r)[2] = s[1] /\ (h \o s \o b \o r)[3] = b[1]
          /\ (h \o s \o b \o r)[4] = r[1]
      <3> DEFINE q == h \o s \o b
      <3>1. q \in Seq(U) /\ Len(q) = 3 /\ q[1] = h[1] /\ q[2] = s[1] /\ q[3] = b[1]
        BY <1>6, <2>4
      <3> HIDE DEF q
      <3>2. /\ Len(q \o r) = 4 /\ (q \o r)[1] = q[1] /\ (q \o r)[2] = q[2]
            /\ (q \o r)[3] = q[3] /\ (q \o r)[4] = r[1]
        <4>1. /\ Len(q \o r) = Len(q) + 1 /\ (\A i \in 1..Len(q) : (q \o r)[i] = q[i])
              /\ (q \o r)[Len(q) + 1] = r[1]
          <5>1. q \in Seq(U) /\ r \in Seq(U) /\ Len(r) = 1
            BY <3>1, <2>1, <1>3
          <5> QED BY <5>1, OneMore, Zenon
        <4>2. Len(q) = 3
          BY <3>1
        <4> HIDE DEF q
        <4> QED BY <4>1, <4>2
      <3> QED BY <3>1, <3>2 DEF q
    <2> QED BY <1>7, <1>8, <1>10, <2>2, <2>5, LenProperties DEF h, s, b, r
  <1>11. CASE ~HasNoComma(d)
    <2>1. ~(Len(h) = 1 /\ Len(s) = 1 /\ Len(b) = 1 /\ Len(r) = 1)
      BY <1>9, <1>11
    <2>2. Len(h) + Len(s) + Len(b) + Len(r) > 4
      <3> DEFINE lh == Len(h)
                 ls == Len(s)
                 lb == Len(b)
                 lr == Len(r)
      <3>1. /\ lh \in Nat /\ ls \in Nat /\ lb \in Nat /\ lr \in Nat
            /\ lh >= 1 /\ ls >= 1 /\ lb >= 1 /\ lr >= 1
            /\ ~(lh = 1 /\ ls = 1 /\ lb = 1 /\ lr = 1)
        BY <1>4, <2>1
      <3> HIDE DEF lh, ls, lb, lr
      <3>2. lh + ls + lb + lr > 4
        BY <3>1
      <3> QED BY <3>2 DEF lh, ls, lb, lr
    <2> QED BY <1>7, <1>8, <1>11, <2>2, LenProperties
  <1> QED BY <1>10, <1>11

\* The library's parser gives back what was written, or refuses it.
LEMMA ClientParses ==
  ASSUME NEW d, IsDevice(d), ~is_malformed(d)
  PROVE  /\ ~is_malformed(parse_persistent_device(Formatted(d))) <=> HasNoComma(d)
         /\ HasNoComma(d) => parse_persistent_device(Formatted(d)) = d
  <1> DEFINE F == Formatted(d)
             p == parse_persistent_device(F)
  <1>1. CASE HasNoComma(d)
    <2>1. /\ Len(F) = 4 /\ F[1] = d.host[1] /\ F[2] = d.service[1]
          /\ F[3] = d.busid[1] /\ F[4] = d.serial[1]
          /\ d.host = <<d.host[1]>> /\ d.service = <<d.service[1]>>
          /\ d.busid = <<d.busid[1]>> /\ d.serial = <<d.serial[1]>>
          /\ \E U : F \in Seq(U)
      BY <1>1, FormattedFields
    <2> HIDE DEF F
    <2>3. SubSeq(F, 4, Len(F)) = <<F[4]>>
      <3> DEFINE r == SubSeq(F, 4, 4)
      <3>1. PICK U : F \in Seq(U)
        BY <2>1
      <3>2. \A i \in 4..4 : F[i] \in U
        <4>1. \A i \in 1..Len(F) : F[i] \in U
          BY <3>1, ElementOfSeq, Zenon
        <4>2. \A i \in 4..4 : i \in 1..4
          OBVIOUS
        <4> QED BY <4>1, <4>2, <2>1, Zenon
      <3>3. r \in Seq(U) /\ Len(r) = 1 /\ r[1] = F[4]
        BY <3>2, SubSeqProperties
      <3> HIDE DEF r
      <3>4. r = <<r[1]>>
        BY <3>3
      <3> QED BY <2>1, <3>3, <3>4 DEF r
    <2>4. p = [host |-> <<F[1]>>, service |-> <<F[2]>>, busid |-> <<F[3]>>, serial |-> <<F[4]>>]
      BY <2>1, <2>3 DEF parse_persistent_device, Field
    <2>5. p = d
      BY <2>1, <2>4 DEF IsDevice
    <2> QED BY <1>1, <2>5 DEF F
  <1>2. CASE ~HasNoComma(d)
    <2>1. Len(F) \in Nat /\ Len(F) > 4 /\ \E U : F \in Seq(U)
      BY <1>2, FormattedFields
    <2>2. PICK U : F \in Seq(U)
      BY <2>1
    <2> HIDE DEF F
    <2> DEFINE r == SubSeq(F, 4, Len(F))
    <2>3. Len(r) = Len(F) - 3
      <3>1. \A i \in 4..Len(F) : F[i] \in U
        <4>1. \A i \in 1..Len(F) : F[i] \in U
          BY <2>2, ElementOfSeq, Zenon
        <4> DEFINE n == Len(F)
        <4>2. n \in Nat => \A i \in 4..n : i \in 1..n
          OBVIOUS
        <4> QED BY <4>1, <4>2, <2>1, Zenon
      <3> QED BY <2>1, <3>1, SubSeqProperties
    <2>4. p.serial = r
      BY <2>1 DEF parse_persistent_device
    <2> HIDE DEF r
    <2>5. Len(r) # 1 /\ r # Empty
      <3>1. Len(Empty) = 1
        BY DEF Empty
      <3>2. Len(r) # 1
        <4> DEFINE m == Len(F)
                   k == Len(r)
        <4>1. m \in Nat /\ m > 4 /\ k = m - 3
          BY <2>1, <2>3
        <4> HIDE DEF m, k
        <4>2. k # 1
          BY <4>1
        <4> QED BY <4>2 DEF k
      <3> QED BY <3>1, <3>2
    <2>6. is_malformed(p)
      BY <2>4, <2>5 DEF is_malformed, validate_device_serial
    <2> QED BY <1>2, <2>6 DEF F
  <1> QED BY <1>1, <1>2

\* The driver's parser does the same.
LEMMA DriverParses ==
  ASSUME NEW d, IsDevice(d), ~is_malformed(d), NEW hashed \in BOOLEAN
  PROVE  /\ parse_device_str(Formatted(d), hashed).ok <=> HasNoComma(d) /\ hashed
         /\ HasNoComma(d) => parse_device_str(Formatted(d), hashed).dev = d
  <1> DEFINE F == Formatted(d)
             p == parse_device_str(F, hashed)
             D == [host |-> split(F).head, service |-> split(split(F).tail).head,
                   busid |-> split(split(split(F).tail).tail).head,
                   serial |-> split(split(split(F).tail).tail).tail]
  <1>0. /\ p.dev = D
        /\ p.ok <=> validate_serial_number(D.serial) /\ Empty \notin {D.host, D.service, D.busid} /\ hashed
    BY DEF parse_device_str
  <1>1. CASE HasNoComma(d)
    <2>1. /\ Len(F) = 4 /\ F[1] = d.host[1] /\ F[2] = d.service[1]
          /\ F[3] = d.busid[1] /\ F[4] = d.serial[1]
          /\ d.host = <<d.host[1]>> /\ d.service = <<d.service[1]>>
          /\ d.busid = <<d.busid[1]>> /\ d.serial = <<d.serial[1]>>
          /\ \E U : F \in Seq(U)
      BY <1>1, FormattedFields
    <2>0. PICK U : F \in Seq(U)
      BY <2>1
    <2> HIDE DEF F
    <2> DEFINE x == split(F).tail
               y == split(x).tail
               z == split(y).tail
    <2>2. /\ split(F).head = <<F[1]>> /\ x \in Seq(U) /\ Len(x) = 3
          /\ x[1] = F[2] /\ x[2] = F[3] /\ x[3] = F[4]
      <3>1. /\ split(F).head = <<F[1]>> /\ split(F).tail \in Seq(U)
            /\ Len(split(F).tail) = Len(F) - 1
            /\ \A i \in 1..Len(F) - 1 : split(F).tail[i] = F[i + 1]
        <4>1. F \in Seq(U) /\ Len(F) > 1
          BY <2>0, <2>1
        <4> QED BY <4>1, SplitOne, Zenon
      <3> QED BY <3>1, <2>0, <2>1
    <2> HIDE DEF x
    <2>3. /\ split(x).head = <<x[1]>> /\ y \in Seq(U) /\ Len(y) = 2
          /\ y[1] = x[2] /\ y[2] = x[3]
      <3>1. /\ split(x).head = <<x[1]>> /\ split(x).tail \in Seq(U)
            /\ Len(split(x).tail) = Len(x) - 1
            /\ \A i \in 1..Len(x) - 1 : split(x).tail[i] = x[i + 1]
        <4>1. x \in Seq(U) /\ Len(x) > 1
          BY <2>2
        <4> QED BY <4>1, SplitOne, Zenon
      <3> QED BY <3>1, <2>2
    <2> HIDE DEF y
    <2>4. /\ split(y).head = <<y[1]>> /\ z \in Seq(U) /\ Len(z) = 1 /\ z[1] = y[2]
      <3>1. /\ split(y).head = <<y[1]>> /\ split(y).tail \in Seq(U)
            /\ Len(split(y).tail) = Len(y) - 1
            /\ \A i \in 1..Len(y) - 1 : split(y).tail[i] = y[i + 1]
        <4>1. y \in Seq(U) /\ Len(y) > 1
          BY <2>3
        <4> QED BY <4>1, SplitOne, Zenon
      <3> QED BY <3>1, <2>3
    <2> HIDE DEF z
    <2>4a. z = <<z[1]>>
      BY <2>4
    <2>5. D = [host |-> d.host, service |-> d.service, busid |-> d.busid, serial |-> d.serial]
      <3>1. D = [host |-> split(F).head, service |-> split(x).head, busid |-> split(y).head, serial |-> z]
        BY DEF x, y, z
      <3> QED BY <2>1, <2>2, <2>3, <2>4, <2>4a, <3>1
    <2>6. D = d
      BY <2>5 DEF IsDevice
    <2> HIDE DEF D
    <2>7. Empty \notin {d.host, d.service, d.busid}
      BY DEF is_malformed
    <2>8. validate_serial_number(d.serial)
      <3>1. d.serial = Empty \/ d.serial[1] \in Alnum
        BY DEF is_malformed, validate_device_serial
      <3>2. Len(d.serial) = 1
        BY <1>1 DEF HasNoComma
      <3>3. Empty[1] = ""
        BY DEF Empty
      <3> QED BY <3>1, <3>2, <3>3 DEF validate_serial_number
    <2> QED BY <1>0, <1>1, <2>6, <2>7, <2>8 DEF F
  <1>2. CASE ~HasNoComma(d)
    <2>1. Len(F) \in Nat /\ Len(F) > 4 /\ \E U : F \in Seq(U)
      BY <1>2, FormattedFields
    <2>2. PICK U : F \in Seq(U)
      BY <2>1
    <2> HIDE DEF F
    <2>3. ASSUME NEW s \in Seq(U), Len(s) > 1
          PROVE  split(s).tail \in Seq(U) /\ Len(split(s).tail) = Len(s) - 1
      <3>1. split(s).tail = Tail(s)
        BY <2>3 DEF split
      <3>2. s # <<>>
        BY <2>3
      <3> QED BY <3>1, <3>2, HeadTailProperties
    <2> DEFINE x == split(F).tail
               y == split(x).tail
               z == split(y).tail
    <2>4. x \in Seq(U) /\ Len(x) = Len(F) - 1
      BY <2>1, <2>2, <2>3
    <2> HIDE DEF x
    <2>5. y \in Seq(U) /\ Len(y) = Len(F) - 2
      BY <2>1, <2>3, <2>4
    <2> HIDE DEF y
    <2>6. z \in Seq(U) /\ Len(z) = Len(F) - 3
      BY <2>1, <2>3, <2>5
    <2> HIDE DEF z
    <2>7. D.serial = z
      BY DEF x, y, z
    <2> HIDE DEF D
    <2>8. ~validate_serial_number(D.serial)
      <3>1. Len(z) # 1
        <4> DEFINE m == Len(F)
                   k == Len(z)
        <4>1. m \in Nat /\ m > 4 /\ k = m - 3
          BY <2>1, <2>6
        <4> HIDE DEF m, k
        <4>2. k # 1
          BY <4>1
        <4> QED BY <4>2 DEF k
      <3> QED BY <2>7, <3>1 DEF validate_serial_number
    <2> QED BY <1>0, <1>2, <2>8 DEF F
  <1> QED BY <1>1, <1>2

\* What is in the registry once list is stored.
LEMMA StoredIsRead ==
  ASSUME NEW list \in Lists, \A i \in DOMAIN list : ~is_malformed(list[i]),
         registry = make_multi_sz(list), stored = <<list>>
  PROVE  StoredIsUnderstood
  <1> DEFINE N == Len(list)
             strings == [i \in 1..N |-> Formatted(list[i])]
             last == IF N < DevicesCnt THEN N ELSE DevicesCnt
             plain == {i \in 1..N : HasNoComma(list[i])}
  <1>1. list \in Seq(Range(list)) /\ (\A d \in Range(list) : IsDevice(d)) /\ DevicesCnt \in Nat
    BY SavedAssumption
  <1>2. N \in Nat /\ DOMAIN list = 1..N /\ last \in Nat /\ last <= N
    BY <1>1, LenProperties
  <1>3. \A i \in 1..N : IsDevice(list[i]) /\ ~is_malformed(list[i])
    BY <1>1, <1>2 DEF Range
  <1>4. registry = MultiSz(strings)
    BY <1>2 DEF make_multi_sz
  <1>5. registry.type = "REG_MULTI_SZ" /\ registry.strings = strings
    BY <1>4 DEF MultiSz
  <1>6. stored # <<>> /\ stored[1] = list
    OBVIOUS
  <1>7. strings \in Seq(Range(strings)) /\ Len(strings) = N
    <2>1. strings \in [1..N -> Range(strings)]
      BY DEF Range
    <2> QED BY <1>2, <2>1, SeqDef, LenProperties
  <1>8. Understood(registry) = [success |-> TRUE, devices |-> Selected(list, plain)]
    <2> DEFINE devices == [i \in 1..N |-> parse_persistent_device(strings[i])]
               good == {i \in 1..N : ~is_malformed(devices[i])}
    <2>1. Parsed(strings) = Selected(devices, good)
      BY DEF Parsed
    <2>2. \A i \in 1..N : /\ ~is_malformed(devices[i]) <=> HasNoComma(list[i])
                          /\ HasNoComma(list[i]) => devices[i] = list[i]
      BY <1>3, ClientParses
    <2>3. good = plain
      BY <2>2
    <2>4. Len(devices) = N
      BY <1>2
    <2> HIDE DEF devices, good
    <2>5. Selected(devices, plain) = Selected(list, plain)
      <3>1. \A i \in 1..Len(devices) : i \in plain => devices[i] = list[i]
        BY <2>2, <2>4
      <3> HIDE DEF plain
      <3> QED BY <1>2, <2>4, <3>1, SelectedSame
    <2> HIDE DEF strings, plain
    <2> QED BY <1>5, <2>1, <2>3, <2>5 DEF Understood
  <1>9. ASSUME NEW failed \in SUBSET DOMAIN list
        PROVE  plugin_persistent_devices(registry, failed) =
                 Selected(SubSeq(list, 1, last), {i \in plain \ failed : i <= last /\ fill_location(list[i])})
    <2> DEFINE all == SubSeq(strings, 1, last)
               part == SubSeq(list, 1, last)
               parsed == [i \in 1..last |-> parse_device_str(all[i], i \notin failed)]
               devs == [i \in 1..last |-> parsed[i].dev]
               good == {i \in 1..last : parsed[i].ok /\ fill_location(parsed[i].dev)}
               want == {i \in plain \ failed : i <= last /\ fill_location(list[i])}
    <2>1. get_persistent_devices(registry) = all
      <3> HIDE DEF strings
      <3> QED BY <1>5, <1>7 DEF get_persistent_devices
    <2>2. Len(all) = last /\ DOMAIN all = 1..last /\ \A i \in 1..last : all[i] = Formatted(list[i])
      <3> HIDE DEF last
      <3>1. \A i \in 1..last : i \in 1..N /\ strings[i] \in Range(strings)
        BY <1>2 DEF Range
      <3>2. all \in Seq(Range(strings)) /\ Len(all) = (IF 1 <= last THEN last - 1 + 1 ELSE 0)
            /\ \A i \in 1..last - 1 + 1 : all[i] = strings[1 + i - 1]
        <4> HIDE DEF strings
        <4> QED BY <1>2, <3>1, SubSeqProperties
      <3>3. last - 1 + 1 = last /\ (1 <= last \/ last = 0) /\ \A i \in 1..last : 1 + i - 1 = i
        BY <1>2
      <3>4. Len(all) = last /\ \A i \in 1..last : all[i] = strings[i]
        <4> HIDE DEF all, strings
        <4> QED BY <1>2, <3>2, <3>3
      <3>5. DOMAIN all = 1..Len(all)
        <4> HIDE DEF all, strings
        <4> QED BY <3>2, LenProperties
      <3>6. \A i \in 1..last : strings[i] = Formatted(list[i])
        BY <3>1
      <3> HIDE DEF all, strings
      <3> QED BY <3>4, <3>5, <3>6
    <2>3. Len(part) = last /\ \A i \in 1..last : part[i] = list[i]
      <3> HIDE DEF last
      <3>1. \A i \in 1..last : list[i] \in Range(list)
        BY <1>2 DEF Range
      <3>2. part \in Seq(Range(list)) /\ Len(part) = (IF 1 <= last THEN last - 1 + 1 ELSE 0)
            /\ \A i \in 1..last - 1 + 1 : part[i] = list[1 + i - 1]
        BY <1>2, <3>1, SubSeqProperties
      <3>3. last - 1 + 1 = last /\ (1 <= last \/ last = 0) /\ \A i \in 1..last : 1 + i - 1 = i
        BY <1>2
      <3> HIDE DEF part
      <3> QED BY <1>2, <3>2, <3>3
    <2>4. plugin_persistent_devices(registry, failed) = Selected(devs, good)
      <3> HIDE DEF all, strings, last
      <3> QED BY <2>1, <2>2 DEF plugin_persistent_devices
    <2>5. \A i \in 1..last : /\ parsed[i].ok <=> HasNoComma(list[i]) /\ i \notin failed
                             /\ HasNoComma(list[i]) => parsed[i].dev = list[i]
      <3> SUFFICES ASSUME NEW i \in 1..last
                   PROVE  /\ parsed[i].ok <=> HasNoComma(list[i]) /\ i \notin failed
                          /\ HasNoComma(list[i]) => parsed[i].dev = list[i]
        OBVIOUS
      <3> HIDE DEF all, last, strings
      <3>1. i \in 1..N /\ parsed[i] = parse_device_str(Formatted(list[i]), i \notin failed)
        BY <1>2, <2>2
      <3>2. (i \notin failed) \in BOOLEAN /\ IsDevice(list[i]) /\ ~is_malformed(list[i])
        BY <1>3, <3>1
      <3> HIDE DEF parsed, N
      <3> QED BY <3>1, <3>2, DriverParses
    <2>6. good = want
      <3> HIDE DEF all, last, strings, parsed
      <3>1. \A i \in 1..last : i \in 1..N
        BY <1>2
      <3>2. \A i \in 1..N : i <= last <=> i \in 1..last
        BY <1>2
      <3> QED BY <2>5, <3>1, <3>2
    <2>7. Selected(devs, want) = Selected(part, want)
      <3> HIDE DEF last, parsed
      <3>1. Len(devs) = last
        BY <1>2
      <3>2. \A i \in 1..last : i \in want => devs[i] = part[i]
        BY <2>3, <2>5
      <3> HIDE DEF devs, part, want
      <3> QED BY <1>2, <2>3, <3>1, <3>2, SelectedSame
    <2> QED BY <2>4, <2>6, <2>7
  <1> HIDE DEF strings, last, plain, N
  <1>10. last = (IF Len(list) < DevicesCnt THEN Len(list) ELSE DevicesCnt)
         /\ plain = {i \in DOMAIN list : HasNoComma(list[i])}
    BY <1>2 DEF last, plain, N
  <1>11. \A failed \in SUBSET DOMAIN list :
           plugin_persistent_devices(registry, failed) =
             Selected(SubSeq(list, 1, last), {i \in plain \ failed : i <= last /\ fill_location(list[i])})
    BY <1>9
  <1> SUFFICES LET l == IF Len(list) < DevicesCnt THEN Len(list) ELSE DevicesCnt
                   p == {i \in DOMAIN list : HasNoComma(list[i])}
               IN  /\ Understood(registry) = [success |-> TRUE, devices |-> Selected(list, p)]
                   /\ \A failed \in SUBSET DOMAIN list :
                        plugin_persistent_devices(registry, failed) =
                          Selected(SubSeq(list, 1, l), {i \in p \ failed : i <= l /\ fill_location(list[i])})
    BY <1>6, Zenon DEF StoredIsUnderstood
  <1> DEFINE l == IF Len(list) < DevicesCnt THEN Len(list) ELSE DevicesCnt
             p == {i \in DOMAIN list : HasNoComma(list[i])}
  <1>12. l = last /\ p = plain
    BY <1>10
  <1> HIDE DEF l, p
  <1>13. /\ Understood(registry) = [success |-> TRUE, devices |-> Selected(list, p)]
         /\ \A failed \in SUBSET DOMAIN list :
              plugin_persistent_devices(registry, failed) =
                Selected(SubSeq(list, 1, l), {i \in p \ failed : i <= l /\ fill_location(list[i])})
    BY <1>8, <1>11, <1>12
  <1> QED BY <1>13, Zenon DEF l, p

-----------------------------------------------------------------------------
(* The persistent devices among the threads.                                *)

\* The last list that a client stored is what the registry has.
StoredInv ==
  stored # <<>> =>
    \E list \in Lists : /\ stored = <<list>>
                        /\ \A i \in DOMAIN list : ~is_malformed(list[i])
                        /\ registry = make_multi_sz(list)

\* While a client reads, the registry has one of the values that it had since the
\* call began, and the result is the meaning of one of them.
ReaderInv ==
  /\ reader = [at |-> reader.at, buf |-> reader.buf, held |-> reader.held, result |-> reader.result]
  /\ reader.at = "call" => registry \in reader.held
  /\ reader.at = "got" =>
       reader.result = NoResult \/ \E v \in reader.held : reader.result = Understood(v)

SavedInv == StoredInv /\ ReaderInv

\* SET_PERSISTENT, at any time.
LEMMA SetNext ==
  ASSUME SavedInv, NEW list \in Lists, set_persistent(list)
  PROVE  SavedInv'
  <1> DEFINE v == make_multi_sz(list)
  <1>1. CASE UNCHANGED <<registry, stored, reader>>
    BY <1>1 DEF SavedInv, StoredInv, ReaderInv
  <1>2. CASE v # Absent /\ Assign(v) /\ stored' = <<list>>
    <2>1. \A i \in DOMAIN list : ~is_malformed(list[i])
      BY <1>2 DEF make_multi_sz
    <2>2. registry' = v /\ stored' = <<list>>
      BY <1>2 DEF Assign
    <2>3. StoredInv'
      BY <2>1, <2>2 DEF StoredInv
    <2> HIDE DEF v
    <2>4. reader' = reader \/ reader' = [reader EXCEPT !.held = @ \cup {v}]
      BY <1>2 DEF Assign
    <2>5. reader' = reader => reader.at = "idle" \/ reader' = [reader EXCEPT !.held = @ \cup {v}]
      BY <1>2 DEF Assign
    <2>6. CASE reader' = reader /\ reader.at = "idle"
      BY <2>3, <2>6 DEF SavedInv, ReaderInv
    <2>7. CASE reader' = [reader EXCEPT !.held = @ \cup {v}]
      <3>1. reader' = [at |-> reader.at, buf |-> reader.buf, held |-> reader.held \cup {v},
                       result |-> reader.result]
        BY <2>7 DEF SavedInv, ReaderInv
      <3>2. registry' \in reader'.held
        BY <2>2, <3>1
      <3>3. reader'.at = "got" =>
              reader'.result = NoResult \/ \E w \in reader'.held : reader'.result = Understood(w)
        BY <3>1 DEF SavedInv, ReaderInv
      <3>4. reader' = [at |-> reader'.at, buf |-> reader'.buf, held |-> reader'.held,
                       result |-> reader'.result]
        BY <3>1
      <3>5. ReaderInv'
        BY <3>2, <3>3, <3>4 DEF ReaderInv
      <3> QED BY <2>3, <3>5 DEF SavedInv
    <2> QED BY <2>3, <2>4, <2>5, <2>6, <2>7 DEF SavedInv
  <1> QED BY <1>1, <1>2 DEF set_persistent

\* A client begins to read, reads, and is done.
LEMMA ReadNext ==
  ASSUME SavedInv, begin_get_persistent \/ get_persistent_call \/ end_get_persistent
  PROVE  SavedInv'
  <1>1. UNCHANGED <<registry, writes, stored>>
    BY DEF begin_get_persistent, get_persistent_call, end_get_persistent
  <1>2. StoredInv'
    BY <1>1 DEF SavedInv, StoredInv
  <1>3. CASE begin_get_persistent
    <2>1. reader' = [at |-> "call", buf |-> FirstBuf, held |-> {registry}, result |-> NoResult]
      BY <1>3 DEF begin_get_persistent, Idle
    <2> QED BY <1>1, <1>2, <2>1 DEF SavedInv, ReaderInv
  <1>4. CASE get_persistent_call
    <2>1. registry \in reader.held
      BY <1>4 DEF SavedInv, ReaderInv, get_persistent_call
    <2>2. CASE reader' = [reader EXCEPT !.buf = Len(registry.strings)]
      <3>1. reader' = [at |-> reader.at, buf |-> Len(registry.strings), held |-> reader.held,
                       result |-> reader.result]
        BY <2>2 DEF SavedInv, ReaderInv
      <3> QED BY <1>1, <1>2, <1>4, <2>1, <3>1 DEF SavedInv, ReaderInv, get_persistent_call
    <2>3. CASE reader' = [reader EXCEPT !.at = "got", !.result = Understood(registry)]
      <3>1. reader' = [at |-> "got", buf |-> reader.buf, held |-> reader.held,
                       result |-> Understood(registry)]
        BY <2>3 DEF SavedInv, ReaderInv
      <3> QED BY <1>2, <2>1, <3>1 DEF SavedInv, ReaderInv
    <2>4. CASE reader' = [reader EXCEPT !.at = "got", !.result = NoResult]
      <3>1. reader' = [at |-> "got", buf |-> reader.buf, held |-> reader.held, result |-> NoResult]
        BY <2>4 DEF SavedInv, ReaderInv
      <3> QED BY <1>1, <1>2, <2>1, <3>1 DEF SavedInv, ReaderInv
    <2> QED BY <1>4, <2>2, <2>3, <2>4 DEF get_persistent_call
  <1>5. CASE end_get_persistent
    BY <1>2, <1>5 DEF end_get_persistent, Idle, SavedInv, ReaderInv
  <1> QED BY <1>3, <1>4, <1>5

\* Nothing else touches the registry or the call.
LEMMA SavedNext == SavedInv /\ [Next]_vars => SavedInv'
  <1> SUFFICES ASSUME SavedInv, [Next]_vars PROVE SavedInv'
    OBVIOUS
  <1>1. ASSUME UNCHANGED savedVars PROVE SavedInv'
    BY <1>1 DEF savedVars, SavedInv, StoredInv, ReaderInv
  <1>2. CASE ReaderStep \/ ReadDone \/ on_device_state
    BY <1>1, <1>2 DEF ReaderStep, ReadFile, QueueEvent, read_loop_exit, ReadDone, on_device_state,
                      readerFrame, ownVars
  <1>3. CASE WaitDone \/ WaitTimeout \/ EndModal \/ cancel \/ join \/ break_read_loop \/ read_thread_join
    BY <1>1, <1>3 DEF WaitDone, WaitTimeout, EndModal, cancel, join, break_read_loop,
                      read_thread_join, guiFrame, closeFrame, ownVars
  <1>4. CASE SendListRequest \/ add_exported_devices \/ ServerAnswers
    BY <1>1, <1>4 DEF SendListRequest, add_exported_devices, ServerAnswers
  <1>5. CASE update_from_saved \/ GetPersistent \/ on_load
    <2>1. begin_get_persistent \/ get_persistent_call \/ end_get_persistent
      BY <1>5 DEF update_from_saved, GetPersistent, on_load
    <2> QED BY <2>1, ReadNext
  <1>6. CASE on_save \/ OtherClient
    <2>1. PICK list \in Lists : set_persistent(list)
      BY <1>6 DEF on_save, save, OtherClient, cmd_port
    <2> QED BY <2>1, SetNext
  <1>7. CASE WorkerStep \/ Ioctl
    BY <1>1, <1>7 DEF WorkerStep, DeviceIoControl, FunctionReturns, SetEvent, CallAfter, Ioctl,
                      workerFrame, ownVars
  <1>8. CASE call_driver \/ connect \/ CancelPressed \/ iconize_to_tray \/ Restore
             \/ on_close_to_tray \/ on_close
    BY <1>1, <1>8 DEF call_driver, connect, run_cancellable, CancelPressed, iconize_to_tray,
                      Restore, on_close_to_tray, on_close, guiFrame, closeFrame, ownVars
  <1>9. CASE (Network \/ ResolverStops) /\ UNCHANGED remoteFrame
    BY <1>1, <1>9 DEF remoteFrame, workerFrame, ownVars
  <1>10. CASE UNCHANGED vars
    BY <1>1, <1>10 DEF vars, ownVars
  <1> QED BY <1>2, <1>3, <1>4, <1>5, <1>6, <1>7, <1>8, <1>9, <1>10 DEF Next, GuiStep, User

\* The registry and the call that reads it, in every behaviour of the threads.
THEOREM SavedInvariance == Spec => []SavedInv
  <1>1. Init => SavedInv
    BY DEF Init, SavedInit, SavedInv, StoredInv, ReaderInv, Idle
  <1> QED BY <1>1, SavedNext, PTL DEF Spec

\* vhci::get_persistent returns the meaning of one value of the registry, however often the
\* value is replaced between the calls of its loop and whatever its length.
THEOREM ReadIsOneValueHolds == Spec => []ReadIsOneValue
  <1>1. SavedInv => ReadIsOneValue
    BY DEF SavedInv, ReaderInv, ReadIsOneValue
  <1> QED BY <1>1, SavedInvariance, PTL

\* Whatever list a client stored, make_multi_sz, the library's parser and the driver's parser
\* agree about it: the same devices in the same order come back, and those with a comma in a
\* name are left out by both.
THEOREM StoredIsUnderstoodHolds == Spec => []StoredIsUnderstood
  <1>1. SavedInv => StoredIsUnderstood
    <2>1. CASE stored = <<>>
      BY <2>1, Zenon DEF StoredIsUnderstood
    <2>2. ASSUME SavedInv, stored # <<>> PROVE StoredIsUnderstood
      BY <2>2, StoredIsRead DEF SavedInv, StoredInv
    <2> QED BY <2>1, <2>2
  <1> QED BY <1>1, SavedInvariance, PTL
-----------------------------------------------------------------------------
(* What the GUI thread waits for.                                           *)

\* The threads of Remote: an APC is used up by an alertable wait that ends the function or
\* cancels the request of the resolver.
LEMMA RemoteThreads ==
  ASSUME ThreadsInv, ConnectStep \/ Network \/ ResolverStops,
         UNCHANGED <<rd, gui, op, wk, evt, ended, tries, overtaken>>
  PROVE  ThreadsInv'
  <1> USE DEF ThreadsInv, JoinedReaderEnds, CancelIsNotLost
  <1>1. CASE resolve
    BY <1>1 DEF resolve, Fail, Resolved
  <1>2. CASE resolve_answered
    BY <1>2 DEF resolve_answered, Fail, Resolved
  <1>3. CASE resolve_alerted
    BY <1>3 DEF resolve_alerted, Fail
  <1>4. CASE resolve_cancelled
    BY <1>4 DEF resolve_cancelled, Fail, Resolved
  <1>5. CASE create_event \/ make_blocking \/ connect_answered
    BY <1>5 DEF create_event, make_blocking, connect_answered, Fail, NextAddress
  <1>6. CASE try_address
    BY <1>6, Zenon DEF try_address, NextAddress
  <1>7. CASE connect_alerted
    BY <1>7 DEF connect_alerted, Fail
  <1>8. CASE ResolverAnswers \/ ResolverStops
    BY <1>8 DEF ResolverAnswers, ResolverStops
  <1> QED BY <1>1, <1>2, <1>3, <1>4, <1>5, <1>6, <1>7, <1>8 DEF ConnectStep, Network

\* Steps that concern neither the reader nor a call.
LEMMA ThreadsFrame ==
  ASSUME ThreadsInv, UNCHANGED <<rd, runVars, closeVars, remoteVars>>,
         gui' = gui \/ (gui \notin Blocked /\ gui' \notin Blocked /\ gui' # "join_reader")
  PROVE  ThreadsInv'
  BY DEF ThreadsInv, JoinedReaderEnds, CancelIsNotLost, runVars, closeVars, remoteVars, Blocked

\* No thread breaks the invariant.
LEMMA ThreadsNext == ThreadsInv /\ [Next]_vars => ThreadsInv'
  <1> SUFFICES ASSUME ThreadsInv, [Next]_vars PROVE ThreadsInv'
    OBVIOUS
  <1> USE DEF runVars, closeVars, guiFrame, workerFrame, remoteFrame, ownFrame, closeFrame,
              readerFrame
  <1>1. CASE ReaderStep \/ ReadDone
    BY <1>1 DEF ReaderStep, ReadFile, QueueEvent, read_loop_exit, ReadDone, ThreadsInv,
       JoinedReaderEnds, CancelIsNotLost, remoteVars
  <1>2. CASE \/ on_device_state \/ on_save \/ on_load \/ update_from_saved \/ GetPersistent
             \/ SendListRequest \/ add_exported_devices \/ ServerAnswers \/ OtherClient
             \/ iconize_to_tray \/ Restore \/ on_close_to_tray \/ on_close \/ UNCHANGED vars
    BY <1>2, ThreadsFrame DEF on_device_state, on_save, on_load, update_from_saved,
       GetPersistent, SendListRequest, add_exported_devices, ServerAnswers, OtherClient,
       iconize_to_tray, Restore, on_close_to_tray, on_close, vars, Blocked
  <1>3. CASE call_driver \/ connect
    BY <1>3 DEF call_driver, connect, run_cancellable, remoteVars, ThreadsInv,
       JoinedReaderEnds, CancelIsNotLost, Blocked
  <1>4. CASE WaitDone \/ WaitTimeout \/ EndModal \/ CancelPressed
    BY <1>4 DEF WaitDone, WaitTimeout, EndModal, CancelPressed, remoteVars, ThreadsInv,
       JoinedReaderEnds, CancelIsNotLost, Blocked
  <1>5. CASE cancel
    BY <1>5 DEF cancel, ThreadsInv, JoinedReaderEnds, CancelIsNotLost, Blocked
  <1>6. CASE join
    BY <1>6 DEF join, ThreadsInv, JoinedReaderEnds, CancelIsNotLost, Blocked
  <1>7. CASE DeviceIoControl \/ FunctionReturns \/ SetEvent \/ CallAfter
    BY <1>7 DEF DeviceIoControl, FunctionReturns, SetEvent, CallAfter, remoteVars, ThreadsInv,
       JoinedReaderEnds, CancelIsNotLost
  <1>8. CASE ConnectStep /\ UNCHANGED <<workerFrame, wk, wreq, evt, ended>>
    BY <1>8, RemoteThreads
  <1>9. CASE (Network \/ ResolverStops) /\ UNCHANGED remoteFrame
    BY <1>9, RemoteThreads
  <1>10. CASE Ioctl
    BY <1>10 DEF Ioctl, remoteVars, ThreadsInv, JoinedReaderEnds, CancelIsNotLost
  <1>11. CASE break_read_loop \/ read_thread_join
    BY <1>11 DEF break_read_loop, read_thread_join, remoteVars, ThreadsInv,
       JoinedReaderEnds, CancelIsNotLost, Blocked
  <1> QED
    BY <1>1, <1>2, <1>3, <1>4, <1>5, <1>6, <1>7, <1>8, <1>9, <1>10, <1>11
    DEF Next, GuiStep, User, WorkerStep

\* The invariant on the thread of run_cancellable and on the reader.
THEOREM ThreadsInvariance == Spec => []ThreadsInv
  <1>1. Init => ThreadsInv
    BY DEF Init, RemoteInit, ThreadsInv, JoinedReaderEnds, CancelIsNotLost, Blocked
  <1> QED BY <1>1, ThreadsNext, PTL DEF Spec

\* on_close joins a reader that leaves its loop, whatever the number of tries that
\* break_read_loop makes and of events in the queue, but for its two exceptions.
THEOREM JoinedReaderEndsHolds == Spec => []JoinedReaderEnds
  <1>1. ThreadsInv => JoinedReaderEnds
    BY DEF ThreadsInv
  <1> QED BY <1>1, ThreadsInvariance, PTL

\* A connect that the user has cancelled ends, however many addresses the server has, but
\* for one that was just being resolved: its APC is never dropped or used up in vain.
THEOREM CancelIsNotLostHolds == Spec => []CancelIsNotLost
  <1>1. ThreadsInv => CancelIsNotLost
    BY DEF ThreadsInv
  <1> QED BY <1>1, ThreadsInvariance, PTL
=============================================================================
