------------------------ MODULE FilterAndToolsProofs ------------------------
(***************************************************************************)
(* Proofs about UdeFilter and about Commands, two specifications that      *)
(* share nothing.  UdeFilter is taken for any set of devices below the     *)
(* hub, any settings with any endpoints, any number of faults and any      *)
(* bounds: first the stacks of PnP and their filters, then the selections, *)
(* the queue of endpoint 0 and the server.  Commands is taken for any      *)
(* processes, locations, ports, nodes and bounds, DevNode included, and    *)
(* the parser of usb.ids for files of any length.                          *)
(***************************************************************************)
EXTENDS UdeFilter, Commands, FiniteSetTheorems, SequenceTheorems, TLAPS

-----------------------------------------------------------------------------
(* The inductive invariant.                                                 *)

\* The PnP state is well typed.
PnpTypes ==
    /\ hub \in {"none", "plain", "filtered"}
    /\ children \subseteq Pdos
    /\ reported \subseteq Pdos
    /\ stacks \subseteq Pdos
    /\ previous \subseteq Pdos
    /\ fidos \in [Pdos -> Nat]

\* PnP has a stack for what it was told about, and a device that was plugged in
\* has none before it is reported.
StacksAreReported ==
    /\ reported \subseteq stacks
    /\ children \cap stacks \subseteq reported

\* A hub without a filter remembers no relations; no hub, no stacks.
HubState ==
    /\ hub = "none" => stacks = {}
    /\ hub # "filtered" => previous = {}

\* A filter device object belongs to a stack.
FilterHasStack == \A p \in Pdos \ stacks : fidos[p] = 0

\* The relations that are remembered are those that were reported, but for the PDOs
\* of a copy that could not be made.
PreviousIsReported ==
    hub = "filtered" => \A p \in Pdos \ odd : p \in previous <=> p \in reported

IInv ==
    /\ PnpTypes
    /\ StacksAreReported
    /\ HubState
    /\ FilterHasStack
    /\ PreviousIsReported
    /\ OneFilterPerDevice

-----------------------------------------------------------------------------
\* There is no hub at first.
LEMMA InvariantInit == Init => IInv
  BY DEF Init, IInv, PnpTypes, StacksAreReported, HubState, FilterHasStack,
         PreviousIsReported, OneFilterPerDevice

\* What attaching to a set of PDOs does to each of them.
LEMMA AttachCounts ==
  ASSUME PnpTypes, NEW S \in SUBSET Pdos
  PROVE  /\ Attach(S) \in [Pdos -> Nat]
         /\ \A p \in Pdos : Attach(S)[p] = IF p \in S THEN fidos[p] + 1 ELSE fidos[p]
  BY DEF Attach, PnpTypes

\* Requests of the devices do not concern the PnP state.
LEMMA InvariantFrame == IInv /\ UNCHANGED pnp => IInv'
  BY DEF IInv, pnp, PnpTypes, StacksAreReported, HubState, FilterHasStack,
         PreviousIsReported, OneFilterPerDevice

\* A query attaches to every PDO that is not remembered. Such a PDO has no filter yet,
\* since it has no stack, and one that is remembered has its filter already.
LEMMA QueryNext == IInv /\ query_bus_relations => IInv'
  <1> SUFFICES ASSUME IInv, query_bus_relations PROVE IInv'
    OBVIOUS
  <1> USE DEF NewChildren
  <1>1. /\ PnpTypes /\ StacksAreReported /\ HubState /\ FilterHasStack
        /\ PreviousIsReported /\ OneFilterPerDevice
    BY DEF IInv
  <1>2. /\ hub = "filtered" /\ hub' = hub /\ children' = children
        /\ reported' = children /\ stacks' = stacks \cup children
    BY DEF query_bus_relations
  <1>3. children \ previous \in SUBSET Pdos /\ children \subseteq Pdos
    BY <1>1 DEF PnpTypes
  <1>4. PICK S \in SUBSET (children \ previous) :
          /\ fidos' = Attach(S)
          /\ \/ previous' = children /\ odd' = odd
                /\ (children \ previous) \ S \subseteq closed'
             \/ previous' = previous /\ S = children \ previous
                /\ odd' = odd \cup (children \ previous) \cup (previous \ children)
          /\ closed \subseteq closed'
    <2>1. CASE /\ fidos' = Attach(NewChildren) /\ previous' = children
               /\ UNCHANGED <<closed, odd, faults>>
      <3> WITNESS children \ previous \in SUBSET (children \ previous)
      <3> QED BY <2>1
    <2>2. CASE /\ \E failed \in NewChildren :
                    /\ fidos' = Attach(NewChildren \ {failed})
                    /\ closed' = closed \cup {failed}
               /\ previous' = children /\ UNCHANGED odd
      <3>1. PICK failed \in NewChildren : /\ fidos' = Attach(NewChildren \ {failed})
                                          /\ closed' = closed \cup {failed}
        BY <2>2
      <3>2. (children \ previous) \ {failed} \in SUBSET (children \ previous)
        OBVIOUS
      <3> WITNESS (children \ previous) \ {failed} \in SUBSET (children \ previous)
      <3> QED BY <3>1, <2>2
    <2>3. CASE /\ fidos' = Attach(NewChildren)
               /\ odd' = odd \cup NewChildren \cup (previous \ children)
               /\ UNCHANGED <<previous, closed>>
      <3> WITNESS children \ previous \in SUBSET (children \ previous)
      <3> QED BY <2>3
    <2> QED BY <2>1, <2>2, <2>3 DEF query_bus_relations
  <1>5. S \in SUBSET Pdos
    BY <1>3
  <1>6. /\ fidos' \in [Pdos -> Nat]
        /\ \A p \in Pdos : fidos'[p] = IF p \in S THEN fidos[p] + 1 ELSE fidos[p]
    BY <1>1, <1>4, <1>5, AttachCounts
  <1>7. PnpTypes'
    BY <1>1, <1>2, <1>3, <1>4, <1>6 DEF PnpTypes
  <1>8. StacksAreReported'
    BY <1>1, <1>2 DEF StacksAreReported
  <1>9. HubState'
    BY <1>2 DEF HubState
  <1>10. FilterHasStack'
    BY <1>1, <1>2, <1>4, <1>6 DEF FilterHasStack
  <1>11. PreviousIsReported'
    BY <1>1, <1>2, <1>4 DEF PreviousIsReported
  <1>12. OneFilterPerDevice'
    <2> SUFFICES ASSUME NEW p \in children, p \notin closed', p \notin odd'
                 PROVE  fidos'[p] = 1
      BY <1>2 DEF OneFilterPerDevice
    <2>1. p \in Pdos /\ p \notin odd /\ p \notin closed
      BY <1>3, <1>4
    <2>2. CASE p \in S
      <3>1. p \notin reported
        BY <2>1, <2>2, <1>1, <1>2, <1>4 DEF PreviousIsReported
      <3>2. fidos[p] = 0
        BY <3>1, <2>1, <1>1 DEF StacksAreReported, FilterHasStack
      <3> QED BY <3>2, <2>1, <2>2, <1>6
    <2>3. CASE p \notin S
      <3>1. p \in previous
        BY <2>3, <1>4
      <3>2. p \in reported
        BY <3>1, <2>1, <1>1, <1>2 DEF PreviousIsReported
      <3>3. fidos[p] = 1
        BY <3>2, <2>1, <1>1, <1>2 DEF OneFilterPerDevice
      <3> QED BY <3>3, <2>1, <2>3, <1>6
    <2> QED BY <2>2, <2>3
  <1> QED BY <1>7, <1>8, <1>9, <1>10, <1>11, <1>12 DEF IInv

\* Every step keeps the invariant.
LEMMA InvariantNext == IInv /\ [Next]_vars => IInv'
  <1> SUFFICES ASSUME IInv, [Next]_vars PROVE IInv'
    OBVIOUS
  <1> USE DEF IInv, PnpTypes, StacksAreReported, HubState, FilterHasStack,
              PreviousIsReported, OneFilterPerDevice
  <1>1. CASE add_device
    BY <1>1 DEF add_device
  <1>2. CASE remove_hub
    BY <1>2 DEF remove_hub
  <1>3. ASSUME NEW p \in Pdos, PlugIn(p) PROVE IInv'
    BY <1>3 DEF PlugIn
  <1>4. ASSUME NEW p \in Pdos, PlugOut(p) PROVE IInv'
    BY <1>4 DEF PlugOut
  <1>5. ASSUME NEW p \in Pdos, remove_device(p) PROVE IInv'
    BY <1>5 DEF remove_device
  <1>6. ASSUME NEW p \in Pdos, disable_device(p) PROVE IInv'
    BY <1>6 DEF disable_device
  <1>7. CASE query_bus_relations
    BY <1>7, QueryNext
  <1>8. CASE query_unfiltered
    BY <1>8 DEF query_unfiltered
  <1>9. ASSUME UNCHANGED pnp PROVE IInv'
    BY <1>9, InvariantFrame
  <1>10. CASE endpoint_add \/ endpoint_add_failed \/ endpoint_cleanup \/ select_complete
    BY <1>9, <1>10 DEF endpoint_add, endpoint_add_failed, endpoint_cleanup, select_complete
  <1>11. CASE select_failed \/ reset_pipe_complete \/ unpack_request \/ ret_submit
    BY <1>9, <1>11 DEF select_failed, reset_pipe_complete, unpack_request, ret_submit
  <1>12. CASE Transfer \/ int_dev_ctrl \/ irp_complete
    BY <1>9, <1>12 DEF Transfer, int_dev_ctrl, irp_complete
  <1>13. CASE UNCHANGED vars
    BY <1>9, <1>13 DEF vars
  <1> HIDE DEF IInv
  <1> QED BY <1>1, <1>2, <1>3, <1>4, <1>5, <1>6, <1>7, <1>8, <1>10, <1>11, <1>12, <1>13
          DEF Next

\* The relations that query_bus_relations remembers, the stacks of PnP and the filter
\* device objects agree in every behaviour.
THEOREM Invariance == Spec => []IInv
  BY InvariantInit, InvariantNext, PTL DEF Spec

\* A device that PnP knows has exactly one filter device object, however often the
\* relations are queried and devices come and go between two queries.
THEOREM OneFilterPerDeviceHolds == Spec => []OneFilterPerDevice
  <1>1. IInv => OneFilterPerDevice
    BY DEF IInv
  <1> QED BY <1>1, Invariance, PTL

-----------------------------------------------------------------------------
(* The invariant of the selections, the queue and the list of endpoints.    *)

Selections == {"SELECT_CONFIGURATION", "SELECT_INTERFACE"}
Addresses == {0} \cup UNION {s.addresses : s \in Settings}
Pipes == {NoPipes} \cup UNION {[s.addresses -> Handles] : s \in Settings}
SettingType == [cfg : {0} \cup {s.cfg : s \in Settings}, alt : {0} \cup {s.alt : s \in Settings}]
Requests ==
    [function : Selections \cup {"SYNC_RESET_PIPE"}, setting : SettingType, pipes : Pipes,
     handle : Handles \cup {NoHandle}, address : Addresses, at : Nat]
Endpoints == [address : Addresses, handle : Handles \cup {NoHandle}, at : Nat]

\* The state of the requests is well typed.
IoTypes ==
    /\ selects \in Nat
    /\ os \in [setting : SettingType, pipes : Pipes, at : Nat]
    /\ selecting = <<>> \/ \E s \in Settings : selecting = <<s>>
    /\ endpoints \in Seq(Endpoints)
    /\ ep0 \in Seq(Requests)
    /\ busy \in BOOLEAN
    /\ busy => ep0 # <<>>
    /\ server \in SettingType
    /\ missed \in BOOLEAN
    /\ refused \in BOOLEAN

\* The requests that have not been unpacked.
Pending == IF busy THEN Tail(ep0) ELSE ep0

IsReset(r) == r.function = "SYNC_RESET_PIPE"
IsConfiguration(r) == r.function = "SELECT_CONFIGURATION"
AltOf(r) == IF IsConfiguration(r) THEN 0 ELSE r.setting.alt

\* The requests of q are in the order of the selections they belong to, and those of
\* the last one carry the pipes of the setting in o.
Ordered(q, o) ==
    /\ \A k \in 1 .. Len(q) : q[k].at <= o.at
    /\ \A j, k \in 1 .. Len(q) : j <= k => q[j].at <= q[k].at
    /\ \A k \in 1 .. Len(q) : q[k].at = o.at =>
          IF IsReset(q[k]) THEN q[k].address \in DOMAIN o.pipes /\ q[k].handle = o.pipes[q[k].address]
          ELSE q[k].pipes = o.pipes

\* The last request in q that sets the configuration sets that of the setting; if there
\* is none, the server has it.
CfgIs(q, srv, setting) ==
    \/ \E k \in 1 .. Len(q) :
          /\ IsConfiguration(q[k]) /\ q[k].setting.cfg = setting.cfg
          /\ \A j \in 1 .. Len(q) : j > k => ~IsConfiguration(q[j])
    \/ (\A j \in 1 .. Len(q) : ~IsConfiguration(q[j])) /\ srv.cfg = setting.cfg

\* The same of the alternate setting.
AltIs(q, srv, setting) ==
    \/ \E k \in 1 .. Len(q) :
          /\ ~IsReset(q[k]) /\ AltOf(q[k]) = setting.alt
          /\ \A j \in 1 .. Len(q) : j > k => IsReset(q[j])
    \/ (\A j \in 1 .. Len(q) : IsReset(q[j])) /\ srv.alt = setting.alt

\* A request of selection n is ahead of every reset of a pipe that n opened.
Announced(q, n) ==
    \E k \in 1 .. Len(q) :
        /\ ~IsReset(q[k]) /\ q[k].at = n
        /\ \A j \in 1 .. Len(q) : j < k => ~(IsReset(q[j]) /\ q[j].at = n)

\* No selection before n is in q.
NoneOlder(q, n) == \A k \in 1 .. Len(q) : IsReset(q[k]) \/ q[k].at = n

\* Endpoints are listed from the newest selection to the oldest, each address once.
NewestFirst(list, n) ==
    /\ \A i \in 1 .. Len(list) : 1 <= list[i].at /\ list[i].at <= n
    /\ \A i, j \in 1 .. Len(list) : i <= j => list[j].at <= list[i].at
    /\ \A i, j \in 1 .. Len(list) : list[i].at = list[j].at /\ list[i].address = list[j].address => i = j

\* Their addresses.
AddressesOf(list, n) == {list[i].address : i \in {i \in 1 .. Len(list) : list[i].at = n}}

\* The endpoints of the setting in o have their pipe handles.
Noted(list, o) ==
    \A i \in 1 .. Len(list) : list[i].at = o.at => list[i].handle = o.pipes[list[i].address]

\* A setting that is being selected has its endpoints already.
SelectingInv ==
    selecting # <<>> =>
        /\ os.at < selects
        /\ AddressesOf(endpoints, selects) = selecting[1].addresses
        /\ selecting[1].cfg # os.setting.cfg => selecting[1].alt = 0

\* The setting in force has one endpoint for each of its pipes.
SettingInv ==
    /\ os.at <= selects
    /\ AddressesOf(endpoints, os.at) = DOMAIN os.pipes
    /\ IsInjective(os.pipes)

\* The handles of the last selection are noted, or will be before they are needed.
HandlesInv ==
    os.at = selects /\ ~missed =>
        \/ Announced(Pending, selects)
        \/ NoneOlder(Pending, selects) /\ Noted(endpoints, os)

\* What the requests that are left will make of the server's setting.
ServerInv ==
    ~missed /\ ~refused => CfgIs(Pending, server, os.setting) /\ AltIs(Pending, server, os.setting)

IoInv ==
    /\ IoTypes
    /\ Ordered(Pending, os)
    /\ NewestFirst(endpoints, selects)
    /\ SelectingInv
    /\ SettingInv
    /\ HandlesInv
    /\ ServerInv
    /\ RightEndpointCleared

-----------------------------------------------------------------------------
\* A set of numbers has a least one.
LEMMA LeastNumber ==
  ASSUME NEW T, T \subseteq Nat, T # {}
  PROVE  \E x \in T : \A y \in T : x <= y
  <1> DEFINE R == OpToRel(<, Nat)
  <1>1. PICK x \in T : \A y \in T : ~(<<y, x>> \in R)
    <2>1. IsWellFoundedOn(R, Nat) BY NatLessThanWellFounded
    <2> HIDE DEF R
    <2> QED BY <2>1, WFMin
  <1>2. \A y \in T : x <= y
    <2> TAKE y \in T
    <2>1. y \in Nat /\ x \in Nat BY <1>1
    <2>2. ~(y < x) BY <1>1, <2>1 DEF OpToRel
    <2> HIDE DEF R
    <2> QED BY <2>1, <2>2
  <1> QED BY <1>1, <1>2

\* A set with zero and every successor has all numbers.
LEMMA SetInduction ==
  ASSUME NEW S, 0 \in S, \A n \in Nat : n \in S => n + 1 \in S
  PROVE  Nat \subseteq S
  <1> SUFFICES ASSUME Nat \ S # {} PROVE FALSE
    OBVIOUS
  <1>1. PICK x \in Nat \ S : \A y \in Nat \ S : x <= y
    BY LeastNumber
  <1> QED BY <1>1

-----------------------------------------------------------------------------
(* The queue of the default control pipe.                                   *)

\* What is left of a queue when its first request is taken.
LEMMA TailOf ==
  ASSUME NEW S, NEW q \in Seq(S), q # <<>>
  PROVE  /\ Tail(q) \in Seq(S) /\ Len(q) \in Nat \ {0} /\ Len(Tail(q)) = Len(q) - 1
         /\ \A i \in 1 .. Len(Tail(q)) : i + 1 \in 1 .. Len(q) /\ Tail(q)[i] = q[i + 1]
         /\ \A k \in 1 .. Len(q) : k = 1 \/ (k - 1 \in 1 .. Len(Tail(q)) /\ Tail(q)[k - 1] = q[k])
         /\ 1 \in 1 .. Len(q) /\ Head(q) = q[1]
  <1> DEFINE t == Tail(q)
             n == Len(q)
  <1>1. n \in Nat \ {0} /\ Head(q) = q[1]
    BY LenProperties, EmptySeq
  <1>2. t \in Seq(S) /\ Len(t) = n - 1 /\ \A i \in 1 .. Len(t) : t[i] = q[i + 1]
    BY HeadTailProperties
  <1> HIDE DEF t, n
  <1>3. \A i \in 1 .. Len(t) : i + 1 \in 1 .. n
    BY <1>1, <1>2
  <1>4. ASSUME NEW k \in 1 .. n, k # 1 PROVE k - 1 \in 1 .. Len(t) /\ t[k - 1] = q[k]
    <2>1. k - 1 \in 1 .. Len(t) /\ (k - 1) + 1 = k
      BY <1>1, <1>2, <1>4
    <2> QED BY <2>1, <1>2
  <1>5. 1 \in 1 .. n
    BY <1>1
  <1> QED BY <1>1, <1>2, <1>3, <1>4, <1>5 DEF t, n

\* The positions of a concatenation.
LEMMA ConcatOf ==
  ASSUME NEW S, NEW q \in Seq(S), NEW p \in Seq(S)
  PROVE  /\ q \o p \in Seq(S) /\ Len(q) \in Nat /\ Len(p) \in Nat
         /\ Len(q \o p) = Len(q) + Len(p)
         /\ \A i \in 1 .. Len(q) : i \in 1 .. Len(q \o p) /\ (q \o p)[i] = q[i]
         /\ \A i \in 1 .. Len(p) : Len(q) + i \in 1 .. Len(q \o p) /\ (q \o p)[Len(q) + i] = p[i]
         /\ \A k \in 1 .. Len(q \o p) : k \in 1 .. Len(q) \/ (k - Len(q) \in 1 .. Len(p)
                                                            /\ (q \o p)[k] = p[k - Len(q)])
  <1> DEFINE n == Len(q)
             m == Len(p)
             c == q \o p
  <1>1. n \in Nat /\ m \in Nat
    BY LenProperties
  <1>2. c \in Seq(S) /\ Len(c) = n + m
        /\ \A i \in 1 .. n + m : c[i] = IF i <= n THEN q[i] ELSE p[i - n]
    BY ConcatProperties
  <1> HIDE DEF n, m, c
  <1>3. \A i \in 1 .. n : i \in 1 .. Len(c) /\ c[i] = q[i]
    BY <1>1, <1>2
  <1>4. ASSUME NEW i \in 1 .. m PROVE n + i \in 1 .. Len(c) /\ c[n + i] = p[i]
    <2>1. n + i \in 1 .. n + m /\ ~(n + i <= n) /\ (n + i) - n = i
      BY <1>1
    <2> QED BY <2>1, <1>2
  <1>5. ASSUME NEW k \in 1 .. Len(c), k \notin 1 .. n PROVE k - n \in 1 .. m /\ c[k] = p[k - n]
    <2>1. k \in 1 .. n + m /\ ~(k <= n) /\ k - n \in 1 .. m
      BY <1>1, <1>2, <1>5
    <2> QED BY <2>1, <1>2
  <1> QED BY <1>1, <1>2, <1>3, <1>4, <1>5 DEF n, m, c

\* A request that is added to a queue whose first one is taken.
LEMMA TailOfConcat ==
  ASSUME NEW S, NEW q \in Seq(S), NEW p \in Seq(S), q # <<>>
  PROVE  Tail(q \o p) = Tail(q) \o p
  <1>1. q \o p # <<>> /\ q \o p \in Seq(S)
    BY ConcatEqualIffEmpty, ConcatProperties
  <1> DEFINE a == Tail(q \o p)
             b == Tail(q) \o p
             n == Len(q)
             m == Len(p)
  <1>2. /\ Tail(q) \in Seq(S) /\ Len(Tail(q)) = n - 1 /\ n \in Nat \ {0}
        /\ \A i \in 1 .. n - 1 : Tail(q)[i] = q[i + 1]
    BY TailOf
  <1>3. m \in Nat /\ Len(q \o p) = n + m
        /\ \A i \in 1 .. n + m : (q \o p)[i] = IF i <= n THEN q[i] ELSE p[i - n]
    BY ConcatProperties, LenProperties
  <1>4. a \in Seq(S) /\ Len(a) = (n + m) - 1 /\ \A i \in 1 .. Len(a) : a[i] = (q \o p)[i + 1]
    BY <1>1, <1>3, HeadTailProperties
  <1>5. b \in Seq(S) /\ Len(b) = (n - 1) + m
        /\ \A i \in 1 .. (n - 1) + m : b[i] = IF i <= n - 1 THEN Tail(q)[i] ELSE p[i - (n - 1)]
    BY <1>2, ConcatProperties
  <1> HIDE DEF a, b, n, m
  <1>6. Len(a) = Len(b)
    BY <1>2, <1>3, <1>4, <1>5
  <1>7. ASSUME NEW i \in 1 .. Len(a) PROVE a[i] = b[i]
    <2>1. i \in 1 .. (n - 1) + m /\ i + 1 \in 1 .. n + m
      BY <1>2, <1>3, <1>4
    <2>2. a[i] = IF i + 1 <= n THEN q[i + 1] ELSE p[(i + 1) - n]
      BY <2>1, <1>3, <1>4
    <2>3. b[i] = IF i <= n - 1 THEN Tail(q)[i] ELSE p[i - (n - 1)]
      BY <2>1, <1>5
    <2>4. (i + 1 <= n <=> i <= n - 1) /\ (i + 1) - n = i - (n - 1)
          /\ (i <= n - 1 => i \in 1 .. n - 1)
      BY <1>2, <2>1
    <2> QED BY <2>2, <2>3, <2>4, <1>2
  <1>8. a = b
    BY <1>4, <1>5, <1>6, <1>7, SeqEqual
  <1> QED BY <1>8 DEF a, b

\* The first request leaves the queue, after the server did what it says.
LEMMA OrderedTail ==
  ASSUME NEW q \in Seq(Requests), q # <<>>, NEW o, Ordered(q, o)
  PROVE  Ordered(Tail(q), o)
  <1> DEFINE t == Tail(q)
  <1>1. \A i \in 1 .. Len(t) : i + 1 \in 1 .. Len(q) /\ t[i] = q[i + 1]
    BY TailOf
  <1>2. Len(t) \in Nat
    BY TailOf, LenProperties
  <1> HIDE DEF t
  <1>3. \A k \in 1 .. Len(t) : t[k].at <= o.at
    BY <1>1 DEF Ordered
  <1>4. \A j, k \in 1 .. Len(t) : j <= k => t[j].at <= t[k].at
    <2> SUFFICES ASSUME NEW j \in 1 .. Len(t), NEW k \in 1 .. Len(t), j <= k
                 PROVE  t[j].at <= t[k].at
      OBVIOUS
    <2>1. j + 1 <= k + 1
      BY <1>2
    <2> QED BY <2>1, <1>1 DEF Ordered
  <1>5. \A k \in 1 .. Len(t) : t[k].at = o.at =>
          IF IsReset(t[k]) THEN t[k].address \in DOMAIN o.pipes /\ t[k].handle = o.pipes[t[k].address]
          ELSE t[k].pipes = o.pipes
    BY <1>1 DEF Ordered
  <1> QED BY <1>3, <1>4, <1>5 DEF Ordered, t

\* The first request is carried out: the rest makes the same configuration.
LEMMA CfgTail ==
  ASSUME NEW q \in Seq(Requests), q # <<>>, NEW srv, NEW next, NEW setting, CfgIs(q, srv, setting),
         next.cfg = IF IsConfiguration(q[1]) THEN q[1].setting.cfg ELSE srv.cfg
  PROVE  CfgIs(Tail(q), next, setting)
  <1> DEFINE t == Tail(q)
  <1>1. /\ \A i \in 1 .. Len(t) : i + 1 \in 1 .. Len(q) /\ t[i] = q[i + 1]
        /\ \A k \in 1 .. Len(q) : k = 1 \/ (k - 1 \in 1 .. Len(t) /\ t[k - 1] = q[k])
        /\ 1 \in 1 .. Len(q)
    BY TailOf
  <1> HIDE DEF t
  <1>2. ASSUME NEW k \in 1 .. Len(q), IsConfiguration(q[k]), q[k].setting.cfg = setting.cfg,
               \A j \in 1 .. Len(q) : j > k => ~IsConfiguration(q[j])
        PROVE  CfgIs(t, next, setting)
    <2>1. CASE k = 1
      <3>1. \A j \in 1 .. Len(t) : j + 1 > 1
        OBVIOUS
      <3>2. \A j \in 1 .. Len(t) : ~IsConfiguration(t[j])
        BY <3>1, <2>1, <1>1, <1>2
      <3> QED BY <3>2, <2>1, <1>2 DEF CfgIs
    <2>2. CASE k # 1
      <3>1. k - 1 \in 1 .. Len(t) /\ t[k - 1] = q[k]
        BY <2>2, <1>1
      <3>2. ASSUME NEW j \in 1 .. Len(t), j > k - 1 PROVE ~IsConfiguration(t[j])
        <4>1. j + 1 > k
          BY <3>2
        <4> QED BY <4>1, <1>1, <1>2
      <3> QED BY <3>1, <3>2, <1>2 DEF CfgIs
    <2> QED BY <2>1, <2>2
  <1>3. CASE (\A j \in 1 .. Len(q) : ~IsConfiguration(q[j])) /\ srv.cfg = setting.cfg
    BY <1>1, <1>3 DEF CfgIs
  <1> QED BY <1>2, <1>3 DEF CfgIs, t

\* And the same alternate setting.
LEMMA AltTail ==
  ASSUME NEW q \in Seq(Requests), q # <<>>, NEW srv, NEW next, NEW setting, AltIs(q, srv, setting),
         next.alt = IF IsReset(q[1]) THEN srv.alt ELSE AltOf(q[1])
  PROVE  AltIs(Tail(q), next, setting)
  <1> DEFINE t == Tail(q)
  <1>1. /\ \A i \in 1 .. Len(t) : i + 1 \in 1 .. Len(q) /\ t[i] = q[i + 1]
        /\ \A k \in 1 .. Len(q) : k = 1 \/ (k - 1 \in 1 .. Len(t) /\ t[k - 1] = q[k])
        /\ 1 \in 1 .. Len(q)
    BY TailOf
  <1> HIDE DEF t
  <1>2. ASSUME NEW k \in 1 .. Len(q), ~IsReset(q[k]), AltOf(q[k]) = setting.alt,
               \A j \in 1 .. Len(q) : j > k => IsReset(q[j])
        PROVE  AltIs(t, next, setting)
    <2>1. CASE k = 1
      <3>1. \A j \in 1 .. Len(t) : j + 1 > 1
        OBVIOUS
      <3>2. \A j \in 1 .. Len(t) : IsReset(t[j])
        BY <3>1, <2>1, <1>1, <1>2
      <3> QED BY <3>2, <2>1, <1>2 DEF AltIs
    <2>2. CASE k # 1
      <3>1. k - 1 \in 1 .. Len(t) /\ t[k - 1] = q[k]
        BY <2>2, <1>1
      <3>2. ASSUME NEW j \in 1 .. Len(t), j > k - 1 PROVE IsReset(t[j])
        <4>1. j + 1 > k
          BY <3>2
        <4> QED BY <4>1, <1>1, <1>2
      <3> QED BY <3>1, <3>2, <1>2 DEF AltIs
    <2> QED BY <2>1, <2>2
  <1>3. CASE (\A j \in 1 .. Len(q) : IsReset(q[j])) /\ srv.alt = setting.alt
    BY <1>1, <1>3 DEF AltIs
  <1> QED BY <1>2, <1>3 DEF AltIs, t

\* A selection of n is still ahead unless it was the one that was taken, and then none that
\* is older is left.
LEMMA AnnouncedTail ==
  ASSUME NEW q \in Seq(Requests), q # <<>>, NEW n \in Nat, Announced(q, n), IsReset(q[1]) \/ q[1].at # n
  PROVE  Announced(Tail(q), n)
  <1> DEFINE t == Tail(q)
  <1>1. /\ \A i \in 1 .. Len(t) : i + 1 \in 1 .. Len(q) /\ t[i] = q[i + 1]
        /\ \A k \in 1 .. Len(q) : k = 1 \/ (k - 1 \in 1 .. Len(t) /\ t[k - 1] = q[k])
    BY TailOf
  <1> HIDE DEF t
  <1>2. PICK k \in 1 .. Len(q) : /\ ~IsReset(q[k]) /\ q[k].at = n
                                 /\ \A j \in 1 .. Len(q) : j < k => ~(IsReset(q[j]) /\ q[j].at = n)
    BY DEF Announced
  <1>3. k - 1 \in 1 .. Len(t) /\ t[k - 1] = q[k]
    BY <1>1, <1>2
  <1>4. ASSUME NEW j \in 1 .. Len(t), j < k - 1 PROVE ~(IsReset(t[j]) /\ t[j].at = n)
    <2>1. j + 1 < k
      BY <1>4
    <2> QED BY <2>1, <1>1, <1>2
  <1> QED BY <1>2, <1>3, <1>4 DEF Announced, t

\* Less requests, none older.
LEMMA NoneOlderTail ==
  ASSUME NEW q \in Seq(Requests), q # <<>>, NEW n, NoneOlder(q, n)
  PROVE  NoneOlder(Tail(q), n)
  <1> DEFINE t == Tail(q)
  <1>1. \A i \in 1 .. Len(t) : i + 1 \in 1 .. Len(q) /\ t[i] = q[i + 1]
    BY TailOf
  <1> HIDE DEF t
  <1> QED BY <1>1 DEF NoneOlder, t

\* After the first request of the newest selection there is none of an older one.
LEMMA NoneOlderAfter ==
  ASSUME NEW q \in Seq(Requests), q # <<>>, NEW o, Ordered(q, o), q[1].at = o.at, o.at \in Nat
  PROVE  NoneOlder(Tail(q), o.at)
  <1> DEFINE t == Tail(q)
  <1>1. /\ \A i \in 1 .. Len(t) : i + 1 \in 1 .. Len(q) /\ t[i] = q[i + 1]
        /\ 1 \in 1 .. Len(q)
    BY TailOf
  <1>2. \A k \in 1 .. Len(q) : q[k] \in Requests
    BY ElementOfSeq
  <1>3. \A k \in 1 .. Len(q) : q[k].at \in Nat
    BY <1>2 DEF Requests
  <1> HIDE DEF t
  <1>4. \A k \in 1 .. Len(q) : q[k].at = o.at
    <2> SUFFICES ASSUME NEW k \in 1 .. Len(q) PROVE q[k].at = o.at
      OBVIOUS
    <2>1. q[k].at <= o.at /\ q[1].at <= q[k].at
      BY <1>1 DEF Ordered
    <2> QED BY <2>1, <1>3
  <1> QED BY <1>1, <1>4 DEF NoneOlder, t

\* Requests of one kind are added.
LEMMA OrderedAppend ==
  ASSUME NEW q \in Seq(Requests), NEW p \in Seq(Requests), NEW o, NEW c, Ordered(q, o),
         o.at \in Nat, c.at \in Nat, o.at <= c.at, o.at = c.at => c = o,
         \A i \in 1 .. Len(p) :
            /\ p[i].at = c.at
            /\ IF IsReset(p[i]) THEN p[i].address \in DOMAIN c.pipes /\ p[i].handle = c.pipes[p[i].address]
               ELSE p[i].pipes = c.pipes
  PROVE  Ordered(q \o p, c)
  <1> DEFINE w == q \o p
             n == Len(q)
  <1>1. /\ \A i \in 1 .. n : w[i] = q[i]
        /\ \A k \in 1 .. Len(w) : k \in 1 .. n \/ (k - n \in 1 .. Len(p) /\ w[k] = p[k - n])
        /\ n \in Nat /\ w \in Seq(Requests)
    BY ConcatOf
  <1>2. \A k \in 1 .. n : q[k].at \in Nat
    <2>1. \A k \in 1 .. n : q[k] \in Requests
      BY ElementOfSeq
    <2> QED BY <2>1 DEF Requests
  <1> HIDE DEF w, n
  <1>3. ASSUME NEW k \in 1 .. Len(w), k \notin 1 .. n
        PROVE  /\ w[k].at = c.at
               /\ IF IsReset(w[k]) THEN w[k].address \in DOMAIN c.pipes /\ w[k].handle = c.pipes[w[k].address]
                  ELSE w[k].pipes = c.pipes
    BY <1>1, <1>3
  <1>4. \A k \in 1 .. n : q[k].at <= o.at
    BY DEF Ordered, n
  <1>5. ASSUME NEW k \in 1 .. Len(w) PROVE w[k].at <= c.at
    <2>1. CASE k \in 1 .. n
      BY <2>1, <1>1, <1>2, <1>4
    <2>2. CASE k \notin 1 .. n
      BY <2>2, <1>3
    <2> QED BY <2>1, <2>2
  <1>6. ASSUME NEW j \in 1 .. Len(w), NEW k \in 1 .. Len(w), j <= k PROVE w[j].at <= w[k].at
    <2>1. CASE k \notin 1 .. n
      BY <2>1, <1>3, <1>5
    <2>2. CASE k \in 1 .. n
      <3>1. j \in 1 .. n
        BY <2>2, <1>1, <1>6
      <3>2. q[j].at <= q[k].at
        BY <3>1, <2>2, <1>6 DEF Ordered, n
      <3> QED BY <3>1, <3>2, <2>2, <1>1
    <2> QED BY <2>1, <2>2
  <1>7. ASSUME NEW k \in 1 .. Len(w), w[k].at = c.at
        PROVE  IF IsReset(w[k]) THEN w[k].address \in DOMAIN c.pipes /\ w[k].handle = c.pipes[w[k].address]
               ELSE w[k].pipes = c.pipes
    <2>1. CASE k \notin 1 .. n
      BY <2>1, <1>3
    <2>2. CASE k \in 1 .. n
      <3>1. q[k].at = c.at /\ w[k] = q[k]
        BY <2>2, <1>1, <1>7
      <3>2. c = o
        BY <3>1, <2>2, <1>2, <1>4
      <3> QED BY <3>1, <3>2, <2>2 DEF Ordered, n
    <2> QED BY <2>1, <2>2
  <1> QED BY <1>5, <1>6, <1>7 DEF Ordered, w

\* Requests that do not set the configuration leave the last one that does, and one that
\* does is the last.
LEMMA CfgAppend ==
  ASSUME NEW q \in Seq(Requests), NEW p \in Seq(Requests), NEW srv, NEW setting,
         \/ CfgIs(q, srv, setting) /\ \A i \in 1 .. Len(p) : ~IsConfiguration(p[i])
         \/ /\ Len(p) > 0
            /\ \A i \in 1 .. Len(p) : IsConfiguration(p[i]) /\ p[i].setting.cfg = setting.cfg
  PROVE  CfgIs(q \o p, srv, setting)
  <1> DEFINE w == q \o p
             n == Len(q)
             m == Len(p)
  <1>1. /\ \A i \in 1 .. n : i \in 1 .. Len(w) /\ w[i] = q[i]
        /\ \A i \in 1 .. m : n + i \in 1 .. Len(w) /\ w[n + i] = p[i]
        /\ \A k \in 1 .. Len(w) : k \in 1 .. n \/ (k - n \in 1 .. m /\ w[k] = p[k - n])
        /\ n \in Nat /\ m \in Nat /\ Len(w) = n + m
    BY ConcatOf
  <1> HIDE DEF w
  <1>2. CASE CfgIs(q, srv, setting) /\ \A i \in 1 .. m : ~IsConfiguration(p[i])
    <2>1. ASSUME NEW k \in 1 .. n, IsConfiguration(q[k]), q[k].setting.cfg = setting.cfg,
                 \A j \in 1 .. n : j > k => ~IsConfiguration(q[j])
          PROVE  CfgIs(w, srv, setting)
      <3>1. k \in 1 .. Len(w) /\ w[k] = q[k]
        BY <1>1
      <3>2. \A j \in 1 .. Len(w) : j > k => ~IsConfiguration(w[j])
        BY <2>1, <1>1, <1>2
      <3> QED BY <3>1, <3>2, <2>1 DEF CfgIs
    <2>2. CASE (\A j \in 1 .. n : ~IsConfiguration(q[j])) /\ srv.cfg = setting.cfg
      BY <2>2, <1>1, <1>2 DEF CfgIs
    <2> QED BY <2>1, <2>2, <1>2 DEF CfgIs, w
  <1>3. CASE m > 0 /\ \A i \in 1 .. m : IsConfiguration(p[i]) /\ p[i].setting.cfg = setting.cfg
    <2> HIDE DEF n, m
    <2>1. m \in 1 .. m /\ n + m \in 1 .. Len(w) /\ w[n + m] = p[m]
      BY <1>1, <1>3
    <2>2. \A j \in 1 .. Len(w) : ~(j > n + m)
      BY <1>1
    <2> QED BY <2>1, <2>2, <1>3 DEF CfgIs, w
  <1> QED BY <1>2, <1>3, Zenon DEF w

\* New requests are resets, or all of them set the alternate setting that is selected.
LEMMA AltAppend ==
  ASSUME NEW q \in Seq(Requests), NEW p \in Seq(Requests), NEW srv, NEW setting,
         \/ AltIs(q, srv, setting) /\ \A i \in 1 .. Len(p) : IsReset(p[i])
         \/ /\ Len(p) > 0
            /\ \A i \in 1 .. Len(p) : ~IsReset(p[i]) /\ AltOf(p[i]) = setting.alt
  PROVE  AltIs(q \o p, srv, setting)
  <1> DEFINE w == q \o p
             n == Len(q)
             m == Len(p)
  <1>1. /\ \A i \in 1 .. n : i \in 1 .. Len(w) /\ w[i] = q[i]
        /\ \A i \in 1 .. m : n + i \in 1 .. Len(w) /\ w[n + i] = p[i]
        /\ \A k \in 1 .. Len(w) : k \in 1 .. n \/ (k - n \in 1 .. m /\ w[k] = p[k - n])
        /\ n \in Nat /\ m \in Nat /\ Len(w) = n + m
    BY ConcatOf
  <1> HIDE DEF w
  <1>2. CASE AltIs(q, srv, setting) /\ \A i \in 1 .. m : IsReset(p[i])
    <2>1. ASSUME NEW k \in 1 .. n, ~IsReset(q[k]), AltOf(q[k]) = setting.alt,
                 \A j \in 1 .. n : j > k => IsReset(q[j])
          PROVE  AltIs(w, srv, setting)
      <3>1. k \in 1 .. Len(w) /\ w[k] = q[k]
        BY <1>1
      <3>2. \A j \in 1 .. Len(w) : j > k => IsReset(w[j])
        BY <2>1, <1>1, <1>2
      <3> QED BY <3>1, <3>2, <2>1 DEF AltIs
    <2>2. CASE (\A j \in 1 .. n : IsReset(q[j])) /\ srv.alt = setting.alt
      BY <2>2, <1>1, <1>2 DEF AltIs
    <2> QED BY <2>1, <2>2, <1>2 DEF AltIs, w
  <1>3. CASE m > 0 /\ \A i \in 1 .. m : ~IsReset(p[i]) /\ AltOf(p[i]) = setting.alt
    <2> HIDE DEF n, m
    <2>1. m \in 1 .. m /\ n + m \in 1 .. Len(w) /\ w[n + m] = p[m]
      BY <1>1, <1>3
    <2>2. \A j \in 1 .. Len(w) : ~(j > n + m)
      BY <1>1
    <2> QED BY <2>1, <2>2, <1>3 DEF AltIs, w
  <1> QED BY <1>2, <1>3, Zenon DEF w

\* A selection that is announced stays so, or is announced by the new requests.
LEMMA AnnouncedAppend ==
  ASSUME NEW q \in Seq(Requests), NEW p \in Seq(Requests), NEW n \in Nat,
         \/ Announced(q, n)
         \/ /\ Len(p) > 0 /\ ~IsReset(p[1]) /\ p[1].at = n
            /\ \A k \in 1 .. Len(q) : q[k].at # n
  PROVE  Announced(q \o p, n)
  <1> DEFINE w == q \o p
             l == Len(q)
  <1>1. /\ \A i \in 1 .. l : i \in 1 .. Len(w) /\ w[i] = q[i]
        /\ \A i \in 1 .. Len(p) : l + i \in 1 .. Len(w) /\ w[l + i] = p[i]
        /\ l \in Nat /\ Len(p) \in Nat /\ Len(w) = l + Len(p)
    BY ConcatOf
  <1> HIDE DEF w
  <1>2. CASE Announced(q, n)
    <2>1. PICK k \in 1 .. l : /\ ~IsReset(q[k]) /\ q[k].at = n
                              /\ \A j \in 1 .. l : j < k => ~(IsReset(q[j]) /\ q[j].at = n)
      BY <1>2 DEF Announced
    <2>2. \A j \in 1 .. Len(w) : j < k => ~(IsReset(w[j]) /\ w[j].at = n)
      BY <1>1, <2>1
    <2> QED BY <1>1, <2>1, <2>2 DEF Announced, w
  <1>3. CASE Len(p) > 0 /\ ~IsReset(p[1]) /\ p[1].at = n /\ \A k \in 1 .. l : q[k].at # n
    <2> HIDE DEF l
    <2>1. 1 \in 1 .. Len(p)
      BY <1>1, <1>3
    <2>2. l + 1 \in 1 .. Len(w) /\ w[l + 1] = p[1]
      BY <1>1, <2>1
    <2>3. \A j \in 1 .. Len(w) : j < l + 1 => j \in 1 .. l
      BY <1>1
    <2>4. \A j \in 1 .. Len(w) : j < l + 1 => ~(IsReset(w[j]) /\ w[j].at = n)
      BY <2>3, <1>1, <1>3
    <2> QED BY <2>2, <2>4, <1>3 DEF Announced, w
  <1> QED BY <1>2, <1>3 DEF w

\* Resets are of no selection.
LEMMA NoneOlderAppend ==
  ASSUME NEW q \in Seq(Requests), NEW p \in Seq(Requests), NEW n,
         NoneOlder(q, n), \A i \in 1 .. Len(p) : IsReset(p[i])
  PROVE  NoneOlder(q \o p, n)
  <1> DEFINE w == q \o p
             l == Len(q)
  <1>1. /\ \A i \in 1 .. l : w[i] = q[i]
        /\ \A k \in 1 .. Len(w) : k \in 1 .. l \/ (k - l \in 1 .. Len(p) /\ w[k] = p[k - l])
    BY ConcatOf
  <1> HIDE DEF w
  <1> QED BY <1>1 DEF NoneOlder, w

-----------------------------------------------------------------------------
(* The list of endpoints.                                                   *)

\* Only the pipe handles differ.
LEMMA SameEndpoints ==
  ASSUME NEW list, NEW new, NEW n, NewestFirst(list, n), Len(new) = Len(list),
         \A i \in 1 .. Len(list) : new[i].at = list[i].at /\ new[i].address = list[i].address
  PROVE  NewestFirst(new, n) /\ \A m : AddressesOf(new, m) = AddressesOf(list, m)
  <1>1. NewestFirst(new, n)
    BY DEF NewestFirst
  <1>2. ASSUME NEW m PROVE AddressesOf(new, m) = AddressesOf(list, m)
    BY DEF AddressesOf
  <1> QED BY <1>1, <1>2

\* find_endpoint finds the first of those that match.
LEMMA FindsFirst ==
  ASSUME NEW list \in Seq(Endpoints), NEW crit,
         \E i \in 1 .. Len(list) : matches(list[i], crit)
  PROVE  LET i == find_endpoint(list, crit) IN
         /\ i \in 1 .. Len(list) /\ matches(list[i], crit)
         /\ \A j \in 1 .. Len(list) : matches(list[j], crit) => i <= j
  <1> DEFINE found == {i \in 1 .. Len(list) : matches(list[i], crit)}
             x == CHOOSE i \in found : \A j \in found : i <= j
  <1>1. DOMAIN list = 1 .. Len(list) /\ Len(list) \in Nat
    BY LenProperties
  <1>2. found # {} /\ found \subseteq Nat
    BY <1>1
  <1>3. \E i \in found : \A j \in found : i <= j
    BY <1>2, LeastNumber
  <1>4. x \in found /\ \A j \in found : x <= j
    BY <1>3
  <1>5. find_endpoint(list, crit) = x
    BY <1>1, <1>2 DEF find_endpoint
  <1> HIDE DEF x
  <1> QED BY <1>4, <1>5

\* The first endpoint with an address of the newest setting is that of the setting.
LEMMA NewestIsFound ==
  ASSUME NEW list \in Seq(Endpoints), NEW n \in Nat, NewestFirst(list, n),
         NEW k \in 1 .. Len(list), list[k].at = n
  PROVE  find_endpoint(list, [address |-> list[k].address]) = k
  <1> DEFINE crit == [address |-> list[k].address]
             i == find_endpoint(list, crit)
  <1>1. \A j \in 1 .. Len(list) : matches(list[j], crit) <=> list[j].address = list[k].address
    BY DEF matches
  <1>2. /\ i \in 1 .. Len(list) /\ matches(list[i], crit)
        /\ \A j \in 1 .. Len(list) : matches(list[j], crit) => i <= j
    BY <1>1, FindsFirst
  <1> HIDE DEF i, crit
  <1>3. i <= k /\ list[i].address = list[k].address
    BY <1>1, <1>2
  <1>4. list[i].at \in Nat
    <2>1. list[i] \in Endpoints
      BY <1>2, ElementOfSeq
    <2> QED BY <2>1 DEF Endpoints
  <1>5. n <= list[i].at /\ list[i].at <= n
    BY <1>2, <1>3 DEF NewestFirst
  <1>6. list[i].at = n
    BY <1>4, <1>5
  <1>7. i = k
    BY <1>2, <1>3, <1>6 DEF NewestFirst
  <1> QED BY <1>7 DEF i, crit

\* The pipe handles of the newest setting find its endpoints.
LEMMA HandleIsFound ==
  ASSUME NEW list \in Seq(Endpoints), NEW o, o.at \in Nat, NewestFirst(list, o.at),
         AddressesOf(list, o.at) = DOMAIN o.pipes, IsInjective(o.pipes), Noted(list, o),
         NEW a \in DOMAIN o.pipes
  PROVE  LET i == find_endpoint(list, [handle |-> o.pipes[a]]) IN
         i \in 1 .. Len(list) /\ list[i].address = a
  <1> DEFINE crit == [handle |-> o.pipes[a]]
             i == find_endpoint(list, crit)
  <1>1. \A j \in 1 .. Len(list) : matches(list[j], crit) <=> list[j].handle = o.pipes[a]
    BY DEF matches
  <1>2. PICK k \in 1 .. Len(list) : list[k].at = o.at /\ list[k].address = a
    BY DEF AddressesOf
  <1>3. list[k].handle = o.pipes[a]
    BY <1>2 DEF Noted
  <1>4. /\ i \in 1 .. Len(list) /\ matches(list[i], crit)
        /\ \A j \in 1 .. Len(list) : matches(list[j], crit) => i <= j
    BY <1>1, <1>3, FindsFirst
  <1> HIDE DEF i, crit
  <1>5. i <= k /\ list[i].handle = o.pipes[a]
    BY <1>1, <1>3, <1>4
  <1>6. list[i].at \in Nat
    <2>1. list[i] \in Endpoints
      BY <1>4, ElementOfSeq
    <2> QED BY <2>1 DEF Endpoints
  <1>7. o.at <= list[i].at /\ list[i].at <= o.at
    BY <1>2, <1>4, <1>5 DEF NewestFirst
  <1>8. list[i].at = o.at
    BY <1>6, <1>7
  <1>9. list[i].handle = o.pipes[list[i].address] /\ list[i].address \in DOMAIN o.pipes
    BY <1>4, <1>8 DEF Noted, AddressesOf
  <1>10. list[i].address = a
    BY <1>5, <1>9 DEF IsInjective
  <1> QED BY <1>4, <1>10 DEF i, crit

\* update_pipe_properties changes handles only, and notes those of the newest setting.
LEMMA UpdateNotes ==
  ASSUME NEW list \in Seq(Endpoints), NEW pipes \in Pipes
  PROVE  LET new == update_pipe_properties(list, pipes) IN
         /\ new \in Seq(Endpoints) /\ Len(new) = Len(list)
         /\ \A i \in 1 .. Len(list) : new[i].at = list[i].at /\ new[i].address = list[i].address
         /\ \A n \in Nat : NewestFirst(list, n) /\ AddressesOf(list, n) = DOMAIN pipes =>
              \A i \in 1 .. Len(list) : list[i].at = n => new[i].handle = pipes[list[i].address]
  <1> DEFINE new == update_pipe_properties(list, pipes)
             at(i) == find_endpoint(list, [address |-> list[i].address])
  <1>1. DOMAIN list = 1 .. Len(list) /\ Len(list) \in Nat
    BY LenProperties
  <1>2. new = [i \in 1 .. Len(list) |->
                 IF list[i].address \in DOMAIN pipes /\ at(i) = i
                 THEN [list[i] EXCEPT !.handle = pipes[list[i].address]] ELSE list[i]]
    BY <1>1 DEF update_pipe_properties
  <1> HIDE DEF at, new
  <1>3. \A a \in DOMAIN pipes : pipes[a] \in Handles
    BY DEF Pipes, NoPipes
  <1>4. \A i \in 1 .. Len(list) : list[i] \in Endpoints
    BY ElementOfSeq
  <1>5. \A i \in 1 .. Len(list) : /\ new[i] \in Endpoints
                                  /\ new[i].at = list[i].at /\ new[i].address = list[i].address
    BY <1>2, <1>3, <1>4 DEF Endpoints
  <1>6. new \in Seq(Endpoints) /\ Len(new) = Len(list)
    <2>1. new \in [1 .. Len(list) -> Endpoints]
      BY <1>2, <1>5
    <2> QED BY <2>1, <1>1, SeqDef, LenProperties
  <1>7. ASSUME NEW n \in Nat, NewestFirst(list, n), AddressesOf(list, n) = DOMAIN pipes,
               NEW i \in 1 .. Len(list), list[i].at = n
        PROVE  new[i].handle = pipes[list[i].address]
    <2>1. at(i) = i
      BY <1>7, NewestIsFound DEF at
    <2>2. list[i].address \in DOMAIN pipes
      BY <1>7 DEF AddressesOf
    <2>3. new[i] = [list[i] EXCEPT !.handle = pipes[list[i].address]]
      BY <2>1, <2>2, <1>2
    <2> QED BY <2>3, <1>4 DEF Endpoints
  <1> QED BY <1>5, <1>6, <1>7 DEF new

\* What endpoint_cleanup leaves.
LEMMA RemoveOne ==
  ASSUME NEW list \in Seq(Endpoints), NEW x \in 1 .. Len(list)
  PROVE  LET new == RemoveAt(list, x) IN
         /\ new \in Seq(Endpoints)
         /\ \A j \in 1 .. Len(new) :
              \E i \in 1 .. Len(list) : i # x /\ (i = IF j < x THEN j ELSE j + 1) /\ new[j] = list[i]
         /\ \A i \in 1 .. Len(list) : i # x => \E j \in 1 .. Len(new) : new[j] = list[i]
  <1> DEFINE n == Len(list)
             a == SubSeq(list, 1, x - 1)
             b == SubSeq(list, x + 1, n)
             new == a \o b
  <1>1. n \in Nat /\ x \in Nat /\ x >= 1 /\ x <= n /\ \A i \in 1 .. n : list[i] \in Endpoints
    BY LenProperties, ElementOfSeq
  <1>2. a \in Seq(Endpoints) /\ Len(a) = x - 1 /\ \A i \in 1 .. x - 1 : a[i] = list[i]
    <2>1. \A i \in 1 .. x - 1 : list[i] \in Endpoints
      BY <1>1
    <2>2. x - 1 \in Int /\ 1 \in Int
      BY <1>1
    <2>3. /\ a \in Seq(Endpoints) /\ Len(a) = (IF 1 <= x - 1 THEN (x - 1) - 1 + 1 ELSE 0)
          /\ \A i \in 1 .. (x - 1) - 1 + 1 : a[i] = list[1 + i - 1]
      BY <2>1, <2>2, SubSeqProperties
    <2> HIDE DEF a
    <2>4. Len(a) = x - 1 /\ (x - 1) - 1 + 1 = x - 1
      BY <2>3, <1>1
    <2>5. \A i \in 1 .. x - 1 : 1 + i - 1 = i
      OBVIOUS
    <2> QED BY <2>3, <2>4, <2>5
  <1>3. b \in Seq(Endpoints) /\ Len(b) = n - x /\ \A i \in 1 .. n - x : b[i] = list[x + i]
    <2>1. \A i \in x + 1 .. n : list[i] \in Endpoints
      BY <1>1
    <2>2. x + 1 \in Int /\ n \in Int
      BY <1>1
    <2>3. /\ b \in Seq(Endpoints) /\ Len(b) = (IF x + 1 <= n THEN n - (x + 1) + 1 ELSE 0)
          /\ \A i \in 1 .. n - (x + 1) + 1 : b[i] = list[x + 1 + i - 1]
      <3> HIDE DEF n
      <3> QED BY <2>1, <2>2, SubSeqProperties
    <2> HIDE DEF b, n
    <2>4. Len(b) = n - x /\ n - (x + 1) + 1 = n - x
      BY <2>3, <1>1
    <2>5. \A i \in 1 .. n - x : x + 1 + i - 1 = x + i
      BY <1>1
    <2> QED BY <2>3, <2>4, <2>5
  <1>4. RemoveAt(list, x) = new
    BY DEF RemoveAt
  <1> HIDE DEF a, b, n
  <1>5. /\ new \in Seq(Endpoints) /\ Len(new) = (x - 1) + (n - x)
        /\ \A i \in 1 .. (x - 1) + (n - x) : new[i] = IF i <= x - 1 THEN a[i] ELSE b[i - (x - 1)]
    <2>1. /\ new \in Seq(Endpoints) /\ Len(new) = Len(a) + Len(b)
          /\ \A i \in 1 .. Len(a) + Len(b) : new[i] = IF i <= Len(a) THEN a[i] ELSE b[i - Len(a)]
      BY <1>2, <1>3, ConcatProperties
    <2>2. Len(a) = x - 1 /\ Len(b) = n - x
      BY <1>2, <1>3
    <2> HIDE DEF new
    <2> QED BY <2>1, <2>2, Zenon
  <1> HIDE DEF new
  <1>6. Len(new) = n - 1
    BY <1>1, <1>5
  <1>7. \A j \in 1 .. n - 1 : new[j] = IF j < x THEN list[j] ELSE list[j + 1]
    <2> TAKE j \in 1 .. n - 1
    <2>1. new[j] = IF j <= x - 1 THEN a[j] ELSE b[j - (x - 1)]
      <3>1. j \in 1 .. (x - 1) + (n - x)
        BY <1>1
      <3> QED BY <3>1, <1>5, Zenon
    <2>2. CASE j < x
      <3>1. j <= x - 1 /\ j \in 1 .. x - 1
        BY <2>2, <1>1
      <3> QED BY <3>1, <2>1, <2>2, <1>2
    <2>3. CASE ~(j < x)
      <3>1. ~(j <= x - 1) /\ j - (x - 1) \in 1 .. n - x /\ x + (j - (x - 1)) = j + 1
        BY <2>3, <1>1
      <3> QED BY <3>1, <2>1, <2>3, <1>3
    <2> QED BY <2>2, <2>3
  <1>8. ASSUME NEW j \in 1 .. Len(new)
        PROVE  \E i \in 1 .. n : i # x /\ (i = IF j < x THEN j ELSE j + 1) /\ new[j] = list[i]
    <2>1. j \in 1 .. n - 1
      BY <1>6
    <2>2. (IF j < x THEN j ELSE j + 1) \in 1 .. n /\ (IF j < x THEN j ELSE j + 1) # x
      BY <1>1, <2>1
    <2> QED BY <2>1, <2>2, <1>7
  <1>9. ASSUME NEW i \in 1 .. n, i # x
        PROVE  \E j \in 1 .. Len(new) : new[j] = list[i]
    <2>1. CASE i < x
      <3>1. i \in 1 .. n - 1
        BY <2>1, <1>1
      <3> QED BY <3>1, <2>1, <1>6, <1>7
    <2>2. CASE i > x
      <3>1. i - 1 \in 1 .. n - 1 /\ ~(i - 1 < x) /\ (i - 1) + 1 = i
        BY <2>2, <1>1
      <3> QED BY <3>1, <1>6, <1>7
    <2> QED BY <2>1, <2>2, <1>1, <1>9
  <1> QED BY <1>4, <1>5, <1>8, <1>9 DEF n

\* The order stays, and so do the endpoints of another selection than that of the one
\* which is removed.
LEMMA RemoveKeeps ==
  ASSUME NEW list \in Seq(Endpoints), NEW x \in 1 .. Len(list), NEW n, NewestFirst(list, n)
  PROVE  LET new == RemoveAt(list, x) IN
         /\ NewestFirst(new, n)
         /\ \A m : m # list[x].at => AddressesOf(new, m) = AddressesOf(list, m)
         /\ \A o : Noted(list, o) => Noted(new, o)
  <1> DEFINE new == RemoveAt(list, x)
  <1>1. /\ \A j \in 1 .. Len(new) :
             \E i \in 1 .. Len(list) : i # x /\ (i = IF j < x THEN j ELSE j + 1) /\ new[j] = list[i]
        /\ \A i \in 1 .. Len(list) : i # x => \E j \in 1 .. Len(new) : new[j] = list[i]
    BY RemoveOne
  <1> HIDE DEF new
  <1> DEFINE from(j) == IF j < x THEN j ELSE j + 1
  <1>2. \A j \in 1 .. Len(new) : from(j) \in 1 .. Len(list) /\ new[j] = list[from(j)]
    BY <1>1
  <1>3. \A i, j \in 1 .. Len(new) : (i <= j => from(i) <= from(j)) /\ (from(i) = from(j) => i = j)
    <2> TAKE i \in 1 .. Len(new), j \in 1 .. Len(new)
    <2>1. x \in Int
      OBVIOUS
    <2> QED BY <2>1
  <1> HIDE DEF from
  <1>4. NewestFirst(new, n)
    <2>1. \A i \in 1 .. Len(new) : 1 <= new[i].at /\ new[i].at <= n
      BY <1>2 DEF NewestFirst
    <2>2. \A i, j \in 1 .. Len(new) : i <= j => new[j].at <= new[i].at
      <3> TAKE i \in 1 .. Len(new), j \in 1 .. Len(new)
      <3> HAVE i <= j
      <3>1. from(i) <= from(j)
        BY <1>3
      <3> QED BY <3>1, <1>2 DEF NewestFirst
    <2>3. \A i, j \in 1 .. Len(new) :
             new[i].at = new[j].at /\ new[i].address = new[j].address => i = j
      <3> TAKE i \in 1 .. Len(new), j \in 1 .. Len(new)
      <3> HAVE new[i].at = new[j].at /\ new[i].address = new[j].address
      <3>1. from(i) = from(j)
        BY <1>2 DEF NewestFirst
      <3> QED BY <3>1, <1>3
    <2> QED BY <2>1, <2>2, <2>3 DEF NewestFirst
  <1>5. ASSUME NEW m, m # list[x].at PROVE AddressesOf(new, m) = AddressesOf(list, m)
    <2>1. ASSUME NEW i \in 1 .. Len(list), list[i].at = m
          PROVE  \E j \in 1 .. Len(new) : new[j].at = m /\ new[j].address = list[i].address
      BY <2>1, <1>1, <1>5
    <2>2. ASSUME NEW j \in 1 .. Len(new), new[j].at = m
          PROVE  \E i \in 1 .. Len(list) : list[i].at = m /\ list[i].address = new[j].address
      BY <2>2, <1>2
    <2>3. AddressesOf(new, m) \subseteq AddressesOf(list, m)
      BY <2>2 DEF AddressesOf
    <2>4. AddressesOf(list, m) \subseteq AddressesOf(new, m)
      BY <2>1 DEF AddressesOf
    <2> QED BY <2>3, <2>4
  <1>6. ASSUME NEW o, Noted(list, o) PROVE Noted(new, o)
    BY <1>2, <1>6 DEF Noted
  <1> QED BY <1>4, <1>5, <1>6 DEF new

\* A new endpoint is the first.
LEMMA InsertOne ==
  ASSUME NEW list \in Seq(Endpoints), NEW n \in Nat \ {0}, NewestFirst(list, n), NEW a \in Addresses,
         a \notin AddressesOf(list, n)
  PROVE  LET new == insert_endpoint_list(list, endpoint_ctx(a, n)) IN
         /\ new \in Seq(Endpoints) /\ NewestFirst(new, n)
         /\ AddressesOf(new, n) = AddressesOf(list, n) \cup {a}
         /\ \A m : m # n => AddressesOf(new, m) = AddressesOf(list, m)
  <1> DEFINE e == endpoint_ctx(a, n)
             new == <<e>> \o list
             l == Len(list)
  <1>1. e \in Endpoints /\ e.at = n /\ e.address = a
    BY DEF endpoint_ctx, Endpoints
  <1> HIDE DEF e
  <1>2. <<e>> \in Seq(Endpoints) /\ Len(<<e>>) = 1 /\ <<e>>[1] = e
    BY <1>1
  <1>3. l \in Nat /\ \A i \in 1 .. l : list[i] \in Endpoints
    BY LenProperties, ElementOfSeq
  <1>4. /\ new \in Seq(Endpoints) /\ Len(new) = 1 + l
        /\ \A i \in 1 .. 1 + l : new[i] = IF i <= 1 THEN <<e>>[i] ELSE list[i - 1]
    BY <1>2, ConcatProperties
  <1> HIDE DEF new, l
  <1>5. /\ 1 \in 1 .. Len(new) /\ new[1] = e
        /\ \A i \in 1 .. l : i + 1 \in 1 .. Len(new) /\ new[i + 1] = list[i]
        /\ \A k \in 1 .. Len(new) : k = 1 \/ (k - 1 \in 1 .. l /\ new[k] = list[k - 1])
    <2>1. 1 \in 1 .. 1 + l /\ new[1] = e
      BY <1>2, <1>3, <1>4
    <2>2. ASSUME NEW i \in 1 .. l PROVE i + 1 \in 1 .. Len(new) /\ new[i + 1] = list[i]
      <3>1. i + 1 \in 1 .. 1 + l /\ ~(i + 1 <= 1) /\ (i + 1) - 1 = i
        BY <1>3
      <3> QED BY <3>1, <1>4
    <2>3. ASSUME NEW k \in 1 .. Len(new), k # 1 PROVE k - 1 \in 1 .. l /\ new[k] = list[k - 1]
      <3>1. k \in 1 .. 1 + l /\ ~(k <= 1) /\ k - 1 \in 1 .. l
        BY <1>3, <1>4, <2>3
      <3> QED BY <3>1, <1>4
    <2> QED BY <2>1, <2>2, <2>3, <1>4
  <1>6. \A i \in 1 .. l : 1 <= list[i].at /\ list[i].at <= n /\ list[i].at \in Nat
    BY <1>3 DEF NewestFirst, Endpoints, l
  <1>7. NewestFirst(new, n)
    <2>1. \A i \in 1 .. Len(new) : 1 <= new[i].at /\ new[i].at <= n
      BY <1>1, <1>5, <1>6
    <2>2. ASSUME NEW i \in 1 .. Len(new), NEW j \in 1 .. Len(new), i <= j
          PROVE  new[j].at <= new[i].at
      <3>1. CASE i = 1
        BY <3>1, <2>1, <1>1, <1>5
      <3>2. CASE i # 1
        <4>1. j # 1 /\ i - 1 <= j - 1
          BY <3>2, <2>2
        <4>2. i - 1 \in 1 .. l /\ new[i] = list[i - 1] /\ j - 1 \in 1 .. l /\ new[j] = list[j - 1]
          BY <4>1, <3>2, <1>5
        <4> QED BY <4>1, <4>2 DEF NewestFirst, l
      <3> QED BY <3>1, <3>2
    <2>3. ASSUME NEW i \in 1 .. Len(new), NEW j \in 1 .. Len(new),
                 new[i].at = new[j].at, new[i].address = new[j].address
          PROVE  i = j
      <3>1. ASSUME NEW k \in 1 .. Len(new), k # 1 PROVE ~(new[k].at = n /\ new[k].address = a)
        BY <3>1, <1>5 DEF AddressesOf, l
      <3>2. CASE i = 1
        BY <3>1, <3>2, <2>3, <1>1, <1>5
      <3>3. CASE j = 1
        BY <3>1, <3>3, <2>3, <1>1, <1>5
      <3>4. CASE i # 1 /\ j # 1
        <4>1. i - 1 \in 1 .. l /\ new[i] = list[i - 1] /\ j - 1 \in 1 .. l /\ new[j] = list[j - 1]
          BY <3>4, <1>5
        <4>2. i - 1 = j - 1
          BY <4>1, <2>3 DEF NewestFirst, l
        <4> QED BY <4>2
      <3> QED BY <3>2, <3>3, <3>4
    <2> QED BY <2>1, <2>2, <2>3 DEF NewestFirst
  <1>8. AddressesOf(new, n) = AddressesOf(list, n) \cup {a}
    <2>1. ASSUME NEW k \in 1 .. Len(new), new[k].at = n PROVE new[k].address \in AddressesOf(list, n) \cup {a}
      BY <2>1, <1>1, <1>5 DEF AddressesOf, l
    <2>2. a \in AddressesOf(new, n)
      BY <1>1, <1>5 DEF AddressesOf
    <2>3. ASSUME NEW i \in 1 .. l, list[i].at = n PROVE list[i].address \in AddressesOf(new, n)
      BY <2>3, <1>5 DEF AddressesOf
    <2> QED BY <2>1, <2>2, <2>3 DEF AddressesOf, l
  <1>9. ASSUME NEW m, m # n PROVE AddressesOf(new, m) = AddressesOf(list, m)
    <2>1. ASSUME NEW k \in 1 .. Len(new), new[k].at = m PROVE new[k].address \in AddressesOf(list, m)
      BY <2>1, <1>1, <1>5, <1>9 DEF AddressesOf, l
    <2>2. ASSUME NEW i \in 1 .. l, list[i].at = m PROVE list[i].address \in AddressesOf(new, m)
      BY <2>2, <1>5 DEF AddressesOf
    <2> QED BY <2>1, <2>2 DEF AddressesOf, l
  <1>10. insert_endpoint_list(list, endpoint_ctx(a, n)) = new
    BY DEF insert_endpoint_list, new, e
  <1> QED BY <1>4, <1>7, <1>8, <1>9, <1>10

-----------------------------------------------------------------------------
(* endpoint_add for all the pipes of a setting.                             *)

ChosenBy(s) == CHOOSE x \in s : TRUE

\* The body of the fold in AddAll.
AddStep(list, at, E, f) ==
  [s \in SUBSET E |->
     IF s = {} THEN list ELSE insert_endpoint_list(f[s \ {ChosenBy(s)}], endpoint_ctx(ChosenBy(s), at))]

\* A set gets smaller by the element that is chosen.
LEMMA ChosenIsRemoved ==
  ASSUME NEW s, IsFiniteSet(s), s # {}
  PROVE  /\ ChosenBy(s) \in s /\ IsFiniteSet(s \ {ChosenBy(s)})
         /\ \A n \in Nat : Cardinality(s) <= n + 1 => Cardinality(s \ {ChosenBy(s)}) <= n
  <1>1. ChosenBy(s) \in s
    BY DEF ChosenBy
  <1>2. /\ IsFiniteSet(s \ {ChosenBy(s)})
        /\ Cardinality(s \ {ChosenBy(s)}) = Cardinality(s) - 1
    BY <1>1, FS_RemoveElement
  <1>3. Cardinality(s) \in Nat
    BY FS_CardinalityType
  <1> QED BY <1>1, <1>2, <1>3

\* The recursive function that adds endpoints exists.
LEMMA AddAllExists ==
  ASSUME NEW list, NEW E, IsFiniteSet(E)
  PROVE  \E f : f = AddStep(list, selects', E, f) /\ AddAll(list, E) = f[E]
  <1> DEFINE at == selects'
  <1>8. AddAll(list, E) = (CHOOSE f : f = AddStep(list, at, E, f))[E]
    BY DEF AddAll, FoldSet, MapThenFoldSet, AddStep, ChosenBy
  <1>0. /\ \A s \in SUBSET E : IsFiniteSet(s) /\ Cardinality(s) \in Nat
                               /\ Cardinality(s) <= Cardinality(E)
        /\ Cardinality(E) \in Nat
    BY FS_Subset, FS_CardinalityType
  <1> HIDE DEF at
  <1> DEFINE S == {n \in Nat : \E h :
                     /\ h = [s \in SUBSET E |-> h[s]]
                     /\ \A s \in SUBSET E : Cardinality(s) <= n => h[s] = AddStep(list, at, E, h)[s]}
  <1>1. 0 \in S
    <2>1. \A s \in SUBSET E : Cardinality(s) <= 0 => s = {}
      BY <1>0, FS_EmptySet
    <2> DEFINE e == [s \in SUBSET E |-> list]
    <2>2. e[{}] = list /\ AddStep(list, at, E, e)[{}] = list
      BY DEF AddStep
    <2>3. e = [s \in SUBSET E |-> e[s]]
      OBVIOUS
    <2> HIDE DEF e
    <2> QED BY <2>1, <2>2, <2>3
  <1>2. ASSUME NEW n \in Nat, n \in S
        PROVE  n + 1 \in S
    <2>1. PICK h : \A s \in SUBSET E : Cardinality(s) <= n => h[s] = AddStep(list, at, E, h)[s]
      BY <1>2
    <2> HIDE DEF S
    <2> DEFINE g == AddStep(list, at, E, h)
    <2>2. ASSUME NEW s \in SUBSET E, Cardinality(s) <= n + 1
          PROVE  g[s] = AddStep(list, at, E, g)[s]
      <3>1. CASE s = {}
        BY <3>1 DEF AddStep
      <3>2. CASE s # {}
        <4> DEFINE r == s \ {ChosenBy(s)}
        <4>1. r \in SUBSET E /\ Cardinality(r) <= n
          BY <3>2, <2>2, <1>0, ChosenIsRemoved
        <4>2. g[r] = h[r]
          BY <4>1, <2>1
        <4> HIDE DEF r
        <4>3. g[s] = insert_endpoint_list(h[r], endpoint_ctx(ChosenBy(s), at))
          BY <3>2 DEF AddStep, r
        <4>4. AddStep(list, at, E, g)[s] = insert_endpoint_list(g[r], endpoint_ctx(ChosenBy(s), at))
          <5> HIDE DEF g
          <5> QED BY <3>2 DEF AddStep, r
        <4> QED BY <4>2, <4>3, <4>4
      <3> QED BY <3>1, <3>2
    <2>3. g = [s \in SUBSET E |-> g[s]]
      BY DEF AddStep
    <2> HIDE DEF g
    <2>4. \A s \in SUBSET E : Cardinality(s) <= n + 1 => g[s] = AddStep(list, at, E, g)[s]
      BY <2>2
    <2>5. n + 1 \in Nat
      OBVIOUS
    <2> QED BY <2>3, <2>4, <2>5, Zenon DEF S
  <1>3. Cardinality(E) \in S
    <2> HIDE DEF S
    <2> QED BY <1>0, <1>1, <1>2, SetInduction
  <1>4. PICK h : /\ h = [s \in SUBSET E |-> h[s]]
                 /\ \A s \in SUBSET E : Cardinality(s) <= Cardinality(E) => h[s] = AddStep(list, at, E, h)[s]
    BY <1>3
  <1>5. h = AddStep(list, at, E, h)
    <2>1. \A s \in SUBSET E : h[s] = AddStep(list, at, E, h)[s]
      BY <1>0, <1>4
    <2>2. AddStep(list, at, E, h) = [s \in SUBSET E |-> AddStep(list, at, E, h)[s]]
      BY DEF AddStep
    <2> QED BY <1>4, <2>1, <2>2
  <1>6. \E f : f = AddStep(list, at, E, f)
    BY <1>5
  <1> DEFINE f == CHOOSE f : f = AddStep(list, at, E, f)
  <1>7. f = AddStep(list, at, E, f)
    BY <1>6
  <1>9. AddAll(list, E) = f[E]
    BY <1>8
  <1> HIDE DEF f
  <1> QED BY <1>7, <1>9 DEF at

\* They are the first in the list, one for each address.
LEMMA AddAllKeeps ==
  ASSUME NEW list \in Seq(Endpoints), NEW n \in Nat, NewestFirst(list, n), selects' = n + 1,
         NEW E \in SUBSET Addresses, IsFiniteSet(E)
  PROVE  /\ AddAll(list, E) \in Seq(Endpoints) /\ NewestFirst(AddAll(list, E), n + 1)
         /\ AddressesOf(AddAll(list, E), n + 1) = E
         /\ \A m \in 0 .. n : AddressesOf(AddAll(list, E), m) = AddressesOf(list, m)
  <1>1. PICK f : f = AddStep(list, n + 1, E, f) /\ AddAll(list, E) = f[E]
    <2>1. \E f : f = AddStep(list, selects', E, f) /\ AddAll(list, E) = f[E]
      BY AddAllExists
    <2> QED BY <2>1
  <1>2. /\ \A s \in SUBSET E : IsFiniteSet(s) /\ Cardinality(s) \in Nat
                               /\ Cardinality(s) <= Cardinality(E)
        /\ Cardinality(E) \in Nat
    BY FS_Subset, FS_CardinalityType
  <1> DEFINE P(s) == /\ f[s] \in Seq(Endpoints) /\ NewestFirst(f[s], n + 1)
                     /\ AddressesOf(f[s], n + 1) = s
                     /\ \A m \in 0 .. n : AddressesOf(f[s], m) = AddressesOf(list, m)
             S == {k \in Nat : \A s \in SUBSET E : Cardinality(s) <= k => P(s)}
  <1>3. P({})
    <2>1. f[{}] = list
      BY <1>1 DEF AddStep
    <2>2. \A i \in 1 .. Len(list) : list[i].at <= n /\ list[i].at \in Nat
      <3>1. \A i \in 1 .. Len(list) : list[i] \in Endpoints
        BY ElementOfSeq
      <3> QED BY <3>1 DEF NewestFirst, Endpoints
    <2>3. NewestFirst(list, n + 1)
      <3>1. \A i \in 1 .. Len(list) : 1 <= list[i].at /\ list[i].at <= n + 1
        BY <2>2 DEF NewestFirst
      <3> QED BY <3>1 DEF NewestFirst
    <2>4. AddressesOf(list, n + 1) = {}
      BY <2>2 DEF AddressesOf
    <2> QED BY <2>1, <2>3, <2>4
  <1>4. ASSUME NEW s \in SUBSET E, s # {}, P(s \ {ChosenBy(s)})
        PROVE  P(s)
    <2> DEFINE e == ChosenBy(s)
               a == f[s \ {ChosenBy(s)}]
    <2>1. e \in s /\ e \in Addresses
      BY <1>4 DEF ChosenBy
    <2>2. a \in Seq(Endpoints) /\ NewestFirst(a, n + 1) /\ AddressesOf(a, n + 1) = s \ {e}
          /\ \A m \in 0 .. n : AddressesOf(a, m) = AddressesOf(list, m)
      BY <1>4
    <2>3. f[s] = insert_endpoint_list(a, endpoint_ctx(e, n + 1))
      BY <1>1, <1>4 DEF AddStep
    <2> HIDE DEF a, e
    <2>4. n + 1 \in Nat \ {0} /\ e \notin AddressesOf(a, n + 1)
      BY <2>2
    <2>5. /\ f[s] \in Seq(Endpoints) /\ NewestFirst(f[s], n + 1)
          /\ AddressesOf(f[s], n + 1) = AddressesOf(a, n + 1) \cup {e}
          /\ \A m : m # n + 1 => AddressesOf(f[s], m) = AddressesOf(a, m)
      BY <2>1, <2>2, <2>3, <2>4, InsertOne
    <2>6. AddressesOf(f[s], n + 1) = s
      BY <2>1, <2>2, <2>5
    <2>7. \A m \in 0 .. n : m # n + 1
      OBVIOUS
    <2> QED BY <2>2, <2>5, <2>6, <2>7
  <1> HIDE DEF P
  <1>5. 0 \in S
    <2>1. \A s \in SUBSET E : Cardinality(s) <= 0 => s = {}
      BY <1>2, FS_EmptySet
    <2> QED BY <2>1, <1>3
  <1>6. ASSUME NEW k \in Nat, k \in S PROVE k + 1 \in S
    <2> SUFFICES ASSUME NEW s \in SUBSET E, Cardinality(s) <= k + 1 PROVE P(s)
      OBVIOUS
    <2>1. CASE s = {}
      BY <2>1, <1>3
    <2>2. CASE s # {}
      <3>1. s \ {ChosenBy(s)} \in SUBSET E /\ Cardinality(s \ {ChosenBy(s)}) <= k
        BY <2>2, <1>2, ChosenIsRemoved
      <3>2. P(s \ {ChosenBy(s)})
        BY <3>1, <1>6
      <3> QED BY <3>2, <2>2, <1>4
    <2> QED BY <2>1, <2>2
  <1>7. Cardinality(E) \in S
    <2> HIDE DEF S
    <2> QED BY <1>2, <1>5, <1>6, SetInduction
  <1>8. P(E)
    BY <1>2, <1>7
  <1> QED BY <1>1, <1>8 DEF P

-----------------------------------------------------------------------------
(* Every step keeps the invariant.                                          *)

\* There is nothing in the queue and in the list.
LEMMA NothingLeft ==
  ASSUME NEW n
  PROVE  /\ Ordered(<<>>, Unselected) /\ NewestFirst(<<>>, n)
         /\ AddressesOf(<<>>, Unselected.at) = DOMAIN Unselected.pipes /\ IsInjective(Unselected.pipes)
         /\ NoneOlder(<<>>, n) /\ Noted(<<>>, Unselected)
         /\ CfgIs(<<>>, Unconfigured, Unselected.setting)
         /\ AltIs(<<>>, Unconfigured, Unselected.setting)
         /\ Unconfigured \in SettingType /\ Unselected \in [setting : SettingType, pipes : Pipes, at : Nat]
         /\ <<>> \in Seq(Requests) /\ <<>> \in Seq(Endpoints) /\ Unselected.at = 0
  <1>1. Len(<<>>) = 0 /\ 1 .. 0 = {}
    OBVIOUS
  <1>2. Ordered(<<>>, Unselected) /\ NewestFirst(<<>>, n) /\ NoneOlder(<<>>, n) /\ Noted(<<>>, Unselected)
    BY <1>1 DEF Ordered, NewestFirst, NoneOlder, Noted
  <1>3. AddressesOf(<<>>, Unselected.at) = {}
    BY <1>1 DEF AddressesOf
  <1>4. Unselected.pipes = <<>> /\ Unselected.setting = Unconfigured /\ Unselected.at = 0
    BY DEF Unselected, NoPipes
  <1>5. DOMAIN <<>> = {}
    BY <1>1
  <1>6. CfgIs(<<>>, Unconfigured, Unconfigured) /\ AltIs(<<>>, Unconfigured, Unconfigured)
    BY <1>1 DEF CfgIs, AltIs
  <1>7. Unconfigured \in SettingType
    BY DEF Unconfigured, SettingType
  <1>8. Unselected \in [setting : SettingType, pipes : Pipes, at : Nat]
    BY <1>7 DEF Unselected, Pipes
  <1> QED BY <1>2, <1>3, <1>4, <1>5, <1>6, <1>7, <1>8 DEF IsInjective

\* Nothing is selected and nothing queued at first.
LEMMA IoInit == Init => IoInv
  <1> SUFFICES ASSUME Init PROVE IoInv
    OBVIOUS
  <1>1. Pending = <<>>
    BY DEF Init, Pending
  <1>2. IoTypes
    BY NothingLeft DEF Init, IoTypes
  <1>3. /\ SelectingInv /\ SettingInv /\ HandlesInv /\ ServerInv /\ RightEndpointCleared
        /\ Ordered(Pending, os) /\ NewestFirst(endpoints, selects)
    BY <1>1, NothingLeft DEF Init, SelectingInv, SettingInv, HandlesInv, ServerInv, RightEndpointCleared
  <1> QED BY <1>2, <1>3 DEF IoInv

\* A device that is gone leaves nothing.
LEMMA IoReset ==
  ASSUME IoInv, NEW p, Reset(p)
  PROVE  IoInv'
  <1>1. CASE UNCHANGED io
    BY <1>1 DEF io, IoInv, IoTypes, SelectingInv, SettingInv, HandlesInv, ServerInv, RightEndpointCleared,
                Pending
  <1>2. CASE p = Dev
    <2>1. /\ os' = Unselected /\ selecting' = <<>> /\ endpoints' = <<>> /\ ep0' = <<>> /\ busy' = FALSE
          /\ server' = Unconfigured /\ missed' = FALSE /\ refused' = FALSE /\ cleared' = <<>> /\ selects' = selects
      BY <1>2 DEF Reset
    <2>2. Pending' = <<>> /\ selects \in Nat
      BY <2>1 DEF Pending, IoInv, IoTypes
    <2>3. IoTypes'
      BY <2>1, <2>2, NothingLeft DEF IoTypes
    <2>4. Ordered(Pending', os') /\ NewestFirst(endpoints', selects')
      BY <2>1, <2>2, NothingLeft
    <2>5. SelectingInv'
      BY <2>1 DEF SelectingInv
    <2>6. SettingInv'
      BY <2>1, <2>2, NothingLeft DEF SettingInv
    <2>7. HandlesInv'
      BY <2>1, <2>2, NothingLeft DEF HandlesInv
    <2>8. ServerInv'
      BY <2>1, <2>2, NothingLeft DEF ServerInv
    <2>9. RightEndpointCleared'
      BY <2>1 DEF RightEndpointCleared
    <2> QED BY <2>3, <2>4, <2>5, <2>6, <2>7, <2>8, <2>9 DEF IoInv
  <1> QED BY <1>1, <1>2 DEF Reset

\* The facts that the steps use.
LEMMA IoFacts ==
  ASSUME IoInv
  PROVE  /\ selects \in Nat /\ os.at \in Nat /\ os.at <= selects /\ os.pipes \in Pipes
         /\ os.setting \in SettingType /\ endpoints \in Seq(Endpoints) /\ ep0 \in Seq(Requests)
         /\ Pending \in Seq(Requests) /\ server \in SettingType
         /\ os = [setting |-> os.setting, pipes |-> os.pipes, at |-> os.at]
         /\ \A a \in DOMAIN os.pipes : a \in Addresses /\ os.pipes[a] \in Handles
  <1>1. IoTypes /\ SettingInv
    BY DEF IoInv
  <1>2. Pending \in Seq(Requests)
    BY <1>1, HeadTailProperties DEF IoTypes, Pending
  <1>3. os.pipes \in Pipes
    BY <1>1 DEF IoTypes
  <1>4. \A a \in DOMAIN os.pipes : a \in Addresses /\ os.pipes[a] \in Handles
    <2>1. CASE os.pipes = NoPipes
      <3>1. DOMAIN os.pipes = {}
        BY <2>1 DEF NoPipes
      <3> QED BY <3>1
    <2>2. ASSUME NEW s \in Settings, os.pipes \in [s.addresses -> Handles]
          PROVE  \A a \in DOMAIN os.pipes : a \in Addresses /\ os.pipes[a] \in Handles
      <3>1. s.addresses \subseteq Addresses
        BY DEF Addresses
      <3> QED BY <3>1, <2>2
    <2> QED BY <1>3, <2>1, <2>2 DEF Pipes
  <1> QED BY <1>1, <1>2, <1>3, <1>4 DEF IoTypes, SettingInv

\* The endpoints of a new selection are added, all or some of them.
LEMMA AddNext ==
  ASSUME IoInv, endpoint_add \/ endpoint_add_failed
  PROVE  IoInv'
  <1>1. selects' = selects + 1 /\ selecting = <<>> /\ UNCHANGED <<os, ep0, busy, server, missed, refused, cleared>>
    BY DEF endpoint_add, endpoint_add_failed
  <1>0. PICK s \in Settings : \E E \in SUBSET s.addresses :
          /\ endpoints' = AddAll(endpoints, E)
          /\ selecting' = <<>> \/ (selecting' = <<s>> /\ E = s.addresses /\ (s.cfg # os.setting.cfg => s.alt = 0))
    BY <1>1 DEF endpoint_add, endpoint_add_failed
  <1>2. PICK E \in SUBSET s.addresses :
          /\ endpoints' = AddAll(endpoints, E)
          /\ selecting' = <<>> \/ (selecting' = <<s>> /\ E = s.addresses /\ (s.cfg # os.setting.cfg => s.alt = 0))
    BY <1>0
  <1>3. IsFiniteSet(E) /\ E \in SUBSET Addresses
    <2>1. IsFiniteSet(s.addresses)
      BY DeviceAssumption
    <2> QED BY <2>1, FS_Subset DEF Addresses
  <1>4. selects \in Nat /\ endpoints \in Seq(Endpoints) /\ NewestFirst(endpoints, selects)
    BY IoFacts DEF IoInv
  <1>5. /\ endpoints' \in Seq(Endpoints) /\ NewestFirst(endpoints', selects')
        /\ AddressesOf(endpoints', selects') = E
        /\ \A m \in 0 .. selects : AddressesOf(endpoints', m) = AddressesOf(endpoints, m)
    BY <1>1, <1>2, <1>3, <1>4, AddAllKeeps
  <1>6. os.at \in 0 .. selects /\ os.at < selects'
    BY <1>1, IoFacts
  <1>7. Pending' = Pending
    BY <1>1 DEF Pending
  <1>8. IoTypes'
    BY <1>1, <1>2, <1>4, <1>5 DEF IoInv, IoTypes
  <1>9. SelectingInv'
    BY <1>1, <1>2, <1>5, <1>6 DEF SelectingInv
  <1>10. SettingInv'
    BY <1>1, <1>4, <1>5, <1>6 DEF IoInv, SettingInv
  <1>11. HandlesInv'
    BY <1>1, <1>4, <1>6 DEF HandlesInv
  <1>12. ServerInv'
    BY <1>1, <1>7 DEF ServerInv, IoInv
  <1>13. Ordered(Pending', os')
    BY <1>1, <1>7 DEF IoInv
  <1>14. RightEndpointCleared'
    BY <1>1 DEF RightEndpointCleared, IoInv
  <1> QED BY <1>5, <1>8, <1>9, <1>10, <1>11, <1>12, <1>13, <1>14 DEF IoInv

\* An endpoint that is not used is deleted, or the handle of one that is used is noted.
LEMMA ListNext ==
  ASSUME IoInv, NEW list \in Seq(Endpoints), endpoints' = list, NewestFirst(list, selects),
         AddressesOf(list, os.at) = AddressesOf(endpoints, os.at),
         selecting # <<>> => AddressesOf(list, selects) = AddressesOf(endpoints, selects),
         Noted(endpoints, os) => Noted(list, os),
         UNCHANGED <<selects, os, selecting, ep0, busy, server, missed, refused, cleared>>
  PROVE  IoInv'
  <1>1. Pending' = Pending
    BY DEF Pending
  <1>2. IoTypes'
    BY DEF IoInv, IoTypes
  <1>3. SelectingInv' /\ SettingInv' /\ HandlesInv' /\ ServerInv' /\ RightEndpointCleared'
    BY <1>1 DEF IoInv, SelectingInv, SettingInv, HandlesInv, ServerInv, RightEndpointCleared
  <1>4. Ordered(Pending', os') /\ NewestFirst(endpoints', selects')
    BY <1>1 DEF IoInv
  <1> QED BY <1>2, <1>3, <1>4 DEF IoInv

\* The framework deletes an endpoint, and it leaves the list.
LEMMA CleanupNext ==
  ASSUME IoInv, endpoint_cleanup
  PROVE  IoInv'
  <1>1. PICK x \in DOMAIN endpoints : ~Used(endpoints[x]) /\ endpoints' = RemoveAt(endpoints, x)
    BY DEF endpoint_cleanup
  <1>2. endpoints \in Seq(Endpoints) /\ NewestFirst(endpoints, selects)
    BY IoFacts DEF IoInv
  <1>3. x \in 1 .. Len(endpoints)
    BY <1>2, LenProperties
  <1>4. os.at # endpoints[x].at /\ (selecting # <<>> => selects # endpoints[x].at)
    BY <1>1 DEF Used
  <1> DEFINE list == RemoveAt(endpoints, x)
  <1>5. /\ list \in Seq(Endpoints) /\ NewestFirst(list, selects)
        /\ \A m : m # endpoints[x].at => AddressesOf(list, m) = AddressesOf(endpoints, m)
        /\ \A o : Noted(endpoints, o) => Noted(list, o)
    BY <1>2, <1>3, RemoveOne, RemoveKeeps
  <1>6. endpoints' = list /\ UNCHANGED <<selects, os, selecting, ep0, busy, server, missed, refused, cleared>>
    BY <1>1 DEF endpoint_cleanup
  <1> HIDE DEF list
  <1> QED BY <1>4, <1>5, <1>6, ListNext

\* The first transfer of a pipe notes its handle.
LEMMA TransferNext ==
  ASSUME IoInv, Transfer
  PROVE  IoInv'
  <1>1. PICK a \in DOMAIN os.pipes :
          /\ find_endpoint(endpoints, [address |-> a, at |-> os.at]) # 0
          /\ endpoints' = [endpoints EXCEPT
                             ![find_endpoint(endpoints, [address |-> a, at |-> os.at])].handle = os.pipes[a]]
    BY DEF Transfer
  <1> DEFINE crit == [address |-> a, at |-> os.at]
             i == find_endpoint(endpoints, crit)
             list == [endpoints EXCEPT ![i].handle = os.pipes[a]]
  <1>2. /\ endpoints \in Seq(Endpoints) /\ NewestFirst(endpoints, selects)
        /\ os.pipes[a] \in Handles /\ DOMAIN endpoints = 1 .. Len(endpoints) /\ Len(endpoints) \in Nat
    BY IoFacts, LenProperties DEF IoInv
  <1>3. \E j \in 1 .. Len(endpoints) : matches(endpoints[j], crit)
    BY <1>1, <1>2 DEF find_endpoint
  <1>4. i \in 1 .. Len(endpoints) /\ matches(endpoints[i], crit)
    BY <1>2, <1>3, FindsFirst
  <1>5. endpoints[i].address = a
    BY <1>4 DEF matches
  <1> HIDE DEF i, crit
  <1>6. \A j \in 1 .. Len(endpoints) : endpoints[j] \in Endpoints
    BY <1>2, ElementOfSeq
  <1>7. \A j \in 1 .. Len(endpoints) :
          list[j] = IF j = i THEN [endpoints[i] EXCEPT !.handle = os.pipes[a]] ELSE endpoints[j]
    BY <1>2, <1>4
  <1>8. \A j \in 1 .. Len(endpoints) :
          /\ list[j] \in Endpoints /\ list[j].at = endpoints[j].at /\ list[j].address = endpoints[j].address
    BY <1>2, <1>6, <1>7 DEF Endpoints
  <1>9. list \in Seq(Endpoints) /\ Len(list) = Len(endpoints)
    <2>1. list \in [1 .. Len(endpoints) -> Endpoints]
      BY <1>2, <1>8
    <2> QED BY <2>1, <1>2, SeqDef, LenProperties
  <1>10. list[i].handle = os.pipes[a]
    BY <1>4, <1>6, <1>7 DEF Endpoints
  <1>11. \A j \in 1 .. Len(endpoints) : j # i => list[j] = endpoints[j]
    BY <1>7
  <1>12. endpoints' = list /\ UNCHANGED <<selects, os, selecting, ep0, busy, server, missed, refused, cleared>>
    BY <1>1 DEF Transfer, i, crit
  <1> HIDE DEF list
  <1>13. NewestFirst(list, selects) /\ \A m : AddressesOf(list, m) = AddressesOf(endpoints, m)
    BY <1>2, <1>8, <1>9, SameEndpoints
  <1>14. Noted(endpoints, os) => Noted(list, os)
    BY <1>5, <1>8, <1>9, <1>10, <1>11 DEF Noted
  <1> QED BY <1>9, <1>12, <1>13, <1>14, ListNext

\* Requests are put into the queue behind those that are in it.
LEMMA PendingAppend ==
  ASSUME IoInv, NEW p \in Seq(Requests), ep0' = ep0 \o p, UNCHANGED busy
  PROVE  /\ Pending' = Pending \o p
         /\ ep0' \in Seq(Requests) /\ (busy' => ep0' # <<>>)
  <1>1. ep0 \in Seq(Requests) /\ busy \in BOOLEAN /\ (busy => ep0 # <<>>)
    BY DEF IoInv, IoTypes
  <1>2. ep0 \o p \in Seq(Requests) /\ (ep0 # <<>> => ep0 \o p # <<>>)
    BY <1>1, ConcatProperties, ConcatEqualIffEmpty
  <1>3. CASE busy
    BY <1>1, <1>2, <1>3, TailOfConcat DEF Pending
  <1>4. CASE ~busy
    BY <1>1, <1>2, <1>4 DEF Pending
  <1> QED BY <1>3, <1>4

\* The same request as often as there are filters.
LEMMA PackedIs ==
  ASSUME NEW r \in Requests, fidos[Dev] \in Nat
  PROVE  /\ Packed(r) \in Seq(Requests) /\ Len(Packed(r)) = fidos[Dev]
         /\ \A i \in 1 .. Len(Packed(r)) : Packed(r)[i] = r
  <1> DEFINE p == [i \in 1 .. fidos[Dev] |-> r]
  <1>1. p \in [1 .. fidos[Dev] -> Requests] /\ \A i \in 1 .. fidos[Dev] : p[i] = r
    OBVIOUS
  <1>2. p \in Seq(Requests) /\ Len(p) = fidos[Dev]
    BY <1>1, SeqDef, LenProperties
  <1> HIDE DEF p
  <1>3. Packed(r) = p
    BY DEF Packed, p
  <1> QED BY <1>1, <1>2, <1>3

\* A pipe of the current setting was reset.
LEMMA ResetNext ==
  ASSUME IoInv, fidos[Dev] \in Nat, reset_pipe_complete
  PROVE  IoInv'
  <1> DEFINE R(a) == [function |-> "SYNC_RESET_PIPE", setting |-> Unconfigured, pipes |-> NoPipes,
                      handle |-> os.pipes[a], address |-> a, at |-> os.at]
  <1>1. PICK a \in DOMAIN os.pipes : ep0' = ep0 \o Packed(R(a))
    BY DEF reset_pipe_complete
  <1> DEFINE r == R(a)
             p == Packed(r)
  <1>2. /\ r.function = "SYNC_RESET_PIPE" /\ r.address = a /\ r.handle = os.pipes[a] /\ r.at = os.at
        /\ r \in Requests
    BY IoFacts, NothingLeft DEF Requests, Pipes
  <1> HIDE DEF r, R
  <1>3. p \in Seq(Requests) /\ \A i \in 1 .. Len(p) : p[i] = r
    BY <1>2, PackedIs
  <1>4. ep0' = ep0 \o p
    BY <1>1 DEF r
  <1> HIDE DEF p
  <1>5. UNCHANGED <<selects, os, selecting, endpoints, busy, server, missed, refused, cleared>>
    BY DEF reset_pipe_complete
  <1>6. Pending' = Pending \o p /\ ep0' \in Seq(Requests) /\ (busy' => ep0' # <<>>)
    BY <1>3, <1>4, <1>5, PendingAppend
  <1>7. Pending \in Seq(Requests) /\ os.at \in Nat /\ selects \in Nat
    BY IoFacts
  <1>8. Ordered(Pending', os')
    <2>1. \A i \in 1 .. Len(p) :
            /\ p[i].at = os.at
            /\ IF IsReset(p[i]) THEN p[i].address \in DOMAIN os.pipes /\ p[i].handle = os.pipes[p[i].address]
               ELSE p[i].pipes = os.pipes
      BY <1>2, <1>3 DEF IsReset
    <2>2. Ordered(Pending, os) /\ os.at <= os.at
      BY <1>7 DEF IoInv
    <2>3. Ordered(Pending \o p, os)
      BY <2>1, <2>2, <1>3, <1>7, OrderedAppend
    <2> QED BY <2>3, <1>5, <1>6
  <1>9. \A i \in 1 .. Len(p) : IsReset(p[i]) /\ ~IsConfiguration(p[i])
    BY <1>2, <1>3 DEF IsReset, IsConfiguration
  <1>10. ServerInv'
    <2>1. CfgIs(Pending, server, os.setting) => CfgIs(Pending \o p, server, os.setting)
      BY <1>3, <1>7, <1>9, CfgAppend
    <2>2. AltIs(Pending, server, os.setting) => AltIs(Pending \o p, server, os.setting)
      BY <1>3, <1>7, <1>9, AltAppend
    <2> QED BY <2>1, <2>2, <1>5, <1>6 DEF IoInv, ServerInv
  <1>11. HandlesInv'
    <2>1. Announced(Pending, selects) => Announced(Pending \o p, selects)
      BY <1>3, <1>7, AnnouncedAppend
    <2>2. NoneOlder(Pending, selects) => NoneOlder(Pending \o p, selects)
      BY <1>3, <1>7, <1>9, NoneOlderAppend
    <2> QED BY <2>1, <2>2, <1>5, <1>6 DEF IoInv, HandlesInv
  <1>12. IoTypes'
    BY <1>5, <1>6 DEF IoInv, IoTypes
  <1>13. SelectingInv' /\ SettingInv' /\ RightEndpointCleared' /\ NewestFirst(endpoints', selects')
    BY <1>5 DEF IoInv, SelectingInv, SettingInv, RightEndpointCleared
  <1> QED BY <1>8, <1>10, <1>11, <1>12, <1>13 DEF IoInv

\* A selection is complete.
LEMMA SelectNext ==
  ASSUME IoInv, fidos[Dev] \in Nat, select_complete
  PROVE  IoInv'
  <1>1. PICK s \in Settings : selecting = <<s>>
    BY DEF IoInv, IoTypes, select_complete
  <1>2. selecting # <<>> /\ selecting[1] = s
    BY <1>1
  <1>3. PICK pipes \in [s.addresses -> Handles] :
          LET request == clone(FunctionOf(s), s, pipes)
          IN  /\ IsInjective(pipes)
              /\ os' = [setting |-> [cfg |-> s.cfg, alt |-> s.alt], pipes |-> pipes, at |-> selects]
              /\ \/ /\ ep0' = IF is_request_function(request.function) THEN ep0 \o Packed(request) ELSE ep0
                    /\ missed' = (fidos[Dev] = 0 \/ (missed /\ request.function # "SELECT_CONFIGURATION"))
                    /\ refused' = (refused /\ request.function # "SELECT_CONFIGURATION")
                 \/ missed' = TRUE /\ UNCHANGED <<ep0, refused>>
    BY <1>2 DEF select_complete
  <1>4. selecting' = <<>> /\ UNCHANGED <<selects, endpoints, busy, server, cleared>>
    BY DEF select_complete
  <1> DEFINE r == clone(FunctionOf(s), s, pipes)
             c == [setting |-> [cfg |-> s.cfg, alt |-> s.alt], pipes |-> pipes, at |-> selects]
             p == IF missed' = TRUE /\ ep0' = ep0 THEN <<>> ELSE Packed(r)
  <1>5. /\ r.function = (IF s.cfg # os.setting.cfg THEN "SELECT_CONFIGURATION" ELSE "SELECT_INTERFACE")
        /\ r.function \in Selections /\ r.at = selects /\ r.pipes = pipes
        /\ r.setting = [cfg |-> s.cfg, alt |-> s.alt]
    BY DEF clone, FunctionOf, Selections
  <1>6. /\ selects \in Nat /\ os.at \in Nat /\ os.at < selects /\ AddressesOf(endpoints, selects) = s.addresses
        /\ (s.cfg # os.setting.cfg => s.alt = 0) /\ Pending \in Seq(Requests) /\ ep0 \in Seq(Requests)
    BY <1>2, IoFacts DEF IoInv, SelectingInv
  <1>7. c.setting \in SettingType /\ pipes \in Pipes
    BY DEF SettingType, Pipes
  <1>8. r \in Requests
    BY <1>6, <1>7 DEF clone, FunctionOf, Requests, Selections, Addresses
  <1>9. /\ c.pipes = pipes /\ c.at = selects /\ c.setting.cfg = s.cfg /\ c.setting.alt = s.alt
        /\ os' = c
    BY <1>3
  <1>10. is_request_function(r.function)
    BY <1>5 DEF is_request_function, Selections
  <1>11. /\ Packed(r) \in Seq(Requests) /\ Len(Packed(r)) = fidos[Dev]
         /\ \A i \in 1 .. Len(Packed(r)) : Packed(r)[i] = r
    BY <1>8, PackedIs
  <1>12. /\ missed' \in BOOLEAN /\ refused' \in BOOLEAN
         /\ ~missed' /\ ~refused' => ~refused \/ r.function = "SELECT_CONFIGURATION"
         /\ \/ ep0' = ep0 \o Packed(r)
               /\ (~missed' => fidos[Dev] # 0 /\ (~missed \/ r.function = "SELECT_CONFIGURATION"))
            \/ missed' = TRUE /\ ep0' = ep0
    <2> HIDE DEF r
    <2> QED BY <1>3, <1>10 DEF IoInv, IoTypes, r
  <1> HIDE DEF r, c, p
  <1>13. PICK w \in Seq(Requests) :
           /\ ep0' = ep0 \o w /\ (\A i \in 1 .. Len(w) : w[i] = r)
           /\ ~missed' => Len(w) > 0 /\ (~missed \/ r.function = "SELECT_CONFIGURATION")
    <2>1. CASE ep0' = ep0 \o Packed(r)
                 /\ (~missed' => fidos[Dev] # 0 /\ (~missed \/ r.function = "SELECT_CONFIGURATION"))
      BY <2>1, <1>11
    <2>2. CASE missed' = TRUE /\ ep0' = ep0
      <3>1. ep0 \o <<>> = ep0 /\ <<>> \in Seq(Requests) /\ 1 .. Len(<<>>) = {}
        BY <1>6, ConcatEmptySeq
      <3> QED BY <2>2, <3>1
    <2> QED BY <1>12, <2>1, <2>2
  <1>14. Pending' = Pending \o w /\ ep0' \in Seq(Requests) /\ (busy' => ep0' # <<>>)
    BY <1>4, <1>13, PendingAppend
  <1>15. \A k \in 1 .. Len(Pending) : Pending[k].at \in Nat /\ Pending[k].at <= os.at
    <2>1. \A k \in 1 .. Len(Pending) : Pending[k] \in Requests
      BY <1>6, ElementOfSeq
    <2> QED BY <2>1 DEF Requests, IoInv, Ordered
  <1>16. Ordered(Pending \o w, c)
    <2>1. \A i \in 1 .. Len(w) :
            /\ w[i].at = c.at
            /\ IF IsReset(w[i]) THEN w[i].address \in DOMAIN c.pipes /\ w[i].handle = c.pipes[w[i].address]
               ELSE w[i].pipes = c.pipes
      BY <1>5, <1>9, <1>13 DEF IsReset, Selections
    <2>2. Ordered(Pending, os) /\ os.at <= c.at /\ os.at # c.at /\ c.at \in Nat
      BY <1>6, <1>9 DEF IoInv
    <2> QED BY <2>1, <2>2, <1>6, <1>13, OrderedAppend
  <1>17. ~missed' /\ ~refused' => CfgIs(Pending \o w, server, c.setting) /\ AltIs(Pending \o w, server, c.setting)
    <2> SUFFICES ASSUME ~missed', ~refused'
                 PROVE  CfgIs(Pending \o w, server, c.setting) /\ AltIs(Pending \o w, server, c.setting)
      OBVIOUS
    <2>1. Len(w) > 0 /\ ((~missed /\ ~refused) \/ r.function = "SELECT_CONFIGURATION")
      BY <1>12, <1>13
    <2>2. \A i \in 1 .. Len(w) : ~IsReset(w[i]) /\ AltOf(w[i]) = c.setting.alt
      BY <1>5, <1>6, <1>9, <1>13 DEF IsReset, AltOf, IsConfiguration, Selections
    <2>3. AltIs(Pending \o w, server, c.setting)
      BY <2>1, <2>2, <1>6, <1>13, AltAppend
    <2>4. CASE s.cfg # os.setting.cfg
      <3>1. \A i \in 1 .. Len(w) : IsConfiguration(w[i]) /\ w[i].setting.cfg = c.setting.cfg
        BY <2>4, <1>5, <1>9, <1>13 DEF IsConfiguration
      <3>2. CfgIs(Pending \o w, server, c.setting)
        BY <3>1, <2>1, <1>6, <1>13, CfgAppend
      <3> QED BY <2>3, <3>2
    <2>5. CASE s.cfg = os.setting.cfg
      <3>1. \A i \in 1 .. Len(w) : ~IsConfiguration(w[i])
        BY <2>5, <1>5, <1>13 DEF IsConfiguration
      <3>2. CfgIs(Pending, server, os.setting)
        BY <2>1, <2>5, <1>5 DEF IoInv, ServerInv
      <3>3. CfgIs(Pending, server, c.setting)
        BY <3>2, <2>5, <1>9 DEF CfgIs
      <3>4. CfgIs(Pending \o w, server, c.setting)
        BY <3>1, <3>3, <1>6, <1>13, CfgAppend
      <3> QED BY <2>3, <3>4
    <2> QED BY <2>4, <2>5
  <1>18. ~missed' => Announced(Pending \o w, selects)
    <2> SUFFICES ASSUME ~missed' PROVE Announced(Pending \o w, selects)
      OBVIOUS
    <2>1. Len(w) > 0 /\ Len(w) \in Nat
      BY <1>13, LenProperties
    <2>2. 1 \in 1 .. Len(w)
      BY <2>1
    <2>3. ~IsReset(w[1]) /\ w[1].at = selects
      BY <2>2, <1>5, <1>13 DEF IsReset, Selections
    <2>4. \A k \in 1 .. Len(Pending) : Pending[k].at # selects
      BY <1>6, <1>15
    <2> QED BY <2>1, <2>3, <2>4, <1>6, <1>13, AnnouncedAppend
  <1>19. IoTypes'
    <2>1. os' \in [setting : SettingType, pipes : Pipes, at : Nat]
      BY <1>6, <1>7, <1>9 DEF c
    <2> QED BY <2>1, <1>4, <1>12, <1>14 DEF IoInv, IoTypes
  <1>20. SettingInv'
    BY <1>3, <1>4, <1>6, <1>9 DEF SettingInv
  <1>21. SelectingInv'
    BY <1>4 DEF SelectingInv
  <1>22. HandlesInv' /\ ServerInv' /\ Ordered(Pending', os')
    BY <1>4, <1>9, <1>14, <1>16, <1>17, <1>18 DEF HandlesInv, ServerInv
  <1>23. NewestFirst(endpoints', selects') /\ RightEndpointCleared'
    BY <1>4 DEF IoInv, RightEndpointCleared
  <1> QED BY <1>19, <1>20, <1>21, <1>22, <1>23 DEF IoInv

\* The server has answered.
LEMMA RetNext ==
  ASSUME IoInv, ret_submit
  PROVE  IoInv'
  <1>1. /\ busy /\ busy' = FALSE /\ ep0' = Tail(ep0) /\ ep0 # <<>> /\ ep0 \in Seq(Requests)
        /\ UNCHANGED <<selects, os, selecting, endpoints, server, missed, refused, cleared>>
    BY DEF ret_submit, IoInv, IoTypes
  <1>2. Pending' = Pending /\ ep0' \in Seq(Requests)
    BY <1>1, HeadTailProperties DEF Pending
  <1>3. IoTypes'
    BY <1>1, <1>2 DEF IoInv, IoTypes
  <1>4. Ordered(Pending', os') /\ NewestFirst(endpoints', selects')
    BY <1>1, <1>2 DEF IoInv
  <1>5. SelectingInv' /\ SettingInv' /\ HandlesInv' /\ ServerInv' /\ RightEndpointCleared'
    BY <1>1, <1>2 DEF IoInv, SelectingInv, SettingInv, HandlesInv, ServerInv, RightEndpointCleared
  <1> QED BY <1>3, <1>4, <1>5 DEF IoInv

\* A selection is unpacked: the handles of its pipes are noted, and the server is told.
LEMMA UnpackSelection ==
  ASSUME IoInv, unpack_request, select_configuration(Head(ep0)) \/ select_interface(Head(ep0))
  PROVE  IoInv'
  <1> DEFINE r == Head(ep0)
             list == update_pipe_properties(endpoints, r.pipes)
  <1>1. /\ ep0 # <<>> /\ ~busy /\ Pending = ep0 /\ ep0 \in Seq(Requests)
        /\ UNCHANGED <<selects, os, selecting, missed>>
    BY DEF unpack_request, Pending, IoInv, IoTypes
  <1>2. r \in Requests /\ r = ep0[1]
    BY <1>1, HeadTailProperties
  <1> DEFINE packet == IF IsConfiguration(r) THEN make_set_configuration(r.setting.cfg)
                       ELSE make_set_interface(0, r.setting.alt)
  <1>3. /\ r.function \in Selections /\ endpoints' = list /\ cleared' = cleared /\ ~IsReset(r)
        /\ Submit(packet)
    BY DEF select_configuration, select_interface, Selections, IsReset, IsConfiguration
  <1>16. /\ \/ busy' = TRUE /\ ep0' = ep0
            \/ busy' = busy /\ ep0' = Tail(ep0)
         /\ \/ server' = Execute(packet) /\ refused' = refused
            \/ server' = server /\ refused' = TRUE
    <2>1. IsSelection(packet)
      BY DEF IsSelection, make_set_configuration, make_set_interface
    <2> HIDE DEF packet
    <2> QED BY <1>3, <2>1 DEF Submit
  <1>4. server \in SettingType /\ server = [cfg |-> server.cfg, alt |-> server.alt]
    BY IoFacts DEF SettingType
  <1>17. LET x == Execute(packet)
         IN  /\ x.cfg = (IF IsConfiguration(r) THEN r.setting.cfg ELSE server.cfg)
             /\ x.alt = AltOf(r) /\ x \in SettingType
    <2>1. r.setting \in SettingType
      BY <1>2 DEF Requests
    <2>2. CASE IsConfiguration(r)
      <3>1. Execute(packet) = [cfg |-> r.setting.cfg, alt |-> 0]
        BY <2>2 DEF Execute, make_set_configuration
      <3> QED BY <2>2, <3>1, <2>1 DEF SettingType, AltOf
    <2>3. CASE ~IsConfiguration(r)
      <3>1. Execute(packet) = [server EXCEPT !.alt = r.setting.alt]
        BY <2>3 DEF Execute, make_set_interface
      <3>2. Execute(packet) = [cfg |-> server.cfg, alt |-> r.setting.alt]
        BY <3>1, <1>4
      <3> QED BY <2>3, <3>2, <2>1, <1>4 DEF SettingType, AltOf
    <2> QED BY <2>2, <2>3
  <1> HIDE DEF packet
  <1>5. /\ server' \in SettingType /\ refused' \in BOOLEAN
        /\ ~refused' => /\ ~refused
                        /\ server'.cfg = (IF IsConfiguration(r) THEN r.setting.cfg ELSE server.cfg)
                        /\ server'.alt = AltOf(r)
    <2>1. refused \in BOOLEAN
      BY DEF IoInv, IoTypes
    <2>2. CASE server' = Execute(packet) /\ refused' = refused
      BY <1>17, <2>1, <2>2, Zenon
    <2>3. CASE server' = server /\ refused' = TRUE
      BY <1>4, <2>3, Zenon
    <2> QED BY <1>16, <2>2, <2>3
  <1>6. r.pipes \in Pipes /\ r.at \in Nat
    BY <1>2 DEF Requests
  <1>7. /\ endpoints \in Seq(Endpoints) /\ NewestFirst(endpoints, selects) /\ selects \in Nat
        /\ os.at \in Nat /\ Ordered(ep0, os)
    BY <1>1, IoFacts DEF IoInv
  <1>8. /\ list \in Seq(Endpoints) /\ Len(list) = Len(endpoints)
        /\ \A i \in 1 .. Len(endpoints) : list[i].at = endpoints[i].at /\ list[i].address = endpoints[i].address
        /\ \A n \in Nat : NewestFirst(endpoints, n) /\ AddressesOf(endpoints, n) = DOMAIN r.pipes =>
             \A i \in 1 .. Len(endpoints) : endpoints[i].at = n => list[i].handle = r.pipes[endpoints[i].address]
    <2> HIDE DEF r
    <2> QED BY <1>6, <1>7, UpdateNotes
  <1> HIDE DEF list
  <1>9. NewestFirst(list, selects) /\ \A m : AddressesOf(list, m) = AddressesOf(endpoints, m)
    BY <1>7, <1>8, SameEndpoints
  <1>10. /\ Pending' = Tail(ep0) /\ Tail(ep0) \in Seq(Requests) /\ ep0' \in Seq(Requests)
         /\ busy' \in BOOLEAN /\ (busy' => ep0' # <<>>)
    <2>1. CASE busy' = TRUE /\ ep0' = ep0
      BY <1>1, <2>1, HeadTailProperties DEF Pending
    <2>2. CASE busy' = busy /\ ep0' = Tail(ep0)
      <3>1. busy \in BOOLEAN /\ Tail(ep0) \in Seq(Requests)
        BY <1>1, HeadTailProperties DEF IoInv, IoTypes
      <3>2. ~busy' /\ busy' \in BOOLEAN
        BY <1>1, <2>2, <3>1, Zenon
      <3>3. Pending' = ep0'
        BY <3>2, Zenon DEF Pending
      <3> QED BY <2>2, <3>1, <3>2, <3>3, Zenon
    <2> QED BY <1>16, <2>1, <2>2
  <1> HIDE DEF r
  <1>11. Ordered(Tail(ep0), os)
    BY <1>1, <1>7, OrderedTail
  <1>12. ServerInv'
    <2> SUFFICES ASSUME ~missed, ~refused'
                 PROVE  CfgIs(Tail(ep0), server', os.setting) /\ AltIs(Tail(ep0), server', os.setting)
      BY <1>1, <1>10 DEF ServerInv
    <2>1. CfgIs(ep0, server, os.setting) /\ AltIs(ep0, server, os.setting)
      BY <1>1, <1>5 DEF IoInv, ServerInv
    <2>2. CfgIs(Tail(ep0), server', os.setting)
      <3>1. server'.cfg = IF IsConfiguration(ep0[1]) THEN ep0[1].setting.cfg ELSE server.cfg
        BY <1>2, <1>5
      <3> QED BY <3>1, <2>1, <1>1, CfgTail
    <2>3. AltIs(Tail(ep0), server', os.setting)
      <3>1. server'.alt = IF IsReset(ep0[1]) THEN server.alt ELSE AltOf(ep0[1])
        BY <1>2, <1>3, <1>5
      <3> QED BY <3>1, <2>1, <1>1, AltTail
    <2> QED BY <2>2, <2>3
  <1>13. HandlesInv'
    <2> SUFFICES ASSUME os.at = selects, ~missed
                 PROVE  \/ Announced(Tail(ep0), selects)
                        \/ NoneOlder(Tail(ep0), selects) /\ Noted(list, os)
      BY <1>1, <1>3, <1>10 DEF HandlesInv
    <2>1. CASE r.at = selects
      <3>1. NoneOlder(Tail(ep0), os.at)
        BY <2>1, <1>1, <1>2, <1>7, NoneOlderAfter
      <3>2. r.pipes = os.pipes
        <4>1. 1 \in 1 .. Len(ep0)
          BY <1>1, TailOf
        <4> QED BY <4>1, <2>1, <1>2, <1>3, <1>7 DEF Ordered
      <3>3. AddressesOf(endpoints, os.at) = DOMAIN os.pipes
        BY DEF IoInv, SettingInv
      <3>4. \A i \in 1 .. Len(endpoints) :
              endpoints[i].at = os.at => list[i].handle = os.pipes[endpoints[i].address]
        BY <3>2, <3>3, <1>7, <1>8
      <3>5. Noted(list, os)
        BY <3>4, <1>8 DEF Noted
      <3> QED BY <3>1, <3>5
    <2>2. CASE r.at # selects
      <3>1. ~NoneOlder(ep0, selects)
        <4>1. 1 \in 1 .. Len(ep0)
          BY <1>1, TailOf
        <4> QED BY <4>1, <2>2, <1>2, <1>3 DEF NoneOlder
      <3>2. Announced(ep0, selects)
        BY <3>1, <1>1 DEF IoInv, HandlesInv
      <3>3. Announced(Tail(ep0), selects)
        BY <3>2, <2>2, <1>1, <1>2, <1>7, AnnouncedTail
      <3> QED BY <3>3
    <2> QED BY <2>1, <2>2
  <1>14. IoTypes'
    BY <1>1, <1>3, <1>5, <1>8, <1>10 DEF IoInv, IoTypes
  <1>15. SelectingInv' /\ SettingInv' /\ RightEndpointCleared'
    BY <1>1, <1>3, <1>9 DEF IoInv, SelectingInv, SettingInv, RightEndpointCleared
  <1> QED BY <1>1, <1>3, <1>9, <1>10, <1>11, <1>12, <1>13, <1>14, <1>15 DEF IoInv

\* The reset of a pipe is unpacked. If it belongs to the last selection, that has been
\* unpacked before and the handle is the one that its endpoint has.
LEMMA UnpackReset ==
  ASSUME IoInv, unpack_request, clear_endpoint_stall(Head(ep0))
  PROVE  IoInv'
  <1> DEFINE r == Head(ep0)
             i == find_endpoint(endpoints, [handle |-> r.handle])
             packet == make_clear_endpoint_stall(IF i = 0 THEN 0 ELSE endpoints[i].address)
  <1>1. /\ ep0 # <<>> /\ ~busy /\ Pending = ep0 /\ ep0 \in Seq(Requests)
        /\ UNCHANGED <<selects, os, selecting, missed>>
    BY DEF unpack_request, Pending, IoInv, IoTypes
  <1>2. r \in Requests /\ r = ep0[1] /\ 1 \in 1 .. Len(ep0)
    BY <1>1, HeadTailProperties, TailOf
  <1>3. /\ IsReset(r)
        /\ cleared' = <<[wanted |-> r.address, got |-> packet.wIndex, current |-> r.at = selects /\ ~missed]>>
        /\ IF i = 0 THEN ep0' = Tail(ep0) /\ UNCHANGED <<busy, server, refused, faults>> ELSE Submit(packet)
        /\ UNCHANGED endpoints
    BY DEF clear_endpoint_stall, IsReset
  <1>4. packet.wIndex = (IF i = 0 THEN 0 ELSE endpoints[i].address) /\ packet.bRequest = "CLEAR_FEATURE"
    BY DEF make_clear_endpoint_stall
  <1> HIDE DEF i, packet, r
  <1>5. Tail(ep0) \in Seq(Requests)
    BY <1>1, HeadTailProperties
  <1>6. /\ server' = server /\ refused' = refused /\ Pending' = Tail(ep0) /\ busy' \in BOOLEAN
        /\ ep0' \in Seq(Requests) /\ (busy' => ep0' # <<>>)
    <2>1. CASE i = 0
      <3>1. ep0' = Tail(ep0) /\ busy' = busy /\ server' = server /\ refused' = refused
        BY <2>1, <1>3
      <3>2. busy \in BOOLEAN
        BY DEF IoInv, IoTypes
      <3>3. ~busy'
        BY <3>1, <1>1, Zenon
      <3>4. Pending' = ep0'
        BY <3>3, Zenon DEF Pending
      <3> QED BY <3>1, <3>2, <3>3, <3>4, <1>5, Zenon
    <2>2. CASE i # 0
      <3>1. Submit(packet)
        BY <2>2, <1>3
      <3>2. Execute(packet) = server /\ ~IsSelection(packet)
        BY <1>4 DEF Execute, IsSelection
      <3>3. /\ server' = server /\ refused' = refused
            /\ (busy' = TRUE /\ ep0' = ep0) \/ (busy' = busy /\ ep0' = Tail(ep0))
        <4>1. refused \in BOOLEAN
          BY DEF IoInv, IoTypes
        <4> QED BY <3>1, <3>2, <4>1 DEF Submit
      <3>4. CASE busy' = TRUE /\ ep0' = ep0
        BY <3>3, <3>4, <1>1, <1>5 DEF Pending
      <3>5. CASE busy' = busy /\ ep0' = Tail(ep0)
        <4>1. busy \in BOOLEAN
          BY DEF IoInv, IoTypes
        <4>2. ~busy' /\ busy' \in BOOLEAN
          BY <1>1, <3>5, <4>1, Zenon
        <4>3. Pending' = ep0'
          BY <4>2, Zenon DEF Pending
        <4> QED BY <3>3, <3>5, <4>2, <4>3, <1>5, Zenon
      <3> QED BY <3>3, <3>4, <3>5
    <2> QED BY <2>1, <2>2
  <1>7. /\ endpoints \in Seq(Endpoints) /\ NewestFirst(endpoints, selects) /\ selects \in Nat
        /\ os.at \in Nat /\ Ordered(ep0, os) /\ os.at <= selects /\ r.at \in Nat
    BY <1>1, <1>2, IoFacts DEF IoInv, Requests
  <1>8. Ordered(Pending', os')
    BY <1>1, <1>6, <1>7, OrderedTail
  <1>9. ~IsConfiguration(r)
    BY <1>3 DEF IsReset, IsConfiguration
  <1>10. ServerInv'
    <2>1. CfgIs(ep0, server, os.setting) => CfgIs(Tail(ep0), server, os.setting)
      <3>1. server.cfg = IF IsConfiguration(ep0[1]) THEN ep0[1].setting.cfg ELSE server.cfg
        BY <1>2, <1>9
      <3> QED BY <3>1, <1>1, CfgTail
    <2>2. AltIs(ep0, server, os.setting) => AltIs(Tail(ep0), server, os.setting)
      <3>1. server.alt = IF IsReset(ep0[1]) THEN server.alt ELSE AltOf(ep0[1])
        BY <1>2, <1>3
      <3> QED BY <3>1, <1>1, AltTail
    <2> QED BY <2>1, <2>2, <1>1, <1>6 DEF IoInv, ServerInv
  <1>11. HandlesInv'
    <2>1. Announced(ep0, selects) => Announced(Tail(ep0), selects)
      BY <1>1, <1>2, <1>3, <1>7, AnnouncedTail
    <2>2. NoneOlder(ep0, selects) => NoneOlder(Tail(ep0), selects)
      BY <1>1, NoneOlderTail
    <2> QED BY <2>1, <2>2, <1>1, <1>3, <1>6 DEF IoInv, HandlesInv
  <1>12. RightEndpointCleared'
    <2> SUFFICES ASSUME r.at = selects, ~missed
                 PROVE  packet.wIndex = r.address
      BY <1>3 DEF RightEndpointCleared
    <2>1. r.at <= os.at
      BY <1>2, <1>7 DEF Ordered
    <2>2. os.at = selects
      BY <2>1, <1>7
    <2>3. r.address \in DOMAIN os.pipes /\ r.handle = os.pipes[r.address]
      BY <2>2, <1>2, <1>3, <1>7 DEF Ordered
    <2>4. ~Announced(ep0, selects)
      <3> SUFFICES ASSUME NEW k \in 1 .. Len(ep0), ~IsReset(ep0[k]),
                          \A j \in 1 .. Len(ep0) : j < k => ~(IsReset(ep0[j]) /\ ep0[j].at = selects)
                   PROVE  FALSE
        BY DEF Announced
      <3>1. k # 1
        BY <1>2, <1>3
      <3>2. 1 < k
        BY <3>1
      <3> QED BY <3>2, <1>2, <1>3
    <2>5. Noted(endpoints, os)
      BY <2>2, <2>4, <1>1 DEF IoInv, HandlesInv
    <2>6. AddressesOf(endpoints, os.at) = DOMAIN os.pipes /\ IsInjective(os.pipes)
      BY DEF IoInv, SettingInv
    <2>7. NewestFirst(endpoints, os.at)
      BY <2>2, <1>7
    <2>8. find_endpoint(endpoints, [handle |-> os.pipes[r.address]]) \in 1 .. Len(endpoints)
          /\ endpoints[find_endpoint(endpoints, [handle |-> os.pipes[r.address]])].address = r.address
      BY <2>3, <2>5, <2>6, <2>7, <1>7, HandleIsFound
    <2>9. i \in 1 .. Len(endpoints) /\ endpoints[i].address = r.address
      BY <2>3, <2>8 DEF i
    <2>10. i # 0
      BY <2>9
    <2> QED BY <2>9, <2>10, <1>4
  <1>13. IoTypes'
    BY <1>1, <1>3, <1>6 DEF IoInv, IoTypes
  <1>14. SelectingInv' /\ SettingInv' /\ NewestFirst(endpoints', selects')
    BY <1>1, <1>3 DEF IoInv, SelectingInv, SettingInv
  <1> QED BY <1>8, <1>10, <1>11, <1>12, <1>13, <1>14 DEF IoInv

\* Every step keeps the invariant; a filter device object is counted, see PnpTypes.
LEMMA IoNext == IoInv /\ fidos[Dev] \in Nat /\ [Next]_vars => IoInv'
  <1> SUFFICES ASSUME IoInv, fidos[Dev] \in Nat, [Next]_vars PROVE IoInv'
    OBVIOUS
  <1>1. ASSUME UNCHANGED <<selects, os, selecting, endpoints, ep0, busy, server, missed, refused, cleared>>
        PROVE  IoInv'
    BY <1>1 DEF IoInv, IoTypes, SelectingInv, SettingInv, HandlesInv, ServerInv, RightEndpointCleared,
                Pending
  <1>2. CASE add_device \/ remove_hub \/ query_bus_relations \/ query_unfiltered
    BY <1>1, <1>2 DEF add_device, remove_hub, query_bus_relations, query_unfiltered, io
  <1>3. ASSUME NEW p \in Pdos, PlugIn(p) \/ PlugOut(p) PROVE IoInv'
    BY <1>1, <1>3 DEF PlugIn, PlugOut, io
  <1>4. ASSUME NEW p \in Pdos, remove_device(p) \/ disable_device(p) PROVE IoInv'
    BY <1>4, IoReset DEF remove_device, disable_device
  <1>5. CASE endpoint_add \/ endpoint_add_failed
    BY <1>5, AddNext
  <1>6. CASE endpoint_cleanup \/ Transfer
    BY <1>6, CleanupNext, TransferNext
  <1>7. CASE select_complete \/ reset_pipe_complete \/ ret_submit
    BY <1>7, SelectNext, ResetNext, RetNext
  <1>8. CASE select_failed
    BY <1>8 DEF select_failed, IoInv, IoTypes, SelectingInv, SettingInv, HandlesInv, ServerInv,
                RightEndpointCleared, Pending
  <1>9. CASE unpack_request
    BY <1>9, UnpackSelection, UnpackReset DEF unpack_request
  <1>10. CASE int_dev_ctrl \/ irp_complete
    BY <1>1, <1>10 DEF int_dev_ctrl, irp_complete
  <1>11. CASE UNCHANGED vars
    BY <1>1, <1>11 DEF vars, io
  <1> QED BY <1>2, <1>3, <1>4, <1>5, <1>6, <1>7, <1>8, <1>9, <1>10, <1>11 DEF Next

\* What is selected, what is queued and what the server was told agree in every
\* behaviour.
THEOREM IoInvariance == Spec => []IoInv
  <1>1. IInv => fidos[Dev] \in Nat
    BY DeviceAssumption DEF IInv, PnpTypes
  <1> QED BY <1>1, IoInit, IoNext, Invariance, PTL DEF Spec

\* When nothing is queued and no selection is under way, the server's device is in the
\* configuration and alternate setting that the operating system selected, if no
\* request was missed and none refused.
THEOREM ServerFollowsHolds == Spec => []ServerFollows
  <1>1. IoInv => ServerFollows
    <2> SUFFICES ASSUME IoInv, ep0 = <<>>, ~missed, ~refused
                 PROVE  server = os.setting
      BY DEF ServerFollows
    <2>1. Pending = <<>>
      BY DEF Pending, IoInv, IoTypes
    <2>2. Len(Pending) = 0
      BY <2>1
    <2>3. server.cfg = os.setting.cfg /\ server.alt = os.setting.alt
      BY <2>2 DEF IoInv, ServerInv, CfgIs, AltIs
    <2>4. server \in SettingType /\ os.setting \in SettingType
      BY DEF IoInv, IoTypes
    <2> QED BY <2>3, <2>4 DEF SettingType
  <1> QED BY <1>1, IoInvariance, PTL

\* CLEAR_FEATURE(ENDPOINT_HALT) goes to the endpoint of the pipe that was reset, though
\* handles are used again and the endpoints of an earlier setting may still be listed.
THEOREM RightEndpointClearedHolds == Spec => []RightEndpointCleared
  <1>1. IoInv => RightEndpointCleared
    BY DEF IoInv
  <1> QED BY <1>1, IoInvariance, PTL

-----------------------------------------------------------------------------
(* The tools.  While the driver fills the buffer of a process, the devices  *)
(* that kept their ports are still in them, and those of the ports behind   *)
(* it are in the buffer.                                                    *)

Walking == {"fill", "listed"}

\* A pair of a port and what is in it.
StillThere(x) ==
    x[1] \in Ports /\ devices[x[1]] # NoLocation /\ x = <<x[1], devices[x[1]]>>

Walked(b, s) ==
    /\ b = [max |-> b.max, port |-> b.port, out |-> b.out]
    /\ b.port \in 1 .. PortCount + 1
    /\ \E S : b.out \in Seq(S)
    /\ \A i \in 1 .. Len(b.out) : b.out[i][1] \in 1 .. b.port - 1
    /\ \A i \in 1 .. Len(b.out) - 1 : b.out[i][1] < b.out[i + 1][1]
    /\ \A x \in s : x[1] < b.port => \E i \in 1 .. Len(b.out) : b.out[i] = x

WalkInv ==
    /\ devices = [q \in Ports |-> devices[q]] /\ pc = [p \in Procs |-> pc[p]]
    /\ buf = [p \in Procs |-> buf[p]] /\ steady = [p \in Procs |-> steady[p]]
    /\ \A p \in Procs : \A x \in steady[p] : StillThere(x)
    /\ \A p \in Procs : pc[p] \in Walking => Walked(buf[p], steady[p])
    /\ \A p \in Procs : pc[p] = "listed" => buf[p].port > PortCount

(* What devnode remove has seen of its list so far.                         *)
ToolType == [at : {"none", "create", "update", "enum", "removed"}, list : SUBSET Nodes, left : SUBSET Nodes,
             dry_run : BOOLEAN, errors : BOOLEAN]

RemoveInv ==
    /\ node = [n \in Nodes |-> node[n]] /\ tool \in ToolType
    /\ tool.at \in {"enum", "removed"} =>
         /\ tool.left \subseteq tool.list
         /\ \A n \in tool.left : Present(n)
         /\ \A n \in tool.list : ~Present(n) => ~tool.dry_run /\ Matches(n)
         /\ ~tool.errors => \A n \in tool.list \ tool.left : ~tool.dry_run /\ Matches(n) => ~Present(n)
         /\ ~tool.errors /\ tool.at = "removed" => tool.left = {}

ToolsInv == WalkInv /\ RemoveInv

-----------------------------------------------------------------------------
\* A step that begins no walk and leaves what is being walked alone.
LEMMA WalkKept ==
  ASSUME WalkInv,
         devices' = [q \in Ports |-> devices'[q]], pc' = [p \in Procs |-> pc'[p]],
         buf' = [p \in Procs |-> buf'[p]], steady' = [p \in Procs |-> steady'[p]],
         \A r \in Procs : steady'[r] \subseteq steady[r],
         \A r \in Procs : \A x \in steady'[r] : devices'[x[1]] = devices[x[1]],
         \A r \in Procs : pc'[r] \in Walking => pc'[r] = pc[r] /\ buf'[r] = buf[r]
  PROVE  WalkInv'
  <1>1. \A r \in Procs : \A x \in steady'[r] : StillThere(x)'
    <2> SUFFICES ASSUME NEW r \in Procs, NEW x \in steady'[r] PROVE StillThere(x)'
      OBVIOUS
    <2>1. x \in steady[r] /\ devices'[x[1]] = devices[x[1]]
      OBVIOUS
    <2>2. StillThere(x)
      BY <2>1 DEF WalkInv
    <2> QED BY <2>1, <2>2 DEF StillThere
  <1>2. ASSUME NEW r \in Procs, pc'[r] \in Walking
        PROVE  Walked(buf'[r], steady'[r]) /\ (pc'[r] = "listed" => buf'[r].port > PortCount)
    <2>1. pc'[r] = pc[r] /\ buf'[r] = buf[r] /\ steady'[r] \subseteq steady[r]
      BY <1>2
    <2>2. Walked(buf[r], steady[r]) /\ (pc[r] = "listed" => buf[r].port > PortCount)
      BY <2>1, <1>2 DEF WalkInv
    <2>3. ASSUME NEW b, NEW s, NEW t, t \subseteq s, Walked(b, s) PROVE Walked(b, t)
      BY <2>3 DEF Walked
    <2> QED BY <2>1, <2>2, <2>3
  <1> QED BY <1>1, <1>2 DEF WalkInv, Walking

\* A command that ends, and one that goes on at a place where it does not walk.
LEMMA ExitKeeps ==
  ASSUME WalkInv, NEW p \in Procs, Exit(p),
         devices' = [q \in Ports |-> devices'[q]],
         \A r \in Procs : \A x \in steady[r] : devices'[x[1]] = devices[x[1]]
  PROVE  WalkInv'
  <1>1. /\ pc' = [pc EXCEPT ![p] = "none"] /\ buf' = [buf EXCEPT ![p] = NoBuf]
        /\ steady' = [steady EXCEPT ![p] = {}]
    BY DEF Exit, Goto
  <1>2. \A r \in Procs : steady'[r] \subseteq steady[r]
    BY <1>1 DEF WalkInv
  <1>3. \A r \in Procs : pc'[r] \in Walking => pc'[r] = pc[r] /\ buf'[r] = buf[r]
    BY <1>1 DEF WalkInv, Walking
  <1>4. /\ pc' = [r \in Procs |-> pc'[r]] /\ buf' = [r \in Procs |-> buf'[r]]
        /\ steady' = [r \in Procs |-> steady'[r]]
    BY <1>1 DEF WalkInv
  <1>5. \A r \in Procs : \A x \in steady'[r] : devices'[x[1]] = devices[x[1]]
    BY <1>2
  <1> QED BY <1>2, <1>3, <1>4, <1>5, WalkKept

\* A process goes on to a step at which it lists nothing.
LEMMA GotoKeeps ==
  ASSUME WalkInv, NEW p \in Procs, NEW l, l \notin Walking, Goto(p, l), UNCHANGED steady,
         buf' = [r \in Procs |-> buf'[r]], \A r \in Procs \ {p} : buf'[r] = buf[r],
         devices' = [q \in Ports |-> devices'[q]],
         \A r \in Procs : \A x \in steady[r] : devices'[x[1]] = devices[x[1]]
  PROVE  WalkInv'
  <1>1. pc' = [pc EXCEPT ![p] = l]
    BY DEF Goto
  <1>2. \A r \in Procs : steady'[r] \subseteq steady[r]
    OBVIOUS
  <1>3. \A r \in Procs : pc'[r] \in Walking => pc'[r] = pc[r] /\ buf'[r] = buf[r]
    BY <1>1 DEF WalkInv
  <1>4. pc' = [r \in Procs |-> pc'[r]] /\ steady' = [r \in Procs |-> steady'[r]]
    BY <1>1 DEF WalkInv
  <1>5. \A r \in Procs : \A x \in steady'[r] : devices'[x[1]] = devices[x[1]]
    OBVIOUS
  <1> QED BY <1>2, <1>3, <1>4, <1>5, WalkKept

\* A device comes to a port that was free.
LEMMA ClaimKeeps ==
  ASSUME WalkInv, NEW loc, claim_roothub_port(loc)
  PROVE  /\ devices' = [q \in Ports |-> devices'[q]]
         /\ \A r \in Procs : \A x \in steady[r] : devices'[x[1]] = devices[x[1]]
  <1> DEFINE free == {q \in Ports : devices[q] = NoLocation}
             m == Min(free)
  <1>1. free # {} /\ devices' = [devices EXCEPT ![m] = loc]
    BY DEF claim_roothub_port
  <1>2. free \subseteq Nat
    BY CommandsAssumption DEF Ports
  <1>3. m \in free
    BY <1>1, <1>2, LeastNumber DEF Min
  <1> HIDE DEF m
  <1>4. devices' = [q \in Ports |-> devices'[q]]
    BY <1>1 DEF WalkInv
  <1>5. ASSUME NEW r \in Procs, NEW x \in steady[r] PROVE devices'[x[1]] = devices[x[1]]
    <2>1. x[1] \in Ports /\ devices[x[1]] # NoLocation
      BY DEF WalkInv, StillThere
    <2>2. x[1] # m
      BY <2>1, <1>3
    <2> QED BY <1>1, <2>1, <2>2 DEF WalkInv
  <1> QED BY <1>4, <1>5

\* Devices leave ports, and the pairs of these ports are forgotten.
LEMMA LeaveKeeps ==
  ASSUME WalkInv, NEW qs, Leave(qs), devices' = [q \in Ports |-> devices'[q]],
         \A q \in Ports \ qs : devices'[q] = devices[q],
         pc' = [p \in Procs |-> pc'[p]], UNCHANGED buf,
         \A r \in Procs : pc'[r] \in Walking => pc'[r] = pc[r]
  PROVE  WalkInv'
  <1>1. steady' = [p \in Procs |-> {x \in steady[p] : x[1] \notin qs}]
    BY DEF Leave
  <1>2. \A r \in Procs : steady'[r] \subseteq steady[r]
    BY <1>1
  <1>3. ASSUME NEW r \in Procs, NEW x \in steady'[r] PROVE devices'[x[1]] = devices[x[1]]
    <2>1. x \in steady[r] /\ x[1] \notin qs
      BY <1>1
    <2>2. x[1] \in Ports
      BY <2>1 DEF WalkInv, StillThere
    <2> QED BY <2>1, <2>2
  <1>4. buf' = [r \in Procs |-> buf'[r]] /\ steady' = [r \in Procs |-> steady'[r]]
    BY <1>1 DEF WalkInv
  <1>5. \A r \in Procs : pc'[r] \in Walking => pc'[r] = pc[r] /\ buf'[r] = buf[r]
    OBVIOUS
  <1> QED BY <1>2, <1>3, <1>4, <1>5, WalkKept


-----------------------------------------------------------------------------
\* A sequence with one element more.
LEMMA AppendOf ==
  ASSUME NEW S, NEW s \in Seq(S), NEW e
  PROVE  /\ \E T : Append(s, e) \in Seq(T)
         /\ Len(s) \in Nat /\ Len(Append(s, e)) = Len(s) + 1 /\ Append(s, e)[Len(s) + 1] = e
         /\ \A i \in 1 .. Len(s) : Append(s, e)[i] = s[i]
  <1> DEFINE T == S \cup {e}
  <1>1. s \in Seq(T) /\ e \in T
    <2>1. Len(s) \in Nat /\ \A i \in 1 .. Len(s) : s[i] \in S
      BY LenProperties, ElementOfSeq
    <2>2. s = [i \in 1 .. Len(s) |-> s[i]]
      BY LenProperties
    <2>3. s \in [1 .. Len(s) -> T]
      BY <2>1, <2>2
    <2> QED BY <2>1, <2>3, SeqDef
  <1> HIDE DEF T
  <1> QED BY <1>1, AppendProperties, LenProperties

\* One port more has been looked at.
LEMMA FillsOne ==
  ASSUME NEW b, NEW s, Walked(b, s), b.port <= PortCount,
         \A x \in s : StillThere(x),
         NEW c, c = [b EXCEPT !.port = @ + 1,
                              !.out = IF devices[b.port] = NoLocation THEN @
                                      ELSE Append(@, <<b.port, devices[b.port]>>)]
  PROVE  Walked(c, s)
  <1> DEFINE e == <<b.port, devices[b.port]>>
             n == b.port
             o == IF devices[n] = NoLocation THEN b.out ELSE Append(b.out, e)
  <1>1. /\ b = [max |-> b.max, port |-> b.port, out |-> b.out]
        /\ n \in 1 .. PortCount + 1 /\ n <= PortCount /\ PortCount \in Nat /\ e[1] = n
    BY CommandsAssumption DEF Walked
  <1>2. PICK S : b.out \in Seq(S)
    BY DEF Walked
  <1>3. c = [max |-> b.max, port |-> n + 1, out |-> o]
    BY <1>1
  <1>4. c.port = n + 1 /\ c.out = o /\ c.max = b.max
    BY <1>3
  <1>5. \A x \in s : x[1] \in Ports /\ x = <<x[1], devices[x[1]]>> /\ devices[x[1]] # NoLocation
    BY DEF StillThere
  <1>6. \A x \in s : x[1] < n + 1 => x[1] < n \/ (x = e /\ devices[n] # NoLocation)
    <2> SUFFICES ASSUME NEW x \in s, x[1] < n + 1, ~(x[1] < n)
                 PROVE  x = e /\ devices[n] # NoLocation
      OBVIOUS
    <2>1. x[1] \in Nat /\ n \in Nat
      BY <1>1, <1>5 DEF Ports
    <2>2. x[1] = n
      BY <2>1
    <2> QED BY <2>2, <1>5
  <1>7. /\ \A i \in 1 .. Len(b.out) : b.out[i][1] \in 1 .. n - 1
        /\ \A i \in 1 .. Len(b.out) - 1 : b.out[i][1] < b.out[i + 1][1]
        /\ \A x \in s : x[1] < n => \E i \in 1 .. Len(b.out) : b.out[i] = x
    BY DEF Walked
  <1>8. Len(b.out) \in Nat
    BY <1>2, LenProperties
  <1>9. c = [max |-> c.max, port |-> c.port, out |-> c.out] /\ c.port \in 1 .. PortCount + 1
    <2> HIDE DEF o, n
    <2>1. c = [max |-> c.max, port |-> c.port, out |-> c.out]
      BY <1>3, <1>4
    <2>2. n + 1 \in 1 .. PortCount + 1
      BY <1>1
    <2> QED BY <2>1, <2>2, <1>4
  <1>10. CASE devices[n] = NoLocation
    <2>1. c.out = b.out
      BY <1>4, <1>10
    <2>2. \A i \in 1 .. Len(b.out) : b.out[i][1] \in 1 .. n + 1 - 1
      BY <1>7, <1>1
    <2>3. \A x \in s : x[1] < n + 1 => \E i \in 1 .. Len(b.out) : b.out[i] = x
      BY <1>6, <1>7, <1>10
    <2> HIDE DEF n, o, e
    <2> QED BY <2>1, <2>2, <2>3, <1>2, <1>4, <1>7, <1>9 DEF Walked
  <1>11. CASE devices[n] # NoLocation
    <2> DEFINE a == Append(b.out, e)
               k == Len(b.out)
    <2>1. c.out = a
      BY <1>4, <1>11
    <2>2. /\ \E T : a \in Seq(T)
          /\ Len(a) = k + 1 /\ a[k + 1] = e /\ \A i \in 1 .. k : a[i] = b.out[i]
      BY <1>2, AppendOf
    <2>3. k \in Nat /\ n \in Nat \ {0}
      BY <1>1, <1>8
    <2>4. /\ \A i \in 1 .. k : b.out[i][1] \in 1 .. n - 1
          /\ \A i \in 1 .. k - 1 : b.out[i][1] < b.out[i + 1][1]
          /\ \A x \in s : x[1] < n => \E i \in 1 .. k : b.out[i] = x
      BY <1>7
    <2> HIDE DEF a, k, n, e, o
    <2>5. \A i \in 1 .. Len(a) : a[i][1] \in 1 .. n
      <3> SUFFICES ASSUME NEW i \in 1 .. k + 1 PROVE a[i][1] \in 1 .. n
        BY <2>2
      <3>1. CASE i = k + 1
        BY <3>1, <2>2, <2>3, <1>1
      <3>2. CASE i # k + 1
        <4>1. i \in 1 .. k
          BY <3>2, <2>3
        <4> QED BY <4>1, <2>2, <2>3, <2>4
      <3> QED BY <3>1, <3>2
    <2>6. \A i \in 1 .. Len(a) - 1 : a[i][1] < a[i + 1][1]
      <3> SUFFICES ASSUME NEW i \in 1 .. k PROVE a[i][1] < a[i + 1][1]
        BY <2>2, <2>3
      <3>1. CASE i = k
        <4>1. a[i][1] \in 1 .. n - 1 /\ a[i + 1][1] = n
          BY <3>1, <2>2, <2>4, <1>1
        <4> QED BY <4>1, <2>3
      <3>2. CASE i # k
        <4>1. i \in 1 .. k - 1 /\ i + 1 \in 1 .. k
          BY <3>2, <2>3
        <4> QED BY <4>1, <2>2, <2>4
      <3> QED BY <3>1, <3>2
    <2>7. \A x \in s : x[1] < n + 1 => \E i \in 1 .. Len(a) : a[i] = x
      <3> SUFFICES ASSUME NEW x \in s, x[1] < n + 1 PROVE \E i \in 1 .. k + 1 : a[i] = x
        BY <2>2
      <3>1. CASE x[1] < n
        <4>1. PICK i \in 1 .. k : b.out[i] = x
          BY <3>1, <2>4
        <4>2. i \in 1 .. k + 1 /\ a[i] = x
          BY <4>1, <2>2, <2>3
        <4> QED BY <4>2
      <3>2. CASE x = e
        BY <3>2, <2>2, <2>3
      <3> QED BY <3>1, <3>2, <1>6
    <2>8. \E T : c.out \in Seq(T)
      BY <2>1, <2>2
    <2>9. \A i \in 1 .. Len(c.out) : c.out[i][1] \in 1 .. c.port - 1
      <3>1. c.port - 1 = n
        BY <1>4, <2>3
      <3> QED BY <2>1, <2>5, <3>1
    <2>10. \A i \in 1 .. Len(c.out) - 1 : c.out[i][1] < c.out[i + 1][1]
      BY <2>1, <2>6
    <2>11. \A x \in s : x[1] < c.port => \E i \in 1 .. Len(c.out) : c.out[i] = x
      BY <2>1, <2>7, <1>4
    <2> QED BY <2>8, <2>9, <2>10, <2>11, <1>9 DEF Walked
  <1> QED BY <1>10, <1>11

\* The walk begins, with an empty buffer.
LEMMA BeginsWalk ==
  ASSUME WalkInv, NEW p \in Procs, NEW m, NEW l, l \in {"fill"}, pc' = [pc EXCEPT ![p] = l],
         buf' = [buf EXCEPT ![p] = [max |-> m, port |-> 1, out |-> <<>>]],
         steady' = [steady EXCEPT ![p] = {<<q, devices[q]>> : q \in {r \in Ports : devices[r] # NoLocation}}],
         UNCHANGED devices
  PROVE  WalkInv'
  <1> DEFINE b == [max |-> m, port |-> 1, out |-> <<>>]
             s == {<<q, devices[q]>> : q \in {r \in Ports : devices[r] # NoLocation}}
  <1>1. \A x \in s : StillThere(x)
    BY DEF StillThere
  <1>2. \A x \in s : x[1] \in Ports
    BY <1>1 DEF StillThere
  <1>3. Walked(b, s)
    <2>1. <<>> \in Seq({}) /\ Len(<<>>) = 0
      OBVIOUS
    <2>2. b = [max |-> b.max, port |-> b.port, out |-> b.out] /\ b.port = 1 /\ b.out = <<>>
      OBVIOUS
    <2>3. 1 \in 1 .. PortCount + 1 /\ \A x \in s : ~(x[1] < 1)
      BY <1>2, CommandsAssumption DEF Ports
    <2> HIDE DEF b, s
    <2> QED BY <2>1, <2>2, <2>3 DEF Walked
  <1> HIDE DEF b, s
  <1>4. pc' = [pc EXCEPT ![p] = l] /\ buf' = [buf EXCEPT ![p] = b] /\ steady' = [steady EXCEPT ![p] = s]
    BY DEF b, s
  <1>5. /\ pc' = [r \in Procs |-> pc'[r]] /\ buf' = [r \in Procs |-> buf'[r]]
        /\ steady' = [r \in Procs |-> steady'[r]]
    BY <1>4 DEF WalkInv
  <1>6. \A r \in Procs : \/ pc'[r] = "fill" /\ buf'[r] = b /\ steady'[r] = s
                         \/ pc'[r] = pc[r] /\ buf'[r] = buf[r] /\ steady'[r] = steady[r]
    BY <1>4 DEF WalkInv
  <1>7. \A x : StillThere(x) => StillThere(x)'
    BY DEF StillThere
  <1>8. \A r \in Procs : \A x \in steady'[r] : StillThere(x)'
    BY <1>1, <1>6, <1>7 DEF WalkInv
  <1>9. \A r \in Procs : pc'[r] \in Walking => Walked(buf'[r], steady'[r])
    BY <1>3, <1>6 DEF WalkInv
  <1>10. \A r \in Procs : pc'[r] = "listed" => buf'[r].port > PortCount
    BY <1>6 DEF WalkInv
  <1> QED BY <1>5, <1>8, <1>9, <1>10 DEF WalkInv

\* The steps of the walk.
LEMMA FillNext ==
  ASSUME WalkInv, NEW p \in Procs, fill(p)
  PROVE  WalkInv'
  <1> DEFINE c == [buf[p] EXCEPT !.port = @ + 1,
                     !.out = IF devices[buf[p].port] = NoLocation THEN @
                             ELSE Append(@, <<buf[p].port, devices[buf[p].port]>>)]
  <1>1. /\ pc[p] = "fill" /\ buf[p].port <= PortCount /\ buf' = [buf EXCEPT ![p] = c]
        /\ UNCHANGED <<pc, steady, devices>>
    BY DEF fill, driverVars
  <1>2. Walked(c, steady[p])
    <2>1. Walked(buf[p], steady[p]) /\ \A x \in steady[p] : StillThere(x)
      BY <1>1 DEF WalkInv, Walking
    <2> QED BY <1>1, <2>1, FillsOne
  <1> HIDE DEF c
  <1>3. buf' = [r \in Procs |-> buf'[r]]
    BY <1>1 DEF WalkInv
  <1>4. \A r \in Procs : \/ r = p /\ buf'[r] = c
                         \/ r # p /\ buf'[r] = buf[r]
    BY <1>1 DEF WalkInv
  <1>5. \A x : StillThere(x) => StillThere(x)'
    BY <1>1 DEF StillThere
  <1>6. \A r \in Procs : pc'[r] \in Walking => Walked(buf'[r], steady'[r])
    BY <1>1, <1>2, <1>4 DEF WalkInv
  <1>7. \A r \in Procs : pc'[r] = "listed" => buf'[r].port > PortCount
    BY <1>1, <1>4 DEF WalkInv
  <1> QED BY <1>1, <1>3, <1>5, <1>6, <1>7 DEF WalkInv

\* The list is complete and printed.
LEMMA ListedNext ==
  ASSUME WalkInv, NEW p \in Procs, imported_devices(p)
  PROVE  WalkInv'
  <1>1. /\ pc[p] = "fill" /\ buf[p].port > PortCount /\ pc' = [pc EXCEPT ![p] = "listed"]
        /\ UNCHANGED <<buf, steady, devices>>
    BY DEF imported_devices, Goto, Stay, driverVars
  <1>2. pc' = [r \in Procs |-> pc'[r]]
    BY <1>1 DEF WalkInv
  <1>3. \A r \in Procs : pc'[r] = pc[r] \/ (r = p /\ pc[r] \in Walking)
    BY <1>1 DEF WalkInv, Walking
  <1>4. \A x : StillThere(x) => StillThere(x)'
    BY <1>1 DEF StillThere
  <1>5. \A r \in Procs : pc'[r] \in Walking => Walked(buf'[r], steady'[r])
    BY <1>1, <1>3 DEF WalkInv
  <1>6. \A r \in Procs : pc'[r] = "listed" => buf'[r].port > PortCount
    BY <1>1, <1>3 DEF WalkInv
  <1> QED BY <1>1, <1>2, <1>4, <1>5, <1>6 DEF WalkInv


\* What a command does, but for the walk.
LEMMA OpenNext ==
  ASSUME WalkInv, NEW p \in Procs,
         (\E c \in CommandLines : run(p, c)) \/ get_size(p) \/ get_path(p) \/ open(p) \/ BadHandle(p)
  PROVE  WalkInv'
  <1>1. devices' = devices
    BY DEF run, get_size, get_path, open, BadHandle, driverVars
  <1>2. /\ devices' = [q \in Ports |-> devices'[q]]
        /\ \A r \in Procs : \A x \in steady[r] : devices'[x[1]] = devices[x[1]]
    BY <1>1 DEF WalkInv
  <1>3. CASE Exit(p)
    BY <1>2, <1>3, ExitKeeps
  <1>4. CASE UNCHANGED steady /\ buf' = [r \in Procs |-> buf'[r]] /\ (\A r \in Procs \ {p} : buf'[r] = buf[r])
             /\ \E l : Goto(p, l) /\ l \notin Walking
    BY <1>2, <1>4, GotoKeeps
  <1>5. ASSUME NEW c \in CommandLines, run(p, c) PROVE WalkInv'
    <2>1. "AF_INET" \notin Walking /\ "size" \notin Walking
      BY DEF Walking
    <2> QED BY <1>4, <1>5, <2>1 DEF run, WalkInv
  <1>6. CASE get_size(p)
    <2>1. "list" \notin Walking
      BY DEF Walking
    <2>2. CASE Exit(p)
      BY <2>2, <1>3
    <2>3. CASE Goto(p, "list") /\ buf' = [buf EXCEPT ![p].max = Cardinality(Interfaces)]
               /\ UNCHANGED <<cmd, hnd, steady, started>>
      <3>1. UNCHANGED steady /\ buf' = [r \in Procs |-> buf'[r]] /\ \A r \in Procs \ {p} : buf'[r] = buf[r]
        BY <2>3 DEF WalkInv
      <3> QED BY <2>1, <2>3, <3>1, <1>4
    <2> QED BY <1>6, <2>2, <2>3 DEF get_size
  <1>7. CASE get_path(p)
    <2>1. "size" \notin Walking /\ "open" \notin Walking
      BY DEF Walking
    <2>2. CASE Exit(p)
      BY <2>2, <1>3
    <2>3. CASE Goto(p, "size") /\ Stay
      <3>1. UNCHANGED steady /\ buf' = [r \in Procs |-> buf'[r]] /\ \A r \in Procs \ {p} : buf'[r] = buf[r]
        BY <2>3 DEF WalkInv, Stay
      <3> QED BY <2>1, <2>3, <3>1, <1>4
    <2>4. CASE Goto(p, "open") /\ buf' = [buf EXCEPT ![p] = NoBuf] /\ UNCHANGED <<cmd, steady, started>>
      <3>1. UNCHANGED steady /\ buf' = [r \in Procs |-> buf'[r]] /\ \A r \in Procs \ {p} : buf'[r] = buf[r]
        BY <2>4 DEF WalkInv
      <3> QED BY <2>1, <2>4, <3>1, <1>4
    <2> QED BY <1>7, <2>2, <2>3, <2>4 DEF get_path
  <1>8. CASE open(p)
    <2>1. "opened" \notin Walking
      BY DEF Walking
    <2>2. CASE Goto(p, "opened") /\ Stay
      <3>1. UNCHANGED steady /\ buf' = [r \in Procs |-> buf'[r]] /\ \A r \in Procs \ {p} : buf'[r] = buf[r]
        BY <2>2 DEF WalkInv, Stay
      <3> QED BY <2>1, <2>2, <3>1, <1>4
    <2> QED BY <1>8, <2>2, <1>3 DEF open
  <1>9. CASE BadHandle(p)
    BY <1>9, <1>3 DEF BadHandle
  <1> QED BY <1>5, <1>6, <1>7, <1>8, <1>9

\* It goes on with its buffer as it is.
LEMMA StayKeeps ==
  ASSUME WalkInv, NEW p \in Procs, NEW l, l \notin Walking, Goto(p, l), Stay, UNCHANGED devices
  PROVE  WalkInv'
  <1>1. UNCHANGED steady /\ buf' = [r \in Procs |-> buf'[r]] /\ \A r \in Procs \ {p} : buf'[r] = buf[r]
    BY DEF WalkInv, Stay
  <1>2. /\ devices' = [q \in Ports |-> devices'[q]]
        /\ \A r \in Procs : \A x \in steady[r] : devices'[x[1]] = devices[x[1]]
    BY DEF WalkInv
  <1> QED BY <1>1, <1>2, GotoKeeps

\* A process ends.
LEMMA EndKeeps ==
  ASSUME WalkInv, NEW p \in Procs, Exit(p), UNCHANGED devices
  PROVE  WalkInv'
  <1>1. /\ devices' = [q \in Ports |-> devices'[q]]
        /\ \A r \in Procs : \A x \in steady[r] : devices'[x[1]] = devices[x[1]]
    BY DEF WalkInv
  <1> QED BY <1>1, ExitKeeps

\* usbip attach.
LEMMA AttachNext ==
  ASSUME WalkInv, NEW p \in Procs, attach(p)
  PROVE  WalkInv'
  <1>1. /\ devices' = [q \in Ports |-> devices'[q]]
        /\ \A r \in Procs : \A x \in steady[r] : devices'[x[1]] = devices[x[1]]
    <2>1. CASE UNCHANGED devices
      BY <2>1 DEF WalkInv
    <2>2. CASE claim_roothub_port(Target(p))
      BY <2>2, ClaimKeeps
    <2> QED BY <2>1, <2>2 DEF attach, plugin_hardware, driverVars
  <1>2. CASE Exit(p)
    BY <1>1, <1>2, ExitKeeps
  <1>3. CASE Goto(p, "each") /\ buf' = [buf EXCEPT ![p].out = Tail(@)] /\ UNCHANGED <<cmd, hnd, steady, started>>
    <2>1. UNCHANGED steady /\ buf' = [r \in Procs |-> buf'[r]] /\ \A r \in Procs \ {p} : buf'[r] = buf[r]
      BY <1>3 DEF WalkInv
    <2>2. "each" \notin Walking
      BY DEF Walking
    <2> QED BY <1>1, <1>3, <2>1, <2>2, GotoKeeps
  <1> QED BY <1>2, <1>3 DEF attach, plugin_hardware

\* usbip detach.
LEMMA DetachNext ==
  ASSUME WalkInv, NEW p \in Procs, detach(p)
  PROVE  WalkInv'
  <1>1. /\ devices' = [q \in Ports |-> IF q \in cmd[p].ports THEN NoLocation ELSE devices[q]]
        /\ pc' = [pc EXCEPT ![p] = "none"] /\ Leave(cmd[p].ports) /\ UNCHANGED buf
    BY DEF detach, Goto
  <1>2. devices' = [q \in Ports |-> devices'[q]] /\ \A q \in Ports \ cmd[p].ports : devices'[q] = devices[q]
    BY <1>1
  <1>3. pc' = [r \in Procs |-> pc'[r]] /\ \A r \in Procs : pc'[r] \in Walking => pc'[r] = pc[r]
    BY <1>1 DEF WalkInv, Walking
  <1> QED BY <1>1, <1>2, <1>3, LeaveKeeps

\* The persistent devices are read.
LEMMA GetPersistentNext ==
  ASSUME WalkInv, NEW p \in Procs, get_persistent(p)
  PROVE  WalkInv'
  <1>1. Goto(p, "each") /\ UNCHANGED <<steady, devices>> /\ buf' = [buf EXCEPT ![p].out = persistent]
    BY DEF get_persistent, driverVars
  <1>2. buf' = [r \in Procs |-> buf'[r]] /\ \A r \in Procs \ {p} : buf'[r] = buf[r]
    BY <1>1 DEF WalkInv
  <1>3. /\ devices' = [q \in Ports |-> devices'[q]]
        /\ \A r \in Procs : \A x \in steady[r] : devices'[x[1]] = devices[x[1]]
    BY <1>1 DEF WalkInv
  <1>4. "each" \notin Walking
    BY DEF Walking
  <1> QED BY <1>1, <1>2, <1>3, <1>4, GotoKeeps

\* Every step of a process.
LEMMA StepNext ==
  ASSUME WalkInv, NEW p \in Procs, Step(p)
  PROVE  WalkInv'
  <1>1. /\ "queued" \notin Walking /\ "driver" \notin Walking /\ "each" \notin Walking
        /\ "connected" \notin Walking /\ "AF_INET6" \notin Walking
    BY DEF Walking
  <1>2. CASE get_size(p) \/ get_path(p) \/ open(p) \/ BadHandle(p)
    BY <1>2, OpenNext
  <1>3. CASE device_control_parallel(p)
    BY <1>3, <1>1, StayKeeps DEF device_control_parallel, driverVars
  <1>4. CASE device_control(p)
    BY <1>4, <1>1, StayKeeps DEF device_control, driverVars
  <1>5. CASE attach(p)
    BY <1>5, AttachNext
  <1>6. CASE detach(p)
    BY <1>6, DetachNext
  <1>7. CASE get_imported_devices(p)
    <2>1. "fill" \in {"fill"}
      OBVIOUS
    <2> QED BY <1>7, <2>1, BeginsWalk DEF get_imported_devices, Goto, driverVars
  <1>8. CASE fill(p)
    BY <1>8, FillNext
  <1>9. CASE buffer_too_small(p)
    <2>1. /\ pc[p] = "fill" /\ UNCHANGED <<pc, devices>>
          /\ buf' = [buf EXCEPT ![p] = [max |-> 2 * buf[p].max, port |-> 1, out |-> <<>>]]
          /\ steady' = [steady EXCEPT ![p] = {<<q, devices[q]>> : q \in {r \in Ports : devices[r] # NoLocation}}]
      BY <1>9 DEF buffer_too_small, driverVars
    <2>2. pc' = [pc EXCEPT ![p] = "fill"]
      BY <2>1 DEF WalkInv
    <2> QED BY <2>1, <2>2, BeginsWalk
  <1>10. CASE imported_devices(p)
    BY <1>10, ListedNext
  <1>11. CASE fill_failed(p)
    BY <1>11, EndKeeps DEF fill_failed, driverVars
  <1>12. CASE cmd_port(p)
    BY <1>12, EndKeeps DEF cmd_port
  <1>13. CASE stop_attach_attempts(p)
    BY <1>13, EndKeeps DEF stop_attach_attempts
  <1>14. CASE get_persistent(p)
    BY <1>14, GetPersistentNext
  <1>15. CASE attach_persistent_devices(p)
    BY <1>15, <1>1, EndKeeps, StayKeeps DEF attach_persistent_devices, driverVars
  <1>16. CASE list_persistent_devices(p)
    BY <1>16, EndKeeps DEF list_persistent_devices, driverVars
  <1>17. CASE connect(p)
    BY <1>17, <1>1, EndKeeps, StayKeeps DEF connect, driverVars
  <1>18. CASE cmd_list(p)
    BY <1>18, EndKeeps DEF cmd_list, driverVars
  <1> QED BY <1>2, <1>3, <1>4, <1>5, <1>6, <1>7, <1>8, <1>9, <1>10, <1>11, <1>12, <1>13, <1>14,
             <1>15, <1>16, <1>17, <1>18 DEF Step

\* Every step of the tools and of the driver.
LEMMA WalkNext == WalkInv /\ [CommandsNext]_commandsVars => WalkInv'
  <1> SUFFICES ASSUME WalkInv, [CommandsNext]_commandsVars PROVE WalkInv'
    OBVIOUS
  <1>1. CASE UNCHANGED <<devices, pc, buf, steady>>
    BY <1>1 DEF WalkInv, StillThere
  <1>2. ASSUME NEW p \in Procs, (\E c \in CommandLines : run(p, c)) \/ Step(p) PROVE WalkInv'
    BY <1>2, OpenNext, StepNext
  <1>3. ASSUME NEW l \in Locations, Reattach(l) PROVE WalkInv'
    <2>1. claim_roothub_port(l) /\ UNCHANGED <<pc, buf, steady>>
      BY <1>3 DEF Reattach, procVars
    <2>2. /\ devices' = [q \in Ports |-> devices'[q]]
          /\ \A r \in Procs : \A x \in steady[r] : devices'[x[1]] = devices[x[1]]
      BY <2>1, ClaimKeeps
    <2>3. \A r \in Procs : steady'[r] \subseteq steady[r]
      BY <2>1
    <2>4. /\ pc' = [p \in Procs |-> pc'[p]]
          /\ buf' = [p \in Procs |-> buf'[p]] /\ steady' = [p \in Procs |-> steady'[p]]
      BY <2>1 DEF WalkInv
    <2> QED BY <2>1, <2>2, <2>3, <2>4, WalkKept
  <1>4. ASSUME NEW q \in Ports, Disconnect(q) PROVE WalkInv'
    <2>1. devices' = [devices EXCEPT ![q] = NoLocation] /\ Leave({q}) /\ UNCHANGED <<pc, buf>>
      BY <1>4 DEF Disconnect
    <2>2. devices' = [x \in Ports |-> devices'[x]] /\ \A x \in Ports \ {q} : devices'[x] = devices[x]
      BY <2>1 DEF WalkInv
    <2>3. pc' = [p \in Procs |-> pc'[p]]
      BY <2>1 DEF WalkInv
    <2> QED BY <2>1, <2>2, <2>3, LeaveKeeps
  <1>5. CASE NoController /\ UNCHANGED <<pc, buf>>
    <2>1. devices' = [x \in Ports |-> devices'[x]] /\ Leave(Ports) /\ \A x \in Ports \ Ports : devices'[x] = devices[x]
      BY <1>5 DEF NoController, NoDevices
    <2>2. pc' = [p \in Procs |-> pc'[p]]
      BY <1>5 DEF WalkInv
    <2> QED BY <1>5, <2>1, <2>2, LeaveKeeps
  <1>6. CASE devnode_run \/ devnode
    BY <1>6, <1>1 DEF devnode_run, devnode, driverVars, procVars
  <1>7. CASE devnode_update
    BY <1>7, <1>5 DEF devnode_update
  <1>8. ASSUME NEW n \in Nodes, devnode_uninstall(n) PROVE WalkInv'
    BY <1>8, <1>5, <1>1 DEF devnode_uninstall
  <1>9. CASE UNCHANGED commandsVars
    BY <1>9, <1>1 DEF commandsVars, driverVars, procVars
  <1> QED BY <1>2, <1>3, <1>4, <1>6, <1>7, <1>8, <1>9 DEF CommandsNext


-----------------------------------------------------------------------------
\* devnode beside its remove.
LEMMA RemoveIdle ==
  ASSUME node' = [n \in Nodes |-> node'[n]], tool' \in ToolType, tool'.at \notin {"enum", "removed"}
  PROVE  RemoveInv'
  BY DEF RemoveInv

\* devnode goes on.
LEMMA ToolAt ==
  ASSUME NEW t \in ToolType, NEW a \in {"none", "create", "update", "enum", "removed"}
  PROVE  LET u == [t EXCEPT !.at = a] IN u \in ToolType /\ u.at = a
  BY DEF ToolType

\* No devnode runs.
LEMMA NoToolType == NoTool \in ToolType /\ NoTool.at = "none"
  BY DEF NoTool, ToolType

\* devnode reads the list.
LEMMA ListDevicesNext ==
  ASSUME RemoveInv, NEW d \in BOOLEAN, get_class_devs(d)
  PROVE  RemoveInv'
  <1>0. CASE UNCHANGED <<tool, node>>
    <2>1. \A m : Matches(m)' = Matches(m) /\ Present(m)' = Present(m)
      BY <1>0 DEF Matches, HardwareIds, Present
    <2> QED BY <1>0, <2>1 DEF RemoveInv
  <1> SUFFICES ASSUME NEW all \in SUBSET {n \in Nodes : Present(n)}, node' = node,
                      tool' = [at |-> "enum", list |-> all, left |-> all, dry_run |-> d, errors |-> FALSE]
               PROVE  RemoveInv'
    BY <1>0 DEF get_class_devs
  <1>1. /\ tool' = [at |-> "enum", list |-> all, left |-> all, dry_run |-> d, errors |-> FALSE]
        /\ node' = node
    OBVIOUS
  <1>2. all \subseteq Nodes
    OBVIOUS
  <1>3. \A n \in all : Present(n)'
    BY <1>1 DEF Present
  <1>4. tool' \in ToolType
    BY <1>1, <1>2 DEF ToolType
  <1>5. tool'.at = "enum" /\ tool'.list = all /\ tool'.left = all
    BY <1>1
  <1>6. node' = [n \in Nodes |-> node'[n]]
    BY <1>1 DEF RemoveInv
  <1> QED BY <1>3, <1>4, <1>5, <1>6 DEF RemoveInv

\* devnode comes to one device of the list.
LEMMA UninstallNext ==
  ASSUME RemoveInv, NEW n \in Nodes, NEW ok \in BOOLEAN, uninstall_device(n, ok)
  PROVE  RemoveInv'
  <1> DEFINE gone == ok /\ Matches(n) /\ ~tool.dry_run
  <1>1. /\ tool.at = "enum" /\ n \in tool.left /\ tool \in ToolType
        /\ tool' = [tool EXCEPT !.left = @ \ {n}, !.errors = @ \/ ~ok]
        /\ node' = IF gone THEN [node EXCEPT ![n] = "none"] ELSE node
    BY DEF uninstall_device, RemoveInv
  <1>2. /\ tool' \in ToolType /\ tool'.at = "enum" /\ tool'.list = tool.list
        /\ tool'.left = tool.left \ {n} /\ tool'.dry_run = tool.dry_run
    BY <1>1 DEF ToolType
  <1>3. tool'.errors = (tool.errors \/ ~ok)
    BY <1>1 DEF ToolType
  <1>4. /\ tool.left \subseteq tool.list
        /\ \A m \in tool.left : Present(m)
        /\ \A m \in tool.list : ~Present(m) => ~tool.dry_run /\ Matches(m)
        /\ ~tool.errors => \A m \in tool.list \ tool.left : ~tool.dry_run /\ Matches(m) => ~Present(m)
    BY <1>1 DEF RemoveInv
  <1>5. node' = [m \in Nodes |-> node'[m]]
    BY <1>1 DEF RemoveInv
  <1>6. tool.list \subseteq Nodes
    BY <1>1 DEF ToolType
  <1>7. \A m \in Nodes : Present(m)' = (Present(m) /\ ~(gone /\ m = n))
    BY <1>1 DEF RemoveInv, Present
  <1>8. \A m : Matches(m)' = Matches(m)
    BY DEF Matches, HardwareIds
  <1> HIDE DEF gone
  <1>9. \A m \in tool.left \ {n} : Present(m)'
    BY <1>4, <1>6, <1>7
  <1>10. \A m \in tool.list : ~Present(m)' => ~tool.dry_run /\ Matches(m)
    BY <1>4, <1>6, <1>7 DEF gone
  <1>11. ~tool'.errors => \A m \in tool.list \ (tool.left \ {n}) : ~tool.dry_run /\ Matches(m) => ~Present(m)'
    <2> SUFFICES ASSUME ~tool.errors, ok, NEW m \in tool.list \ (tool.left \ {n}), ~tool.dry_run, Matches(m)
                 PROVE  ~Present(m)'
      BY <1>3
    <2>1. CASE m = n
      BY <2>1, <1>6, <1>7 DEF gone
    <2>2. CASE m # n
      BY <2>2, <1>4, <1>6, <1>7
    <2> QED BY <2>1, <2>2
  <1>12. tool'.left \subseteq tool'.list
    BY <1>2, <1>4
  <1>13. \A m \in tool'.list : ~Present(m)' => ~tool'.dry_run /\ Matches(m)'
    BY <1>2, <1>8, <1>10
  <1>14. ~tool'.errors => \A m \in tool'.list \ tool'.left : ~tool'.dry_run /\ Matches(m)' => ~Present(m)'
    BY <1>2, <1>8, <1>11
  <1> QED BY <1>2, <1>5, <1>9, <1>12, <1>13, <1>14 DEF RemoveInv

\* The enumeration ends.
LEMMA EnumNext ==
  ASSUME RemoveInv, enum_device_info
  PROVE  RemoveInv'
  <1>1. /\ tool.at = "enum" /\ tool \in ToolType /\ node' = node
        /\ tool' = [tool EXCEPT !.at = "removed", !.errors = @ \/ tool.left # {}]
    BY DEF enum_device_info, RemoveInv
  <1>2. /\ tool' \in ToolType /\ tool'.at = "removed" /\ tool'.list = tool.list
        /\ tool'.left = tool.left /\ tool'.dry_run = tool.dry_run
    BY <1>1 DEF ToolType
  <1>3. tool'.errors = (tool.errors \/ tool.left # {})
    BY <1>1 DEF ToolType
  <1>4. \A m : Matches(m)' = Matches(m) /\ Present(m)' = Present(m)
    BY <1>1 DEF Matches, HardwareIds, Present
  <1> QED BY <1>1, <1>2, <1>3, <1>4 DEF RemoveInv

\* Every step of devnode, and those that leave it alone.
LEMMA RemoveNext == RemoveInv /\ [CommandsNext]_commandsVars => RemoveInv'
  <1> SUFFICES ASSUME RemoveInv, [CommandsNext]_commandsVars PROVE RemoveInv'
    OBVIOUS
  <1>1. CASE UNCHANGED devnodeVars
    <2>1. \A m : Matches(m)' = Matches(m) /\ Present(m)' = Present(m)
      BY <1>1 DEF Matches, HardwareIds, Present, devnodeVars
    <2> QED BY <1>1, <2>1 DEF RemoveInv, devnodeVars
  <1>2. CASE UNCHANGED commandsVars
    BY <1>1, <1>2 DEF commandsVars
  <1>3. ASSUME NEW p \in Procs, (\E c \in CommandLines : run(p, c)) \/ Step(p) PROVE RemoveInv'
    <2>1. UNCHANGED devnodeVars
      BY <1>3 DEF run, Step, get_size, get_path, open, BadHandle, device_control_parallel, device_control,
           attach, detach, get_imported_devices, fill, buffer_too_small, imported_devices, fill_failed,
           cmd_port, stop_attach_attempts, get_persistent, attach_persistent_devices,
           list_persistent_devices, connect, cmd_list
    <2> QED BY <2>1, <1>1
  <1>4. CASE (\E l \in Locations : Reattach(l)) \/ \E q \in Ports : Disconnect(q)
    BY <1>4, <1>1 DEF Reattach, Disconnect
  <1>5. CASE tool' = NoTool /\ UNCHANGED node
    BY <1>5, NoToolType, RemoveIdle DEF RemoveInv
  <1>6. CASE devnode_install
    <2>1. tool' = [tool EXCEPT !.at = "create"] /\ node' = node /\ tool \in ToolType
      BY <1>6 DEF devnode_install, RemoveInv
    <2>2. tool' \in ToolType /\ tool'.at = "create"
      BY <2>1, ToolAt
    <2>3. node' = [n \in Nodes |-> node'[n]]
      BY <2>1 DEF RemoveInv
    <2> QED BY <2>2, <2>3, RemoveIdle
  <1>7. ASSUME NEW n \in NewNodes, register(n) PROVE RemoveInv'
    <2>1. /\ tool' = [tool EXCEPT !.at = "update"] /\ tool \in ToolType
          /\ node' = [node EXCEPT ![n] = "bare"]
      BY <1>7 DEF register, RemoveInv
    <2>2. tool' \in ToolType /\ tool'.at = "update"
      BY <2>1, ToolAt
    <2>3. node' = [m \in Nodes |-> node'[m]]
      BY <2>1 DEF RemoveInv
    <2> QED BY <2>2, <2>3, RemoveIdle
  <1>8. CASE install_devnode_and_driver
    BY <1>5, <1>7, <1>8 DEF install_devnode_and_driver, create_failed, update_failed
  <1>9. CASE devnode_run
    BY <1>6, <1>9, ListDevicesNext DEF devnode_run
  <1>10. CASE devnode
    <2>1. CASE remove_returns
      BY <2>1, <1>5 DEF remove_returns
    <2>2. ASSUME NEW n \in Nodes, uninstall_device(n, FALSE) PROVE RemoveInv'
      BY <2>2, UninstallNext, FALSE \in BOOLEAN
    <2> QED BY <1>10, <1>8, <2>1, <2>2, EnumNext DEF devnode
  <1>11. CASE devnode_update
    <2>1. tool' = NoTool /\ node' = [n \in Nodes |-> IF n \in Updated THEN "up" ELSE node[n]]
      BY <1>11 DEF devnode_update, update_driver
    <2>2. node' = [n \in Nodes |-> node'[n]]
      BY <2>1
    <2> QED BY <2>1, <2>2, NoToolType, RemoveIdle
  <1>12. ASSUME NEW n \in Nodes, devnode_uninstall(n) PROVE RemoveInv'
    BY <1>12, UninstallNext, TRUE \in BOOLEAN DEF devnode_uninstall
  <1> QED BY <1>2, <1>3, <1>4, <1>9, <1>10, <1>11, <1>12 DEF CommandsNext

-----------------------------------------------------------------------------
\* No process lists anything at first.
LEMMA ToolsInit == CommandsInit => ToolsInv
  <1> SUFFICES ASSUME CommandsInit PROVE ToolsInv
    OBVIOUS
  <1>1. WalkInv
    BY DEF CommandsInit, WalkInv, NoDevices, Walking
  <1>2. node = [n \in Nodes |-> node[n]] /\ tool = NoTool
    BY DEF CommandsInit, DevNodeInit
  <1>3. RemoveInv
    BY <1>2, NoToolType DEF RemoveInv
  <1> QED BY <1>1, <1>3 DEF ToolsInv

\* What the driver has filled in and what devnode has removed in every behaviour.
THEOREM ToolsInvariance == CommandsSpec => []ToolsInv
  <1>1. ToolsInv /\ [CommandsNext]_commandsVars => ToolsInv'
    BY WalkNext, RemoveNext DEF ToolsInv
  <1> QED BY <1>1, ToolsInit, PTL DEF CommandsSpec

\* The list of `usbip port' has every device that kept its port while the driver filled it,
\* and no port twice, for any number of ports, processes and rooms of the first buffer.
THEOREM SteadyIsListedHolds == CommandsSpec => []SteadyIsListed
  <1>1. WalkInv => SteadyIsListed
    <2> SUFFICES ASSUME WalkInv, NEW p \in Procs, pc[p] = "listed"
                 PROVE  /\ steady[p] \subseteq {buf[p].out[i] : i \in DOMAIN buf[p].out}
                        /\ \A i \in 1 .. (Len(buf[p].out) - 1) : buf[p].out[i][1] < buf[p].out[i + 1][1]
      BY DEF SteadyIsListed
    <2>1. /\ Walked(buf[p], steady[p]) /\ buf[p].port > PortCount
          /\ \A x \in steady[p] : x[1] \in Ports
      BY DEF WalkInv, Walking, StillThere
    <2>2. /\ buf[p].port \in Nat /\ PortCount \in Nat
      BY <2>1, CommandsAssumption DEF Walked
    <2>3. \A x \in steady[p] : x[1] < buf[p].port
      BY <2>1, <2>2 DEF Ports
    <2>4. PICK S : buf[p].out \in Seq(S)
      BY <2>1 DEF Walked
    <2>5. DOMAIN buf[p].out = 1 .. Len(buf[p].out)
      BY <2>4, LenProperties
    <2> QED BY <2>1, <2>3, <2>5 DEF Walked
  <1> QED BY <1>1, ToolsInvariance, PTL DEF ToolsInv

\* devnode remove without an error or a reboot that is needed has removed the nodes with
\* the hardware id, all that were listed and no other, for any nodes, any enumerator and any
\* failures of the Setup API.
THEOREM RemoveIsExactHolds == CommandsSpec => []RemoveIsExact
  <1>1. RemoveInv => RemoveIsExact
    <2> SUFFICES ASSUME RemoveInv, tool.at = "removed"
                 PROVE  LET gone == {n \in tool.list : ~Present(n)}
                            meant == IF tool.dry_run THEN {} ELSE {n \in tool.list : HardwareIds(n) = <<HwId>>}
                        IN  gone \subseteq meant /\ (~tool.errors => gone = meant)
      BY DEF RemoveIsExact
    <2>1. /\ \A n \in tool.list : ~Present(n) => ~tool.dry_run /\ Matches(n)
          /\ ~tool.errors => \A n \in tool.list : ~tool.dry_run /\ Matches(n) => ~Present(n)
      BY DEF RemoveInv
    <2>2. \A n : Matches(n) <=> HardwareIds(n) = <<HwId>>
      BY DEF Matches, make_hwid
    <2> QED BY <2>1, <2>2
  <1> QED BY <1>1, ToolsInvariance, PTL DEF ToolsInv

-----------------------------------------------------------------------------
(* The names of usb.ids: what the parser knows after i lines is what the    *)
(* first i lines declare.                                                   *)

\* The pass of load over the lines exists, so that it is what it is defined to be.
LEMMA LoadRuns ==
  ASSUME NEW f, Len(f) \in Nat
  PROVE  \E a : /\ a[0] = NoIds
                /\ \A i \in 1 .. Len(f) : a[i] = for_each_line(a[i - 1], f[i])
                /\ load(f) = a[Len(f)]
  <1> DEFINE n == Len(f)
             Body(h, i) == IF i = 0 THEN NoIds ELSE for_each_line(h[i - 1], f[i])
             Steps(h) == [i \in 0 .. n |-> Body(h, i)]
             after == CHOOSE h : h = Steps(h)
             Runs(m) == \E h : \A i \in 0 .. m : h[i] = Body(h, i)
             T == {m \in Nat : m <= n => Runs(m)}
  <1>1. load(f) = after[n]
    BY DEF load
  <1> HIDE DEF n
  <1>2. n \in Nat
    BY DEF n
  <1>3. 0 \in T
    <2> DEFINE h == [i \in 0 .. 0 |-> NoIds]
    <2>1. \A i \in 0 .. 0 : h[i] = Body(h, i)
      OBVIOUS
    <2> HIDE DEF h, Body
    <2> QED BY <2>1
  <1>4. \A m \in Nat : m \in T => m + 1 \in T
    <2> SUFFICES ASSUME NEW m \in Nat, m \in T, m + 1 <= n PROVE Runs(m + 1)
      <3> HIDE DEF Runs
      <3> QED OBVIOUS
    <2>1. PICK h : \A i \in 0 .. m : h[i] = Body(h, i)
      BY <1>2
    <2> DEFINE g == [i \in 0 .. m + 1 |-> IF i <= m THEN h[i] ELSE Body(h, i)]
    <2>2. \A i \in 0 .. m + 1 : g[i] = Body(g, i)
      <3> SUFFICES ASSUME NEW i \in 0 .. m + 1 PROVE g[i] = Body(g, i)
        OBVIOUS
      <3>1. g[i] = Body(h, i)
        BY <2>1
      <3>2. i # 0 => g[i - 1] = h[i - 1]
        OBVIOUS
      <3> HIDE DEF g
      <3> QED BY <3>1, <3>2
    <2> HIDE DEF g, Body
    <2> QED BY <2>2
  <1>5. n \in T
    <2> HIDE DEF T
    <2> QED BY <1>2, <1>3, <1>4, SetInduction
  <1>6. PICK h : \A i \in 0 .. n : h[i] = Body(h, i)
    BY <1>2, <1>5
  <1> DEFINE g == [i \in 0 .. n |-> h[i]]
  <1>7. g = Steps(g)
    <2>1. \A i \in 0 .. n : g[i] = Body(g, i)
      <3> SUFFICES ASSUME NEW i \in 0 .. n PROVE g[i] = Body(g, i)
        OBVIOUS
      <3>1. g[i] = Body(h, i)
        BY <1>6
      <3>2. i # 0 => g[i - 1] = h[i - 1]
        BY <1>2
      <3> HIDE DEF g
      <3> QED BY <3>1, <3>2
    <2>2. g = [i \in 0 .. n |-> g[i]]
      OBVIOUS
    <2> HIDE DEF g, Body
    <2> QED BY <2>1, <2>2
  <1>8. after = Steps(after)
    <2> HIDE DEF g, Steps
    <2> QED BY <1>7
  <1> HIDE DEF after
  <1>9. /\ after[0] = NoIds
        /\ \A i \in 1 .. n : after[i] = for_each_line(after[i - 1], f[i])
    <2>1. \A i \in 0 .. n : after[i] = Body(after, i)
      <3> HIDE DEF Body
      <3> QED BY <1>8
    <2> QED BY <1>2, <2>1
  <1> QED BY <1>1, <1>9 DEF n

\* Of some lines up to line i there is a last one.
LEMMA LastLine ==
  ASSUME NEW i \in Nat, NEW J, J \subseteq 1 .. i, J # {}
  PROVE  Max(J) \in J /\ \A j \in J : j <= Max(J)
  <1> DEFINE R == {i - j : j \in J}
  <1>1. R \subseteq Nat /\ R # {}
    <2>1. \A j \in J : i - j \in Nat
      OBVIOUS
    <2> QED BY <2>1
  <1>2. PICK r \in R : \A y \in R : r <= y
    <2> HIDE DEF R
    <2> QED BY <1>1, LeastNumber
  <1>3. PICK x \in J : r = i - x
    OBVIOUS
  <1>4. \A j \in J : x >= j
    <2> TAKE j \in J
    <2>1. r <= i - j
      BY <1>2
    <2> QED BY <1>3, <2>1
  <1>5. Max(J) \in J /\ \A j \in J : Max(J) >= j
    BY <1>4 DEF Max
  <1> QED BY <1>5

\* And a first one.
LEMMA FirstLine ==
  ASSUME NEW J, J \subseteq Nat, J # {}
  PROVE  Min(J) \in J /\ \A j \in J : Min(J) <= j
  BY LeastNumber DEF Min

\* A line above is above, of one of the kinds, and the last of them.
LEMMA AboveIs ==
  ASSUME NEW f, NEW i \in Nat, i > 0, NEW kinds
  PROVE  LET a == Above(f, i, kinds) IN
         /\ a \in 0 .. i - 1
         /\ a > 0 => f[a].kind \in kinds
         /\ \A j \in 1 .. i - 1 : f[j].kind \in kinds => j <= a
  <1> DEFINE J == {j \in 1 .. (i - 1) : f[j].kind \in kinds}
  <1>1. J = {} => Above(f, i, kinds) = 0
    BY DEF Above
  <1>2. J # {} => Above(f, i, kinds) = Max(J)
    BY DEF Above
  <1>3. J # {} => Max(J) \in J /\ \A j \in J : j <= Max(J)
    <2>1. J \subseteq 1 .. i - 1 /\ i - 1 \in Nat
      OBVIOUS
    <2> HIDE DEF J
    <2> QED BY <2>1, LastLine
  <1> QED BY <1>1, <1>2, <1>3

\* It is given by that.
LEMMA AboveOnly ==
  ASSUME NEW f, NEW i \in Nat, i > 0, NEW kinds, NEW a \in 0 .. i - 1,
         a > 0 => f[a].kind \in kinds,
         \A j \in 1 .. i - 1 : f[j].kind \in kinds => j <= a
  PROVE  Above(f, i, kinds) = a
  <1> DEFINE b == Above(f, i, kinds)
  <1>1. /\ b \in 0 .. i - 1
        /\ b > 0 => f[b].kind \in kinds
        /\ \A j \in 1 .. i - 1 : f[j].kind \in kinds => j <= b
    BY AboveIs
  <1> HIDE DEF b
  <1>2. b <= a /\ a <= b
    BY <1>1
  <1> QED BY <1>1, <1>2 DEF b

\* One line further.
LEMMA AboveNext ==
  ASSUME NEW f, NEW i \in Nat, i > 0, NEW kinds
  PROVE  Above(f, i + 1, kinds) = IF f[i].kind \in kinds THEN i ELSE Above(f, i, kinds)
  <1> DEFINE b == Above(f, i, kinds)
  <1>1. /\ b \in 0 .. i - 1
        /\ b > 0 => f[b].kind \in kinds
        /\ \A j \in 1 .. i - 1 : f[j].kind \in kinds => j <= b
    BY AboveIs
  <1> HIDE DEF b
  <1>2. CASE f[i].kind \in kinds
    BY <1>2, AboveOnly
  <1>3. CASE f[i].kind \notin kinds
    <2>1. Above(f, i + 1, kinds) = b
      <3>1. \A j \in 1 .. (i + 1) - 1 : f[j].kind \in kinds => j <= b
        BY <1>1, <1>3
      <3>2. b \in 0 .. (i + 1) - 1 /\ i + 1 \in Nat /\ i + 1 > 0
        BY <1>1
      <3> QED BY <1>1, <3>1, <3>2, AboveOnly
    <2> QED BY <1>3, <2>1 DEF b
  <1> QED BY <1>2, <1>3

\* Where the lines before a mark end.
LEMMA BeforeIs ==
  ASSUME NEW f, Len(f) \in Nat, NEW n \in 0 .. Len(f), NEW mark
  PROVE  LET e == Before(f, n, mark) IN
         /\ e \in n .. Len(f)
         /\ \A i \in n + 1 .. e : f[i] # mark
         /\ e < Len(f) => f[e + 1] = mark
  <1> DEFINE J == {j \in (n + 1) .. Len(f) : f[j] = mark}
             e == Before(f, n, mark)
  <1>1. CASE J = {}
    <2>1. e = Len(f)
      BY <1>1 DEF Before
    <2> QED BY <1>1, <2>1
  <1>2. CASE J # {}
    <2>1. e = Min(J) - 1
      BY <1>2 DEF Before
    <2>2. J \subseteq Nat
      OBVIOUS
    <2>3. Min(J) \in J /\ \A j \in J : Min(J) <= j
      <3> HIDE DEF J
      <3> QED BY <1>2, <2>2, FirstLine
    <2> HIDE DEF e
    <2>4. e \in n .. Len(f) /\ f[e + 1] = mark
      BY <2>1, <2>3
    <2>5. \A i \in n + 1 .. e : f[i] # mark
      <3> SUFFICES ASSUME NEW i \in n + 1 .. e, f[i] = mark PROVE FALSE
        OBVIOUS
      <3>1. i \in J
        BY <2>4
      <3> QED BY <2>1, <2>3, <3>1
    <2> QED BY <2>4, <2>5 DEF e
  <1> QED BY <1>1, <1>2

-----------------------------------------------------------------------------
\* What a map says of a key: it has the key as soon as one of the lines of the key was
\* read, and the name that is in the first of them.
Tells(f, m, key, S, i) ==
    /\ key \in DOMAIN m <=> \E j \in S : j <= i
    /\ \A j \in S : j <= i /\ (\A k \in S : j <= k) => m[key] = f[j].name

\* A line that is not one of them.
LEMMA TellsSkip ==
  ASSUME NEW f, NEW m, NEW key, NEW S, S \subseteq Nat, NEW i \in Nat, i > 0,
         Tells(f, m, key, S, i - 1), i \notin S
  PROVE  Tells(f, m, key, S, i)
  <1>1. \A j \in S : j <= i <=> j <= i - 1
    OBVIOUS
  <1> QED BY <1>1 DEF Tells

\* A line that is one of them.
LEMMA TellsEmplace ==
  ASSUME NEW f, NEW m, NEW key, NEW S, S \subseteq Nat, NEW i \in Nat, i > 0,
         Tells(f, m, key, S, i - 1), i \in S
  PROVE  Tells(f, emplace(m, key, f[i].name), key, S, i)
  <1> DEFINE u == emplace(m, key, f[i].name)
  <1>1. /\ DOMAIN u = DOMAIN m \cup {key}
        /\ key \in DOMAIN m => u[key] = m[key]
        /\ key \notin DOMAIN m => u[key] = f[i].name
    BY DEF emplace
  <1> HIDE DEF u
  <1>2. key \in DOMAIN u <=> \E j \in S : j <= i
    BY <1>1
  <1>3. ASSUME NEW j \in S, j <= i, \A k \in S : j <= k
        PROVE  u[key] = f[j].name
    <2>1. CASE key \in DOMAIN m
      <3>1. PICK k \in S : k <= i - 1
        BY <2>1 DEF Tells
      <3>2. j <= i - 1
        BY <1>3, <3>1
      <3>3. m[key] = f[j].name
        BY <1>3, <3>2 DEF Tells
      <3> QED BY <1>1, <2>1, <3>3
    <2>2. CASE key \notin DOMAIN m
      <3>1. ~(j <= i - 1)
        BY <1>3, <2>2 DEF Tells
      <3>2. j = i
        BY <1>3, <3>1
      <3> QED BY <1>1, <2>2, <3>2
    <2> QED BY <2>1, <2>2
  <1>4. Tells(f, u, key, S, i)
    BY <1>2, <1>3 DEF Tells
  <1> QED BY <1>4 DEF u

\* Another key, or one that is there.
LEMMA TellsOther ==
  ASSUME NEW f, NEW m, NEW key, NEW S, NEW i, Tells(f, m, key, S, i),
         NEW k, NEW val, k # key \/ k \in DOMAIN m
  PROVE  Tells(f, emplace(m, k, val), key, S, i)
  <1> DEFINE u == emplace(m, k, val)
  <1>1. /\ DOMAIN u = DOMAIN m \cup {k}
        /\ key \in DOMAIN m => u[key] = m[key]
    BY DEF emplace
  <1> HIDE DEF u
  <1>2. Tells(f, u, key, S, i)
    <2>1. key \in DOMAIN u <=> key \in DOMAIN m
      BY <1>1
    <2> QED BY <1>1, <2>1 DEF Tells
  <1> QED BY <1>2 DEF u

\* At the end the name is the one in the first line.
LEMMA TellsEnd ==
  ASSUME NEW f, NEW m, NEW key, NEW n \in Nat, NEW S, S \subseteq 1 .. n, Tells(f, m, key, S, n)
  PROVE  /\ NameOf(m, key) = FirstName(f, S)
         /\ key \in DOMAIN m <=> S # {}
  <1>1. \A j \in S : j <= n
    OBVIOUS
  <1>2. CASE S = {}
    BY <1>2 DEF Tells, NameOf, FirstName
  <1>3. CASE S # {}
    <2>1. S \subseteq Nat
      OBVIOUS
    <2>2. Min(S) \in S /\ \A j \in S : Min(S) <= j
      BY <1>3, <2>1, FirstLine
    <2>3. key \in DOMAIN m /\ m[key] = f[Min(S)].name
      BY <1>1, <2>2 DEF Tells
    <2> QED BY <1>3, <2>3 DEF NameOf, FirstName
  <1> QED BY <1>2, <1>3

-----------------------------------------------------------------------------
\* The fields of UsbIds::Impl.
Fields == {"part", "vid", "m_vendor", "products", "cls", "subcls", "m_class", "subclasses", "protocols"}

\* A line of the vendors' part: what it does.
AfterVendorLine(t, line, u) ==
    /\ DOMAIN u = Fields /\ u.part = "vendors" /\ u.cls = t.cls /\ u.subcls = t.subcls
    /\ u.m_class = t.m_class /\ u.subclasses = t.subclasses /\ u.protocols = t.protocols
    /\ u.vid = IF line.kind = "vendor" THEN line.id ELSE t.vid
    /\ u.m_vendor = IF line.kind = "vendor" /\ line.id # 0 THEN emplace(t.m_vendor, line.id, line.name)
                    ELSE IF line.kind = "t" /\ line.id # 0 THEN emplace(t.m_vendor, t.vid, "")
                    ELSE t.m_vendor
    /\ u.products = IF line.kind = "t" /\ line.id # 0
                    THEN emplace(t.products, <<t.vid, line.id>>, line.name) ELSE t.products

LEMMA VendorLine ==
  ASSUME NEW t, DOMAIN t = Fields, t.part = "vendors", NEW line, line # ListOfClasses
  PROVE  AfterVendorLine(t, line, for_each_line(t, line))
  <1> SUFFICES ASSUME NEW u, u = for_each_line(t, line) PROVE AfterVendorLine(t, line, u)
    OBVIOUS
  <1> USE DEF AfterVendorLine
  <1>1. line.kind \in {"t", "vendor"} => line # Blank
    <2>1. Blank.kind = ""
      BY DEF Blank, Entry
    <2> QED BY <2>1
  <1>2. line # Blank => u = parse_vid_pid(t, line)
    BY DEF for_each_line
  <1>3. CASE line.kind = "t" /\ line.id # 0
    <2>1. u = [t EXCEPT !.m_vendor = emplace(t.m_vendor, t.vid, ""),
                        !.products = emplace(t.products, <<t.vid, line.id>>, line.name)]
      <3>1. ~(line.kind = "vendor")
        BY <1>3
      <3>2. parse_vid_pid(t, line) =
               [t EXCEPT !.m_vendor = at_or_new(@, t.vid),
                         !.products = emplace(@, <<t.vid, line.id>>, line.name)]
        BY <1>3, <3>1, Zenon DEF parse_vid_pid
      <3> QED BY <1>1, <1>2, <1>3, <3>2 DEF at_or_new
    <2>2. DOMAIN u = Fields
      BY <2>1
    <2> QED BY <1>3, <2>1, <2>2 DEF Fields
  <1>4. CASE line.kind = "vendor"
    <2>1. u = [t EXCEPT !.vid = line.id,
                        !.m_vendor = IF line.id = 0 THEN @ ELSE emplace(@, line.id, line.name)]
      <3>1. ~(line.kind = "t" /\ line.id # 0)
        BY <1>4
      <3>2. parse_vid_pid(t, line) =
               [t EXCEPT !.vid = remove_vid(t, line),
                         !.m_vendor = IF line.id = 0 THEN @ ELSE emplace(@, line.id, line.name)]
        BY <1>4, <3>1, Zenon DEF parse_vid_pid
      <3> QED BY <1>1, <1>2, <1>4, <3>2 DEF remove_vid
    <2>2. DOMAIN u = Fields
      BY <2>1
    <2> QED BY <1>4, <2>1, <2>2 DEF Fields
  <1>5. CASE ~(line.kind = "t" /\ line.id # 0) /\ ~(line.kind = "vendor")
    <2>1. parse_vid_pid(t, line) = t
      BY <1>5, Zenon DEF parse_vid_pid
    <2>2. u = t
      BY <1>2, <2>1 DEF for_each_line
    <2> QED BY <1>5, <2>2
  <1> QED BY <1>3, <1>4, <1>5

\* A line of the classes' part: what it does.
AfterClassLine(t, line, u) ==
    /\ DOMAIN u = Fields /\ u.part = "classes"
    /\ u.m_vendor = t.m_vendor /\ u.products = t.products
    /\ u.cls = IF line.kind = "C" THEN line.id ELSE t.cls
    /\ u.subcls = IF line.kind = "t" THEN line.id ELSE t.subcls
    /\ u.m_class = IF line.kind = "C" THEN emplace(t.m_class, line.id, line.name)
                   ELSE IF line.kind \in {"t", "tt"} /\ line.id # 0 THEN emplace(t.m_class, t.cls, "")
                   ELSE t.m_class
    /\ u.subclasses = IF line.kind = "t" /\ line.id # 0 THEN emplace(t.subclasses, <<t.cls, line.id>>, line.name)
                      ELSE IF line.kind = "tt" /\ line.id # 0
                      THEN emplace(t.subclasses, <<t.cls, t.subcls>>, "") ELSE t.subclasses
    /\ u.protocols = IF line.kind = "tt" /\ line.id # 0
                     THEN emplace(t.protocols, <<t.cls, t.subcls, line.id>>, line.name) ELSE t.protocols

LEMMA ClassLine ==
  ASSUME NEW t, DOMAIN t = Fields, t.part = "classes", NEW line, line # ListOfAudioTerminals
  PROVE  AfterClassLine(t, line, for_each_line(t, line))
  <1> SUFFICES ASSUME NEW u, u = for_each_line(t, line) PROVE AfterClassLine(t, line, u)
    OBVIOUS
  <1> USE DEF AfterClassLine
  <1>1. line.kind \in {"t", "tt", "C"} => line # Blank
    <2>1. Blank.kind = ""
      BY DEF Blank, Entry
    <2> QED BY <2>1
  <1>2. line # Blank => u = parse_class_sub_proto(t, line)
    BY DEF for_each_line
  <1>3. CASE line.kind = "tt" /\ line.id # 0
    <2>1. u = [t EXCEPT !.m_class = emplace(t.m_class, t.cls, ""),
                        !.subclasses = emplace(t.subclasses, <<t.cls, t.subcls>>, ""),
                        !.protocols = emplace(t.protocols, <<t.cls, t.subcls, line.id>>, line.name)]
      <3>1. ~(line.kind = "t") /\ ~(line.kind = "C")
        BY <1>3
      <3>2. parse_class_sub_proto(t, line) =
               [t EXCEPT !.m_class = at_or_new(@, t.cls),
                         !.subclasses = at_or_new(@, <<t.cls, t.subcls>>),
                         !.protocols = emplace(@, <<t.cls, t.subcls, line.id>>, line.name)]
        BY <1>3, <3>1, Zenon DEF parse_class_sub_proto
      <3> QED BY <1>1, <1>2, <1>3, <3>2 DEF at_or_new
    <2>2. DOMAIN u = Fields
      BY <2>1
    <2> QED BY <1>3, <2>1, <2>2 DEF Fields
  <1>4. CASE line.kind = "t"
    <2>1. u = IF line.id = 0 THEN [t EXCEPT !.subcls = 0]
              ELSE [t EXCEPT !.subcls = line.id,
                             !.m_class = emplace(t.m_class, t.cls, ""),
                             !.subclasses = emplace(t.subclasses, <<t.cls, line.id>>, line.name)]
      <3>1. ~(line.kind = "tt" /\ line.id # 0) /\ ~(line.kind = "C")
        BY <1>4
      <3>2. parse_class_sub_proto(t, line) =
               IF line.id = 0 THEN [t EXCEPT !.subcls = 0]
               ELSE [t EXCEPT !.subcls = line.id,
                              !.m_class = at_or_new(@, t.cls),
                              !.subclasses = emplace(@, <<t.cls, line.id>>, line.name)]
        BY <1>4, <3>1, Zenon DEF parse_class_sub_proto
      <3> QED BY <1>1, <1>2, <1>4, <3>2 DEF at_or_new
    <2>2. DOMAIN u = Fields
      BY <2>1
    <2>3. CASE line.id = 0
      <3>1. u = [t EXCEPT !.subcls = 0]
        BY <2>1, <2>3
      <3> QED BY <1>4, <2>3, <3>1, <2>2 DEF Fields
    <2>4. CASE line.id # 0
      <3>1. u = [t EXCEPT !.subcls = line.id,
                          !.m_class = emplace(t.m_class, t.cls, ""),
                          !.subclasses = emplace(t.subclasses, <<t.cls, line.id>>, line.name)]
        BY <2>1, <2>4
      <3> QED BY <1>4, <2>4, <3>1, <2>2 DEF Fields
    <2> QED BY <2>3, <2>4
  <1>5. CASE line.kind = "C"
    <2>1. u = [t EXCEPT !.cls = line.id, !.m_class = emplace(t.m_class, line.id, line.name)]
      <3>1. ~(line.kind = "tt" /\ line.id # 0) /\ ~(line.kind = "t")
        BY <1>5
      <3>2. parse_class_sub_proto(t, line) =
               [t EXCEPT !.cls = line.id, !.m_class = emplace(@, line.id, line.name)]
        BY <1>5, <3>1, Zenon DEF parse_class_sub_proto
      <3> QED BY <1>1, <1>2, <1>5, <3>2
    <2>2. DOMAIN u = Fields
      BY <2>1
    <2> QED BY <1>5, <2>1, <2>2 DEF Fields
  <1>6. CASE ~(line.kind = "tt" /\ line.id # 0) /\ ~(line.kind = "t") /\ ~(line.kind = "C")
    <2>1. parse_class_sub_proto(t, line) = t
      BY <1>6, Zenon DEF parse_class_sub_proto
    <2>2. u = t
      BY <1>2, <2>1 DEF for_each_line
    <2> QED BY <1>6, <2>2
  <1> QED BY <1>3, <1>4, <1>5, <1>6

\* The two marks, and what comes after the second.
LEMMA MarkLine ==
  ASSUME NEW t, DOMAIN t = Fields, NEW line,
         NEW u, u = for_each_line(t, line)
  PROVE  /\ t.part = "vendors" /\ line = ListOfClasses => u = [t EXCEPT !.part = "classes"]
         /\ t.part = "classes" /\ line = ListOfAudioTerminals => u = [t EXCEPT !.part = "end"]
         /\ t.part = "end" => u = t
  <1>1. ListOfClasses # Blank /\ ListOfAudioTerminals # Blank
    BY DEF ListOfClasses, ListOfAudioTerminals, Blank, Entry
  <1>2. ASSUME line = ListOfClasses PROVE parse_vid_pid(t, line) = [t EXCEPT !.part = "classes"]
    <2>1. line.kind # "t" /\ line.kind # "vendor"
      BY <1>2 DEF ListOfClasses, Entry
    <2> QED BY <1>2, <2>1, Zenon DEF parse_vid_pid
  <1>3. ASSUME line = ListOfAudioTerminals PROVE parse_class_sub_proto(t, line) = [t EXCEPT !.part = "end"]
    <2>1. line.kind # "t" /\ line.kind # "tt" /\ line.kind # "C"
      BY <1>3 DEF ListOfAudioTerminals, Entry
    <2> QED BY <1>3, <2>1, Zenon DEF parse_class_sub_proto
  <1> QED BY <1>1, <1>2, <1>3 DEF for_each_line

-----------------------------------------------------------------------------
\* The lines that declare a vendor, a product, a class, a subclass and a protocol.
VendorAt(f, v) == {i \in VendorLines(f) : Has(f, i, "vendor", v)}
ProductAt(f, v, p) ==
    {i \in VendorLines(f) : Has(f, i, "t", p) /\ Has(f, Above(f, i, {"vendor"}), "vendor", v)}
ClassAt(f, c) == {i \in ClassLines(f) : Has(f, i, "C", c)}
InClass(f, c, i) == Above(f, i, {"C"}) \in ClassLines(f) /\ Has(f, Above(f, i, {"C"}), "C", c)
SubclassAt(f, c, s) == {i \in ClassLines(f) : Has(f, i, "t", s) /\ InClass(f, c, i)}
ProtocolAt(f, c, s, p) ==
    {i \in ClassLines(f) : /\ Has(f, i, "tt", p) /\ Above(f, i, {"t", "C"}) > 0
                           /\ Has(f, Above(f, i, {"t", "C"}), "t", s)
                           /\ InClass(f, c, Above(f, i, {"t", "C"}))}

Ids == Nat \ {0}
LastClassLine(f) == Before(f, LastVendorLine(f), ListOfAudioTerminals)

\* The number in line j, if it is after line n.
LineId(f, n, j) == IF j > n THEN f[j].id ELSE 0

\* What the variables of the lambdas are after i lines.
Where(f, t, i) ==
    LET n == LastVendorLine(f)
        e == LastClassLine(f) IN
    /\ DOMAIN t = Fields
    /\ t.part = IF i <= n THEN "vendors" ELSE IF i <= e THEN "classes" ELSE "end"
    /\ i <= n => t.vid = LineId(f, 0, Above(f, i + 1, {"vendor"}))
    /\ i <= e => /\ t.cls = LineId(f, n, Above(f, i + 1, {"C"}))
                 /\ t.subcls = LineId(f, n, Above(f, i + 1, {"t"}))

\* And the maps.
Known(f, t, i) ==
    /\ \A v \in Ids : Tells(f, t.m_vendor, v, VendorAt(f, v), i)
    /\ \A v, p \in Ids : Tells(f, t.products, <<v, p>>, ProductAt(f, v, p), i)
    /\ \A c \in Ids : Tells(f, t.m_class, c, ClassAt(f, c), i)
    /\ \A c, s \in Ids : Tells(f, t.subclasses, <<c, s>>, SubclassAt(f, c, s), i)
    /\ \A c, s, p \in Ids : Tells(f, t.protocols, <<c, s, p>>, ProtocolAt(f, c, s, p), i)

\* The file of an installation.
LEMMA FileIs ==
  ASSUME NEW f \in IdsFiles
  PROVE  LET n == LastVendorLine(f)
             e == LastClassLine(f) IN
         /\ Len(f) \in Nat /\ DOMAIN f = 1 .. Len(f)
         /\ \A i \in 1 .. Len(f) : f[i] \in [kind : STRING, id : Nat, name : STRING]
         /\ n \in 0 .. Len(f) /\ e \in n .. Len(f)
         /\ VendorLines(f) = 1 .. n /\ ClassLines(f) = n + 1 .. e
         /\ \A i \in 1 .. n : f[i] # ListOfClasses
         /\ n < Len(f) => f[n + 1] = ListOfClasses /\ n < e
         /\ \A i \in n + 1 .. e : f[i] # ListOfAudioTerminals
         /\ e < Len(f) => f[e + 1] = ListOfAudioTerminals
  <1> DEFINE n == LastVendorLine(f)
             e == LastClassLine(f)
  <1>1. f \in Seq([kind : STRING, id : Nat, name : STRING])
    BY IdsAssumption
  <1>2. Len(f) \in Nat /\ DOMAIN f = 1 .. Len(f) /\ \A i \in 1 .. Len(f) : f[i] \in [kind : STRING, id : Nat, name : STRING]
    <2> DEFINE R == [kind : STRING, id : Nat, name : STRING]
    <2>1. f \in Seq(R)
      BY <1>1
    <2> HIDE DEF R
    <2>2. Len(f) \in Nat /\ DOMAIN f = 1 .. Len(f) /\ \A i \in 1 .. Len(f) : f[i] \in R
      BY <2>1
    <2> QED BY <2>2 DEF R
  <1>3. /\ n \in 0 .. Len(f)
        /\ \A i \in 0 + 1 .. n : f[i] # ListOfClasses
        /\ n < Len(f) => f[n + 1] = ListOfClasses
    <2>1. 0 \in 0 .. Len(f)
      BY <1>2
    <2> QED BY <1>2, <2>1, BeforeIs DEF LastVendorLine
  <1>4. /\ e \in n .. Len(f)
        /\ \A i \in n + 1 .. e : f[i] # ListOfAudioTerminals
        /\ e < Len(f) => f[e + 1] = ListOfAudioTerminals
    BY <1>2, <1>3, BeforeIs DEF LastClassLine
  <1>5. ListOfClasses # ListOfAudioTerminals
    <2>1. /\ ListOfClasses.kind = "# List of known device classes"
          /\ ListOfAudioTerminals.kind = "# List of Audio Class Terminal Types"
      BY DEF ListOfClasses, ListOfAudioTerminals, Entry
    <2> QED BY <2>1
  <1>6. VendorLines(f) = 1 .. n /\ ClassLines(f) = n + 1 .. e
    BY DEF VendorLines, ClassLines, LastClassLine
  <1> HIDE DEF n, e
  <1>7. n < Len(f) => n < e
    <2> SUFFICES ASSUME n < Len(f), ~(n < e) PROVE FALSE
      OBVIOUS
    <2>1. e = n
      BY <1>2, <1>3, <1>4
    <2> QED BY <1>3, <1>4, <1>5, <2>1
  <1> QED BY <1>2, <1>3, <1>4, <1>6, <1>7 DEF n, e

\* Before the first line.
LEMMA NothingRead ==
  ASSUME NEW f \in IdsFiles
  PROVE  Where(f, NoIds, 0) /\ Known(f, NoIds, 0)
  <1> DEFINE n == LastVendorLine(f)
             e == LastClassLine(f)
  <1>1. n \in Nat /\ VendorLines(f) = 1 .. n /\ ClassLines(f) = n + 1 .. e /\ e \in Nat
    BY FileIs
  <1>2. DOMAIN NoIds = Fields
    BY DEF NoIds, Fields
  <1>3. \A K : Above(f, 0 + 1, K) = 0
    <2> SUFFICES ASSUME NEW K PROVE Above(f, 0 + 1, K) = 0
      OBVIOUS
    <2>1. {j \in 1 .. ((0 + 1) - 1) : f[j].kind \in K} = {}
      OBVIOUS
    <2> QED BY <2>1 DEF Above
  <1>4. Where(f, NoIds, 0)
    BY <1>1, <1>2, <1>3 DEF Where, LineId, NoIds
  <1>5. ASSUME NEW key, NEW S, S \subseteq VendorLines(f) \/ S \subseteq ClassLines(f)
        PROVE  Tells(f, <<>>, key, S, 0)
    <2>1. \A j \in S : ~(j <= 0)
      BY <1>1, <1>5
    <2> QED BY <2>1 DEF Tells
  <1>6. Known(f, NoIds, 0)
    <2>1. /\ NoIds.m_vendor = <<>> /\ NoIds.products = <<>>
          /\ NoIds.m_class = <<>> /\ NoIds.subclasses = <<>> /\ NoIds.protocols = <<>>
      BY DEF NoIds
    <2>2. \A v, c, s, p : /\ VendorAt(f, v) \subseteq VendorLines(f) /\ ProductAt(f, v, p) \subseteq VendorLines(f)
                          /\ ClassAt(f, c) \subseteq ClassLines(f) /\ SubclassAt(f, c, s) \subseteq ClassLines(f)
                          /\ ProtocolAt(f, c, s, p) \subseteq ClassLines(f)
      BY DEF VendorAt, ProductAt, ClassAt, SubclassAt, ProtocolAt
    <2> QED BY <1>5, <2>1, <2>2 DEF Known
  <1> QED BY <1>4, <1>6

\* How the line above and its number go on.
LEMMA LineIdNext ==
  ASSUME NEW f, NEW n \in Nat, NEW i \in Nat, i > 0, NEW K
  PROVE  LineId(f, n, Above(f, i + 1, K)) =
            IF f[i].kind \in K /\ i > n THEN f[i].id ELSE LineId(f, n, Above(f, i, K))
  <1>1. Above(f, i + 1, K) = IF f[i].kind \in K THEN i ELSE Above(f, i, K)
    BY AboveNext
  <1>2. Above(f, i, K) \in 0 .. i - 1
    BY AboveIs
  <1> QED BY <1>1, <1>2 DEF LineId

\* The variables of the lambdas go on.
LEMMA WhereNext ==
  ASSUME NEW f \in IdsFiles, NEW i \in 1 .. Len(f), NEW t, Where(f, t, i - 1)
  PROVE  Where(f, for_each_line(t, f[i]), i)
  <1> DEFINE n == LastVendorLine(f)
             e == LastClassLine(f)
             u == for_each_line(t, f[i])
  <1>1. /\ Len(f) \in Nat /\ n \in 0 .. Len(f) /\ e \in n .. Len(f)
        /\ \A j \in 1 .. n : f[j] # ListOfClasses
        /\ n < Len(f) => f[n + 1] = ListOfClasses /\ n < e
        /\ \A j \in n + 1 .. e : f[j] # ListOfAudioTerminals
        /\ e < Len(f) => f[e + 1] = ListOfAudioTerminals
    BY FileIs
  <1>2. /\ DOMAIN t = Fields
        /\ t.part = IF i - 1 <= n THEN "vendors" ELSE IF i - 1 <= e THEN "classes" ELSE "end"
        /\ i - 1 <= n => t.vid = LineId(f, 0, Above(f, i, {"vendor"}))
        /\ i - 1 <= e => /\ t.cls = LineId(f, n, Above(f, i, {"C"}))
                         /\ t.subcls = LineId(f, n, Above(f, i, {"t"}))
    <2>1. (i - 1) + 1 = i
      BY <1>1
    <2> QED BY <2>1 DEF Where
  <1>3. /\ LineId(f, 0, Above(f, i + 1, {"vendor"})) =
              IF f[i].kind = "vendor" THEN f[i].id ELSE LineId(f, 0, Above(f, i, {"vendor"}))
        /\ LineId(f, n, Above(f, i + 1, {"C"})) =
              IF f[i].kind = "C" /\ i > n THEN f[i].id ELSE LineId(f, n, Above(f, i, {"C"}))
        /\ LineId(f, n, Above(f, i + 1, {"t"})) =
              IF f[i].kind = "t" /\ i > n THEN f[i].id ELSE LineId(f, n, Above(f, i, {"t"}))
    <2>1. n \in Nat /\ i \in Nat /\ i > 0
      BY <1>1
    <2>2. \A K : /\ LineId(f, 0, Above(f, i + 1, K)) =
                       IF f[i].kind \in K /\ i > 0 THEN f[i].id ELSE LineId(f, 0, Above(f, i, K))
                 /\ LineId(f, n, Above(f, i + 1, K)) =
                       IF f[i].kind \in K /\ i > n THEN f[i].id ELSE LineId(f, n, Above(f, i, K))
      <3> HIDE DEF n
      <3> QED BY <2>1, LineIdNext
    <2> HIDE DEF n
    <2> QED BY <2>1, <2>2
  <1> SUFFICES /\ DOMAIN u = Fields
               /\ u.part = IF i <= n THEN "vendors" ELSE IF i <= e THEN "classes" ELSE "end"
               /\ i <= n => u.vid = LineId(f, 0, Above(f, i + 1, {"vendor"}))
               /\ i <= e => /\ u.cls = LineId(f, n, Above(f, i + 1, {"C"}))
                            /\ u.subcls = LineId(f, n, Above(f, i + 1, {"t"}))
    BY DEF Where
  <1> HIDE DEF n, e, u
  <1>4. CASE i <= n
    <2>1. t.part = "vendors" /\ f[i] # ListOfClasses
      BY <1>1, <1>2, <1>4
    <2>2. /\ DOMAIN u = Fields /\ u.part = "vendors" /\ u.cls = t.cls /\ u.subcls = t.subcls
          /\ u.vid = IF f[i].kind = "vendor" THEN f[i].id ELSE t.vid
      <3>1. AfterVendorLine(t, f[i], u)
        BY <1>2, <2>1, VendorLine DEF u
      <3> QED BY <3>1 DEF AfterVendorLine
    <2>3. i - 1 <= n /\ i - 1 <= e /\ ~(i > n)
      BY <1>1, <1>4
    <2> QED BY <1>2, <1>3, <1>4, <2>2, <2>3
  <1>5. CASE i = n + 1
    <2>1. t.part = "vendors" /\ f[i] = ListOfClasses /\ i <= e /\ ~(i <= n) /\ i - 1 <= e /\ n < e
      BY <1>1, <1>2, <1>5
    <2>2. u = [t EXCEPT !.part = "classes"]
      BY <1>2, <2>1, MarkLine DEF u
    <2>3. f[i].kind # "C" /\ f[i].kind # "t"
      <3>1. ListOfClasses.kind = "# List of known device classes"
        BY DEF ListOfClasses, Entry
      <3> QED BY <2>1, <3>1
    <2>4. DOMAIN u = Fields /\ u.part = "classes" /\ u.cls = t.cls /\ u.subcls = t.subcls
      BY <1>2, <2>2 DEF Fields
    <2> QED BY <1>2, <1>3, <2>1, <2>3, <2>4
  <1>6. CASE i > n + 1 /\ i <= e
    <2>1. t.part = "classes" /\ f[i] # ListOfAudioTerminals
      BY <1>1, <1>2, <1>6
    <2>2. /\ DOMAIN u = Fields /\ u.part = "classes"
          /\ u.cls = IF f[i].kind = "C" THEN f[i].id ELSE t.cls
          /\ u.subcls = IF f[i].kind = "t" THEN f[i].id ELSE t.subcls
      <3>1. AfterClassLine(t, f[i], u)
        BY <1>2, <2>1, ClassLine DEF u
      <3> QED BY <3>1 DEF AfterClassLine
    <2>3. i - 1 <= e /\ i > n /\ ~(i <= n)
      BY <1>1, <1>6
    <2> QED BY <1>2, <1>3, <1>6, <2>2, <2>3
  <1>7. CASE i > n + 1 /\ i = e + 1
    <2>1. t.part = "classes" /\ f[i] = ListOfAudioTerminals /\ ~(i <= n) /\ ~(i <= e)
      BY <1>1, <1>2, <1>7
    <2>2. u = [t EXCEPT !.part = "end"]
      BY <1>2, <2>1, MarkLine DEF u
    <2>3. DOMAIN u = Fields /\ u.part = "end"
      BY <1>2, <2>2 DEF Fields
    <2> QED BY <2>1, <2>3
  <1>8. CASE i > n + 1 /\ i > e + 1
    <2>1. t.part = "end" /\ ~(i <= n) /\ ~(i <= e)
      BY <1>1, <1>2, <1>8
    <2>2. u = t
      BY <1>2, <2>1, MarkLine DEF u
    <2> QED BY <1>2, <2>1, <2>2
  <1>9. i <= n \/ i = n + 1 \/ (i > n + 1 /\ (i <= e \/ i = e + 1 \/ i > e + 1))
    BY <1>1
  <1> QED BY <1>4, <1>5, <1>6, <1>7, <1>8, <1>9

\* A vendor's line is in the vendors' part, and so on: lines elsewhere change nothing.
LEMMA KnownSkips ==
  ASSUME NEW f \in IdsFiles, NEW i \in 1 .. Len(f), NEW t, NEW u, Known(f, t, i - 1)
  PROVE  /\ (i \notin VendorLines(f) \/ f[i].kind # "vendor") /\ u.m_vendor = t.m_vendor =>
               \A v \in Ids : Tells(f, u.m_vendor, v, VendorAt(f, v), i)
         /\ (i \notin VendorLines(f) \/ f[i].kind # "t" \/ f[i].id = 0) /\ u.products = t.products =>
               \A v, p \in Ids : Tells(f, u.products, <<v, p>>, ProductAt(f, v, p), i)
         /\ (i \notin ClassLines(f) \/ f[i].kind # "C") /\ u.m_class = t.m_class =>
               \A c \in Ids : Tells(f, u.m_class, c, ClassAt(f, c), i)
         /\ (i \notin ClassLines(f) \/ f[i].kind # "t" \/ f[i].id = 0) /\ u.subclasses = t.subclasses =>
               \A c, s \in Ids : Tells(f, u.subclasses, <<c, s>>, SubclassAt(f, c, s), i)
         /\ (i \notin ClassLines(f) \/ f[i].kind # "tt" \/ f[i].id = 0) /\ u.protocols = t.protocols =>
               \A c, s, p \in Ids : Tells(f, u.protocols, <<c, s, p>>, ProtocolAt(f, c, s, p), i)
  <1>1. i \in Nat /\ i > 0 /\ VendorLines(f) \subseteq Nat /\ ClassLines(f) \subseteq Nat
    <2>1. /\ Len(f) \in Nat /\ LastVendorLine(f) \in Nat /\ LastClassLine(f) \in Nat
          /\ VendorLines(f) = 1 .. LastVendorLine(f) /\ ClassLines(f) = LastVendorLine(f) + 1 .. LastClassLine(f)
      BY FileIs
    <2> QED BY <2>1
  <1>2. ASSUME i \notin VendorLines(f) \/ f[i].kind # "vendor", u.m_vendor = t.m_vendor, NEW v \in Ids
        PROVE  Tells(f, u.m_vendor, v, VendorAt(f, v), i)
    <2>1. i \notin VendorAt(f, v) /\ VendorAt(f, v) \subseteq Nat
      BY <1>1, <1>2 DEF VendorAt, Has
    <2>2. Tells(f, u.m_vendor, v, VendorAt(f, v), i - 1)
      BY <1>2 DEF Known
    <2> QED BY <1>1, <2>1, <2>2, TellsSkip
  <1>3. ASSUME i \notin VendorLines(f) \/ f[i].kind # "t" \/ f[i].id = 0, u.products = t.products,
               NEW v \in Ids, NEW p \in Ids
        PROVE  Tells(f, u.products, <<v, p>>, ProductAt(f, v, p), i)
    <2>1. i \notin ProductAt(f, v, p) /\ ProductAt(f, v, p) \subseteq Nat
      BY <1>1, <1>3 DEF ProductAt, Has, Ids
    <2>2. Tells(f, u.products, <<v, p>>, ProductAt(f, v, p), i - 1)
      BY <1>3 DEF Known
    <2> QED BY <1>1, <2>1, <2>2, TellsSkip
  <1>4. ASSUME i \notin ClassLines(f) \/ f[i].kind # "C", u.m_class = t.m_class, NEW c \in Ids
        PROVE  Tells(f, u.m_class, c, ClassAt(f, c), i)
    <2>1. i \notin ClassAt(f, c) /\ ClassAt(f, c) \subseteq Nat
      BY <1>1, <1>4 DEF ClassAt, Has
    <2>2. Tells(f, u.m_class, c, ClassAt(f, c), i - 1)
      BY <1>4 DEF Known
    <2> QED BY <1>1, <2>1, <2>2, TellsSkip
  <1>5. ASSUME i \notin ClassLines(f) \/ f[i].kind # "t" \/ f[i].id = 0, u.subclasses = t.subclasses,
               NEW c \in Ids, NEW s \in Ids
        PROVE  Tells(f, u.subclasses, <<c, s>>, SubclassAt(f, c, s), i)
    <2>1. i \notin SubclassAt(f, c, s) /\ SubclassAt(f, c, s) \subseteq Nat
      BY <1>1, <1>5 DEF SubclassAt, Has, Ids
    <2>2. Tells(f, u.subclasses, <<c, s>>, SubclassAt(f, c, s), i - 1)
      BY <1>5 DEF Known
    <2> QED BY <1>1, <2>1, <2>2, TellsSkip
  <1>6. ASSUME i \notin ClassLines(f) \/ f[i].kind # "tt" \/ f[i].id = 0, u.protocols = t.protocols,
               NEW c \in Ids, NEW s \in Ids, NEW p \in Ids
        PROVE  Tells(f, u.protocols, <<c, s, p>>, ProtocolAt(f, c, s, p), i)
    <2>1. i \notin ProtocolAt(f, c, s, p) /\ ProtocolAt(f, c, s, p) \subseteq Nat
      BY <1>1, <1>6 DEF ProtocolAt, Has, Ids
    <2>2. Tells(f, u.protocols, <<c, s, p>>, ProtocolAt(f, c, s, p), i - 1)
      BY <1>6 DEF Known
    <2> QED BY <1>1, <2>1, <2>2, TellsSkip
  <1> QED BY <1>2, <1>3, <1>4, <1>5, <1>6

\* The vendors' part.
LEMMA VendorsKnown ==
  ASSUME NEW f \in IdsFiles, NEW i \in VendorLines(f), NEW t, Where(f, t, i - 1), Known(f, t, i - 1)
  PROVE  Known(f, for_each_line(t, f[i]), i)
  <1> DEFINE n == LastVendorLine(f)
             e == LastClassLine(f)
             line == f[i]
             A == Above(f, i, {"vendor"})
  <1>1. /\ n \in Nat /\ i \in Nat /\ i > 0 /\ i <= n /\ n <= Len(f) /\ VendorLines(f) = 1 .. n
        /\ i \notin ClassLines(f) /\ line # ListOfClasses /\ i \in 1 .. Len(f) /\ line.id \in Nat
    <2>1. /\ Len(f) \in Nat /\ n \in 0 .. Len(f) /\ e \in n .. Len(f)
          /\ VendorLines(f) = 1 .. n /\ ClassLines(f) = n + 1 .. e
          /\ \A j \in 1 .. n : f[j] # ListOfClasses
          /\ \A j \in 1 .. Len(f) : f[j] \in [kind : STRING, id : Nat, name : STRING]
      BY FileIs
    <2> HIDE DEF n, e
    <2>2. n \in Nat /\ i \in Nat /\ i > 0 /\ i <= n /\ n <= Len(f) /\ i \in 1 .. Len(f)
      BY <2>1
    <2>3. i \notin ClassLines(f) /\ f[i] # ListOfClasses
      BY <2>1, <2>2
    <2>4. f[i].id \in Nat
      BY <2>1, <2>2
    <2> QED BY <2>1, <2>2, <2>3, <2>4
  <1>2. DOMAIN t = Fields /\ t.part = "vendors" /\ t.vid = LineId(f, 0, A)
    <2>1. (i - 1) + 1 = i /\ i - 1 <= n
      <3> HIDE DEF n
      <3> QED BY <1>1
    <2> QED BY <2>1 DEF Where
  <1> SUFFICES ASSUME NEW u, AfterVendorLine(t, line, u) PROVE Known(f, u, i)
    BY <1>1, <1>2, VendorLine
  <1> HIDE DEF line
  <1>3. A \in 0 .. i - 1 /\ (A > 0 => f[A].kind = "vendor")
    BY <1>1, AboveIs
  <1>4. \A v \in Ids : t.vid = v <=> Has(f, A, "vendor", v)
    BY <1>2, <1>3 DEF LineId, Has, Ids
  <1>5. \A v \in Ids : t.vid = v => v \in DOMAIN t.m_vendor
    <2> SUFFICES ASSUME NEW v \in Ids, t.vid = v PROVE v \in DOMAIN t.m_vendor
      OBVIOUS
    <2>1. Has(f, A, "vendor", v)
      BY <1>4
    <2>2. A \in VendorAt(f, v) /\ A <= i - 1
      <3> HIDE DEF A, n
      <3> QED BY <1>1, <1>3, <2>1 DEF VendorAt, Has
    <2>3. Tells(f, t.m_vendor, v, VendorAt(f, v), i - 1)
      BY DEF Known
    <2> HIDE DEF A
    <2> QED BY <2>2, <2>3 DEF Tells
  <1>6. ASSUME NEW v \in Ids
        PROVE  Tells(f, u.m_vendor, v, VendorAt(f, v), i)
    <2> DEFINE S == VendorAt(f, v)
    <2>1. Tells(f, t.m_vendor, v, S, i - 1)
      BY DEF Known
    <2>2. S \subseteq Nat /\ (i \in S <=> line.kind = "vendor" /\ line.id = v)
      <3> HIDE DEF n, A
      <3> QED BY <1>1 DEF VendorAt, Has, line
    <2> HIDE DEF S
    <2>3. CASE line.kind = "vendor" /\ line.id = v
      <3>1. u.m_vendor = emplace(t.m_vendor, v, f[i].name)
        BY <2>3 DEF AfterVendorLine, Ids, line
      <3> QED BY <1>1, <2>1, <2>2, <2>3, <3>1, TellsEmplace DEF S
    <2>4. CASE ~(line.kind = "vendor" /\ line.id = v)
      <3>1. Tells(f, t.m_vendor, v, S, i)
        BY <1>1, <2>1, <2>2, <2>4, TellsSkip
      <3>2. \/ u.m_vendor = t.m_vendor
            \/ line.id # v /\ u.m_vendor = emplace(t.m_vendor, line.id, line.name)
            \/ u.m_vendor = emplace(t.m_vendor, t.vid, "")
        BY <2>4 DEF AfterVendorLine
      <3>3. t.vid # v \/ t.vid \in DOMAIN t.m_vendor
        BY <1>5
      <3> QED BY <3>1, <3>2, <3>3, TellsOther DEF S
    <2> QED BY <2>3, <2>4
  <1>7. ASSUME NEW v \in Ids, NEW p \in Ids
        PROVE  Tells(f, u.products, <<v, p>>, ProductAt(f, v, p), i)
    <2> DEFINE S == ProductAt(f, v, p)
    <2>1. Tells(f, t.products, <<v, p>>, S, i - 1)
      BY DEF Known
    <2>2. S \subseteq Nat /\ (i \in S <=> line.kind = "t" /\ line.id = p /\ t.vid = v)
      <3>1. i \in S <=> line.kind = "t" /\ line.id = p /\ Has(f, A, "vendor", v)
        BY <1>1 DEF ProductAt, Has, line
      <3>2. S \subseteq Nat
        <4> HIDE DEF n
        <4> QED BY <1>1 DEF ProductAt
      <3> HIDE DEF S, A
      <3> QED BY <1>4, <3>1, <3>2
    <2> HIDE DEF S
    <2>3. CASE line.kind = "t" /\ line.id = p /\ t.vid = v
      <3>1. u.products = emplace(t.products, <<v, p>>, f[i].name)
        BY <2>3 DEF AfterVendorLine, Ids, line
      <3> QED BY <1>1, <2>1, <2>2, <2>3, <3>1, TellsEmplace DEF S
    <2>4. CASE ~(line.kind = "t" /\ line.id = p /\ t.vid = v)
      <3>1. Tells(f, t.products, <<v, p>>, S, i)
        BY <1>1, <2>1, <2>2, <2>4, TellsSkip
      <3>2. \/ u.products = t.products
            \/ <<t.vid, line.id>> # <<v, p>> /\ u.products = emplace(t.products, <<t.vid, line.id>>, line.name)
        BY <2>4 DEF AfterVendorLine
      <3> QED BY <3>1, <3>2, TellsOther DEF S
    <2> QED BY <2>3, <2>4
  <1>8. u.m_class = t.m_class /\ u.subclasses = t.subclasses /\ u.protocols = t.protocols
    BY DEF AfterVendorLine
  <1>9. /\ \A c \in Ids : Tells(f, u.m_class, c, ClassAt(f, c), i)
        /\ \A c, s \in Ids : Tells(f, u.subclasses, <<c, s>>, SubclassAt(f, c, s), i)
        /\ \A c, s, p \in Ids : Tells(f, u.protocols, <<c, s, p>>, ProtocolAt(f, c, s, p), i)
    BY <1>1, <1>8, KnownSkips
  <1> QED BY <1>6, <1>7, <1>9 DEF Known

\* A protocol is below its subclass, and both below the same class.
LEMMA ProtocolBelow ==
  ASSUME NEW f \in IdsFiles, NEW i \in ClassLines(f), f[i].kind = "tt"
  PROVE  LET j == Above(f, i, {"t", "C"}) IN
         /\ j \in ClassLines(f) /\ f[j].kind = "t" /\ j < i
         /\ Above(f, i, {"t"}) = j
         /\ Above(f, j, {"C"}) = Above(f, i, {"C"})
  <1> DEFINE j == Above(f, i, {"t", "C"})
             b == Above(f, j, {"C"})
  <1>1. j \in ClassLines(f) /\ f[j].kind = "t"
    BY IdsAssumption
  <1>2. \A k \in ClassLines(f) : k \in Nat /\ k > 0
    <2>1. LastVendorLine(f) \in Nat /\ LastClassLine(f) \in Nat /\ ClassLines(f) = LastVendorLine(f) + 1 .. LastClassLine(f)
      BY FileIs
    <2> QED BY <2>1
  <1>3. j \in 0 .. i - 1 /\ \A k \in 1 .. i - 1 : f[k].kind \in {"t", "C"} => k <= j
    BY <1>2, AboveIs
  <1> HIDE DEF j
  <1>4. Above(f, i, {"t"}) = j
    <2>1. \A k \in 1 .. i - 1 : f[k].kind \in {"t"} => k <= j
      BY <1>3
    <2>2. i \in Nat /\ i > 0
      BY <1>2
    <2> QED BY <1>1, <1>3, <2>1, <2>2, AboveOnly
  <1>5. /\ b \in 0 .. j - 1
        /\ b > 0 => f[b].kind \in {"C"}
        /\ \A k \in 1 .. j - 1 : f[k].kind \in {"C"} => k <= b
    BY <1>1, <1>2, AboveIs
  <1> HIDE DEF b
  <1>6. Above(f, i, {"C"}) = b
    <2>1. i \in Nat /\ i > 0 /\ b \in 0 .. i - 1 /\ j \in Nat
      <3>1. i \in Nat /\ i > 0 /\ j \in Nat
        BY <1>1, <1>2
      <3> QED BY <1>3, <1>5, <3>1
    <2>2. ASSUME NEW k \in 1 .. i - 1, f[k].kind \in {"C"} PROVE k <= b
      <3>1. k <= j /\ k # j
        BY <1>1, <1>3, <2>2
      <3> QED BY <1>5, <2>1, <2>2, <3>1
    <2> QED BY <1>5, <2>1, <2>2, AboveOnly
  <1> QED BY <1>1, <1>2, <1>3, <1>4, <1>6 DEF j, b

\* The classes' part, after the line that begins it.
LEMMA ClassesKnown ==
  ASSUME NEW f \in IdsFiles, NEW i \in ClassLines(f), i # LastVendorLine(f) + 1,
         NEW t, Where(f, t, i - 1), Known(f, t, i - 1)
  PROVE  Known(f, for_each_line(t, f[i]), i)
  <1> DEFINE n == LastVendorLine(f)
             e == LastClassLine(f)
             line == f[i]
             A == Above(f, i, {"C"})
             B == Above(f, i, {"t"})
             j == Above(f, i, {"t", "C"})
  <1>1. /\ n \in Nat /\ e \in Nat /\ i \in Nat /\ i > n + 1 /\ i <= e /\ ClassLines(f) = n + 1 .. e
        /\ i \notin VendorLines(f) /\ line # ListOfAudioTerminals /\ i \in 1 .. Len(f) /\ line.id \in Nat
    <2>1. /\ Len(f) \in Nat /\ n \in 0 .. Len(f) /\ e \in n .. Len(f)
          /\ VendorLines(f) = 1 .. n /\ ClassLines(f) = n + 1 .. e
          /\ \A k \in n + 1 .. e : f[k] # ListOfAudioTerminals
          /\ \A k \in 1 .. Len(f) : f[k] \in [kind : STRING, id : Nat, name : STRING]
      BY FileIs
    <2> HIDE DEF e
    <2>2. n \in Nat /\ e \in Nat /\ i \in Nat /\ i > n + 1 /\ i <= e /\ e <= Len(f) /\ i \in 1 .. Len(f)
      BY <2>1
    <2>3. i \notin VendorLines(f) /\ f[i] # ListOfAudioTerminals
      BY <2>1, <2>2
    <2>4. f[i].id \in Nat
      BY <2>1, <2>2
    <2> QED BY <2>1, <2>2, <2>3, <2>4
  <1>2. DOMAIN t = Fields /\ t.part = "classes" /\ t.cls = LineId(f, n, A) /\ t.subcls = LineId(f, n, B)
    <2>1. (i - 1) + 1 = i /\ i - 1 <= e /\ ~(i - 1 <= n)
      <3> HIDE DEF n, e
      <3> QED BY <1>1
    <2> QED BY <2>1 DEF Where
  <1> SUFFICES ASSUME NEW u, AfterClassLine(t, line, u) PROVE Known(f, u, i)
    BY <1>1, <1>2, ClassLine
  <1> HIDE DEF line
  <1>3. i \in Nat /\ i > 0
    <2> HIDE DEF n, e
    <2> QED BY <1>1
  <1>4. A \in 0 .. i - 1 /\ (A > 0 => f[A].kind = "C")
    BY <1>3, AboveIs
  <1>5. \A c \in Ids : t.cls = c <=> InClass(f, c, i)
    <2> SUFFICES ASSUME NEW c \in Ids PROVE t.cls = c <=> InClass(f, c, i)
      OBVIOUS
    <2>1. InClass(f, c, i) <=> A \in ClassLines(f) /\ Has(f, A, "C", c)
      BY DEF InClass
    <2> HIDE DEF A, n, e
    <2>2. A \in ClassLines(f) <=> A > n
      BY <1>1, <1>4
    <2> QED BY <1>1, <1>2, <1>4, <2>1, <2>2 DEF LineId, Has, Ids
  <1>6. \A c \in Ids : t.cls = c => c \in DOMAIN t.m_class
    <2> SUFFICES ASSUME NEW c \in Ids, t.cls = c PROVE c \in DOMAIN t.m_class
      OBVIOUS
    <2>1. A \in ClassAt(f, c) /\ A <= i - 1
      BY <1>4, <1>5 DEF InClass, ClassAt
    <2>2. Tells(f, t.m_class, c, ClassAt(f, c), i - 1)
      BY DEF Known
    <2> HIDE DEF A
    <2> QED BY <2>1, <2>2 DEF Tells
  <1>7. ASSUME line.kind = "tt"
        PROVE  /\ j \in ClassLines(f) /\ f[j].kind = "t" /\ j < i /\ j > 0 /\ t.subcls = f[j].id
               /\ \A c \in Ids : t.cls = c <=> InClass(f, c, j)
    <2>1. /\ j \in ClassLines(f) /\ f[j].kind = "t" /\ j < i /\ B = j
          /\ Above(f, j, {"C"}) = A
      BY <1>7, ProtocolBelow DEF line
    <2>2. j > n /\ j > 0
      <3> HIDE DEF n, e, j
      <3> QED BY <1>1, <2>1
    <2>3. t.subcls = f[j].id
      BY <1>2, <2>1, <2>2 DEF LineId
    <2>4. \A c \in Ids : InClass(f, c, j) <=> InClass(f, c, i)
      BY <2>1 DEF InClass
    <2> QED BY <1>5, <2>1, <2>2, <2>3, <2>4
  <1>8. ASSUME NEW c \in Ids
        PROVE  Tells(f, u.m_class, c, ClassAt(f, c), i)
    <2> DEFINE S == ClassAt(f, c)
    <2>1. Tells(f, t.m_class, c, S, i - 1)
      BY DEF Known
    <2>2. S \subseteq Nat /\ (i \in S <=> line.kind = "C" /\ line.id = c)
      <3> HIDE DEF n, e
      <3> QED BY <1>1, <1>3 DEF ClassAt, Has, line
    <2> HIDE DEF S
    <2>3. CASE line.kind = "C" /\ line.id = c
      <3>1. u.m_class = emplace(t.m_class, c, f[i].name)
        BY <2>3 DEF AfterClassLine, Ids, line
      <3> QED BY <1>3, <2>1, <2>2, <2>3, <3>1, TellsEmplace DEF S
    <2>4. CASE ~(line.kind = "C" /\ line.id = c)
      <3>1. Tells(f, t.m_class, c, S, i)
        BY <1>3, <2>1, <2>2, <2>4, TellsSkip
      <3>2. \/ u.m_class = t.m_class
            \/ line.id # c /\ u.m_class = emplace(t.m_class, line.id, line.name)
            \/ u.m_class = emplace(t.m_class, t.cls, "")
        BY <2>4 DEF AfterClassLine
      <3>3. t.cls # c \/ t.cls \in DOMAIN t.m_class
        BY <1>6
      <3> QED BY <3>1, <3>2, <3>3, TellsOther DEF S
    <2> QED BY <2>3, <2>4
  <1>9. ASSUME NEW c \in Ids, NEW s \in Ids
        PROVE  Tells(f, u.subclasses, <<c, s>>, SubclassAt(f, c, s), i)
    <2> DEFINE S == SubclassAt(f, c, s)
               m == t.subclasses
    <2>1. Tells(f, m, <<c, s>>, S, i - 1)
      BY DEF Known
    <2>2. S \subseteq Nat /\ (i \in S <=> line.kind = "t" /\ line.id = s /\ t.cls = c)
      <3>1. i \in S <=> line.kind = "t" /\ line.id = s /\ InClass(f, c, i)
        BY <1>1, <1>3 DEF SubclassAt, Has, line
      <3>2. S \subseteq Nat
        <4> HIDE DEF n, e
        <4> QED BY <1>1 DEF SubclassAt
      <3> HIDE DEF S
      <3> QED BY <1>5, <3>1, <3>2
    <2>3. ASSUME line.kind = "tt", <<t.cls, t.subcls>> = <<c, s>> PROVE <<c, s>> \in DOMAIN m
      <3>1. t.cls = c /\ t.subcls = s
        BY <2>3
      <3>2. j \in S
        BY <1>7, <2>3, <3>1 DEF SubclassAt, Has
      <3>3. j <= i - 1
        <4>1. j \in Nat /\ j < i
          <5> HIDE DEF j, S
          <5> QED BY <1>7, <2>2, <2>3, <3>2
        <4> HIDE DEF j
        <4> QED BY <1>3, <4>1
      <3> HIDE DEF S, j, m
      <3> QED BY <2>1, <3>2, <3>3 DEF Tells
    <2> HIDE DEF S
    <2>4. CASE line.kind = "t" /\ line.id = s /\ t.cls = c
      <3>1. u.subclasses = emplace(m, <<c, s>>, f[i].name)
        BY <2>4 DEF AfterClassLine, Ids, line
      <3> QED BY <1>3, <2>1, <2>2, <2>4, <3>1, TellsEmplace DEF S
    <2>5. CASE ~(line.kind = "t" /\ line.id = s /\ t.cls = c)
      <3>1. Tells(f, m, <<c, s>>, S, i)
        BY <1>3, <2>1, <2>2, <2>5, TellsSkip
      <3>2. \/ u.subclasses = m
            \/ <<t.cls, line.id>> # <<c, s>> /\ u.subclasses = emplace(m, <<t.cls, line.id>>, line.name)
            \/ line.kind = "tt" /\ u.subclasses = emplace(m, <<t.cls, t.subcls>>, "")
        BY <2>5 DEF AfterClassLine
      <3> HIDE DEF m
      <3> QED BY <2>3, <3>1, <3>2, TellsOther DEF S
    <2> QED BY <2>4, <2>5
  <1>10. ASSUME NEW c \in Ids, NEW s \in Ids, NEW p \in Ids
         PROVE  Tells(f, u.protocols, <<c, s, p>>, ProtocolAt(f, c, s, p), i)
    <2> DEFINE S == ProtocolAt(f, c, s, p)
               m == t.protocols
    <2>1. Tells(f, m, <<c, s, p>>, S, i - 1)
      BY DEF Known
    <2>2. S \subseteq Nat /\ (i \in S <=> line.kind = "tt" /\ line.id = p /\ t.cls = c /\ t.subcls = s)
      <3>1. i \in S <=> line.kind = "tt" /\ line.id = p /\ j > 0 /\ Has(f, j, "t", s) /\ InClass(f, c, j)
        BY <1>1, <1>3 DEF ProtocolAt, Has, line
      <3>2. S \subseteq Nat
        <4> HIDE DEF n, e
        <4> QED BY <1>1 DEF ProtocolAt
      <3>3. line.kind = "tt" => (j > 0 /\ Has(f, j, "t", s) /\ InClass(f, c, j) <=> t.cls = c /\ t.subcls = s)
        <4> HIDE DEF j
        <4> QED BY <1>7 DEF Has
      <3> HIDE DEF S, j
      <3> QED BY <3>1, <3>2, <3>3
    <2> HIDE DEF S
    <2>3. CASE line.kind = "tt" /\ line.id = p /\ t.cls = c /\ t.subcls = s
      <3>1. u.protocols = emplace(m, <<c, s, p>>, f[i].name)
        BY <2>3 DEF AfterClassLine, Ids, line
      <3> QED BY <1>3, <2>1, <2>2, <2>3, <3>1, TellsEmplace DEF S
    <2>4. CASE ~(line.kind = "tt" /\ line.id = p /\ t.cls = c /\ t.subcls = s)
      <3>1. Tells(f, m, <<c, s, p>>, S, i)
        BY <1>3, <2>1, <2>2, <2>4, TellsSkip
      <3>2. \/ u.protocols = m
            \/ /\ <<t.cls, t.subcls, line.id>> # <<c, s, p>>
               /\ u.protocols = emplace(m, <<t.cls, t.subcls, line.id>>, line.name)
        BY <2>4 DEF AfterClassLine
      <3> HIDE DEF m
      <3> QED BY <3>1, <3>2, TellsOther DEF S
    <2> QED BY <2>3, <2>4
  <1>11. u.m_vendor = t.m_vendor /\ u.products = t.products
    BY DEF AfterClassLine
  <1>12. /\ \A v \in Ids : Tells(f, u.m_vendor, v, VendorAt(f, v), i)
         /\ \A v, p \in Ids : Tells(f, u.products, <<v, p>>, ProductAt(f, v, p), i)
    BY <1>1, <1>11, KnownSkips
  <1> QED BY <1>8, <1>9, <1>10, <1>12 DEF Known

\* The maps go on.
LEMMA KnownNext ==
  ASSUME NEW f \in IdsFiles, NEW i \in 1 .. Len(f), NEW t, Where(f, t, i - 1), Known(f, t, i - 1)
  PROVE  Known(f, for_each_line(t, f[i]), i)
  <1> DEFINE n == LastVendorLine(f)
             e == LastClassLine(f)
  <1>1. /\ Len(f) \in Nat /\ n \in 0 .. Len(f) /\ e \in n .. Len(f)
        /\ VendorLines(f) = 1 .. n /\ ClassLines(f) = n + 1 .. e
        /\ n < Len(f) => f[n + 1] = ListOfClasses /\ n < e
        /\ e < Len(f) => f[e + 1] = ListOfAudioTerminals
    BY FileIs
  <1>2. DOMAIN t = Fields /\ t.part = IF i - 1 <= n THEN "vendors" ELSE IF i - 1 <= e THEN "classes" ELSE "end"
    BY DEF Where
  <1>3. CASE i <= n
    <2>1. i \in VendorLines(f)
      <3> HIDE DEF n, e
      <3> QED BY <1>1, <1>3
    <2> QED BY <2>1, VendorsKnown
  <1>4. CASE i > n + 1 /\ i <= e
    <2>1. i \in ClassLines(f) /\ i # n + 1
      <3> HIDE DEF n, e
      <3> QED BY <1>1, <1>4
    <2> QED BY <2>1, ClassesKnown
  <1> SUFFICES ASSUME i = n + 1 \/ i > e,
                      NEW u, u = for_each_line(t, f[i])
               PROVE  Known(f, u, i)
    <2> HIDE DEF n, e
    <2>1. i <= n \/ (i > n + 1 /\ i <= e) \/ i = n + 1 \/ i > e
      BY <1>1
    <2> QED BY <1>3, <1>4, <2>1
  <1>5. /\ i \notin VendorLines(f)
        /\ i \notin ClassLines(f) \/ f[i].kind \notin {"t", "tt", "C"}
    <2>1. ListOfClasses.kind = "# List of known device classes"
      BY DEF ListOfClasses, Entry
    <2> HIDE DEF n, e
    <2>2. CASE i = n + 1
      <3>1. i \notin 1 .. n /\ n < Len(f)
        BY <1>1, <2>2
      <3>2. f[i].kind = "# List of known device classes"
        BY <1>1, <2>1, <2>2, <3>1
      <3> QED BY <1>1, <3>1, <3>2
    <2>3. CASE i > e
      BY <1>1, <2>3
    <2> QED BY <2>2, <2>3
  <1>6. /\ u.m_vendor = t.m_vendor /\ u.products = t.products
        /\ u.m_class = t.m_class /\ u.subclasses = t.subclasses /\ u.protocols = t.protocols
    <2>1. u \in {t, [t EXCEPT !.part = "classes"], [t EXCEPT !.part = "end"]}
      <3> HIDE DEF n, e
      <3>1. \/ t.part = "vendors" /\ f[i] = ListOfClasses
            \/ t.part = "classes" /\ f[i] = ListOfAudioTerminals
            \/ t.part = "end"
        <4>1. CASE i = n + 1
          BY <1>1, <1>2, <4>1
        <4>2. CASE i > e /\ i # n + 1
          <5>1. CASE i = e + 1
            BY <1>1, <1>2, <4>2, <5>1
          <5>2. CASE i > e + 1
            BY <1>1, <1>2, <4>2, <5>2
          <5> QED BY <1>1, <4>2, <5>1, <5>2
        <4> QED BY <4>1, <4>2
      <3> QED BY <1>2, <3>1, MarkLine
    <2>2. \A x : LET w == [t EXCEPT !.part = x] IN
                 /\ w.m_vendor = t.m_vendor /\ w.products = t.products
                 /\ w.m_class = t.m_class /\ w.subclasses = t.subclasses /\ w.protocols = t.protocols
      BY <1>2 DEF Fields
    <2> QED BY <2>1, <2>2
  <1>7. /\ \A v \in Ids : Tells(f, u.m_vendor, v, VendorAt(f, v), i)
        /\ \A v, p \in Ids : Tells(f, u.products, <<v, p>>, ProductAt(f, v, p), i)
        /\ \A c \in Ids : Tells(f, u.m_class, c, ClassAt(f, c), i)
        /\ \A c, s \in Ids : Tells(f, u.subclasses, <<c, s>>, SubclassAt(f, c, s), i)
        /\ \A c, s, p \in Ids : Tells(f, u.protocols, <<c, s, p>>, ProtocolAt(f, c, s, p), i)
    BY <1>5, <1>6, KnownSkips
  <1> QED BY <1>7 DEF Known

\* What is known when the file was read.
LEMMA LoadKnows ==
  ASSUME NEW f \in IdsFiles
  PROVE  Len(f) \in Nat /\ Known(f, load(f), Len(f))
  <1>1. Len(f) \in Nat
    BY FileIs
  <1>2. PICK a : /\ a[0] = NoIds
                 /\ \A i \in 1 .. Len(f) : a[i] = for_each_line(a[i - 1], f[i])
                 /\ load(f) = a[Len(f)]
    BY <1>1, LoadRuns
  <1> DEFINE T == {i \in Nat : i <= Len(f) => Where(f, a[i], i) /\ Known(f, a[i], i)}
  <1>3. 0 \in T
    BY <1>2, NothingRead
  <1>4. \A i \in Nat : i \in T => i + 1 \in T
    <2> SUFFICES ASSUME NEW i \in Nat, i \in T, i + 1 <= Len(f)
                 PROVE  Where(f, a[i + 1], i + 1) /\ Known(f, a[i + 1], i + 1)
      OBVIOUS
    <2> DEFINE k == i + 1
    <2>1. k \in 1 .. Len(f) /\ k - 1 = i /\ i <= Len(f)
      BY <1>1
    <2>2. Where(f, a[k - 1], k - 1) /\ Known(f, a[k - 1], k - 1)
      BY <2>1
    <2>3. a[k] = for_each_line(a[k - 1], f[k])
      BY <1>2, <2>1
    <2> HIDE DEF k
    <2>4. Where(f, a[k], k) /\ Known(f, a[k], k)
      BY <2>1, <2>2, <2>3, WhereNext, KnownNext
    <2> QED BY <2>4 DEF k
  <1>5. Len(f) \in T
    <2> HIDE DEF T
    <2> QED BY <1>1, <1>3, <1>4, SetInduction
  <1> QED BY <1>1, <1>2, <1>5

\* A product that is declared has a vendor that is, and so on.
LEMMA DeclaredBelow ==
  ASSUME NEW f \in IdsFiles, NEW c \in Ids, NEW s \in Ids, NEW p \in Ids
  PROVE  /\ VendorAt(f, c) = {} => ProductAt(f, c, p) = {}
         /\ ClassAt(f, c) = {} => SubclassAt(f, c, s) = {}
         /\ SubclassAt(f, c, s) = {} => ProtocolAt(f, c, s, p) = {}
  <1>1. \A i \in VendorLines(f) : LET a == Above(f, i, {"vendor"}) IN a > 0 => a \in VendorLines(f)
    <2> SUFFICES ASSUME NEW i \in VendorLines(f)
                 PROVE  LET a == Above(f, i, {"vendor"}) IN a > 0 => a \in VendorLines(f)
      OBVIOUS
    <2>1. LastVendorLine(f) \in Nat /\ VendorLines(f) = 1 .. LastVendorLine(f)
      BY FileIs
    <2>2. i \in Nat /\ i > 0
      BY <2>1
    <2>3. Above(f, i, {"vendor"}) \in 0 .. i - 1
      BY <2>2, AboveIs
    <2> QED BY <2>1, <2>2, <2>3
  <1>2. \A i \in ProductAt(f, c, p) : Above(f, i, {"vendor"}) \in VendorAt(f, c)
    BY <1>1 DEF ProductAt, VendorAt, Has
  <1>3. \A i \in SubclassAt(f, c, s) : Above(f, i, {"C"}) \in ClassAt(f, c)
    BY DEF SubclassAt, ClassAt, InClass
  <1>4. \A i \in ProtocolAt(f, c, s, p) : Above(f, i, {"t", "C"}) \in SubclassAt(f, c, s)
    <2> SUFFICES ASSUME NEW i \in ProtocolAt(f, c, s, p) PROVE Above(f, i, {"t", "C"}) \in SubclassAt(f, c, s)
      OBVIOUS
    <2>1. i \in ClassLines(f) /\ f[i].kind = "tt"
      BY DEF ProtocolAt, Has
    <2>2. Above(f, i, {"t", "C"}) \in ClassLines(f)
      BY <2>1, ProtocolBelow
    <2> QED BY <2>2 DEF ProtocolAt, SubclassAt
  <1> QED BY <1>2, <1>3, <1>4

\* The names of a product.
LEMMA ProductNames ==
  ASSUME NEW f \in IdsFiles, NEW v \in Ids, NEW p \in Ids
  PROVE  find_product(load(f), v, p) = DeclaredProduct(f, v, p)
  <1> DEFINE t == load(f)
  <1>1. /\ Len(f) \in Nat
        /\ Tells(f, t.m_vendor, v, VendorAt(f, v), Len(f))
        /\ Tells(f, t.products, <<v, p>>, ProductAt(f, v, p), Len(f))
    BY LoadKnows DEF Known
  <1>2. VendorAt(f, v) \subseteq 1 .. Len(f) /\ ProductAt(f, v, p) \subseteq 1 .. Len(f)
    <2>1. LastVendorLine(f) \in 0 .. Len(f) /\ VendorLines(f) = 1 .. LastVendorLine(f)
      BY FileIs
    <2>2. VendorLines(f) \subseteq 1 .. Len(f)
      BY <1>1, <2>1
    <2> QED BY <2>2 DEF VendorAt, ProductAt
  <1> HIDE DEF t
  <1>3. /\ NameOf(t.m_vendor, v) = FirstName(f, VendorAt(f, v))
        /\ v \in DOMAIN t.m_vendor <=> VendorAt(f, v) # {}
        /\ NameOf(t.products, <<v, p>>) = FirstName(f, ProductAt(f, v, p))
    BY <1>1, <1>2, TellsEnd
  <1>4. DeclaredProduct(f, v, p) = <<FirstName(f, VendorAt(f, v)), FirstName(f, ProductAt(f, v, p))>>
    BY DEF DeclaredProduct, VendorAt, ProductAt
  <1>5. CASE v \in DOMAIN t.m_vendor
    BY <1>3, <1>4, <1>5 DEF find_product, NameOf, t
  <1>6. CASE v \notin DOMAIN t.m_vendor
    <2>1. VendorAt(f, v) = {} /\ ProductAt(f, v, p) = {}
      BY <1>3, <1>6, DeclaredBelow
    <2>2. find_product(t, v, p) = <<"", "">>
      BY <1>6 DEF find_product
    <2> QED BY <1>4, <2>1, <2>2 DEF FirstName, t
  <1> QED BY <1>5, <1>6

\* The names of a class.
LEMMA ClassNames ==
  ASSUME NEW f \in IdsFiles, NEW c \in Ids, NEW s \in Ids, NEW p \in Ids
  PROVE  find_class_subclass_proto(load(f), c, s, p) = DeclaredClass(f, c, s, p)
  <1> DEFINE t == load(f)
             C == ClassAt(f, c)
             S == SubclassAt(f, c, s)
             P == ProtocolAt(f, c, s, p)
  <1>1. /\ Len(f) \in Nat
        /\ Tells(f, t.m_class, c, C, Len(f))
        /\ Tells(f, t.subclasses, <<c, s>>, S, Len(f))
        /\ Tells(f, t.protocols, <<c, s, p>>, P, Len(f))
    BY LoadKnows DEF Known
  <1>2. C \subseteq 1 .. Len(f) /\ S \subseteq 1 .. Len(f) /\ P \subseteq 1 .. Len(f)
    <2>1. /\ LastVendorLine(f) \in Nat /\ LastClassLine(f) \in LastVendorLine(f) .. Len(f)
          /\ ClassLines(f) = LastVendorLine(f) + 1 .. LastClassLine(f)
      BY FileIs
    <2>2. ClassLines(f) \subseteq 1 .. Len(f)
      BY <1>1, <2>1
    <2> QED BY <2>2 DEF ClassAt, SubclassAt, ProtocolAt
  <1>3. DeclaredClass(f, c, s, p) = <<FirstName(f, C), FirstName(f, S), FirstName(f, P)>>
    BY DEF DeclaredClass, ClassAt, SubclassAt, ProtocolAt, InClass
  <1>4. (C = {} => S = {}) /\ (S = {} => P = {})
    BY DeclaredBelow
  <1> HIDE DEF t, C, S, P
  <1>5. /\ NameOf(t.m_class, c) = FirstName(f, C)
        /\ c \in DOMAIN t.m_class <=> C # {}
        /\ NameOf(t.subclasses, <<c, s>>) = FirstName(f, S)
        /\ <<c, s>> \in DOMAIN t.subclasses <=> S # {}
        /\ NameOf(t.protocols, <<c, s, p>>) = FirstName(f, P)
    <2>1. NameOf(t.m_class, c) = FirstName(f, C) /\ (c \in DOMAIN t.m_class <=> C # {})
      BY <1>1, <1>2, TellsEnd
    <2>2. NameOf(t.subclasses, <<c, s>>) = FirstName(f, S) /\ (<<c, s>> \in DOMAIN t.subclasses <=> S # {})
      BY <1>1, <1>2, TellsEnd
    <2>3. NameOf(t.protocols, <<c, s, p>>) = FirstName(f, P)
      BY <1>1, <1>2, TellsEnd
    <2> QED BY <2>1, <2>2, <2>3
  <1>6. find_class_subclass_proto(t, c, s, p) = <<FirstName(f, C), FirstName(f, S), FirstName(f, P)>>
    <2>1. CASE C = {}
      BY <1>4, <1>5, <2>1 DEF find_class_subclass_proto, FirstName
    <2>2. CASE C # {} /\ S = {}
      BY <1>4, <1>5, <2>2 DEF find_class_subclass_proto, FirstName, NameOf
    <2>3. CASE C # {} /\ S # {}
      <3>1. t.m_class[c] = FirstName(f, C) /\ t.subclasses[<<c, s>>] = FirstName(f, S)
        BY <1>5, <2>3 DEF NameOf
      <3> QED BY <1>5, <2>3, <3>1 DEF find_class_subclass_proto
    <2> QED BY <2>1, <2>2, <2>3
  <1> QED BY <1>3, <1>6 DEF t

\* The parser finds what the file declares.
LEMMA IdsAgreeHolds == IdsAgree
  <1>1. Numbers \ {0} \subseteq Ids
    BY IdsAssumption DEF Ids
  <1> SUFFICES ASSUME NEW f \in IdsFiles, NEW v \in Numbers \ {0}, NEW p \in Numbers \ {0}
               PROVE  /\ get_product(load(f), v, p) =
                            <<Or(DeclaredProduct(f, v, p)[1], "unknown vendor"),
                              Or(DeclaredProduct(f, v, p)[2], "unknown product")>>
                      /\ \A c \in Numbers \ {0} :
                            get_class(load(f), c, v, p) = [i \in 1..3 |-> Or(DeclaredClass(f, c, v, p)[i], "?")]
    BY DEF IdsAgree
  <1>2. v \in Ids /\ p \in Ids
    BY <1>1
  <1>3. get_product(load(f), v, p) =
           <<Or(DeclaredProduct(f, v, p)[1], "unknown vendor"), Or(DeclaredProduct(f, v, p)[2], "unknown product")>>
    BY <1>2, ProductNames DEF get_product
  <1>4. ASSUME NEW c \in Numbers \ {0}
        PROVE  get_class(load(f), c, v, p) = [i \in 1..3 |-> Or(DeclaredClass(f, c, v, p)[i], "?")]
    <2>1. c \in Ids /\ c # 0 /\ v # 0 /\ p # 0
      BY <1>1, <1>2 DEF Ids
    <2>2. find_class_subclass_proto(load(f), c, v, p) = DeclaredClass(f, c, v, p)
      BY <1>2, <2>1, ClassNames
    <2> QED BY <2>1, <2>2 DEF get_class
  <1> QED BY <1>3, <1>4

\* The names that are printed are those that usb.ids declares, for files of any length with
\* any vendors' part (load, find_product, find_class_subclass_proto, get_product, get_class).
THEOREM NamesAreDeclaredHolds == CommandsSpec => []NamesAreDeclared
  <1>1. NamesAreDeclared
    BY IdsAgreeHolds DEF NamesAreDeclared
  <1> QED BY <1>1, PTL
=============================================================================
