------------------------ MODULE HostControllerProofs ------------------------
(***************************************************************************)
(* Proofs about HostController, for every number of ports, devices, attach *)
(* requests and requests of applications.                                  *)
(***************************************************************************)
EXTENDS HostController, SequenceTheorems, TLAPS

\* The location of requests that name none.
LEMMA SomeLocIsLoc == SomeLoc \in Locs
  BY ControllerAssumption DEF SomeLoc

\* A request of the default queue is well formed.
LEMMA PluginType ==
  ASSUME NEW op \in PluginOps, NEW l \in Locs, NEW r \in Reqs \cup {None}, NEW n \in 0..MaxIoctls
  PROVE  Plugin(op, l, r, n) \in QueueRequests
  BY DEF Plugin, QueueRequests

\* So is a detach.
LEMMA PlugoutType ==
  ASSUME NEW op \in PlugoutOps \cup {"none"}, NEW p \in Ports \cup {None}
  PROVE  Plugout(op, p) \in QueueRequests
  BY SomeLocIsLoc, ControllerAssumption DEF Plugout, QueueRequests, None

\* A queue without one of its requests is a queue.
LEMMA QueueWithout ==
  ASSUME NEW S, NEW s \in Seq(S), NEW i \in 1..Len(s)
  PROVE  SubSeq(s, 1, i - 1) \o SubSeq(s, i + 1, Len(s)) \in Seq(S)
  <1>1. Len(s) \in Nat /\ \A j \in 1..Len(s) : s[j] \in S
    OBVIOUS
  <1>2. SubSeq(s, 1, i - 1) \in Seq(S)
    BY <1>1, SubSeqProperties
  <1>3. SubSeq(s, i + 1, Len(s)) \in Seq(S)
    BY <1>1, SubSeqProperties
  <1> QED BY <1>2, <1>3, ConcatProperties

-----------------------------------------------------------------------------
(* Type correctness.                                                        *)

\* The initial state is well typed.
LEMMA TypeInit == Init => TypeOK
  <1> SUFFICES ASSUME Init PROVE TypeOK
    OBVIOUS
  <1> USE ControllerAssumption, SomeLocIsLoc DEF Init
  <1>1. DeviceTypes
    BY DEF DeviceTypes, Ports, Devs, None
  <1>2. WorkTypes
    <2>1. cur \in QueueRequests
      BY PlugoutType DEF Idle, None
    <2>2. queue \in Seq(QueueRequests)
      OBVIOUS
    <2> QED BY <2>1, <2>2 DEF WorkTypes, Places, Statuses, None, System
  <1>3. AttachTypes
    <2>1. removing \in BOOLEAN
      BY Zenon
    <2>2. persistent \subseteq Locs
      OBVIOUS
    <2>3. requested \in 0..MaxReqs /\ retries \in [Reqs -> Nat]
      OBVIOUS
    <2> QED BY <2>1, <2>2, <2>3 DEF AttachTypes, Statuses
  <1> QED BY <1>1, <1>2, <1>3 DEF TypeOK

\* The tables and the flags of devices.
LEMMA DeviceTypesNext == TypeOK /\ CurrentDevice /\ [Next]_vars => DeviceTypes'
  <1> SUFFICES ASSUME TypeOK, CurrentDevice, [Next]_vars PROVE DeviceTypes'
    OBVIOUS
  <1> USE ControllerAssumption DEF TypeOK, DeviceTypes
  <1>1. CASE UNCHANGED devVars
    BY <1>1 DEF devVars
  <1>2. CASE device_create
    <2>1. cur.loc \in Locs
      BY DEF WorkTypes, QueueRequests
    <2> QED BY <1>2, <2>1 DEF device_create, Devs
  <1>3. CASE claim_roothub_port
    <2>1. get_port_range(cur.loc) \subseteq Ports
      BY DEF get_port_range, Ports
    <2>2. dev \in Devs
      BY <1>3 DEF claim_roothub_port, CurrentDevice, Devs
    <2>3. CASE UNCHANGED <<devices, port>>
      BY <1>3, <2>3 DEF claim_roothub_port
    <2>4. ASSUME NEW p \in Ports, devices' = [devices EXCEPT ![p] = dev],
                 port' = [port EXCEPT ![dev] = p]
          PROVE  DeviceTypes'
      BY <1>3, <2>2, <2>4 DEF claim_roothub_port
    <2> QED BY <1>3, <2>1, <2>3, <2>4 DEF claim_roothub_port
  <1>4. ASSUME NEW plugged \in BOOLEAN, NEW started \in BOOLEAN, plugin(plugged, started)
        PROVE  DeviceTypes'
    BY <1>4 DEF plugin
  <1>5. CASE detach
    <2>1. dev \in Devs
      BY <1>5 DEF detach, CurrentDevice, Devs
    <2> QED BY <1>5, <2>1 DEF detach
  <1>6. CASE reclaim_roothub_port
    BY <1>6 DEF reclaim_roothub_port, recv_thread_join
  <1>7. ASSUME NEW ok \in BOOLEAN, plugout_and_delete(ok) PROVE DeviceTypes'
    BY <1>7 DEF plugout_and_delete
  <1>8. ASSUME NEW d \in Devs, device_cleanup(d) PROVE DeviceTypes'
    BY <1>8 DEF device_cleanup
  <1>9. ASSUME NEW d \in Devs, NEW ok \in BOOLEAN, send_forced_closed(d, ok) PROVE DeviceTypes'
    BY <1>9 DEF send_forced_closed
  <1>10. ASSUME NEW d \in Devs, recv_loop_ends(d) PROVE DeviceTypes'
    BY <1>10 DEF recv_loop_ends
  <1>11. ASSUME NEW d \in Devs, NEW ok \in BOOLEAN, recv_thread_function(d, ok) PROVE DeviceTypes'
    BY <1>11 DEF recv_thread_function
  <1>12. ASSUME NEW d \in Devs, recv_thread_exits(d) PROVE DeviceTypes'
    BY <1>12 DEF recv_thread_exits
  <1>12a. ASSUME NEW d \in Devs, recv_thread_late(d) PROVE DeviceTypes'
    BY <1>12a DEF recv_thread_late
  <1>13. CASE ApplicationNext \/ RequestNext \/ QueueNext \/ complete \/ TailNext \/ RemoveNext
    <2>1. UNCHANGED devVars
      BY <1>13 DEF ApplicationNext, RequestNext, QueueNext, TailNext, RemoveNext, DeviceIoControl,
         stop_attach_attempts_ioctl, plugin_persistent_devices, on_attach_timer,
         on_plugin_hardware, cancel_sent_request, device_control, complete, complete_stop,
         complete_check, complete_start, vhci_query_remove
    <2> QED BY <1>1, <2>1
  <1>14. CASE \/ plugin_hardware_failed
              \/ \E to \in {"connect", "import", "complete"}, st \in Statuses : on_connect(to, st)
              \/ \E st \in Statuses : import_remote_device_failed(st)
              \/ get_device \/ detach_check \/ detach_start
    <2>1. UNCHANGED devVars
      BY <1>14 DEF plugin_hardware_failed, on_connect, import_remote_device_failed, get_device,
         detach_check, detach_start
    <2> QED BY <1>1, <2>1
  <1>15. CASE UNCHANGED vars
    BY <1>1, <1>15 DEF vars
  <1> QED
    BY <1>2, <1>3, <1>4, <1>5, <1>6, <1>7, <1>8, <1>9, <1>10, <1>11, <1>12, <1>12a, <1>13, <1>14,
       <1>15
    DEF Next, AttachNext, DetachNext, ThreadNext

\* What a thread puts in the default queue.
LEMMA QueueNextType == TypeOK /\ [Next]_vars => queue' \in Seq(QueueRequests)
  <1> SUFFICES ASSUME TypeOK, [Next]_vars PROVE queue' \in Seq(QueueRequests)
    OBVIOUS
  <1>q. queue \in Seq(QueueRequests)
    BY DEF TypeOK, WorkTypes
  <1>a. ASSUME NEW x \in QueueRequests, queue' = Append(queue, x)
        PROVE  queue' \in Seq(QueueRequests)
    BY <1>q, <1>a
  <1>1. CASE UNCHANGED queue
    BY <1>1, <1>q
  <1>2. CASE DeviceIoControl
    <2>1. ioctls' \in 0..MaxIoctls
      BY <1>2, ControllerAssumption DEF DeviceIoControl, TypeOK, WorkTypes
    <2>2. ASSUME NEW op \in PluginOps, NEW l \in Locs,
                 queue' = Append(queue, Plugin(op, l, None, ioctls'))
          PROVE  queue' \in Seq(QueueRequests)
      BY <2>1, <2>2, <1>a, PluginType
    <2>3. ASSUME NEW p \in Ports \cup {None},
                 queue' = Append(queue, Plugout("plugout", p))
          PROVE  queue' \in Seq(QueueRequests)
      BY <2>3, <1>a, PlugoutType DEF PlugoutOps
    <2>4. CASE queue' = Append(queue, Plugout("closeonly", None))
      BY <2>4, <1>a, PlugoutType DEF PlugoutOps
    <2> QED BY <1>2, <2>2, <2>3, <2>4 DEF DeviceIoControl
  <1>3. ASSUME NEW l \in Locs, plugin_persistent_devices(l)
        PROVE  queue' \in Seq(QueueRequests)
    <2>1. CASE UNCHANGED queue
      BY <2>1, <1>1
    <2>2. CASE requested < MaxReqs /\ queue' = Append(queue, Plugin("once", l, requested + 1, 0))
      <3>1. requested + 1 \in Reqs /\ 0 \in 0..MaxIoctls
        BY <2>2, ControllerAssumption DEF TypeOK, AttachTypes, Reqs
      <3> QED BY <2>2, <3>1, <1>a, PluginType DEF PluginOps
    <2> QED BY <1>3, <2>1, <2>2 DEF plugin_persistent_devices
  <1>4. ASSUME NEW r \in Reqs, NEW ok \in BOOLEAN, on_attach_timer(r, ok)
        PROVE  queue' \in Seq(QueueRequests)
    <2>1. CASE UNCHANGED queue
      BY <2>1, <1>1
    <2>2. CASE queue' = Append(queue, Plugin("once", attachLoc[r], r, 0))
      <3>1. attachLoc[r] \in Locs /\ 0 \in 0..MaxIoctls
        BY ControllerAssumption DEF TypeOK, AttachTypes
      <3> QED BY <2>2, <3>1, <1>a, PluginType DEF PluginOps
    <2> QED BY <1>4, <2>1, <2>2 DEF on_attach_timer
  <1>5. ASSUME NEW r \in Reqs, cancel_sent_request(r) PROVE queue' \in Seq(QueueRequests)
    <2>1. ASSUME NEW i \in 1..Len(queue),
                 queue' = SubSeq(queue, 1, i - 1) \o SubSeq(queue, i + 1, Len(queue))
          PROVE  queue' \in Seq(QueueRequests)
      BY <2>1, <1>q, QueueWithout
    <2> QED BY <1>5, <1>1, <2>1 DEF cancel_sent_request
  <1>6. ASSUME NEW t, device_control(t) PROVE queue' \in Seq(QueueRequests)
    <2>1. Tail(queue) \in Seq(QueueRequests)
      BY <1>6, <1>q, HeadTailProperties DEF device_control
    <2> QED BY <1>6, <2>1 DEF device_control
  <1>7. ASSUME NEW d \in Devs, NEW ok, async_detach_and_delete(d, ok)
        PROVE  queue' \in Seq(QueueRequests)
    <2>1. port[d] \in Ports \cup {None}
      BY DEF TypeOK, DeviceTypes
    <2> QED BY <1>7, <2>1, <1>1, <1>a, PlugoutType DEF async_detach_and_delete, PlugoutOps
  <1>8. ASSUME NEW d \in Devs, NEW ok \in BOOLEAN,
               send_forced_closed(d, ok) \/ recv_thread_function(d, ok) \/ recv_thread_late(d)
        PROVE  queue' \in Seq(QueueRequests)
    <2>1. 1..created \subseteq Devs
      BY ControllerAssumption DEF TypeOK, DeviceTypes, Devs
    <2> QED BY <1>8, <1>7, <1>1, <2>1 DEF send_forced_closed, recv_thread_function, recv_thread_late
  <1>9. ASSUME NEW ok \in BOOLEAN, vhci_query_remove(ok) PROVE queue' \in Seq(QueueRequests)
    <2>1. CASE queue' = Append(queue, Plugout("plugout", None))
      BY <2>1, <1>a, PlugoutType DEF PlugoutOps
    <2> QED BY <1>9, <1>1, <2>1 DEF vhci_query_remove
  <1>10. CASE \/ stop_attach_attempts_ioctl \/ AttachNext \/ DetachNext \/ complete \/ TailNext
              \/ \E r \in Reqs, ok \in BOOLEAN : on_plugin_hardware(r, ok)
              \/ \E d \in Devs : recv_loop_ends(d) \/ recv_thread_exits(d) \/ device_cleanup(d)
              \/ UNCHANGED vars
    <2>1. UNCHANGED queue
      BY <1>10 DEF stop_attach_attempts_ioctl, AttachNext, DetachNext, complete, TailNext,
         on_plugin_hardware, recv_loop_ends, recv_thread_exits, device_cleanup, vars,
         plugin_hardware_failed, on_connect, import_remote_device_failed, device_create,
         claim_roothub_port, plugin, get_device, detach, reclaim_roothub_port,
         plugout_and_delete, detach_check, detach_start, complete_stop, complete_check,
         complete_start
    <2> QED BY <2>1, <1>1
  <1> QED
    BY <1>2, <1>3, <1>4, <1>5, <1>6, <1>8, <1>9, <1>10
    DEF Next, ApplicationNext, RequestNext, QueueNext, ThreadNext, RemoveNext

\* The next port is one.
LEMMA NextPortType ==
  ASSUME TypeOK, NextPort
  PROVE  pc' \in Places /\ walk' \in Ports \cup {None} /\ status' \in Statuses
  BY ControllerAssumption DEF NextPort, TypeOK, WorkTypes, Places, Statuses, Ports, None

\* The request at hand and the work items.
LEMMA WorkTypesNext == TypeOK /\ CurrentDevice /\ [Next]_vars => WorkTypes'
  <1> SUFFICES ASSUME TypeOK, CurrentDevice, [Next]_vars PROVE WorkTypes'
    OBVIOUS
  <1>q. queue' \in Seq(QueueRequests)
    BY QueueNextType
  <1> USE ControllerAssumption DEF TypeOK, WorkTypes
  <1>u. CASE UNCHANGED <<workVars, tails, ioctls>>
    BY <1>q, <1>u DEF workVars
  <1>1. CASE ApplicationNext
    BY <1>1, <1>q DEF ApplicationNext, DeviceIoControl, stop_attach_attempts_ioctl, workVars
  <1>2. CASE RequestNext \/ ThreadNext \/ RemoveNext \/ UNCHANGED vars
    <2>1. UNCHANGED <<workVars, tails, ioctls>>
      BY <1>2 DEF RequestNext, ThreadNext, RemoveNext, vars, plugin_persistent_devices,
         on_attach_timer, on_plugin_hardware, cancel_sent_request, recv_loop_ends,
         recv_thread_exits, device_cleanup, send_forced_closed, recv_thread_function, recv_thread_late,
         vhci_query_remove
    <2> QED BY <2>1, <1>u
  <1>3. ASSUME NEW t \in Devs \cup {System}, device_control(t) PROVE WorkTypes'
    <2>1. cur' \in QueueRequests
      BY <1>3, HeadTailProperties DEF device_control
    <2>2. cur'.port \in Ports \cup {None}
      BY <2>1 DEF QueueRequests
    <2>3. pc' \in Places /\ runner' \in Devs \cup {System}
      BY <1>3 DEF device_control, Places
    <2>4. walk' \in Ports \cup {None}
      BY <1>3, <2>2 DEF device_control, Ports, None
    <2> QED BY <1>3, <1>q, <2>1, <2>3, <2>4 DEF device_control
  <1>4. CASE plugin_hardware_failed
    BY <1>4, <1>q DEF plugin_hardware_failed, Places, Statuses
  <1>5. ASSUME NEW to \in {"connect", "import", "complete"}, NEW st \in Statuses,
               on_connect(to, st)
        PROVE  WorkTypes'
    BY <1>5, <1>q DEF on_connect, Places
  <1>6. ASSUME NEW st \in Statuses, import_remote_device_failed(st) PROVE WorkTypes'
    BY <1>6, <1>q DEF import_remote_device_failed, Places
  <1>7. CASE device_create
    BY <1>7, <1>q DEF device_create, Places, DeviceTypes, Devs
  <1>8. CASE claim_roothub_port
    BY <1>8, <1>q DEF claim_roothub_port, Places, Statuses
  <1>9. ASSUME NEW plugged \in BOOLEAN, NEW started \in BOOLEAN, plugin(plugged, started)
        PROVE  WorkTypes'
    BY <1>9, <1>q DEF plugin, Places, Statuses
  <1>10. CASE complete
    <2>1. cur' \in QueueRequests
      BY <1>10, PlugoutType DEF complete, Idle, None
    <2>2. [id |-> cur.id, loc |-> cur.loc, dev |-> dev, status |-> status, at |-> "stop"] \in
          [id : 0..MaxIoctls, loc : Locs, dev : Devs \cup {None}, status : Statuses,
           at : {"stop", "check", "start"}]
      BY DEF QueueRequests
    <2>3. tails' \in SUBSET [id : 0..MaxIoctls, loc : Locs, dev : Devs \cup {None},
                             status : Statuses, at : {"stop", "check", "start"}]
      BY <1>10, <2>2 DEF complete
    <2>4. pc' \in Places /\ status' \in Statuses
      BY <1>10 DEF complete, Places, Statuses
    <2> QED BY <1>10, <1>q, <2>1, <2>3, <2>4 DEF complete
  <1>11. ASSUME NEW t \in tails, complete_stop(t) \/ complete_check(t) \/ complete_start(t)
         PROVE  WorkTypes'
    <2>1. \A x \in {"stop", "check", "start"} : [t EXCEPT !.at = x] \in
          [id : 0..MaxIoctls, loc : Locs, dev : Devs \cup {None}, status : Statuses,
           at : {"stop", "check", "start"}]
      OBVIOUS
    <2>2. tails' \in SUBSET [id : 0..MaxIoctls, loc : Locs, dev : Devs \cup {None},
                             status : Statuses, at : {"stop", "check", "start"}]
      BY <1>11, <2>1 DEF complete_stop, complete_check, complete_start
    <2>3. UNCHANGED <<workVars, ioctls>>
      BY <1>11 DEF complete_stop, complete_check, complete_start
    <2> QED BY <1>q, <2>2, <2>3 DEF workVars
  <1>12. CASE get_device
    <2>1. CASE NextPort /\ UNCHANGED dev
      BY <1>12, <1>q, <2>1, NextPortType DEF get_device
    <2>2. CASE walk \in Ports /\ dev' = devices[walk] /\ pc' = "detach" /\ UNCHANGED <<walk, status>>
      BY <1>12, <1>q, <2>2 DEF get_device, DeviceTypes, Places
    <2>3. walk \in Ports
      BY <1>12 DEF get_device, CurrentDevice
    <2> QED BY <1>12, <2>1, <2>2, <2>3 DEF get_device
  <1>13. CASE detach
    <2>1. CASE NextPort
      BY <1>13, <1>q, <2>1, NextPortType DEF detach
    <2>2. CASE pc' = "join" /\ UNCHANGED <<walk, status>>
      BY <1>13, <1>q, <2>2 DEF detach, Places
    <2> QED BY <1>13, <2>1, <2>2 DEF detach
  <1>14. CASE reclaim_roothub_port
    BY <1>14, <1>q DEF reclaim_roothub_port, Places
  <1>15. ASSUME NEW ok \in BOOLEAN, plugout_and_delete(ok) PROVE WorkTypes'
    <2>1. CASE NextPort
      BY <1>15, <1>q, <2>1, NextPortType DEF plugout_and_delete
    <2>2. CASE pc' = "check" /\ UNCHANGED <<walk, status>>
      BY <1>15, <1>q, <2>2 DEF plugout_and_delete, Places
    <2> QED BY <1>15, <2>1, <2>2 DEF plugout_and_delete
  <1>16. CASE detach_check
    <2>1. CASE NextPort
      BY <1>16, <1>q, <2>1, NextPortType DEF detach_check
    <2>2. CASE pc' = "start" /\ UNCHANGED <<walk, status>>
      BY <1>16, <1>q, <2>2 DEF detach_check, Places
    <2> QED BY <1>16, <2>1, <2>2 DEF detach_check
  <1>17. CASE detach_start
    BY <1>17, <1>q, NextPortType DEF detach_start
  <1> QED
    BY <1>1, <1>2, <1>3, <1>4, <1>5, <1>6, <1>7, <1>8, <1>9, <1>10, <1>11, <1>12, <1>13, <1>14,
       <1>15, <1>16, <1>17
    DEF Next, QueueNext, AttachNext, TailNext, DetachNext

\* The attach requests.
LEMMA AttachTypesNext == TypeOK /\ CurrentDevice /\ [Next]_vars => AttachTypes'
  <1> SUFFICES ASSUME TypeOK, CurrentDevice, [Next]_vars PROVE AttachTypes'
    OBVIOUS
  <1> USE ControllerAssumption DEF TypeOK, AttachTypes
  <1>u. CASE UNCHANGED <<attachVars, stopVars, removeVars>>
    BY <1>u DEF attachVars, stopVars, removeVars
  <1>s. ASSUME NEW L, stop_attach_attempts(L)
        PROVE  reattach_req' \subseteq Reqs /\ stopping' \subseteq Reqs /\ cancelled' \subseteq Reqs
    BY <1>s DEF stop_attach_attempts
  <1>d. ASSUME NEW l \in Locs, start_delayed(l), UNCHANGED removeVars PROVE AttachTypes'
    <2>1. requested + 1 \in Reqs /\ requested' \in 0..MaxReqs
      BY <1>d DEF start_delayed, Reqs
    <2>2. retries' \in [Reqs -> Nat]
      BY <1>d, <2>1 DEF start_delayed
    <2> QED BY <1>d, <2>1, <2>2 DEF start_delayed, removeVars
  <1>1. CASE DeviceIoControl \/ QueueNext \/ AttachNext \/ ThreadNext \/ UNCHANGED vars
    <2>1. UNCHANGED <<attachVars, stopVars, removeVars>>
      BY <1>1 DEF DeviceIoControl, QueueNext, AttachNext, ThreadNext, vars, device_control,
         plugin_hardware_failed, on_connect, import_remote_device_failed, device_create,
         claim_roothub_port, plugin, recv_loop_ends, recv_thread_exits, device_cleanup,
         send_forced_closed, recv_thread_function, recv_thread_late
    <2> QED BY <2>1, <1>u
  <1>2. CASE stop_attach_attempts_ioctl
    <2>1. UNCHANGED <<attachVars, removeVars>>
      BY <1>2 DEF stop_attach_attempts_ioctl
    <2> QED BY <1>2, <1>s, <2>1 DEF stop_attach_attempts_ioctl, attachVars, removeVars
  <1>3. ASSUME NEW l \in Locs, plugin_persistent_devices(l) PROVE AttachTypes'
    <2>1. CASE UNCHANGED <<requested, attach, attachLoc, reattach_req, queue>>
      BY <1>3, <2>1 DEF plugin_persistent_devices, removeVars
    <2>2. CASE /\ requested < MaxReqs /\ requested' = requested + 1
               /\ attach' = [attach EXCEPT ![requested + 1] = "sent"]
               /\ attachLoc' = [attachLoc EXCEPT ![requested + 1] = l]
               /\ reattach_req' = reattach_req \cup {requested + 1}
      <3>1. requested + 1 \in Reqs /\ requested' \in 0..MaxReqs
        BY <2>2 DEF Reqs
      <3>2. persistent' \subseteq Locs
        BY <1>3 DEF plugin_persistent_devices
      <3> QED BY <1>3, <2>2, <3>1, <3>2 DEF plugin_persistent_devices, removeVars
    <2> QED BY <1>3, <2>1, <2>2 DEF plugin_persistent_devices
  <1>4. ASSUME NEW r \in Reqs, NEW ok \in BOOLEAN, on_attach_timer(r, ok) PROVE AttachTypes'
    BY <1>4 DEF on_attach_timer, delete_request, removeVars
  <1>5. ASSUME NEW r \in Reqs, NEW ok \in BOOLEAN, on_plugin_hardware(r, ok) PROVE AttachTypes'
    <2>1. retries' \in [Reqs -> Nat]
      BY <1>5 DEF on_plugin_hardware
    <2>2. /\ attach' \in [Reqs -> {"none", "timer", "sent", "completed", "deleted"}]
          /\ reattach_req' \subseteq Reqs
      BY <1>5 DEF on_plugin_hardware, delete_request
    <2> QED BY <1>5, <2>1, <2>2 DEF on_plugin_hardware, removeVars
  <1>6. ASSUME NEW r \in Reqs, cancel_sent_request(r) PROVE AttachTypes'
    <2>1. /\ attach' \in [Reqs -> {"none", "timer", "sent", "completed", "deleted"}]
          /\ attachStatus' \in [Reqs -> Statuses]
      BY <1>6 DEF cancel_sent_request, Statuses
    <2> QED BY <1>6, <2>1 DEF cancel_sent_request, removeVars
  <1>7. CASE complete
    <2>1. /\ attach' \in [Reqs -> {"none", "timer", "sent", "completed", "deleted"}]
          /\ attachStatus' \in [Reqs -> Statuses]
      BY <1>7 DEF complete, WorkTypes
    <2> QED BY <1>7, <2>1 DEF complete, stopVars, removeVars
  <1>8. ASSUME NEW t \in tails, complete_stop(t) PROVE AttachTypes'
    <2>1. reattach_req' \subseteq Reqs /\ stopping' \subseteq Reqs /\ cancelled' \subseteq Reqs
      BY <1>8, <1>s DEF complete_stop, stopVars
    <2> QED BY <1>8, <2>1 DEF complete_stop, attachVars, removeVars
  <1>9. ASSUME NEW t \in tails, complete_check(t) PROVE AttachTypes'
    BY <1>9, <1>u DEF complete_check
  <1>10. ASSUME NEW t \in tails, complete_start(t) PROVE AttachTypes'
    <2>1. t.loc \in Locs
      BY DEF WorkTypes
    <2> QED BY <1>10, <2>1, <1>d, <1>u DEF complete_start, start_failed
  <1>11. CASE DetachNext
    <2>1. CASE detach_start
      <3>1. loc[dev] \in Locs
        BY <2>1 DEF detach_start, CurrentDevice, DeviceTypes
      <3> QED BY <2>1, <3>1, <1>d, <1>u DEF detach_start, start_failed
    <2>2. CASE UNCHANGED <<attachVars, stopVars, removeVars>>
      BY <2>2, <1>u
    <2> QED BY <1>11, <2>1, <2>2 DEF DetachNext, get_device, detach, reclaim_roothub_port,
               plugout_and_delete, detach_check
  <1>12. ASSUME NEW ok \in BOOLEAN, vhci_query_remove(ok) PROVE AttachTypes'
    <2>1. UNCHANGED attachVars
      BY <1>12 DEF vhci_query_remove
    <2>2. removing' \in BOOLEAN
      BY <1>12, Zenon DEF vhci_query_remove
    <2>3. remove' \in {"no", "flagged", "stopped", "sent", "failed"}
      BY <1>12 DEF vhci_query_remove
    <2>4. reattach_req' \subseteq Reqs /\ stopping' \subseteq Reqs /\ cancelled' \subseteq Reqs
      BY <1>12, <1>s DEF vhci_query_remove, stopVars
    <2> QED BY <2>1, <2>2, <2>3, <2>4 DEF attachVars
  <1> QED
    BY <1>1, <1>2, <1>3, <1>4, <1>5, <1>6, <1>7, <1>8, <1>9, <1>10, <1>11, <1>12
    DEF Next, ApplicationNext, RequestNext, TailNext, RemoveNext

-----------------------------------------------------------------------------
(* The life of a device.                                                     *)

\* What the invariant says beside the types.
Life == PortsAgree /\ PluggedHasPort /\ FreshDevices /\ CurrentDevice /\ RunnerIsSent /\ DeviceLife

LifeVars == <<devices, loc, port, unplugged, recv, ude, created, pc, cur, runner, dev, walk>>

\* Steps that touch neither a device nor the work on the current request.
LEMMA LifeFrame == Life /\ UNCHANGED LifeVars => Life'
  BY DEF Life, LifeVars, PortsAgree, PluggedHasPort, FreshDevices, CurrentDevice, RunnerIsSent,
         DeviceLife

\* No device is at hand when the request at hand moves from one of these places to
\* another, and no device changes.
LEMMA LifeMove ==
  ASSUME Life, UNCHANGED devVars, UNCHANGED dev,
         RunnerIsSent',
         pc \notin {"claim", "plugin", "detach", "join", "plugout"},
         pc' \notin {"claim", "plugin", "detach", "join", "plugout"},
         pc' \in {"idle", "addrinfo", "connect", "import", "failed"} => dev = None,
         pc' \in {"addrinfo", "connect", "import"} => cur'.op \in PluginOps,
         pc' \in {"check", "start"} => dev \in Devs,
         pc' = "lookup" => walk' \in Ports
  PROVE  Life'
  <1> USE DEF Life, devVars
  <1>1. PortsAgree' /\ FreshDevices'
    BY DEF PortsAgree, FreshDevices
  <1>2. PluggedHasPort'
    BY DEF PluggedHasPort
  <1>3. CurrentDevice'
    BY DEF CurrentDevice
  <1>4. DeviceLife'
    BY DEF DeviceLife
  <1> QED BY <1>1, <1>2, <1>3, <1>4

\* Where NextPort goes.
LEMMA NextPortPlace ==
  ASSUME TypeOK, NextPort
  PROVE  pc' \in {"lookup", "complete"} /\ (pc' = "lookup" => walk' \in Ports)
  BY ControllerAssumption DEF NextPort, TypeOK, WorkTypes, Ports, None

\* There are no devices at first.
LEMMA LifeInit == Init => Life
  BY ControllerAssumption DEF Init, Life, PortsAgree, PluggedHasPort, FreshDevices, CurrentDevice,
     RunnerIsSent, DeviceLife, Ports, Devs, None, System

\* The attach: a device is created, gets a port, is plugged in.
LEMMA LifeAttach == TypeOK /\ Life /\ AttachNext => Life'
  <1> SUFFICES ASSUME TypeOK, Life, AttachNext PROVE Life'
    OBVIOUS
  <1> USE ControllerAssumption DEF TypeOK, DeviceTypes, WorkTypes
  <1>1. CASE \/ plugin_hardware_failed
             \/ \E to \in {"connect", "import", "complete"}, st \in Statuses : on_connect(to, st)
             \/ \E st \in Statuses : import_remote_device_failed(st)
    <2>1. /\ pc \in {"addrinfo", "connect", "import"}
          /\ pc' \in {"failed", "connect", "import", "complete"}
          /\ UNCHANGED devVars /\ UNCHANGED <<cur, dev, runner>>
      BY <1>1 DEF plugin_hardware_failed, on_connect, import_remote_device_failed
    <2>2. dev = None /\ cur.op \in PluginOps
      BY <2>1 DEF Life, CurrentDevice
    <2>3. RunnerIsSent'
      BY <2>1 DEF Life, RunnerIsSent, devVars
    <2> QED BY <2>1, <2>2, <2>3, LifeMove
  <1>2. CASE device_create
    <2> DEFINE d == created + 1
    <2>1. d \in Devs /\ d > created /\ created' = d /\ dev' = d /\ pc = "import" /\ pc' = "claim"
      BY <1>2 DEF device_create, Devs
    <2>2. ude[d] = "none" /\ recv[d] = "none" /\ port[d] = None /\ d \notin unplugged
      BY <2>1 DEF Life, FreshDevices
    <2>3. /\ ude' = [ude EXCEPT ![d] = "created"]
          /\ UNCHANGED <<devices, port, unplugged, recv, cur, runner, walk>>
          /\ loc' = [loc EXCEPT ![d] = cur.loc]
      BY <1>2 DEF device_create
    <2>4. cur.op \in PluginOps
      BY <2>1 DEF Life, CurrentDevice
    <2>5. PortsAgree'
      BY <2>1, <2>2, <2>3 DEF Life, PortsAgree
    <2>6. PluggedHasPort'
      BY <2>1, <2>2, <2>3 DEF Life, PluggedHasPort
    <2>7. FreshDevices'
      BY <2>1, <2>2, <2>3 DEF Life, FreshDevices, Devs
    <2>8. CurrentDevice'
      BY <2>1, <2>2, <2>3, <2>4 DEF CurrentDevice, Devs
    <2>9. RunnerIsSent'
      BY <2>3 DEF Life, RunnerIsSent
    <2>10. DeviceLife'
      BY <2>1, <2>2, <2>3 DEF Life, DeviceLife, Devs
    <2> QED BY <2>5, <2>6, <2>7, <2>8, <2>9, <2>10 DEF Life
  <1>3. CASE claim_roothub_port
    <2>1. /\ dev \in Devs /\ pc = "claim" /\ port[dev] = None /\ dev \in 1..created
          /\ ude[dev] = "created" /\ dev \notin unplugged /\ recv[dev] = "none"
          /\ cur.op \in PluginOps /\ dev # None
      BY <1>3 DEF claim_roothub_port, Life, CurrentDevice, Devs, None
    <2>2. UNCHANGED <<loc, unplugged, recv, ude, created, cur, runner, dev, walk>>
      BY <1>3 DEF claim_roothub_port
    <2>3. CASE pc' = "detach" /\ UNCHANGED <<devices, port>>
      <3>1. PortsAgree' /\ FreshDevices' /\ RunnerIsSent'
        BY <2>2, <2>3 DEF Life, PortsAgree, FreshDevices, RunnerIsSent
      <3>2. PluggedHasPort'
        BY <2>1, <2>2, <2>3 DEF Life, PluggedHasPort
      <3>3. CurrentDevice'
        BY <2>1, <2>2, <2>3 DEF CurrentDevice
      <3>4. DeviceLife'
        BY <2>1, <2>2, <2>3 DEF Life, DeviceLife
      <3> QED BY <3>1, <3>2, <3>3, <3>4 DEF Life
    <2>4. ASSUME NEW p \in get_port_range(cur.loc), devices[p] = None, pc' = "plugin",
                 devices' = [devices EXCEPT ![p] = dev], port' = [port EXCEPT ![dev] = p]
          PROVE  Life'
      <3>1. p \in Ports /\ p # None /\ (p > Usb2Ports <=> cur.loc \in Usb3Locs)
        BY DEF get_port_range, Ports, None
      <3>2. loc[dev] = cur.loc
        BY <2>1 DEF Life, CurrentDevice
      <3>3. PortsAgree'
        <4>1. ASSUME NEW q \in Ports, devices'[q] # None PROVE port'[devices'[q]] = q
          <5>1. CASE q = p
            BY <2>1, <2>4, <3>1, <5>1
          <5>2. CASE q # p
            <6>1. devices'[q] = devices[q] /\ devices[q] \in Devs /\ port[devices[q]] = q
              BY <2>4, <3>1, <4>1, <5>2 DEF Life, PortsAgree
            <6>2. devices[q] # dev
              BY <6>1, <2>1, <4>1 DEF Ports, None
            <6> QED BY <6>1, <6>2, <2>1, <2>4
          <5> QED BY <5>1, <5>2
        <4>2. ASSUME NEW e \in Devs, port'[e] # None
              PROVE  devices'[port'[e]] = e /\ (port'[e] > Usb2Ports <=> loc[e] \in Usb3Locs)
          <5>1. CASE e = dev
            BY <2>1, <2>4, <3>1, <3>2, <5>1
          <5>2. CASE e # dev
            <6>1. /\ port'[e] = port[e] /\ port[e] \in Ports
                  /\ devices[port[e]] = e /\ (port[e] > Usb2Ports <=> loc[e] \in Usb3Locs)
              BY <2>1, <2>4, <4>2, <5>2 DEF Life, PortsAgree
            <6>2. port[e] # p
              BY <6>1, <2>4 DEF Devs, None
            <6> QED BY <6>1, <6>2, <2>4
          <5> QED BY <5>1, <5>2
        <4> QED BY <4>1, <4>2, <2>2 DEF PortsAgree
      <3>4. PluggedHasPort'
        BY <2>1, <2>2, <2>4 DEF Life, PluggedHasPort
      <3>5. FreshDevices'
        BY <2>1, <2>2, <2>4 DEF Life, FreshDevices, Devs
      <3>6. CurrentDevice'
        BY <2>1, <2>2, <2>4, <3>1 DEF CurrentDevice
      <3>7. RunnerIsSent'
        BY <2>2 DEF Life, RunnerIsSent
      <3>8. DeviceLife'
        BY <2>1, <2>2, <2>4 DEF Life, DeviceLife
      <3> QED BY <3>3, <3>4, <3>5, <3>6, <3>7, <3>8 DEF Life
    <2> QED BY <1>3, <2>3, <2>4 DEF claim_roothub_port
  <1>4. ASSUME NEW plugged \in BOOLEAN, NEW started \in BOOLEAN, plugin(plugged, started)
        PROVE  Life'
    <2>1. /\ dev \in Devs /\ pc = "plugin" /\ port[dev] # None /\ dev \in 1..created
          /\ ude[dev] = "created" /\ dev \notin unplugged /\ recv[dev] = "none"
          /\ cur.op \in PluginOps
      BY <1>4 DEF plugin, Life, CurrentDevice, Devs
    <2>2. UNCHANGED <<devices, loc, port, unplugged, created, cur, runner, dev, walk>>
      BY <1>4 DEF plugin
    <2>3. \/ /\ ude' = [ude EXCEPT ![dev] = "plugged"]
             /\ recv' = [recv EXCEPT ![dev] = "running"] /\ pc' = "complete"
          \/ ude' \in {ude, [ude EXCEPT ![dev] = "plugged"]} /\ recv' = recv /\ pc' = "detach"
      BY <1>4 DEF plugin
    <2>4. PortsAgree'
      BY <2>2 DEF Life, PortsAgree
    <2>5. PluggedHasPort'
      BY <2>1, <2>2, <2>3 DEF Life, PluggedHasPort
    <2>6. FreshDevices'
      BY <2>1, <2>2, <2>3 DEF Life, FreshDevices, Devs
    <2>7. CurrentDevice'
      BY <2>1, <2>2, <2>3 DEF CurrentDevice
    <2>8. RunnerIsSent'
      BY <2>1, <2>2, <2>3 DEF Life, RunnerIsSent, System, Devs
    <2>9. DeviceLife'
      BY <2>1, <2>2, <2>3 DEF Life, DeviceLife, Devs
    <2> QED BY <2>4, <2>5, <2>6, <2>7, <2>8, <2>9 DEF Life
  <1> QED BY <1>1, <1>2, <1>3, <1>4 DEF AttachNext

\* The detach: the flag, the port, then UDE.
LEMMA LifeDetach == TypeOK /\ Life /\ DetachNext => Life'
  <1> SUFFICES ASSUME TypeOK, Life, DetachNext PROVE Life'
    OBVIOUS
  <1> USE ControllerAssumption DEF TypeOK, DeviceTypes, WorkTypes
  <1>1. CASE get_device
    <2>1. walk \in Ports /\ pc = "lookup" /\ UNCHANGED devVars /\ UNCHANGED <<cur, runner>>
      BY <1>1 DEF get_device, Life, CurrentDevice
    <2>2. RunnerIsSent'
      BY <2>1 DEF Life, RunnerIsSent, devVars
    <2>3. CASE NextPort /\ UNCHANGED dev
      BY <2>1, <2>2, <2>3, NextPortPlace, LifeMove
    <2>4. CASE devices[walk] # None /\ dev' = devices[walk] /\ pc' = "detach" /\ UNCHANGED walk
      <3> DEFINE d == devices[walk]
      <3>1. d \in Devs /\ port[d] = walk /\ port[d] # None
        BY <2>1, <2>4 DEF Life, PortsAgree, Ports, None
      <3>2. d \in 1..created
        BY <3>1 DEF Life, FreshDevices, Devs
      <3>3. ude[d] = "plugged" /\ d \notin unplugged
        BY <3>1, <3>2, <2>1 DEF Life, DeviceLife, Devs
      <3>4. PortsAgree' /\ FreshDevices'
        BY <2>1 DEF Life, PortsAgree, FreshDevices, devVars
      <3>5. PluggedHasPort'
        BY <2>1, <2>4 DEF Life, PluggedHasPort, devVars
      <3>6. CurrentDevice'
        BY <2>1, <2>4, <3>1, <3>2, <3>3 DEF CurrentDevice, devVars
      <3>7. DeviceLife'
        BY <2>1, <2>4 DEF Life, DeviceLife, devVars
      <3> QED BY <2>2, <3>4, <3>5, <3>6, <3>7 DEF Life
    <2> QED BY <1>1, <2>3, <2>4 DEF get_device
  <1>2. CASE detach
    <2>1. /\ dev \in Devs /\ dev \in 1..created /\ dev \notin unplugged /\ pc = "detach"
          /\ ude[dev] \in {"created", "plugged"}
          /\ ude[dev] = "created" => cur.op \in PluginOps /\ recv[dev] = "none"
      BY <1>2 DEF detach, Life, CurrentDevice, Devs
    <2>2. /\ unplugged' = unplugged \cup {dev} /\ pc' = "join"
          /\ UNCHANGED <<devices, loc, port, recv, ude, created, cur, runner, dev, walk>>
      BY <1>2, <2>1 DEF detach
    <2>3. PortsAgree' /\ RunnerIsSent'
      BY <2>2 DEF Life, PortsAgree, RunnerIsSent
    <2>4. PluggedHasPort'
      BY <2>1, <2>2 DEF Life, PluggedHasPort
    <2>5. FreshDevices'
      BY <2>1, <2>2 DEF Life, FreshDevices, Devs
    <2>6. CurrentDevice'
      BY <2>1, <2>2 DEF CurrentDevice
    <2>7. DeviceLife'
      BY <2>1, <2>2 DEF Life, DeviceLife
    <2> QED BY <2>3, <2>4, <2>5, <2>6, <2>7 DEF Life
  <1>3. CASE reclaim_roothub_port
    <2>1. /\ dev \in Devs /\ dev \in 1..created /\ dev \in unplugged /\ pc = "join"
          /\ ude[dev] \in {"created", "plugged"}
          /\ ude[dev] = "created" => cur.op \in PluginOps /\ recv[dev] = "none"
      BY <1>3 DEF reclaim_roothub_port, Life, CurrentDevice, Devs
    <2>2. PICK v \in {"none", "sent", "late", "ended"} :
            /\ recv' = [recv EXCEPT ![dev] = v]
            /\ recv[dev] = "none" => v = "none"
            /\ runner = dev => v = "sent"
      <3>1. runner = dev => recv[dev] = "sent"
        BY <2>1 DEF Life, RunnerIsSent, Devs, System
      <3>2. CASE UNCHANGED recv /\ (recv[dev] \in {"none", "ended"} \/ runner = dev)
        <4>1. recv' = [recv EXCEPT ![dev] = recv[dev]]
          BY <3>2
        <4> QED BY <3>1, <3>2, <4>1
      <3>3. CASE /\ recv[dev] \notin {"none", "ended"} /\ runner # dev
                 /\ recv' = [recv EXCEPT ![dev] = "late"]
        BY <3>3
      <3> QED BY <1>3, <3>2, <3>3 DEF reclaim_roothub_port, recv_thread_join
    <2>3. pc' = "plugout" /\ UNCHANGED <<loc, unplugged, ude, created, cur, runner, dev, walk>>
      BY <1>3 DEF reclaim_roothub_port
    <2>4. /\ port' = [port EXCEPT ![dev] = None]
          /\ devices' = IF port[dev] = None THEN devices ELSE [devices EXCEPT ![port[dev]] = None]
      BY <1>3, <2>1 DEF reclaim_roothub_port
    <2>5. PortsAgree'
      <3>1. ASSUME NEW p \in Ports, devices'[p] # None
            PROVE  devices[p] = devices'[p] /\ devices[p] # dev /\ port[devices[p]] = p
        <4>1. CASE port[dev] = None
          <5>1. devices'[p] = devices[p] /\ port[devices[p]] = p
            BY <2>4, <3>1, <4>1 DEF Life, PortsAgree
          <5>2. p # None
            BY DEF Ports, None
          <5> QED BY <5>1, <5>2, <4>1
        <4>2. CASE port[dev] # None
          <5>1. port[dev] \in Ports /\ p # port[dev] /\ devices'[p] = devices[p]
            BY <2>1, <2>4, <3>1, <4>2
          <5>2. port[devices[p]] = p
            BY <3>1, <5>1 DEF Life, PortsAgree
          <5> QED BY <5>1, <5>2
        <4> QED BY <4>1, <4>2
      <3>2. ASSUME NEW p \in Ports, devices'[p] # None PROVE port'[devices'[p]] = p
        BY <3>1, <3>2, <2>1, <2>4
      <3>3. ASSUME NEW d \in Devs, port'[d] # None
            PROVE  /\ port'[d] = port[d] /\ devices'[port[d]] = d
                   /\ port[d] > Usb2Ports <=> loc[d] \in Usb3Locs
        <4>1. d # dev /\ port'[d] = port[d]
          BY <2>1, <2>4, <3>3
        <4>2. /\ port[d] \in Ports /\ devices[port[d]] = d
              /\ port[d] > Usb2Ports <=> loc[d] \in Usb3Locs
          BY <4>1, <3>3 DEF Life, PortsAgree
        <4>3. CASE port[dev] = None
          BY <4>1, <4>2, <4>3, <2>4
        <4>4. CASE port[dev] # None
          <5>1. devices[port[dev]] = dev
            BY <4>4, <2>1 DEF Life, PortsAgree
          <5>2. port[d] # port[dev]
            BY <4>1, <4>2, <5>1
          <5> QED BY <4>1, <4>2, <4>4, <5>2, <2>4
        <4> QED BY <4>3, <4>4
      <3> QED BY <3>2, <3>3, <2>3 DEF PortsAgree
    <2>6. PluggedHasPort'
      BY <2>1, <2>3, <2>4 DEF Life, PluggedHasPort
    <2>7. FreshDevices'
      BY <2>1, <2>2, <2>3, <2>4 DEF Life, FreshDevices, Devs
    <2>8. CurrentDevice'
      BY <2>1, <2>2, <2>3, <2>4 DEF CurrentDevice
    <2>9. RunnerIsSent'
      BY <2>1, <2>2, <2>3 DEF Life, RunnerIsSent, System
    <2>10. DeviceLife'
      BY <2>1, <2>2, <2>3, <2>4 DEF Life, DeviceLife
    <2> QED BY <2>5, <2>6, <2>7, <2>8, <2>9, <2>10 DEF Life
  <1>4. ASSUME NEW ok \in BOOLEAN, plugout_and_delete(ok) PROVE Life'
    <2>1. /\ dev \in Devs /\ dev \in 1..created /\ dev \in unplugged /\ pc = "plugout"
          /\ port[dev] = None /\ recv[dev] \notin {"running", "ending"}
      BY <1>4 DEF plugout_and_delete, Life, CurrentDevice, Devs
    <2>2. UNCHANGED <<devices, loc, port, unplugged, recv, created, cur, runner, dev>>
      BY <1>4 DEF plugout_and_delete
    <2>3. PICK u \in {"destroyed", "closed", "deleting", "stuck"} : ude' = [ude EXCEPT ![dev] = u]
      BY <1>4 DEF plugout_and_delete
    <2>4. pc' \in {"check", "lookup", "complete"} /\ (pc' = "lookup" => walk' \in Ports)
      BY <1>4, NextPortPlace DEF plugout_and_delete
    <2>5. PortsAgree' /\ RunnerIsSent'
      BY <2>2 DEF Life, PortsAgree, RunnerIsSent
    <2>6. PluggedHasPort'
      BY <2>1, <2>2, <2>3 DEF Life, PluggedHasPort
    <2>7. FreshDevices'
      BY <2>1, <2>2, <2>3 DEF Life, FreshDevices, Devs
    <2>8. CurrentDevice'
      BY <2>1, <2>2, <2>4 DEF CurrentDevice
    <2>9. DeviceLife'
      BY <2>1, <2>2, <2>3 DEF Life, DeviceLife, Devs
    <2> QED BY <2>5, <2>6, <2>7, <2>8, <2>9 DEF Life
  <1>5. CASE detach_check \/ detach_start
    <2>1. /\ dev \in Devs /\ pc \in {"check", "start"} /\ UNCHANGED devVars
          /\ UNCHANGED <<cur, dev, runner>>
      BY <1>5 DEF detach_check, detach_start, Life, CurrentDevice
    <2>2. pc' \in {"start", "lookup", "complete"} /\ (pc' = "lookup" => walk' \in Ports)
      BY <1>5, NextPortPlace DEF detach_check, detach_start
    <2>3. RunnerIsSent'
      BY <2>1 DEF Life, RunnerIsSent, devVars
    <2> QED BY <2>1, <2>2, <2>3, LifeMove
  <1> QED BY <1>1, <1>2, <1>3, <1>4, <1>5 DEF DetachNext

\* The receive threads and the deletion by UDE.
LEMMA LifeThreads == TypeOK /\ Life /\ ThreadNext => Life'
  <1> SUFFICES ASSUME TypeOK, Life, NEW d \in Devs, NEW ok \in BOOLEAN,
                      \/ recv_loop_ends(d) \/ recv_thread_exits(d) \/ device_cleanup(d)
                      \/ send_forced_closed(d, ok) \/ recv_thread_function(d, ok) \/ recv_thread_late(d)
               PROVE  Life'
    BY DEF ThreadNext
  <1> USE ControllerAssumption DEF TypeOK, DeviceTypes, WorkTypes
  <1>1. CASE send_forced_closed(d, ok)
    BY <1>1, LifeFrame DEF send_forced_closed, LifeVars, workVars
  <1>2. CASE device_cleanup(d)
    <2>1. /\ ude[d] = "deleting" /\ ude' = [ude EXCEPT ![d] = "destroyed"]
          /\ UNCHANGED <<devices, loc, port, unplugged, recv, created, pc, cur, runner, dev, walk>>
      BY <1>2 DEF device_cleanup, workVars
    <2>2. PortsAgree' /\ RunnerIsSent'
      BY <2>1 DEF Life, PortsAgree, RunnerIsSent
    <2>3. PluggedHasPort'
      BY <2>1 DEF Life, PluggedHasPort
    <2>4. FreshDevices'
      BY <2>1 DEF Life, FreshDevices
    <2>5. CurrentDevice'
      BY <2>1 DEF Life, CurrentDevice
    <2>6. DeviceLife'
      BY <2>1 DEF Life, DeviceLife
    <2> QED BY <2>2, <2>3, <2>4, <2>5, <2>6 DEF Life
  <1>3. CASE recv_loop_ends(d) \/ recv_thread_exits(d) \/ recv_thread_function(d, ok) \/ recv_thread_late(d)
    <2>1. PICK v \in {"ending", "sent", "ended"} :
            /\ recv' = [recv EXCEPT ![d] = v]
            /\ v = "ending" => recv[d] = "running"
            /\ v = "sent" => recv[d] = "ending"
            /\ v = "ended" => runner # d \/ recv[d] \in {"ending", "late"}
      BY <1>3 DEF recv_loop_ends, recv_thread_exits, recv_thread_function, recv_thread_late
    <2>2. recv[d] # "none" /\ (recv[d] = "sent" => runner # d)
      BY <1>3 DEF recv_loop_ends, recv_thread_exits, recv_thread_function, recv_thread_late
    <2>3. UNCHANGED <<devices, loc, port, unplugged, ude, created, pc, cur, runner, dev, walk>>
      BY <1>3 DEF recv_loop_ends, recv_thread_exits, recv_thread_function, recv_thread_late, workVars
    <2>4. PortsAgree' /\ PluggedHasPort'
      BY <2>3 DEF Life, PortsAgree, PluggedHasPort
    <2>5. FreshDevices'
      BY <2>1, <2>2, <2>3 DEF Life, FreshDevices
    <2>6. CurrentDevice'
      BY <2>1, <2>2, <2>3 DEF Life, CurrentDevice, Devs
    <2>7. RunnerIsSent'
      BY <2>1, <2>2, <2>3 DEF Life, RunnerIsSent
    <2>8. DeviceLife'
      BY <2>1, <2>2, <2>3 DEF Life, DeviceLife
    <2> QED BY <2>4, <2>5, <2>6, <2>7, <2>8 DEF Life
  <1> QED BY <1>1, <1>2, <1>3

\* Every step.
LEMMA LifeNext == TypeOK /\ Life /\ [Next]_vars => Life'
  <1> SUFFICES ASSUME TypeOK, Life, [Next]_vars PROVE Life'
    OBVIOUS
  <1>1. CASE ApplicationNext \/ RequestNext \/ TailNext \/ RemoveNext \/ UNCHANGED vars
    <2>1. UNCHANGED <<devVars, workVars>>
      BY <1>1 DEF ApplicationNext, RequestNext, TailNext, RemoveNext, DeviceIoControl,
         stop_attach_attempts_ioctl, plugin_persistent_devices, on_attach_timer,
         on_plugin_hardware, cancel_sent_request, complete_stop, complete_check, complete_start,
         vhci_query_remove, vars
    <2> QED BY <2>1, LifeFrame DEF LifeVars, devVars, workVars
  <1>2. ASSUME NEW t \in Devs \cup {System}, device_control(t) PROVE Life'
    <2>1. cur' \in QueueRequests
      BY <1>2, HeadTailProperties DEF device_control, TypeOK, WorkTypes
    <2>2. cur'.port \in Ports \cup {None}
      BY <2>1 DEF QueueRequests
    <2>3. UNCHANGED devVars /\ UNCHANGED dev /\ pc = "idle"
      BY <1>2 DEF device_control
    <2>4. dev = None
      BY <2>3 DEF Life, CurrentDevice
    <2>5. /\ pc' \in {"addrinfo", "lookup"}
          /\ pc' = "addrinfo" => cur'.op \in PluginOps
          /\ pc' = "lookup" => walk' \in Ports
      BY <1>2, <2>2, ControllerAssumption DEF device_control, Ports, None
    <2>6. RunnerIsSent'
      BY <1>2, <2>3 DEF device_control, RunnerIsSent, devVars
    <2> QED BY <2>3, <2>4, <2>5, <2>6, LifeMove
  <1>3. CASE complete
    <2>1. /\ pc \in {"complete", "failed"} /\ pc' = "idle" /\ dev' = None /\ runner' = System
          /\ UNCHANGED devVars
      BY <1>3 DEF complete
    <2>2. PortsAgree' /\ FreshDevices'
      BY <2>1 DEF Life, PortsAgree, FreshDevices, devVars
    <2>3. PluggedHasPort'
      BY <2>1 DEF Life, PluggedHasPort, devVars
    <2>4. CurrentDevice' /\ RunnerIsSent'
      BY <2>1 DEF CurrentDevice, RunnerIsSent
    <2>5. DeviceLife'
      BY <2>1 DEF Life, DeviceLife, devVars
    <2> QED BY <2>2, <2>3, <2>4, <2>5 DEF Life
  <1> QED
    BY <1>1, <1>2, <1>3, LifeAttach, LifeDetach, LifeThreads DEF Next, QueueNext

-----------------------------------------------------------------------------
(* Stopped attach requests.  A request object of reattach is sent at most    *)
(* once at a time, so that WdfRequestCancelSentRequest, which takes it out   *)
(* of the queue, leaves no other copy of it there.                           *)

\* What waits in the queue was sent, was not cancelled, and is not being carried out.
QueuedIsSent ==
    \A i \in 1..Len(queue) : queue[i].req # None =>
        /\ attach[queue[i].req] = "sent"
        /\ queue[i].req \notin cancelled
        /\ cur.req # queue[i].req

QueuedOnce ==
    \A i, j \in 1..Len(queue) : i # j /\ queue[i].req # None => queue[i].req # queue[j].req

CurrentIsSent == cur.req # None => attach[cur.req] = "sent"

\* A request that is not created yet is nowhere.
FreshRequests ==
    /\ \A r \in Reqs : r > requested => attach[r] = "none"
    /\ \A r \in reattach_req \cup stopping \cup cancelled : r <= requested

Queued == QueuedIsSent /\ QueuedOnce /\ CurrentIsSent

\* Entries of the queue name an attach request or none.
LEMMA QueueNames ==
  ASSUME TypeOK
  PROVE  \A i \in 1..Len(queue) : queue[i].req \in Reqs \cup {None}
  <1>1. queue \in Seq(QueueRequests)
    BY DEF TypeOK, WorkTypes
  <1>2. \A x \in QueueRequests : x.req \in Reqs \cup {None}
    BY DEF QueueRequests
  <1>3. \A i \in 1..Len(queue) : queue[i] \in QueueRequests
    BY <1>1, ElementOfSeq
  <1> QED BY <1>2, <1>3

\* The queue stays, requests that are not in it may change.
LEMMA QueueStays ==
  ASSUME TypeOK, Queued, queue' = queue, cancelled' = cancelled, cur'.req \in {cur.req, None},
         \A r \in Reqs : attach[r] = "sent" /\ (r # cur.req \/ cur'.req = cur.req)
                            => attach'[r] = "sent"
  PROVE  Queued'
  <1>1. \A i \in 1..Len(queue) : queue[i].req \in Reqs \cup {None}
    BY QueueNames
  <1>2. cur.req \in Reqs \cup {None}
    BY DEF TypeOK, WorkTypes, QueueRequests
  <1>3. QueuedIsSent'
    BY <1>1 DEF Queued, QueuedIsSent
  <1>4. QueuedOnce'
    BY DEF Queued, QueuedOnce
  <1>5. CurrentIsSent'
    BY <1>2 DEF Queued, CurrentIsSent
  <1> QED BY <1>3, <1>4, <1>5 DEF Queued

\* A request is sent: one that is no attach request, or one that is not sent now.
LEMMA QueueGrows ==
  ASSUME TypeOK, Queued, NEW x \in QueueRequests, queue' = Append(queue, x),
         cancelled' = cancelled, cur' = cur,
         \/ x.req = None /\ attach' = attach
         \/ /\ x.req \in Reqs \ cancelled /\ attach[x.req] # "sent"
            /\ attach' = [attach EXCEPT ![x.req] = "sent"]
  PROVE  Queued'
  <1>1. queue \in Seq(QueueRequests)
    BY DEF TypeOK, WorkTypes
  <1>2. /\ Len(queue) \in Nat /\ Len(queue') = Len(queue) + 1
        /\ queue'[Len(queue) + 1] = x
        /\ \A i \in 1..Len(queue) : queue'[i] = queue[i]
    BY <1>1
  <1>3. \A i \in 1..Len(queue') : i \in 1..Len(queue) \/ i = Len(queue) + 1
    BY <1>2
  <1>4. \A i \in 1..Len(queue) : queue[i].req \in Reqs \cup {None}
    BY QueueNames
  <1>5. cur.req \in Reqs \cup {None} /\ attach \in [Reqs -> {"none", "timer", "sent", "completed", "deleted"}]
    BY DEF TypeOK, WorkTypes, AttachTypes, QueueRequests
  <1>6. ASSUME x.req # None
        PROVE  /\ \A i \in 1..Len(queue) : queue[i].req # x.req
               /\ cur.req # x.req /\ attach'[x.req] = "sent" /\ x.req \notin cancelled
    BY <1>4, <1>5, <1>6 DEF Queued, QueuedIsSent, CurrentIsSent, None
  <1>7. \A r \in Reqs : attach[r] = "sent" => attach'[r] = "sent"
    BY <1>5
  <1>8. QueuedIsSent'
    <2> SUFFICES ASSUME NEW i \in 1..Len(queue'), queue'[i].req # None
                 PROVE  /\ attach'[queue'[i].req] = "sent"
                        /\ queue'[i].req \notin cancelled'
                        /\ cur'.req # queue'[i].req
      BY DEF QueuedIsSent
    <2>1. CASE i \in 1..Len(queue)
      BY <2>1, <1>2, <1>4, <1>7 DEF Queued, QueuedIsSent
    <2>2. CASE i = Len(queue) + 1
      BY <2>2, <1>2, <1>6
    <2> QED BY <2>1, <2>2, <1>3
  <1>9. QueuedOnce'
    <2> SUFFICES ASSUME NEW i \in 1..Len(queue'), NEW j \in 1..Len(queue'), i # j,
                        queue'[i].req # None
                 PROVE  queue'[i].req # queue'[j].req
      BY DEF QueuedOnce
    <2>1. CASE i \in 1..Len(queue) /\ j \in 1..Len(queue)
      BY <2>1, <1>2 DEF Queued, QueuedOnce
    <2>2. CASE i = Len(queue) + 1 /\ j \in 1..Len(queue)
      BY <2>2, <1>2, <1>6
    <2>3. CASE i \in 1..Len(queue) /\ j = Len(queue) + 1
      BY <2>3, <1>2, <1>6
    <2> QED BY <2>1, <2>2, <2>3, <1>3
  <1>10. CurrentIsSent'
    BY <1>5, <1>7 DEF Queued, CurrentIsSent
  <1> QED BY <1>8, <1>9, <1>10 DEF Queued

\* The queue delivers its first request, which is nowhere else.
LEMMA QueueDelivers ==
  ASSUME TypeOK, Queued, queue # <<>>, cur' = Head(queue), queue' = Tail(queue),
         cancelled' = cancelled, attach' = attach
  PROVE  Queued' /\ (cur'.req # None => cur'.req \notin cancelled)
  <1>1. queue \in Seq(QueueRequests)
    BY DEF TypeOK, WorkTypes
  <1>2. /\ Len(queue) \in Nat /\ Len(queue) > 0 /\ Len(queue') = Len(queue) - 1
        /\ cur' = queue[1]
        /\ \A i \in 1..Len(queue') : queue'[i] = queue[i + 1]
    BY <1>1
  <1>3. 1 \in 1..Len(queue)
        /\ \A i \in 1..Len(queue') : i + 1 \in 1..Len(queue) /\ i + 1 # 1
    BY <1>2
  <1>4. CurrentIsSent' /\ (cur'.req # None => cur'.req \notin cancelled)
    BY <1>2, <1>3 DEF Queued, QueuedIsSent, CurrentIsSent
  <1>5. QueuedIsSent'
    <2> SUFFICES ASSUME NEW i \in 1..Len(queue'), queue'[i].req # None
                 PROVE  /\ attach'[queue'[i].req] = "sent"
                        /\ queue'[i].req \notin cancelled'
                        /\ cur'.req # queue'[i].req
      BY DEF QueuedIsSent
    <2>1. queue'[i] = queue[i + 1] /\ i + 1 \in 1..Len(queue) /\ i + 1 # 1
      BY <1>2, <1>3
    <2>2. queue[i + 1].req # queue[1].req
      BY <2>1, <1>3 DEF Queued, QueuedOnce
    <2> QED BY <2>1, <2>2, <1>2 DEF Queued, QueuedIsSent
  <1>6. QueuedOnce'
    <2> SUFFICES ASSUME NEW i \in 1..Len(queue'), NEW j \in 1..Len(queue'), i # j,
                        queue'[i].req # None
                 PROVE  queue'[i].req # queue'[j].req
      BY DEF QueuedOnce
    <2>1. /\ queue'[i] = queue[i + 1] /\ i + 1 \in 1..Len(queue)
          /\ queue'[j] = queue[j + 1] /\ j + 1 \in 1..Len(queue)
          /\ i + 1 # j + 1
      BY <1>2, <1>3
    <2> QED BY <2>1 DEF Queued, QueuedOnce
  <1> QED BY <1>4, <1>5, <1>6 DEF Queued

\* Every entry of a queue without its entry i is another entry, each at its own place.
LEMMA WithoutEntries ==
  ASSUME NEW S, NEW s \in Seq(S), NEW i \in 1..Len(s)
  PROVE  LET t == SubSeq(s, 1, i - 1) \o SubSeq(s, i + 1, Len(s))
             at(j) == IF j < i THEN j ELSE j + 1
         IN  \A j \in 1..Len(t) : t[j] = s[at(j)] /\ at(j) \in 1..Len(s) /\ at(j) # i
  <1> DEFINE a == SubSeq(s, 1, i - 1)
             b == SubSeq(s, i + 1, Len(s))
  <1>1. Len(s) \in Nat /\ \A j \in 1..Len(s) : s[j] \in S
    OBVIOUS
  <1>2. /\ a \in Seq(S) /\ Len(a) = i - 1
        /\ \A j \in 1..(i - 1) : a[j] = s[j]
    BY <1>1, SubSeqProperties
  <1>3. /\ b \in Seq(S) /\ Len(b) = Len(s) - i
        /\ \A j \in 1..(Len(s) - i) : b[j] = s[i + j]
    BY <1>1, SubSeqProperties
  <1> HIDE DEF a, b
  <1>4. /\ Len(a \o b) = Len(s) - 1
        /\ \A j \in 1..(Len(s) - 1) : (a \o b)[j] = IF j <= i - 1 THEN a[j] ELSE b[j - (i - 1)]
    <2>1. /\ Len(a \o b) = Len(a) + Len(b)
          /\ \A j \in 1..Len(a) + Len(b) : (a \o b)[j] = IF j <= Len(a) THEN a[j] ELSE b[j - Len(a)]
      BY <1>2, <1>3, ConcatProperties
    <2>2. Len(a) + Len(b) = Len(s) - 1
      BY <1>1, <1>2, <1>3
    <2> QED BY <2>1, <2>2, <1>2
  <1> DEFINE at(j) == IF j < i THEN j ELSE j + 1
  <1>5. ASSUME NEW j \in 1..Len(a \o b)
        PROVE  (a \o b)[j] = s[at(j)] /\ at(j) \in 1..Len(s) /\ at(j) # i
    <2>1. j \in 1..(Len(s) - 1)
      BY <1>4
    <2>2. at(j) \in 1..Len(s) /\ at(j) # i
      BY <2>1, <1>1
    <2>3. CASE j < i
      <3>1. j <= i - 1 /\ j \in 1..(i - 1)
        BY <2>1, <2>3, <1>1
      <3>2. (a \o b)[j] = a[j] /\ a[j] = s[j]
        BY <3>1, <2>1, <1>2, <1>4
      <3> QED BY <3>2, <2>2, <2>3
    <2>4. CASE ~(j < i)
      <3>1. ~(j <= i - 1) /\ j - (i - 1) \in 1..(Len(s) - i) /\ i + (j - (i - 1)) = j + 1
        BY <2>1, <2>4, <1>1
      <3>2. (a \o b)[j] = b[j - (i - 1)]
        BY <3>1, <2>1, <1>4
      <3>3. b[j - (i - 1)] = s[j + 1]
        BY <3>1, <1>3
      <3> QED BY <3>2, <3>3, <2>2, <2>4
    <2> QED BY <2>3, <2>4
  <1> QED BY <1>5 DEF a, b

\* A cancelled request is not in the queue any more, since it was there once.
LEMMA QueueWithdraws ==
  ASSUME TypeOK, Queued, NEW r \in Reqs, cancel_sent_request(r)
  PROVE  Queued'
  <1>1. /\ queue \in Seq(QueueRequests) /\ cur' = cur /\ cancelled' = cancelled \cup {r}
        /\ attach \in [Reqs -> {"none", "timer", "sent", "completed", "deleted"}]
        /\ cur.req \in Reqs \cup {None}
    BY DEF TypeOK, WorkTypes, AttachTypes, cancel_sent_request, workVars, QueueRequests
  <1>2. \A j \in 1..Len(queue) : queue[j].req \in Reqs \cup {None}
    BY QueueNames
  <1>3. CASE /\ \A i \in 1..Len(queue) : queue[i].req # r
             /\ UNCHANGED <<queue, attach, attachStatus>>
    BY <1>1, <1>3 DEF Queued, QueuedIsSent, QueuedOnce, CurrentIsSent
  <1>4. ASSUME NEW i \in 1..Len(queue), queue[i].req = r,
               queue' = SubSeq(queue, 1, i - 1) \o SubSeq(queue, i + 1, Len(queue)),
               attach' = [attach EXCEPT ![r] = "completed"]
        PROVE  Queued'
    <2> DEFINE at(j) == IF j < i THEN j ELSE j + 1
    <2>1. \A j \in 1..Len(queue') : queue'[j] = queue[at(j)] /\ at(j) \in 1..Len(queue) /\ at(j) # i
      <3> DEFINE t == SubSeq(queue, 1, i - 1) \o SubSeq(queue, i + 1, Len(queue))
      <3>1. \A j \in 1..Len(t) : t[j] = queue[at(j)] /\ at(j) \in 1..Len(queue) /\ at(j) # i
        BY <1>1, WithoutEntries, Zenon
      <3>2. queue' = t
        BY <1>4
      <3> HIDE DEF t, at
      <3> QED BY <3>1, <3>2
    <2>2. r # None
      BY DEF Reqs, None
    <2>3. \A j \in 1..Len(queue) : j # i => queue[j].req # r
      BY <1>4, <2>2 DEF Queued, QueuedOnce
    <2>4. cur.req # r
      BY <1>4, <2>2 DEF Queued, QueuedIsSent
    <2>5. \A q \in Reqs : q # r => attach'[q] = attach[q]
      BY <1>1, <1>4
    <2>6. \A j \in 1..Len(queue') : j \in Int
      OBVIOUS
    <2>7. \A j, k \in 1..Len(queue') : j # k => at(j) # at(k)
      BY <2>6, <1>1
    <2> HIDE DEF at
    <2>8. QueuedIsSent'
      BY <2>1, <2>3, <2>5, <1>1, <1>2 DEF Queued, QueuedIsSent
    <2>9. QueuedOnce'
      <3> SUFFICES ASSUME NEW j \in 1..Len(queue'), NEW k \in 1..Len(queue'), j # k,
                          queue'[j].req # None
                   PROVE  queue'[j].req # queue'[k].req
        BY DEF QueuedOnce
      <3>1. /\ queue'[j] = queue[at(j)] /\ at(j) \in 1..Len(queue)
            /\ queue'[k] = queue[at(k)] /\ at(k) \in 1..Len(queue)
        BY <2>1
      <3>2. at(j) # at(k)
        BY <2>7
      <3> QED BY <3>1, <3>2 DEF Queued, QueuedOnce
    <2>10. CurrentIsSent'
      BY <2>4, <2>5, <1>1 DEF Queued, CurrentIsSent
    <2> QED BY <2>8, <2>9, <2>10 DEF Queued
  <1> QED BY <1>3, <1>4 DEF cancel_sent_request

\* What no step of the attach, the detach or a receive thread touches.
LEMMA WorkLeavesRequests ==
  ASSUME \/ AttachNext \/ get_device \/ detach \/ reclaim_roothub_port
         \/ \E ok \in BOOLEAN : plugout_and_delete(ok)
         \/ detach_check
         \/ \E d \in Devs : recv_loop_ends(d) \/ recv_thread_exits(d) \/ device_cleanup(d)
         \/ UNCHANGED vars
  PROVE  UNCHANGED <<queue, cur, attachVars, stopVars>>
  BY DEF AttachNext, vars, workVars, plugin_hardware_failed, on_connect,
     import_remote_device_failed, device_create, claim_roothub_port, plugin, get_device, detach,
     reclaim_roothub_port, plugout_and_delete, detach_check, recv_loop_ends, recv_thread_exits,
     device_cleanup

\* A request that is created now is in no set, and was in no state.
LEMMA FreshNext == TypeOK /\ Queued /\ FreshRequests /\ [Next]_vars => FreshRequests'
  <1> SUFFICES ASSUME TypeOK, Queued, FreshRequests, [Next]_vars PROVE FreshRequests'
    OBVIOUS
  <1> USE DEF FreshRequests
  <1>t. /\ attach \in [Reqs -> {"none", "timer", "sent", "completed", "deleted"}]
        /\ requested \in Nat /\ \A r \in Reqs : r \in Nat
        /\ reattach_req \subseteq Reqs /\ stopping \subseteq Reqs /\ cancelled \subseteq Reqs
    BY ControllerAssumption DEF TypeOK, AttachTypes, Reqs
  <1>u. ASSUME UNCHANGED <<attach, requested>>,
               reattach_req' \cup stopping' \cup cancelled' \subseteq
                   reattach_req \cup stopping \cup cancelled
        PROVE  FreshRequests'
    BY <1>u
  <1>s. ASSUME NEW L, stop_attach_attempts(L)
        PROVE  reattach_req' \cup stopping' \cup cancelled' \subseteq
                   reattach_req \cup stopping \cup cancelled
    BY <1>s DEF stop_attach_attempts
  <1>n. ASSUME NEW st, requested' = requested + 1,
               attach' = [attach EXCEPT ![requested + 1] = st],
               reattach_req' = reattach_req \cup {requested + 1},
               UNCHANGED <<stopping, cancelled>>
        PROVE  FreshRequests'
    BY <1>n, <1>t
  <1>d. ASSUME NEW r \in Reqs, attach[r] # "none", NEW st, UNCHANGED requested,
               attach' = [attach EXCEPT ![r] = st],
               reattach_req' \cup stopping' \cup cancelled' \subseteq
                   reattach_req \cup stopping \cup cancelled
        PROVE  FreshRequests'
    <2>1. ~(r > requested)
      BY <1>d
    <2> QED BY <1>d, <1>t, <2>1
  <1>1. CASE \/ AttachNext \/ get_device \/ detach \/ reclaim_roothub_port
             \/ \E ok \in BOOLEAN : plugout_and_delete(ok)
             \/ detach_check
             \/ \E d \in Devs : recv_loop_ends(d) \/ recv_thread_exits(d) \/ device_cleanup(d)
             \/ UNCHANGED vars
    BY <1>1, <1>u, WorkLeavesRequests DEF attachVars, stopVars
  <1>2. CASE DeviceIoControl \/ QueueNext \/ RemoveNext \/ stop_attach_attempts_ioctl
    <2>1. UNCHANGED attachVars
      BY <1>2 DEF DeviceIoControl, QueueNext, RemoveNext, stop_attach_attempts_ioctl,
         device_control, vhci_query_remove
    <2>2. UNCHANGED stopVars \/ \E L : stop_attach_attempts(L)
      BY <1>2 DEF DeviceIoControl, QueueNext, RemoveNext, stop_attach_attempts_ioctl,
         device_control, vhci_query_remove
    <2> QED BY <2>1, <2>2, <1>u, <1>s DEF attachVars, stopVars
  <1>3. ASSUME NEW d \in Devs, NEW ok \in BOOLEAN,
               send_forced_closed(d, ok) \/ recv_thread_function(d, ok) \/ recv_thread_late(d)
        PROVE  FreshRequests'
    BY <1>3, <1>u DEF send_forced_closed, recv_thread_function, recv_thread_late, attachVars, stopVars
  <1>4. ASSUME NEW l \in Locs, plugin_persistent_devices(l) PROVE FreshRequests'
    BY <1>4, <1>u, <1>n DEF plugin_persistent_devices
  <1>5. ASSUME NEW r \in Reqs, NEW ok \in BOOLEAN, on_attach_timer(r, ok) PROVE FreshRequests'
    BY <1>5, <1>d DEF on_attach_timer, delete_request
  <1>6. ASSUME NEW r \in Reqs, NEW ok \in BOOLEAN, on_plugin_hardware(r, ok)
        PROVE  FreshRequests'
    BY <1>6, <1>d DEF on_plugin_hardware, delete_request
  <1>7. ASSUME NEW t \in tails, complete_stop(t) \/ complete_check(t) PROVE FreshRequests'
    BY <1>7, <1>u, <1>s DEF complete_stop, complete_check, attachVars, stopVars
  <1>8. ASSUME NEW l, start_delayed(l) \/ start_failed PROVE FreshRequests'
    BY <1>8, <1>u, <1>n DEF start_delayed, start_failed, attachVars, stopVars
  <1>9. ASSUME NEW t \in tails, complete_start(t) PROVE FreshRequests'
    BY <1>9, <1>8 DEF complete_start
  <1>10. CASE detach_start
    BY <1>10, <1>8 DEF detach_start
  <1>11. ASSUME NEW r \in Reqs, cancel_sent_request(r) PROVE FreshRequests'
    <2>1. /\ r <= requested /\ UNCHANGED <<requested, reattach_req>>
          /\ stopping' \subseteq stopping /\ cancelled' = cancelled \cup {r}
      BY <1>11 DEF cancel_sent_request
    <2>2. \A q \in Reqs : q # r => attach'[q] = attach[q]
      BY <1>11, <1>t DEF cancel_sent_request
    <2> QED BY <2>1, <2>2, <1>t
  <1>12. CASE complete
    <2>1. cur.req \in Reqs \cup {None} /\ UNCHANGED <<requested, stopVars>>
      BY <1>12 DEF complete, TypeOK, WorkTypes, QueueRequests
    <2>2. CASE cur.req = None
      BY <1>12, <2>1, <2>2, <1>u DEF complete, stopVars
    <2>3. CASE cur.req # None
      <3>1. cur.req \in Reqs /\ attach[cur.req] # "none"
        BY <2>1, <2>3 DEF Queued, CurrentIsSent
      <3>2. attach' = [attach EXCEPT ![cur.req] = "completed"]
        BY <1>12, <2>3 DEF complete
      <3> QED BY <3>1, <3>2, <2>1, <1>d DEF stopVars
    <2> QED BY <2>2, <2>3
  <1> HIDE DEF FreshRequests
  <1>13. CASE ApplicationNext \/ RequestNext
    BY <1>13, <1>2, <1>4, <1>5, <1>6, <1>11 DEF ApplicationNext, RequestNext
  <1>14. CASE DetachNext
    BY <1>14, <1>1, <1>10 DEF DetachNext
  <1>15. CASE ThreadNext
    BY <1>15, <1>1, <1>3 DEF ThreadNext
  <1>16. CASE TailNext
    BY <1>16, <1>7, <1>9 DEF TailNext
  <1> QED BY <1>1, <1>2, <1>12, <1>13, <1>14, <1>15, <1>16 DEF Next

\* Each step keeps a request in the queue at most once.
LEMMA QueuedNext == TypeOK /\ Queued /\ FreshRequests /\ [Next]_vars => Queued'
  <1> SUFFICES ASSUME TypeOK, Queued, FreshRequests, [Next]_vars PROVE Queued'
    OBVIOUS
  <1>t. /\ attach \in [Reqs -> {"none", "timer", "sent", "completed", "deleted"}]
        /\ requested \in Nat /\ \A r \in Reqs : r \in Nat
        /\ cur.req \in Reqs \cup {None}
    BY ControllerAssumption DEF TypeOK, AttachTypes, WorkTypes, QueueRequests, Reqs
  <1>u. ASSUME UNCHANGED <<queue, cur, attach, cancelled>> PROVE Queued'
    BY <1>u, QueueStays
  <1>d. ASSUME NEW r, attach[r] # "sent", NEW st, attach' = [attach EXCEPT ![r] = st],
               UNCHANGED <<queue, cur, cancelled>>
        PROVE  Queued'
    <2>1. \A q \in Reqs : attach[q] = "sent" => attach'[q] = "sent"
      BY <1>d, <1>t
    <2> QED BY <1>d, <2>1, QueueStays
  <1>n. ASSUME NEW x \in QueueRequests, x.req = None, queue' = Append(queue, x),
               UNCHANGED <<cur, attach, cancelled>>
        PROVE  Queued'
    BY <1>n, QueueGrows
  <1>p. ASSUME NEW op \in PlugoutOps, NEW p \in Ports \cup {None},
               queue' = Append(queue, Plugout(op, p)), UNCHANGED <<cur, attach, cancelled>>
        PROVE  Queued'
    <2>1. Plugout(op, p) \in QueueRequests /\ Plugout(op, p).req = None
      BY PlugoutType DEF Plugout
    <2> QED BY <1>p, <2>1, <1>n
  <1>r. ASSUME NEW l \in Locs, NEW r \in Reqs, r \notin cancelled, attach[r] # "sent",
               queue' = Append(queue, Plugin("once", l, r, 0)),
               attach' = [attach EXCEPT ![r] = "sent"], UNCHANGED <<cur, cancelled>>
        PROVE  Queued'
    <2>1. Plugin("once", l, r, 0) \in QueueRequests /\ Plugin("once", l, r, 0).req = r
      BY PluginType, ControllerAssumption DEF Plugin, PluginOps
    <2> QED BY <1>r, <2>1, QueueGrows
  <1>1. CASE \/ AttachNext \/ get_device \/ detach \/ reclaim_roothub_port
             \/ \E ok \in BOOLEAN : plugout_and_delete(ok)
             \/ detach_check
             \/ \E d \in Devs : recv_loop_ends(d) \/ recv_thread_exits(d) \/ device_cleanup(d)
             \/ UNCHANGED vars
    BY <1>1, <1>u, WorkLeavesRequests DEF attachVars, stopVars
  <1>2. CASE DeviceIoControl
    <2>1. UNCHANGED <<cur, attach, cancelled>> /\ ioctls' \in 0..MaxIoctls
      BY <1>2, ControllerAssumption
      DEF DeviceIoControl, TypeOK, WorkTypes, workVars, attachVars, stopVars
    <2>2. ASSUME NEW op \in PluginOps, NEW l \in Locs,
                 queue' = Append(queue, Plugin(op, l, None, ioctls'))
          PROVE  Queued'
      <3>1. /\ Plugin(op, l, None, ioctls') \in QueueRequests
            /\ Plugin(op, l, None, ioctls').req = None
        BY <2>1, PluginType DEF Plugin
      <3> QED BY <3>1, <2>1, <2>2, <1>n
    <2>3. "plugout" \in PlugoutOps /\ "closeonly" \in PlugoutOps
      BY DEF PlugoutOps
    <2> QED BY <1>2, <2>1, <2>2, <2>3, <1>p DEF DeviceIoControl
  <1>3. CASE stop_attach_attempts_ioctl
    BY <1>3, <1>u DEF stop_attach_attempts_ioctl, stop_attach_attempts, workVars, attachVars
  <1>4. ASSUME NEW t \in Devs \cup {System}, device_control(t) PROVE Queued'
    BY <1>4, QueueDelivers DEF device_control, attachVars, stopVars
  <1>5. ASSUME NEW ok \in BOOLEAN, vhci_query_remove(ok) PROVE Queued'
    <2>1. UNCHANGED <<cur, attach, cancelled>>
      BY <1>5 DEF vhci_query_remove, stop_attach_attempts, workVars, attachVars, stopVars
    <2>2. queue' = queue \/ queue' = Append(queue, Plugout("plugout", None))
      BY <1>5 DEF vhci_query_remove
    <2> QED BY <2>1, <2>2, <1>u, <1>p DEF PlugoutOps
  <1>6. ASSUME NEW d \in Devs, NEW ok \in BOOLEAN,
               send_forced_closed(d, ok) \/ recv_thread_function(d, ok) \/ recv_thread_late(d)
        PROVE  Queued'
    <2>1. UNCHANGED <<cur, attach, cancelled>>
      BY <1>6 DEF send_forced_closed, recv_thread_function, recv_thread_late, workVars, attachVars, stopVars
    <2>2. queue' = queue \/ \E e \in Devs : queue' = Append(queue, Plugout("reattach", port[e]))
      <3>1. 1..created \subseteq Devs
        BY ControllerAssumption DEF TypeOK, DeviceTypes, Devs
      <3> QED BY <1>6, <3>1 DEF send_forced_closed, recv_thread_function, recv_thread_late,
              async_detach_and_delete
    <2>3. \A e \in Devs : port[e] \in Ports \cup {None}
      BY DEF TypeOK, DeviceTypes
    <2> QED BY <2>1, <2>2, <2>3, <1>u, <1>p DEF PlugoutOps
  <1>7. ASSUME NEW l \in Locs, plugin_persistent_devices(l) PROVE Queued'
    <2> DEFINE r == requested + 1
    <2>1. UNCHANGED <<cur, cancelled>>
      BY <1>7 DEF plugin_persistent_devices, workVars
    <2>2. CASE UNCHANGED <<requested, attach, attachLoc, reattach_req, queue>>
      BY <2>1, <2>2, <1>u
    <2>3. CASE /\ requested < MaxReqs /\ attach' = [attach EXCEPT ![r] = "sent"]
               /\ queue' = Append(queue, Plugin("once", l, r, 0))
      <3>1. r \in Reqs /\ r > requested /\ ~(r <= requested)
        BY <2>3, <1>t, ControllerAssumption DEF Reqs
      <3>2. attach[r] # "sent" /\ r \notin cancelled
        BY <3>1 DEF FreshRequests
      <3> HIDE DEF r
      <3> QED BY <3>1, <3>2, <2>1, <2>3, <1>r
    <2> QED BY <1>7, <2>2, <2>3 DEF plugin_persistent_devices
  <1>8. ASSUME NEW r \in Reqs, NEW ok \in BOOLEAN, on_attach_timer(r, ok) PROVE Queued'
    <2>1. attach[r] # "sent" /\ UNCHANGED <<cur, cancelled>> /\ attachLoc[r] \in Locs
      BY <1>8 DEF on_attach_timer, workVars, TypeOK, AttachTypes
    <2>2. CASE removing \/ r \in cancelled \/ ~ok
      BY <1>8, <2>1, <2>2, <1>d DEF on_attach_timer, delete_request
    <2>3. CASE ~(removing \/ r \in cancelled \/ ~ok)
      BY <1>8, <2>1, <2>3, <1>r DEF on_attach_timer
    <2> QED BY <2>2, <2>3
  <1>9. ASSUME NEW r \in Reqs, NEW ok \in BOOLEAN, on_plugin_hardware(r, ok) PROVE Queued'
    BY <1>9, <1>d DEF on_plugin_hardware, delete_request, workVars
  <1>10. ASSUME NEW t \in tails, complete_stop(t) \/ complete_check(t) PROVE Queued'
    BY <1>10, <1>u DEF complete_stop, complete_check, stop_attach_attempts, attachVars,
                       stopVars, workVars
  <1>11. ASSUME NEW l, start_delayed(l) \/ start_failed, UNCHANGED <<queue, cur>> PROVE Queued'
    <2>1. CASE start_failed
      BY <1>11, <2>1, <1>u DEF start_failed, attachVars, stopVars
    <2>2. CASE start_delayed(l)
      <3>1. requested + 1 \in Reqs /\ requested + 1 > requested
        BY <2>2, <1>t, ControllerAssumption DEF start_delayed, Reqs
      <3>2. attach[requested + 1] # "sent"
        BY <3>1 DEF FreshRequests
      <3> QED BY <3>2, <2>2, <1>11, <1>d DEF start_delayed
    <2> QED BY <1>11, <2>1, <2>2
  <1>12. ASSUME NEW t \in tails, complete_start(t) PROVE Queued'
    BY <1>12, <1>11 DEF complete_start, workVars
  <1>13. CASE detach_start
    BY <1>13, <1>11 DEF detach_start
  <1>14. CASE complete
    <2>1. UNCHANGED <<queue, cancelled>> /\ cur'.req = None
      BY <1>14 DEF complete, stopVars, Idle, Plugout
    <2>2. \A r \in Reqs : attach[r] = "sent" /\ r # cur.req => attach'[r] = "sent"
      BY <1>14, <1>t DEF complete
    <2>3. cur'.req = cur.req => \A r \in Reqs : r # cur.req
      BY <2>1 DEF Reqs, None
    <2> QED BY <2>1, <2>2, <2>3, QueueStays
  <1>15. CASE ApplicationNext
    BY <1>15, <1>2, <1>3 DEF ApplicationNext
  <1>16. CASE RequestNext
    BY <1>16, <1>7, <1>8, <1>9, QueueWithdraws DEF RequestNext
  <1>17. CASE DetachNext
    BY <1>17, <1>1, <1>13 DEF DetachNext
  <1>18. CASE ThreadNext
    BY <1>18, <1>1, <1>6 DEF ThreadNext
  <1>19. CASE TailNext
    BY <1>19, <1>10, <1>12 DEF TailNext
  <1> QED BY <1>1, <1>4, <1>5, <1>14, <1>15, <1>16, <1>17, <1>18, <1>19
          DEF Next, QueueNext, RemoveNext

-----------------------------------------------------------------------------
(* The removal of the controller.                                            *)

\* The entries of a queue without its entry i, seen from the queue: each but that one
\* is still there.
LEMMA EntriesStay ==
  ASSUME NEW S, NEW s \in Seq(S), NEW i \in 1..Len(s), NEW k \in 1..Len(s), k # i
  PROVE  LET t == SubSeq(s, 1, i - 1) \o SubSeq(s, i + 1, Len(s))
         IN  \E j \in 1..Len(t) : t[j] = s[k]
  <1> DEFINE a == SubSeq(s, 1, i - 1)
             b == SubSeq(s, i + 1, Len(s))
  <1>1. Len(s) \in Nat /\ \A j \in 1..Len(s) : s[j] \in S
    OBVIOUS
  <1>2. /\ a \in Seq(S) /\ Len(a) = i - 1
        /\ \A j \in 1..(i - 1) : a[j] = s[j]
    BY <1>1, SubSeqProperties
  <1>3. /\ b \in Seq(S) /\ Len(b) = Len(s) - i
        /\ \A j \in 1..(Len(s) - i) : b[j] = s[i + j]
    BY <1>1, SubSeqProperties
  <1> HIDE DEF a, b
  <1>4. /\ Len(a \o b) = Len(a) + Len(b)
        /\ \A j \in 1..Len(a) + Len(b) : (a \o b)[j] = IF j <= Len(a) THEN a[j] ELSE b[j - Len(a)]
    BY <1>2, <1>3, ConcatProperties
  <1>5. CASE k < i
    <2>1. k \in 1..(i - 1) /\ k \in 1..Len(a \o b) /\ k <= Len(a)
      BY <1>1, <1>2, <1>3, <1>4, <1>5
    <2>2. (a \o b)[k] = a[k] /\ a[k] = s[k]
      BY <2>1, <1>2, <1>4
    <2> QED BY <2>1, <2>2 DEF a, b
  <1>6. CASE k > i
    <2> DEFINE j == k - 1
    <2>1. /\ j \in 1..Len(a \o b) /\ ~(j <= Len(a)) /\ j - Len(a) = k - i
          /\ k - i \in 1..(Len(s) - i) /\ i + (k - i) = k
      BY <1>1, <1>2, <1>3, <1>4, <1>6
    <2>2. (a \o b)[j] = b[k - i] /\ b[k - i] = s[k]
      BY <2>1, <1>3, <1>4
    <2>3. \E n \in 1..Len(a \o b) : (a \o b)[n] = s[k]
      BY <2>1, <2>2
    <2> QED BY <2>3 DEF a, b
  <1>7. k < i \/ k > i
    BY <1>1
  <1> QED BY <1>5, <1>6, <1>7, Zenon

\* What DetachAll asks for.
LEMMA DetachAllIs ==
  /\ DetachAll.op = "plugout" /\ DetachAll.port = None /\ DetachAll.req = None
  /\ DetachAll.op \notin PluginOps /\ DetachAll.op \in PlugoutOps
  BY DEF DetachAll, Plugout, PluginOps, PlugoutOps

\* A request that is put in the queue leaves the others there.
LEMMA AppendKeeps ==
  ASSUME TypeOK, NEW x, queue' = Append(queue, x)
  PROVE  (DetachAllQueued \/ x = DetachAll) => DetachAllQueued'
  <1>1. queue \in Seq(QueueRequests)
    BY DEF TypeOK, WorkTypes
  <1>2. /\ Len(queue) \in Nat /\ Len(queue') = Len(queue) + 1
        /\ queue'[Len(queue) + 1] = x
        /\ \A i \in 1..Len(queue) : queue'[i] = queue[i]
    BY <1>1
  <1>3. /\ Len(queue) + 1 \in 1..Len(queue')
        /\ \A i \in 1..Len(queue) : i \in 1..Len(queue')
    BY <1>2
  <1> QED BY <1>2, <1>3 DEF DetachAllQueued, DetachAll, Plugout

\* Nobody takes the request of vhci_query_remove out of the queue but the queue itself,
\* which has detach_all_devices start at the first port.
LEMMA DetachAllStays ==
  ASSUME TypeOK, [Next]_vars, DetachAllQueued
  PROVE  DetachAllQueued' \/ Sweeping'
  <1>q. queue \in Seq(QueueRequests)
    BY DEF TypeOK, WorkTypes
  <1>1. ASSUME UNCHANGED queue PROVE DetachAllQueued'
    BY <1>1 DEF DetachAllQueued, DetachAll, Plugout
  <1>2. CASE ApplicationNext
    BY <1>2, <1>1, AppendKeeps DEF ApplicationNext, DeviceIoControl, stop_attach_attempts_ioctl
  <1>3. ASSUME NEW l \in Locs, plugin_persistent_devices(l) PROVE DetachAllQueued'
    BY <1>3, <1>1, AppendKeeps DEF plugin_persistent_devices
  <1>4. ASSUME NEW r \in Reqs, NEW ok \in BOOLEAN,
               on_attach_timer(r, ok) \/ on_plugin_hardware(r, ok)
        PROVE  DetachAllQueued'
    BY <1>4, <1>1, AppendKeeps DEF on_attach_timer, on_plugin_hardware
  <1>5. ASSUME NEW r \in Reqs, cancel_sent_request(r) PROVE DetachAllQueued'
    <2>1. ASSUME NEW i \in 1..Len(queue), queue[i].req = r,
                 queue' = SubSeq(queue, 1, i - 1) \o SubSeq(queue, i + 1, Len(queue))
          PROVE  DetachAllQueued'
      <3>1. PICK k \in 1..Len(queue) : queue[k] = DetachAll
        BY DEF DetachAllQueued
      <3>2. k # i
        BY <2>1, <3>1, DetachAllIs DEF Reqs, None
      <3> DEFINE t == SubSeq(queue, 1, i - 1) \o SubSeq(queue, i + 1, Len(queue))
      <3>3. \E j \in 1..Len(t) : t[j] = queue[k]
        BY <3>2, <1>q, EntriesStay, Zenon
      <3>4. queue' = t
        BY <2>1
      <3> HIDE DEF t
      <3> QED BY <3>1, <3>3, <3>4 DEF DetachAllQueued, DetachAll, Plugout
    <2> QED BY <1>5, <1>1, <2>1 DEF cancel_sent_request
  <1>6. ASSUME NEW t, device_control(t) PROVE DetachAllQueued' \/ Sweeping'
    <2>1. /\ queue # <<>> /\ cur' = Head(queue) /\ queue' = Tail(queue)
      BY <1>6 DEF device_control
    <2>2. /\ Len(queue) \in Nat /\ Len(queue) > 0 /\ Len(queue') = Len(queue) - 1
          /\ cur' = queue[1]
          /\ \A i \in 1..Len(queue') : queue'[i] = queue[i + 1]
      BY <1>q, <2>1
    <2>3. PICK k \in 1..Len(queue) : queue[k] = DetachAll
      BY DEF DetachAllQueued
    <2>4. CASE k = 1
      <3>1. cur' = DetachAll
        BY <2>2, <2>3, <2>4
      <3>2. pc' = "lookup" /\ walk' = 1
        BY <1>6, <3>1, DetachAllIs DEF device_control
      <3>3. 1 \in Ports /\ \A p \in Ports : ~(p < 1)
        BY ControllerAssumption DEF Ports
      <3> QED BY <3>1, <3>2, <3>3 DEF Sweeping, DetachAll, Plugout
    <2>5. CASE k # 1
      <3>1. k - 1 \in 1..Len(queue') /\ (k - 1) + 1 = k
        BY <2>2, <2>5
      <3>2. queue'[k - 1] = DetachAll
        BY <2>2, <2>3, <3>1
      <3> QED BY <3>1, <3>2 DEF DetachAllQueued, DetachAll, Plugout
    <2> QED BY <2>4, <2>5
  <1>7. ASSUME NEW d \in Devs, NEW ok \in BOOLEAN,
               send_forced_closed(d, ok) \/ recv_thread_function(d, ok) \/ recv_thread_late(d)
        PROVE  DetachAllQueued'
    BY <1>7, <1>1, AppendKeeps DEF send_forced_closed, recv_thread_function, recv_thread_late,
       async_detach_and_delete
  <1>8. ASSUME NEW ok \in BOOLEAN, vhci_query_remove(ok) PROVE DetachAllQueued'
    BY <1>8, <1>1, AppendKeeps DEF vhci_query_remove
  <1>9. CASE \/ AttachNext \/ DetachNext \/ complete \/ TailNext \/ UNCHANGED vars
             \/ \E d \in Devs : recv_loop_ends(d) \/ recv_thread_exits(d) \/ device_cleanup(d)
    <2>1. UNCHANGED queue
      BY <1>9 DEF AttachNext, DetachNext, complete, TailNext, recv_loop_ends,
         recv_thread_exits, device_cleanup, vars, plugin_hardware_failed, on_connect,
         import_remote_device_failed, device_create, claim_roothub_port, plugin, get_device,
         detach, reclaim_roothub_port, plugout_and_delete, detach_check, detach_start,
         complete_stop, complete_check, complete_start
    <2> QED BY <2>1, <1>1
  <1> QED
    BY <1>2, <1>3, <1>4, <1>5, <1>6, <1>7, <1>8, <1>9
    DEF Next, RequestNext, QueueNext, ThreadNext, RemoveNext

\* Steps that change neither the table nor the work on the current request.
LEMMA WorkLeftAlone ==
  ASSUME \/ ApplicationNext \/ RequestNext \/ TailNext \/ ThreadNext \/ RemoveNext
         \/ UNCHANGED vars
  PROVE  UNCHANGED <<devices, workVars>>
  BY DEF ApplicationNext, RequestNext, TailNext, ThreadNext, RemoveNext, DeviceIoControl,
     stop_attach_attempts_ioctl, plugin_persistent_devices, on_attach_timer,
     on_plugin_hardware, cancel_sent_request, complete_stop, complete_check, complete_start,
     recv_loop_ends, recv_thread_exits, device_cleanup, send_forced_closed,
     recv_thread_function, recv_thread_late, vhci_query_remove, vars, devVars, workVars

\* Once the controller goes, an attach that has not reached the server ends, so that an
\* empty table stays empty.
LEMMA EmptyStaysEmpty ==
  ASSUME IInv, [Next]_vars, removing, NothingAttached
  PROVE  NothingAttached'
  <1>1. CASE \/ ApplicationNext \/ RequestNext \/ TailNext \/ ThreadNext \/ RemoveNext
             \/ UNCHANGED vars
    BY <1>1, WorkLeftAlone DEF NothingAttached, workVars
  <1>2. ASSUME NEW t, device_control(t) PROVE NothingAttached'
    BY <1>2 DEF device_control, NothingAttached, devVars
  <1>3. CASE AttachNext
    BY <1>3 DEF AttachNext, plugin_hardware_failed, on_connect, import_remote_device_failed,
       device_create, claim_roothub_port, plugin, NothingAttached, devVars
  <1>4. CASE complete
    BY <1>4 DEF complete, NothingAttached, devVars
  <1>5. CASE reclaim_roothub_port
    BY <1>5 DEF reclaim_roothub_port, NothingAttached, IInv, TypeOK, DeviceTypes
  <1>6. CASE get_device \/ detach \/ (\E ok \in BOOLEAN : plugout_and_delete(ok))
             \/ detach_check \/ detach_start
    BY <1>6 DEF get_device, detach, plugout_and_delete, detach_check, detach_start, NextPort,
       NothingAttached, devVars
  <1> QED BY <1>1, <1>2, <1>3, <1>4, <1>5, <1>6 DEF Next, QueueNext, DetachNext

\* From one port to the next: the ports behind are free, and so is the whole table at
\* the end.
LEMMA SweepsOn ==
  ASSUME TypeOK, NextPort, cur = DetachAll, cur' = cur, devices' = devices, walk \in Ports,
         \A p \in Ports : p < walk => devices[p] = None,
         devices[walk] = None
  PROVE  Sweeping' \/ NothingAttached'
  <1>1. \A p \in Ports : p <= walk => devices[p] = None
    BY ControllerAssumption DEF Ports
  <1>2. CASE walk < DevicesCnt
    <2>1. walk' = walk + 1 /\ pc' = "lookup"
      BY <1>2, DetachAllIs DEF NextPort
    <2>2. walk' \in Ports /\ \A p \in Ports : p < walk' => p <= walk
      BY <1>2, <2>1, ControllerAssumption DEF Ports
    <2> QED BY <2>1, <2>2, <1>1 DEF Sweeping, DetachAll, Plugout
  <1>3. CASE ~(walk < DevicesCnt)
    <2>1. pc' = "complete"
      BY <1>3 DEF NextPort
    <2>2. \A p \in Ports : p <= walk
      BY <1>3, ControllerAssumption DEF Ports
    <2> QED BY <2>1, <2>2, <1>1 DEF NothingAttached
  <1> QED BY <1>2, <1>3

\* detach_all_devices goes on until the table is empty: nobody adds a device meanwhile.
LEMMA SweepingNext ==
  ASSUME IInv, [Next]_vars, Sweeping
  PROVE  Sweeping' \/ NothingAttached'
  <1>1. CASE \/ ApplicationNext \/ RequestNext \/ TailNext \/ ThreadNext \/ RemoveNext
             \/ UNCHANGED vars
    BY <1>1, WorkLeftAlone DEF Sweeping, DetachAll, Plugout, workVars
  <1>2. ASSUME NEW t, device_control(t) PROVE FALSE
    BY <1>2 DEF device_control, Sweeping
  <1>3. CASE AttachNext \/ complete \/ detach_check \/ detach_start
    BY <1>3 DEF AttachNext, plugin_hardware_failed, on_connect, import_remote_device_failed,
       device_create, claim_roothub_port, plugin, complete, detach_check, detach_start, Sweeping
  <1>4. CASE get_device
    <2>1. UNCHANGED <<devices, cur>> /\ pc = "lookup"
      BY <1>4 DEF get_device, devVars
    <2>2. CASE devices[walk] = None
      BY <1>4, <2>1, <2>2, SweepsOn DEF get_device, Sweeping, IInv
    <2>3. CASE devices[walk] # None
      BY <1>4, <2>1, <2>3 DEF get_device, Sweeping, DetachAll, Plugout
    <2> QED BY <2>2, <2>3
  <1>5. CASE detach
    <2>1. dev \notin unplugged
      BY <1>5 DEF detach, IInv, CurrentDevice
    <2> QED BY <1>5, <2>1 DEF detach, Sweeping, DetachAll, Plugout
  <1>6. CASE reclaim_roothub_port
    <2>1. /\ pc = "join" /\ pc' = "plugout" /\ UNCHANGED <<cur, walk>>
          /\ walk \in Ports /\ devices[walk] = dev
      BY <1>6 DEF reclaim_roothub_port, Sweeping
    <2>2. dev # None
      BY <2>1 DEF IInv, CurrentDevice, None
    <2>3. port[dev] = walk /\ walk # None
      BY <2>1, <2>2 DEF IInv, PortsAgree, Ports, None
    <2>4. devices' = [devices EXCEPT ![walk] = None]
      BY <1>6, <2>3 DEF reclaim_roothub_port
    <2>5. devices \in [Ports -> Devs \cup {None}]
      BY DEF IInv, TypeOK, DeviceTypes
    <2> QED BY <2>1, <2>4, <2>5 DEF Sweeping, DetachAll, Plugout
  <1>7. ASSUME NEW ok \in BOOLEAN, plugout_and_delete(ok)
        PROVE  Sweeping' \/ NothingAttached'
    <2>1. UNCHANGED <<devices, cur>> /\ pc = "plugout"
      BY <1>7 DEF plugout_and_delete
    <2>2. NextPort
      BY <1>7, DetachAllIs DEF plugout_and_delete, Sweeping
    <2> QED BY <2>1, <2>2, SweepsOn DEF Sweeping, IInv
  <1> QED BY <1>1, <1>2, <1>3, <1>4, <1>5, <1>6, <1>7 DEF Next, QueueNext, DetachNext

\* Who touches the flags of the removal.
LEMMA RemovalSteps ==
  ASSUME [Next]_vars
  PROVE  (\E ok \in BOOLEAN : vhci_query_remove(ok)) \/ UNCHANGED removeVars
  BY DEF Next, ApplicationNext, RequestNext, QueueNext, AttachNext, DetachNext, TailNext,
     ThreadNext, RemoveNext, DeviceIoControl, stop_attach_attempts_ioctl,
     plugin_persistent_devices, on_attach_timer, on_plugin_hardware, cancel_sent_request,
     device_control, plugin_hardware_failed, on_connect, import_remote_device_failed,
     device_create, claim_roothub_port, plugin, complete, complete_stop, complete_check,
     complete_start, get_device, detach, reclaim_roothub_port, plugout_and_delete,
     detach_check, detach_start, recv_loop_ends, recv_thread_exits, device_cleanup,
     send_forced_closed, recv_thread_function, recv_thread_late, vars

\* The strengthening is inductive.
LEMMA RemovalNext == IInv /\ RemovalInv /\ [Next]_vars => RemovalInv'
  <1> SUFFICES ASSUME IInv, RemovalInv, [Next]_vars PROVE RemovalInv'
    OBVIOUS
  <1>1. TypeOK
    BY DEF IInv
  <1>2. remove' # "no" => removing'
    BY RemovalSteps DEF RemovalInv, removeVars, vhci_query_remove
  <1>3. ASSUME remove = "sent" PROVE DetachAllQueued' \/ Sweeping' \/ NothingAttached'
    <2>1. removing
      BY <1>3 DEF RemovalInv
    <2> QED BY <1>1, <1>3, <2>1, DetachAllStays, SweepingNext, EmptyStaysEmpty DEF RemovalInv
  <1>4. ASSUME remove # "sent", remove' = "sent" PROVE DetachAllQueued'
    <2>1. queue' = Append(queue, DetachAll)
      BY <1>4, RemovalSteps DEF vhci_query_remove, removeVars, DetachAll
    <2> QED BY <1>1, <2>1, AppendKeeps
  <1> QED BY <1>2, <1>3, <1>4 DEF RemovalInv

-----------------------------------------------------------------------------
(* Theorems.                                                                 *)

\* The inductive invariant holds for any number of ports, devices and requests.
THEOREM Invariance == Spec => []IInv
  <1>1. Init => IInv
    BY TypeInit, LifeInit DEF IInv, Life
  <1>2. IInv /\ [Next]_vars => IInv'
    <2> SUFFICES ASSUME IInv, [Next]_vars PROVE IInv'
      OBVIOUS
    <2>1. TypeOK /\ Life /\ CurrentDevice
      BY DEF IInv, Life
    <2>2. TypeOK'
      BY <2>1, DeviceTypesNext, WorkTypesNext, AttachTypesNext DEF TypeOK
    <2>3. Life'
      BY <2>1, LifeNext
    <2> QED BY <2>2, <2>3 DEF IInv, Life
  <1> QED BY <1>1, <1>2, PTL DEF Spec

\* The assertions of get_device and reclaim_roothub_port never fail, and no device is
\* given a port of the other speed.
THEOREM PortsAgreeHolds == Spec => []PortsAgree
  <1>1. IInv => PortsAgree
    BY DEF IInv
  <1> QED BY <1>1, Invariance, PTL

\* The number of a port is free while its device is plugged only for the request that
\* detaches the device.
THEOREM PluggedHasPortHolds == Spec => []PluggedHasPort
  <1>1. IInv => PluggedHasPort
    BY DEF IInv
  <1> QED BY <1>1, Invariance, PTL

\* The assertions of device_cleanup never fail: the device is out of the table, was
\* unplugged, and its receive thread has left recv_loop.
THEOREM DeletedDevicesAreUnusedHolds == Spec => []DeletedDevicesAreUnused
  <1>1. IInv => DeletedDevicesAreUnused
    BY DEF IInv, DeviceLife, DeletedDevicesAreUnused
  <1> QED BY <1>1, Invariance, PTL

\* Once an attach request is cancelled by stop_attach_attempts, no attempt of it is
\* started: it is out of the queue for good, and its timer does not send it again.
THEOREM StoppedStaysStoppedHolds == Spec => StoppedStaysStopped
  <1>1. Init => Queued /\ FreshRequests
    <2> SUFFICES ASSUME Init PROVE Queued /\ FreshRequests
      OBVIOUS
    <2>1. Len(queue) = 0 /\ 1..0 = {} /\ cur.req = None
      BY DEF Init, Idle, Plugout
    <2>2. Queued
      BY <2>1 DEF Queued, QueuedIsSent, QueuedOnce, CurrentIsSent
    <2>3. FreshRequests
      BY DEF Init, FreshRequests
    <2> QED BY <2>2, <2>3
  <1>2. IInv => TypeOK
    BY DEF IInv
  <1>3. /\ TypeOK /\ Queued /\ FreshRequests /\ [Next]_vars
        => \A r \in cancelled : cur'.req = r => cur.req = r
    <2> SUFFICES ASSUME TypeOK, Queued, [Next]_vars, NEW r \in cancelled, cur'.req = r
                 PROVE  cur.req = r
      OBVIOUS
    <2>1. r # None
      BY DEF TypeOK, AttachTypes, Reqs, None
    <2>2. ASSUME NEW t \in Devs \cup {System}, device_control(t) PROVE FALSE
      <3>1. cur'.req \notin cancelled
        BY <2>1, <2>2, QueueDelivers DEF device_control, attachVars, stopVars
      <3> QED BY <3>1
    <2>3. CASE complete
      BY <2>1, <2>3 DEF complete, Idle, Plugout
    <2>4. CASE cur' = cur
      BY <2>4
    <2>5. QueueNext \/ complete \/ cur' = cur
      <3>1. CASE \/ AttachNext \/ get_device \/ detach \/ reclaim_roothub_port
                 \/ \E ok \in BOOLEAN : plugout_and_delete(ok)
                 \/ detach_check
                 \/ \E d \in Devs : recv_loop_ends(d) \/ recv_thread_exits(d) \/ device_cleanup(d)
                 \/ UNCHANGED vars
        BY <3>1, WorkLeavesRequests
      <3>2. CASE ApplicationNext \/ RequestNext \/ TailNext \/ RemoveNext \/ detach_start
        BY <3>2 DEF ApplicationNext, RequestNext, TailNext, RemoveNext, DeviceIoControl,
           stop_attach_attempts_ioctl, plugin_persistent_devices, on_attach_timer,
           on_plugin_hardware, cancel_sent_request, complete_stop, complete_check,
           complete_start, vhci_query_remove, detach_start, workVars
      <3>3. ASSUME NEW d \in Devs, NEW ok \in BOOLEAN,
                   send_forced_closed(d, ok) \/ recv_thread_function(d, ok) \/ recv_thread_late(d)
            PROVE  cur' = cur
        BY <3>3 DEF send_forced_closed, recv_thread_function, recv_thread_late, workVars
      <3> QED BY <3>1, <3>2, <3>3 DEF Next, DetachNext, ThreadNext
    <2> QED BY <2>2, <2>3, <2>4, <2>5 DEF QueueNext
  <1> QED
    BY <1>1, <1>2, <1>3, Invariance, QueuedNext, FreshNext, PTL DEF Spec, StoppedStaysStopped

\* vhci_query_remove leaves no device attached: when its request has been through the
\* queue, the table is empty and no attach is under way.
THEOREM RemovalDetachesAllHolds == Spec => []RemovalDetachesAll
  <1>1. Init => RemovalInv
    BY DEF Init, RemovalInv
  <1>2. RemovalInv => RemovalDetachesAll
    BY DEF RemovalInv, RemovalDetachesAll, Sweeping
  <1> QED BY <1>1, <1>2, RemovalNext, Invariance, PTL DEF Spec

\* After vhci_query_remove has set removing, an empty table stays empty.
THEOREM NothingAttachedAgainHolds == Spec => NothingAttachedAgain
  <1>1. Init => RemovalInv
    BY DEF Init, RemovalInv
  <1>2. IInv /\ RemovalInv /\ [Next]_vars => (remove # "no" /\ NothingAttached => NothingAttached')
    BY EmptyStaysEmpty DEF RemovalInv
  <1> QED BY <1>1, <1>2, RemovalNext, Invariance, PTL DEF Spec, NothingAttachedAgain
=============================================================================
