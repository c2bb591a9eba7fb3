--------------------------- MODULE HostController ---------------------------
(***************************************************************************)
(* Attach, detach and reattach of devices by the virtual host controller   *)
(* (drivers/ude).                                                          *)
(*                                                                         *)
(* Its default queue is sequential: one PLUGIN_HARDWARE or PLUGOUT_HARDWARE *)
(* is carried out at a time.  An attach goes through asynchronous WSK      *)
(* calls and a work item, claims a port of the root hub and starts the     *)
(* receive thread of the device.  Receive threads, failed sends, timers of *)
(* attach requests and the removal of the controller put requests of their *)
(* own in the queue, and what the work item does after it completed its    *)
(* request runs beside the next one.                                       *)
(***************************************************************************)
EXTENDS Naturals, Sequences, FiniteSets

CONSTANTS
    Locs,         \* host:service/busid of remote devices
    Usb3Locs,     \* those whose device is SuperSpeed or faster
    Persistent,   \* those listed in the registry, PersistentDevices
    Usb2Ports,    \* vhci_ctx::usb2_ports
    DevicesCnt,   \* vhci_ctx::devices_cnt
    ReqLimit,     \* 4 * devices_cnt
    MaxAttempts,  \* vhci_ctx::reattach_max_attempts
    MaxDevs,      \* bound: devices created
    MaxReqs,      \* bound: attach requests created
    MaxIoctls     \* bound: requests of applications

ASSUME ControllerAssumption ==
    /\ Locs # {}
    /\ Usb3Locs \subseteq Locs /\ Persistent \subseteq Locs
    /\ DevicesCnt \in Nat \ {0}
    /\ Usb2Ports \in 0..DevicesCnt
    /\ ReqLimit \in Nat
    /\ MaxAttempts \in Nat
    /\ MaxDevs \in Nat
    /\ MaxReqs \in Nat
    /\ MaxIoctls \in Nat

Ports == 1..DevicesCnt
Devs == 1..MaxDevs
Reqs == 1..MaxReqs
None == 0       \* no device, no port, no attach request; as a port: every port
System == 0     \* a thread that is not a receive thread

\* NTSTATUS of an attach, as can_reattach tells them apart.
Statuses == {"success", "busy", "fatal", "error", "cancelled"}

SomeLoc == CHOOSE l \in Locs : TRUE

\* Requests of the default queue.  req: the attach request it is sent by.  id:
\* the number of the application's request.
Plugin(op, l, r, n) ==
    [op |-> op, loc |-> l, req |-> r, id |-> n, port |-> None]
Plugout(op, p) ==
    [op |-> op, loc |-> SomeLoc, req |-> None, id |-> 0, port |-> p]
Idle == Plugout("none", None)

PluginOps == {"plugin", "once"}
PlugoutOps == {"plugout", "reattach", "closeonly"}

VARIABLES
    devices,    \* vhci_ctx::devices
    loc,        \* per device, its location
    port,       \* per device, device_ctx::port
    unplugged,  \* devices with the flag set
    recv,       \* per device, its receive thread
    ude,        \* per device, what UDE knows of it
    created,    \* number of devices created
    broken,     \* devices whose send failed with STATUS_FILE_FORCED_CLOSED
    queue,      \* the default queue
    pc, cur,    \* the request it delivered, and progress with it
    runner,     \* the receive thread that carries it out, or System
    dev, walk,  \* the device at hand; the port detach_all_devices is at
    status,     \* the status to complete it with
    tails,      \* work items that have completed their request
    ioctls,     \* number of requests of applications
    attach, attachLoc,    \* per attach request: its state, its location
    attachStatus, retries, \* its last status, attach_ctx::retry_cnt
    requested,  \* number of attach requests created
    persistent, \* what plugin_persistent_devices has not come to yet
    reattach_req,          \* vhci_ctx::reattach_req
    stopping,   \* taken out by stop_attach_attempts, to be cancelled
    cancelled,  \* WdfRequestCancelSentRequest was called
    removing,   \* vhci_ctx::removing
    remove      \* progress of vhci_query_remove

devVars == <<devices, loc, port, unplugged, recv, ude, created, broken>>
workVars == <<pc, cur, runner, dev, walk, status>>
attachVars == <<attach, attachLoc, attachStatus, retries, requested, persistent>>
stopVars == <<reattach_req, stopping, cancelled>>
removeVars == <<removing, remove>>
vars == <<devVars, queue, workVars, tails, ioctls, attachVars, stopVars, removeVars>>

Init ==
    /\ devices = [p \in Ports |-> None]
    /\ loc = [d \in Devs |-> SomeLoc]
    /\ port = [d \in Devs |-> None]
    /\ unplugged = {}
    /\ recv = [d \in Devs |-> "none"]
    /\ ude = [d \in Devs |-> "none"]
    /\ created = 0
    /\ broken = {}
    /\ queue = <<>>
    /\ pc = "idle" /\ cur = Idle /\ runner = System
    /\ dev = None /\ walk = None /\ status = "success"
    /\ tails = {}
    /\ ioctls = 0
    /\ attach = [r \in Reqs |-> "none"]
    /\ attachLoc = [r \in Reqs |-> SomeLoc]
    /\ attachStatus = [r \in Reqs |-> "success"]
    /\ retries = [r \in Reqs |-> 0]
    /\ requested = 0 /\ persistent = Persistent
    /\ reattach_req = {} /\ stopping = {} /\ cancelled = {}
    /\ removing = FALSE /\ remove = "no"

-----------------------------------------------------------------------------
(* Requests of applications and attach requests.                            *)

\* External: an application sends PLUGIN_HARDWARE, PLUGIN_HARDWARE_ONCE or
\* PLUGOUT_HARDWARE (None stands for PORT_ALL).
DeviceIoControl ==
    /\ ioctls < MaxIoctls /\ persistent = {}
    /\ ioctls' = ioctls + 1
    /\ \/ \E op \in PluginOps, l \in Locs :
            queue' = Append(queue, Plugin(op, l, None, ioctls'))
       \/ \E p \in Ports \cup {None} : queue' = Append(queue, Plugout("plugout", p))
       \/ queue' = Append(queue, Plugout("closeonly", None))
    /\ UNCHANGED <<devVars, workVars, tails, attachVars, stopVars, removeVars>>

has_device(l) == \E p \in Ports : devices[p] # None /\ loc[devices[p]] = l

can_reattach(l, st) ==
    /\ st \notin {"fatal", "cancelled"}
    /\ st = "busy" => ~has_device(l)

\* The two tests of start_attach_attempts; reattach_req_count does not hold the
\* lock when it returns.
may_start == ~removing /\ Cardinality(reattach_req) < ReqLimit

\* create_attach_request, then the timer of 30 seconds.
start_delayed(l) ==
    LET r == requested + 1 IN
    /\ requested < MaxReqs
    /\ requested' = r
    /\ attach' = [attach EXCEPT ![r] = "timer"]
    /\ attachLoc' = [attachLoc EXCEPT ![r] = l]
    /\ retries' = [retries EXCEPT ![r] = 1]
    /\ reattach_req' = reattach_req \cup {r}
    /\ UNCHANGED <<attachStatus, persistent, stopping, cancelled>>

\* create_attach_request fails.
start_failed == UNCHANGED <<attachVars, stopVars>>

\* DeviceAdd starts attempts, not delayed, for the devices of the registry; the
\* request is not created if there are too many, and deleted if it is not sent.
plugin_persistent_devices(l) ==
    LET r == requested + 1 IN
    /\ l \in persistent
    /\ persistent' = persistent \ {l}
    /\ \/ /\ may_start /\ requested < MaxReqs
          /\ requested' = r
          /\ attach' = [attach EXCEPT ![r] = "sent"]
          /\ attachLoc' = [attachLoc EXCEPT ![r] = l]
          /\ reattach_req' = reattach_req \cup {r}
          /\ queue' = Append(queue, Plugin("once", l, r, 0))
       \/ UNCHANGED <<requested, attach, attachLoc, reattach_req, queue>>
    /\ UNCHANGED <<devVars, workVars, tails, ioctls, attachStatus, retries, stopping,
                   cancelled, removeVars>>

\* The request object is deleted: cleanup_attach_request.
delete_request(r) ==
    /\ attach' = [attach EXCEPT ![r] = "deleted"]
    /\ reattach_req' = reattach_req \ {r}

\* Mutant of on_attach_timer: the request was renewed, and the flag forgotten.
on_attach_timer_renewed(r, ok) ==
    /\ attach[r] = "timer"
    /\ attach' = [attach EXCEPT ![r] = "sent"]
    /\ queue' = Append(queue, Plugin("once", attachLoc[r], r, 0))
    /\ UNCHANGED <<devVars, workVars, tails, ioctls, attachLoc, attachStatus, retries,
                   requested, persistent, stopVars, removeVars>>

\* The timer of a request fires.  A request that was cancelled, or cannot be sent,
\* is deleted.
on_attach_timer(r, ok) ==
    /\ attach[r] = "timer"
    /\ IF removing \/ r \in cancelled \/ ~ok
         THEN delete_request(r) /\ UNCHANGED queue
         ELSE /\ attach' = [attach EXCEPT ![r] = "sent"]
              /\ queue' = Append(queue, Plugin("once", attachLoc[r], r, 0))
              /\ UNCHANGED reattach_req
    /\ UNCHANGED <<devVars, workVars, tails, ioctls, attachLoc, attachStatus, retries,
                   requested, persistent, stopping, cancelled, removeVars>>

\* The completion routine of the attach request; ok: WdfRequestReuse succeeds.
on_plugin_hardware(r, ok) ==
    /\ attach[r] = "completed"
    /\ retries' = [retries EXCEPT ![r] = @ + 1]
    /\ IF /\ attachStatus[r] # "success"
          /\ retries[r] < MaxAttempts
          /\ can_reattach(attachLoc[r], attachStatus[r])
          /\ ~removing /\ ok
         THEN attach' = [attach EXCEPT ![r] = "timer"] /\ UNCHANGED reattach_req
         ELSE delete_request(r)
    /\ UNCHANGED <<devVars, queue, workVars, tails, ioctls, attachLoc, attachStatus,
                   requested, persistent, stopping, cancelled, removeVars>>

\* reattach_req_remove, until no request of these locations is left.
stop_attach_attempts(L) ==
    LET found == {r \in reattach_req : attachLoc[r] \in L} IN
    /\ reattach_req' = reattach_req \ found
    /\ stopping' = stopping \cup found
    /\ UNCHANGED cancelled

\* STOP_ATTACH_ATTEMPTS of an application, for one location or for all.
stop_attach_attempts_ioctl ==
    /\ ioctls < MaxIoctls /\ persistent = {}
    /\ ioctls' = ioctls + 1
    /\ \E L \in {{l} : l \in Locs} \cup {Locs} : stop_attach_attempts(L)
    /\ UNCHANGED <<devVars, queue, workVars, tails, attachVars, removeVars>>

\* WdfRequestCancelSentRequest: a request that waits in the queue is completed; the
\* flag stays, so that the next send fails.
cancel_sent_request(r) ==
    /\ r \in stopping
    /\ stopping' = stopping \ {r}
    /\ cancelled' = cancelled \cup {r}
    /\ \/ \E i \in 1..Len(queue) :
             /\ queue[i].req = r
             /\ queue' = SubSeq(queue, 1, i - 1) \o SubSeq(queue, i + 1, Len(queue))
             /\ attach' = [attach EXCEPT ![r] = "completed"]
             /\ attachStatus' = [attachStatus EXCEPT ![r] = "cancelled"]
       \/ /\ \A i \in 1..Len(queue) : queue[i].req # r
          /\ UNCHANGED <<queue, attach, attachStatus>>
    /\ UNCHANGED <<devVars, workVars, tails, ioctls, attachLoc, retries, requested, persistent,
                   reattach_req, removeVars>>

-----------------------------------------------------------------------------
(* The default queue and the attach of a device.                            *)

\* device_control is called by thread t: a receive thread that has just sent a
\* request, or any other.  plugin_hardware calls getaddrinfo and returns.
device_control(t) ==
    /\ pc = "idle" /\ queue # <<>>
    /\ t # System => recv[t] = "sent"
    /\ cur' = Head(queue) /\ queue' = Tail(queue)
    /\ IF cur'.op \in PluginOps
         THEN pc' = "addrinfo" /\ runner' = System /\ UNCHANGED walk
         ELSE /\ pc' = "lookup" /\ runner' = t
              /\ walk' = IF cur'.port = None THEN 1 ELSE cur'.port
    /\ UNCHANGED <<devVars, dev, status, tails, ioctls, attachVars, stopVars, removeVars>>

\* The work item, or the objects plugin_hardware needs, cannot be created, or the
\* request is malformed: device_control completes the request.
plugin_hardware_failed ==
    /\ pc = "addrinfo"
    /\ pc' = "failed" /\ status' = "error"
    /\ UNCHANGED <<devVars, queue, cur, runner, dev, walk, tails, ioctls, attachVars, stopVars,
                   removeVars>>

\* The work item runs after getaddrinfo or connect: the address is resolved and the
\* next one is tried, or the attempt ends with status st.  A cancelled IRP ends with
\* STATUS_CANCELLED, and so does any when the controller goes.
on_connect(to, st) ==
    /\ pc \in {"addrinfo", "connect"}
    /\ \/ removing /\ to = "complete" /\ st = "cancelled"
       \/ ~removing /\ to = "complete" /\ st = "error"
       \/ ~removing /\ to = "complete" /\ st = "cancelled" /\ cur.req \in cancelled
       \/ ~removing /\ to = "connect" /\ st = "success"
       \/ ~removing /\ to = "import" /\ st = "success" /\ pc = "connect"
    /\ pc' = to /\ status' = st
    /\ UNCHANGED <<devVars, queue, cur, runner, dev, walk, tails, ioctls, attachVars, stopVars,
                   removeVars>>

\* The server refuses, or the filter does, or the device cannot be created.
import_remote_device_failed(st) ==
    /\ pc = "import"
    /\ st \in {"busy", "fatal", "error"}
    /\ pc' = "complete" /\ status' = st
    /\ UNCHANGED <<devVars, queue, cur, runner, dev, walk, tails, ioctls, attachVars, stopVars,
                   removeVars>>

\* The device is imported and created: it owns the extension from now on.  The
\* server may have lost the connection of an attached device and give it away again.
device_create ==
    LET d == created + 1 IN
    /\ pc = "import"
    /\ created < MaxDevs
    /\ created' = d /\ dev' = d
    /\ ude' = [ude EXCEPT ![d] = "created"]
    /\ loc' = [loc EXCEPT ![d] = cur.loc]
    /\ pc' = "claim"
    /\ UNCHANGED <<devices, port, unplugged, recv, broken, queue, cur, runner, walk, status,
                   tails, ioctls, attachVars, stopVars, removeVars>>

\* Mutant of get_port_range: the first port of the second range belongs to the first.
get_port_range_off(l) == IF l \in Usb3Locs THEN Usb2Ports..DevicesCnt ELSE 1..Usb2Ports

get_port_range(l) == IF l \in Usb3Locs THEN (Usb2Ports + 1)..DevicesCnt ELSE 1..Usb2Ports

\* The first free port of the range of the device's speed.
claim_roothub_port ==
    LET free == {p \in get_port_range(cur.loc) : devices[p] = None} IN
    /\ pc = "claim"
    /\ \/ \E p \in free :
             /\ \A q \in free : p <= q
             /\ devices' = [devices EXCEPT ![p] = dev]
             /\ port' = [port EXCEPT ![dev] = p]
             /\ pc' = "plugin" /\ UNCHANGED status
       \/ free = {} /\ pc' = "detach" /\ status' = "error" /\ UNCHANGED <<devices, port>>
    /\ UNCHANGED <<loc, unplugged, recv, ude, created, broken, queue, cur, runner, dev, walk,
                   tails, ioctls, attachVars, stopVars, removeVars>>

\* UdecxUsbDevicePlugIn and recv_thread_start; either may fail.
plugin(plugged, started) ==
    /\ pc = "plugin"
    /\ started => plugged
    /\ ude' = IF plugged THEN [ude EXCEPT ![dev] = "plugged"] ELSE ude
    /\ recv' = IF started THEN [recv EXCEPT ![dev] = "running"] ELSE recv
    /\ IF started THEN pc' = "complete" /\ status' = "success"
                  ELSE pc' = "detach" /\ status' = "error"
    /\ UNCHANGED <<devices, loc, port, unplugged, created, broken, queue, cur, runner, dev, walk,
                   tails, ioctls, attachVars, stopVars, removeVars>>

\* WdfRequestComplete.  The queue delivers its next request; the work item of an
\* attach goes on if the request was not PLUGIN_HARDWARE_ONCE.
complete ==
    /\ pc \in {"complete", "failed"}
    /\ pc' = "idle" /\ cur' = Idle /\ runner' = System
    /\ dev' = None /\ walk' = None /\ status' = "success"
    /\ tails' = IF pc = "complete" /\ cur.op = "plugin"
                   THEN tails \cup {[id |-> cur.id, loc |-> cur.loc, dev |-> dev,
                                    status |-> status, at |-> "stop"]}
                   ELSE tails
    /\ IF cur.req = None
         THEN UNCHANGED <<attach, attachStatus>>
         ELSE /\ attach' = [attach EXCEPT ![cur.req] = "completed"]
              /\ attachStatus' = [attachStatus EXCEPT ![cur.req] = status]
    /\ UNCHANGED <<devVars, queue, ioctls, attachLoc, retries, requested, persistent, stopVars, removeVars>>

\* The rest of the work item: attempts for the same location are stopped, and
\* started if the attach failed for a reason that may pass.
complete_stop(t) ==
    LET again == t.status # "success" /\ can_reattach(t.loc, t.status) IN
    /\ t \in tails /\ t.at = "stop"
    /\ IF t.status = "success" \/ again THEN stop_attach_attempts({t.loc})
                                        ELSE UNCHANGED stopVars
    /\ tails' = (tails \ {t}) \cup (IF again THEN {[t EXCEPT !.at = "check"]} ELSE {})
    /\ UNCHANGED <<devVars, queue, workVars, ioctls, attachVars, removeVars>>

complete_check(t) ==
    /\ t \in tails /\ t.at = "check"
    /\ tails' = (tails \ {t}) \cup (IF may_start THEN {[t EXCEPT !.at = "start"]} ELSE {})
    /\ UNCHANGED <<devVars, queue, workVars, ioctls, attachVars, stopVars, removeVars>>

complete_start(t) ==
    /\ t \in tails /\ t.at = "start"
    /\ tails' = tails \ {t}
    /\ start_delayed(t.loc) \/ start_failed
    /\ UNCHANGED <<devVars, queue, workVars, ioctls, removeVars>>

-----------------------------------------------------------------------------
(* Detach.                                                                  *)

\* What follows the detach of one device: the next port, or the completion.
NextPort ==
    IF cur.op \in PlugoutOps /\ cur.port = None /\ walk < DevicesCnt
      THEN walk' = walk + 1 /\ pc' = "lookup" /\ UNCHANGED status
      ELSE /\ pc' = "complete" /\ UNCHANGED walk
           /\ status' = IF cur.op \in PlugoutOps THEN "success" ELSE status

\* plugout_hardware and detach_all_devices: get_device of the port at hand.
get_device ==
    /\ pc = "lookup"
    /\ IF devices[walk] = None
         THEN NextPort /\ UNCHANGED dev
         ELSE dev' = devices[walk] /\ pc' = "detach" /\ UNCHANGED <<walk, status>>
    /\ UNCHANGED <<devVars, queue, cur, runner, tails, ioctls, attachVars, stopVars, removeVars>>

\* device::detach sets the flag and closes the socket, once for each device.
detach ==
    /\ pc = "detach"
    /\ IF dev \in unplugged
         THEN NextPort /\ UNCHANGED unplugged
         ELSE /\ unplugged' = unplugged \cup {dev}
              /\ pc' = "join" /\ UNCHANGED <<walk, status>>
    /\ UNCHANGED <<devices, loc, port, recv, ude, created, broken, queue, cur, runner, dev, tails,
                   ioctls, attachVars, stopVars, removeVars>>

\* Mutant of recv_thread_join: the thread is not waited for.
recv_thread_unjoined == dev # None /\ UNCHANGED recv

\* Mutant of recv_thread_join: no timeout, and the thread may wait for itself.
recv_thread_join_self == recv[dev] \in {"none", "ended"} /\ UNCHANGED recv

\* The receive thread has ended, or carries out this very detach, or has not ended after a
\* minute: then it is "late", and the detach goes on all the same.
recv_thread_join ==
    \/ (recv[dev] \in {"none", "ended"} \/ runner = dev) /\ UNCHANGED recv
    \/ /\ recv[dev] \notin {"none", "ended"} /\ runner # dev
       /\ recv' = [recv EXCEPT ![dev] = "late"]

\* reclaim_roothub_port, after recv_thread_join.
reclaim_roothub_port ==
    /\ pc = "join"
    /\ recv_thread_join
    /\ IF port[dev] = None
         THEN UNCHANGED <<devices, port>>
         ELSE /\ devices' = [devices EXCEPT ![port[dev]] = None]
              /\ port' = [port EXCEPT ![dev] = None]
    /\ pc' = "plugout"
    /\ UNCHANGED <<loc, unplugged, ude, created, broken, queue, cur, runner, dev, walk,
                   status, tails, ioctls, attachVars, stopVars, removeVars>>

\* plugout_and_delete; ok: UdecxUsbDevicePlugOutAndDelete succeeds.  A device that
\* could not be plugged in is deleted at once.
plugout_and_delete(ok) ==
    /\ pc = "plugout"
    /\ ude' = [ude EXCEPT ![dev] =
                 IF cur.op \in PluginOps /\ @ = "created" THEN "destroyed"
                 ELSE IF cur.op = "closeonly" THEN "closed"
                 ELSE IF ok THEN "deleting" ELSE "stuck"]
    /\ IF cur.op = "reattach" /\ cur.port # None
         THEN pc' = "check" /\ UNCHANGED <<walk, status>>
         ELSE NextPort
    /\ UNCHANGED <<devices, loc, port, unplugged, recv, created, broken, queue, cur, runner, dev,
                   tails, ioctls, attachVars, stopVars, removeVars>>

\* start_attach_attempts for the location of the device.
detach_check ==
    /\ pc = "check"
    /\ IF may_start THEN pc' = "start" /\ UNCHANGED <<walk, status>> ELSE NextPort
    /\ UNCHANGED <<devVars, queue, cur, runner, dev, tails, ioctls, attachVars, stopVars,
                   removeVars>>

detach_start ==
    /\ pc = "start"
    /\ start_delayed(loc[dev]) \/ start_failed
    /\ NextPort
    /\ UNCHANGED <<devVars, queue, cur, runner, dev, tails, ioctls, removeVars>>

\* UDE deletes the device some time after it was plugged out.
device_cleanup(d) ==
    /\ ude[d] = "deleting"
    /\ ude' = [ude EXCEPT ![d] = "destroyed"]
    /\ UNCHANGED <<devices, loc, port, unplugged, recv, created, broken, queue, workVars, tails,
                   ioctls, attachVars, stopVars, removeVars>>

-----------------------------------------------------------------------------
(* Those who ask for a detach on their own.                                 *)

\* Requests PLUGOUT_HARDWARE_AND_REATTACH with the port the device has now; the
\* request may not be sent for want of memory.
async_detach_and_delete(d, ok) ==
    queue' = IF ok THEN Append(queue, Plugout("reattach", port[d])) ELSE queue

\* send_complete, STATUS_FILE_FORCED_CLOSED.
send_forced_closed(d, ok) ==
    /\ recv[d] # "none" /\ d \notin unplugged /\ d \notin broken
    /\ broken' = broken \cup {d}
    /\ async_detach_and_delete(d, ok)
    /\ UNCHANGED <<devices, loc, port, unplugged, recv, ude, created, workVars, tails, ioctls,
                   attachVars, stopVars, removeVars>>

\* The connection is broken or closed: recv_loop ends.
recv_loop_ends(d) ==
    /\ recv[d] = "running"
    /\ recv' = [recv EXCEPT ![d] = "ending"]
    /\ UNCHANGED <<devices, loc, port, unplugged, ude, created, broken, queue, workVars, tails,
                   ioctls, attachVars, stopVars, removeVars>>

\* The end of recv_thread_function, which may have to carry out the request it sends.
recv_thread_function(d, ok) ==
    /\ recv[d] = "ending"
    /\ IF d \in unplugged
         THEN recv' = [recv EXCEPT ![d] = "ended"] /\ UNCHANGED queue
         ELSE recv' = [recv EXCEPT ![d] = "sent"] /\ async_detach_and_delete(d, ok)
    /\ UNCHANGED <<devices, loc, port, unplugged, ude, created, broken, workVars, tails, ioctls,
                   attachVars, stopVars, removeVars>>

recv_thread_exits(d) ==
    /\ recv[d] = "sent" /\ runner # d
    /\ recv' = [recv EXCEPT ![d] = "ended"]
    /\ UNCHANGED <<devices, loc, port, unplugged, ude, created, broken, queue, workVars, tails,
                   ioctls, attachVars, stopVars, removeVars>>

\* A thread that was not waited for finds unplugged set and ends without a trace, so it stays
\* "late".  But if the device is destroyed by then it reads memory that may belong to the
\* context of another device, and asks for the detach of that one.
recv_thread_late(d) ==
    /\ recv[d] = "late" /\ ude[d] = "destroyed"
    /\ recv' = [recv EXCEPT ![d] = "ended"]
    /\ \E other \in 1..created : async_detach_and_delete(other, TRUE)
    /\ UNCHANGED <<devices, loc, port, unplugged, ude, created, broken, workVars, tails, ioctls,
                   attachVars, stopVars, removeVars>>

\* Mutant of vhci_query_remove: devices are left to the deletion of the controller.
vhci_query_remove_keeps(ok) ==
    /\ persistent = {}
    /\ remove = "no" /\ remove' = "sent" /\ removing' = TRUE
    /\ stop_attach_attempts(Locs)
    /\ UNCHANGED <<devVars, queue, workVars, tails, ioctls, attachVars>>

\* vhci_query_remove: the flag, the attach requests, then the detach of all devices,
\* which may not be sent for want of memory.
vhci_query_remove(ok) ==
    /\ persistent = {}
    /\ \/ /\ remove = "no" /\ remove' = "flagged" /\ removing' = TRUE
          /\ UNCHANGED <<stopVars, queue>>
       \/ /\ remove = "flagged" /\ remove' = "stopped" /\ stop_attach_attempts(Locs)
          /\ UNCHANGED <<removing, queue>>
       \/ /\ remove = "stopped"
          /\ IF ok THEN remove' = "sent" /\ queue' = Append(queue, Plugout("plugout", None))
                   ELSE remove' = "failed" /\ UNCHANGED queue
          /\ UNCHANGED <<removing, stopVars>>
    /\ UNCHANGED <<devVars, workVars, tails, ioctls, attachVars>>

-----------------------------------------------------------------------------
ApplicationNext == DeviceIoControl \/ stop_attach_attempts_ioctl

RequestNext ==
    \/ \E l \in Locs : plugin_persistent_devices(l)
    \/ \E r \in Reqs :
         \/ \E ok \in BOOLEAN : on_attach_timer(r, ok) \/ on_plugin_hardware(r, ok)
         \/ cancel_sent_request(r)

AttachNext ==
    \/ plugin_hardware_failed
    \/ \E to \in {"connect", "import", "complete"}, st \in Statuses : on_connect(to, st)
    \/ \E st \in Statuses : import_remote_device_failed(st)
    \/ device_create
    \/ claim_roothub_port
    \/ \E plugged, started \in BOOLEAN : plugin(plugged, started)

DetachNext ==
    \/ get_device
    \/ detach
    \/ reclaim_roothub_port
    \/ \E ok \in BOOLEAN : plugout_and_delete(ok)
    \/ detach_check
    \/ detach_start

QueueNext == \E t \in Devs \cup {System} : device_control(t)

TailNext == \E t \in tails : complete_stop(t) \/ complete_check(t) \/ complete_start(t)

ThreadNext == \E d \in Devs :
    \/ recv_loop_ends(d)
    \/ recv_thread_exits(d)
    \/ recv_thread_late(d)
    \/ device_cleanup(d)
    \/ \E ok \in BOOLEAN : send_forced_closed(d, ok) \/ recv_thread_function(d, ok)

RemoveNext == \E ok \in BOOLEAN : vhci_query_remove(ok)

Next == \/ ApplicationNext \/ RequestNext \/ QueueNext \/ AttachNext \/ complete \/ TailNext
        \/ DetachNext \/ ThreadNext \/ RemoveNext

Spec == Init /\ [][Next]_vars

\* The framework delivers requests, calls completion routines and fires timers; WSK
\* resolves a name and connects, or fails to, in finite time; a thread in the driver runs
\* on.  Nothing is assumed of the server, which may accept the connection and never answer
\* (the receive of import_remote_device waits for ever), nor of receive threads.
Fairness ==
    /\ WF_vars(QueueNext) /\ WF_vars(TailNext)
    /\ WF_vars((pc # "import" /\ AttachNext) \/ DetachNext \/ complete)
    /\ WF_vars(remove # "no" /\ RemoveNext)
    /\ \A r \in Reqs : WF_vars(
         \/ \E ok \in BOOLEAN : on_attach_timer(r, ok) \/ on_plugin_hardware(r, ok)
         \/ cancel_sent_request(r))

FairSpec == Spec /\ Fairness

-----------------------------------------------------------------------------
(* Properties.                                                              *)

Places == {"idle", "addrinfo", "connect", "import", "claim", "plugin", "lookup", "detach", "join",
           "plugout", "check", "start", "complete", "failed"}

QueueRequests == [op : PluginOps \cup PlugoutOps \cup {"none"}, loc : Locs, req : Reqs \cup {None},
                  id : 0..MaxIoctls, port : Ports \cup {None}]

\* Devices, the queue and the work on its current request, attach requests.
DeviceTypes ==
    /\ devices \in [Ports -> Devs \cup {None}]
    /\ loc \in [Devs -> Locs]
    /\ port \in [Devs -> Ports \cup {None}]
    /\ unplugged \in SUBSET Devs
    /\ recv \in [Devs -> {"none", "running", "ending", "sent", "late", "ended"}]
    /\ ude \in [Devs -> {"none", "created", "plugged", "closed", "stuck", "deleting", "destroyed"}]
    /\ created \in 0..MaxDevs
    /\ broken \in SUBSET Devs

WorkTypes ==
    /\ queue \in Seq(QueueRequests)
    /\ pc \in Places /\ cur \in QueueRequests
    /\ runner \in Devs \cup {System} /\ dev \in Devs \cup {None}
    /\ walk \in Ports \cup {None} /\ status \in Statuses
    /\ tails \in SUBSET [id : 0..MaxIoctls, loc : Locs, dev : Devs \cup {None}, status : Statuses,
                         at : {"stop", "check", "start"}]
    /\ ioctls \in 0..MaxIoctls

AttachTypes ==
    /\ attach \in [Reqs -> {"none", "timer", "sent", "completed", "deleted"}]
    /\ attachLoc \in [Reqs -> Locs] /\ attachStatus \in [Reqs -> Statuses]
    /\ retries \in [Reqs -> Nat] /\ requested \in 0..MaxReqs
    /\ persistent \in SUBSET Locs
    /\ reattach_req \in SUBSET Reqs /\ stopping \in SUBSET Reqs /\ cancelled \in SUBSET Reqs
    /\ removing \in BOOLEAN /\ remove \in {"no", "flagged", "stopped", "sent", "failed"}

\* Type invariant.
TypeOK == DeviceTypes /\ WorkTypes /\ AttachTypes

\* The assertions of get_device and reclaim_roothub_port, and the ranges of the hub:
\* a device and its port name each other, and the port fits the device's speed.
PortsAgree ==
    /\ \A p \in Ports : devices[p] # None => port[devices[p]] = p
    /\ \A d \in Devs : port[d] # None => /\ devices[port[d]] = d
                                         /\ port[d] > Usb2Ports <=> loc[d] \in Usb3Locs

\* has_device and get_device read the contexts of the devices they find: a device
\* that UDE deletes, or has deleted, is out of the table, and its receive thread does not
\* use it (assertions of device_cleanup) unless recv_thread_join gave up waiting for it.
DeletedDevicesAreUnused ==
    \A d \in Devs : ude[d] \in {"deleting", "destroyed"} =>
        port[d] = None /\ d \in unplugged /\ recv[d] \notin {"running", "ending"}

\* reclaim_roothub_port comes before UdecxUsbDevicePlugOutAndDelete, so the number of
\* the port is free while the device is still plugged: only the request that detaches
\* it is under way then, and no other device can be given the port.
PluggedHasPort ==
    \A d \in Devs : ude[d] = "plugged" /\ port[d] = None => pc = "plugout" /\ dev = d

\* After stop_attach_attempts an attempt that is under way may end, but the attach
\* request never starts another.
StoppedStaysStopped ==
    [][\A r \in cancelled : cur'.req = r => cur.req = r]_vars

\* The server of the attach at hand never answers: device_control completes nothing more.
SilentServer == [](pc = "import")

\* The removal of the controller detaches every device and ends every attach
\* request, whatever was going on, and nothing is attached afterwards; but for an attach
\* whose server stays connected and silent.
RemovalDrains ==
    (remove = "sent") ~>
        \/ [](/\ \A p \in Ports : devices[p] = None
              /\ \A r \in Reqs : attach[r] \in {"none", "deleted"})
        \/ SilentServer

\* Every request of the default queue is completed: a detach never waits for ever for a
\* thread, not even if that one waits for the detach, and an attach waits for nothing but
\* the answers of its server.
QueueMoves == (pc # "idle") ~> (pc = "idle" \/ SilentServer)

-----------------------------------------------------------------------------
(* The inductive invariant: where a device can be in its life, given the      *)
(* request the queue is busy with.                                            *)

\* Devices not created yet.
FreshDevices ==
    \A d \in Devs : d > created =>
        ude[d] = "none" /\ recv[d] = "none" /\ port[d] = None /\ d \notin unplugged

\* The device the current request is about, at each place.
CurrentDevice ==
    /\ pc \in {"idle", "addrinfo", "connect", "import", "failed"} => dev = None
    /\ pc \in {"addrinfo", "connect", "import"} => cur.op \in PluginOps
    /\ pc \in {"claim", "plugin", "detach", "join", "plugout"} =>
         /\ dev \in 1..created
         /\ ude[dev] \in {"created", "plugged"}
         /\ ude[dev] = "created" => cur.op \in PluginOps /\ recv[dev] = "none"
         /\ dev \in unplugged <=> pc \in {"join", "plugout"}
    /\ pc \in {"claim", "plugin"} => ude[dev] = "created"
    /\ pc = "claim" => port[dev] = None /\ loc[dev] = cur.loc
    /\ pc = "plugin" => port[dev] # None
    /\ pc = "plugout" => port[dev] = None /\ recv[dev] \notin {"running", "ending"}
    /\ pc \in {"check", "start"} => dev \in Devs
    /\ pc = "lookup" => walk \in Ports

\* The receive thread that carries out a request is inside the send of it.
RunnerIsSent == runner # System => recv[runner] = "sent"

DeviceLife ==
    \A d \in Devs :
        /\ ude[d] = "none" <=> d > created
        /\ ude[d] = "created" => dev = d /\ pc \in {"claim", "plugin", "detach", "join", "plugout"}
        /\ ude[d] = "plugged" /\ d \in unplugged => dev = d /\ pc \in {"join", "plugout"}
        /\ ude[d] \in {"closed", "stuck", "deleting", "destroyed"} =>
             port[d] = None /\ d \in unplugged /\ recv[d] \notin {"running", "ending"}

IInv ==
    /\ TypeOK
    /\ PortsAgree
    /\ PluggedHasPort
    /\ FreshDevices
    /\ CurrentDevice
    /\ RunnerIsSent
    /\ DeviceLife
-----------------------------------------------------------------------------
(* What the removal of the controller promises without fairness.              *)

\* The request vhci_query_remove sends.  It names no attach request.
DetachAll == Plugout("plugout", None)

DetachAllQueued == \E i \in 1..Len(queue) : queue[i] = DetachAll

\* No device in the table, and no attach under way that could still add one.
NothingAttached ==
    /\ \A p \in Ports : devices[p] = None
    /\ pc \notin {"connect", "import", "claim", "plugin"}

\* An attach that passed the test of removing before vhci_query_remove set it may still
\* add a device, and requests of others are ahead of the removal's in the queue.  But
\* when vhci_query_remove has sent its request and no such request waits or is carried
\* out any more, no device is left, whatever was attached and detached meanwhile.
RemovalDetachesAll ==
    remove = "sent" /\ ~DetachAllQueued /\ cur # DetachAll => NothingAttached

\* And from the moment the table is empty nothing is attached again: neither the timer
\* of an attach request, nor an application, nor a work item gets past on_connect.
NothingAttachedAgain ==
    [][remove # "no" /\ NothingAttached => NothingAttached']_vars

\* detach_all_devices at work: the ports before walk are free, and the device at hand is
\* the one of the port walk until reclaim_roothub_port frees it.
Sweeping ==
    /\ cur = DetachAll
    /\ pc \in {"lookup", "detach", "join", "plugout"}
    /\ walk \in Ports
    /\ \A p \in Ports : p < walk => devices[p] = None
    /\ pc \in {"detach", "join"} => devices[walk] = dev
    /\ pc = "plugout" => devices[walk] = None

\* The strengthening of RemovalDetachesAll.
RemovalInv ==
    /\ remove # "no" => removing
    /\ remove = "sent" => DetachAllQueued \/ Sweeping \/ NothingAttached
=============================================================================
