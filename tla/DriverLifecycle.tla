--------------------------- MODULE DriverLifecycle ---------------------------
(***************************************************************************)
(* What the driver acquires from the system and when it gives it back:     *)
(* loading and unloading (drivers/ude/driver.cpp), adding and removing the *)
(* controller (vhci.cpp), and the objects of an attach from                *)
(* PLUGIN_HARDWARE to the end of its work item (vhci_ioctl.cpp, device.cpp, *)
(* libdrv/wsk_cpp.cpp).  Every call that can fail may fail.                *)
(*                                                                         *)
(* Ports, reattach and the receive thread are the subject of               *)
(* HostController.  Here a request is only pending or completed; the       *)
(* default queue hands out one at a time, but the tail of a work item runs *)
(* beside the next request.                                                *)
(***************************************************************************)
EXTENDS Settings, FiniteSets

CONSTANTS
    Attempts,     \* PLUGIN_HARDWARE requests, numbered in the order they come
    Addrs,        \* the number of addresses a name resolves to
    Registries,   \* contents of the registry key Parameters
    MaxAdds,      \* bound: how often the controller is added
    MaxLeaks      \* bound: how often STOP_ATTACH_ATTEMPTS loses strings

ASSUME LifecycleAssumption ==
    /\ Attempts \subseteq Nat \ {0} /\ Addrs \in Nat \ {0}
    /\ MaxAdds \in Nat /\ MaxLeaks \in Nat
    /\ \A reg \in Registries : \A name \in DOMAIN reg : reg[name] \in Int

\* A resource is its name and the attempt it belongs to, or 0.  Ext: device_ctx_ext.
\* Names: the strings of its device_attributes; attr: those of STOP_ATTACH_ATTEMPTS.  Sock: the pool block and the three
\* IRPs of wsk::SOCKET.  WskSocket: the socket of the provider.  Request: the WDFREQUEST
\* that attaches the device again, with its buffers and its timer.
Own(names) == {<<n, 0>> : n \in names}
Ext(a) == <<"ext", a>>
Names(a) == <<"names", a>>
AddrInfo(a) == <<"addrinfo", a>>
Sock(a) == <<"sock", a>>
WskSocket(a) == <<"wsk_socket", a>>
Request(a) == <<"request", a>>
Resources ==
    Own({"lookaside", "registration", "provider", "devices", "target", "attr"}) \cup
    UNION {{Ext(a), Names(a), AddrInfo(a), Sock(a), WskSocket(a), Request(a)} : a \in Attempts}

VARIABLES
    held,          \* per resource, how often it was acquired less how often released
    drv,           \* progress of DriverEntry
    g_initialized, \* wsk_context.cpp: the lookaside list exists
    g_init_flags,  \* wsk_cpp.cpp
    once,          \* RTL_RUN_ONCE of GetProviderNPI is complete
    vhci,          \* the function of create_vhci that comes next, "up" or "none"
    removing,      \* vhci_ctx::removing
    adds,          \* number of calls of DeviceAdd
    registry,      \* the registry that the driver finds
    ports, reattach, \* what it made of it: vhci_ctx
    pc,            \* per attempt, its progress
    ai,            \* the address it is trying, or 0
    wiExt,         \* attempts whose work item still has ctx_ext
    reattach_req,  \* attempts whose Request is in the collection of vhci_ctx
    dev            \* per attempt, its UDECXUSBDEVICE

globals == <<drv, g_initialized, g_init_flags, once>>
vhciVars == <<vhci, removing, adds, registry, ports, reattach>>
attemptVars == <<pc, ai, wiExt, dev, reattach_req>>
lifecycleVars == <<held, globals, vhciVars, attemptVars>>

Take(R) == [r \in Resources |-> IF r \in R THEN held[r] + 1 ELSE held[r]]
Give(R) == [r \in Resources |-> IF r \in R THEN held[r] - 1 ELSE held[r]]

NoPorts == [usb2 |-> 0, usb3 |-> 0]
NoReattach == [first |-> 0, max |-> 0, attempts |-> 0]

LifecycleInit ==
    /\ held = [r \in Resources |-> 0]
    /\ drv = "none" /\ g_initialized = FALSE /\ g_init_flags = {} /\ once = FALSE
    /\ vhci = "none" /\ removing = FALSE /\ adds = 0
    /\ registry \in Registries
    /\ ports = NoPorts /\ reattach = NoReattach
    /\ pc = [a \in Attempts |-> "none"]
    /\ ai = [a \in Attempts |-> 0]
    /\ wiExt = {}
    /\ dev = [a \in Attempts |-> "none"] /\ reattach_req = {}

-----------------------------------------------------------------------------
(* DriverEntry and the unloading of the driver.                             *)

\* If DriverEntry fails after this, the framework deletes WDFDRIVER.
driver_create(ok) ==
    /\ drv = "none"
    /\ drv' = IF ok THEN "created" ELSE "unloaded"
    /\ UNCHANGED <<held, g_initialized, g_init_flags, once, vhciVars, attemptVars>>

init_wsk_context_list(ok) ==
    /\ drv = "created"
    /\ drv' = IF ok THEN "listed" ELSE "failed"
    /\ g_initialized' = ok
    /\ held' = IF ok THEN Take(Own({"lookaside"})) ELSE held
    /\ UNCHANGED <<g_init_flags, once, vhciVars, attemptVars>>

wsk_initialize(ok) ==
    /\ drv = "listed"
    /\ drv' = IF ok THEN "loaded" ELSE "failed"
    /\ g_init_flags' = IF ok THEN g_init_flags \cup {"F_REGISTER"} ELSE g_init_flags
    /\ held' = IF ok THEN Take(Own({"registration"})) ELSE held
    /\ UNCHANGED <<g_initialized, once, vhciVars, attemptVars>>

\* GetProviderNPI: captured is what WskCaptureProviderNPI says if it is called, which
\* it is until it succeeds once.
GetProviderNPI(captured) ==
    IF once THEN UNCHANGED <<held, g_init_flags, once>> /\ captured = ("F_CAPTURE" \in g_init_flags)
    ELSE /\ once' = captured
         /\ g_init_flags' = IF captured THEN g_init_flags \cup {"F_CAPTURE"} ELSE g_init_flags
         /\ held' = IF captured THEN Take(Own({"provider"})) ELSE held

\* GetProviderNPI(true) does not capture: its parameter is null.
ReleaseProviderNPI == IF "F_CAPTURE" \in g_init_flags THEN Own({"provider"}) ELSE {}

shutdown == ReleaseProviderNPI \cup (IF "F_REGISTER" \in g_init_flags THEN Own({"registration"}) ELSE {})

delete_wsk_context_list == IF g_initialized THEN Own({"lookaside"}) ELSE {}

\* The cleanup callback of WDFDRIVER, after an error of DriverEntry and on unload; the
\* driver is unloaded when it has no device.
driver_cleanup ==
    /\ drv = "failed" \/ (drv = "loaded" /\ vhci = "none")
    /\ drv' = "unloaded"
    /\ held' = Give(shutdown \cup delete_wsk_context_list)
    /\ g_init_flags' = {} /\ g_initialized' = FALSE
    /\ UNCHANGED <<once, vhciVars, attemptVars>>

DriverEntry == \E ok \in BOOLEAN : driver_create(ok) \/ init_wsk_context_list(ok) \/ wsk_initialize(ok)

-----------------------------------------------------------------------------
(* DeviceAdd.                                                               *)

\* Nothing is held yet: a failure just ends DeviceAdd.
initialize(ok) ==
    /\ drv = "loaded" /\ vhci = "none" /\ adds < MaxAdds
    /\ \A a \in Attempts : pc[a] \in {"none", "done"}
    /\ adds' = adds + 1
    /\ vhci' = IF ok THEN "alloc_devices" ELSE vhci
    /\ removing' = FALSE
    /\ UNCHANGED <<held, globals, registry, ports, reattach, attemptVars>>

alloc_devices(ok) ==
    /\ vhci = "alloc_devices"
    /\ LET p == set_usb_ports_cnt(registry) IN
       IF ok THEN /\ vhci' = "create_target_self" /\ ports' = p
                  /\ held' = Take(Own({"devices"}))
             ELSE vhci' = "failed" /\ UNCHANGED <<ports, held>>
    /\ UNCHANGED <<globals, removing, adds, registry, reattach, attemptVars>>

\* The locks and the collection first; they are children of the device.  An I/O target
\* that was created and not opened needs no close.
create_target_self(ok) ==
    /\ vhci = "create_target_self"
    /\ vhci' = IF ok THEN "create_read_queue" ELSE "failed"
    /\ held' = IF ok THEN Take(Own({"target"})) ELSE held
    /\ UNCHANGED <<globals, removing, adds, registry, ports, reattach, attemptVars>>

\* A function of create_vhci whose objects go with the device.
Child(f, next, ok) ==
    /\ vhci = f
    /\ vhci' = IF ok THEN next ELSE "failed"
    /\ UNCHANGED <<held, globals, removing, adds, registry, ports, attemptVars>>

create_read_queue(ok) ==
    /\ Child("create_read_queue", "configure", ok)
    /\ \E opened \in BOOLEAN :
         reattach' = IF ok THEN init_constants(opened, registry) ELSE reattach

init_context(ok) == alloc_devices(ok) \/ create_target_self(ok) \/ create_read_queue(ok)

configure(ok) == Child("configure", "create_interfaces", ok) /\ UNCHANGED reattach

create_interfaces(ok) ==
    Child("create_interfaces", "add_usbdevice_emulation", ok) /\ UNCHANGED reattach

add_usbdevice_emulation(ok) ==
    Child("add_usbdevice_emulation", "create_queues", ok) /\ UNCHANGED reattach

create_queues(ok) == Child("create_queues", "up", ok) /\ UNCHANGED reattach

\* create_vhci failed: the framework deletes the device, vhci_cleanup is called.
vhci_cleanup ==
    /\ vhci = "failed"
    /\ vhci' = "none" /\ removing' = TRUE
    /\ held' = Give({r \in Own({"devices", "target"}) : held[r] > 0})
    /\ ports' = NoPorts /\ reattach' = NoReattach
    /\ UNCHANGED <<globals, adds, registry, attemptVars>>

-----------------------------------------------------------------------------
(* An attach: plugin_hardware, WSK calls that complete later, and the work  *)
(* item.                                                                    *)

\* Its request has not been completed.
Pending(a) == pc[a] \notin {"none", "tail", "plugged", "lacking", "ending", "done"}
QueueIsFree == \A a \in Attempts : ~Pending(a)

at(a, s) == pc' = [pc EXCEPT ![a] = s]

\* close_socket: after the first time it changes nothing.
close_socket(a) == IF held[WskSocket(a)] > 0 THEN {WskSocket(a)} ELSE {}

\* WdfObjectDelete of the extension, destroy_device_ctx_ext with it.
destroy_device_ctx_ext(a) == {r \in {Ext(a), Names(a), Sock(a)} : r = Ext(a) \/ held[r] > 0}

\* The call of PLUGIN_HARDWARE that fails: WdfWorkItemCreate, WdfMemoryCreate,
\* utf8_to_unicode of the first name or of a later one, hash_location, or the copy of
\* the serial number.
PluginCalls == {"workitem", "memory", "name", "names", "hash", "serial", "ok"}

create_workitem(how) == how # "workitem"

\* The buffer of the string and the functions that print and hash it.
hash_location(how) == how # "hash"

alloc_device_ctx_ext(a, how) == IF how = "memory" THEN {} ELSE {Ext(a)}

\* If a name cannot be converted, the names before it stay.
save_device_location(strings, how) == IF how = "name" THEN {} ELSE strings

\* What it leaves in the attributes, whether it fails or not.
init_device_attributes(strings, how) == save_device_location(strings, how)

AttributesComplete(how) == how \notin {"name", "names"} /\ hash_location(how)

create_device_ctx_ext(a, how) ==
    alloc_device_ctx_ext(a, how) \cup
    IF how = "memory" THEN {} ELSE init_device_attributes({Names(a)}, how)

\* Mutant of plugin_hardware: create_device_ctx_ext deletes the extension when it fails,
\* and the work item still has it.
plugin_hardware_twice(a, how) ==
    /\ vhci = "up" /\ QueueIsFree
    /\ pc[a] = "none" /\ \A b \in Attempts : b < a => pc[b] # "none"
    /\ wiExt' = wiExt \cup {a}
    /\ IF how = "ok" THEN at(a, "getaddrinfo") /\ held' = Take(create_device_ctx_ext(a, how))
                     ELSE at(a, "abandoned") /\ UNCHANGED held
    /\ UNCHANGED <<globals, vhciVars, ai, dev, reattach_req>>

\* If create_device_ctx_ext fails, the work item has what it left, and will be deleted.
plugin_hardware(a, how) ==
    /\ vhci = "up" /\ QueueIsFree
    /\ pc[a] = "none" /\ \A b \in Attempts : b < a => pc[b] # "none"
    /\ IF create_workitem(how)
         THEN /\ held' = Take(create_device_ctx_ext(a, how))
              /\ wiExt' = IF how = "memory" THEN wiExt ELSE wiExt \cup {a}
              /\ at(a, IF AttributesComplete(how) /\ how = "ok" THEN "getaddrinfo" ELSE "abandoned")
         ELSE at(a, "done") /\ UNCHANGED <<wiExt, held>>
    /\ UNCHANGED <<globals, vhciVars, ai, dev, reattach_req>>

\* wsk::getaddrinfo: without the provider the IRP is not even used.
wsk_getaddrinfo(a, captured) ==
    GetProviderNPI(captured) /\ at(a, IF captured THEN "resolving" ELSE "lost")

\* Nobody looks at the status that it returns.
getaddrinfo(a) ==
    /\ pc[a] = "getaddrinfo"
    /\ \E captured \in BOOLEAN : wsk_getaddrinfo(a, captured)
    /\ UNCHANGED <<drv, g_initialized, vhciVars, ai, wiExt, dev, reattach_req>>

\* External: WskGetAddressInfo completes its IRP; irp_complete enqueues the work item.
WskGetAddressInfo(a, ok) ==
    /\ pc[a] = "resolving"
    /\ at(a, IF ok THEN "resolved" ELSE "unresolved")
    /\ held' = IF ok THEN Take({AddrInfo(a)}) ELSE held
    /\ UNCHANGED <<globals, vhciVars, ai, wiExt, dev, reattach_req>>

\* External: so does WskConnect.
WskConnect(a, result) ==
    /\ pc[a] = "connecting"
    /\ at(a, result)
    /\ UNCHANGED <<held, globals, vhciVars, ai, wiExt, dev, reattach_req>>

Enqueued == {"resolved", "unresolved", "connected", "refused", "cancelled"}

\* wsk::free(SOCKET)
free_socket(a) == {Sock(a)}

\* The call of create_socket that fails: the allocation, an IRP of the new SOCKET,
\* WskSocket, one that reads or sets an option, or WskBind.
Connects == {"alloc_socket", "irp", "WskSocket", "getsockopt", "short", "setsockopt", "bind", "ok"}

alloc_socket(a, how) == IF how = "alloc_socket" THEN {} ELSE {Sock(a)}

\* What has been taken when one of its calls fails, or none.
socket(a, how) ==
    alloc_socket(a, how) \cup
    IF how \in {"alloc_socket", "irp", "WskSocket"} THEN {} ELSE {WskSocket(a)}

\* WskControlSocket and the wait for its IRP.
control(call, how) == how # call

setsockopt(how) == control("setsockopt", how)

\* An option of another size than was asked for is an error, too.
getsockopt(how) == control("getsockopt", how) /\ how # "short"

get_keepalive_opts(how) == getsockopt(how)

set_keepalive(how) == setsockopt(how)

set_options(how) == get_keepalive_opts(how) /\ set_keepalive(how)

bind(how) == how # "bind"

create_socket(a, how) == WskSocket(a) \in socket(a, how) /\ set_options(how) /\ bind(how)

\* connect to address i, after `gone' was released.  A SOCKET that got no IRP, or no
\* socket from the provider, is freed; one without options or address is kept.  The next
\* address is not tried.
connect(a, i, how, gone) ==
    /\ ai' = [ai EXCEPT ![a] = i]
    /\ at(a, IF create_socket(a, how) THEN "connecting"
             ELSE IF socket(a, how) = {Sock(a)} THEN "no_socket" ELSE "tail")
    /\ held' = [r \in Resources |->
                  held[r] - (IF r \in gone THEN 1 ELSE 0) + (IF r \in socket(a, how) THEN 1 ELSE 0)]

\* alloc_socket or socket fails halfway: free, and the error is returned to complete.
socket_failed(a) ==
    /\ pc[a] = "no_socket"
    /\ at(a, "tail") /\ held' = Give(free_socket(a))
    /\ UNCHANGED <<globals, vhciVars, ai, wiExt, dev, reattach_req>>

\* Mutant of complete_removing: the work item returns and the request stays.
complete_removing_keeps(a) ==
    /\ pc[a] \in Enqueued /\ removing
    /\ at(a, "kept")
    /\ UNCHANGED <<held, globals, vhciVars, ai, wiExt, dev, reattach_req>>

\* complete: the controller is being removed.
complete_removing(a) ==
    /\ pc[a] \in Enqueued /\ removing
    /\ at(a, "tail")
    /\ UNCHANGED <<held, globals, vhciVars, ai, wiExt, dev, reattach_req>>

\* complete after getaddrinfo.
complete_addrinfo(a, how) ==
    /\ pc[a] \in {"resolved", "unresolved"} /\ ~removing
    /\ IF pc[a] = "resolved" THEN connect(a, 1, how, {})
                             ELSE at(a, "tail") /\ UNCHANGED <<held, ai>>
    /\ UNCHANGED <<globals, vhciVars, wiExt, dev, reattach_req>>

\* on_connect if the address does not answer: the next one, unless the IRP was cancelled.
on_connect_failed(a, how) ==
    LET gone == close_socket(a) \cup free_socket(a) IN
    /\ pc[a] \in {"refused", "cancelled"} /\ ~removing
    /\ IF pc[a] = "refused" /\ ai[a] < Addrs
         THEN connect(a, ai[a] + 1, how, gone)
         ELSE at(a, "tail") /\ held' = Give(gone) /\ UNCHANGED ai
    /\ UNCHANGED <<globals, vhciVars, wiExt, dev, reattach_req>>

\* A reply to OP_REQ_IMPORT.  sent, header, body: how the transfer of the request and
\* of the two parts of the answer ended.
Reply(sent, header, body, version, code, status, busid) ==
    [sent |-> sent, header |-> header, body |-> body, version |-> version, code |-> code,
     status |-> status, busid |-> busid]
Transfers == {"all", "part", "error", "no mdl"}
Replies ==
    {Reply(t, "all", "all", TRUE, TRUE, TRUE, TRUE) : t \in Transfers} \cup
    {Reply("all", t, "all", v, c, s, TRUE) : t \in Transfers, v, c, s \in BOOLEAN} \cup
    {Reply("all", "all", t, TRUE, TRUE, TRUE, b) : t \in Transfers, b \in BOOLEAN}

\* transfer: the status of the IRP, and the bytes that it moved.
transfer(t) == [success |-> t \in {"all", "part"}, actual |-> t = "all"]

\* Both want all the bytes.
wsk_send(t) == transfer(t).success /\ transfer(t).actual
wsk_receive(t) == transfer(t).success /\ transfer(t).actual

\* usbip::send and usbip::recv describe the buffer by an MDL first.
send(t) == t # "no mdl" /\ wsk_send(t)
recv(t) == t # "no mdl" /\ wsk_receive(t)

\* The header is the expected one and says that all is well.
recv_op_common(r) == recv(r.header) /\ r.version /\ r.code /\ r.status

recv_rep_import(r) == recv_op_common(r) /\ recv(r.body) /\ r.busid

send_req_import(r) == send(r.sent)

\* allowed: what device_filter::check_device says, see DeviceFilter.
import_remote_device(r, allowed) == send_req_import(r) /\ recv_rep_import(r) /\ allowed

\* on_connect calls connected: the work item waits for what the server sends.
connected(a) ==
    /\ pc[a] = "connected" /\ ~removing
    /\ at(a, "import")
    /\ UNCHANGED <<held, globals, vhciVars, ai, wiExt, dev, reattach_req>>

\* The server has answered, or the connection has ended.  From here on nobody looks at
\* removing.
import_ends(a) ==
    /\ pc[a] = "import"
    /\ \E ok \in {import_remote_device(r, allowed) : r \in Replies, allowed \in BOOLEAN} :
         at(a, IF ok THEN "imported" ELSE "tail")
    /\ UNCHANGED <<held, globals, vhciVars, ai, wiExt, dev, reattach_req>>

\* The call of device::create that fails.
CreateCalls ==
    {"UdecxUsbDeviceInitAllocate", "UdecxUsbDeviceInitAddDescriptor", "UdecxUsbDeviceCreate",
     "WdfSpinLockCreate"}

prepare_init(how) == how # "UdecxUsbDeviceInitAllocate"

add_snapshot_descriptors(how) == how # "UdecxUsbDeviceInitAddDescriptor"

\* The locks of the device; they go with it.
create_spin_lock(how) == how # "WdfSpinLockCreate"

\* Is there a UDECXUSBDEVICE?  Else its UDECXUSBDEVICE_INIT was freed.
DeviceExists(how) ==
    prepare_init(how) /\ add_snapshot_descriptors(how) /\ how # "UdecxUsbDeviceCreate"

\* If init_device fails, the device has the extension, and the work item keeps it.
device_create_failed(a, how) ==
    /\ pc[a] = "imported"
    /\ at(a, "tail")
    /\ dev' = [dev EXCEPT ![a] = IF DeviceExists(how) /\ ~create_spin_lock(how) THEN "orphan" ELSE @]
    /\ UNCHANGED <<held, globals, vhciVars, ai, wiExt, reattach_req>>

\* The device is created and plugged in.
plugin(a) ==
    /\ pc[a] = "imported"
    /\ at(a, "plugged")
    /\ wiExt' = wiExt \ {a}
    /\ dev' = [dev EXCEPT ![a] = "plugged"]
    /\ UNCHANGED <<held, globals, vhciVars, ai, reattach_req>>

\* detach closes the socket.  UDE deletes the device, or leaves that to the deletion
\* of the controller: kept.
detached(a, kept) ==
    /\ held' = Give(close_socket(a) \cup IF kept THEN {} ELSE destroy_device_ctx_ext(a))
    /\ dev' = [dev EXCEPT ![a] = IF kept THEN "kept" ELSE "deleted"]

\* plugin() fails; if the device was plugged in, UDE may keep it.
plugin_failed(a, kept) ==
    /\ pc[a] = "imported"
    /\ at(a, "tail")
    /\ wiExt' = wiExt \ {a}
    /\ detached(a, kept)
    /\ UNCHANGED <<globals, vhciVars, ai, reattach_req>>

\* wsk::free(ADDRINFOEXW)
free_addrinfo(a) == IF held[AddrInfo(a)] > 0 THEN {AddrInfo(a)} ELSE {}

\* The cleanup callback of the work item.
workitem_cleanup(a) ==
    free_addrinfo(a) \cup
    (IF a \in wiExt THEN close_socket(a) \cup destroy_device_ctx_ext(a) ELSE {})

\* The call of create_attach_request that fails.  "unwanted": it is not called.
RequestCalls ==
    {"unwanted", "WdfRequestCreate", "WdfMemoryCreate", "WdfMemoryCreatePreallocated",
     "WdfTimerCreate", "fill_location", "WdfCollectionAdd", "ok"}

create_request(how) == how # "WdfRequestCreate"
create_inbuf(how) == how # "WdfMemoryCreate"
create_outbuf(how) == how # "WdfMemoryCreatePreallocated"
create_timer(how) == how # "WdfTimerCreate"
init_attach_ctx(how) == how # "fill_location"
reattach_req_add(how) == how # "WdfCollectionAdd"

\* Has the request all its objects?
RequestComplete(how) ==
    /\ create_inbuf(how) /\ create_outbuf(how) /\ create_timer(how)
    /\ init_attach_ctx(how) /\ reattach_req_add(how)

create_attach_request(a, how) == IF create_request(how) THEN {Request(a)} ELSE {}

start_attach_attempts(a, how) ==
    IF removing \/ how = "unwanted" THEN {} ELSE create_attach_request(a, how)

\* complete after WdfRequestComplete: earlier attempts for the location are stopped, and
\* a request that may be tried again is, unless it asked for one attempt only.
complete_tail(a, how, stopped) ==
    /\ pc[a] \in {"tail", "plugged"}
    /\ pc[a] = "plugged" => how = "unwanted"
    /\ LET req == start_attach_attempts(a, how) IN
       /\ held' = Take(req)
       /\ at(a, IF req # {} /\ ~RequestComplete(how) THEN "lacking" ELSE "ending")
       /\ reattach_req' = (reattach_req \ stopped) \cup
                          (IF req # {} /\ RequestComplete(how) THEN {a} ELSE {})
    /\ UNCHANGED <<globals, vhciVars, ai, wiExt, dev>>

\* The function that takes a WDFOBJECT.
reattach_req_remove(a) == reattach_req \ {a}

\* create_attach_request deletes a request that lacks one of its objects;
\* cleanup_attach_request does not find it in the collection.
reset_request(a) ==
    /\ pc[a] = "lacking"
    /\ at(a, "ending")
    /\ held' = Give({Request(a)}) /\ reattach_req' = reattach_req_remove(a)
    /\ UNCHANGED <<globals, vhciVars, ai, wiExt, dev>>

\* WdfObjectDelete of the work item, after a failure of plugin_hardware and in the end.
delete_workitem(a) ==
    /\ pc[a] \in {"abandoned", "ending"}
    /\ at(a, "done")
    /\ wiExt' = wiExt \ {a}
    /\ held' = Give(workitem_cleanup(a))
    /\ ai' = [ai EXCEPT ![a] = 0]
    /\ UNCHANGED <<globals, vhciVars, dev, reattach_req>>

\* The attempts have come to an end: the request is deleted, cleanup_attach_request
\* takes it out of the collection, if stop_attach_attempts has not.
attach_request_ends(a) ==
    /\ held[Request(a)] > 0 /\ pc[a] # "lacking"
    /\ held' = Give({Request(a)})
    /\ reattach_req' = reattach_req_remove(a)
    /\ UNCHANGED <<globals, vhciVars, pc, ai, wiExt, dev>>

\* STOP_ATTACH_ATTEMPTS for all requests or for those of one location.
stop_attach_attempts(stopped) ==
    /\ stopped # {} /\ reattach_req' = reattach_req \ stopped
    /\ UNCHANGED <<held, globals, vhciVars, pc, ai, wiExt, dev>>

\* Its attributes are freed when they have the hash; if not, their strings are lost.
stop_attach_attempts_failed(how) ==
    /\ vhci = "up" /\ held[<<"attr", 0>>] < MaxLeaks
    /\ ~AttributesComplete(how)
    /\ held' = Take(init_device_attributes(Own({"attr"}), how))
    /\ UNCHANGED <<globals, vhciVars, attemptVars>>

\* PLUGOUT_HARDWARE.
plugout_hardware(a, kept) ==
    /\ vhci = "up" /\ QueueIsFree
    /\ dev[a] = "plugged"
    /\ detached(a, kept)
    /\ UNCHANGED <<globals, vhciVars, pc, ai, wiExt, reattach_req>>

-----------------------------------------------------------------------------
(* Removal of the controller.                                               *)

vhci_query_remove ==
    /\ vhci = "up" /\ ~removing
    /\ removing' = TRUE /\ reattach_req' = {}
    /\ UNCHANGED <<held, globals, vhci, adds, registry, ports, reattach, pc, ai, wiExt, dev>>

\* The cleanup of a device that is still there.
device_cleanup(a) ==
    IF dev[a] \in {"plugged", "kept", "orphan"}
      THEN close_socket(a) \cup destroy_device_ctx_ext(a) ELSE {}

\* The framework deletes the controller: no request is pending, work items have run,
\* devices and the requests that are left go first.
delete_vhci ==
    /\ vhci = "up" /\ removing
    /\ \A a \in Attempts : pc[a] \in {"none", "done"}
    /\ vhci' = "none"
    /\ held' = Give(Own({"devices", "target"}) \cup (UNION {device_cleanup(a) : a \in Attempts})
                      \cup {Request(a) : a \in {b \in Attempts : held[Request(b)] > 0}})
    /\ reattach_req' = {}
    /\ dev' = [a \in Attempts |-> IF dev[a] = "orphan" THEN "freed twice"
                                 ELSE IF device_cleanup(a) = {} THEN dev[a] ELSE "deleted"]
    /\ ports' = NoPorts /\ reattach' = NoReattach
    /\ UNCHANGED <<globals, removing, adds, registry, pc, ai, wiExt>>

-----------------------------------------------------------------------------
\* The handlers of an attach that the system calls, in any order.
AttachStep(a) ==
    \/ getaddrinfo(a)
    \/ \E ok \in BOOLEAN : WskGetAddressInfo(a, ok)
    \/ \E r \in {"connected", "refused", "cancelled"} : WskConnect(a, r)
    \/ complete_removing(a)
    \/ \E how \in Connects : complete_addrinfo(a, how)
    \/ \E how \in Connects : on_connect_failed(a, how)
    \/ socket_failed(a)
    \/ connected(a)
    \/ \E how \in CreateCalls : device_create_failed(a, how)
    \/ plugin(a)
    \/ \E kept \in BOOLEAN : plugin_failed(a, kept)
    \/ \E how \in RequestCalls, stopped \in SUBSET reattach_req : complete_tail(a, how, stopped)
    \/ reset_request(a)
    \/ delete_workitem(a)

AddStep ==
    \E ok \in BOOLEAN :
        \/ init_context(ok)
        \/ configure(ok) \/ create_interfaces(ok) \/ add_usbdevice_emulation(ok)
        \/ create_queues(ok)

LifecycleNext ==
    \/ DriverEntry
    \/ driver_cleanup
    \/ \E ok \in BOOLEAN : initialize(ok)
    \/ AddStep
    \/ vhci_cleanup
    \/ \E a \in Attempts :
        \/ \E how \in PluginCalls : plugin_hardware(a, how)
        \/ AttachStep(a)
        \/ import_ends(a)
        \/ \E kept \in BOOLEAN : plugout_hardware(a, kept)
        \/ attach_request_ends(a)
    \/ \E stopped \in SUBSET reattach_req : stop_attach_attempts(stopped)
    \/ \E how \in {"names", "hash"} : stop_attach_attempts_failed(how)
    \/ vhci_query_remove
    \/ delete_vhci

LifecycleSpec == LifecycleInit /\ [][LifecycleNext]_lifecycleVars

\* The resolver and connect end, work items run, and the framework finishes what it
\* began.  Nothing is asked of the server, which import_ends waits for without a limit,
\* and nobody has to attach, detach or remove anything.
Fairness ==
    /\ \A a \in Attempts : WF_lifecycleVars(AttachStep(a))
    /\ WF_lifecycleVars(AddStep) /\ WF_lifecycleVars(vhci_cleanup) /\ WF_lifecycleVars(delete_vhci)

FairSpec == LifecycleSpec /\ Fairness

-----------------------------------------------------------------------------
(* Properties.                                                              *)

\* The device that device::create left behind when init_device failed.
Orphan(a) == dev[a] \in {"orphan", "freed twice"}

\* Whichever call fails and whenever the controller is removed, nothing is released
\* twice, an address list is never freed without the provider it came from (wsk::free
\* dereferences it), the collection of reattach requests holds none that was deleted, and
\* a driver that is unloaded has given everything back.  Left out: the extension of a
\* device whose init_device failed, which has two owners, and the strings that
\* STOP_ATTACH_ATTEMPTS loses when the hash of its location cannot be computed
\* (vhci_ioctl.cpp:601-604).
ReleasedOnce ==
    /\ \A r \in Resources : held[r] < 0 => \E a \in Attempts : r = Ext(a) /\ Orphan(a)
    /\ \A a \in Attempts : held[AddrInfo(a)] > 0 => "F_CAPTURE" \in g_init_flags
    /\ \A a \in reattach_req : held[Request(a)] > 0
    /\ drv = "unloaded" => \A r \in Resources \ Own({"attr"}) : held[r] <= 0

\* A running controller has ports that fit into one hub and delays that get_next_delay
\* accepts, whatever is in the registry: the assertions of set_usb_ports_cnt and
\* init_constants, and what HostController assumes of its constants.
SettingsInRange ==
    vhci = "up" =>
        /\ PortsFit(ports) /\ DelaysFit(reattach)
        /\ reattach.attempts * reattach.first <= MAX_TOTAL_DELAY

\* A server that stays connected and never completes its answer to OP_REQ_IMPORT.
SilentServer == [](\E a \in Attempts : pc[a] = "import")

\* PLUGIN_HARDWARE is completed, and the removal of the controller ends, whatever it
\* finds under way.  Left out: the provider could not be captured, which leaves the
\* request pending for ever, and a server that is silent, which import_remote_device
\* waits for (wsk_cpp.cpp:150, 404-405).
RemovalEnds ==
    (removing /\ vhci = "up") ~> (vhci = "none" \/ (\E a \in Attempts : pc[a] = "lost") \/ SilentServer)
=============================================================================
