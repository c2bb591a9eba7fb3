------------------------------ MODULE UdeFilter ------------------------------
(***************************************************************************)
(* usbip2_filter, the upper filter driver of the emulated hub, together    *)
(* with what usbip2_ude keeps per endpoint. UdeCx handles the selection of *)
(* configurations and interfaces itself, so a filter device object (FiDO)  *)
(* on every device watches such URBs complete and passes them on to        *)
(* usbip2_ude, packed in a control transfer that no real driver sends. The *)
(* function driver does not wait for that.                                 *)
(*                                                                         *)
(* PnP, UCX and UdeCx are external. They call endpoint_add for the pipes   *)
(* of a new setting before the URB that selects it completes, delete       *)
(* endpoints that are no longer used at some later time, and use the value *)
(* of a pipe handle again once its pipe is closed.                         *)
(***************************************************************************)
EXTENDS Integers, Sequences, FiniteSets, SequencesExt

CONSTANTS
    Pdos,       \* physical device objects of the children of the hub
    Dev,        \* the one whose URBs are modelled
    Settings,   \* settings of the device, as records [cfg, alt, addresses]
    Handles,    \* pipe handles
    MaxQueued,  \* bound on the requests in the queue before a pipe is reset
    MaxSelects, \* bound on the number of settings that are selected
    MaxFaults   \* bound on the number of failed allocations and attachments

NoHandle == 0

ASSUME DeviceAssumption ==
    /\ Dev \in Pdos
    /\ NoHandle \notin Handles
    /\ \A s \in Settings :
          s = [cfg |-> s.cfg, alt |-> s.alt, addresses |-> s.addresses] /\ IsFiniteSet(s.addresses)
    /\ MaxSelects \in Nat
    /\ MaxFaults \in Nat
    /\ MaxQueued \in Nat

VARIABLES
    hub,        \* the root hub: "none", "plain", "filtered" (there is a FiDO on it)
    children,   \* the PDOs of plugged devices
    reported,   \* those that a completed query told PnP about
    stacks,     \* those that PnP has a device stack for
    previous,   \* filter_ext::hub.previous, as a set
    fidos,      \* number of FiDOs on the stack of each PDO
    closed,     \* PDOs without a FiDO: it failed, or was removed while the device stayed
    odd,        \* history: PDOs for which "previous" was not true when it was not replaced
    faults,     \* number of faults so far
    selects,    \* number of settings selected so far
    os,         \* what Windows takes the device to be in: setting, pipes, number of the selection
    selecting,  \* the setting that UdeCx is making ready, <<>> if there is none
    endpoints,  \* the endpoint list of device_ctx, the newest first
    ep0,        \* requests in the sequential queue of the default control pipe
    busy,       \* is the first of them waiting for the answer of the server
    server,     \* the setting of the device at the server
    missed,     \* history: a selection that no FiDO passed on
    refused,    \* history: one that did not reach the server, or that the device there refused
    cleared,    \* history: the endpoint whose stall was to be cleared, and the one that was
    legacy      \* a vendor or class URB in the stack, and its form at the top

pnp == <<hub, children, reported, stacks, previous, fidos, closed, odd>>
io == <<selects, os, selecting, endpoints, ep0, busy, server, missed, refused, cleared, legacy>>
vars == <<pnp, io, faults>>

Unconfigured == [cfg |-> 0, alt |-> 0]
NoPipes == <<>>
Unselected == [setting |-> Unconfigured, pipes |-> NoPipes, at |-> 0]

-----------------------------------------------------------------------------
(***************************************************************************)
(* PnP: AddDevice, IRP_MN_QUERY_DEVICE_RELATIONS, IRP_MN_REMOVE_DEVICE.    *)
(***************************************************************************)
Fault == faults < MaxFaults /\ faults' = faults + 1

\* add_device for a PDO of usbip2_ude; any other is skipped. It never fails.
add_device ==
    /\ hub = "none"
    /\ \/ hub' = "filtered" /\ UNCHANGED faults
       \/ hub' = "plain" /\ Fault      \* do_add_device failed
    /\ UNCHANGED <<children, reported, stacks, previous, fidos, closed, odd>>
    /\ UNCHANGED io

\* remove_device of the hub, after its children; do_destroy frees "previous".
remove_hub ==
    /\ hub # "none"
    /\ children = {}
    /\ stacks = {}
    /\ hub' = "none"
    /\ previous' = {}
    /\ UNCHANGED <<children, reported, stacks, fidos, closed, odd, faults>>
    /\ UNCHANGED io

\* A device is plugged in. Its PDO may have the address of one that is gone.
PlugIn(p) ==
    /\ hub # "none"
    /\ p \notin children \cup stacks
    /\ children' = children \cup {p}
    /\ closed' = closed \ {p}
    /\ odd' = IF p \in previous THEN odd ELSE odd \ {p}
    /\ UNCHANGED <<hub, reported, stacks, previous, fidos, faults>>
    /\ UNCHANGED io

\* The device is gone; the FiDOs stay until IRP_MN_REMOVE_DEVICE.
PlugOut(p) ==
    /\ p \in children
    /\ children' = children \ {p}
    /\ UNCHANGED <<hub, reported, stacks, previous, fidos, closed, odd, faults>>
    /\ UNCHANGED io

\* Mutant of NewChildren: the children of the last query are not remembered.
AllChildren == children

\* The PDOs for which query_bus_relations creates a FiDO.
NewChildren == children \ previous

\* do_add_device for each of them.
Attach(pdos) == [p \in Pdos |-> fidos[p] + (IF p \in pdos THEN 1 ELSE 0)]

(***************************************************************************)
(* query_bus_relations after the lower drivers: a FiDO for every new PDO,  *)
(* one of which may fail, then a copy of the relations in place of the old *)
(* ones, which are kept if there is no memory for it.                      *)
(***************************************************************************)
query_bus_relations ==
    /\ hub = "filtered"
    /\ reported # children
    /\ \/ /\ fidos' = Attach(NewChildren)
          /\ previous' = children
          /\ UNCHANGED <<closed, odd, faults>>
       \/ /\ Fault                      \* do_add_device
          /\ \E failed \in NewChildren :
                /\ fidos' = Attach(NewChildren \ {failed})
                /\ closed' = closed \cup {failed}
          /\ previous' = children
          /\ UNCHANGED odd
       \/ /\ children # {}
          /\ Fault                      \* clone
          /\ fidos' = Attach(NewChildren)
          /\ odd' = odd \cup NewChildren \cup (previous \ children)
          /\ UNCHANGED <<previous, closed>>
    /\ reported' = children
    /\ stacks' = stacks \cup children
    /\ UNCHANGED <<hub, children>>
    /\ UNCHANGED io

\* The same of a hub that has no FiDO.
query_unfiltered ==
    /\ hub = "plain"
    /\ reported # children
    /\ reported' = children
    /\ stacks' = stacks \cup children
    /\ UNCHANGED <<hub, children, previous, fidos, closed, odd, faults>>
    /\ UNCHANGED io

\* What is left of the URBs of a device that is no longer there.
Reset(p) ==
    IF p # Dev THEN UNCHANGED io
    ELSE /\ os' = Unselected
         /\ selecting' = <<>>
         /\ endpoints' = <<>>
         /\ ep0' = <<>>
         /\ busy' = FALSE
         /\ server' = Unconfigured
         /\ missed' = FALSE
         /\ refused' = FALSE
         /\ cleared' = <<>>
         /\ legacy' = <<>>
         /\ UNCHANGED selects

\* remove_device of a child. Lower drivers have completed what the FiDO sent down.
remove_device(p) ==
    /\ p \in stacks \ reported
    /\ fidos' = [fidos EXCEPT ![p] = 0]
    /\ stacks' = stacks \ {p}
    /\ Reset(p)
    /\ UNCHANGED <<hub, children, reported, previous, closed, odd, faults>>

\* The same for a device that is disabled and enabled again: its PDO stays with the hub.
disable_device(p) ==
    /\ fidos[p] > 0
    /\ p \in reported \cap children
    /\ fidos' = [fidos EXCEPT ![p] = 0]
    /\ closed' = closed \cup {p}
    /\ Reset(p)
    /\ UNCHANGED <<hub, children, reported, stacks, previous, odd, faults>>

-----------------------------------------------------------------------------
(***************************************************************************)
(* Selection of a setting. Works says that the stack of the device is up.  *)
(***************************************************************************)
Works == Dev \in reported /\ Dev \in children

\* Mutant of insert_endpoint_list: the entry goes to the end of the list.
insert_endpoint_list_tail(list, e) == Append(list, e)

insert_endpoint_list(list, e) == <<e>> \o list

\* The descriptor of an endpoint is its address. "at" says for which selection it was made.
endpoint_ctx(a, at) == [address |-> a, handle |-> NoHandle, at |-> at]

\* endpoint_add for every pipe of the setting; the pipe handles are not known to it.
AddAll(list, addresses) ==
    FoldSet(LAMBDA a, acc : insert_endpoint_list(acc, endpoint_ctx(a, selects')), list, addresses)

\* Endpoints of the setting of the device, and of one that is being selected, are not deleted.
Used(e) == e.at = os.at \/ (selecting # <<>> /\ e.at = selects)

\* endpoint_add, called by UdeCx on the way down of a selection.
endpoint_add ==
    /\ Works
    /\ selecting = <<>>
    /\ legacy = <<>>
    /\ selects < MaxSelects
    /\ selects' = selects + 1
    /\ \E s \in Settings :
          /\ s.cfg # os.setting.cfg \/ s.alt # os.setting.alt
          /\ s.cfg # os.setting.cfg => s.alt = 0
          /\ selecting' = <<s>>
          /\ endpoints' = AddAll(endpoints, s.addresses)
    /\ UNCHANGED <<os, ep0, busy, server, missed, refused, cleared, legacy, faults>>
    /\ UNCHANGED pnp

\* One of its pipes cannot be added: the device is unplugged, UdecxUsbEndpointCreate fails, or
\* create_endpoint_queue does, when the endpoint is in the list already. The selection fails.
endpoint_add_failed ==
    /\ Works
    /\ selecting = <<>>
    /\ legacy = <<>>
    /\ selects < MaxSelects
    /\ Fault
    /\ selects' = selects + 1
    /\ \E s \in Settings :
          /\ s.cfg # os.setting.cfg => s.alt = 0
          /\ \E added \in SUBSET s.addresses : endpoints' = AddAll(endpoints, added)
    /\ UNCHANGED <<os, selecting, ep0, busy, server, missed, refused, cleared, legacy>>
    /\ UNCHANGED pnp

\* endpoint_cleanup of an endpoint that is not of the current setting.
endpoint_cleanup ==
    /\ \E i \in DOMAIN endpoints :
          /\ ~Used(endpoints[i])
          /\ endpoints' = RemoveAt(endpoints, i)
    /\ UNCHANGED <<selects, os, selecting, ep0, busy, server, missed, refused, cleared, legacy, faults>>
    /\ UNCHANGED pnp

\* Mutant of is_request_function: the selection of an interface is not passed on.
is_request_function_cfg(function) == function \in {"SYNC_RESET_PIPE", "SELECT_CONFIGURATION"}

is_request_function(function) ==
    function \in {"SYNC_RESET_PIPE", "SELECT_CONFIGURATION", "SELECT_INTERFACE"}

\* libdrv::clone, or the copy of any other URB: what the function driver may free meanwhile.
clone(function, s, pipes) ==
    [function |-> function, setting |-> [cfg |-> s.cfg, alt |-> s.alt], pipes |-> pipes,
     handle |-> NoHandle, address |-> 0, at |-> selects]

\* post_process_urb: every FiDO in the stack sends the same.
Packed(request) == [i \in 1 .. fidos[Dev] |-> request]

FunctionOf(s) == IF s.cfg # os.setting.cfg THEN "SELECT_CONFIGURATION" ELSE "SELECT_INTERFACE"

(***************************************************************************)
(* irp_complete of a successful selection: post_process_urb copies the URB *)
(* and sends it down, unless memory is missing. The URB then goes on to    *)
(* the function driver, which may use the pipes at once.                   *)
(***************************************************************************)
select_complete ==
    /\ selecting # <<>>
    /\ \E pipes \in [selecting[1].addresses -> Handles] :
          LET s == selecting[1]
              request == clone(FunctionOf(s), s, pipes)
          IN  /\ IsInjective(pipes)
              /\ os' = [setting |-> [cfg |-> s.cfg, alt |-> s.alt], pipes |-> pipes, at |-> selects]
              /\ \/ /\ ep0' = IF is_request_function(request.function) THEN ep0 \o Packed(request) ELSE ep0
                    /\ missed' = (fidos[Dev] = 0 \/ (missed /\ request.function # "SELECT_CONFIGURATION"))
                    /\ refused' = (refused /\ request.function # "SELECT_CONFIGURATION")
                    /\ UNCHANGED faults
                 \/ Fault /\ missed' = TRUE /\ UNCHANGED <<ep0, refused>>
    /\ selecting' = <<>>
    /\ UNCHANGED <<selects, endpoints, busy, server, cleared, legacy>>
    /\ UNCHANGED pnp

\* The selection failed: nothing is sent, the old setting remains with its endpoints.
select_failed ==
    /\ selecting # <<>>
    /\ selecting' = <<>>
    /\ UNCHANGED <<selects, os, endpoints, ep0, busy, server, missed, refused, cleared, legacy, faults>>
    /\ UNCHANGED pnp

\* A pipe was reset by its driver, with success: the FiDOs tell usbip2_ude.
reset_pipe_complete ==
    /\ Works
    /\ selecting = <<>>
    /\ Len(ep0) < MaxQueued
    /\ \E a \in DOMAIN os.pipes :
          ep0' = ep0 \o Packed([function |-> "SYNC_RESET_PIPE", setting |-> Unconfigured, pipes |-> NoPipes,
                                handle |-> os.pipes[a], address |-> a, at |-> os.at])
    /\ UNCHANGED <<selects, os, selecting, endpoints, busy, server, missed, refused, cleared, legacy, faults>>
    /\ UNCHANGED pnp

-----------------------------------------------------------------------------
(***************************************************************************)
(* usbip2_ude: the list of endpoints and the packed requests.              *)
(***************************************************************************)
\* endpoint_search: the value of the field that is looked for.
matches(endp, crit) == \A field \in DOMAIN crit : endp[field] = crit[field]

\* The first that matches, zero if none does.
find_endpoint(list, crit) ==
    LET found == {i \in DOMAIN list : matches(list[i], crit)}
    IN  IF found = {} THEN 0 ELSE CHOOSE i \in found : \A j \in found : i <= j

\* update_pipe_properties, for all interfaces of the URB.
update_pipe_properties(list, pipes) ==
    LET newest(a) == find_endpoint(list, [address |-> a])
    IN  [i \in DOMAIN list |->
            IF list[i].address \in DOMAIN pipes /\ newest(list[i].address) = i
            THEN [list[i] EXCEPT !.handle = pipes[list[i].address]] ELSE list[i]]

make_set_configuration(cfg) ==
    [recipient |-> "device", bRequest |-> "SET_CONFIGURATION", wValue |-> cfg, wIndex |-> 0]

\* The device has one interface.
make_set_interface(number, alt) ==
    [recipient |-> "interface", bRequest |-> "SET_INTERFACE", wValue |-> alt, wIndex |-> number]

make_clear_endpoint_stall(address) ==
    [recipient |-> "endpoint", bRequest |-> "CLEAR_FEATURE", wValue |-> 0, wIndex |-> address]

\* What the device at the server does with a setup packet.
Execute(packet) ==
    CASE packet.bRequest = "SET_CONFIGURATION" -> [cfg |-> packet.wValue, alt |-> 0]
      [] packet.bRequest = "SET_INTERFACE" -> [server EXCEPT !.alt = packet.wValue]
      [] packet.bRequest = "CLEAR_FEATURE" -> server

(***************************************************************************)
(* control_transfer of a packed request: unpack_request makes of it        *)
(* SET_CONFIGURATION, SET_INTERFACE or CLEAR_FEATURE(ENDPOINT_HALT), which *)
(* is sent. A pipe handle that is not known ends the request, and so does  *)
(* a wsk_context that cannot be had.                                       *)
(***************************************************************************)
IsSelection(packet) == packet.bRequest \in {"SET_CONFIGURATION", "SET_INTERFACE"}

Submit(packet) ==
    \/ busy' = TRUE /\ server' = Execute(packet) /\ UNCHANGED <<ep0, refused, faults>>
    \/ /\ Fault
       /\ refused' = (refused \/ IsSelection(packet))
       /\ \/ ep0' = Tail(ep0) /\ UNCHANGED busy   \* no memory
          \/ busy' = TRUE /\ UNCHANGED ep0        \* not sent, or RET_SUBMIT has an error
       /\ UNCHANGED server

select_configuration(r) ==
    /\ r.function = "SELECT_CONFIGURATION"
    /\ endpoints' = update_pipe_properties(endpoints, r.pipes)
    /\ Submit(make_set_configuration(r.setting.cfg))
    /\ UNCHANGED cleared

select_interface(r) ==
    /\ r.function = "SELECT_INTERFACE"
    /\ endpoints' = update_pipe_properties(endpoints, r.pipes)
    /\ Submit(make_set_interface(0, r.setting.alt))
    /\ UNCHANGED cleared

clear_endpoint_stall(r) ==
    LET i == find_endpoint(endpoints, [handle |-> r.handle])
        packet == make_clear_endpoint_stall(IF i = 0 THEN 0 ELSE endpoints[i].address)
    IN  /\ r.function = "SYNC_RESET_PIPE"
        /\ cleared' = <<[wanted |-> r.address, got |-> packet.wIndex,
                         current |-> r.at = selects /\ ~missed]>>
        /\ IF i = 0 THEN ep0' = Tail(ep0) /\ UNCHANGED <<busy, server, refused, faults>> ELSE Submit(packet)
        /\ UNCHANGED endpoints

unpack_request ==
    /\ ep0 # <<>>
    /\ ~busy
    /\ LET r == Head(ep0)
       IN  select_configuration(r) \/ select_interface(r) \/ clear_endpoint_stall(r)
    /\ UNCHANGED <<selects, os, selecting, missed, legacy>>
    /\ UNCHANGED pnp

\* RET_SUBMIT for it, or the send failed: the request is completed, the FiDO does not look at
\* its status, and the queue of the control pipe delivers the next one.
ret_submit ==
    /\ busy
    /\ busy' = FALSE
    /\ ep0' = Tail(ep0)
    /\ UNCHANGED <<selects, os, selecting, endpoints, server, missed, refused, cleared, legacy, faults>>
    /\ UNCHANGED pnp

\* bulk_or_interrupt_transfer and isoch_transfer note the pipe handle of the URB.
Transfer ==
    /\ Works
    /\ selecting = <<>>
    /\ \E a \in DOMAIN os.pipes :
          LET i == find_endpoint(endpoints, [address |-> a, at |-> os.at])
          IN  /\ i # 0
              /\ endpoints' = [endpoints EXCEPT ![i].handle = os.pipes[a]]
              /\ endpoints' # endpoints
    /\ UNCHANGED <<selects, os, selecting, ep0, busy, server, missed, refused, cleared, legacy, faults>>
    /\ UNCHANGED pnp

-----------------------------------------------------------------------------
(***************************************************************************)
(* Vendor and class requests, which UCX would otherwise refuse, are made   *)
(* control transfers on the way down and are restored on the way up.       *)
(***************************************************************************)
LegacyFunctions == {"VENDOR", "CLASS"}

\* get_request_type and vendor_class_to_control.
try_legacy_ctrl(urb) ==
    IF urb.function \notin LegacyFunctions THEN urb
    ELSE [function |-> "CONTROL_TRANSFER", flags |-> urb.flags \cup {"DEFAULT_PIPE"},
          reserved |-> <<urb.function, "IN" \in urb.flags>>, length |-> urb.length, wLength |-> urb.length]

control_to_vendor_class(urb, function) ==
    [urb EXCEPT !.function = function, !.flags = @ \ {"DEFAULT_PIPE"}, !.reserved = <<>>, !.wLength = 0]

Vendor(function, flags, length) ==
    [function |-> function, flags |-> flags, reserved |-> <<>>, length |-> length, wLength |-> 0]

(***************************************************************************)
(* int_dev_ctrl of every FiDO from the top; only the first sees a legacy   *)
(* function. It shares nothing with a selection: the model has such a      *)
(* request only before the first one.                                      *)
(***************************************************************************)
int_dev_ctrl ==
    /\ Works
    /\ legacy = <<>>
    /\ selecting = <<>>
    /\ os = Unselected
    /\ fidos[Dev] > 0
    /\ \E f \in LegacyFunctions, flags \in SUBSET {"IN"}, n \in {0, 1} :
          LET top == Vendor(f, flags, n)
          IN  legacy' = <<[top |-> top, urb |-> try_legacy_ctrl(top), done |-> FALSE]>>
    /\ UNCHANGED <<selects, os, selecting, endpoints, ep0, busy, server, missed, refused, cleared, faults>>
    /\ UNCHANGED pnp

irp_complete ==
    /\ legacy # <<>>
    /\ IF legacy[1].done
       THEN legacy' = <<>>
       ELSE \E n \in 0 .. legacy[1].urb.length :
              legacy' = <<[legacy[1] EXCEPT !.done = TRUE,
                  !.urb = control_to_vendor_class([@ EXCEPT !.length = n], legacy[1].top.function)]>>
    /\ UNCHANGED <<selects, os, selecting, endpoints, ep0, busy, server, missed, refused, cleared, faults>>
    /\ UNCHANGED pnp

-----------------------------------------------------------------------------
Init ==
    /\ hub = "none"
    /\ children = {}
    /\ reported = {}
    /\ stacks = {}
    /\ previous = {}
    /\ fidos = [p \in Pdos |-> 0]
    /\ closed = {}
    /\ odd = {}
    /\ faults = 0
    /\ selects = 0
    /\ os = Unselected
    /\ selecting = <<>>
    /\ endpoints = <<>>
    /\ ep0 = <<>>
    /\ busy = FALSE
    /\ server = Unconfigured
    /\ missed = FALSE
    /\ refused = FALSE
    /\ cleared = <<>>
    /\ legacy = <<>>

Next ==
    \/ add_device
    \/ remove_hub
    \/ \E p \in Pdos : PlugIn(p) \/ PlugOut(p) \/ remove_device(p) \/ disable_device(p)
    \/ query_bus_relations
    \/ query_unfiltered
    \/ endpoint_add
    \/ endpoint_add_failed
    \/ endpoint_cleanup
    \/ select_complete
    \/ select_failed
    \/ reset_pipe_complete
    \/ unpack_request
    \/ ret_submit
    \/ Transfer
    \/ int_dev_ctrl
    \/ irp_complete

Spec == Init /\ [][Next]_vars

-----------------------------------------------------------------------------
(***************************************************************************)
(* query_bus_relations keeps the relations of the last query because it is *)
(* called again for every child that comes or goes: a device that PnP      *)
(* knows has one filter on its stack, neither none nor a second one that   *)
(* would send every selection twice. It is not so after the memory for the *)
(* copy was missing, and for a device that was disabled.                   *)
(***************************************************************************)
OneFilterPerDevice ==
    hub = "filtered" =>
        \A p \in reported \ (closed \cup odd) : fidos[p] = 1

(***************************************************************************)
(* The server is told of every selection, in their order: when nothing is  *)
(* under way any more it has the setting that Windows believes the device  *)
(* to have, although nobody waits for the requests of the filter. One that *)
(* could not be sent, or that the device refused, is the exception until   *)
(* the next configuration is selected: nobody learns of it.                *)
(***************************************************************************)
ServerFollows ==
    ep0 = <<>> /\ selecting = <<>> /\ ~missed /\ ~refused => server = os.setting

(***************************************************************************)
(* A pipe handle finds the endpoint that it names now, though a handle may *)
(* have belonged to a pipe of an earlier setting whose endpoint is not yet *)
(* deleted: CLEAR_FEATURE(ENDPOINT_HALT) goes to the pipe that was reset.  *)
(* It is not so after a selection that failed: the handles of the setting  *)
(* that stays may have been noted for endpoints of the other one.          *)
(***************************************************************************)
RightEndpointCleared ==
    cleared # <<>> /\ cleared[1].current => cleared[1].got = cleared[1].wanted

=============================================================================
