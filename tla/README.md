# Verification of the usbip-win2 client

TLA+ specifications of the drivers and programs of this repository, the TLC configurations that
check them on small instances, and TLAPS proofs of their main invariants for every instance.
`PROJECT.json` lists components, runs, mutants, hazards and theorems, and maps every definition to
the lines of code it stands for.

## The system

`usbip2_ude` (`src/drivers/ude`) emulates a USB host controller. For each device imported from
a USB/IP server it keeps a TCP connection (Winsock Kernel), turns the URBs of the upper drivers
into CMD_SUBMIT messages and completes them from RET_SUBMIT. A filter decides by the descriptors
of a device whether it may be attached. `usbip2_filter` (`src/drivers/ude_filter`) sits on the
emulated hub and tells `usbip2_ude` about selections that UdeCx handles itself. Applications
(`usbip`, `wusbip`) control the driver with ioctls, through `libusbip`; `devnode` installs it.

| Component | State | Operations | What is hard | What makes it correct |
|---|---|---|---|---|
| URBs of a device (`request_list`, `device_ioctl`, `wsk_receive`, `device`) | list of pending requests, `request_ctx`, sequence numbers | submit, send completion, RET_SUBMIT, cancel, endpoint purge/start, detach | five parties race for a request; handles are recycled | every request has one holder and is completed once, for its own URB; cancelled and detached URBs are completed |
| Socket gate (`wsk_cpp`, `network`) | `invoke_cnt` with a counter and two bits, an event | invoke, close | lock-free counter against close, timeout | no call is inside when the socket is closed, and the closing thread is woken |
| Device events (`vhci`, `vhci_ioctl`) | file objects, their collections, parked reads, number of subscribers | open, read, close, post, purge | unlocked first look at the count, reads parked while posting, bounded collections | no reader sleeps over an event, order, nobody is passed over |
| Attach and detach (`vhci`, `vhci_ioctl`, `device`) | `vhci_ctx::devices`, ports, `unplugged` flags, receive threads, the sequential queue | PLUGIN, PLUGOUT, asynchronous detach, query remove | work items that outlive their request, threads that ask for their own join, numbers used after they changed | ports and devices agree, devices are deleted when unused, nothing hangs, removal drains |
| Reattach (`persistent`) | `reattach_req`, timers, retry counters | start, timer, completion, stop | a cancel races the timer, the queue and the completion | a stopped request stays stopped |
| Device filter (`device_filter*`, `descriptor_patch`) | policy in the registry, descriptor snapshot | load, store, check, present | input from the network, judged once and used later; lengths that lie | everything that is presented was allowed; errors deny |
| Transfer conversion (`proto`, `urbtransfer`, `wsk_receive`, `device_ioctl`, `wsk_context`) | contexts recycled by a lookaside list, sequence counter | each transfer function, MDL chains, packing and unpacking of isochronous buffers | in-place moves, recycled sizes, a direction bit in a number that wraps | what is sent and received fits and lands at its place |
| `usbip2_filter`, endpoint list | filter devices of a hub, pipe handles | AddDevice, bus relations, selections and stalls passed on | asynchronous, handles used again, allocation failures | one filter per device, the server follows the function driver, the right endpoint is cleared |
| Driver set-up (`driver`, `vhci`, `persistent`, `wsk_cpp`) | objects, the WSK provider, numbers from the registry | load, add, attach, remove, unload | every call may fail half-way; two owners | everything is released once, the removal ends, settings are in range |
| `libusbip` (`remote`, `persistent`, `vhci`, `usb_ids`) | a handle or a socket, a parsed file | connect, list, read and write persistent devices, imported devices | cancellation by APC, a server that stops at any byte, values that change between two calls | a list is whole, a read is one value, a cancelled call ends |
| `usbip`, `devnode` | none beyond a command | attach, detach, list, port, filter; install, remove | processes beside each other and beside the driver | what is listed is there, what is removed is what was meant |
| `wusbip` | the device tree, saved and persistent devices, a reader thread | commands of the user, device events, the filter dialog, closing | events between two steps of a command, joins of threads that wait | rows agree with the driver, held rows exist, closing ends, saving widens nothing |

Interaction: the default queue of the controller (`device_control`) creates and detaches
devices; a device owns a socket (through the gate), a receive thread and a list of requests; a
broken connection makes the receive thread, or a failed send, put a detach in that same queue;
attach, detach and failures post events, which the reader thread of `wusbip` turns into updates of
its tree; a failed attach or a lost device starts attach requests, which come back to the queue as
PLUGIN_HARDWARE_ONCE. Ioctls that only read or store (imported devices, persistent devices, the
filter's policy) run in a parallel queue beside all that.

## Modules

| Module | Models |
|---|---|
| `UrbRequests` (`MCUrbRequests`, `UrbRequestsProofs`) | the URBs of one device, from the endpoint queue to their completion |
| `UrbCustody` | abstract: a request passes from the framework to its sender, the list, and whoever takes it out and completes it; implemented by `UrbRequests` |
| `SocketGate` | abstract: calls may enter while the gate is open; it closes when nobody is inside, or by timeout |
| `WskSocket` (`WskProofs`) | `SOCKET::invoke`, `wait_invokers`, `close_socket` at the grain of their Interlocked operations; implements `SocketGate` |
| `DeviceEvents` (`MCDeviceEvents`, `VhciProofs`) | file objects, reads and events of the controller |
| `HostController` (`HostControllerProofs`) | attach, detach, ports, reattach and removal |
| `DescriptorParser` | the parser of configuration descriptors, the whitelist test, the patch for UdeCx |
| `DeviceFilter` | the policy in the registry, the check of a device and the snapshot that is presented; extends `DescriptorParser` |
| `FilterClients` (`MCDeviceFilter`, `FilterClientsProofs`) | library, dialog, marks and command line that read and write the policy; extends `DeviceFilter` |
| `Transfers` (`MCTransfers`, `WskProofs`) | the conversion between URBs and messages |
| `UdeFilter` (`MCUdeFilter`, `FilterAndToolsProofs`) | `usbip2_filter` and the endpoint list of `usbip2_ude` |
| `Settings`, `DriverLifecycle` (`MCDriverLifecycle`, `VhciProofs`) | numbers from the registry; loading, adding, attaching, removing, with every failure |
| `MainFrame` (`MainFrameProofs`) | the device tree of `wusbip` and the part of the driver it talks to |
| `Remote`, `DeviceList`, `SavedDevices`, `ClientThreads` (`MCClientThreads`, `ClientThreadsProofs`) | connecting, the list of a server's devices, persistent devices, and the threads of `wusbip` that call them |
| `DevNode`, `UsbIds`, `Commands` (`MCCommands`, `FilterAndToolsProofs`) | `devnode`, the names of `usb.ids`, and the command line tools beside the driver |

Definitions keep the names of the functions they model. A definition whose comment begins
with "Mutant of" is a deliberately wrong version of the one after it, used to see that the
properties notice. Modules compose by EXTENDS: `FilterClients` is the driver's filter and its
clients in one next-state relation, `ClientThreads` runs `Remote`, `DeviceList` and `SavedDevices`
as steps of its threads, `Commands` runs `DevNode` and `UsbIds` beside the tools. A module of
proofs may extend two specifications that share nothing; the formulas of the second are then named
after it (`TransfersSpec`, `LifecycleSpec`, `CommandsSpec`).

### UrbRequests

A handle (`Requests`) is what the framework recycles; an URB (`Seqnums`) is what the upper
driver waits for, and the same handle stands for several URBs in turn. `stage` is the
progress of `send()` and of `send_complete` for each URB; `wdf` the state the framework keeps
for a handle; `ctx...` the fields of `request_ctx`, which are not reset when the handle comes
back. Each operation under `requests_lock` is one step, and `endpoint_purge`,
`send_complete`, `cancel_request` and `recv_loop` are split where the lock is released. The
contract of the framework (complete once, as the owner, not while cancelable, and so on) is
recorded in `faults` rather than assumed.

Abstractions: the order of the list (a set; only the lookup matters); payloads;
the header of RET_SUBMIT names a sequence number that is on the wire or one that is not known
any more. "acked" marks a send whose answer has arrived: it cannot fail afterwards. Requests of
`endpoint_reset` do not come from an endpoint queue, so a purge does not wait for them
(`queued`). The join of the receive thread gives up after a minute and the detach goes on, so
`recv_thread_join` does not wait for the thread: it may still take a request out of the list, and
complete it, while UDE purges the endpoints. Sequence numbers do not wrap.

`Holder` says who has a request, and with it `UrbRequests` implements `UrbCustody`
(`ImplementsCustody`). A failed send that is applied to another URB (item 1 below) maps to
`Undefined`, after which nothing is promised.

### WskSocket and SocketGate

`invoke_cnt` is split into `count`, `closing` and `eventSet`, each changed by the Interlocked
operation that changes it in the code. A call enters by incrementing the counter and then looks
at the bit it read with it; a call that is turned away has still been counted for a moment. The
wait may time out. `MaxCalls` bounds the number of calls.

### DeviceEvents

Every section under `events_lock` is one step. `device_state_changed` looks at
`events_subscribers` without the lock, then again with it, then makes the event, then hands it
out: three steps that other threads may come between. A read goes through the default queue
(`waiting`) before `device_read` sees it, and the file may be closed meanwhile. `lost` stands
for the failures of WdfCollectionAdd and for answers of a purged queue. `delivered`, `dropped`,
`missed`, `audience` and `log` are history.

### HostController

The default queue is a sequence with one request delivered at a time (`cur`, `pc`). An attach goes
through `addrinfo`, `connect`, `import`, `claim`, `plugin`; a failure after the device exists goes
through `detach` like a PLUGOUT. What `complete()` does after WdfRequestComplete is a `tail` that
runs beside the next request. A receive thread that sends the detach of its device may be the thread
that carries it out (`runner`), in which case `recv_thread_join` does not wait for it; a thread that
has not ended after a minute becomes `late`, and the device is plugged out and deleted all the same.
The server may stay silent in `import`, for which the receive waits without a limit.
`stop_attach_attempts` takes all matching requests out of the collection in one step (its loop locks
for each, but new ones are only ever added), and cancels them one by one later.

Abstractions: the text of the registry, the length of delays, contents of events, the list of
addresses (any number of connection attempts). That a cancelled request fails at the next
send is what the comment of `stop_attach_attempts` says of the framework, and is taken as
external. A device reports one failed send (`broken`). The test of `unplugged` and the reading
of `port` that follows it are one step: the join comes before the port is given back, and the
socket closes only after its completion routines. The server may give away a device whose
connection it lost, so two devices of the same location can exist. The controller is removed
once. A device whose plugout failed, or that was only closed (PORT_ALL_CLOSEONLY), stays until
the controller goes.

### DescriptorParser, DeviceFilter and FilterClients

Descriptors are sequences of bytes, and the parser reads at the offsets of the code: a length
that lies shifts everything after it. `DeviceFilter` runs the check step by step (device
descriptor, header of a configuration, whole configuration, snapshot), the server answers every
GET_DESCRIPTOR as it likes, and the ioctls of the parallel queue store another policy between any
two steps. `check_device` loads the policy once (`policy`, `source`); `given` records the bytes
that were judged, `seen` what Windows is shown later. `FilterClients` adds the readers and writers
in user space: the two calls of `get_device_filter` with the buffer that grows between them, the
dialog (`opened` is what it was opened with), the marks in the tree and `usbip filter`.

Abstractions: fields of a descriptor that nobody reads are short; a registry value is its type,
the room it has for entries, and its entries.

### Transfers

One URB at a time goes through submission, the answer and its copy into the URB, in a
`wsk_context` that a lookaside list recycles with the arrays it had allocated. Lengths and
offsets are numbers, a buffer is a sequence of byte positions, so that an in-place move that
overwrites its source is seen. `stage` is where the URB is. Sequence numbers have `SeqnumWidth`
values and wrap; the lowest bit is the direction. An isochronous URB may have no packets: then the
context is not isochronous, and what its array described before must not be sent. The server's
answer takes every header that passes or fails the checks. `actual_length` is a signed number, and
becomes a ULONG or a size_t where the code converts it (`UlongWidth`, `SizeWidth`): a negative one
can cancel out the size of the descriptors, so that nothing is received and `isoch_transfer` meets
the descriptors of an earlier answer (`StaleDescriptors`). What follows is then undefined, and
`PayloadFits` says that there is no other way there.

### UdeFilter

PnP (`reported`, `stacks`), the filter device objects (`fidos`), the relations that
`query_bus_relations` remembers (`previous`), the function driver of one device with its
selections, the requests that the filter queues to the control endpoint (`ep0`), the endpoint list
of `usbip2_ude` and the server. UCX reuses the value of a handle once the pipe is closed, and
deletes endpoints late. A missing allocation is a fault (`MaxFaults`); `odd` holds the devices for
which the copy of the relations could not be made, `missed` that a selection could not be passed
on, `refused` that it could not be sent (`control_transfer` returns an error, which nobody waits
for) or that the device at the server refused it.

### Settings and DriverLifecycle

`Settings` has the arithmetic of `vhci.cpp` on registry numbers: ports of the root hub and the
delays between attach attempts, with the conversion of ULONG to int. `DriverLifecycle` counts for
each resource how often it was acquired and released (`held`): driver entry, the controller, and
the objects of each attach (the extension and its strings, the address list, the pool block and
IRPs of a socket, the socket of the provider, the request that attaches again), where each call
that can fail does fail in some behaviour. A failure after other calls succeeded is a state in
which those resources are held (a work item with a part of the extension, a socket without its
IRPs or its provider's socket, an attach request without its buffers), and the code that frees
them is an action of its own (`delete_workitem`, `socket_failed`, `reset_request`). The import is
a state too, in which the driver waits for the server. `attr` counts the strings that
`stop_attach_attempts` loses. The queue, ports and threads are those of `HostController` and are
not repeated.

### MainFrame

A row of the tree for each location with the columns that commands read back, the queue of events
and the driver's side of an attach and detach. `src` are the origins of events (an attach under
way or a device), because the last event of a failed attach may come after the first one of the
next. A command that opens a dialog holds rows (`held`) while events go on. `doubt` holds the
locations whose row may show a wrong port: `is_port_residual` kept an old one, UDE failed to plug
the device out, or an event was posted while nobody was subscribed.

### Remote, DeviceList, SavedDevices and ClientThreads

`Remote` is `connect` with GetAddrInfoEx and a connect of a non-blocking socket whose event
(WSAEventSelect) is waited for, cancelled by an APC that only an alertable wait runs. `DeviceList`
is the exchange of OP_REQ_DEVLIST on a blocking socket. `SavedDevices` has writer and both parsers
of the REG_MULTI_SZ value (a string is the sequence of what is between its commas) and the read in
two calls. `ClientThreads` runs these as steps of the GUI thread and the worker thread of
`run_cancellable`, beside the reader thread and its end by CancelSynchronousIo. `overtaken` marks a
cancellation that hit a read that had just been completed, `lost` a cancellation at the moment a
name was resolved: in both the code waits for something that need not come, and the liveness
properties except them. So they do a join after CancelSynchronousIo failed with another error
(`join_uncancelled`); a command whose APC could not be queued is not cancelled (`uncancelled`).
`SavedDevices` has the failures of the registry and of memory: a read that fails has no result, and
the driver skips a string whose location it cannot hash.

### DevNode, UsbIds and Commands

Processes of `usbip` beside each other and beside the driver, with the ioctls that the parallel
queue answers at once: `get_imported_devices` looks at one port after the other while devices come
and go. `steady` are the devices that kept their port from the first look to the last. `UsbIds`
parses a file line by line, and is compared with a definition that looks names up in the file. A
class does not make `parse_class_sub_proto` forget the subclass before it, so a protocol directly
below a class would be filed under a subclass of another one; `IdsAssumption` says that a file has
no such line, as the bundled `usb.ids` has none. `DevNode` runs one tool at a time and each Setup
API call may fail; an enumerator limits what a removal looks at, and a node whose removal needs a
reboot stays until then.

## Runs

| Run | Instance | Shows |
|---|---|---|
| `urb` | 2 handles, 1 endpoint, 2 URBs | `FrameworkContract`, `AnsweredIsNotUnlinked`, `CleanupAssertions`: one holder, one completion, for its own URB, in every order of sends, answers, cancels, purges and detach; `CancelledUrbCompletes`, `DetachCompletesUrbs`: unless a send was refused, cancelled URBs and those of a detached device are completed; all of it also if the receive thread outlives its join |
| `wsk_socket` | 2 callers, 2 closers, 5 calls | `ImplementsGate`, `NoLostWakeup`: refinement of the gate, and the closing thread is woken |
| `events` | 2 files, 2 posting threads, collections of 2, 3 events, 1 read per file at a time | `ParkedReadMeansNoEvents`, `EventsInOrder`, `SubscribersHearEvents` |
| `vhci_ports` | 2 locations of different speed, 2 ports, 2 devices, 1 persistent location, 1 attach request that is not tried again, 1 request of an application | `PortsAgree`; `DeletedDevicesAreUnused`, but for a thread that outlived its join |
| `vhci_reattach` | 1 location, port, device and request of an application, 2 attach requests of 2 attempts | `StoppedStaysStopped`, `RemovalDrains`, `QueueMoves`: the removal ends with nothing attached, and the default queue does not hang; both but for a server that stays connected and silent |
| `filter` | devices, configurations with lengths that lie and policies of `MCDeviceFilter`; up to 3 entries, 2 writes | `EverythingWasJudged`, `PresentedIsAllowed`, `FailClosed` for the driver; `MarkedIsRefused`, `DialogNeverWidens` for its clients |
| `transfers` | 0 to 2 isochronous packets, lengths up to 3, `actual_length` also negative, sequence numbers with 4 values, a lookaside list of depth 1 | `SentMessageFits`, `PayloadFits`, `DirectionSurvives`, `DataInPlace` |
| `hub_filter` | 2 children, 2 handle values, 2 selections, 1 fault | `OneFilterPerDevice`, `RightEndpointCleared`; `ServerFollows`, unless a selection was missed or refused |
| `lifecycle` | 2 attaches, 2 addresses, the controller added twice, 2 registries at the limits of the settings, 1 leak of `stop_attach_attempts` | `ReleasedOnce` with every partial failure, `SettingsInRange`; `RemovalEnds`, but for a missing provider or a silent server |
| `client` | 2 locations, 2 ports, 2 sources of events, a backlog of 1, 1 command | `RowPortAgrees`, `HeldRowsExist` |
| `threads` | 2 addresses, 2 tries, 2 devices with 1 interface, 2 writes of the registry value | `ListIsWhole`, `ReadIsOneValue`, `StoredIsUnderstood`; `CloseEnds`, `CommandEnds` |
| `commands` | 2 processes, 3 locations, 2 ports, 3 commands, files of `MCCommands` | `SteadyIsListed`, `RemoveIsExact`, `NamesAreDeclared` |

Every property has a mutant of the code that violates it (`mutants` in `PROJECT.json`).

**Bounds.** Two handles with two URBs let two requests compete and one handle be reused; the
races are between the holders of one request, and a third one adds no party. The first URB of `urb`
uses `FirstRequest` (`FirstHandle`), which loses nothing because handles are interchangeable; the
run has liveness properties, so it cannot use symmetry. Three events in collections of two are the
least that overflow. Two ports with one in each range are the least for which `get_port_range`
matters, two devices the least that exchange a port. Configurations of the filter run are as long
as needed for an interface, an endpoint and a length that reaches past either. Two isochronous
packets with gaps are the least that an in-place move can spoil, and sequence numbers with 4 values
wrap within a few URBs. Two selections are the least that can be reordered or reuse a handle; two
writes of a value the least that change both its size and its content between the calls of a read.
Two processes and two ports let a device move while another process looks at the ports. The
negative lengths of `transfers` are those of one and of two descriptors and one that is no multiple;
its widths are large enough that no other size of the instance wraps. `MaxLeaks` only bounds a
counter. The sets
of files and threads in `events` and of processes in `commands` are symmetric; neither run has a
liveness property. The theorems hold without bounds; what is only model-checked depends on them.

**Deadlock** is checked in `transfers`, `hub_filter` and `client`. The other systems end: the
device is deleted, the window closed, the bounded calls, events, attempts or commands are used up.

**Fairness.** `UrbRequests`: WSK completes sends it accepted, a header that arrived is followed by
its payload or by an error, a thread in the driver runs on, and UDE purges the endpoints of a device
it plugs out; nothing is assumed of the server's answers or of upper drivers. `WskSocket`: WSK calls
return, since they are asynchronous; the timeout need not expire. `HostController`: the framework
delivers requests, calls completion routines and fires timers; WSK resolves a name and connects, or
fails to, in finite time. Nothing is asked of the server: it may accept the connection and never
answer OP_REQ_IMPORT, which the receive waits for without a limit (`wsk_cpp.cpp:150`), so there is
no fairness for the step that ends `import`, and `RemovalDrains` and `QueueMoves` except a behaviour
that stays there for ever (`SilentServer`). Nor is anything asked of receive threads: the join ends
by its timeout. Connections need not break and nobody has to ask for anything. `RemovalDrains` is
about removals whose detach could be sent (`remove = "sent"`): `async_detach_and_delete` gives up,
with a trace, when it finds no memory. `DriverLifecycle`: resolving and connecting end, work items
run, the framework finishes an AddDevice and a removal it began; the server need not answer
(`SilentServer`), and nobody has to attach or remove. `ClientThreads`: the three threads run, and
the resolver ends a request that was cancelled; nothing is assumed of network, driver or user.

## Where the code and its comments disagree

Met while modelling. The models do what the code does; a property that one of these would break
excepts it by name, as its comment says.

Driver:

1. `device_ioctl.cpp:66`: `send_complete` looks a request up by its handle. If `endpoint_purge`
   completed it and the handle came back with another URB, a late failure of the first send
   completes the second URB. The comment above `mark_request_cancelable` gives the reason to use the
   sequence number there. Safety in `UrbRequests` is stated for behaviours without it
   (`NoStaleSend`).
2. `device_ioctl.cpp:149`: when the socket is closing, `SOCKET::invoke` refuses the call and does
   not complete the IRP, while `send()` relies on its completion routine: the request stays.
3. `wsk_cpp.cpp:358`: the assertion is too strong, calls that are being turned away are counted
   for a moment.
4. `vhci_ioctl.cpp:1030`: a first read that arrives after the handle was closed counts a
   subscriber that is not in the list; `events_subscribers` stays too high, never too low.
5. `device.cpp:786`: an asynchronous detach carries a port number. Two can be sent for one device,
   and a PLUGIN between them gets the port and is detached.
6. `vhci_ioctl.cpp:457`: `complete()` reads the extension after the request was completed, when
   the device that owns it may have been deleted.
7. `device.cpp:742`: if `init_device` fails the device has already taken the extension, which the
   work item frees as well. `ReleasedOnce` excepts such a device (`Orphan`).
8. `wsk_receive.cpp:340`: `make_mdl_chain` links the MDL of the packets behind that of the buffer
   tail. The latter stays with the recycled context, and `alloc_mdl_buf_tail` asserts that it has
   no successor when it finds one of the right size (`wsk_context.cpp:195`). Likewise
   `wsk_receive.cpp:193`: the answer to an isochronous URB without packets has no payload, so the
   receive context is not prepared for it, and the assertion compares zero with the number of
   packets of an earlier answer. The same happens with packets if a negative `actual_length` makes
   the payload zero (`pdu.cpp:151`); then descriptors of an earlier answer are swapped and used.
9. `persistent.cpp:53`: `reattach_req_count` locks with a temporary that is destroyed at the end
   of the statement: the count is read without the lock.
10. `device.cpp:180`: a purge between `append_request` and WskSend puts CMD_UNLINK before the
    CMD_SUBMIT it refers to.
11. If the WSK provider cannot be captured a PLUGIN_HARDWARE request is never completed;
    `RemovalEnds` excepts it.
12. `get_imported_devices` is no snapshot: a device that moves between two looks may be missing or
    appear twice. `SteadyIsListed` is what remains true. `plugin_persistent_devices` stops after as
    many strings as there are ports, before it knows which of them parse.
13. `device.cpp:98`: the join of the receive thread gives up after a minute with a trace message,
    the comment after it says "it's safe to dereference(delete) now", and `detach` goes on to
    UdecxUsbDevicePlugOutAndDelete while the thread may still use the device.
    `DeletedDevicesAreUnused` excepts such a thread (`late`).
14. `wsk_cpp.cpp:150`: a server that accepts the connection and never answers OP_REQ_IMPORT holds
    the sequential default queue, the attach, and the removal of the controller for ever.
15. `device_ioctl.cpp:265`: a selection that the filter passes on and that cannot be sent, or that
    the server answers with an error, leaves the server at the old setting; the filter driver has
    completed the URB by then, and nobody learns of it. `ServerFollows` excepts it (`refused`).
16. `device.cpp:519` ("Filtering disabled retains the historical fully-dynamic behaviour") and
    `descriptor_patch.cpp:36` ("filter disabled: patch the live remote response") say that a
    disabled filter leaves the descriptors to the server. `check_device` takes the snapshot in that
    case too (`device_filter.cpp:570`, "snapshotting descriptors for UdeCx"), and so does the model:
    `EverythingWasJudged` holds for a disabled filter because every class is allowed then.
17. `vhci_ioctl.cpp:601`: `init_device_attributes` that fails at the hash of the location leaves
    its strings behind; `free` is called only if it succeeds. `ReleasedOnce` leaves them out.

User space:

18. `libusbip/src/vhci.cpp:460`: the test of `assign` in `stop_attach_attempts` is inverted
    compared with the documentation in `vhci.h:188`.
19. `wusbip.cpp:663`: the port of a row is cleared only if the event carries one, and the events
    of the residual states that `is_port_residual` (`wusbip.cpp:93`) says to have port zero carry
    none: a row can keep the port of its last device while it connects again (`doubt`).
20. `attach()` holds rows without a devid across its modal dialog, and such rows can be removed by
    an event; `HeldRowsExist` is about detach and edit. `on_reload` asserts that a row is new,
    which fails with two devices of one location.
21. CancelSynchronousIo on a read that was completed a moment before has no effect, and the join
    then waits for the next event (`overtaken`); GetAddrInfoExCancel has the same gap (`lost`).
    `wusbip.cpp:606`: another error of CancelSynchronousIo than ERROR_NOT_FOUND ends the loop, and
    the reader is joined while it reads (`join_uncancelled`). An APC that could not be queued is
    only logged (`wxutils.cpp:129`), and the connect goes on. The first ReadFile waits behind an
    attach in the default queue.
22. `recv` at the end of the stream returns false without an error code, so the reason shown is an
    old one. `enum_exportable_devices` runs in the GUI thread and blocks it while the server is
    silent: `CommandEnds` counts its call as an end.
23. `wusbip.cpp:669`: a row that is updated from the saved devices loses edits that were not saved;
    `wusbip.cpp:1450`: one malformed serial number refuses the whole list. Names with a comma are
    accepted on writing and dropped on reading (`StoredIsUnderstood` says that they become no
    other device). OK in the filter dialog drops entries that belong to no full category, which
    narrows the policy, never widens it.
24. `devnode remove` returns success even if DiUninstallDevice failed; `RemoveIsExact` therefore
    speaks of removals without an error, and without the reminder that a reboot is needed.

## Proofs

All are safety properties, for every value of the constants that satisfies the named assumptions
of the modules (`ConstantsAssumption`, `ThreadsAssumption`, `EventsAssumption`,
`ControllerAssumption`, `FilterAssumption`, `FilterClientsAssumption`, `DeviceAssumption`,
`MainFrameAssumption`, `AddrsAssumption`, `DeviceListAssumption`, `SavedAssumption`,
`LifecycleAssumption`, `CommandsAssumption`, `IdsAssumption`, `BoundsAssumption`,
`UrbsAssumption`): types and signs of the bounds, what the framework guarantees of its objects,
what the Windows headers say of an URB or a registry value, and the order of lines in `usb.ids`. TLC
evaluates each of them in the runs.

Loops and recursive definitions are proved by induction over a set of numbers: `LeastNumber` and
`SetInduction` follow from the well-foundedness of the naturals, and a recursive function is first
shown to exist, by extending a solution for some arguments by one more, so that it satisfies its
own definition.

- **`UrbRequestsProofs`.** None of the safety properties is inductive: that a request in the list is
  owned depends on where every other party is. `Custody` says that a request the driver owns has
  exactly one holder: the sending thread, the list, a purge, the receive thread or the cancel
  callback, and what its context says in each case. `IInv` is `TypeOK` and, unless a stale send
  occurred, `Custody`. `TypeCorrect`, `Invariance`, `FrameworkContractHolds`,
  `ListedRequestsAreLiveHolds`, `AnsweredIsNotUnlinkedHolds`, `CleanupAssertionsHold` follow. That
  UDE destroys the device only when the driver owns nothing is why a late receive thread has nothing
  left to complete. `NoOrphansHolds` is the converse of `Custody`: a request that is owned has a
  holder, and one in the list whose send is over can be cancelled. Together they make `Holder` a
  function that changes only as `UrbCustody` allows (`CustodyRefinement`): an action either leaves
  the holder of every request alone, for which there is one lemma, or hands one over, and the
  cancellation of a whole queue hands over a set of them at once. TLC checks `ImplementsCustody`
  with the constants of `urb` too.
- **`WskProofs`.** For the gate, `IInv`: the counter is the number of threads between increment and
  decrement; once it has been zero after CLOSING was set nobody is inside, even if the counter grows
  again. `SignalledOnceHolds`, and `Refinement`: every step is a step of `SocketGate` or a stutter.
  `WakerExistsHolds` needs `WakeInv`: EVENT_SET while a thread waits means that the event is set or
  about to be. For `Transfers`, `TransferInv`: whatever message a context carried, its MDLs describe
  no more than it has allocated, and between submission and answer the message fits the URB
  (`MessageFits`). `NextSeqnum` is the arithmetic of the counter modulo any even width, and
  `PayloadChain` that the parts of a chain add up to the payload, also when a negative length was
  converted: `check` refuses it wherever it is received. `fill_isoc_data` goes from the last packet
  to the first (`FilledStep`): what is not yet moved is where it was received, what was moved lies
  beyond the end of the packet at hand because the offsets rise (`OffsetsRise`), and the rest of the
  length is the sum of the packets before it (`SumIs`). `SentMessageFitsHolds`, `PayloadFitsHolds`,
  `DirectionSurvivesHolds`, `DataInPlaceHolds`.
- **`VhciProofs`.** For the events, `IInv`: the count is at least the number of subscribers
  (`CountCovers`), which is why a zero read without the lock means that no earlier subscriber is
  forgotten. `ParkedReadMeansNoEventsHolds` and `SubscribersHearEventsHolds`. For
  `EventsInOrderHolds` the invariant `OrderInv` is over what a file got followed by what waits for
  it: that whole sequence is in the order of the log, which replacing the oldest waiting event and
  moving the first one to a read both keep. For `DriverLifecycle`, `LifecycleInv`: what is held
  follows from where the driver, the controller and each attach are. One of the work item and the
  device owns the extension, and whoever owns it owns the strings and the socket (`Owned`,
  `AttemptHolds`); an address list exists only between resolving and the end of connecting, while
  the provider is captured. After a failure half-way it says which of the resources are still held,
  and that they are what the next step releases. An orphan device is the one way to a negative
  count, and only `attr` may be left when the driver is unloaded. `SettingsHold`:
  ports fit from the time they were read, and the delays because their number is bounded by the
  total delay. `ReleasedOnceHolds`, `SettingsInRangeHolds`.
- **`HostControllerProofs`.** `IInv`: where a device is in its life (`DeviceLife`) follows from
  the request at hand (`CurrentDevice`); a device that is created, or unplugged and still plugged
  into UDE, is the one at hand; a receive thread that carries out a request is inside its send
  (`RunnerIsSent`), which is why not joining it is safe. A thread that outlived its join is `late`,
  and leaves only that state for its end. `PortsAgreeHolds`,
  `PluggedHasPortHolds`, `DeletedDevicesAreUnusedHolds`. `StoppedStaysStoppedHolds` needs a second
  invariant: an attach request is in the queue only while it is in the state "sent", and at most
  once (`Queued`), so a cancelled one has no other copy that could start. The removal has
  `RemovalInv`: the request of `vhci_query_remove` is in the queue, or `detach_all_devices` is at
  work and has emptied the ports before the one it looks at (`Sweeping`; the default queue is
  sequential, so no attach comes between), or nothing is attached. `RemovalDetachesAllHolds`,
  `NothingAttachedAgainHolds`.
- **`FilterClientsProofs`.** `Progress` says which descriptors have been fetched at each step of
  `check_device`; with it `EverythingWasJudged` is inductive, whatever the clients store meanwhile.
  The parser is taken apart once, for bytes of any value and length: what it visits, that the patch
  for UdeCx changes nothing that the policy looks at, and that Windows, walking the patched bytes,
  finds no descriptor the check did not see. `Shown`, `Loaded` and `FormShows` tie what Windows
  read, the policy and the dialog to what they came from. `PresentedIsAllowedHolds`,
  `FailClosedHolds`, `MarkedIsRefusedHolds`, `DialogNeverWidensHolds`.
- **`FilterAndToolsProofs`.** For PnP: a filter device belongs to a stack that PnP built
  (`FilterHasStack`), stacks to reported devices, and the remembered relations are the reported ones
  (`PreviousIsReported`): so a query adds a filter just for the devices that have none.
  `OneFilterPerDeviceHolds`. For the requests, `IoInv`: those that wait for endpoint 0 are in the
  order of the selections (`Ordered`), and carried out in turn they make the server's setting that
  of the operating system (`CfgIs`, `AltIs`), as long as none was missed or refused since the last
  configuration; endpoints are listed newest first (`NewestFirst`), and those of the current setting
  have their handles or a request that announces them is still waiting. `ServerFollowsHolds`,
  `RightEndpointClearedHolds`. For the tools, `WalkInv`: the list made so far has, in the order of
  ports, every device that stayed and whose port was passed; and `RemoveInv`: of the nodes already
  seen just the matching ones are gone. `SteadyIsListedHolds`, `RemoveIsExactHolds`. For `usb.ids`,
  by induction over the lines: after i of them the parser is in the part of the file, and has the
  vendor, class and subclass in force, that the lines above say, and its maps have the first name
  that these lines give to each key. `NamesAreDeclaredHolds`.
- **`MainFrameProofs`.** Rows that a detach or an edit holds have a devid (`HeldRowsAreKnown`), no
  event takes a devid away, and only rows without one are removed. `HeldRowsExistHolds`. For
  `RowPortAgreesHolds` the invariant looks ahead: `PortInv` says that every run of a row through
  the events that still wait ends with the port its sources have then (`RunsSettle`), and that the
  last event of a source tells its state (`LastTells`); a new event extends each run by one step, a
  handled one takes off the first.
- **`ClientThreadsProofs`.** The list that is shown so far has no gap (`ShownSoFar`) and the next
  thing to receive follows from it (`NextFits`), so the exchange is done only when nothing is
  missing; no step of another thread touches it (`NoOtherList`). `ListIsWholeHolds`. `SavedInv`:
  the registry has the last list that was stored, and while a client reads, one of the values it
  had since the call began; writer and parsers are inverse to each other on lists of any length
  whose names have no comma. `ReadIsOneValueHolds`, `StoredIsUnderstoodHolds`. `ThreadsInv`: the GUI
  thread blocks just while there is a worker thread, it joins one that has set the event, and a
  cancelled connect has a pending APC, a request that was cancelled, or has ended.
  `JoinedReaderEndsHolds`, `CancelIsNotLostHolds`.

Only model-checked. Liveness: the prover has no fairness and no ENABLED. Of six of the eight
properties the part that needs neither is a theorem, that whatever is waited for is under way:
`CancelledUrbCompletes` and `DetachCompletesUrbs` (`NoOrphans`), `NoLostWakeup` (`WakerExists`),
`RemovalDrains` (`RemovalDetachesAll`, `NothingAttachedAgain`), `CloseEnds` (`JoinedReaderEnds`),
`CommandEnds` (`CancelIsNotLost`). `QueueMoves` and `RemovalEnds` have no such part: what they wait
for is a step of the code that is enabled at once (the join has a timeout, work items need nobody),
or the server, which they except. Every invariant and action property of the runs is a theorem.

What the proofs changed in the models. The chain of a message with an isochronous URB that has no
packets included the descriptors of the message before (`SwappedPackets` is what
`prepare_wsk_buf` does); the run now has such an URB. `RightEndpointCleared` had been stated for
exactly one filter device, which it does not need. `NamesAreDeclared` had let the
classes end at the first audio terminals mark of the file, where the parser takes the first one
after the classes began, and had left the order of subclasses and protocols to the chosen files.

## Not modelled

- CLI11, a vendored header that is a third of the repository's code, and `frame.cpp`, generated by
  wxFormBuilder: neither has logic of this project.
- The look of the GUI (columns, fonts, sorting, menus, the log window, what `persist.cpp` keeps of
  them), the layout of what `usbip` prints, log and trace messages, error texts, file versions.
- `query_interface` of the filter driver, which replaces bus time functions and keeps no other
  state; power IRPs, which are passed down; socket options and WSK event callbacks; the reuse of
  per-socket IRPs, which `ConcurrencyCheck` asserts.
- Opening the device interface in user space; the installer script; `libusbip_check`, the tests of
  the library's interface.
- Timeouts of waits other than those of the gate and of the join of the receive thread, and
  exhaustion of memory where a request is simply not created.

What would extend the project: `UrbRequests` over the gate of `WskSocket` in one next-state
relation, which would derive refused sends from the gate instead of choosing them.
