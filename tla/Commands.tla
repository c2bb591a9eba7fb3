------------------------------ MODULE Commands ------------------------------
(***************************************************************************)
(* The tools beside the GUI on one machine: usbip.exe (usbip/), the calls  *)
(* of the driver in libusbip/src/vhci.cpp that it makes, devnode.exe       *)
(* (DevNode) and the names that are printed (UsbIds).  The commands are    *)
(* processes of their own, which run beside each other.                    *)
(*                                                                         *)
(* What matters of the driver here is how it takes the ioctls:             *)
(* device_control_parallel answers GET_IMPORTED_DEVICES, SET_PERSISTENT,   *)
(* GET_PERSISTENT and STOP_ATTACH_ATTEMPTS at once, while the default      *)
(* queue works on an attach or detach.  get_imported_devices therefore     *)
(* walks over the ports while devices come and go.  How a device is        *)
(* attached is the subject of HostController.                              *)
(***************************************************************************)
EXTENDS DevNode, UsbIds

CONSTANTS
  Procs,            \* processes of usbip.exe
  Locations,        \* locations of remote devices
  TooLongs,         \* those that do not fit into plugin_hardware
  Stashed,          \* the persistent devices at the beginning
  PortCount,        \* vhci_ctx::devices_cnt
  FirstCount,       \* devices in the first buffer of get_imported_devices, 4 in the code
  NoLocation, NoNode,
  MaxCommands       \* bound on the number of commands, devnode included

ASSUME CommandsAssumption ==
  /\ TooLongs \subseteq Locations /\ Stashed \in Seq(Locations \ TooLongs) /\ NoLocation \notin Locations
  /\ PortCount \in Nat \ {0} /\ FirstCount \in Nat \ {0} /\ MaxCommands \in Nat

Ports == 1..PortCount

VARIABLES
  devices,          \* per port of the controller, the location or NoLocation
  attempts,         \* locations with an attach request in the driver
  persistent,       \* REG_MULTI_SZ PersistentDevices
  cmd,              \* per process, the command it runs
  pc,               \* and where it is
  hnd,              \* the controller it opened, or NoNode
  buf,              \* its buffer: elements that fit, elements that the driver filled
  steady,           \* history: what was in its port since the driver began to fill
  started           \* number of commands

driverVars == <<devices, attempts, persistent>>
procVars == <<cmd, pc, hnd, buf, steady, started>>
devnodeVars == <<node, tool>>
commandsVars == <<driverVars, procVars, devnodeVars>>

-----------------------------------------------------------------------------
(* The commands that the option parser lets pass.                           *)

\* Exactly one of the groups Remote, Stop and Persistent; --once excludes --stop.
add_cmd_attach ==
  {[name |-> "attach", loc |-> l, how |-> h] : l \in Locations, h \in {"once", "retry", "stop"}} \cup
  {[name |-> "attach", loc |-> NoLocation, how |-> h] : h \in {"stop all", "persistent"}}

\* --port or --all [closeonly], which is the port -1 or -2: all of them.
add_cmd_detach == {[name |-> "detach", ports |-> P] : P \in {{p} : p \in Ports} \cup {Ports}}

\* Ports, or all of them if there are none; --stash.
add_cmd_port == {[name |-> "port", ports |-> P, stash |-> s] : P \in {{}, {1}}, s \in BOOLEAN}

\* --remote or --stash.  What the server answers is the subject of DeviceList.
add_cmd_list == {[name |-> "list", remote |-> r] : r \in BOOLEAN}

NoCmd == [name |-> "none"]
CommandLines == add_cmd_attach \cup add_cmd_detach \cup add_cmd_port \cup add_cmd_list

NoBuf == [max |-> 0, port |-> 0, out |-> <<>>]
NoDevices == [q \in Ports |-> NoLocation]

CommandsInit ==
  /\ DevNodeInit
  /\ devices = NoDevices /\ attempts = {} /\ persistent = Stashed
  /\ cmd = [p \in Procs |-> NoCmd] /\ pc = [p \in Procs |-> "none"]
  /\ hnd = [p \in Procs |-> NoNode] /\ buf = [p \in Procs |-> NoBuf]
  /\ steady = [p \in Procs |-> {}] /\ started = 0

Goto(p, l) == pc' = [pc EXCEPT ![p] = l]

\* The command ends; its exit code is not of interest.
Exit(p) ==
  /\ Goto(p, "none") /\ cmd' = [cmd EXCEPT ![p] = NoCmd] /\ hnd' = [hnd EXCEPT ![p] = NoNode]
  /\ buf' = [buf EXCEPT ![p] = NoBuf] /\ steady' = [steady EXCEPT ![p] = {}]
  /\ UNCHANGED started

Stay == UNCHANGED <<cmd, hnd, buf, steady, started>>

run(p, c) ==
  /\ pc[p] = "none" /\ started < MaxCommands /\ started' = started + 1
  /\ cmd' = [cmd EXCEPT ![p] = c]
  /\ Goto(p, IF c.name = "list" /\ c.remote THEN "AF_INET" ELSE "size")
  /\ UNCHANGED <<hnd, buf, steady, driverVars, devnodeVars>>

-----------------------------------------------------------------------------
(* vhci::open.                                                              *)

\* get_path: first the size of the list of interfaces, here the number of paths.
get_size(p) ==
  /\ pc[p] = "size"
  /\ \/ Goto(p, "list") /\ buf' = [buf EXCEPT ![p].max = Cardinality(Interfaces)]
        /\ UNCHANGED <<cmd, hnd, steady, started>>
     \/ Exit(p)
  /\ UNCHANGED <<driverVars, devnodeVars>>

\* Then the list, again with its size if it has grown.  Two controllers are as bad as none.
get_path(p) ==
  /\ pc[p] = "list"
  /\ IF Cardinality(Interfaces) > buf[p].max THEN Goto(p, "size") /\ Stay
     ELSE IF Cardinality(Interfaces) # 1 THEN Exit(p)
     ELSE /\ Goto(p, "open") /\ hnd' = [hnd EXCEPT ![p] = CHOOSE n \in Interfaces : TRUE]
          /\ buf' = [buf EXCEPT ![p] = NoBuf] /\ UNCHANGED <<cmd, steady, started>>
  /\ UNCHANGED <<driverVars, devnodeVars>>

\* CreateFile of the path.
open(p) ==
  /\ pc[p] = "open"
  /\ IF hnd[p] \in Interfaces THEN Goto(p, "opened") /\ Stay ELSE Exit(p)
  /\ UNCHANGED <<driverVars, devnodeVars>>

\* A handle of a controller that is gone is of no use.
Usable(p) == hnd[p] \in Interfaces
BadHandle(p) ==
  /\ pc[p] \notin {"none", "size", "list", "open", "AF_INET", "AF_INET6", "connected"} /\ ~Usable(p) /\ Exit(p)
  /\ UNCHANGED <<driverVars, devnodeVars>>

-----------------------------------------------------------------------------
(* The default queue, and what devices do on their own.                     *)

\* get_parallel_handler
Parallel == {"GET_IMPORTED_DEVICES", "SET_PERSISTENT", "GET_PERSISTENT", "STOP_ATTACH_ATTEMPTS"}

\* The first ioctl of a command.
Ioctl(c) ==
  CASE c.name = "attach" /\ c.how \in {"once", "retry"} -> "PLUGIN_HARDWARE"
    [] c.name = "attach" /\ c.how \in {"stop", "stop all"} -> "STOP_ATTACH_ATTEMPTS"
    [] c.name = "detach" -> "PLUGOUT_HARDWARE"
    [] c.name = "port" -> "GET_IMPORTED_DEVICES"
    [] OTHER -> "GET_PERSISTENT"

\* It goes to the default queue.
device_control_parallel(p) ==
  /\ pc[p] = "opened" /\ Ioctl(cmd[p]) \notin Parallel /\ Usable(p)
  /\ Goto(p, "queued") /\ Stay
  /\ UNCHANGED <<driverVars, devnodeVars>>

\* The default queue hands out one request after the other was completed.
device_control(p) ==
  /\ pc[p] = "queued" /\ Usable(p) /\ \A r \in Procs : pc[r] # "driver"
  /\ Goto(p, "driver") /\ Stay
  /\ UNCHANGED <<driverVars, devnodeVars>>

Attached == {devices[q] : q \in Ports} \ {NoLocation}

\* What is in every buffer must have been there since the walk began.
Leave(qs) == steady' = [p \in Procs |-> {x \in steady[p] : x[1] \notin qs}]

claim_roothub_port(loc) ==
  LET free == {q \in Ports : devices[q] = NoLocation} IN
  /\ free # {}
  /\ devices' = [devices EXCEPT ![Min(free)] = loc]

\* map_attach_error only renames errors; assign refuses what is too long.
assign(loc) == loc \notin TooLongs

\* PLUGIN_HARDWARE: a device that is in use, a full hub or a server that does not answer
\* is an error, after which the driver goes on trying.
plugin_hardware(p, loc, next) ==
  \/ /\ assign(loc) /\ loc \notin Attached /\ claim_roothub_port(loc)
     /\ next /\ UNCHANGED <<attempts, persistent>>
  \/ /\ assign(loc) /\ attempts' = IF cmd[p].how = "once" THEN attempts ELSE attempts \cup {loc}
     /\ next /\ UNCHANGED <<devices, persistent>>
  \/ ~assign(loc) /\ next /\ UNCHANGED driverVars

\* The location of the command, or the next one of the list.
Target(p) == IF cmd[p].how = "persistent" THEN Head(buf[p].out) ELSE cmd[p].loc

attach(p) ==
  /\ pc[p] = "driver" /\ cmd[p].name = "attach" /\ Usable(p)
  /\ plugin_hardware(p, Target(p),
       IF cmd[p].how # "persistent" THEN Exit(p)
       ELSE /\ Goto(p, "each") /\ buf' = [buf EXCEPT ![p].out = Tail(@)]
            /\ UNCHANGED <<cmd, hnd, steady, started>>)
  /\ UNCHANGED devnodeVars

\* An attach request of the driver succeeds, see HostController.
Reattach(l) ==
  /\ Interfaces # {} /\ l \in attempts \ Attached
  /\ claim_roothub_port(l) /\ attempts' = attempts \ {l}
  /\ UNCHANGED <<persistent, procVars, devnodeVars>>

\* A connection breaks: the driver detaches the device and tries to get it back.
Disconnect(q) ==
  /\ devices[q] # NoLocation
  /\ attempts' = attempts \cup {devices[q]}
  /\ devices' = [devices EXCEPT ![q] = NoLocation] /\ Leave({q})
  /\ UNCHANGED <<persistent, cmd, pc, hnd, buf, started, devnodeVars>>

\* PLUGOUT_HARDWARE, with detach_all_devices if all of them are meant.
detach(p) ==
  /\ pc[p] = "driver" /\ cmd[p].name = "detach" /\ Usable(p)
  /\ devices' = [q \in Ports |-> IF q \in cmd[p].ports THEN NoLocation ELSE devices[q]]
  /\ Goto(p, "none") /\ cmd' = [cmd EXCEPT ![p] = NoCmd] /\ hnd' = [hnd EXCEPT ![p] = NoNode]
  /\ Leave(cmd[p].ports)
  /\ UNCHANGED <<attempts, persistent, buf, started, devnodeVars>>

-----------------------------------------------------------------------------
(* The parallel queue.                                                      *)

\* The library asks with room for a few devices.
get_imported_devices(p) ==
  /\ pc[p] = "opened" /\ cmd[p].name = "port" /\ Usable(p)
  /\ Goto(p, "fill")
  /\ buf' = [buf EXCEPT ![p] = [max |-> FirstCount, port |-> 1, out |-> <<>>]]
  /\ steady' = [steady EXCEPT ![p] = {<<q, devices[q]>> : q \in {r \in Ports : devices[r] # NoLocation}}]
  /\ UNCHANGED <<cmd, hnd, started, driverVars, devnodeVars>>

\* The driver takes the device of one port after the other, each under the lock.
fill(p) ==
  LET b == buf[p] IN
  /\ pc[p] = "fill" /\ Usable(p) /\ b.port <= PortCount
  /\ devices[b.port] = NoLocation \/ Len(b.out) < b.max
  /\ buf' = [buf EXCEPT ![p] =
               [b EXCEPT !.port = @ + 1,
                         !.out = IF devices[b.port] = NoLocation THEN @
                                 ELSE Append(@, <<b.port, devices[b.port]>>)]]
  /\ UNCHANGED <<cmd, pc, hnd, steady, started, driverVars, devnodeVars>>

\* Mutant of buffer_too_small: the devices that fit are good enough.
buffer_too_small_ends(p) ==
  /\ pc[p] = "fill" /\ Usable(p) /\ buf[p].port <= PortCount
  /\ devices[buf[p].port] # NoLocation /\ Len(buf[p].out) = buf[p].max
  /\ buf' = [buf EXCEPT ![p].port = PortCount + 1]
  /\ UNCHANGED <<cmd, pc, hnd, steady, started, driverVars, devnodeVars>>

\* STATUS_BUFFER_TOO_SMALL: again, with twice the room.
buffer_too_small(p) ==
  /\ pc[p] = "fill" /\ Usable(p) /\ buf[p].port <= PortCount
  /\ devices[buf[p].port] # NoLocation /\ Len(buf[p].out) = buf[p].max
  /\ buf' = [buf EXCEPT ![p] = [max |-> 2 * @.max, port |-> 1, out |-> <<>>]]
  /\ steady' = [steady EXCEPT ![p] = {<<q, devices[q]>> : q \in {r \in Ports : devices[r] # NoLocation}}]
  /\ UNCHANGED <<cmd, pc, hnd, started, driverVars, devnodeVars>>

\* make_imported_devices; fill_location may fail.
imported_devices(p) ==
  /\ pc[p] = "fill" /\ Usable(p) /\ buf[p].port > PortCount
  /\ Goto(p, "listed") /\ Stay
  /\ UNCHANGED <<driverVars, devnodeVars>>

fill_failed(p) ==
  /\ pc[p] = "fill" /\ Usable(p) /\ buf[p].port <= PortCount /\ devices[buf[p].port] # NoLocation
  /\ Exit(p)
  /\ UNCHANGED <<driverVars, devnodeVars>>

\* The devices of the ports that were asked for.
Chosen(p) ==
  LET In(x) == cmd[p].ports = {} \/ x[1] \in cmd[p].ports
      s == SelectSeq(buf[p].out, In) IN
  [i \in DOMAIN s |-> s[i][2]]

\* cmd_port prints them; --stash stores them, instead of what was stored before, unless
\* set_persistent fails.
cmd_port(p) ==
  /\ pc[p] = "listed" /\ Usable(p)
  /\ persistent' \in IF cmd[p].stash THEN {Chosen(p), persistent} ELSE {persistent}
  /\ Exit(p)
  /\ UNCHANGED <<devices, attempts, devnodeVars>>

\* STOP_ATTACH_ATTEMPTS; no location means all of them.
stop_attempts(locs) == attempts' = attempts \ locs

\* vhci::stop_attach_attempts returns an error when assign has succeeded, and goes on when
\* it has not: with a part of the location, which the driver refuses, or without one.
stop_attach_attempts(p) ==
  /\ pc[p] = "opened" /\ cmd[p].name = "attach" /\ cmd[p].how \in {"stop", "stop all"} /\ Usable(p)
  /\ \/ cmd[p].how = "stop" /\ UNCHANGED attempts
     \/ cmd[p].how = "stop" /\ ~assign(cmd[p].loc) /\ stop_attempts(Locations)
     \/ cmd[p].how = "stop all" /\ stop_attempts(Locations)
  /\ Exit(p)
  /\ UNCHANGED <<devices, persistent, devnodeVars>>

\* attach_persistent_devices: GET_PERSISTENT, then one attach after the other.
get_persistent(p) ==
  /\ pc[p] = "opened" /\ cmd[p].name = "attach" /\ cmd[p].how = "persistent" /\ Usable(p)
  /\ Goto(p, "each")
  /\ buf' = [buf EXCEPT ![p].out = persistent] /\ UNCHANGED <<cmd, hnd, steady, started>>
  /\ UNCHANGED <<driverVars, devnodeVars>>

attach_persistent_devices(p) ==
  /\ pc[p] = "each" /\ Usable(p)
  /\ IF buf[p].out = <<>> THEN Exit(p) ELSE Goto(p, "queued") /\ Stay
  /\ UNCHANGED <<driverVars, devnodeVars>>

\* list_persistent_devices prints what GET_PERSISTENT says.
list_persistent_devices(p) ==
  /\ pc[p] = "opened" /\ cmd[p].name = "list" /\ Usable(p) /\ Exit(p)
  /\ UNCHANGED <<driverVars, devnodeVars>>

\* connect(hostname, service): a socket that cannot be had, or an option that cannot be set,
\* for IPv4 is tried for IPv6; a connection that fails ends it.
connect(p) ==
  /\ pc[p] \in {"AF_INET", "AF_INET6"}
  /\ \/ Goto(p, "connected") /\ Stay
     \/ pc[p] = "AF_INET" /\ Goto(p, "AF_INET6") /\ Stay
     \/ Exit(p)
  /\ UNCHANGED <<driverVars, devnodeVars>>

\* enum_exportable_devices, whether the list is whole or not.
cmd_list(p) ==
  /\ pc[p] = "connected" /\ Exit(p)
  /\ UNCHANGED <<driverVars, devnodeVars>>

-----------------------------------------------------------------------------
(* devnode beside them.  Without its controller the driver has nothing.     *)

NoController == devices' = NoDevices /\ Leave(Ports)

devnode_run ==
  /\ devnode_install \/ \E d \in BOOLEAN : get_class_devs(d)
  /\ started < MaxCommands /\ started' = started + 1
  /\ UNCHANGED <<driverVars, cmd, pc, hnd, buf, steady>>

devnode ==
  /\ \/ install_devnode_and_driver
     \/ enum_device_info \/ remove_returns
     \/ \E n \in Nodes : uninstall_device(n, FALSE)
  /\ UNCHANGED <<driverVars, procVars>>

\* A controller that starts asks itself for the persistent devices.
devnode_update ==
  /\ update_driver /\ NoController
  /\ attempts' = {persistent[i] : i \in DOMAIN persistent}
  /\ hnd' = [p \in Procs |-> IF hnd[p] \in Updated THEN NoNode ELSE hnd[p]]
  /\ UNCHANGED <<persistent, cmd, pc, buf, started>>

devnode_uninstall(n) ==
  /\ uninstall_device(n, TRUE)
  /\ IF Interfaces' # Interfaces THEN NoController /\ attempts' = {}
                                 ELSE UNCHANGED <<devices, attempts, steady>>
  /\ UNCHANGED <<persistent, cmd, pc, hnd, buf, started>>

Step(p) ==
  \/ get_size(p) \/ get_path(p) \/ open(p) \/ BadHandle(p)
  \/ device_control_parallel(p) \/ device_control(p)
  \/ attach(p) \/ detach(p) \/ get_imported_devices(p) \/ fill(p) \/ buffer_too_small(p)
  \/ imported_devices(p) \/ fill_failed(p) \/ cmd_port(p) \/ stop_attach_attempts(p)
  \/ get_persistent(p) \/ attach_persistent_devices(p)
  \/ list_persistent_devices(p) \/ connect(p) \/ cmd_list(p)

CommandsNext ==
  \/ \E p \in Procs : (\E c \in CommandLines : run(p, c)) \/ Step(p)
  \/ \E l \in Locations : Reattach(l)
  \/ \E q \in Ports : Disconnect(q)
  \/ devnode_run \/ devnode \/ devnode_update \/ \E n \in Nodes : devnode_uninstall(n)

CommandsSpec == CommandsInit /\ [][CommandsNext]_commandsVars

-----------------------------------------------------------------------------
\* A device that kept its port from the first port that the driver looked at to the last
\* is in the list of `usbip port', and no port is there twice, although devices come and
\* go meanwhile (get_imported_devices of the library and of the driver).
SteadyIsListed ==
  \A p \in Procs :
    pc[p] = "listed" /\ Usable(p) =>
      LET s == buf[p].out IN
      /\ steady[p] \subseteq {s[i] : i \in DOMAIN s}
      /\ \A i \in 1..(Len(s) - 1) : s[i][1] < s[i + 1][1]

\* The names that are printed are those that usb.ids gives to the vendor, the product and
\* the class, whatever is in the file: see IdsAgree.
NamesAreDeclared == (\E p \in Procs : cmd[p].name \in {"list", "port"}) => IdsAgree
=============================================================================
