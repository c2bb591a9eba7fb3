----------------------------- MODULE DeviceList -----------------------------
(***************************************************************************)
(* usbip::enum_exportable_devices of libusbip: OP_REQ_DEVLIST, the header  *)
(* and the number of devices, then every device with its interfaces, all   *)
(* on a blocking socket.  The callback is called for each of them as it    *)
(* arrives.  The server may close the connection at any byte.              *)
(***************************************************************************)
EXTENDS Naturals, Sequences

CONSTANTS
  MaxDevices,       \* bound on the number of devices in a reply
  MaxInterfaces     \* bound on the number of interfaces of a device

ASSUME DeviceListAssumption == MaxDevices \in Nat /\ MaxInterfaces \in Nat

VARIABLES
  enum,             \* what is received next, or how it ended
  peer,             \* is the connection open
  ndev,             \* devices that were announced
  shown             \* the devices so far: what recv got of each, interfaces that are to come

listVars == <<enum, peer, ndev, shown>>

ListInit == enum = "idle" /\ peer = "open" /\ ndev = 0 /\ shown = <<>>

\* What recv of Winsock with MSG_WAITALL returns: less than was asked for only if the
\* server has closed the connection.
Received == IF peer = "open" THEN {"all", "part", "eof", "SOCKET_ERROR"} ELSE {"eof"}

PeerAfter(got) == IF got \in {"part", "eof"} THEN "closed" ELSE peer

\* Mutant of recv: some bytes are enough.
recv_some(got) == got \in {"all", "part"}

recv(got) == got = "all"

EnumFailed == enum' = "failed" /\ UNCHANGED <<ndev, shown>>

\* send_op_common; send() repeats until all is sent.
send_op_common ==
  /\ enum = "send"
  /\ \/ enum' = "header" /\ UNCHANGED <<ndev, shown>>
     \/ EnumFailed
  /\ UNCHANGED peer

\* The last error after a recv that did not return SOCKET_ERROR is an old one, or none.
GetLastError(got) == IF got = "SOCKET_ERROR" THEN {"error"} ELSE {"error", "none"}

\* The code that recv_op_common returns: of the call that failed, or of what the
\* header says.
recv_op_common(got) ==
  IF recv(got) THEN {"none", "USBIP_ERROR_VERSION", "USBIP_ERROR_PROTOCOL", "op_status_error"}
               ELSE GetLastError(got)

recv_header ==
  /\ enum = "header"
  /\ \E got \in Received :
       /\ peer' = PeerAfter(got)
       /\ \E err \in recv_op_common(got) :
            IF err = "none" THEN enum' = "count" /\ UNCHANGED <<ndev, shown>> ELSE EnumFailed

\* What comes after the devices in s, if n were announced.
After(n, s) ==
  IF Len(s) > 0 /\ s[Len(s)].left > 0 THEN "interface"
  ELSE IF Len(s) < n THEN "device" ELSE "done"

recv_count ==
  /\ enum = "count"
  /\ \E got \in Received :
       /\ peer' = PeerAfter(got)
       /\ IF recv(got)
            THEN /\ ndev' \in 0..MaxDevices /\ enum' = After(ndev', <<>>)
                 /\ UNCHANGED shown
            ELSE EnumFailed

\* as_usb_device, and the call of on_dev.
recv_device ==
  /\ enum = "device"
  /\ \E got \in Received :
       /\ peer' = PeerAfter(got)
       /\ IF recv(got)
            THEN \E n \in 0..MaxInterfaces :
                   /\ shown' = Append(shown, [got |-> got, left |-> n])
                   /\ enum' = After(ndev, shown') /\ UNCHANGED ndev
            ELSE EnumFailed

\* The call of on_intf.
recv_interface ==
  /\ enum = "interface"
  /\ \E got \in Received :
       /\ peer' = PeerAfter(got)
       /\ IF recv(got)
            THEN /\ shown' = [shown EXCEPT ![Len(shown)].left = @ - 1,
                                           ![Len(shown)].got = IF @ = "all" THEN got ELSE @]
                 /\ enum' = After(ndev, shown') /\ UNCHANGED ndev
            ELSE EnumFailed

\* Waits for the server, for ever if need be.
Receive == recv_header \/ recv_count \/ recv_device \/ recv_interface

\* enum_exportable_devices (libusbip/remote.cpp:480) returns true only if every announced
\* device and interface was passed to its callback, each of them received to the last
\* byte, wherever the server closed the connection.
ListIsWhole ==
  enum = "done" =>
    Len(shown) = ndev /\ \A i \in DOMAIN shown : shown[i].got = "all" /\ shown[i].left = 0
=============================================================================
