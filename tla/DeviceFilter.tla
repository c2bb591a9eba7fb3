---------------------------- MODULE DeviceFilter ----------------------------
(***************************************************************************)
(* The device-type filter of usbip2_ude: the policy in the registry and    *)
(* the ioctls that store and return it, the check of an imported device    *)
(* against it, and the descriptors that are presented to Windows           *)
(* afterwards. The server answers every GET_DESCRIPTOR as it likes; the    *)
(* ioctls run in the parallel queue beside the check.                      *)
(***************************************************************************)
EXTENDS DescriptorParser

CONSTANTS
    Devices,        \* device descriptors, as records
    Configurations, \* configuration descriptors, as sequences of bytes
    RawPolicies,    \* what the registry value may hold
    Inputs,         \* inputs of SET_DEVICE_FILTER
    Capacity,       \* MAX_DEVICE_FILTER_ENTRIES
    MaxSets,        \* bound on the number of SET_DEVICE_FILTER calls
    NoPolicy,       \* the registry has no such value
    NoDevice

ASSUME FilterAssumption ==
    /\ \A d \in Devices :
          /\ {"id", "tuple", "bNumConfigurations", "iSerialNumber"} \subseteq DOMAIN d
          /\ d.bNumConfigurations \in Nat
    /\ Configurations \subseteq Seq(0 .. 255)
    /\ Capacity \in Nat
    /\ \A r \in RawPolicies : r.room \in Int /\ r.count \in Nat
    /\ \A in \in Inputs : in.count \in Nat

VARIABLES
    registry,   \* Parameters\DeviceFilter
    sets,       \* number of SET_DEVICE_FILTER calls
    pc,         \* progress of the attach
    policy,     \* the policy check_device loaded
    source,     \* history: the registry value it was loaded from
    udev,       \* usbip_usb_device of OP_REP_IMPORT
    high,       \* is the speed of the device high or super
    serial,     \* was a serial number given to PLUGIN_HARDWARE
    total,      \* wTotalLength of the configuration that is being fetched
    snapshot,   \* device_ctx_ext::descriptors
    given,      \* history: the configurations as the server sent them
    seen        \* what Windows read from the plugged device, per configuration

vars == <<registry, sets, pc, policy, source, udev, high, serial, total,
          snapshot, given, seen>>

session == <<pc, policy, source, udev, high, serial, total, snapshot, given, seen>>

EmptySnapshot == [device |-> NoDevice, count |-> 0, configurations |-> <<>>, ready |-> FALSE]

(***************************************************************************)
(* The registry. A value has a type, a length, here the number of whole    *)
(* entries that fit after the header (-1: not even the header does), and   *)
(* the fields of the structure.                                            *)
(***************************************************************************)
fail_closed_policy == [mode |-> "whitelist", entries |-> <<>>]

SmallerOf(a, b) == IF a <= b THEN a ELSE b

\* Mutant of sanitize_loaded_policy: an unknown mode is taken for "disabled".
sanitize_loaded_policy_open(raw) ==
    IF raw.type # "binary" \/ raw.room < 0 THEN fail_closed_policy
    ELSE [mode |-> IF raw.mode = "whitelist" THEN "whitelist" ELSE "disabled",
          entries |-> SubSeq(raw.entries, 1, SmallerOf(SmallerOf(raw.count, raw.room), Capacity))]

sanitize_loaded_policy(raw) ==
    IF raw.type # "binary" \/ raw.room < 0 THEN fail_closed_policy
    ELSE [mode |-> IF raw.mode = "disabled" THEN "disabled" ELSE "whitelist",
          entries |-> SubSeq(raw.entries, 1, SmallerOf(SmallerOf(raw.count, raw.room), Capacity))]

\* WdfRegistryQueryValue fails if there is no value or it does not fit.
load(value) ==
    IF value = NoPolicy \/ value.room > Capacity THEN fail_closed_policy
    ELSE sanitize_loaded_policy(value)

sanitize_policy_for_store(in) ==
    [mode |-> IF in.mode = "disabled" THEN "disabled" ELSE "whitelist",
     count |-> SmallerOf(in.count, Capacity), entries |-> in.entries]

\* The value that store() writes: only the active prefix of the entries.
serialized(p) ==
    [type |-> "binary", room |-> p.count, mode |-> p.mode, count |-> p.count,
     entries |-> SubSeq(p.entries, 1, p.count)]

store(in) == serialized(sanitize_policy_for_store(in))

(***************************************************************************)
(* SET_DEVICE_FILTER. The entries must be in the buffer and fit the        *)
(* structure; WdfRegistryAssignValue may fail.                             *)
(***************************************************************************)
set_device_filter(in) ==
    /\ sets < MaxSets
    /\ sets' = sets + 1
    /\ \/ /\ in.count <= in.avail
          /\ in.count <= Capacity
          /\ registry' = store([mode |-> in.mode, count |-> in.count, entries |-> in.entries])
       \/ UNCHANGED registry
    /\ UNCHANGED session

\* Any program may call the driver, with any input.
AnyClient == \E in \in Inputs : set_device_filter(in)

\* GET_DEVICE_FILTER, for an output buffer with room for avail entries.
get_device_filter(avail) ==
    LET p == load(registry)
    IN  [status |-> IF Len(p.entries) > avail THEN "STATUS_BUFFER_TOO_SMALL" ELSE "STATUS_SUCCESS",
         policy |-> p]

(***************************************************************************)
(* GET_DESCRIPTOR over the connection. The server chooses the answer: its  *)
(* header may be wrong, its length may be negative or too large.           *)
(***************************************************************************)
Failed == "failed"

Replies(data, len) ==
    [command : {"RET_SUBMIT"}, status : {0}, actual_length : {-1, len - 1, len, len + 1}, data : data]
      \cup [command : {"RET_UNLINK"}, status : {0}, actual_length : {len}, data : data]
      \cup [command : {"RET_SUBMIT"}, status : {-32}, actual_length : {len}, data : data]

get_descriptor(rep, len) ==
    IF \/ rep.command # "RET_SUBMIT"
       \/ rep.status # 0
       \/ rep.actual_length < 0
       \/ rep.actual_length > len
       \/ rep.actual_length > Len(rep.data)   \* recv of the payload fails
    THEN Failed
    ELSE SubSeq(rep.data, 1, rep.actual_length)

\* USBIP_ERROR_DEVICE_FILTERED: the attach fails and device_ctx_ext is freed.
Reject ==
    /\ pc' = "idle"
    /\ policy' = fail_closed_policy
    /\ source' = NoPolicy
    /\ udev' = NoDevice
    /\ snapshot' = EmptySnapshot
    /\ total' = 0
    /\ given' = <<>>
    /\ seen' = <<>>
    /\ high' = FALSE
    /\ serial' = FALSE
    /\ UNCHANGED <<registry, sets>>

(***************************************************************************)
(* import_remote_device: the answer to OP_REQ_IMPORT is there, and         *)
(* check_device loads the policy and looks at the class of the device.     *)
(***************************************************************************)
HasDeviceClass(d) == d.tuple[1] # 0 /\ d.tuple[1] # 239

DeviceClassAllowed(p, d) ==
    /\ HasDeviceClass(d) => is_allowed(p, d.tuple)
    /\ d.bNumConfigurations > 0

check_device ==
    /\ pc = "idle"
    /\ \E d \in Devices, h, s \in BOOLEAN :
          /\ DeviceClassAllowed(load(registry), d)   \* else the attach fails
          /\ pc' = "device"
          /\ policy' = load(registry)
          /\ source' = registry
          /\ udev' = d
          /\ high' = h
          /\ serial' = s
    /\ UNCHANGED <<registry, sets, total, snapshot, given, seen>>

(***************************************************************************)
(* snapshot_device_descriptor. A descriptor that does not arrive, is not   *)
(* valid or disagrees with the import identity ends the attach. The array  *)
(* of the configurations is allocated next.                                *)
(***************************************************************************)
Identity(d) == <<d.id, d.tuple, d.bNumConfigurations>>

\* Mutant of Consistent: only the vendor, product and class are compared.
ConsistentIdAndClass(d, imported) == d.id = imported.id /\ d.tuple = imported.tuple

Consistent(d, imported) == Identity(d) = Identity(imported)

snapshot_device_descriptor ==
    /\ pc = "device"
    /\ \E d \in Devices :
          /\ d.valid
          /\ Consistent(d, udev)
          /\ snapshot' = [snapshot EXCEPT
                 !.device = [d EXCEPT !.iSerialNumber = IF serial /\ @ = 0 THEN 255 ELSE @],
                 !.count = udev.bNumConfigurations]
    /\ pc' = "head"
    /\ UNCHANGED <<registry, sets, policy, source, udev, high, serial, total, given, seen>>

\* The fetch fails, the descriptor is refused, or there is no memory.
reject_device_descriptor == pc = "device" /\ Reject

(***************************************************************************)
(* The first half of check_configuration: the header, for wTotalLength.    *)
(***************************************************************************)
check_configuration_header ==
    /\ pc = "head"
    /\ \E rep \in Replies(Configurations, ConfigurationSize) :
          LET b == get_descriptor(rep, ConfigurationSize)
          IN  IF b = Failed \/ Len(b) < ConfigurationSize \/ ~is_valid(b)
              THEN Reject
              ELSE /\ total' = Word(b, 2)
                   /\ pc' = "full"
                   /\ UNCHANGED <<registry, sets, policy, source, udev, high, serial,
                                  snapshot, given, seen>>

(***************************************************************************)
(* The second half: all of it, judged and patched. After the last one the  *)
(* snapshot is published. The server need not send what it announced.      *)
(***************************************************************************)
\* Mutant of Publish: the snapshot is never published.
NeverPublish(configurations) == [snapshot EXCEPT !.configurations = configurations]

Publish(configurations) ==
    [snapshot EXCEPT !.configurations = configurations,
                     !.ready = Len(configurations) = snapshot.count]

check_configuration ==
    /\ pc = "full"
    /\ \E rep \in Replies(Configurations, total) :
          LET b == get_descriptor(rep, total)
          IN  IF b = Failed \/ Len(b) < total \/ evaluate_configuration(b, policy) # "none"
              THEN Reject
              ELSE /\ snapshot' = Publish(Append(snapshot.configurations,
                                                patch_configuration_for_udecx(b, high)))
                   /\ given' = Append(given, b)
                   /\ pc' = IF Len(given') = snapshot.count THEN "create" ELSE "head"
                   /\ total' = 0
                   /\ UNCHANGED <<registry, sets, policy, source, udev, high, serial, seen>>

\* Memory for a configuration is missing.
no_memory == pc = "full" /\ Reject

(***************************************************************************)
(* device::create registers the snapshot with UdeCx and plugs the device   *)
(* in, or fails. After that Windows reads the configurations: what was     *)
(* registered, or, if nothing was, the answers of the server, which        *)
(* post_control_transfer patches.                                          *)
(***************************************************************************)
create ==
    /\ pc = "create"
    /\ snapshot.ready => Len(snapshot.configurations) = snapshot.count
    /\ pc' = "plugged"
    /\ UNCHANGED <<registry, sets, policy, source, udev, high, serial, total, snapshot,
                   given, seen>>

create_failed == pc = "create" /\ Reject

post_control_transfer(b) ==
    IF Len(b) > ConfigurationSize /\ Byte(b, 0) = ConfigurationSize /\ Word(b, 2) = Len(b)
    THEN patch_configuration_for_udecx(b, high) ELSE b

enumerate ==
    /\ pc = "plugged"
    /\ Len(seen) < udev.bNumConfigurations
    /\ \E b \in Configurations :
          seen' = Append(seen, IF snapshot.ready
                               THEN snapshot.configurations[Len(seen) + 1]
                               ELSE post_control_transfer(b))
    /\ UNCHANGED <<registry, sets, pc, policy, source, udev, high, serial, total,
                   snapshot, given>>

\* detach: destroy_device_ctx_ext frees the snapshot.
detach == pc = "plugged" /\ Reject

Init ==
    /\ registry \in RawPolicies \cup {NoPolicy}
    /\ sets = 0
    /\ pc = "idle"
    /\ policy = fail_closed_policy
    /\ source = NoPolicy
    /\ udev = NoDevice
    /\ high = FALSE
    /\ serial = FALSE
    /\ total = 0
    /\ snapshot = EmptySnapshot
    /\ given = <<>>
    /\ seen = <<>>

Next ==
    \/ AnyClient
    \/ check_device
    \/ snapshot_device_descriptor
    \/ reject_device_descriptor
    \/ check_configuration_header
    \/ check_configuration
    \/ no_memory
    \/ create
    \/ create_failed
    \/ enumerate
    \/ detach

Spec == Init /\ [][Next]_vars

(***************************************************************************)
(* Every descriptor in the snapshot was judged: it is the patched form of  *)
(* bytes that evaluate_configuration accepted under the policy loaded at   *)
(* the start of the check, whatever was stored since; the device           *)
(* descriptor has the identity that was imported, and nothing is           *)
(* published or created before every configuration of the device is there. *)
(* A disabled filter is no exception: check_device then accepts every      *)
(* class, but "snapshotting descriptors for UdeCx" (device_filter.cpp:570) *)
(* takes the same way.  The comments at device.cpp:519 and                 *)
(* descriptor_patch.cpp:36-39, which speak of live answers in that case,   *)
(* describe what the code no longer does.                                  *)
(***************************************************************************)
EverythingWasJudged ==
    /\ \A i \in DOMAIN given :
          /\ evaluate_configuration(given[i], policy) = "none"
          /\ snapshot.configurations[i] = patch_configuration_for_udecx(given[i], high)
    /\ pc \notin {"idle", "device"} =>
          Identity(snapshot.device) = Identity(udev) /\ DeviceClassAllowed(policy, snapshot.device)
    /\ snapshot.ready => Len(snapshot.configurations) = udev.bNumConfigurations
    /\ pc \in {"create", "plugged"} => snapshot.ready

(***************************************************************************)
(* The purpose of the filter: every interface descriptor that Windows      *)
(* finds when it walks the configurations of a plugged device has a class  *)
(* the policy allows, and every endpoint descriptor it finds is long       *)
(* enough to be read as one, although the server may change its answers    *)
(* between any two requests (README: "Immutable descriptor snapshot").     *)
(***************************************************************************)
PresentedIsAllowed ==
    \A i \in DOMAIN seen :
        /\ \A o \in find_all(seen[i], InterfaceType) :
              /\ Byte(seen[i], o) >= InterfaceSize
              /\ is_allowed(policy, InterfaceClass(seen[i], o))
        /\ \A o \in find_all(seen[i], EndpointType) : Byte(seen[i], o) >= EndpointSize
        /\ find_all(seen[i], InterfaceType) # {}

(***************************************************************************)
(* Fail-closed default: a device is not even looked at further unless the  *)
(* registry held a usable value that says so. Without one, with the wrong  *)
(* type, a cut or oversized one, no interface of any class passes, and an  *)
(* unknown mode is never "disabled".                                       *)
(***************************************************************************)
Usable(value) ==
    value # NoPolicy /\ value.type = "binary" /\ value.room \in 0 .. Capacity

FailClosed ==
    pc \in {"create", "plugged"} =>
        /\ Usable(source)
        /\ policy.mode = "disabled" => source.mode = "disabled"
        /\ \A i \in DOMAIN policy.entries : i <= source.room /\ i <= source.count
=============================================================================
