--------------------------- MODULE MCDeviceFilter ---------------------------
(***************************************************************************)
(* A small instance of FilterClients. HID (class 3) is what policies allow; *)
(* mass storage (8) is what a device may try to slip in.                   *)
(***************************************************************************)
EXTENDS FilterClients

Header(length, interfaces) == <<9, 2, length, 0, interfaces, 1, 0, 0, 0>>
Interface(number, alternate, class) == <<9, 4, number, alternate, 0, class, 6, 80, 0>>
Endpoint(attributes, interval) == <<7, 5, 129, attributes, 8, 0, interval>>
ShortInterface == <<8, 4, 0, 0, 0, 3, 6, 80>>

MCConfigurations == {
    Header(25, 1) \o Interface(0, 0, 3) \o Endpoint(3, 10),                    \* a mouse
    Header(27, 2) \o Interface(0, 0, 3) \o Interface(1, 0, 8),                 \* composite
    Header(27, 1) \o Interface(0, 0, 3) \o Interface(0, 1, 8),                 \* alternate setting
    Header(18, 1) \o Interface(0, 0, 3) \o Interface(1, 0, 8),                 \* longer than it says
    Header(27, 1) \o <<18, 36>> \o Interface(0, 0, 8) \o <<0, 0, 0, 0, 0, 0, 0>>,  \* hidden inside
    Header(26, 1) \o Interface(0, 0, 3) \o ShortInterface,
    Header(20, 1) \o Interface(0, 0, 3) \o <<0, 36>>}                          \* zero length

Device(id, tuple, count, valid, serialIndex) ==
    [id |-> id, tuple |-> tuple, bNumConfigurations |-> count, valid |-> valid,
     iSerialNumber |-> serialIndex]

MCDevices == {
    Device("a", <<0, 0, 0>>, 1, TRUE, 0),
    Device("a", <<0, 0, 0>>, 2, TRUE, 1),
    Device("a", <<8, 6, 80>>, 1, TRUE, 0),
    Device("a", <<239, 2, 1>>, 1, TRUE, 0),
    Device("b", <<0, 0, 0>>, 1, TRUE, 0),
    Device("a", <<0, 0, 0>>, 1, FALSE, 0),
    Device("a", <<0, 0, 0>>, 0, TRUE, 0)}

Entry(class, subclass, flags) ==
    [bClass |-> class, bSubClass |-> subclass, bProtocol |-> 80, match_flags |-> flags]

Hid == Entry(3, 6, {"class"})
Disk == Entry(8, 5, {"class", "subclass"})
AnyDisk == Entry(8, 6, {"class", "protocol"})
Cdc == Entry(2, 0, {"class"})
CdcData == Entry(10, 0, {"class"})

MCCategories == <<[id |-> "hid", entries |-> <<Hid>>], [id |-> "network", entries |-> <<Cdc, CdcData>>]>>
MCClasses == {<<3, 1, 1>>, <<8, 6, 80>>, <<2, 6, 0>>, <<10, 0, 0>>}

Value(type, room, mode, count, entries) ==
    [type |-> type, room |-> room, mode |-> mode, count |-> count, entries |-> entries]

MCRawPolicies == {
    Value("binary", 2, "whitelist", 2, <<Hid, Disk>>),
    Value("binary", 1, "unknown", 2, <<Hid, AnyDisk>>),
    Value("binary", 3, "whitelist", 3, <<Cdc, Hid, AnyDisk>>),
    Value("binary", 4, "disabled", 4, <<Hid, AnyDisk, Disk, Cdc>>),
    Value("binary", -1, "disabled", 0, <<>>),
    Value("other", 0, "disabled", 0, <<>>)}

Input(avail, mode, count, entries) ==
    [avail |-> avail, mode |-> mode, count |-> count, entries |-> entries]

MCInputs == {
    Input(2, "whitelist", 2, <<Hid, AnyDisk>>),
    Input(2, "unknown", 0, <<Hid, Disk>>),
    Input(1, "disabled", 0, <<Hid>>),
    Input(1, "whitelist", 2, <<Hid, Disk>>),
    Input(4, "whitelist", 4, <<Hid, Disk, AnyDisk, Cdc>>)}
=============================================================================
