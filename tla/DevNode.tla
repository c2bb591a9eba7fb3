------------------------------- MODULE DevNode -------------------------------
(***************************************************************************)
(* devnode.exe, which the installer calls: install creates a device node   *)
(* and gives it the driver, remove uninstalls the nodes with a hardware    *)
(* id.  Each call of the Setup API may fail, and devnode does not undo     *)
(* what it did before.  One devnode runs at a time.                        *)
(***************************************************************************)
EXTENDS Naturals, Sequences, FiniteSets

CONSTANTS
  NewNodes,         \* instance ids for nodes that devnode creates
  OtherNodes,       \* nodes that are there already, with their hardware ids
  HwId              \* the hardware id of the driver

Nodes == NewNodes \cup DOMAIN OtherNodes

VARIABLES
  node,             \* per node "none", "bare" without a driver, or "up"
  tool              \* where devnode is and what it knows

NoTool == [at |-> "none", list |-> {}, left |-> {}, dry_run |-> FALSE, errors |-> FALSE]

DevNodeInit ==
  /\ node = [n \in Nodes |-> IF n \in NewNodes THEN "none" ELSE "bare"]
  /\ tool = NoTool

\* make_hwid: a list of one string.
make_hwid(hwid) == <<hwid>>

HardwareIds(n) == IF n \in NewNodes THEN make_hwid(HwId) ELSE OtherNodes[n]

\* External: the node is there, and has the driver.
Present(n) == node[n] # "none"

\* The controllers that can be opened.
Interfaces == {n \in Nodes : node[n] = "up"}

\* wmain: another command.
devnode_install == tool.at = "none" /\ tool' = [tool EXCEPT !.at = "create"] /\ UNCHANGED node

\* get_class_guid, SetupDiCreateDeviceInfoList, SetupDiCreateDeviceInfo and
\* SetupDiSetDeviceRegistryProperty leave nothing behind.
create_failed == tool.at = "create" /\ tool' = NoTool /\ UNCHANGED node

\* SetupDiCallClassInstaller(DIF_REGISTERDEVICE).
register(n) ==
  /\ tool.at = "create" /\ n \in NewNodes /\ node[n] = "none"
  /\ node' = [node EXCEPT ![n] = "bare"]
  /\ tool' = [tool EXCEPT !.at = "update"]

\* UpdateDriverForPlugAndPlayDevices: all the nodes with that hardware id get the driver,
\* those that have it are restarted.
Updated == {n \in Nodes : Present(n) /\ HwId \in {HardwareIds(n)[i] : i \in DOMAIN HardwareIds(n)}}

update_driver ==
  /\ tool.at = "update" /\ tool' = NoTool
  /\ node' = [n \in Nodes |-> IF n \in Updated THEN "up" ELSE node[n]]

\* It fails, or SetupDiGetDeviceInstallParams before it: the node stays.
update_failed == tool.at = "update" /\ tool' = NoTool /\ UNCHANGED node

install_devnode_and_driver == create_failed \/ (\E n \in NewNodes : register(n)) \/ update_failed

\* remove_devnode: SetupDiGetClassDevs, also for nodes without a driver; with an
\* enumerator only for the nodes that it has.  If it fails, that is all.
get_class_devs(dry_run) ==
  /\ tool.at = "none"
  /\ \/ UNCHANGED tool
     \/ \E all \in SUBSET {n \in Nodes : Present(n)} :
          tool' = [at |-> "enum", list |-> all, left |-> all, dry_run |-> dry_run, errors |-> FALSE]
  /\ UNCHANGED node

\* as_wstring_view(prop) != r.hwid compares the whole lists.
Matches(n) == HardwareIds(n) = make_hwid(HwId)

\* Mutant of uninstall_device: it returns true, which ends the enumeration.
uninstall_device_once(n, ok) ==
  /\ tool.at = "enum" /\ n \in tool.left
  /\ tool' = [tool EXCEPT !.left = IF Matches(n) THEN {} ELSE @ \ {n}, !.errors = @ \/ ~ok]
  /\ node' = IF ok /\ Matches(n) /\ ~tool.dry_run THEN [node EXCEPT ![n] = "none"] ELSE node

\* What uninstall_device meets: a property that cannot be read (get_device_property grows
\* its buffer until it fits), or DiUninstallDevice that fails, is skipped.  A node that
\* needs a reboot stays until then, and devnode says so: that is not ok either.
uninstall_device(n, ok) ==
  /\ tool.at = "enum" /\ n \in tool.left
  /\ tool' = [tool EXCEPT !.left = @ \ {n}, !.errors = @ \/ ~ok]
  /\ node' = IF ok /\ Matches(n) /\ ~tool.dry_run THEN [node EXCEPT ![n] = "none"] ELSE node

\* enum_device_info: at the end of the list, or SetupDiEnumDeviceInfo failed.
enum_device_info ==
  /\ tool.at = "enum"
  /\ tool' = [tool EXCEPT !.at = "removed", !.errors = @ \/ tool.left # {}]
  /\ UNCHANGED node

\* It returns true in any case.
remove_returns == tool.at = "removed" /\ tool' = NoTool /\ UNCHANGED node

\* A remove without an error and without the reminder of a reboot has removed the nodes of
\* the enumerator whose only hardware id is the given one, drivers or not, and no other;
\* with --dry-run none (remove_devnode, uninstall_device).
RemoveIsExact ==
  tool.at = "removed" =>
    LET gone == {n \in tool.list : ~Present(n)}
        meant == IF tool.dry_run THEN {} ELSE {n \in tool.list : HardwareIds(n) = <<HwId>>} IN
    gone \subseteq meant /\ (~tool.errors => gone = meant)
=============================================================================
