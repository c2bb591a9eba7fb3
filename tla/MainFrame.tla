------------------------------ MODULE MainFrame ------------------------------
(***************************************************************************)
(* The device tree of wusbip, the GUI: a row for every device location,    *)
(* written by the handler of the driver's events and by the commands of    *)
(* the user, and read back by the commands as the truth about the driver;  *)
(* with the part of the driver that it talks to: the default queue, which  *)
(* carries out one attach or detach at a time, and the events of a device. *)
(*                                                                         *)
(* A location (server and busid) is a model value.  Of the columns of a    *)
(* row are kept: the state, the port, whether a devid is shown, the source *)
(* of the last event, and the mark of a persistent device.  The threads    *)
(* that deliver the events and run the commands are in ClientThreads: here *)
(* events come in order, at any time while the GUI handles events.         *)
(***************************************************************************)
EXTENDS Naturals, Sequences, FiniteSets

CONSTANTS
  Locs,                 \* device locations
  NPorts,               \* ports of the root hub
  NSources,             \* event sources (device_ctx_ext) alive at a time
  Saved0,               \* locations that are saved and persistent at start
  MaxBacklog,           \* events that wait to be handled
  MaxCommands           \* commands of the user

ASSUME MainFrameAssumption ==
  /\ NPorts \in Nat /\ NSources \in Nat /\ MaxBacklog \in Nat
  /\ MaxCommands \in Nat /\ Locs # {} /\ Saved0 \subseteq Locs

Ports == 1..NPorts
Sources == 1..NSources

VARIABLES
  src,                  \* Sources -> attach, device and its extension
  busy,                 \* the source the default queue works on, or 0
  subscribed,           \* the file object of m_read takes part in events
  events,               \* on their way to on_device_state
  gui,                  \* where the GUI thread is
  op,                   \* the command that is run, or "none"
  held,                 \* rows the handler of the command still holds
  wloc,                 \* the row it attaches
  wport,                \* port to detach, 0 for all
  wreq,                 \* its DeviceIoControl
  rows, saved, persistent,
  once,                 \* on_reload has loaded the saved devices
  doubt,                \* history: rows whose port may be wrong
  commands              \* commands so far

driverVars == <<src, busy>>
eventVars == <<subscribed, events>>
runVars == <<op, held, wloc, wport>>
treeVars == <<rows, saved, persistent, once>>
vars == <<driverVars, eventVars, gui, runVars, wreq, treeVars, doubt, commands>>

NoRow == [shown |-> FALSE, st |-> "none", port |-> 0, src |-> 0,
          known |-> FALSE, mark |-> FALSE]
NewRow == [NoRow EXCEPT !.shown = TRUE]
AnyLoc == CHOOSE l \in Locs : TRUE
FreeSource == [st |-> "free", loc |-> AnyLoc, port |-> 0, known |-> FALSE]

Init ==
  /\ src = [k \in Sources |-> FreeSource] /\ busy = 0
  /\ subscribed = FALSE /\ events = <<>>
  /\ gui = "idle" /\ op = "none" /\ held = {}
  /\ wloc = AnyLoc /\ wport = 0 /\ wreq = "none"
  /\ rows = [l \in Locs |-> NoRow]
  /\ saved = Saved0 /\ persistent = Saved0
  /\ once = FALSE /\ doubt = {} /\ commands = 0
-----------------------------------------------------------------------------
(***************************************************************************)
(* The driver.  An event is not for a reader whose first read has not been *)
(* dispatched yet: if the rows were loaded before, they miss it.           *)
(***************************************************************************)
Posted(e) ==
  /\ Len(events) < MaxBacklog
  /\ events' = IF subscribed THEN Append(events, e) ELSE events
  /\ UNCHANGED subscribed

device_state_changed(e) ==
  /\ Posted(e)
  /\ doubt' = IF once /\ ~subscribed THEN doubt \cup {e.loc} ELSE doubt

State(k, st, port, known) ==
  [st |-> st, loc |-> src[k].loc, id |-> k, port |-> port, known |-> known]

Complete(result) == wreq' = IF wreq = "active" THEN result ELSE wreq

Claimed == {src[k].port : k \in {j \in Sources :
                                   src[j].st \in {"plugged", "broken", "closing"}}}

(***************************************************************************)
(* The default queue dispatches reads too, one request at a time: the      *)
(* first read of read_loop waits behind an attach.                         *)
(***************************************************************************)
device_read ==
  /\ ~subscribed /\ busy = 0
  /\ subscribed' = TRUE
  /\ UNCHANGED <<driverVars, events, gui, runVars, wreq, treeVars, doubt,
                 commands>>

(***************************************************************************)
(* plugin_hardware: the default queue starts an attach of the location,    *)
(* for the GUI, for another client or for an attach attempt of its own.    *)
(***************************************************************************)
plugin_hardware(l) ==
  /\ busy = 0
  /\ \E k \in Sources :
       /\ src[k].st = "free" /\ \A j \in 1..(k - 1) : src[j].st # "free"
       /\ busy' = k
       /\ src' = [src EXCEPT ![k] = [FreeSource EXCEPT !.st = "connecting",
                                                       !.loc = l]]
       /\ device_state_changed([st |-> "connecting", loc |-> l, id |-> k,
                                port |-> 0, known |-> FALSE])
  /\ UNCHANGED <<gui, runVars, treeVars, commands>>

AttachForGui ==
  /\ op = "attach" /\ wreq = "sent"
  /\ plugin_hardware(wloc) /\ wreq' = "active"

AttachByOther == (\E l \in Locs : plugin_hardware(l)) /\ UNCHANGED wreq

connected(k) ==
  /\ busy = k /\ src[k].st = "connecting"
  /\ src' = [src EXCEPT ![k].st = "connected"]
  /\ device_state_changed(State(k, "connected", 0, FALSE))
  /\ UNCHANGED <<busy, gui, runVars, wreq, treeVars, commands>>

(***************************************************************************)
(* The attach fails before there is a device: the request is completed and *)
(* the work item posts the last event when it is deleted, at a time when   *)
(* the queue may be working on the next request.                           *)
(***************************************************************************)
AttachFails(k) ==
  /\ busy = k /\ src[k].st \in {"connecting", "connected"}
  /\ \E imported \in IF src[k].st = "connected" THEN BOOLEAN ELSE {FALSE} :
       src' = [src EXCEPT ![k].st = "late", ![k].known = imported]
  /\ busy' = 0 /\ Complete("error")
  /\ UNCHANGED <<eventVars, gui, runVars, treeVars, doubt, commands>>

workitem_cleanup(k) ==
  /\ src[k].st = "late"
  /\ src' = [src EXCEPT ![k] = FreeSource]
  /\ device_state_changed(State(k, "disconnected", 0, src[k].known))
  /\ UNCHANGED <<busy, gui, runVars, wreq, treeVars, commands>>

(***************************************************************************)
(* A server lends a device to one client: it does not while a connection   *)
(* of this client still stands.                                            *)
(***************************************************************************)
plugin(k) ==
  /\ busy = k /\ src[k].st = "connected"
  /\ \A j \in Sources : src[j].st = "plugged" => src[j].loc # src[k].loc
  /\ \E p \in Ports \ Claimed :
       /\ src' = [src EXCEPT ![k].st = "plugged", ![k].port = p,
                             ![k].known = TRUE]
       /\ device_state_changed(State(k, "plugged", p, TRUE))
  /\ busy' = 0 /\ Complete("ok")
  /\ UNCHANGED <<gui, runVars, treeVars, commands>>

(***************************************************************************)
(* No port is free, or UdecxUsbDevicePlugIn fails: detach() posts          *)
(* "disconnected" with the port that was claimed, and nothing else.        *)
(***************************************************************************)
PluginFails(k) ==
  /\ busy = k /\ src[k].st = "connected"
  /\ \E p \in IF Claimed = Ports THEN {0} ELSE Ports \ Claimed :
       /\ Posted(State(k, "disconnected", p, TRUE))
       /\ doubt' = IF p = 0 /\ (subscribed \/ ~once)
                     THEN doubt ELSE doubt \cup {src[k].loc}
  /\ src' = [src EXCEPT ![k] = FreeSource]
  /\ busy' = 0 /\ Complete("error")
  /\ UNCHANGED <<gui, runVars, treeVars, commands>>

ConnectionBreaks(k) ==
  /\ src[k].st = "plugged"
  /\ src' = [src EXCEPT ![k].st = "broken"]
  /\ UNCHANGED <<busy, eventVars, gui, runVars, wreq, treeVars, doubt, commands>>

(***************************************************************************)
(* device::detach: disconnected, then the port is released, unplugging,    *)
(* and unplugged if UdecxUsbDevicePlugOutAndDelete succeeds.               *)
(***************************************************************************)
detach(k) ==
  /\ busy = 0 /\ src[k].st \in {"plugged", "broken"}
  /\ busy' = k
  /\ src' = [src EXCEPT ![k].st = "closing"]
  /\ device_state_changed(State(k, "disconnected", src[k].port, TRUE))
  /\ UNCHANGED <<gui, runVars, treeVars, commands>>

Asked(k) == wport \in {0, src[k].port}

DetachForGui ==
  /\ op = "detach" /\ wreq = "sent"
  /\ \E k \in Sources : Asked(k) /\ detach(k)
  /\ wreq' = "active"

DetachFindsNone ==
  /\ op = "detach" /\ wreq = "sent" /\ busy = 0
  /\ ~ \E k \in Sources : src[k].st \in {"plugged", "broken"} /\ Asked(k)
  /\ wreq' = IF wport = 0 THEN "ok" ELSE "error"
  /\ UNCHANGED <<driverVars, eventVars, gui, runVars, treeVars, doubt, commands>>

DetachByOther(k) == detach(k) /\ UNCHANGED wreq

reclaim_roothub_port(k) ==
  /\ src[k].st = "closing"
  /\ src' = [src EXCEPT ![k].st = "unplugging"]
  /\ device_state_changed(State(k, "unplugging", src[k].port, TRUE))
  /\ UNCHANGED <<busy, gui, runVars, wreq, treeVars, commands>>

(***************************************************************************)
(* The last event is missing if UDE fails; the GUI's request goes on with  *)
(* the next device if it was for all of them.                              *)
(***************************************************************************)
plugout_and_delete(k) ==
  /\ src[k].st = "unplugging"
  /\ src' = [src EXCEPT ![k] = FreeSource]
  /\ busy' = 0
  /\ Complete(IF /\ wport = 0
                 /\ \E j \in Sources : src[j].st \in {"plugged", "broken"}
                THEN "sent" ELSE "ok")
  /\ \/ device_state_changed(State(k, "unplugged", src[k].port, TRUE))
     \/ doubt' = doubt \cup {src[k].loc} /\ UNCHANGED eventVars
  /\ UNCHANGED <<gui, runVars, treeVars, commands>>

Driver ==
  \/ device_read \/ AttachForGui \/ AttachByOther
  \/ DetachForGui \/ DetachFindsNone
  \/ \E k \in Sources :
       \/ connected(k) \/ AttachFails(k) \/ workitem_cleanup(k)
       \/ plugin(k) \/ PluginFails(k) \/ ConnectionBreaks(k)
       \/ DetachByOther(k) \/ reclaim_roothub_port(k) \/ plugout_and_delete(k)
-----------------------------------------------------------------------------
(***************************************************************************)
(* on_device_state.                                                        *)
(***************************************************************************)
is_port_residual(st) == st \in {"unplugged", "connecting", "connected"}

PortOf(r, e) ==
  IF ~e.known \/ e.port = 0 THEN r.port
  ELSE IF is_port_residual(e.st) THEN 0 ELSE e.port

\* Mutant: a "plugged" of another source is skipped as well.
FromOtherAlways(r, e) == r.src # 0 /\ r.src # e.id

FromOther(r, e) == r.src # 0 /\ e.st # "plugged" /\ r.src # e.id

(***************************************************************************)
(* make_device_columns, update_from_saved and update_device.  Saved        *)
(* columns, devid among them, and the mark are looked up if the row is new *)
(* or the event says nothing of the device.                                *)
(***************************************************************************)
update_device(r, e) ==
  LET lookup == ~rows[e.loc].shown \/ ~e.known
  IN  [r EXCEPT
         !.st = e.st,
         !.src = IF e.st \in {"disconnected", "unplugged"} THEN 0 ELSE e.id,
         !.port = PortOf(r, e),
         !.known = @ \/ e.known \/ (lookup /\ e.loc \in saved),
         !.mark = @ \/ (lookup /\ e.loc \in persistent)]

\* The row, and that of its server when it was the last one.
remove_device(l) == [rows EXCEPT ![l] = NoRow]

on_device_state ==
  /\ gui \in {"idle", "modal", "edit"} /\ events # <<>>
  /\ events' = Tail(events)
  /\ LET e == Head(events)
         r == IF rows[e.loc].shown THEN rows[e.loc] ELSE NewRow
     IN  \/ /\ e.st = "disconnected" /\ ~r.known
            /\ rows' = remove_device(e.loc)
            /\ UNCHANGED doubt
         \/ /\ e.st # "disconnected" \/ r.known
            /\ FromOther(r, e)
            /\ UNCHANGED <<rows, doubt>>
         \/ /\ e.st # "disconnected" \/ r.known
            /\ ~FromOther(r, e)
            /\ rows' = [rows EXCEPT ![e.loc] = update_device(r, e)]
            /\ doubt' = IF e.st \in {"connecting", "connected"} /\ r.port # 0
                          THEN doubt \cup {e.loc} ELSE doubt
  /\ UNCHANGED <<driverVars, subscribed, gui, runVars, wreq, saved, persistent,
                 once, commands>>
-----------------------------------------------------------------------------
(***************************************************************************)
(* Commands.  The first one is on_reload, posted by the constructor.  A    *)
(* command that asks the driver waits in a dialog that handles events.     *)
(***************************************************************************)
Command ==
  /\ gui = "idle" /\ once /\ commands < MaxCommands
  /\ commands' = commands + 1

Shown == {l \in Locs : rows[l].shown}
Known == {l \in Shown : rows[l].known}

\* Mutant: rows without a devid are selected too.
SelectedAny == SUBSET Shown

\* get_selected_devices(tree), is_server_or_empty
SelectedDevices == SUBSET Known

\* on_has_selected_devices_update_ui: the menu item is enabled.
has_selected_devices(S) == S # {}

commandFrame == <<driverVars, eventVars, doubt>>

(***************************************************************************)
(* The end of a command: the handler gives up the rows it held.            *)
(***************************************************************************)
Idle ==
  /\ gui' = "idle" /\ op' = "none" /\ held' = {}
  /\ wloc' = AnyLoc /\ wport' = 0 /\ wreq' = "none"

Cancel ==
  /\ gui = "modal" /\ wreq = "sent" /\ wreq' = "error"
  /\ UNCHANGED <<commandFrame, gui, runVars, treeVars, commands>>

(***************************************************************************)
(* attach(once): the loop over the selected rows, which stops at an error. *)
(* A row that was removed meanwhile is used all the same; what happens is  *)
(* undefined, and the handler is taken to end.                             *)
(***************************************************************************)
on_attach ==
  /\ Command
  /\ \E S \in SUBSET Shown : S # {} /\ held' = S
  /\ op' = "attach" /\ gui' = "next"
  /\ UNCHANGED <<commandFrame, treeVars, wloc, wport, wreq>>

attach_next ==
  /\ gui = "next" /\ op = "attach"
  /\ \/ /\ \E l \in held : rows[l].shown /\ wloc' = l /\ held' = held \ {l}
        /\ gui' = "modal" /\ wreq' = "sent" /\ UNCHANGED <<op, wport>>
     \/ /\ held = {} \/ \E l \in held : ~rows[l].shown
        /\ Idle
  /\ UNCHANGED <<commandFrame, treeVars, commands>>

on_detach ==
  /\ Command
  /\ \E S \in SelectedDevices : has_selected_devices(S) /\ held' = S
  /\ op' = "detach" /\ gui' = "next"
  /\ UNCHANGED <<commandFrame, treeVars, wloc, wport, wreq>>

on_detach_all ==
  /\ Command
  /\ op' = "detach" /\ gui' = "modal" /\ wreq' = "sent"
  /\ UNCHANGED <<commandFrame, treeVars, held, wloc, wport>>

(***************************************************************************)
(* on_item_activated: a double click on a row, which is selected then.  It *)
(* does what the menu does for the whole selection, by the state of this   *)
(* row.                                                                    *)
(***************************************************************************)
on_item_activated ==
  /\ Command
  /\ \E l \in Shown, S \in SUBSET Shown :
       /\ l \in S
       /\ \/ rows[l].st = "unplugged" /\ op' = "attach" /\ held' = S
          \/ rows[l].st = "plugged" /\ op' = "detach" /\ held' = S \cap Known
  /\ gui' = "next"
  /\ UNCHANGED <<commandFrame, treeVars, wloc, wport, wreq>>

\* The number in the column, zero if it is empty.
get_port(l) == rows[l].port

detach_next ==
  /\ gui = "next" /\ op = "detach"
  /\ \/ held = {} /\ Idle
     \/ \E l \in held :
          /\ get_port(l) = 0 /\ held' = held \ {l}
          /\ UNCHANGED <<gui, op, wloc, wport, wreq>>
     \/ \E l \in held :
          /\ get_port(l) # 0 /\ wport' = get_port(l) /\ held' = held \ {l}
          /\ gui' = "modal" /\ wreq' = "sent" /\ UNCHANGED <<op, wloc>>
  /\ UNCHANGED <<commandFrame, treeVars, commands>>

Returned ==
  /\ gui = "modal" /\ wreq \in {"ok", "error"}
  /\ IF wreq = "ok"
       THEN /\ gui' = "next" /\ wreq' = "none" /\ wloc' = AnyLoc /\ wport' = 0
            /\ UNCHANGED <<op, held>>
       ELSE Idle
  /\ UNCHANGED <<commandFrame, treeVars, commands>>

(***************************************************************************)
(* connect and add_exported_devices: the devices of the reply, or those    *)
(* that came before it broke off.  The columns of a known row are written  *)
(* except the state; the source id is among them and is empty, so that the *)
(* events of a rival source are no longer told apart.                      *)
(***************************************************************************)
Rivals(l) ==
  {k \in Sources :
     \/ src[k].loc = l /\ src[k].st # "free"
     \/ \E i \in DOMAIN events : events[i].loc = l /\ events[i].id = k}

Contested == {l \in Locs : Cardinality(Rivals(l)) > 1}

connect ==
  /\ Command
  /\ op' = "connect" /\ gui' = "modal"
  /\ UNCHANGED <<commandFrame, treeVars, held, wloc, wport, wreq>>

Exported(l) ==
  LET r == rows[l]
  IN  [r EXCEPT !.shown = TRUE, !.known = TRUE, !.src = 0,
                !.st = IF r.shown THEN @ ELSE "unplugged",
                !.mark = @ \/ l \in persistent]

add_exported_devices ==
  /\ op = "connect" /\ gui = "modal" /\ Idle
  /\ \E S \in SUBSET Locs :
       /\ rows' = [l \in Locs |-> IF l \in S THEN Exported(l) ELSE rows[l]]
       /\ doubt' = doubt \cup (S \cap Contested)
  /\ UNCHANGED <<driverVars, eventVars, saved, persistent, once, commands>>

(***************************************************************************)
(* edit_column_dlg: a dialog for the one row that is selected; the row is  *)
(* written when the dialog is closed.                                      *)
(***************************************************************************)
edit_column_dlg ==
  /\ Command
  /\ \E S \in SelectedDevices : Cardinality(S) = 1 /\ held' = S
  /\ op' = "edit" /\ gui' = "edit"
  /\ UNCHANGED <<commandFrame, treeVars, wloc, wport, wreq>>

edit_column_end ==
  /\ gui = "edit" /\ Idle
  /\ UNCHANGED <<commandFrame, treeVars, commands>>

is_persistent(r) == r.mark
set_persistent(r, mark) == [r EXCEPT !.mark = mark]

on_toggle_auto ==
  /\ Command
  /\ \E S \in SelectedDevices :
       /\ has_selected_devices(S)
       /\ rows' = [l \in Locs |-> IF l \in S
                                    THEN set_persistent(rows[l], ~is_persistent(rows[l]))
                                    ELSE rows[l]]
  /\ UNCHANGED <<commandFrame, saved, persistent, once, gui, runVars, wreq>>

(***************************************************************************)
(* save: the configuration is replaced; set_persistent may fail.           *)
(***************************************************************************)
save ==
  /\ Command
  /\ \E S \in SelectedDevices :
       /\ S # {} /\ saved' = S
       /\ persistent' \in {persistent, {l \in S : rows[l].mark}}
  /\ UNCHANGED <<commandFrame, rows, once, gui, runVars, wreq>>

(***************************************************************************)
(* on_load: saved devices that are not shown yet, or without a devid.      *)
(***************************************************************************)
Loaded(t) ==
  [l \in Locs |->
     IF l \in saved /\ ~(t[l].shown /\ t[l].known)
       THEN [t[l] EXCEPT !.shown = TRUE, !.known = TRUE, !.st = "unplugged",
                         !.mark = @ \/ l \in persistent]
       ELSE t[l]]

on_load ==
  /\ Command
  /\ rows' = Loaded(rows)
  /\ UNCHANGED <<commandFrame, saved, persistent, once, gui, runVars, wreq>>

(***************************************************************************)
(* on_reload: the tree is built anew from get_imported_devices, in the     *)
(* order of the ports.  Two devices of one location share a row.           *)
(***************************************************************************)
Imported(l) ==
  {src[k].port : k \in {j \in Sources :
     src[j].loc = l /\ src[j].st \in {"plugged", "broken", "closing"}}}

LastOf(S) == CHOOSE p \in S : \A q \in S : q <= p

Reloaded ==
  [l \in Locs |->
     IF Imported(l) = {} THEN NoRow
     ELSE [NewRow EXCEPT !.st = "plugged", !.port = LastOf(Imported(l)),
                         !.known = TRUE, !.mark = l \in persistent]]

on_reload ==
  /\ IF once THEN Command ELSE gui = "idle" /\ UNCHANGED commands
  /\ \/ /\ rows' = IF once THEN Reloaded ELSE Loaded(Reloaded)
        /\ once' = TRUE
        /\ doubt' = doubt \cup Contested
     \/ /\ rows' = [l \in Locs |-> NoRow]
        /\ once' = once
        /\ doubt' = Locs
  /\ UNCHANGED <<driverVars, eventVars, saved, persistent, gui, runVars, wreq>>

Gui ==
  \/ on_device_state \/ Cancel \/ attach_next \/ detach_next \/ Returned
  \/ add_exported_devices \/ edit_column_end
  \/ on_attach \/ on_detach \/ on_item_activated \/ on_detach_all \/ connect \/ edit_column_dlg
  \/ on_toggle_auto \/ save \/ on_load \/ on_reload

Next == Driver \/ Gui

Spec == Init /\ [][Next]_vars
-----------------------------------------------------------------------------
(***************************************************************************)
(* When no event is on its way and the default queue rests, a row shows    *)
(* the port its device is plugged into, and shows none if the device is    *)
(* not there: on_device_state tells the sources of a location apart        *)
(* although the last event of a failed attach comes late.  The rows in     *)
(* doubt are those for which is_port_residual or UDE failed.               *)
(***************************************************************************)
Drained ==
  /\ subscribed /\ events = <<>> /\ busy = 0 /\ once
  /\ \A k \in Sources : src[k].st \in {"free", "plugged"}

RowPortAgrees ==
  Drained => \A l \in Locs \ doubt :
    rows[l].port = IF Imported(l) = {} THEN 0 ELSE LastOf(Imported(l))

(***************************************************************************)
(* on_detach and edit_column_dlg keep items of the tree while a dialog     *)
(* handles events: on_device_state removes none of them, since it removes  *)
(* only rows without a devid.                                              *)
(***************************************************************************)
HeldRowsExist == op \in {"detach", "edit"} => held \subseteq Shown

=============================================================================
