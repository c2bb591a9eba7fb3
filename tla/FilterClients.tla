--------------------------- MODULE FilterClients ---------------------------
(***************************************************************************)
(* The programs that read and write the policy of the device filter: the   *)
(* library calls get_device_filter and set_device_filter, the dialog of    *)
(* wusbip, its marks on the devices of a server that the driver would      *)
(* block, and `usbip filter'.  They run beside the driver (DeviceFilter)   *)
(* and beside each other.                                                  *)
(***************************************************************************)
EXTENDS DeviceFilter, SequencesExt

CONSTANTS
  device_type_categories,   \* sequence of [id, entries]
  FirstCount,               \* entries in the first buffer of get_device_filter, 16
  Classes                   \* class, subclass and protocol of interfaces that exist

ASSUME FilterClientsAssumption ==
  /\ FirstCount \in Nat \ {0}
  /\ IsFiniteSet(UNION {Range(device_type_categories[c].entries) : c \in DOMAIN device_type_categories})

VARIABLES
  gui,      \* what MainFrame is doing with the policy
  cnt,      \* entries in the buffer of the next GET_DEVICE_FILTER
  opened,   \* the policy that was read, until the user edits it
  form,     \* FilterDialog: the check boxes
  edited    \* has the user changed them

clientVars == <<gui, cnt, opened, form, edited>>
filterVars == vars

Category == DOMAIN device_type_categories
EmptyForm == [enable |-> FALSE, checked |-> {}]

ClientsInit ==
  /\ Init
  /\ gui = "idle" /\ cnt = 0 /\ opened = NoPolicy /\ form = EmptyForm /\ edited = FALSE
-----------------------------------------------------------------------------
(* Categories and policies.                                                 *)

contains(entries, e) == \E i \in DOMAIN entries : entries[i] = e

\* Mutant of category_enabled: one entry of the category is enough.
category_enabled_any(p, c) ==
  \E e \in Range(device_type_categories[c].entries) : contains(p.entries, e)

category_enabled(p, c) ==
  LET entries == device_type_categories[c].entries
  IN  entries # <<>> /\ \A i \in DOMAIN entries : contains(p.entries, entries[i])

\* The entries of some categories, each of them once.  Their order does not matter: is_allowed
\* looks for one that matches.
EntriesOf(categories) ==
  SetToSeq(UNION {Range(device_type_categories[c].entries) : c \in categories})

\* FilterDialog::policy.
policy_of(f) ==
  [mode |-> IF f.enable THEN "whitelist" ELSE "disabled",
   entries |-> IF f.enable THEN EntriesOf(f.checked) ELSE <<>>]

\* FilterDialog::FilterDialog.
FilterDialog(p) ==
  [enable |-> p.mode # "disabled", checked |-> {c \in Category : category_enabled(p, c)}]

\* vhci::set_device_filter: the buffer has one entry at least.
vhci_set_device_filter(p) ==
  /\ Len(p.entries) <= Capacity
  /\ set_device_filter([mode |-> p.mode, count |-> Len(p.entries), entries |-> p.entries,
                        avail |-> IF p.entries = <<>> THEN 1 ELSE Len(p.entries)])
-----------------------------------------------------------------------------
(***************************************************************************)
(* vhci::get_device_filter, for the dialog or for the list of a server:    *)
(* the buffer is doubled until the policy fits, which may have changed     *)
(* between two calls.                                                      *)
(***************************************************************************)
begin(purpose) ==
  /\ gui = "idle" /\ gui' = purpose /\ cnt' = FirstCount
  /\ UNCHANGED <<opened, form, edited, filterVars>>

on_edit_device_filter == begin("edit")
add_exported_devices == begin("list")

GotPolicy(p) ==
  /\ cnt' = 0 /\ opened' = p
  /\ \/ gui = "edit" /\ gui' = "dialog" /\ form' = FilterDialog(p)
     \/ gui = "list" /\ gui' = "marks" /\ UNCHANGED form

vhci_get_device_filter ==
  /\ gui \in {"edit", "list"}
  /\ LET reply == get_device_filter(cnt) IN
     IF reply.status = "STATUS_BUFFER_TOO_SMALL"
       THEN cnt' = 2 * cnt /\ UNCHANGED <<gui, opened, form>>
       ELSE GotPolicy(reply.policy)
  /\ UNCHANGED <<edited, filterVars>>

\* The driver cannot be opened, or the call fails: no dialog, and nothing is marked.
get_device_filter_failed ==
  /\ gui \in {"edit", "list"} /\ gui' = "idle" /\ cnt' = 0
  /\ UNCHANGED <<opened, form, edited, filterVars>>
-----------------------------------------------------------------------------
(***************************************************************************)
(* The dialog.  The list of the categories is enabled by the first box.    *)
(***************************************************************************)
Close == gui' = "idle" /\ opened' = NoPolicy /\ form' = EmptyForm /\ edited' = FALSE

on_enable ==
  /\ gui = "dialog" /\ form' = [form EXCEPT !.enable = ~@]
  /\ edited' = TRUE /\ opened' = NoPolicy
  /\ UNCHANGED <<gui, cnt, filterVars>>

Check ==
  /\ gui = "dialog" /\ form.enable
  /\ \E c \in Category :
       form' = [form EXCEPT !.checked = IF c \in @ THEN @ \ {c} ELSE @ \cup {c}]
  /\ edited' = TRUE /\ opened' = NoPolicy
  /\ UNCHANGED <<gui, cnt, filterVars>>

\* What was stored since the dialog was opened is overwritten.
OkPressed ==
  /\ gui = "dialog" /\ Close
  /\ vhci_set_device_filter(policy_of(form))
  /\ UNCHANGED cnt

CancelPressed ==
  /\ gui = "dialog" /\ Close
  /\ UNCHANGED <<cnt, filterVars>>
-----------------------------------------------------------------------------
(***************************************************************************)
(* add_exported_devices marks a device of the server as blocked if its     *)
(* class or the class of one of its interfaces is not in the list.         *)
(***************************************************************************)
\* Mutant of Blocked: a miscellaneous device is judged by its class.
BlockedMisc(p, device, interfaces) ==
  /\ p.mode = "whitelist"
  /\ \/ device.tuple[1] # 0 /\ ~is_allowed(p, device.tuple)
     \/ \E t \in interfaces : ~is_allowed(p, t)

Blocked(p, device, interfaces) ==
  /\ p.mode = "whitelist"
  /\ \/ device.tuple[1] \notin {0, 239} /\ ~is_allowed(p, device.tuple)
     \/ \E t \in interfaces : ~is_allowed(p, t)

\* The marks are text in the tree, see MainFrame.
mark_blocked ==
  /\ gui = "marks" /\ Close
  /\ UNCHANGED <<cnt, filterVars>>
-----------------------------------------------------------------------------
(***************************************************************************)
(* `usbip filter', when it changes the policy.                             *)
(***************************************************************************)
\* --disable, --deny-all and --allow exclude each other.  Category 0 is none of the list.
add_cmd_filter ==
  {[mode |-> "disabled", categories |-> {}]} \cup
  {[mode |-> "whitelist", categories |-> cs] : cs \in SUBSET (Category \cup {0})}

find_category(c) == c \in Category

\* If a category is not known, nothing is stored.
cmd_filter ==
  /\ \E args \in add_cmd_filter :
       /\ \A c \in args.categories : find_category(c)
       /\ vhci_set_device_filter([mode |-> args.mode, entries |-> EntriesOf(args.categories)])
  /\ UNCHANGED clientVars
-----------------------------------------------------------------------------
ClientsNext ==
  \/ Next /\ UNCHANGED clientVars
  \/ on_edit_device_filter \/ add_exported_devices
  \/ vhci_get_device_filter \/ get_device_filter_failed
  \/ on_enable \/ Check \/ OkPressed \/ CancelPressed
  \/ mark_blocked \/ cmd_filter

ClientsSpec == ClientsInit /\ [][ClientsNext]_<<clientVars, filterVars>>

\* Opening the dialog and pressing OK never admits an interface that the policy it was opened
\* with refused, although the dialog knows only categories and drops the entries that are
\* not in one (filter_dialog.cpp: category_enabled, policy).
DialogNeverWidens ==
  [][gui = "dialog" /\ ~edited /\ registry' # registry /\ gui' = "idle" =>
       \A t \in Classes : is_allowed(load(registry'), t) => is_allowed(opened, t)
    ]_<<clientVars, filterVars>>

\* What the client reads is what a check would load, and what it marks as blocked with that
\* policy the driver blocks: no device that was admitted under it and has the interfaces that its
\* server lists is marked (wusbip.cpp: add_exported_devices; device_filter.cpp: check_device).
MarkedIsRefused ==
  gui = "marks" /\ pc = "plugged" /\ opened = policy =>
    \A i \in DOMAIN given :
      ~Blocked(opened, udev, {InterfaceClass(given[i], o) : o \in find_all(given[i], InterfaceType)})
=============================================================================
