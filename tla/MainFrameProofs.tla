--------------------------- MODULE MainFrameProofs ---------------------------
(***************************************************************************)
(* Proofs about MainFrame for any locations, ports and sources, and any    *)
(* number of events and commands: the rows that a command holds exist, and *)
(* the ports that the rows show are those of the driver.                   *)
(***************************************************************************)
EXTENDS MainFrame, SequenceTheorems, FiniteSetTheorems, TLAPS

-----------------------------------------------------------------------------
(* The inductive invariant.                                                 *)

\* A row has the columns that say whether it is shown and has a devid.
IsRow(r) == r = [c \in DOMAIN r |-> r[c]] /\ {"shown", "known"} \subseteq DOMAIN r

Rows == rows = [l \in Locs |-> rows[l]] /\ \A l \in Locs : IsRow(rows[l])

\* Only a command that is run holds rows.
IdleHoldsNone == gui = "idle" => op = "none" /\ held = {}

\* The rows that on_detach and edit_column_dlg hold have a devid, which no event takes
\* away from a row.
HeldRowsAreKnown == op \in {"detach", "edit"} => held \subseteq Known

IInv == Rows /\ IdleHoldsNone /\ HeldRowsAreKnown

-----------------------------------------------------------------------------
\* The columns of a row that an event updates.
LEMMA UpdateKeeps ==
  ASSUME NEW r, NEW e, IsRow(r)
  PROVE  /\ IsRow(update_device(r, e))
         /\ update_device(r, e).shown = r.shown
         /\ r.known => update_device(r, e).known
  BY DEF IsRow, update_device

\* A row without columns, and one that an event creates.
LEMMA NewRows == IsRow(NoRow) /\ IsRow(NewRow) /\ ~NoRow.shown /\ ~NewRow.known
  BY DEF IsRow, NoRow, NewRow

\* Steps that leave the rows and what is held alone.
LEMMA HeldFrame ==
  ASSUME IInv, UNCHANGED <<rows, gui, op, held>>
  PROVE  IInv'
  BY DEF IInv, Rows, IdleHoldsNone, HeldRowsAreKnown, Known, Shown

\* An event removes only a row without a devid, and leaves the devid of the others.
LEMMA EventNext == IInv /\ on_device_state => IInv'
  <1> SUFFICES ASSUME IInv, on_device_state PROVE IInv'
    OBVIOUS
  <1> DEFINE e == Head(events)
             r == IF rows[e.loc].shown THEN rows[e.loc] ELSE NewRow
  <1>1. UNCHANGED <<gui, op, held>>
    BY DEF on_device_state, runVars
  <1>2. ASSUME Rows', \A l \in Known : rows'[l].shown /\ rows'[l].known PROVE IInv'
    BY <1>1, <1>2 DEF IInv, IdleHoldsNone, HeldRowsAreKnown, Known, Shown
  <1>3. Rows
    BY DEF IInv
  <1>4. CASE e.st = "disconnected" /\ ~r.known /\ rows' = remove_device(e.loc)
    <2>1. e.loc \notin Known
      BY <1>4 DEF Known, Shown
    <2>2. rows' = [l \in Locs |-> IF l = e.loc THEN NoRow ELSE rows[l]]
      BY <1>3, <1>4 DEF Rows, remove_device
    <2>3. Rows'
      BY <2>2, <1>3, NewRows DEF Rows
    <2>4. \A l \in Known : rows'[l].shown /\ rows'[l].known
      BY <2>1, <2>2 DEF Known, Shown
    <2> QED BY <2>3, <2>4, <1>2
  <1>5. CASE UNCHANGED rows
    BY <1>1, <1>5, HeldFrame
  <1>6. CASE rows' = [rows EXCEPT ![e.loc] = update_device(r, e)]
    <2>1. rows' = [l \in Locs |-> IF l = e.loc THEN update_device(r, e) ELSE rows[l]]
      BY <1>3, <1>6 DEF Rows
    <2>2. e.loc \in Locs => IsRow(r)
      BY <1>3, NewRows DEF Rows
    <2>3. e.loc \in Known => r = rows[e.loc] /\ e.loc \in Locs
      BY DEF Known, Shown
    <2> HIDE DEF e, r
    <2>4. e.loc \in Locs => /\ IsRow(update_device(r, e))
                            /\ update_device(r, e).shown = r.shown
                            /\ r.known => update_device(r, e).known
      BY <2>2, UpdateKeeps
    <2>5. Rows'
      BY <2>1, <2>4, <1>3 DEF Rows
    <2>6. ASSUME NEW l \in Known PROVE rows'[l].shown /\ rows'[l].known
      <3>1. l \in Locs /\ rows[l].shown /\ rows[l].known
        BY DEF Known, Shown
      <3>2. CASE l = e.loc
        BY <3>1, <3>2, <2>1, <2>3, <2>4
      <3>3. CASE l # e.loc
        BY <3>1, <3>3, <2>1
      <3> QED BY <3>2, <3>3
    <2> QED BY <2>5, <2>6, <1>2
  <1> QED BY <1>4, <1>5, <1>6 DEF on_device_state

\* The other handlers that write rows.
LEMMA RowsNext ==
  ASSUME Rows, add_exported_devices \/ on_toggle_auto \/ on_load \/ on_reload
  PROVE  Rows'
  <1>1. CASE add_exported_devices
    <2>1. \A l \in Locs : IsRow(Exported(l))
      BY DEF Rows, IsRow, Exported
    <2> QED BY <1>1, <2>1 DEF add_exported_devices, Rows
  <1>2. CASE on_toggle_auto
    <2>1. \A l \in Locs : \A m : IsRow(set_persistent(rows[l], m))
      BY DEF Rows, IsRow, set_persistent
    <2> QED BY <1>2, <2>1 DEF on_toggle_auto, Rows
  <1>3. ASSUME NEW t, \A l \in Locs : IsRow(t[l])
        PROVE  Loaded(t) = [l \in Locs |-> Loaded(t)[l]] /\ \A l \in Locs : IsRow(Loaded(t)[l])
    BY <1>3 DEF IsRow, Loaded
  <1>4. /\ Reloaded = [l \in Locs |-> Reloaded[l]]
        /\ \A l \in Locs : IsRow(Reloaded[l])
    BY DEF Reloaded, NewRow, NoRow, IsRow
  <1>5. CASE on_load
    BY <1>3, <1>5 DEF on_load, Rows
  <1>6. CASE on_reload
    <2>1. CASE rows' = [l \in Locs |-> NoRow]
      BY <2>1, NewRows DEF Rows
    <2>2. CASE rows' = Reloaded
      BY <2>2, <1>4 DEF Rows
    <2>3. CASE rows' = Loaded(Reloaded)
      BY <2>3, <1>3, <1>4 DEF Rows
    <2> QED BY <1>6, <2>1, <2>2, <2>3 DEF on_reload
  <1> QED BY <1>1, <1>2, <1>5, <1>6

\* Every step keeps the invariant.
LEMMA InvariantNext == IInv /\ [Next]_vars => IInv'
  <1> SUFFICES ASSUME IInv, [Next]_vars PROVE IInv'
    OBVIOUS
  <1>1. CASE Driver \/ Cancel \/ save \/ UNCHANGED vars
    <2>1. CASE Driver
      <3>1. UNCHANGED <<gui, runVars, treeVars>>
        BY <2>1 DEF Driver, device_read, AttachForGui, AttachByOther, plugin_hardware,
           DetachForGui, DetachFindsNone, DetachByOther, connected, AttachFails,
           workitem_cleanup, plugin, PluginFails, ConnectionBreaks, detach,
           reclaim_roothub_port, plugout_and_delete
      <3> QED BY <3>1, HeldFrame DEF runVars, treeVars
    <2>2. CASE Cancel \/ save \/ UNCHANGED vars
      BY <2>2, HeldFrame DEF Cancel, save, vars, runVars, treeVars
    <2> QED BY <1>1, <2>1, <2>2
  <1>2. CASE on_device_state
    BY <1>2, EventNext
  <1>3. CASE add_exported_devices
    <2>1. Rows' /\ op' = "none" /\ held' = {}
      BY <1>3, RowsNext DEF add_exported_devices, Idle, IInv
    <2> QED BY <2>1 DEF IInv, IdleHoldsNone, HeldRowsAreKnown
  <1>4. CASE on_toggle_auto \/ on_load \/ on_reload
    <2>1. Rows' /\ gui = "idle" /\ UNCHANGED <<gui, op, held>>
      BY <1>4, RowsNext DEF on_toggle_auto, on_load, on_reload, Command, IInv, runVars
    <2> QED BY <2>1 DEF IInv, IdleHoldsNone, HeldRowsAreKnown
  <1>5. ASSUME UNCHANGED rows, gui' # "idle", op' \in {"detach", "edit"} => held' \subseteq Known
        PROVE  IInv'
    BY <1>5 DEF IInv, Rows, IdleHoldsNone, HeldRowsAreKnown, Known, Shown
  <1>6. ASSUME UNCHANGED rows, Idle PROVE IInv'
    BY <1>6 DEF IInv, Rows, IdleHoldsNone, HeldRowsAreKnown, Idle
  <1>7. op = "detach" => held \subseteq Known
    BY DEF IInv, HeldRowsAreKnown
  <1>8. CASE on_attach \/ on_detach \/ edit_column_dlg
    BY <1>8, <1>5 DEF on_attach, on_detach, edit_column_dlg, SelectedDevices, treeVars
  <1>9. CASE on_item_activated
    <2>1. op' = "attach" \/ (op' = "detach" /\ held' \subseteq Known)
      <3>1. PICK S \in SUBSET Shown : op' = "attach" \/ (op' = "detach" /\ held' = S \cap Known)
        BY <1>9 DEF on_item_activated
      <3>2. S \cap Known \subseteq Known
        OBVIOUS
      <3> QED BY <3>1, <3>2
    <2> QED BY <1>9, <2>1, <1>5 DEF on_item_activated, treeVars
  <1>10. CASE on_detach_all \/ connect
    <2>1. held' = {}
      BY <1>10 DEF on_detach_all, connect, Command, IInv, IdleHoldsNone
    <2> QED BY <1>10, <2>1, <1>5 DEF on_detach_all, connect, treeVars
  <1>11. CASE attach_next
    BY <1>11, <1>5, <1>6 DEF attach_next, treeVars
  <1>12. CASE detach_next
    BY <1>12, <1>5, <1>6, <1>7 DEF detach_next, treeVars
  <1>13. CASE Returned
    <2>1. CASE wreq = "ok"
      BY <1>13, <2>1, <1>5 DEF Returned, treeVars, IInv, HeldRowsAreKnown
    <2>2. CASE wreq # "ok"
      BY <1>13, <2>2, <1>6 DEF Returned, treeVars
    <2> QED BY <2>1, <2>2
  <1>14. CASE edit_column_end
    BY <1>14, <1>6 DEF edit_column_end, treeVars
  <1> QED BY <1>1, <1>2, <1>3, <1>4, <1>8, <1>9, <1>10, <1>11, <1>12, <1>13, <1>14
          DEF Next, Gui

-----------------------------------------------------------------------------
\* A command that detaches or edits holds only rows that are shown with a devid.
THEOREM Invariance == Spec => []IInv
  <1>1. Init => IInv
    BY NewRows DEF Init, IInv, Rows, IdleHoldsNone, HeldRowsAreKnown
  <1> QED BY <1>1, InvariantNext, PTL DEF Spec

\* The items that on_detach and edit_column_dlg use after a dialog are still in the
\* tree, whatever events the dialog handled.
THEOREM HeldRowsExistHolds == Spec => []HeldRowsExist
  <1>1. IInv => HeldRowsExist
    BY DEF IInv, HeldRowsAreKnown, HeldRowsExist, Known
  <1> QED BY <1>1, Invariance, PTL

-----------------------------------------------------------------------------
(* The invariant of the ports that rows show.  A row is followed through    *)
(* the events that are on their way: a run is any course that its port and  *)
(* its source may take until none is left, whether commands give it a devid *)
(* meanwhile or not.                                                        *)

Offline == {"connecting", "connected", "late"}
Online == {"plugged", "broken", "closing", "unplugging"}

SourceType ==
    {s \in [st : {"free"} \cup Offline \cup Online, loc : Locs, port : 0 .. NPorts, known : BOOLEAN] :
       s.st \in Online => s.port # 0}

EventType ==
    {e \in [st : {"connecting", "connected", "plugged", "disconnected", "unplugging", "unplugged"},
            loc : Locs, id : Sources, port : 0 .. NPorts, known : BOOLEAN] :
       /\ e.st \in {"connecting", "connected"} => e.port = 0
       /\ e.st \in {"plugged", "unplugging", "unplugged"} => e.port # 0
       /\ e.port # 0 => e.known}

\* What is followed: a row that shows a port has a devid.
Values == {v \in [port : 0 .. NPorts, src : 0 .. NSources, known : BOOLEAN] : v.port # 0 => v.known}

Followed(r) == [port |-> r.port, src |-> r.src, known |-> r.known]

RowStates ==
    {"none", "connecting", "connected", "plugged", "disconnected", "unplugging", "unplugged"}

RowType ==
    {r \in [shown : BOOLEAN, st : RowStates, port : 0 .. NPorts, src : 0 .. NSources,
            known : BOOLEAN, mark : BOOLEAN] :
       /\ r.port # 0 => r.known
       /\ ~r.shown => r.port = 0 /\ r.src = 0 /\ ~r.known}

\* The state is well typed; commands wait for the first on_reload.
PortTypes ==
    /\ src \in [Sources -> SourceType]
    /\ events \in Seq(EventType)
    /\ rows \in [Locs -> RowType]
    /\ doubt \subseteq Locs
    /\ held \subseteq Locs /\ wloc \in Locs
    /\ subscribed \in BOOLEAN /\ once \in BOOLEAN
    /\ events # <<>> => subscribed
    /\ op # "none" => once

\* Source k of s belongs to location l.
Of(s, k, l) == s[k].loc = l /\ s[k].st # "free"

\* What on_device_state may make of a when it handles e, unless it comes to be in doubt.
Applied(a, e, b) ==
    \/ e.st = "disconnected" /\ ~a.known /\ b.port = 0 /\ b.src = 0
    \/ /\ e.st # "disconnected" \/ a.known
       /\ FromOther(a, e) /\ b.port = a.port /\ b.src = a.src
    \/ /\ e.st # "disconnected" \/ a.known
       /\ ~FromOther(a, e)
       /\ e.st \in {"connecting", "connected"} => a.port = 0
       /\ b.port = PortOf(a, e)
       /\ b.src = IF e.st \in {"disconnected", "unplugged"} THEN 0 ELSE e.id

\* t is a run of the row r of l through the events q.
IsRun(t, l, r, q) ==
    /\ t[0].port = r.port /\ t[0].src = r.src
    /\ \A i \in 1 .. Len(q) :
          IF q[i].loc = l THEN Applied(t[i - 1], q[i], t[i]) ELSE t[i] = t[i - 1]

\* f agrees with the sources of l: a device that is plugged shows its port, and then
\* events of others are told apart from its own; a port that is shown belongs to the
\* source in f or, if there is none, to one that will take it away.
Settled(f, l, s) ==
    /\ \A k \in Sources : Of(s, k, l) /\ s[k].st = "plugged" =>
          /\ f.port = s[k].port
          /\ f.src = k \/ (f.src = 0 /\ \A j \in Sources : Of(s, j, l) => j = k)
    /\ f.src # 0 =>
          /\ f.src \in Sources /\ Of(s, f.src, l) /\ s[f.src].st # "closing"
          /\ f.port = IF s[f.src].st \in Offline THEN 0 ELSE s[f.src].port
    /\ f.src = 0 /\ f.port # 0 =>
          \E k \in Sources : Of(s, k, l) /\ s[k].st \in Online /\ s[k].port = f.port

RunsSettle(l, r, q, s) ==
    \A t \in [0 .. Len(q) -> Values] : IsRun(t, l, r, q) => Settled(t[Len(q)], l, s)

Same(e, f) == e.id = f.id /\ e.loc = f.loc
IsEnd(e) == e.st = "unplugged" \/ (e.st = "disconnected" /\ e.port = 0)

\* The last event e of a source in state s.
IsLast(e, s) ==
    \/ e.st = "connecting" /\ s.st \in {"connecting", "late"}
    \/ e.st = "connected" /\ s.st \in {"connected", "late"}
    \/ e.st = "plugged" /\ s.st \in {"plugged", "broken"} /\ s.port = e.port
    \/ e.st = "disconnected" /\ e.port # 0 /\ s.st = "closing" /\ s.port = e.port
    \/ e.st = "unplugging" /\ s.st = "unplugging" /\ s.port = e.port

\* The last event that waits for a location tells the state of its source.
LastTells(l, q, s) ==
    \A i \in 1 .. Len(q) :
        q[i].loc = l /\ (\A j \in 1 .. Len(q) : j > i => ~Same(q[j], q[i])) =>
            IF Of(s, q[i].id, l) THEN IsLast(q[i], s[q[i].id]) ELSE IsEnd(q[i])

\* The last event of an attach that failed follows those of its beginning.
FailsAfterStart(l, q) ==
    \A i, j \in 1 .. Len(q) :
        /\ j < i /\ q[i].loc = l /\ Same(q[j], q[i])
        /\ q[i].st = "disconnected" /\ q[i].port = 0
        /\ \A m \in 1 .. Len(q) : j < m /\ m < i => ~Same(q[m], q[j])
        => q[j].st \in {"connecting", "connected"}

QueueInv(l, q, s) == LastTells(l, q, s) /\ FailsAfterStart(l, q)

PortInv ==
    /\ PortTypes
    /\ \A l \in Locs \ doubt :
          /\ QueueInv(l, events, src)
          /\ once => RunsSettle(l, rows[l], events, src)

-----------------------------------------------------------------------------
\* A set of numbers has a least one.
LEMMA LeastNumber ==
  ASSUME NEW T, T \subseteq Nat, T # {}
  PROVE  \E x \in T : \A y \in T : x <= y
  <1> DEFINE R == OpToRel(<, Nat)
  <1>1. PICK x \in T : \A y \in T : ~(<<y, x>> \in R)
    <2>1. IsWellFoundedOn(R, Nat) BY NatLessThanWellFounded
    <2> HIDE DEF R
    <2> QED BY <2>1, WFMin
  <1>2. \A y \in T : x <= y
    <2> TAKE y \in T
    <2>1. y \in Nat /\ x \in Nat BY <1>1
    <2>2. ~(y < x) BY <1>1, <2>1 DEF OpToRel
    <2> HIDE DEF R
    <2> QED BY <2>1, <2>2
  <1> QED BY <1>1, <1>2

\* A set with zero and every successor has all numbers.
LEMMA SetInduction ==
  ASSUME NEW S, 0 \in S, \A n \in Nat : n \in S => n + 1 \in S
  PROVE  Nat \subseteq S
  <1> SUFFICES ASSUME Nat \ S # {} PROVE FALSE
    OBVIOUS
  <1>1. PICK x \in Nat \ S : \A y \in Nat \ S : x <= y
    BY LeastNumber
  <1> QED BY <1>1

-----------------------------------------------------------------------------


-----------------------------------------------------------------------------
(* The events that wait.                                                    *)

\* What is left of a queue when its first event is taken.
LEMMA TailOf ==
  ASSUME NEW S, NEW q \in Seq(S), q # <<>>
  PROVE  /\ Tail(q) \in Seq(S) /\ Len(q) \in Nat \ {0} /\ Len(Tail(q)) = Len(q) - 1
         /\ \A i \in 1 .. Len(Tail(q)) : i + 1 \in 1 .. Len(q) /\ Tail(q)[i] = q[i + 1]
         /\ \A k \in 1 .. Len(q) : k = 1 \/ (k - 1 \in 1 .. Len(Tail(q)) /\ Tail(q)[k - 1] = q[k])
         /\ 1 \in 1 .. Len(q) /\ Head(q) = q[1]
  <1> DEFINE t == Tail(q)
             n == Len(q)
  <1>1. n \in Nat \ {0} /\ Head(q) = q[1]
    BY LenProperties, EmptySeq
  <1>2. t \in Seq(S) /\ Len(t) = n - 1 /\ \A i \in 1 .. Len(t) : t[i] = q[i + 1]
    BY HeadTailProperties
  <1> HIDE DEF t, n
  <1>3. \A i \in 1 .. Len(t) : i + 1 \in 1 .. n
    BY <1>1, <1>2
  <1>4. ASSUME NEW k \in 1 .. n, k # 1 PROVE k - 1 \in 1 .. Len(t) /\ t[k - 1] = q[k]
    <2>1. k - 1 \in 1 .. Len(t) /\ (k - 1) + 1 = k
      BY <1>1, <1>2, <1>4
    <2> QED BY <2>1, <1>2
  <1>5. 1 \in 1 .. n
    BY <1>1
  <1> QED BY <1>1, <1>2, <1>3, <1>4, <1>5 DEF t, n

\* The positions of a queue with one more event.
LEMMA AppendOf ==
  ASSUME NEW S, NEW q \in Seq(S), NEW e \in S
  PROVE  /\ Append(q, e) \in Seq(S) /\ Len(q) \in Nat /\ Len(Append(q, e)) = Len(q) + 1
         /\ \A i \in 1 .. Len(q) : i \in 1 .. Len(Append(q, e)) /\ Append(q, e)[i] = q[i]
         /\ Len(q) + 1 \in 1 .. Len(Append(q, e)) /\ Append(q, e)[Len(q) + 1] = e
         /\ \A i \in 1 .. Len(Append(q, e)) : i \in 1 .. Len(q) \/ i = Len(q) + 1
  <1> DEFINE n == Len(q)
             a == Append(q, e)
  <1>1. n \in Nat
    BY LenProperties
  <1>2. a \in Seq(S) /\ Len(a) = n + 1 /\ (\A i \in 1 .. n : a[i] = q[i]) /\ a[n + 1] = e
    BY AppendProperties
  <1> HIDE DEF n, a
  <1> QED BY <1>1, <1>2 DEF n, a

-----------------------------------------------------------------------------
\* What an event e says of a step of its source from s to s2.
Moves(s, e, s2) ==
    \/ e.st = "connecting" /\ s.st = "free" /\ s2.st = "connecting" /\ s2.loc = e.loc
    \/ e.st = "connected" /\ s.st = "connecting" /\ s2.st = "connected" /\ s2.loc = s.loc /\ e.loc = s.loc
    \/ /\ e.st = "disconnected" /\ e.port = 0 /\ s.st \in {"late", "connected"}
       /\ s2.st = "free" /\ e.loc = s.loc
    \/ /\ e.st = "plugged" /\ s.st = "connected" /\ s2.st = "plugged"
       /\ s2.loc = s.loc /\ e.loc = s.loc /\ s2.port = e.port
    \/ /\ e.st = "disconnected" /\ s.st \in {"plugged", "broken"} /\ s2.st = "closing"
       /\ s2.loc = s.loc /\ e.loc = s.loc /\ s2.port = e.port /\ s2.port = s.port
    \/ /\ e.st = "unplugging" /\ s.st = "closing" /\ s2.st = "unplugging"
       /\ s2.loc = s.loc /\ e.loc = s.loc /\ s2.port = e.port /\ s2.port = s.port
    \/ e.st = "unplugged" /\ s.st = "unplugging" /\ s2.st = "free" /\ e.loc = s.loc

\* A source that is about to be plugged has no rival that is.
Alone(s, e) == e.st = "plugged" => \A j \in Sources : s[j].st = "plugged" => s[j].loc # e.loc

\* The step of source e.id that e tells of.
StepOf(s, e, s2) ==
    /\ Moves(s[e.id], e, s2[e.id]) /\ Alone(s, e)
    /\ \A j \in Sources : j # e.id => s2[j] = s[j]

\* A row that agrees with the sources does so after an event of one of them.
LEMMA SettledApplied ==
  ASSUME NEW s \in [Sources -> SourceType], NEW s2 \in [Sources -> SourceType],
         NEW e \in EventType, NEW f \in Values, NEW g \in Values, NEW l, e.loc = l,
         StepOf(s, e, s2), Settled(f, l, s), Applied(f, e, g)
  PROVE  Settled(g, l, s2)
  <1> DEFINE k == e.id
  <1>1. k \in Sources /\ s[k] \in SourceType /\ s2[k] \in SourceType
    BY DEF EventType
  <1>2. \A j \in Sources : j \in Nat /\ j # 0
    BY MainFrameAssumption DEF Sources
  <1>3. \A j \in Sources : j # k => s2[j] = s[j] /\ (Of(s2, j, l) <=> Of(s, j, l))
    BY DEF StepOf, Of
  <1>4. f.port \in Nat /\ f.src \in Nat /\ (f.port # 0 => f.known) /\ g.port \in Nat /\ g.src \in Nat
    BY MainFrameAssumption DEF Values
  <1>5. CASE e.st = "connecting"
    <2>1. s[k].st = "free" /\ s2[k].st = "connecting" /\ s2[k].loc = l
      BY <1>5 DEF StepOf, Moves
    <2>2. f.src # k
      BY <2>1, <1>1, <1>2 DEF Settled, Of
    <2>3. CASE f.src # 0
      <3>1. g.port = f.port /\ g.src = f.src
        BY <2>2, <2>3, <1>5 DEF Applied, FromOther
      <3> QED BY <3>1, <2>1, <2>2, <2>3, <1>1, <1>2, <1>3 DEF Settled, Of
    <2>4. CASE f.src = 0
      <3>1. g.port = 0 /\ g.src = k
        BY <2>4, <1>5 DEF Applied, FromOther, PortOf, is_port_residual, EventType
      <3>2. f.port = 0
        BY <2>4, <1>5 DEF Applied, FromOther
      <3>3. \A j \in Sources : Of(s, j, l) /\ s[j].st = "plugged" => s[j].port = 0
        BY <3>2 DEF Settled
      <3>4. \A j \in Sources : Of(s, j, l) => s[j].st # "plugged"
        BY <3>3 DEF SourceType, Online
      <3> QED BY <3>1, <3>4, <2>1, <1>1, <1>2, <1>3 DEF Settled, Of, Offline
    <2> QED BY <2>3, <2>4
  <1>6. CASE e.st = "connected"
    <2>1. s[k].st = "connecting" /\ s2[k].st = "connected" /\ s2[k].loc = l /\ s[k].loc = l
      BY <1>6 DEF StepOf, Moves
    <2>2. CASE f.src # 0 /\ f.src # k
      <3>1. g.port = f.port /\ g.src = f.src
        BY <2>2, <1>6 DEF Applied, FromOther
      <3> QED BY <3>1, <2>1, <2>2, <1>1, <1>2, <1>3 DEF Settled, Of
    <2>3. CASE f.src = 0 \/ f.src = k
      <3>1. f.port = 0 /\ g.port = 0 /\ g.src = k
        BY <2>3, <1>6 DEF Applied, FromOther, PortOf, is_port_residual, EventType
      <3>3. \A j \in Sources : Of(s, j, l) /\ s[j].st = "plugged" => s[j].port = 0
        BY <3>1 DEF Settled
      <3>4. \A j \in Sources : Of(s, j, l) => s[j].st # "plugged"
        BY <3>3 DEF SourceType, Online
      <3> QED BY <3>1, <3>4, <2>1, <1>1, <1>2, <1>3 DEF Settled, Of, Offline
    <2> QED BY <2>2, <2>3
  <1>7. CASE e.st = "disconnected" /\ s[k].st \in {"late", "connected"}
    <2>1. e.port = 0 /\ s2[k].st = "free" /\ s[k].loc = l
      BY <1>7 DEF StepOf, Moves
    <2>2. CASE ~f.known
      <3>1. g.port = 0 /\ g.src = 0 /\ f.port = 0
        BY <2>2, <1>4, <1>7 DEF Applied
      <3>3. \A j \in Sources : Of(s, j, l) /\ s[j].st = "plugged" => s[j].port = 0
        BY <3>1 DEF Settled
      <3>4. \A j \in Sources : Of(s, j, l) => s[j].st # "plugged"
        BY <3>3 DEF SourceType, Online
      <3> QED BY <3>1, <3>4, <2>1, <1>1, <1>2, <1>3 DEF Settled, Of
    <2>3. CASE f.known /\ f.src # 0 /\ f.src # k
      <3>1. g.port = f.port /\ g.src = f.src
        BY <2>3, <1>7 DEF Applied, FromOther
      <3> QED BY <3>1, <2>1, <2>3, <1>1, <1>2, <1>3 DEF Settled, Of
    <2>4. CASE f.known /\ (f.src = 0 \/ f.src = k)
      <3>1. g.port = f.port /\ g.src = 0
        BY <2>1, <2>4, <1>7 DEF Applied, FromOther, PortOf
      <3>2. \A j \in Sources : Of(s, j, l) => s[j].st # "plugged"
        BY <2>1, <2>4, <1>1, <1>2, <1>7 DEF Settled, Of
      <3>3. CASE f.src = k
        <4>1. f.port = 0
          BY <3>3, <1>1, <1>2, <1>7 DEF Settled, Offline
        <4> QED BY <4>1, <3>1, <3>2, <2>1, <1>1, <1>2, <1>3 DEF Settled, Of
      <3>4. CASE f.src = 0
        <4>1. f.port # 0 => \E j \in Sources : j # k /\ Of(s, j, l) /\ s[j].st \in Online /\ s[j].port = f.port
          BY <3>4, <1>1, <1>7 DEF Settled, Online
        <4> QED BY <4>1, <3>1, <3>2, <2>1, <1>1, <1>2, <1>3 DEF Settled, Of
      <3> QED BY <2>4, <3>3, <3>4
    <2> QED BY <2>2, <2>3, <2>4
  <1>8. CASE e.st = "plugged"
    <2>1. s[k].st = "connected" /\ s2[k].st = "plugged" /\ s2[k].loc = l /\ s2[k].port = e.port
      BY <1>8 DEF StepOf, Moves
    <2>2. \A j \in Sources : j # k /\ Of(s2, j, l) => s2[j].st # "plugged"
      BY <1>3, <1>8 DEF StepOf, Alone, Of
    <2>3. g.port = e.port /\ g.src = k
      BY <1>8 DEF Applied, FromOther, PortOf, is_port_residual, EventType
    <2> QED BY <2>1, <2>2, <2>3, <1>1, <1>2 DEF Settled, Of, Offline
  <1>9. CASE e.st = "disconnected" /\ s[k].st \in {"plugged", "broken"}
    <2>1. /\ s2[k].st = "closing" /\ s[k].loc = l /\ s2[k].loc = l
          /\ s2[k].port = e.port /\ s2[k].port = s[k].port /\ e.port # 0
      BY <1>1, <1>9 DEF StepOf, Moves, SourceType, Online
    <2>2. CASE ~f.known
      <3>1. g.port = 0 /\ g.src = 0 /\ f.port = 0
        BY <2>2, <1>4, <1>9 DEF Applied
      <3>3. \A j \in Sources : Of(s, j, l) /\ s[j].st = "plugged" => s[j].port = 0
        BY <3>1 DEF Settled
      <3>4. \A j \in Sources : Of(s, j, l) => s[j].st # "plugged"
        BY <3>3 DEF SourceType, Online
      <3> QED BY <3>1, <3>4, <2>1, <1>1, <1>2, <1>3 DEF Settled, Of
    <2>3. CASE f.known /\ f.src # 0 /\ f.src # k
      <3>1. g.port = f.port /\ g.src = f.src
        BY <2>3, <1>9 DEF Applied, FromOther
      <3> QED BY <3>1, <2>1, <2>3, <1>1, <1>2, <1>3 DEF Settled, Of
    <2>4. CASE f.known /\ (f.src = 0 \/ f.src = k)
      <3>1. g.port = e.port /\ g.src = 0
        BY <2>1, <2>4, <1>9 DEF Applied, FromOther, PortOf, is_port_residual, EventType
      <3>2. \A j \in Sources : j # k /\ Of(s, j, l) => s[j].st # "plugged"
        BY <2>1, <2>4, <1>1, <1>2, <1>9 DEF Settled, Of
      <3> QED BY <3>1, <3>2, <2>1, <1>1, <1>2, <1>3 DEF Settled, Of, Online
    <2> QED BY <2>2, <2>3, <2>4
  <1>10. CASE e.st = "unplugging"
    <2>1. /\ s[k].st = "closing" /\ s2[k].st = "unplugging" /\ s[k].loc = l /\ s2[k].loc = l
          /\ s2[k].port = e.port /\ s2[k].port = s[k].port /\ e.port # 0
      BY <1>1, <1>10 DEF StepOf, Moves, SourceType, Online
    <2>2. CASE f.src # 0
      <3>1. f.src # k
        BY <2>1, <2>2, <1>1 DEF Settled
      <3>2. g.port = f.port /\ g.src = f.src
        BY <2>2, <3>1, <1>10 DEF Applied, FromOther
      <3> QED BY <3>1, <3>2, <2>1, <2>2, <1>1, <1>2, <1>3 DEF Settled, Of
    <2>3. CASE f.src = 0
      <3>1. g.port = e.port /\ g.src = k
        BY <2>1, <2>3, <1>10 DEF Applied, FromOther, PortOf, is_port_residual, EventType
      <3>2. \A j \in Sources : Of(s, j, l) => s[j].st # "plugged"
        BY <2>1, <2>3, <1>1, <1>2 DEF Settled, Of
      <3> QED BY <3>1, <3>2, <2>1, <1>1, <1>2, <1>3 DEF Settled, Of, Offline
    <2> QED BY <2>2, <2>3
  <1>11. CASE e.st = "unplugged"
    <2>1. s[k].st = "unplugging" /\ s2[k].st = "free" /\ s[k].loc = l
      BY <1>11 DEF StepOf, Moves
    <2>2. CASE f.src # 0 /\ f.src # k
      <3>1. g.port = f.port /\ g.src = f.src
        BY <2>2, <1>11 DEF Applied, FromOther
      <3> QED BY <3>1, <2>1, <2>2, <1>1, <1>2, <1>3 DEF Settled, Of
    <2>3. CASE f.src = 0 \/ f.src = k
      <3>1. g.port = 0 /\ g.src = 0
        BY <2>3, <1>11 DEF Applied, FromOther, PortOf, is_port_residual, EventType
      <3>2. \A j \in Sources : Of(s, j, l) => s[j].st # "plugged"
        BY <2>1, <2>3, <1>1, <1>2 DEF Settled, Of
      <3> QED BY <3>1, <3>2, <2>1, <1>1, <1>2, <1>3 DEF Settled, Of
    <2> QED BY <2>2, <2>3
  <1> QED BY <1>5, <1>6, <1>7, <1>8, <1>9, <1>10, <1>11 DEF StepOf, Moves


\* An event of another location.
LEMMA SettledElsewhere ==
  ASSUME NEW s \in [Sources -> SourceType], NEW s2 \in [Sources -> SourceType],
         NEW e \in EventType, NEW f \in Values, NEW l, e.loc # l,
         StepOf(s, e, s2), Settled(f, l, s)
  PROVE  Settled(f, l, s2)
  <1>1. e.id \in Sources
    BY DEF EventType
  <1>2. ~Of(s, e.id, l) /\ ~Of(s2, e.id, l)
    BY DEF StepOf, Moves, Of
  <1>3. \A j \in Sources : (Of(s2, j, l) <=> Of(s, j, l)) /\ (Of(s, j, l) => s2[j] = s[j])
    BY <1>2 DEF StepOf, Of
  <1> QED BY <1>3 DEF Settled

\* A step of a source that no event tells of: the attach failed, or the connection broke.
Silent(s, k, s2) ==
    /\ s2[k].loc = s[k].loc /\ s2[k].port = s[k].port
    /\ \/ s[k].st \in {"connecting", "connected"} /\ s2[k].st = "late"
       \/ s[k].st = "plugged" /\ s2[k].st = "broken"
    /\ \A j \in Sources : j # k => s2[j] = s[j]

\* A row that agrees with its sources agrees with them after a step that posts nothing.
LEMMA SettledSilent ==
  ASSUME NEW s \in [Sources -> SourceType], NEW s2 \in [Sources -> SourceType],
         NEW k \in Sources, NEW f \in Values, NEW l, Silent(s, k, s2), Settled(f, l, s)
  PROVE  Settled(f, l, s2)
  <1>1. \A j \in Sources : /\ Of(s2, j, l) <=> Of(s, j, l)
                           /\ s2[j].port = s[j].port
                           /\ s2[j].st = "plugged" => s[j].st = "plugged"
                           /\ s2[j].st \in Offline <=> s[j].st \in Offline
                           /\ s2[j].st \in Online <=> s[j].st \in Online
                           /\ s2[j].st = "closing" <=> s[j].st = "closing"
    BY DEF Silent, Of, Offline, Online
  <1> QED BY <1>1 DEF Settled

-----------------------------------------------------------------------------
\* The first event is handled: what was to come is what has come and what is left.
LEMMA RunsOfTail ==
  ASSUME NEW q \in Seq(EventType), q # <<>>, NEW l, NEW s, NEW r, NEW r2,
         Followed(r) \in Values,
         IF q[1].loc = l THEN Applied(Followed(r), q[1], r2) ELSE r2.port = r.port /\ r2.src = r.src,
         RunsSettle(l, r, q, s)
  PROVE  RunsSettle(l, r2, Tail(q), s)
  <1> DEFINE p == Tail(q)
             n == Len(q)
             m == Len(p)
  <1>1. /\ p \in Seq(EventType) /\ n \in Nat \ {0} /\ m = n - 1
        /\ \A i \in 1 .. m : i + 1 \in 1 .. n /\ p[i] = q[i + 1]
    BY TailOf
  <1> HIDE DEF p, n, m
  <1> SUFFICES ASSUME NEW t \in [0 .. m -> Values], IsRun(t, l, r2, p)
               PROVE  Settled(t[m], l, s)
    BY DEF RunsSettle, p, m
  <1> DEFINE v == IF q[1].loc = l THEN Followed(r) ELSE t[0]
             u == [i \in 0 .. n |-> IF i = 0 THEN v ELSE t[i - 1]]
  <1>2. \A i \in 0 .. n : i = 0 \/ i - 1 \in 0 .. m
    BY <1>1
  <1>0. v \in Values /\ t[0].port = r2.port /\ t[0].src = r2.src
    BY <1>1 DEF IsRun
  <1>3. u \in [0 .. n -> Values]
    BY <1>0, <1>2
  <1>4. 0 \in 0 .. n /\ u[0] = v /\ \A i \in 1 .. n : i \in 0 .. n /\ u[i] = t[i - 1]
    BY <1>1
  <1>5. u[n] = t[m] /\ u[1] = t[0]
    BY <1>1, <1>4
  <1> HIDE DEF u
  <1>6. ASSUME NEW i \in 1 .. n
        PROVE  IF q[i].loc = l THEN Applied(u[i - 1], q[i], u[i]) ELSE u[i] = u[i - 1]
    <2>1. CASE i = 1
      <3>1. i - 1 = 0
        BY <2>1
      <3>2. q[1].loc = l => Applied(v, q[1], t[0])
        BY <1>0 DEF Applied
      <3> QED BY <2>1, <3>1, <3>2, <1>4, <1>5
    <2>2. CASE i # 1
      <3> DEFINE j == i - 1
      <3>1. j \in 1 .. m /\ j + 1 = i /\ j \in 1 .. n
        BY <2>2, <1>1
      <3>2. p[j] = q[i] /\ u[i] = t[j] /\ u[j] = t[j - 1]
        BY <3>1, <1>1, <1>4
      <3>3. IF p[j].loc = l THEN Applied(t[j - 1], p[j], t[j]) ELSE t[j] = t[j - 1]
        BY <3>1 DEF IsRun, m
      <3> QED BY <3>2, <3>3
    <2> QED BY <2>1, <2>2
  <1>7. IsRun(u, l, r, q)
    <2>1. u[0].port = r.port /\ u[0].src = r.src
      BY <1>0, <1>4 DEF Followed
    <2> QED BY <2>1, <1>6 DEF IsRun, n
  <1> QED BY <1>3, <1>5, <1>7 DEF RunsSettle, n

\* An event is added.
LEMMA RunsOfAppend ==
  ASSUME NEW q \in Seq(EventType), NEW e \in EventType, NEW l, NEW r,
         NEW s \in [Sources -> SourceType], NEW s2 \in [Sources -> SourceType],
         StepOf(s, e, s2), RunsSettle(l, r, q, s)
  PROVE  RunsSettle(l, r, Append(q, e), s2)
  <1> DEFINE p == Append(q, e)
             n == Len(q)
             m == Len(p)
  <1>1. /\ n \in Nat /\ m = n + 1 /\ \A i \in 1 .. n : i \in 1 .. m /\ p[i] = q[i]
        /\ m \in 1 .. m /\ p[m] = e
    BY AppendOf
  <1> HIDE DEF p, n, m
  <1> SUFFICES ASSUME NEW t \in [0 .. m -> Values], IsRun(t, l, r, p)
               PROVE  Settled(t[m], l, s2)
    BY DEF RunsSettle, p, m
  <1> DEFINE u == [i \in 0 .. n |-> t[i]]
  <1>2. 0 .. n \subseteq 0 .. m /\ 0 \in 0 .. n /\ n \in 0 .. n /\ m - 1 = n /\ n \in 0 .. m /\ m \in 0 .. m
    BY <1>1
  <1>3. u \in [0 .. n -> Values] /\ u[n] = t[n] /\ u[0] = t[0]
    BY <1>2
  <1>4. \A i \in 1 .. n : u[i] = t[i] /\ u[i - 1] = t[i - 1]
    BY <1>1
  <1> HIDE DEF u
  <1>5. \A i \in 1 .. m : IF p[i].loc = l THEN Applied(t[i - 1], p[i], t[i]) ELSE t[i] = t[i - 1]
    BY DEF IsRun, m
  <1>6. \A i \in 1 .. n : IF q[i].loc = l THEN Applied(u[i - 1], q[i], u[i]) ELSE u[i] = u[i - 1]
    BY <1>1, <1>4, <1>5
  <1>7. IsRun(u, l, r, q)
    BY <1>3, <1>6 DEF IsRun, n
  <1>8. Settled(t[n], l, s)
    BY <1>3, <1>7 DEF RunsSettle, n
  <1>9. t[n] \in Values /\ t[m] \in Values
    BY <1>2
  <1>10. IF e.loc = l THEN Applied(t[n], e, t[m]) ELSE t[m] = t[n]
    BY <1>1, <1>2, <1>5
  <1>11. CASE e.loc = l
    BY <1>8, <1>9, <1>10, <1>11, SettledApplied
  <1>12. CASE e.loc # l
    BY <1>8, <1>9, <1>10, <1>12, SettledElsewhere
  <1> QED BY <1>11, <1>12

\* A step that no event tells of.
LEMMA RunsOfSilent ==
  ASSUME NEW q \in Seq(EventType), NEW l, NEW r, NEW k \in Sources,
         NEW s \in [Sources -> SourceType], NEW s2 \in [Sources -> SourceType],
         Silent(s, k, s2), RunsSettle(l, r, q, s)
  PROVE  RunsSettle(l, r, q, s2)
  <1> SUFFICES ASSUME NEW t \in [0 .. Len(q) -> Values], IsRun(t, l, r, q)
               PROVE  Settled(t[Len(q)], l, s2)
    BY DEF RunsSettle
  <1>1. Len(q) \in 0 .. Len(q)
    BY LenProperties
  <1>2. t[Len(q)] \in Values /\ Settled(t[Len(q)], l, s)
    BY <1>1 DEF RunsSettle
  <1> QED BY <1>2, SettledSilent

-----------------------------------------------------------------------------
\* The first event is taken from the queue.
LEMMA QueueOfTail ==
  ASSUME NEW q \in Seq(EventType), q # <<>>, NEW l, NEW s, QueueInv(l, q, s)
  PROVE  QueueInv(l, Tail(q), s)
  <1> DEFINE p == Tail(q)
             n == Len(q)
             m == Len(p)
  <1>1. /\ n \in Nat \ {0} /\ m = n - 1
        /\ \A i \in 1 .. m : i + 1 \in 1 .. n /\ p[i] = q[i + 1]
        /\ \A k \in 1 .. n : k = 1 \/ (k - 1 \in 1 .. m /\ p[k - 1] = q[k])
    BY TailOf
  <1> HIDE DEF p, n, m
  <1>2. ASSUME NEW i \in 1 .. m, p[i].loc = l, \A j \in 1 .. m : j > i => ~Same(p[j], p[i])
        PROVE  IF Of(s, p[i].id, l) THEN IsLast(p[i], s[p[i].id]) ELSE IsEnd(p[i])
    <2>1. i + 1 \in 1 .. n /\ q[i + 1] = p[i]
      BY <1>1
    <2>2. ASSUME NEW j \in 1 .. n, j > i + 1 PROVE ~Same(q[j], q[i + 1])
      <3>1. j - 1 \in 1 .. m /\ p[j - 1] = q[j] /\ j - 1 > i
        BY <2>2, <1>1
      <3> QED BY <3>1, <2>1, <1>2
    <2> QED BY <2>1, <2>2, <1>2 DEF QueueInv, LastTells, n
  <1>3. ASSUME NEW i \in 1 .. m, NEW j \in 1 .. m, j < i, p[i].loc = l, Same(p[j], p[i]),
               p[i].st = "disconnected", p[i].port = 0,
               \A x \in 1 .. m : j < x /\ x < i => ~Same(p[x], p[j])
        PROVE  p[j].st \in {"connecting", "connected"}
    <2>1. /\ i + 1 \in 1 .. n /\ q[i + 1] = p[i] /\ j + 1 \in 1 .. n /\ q[j + 1] = p[j]
          /\ j + 1 < i + 1
      <3>1. i + 1 \in 1 .. n /\ q[i + 1] = p[i]
        BY <1>1
      <3>2. j + 1 \in 1 .. n /\ q[j + 1] = p[j]
        BY <1>1
      <3>3. j + 1 < i + 1
        BY <1>3
      <3> QED BY <3>1, <3>2, <3>3
    <2>2. ASSUME NEW x \in 1 .. n, j + 1 < x, x < i + 1 PROVE ~Same(q[x], q[j + 1])
      <3>1. x - 1 \in 1 .. m /\ p[x - 1] = q[x] /\ j < x - 1 /\ x - 1 < i
        BY <2>2, <1>1
      <3> QED BY <3>1, <2>1, <1>3
    <2> QED BY <2>1, <2>2, <1>3 DEF QueueInv, FailsAfterStart, n
  <1> QED BY <1>2, <1>3 DEF QueueInv, LastTells, FailsAfterStart, p, m


\* An event is added that tells of a step of its source.
LEMMA QueueOfAppend ==
  ASSUME NEW q \in Seq(EventType), NEW e \in EventType, NEW l,
         NEW s \in [Sources -> SourceType], NEW s2 \in [Sources -> SourceType],
         StepOf(s, e, s2), QueueInv(l, q, s)
  PROVE  QueueInv(l, Append(q, e), s2)
  <1> DEFINE p == Append(q, e)
             n == Len(q)
             m == Len(p)
  <1>1. /\ n \in Nat /\ m = n + 1 /\ \A i \in 1 .. n : i \in 1 .. m /\ p[i] = q[i]
        /\ m \in 1 .. m /\ p[m] = e /\ \A i \in 1 .. m : i \in 1 .. n \/ i = m
        /\ p \in Seq(EventType)
    BY AppendOf
  <1>2. \A i \in 1 .. n : q[i] \in EventType
    BY ElementOfSeq
  <1> HIDE DEF p, n, m
  <1>3. e.id \in Sources /\ s[e.id] \in SourceType
    BY DEF EventType
  <1>4. \A i \in 1 .. n : m > i /\ i < m
    BY <1>1
  <1>5. ASSUME NEW i \in 1 .. m, p[i].loc = l, \A j \in 1 .. m : j > i => ~Same(p[j], p[i])
        PROVE  IF Of(s2, p[i].id, l) THEN IsLast(p[i], s2[p[i].id]) ELSE IsEnd(p[i])
    <2>1. CASE i = m
      <3>1. p[i] = e /\ e.loc = l
        BY <2>1, <1>1, <1>5
      <3>2. IF Of(s2, e.id, l) THEN IsLast(e, s2[e.id]) ELSE IsEnd(e)
        BY <3>1, <1>3 DEF StepOf, Moves, Of, IsLast, IsEnd, SourceType, Online
      <3> QED BY <3>1, <3>2
    <2>2. CASE i \in 1 .. n
      <3>1. p[i] = q[i] /\ q[i] \in EventType
        BY <2>2, <1>1, <1>2
      <3>2. ~Same(e, q[i])
        BY <3>1, <2>2, <1>1, <1>4, <1>5
      <3>3. ASSUME NEW j \in 1 .. n, j > i PROVE ~Same(q[j], q[i])
        BY <3>1, <3>3, <1>1, <1>5
      <3>4. IF Of(s, q[i].id, l) THEN IsLast(q[i], s[q[i].id]) ELSE IsEnd(q[i])
        BY <3>1, <3>3, <2>2, <1>5 DEF QueueInv, LastTells, n
      <3>5. CASE q[i].id # e.id
        <4>1. s2[q[i].id] = s[q[i].id]
          BY <3>1, <3>5 DEF StepOf, EventType
        <4> QED BY <4>1, <3>1, <3>4 DEF Of
      <3>6. CASE q[i].id = e.id
        <4>1. e.loc # l
          BY <3>1, <3>2, <3>6, <1>5 DEF Same
        <4>2. ~Of(s, e.id, l) /\ ~Of(s2, e.id, l)
          BY <4>1 DEF StepOf, Moves, Of
        <4> QED BY <4>2, <3>1, <3>4, <3>6
      <3> QED BY <3>5, <3>6
    <2> QED BY <2>1, <2>2, <1>1
  <1>6. ASSUME NEW i \in 1 .. m, NEW j \in 1 .. m, j < i, p[i].loc = l, Same(p[j], p[i]),
               p[i].st = "disconnected", p[i].port = 0,
               \A x \in 1 .. m : j < x /\ x < i => ~Same(p[x], p[j])
        PROVE  p[j].st \in {"connecting", "connected"}
    <2>1. j \in 1 .. n
      BY <1>1, <1>6
    <2>2. p[j] = q[j]
      BY <2>1, <1>1
    <2>3. CASE i = m
      <3>1. p[i] = e
        BY <2>3, <1>1
      <3>2. ASSUME NEW x \in 1 .. n, x > j PROVE ~Same(q[x], q[j])
        <4>1. x \in 1 .. m /\ p[x] = q[x] /\ j < x /\ x < i
          BY <3>2, <2>1, <2>3, <1>1, <1>4
        <4> QED BY <4>1, <2>2, <1>6
      <3>3. q[j].loc = l /\ q[j].id = e.id /\ e.loc = l
        BY <3>1, <2>2, <1>6 DEF Same
      <3>4. IF Of(s, e.id, l) THEN IsLast(q[j], s[e.id]) ELSE IsEnd(q[j])
        BY <3>2, <3>3, <2>1 DEF QueueInv, LastTells, n
      <3>5. e.st = "disconnected" /\ e.port = 0
        BY <3>1, <1>6
      <3>6. s[e.id].st \in {"late", "connected"} /\ s[e.id].loc = l
        BY <3>3, <3>5, <1>3 DEF StepOf, Moves, SourceType, Online
      <3>7. IsLast(q[j], s[e.id])
        BY <3>4, <3>6 DEF Of
      <3> QED BY <3>6, <3>7, <2>2 DEF IsLast
    <2>4. CASE i \in 1 .. n
      <3>1. p[i] = q[i]
        BY <2>4, <1>1
      <3>2. ASSUME NEW x \in 1 .. n, j < x, x < i PROVE ~Same(q[x], q[j])
        <4>1. x \in 1 .. m /\ p[x] = q[x]
          BY <1>1
        <4> QED BY <4>1, <3>2, <2>2, <1>6
      <3> QED BY <3>1, <3>2, <2>1, <2>2, <2>4, <1>6 DEF QueueInv, FailsAfterStart, n
    <2> QED BY <2>3, <2>4, <1>1
  <1> QED BY <1>5, <1>6 DEF QueueInv, LastTells, FailsAfterStart, p, m

\* The queue does not tell of a step that no event tells of.
LEMMA QueueOfSilent ==
  ASSUME NEW q \in Seq(EventType), NEW l, NEW k \in Sources,
         NEW s \in [Sources -> SourceType], NEW s2 \in [Sources -> SourceType],
         Silent(s, k, s2), QueueInv(l, q, s)
  PROVE  QueueInv(l, q, s2)
  <1>1. \A i \in 1 .. Len(q) : q[i] \in EventType
    BY ElementOfSeq
  <1>2. \A j \in Sources : /\ Of(s2, j, l) <=> Of(s, j, l)
                           /\ \A e : IsLast(e, s[j]) => IsLast(e, s2[j])
    BY DEF Silent, Of, IsLast
  <1>3. \A i \in 1 .. Len(q) : q[i].id \in Sources
    BY <1>1 DEF EventType
  <1> QED BY <1>2, <1>3 DEF QueueInv, LastTells


-----------------------------------------------------------------------------
\* All that concerns location l is of source k.
OnlyOf(k, l, q, s) ==
    /\ \A i \in 1 .. Len(q) : q[i].loc = l => q[i].id = k
    /\ \A j \in Sources : Of(s, j, l) => j = k

\* How the run of a row without a source has come by when e is the last event of k.
After(f, e, k) ==
    \/ e.st \in {"connecting", "connected"} /\ f.port = 0 /\ f.src = k
    \/ e.st \in {"plugged", "unplugging"} /\ f.port = e.port /\ f.src = k
    \/ e.st = "disconnected" /\ e.port # 0 /\ f.port \in {0, e.port} /\ f.src = 0
    \/ e.st = "unplugged" /\ f.port = 0 /\ f.src = 0
    \/ e.st = "disconnected" /\ e.port = 0 /\ f.port = 0 /\ f.src = 0

\* One event of k.
LEMMA AfterApplied ==
  ASSUME NEW e \in EventType, NEW a \in Values, NEW b \in Values, a.src \in {0, e.id},
         e.st = "disconnected" /\ e.port = 0 => a.port = 0, Applied(a, e, b)
  PROVE  After(b, e, e.id)
  <1>1. ~FromOther(a, e)
    BY DEF FromOther
  <1>2. a.port # 0 => a.known
    BY DEF Values
  <1> QED BY <1>1, <1>2 DEF Applied, After, PortOf, is_port_residual, EventType, Values

\* Where a run is after n events: where it began, or where the last event has left it.
Reached(t, l, q, k, n) ==
    \/ /\ \A i \in 1 .. n : q[i].loc # l
       /\ t[n] = t[0]
    \/ \E x \in 1 .. n :
         /\ q[x].loc = l /\ \A i \in 1 .. n : i > x => q[i].loc # l
         /\ \/ After(t[n], q[x], k)
            \/ /\ q[x].st = "disconnected" /\ q[x].port = 0 /\ t[n].src = 0
               /\ t[n].port = t[0].port /\ \A i \in 1 .. n : i < x => q[i].loc # l

\* A run of a row without a source, with events of one source only, gets to where that source is.
LEMMA RunReaches ==
  ASSUME NEW q \in Seq(EventType), NEW l, NEW s, NEW k, NEW r,
         OnlyOf(k, l, q, s), QueueInv(l, q, s), r.src = 0,
         NEW t \in [0 .. Len(q) -> Values], IsRun(t, l, r, q)
  PROVE  Reached(t, l, q, k, Len(q))
  <1> DEFINE N == Len(q)
             S == {n \in Nat : n <= N => Reached(t, l, q, k, n)}
  <1>1. N \in Nat /\ \A i \in 1 .. N : q[i] \in EventType
    BY LenProperties, ElementOfSeq
  <1>2. \A i \in 1 .. N : q[i].loc = l => q[i].id = k
    BY DEF OnlyOf
  <1>3. \A i \in 1 .. N : IF q[i].loc = l THEN Applied(t[i - 1], q[i], t[i]) ELSE t[i] = t[i - 1]
    BY DEF IsRun
  <1>4. t[0].src = 0
    BY DEF IsRun
  <1>5. FailsAfterStart(l, q)
    BY DEF QueueInv
  <1> HIDE DEF N
  <1>6. 0 \in S
    BY DEF Reached
  <1>7. ASSUME NEW n \in Nat, n \in S PROVE n + 1 \in S
    <2> SUFFICES ASSUME n + 1 <= N PROVE Reached(t, l, q, k, n + 1)
      OBVIOUS
    <2>1. /\ n + 1 \in 1 .. N /\ (n + 1) - 1 = n /\ n \in 0 .. N /\ n + 1 \in 0 .. N
          /\ n <= N /\ 1 .. n \subseteq 1 .. N /\ \A i \in 1 .. n + 1 : i \in 1 .. n \/ i = n + 1
      BY <1>1
    <2>2. Reached(t, l, q, k, n)
      BY <2>1, <1>7
    <2>3. t[n] \in Values /\ t[n + 1] \in Values /\ q[n + 1] \in EventType
      BY <2>1, <1>1 DEF N
    <2>4. CASE q[n + 1].loc # l
      <3>1. t[n + 1] = t[n]
        BY <2>1, <2>4, <1>3
      <3>2. CASE (\A i \in 1 .. n : q[i].loc # l) /\ t[n] = t[0]
        <4>1. \A i \in 1 .. n + 1 : q[i].loc # l
          BY <3>2, <2>1, <2>4
        <4> QED BY <4>1, <3>1, <3>2 DEF Reached
      <3>3. ASSUME NEW x \in 1 .. n, q[x].loc = l, \A i \in 1 .. n : i > x => q[i].loc # l,
                   \/ After(t[n], q[x], k)
                   \/ /\ q[x].st = "disconnected" /\ q[x].port = 0 /\ t[n].src = 0
                      /\ t[n].port = t[0].port /\ \A i \in 1 .. n : i < x => q[i].loc # l
            PROVE  Reached(t, l, q, k, n + 1)
        <4>1. x \in 1 .. n + 1
          BY <3>3
        <4>2. \A i \in 1 .. n + 1 : i > x => q[i].loc # l
          BY <3>3, <2>1, <2>4
        <4>3. (\A i \in 1 .. n : i < x => q[i].loc # l) => (\A i \in 1 .. n + 1 : i < x => q[i].loc # l)
          BY <2>1, <2>4
        <4> QED BY <4>1, <4>2, <4>3, <3>1, <3>3 DEF Reached
      <3> QED BY <3>2, <3>3, <2>2 DEF Reached
    <2>5. CASE q[n + 1].loc = l
      <3> DEFINE e == q[n + 1]
      <3>1. Applied(t[n], e, t[n + 1]) /\ e.id = k
        BY <2>1, <2>5, <1>2, <1>3
      <3>2. t[n].src \in {0, k}
        BY <2>2, <1>4 DEF Reached, After
      <3>3. n + 1 \in 1 .. n + 1 /\ \A i \in 1 .. n + 1 : i > n + 1 => q[i].loc # l
        OBVIOUS
      <3>4. CASE e.st = "disconnected" /\ e.port = 0
        <4>1. CASE (\A i \in 1 .. n : q[i].loc # l) /\ t[n] = t[0]
          <5>1. t[n + 1].src = 0 /\ t[n + 1].port = t[0].port
            BY <4>1, <3>1, <3>4, <2>3, <1>4 DEF Applied, FromOther, PortOf, Values
          <5>2. \A i \in 1 .. n + 1 : i < n + 1 => q[i].loc # l
            BY <4>1, <2>1
          <5> QED BY <5>1, <5>2, <3>3, <3>4, <2>5 DEF Reached
        <4>2. ASSUME NEW x \in 1 .. n, q[x].loc = l, \A i \in 1 .. n : i > x => q[i].loc # l,
                     \/ After(t[n], q[x], k)
                     \/ q[x].st = "disconnected" /\ q[x].port = 0
              PROVE  Reached(t, l, q, k, n + 1)
          <5>1. x \in 1 .. N /\ x < n + 1 /\ q[x].id = k
            BY <4>2, <2>1, <1>2
          <5>2. Same(q[x], e)
            BY <5>1, <4>2, <3>1, <2>5 DEF Same
          <5>3. \A m \in 1 .. N : x < m /\ m < n + 1 => ~Same(q[m], q[x])
            <6> SUFFICES ASSUME NEW m \in 1 .. N, x < m, m < n + 1 PROVE q[m].loc # l
              BY <4>2 DEF Same
            <6>1. m \in 1 .. n /\ m > x
              OBVIOUS
            <6> QED BY <6>1, <4>2
          <5>4. q[x].st \in {"connecting", "connected"}
            BY <5>1, <5>2, <5>3, <3>4, <2>1, <2>5, <1>5 DEF FailsAfterStart, N
          <5>5. t[n].port = 0
            BY <5>4, <4>2 DEF After
          <5>6. After(t[n + 1], e, e.id)
            BY <5>5, <3>1, <3>2, <2>3, AfterApplied
          <5> QED BY <5>6, <3>1, <3>3, <2>5 DEF Reached
        <4> QED BY <4>1, <4>2, <2>2 DEF Reached
      <3>5. CASE ~(e.st = "disconnected" /\ e.port = 0)
        <4>1. After(t[n + 1], e, e.id)
          BY <3>1, <3>2, <3>5, <2>3, AfterApplied
        <4> QED BY <4>1, <3>1, <3>3, <2>5 DEF Reached
      <3> QED BY <3>4, <3>5
    <2> QED BY <2>4, <2>5
  <1>8. Nat \subseteq S
    BY <1>6, <1>7, SetInduction
  <1>9. N \in S
    BY <1>1, <1>8
  <1> QED BY <1>1, <1>9 DEF N

\* A row without a source, of a location with one source at most: whatever the events
\* that are on their way make of it, it agrees with the sources in the end, if it did so
\* without them and if its port is not that of an attach that fails.
LEMMA FreshRowSettles ==
  ASSUME NEW q \in Seq(EventType), NEW l, NEW s \in [Sources -> SourceType], NEW k, NEW r,
         OnlyOf(k, l, q, s), QueueInv(l, q, s), r.src = 0,
         (\A i \in 1 .. Len(q) : q[i].loc # l) => Settled(r, l, s),
         \A x \in 1 .. Len(q) :
            /\ q[x].loc = l /\ q[x].st = "disconnected" /\ q[x].port = 0 /\ ~Of(s, q[x].id, l)
            /\ \A i \in 1 .. Len(q) : i # x => q[i].loc # l
            => r.port = 0
  PROVE  RunsSettle(l, r, q, s)
  <1> SUFFICES ASSUME NEW t \in [0 .. Len(q) -> Values], IsRun(t, l, r, q)
               PROVE  Settled(t[Len(q)], l, s)
    BY DEF RunsSettle
  <1> DEFINE n == Len(q)
             f == t[n]
  <1>1. n \in Nat /\ \A i \in 1 .. n : q[i] \in EventType
    BY LenProperties, ElementOfSeq
  <1>2. Reached(t, l, q, k, n) /\ t[0].port = r.port /\ t[0].src = r.src
    BY RunReaches DEF IsRun
  <1>3. f \in Values
    BY <1>1
  <1>4. \A j \in Sources : j \in Nat /\ j # 0
    BY MainFrameAssumption DEF Sources
  <1> HIDE DEF n, f
  <1>5. CASE (\A i \in 1 .. n : q[i].loc # l) /\ t[n] = t[0]
    BY <1>2, <1>5 DEF n, Settled
  <1>6. ASSUME NEW x \in 1 .. n, q[x].loc = l, \A i \in 1 .. n : i > x => q[i].loc # l,
               \/ After(t[n], q[x], k)
               \/ /\ q[x].st = "disconnected" /\ q[x].port = 0 /\ t[n].src = 0
                  /\ t[n].port = t[0].port /\ \A i \in 1 .. n : i < x => q[i].loc # l
        PROVE  Settled(t[n], l, s)
    <2> DEFINE e == q[x]
    <2>1. e \in EventType /\ e.id = k /\ k \in Sources
      BY <1>1, <1>6 DEF OnlyOf, EventType, n
    <2>2. \A j \in 1 .. n : j > x => ~Same(q[j], e)
      BY <1>6 DEF Same
    <2>3. IF Of(s, k, l) THEN IsLast(e, s[k]) ELSE IsEnd(e)
      BY <2>1, <2>2, <1>6 DEF QueueInv, LastTells, n
    <2>4. \A j \in Sources : Of(s, j, l) => j = k
      BY DEF OnlyOf
    <2>5. s[k] \in SourceType /\ k # 0
      BY <2>1, <1>4
    <2> HIDE DEF e
    <2>6. CASE After(t[n], e, k) /\ Of(s, k, l)
      <3>1. IsLast(e, s[k])
        BY <2>3, <2>6
      <3> QED BY <3>1, <2>1, <2>4, <2>5, <2>6 DEF After, IsLast, Settled, Of, Online, Offline
    <2>7. CASE ~Of(s, k, l) /\ t[n].port = 0 /\ t[n].src = 0
      BY <2>4, <2>7 DEF Settled
    <2>8. CASE After(t[n], e, k) /\ ~Of(s, k, l)
      BY <2>3, <2>7, <2>8 DEF After, IsEnd
    <2>9. CASE /\ e.st = "disconnected" /\ e.port = 0 /\ t[n].src = 0
               /\ t[n].port = t[0].port /\ \A i \in 1 .. n : i < x => q[i].loc # l
      <3>1. ~Of(s, k, l)
        BY <2>3, <2>9 DEF IsLast
      <3>2. \A i \in 1 .. n : i # x => q[i].loc # l
        BY <2>9, <1>6
      <3>3. r.port = 0
        BY <3>1, <3>2, <2>1, <2>9, <1>6 DEF n, e
      <3>4. t[n].port = 0
        BY <3>3, <2>9, <1>2
      <3> QED BY <3>1, <3>4, <2>7, <2>9
    <2> QED BY <2>6, <2>8, <2>9, <1>6 DEF e
  <1> QED BY <1>2, <1>5, <1>6 DEF Reached, n


-----------------------------------------------------------------------------
\* A step of source k does not concern location l.
Elsewhere(s, k, l, s2) ==
    /\ ~Of(s, k, l) /\ ~Of(s2, k, l)
    /\ \A j \in Sources : j # k => s2[j] = s[j]

\* Events and sources of another location do not matter to the runs of l.
LEMMA RunsElsewhere ==
  ASSUME NEW q \in Seq(EventType), NEW k, NEW l, NEW r, NEW s, NEW s2,
         Elsewhere(s, k, l, s2), RunsSettle(l, r, q, s)
  PROVE  /\ RunsSettle(l, r, q, s2)
         /\ \A e \in EventType : e.loc # l => RunsSettle(l, r, Append(q, e), s2)
  <1>1. \A j \in Sources : (Of(s2, j, l) <=> Of(s, j, l)) /\ (Of(s, j, l) => s2[j] = s[j])
    BY DEF Elsewhere, Of
  <1>2. \A f : Settled(f, l, s) => Settled(f, l, s2)
    BY <1>1 DEF Settled
  <1>3. RunsSettle(l, r, q, s2)
    BY <1>2 DEF RunsSettle
  <1>4. ASSUME NEW e \in EventType, e.loc # l PROVE RunsSettle(l, r, Append(q, e), s2)
    <2> DEFINE p == Append(q, e)
               n == Len(q)
               m == Len(p)
    <2>1. /\ n \in Nat /\ m = n + 1 /\ \A i \in 1 .. n : i \in 1 .. m /\ p[i] = q[i]
          /\ m \in 1 .. m /\ p[m] = e
      BY AppendOf
    <2> HIDE DEF p, n, m
    <2> SUFFICES ASSUME NEW t \in [0 .. m -> Values], IsRun(t, l, r, p)
                 PROVE  Settled(t[m], l, s2)
      BY DEF RunsSettle, p, m
    <2> DEFINE u == [i \in 0 .. n |-> t[i]]
    <2>2. 0 .. n \subseteq 0 .. m /\ 0 \in 0 .. n /\ n \in 0 .. n /\ m - 1 = n
      BY <2>1
    <2>3. u \in [0 .. n -> Values] /\ u[n] = t[n] /\ u[0] = t[0]
      BY <2>2
    <2>4. \A i \in 1 .. n : u[i] = t[i] /\ u[i - 1] = t[i - 1]
      BY <2>1
    <2> HIDE DEF u
    <2>5. \A i \in 1 .. m : IF p[i].loc = l THEN Applied(t[i - 1], p[i], t[i]) ELSE t[i] = t[i - 1]
      BY DEF IsRun, m
    <2>6. \A i \in 1 .. n : IF q[i].loc = l THEN Applied(u[i - 1], q[i], u[i]) ELSE u[i] = u[i - 1]
      BY <2>1, <2>4, <2>5
    <2>7. IsRun(u, l, r, q)
      BY <2>3, <2>6 DEF IsRun, n
    <2>8. Settled(t[n], l, s2)
      BY <2>3, <2>7, <1>3 DEF RunsSettle, n
    <2>9. t[m] = t[n]
      BY <2>1, <2>2, <2>5, <1>4
    <2> QED BY <2>8, <2>9
  <1> QED BY <1>3, <1>4

\* Nor to its events.
LEMMA QueueElsewhere ==
  ASSUME NEW q \in Seq(EventType), NEW k, NEW l, NEW s, NEW s2,
         Elsewhere(s, k, l, s2), QueueInv(l, q, s)
  PROVE  /\ QueueInv(l, q, s2)
         /\ \A e \in EventType : e.loc # l => QueueInv(l, Append(q, e), s2)
  <1>1. \A j \in Sources : (Of(s2, j, l) <=> Of(s, j, l)) /\ (Of(s, j, l) => s2[j] = s[j])
    BY DEF Elsewhere, Of
  <1>2. \A i \in 1 .. Len(q) : q[i] \in EventType
    BY ElementOfSeq
  <1>3. \A i \in 1 .. Len(q) : q[i].id \in Sources
    BY <1>2 DEF EventType
  <1>4. QueueInv(l, q, s2)
    BY <1>1, <1>3 DEF QueueInv, LastTells
  <1>5. ASSUME NEW e \in EventType, e.loc # l PROVE QueueInv(l, Append(q, e), s2)
    <2> DEFINE p == Append(q, e)
               n == Len(q)
               m == Len(p)
    <2>1. /\ n \in Nat /\ m = n + 1 /\ \A i \in 1 .. n : i \in 1 .. m /\ p[i] = q[i]
          /\ m \in 1 .. m /\ p[m] = e /\ \A i \in 1 .. m : i \in 1 .. n \/ i = m
      BY AppendOf
    <2> HIDE DEF p, n, m
    <2>2. ASSUME NEW i \in 1 .. m, p[i].loc = l PROVE i \in 1 .. n /\ p[i] = q[i]
      BY <2>1, <2>2, <1>5
    <2>3. ASSUME NEW i \in 1 .. m, p[i].loc = l, \A j \in 1 .. m : j > i => ~Same(p[j], p[i])
          PROVE  IF Of(s2, p[i].id, l) THEN IsLast(p[i], s2[p[i].id]) ELSE IsEnd(p[i])
      <3>1. i \in 1 .. n /\ p[i] = q[i]
        BY <2>2, <2>3
      <3>2. \A j \in 1 .. n : j > i => ~Same(q[j], q[i])
        BY <3>1, <2>1, <2>3
      <3> QED BY <3>1, <3>2, <2>3, <1>4 DEF QueueInv, LastTells, n
    <2>4. ASSUME NEW i \in 1 .. m, NEW j \in 1 .. m, j < i, p[i].loc = l, Same(p[j], p[i]),
                 p[i].st = "disconnected", p[i].port = 0,
                 \A x \in 1 .. m : j < x /\ x < i => ~Same(p[x], p[j])
          PROVE  p[j].st \in {"connecting", "connected"}
      <3>1. i \in 1 .. n /\ p[i] = q[i]
        BY <2>2, <2>4
      <3>2. p[j].loc = l
        BY <2>4 DEF Same
      <3>3. j \in 1 .. n /\ p[j] = q[j]
        BY <2>2, <3>2
      <3>4. \A x \in 1 .. n : j < x /\ x < i => ~Same(q[x], q[j])
        BY <3>3, <2>1, <2>4
      <3> QED BY <3>1, <3>3, <3>4, <2>4 DEF QueueInv, FailsAfterStart, n
    <2> QED BY <2>3, <2>4 DEF QueueInv, LastTells, FailsAfterStart, p, m
  <1> QED BY <1>4, <1>5

\* A step that an event tells of does not concern other locations.
LEMMA StepElsewhere ==
  ASSUME NEW s, NEW s2, NEW e, NEW l, StepOf(s, e, s2), e.loc # l
  PROVE  Elsewhere(s, e.id, l, s2)
  BY DEF StepOf, Moves, Elsewhere, Of

-----------------------------------------------------------------------------
rowFrame == <<rows, once, op, held, wloc>>

\* An event is posted, or missed by rows that come to be in doubt.
LEMMA ToldNext ==
  ASSUME PortInv, NEW e \in EventType, StepOf(src, e, src'), src' \in [Sources -> SourceType],
         device_state_changed(e), UNCHANGED rowFrame
  PROVE  PortInv'
  <1>1. /\ events \in Seq(EventType) /\ src \in [Sources -> SourceType] /\ doubt \subseteq Locs
        /\ subscribed \in BOOLEAN /\ once \in BOOLEAN /\ e.loc \in Locs
        /\ (events # <<>> => subscribed)
    BY DEF PortInv, PortTypes, EventType
  <1>2. /\ events' = IF subscribed THEN Append(events, e) ELSE events
        /\ subscribed' = subscribed
        /\ doubt' = IF once /\ ~subscribed THEN doubt \cup {e.loc} ELSE doubt
    BY DEF device_state_changed, Posted
  <1>3. Append(events, e) \in Seq(EventType)
    BY <1>1, AppendOf
  <1>4. PortTypes'
    BY <1>1, <1>2, <1>3 DEF PortInv, PortTypes, rowFrame
  <1>5. ASSUME NEW l \in Locs \ doubt'
        PROVE  QueueInv(l, events, src)' /\ (once => RunsSettle(l, rows[l], events, src))'
    <2>1. l \in Locs \ doubt
      BY <1>2
    <2>2. QueueInv(l, events, src) /\ (once => RunsSettle(l, rows[l], events, src))
      BY <2>1 DEF PortInv
    <2>3. rows' = rows /\ once' = once
      BY DEF rowFrame
    <2>4. CASE subscribed
      <3>1. QueueInv(l, Append(events, e), src')
        BY <2>2, <1>1, QueueOfAppend
      <3>2. once => RunsSettle(l, rows[l], Append(events, e), src')
        BY <2>2, <1>1, RunsOfAppend
      <3> QED BY <3>1, <3>2, <2>3, <2>4, <1>2
    <2>5. CASE ~subscribed
      <3>1. events = <<>> /\ events' = events
        BY <2>5, <1>1, <1>2
      <3>2. QueueInv(l, events, src')
        BY <3>1 DEF QueueInv, LastTells, FailsAfterStart
      <3>3. ASSUME once PROVE RunsSettle(l, rows[l], events, src')
        <4>1. e.loc # l
          BY <3>3, <2>5, <1>2
        <4>2. Elsewhere(src, e.id, l, src')
          BY <4>1, StepElsewhere
        <4> QED BY <4>2, <3>3, <2>2, <1>1, RunsElsewhere
      <3> QED BY <3>1, <3>2, <3>3, <2>3
    <2> QED BY <2>4, <2>5, <1>1
  <1> QED BY <1>4, <1>5 DEF PortInv

\* A step that leaves a location in doubt.
LEMMA DoubtedNext ==
  ASSUME PortInv, NEW k, NEW l0 \in Locs, src' \in [Sources -> SourceType],
         \A l \in Locs : l # l0 => Elsewhere(src, k, l, src'),
         doubt' = doubt \cup {l0}, UNCHANGED rowFrame, UNCHANGED subscribed,
         \/ UNCHANGED events
         \/ subscribed /\ \E e \in EventType : e.loc = l0 /\ events' = Append(events, e)
  PROVE  PortInv'
  <1>1. /\ events \in Seq(EventType) /\ src \in [Sources -> SourceType] /\ doubt \subseteq Locs
        /\ \A e \in EventType : Append(events, e) \in Seq(EventType)
    BY AppendOf DEF PortInv, PortTypes
  <1>2. PortTypes'
    BY <1>1 DEF PortInv, PortTypes, rowFrame
  <1>3. ASSUME NEW l \in Locs \ doubt'
        PROVE  QueueInv(l, events, src)' /\ (once => RunsSettle(l, rows[l], events, src))'
    <2>1. l \in Locs \ doubt /\ l # l0 /\ Elsewhere(src, k, l, src')
      OBVIOUS
    <2>2. QueueInv(l, events, src) /\ (once => RunsSettle(l, rows[l], events, src))
      BY <2>1 DEF PortInv
    <2>3. QueueInv(l, events', src')
      <3>1. /\ QueueInv(l, events, src')
            /\ \A e \in EventType : e.loc # l => QueueInv(l, Append(events, e), src')
        BY <2>1, <2>2, <1>1, QueueElsewhere
      <3> QED BY <3>1, <2>1, Zenon
    <2>4. ASSUME once PROVE RunsSettle(l, rows[l], events', src')
      <3>1. /\ RunsSettle(l, rows[l], events, src')
            /\ \A e \in EventType : e.loc # l => RunsSettle(l, rows[l], Append(events, e), src')
        BY <2>1, <2>2, <2>4, <1>1, RunsElsewhere
      <3> QED BY <3>1, <2>1, Zenon
    <2> QED BY <2>3, <2>4 DEF rowFrame
  <1> QED BY <1>2, <1>3 DEF PortInv

\* A source changes and posts nothing.
LEMMA SilentNext ==
  ASSUME PortInv, NEW k \in Sources, Silent(src, k, src'), src' \in [Sources -> SourceType],
         UNCHANGED <<events, doubt, subscribed>>, UNCHANGED rowFrame
  PROVE  PortInv'
  <1>1. events \in Seq(EventType) /\ src \in [Sources -> SourceType]
    BY DEF PortInv, PortTypes
  <1>2. PortTypes'
    BY DEF PortInv, PortTypes, rowFrame
  <1>3. ASSUME NEW l \in Locs \ doubt
        PROVE  QueueInv(l, events, src') /\ (once => RunsSettle(l, rows[l], events, src'))
    <2>1. QueueInv(l, events, src) /\ (once => RunsSettle(l, rows[l], events, src))
      BY DEF PortInv
    <2> QED BY <2>1, <1>1, QueueOfSilent, RunsOfSilent
  <1> QED BY <1>2, <1>3 DEF PortInv, rowFrame


-----------------------------------------------------------------------------
\* A step of one source.
LEMMA SourceStep ==
  ASSUME PortTypes, NEW k \in Sources, NEW x \in SourceType, src' = [src EXCEPT ![k] = x]
  PROVE  /\ src' \in [Sources -> SourceType] /\ src'[k] = x /\ src[k] \in SourceType
         /\ \A j \in Sources : j # k => src'[j] = src[j]
  BY DEF PortTypes

\* A source that is free belongs to some location.
LEMMA FreeSourceType == AnyLoc \in Locs /\ FreeSource \in SourceType /\ FreeSource.st = "free"
  <1>1. AnyLoc \in Locs
    BY MainFrameAssumption DEF AnyLoc
  <1> QED BY <1>1, MainFrameAssumption DEF FreeSource, SourceType, Online

\* plugin_hardware, for the GUI and for others.
LEMMA PluginHardwareNext ==
  ASSUME PortInv, NEW l \in Locs, plugin_hardware(l)
  PROVE  PortInv'
  <1> DEFINE x == [FreeSource EXCEPT !.st = "connecting", !.loc = l]
             e(k) == [st |-> "connecting", loc |-> l, id |-> k, port |-> 0, known |-> FALSE]
  <1>1. PICK k \in Sources : /\ src[k].st = "free"
                             /\ src' = [src EXCEPT ![k] = x]
                             /\ device_state_changed(e(k))
    BY DEF plugin_hardware
  <1>2. x \in SourceType /\ x.st = "connecting" /\ x.loc = l
    BY MainFrameAssumption, FreeSourceType DEF FreeSource, SourceType, Online, Offline
  <1>3. e(k) \in EventType
    BY MainFrameAssumption DEF EventType
  <1> HIDE DEF x
  <1>4. /\ src' \in [Sources -> SourceType] /\ src'[k] = x
        /\ \A j \in Sources : j # k => src'[j] = src[j]
    BY <1>1, <1>2, SourceStep DEF PortInv
  <1>5. StepOf(src, e(k), src')
    BY <1>1, <1>2, <1>4 DEF StepOf, Moves, Alone
  <1>6. UNCHANGED rowFrame
    BY DEF plugin_hardware, rowFrame, runVars, treeVars
  <1> HIDE DEF e
  <1> QED BY <1>1, <1>3, <1>4, <1>5, <1>6, ToldNext

\* detach, for the GUI and for others.
LEMMA DetachNext ==
  ASSUME PortInv, NEW k \in Sources, detach(k)
  PROVE  PortInv'
  <1> DEFINE x == [src[k] EXCEPT !.st = "closing"]
             e == State(k, "disconnected", src[k].port, TRUE)
  <1>1. src[k] \in SourceType /\ src[k].st \in {"plugged", "broken"}
    BY DEF PortInv, PortTypes, detach
  <1>2. x \in SourceType /\ x.st = "closing" /\ x.loc = src[k].loc /\ x.port = src[k].port
    BY <1>1 DEF SourceType, Online
  <1>3. src' = [src EXCEPT ![k] = x]
    BY DEF detach, PortInv, PortTypes
  <1>4. e \in EventType /\ e.st = "disconnected" /\ e.loc = src[k].loc /\ e.port = src[k].port /\ e.id = k
    BY <1>1 DEF State, EventType, SourceType
  <1> HIDE DEF x
  <1>5. /\ src' \in [Sources -> SourceType] /\ src'[k] = x
        /\ \A j \in Sources : j # k => src'[j] = src[j]
    BY <1>2, <1>3, SourceStep DEF PortInv
  <1>6. device_state_changed(e) /\ UNCHANGED rowFrame
    BY DEF detach, rowFrame, runVars, treeVars
  <1> HIDE DEF e
  <1>7. StepOf(src, e, src')
    BY <1>1, <1>2, <1>4, <1>5 DEF StepOf, Moves, Alone
  <1> QED BY <1>4, <1>5, <1>6, <1>7, ToldNext

\* The other steps of a source that post an event.
LEMMA SourceNext ==
  ASSUME PortInv, NEW k \in Sources,
         connected(k) \/ workitem_cleanup(k) \/ plugin(k) \/ reclaim_roothub_port(k)
  PROVE  PortInv'
  <1>1. src[k] \in SourceType /\ \A j \in Sources : src[j] \in SourceType
    BY DEF PortInv, PortTypes
  <1>2. ASSUME NEW x \in SourceType, NEW e \in EventType, src' = [src EXCEPT ![k] = x], e.id = k,
               Moves(src[k], e, x), Alone(src, e), device_state_changed(e), UNCHANGED rowFrame
        PROVE  PortInv'
    <2>1. /\ src' \in [Sources -> SourceType] /\ src'[k] = x
          /\ \A j \in Sources : j # k => src'[j] = src[j]
      BY <1>2, SourceStep DEF PortInv
    <2>2. StepOf(src, e, src')
      BY <2>1, <1>2 DEF StepOf
    <2> QED BY <2>1, <2>2, <1>2, ToldNext
  <1>3. CASE connected(k)
    <2> DEFINE x == [src[k] EXCEPT !.st = "connected"]
               e == State(k, "connected", 0, FALSE)
    <2>1. src[k].st = "connecting" /\ device_state_changed(e) /\ UNCHANGED rowFrame
      BY <1>3 DEF connected, rowFrame, runVars, treeVars
    <2>2. x \in SourceType /\ x.st = "connected" /\ x.loc = src[k].loc
      BY <1>1, <2>1 DEF SourceType, Online, Offline
    <2>3. src' = [src EXCEPT ![k] = x]
      BY <1>3 DEF connected, PortInv, PortTypes
    <2>4. e \in EventType /\ e.st = "connected" /\ e.loc = src[k].loc /\ e.id = k
      BY <1>1, MainFrameAssumption DEF State, EventType, SourceType
    <2> HIDE DEF x, e
    <2>5. Moves(src[k], e, x) /\ Alone(src, e)
      BY <2>1, <2>2, <2>4 DEF Moves, Alone
    <2> QED BY <2>1, <2>2, <2>3, <2>4, <2>5, <1>2
  <1>4. CASE workitem_cleanup(k)
    <2> DEFINE e == State(k, "disconnected", 0, src[k].known)
    <2>1. /\ src[k].st = "late" /\ device_state_changed(e) /\ UNCHANGED rowFrame
          /\ src' = [src EXCEPT ![k] = FreeSource]
      BY <1>4 DEF workitem_cleanup, rowFrame, runVars, treeVars
    <2>2. e \in EventType /\ e.st = "disconnected" /\ e.loc = src[k].loc /\ e.id = k /\ e.port = 0
      BY <1>1, MainFrameAssumption DEF State, EventType, SourceType
    <2> HIDE DEF e
    <2>3. Moves(src[k], e, FreeSource) /\ Alone(src, e)
      BY <2>1, <2>2, FreeSourceType DEF Moves, Alone
    <2> QED BY <2>1, <2>2, <2>3, <1>2, FreeSourceType
  <1>5. CASE plugin(k)
    <2>1. PICK p \in Ports : /\ src' = [src EXCEPT ![k].st = "plugged", ![k].port = p, ![k].known = TRUE]
                             /\ device_state_changed(State(k, "plugged", p, TRUE))
      BY <1>5 DEF plugin
    <2> DEFINE x == [src[k] EXCEPT !.st = "plugged", !.port = p, !.known = TRUE]
               e == State(k, "plugged", p, TRUE)
    <2>2. /\ src[k].st = "connected" /\ UNCHANGED rowFrame
          /\ \A j \in Sources : src[j].st = "plugged" => src[j].loc # src[k].loc
      BY <1>5 DEF plugin, rowFrame, runVars, treeVars
    <2>3. p \in 0 .. NPorts /\ p # 0
      BY MainFrameAssumption DEF Ports
    <2>4. x \in SourceType /\ x.st = "plugged" /\ x.loc = src[k].loc /\ x.port = p
      BY <1>1, <2>3 DEF SourceType, Online, Offline
    <2>5. src' = [src EXCEPT ![k] = x]
      BY <2>1 DEF PortInv, PortTypes
    <2>6. e \in EventType /\ e.st = "plugged" /\ e.loc = src[k].loc /\ e.id = k /\ e.port = p
      BY <1>1, <2>3 DEF State, EventType, SourceType
    <2>7. device_state_changed(e)
      BY <2>1
    <2> HIDE DEF x, e
    <2>8. Moves(src[k], e, x) /\ Alone(src, e)
      BY <2>2, <2>4, <2>6 DEF Moves, Alone
    <2> QED BY <2>2, <2>4, <2>5, <2>6, <2>7, <2>8, <1>2
  <1>6. CASE reclaim_roothub_port(k)
    <2> DEFINE x == [src[k] EXCEPT !.st = "unplugging"]
               e == State(k, "unplugging", src[k].port, TRUE)
    <2>1. src[k].st = "closing" /\ device_state_changed(e) /\ UNCHANGED rowFrame
      BY <1>6 DEF reclaim_roothub_port, rowFrame, runVars, treeVars
    <2>2. x \in SourceType /\ x.st = "unplugging" /\ x.loc = src[k].loc /\ x.port = src[k].port
      BY <1>1, <2>1 DEF SourceType, Online, Offline
    <2>3. src' = [src EXCEPT ![k] = x]
      BY <1>6 DEF reclaim_roothub_port, PortInv, PortTypes
    <2>4. e \in EventType /\ e.st = "unplugging" /\ e.loc = src[k].loc /\ e.id = k /\ e.port = src[k].port
      BY <1>1, <2>1 DEF State, EventType, SourceType, Online
    <2> HIDE DEF x, e
    <2>5. Moves(src[k], e, x) /\ Alone(src, e)
      BY <2>1, <2>2, <2>4 DEF Moves, Alone
    <2> QED BY <2>1, <2>2, <2>3, <2>4, <2>5, <1>2
  <1> QED BY <1>3, <1>4, <1>5, <1>6

\* A plugin that fails with a port, and a plugout without its last event, leave the
\* location in doubt.
LEMMA EndNext ==
  ASSUME PortInv, NEW k \in Sources, PluginFails(k) \/ plugout_and_delete(k)
  PROVE  PortInv'
  <1>1. src[k] \in SourceType /\ src[k].loc \in Locs
    BY DEF PortInv, PortTypes, SourceType
  <1>2. src' = [src EXCEPT ![k] = FreeSource] /\ UNCHANGED rowFrame
    BY DEF PluginFails, plugout_and_delete, rowFrame, runVars, treeVars
  <1>3. /\ src' \in [Sources -> SourceType] /\ src'[k] = FreeSource
        /\ \A j \in Sources : j # k => src'[j] = src[j]
    BY <1>2, SourceStep, FreeSourceType DEF PortInv
  <1>4. \A l \in Locs : l # src[k].loc => Elsewhere(src, k, l, src')
    BY <1>3, FreeSourceType DEF Elsewhere, Of
  <1>5. CASE PluginFails(k)
    <2>1. PICK p \in Ports \cup {0} :
                 /\ Posted(State(k, "disconnected", p, TRUE))
                 /\ doubt' = IF p = 0 /\ (subscribed \/ ~once) THEN doubt ELSE doubt \cup {src[k].loc}
      BY <1>5 DEF PluginFails
    <2> DEFINE e == State(k, "disconnected", p, TRUE)
    <2>2. p \in 0 .. NPorts
      BY MainFrameAssumption DEF Ports
    <2>3. e \in EventType /\ e.st = "disconnected" /\ e.loc = src[k].loc /\ e.id = k /\ e.port = p
      BY <1>1, <2>2 DEF State, EventType
    <2>4. src[k].st = "connected" /\ Posted(e)
      BY <2>1, <1>5 DEF PluginFails
    <2>5. doubt' = IF p = 0 /\ (subscribed \/ ~once) THEN doubt ELSE doubt \cup {e.loc}
      BY <2>1, <2>3
    <2> HIDE DEF e
    <2>6. CASE p = 0
      <3>1. StepOf(src, e, src')
        BY <2>3, <2>4, <2>6, <1>3, FreeSourceType DEF StepOf, Moves, Alone
      <3>2. device_state_changed(e)
        BY <2>4, <2>5, <2>6 DEF device_state_changed
      <3> QED BY <3>1, <3>2, <2>3, <1>2, <1>3, ToldNext
    <2>7. CASE p # 0
      <3>1. doubt' = doubt \cup {src[k].loc}
        BY <2>1, <2>7
      <3>2. \/ UNCHANGED events
            \/ subscribed /\ \E f \in EventType : f.loc = src[k].loc /\ events' = Append(events, f)
        BY <2>3, <2>4 DEF Posted
      <3>3. UNCHANGED subscribed
        BY <2>4 DEF Posted
      <3> QED BY <3>1, <3>2, <3>3, <1>1, <1>2, <1>3, <1>4, DoubtedNext
    <2> QED BY <2>6, <2>7
  <1>6. CASE plugout_and_delete(k)
    <2> DEFINE e == State(k, "unplugged", src[k].port, TRUE)
    <2>1. src[k].st = "unplugging"
      BY <1>6 DEF plugout_and_delete
    <2>2. e \in EventType /\ e.st = "unplugged" /\ e.loc = src[k].loc /\ e.id = k
      BY <1>1, <2>1 DEF State, EventType, SourceType, Online
    <2>3. CASE device_state_changed(e)
      <3> HIDE DEF e
      <3>1. StepOf(src, e, src')
        BY <2>1, <2>2, <1>3, FreeSourceType DEF StepOf, Moves, Alone
      <3> QED BY <3>1, <2>2, <2>3, <1>2, <1>3, ToldNext
    <2>4. CASE doubt' = doubt \cup {src[k].loc} /\ UNCHANGED eventVars
      BY <2>4, <1>1, <1>2, <1>3, <1>4, DoubtedNext DEF eventVars
    <2> QED BY <1>6, <2>3, <2>4 DEF plugout_and_delete
  <1> QED BY <1>5, <1>6

\* An attach fails, or a connection breaks, and the event comes later.
LEMMA QuietNext ==
  ASSUME PortInv, NEW k \in Sources, AttachFails(k) \/ ConnectionBreaks(k)
  PROVE  PortInv'
  <1>1. src[k] \in SourceType
    BY DEF PortInv, PortTypes
  <1>2. UNCHANGED <<events, doubt, subscribed>> /\ UNCHANGED rowFrame
    BY DEF AttachFails, ConnectionBreaks, rowFrame, runVars, treeVars, eventVars
  <1>3. \E x \in SourceType :
           /\ src' = [src EXCEPT ![k] = x] /\ x.loc = src[k].loc /\ x.port = src[k].port
           /\ \/ src[k].st \in {"connecting", "connected"} /\ x.st = "late"
              \/ src[k].st = "plugged" /\ x.st = "broken"
    <2>1. CASE AttachFails(k)
      <3>1. PICK b \in BOOLEAN : src' = [src EXCEPT ![k].st = "late", ![k].known = b]
        BY <2>1 DEF AttachFails
      <3> DEFINE x == [src[k] EXCEPT !.st = "late", !.known = b]
      <3>2. x \in SourceType /\ x.loc = src[k].loc /\ x.port = src[k].port /\ x.st = "late"
        BY <1>1 DEF SourceType, Online, Offline
      <3>3. src' = [src EXCEPT ![k] = x]
        BY <3>1 DEF PortInv, PortTypes
      <3> QED BY <3>2, <3>3, <2>1 DEF AttachFails
    <2>2. CASE ConnectionBreaks(k)
      <3> DEFINE x == [src[k] EXCEPT !.st = "broken"]
      <3>1. src[k].st = "plugged"
        BY <2>2 DEF ConnectionBreaks
      <3>2. x \in SourceType /\ x.loc = src[k].loc /\ x.port = src[k].port /\ x.st = "broken"
        BY <1>1, <3>1 DEF SourceType, Online, Offline
      <3>3. src' = [src EXCEPT ![k] = x]
        BY <2>2 DEF PortInv, PortTypes, ConnectionBreaks
      <3> QED BY <3>1, <3>2, <3>3
    <2> QED BY <2>1, <2>2
  <1>4. Silent(src, k, src') /\ src' \in [Sources -> SourceType]
    <2>1. PICK x \in SourceType :
           /\ src' = [src EXCEPT ![k] = x] /\ x.loc = src[k].loc /\ x.port = src[k].port
           /\ \/ src[k].st \in {"connecting", "connected"} /\ x.st = "late"
              \/ src[k].st = "plugged" /\ x.st = "broken"
      BY <1>3
    <2>2. /\ src' \in [Sources -> SourceType] /\ src'[k] = x
          /\ \A j \in Sources : j # k => src'[j] = src[j]
      BY <2>1, SourceStep DEF PortInv
    <2> QED BY <2>1, <2>2 DEF Silent
  <1> QED BY <1>2, <1>4, SilentNext

\* A step of the driver.
LEMMA DriverNext == PortInv /\ Driver => PortInv'
  <1> SUFFICES ASSUME PortInv, Driver PROVE PortInv'
    OBVIOUS
  <1>1. wloc \in Locs
    BY DEF PortInv, PortTypes
  <1>2. CASE device_read
    BY <1>2 DEF device_read, driverVars, runVars, treeVars, PortInv, PortTypes
  <1>3. CASE DetachFindsNone
    BY <1>3 DEF DetachFindsNone, driverVars, runVars, treeVars, eventVars, PortInv, PortTypes
  <1>4. CASE AttachForGui
    BY <1>1, <1>4, PluginHardwareNext DEF AttachForGui
  <1>5. CASE AttachByOther
    BY <1>5, PluginHardwareNext DEF AttachByOther
  <1>6. CASE DetachForGui
    BY <1>6, DetachNext DEF DetachForGui
  <1>7. ASSUME NEW k \in Sources, DetachByOther(k) PROVE PortInv'
    BY <1>7, DetachNext DEF DetachByOther
  <1>8. ASSUME NEW k \in Sources,
               \/ connected(k) \/ AttachFails(k) \/ workitem_cleanup(k)
               \/ plugin(k) \/ PluginFails(k) \/ ConnectionBreaks(k)
               \/ reclaim_roothub_port(k) \/ plugout_and_delete(k)
        PROVE  PortInv'
    BY <1>8, SourceNext, EndNext, QuietNext
  <1> QED BY <1>2, <1>3, <1>4, <1>5, <1>6, <1>7, <1>8 DEF Driver


-----------------------------------------------------------------------------
\* Rows are followed by their port and source only.
LEMMA RunsOfRow ==
  ASSUME NEW l, NEW r, NEW r2, NEW q, NEW s, r2.port = r.port, r2.src = r.src, RunsSettle(l, r, q, s)
  PROVE  RunsSettle(l, r2, q, s)
  BY DEF RunsSettle, IsRun

\* What is followed of a row is its port, source and devid.
LEMMA FollowedRow ==
  ASSUME NEW r \in RowType
  PROVE  /\ Followed(r) \in Values
         /\ Followed(r).port = r.port /\ Followed(r).src = r.src /\ Followed(r).known = r.known
  BY DEF RowType, Values, Followed

\* What a row that is written keeps.
LEMMA RowShown ==
  ASSUME NEW r \in RowType
  PROVE  /\ [r EXCEPT !.shown = TRUE] \in RowType
         /\ [r EXCEPT !.shown = TRUE].port = r.port /\ [r EXCEPT !.shown = TRUE].src = r.src
         /\ [r EXCEPT !.shown = TRUE].known = r.known /\ [r EXCEPT !.shown = TRUE].shown
  BY DEF RowType

Listed(r, st, p, k, m) == [r EXCEPT !.st = st, !.port = p, !.known = k, !.mark = m]

\* A row that is filled from the list of imported devices.
LEMMA RowListed ==
  ASSUME NEW r \in RowType, r.shown,
         NEW st \in RowStates, NEW p \in 0 .. NPorts, NEW k \in BOOLEAN, k, NEW m \in BOOLEAN
  PROVE  /\ Listed(r, st, p, k, m) \in RowType
         /\ Listed(r, st, p, k, m).src = r.src /\ Listed(r, st, p, k, m).port = p
  <1> DEFINE x == [r EXCEPT !.st = st, !.port = p, !.known = k, !.mark = m]
             R == [shown : BOOLEAN, st : RowStates, port : 0 .. NPorts, src : 0 .. NSources,
                   known : BOOLEAN, mark : BOOLEAN]
  <1>1. r \in R
    BY DEF RowType
  <1>2. x \in R
    BY <1>1
  <1>3. x.src = r.src /\ x.port = p /\ x.known = k /\ x.shown = r.shown
    BY <1>1
  <1> HIDE DEF x
  <1>4. x \in RowType
    BY <1>2, <1>3 DEF RowType
  <1> QED BY <1>3, <1>4 DEF x, Listed

\* Rows that are not there, and new ones, have no port.
LEMMA EmptyRows == NoRow \in RowType /\ NoRow.port = 0 /\ NoRow.src = 0 /\ ~NoRow.known
                   /\ NewRow \in RowType /\ NewRow.port = 0 /\ NewRow.src = 0 /\ ~NewRow.known /\ NewRow.shown
  <1>1. 0 \in 0 .. NPorts /\ 0 \in 0 .. NSources /\ "none" \in RowStates
    BY MainFrameAssumption DEF RowStates
  <1>2. NoRow \in RowType
    BY <1>1 DEF NoRow, RowType
  <1>3. NoRow.port = 0 /\ NoRow.src = 0 /\ ~NoRow.known
    BY DEF NoRow
  <1> QED BY <1>2, <1>3, RowShown DEF NewRow

\* The columns that update_device writes.
LEMMA UpdatedRow ==
  ASSUME NEW r \in RowType, NEW e \in EventType, r.shown
  PROVE  /\ update_device(r, e) \in RowType
         /\ update_device(r, e).port = PortOf(r, e)
         /\ update_device(r, e).src = IF e.st \in {"disconnected", "unplugged"} THEN 0 ELSE e.id
  <1>1. PortOf(r, e) \in 0 .. NPorts /\ (PortOf(r, e) # 0 => r.known \/ e.known)
    BY MainFrameAssumption DEF PortOf, RowType, EventType
  <1>2. e.id \in 0 .. NSources /\ 0 \in 0 .. NSources /\ e.st \in RowStates
    BY MainFrameAssumption DEF EventType, Sources, RowStates
  <1> DEFINE u == update_device(r, e)
             c == IF e.st \in {"disconnected", "unplugged"} THEN 0 ELSE e.id
  <1>3. /\ u.shown = TRUE /\ u.st = e.st /\ u.port = PortOf(r, e) /\ u.src = c
        /\ u.known \in BOOLEAN /\ u.mark \in BOOLEAN /\ (r.known \/ e.known => u.known)
        /\ u = [shown |-> u.shown, st |-> u.st, port |-> u.port, src |-> u.src,
                known |-> u.known, mark |-> u.mark]
    <2> DEFINE lookup == ~rows[e.loc].shown \/ ~e.known
               kn == r.known \/ e.known \/ (lookup /\ e.loc \in saved)
               mk == r.mark \/ (lookup /\ e.loc \in persistent)
    <2>1. r = [shown |-> r.shown, st |-> r.st, port |-> r.port, src |-> r.src,
               known |-> r.known, mark |-> r.mark] /\ r.shown = TRUE
      BY DEF RowType
    <2>2. u = [r EXCEPT !.st = e.st, !.src = c, !.port = PortOf(r, e), !.known = kn, !.mark = mk]
      BY DEF update_device
    <2>3. u = [shown |-> TRUE, st |-> e.st, port |-> PortOf(r, e), src |-> c, known |-> kn, mark |-> mk]
      <3> HIDE DEF u, c, kn, mk
      <3> QED BY <2>1, <2>2
    <2>4. kn \in BOOLEAN /\ mk \in BOOLEAN /\ (r.known \/ e.known => kn)
      OBVIOUS
    <2> HIDE DEF u, c, kn, mk
    <2> QED BY <2>3, <2>4
  <1>4. c \in 0 .. NSources
    BY <1>2
  <1> HIDE DEF u, c
  <1>5. u \in RowType
    BY <1>1, <1>2, <1>3, <1>4 DEF RowType
  <1> QED BY <1>3, <1>5 DEF u, c

\* on_device_state handles the first event.
LEMMA DeviceStateNext == PortInv /\ on_device_state => PortInv'
  <1> SUFFICES ASSUME PortInv, on_device_state PROVE PortInv'
    OBVIOUS
  <1> DEFINE e == Head(events)
             r0 == rows[e.loc]
             r == IF r0.shown THEN r0 ELSE NewRow
  <1>1. /\ events \in Seq(EventType) /\ rows \in [Locs -> RowType] /\ doubt \subseteq Locs
        /\ events # <<>> /\ subscribed
    BY DEF PortInv, PortTypes, on_device_state
  <1>2. events' = Tail(events) /\ UNCHANGED <<src, subscribed, once, op, held, wloc>>
    BY DEF on_device_state, driverVars, runVars
  <1>3. /\ Tail(events) \in Seq(EventType) /\ Len(events) \in Nat \ {0} /\ 1 \in 1 .. Len(events)
        /\ e = events[1]
    BY <1>1, TailOf
  <1>4. e \in EventType
    BY <1>1, <1>3, ElementOfSeq
  <1>5. e.loc \in Locs /\ r0 \in RowType
    BY <1>1, <1>4 DEF EventType
  <1>6. r \in RowType /\ r.port = r0.port /\ r.src = r0.src /\ r.known = r0.known /\ r.shown
    BY <1>5, EmptyRows DEF RowType
  <1>7. \/ /\ e.st = "disconnected" /\ ~r.known /\ rows' = remove_device(e.loc) /\ doubt' = doubt
        \/ /\ e.st # "disconnected" \/ r.known
           /\ FromOther(r, e) /\ rows' = rows /\ doubt' = doubt
        \/ /\ e.st # "disconnected" \/ r.known
           /\ ~FromOther(r, e)
           /\ rows' = [rows EXCEPT ![e.loc] = update_device(r, e)]
           /\ doubt' = IF e.st \in {"connecting", "connected"} /\ r.port # 0
                         THEN doubt \cup {e.loc} ELSE doubt
    BY DEF on_device_state
  <1> HIDE DEF e, r
  <1>8. /\ update_device(r, e) \in RowType
        /\ update_device(r, e).port = PortOf(r, e)
        /\ update_device(r, e).src = IF e.st \in {"disconnected", "unplugged"} THEN 0 ELSE e.id
    BY <1>4, <1>6, UpdatedRow
  <1>9. /\ rows' \in [Locs -> RowType] /\ doubt \subseteq doubt' /\ doubt' \subseteq Locs
        /\ \A l \in Locs : l # e.loc => rows'[l] = rows[l]
        /\ e.loc \notin doubt' => Applied(Followed(r0), e, rows'[e.loc])
    <2>1. Followed(r0).port = r.port /\ Followed(r0).src = r.src /\ Followed(r0).known = r.known
      BY <1>5, <1>6, FollowedRow
    <2>2. FromOther(Followed(r0), e) <=> FromOther(r, e)
      BY <2>1 DEF FromOther
    <2>3. PortOf(Followed(r0), e) = PortOf(r, e)
      BY <2>1 DEF PortOf
    <2>4. CASE e.st = "disconnected" /\ ~r.known /\ rows' = remove_device(e.loc) /\ doubt' = doubt
      <3>1. rows' = [rows EXCEPT ![e.loc] = NoRow]
        BY <2>4 DEF remove_device
      <3>2. rows'[e.loc] = NoRow
        BY <3>1, <1>1, <1>5
      <3>3. Applied(Followed(r0), e, rows'[e.loc])
        BY <3>2, <2>1, <2>4, EmptyRows DEF Applied
      <3> QED BY <3>1, <3>3, <2>4, <1>1, EmptyRows
    <2>5. CASE /\ e.st # "disconnected" \/ r.known
               /\ FromOther(r, e) /\ rows' = rows /\ doubt' = doubt
      <3>1. Applied(Followed(r0), e, rows'[e.loc])
        BY <2>1, <2>2, <2>5, <1>6 DEF Applied
      <3> QED BY <3>1, <2>5, <1>1
    <2>6. CASE /\ e.st # "disconnected" \/ r.known
               /\ ~FromOther(r, e)
               /\ rows' = [rows EXCEPT ![e.loc] = update_device(r, e)]
               /\ doubt' = IF e.st \in {"connecting", "connected"} /\ r.port # 0
                             THEN doubt \cup {e.loc} ELSE doubt
      <3>1. rows'[e.loc] = update_device(r, e)
        BY <2>6, <1>1, <1>5
      <3>2. e.loc \notin doubt' => (e.st \in {"connecting", "connected"} => Followed(r0).port = 0)
        BY <2>1, <2>6
      <3>3. e.loc \notin doubt' => Applied(Followed(r0), e, rows'[e.loc])
        BY <3>1, <3>2, <2>1, <2>2, <2>3, <2>6, <1>8 DEF Applied
      <3> QED BY <3>3, <2>6, <1>1, <1>5, <1>8
    <2> QED BY <2>4, <2>5, <2>6, <1>7
  <1>10. PortTypes'
    BY <1>1, <1>2, <1>3, <1>9 DEF PortInv, PortTypes
  <1>11. ASSUME NEW l \in Locs \ doubt'
         PROVE  QueueInv(l, events, src)' /\ (once => RunsSettle(l, rows[l], events, src))'
    <2>1. l \in Locs \ doubt
      BY <1>9
    <2>2. QueueInv(l, events, src) /\ (once => RunsSettle(l, rows[l], events, src))
      BY <2>1 DEF PortInv
    <2>3. QueueInv(l, Tail(events), src)
      BY <2>2, <1>1, QueueOfTail
    <2>4. ASSUME once PROVE RunsSettle(l, rows'[l], Tail(events), src)
      <3>1. rows[l] \in RowType
        BY <1>1
      <3>2. Followed(rows[l]) \in Values
        BY <3>1, FollowedRow
      <3>3. IF events[1].loc = l THEN Applied(Followed(rows[l]), events[1], rows'[l])
            ELSE rows'[l].port = rows[l].port /\ rows'[l].src = rows[l].src
        BY <1>3, <1>9
      <3>4. RunsSettle(l, rows[l], events, src)
        BY <2>2, <2>4
      <3> QED BY <3>2, <3>3, <3>4, <1>1, RunsOfTail
    <2> QED BY <2>3, <2>4, <1>2
  <1> QED BY <1>10, <1>11 DEF PortInv

-----------------------------------------------------------------------------
\* A location that is not contested has one source at most.
LEMMA OneRival ==
  ASSUME PortTypes, NEW l \in Locs \ Contested
  PROVE  \E k : OnlyOf(k, l, events, src)
  <1>1. IsFiniteSet(Sources)
    BY MainFrameAssumption, FS_Interval DEF Sources
  <1>2. Rivals(l) \subseteq Sources
    BY DEF Rivals
  <1>3. IsFiniteSet(Rivals(l)) /\ Cardinality(Rivals(l)) \in Nat
    BY <1>1, <1>2, FS_Subset, FS_CardinalityType
  <1>4. Cardinality(Rivals(l)) = 0 \/ Cardinality(Rivals(l)) = 1
    BY <1>3 DEF Contested
  <1>5. \E k : Rivals(l) \subseteq {k}
    <2>1. CASE Cardinality(Rivals(l)) = 0
      BY <2>1, <1>3, FS_EmptySet
    <2>2. CASE Cardinality(Rivals(l)) = 1
      BY <2>2, <1>3, FS_Singleton
    <2> QED BY <2>1, <2>2, <1>4
  <1>6. PICK k : Rivals(l) \subseteq {k}
    BY <1>5
  <1>7. events \in Seq(EventType) /\ DOMAIN events = 1 .. Len(events)
    BY LenProperties DEF PortTypes
  <1>8. \A i \in 1 .. Len(events) : events[i] \in EventType
    BY <1>7, ElementOfSeq
  <1>9. ASSUME NEW i \in 1 .. Len(events), events[i].loc = l PROVE events[i].id = k
    <2>1. events[i].id \in Sources
      BY <1>8 DEF EventType
    <2>2. events[i].id \in Rivals(l)
      BY <2>1, <1>7, <1>9 DEF Rivals
    <2> QED BY <2>2, <1>6
  <1>10. \A j \in Sources : Of(src, j, l) => j = k
    BY <1>6 DEF Of, Rivals
  <1> QED BY <1>9, <1>10 DEF OnlyOf

\* A row through which no event of its location passes, or one that it handles at once.
LEMMA RowSettles ==
  ASSUME PortInv, NEW l \in Locs \ doubt, once, \A i \in 1 .. Len(events) : events[i].loc # l
  PROVE  Settled(rows[l], l, src)
  <1>1. events \in Seq(EventType) /\ Len(events) \in Nat /\ rows[l] \in RowType
    BY LenProperties DEF PortInv, PortTypes
  <1> DEFINE v == Followed(rows[l])
             t == [i \in 0 .. Len(events) |-> v]
  <1>2. v \in Values /\ v.port = rows[l].port /\ v.src = rows[l].src
    BY <1>1, FollowedRow
  <1> HIDE DEF v
  <1>3. /\ t \in [0 .. Len(events) -> Values] /\ t[0] = v /\ t[Len(events)] = v
        /\ \A i \in 1 .. Len(events) : t[i] = v /\ t[i - 1] = v
    BY <1>1, <1>2
  <1> HIDE DEF t
  <1>4. IsRun(t, l, rows[l], events)
    BY <1>2, <1>3 DEF IsRun
  <1>5. Settled(v, l, src)
    BY <1>3, <1>4 DEF PortInv, RunsSettle
  <1> QED BY <1>2, <1>5 DEF Settled

\* The last event of a failed attach finds a row without a port.
LEMMA FailedRowSettles ==
  ASSUME PortInv, NEW l \in Locs \ doubt, once, NEW x \in 1 .. Len(events),
         events[x].loc = l, events[x].st = "disconnected", events[x].port = 0,
         \A i \in 1 .. Len(events) : i # x => events[i].loc # l,
         \A j \in Sources : ~Of(src, j, l)
  PROVE  rows[l].port = 0
  <1>1. events \in Seq(EventType) /\ Len(events) \in Nat /\ rows[l] \in RowType
    BY LenProperties DEF PortInv, PortTypes
  <1> DEFINE v == Followed(rows[l])
             e == events[x]
  <1>2. v \in Values /\ v.port = rows[l].port /\ v.src = rows[l].src /\ v.port \in Nat
    BY <1>1, FollowedRow, MainFrameAssumption DEF Values
  <1> HIDE DEF v
  <1>3. ASSUME NEW w \in Values, Applied(v, e, w) PROVE Settled(w, l, src)
    <2> DEFINE t == [i \in 0 .. Len(events) |-> IF i < x THEN v ELSE w]
    <2>1. /\ t \in [0 .. Len(events) -> Values] /\ t[0] = v /\ t[Len(events)] = w
          /\ t[x] = w /\ t[x - 1] = v
          /\ \A i \in 1 .. Len(events) : i # x => t[i] = t[i - 1]
      BY <1>1, <1>2
    <2> HIDE DEF t
    <2>2. IsRun(t, l, rows[l], events)
      BY <2>1, <1>2, <1>3 DEF IsRun
    <2> QED BY <2>1, <2>2 DEF PortInv, RunsSettle
  <1>4. \A w : Settled(w, l, src) => w.src = 0 /\ w.port = 0
    BY DEF Settled
  <1>5. CASE ~v.known
    BY <1>2, <1>5 DEF Values
  <1>6. CASE v.known /\ FromOther(v, e)
    <2>1. Applied(v, e, v)
      BY <1>6 DEF Applied
    <2> QED BY <2>1, <1>2, <1>3, <1>4
  <1>7. CASE v.known /\ ~FromOther(v, e)
    <2> DEFINE w == [v EXCEPT !.src = 0]
    <2>1. w \in Values /\ w.port = v.port /\ w.src = 0
      BY <1>2, MainFrameAssumption DEF Values
    <2>2. Applied(v, e, w)
      BY <2>1, <1>7 DEF Applied, PortOf
    <2> QED BY <2>1, <2>2, <1>2, <1>3, <1>4
  <1> QED BY <1>5, <1>6, <1>7

\* add_exported_devices writes rows without a source.
LEMMA ExportedNext == PortInv /\ add_exported_devices => PortInv'
  <1> SUFFICES ASSUME PortInv, add_exported_devices PROVE PortInv'
    OBVIOUS
  <1>1. /\ events \in Seq(EventType) /\ rows \in [Locs -> RowType] /\ doubt \subseteq Locs
        /\ src \in [Sources -> SourceType] /\ once
    BY DEF PortInv, PortTypes, add_exported_devices
  <1>2. PICK S \in SUBSET Locs :
           /\ rows' = [l \in Locs |-> IF l \in S THEN Exported(l) ELSE rows[l]]
           /\ doubt' = doubt \cup (S \cap Contested)
    BY DEF add_exported_devices
  <1>3. UNCHANGED <<src, events, subscribed, once>> /\ op' = "none" /\ held' = {} /\ wloc' = AnyLoc
    BY DEF add_exported_devices, Idle, driverVars, eventVars
  <1>4. ASSUME NEW l \in Locs PROVE Exported(l) \in RowType /\ Exported(l).src = 0 /\ Exported(l).port = rows[l].port
    <2> DEFINE r == rows[l]
               st2 == IF r.shown THEN r.st ELSE "unplugged"
               mk == r.mark \/ l \in persistent
    <2>1. /\ r = [shown |-> r.shown, st |-> r.st, port |-> r.port, src |-> r.src,
                  known |-> r.known, mark |-> r.mark]
          /\ r.port \in 0 .. NPorts /\ 0 \in 0 .. NSources /\ st2 \in RowStates
      BY <1>1, MainFrameAssumption DEF RowType, RowStates
    <2>2. Exported(l) = [r EXCEPT !.shown = TRUE, !.known = TRUE, !.src = 0, !.st = st2, !.mark = mk]
      BY DEF Exported
    <2>3. mk \in BOOLEAN
      OBVIOUS
    <2> HIDE DEF r, st2, mk
    <2>4. Exported(l) = [shown |-> TRUE, st |-> st2, port |-> r.port, src |-> 0, known |-> TRUE, mark |-> mk]
      BY <2>1, <2>2
    <2>5. Exported(l) \in RowType
      BY <2>1, <2>3, <2>4 DEF RowType
    <2> QED BY <2>4, <2>5 DEF r
  <1>5. PortTypes'
    BY <1>1, <1>2, <1>3, <1>4, FreeSourceType DEF PortInv, PortTypes
  <1>6. ASSUME NEW l \in Locs \ doubt'
        PROVE  QueueInv(l, events, src) /\ RunsSettle(l, rows'[l], events, src)
    <2>1. l \in Locs \ doubt /\ (l \in S => l \notin Contested)
      BY <1>2
    <2>2. QueueInv(l, events, src) /\ RunsSettle(l, rows[l], events, src)
      BY <2>1, <1>1 DEF PortInv
    <2>3. CASE l \notin S
      BY <2>2, <2>3, <1>2
    <2>4. CASE l \in S
      <3> DEFINE r == Exported(l)
      <3>1. rows'[l] = r /\ r.src = 0 /\ r.port = rows[l].port
        BY <2>4, <1>2, <1>4
      <3>2. PICK k : OnlyOf(k, l, events, src)
        BY <2>1, <2>4, OneRival DEF PortInv
      <3> HIDE DEF r
      <3>3. ASSUME \A i \in 1 .. Len(events) : events[i].loc # l PROVE Settled(r, l, src)
        <4>1. Settled(rows[l], l, src)
          BY <3>3, <2>1, <1>1, RowSettles
        <4>2. \A j, i \in Sources : Of(src, j, l) /\ Of(src, i, l) => i = j
          BY <3>2 DEF OnlyOf
        <4>3. \A j \in Sources : Of(src, j, l) => src[j].st \in Offline \cup Online /\ src[j] \in SourceType
          BY <1>1 DEF Of, SourceType
        <4>4. \A j \in Sources : j # 0
          BY MainFrameAssumption DEF Sources
        <4> QED BY <4>1, <4>2, <4>3, <4>4, <3>1 DEF Settled
      <3>4. ASSUME NEW x \in 1 .. Len(events), events[x].loc = l, events[x].st = "disconnected",
                   events[x].port = 0, ~Of(src, events[x].id, l),
                   \A i \in 1 .. Len(events) : i # x => events[i].loc # l
            PROVE  r.port = 0
        <4>1. \A j \in Sources : ~Of(src, j, l)
          BY <3>2, <3>4 DEF OnlyOf
        <4> QED BY <4>1, <3>1, <3>4, <2>1, <1>1, FailedRowSettles
      <3>5. RunsSettle(l, r, events, src)
        BY <3>1, <3>2, <3>3, <3>4, <2>2, <1>1, FreshRowSettles
      <3> QED BY <3>1, <3>5, <2>2
    <2> QED BY <2>3, <2>4
  <1> QED BY <1>3, <1>5, <1>6 DEF PortInv


-----------------------------------------------------------------------------
\* The greatest of some ports.
LEMMA LastPort ==
  ASSUME NEW S \in SUBSET (0 .. NPorts), S # {}
  PROVE  LastOf(S) \in S /\ \A q \in S : q <= LastOf(S)
  <1> DEFINE T == {NPorts - p : p \in S}
  <1>1. NPorts \in Nat
    BY MainFrameAssumption
  <1>a. \A p \in S : NPorts - p \in Nat
    <2> TAKE p \in S
    <2>1. p \in 0 .. NPorts
      OBVIOUS
    <2> QED BY <2>1, <1>1
  <1>b. T \subseteq Nat
    BY <1>a
  <1>c. T # {}
    <2>1. PICK p \in S : TRUE
      OBVIOUS
    <2>2. NPorts - p \in T
      OBVIOUS
    <2> QED BY <2>2
  <1>2. T \subseteq Nat /\ T # {}
    BY <1>b, <1>c
  <1>3. PICK x \in T : \A y \in T : x <= y
    BY <1>2, LeastNumber
  <1>4. PICK p \in S : x = NPorts - p
    BY <1>3
  <1>5. \A q \in S : q <= p
    <2> TAKE q \in S
    <2>1. NPorts - q \in T
      OBVIOUS
    <2>2. x <= NPorts - q
      BY <2>1, <1>3
    <2>3. p \in Nat /\ q \in Nat
      BY <1>1
    <2> QED BY <2>2, <2>3, <1>1, <1>4
  <1> QED BY <1>4, <1>5 DEF LastOf

\* A row of the tree that is built anew.
LEMMA ReloadedRow ==
  ASSUME PortTypes, NEW l \in Locs
  PROVE  /\ Reloaded[l] \in RowType /\ Reloaded[l].src = 0
         /\ Reloaded[l].port = IF Imported(l) = {} THEN 0 ELSE LastOf(Imported(l))
  <1>1. Imported(l) \subseteq 0 .. NPorts
    BY DEF Imported, PortTypes, SourceType
  <1>2. CASE Imported(l) = {}
    <2>1. Reloaded[l] = NoRow
      BY <1>2 DEF Reloaded
    <2> QED BY <2>1, <1>2, EmptyRows
  <1>3. CASE Imported(l) # {}
    <2> DEFINE p == LastOf(Imported(l))
               mk == l \in persistent
    <2>1. p \in 0 .. NPorts /\ mk \in BOOLEAN
      BY <1>1, <1>3, LastPort
    <2>2. Reloaded[l] = [NewRow EXCEPT !.st = "plugged", !.port = p, !.known = TRUE, !.mark = mk]
      BY <1>3 DEF Reloaded
    <2>3. NewRow \in RowType /\ NewRow.src = 0 /\ NewRow.shown
      BY EmptyRows
    <2>4. "plugged" \in RowStates
      BY DEF RowStates
    <2> HIDE DEF p, mk
    <2>5. Reloaded[l] \in RowType /\ Reloaded[l].src = 0 /\ Reloaded[l].port = p
      <3> DEFINE x == Listed(NewRow, "plugged", p, TRUE, mk)
      <3>1. x \in RowType /\ x.src = NewRow.src /\ x.port = p
        BY <2>1, <2>3, <2>4, RowListed
      <3>2. Reloaded[l] = x
        BY <2>2 DEF Listed
      <3> HIDE DEF x
      <3> QED BY <3>1, <3>2, <2>3
    <2> QED BY <2>5, <1>3 DEF p
  <1> QED BY <1>2, <1>3

\* on_load writes neither port nor source.
LEMMA LoadedRows ==
  ASSUME NEW t, \A l \in Locs : t[l] \in RowType
  PROVE  /\ Loaded(t) \in [Locs -> RowType]
         /\ \A l \in Locs : Loaded(t)[l].port = t[l].port /\ Loaded(t)[l].src = t[l].src
  <1>1. Loaded(t) = [l \in Locs |-> Loaded(t)[l]]
    BY DEF Loaded
  <1>2. ASSUME NEW l \in Locs
        PROVE  Loaded(t)[l] \in RowType /\ Loaded(t)[l].port = t[l].port /\ Loaded(t)[l].src = t[l].src
    <2> DEFINE r == t[l]
               mk == r.mark \/ l \in persistent
    <2>1. CASE l \in saved /\ ~(r.shown /\ r.known)
      <3>1. Loaded(t)[l] = [r EXCEPT !.shown = TRUE, !.known = TRUE, !.st = "unplugged", !.mark = mk]
        BY <2>1 DEF Loaded
      <3>2. /\ r = [shown |-> r.shown, st |-> r.st, port |-> r.port, src |-> r.src,
                    known |-> r.known, mark |-> r.mark]
            /\ r.port \in 0 .. NPorts /\ r.src \in 0 .. NSources /\ "unplugged" \in RowStates
        BY DEF RowType, RowStates
      <3>3. mk \in BOOLEAN
        OBVIOUS
      <3> HIDE DEF r, mk
      <3>4. Loaded(t)[l] = [shown |-> TRUE, st |-> "unplugged", port |-> r.port, src |-> r.src,
                            known |-> TRUE, mark |-> mk]
        BY <3>1, <3>2
      <3>5. Loaded(t)[l] \in RowType
        BY <3>2, <3>3, <3>4 DEF RowType
      <3> QED BY <3>4, <3>5 DEF r
    <2>2. CASE ~(l \in saved /\ ~(r.shown /\ r.known))
      <3>1. Loaded(t)[l] = r
        BY <2>2 DEF Loaded
      <3> QED BY <3>1
    <2> QED BY <2>1, <2>2
  <1> QED BY <1>1, <1>2

\* on_reload builds the tree anew.
LEMMA ReloadNext == PortInv /\ on_reload => PortInv'
  <1> SUFFICES ASSUME PortInv, on_reload PROVE PortInv'
    OBVIOUS
  <1>1. /\ events \in Seq(EventType) /\ rows \in [Locs -> RowType] /\ doubt \subseteq Locs
        /\ src \in [Sources -> SourceType] /\ PortTypes /\ once \in BOOLEAN
    BY DEF PortInv, PortTypes
  <1>2. UNCHANGED <<src, events, subscribed, op, held, wloc>>
    BY DEF on_reload, driverVars, eventVars, runVars
  <1>3. CASE rows' = [l \in Locs |-> NoRow] /\ once' = once /\ doubt' = Locs
    <2>1. PortTypes'
      BY <1>1, <1>2, <1>3, EmptyRows DEF PortTypes
    <2> QED BY <2>1, <1>3 DEF PortInv
  <1>4. CASE /\ rows' = IF once THEN Reloaded ELSE Loaded(Reloaded)
             /\ once' = TRUE /\ doubt' = doubt \cup Contested
    <2>1. Reloaded = [l \in Locs |-> Reloaded[l]] /\ \A l \in Locs : Reloaded[l] \in RowType
      BY <1>1, ReloadedRow DEF Reloaded
    <2>2. /\ rows' \in [Locs -> RowType]
          /\ \A l \in Locs : rows'[l].port = Reloaded[l].port /\ rows'[l].src = Reloaded[l].src
      <3>1. CASE once
        BY <3>1, <2>1, <1>4
      <3>2. CASE ~once
        BY <3>2, <2>1, <1>4, LoadedRows
      <3> QED BY <3>1, <3>2
    <2>3. doubt' \subseteq Locs
      BY <1>1, <1>4 DEF Contested
    <2>4. PortTypes'
      BY <2>2, <2>3, <1>1, <1>2, <1>4 DEF PortTypes
    <2>5. ASSUME NEW l \in Locs \ doubt'
          PROVE  QueueInv(l, events, src) /\ RunsSettle(l, rows'[l], events, src)
      <3> DEFINE r == rows'[l]
      <3>1. l \in Locs \ doubt /\ l \in Locs \ Contested
        BY <1>4
      <3>2. QueueInv(l, events, src)
        BY <3>1 DEF PortInv
      <3>3. r.src = 0 /\ r.port = IF Imported(l) = {} THEN 0 ELSE LastOf(Imported(l))
        BY <2>2, <1>1, ReloadedRow
      <3>4. PICK k : OnlyOf(k, l, events, src)
        BY <3>1, <1>1, OneRival
      <3> HIDE DEF r
      <3>5. CASE Imported(l) = {}
        <4>1. \A j \in Sources : Of(src, j, l) => src[j].st # "plugged"
          BY <3>5 DEF Imported, Of
        <4>2. Settled(r, l, src)
          BY <4>1, <3>3, <3>5 DEF Settled
        <4> QED BY <4>2, <3>2, <3>3, <3>4, <3>5, <1>1, FreshRowSettles DEF r
      <3>6. CASE Imported(l) # {}
        <4>1. PICK j \in Sources : src[j].loc = l /\ src[j].st \in {"plugged", "broken", "closing"}
          BY <3>6 DEF Imported
        <4>2. Of(src, j, l) /\ \A i \in Sources : Of(src, i, l) => i = j
          BY <4>1, <3>4 DEF Of, OnlyOf
        <4>3. Imported(l) = {src[j].port}
          BY <4>1, <4>2 DEF Imported, Of
        <4>4. src[j].port \in 0 .. NPorts
          BY <1>1 DEF SourceType
        <4>5. LastOf({src[j].port}) = src[j].port
          BY <4>4, LastPort
        <4>6. r.port = src[j].port
          BY <4>3, <4>5, <3>3, <3>6
        <4>7. Settled(r, l, src)
          BY <4>1, <4>2, <4>6, <3>3 DEF Settled, Online
        <4>8. j = k
          BY <4>2, <3>4 DEF OnlyOf
        <4>9. \A x \in 1 .. Len(events) : events[x].loc = l => Of(src, events[x].id, l)
          BY <4>2, <4>8, <3>4 DEF OnlyOf
        <4> QED BY <4>7, <4>9, <3>2, <3>3, <3>4, <1>1, FreshRowSettles DEF r
      <3> QED BY <3>5, <3>6
    <2> QED BY <2>4, <2>5, <1>2 DEF PortInv
  <1> QED BY <1>3, <1>4 DEF on_reload

-----------------------------------------------------------------------------
\* on_toggle_auto and on_load write neither port nor source.
LEMMA MarksNext == PortInv /\ (on_toggle_auto \/ on_load) => PortInv'
  <1> SUFFICES ASSUME PortInv, on_toggle_auto \/ on_load PROVE PortInv'
    OBVIOUS
  <1>1. rows \in [Locs -> RowType]
    BY DEF PortInv, PortTypes
  <1>2. UNCHANGED <<src, events, subscribed, once, op, held, wloc, doubt>>
    BY DEF on_toggle_auto, on_load, commandFrame, driverVars, eventVars, runVars
  <1>3. /\ rows' \in [Locs -> RowType]
        /\ \A l \in Locs : rows'[l].port = rows[l].port /\ rows'[l].src = rows[l].src
    <2>1. CASE on_load
      BY <2>1, <1>1, LoadedRows DEF on_load
    <2>2. CASE on_toggle_auto
      <3>1. PICK S \in SelectedDevices :
               rows' = [l \in Locs |-> IF l \in S THEN set_persistent(rows[l], ~is_persistent(rows[l]))
                                       ELSE rows[l]]
        BY <2>2 DEF on_toggle_auto
      <3>2. ASSUME NEW l \in Locs, NEW b \in BOOLEAN
            PROVE  /\ set_persistent(rows[l], b) \in RowType
                   /\ set_persistent(rows[l], b).port = rows[l].port
                   /\ set_persistent(rows[l], b).src = rows[l].src
        <4>1. rows[l] \in RowType
          BY <1>1
        <4> QED BY <4>1 DEF set_persistent, RowType
      <3>3. \A l \in Locs : (~is_persistent(rows[l])) \in BOOLEAN
        OBVIOUS
      <3> QED BY <3>1, <3>2, <3>3, <1>1
    <2> QED BY <2>1, <2>2
  <1>4. PortTypes'
    BY <1>2, <1>3 DEF PortInv, PortTypes
  <1>5. ASSUME NEW l \in Locs \ doubt
        PROVE  QueueInv(l, events, src) /\ (once => RunsSettle(l, rows'[l], events, src))
    BY <1>3, RunsOfRow DEF PortInv
  <1> QED BY <1>2, <1>4, <1>5 DEF PortInv

\* The other commands of the GUI.
LEMMA CommandsNext ==
  ASSUME PortInv,
         \/ Cancel \/ attach_next \/ detach_next \/ Returned \/ edit_column_end
         \/ on_attach \/ on_detach \/ on_item_activated \/ on_detach_all \/ connect \/ edit_column_dlg
         \/ save
  PROVE  PortInv'
  <1>1. UNCHANGED <<src, events, subscribed, doubt, rows, once>>
    BY DEF Cancel, attach_next, detach_next, Returned, edit_column_end, on_attach, on_detach,
           on_item_activated, on_detach_all, connect, edit_column_dlg, save,
           commandFrame, driverVars, eventVars, treeVars
  <1>2. Shown \subseteq Locs /\ Known \subseteq Locs
    BY DEF Shown, Known
  <1>3. held \subseteq Locs /\ wloc \in Locs /\ (op # "none" => once)
    BY DEF PortInv, PortTypes
  <1>4. held' \subseteq Locs /\ wloc' \in Locs /\ (op' # "none" => once)
    <2>1. CASE Cancel \/ attach_next \/ detach_next \/ Returned \/ edit_column_end \/ save
      BY <2>1, <1>3, FreeSourceType DEF Cancel, attach_next, detach_next, Returned, edit_column_end, save,
         Idle, runVars
    <2>2. CASE on_attach \/ on_detach \/ on_detach_all \/ connect \/ edit_column_dlg
      BY <2>2, <1>2, <1>3 DEF on_attach, on_detach, on_detach_all, connect, edit_column_dlg,
         Command, SelectedDevices
    <2>3. CASE on_item_activated
      <3>1. PICK S \in SUBSET Shown : held' = S \/ held' = S \cap Known
        BY <2>3 DEF on_item_activated
      <3>2. held' \subseteq Locs
        BY <3>1, <1>2
      <3> QED BY <3>2, <2>3, <1>3 DEF on_item_activated, Command
    <2> QED BY <2>1, <2>2, <2>3
  <1>5. PortTypes'
    BY <1>1, <1>4 DEF PortInv, PortTypes
  <1> QED BY <1>1, <1>5 DEF PortInv

\* Every step of the window and of the driver.
LEMMA PortsNext == PortInv /\ [Next]_vars => PortInv'
  <1> SUFFICES ASSUME PortInv, [Next]_vars PROVE PortInv'
    OBVIOUS
  <1>1. CASE UNCHANGED vars
    BY <1>1 DEF vars, driverVars, eventVars, runVars, treeVars, PortInv, PortTypes
  <1>2. CASE Gui
    BY <1>2, DeviceStateNext, ExportedNext, ReloadNext, MarksNext, CommandsNext DEF Gui
  <1> QED BY <1>1, <1>2, DriverNext DEF Next

\* The window starts without rows.
LEMMA PortsInit == Init => PortInv
  <1> SUFFICES ASSUME Init PROVE PortInv
    OBVIOUS
  <1>1. events = <<>> /\ once = FALSE
    BY DEF Init
  <1>2. \A l : QueueInv(l, events, src)
    BY <1>1 DEF QueueInv, LastTells, FailsAfterStart
  <1>3. PortTypes
    <2>1. src \in [Sources -> SourceType] /\ rows \in [Locs -> RowType]
      BY FreeSourceType, EmptyRows DEF Init
    <2>2. events \in Seq(EventType)
      BY <1>1
    <2>3. doubt \subseteq Locs /\ held \subseteq Locs /\ wloc \in Locs
      BY FreeSourceType DEF Init
    <2>4. subscribed \in BOOLEAN /\ once \in BOOLEAN
      BY DEF Init
    <2>5. (events # <<>> => subscribed) /\ (op # "none" => once)
      BY DEF Init
    <2> QED BY <2>1, <2>2, <2>3, <2>4, <2>5 DEF PortTypes
  <1> QED BY <1>1, <1>2, <1>3 DEF PortInv

\* What waits, what a row shows and what the driver has agree in every behaviour.
THEOREM PortInvariance == Spec => []PortInv
  BY PortsInit, PortsNext, PTL DEF Spec

\* When no event is on its way and the default queue rests, a row shows the port that its
\* device is plugged into, and none if it is not, except the rows in doubt.
THEOREM RowPortAgreesHolds == Spec => []RowPortAgrees
  <1>1. PortInv => RowPortAgrees
    <2> SUFFICES ASSUME PortInv, Drained, NEW l \in Locs \ doubt
                 PROVE  rows[l].port = IF Imported(l) = {} THEN 0 ELSE LastOf(Imported(l))
      BY DEF RowPortAgrees
    <2>1. /\ events = <<>> /\ once /\ rows[l] \in RowType /\ src \in [Sources -> SourceType]
          /\ \A k \in Sources : src[k].st \in {"free", "plugged"}
      BY DEF Drained, PortInv, PortTypes
    <2>2. \A i \in 1 .. Len(events) : events[i].loc # l
      BY <2>1
    <2>3. Settled(rows[l], l, src)
      BY <2>1, <2>2, RowSettles
    <2>4. rows[l].port \in 0 .. NPorts /\ \A k \in Sources : k # 0
      BY <2>1, MainFrameAssumption DEF RowType, Sources
    <2>5. Imported(l) \subseteq {rows[l].port}
      BY <2>1, <2>3 DEF Imported, Settled, Of
    <2>6. CASE Imported(l) = {}
      <3>1. \A k \in Sources : ~Of(src, k, l)
        BY <2>1, <2>6 DEF Imported, Of
      <3> QED BY <3>1, <2>3, <2>6 DEF Settled
    <2>7. CASE Imported(l) # {}
      <3>1. Imported(l) = {rows[l].port}
        BY <2>5, <2>7
      <3>2. LastOf({rows[l].port}) = rows[l].port
        BY <2>4, LastPort
      <3> QED BY <3>1, <3>2, <2>7
    <2> QED BY <2>6, <2>7
  <1> QED BY <1>1, PortInvariance, PTL
=============================================================================
