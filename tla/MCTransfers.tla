----------------------------- MODULE MCTransfers -----------------------------
(***************************************************************************)
(* URBs for Transfers: both directions, every kind of buffer, flags that   *)
(* contradict the direction, packets with and without gaps between them.   *)
(***************************************************************************)
EXTENDS Transfers

Urb(function, out, length, buffer, size) ==
    [function |-> function, out |-> out, length |-> length, buffer |-> buffer, size |-> size,
     flags |-> {"IN"}, ep0 |-> FALSE, wLength |-> 0, serial |-> 0, offsets |-> <<>>]

Bulk(out, length, buffer, size) == Urb("bulk", out, length, buffer, size)
Isoch(out, length, size, offsets) == [Urb("isoch", out, length, "mdl", size) EXCEPT !.offsets = offsets]
Control(out, length, wLength, serial) ==
    [Urb("control", out, length, IF length = 0 THEN "none" ELSE "plain", 0) EXCEPT
        !.wLength = wLength, !.serial = serial, !.flags = {"DEFAULT_PIPE"}, !.ep0 = TRUE]

MCUrbs == {
    Bulk(FALSE, 2, "plain", 0), Bulk(TRUE, 2, "chain", 3), Bulk(FALSE, 3, "chain", 2),
    Bulk(TRUE, 2, "mdl", 1), Bulk(FALSE, 3, "mdl", 2),
    [Bulk(FALSE, 2, "plain", 0) EXCEPT !.flags = {"DEFAULT_PIPE"}],
    Control(TRUE, 0, 0, 0), Control(FALSE, 3, 2, 0), Control(FALSE, 1, 2, 0), Control(FALSE, 3, 3, 4),
    Isoch(FALSE, 3, 3, <<0, 1>>), Isoch(FALSE, 3, 3, <<0, 2>>), Isoch(FALSE, 3, 3, <<1>>),
    Isoch(TRUE, 3, 3, <<0, 2>>), Isoch(TRUE, 2, 2, <<1, 0>>), Isoch(FALSE, 2, 2, <<0, 3>>),
    Isoch(FALSE, 2, 2, <<0, 1, 2>>), Isoch(FALSE, 2, 2, <<>>),
    Urb("none", TRUE, 0, "none", 0), Urb("other", TRUE, 0, "none", 0)}

\* Up to more than a buffer holds, and negative: two are the size of one and of two descriptors.
MCActualLengths == {-32, -16, -1} \cup 0 .. 4

\* Success, EXDEV of an URB and an error that is not in the table; packets only fail
\* with EXDEV, their status decides nothing.
MCStatuses == {0, -18, -115}
MCPacketStatuses == {-18}
=============================================================================
