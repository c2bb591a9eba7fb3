--------------------------- MODULE MCDeviceEvents ---------------------------
(***************************************************************************)
(* Model of DeviceEvents for TLC: file objects are interchangeable, and so *)
(* are the threads that post events.                                       *)
(***************************************************************************)
EXTENDS DeviceEvents, TLC

EventSymmetry == Permutations(Files) \cup Permutations(Posters)
=============================================================================
