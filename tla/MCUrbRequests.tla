----------------------------- MODULE MCUrbRequests -----------------------------
(***************************************************************************)
(* UrbRequests for TLC.  The specification treats the handles of Requests   *)
(* alike, so that a behaviour whose first URB arrives with one handle is,   *)
(* up to the names of the handles, a behaviour whose first URB arrives with *)
(* any other.  The constraint keeps those in which it is FirstRequest: it   *)
(* only halves the state space, and unlike SYMMETRY it is sound for the     *)
(* liveness properties too.                                                 *)
(***************************************************************************)
EXTENDS UrbRequests

CONSTANT FirstRequest

ASSUME FirstRequestAssumption == FirstRequest \in Requests

FirstHandle == urbRequest[1] \in {NoRequest, FirstRequest}
================================================================================
