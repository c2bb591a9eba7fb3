----------------------------- MODULE MCUdeFilter -----------------------------
(***************************************************************************)
(* A hub with two children. The device has two configurations, the first   *)
(* with an alternate setting that has another endpoint, and may be         *)
(* unconfigured (no configuration descriptor in the URB, value zero). There *)
(* are two pipe handles, so that one is used again for another address.    *)
(***************************************************************************)
EXTENDS UdeFilter

MCSettings ==
    {[cfg |-> 0, alt |-> 0, addresses |-> {}],
     [cfg |-> 1, alt |-> 0, addresses |-> {1}],
     [cfg |-> 1, alt |-> 1, addresses |-> {1, 2}],
     [cfg |-> 2, alt |-> 0, addresses |-> {2}]}
=============================================================================
