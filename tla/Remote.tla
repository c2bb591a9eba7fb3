------------------------------- MODULE Remote -------------------------------
(***************************************************************************)
(* usbip::connect(hostname, service, CANCEL_BY_APC) of libusbip, as the    *)
(* steps of the thread that runs it, with the answers of the resolver and  *)
(* of the network and the asynchronous procedure call of QueueUserAPC that *)
(* ends an alertable wait.                                                 *)
(*                                                                         *)
(* The host name and the options of the socket are left out: a conversion  *)
(* or a setsockopt is a step that may fail.  The error code is reduced to  *)
(* what MainFrame::connect tells apart: none, a cancellation, any other.   *)
(***************************************************************************)
EXTENDS Naturals

CONSTANT MaxAddrs       \* the longest list GetAddrInfoEx returns

ASSUME AddrsAssumption == MaxAddrs \in Nat \ {0}

VARIABLES
  conn,                 \* where the thread is, "idle" when nothing is run
  left,                 \* addresses that were not tried yet
  err,                  \* last.error
  apc,                  \* an APC waits for an alertable wait of the thread
  resolver,             \* the request of GetAddrInfoEx
  lost                  \* the APC was used up and the thread goes on

remoteVars == <<conn, left, err, apc, resolver, lost>>

RemoteInit ==
  /\ conn = "idle" /\ left = 0 /\ err = "none"
  /\ apc = FALSE /\ resolver = "none" /\ lost = FALSE

-----------------------------------------------------------------------------
Fail(e) == conn' = "failed" /\ err' = e

(***************************************************************************)
(* The list is there: one address at least.                                *)
(***************************************************************************)
Resolved == conn' = "event" /\ err' = "none" /\ left' \in 1..MaxAddrs

(***************************************************************************)
(* resolve(): conversion of the names, CreateEvent and GetAddrInfoEx.  A   *)
(* numeric address is resolved at once.                                    *)
(***************************************************************************)
resolve ==
  /\ conn = "resolve"
  /\ \/ Fail("other") /\ UNCHANGED <<left, resolver>>
     \/ Resolved /\ UNCHANGED resolver
     \/ conn' = "resolving" /\ resolver' = "pending" /\ UNCHANGED <<left, err>>
  /\ UNCHANGED <<apc, lost>>

(***************************************************************************)
(* The alertable wait of wait_for_resolve ends with the event...           *)
(***************************************************************************)
resolve_answered ==
  /\ conn = "resolving"
  /\ \/ resolver = "ok" /\ Resolved
     \/ resolver = "failed" /\ Fail("other") /\ UNCHANGED left
  /\ UNCHANGED <<apc, resolver, lost>>

(***************************************************************************)
(* ... or with the APC.  GetAddrInfoExCancel fails if the resolver has     *)
(* answered meanwhile: the function returns its error, and nobody frees    *)
(* the list.                                                               *)
(***************************************************************************)
resolve_alerted ==
  /\ conn = "resolving" /\ apc
  /\ apc' = FALSE
  /\ IF resolver = "pending"
       THEN /\ conn' = "cancelling" /\ resolver' = "cancelled"
            /\ UNCHANGED err
       ELSE Fail("other") /\ UNCHANGED resolver
  /\ UNCHANGED <<left, lost>>

(***************************************************************************)
(* The second wait of wait_for_resolve is not alertable.  The request may  *)
(* have been answered before it could be cancelled; then the thread goes   *)
(* on to connect, and there is no APC left to stop it.                     *)
(***************************************************************************)
resolve_cancelled ==
  /\ conn = "cancelling"
  /\ \/ resolver = "stopped" /\ Fail("cancelled") /\ UNCHANGED <<left, lost>>
     \/ resolver = "ok" /\ Resolved /\ lost' = TRUE
  /\ UNCHANGED <<apc, resolver>>

create_event ==
  /\ conn = "event"
  /\ \/ Fail("other")
     \/ conn' = "next" /\ UNCHANGED err
  /\ UNCHANGED <<left, apc, resolver, lost>>

(***************************************************************************)
(* The loop over the addresses.  sock.reset() closes the socket of the     *)
(* address before.                                                         *)
(***************************************************************************)
NextAddress == conn' = "next" /\ left' = left - 1 /\ err' = "other"

\* The call that fails for an address; or connect() has to wait, or does not.
AddressCalls ==
  {"socket", "SIO_KEEPALIVE_VALS", "TCP_NODELAY", "WSAResetEvent", "WSAEventSelect",
   "connect", "at once", "WSAEWOULDBLOCK"}

set_options(how) == how \notin {"SIO_KEEPALIVE_VALS", "TCP_NODELAY"}

prepare_event(how) == how \notin {"WSAResetEvent", "WSAEventSelect"}

try_address ==
  /\ conn = "next"
  /\ IF left = 0
       THEN conn' = "failed" /\ UNCHANGED <<left, err>>
       ELSE \E how \in AddressCalls :
              IF how # "socket" /\ set_options(how) /\ prepare_event(how) /\ how # "connect"
                THEN /\ conn' = IF how = "at once" THEN "unselect" ELSE "connecting"
                     /\ UNCHANGED <<left, err>>
                ELSE NextAddress
  /\ UNCHANGED <<apc, resolver, lost>>

(***************************************************************************)
(* The alertable wait of try_connect.  The network may never answer.       *)
(***************************************************************************)
connect_answered ==
  /\ conn = "connecting"
  /\ \/ NextAddress
     \/ conn' = "unselect" /\ UNCHANGED <<left, err>>
  /\ UNCHANGED <<apc, resolver, lost>>

\* Mutant: the wait for FD_CONNECT is not alertable.
connect_not_alertable == FALSE /\ UNCHANGED remoteVars

connect_alerted ==
  /\ conn = "connecting" /\ apc
  /\ apc' = FALSE
  /\ Fail("cancelled")
  /\ UNCHANGED <<left, resolver, lost>>

(***************************************************************************)
(* WSAEventSelect(0) and set_nonblock(false).                              *)
(***************************************************************************)
make_blocking ==
  /\ conn = "unselect"
  /\ \/ NextAddress
     \/ conn' = "connected" /\ err' = "none" /\ UNCHANGED left
  /\ UNCHANGED <<apc, resolver, lost>>

-----------------------------------------------------------------------------
(***************************************************************************)
(* The resolver answers, or ends a cancelled request; the answer may be on *)
(* its way when the request is cancelled.                                  *)
(***************************************************************************)
ResolverAnswers ==
  /\ resolver = "pending"
  /\ resolver' \in {"ok", "failed"}
  /\ UNCHANGED <<conn, left, err, apc, lost>>

ResolverStops ==
  /\ resolver = "cancelled"
  /\ resolver' \in {"stopped", "ok"}
  /\ UNCHANGED <<conn, left, err, apc, lost>>

(***************************************************************************)
(* What the thread does by itself, and what it waits for.                  *)
(***************************************************************************)
ConnectStep ==
  \/ resolve \/ resolve_answered \/ resolve_alerted \/ resolve_cancelled
  \/ create_event \/ try_address \/ connect_alerted \/ make_blocking

Network == ResolverAnswers \/ connect_answered
=============================================================================
