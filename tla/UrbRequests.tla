---------------------------- MODULE UrbRequests ----------------------------
(***************************************************************************)
(* The life of the URBs of one emulated USB device (drivers/ude).          *)
(*                                                                         *)
(* A WDFREQUEST delivered by an endpoint queue is given a sequence number, *)
(* put in device_ctx::requests and sent as CMD_SUBMIT with an asynchronous *)
(* WskSend.  From then on five parties compete to take it out of the list  *)
(* and complete it: the completion routine of the send, the receive thread *)
(* (RET_SUBMIT), the framework's cancel callback, the purge of the         *)
(* endpoint, and the detach of the device.  requests_lock makes each list  *)
(* operation atomic; nothing covers two of them.                           *)
(*                                                                         *)
(* A request handle is a cached object: once completed, the same handle    *)
(* comes back with another URB while the WSK send of the first one may     *)
(* still be outstanding.  URBs are therefore numbered apart from handles.  *)
(***************************************************************************)
EXTENDS Naturals, FiniteSets

CONSTANTS
    Requests,   \* WDFREQUEST handles
    Endpoints,  \* UDECXUSBENDPOINT handles
    Ep0,        \* the default control pipe
    MaxUrbs,    \* bound: number of URBs submitted in a behaviour
    NoRequest   \* WDF_NO_HANDLE

ASSUME ConstantsAssumption ==
    /\ Ep0 \in Endpoints
    /\ MaxUrbs \in Nat \ {0}
    /\ NoRequest \notin Requests

NoUrb == 0
Seqnums == 1..MaxUrbs

(***************************************************************************)
(* Progress of send() and send_complete() for one URB: "built" (header     *)
(* made, not yet in the list), "listed" (append_request done), "inflight"  *)
(* (WskSend accepted), "acked" (and the server has answered: the send      *)
(* cannot fail any more), "refused" (socket closing, the IRP is not        *)
(* completed), "failing" and "unlinking" (send_complete took the request   *)
(* out of the list and is about to complete it), "done".                   *)
(***************************************************************************)
Stages == {"none", "built", "listed", "inflight", "acked", "refused",
           "failing", "unlinking", "done"}

\* State of a request in the framework; "cancelrun": cancel_request removed it.
WdfStates == {"idle", "owned", "cancelable", "canceling", "cancelrun"}

\* How an URB was completed ("none": not yet).
Outcomes == {"none", "gone", "rejected", "answered", "aborted",
             "cancelled", "sendfailed"}

\* Contract violations of the driver that the model records.
Faults == {"stale", "notOwned", "misdirected", "stillCancelable",
           "markNotOwned", "insertTwice"}

PurgeStates == {"started", "loop", "holding", "drained", "purging", "purged"}
DetachStates == {"plugged", "flagged", "closed", "joined", "plugout", "deleted"}
RecvStates == {"header", "payload", "exited"}

VARIABLES
    wdf,       \* framework state of each handle
    cur,       \* the URB a handle stands for, NoUrb when idle
    canceled,  \* handles whose cancellation was asked for (IRP.Cancel)
    ctxSeqnum, ctxEndpoint,  \* request_ctx of each handle, which is not zeroed
    ctxCancelable,           \* when the handle is recycled
    requests,  \* device_ctx::requests
    urbRequest, urbEndpoint, \* handle and endpoint of each URB
    queued,    \* URBs that were delivered by the queue of their endpoint
    stage,     \* per URB: progress of its send
    seqnum,    \* device_ctx::seqnum
    outcome,   \* per URB, how it was completed
    purge,     \* per endpoint, EvtUsbEndpointPurge and the state of its queue
    purgeReq,  \* per endpoint, the request the purge took out of the list
    recv, recvSeqnum, recvReq, \* the receive thread, and the RET_SUBMIT at hand
    detach,    \* device::detach, and deletion of the device
    unlinked,  \* seqnums for which CMD_UNLINK was sent
    faults     \* history: contract violations that happened

wdfVars == <<wdf, cur, canceled>>
ctxVars == <<ctxSeqnum, ctxEndpoint, ctxCancelable>>
urbVars == <<urbRequest, urbEndpoint, queued, seqnum>>
purgeVars == <<purge, purgeReq>>
recvVars == <<recv, recvSeqnum, recvReq>>
threadVars == <<purgeVars, recvVars, detach>>
vars == <<wdfVars, ctxVars, requests, urbVars, stage, outcome, threadVars,
          unlinked, faults>>

unplugged == detach # "plugged"
socketClosing == detach \notin {"plugged", "flagged"}

Init ==
    /\ wdf = [r \in Requests |-> "idle"]
    /\ cur = [r \in Requests |-> NoUrb]
    /\ canceled = {}
    /\ ctxSeqnum = [r \in Requests |-> NoUrb]
    /\ ctxEndpoint = [r \in Requests |-> Ep0]
    /\ ctxCancelable = {}
    /\ requests = {}
    /\ urbRequest = [s \in Seqnums |-> NoRequest]
    /\ urbEndpoint = [s \in Seqnums |-> Ep0]
    /\ queued = {}
    /\ stage = [s \in Seqnums |-> "none"]
    /\ seqnum = 0
    /\ outcome = [s \in Seqnums |-> "none"]
    /\ purge = [e \in Endpoints |-> "started"]
    /\ purgeReq = [e \in Endpoints |-> {}]
    /\ recv = "header"
    /\ recvSeqnum = NoUrb
    /\ recvReq = {}
    /\ detach = "plugged"
    /\ unlinked = {}
    /\ faults = {}

-----------------------------------------------------------------------------
(* The framework, as the driver uses it.                                   *)

IsOwned(r) == cur[r] # NoUrb

\* Requests of an endpoint's queue that the driver has not completed.
DriverOwned(e) ==
    {r \in Requests : IsOwned(r) /\ cur[r] \in queued /\ urbEndpoint[cur[r]] = e}

\* WdfRequestComplete on behalf of URB s: legal only for the owner of a request
\* that is not marked cancelable.
CompletionFaults(r, s) ==
    (IF IsOwned(r) THEN {} ELSE {"notOwned"})
    \cup (IF cur[r] \in {NoUrb, s} THEN {} ELSE {"misdirected"})
    \cup (IF wdf[r] \in {"cancelable", "canceling"} THEN {"stillCancelable"} ELSE {})

complete(r, s, how) ==
    /\ wdf' = [wdf EXCEPT ![r] = "idle"]
    /\ cur' = [cur EXCEPT ![r] = NoUrb]
    /\ canceled' = canceled \ {r}
    /\ outcome' = [u \in Seqnums |-> IF u = cur[r] THEN how ELSE outcome[u]]
    /\ faults' = faults \cup CompletionFaults(r, s)

\* CMD_UNLINK carries the number stored in the request's context.
send_cmd_unlink_and_complete(r, s) ==
    /\ unlinked' = IF unplugged THEN unlinked ELSE unlinked \cup {ctxSeqnum[r]}
    /\ complete(r, s, "cancelled")

\* The upper driver, or the queue being purged, cancels the requests R: those
\* marked cancelable will have their EvtRequestCancel called.
Cancel(R) ==
    /\ canceled' = canceled \cup R
    /\ wdf' = [r \in Requests |->
                 IF r \in R /\ wdf[r] = "cancelable" THEN "canceling" ELSE wdf[r]]

-----------------------------------------------------------------------------
(* Submission: EvtIoInternalDeviceControl of an endpoint queue, at several  *)
(* processors at once, and EvtUsbEndpointReset.                             *)

NewUrb(r, e, fromQueue, how) ==
    LET s == seqnum + 1 IN
    /\ ~IsOwned(r)
    /\ seqnum < MaxUrbs
    /\ detach # "deleted"
    /\ seqnum' = s
    /\ outcome' = [outcome EXCEPT ![s] = how]
    /\ urbRequest' = [urbRequest EXCEPT ![s] = r]
    /\ urbEndpoint' = [urbEndpoint EXCEPT ![s] = e]
    /\ queued' = IF fromQueue THEN queued \cup {s} ELSE queued
    /\ IF how = "none"
         THEN /\ stage' = [stage EXCEPT ![s] = "built"]
              /\ wdf' = [wdf EXCEPT ![r] = "owned"]
              /\ cur' = [cur EXCEPT ![r] = s]
         ELSE UNCHANGED <<stage, wdf, cur>>
    /\ UNCHANGED <<canceled, ctxVars, requests, threadVars, unlinked, faults>>

\* The queue of the default control pipe is sequential, the others parallel.
internal_control(r, e) ==
    /\ purge[e] \notin {"purging", "purged"}
    /\ e = Ep0 => DriverOwned(e) = {}
    /\ \/ unplugged  /\ NewUrb(r, e, TRUE, "gone")
       \/ ~unplugged /\ NewUrb(r, e, TRUE, "rejected")
       \/ ~unplugged /\ NewUrb(r, e, TRUE, "none")

\* A control request the driver makes up; unplugged is not looked at.
send_ep0_out(r) ==
    NewUrb(r, Ep0, FALSE, "rejected") \/ NewUrb(r, Ep0, FALSE, "none")

clear_endpoint_stall(r) == send_ep0_out(r)
reset_port(r) == send_ep0_out(r)

\* The requests of EvtUsbEndpointReset and EvtUsbDeviceReset do not come from the queue
\* of an endpoint.  One that asks to reset all devices is refused at once.
endpoint_reset(r) == detach \notin {"plugout", "deleted"} /\ clear_endpoint_stall(r)
device_reset(r) == detach \notin {"plugout", "deleted"} /\ reset_port(r)

append_request(s) ==
    LET r == urbRequest[s] IN
    /\ stage[s] = "built"
    /\ stage' = [stage EXCEPT ![s] = "listed"]
    /\ ctxSeqnum' = [ctxSeqnum EXCEPT ![r] = s]
    /\ ctxEndpoint' = [ctxEndpoint EXCEPT ![r] = urbEndpoint[s]]
    /\ ctxCancelable' = ctxCancelable \ {r}
    /\ requests' = requests \cup {r}
    /\ faults' = IF r \in requests THEN faults \cup {"insertTwice"} ELSE faults
    /\ UNCHANGED <<wdfVars, urbVars, outcome, threadVars, unlinked>>

\* SOCKET::invoke: after close() has begun the call returns STATUS_NOT_SUPPORTED
\* and the IRP is not completed; send() returns STATUS_PENDING all the same.
WskSend(s) ==
    /\ stage[s] = "listed"
    /\ stage' = [stage EXCEPT ![s] = IF socketClosing THEN "refused" ELSE "inflight"]
    /\ UNCHANGED <<wdfVars, ctxVars, requests, urbVars, outcome, threadVars,
                   unlinked, faults>>

-----------------------------------------------------------------------------
(* send_complete: completion routine of the WSK send IRP.                   *)

WithSeqnum(s) == {r \in requests : ctxSeqnum[r] = s}

\* Mutant of mark_request_cancelable: STATUS_CANCELLED of WdfRequestMarkCancelableEx
\* is ignored, the request stays in the list.
mark_ignores_status(s) ==
    /\ stage' = [stage EXCEPT ![s] = "done"]
    /\ \/ WithSeqnum(s) \subseteq canceled /\ UNCHANGED <<wdf, ctxCancelable>>
       \/ \E r \in WithSeqnum(s) \ canceled :
            /\ wdf' = [wdf EXCEPT ![r] = "cancelable"]
            /\ ctxCancelable' = ctxCancelable \cup {r}
    /\ UNCHANGED <<requests, faults>>

\* Under requests_lock.  WdfRequestMarkCancelableEx fails if the request was
\* cancelled already; it is then out of the list and ours to complete.
mark_request_cancelable(s) ==
    \/ /\ WithSeqnum(s) = {}
       /\ stage' = [stage EXCEPT ![s] = "done"]
       /\ UNCHANGED <<wdf, ctxCancelable, requests, faults>>
    \/ \E r \in WithSeqnum(s) :
         /\ faults' = IF wdf[r] = "owned" THEN faults ELSE faults \cup {"markNotOwned"}
         /\ \/ /\ r \in canceled
               /\ requests' = requests \ {r}
               /\ stage' = [stage EXCEPT ![s] = "unlinking"]
               /\ UNCHANGED <<wdf, ctxCancelable>>
            \/ /\ r \notin canceled
               /\ wdf' = [wdf EXCEPT ![r] = "cancelable"]
               /\ ctxCancelable' = ctxCancelable \cup {r}
               /\ stage' = [stage EXCEPT ![s] = "done"]
               /\ UNCHANGED requests

send_complete_ok(s) ==
    /\ stage[s] \in {"inflight", "acked"}
    /\ mark_request_cancelable(s)
    /\ UNCHANGED <<cur, canceled, ctxSeqnum, ctxEndpoint, urbVars, outcome,
                   threadVars, unlinked>>

\* The failed send looks its request up by handle, not by seqnum.
send_complete_error(s) ==
    LET r == urbRequest[s] IN
    /\ stage[s] = "inflight"
    /\ stage' = [stage EXCEPT ![s] = IF r \in requests THEN "failing" ELSE "done"]
    /\ requests' = requests \ {r}
    /\ faults' = IF r \in requests /\ ctxSeqnum[r] # s
                   THEN faults \cup {"stale"} ELSE faults
    /\ UNCHANGED <<wdfVars, ctxVars, urbVars, outcome, threadVars, unlinked>>

send_complete_finish(s) ==
    LET r == urbRequest[s] IN
    /\ \/ stage[s] = "failing" /\ complete(r, s, "sendfailed") /\ UNCHANGED unlinked
       \/ stage[s] = "unlinking" /\ send_cmd_unlink_and_complete(r, s)
    /\ stage' = [stage EXCEPT ![s] = "done"]
    /\ UNCHANGED <<ctxVars, requests, urbVars, threadVars>>

-----------------------------------------------------------------------------
(* Cancellation.                                                            *)

\* External: an upper driver cancels the URB.
UpperCancel(r) ==
    /\ IsOwned(r)
    /\ r \notin canceled
    /\ Cancel({r})
    /\ UNCHANGED <<cur, ctxVars, requests, urbVars, stage, outcome, threadVars,
                   unlinked, faults>>

\* Mutant of cancel_request: the request is left in the list.
cancel_request_keeps(r) ==
    /\ wdf[r] = "canceling"
    /\ wdf' = [wdf EXCEPT ![r] = "cancelrun"]
    /\ UNCHANGED <<cur, canceled, ctxVars, requests, urbVars, stage, outcome, threadVars,
                   unlinked, faults>>

\* EvtRequestCancel, first half: it may find that a rival removed the request.
cancel_request(r) ==
    /\ wdf[r] = "canceling"
    /\ wdf' = [wdf EXCEPT ![r] = "cancelrun"]
    /\ requests' = requests \ {r}
    /\ UNCHANGED <<cur, canceled, ctxVars, urbVars, stage, outcome, threadVars,
                   unlinked, faults>>

\* Second half, whether or not it was removed here.
cancel_request_finish(r) ==
    /\ wdf[r] = "cancelrun"
    /\ send_cmd_unlink_and_complete(r, ctxSeqnum[r])
    /\ UNCHANGED <<ctxVars, requests, urbVars, stage, threadVars>>

-----------------------------------------------------------------------------
(* remove_request(crit, unmark_cancelable = true), under requests_lock.     *)

\* Mutant of LostToCancel: the result of WdfRequestUnmarkCancelable is ignored.
NeverLost(r) == FALSE

\* WdfRequestUnmarkCancelable returns STATUS_CANCELLED: cancel_request owns it.
LostToCancel(r) == r \in ctxCancelable /\ wdf[r] = "canceling"

Unmark(r) ==
    wdf' = [wdf EXCEPT ![r] = IF r \in ctxCancelable /\ @ = "cancelable" THEN "owned" ELSE @]

OfEndpoint(e) == {r \in requests : ctxEndpoint[r] = e}

-----------------------------------------------------------------------------
(* EvtUsbEndpointPurge, WdfIoQueuePurge and EvtUsbEndpointStart.            *)

endpoint_purge(e) ==
    /\ purge[e] = "started"
    /\ detach # "deleted"
    /\ purge' = [purge EXCEPT ![e] = "loop"]
    /\ UNCHANGED <<wdfVars, ctxVars, requests, urbVars, stage, outcome,
                   purgeReq, recvVars, detach, unlinked, faults>>

\* One remove_request(ENDPOINT): the matches lost to cancel_request that precede
\* the result in the list are removed on the way.
purge_remove(e) ==
    LET lost == {q \in OfEndpoint(e) : LostToCancel(q)} IN
    /\ purge[e] = "loop"
    /\ \/ \E r \in OfEndpoint(e) \ lost, passed \in SUBSET lost :
            /\ requests' = requests \ (passed \cup {r})
            /\ Unmark(r)
            /\ purgeReq' = [purgeReq EXCEPT ![e] = {r}]
            /\ purge' = [purge EXCEPT ![e] = "holding"]
       \/ /\ OfEndpoint(e) = lost
          /\ requests' = requests \ lost
          /\ purge' = [purge EXCEPT ![e] = "drained"]
          /\ UNCHANGED <<wdf, purgeReq>>
    /\ UNCHANGED <<cur, canceled, ctxVars, urbVars, stage, outcome, recvVars,
                   detach, unlinked, faults>>

purge_cancel(e) ==
    /\ purge[e] = "holding"
    /\ \E r \in purgeReq[e] : send_cmd_unlink_and_complete(r, ctxSeqnum[r])
    /\ purge' = [purge EXCEPT ![e] = "loop"]
    /\ purgeReq' = [purgeReq EXCEPT ![e] = {}]
    /\ UNCHANGED <<ctxVars, requests, urbVars, stage, recvVars, detach>>

\* Mutant of queue_purge: WdfIoQueueStop, requests the driver owns are left alone.
queue_stop(e) ==
    /\ purge[e] = "drained"
    /\ purge' = [purge EXCEPT ![e] = "purging"]
    /\ UNCHANGED <<wdfVars, ctxVars, requests, urbVars, stage, outcome, purgeReq,
                   recvVars, detach, unlinked, faults>>

\* WdfIoQueuePurge: the queue stops, what the driver still owns is cancelled.
queue_purge(e) ==
    /\ purge[e] = "drained"
    /\ purge' = [purge EXCEPT ![e] = "purging"]
    /\ Cancel(DriverOwned(e))
    /\ UNCHANGED <<cur, ctxVars, requests, urbVars, stage, outcome, purgeReq,
                   recvVars, detach, unlinked, faults>>

\* The framework calls purge_complete when the driver owns no request of the queue.
purge_complete(e) ==
    /\ purge[e] = "purging"
    /\ DriverOwned(e) = {}
    /\ purge' = [purge EXCEPT ![e] = "purged"]
    /\ UNCHANGED <<wdfVars, ctxVars, requests, urbVars, stage, outcome,
                   purgeReq, recvVars, detach, unlinked, faults>>

endpoint_start(e) ==
    /\ purge[e] = "purged"
    /\ detach \notin {"plugout", "deleted"}
    /\ purge' = [purge EXCEPT ![e] = "started"]
    /\ UNCHANGED <<wdfVars, ctxVars, requests, urbVars, stage, outcome,
                   purgeReq, recvVars, detach, unlinked, faults>>

-----------------------------------------------------------------------------
(* The receive thread.                                                      *)

\* The server has seen CMD_SUBMIT of s, and may answer more than once.
OnTheWire(s) == stage[s] \in {"inflight", "acked", "failing", "unlinking", "done"}

\* recv_usbip_header returned RET_SUBMIT, ret_command looks the request up.
\* RET_UNLINK is read and dropped: it changes nothing here.  A receive that was
\* accepted may still succeed while the socket is being closed.
ret_command(s) ==
    /\ recv = "header"
    /\ OnTheWire(s)
    /\ recv' = "payload"
    /\ recvSeqnum' = s
    /\ \/ /\ WithSeqnum(s) = {}
          /\ recvReq' = {}
          /\ UNCHANGED <<wdf, requests>>
       \/ \E r \in WithSeqnum(s) :
            /\ requests' = requests \ {r}
            /\ recvReq' = IF LostToCancel(r) THEN {} ELSE {r}
            /\ IF LostToCancel(r) THEN UNCHANGED wdf ELSE Unmark(r)
    /\ stage' = [stage EXCEPT ![s] = IF @ = "inflight" THEN "acked" ELSE @]
    /\ UNCHANGED <<cur, canceled, ctxVars, urbVars, outcome, purgeVars, detach,
                   unlinked, faults>>

\* The rest of an iteration: the payload is received, drained, or skipped when
\* the device is unplugged, then the request is completed.
recv_payload(failed) ==
    /\ recv = "payload"
    /\ \/ /\ recvReq = {}
          /\ UNCHANGED <<wdfVars, outcome, faults>>
       \/ \E r \in recvReq :
            complete(r, recvSeqnum, IF failed THEN "aborted" ELSE "answered")
    /\ recv' = IF failed \/ unplugged THEN "exited" ELSE "header"
    /\ recvSeqnum' = NoUrb
    /\ recvReq' = {}
    /\ UNCHANGED <<ctxVars, requests, urbVars, stage, purgeVars, detach,
                   unlinked>>

\* recv_usbip_header failed (closed, reset, malformed header), or the loop saw
\* the flag; the thread leaves recv_loop.
recv_exit ==
    /\ recv = "header"
    /\ recv' = "exited"
    /\ UNCHANGED <<wdfVars, ctxVars, requests, urbVars, stage, outcome,
                   purgeVars, recvSeqnum, recvReq, detach, unlinked, faults>>

-----------------------------------------------------------------------------
(* device::detach and the deletion of the device.                           *)

DetachStep(from, to) ==
    /\ detach = from
    /\ detach' = to
    /\ UNCHANGED <<wdfVars, ctxVars, requests, urbVars, stage, outcome,
                   purgeVars, recvVars, unlinked, faults>>

set_unplugged == DetachStep("plugged", "flagged")
close_socket == DetachStep("flagged", "closed")

\* KeWaitForSingleObject returns when the receive thread has ended, or after a minute; the
\* detach goes on in either case, so the thread may outlive all that follows.
recv_thread_join == DetachStep("closed", "joined")
plugout_and_delete == DetachStep("joined", "plugout")

\* UDE destroys the device when its endpoints are purged and the driver owns no
\* request.
device_cleanup ==
    /\ \A e \in Endpoints : purge[e] = "purged"
    /\ \A r \in Requests : ~IsOwned(r)
    /\ DetachStep("plugout", "deleted")

-----------------------------------------------------------------------------
SubmitNext == \E r \in Requests :
    (\E e \in Endpoints : internal_control(r, e)) \/ endpoint_reset(r) \/ device_reset(r)

SendNext == \E s \in Seqnums :
    \/ append_request(s)
    \/ WskSend(s)
    \/ send_complete_ok(s)
    \/ send_complete_error(s)
    \/ send_complete_finish(s)

CancelNext == \E r \in Requests :
    UpperCancel(r) \/ cancel_request(r) \/ cancel_request_finish(r)

PurgeNext == \E e \in Endpoints :
    \/ endpoint_purge(e)
    \/ purge_remove(e)
    \/ purge_cancel(e)
    \/ queue_purge(e)
    \/ purge_complete(e)
    \/ endpoint_start(e)

RecvNext ==
    \/ \E s \in Seqnums : ret_command(s)
    \/ \E failed \in BOOLEAN : recv_payload(failed)
    \/ recv_exit

DetachNext == set_unplugged \/ close_socket \/ recv_thread_join
              \/ plugout_and_delete \/ device_cleanup

Next == SubmitNext \/ SendNext \/ CancelNext \/ PurgeNext \/ RecvNext \/ DetachNext

Spec == Init /\ [][Next]_vars

(***************************************************************************)
(* Fairness.  Driver code that has been entered runs to its end; WSK       *)
(* completes every send it accepted; the framework calls the cancel        *)
(* callback of a cancelled request and finishes a purge once the driver    *)
(* owns nothing; a receive on a closed socket returns; a header that was   *)
(* sent is followed by its payload or by an error; UDE purges the          *)
(* endpoints of a device that was plugged out.  Nothing is assumed of the  *)
(* server (it need never answer) nor of the upper drivers.                 *)
(***************************************************************************)
Fairness ==
    /\ \A s \in Seqnums :
         /\ WF_vars(append_request(s) \/ WskSend(s) \/ send_complete_finish(s))
         /\ WF_vars(send_complete_ok(s) \/ send_complete_error(s))
    /\ \A r \in Requests : WF_vars(cancel_request(r) \/ cancel_request_finish(r))
    /\ \A e \in Endpoints :
         /\ WF_vars(purge_remove(e) \/ purge_cancel(e) \/ queue_purge(e))
         /\ WF_vars(purge_complete(e))
         /\ WF_vars(detach = "plugout" /\ endpoint_purge(e))
    /\ WF_vars(\E failed \in BOOLEAN : recv_payload(failed))
    /\ WF_vars(socketClosing /\ recv_exit)
    /\ WF_vars(close_socket \/ recv_thread_join \/ plugout_and_delete \/ device_cleanup)

FairSpec == Spec /\ Fairness

-----------------------------------------------------------------------------
(* Properties.                                                              *)

\* Type invariant of the state declared in context.h.
TypeOK ==
    /\ wdf \in [Requests -> WdfStates]
    /\ cur \in [Requests -> Seqnums \cup {NoUrb}]
    /\ canceled \in SUBSET Requests
    /\ ctxSeqnum \in [Requests -> Seqnums \cup {NoUrb}]
    /\ ctxEndpoint \in [Requests -> Endpoints]
    /\ ctxCancelable \in SUBSET Requests
    /\ requests \in SUBSET Requests
    /\ urbRequest \in [Seqnums -> Requests \cup {NoRequest}]
    /\ urbEndpoint \in [Seqnums -> Endpoints]
    /\ queued \in SUBSET Seqnums
    /\ stage \in [Seqnums -> Stages]
    /\ \A s \in Seqnums : stage[s] # "none" => urbRequest[s] \in Requests
    /\ seqnum \in 0..MaxUrbs
    /\ outcome \in [Seqnums -> Outcomes]
    /\ purge \in [Endpoints -> PurgeStates]
    /\ purgeReq \in [Endpoints -> SUBSET Requests]
    /\ recv \in RecvStates
    /\ recvSeqnum \in Seqnums \cup {NoUrb}
    /\ recvReq \in SUBSET Requests
    /\ detach \in DetachStates
    /\ unlinked \in SUBSET (Seqnums \cup {NoUrb})
    /\ faults \in SUBSET Faults

\* No failed send has been applied to an URB other than its own.
NoStaleSend == "stale" \notin faults

\* Whatever the order of send_complete, RET_SUBMIT, cancel_request and
\* endpoint_purge, a request is completed only by its owner, once, for the URB it
\* stands for and never while marked cancelable; it is marked cancelable only
\* while owned; and it is never linked twice in device_ctx::requests.
FrameworkContract == NoStaleSend => faults = {}

\* device_ctx::requests holds only requests the driver still owns, and the
\* request_ctx of each describes the URB it stands for: no entry is left behind
\* by a completion (the entry is embedded in the request's own context).
ListedRequestsAreLive ==
    NoStaleSend => \A r \in requests : IsOwned(r) /\ ctxSeqnum[r] = cur[r]

\* An URB whose RET_SUBMIT was delivered to the upper driver is not also
\* unlinked at the server (comment above send_cmd_unlink_and_complete).
AnsweredIsNotUnlinked ==
    NoStaleSend => \A s \in Seqnums : outcome[s] = "answered" => s \notin unlinked

\* The assertion of device_cleanup: when the device is destroyed no request is in its list;
\* nor does a purge hold one, or a receive thread that recv_thread_join gave up on: each
\* completion took its request out of the list, or had it from one who did.
CleanupAssertions ==
    NoStaleSend /\ detach = "deleted" =>
        requests = {} /\ recvReq = {} /\ \A e \in Endpoints : purgeReq[e] = {}

Completed(s) == outcome[s] # "none"

\* WskSend was refused by the closing socket.
Refused(s) == stage[s] = "refused"

\* A cancelled URB is eventually completed, whichever party holds it, unless
\* its send was refused by the closing socket.
CancelledUrbCompletes ==
    \A s \in Seqnums :
        (\E r \in Requests : cur[r] = s /\ r \in canceled)
            ~> (Completed(s) \/ Refused(s) \/ ~NoStaleSend)

\* Detaching the device eventually completes every URB of its endpoint queues,
\* unless its send was refused by the closing socket.
DetachCompletesUrbs ==
    \A s \in Seqnums :
        (unplugged /\ s \in queued)
            ~> (Completed(s) \/ Refused(s) \/ ~NoStaleSend)

-----------------------------------------------------------------------------
(***************************************************************************)
(* The inductive invariant behind the safety properties.  A request the    *)
(* driver owns has exactly one holder: the thread that dispatches or       *)
(* completes its send, the list, the purge of an endpoint, the receive     *)
(* thread, or the cancel callback.                                         *)
(***************************************************************************)

\* Numbers not handed out yet.
FreshUrbs ==
    \A s \in Seqnums : s > seqnum =>
        stage[s] = "none" /\ outcome[s] = "none" /\ s \notin unlinked

\* A handle in use stands for one URB, which is not complete.
OwnedUrbs ==
    \A r \in Requests :
        /\ IsOwned(r) <=> wdf[r] # "idle"
        /\ IsOwned(r) => /\ urbRequest[cur[r]] = r
                         /\ stage[cur[r]] # "none"
                         /\ outcome[cur[r]] = "none"

\* Held by internal_control or by send_complete.
HeldBySender ==
    \A s \in Seqnums : stage[s] \in {"built", "failing", "unlinking"} =>
        LET r == urbRequest[s] IN
        /\ r \in Requests /\ cur[r] = s /\ wdf[r] = "owned" /\ r \notin requests
        /\ stage[s] # "built" => ctxSeqnum[r] = s

SentStages == {"listed", "inflight", "acked", "refused", "done"}

\* The context of a handle describes its URB from append_request on.
CtxDescribesUrb(r) ==
    /\ IsOwned(r)
    /\ ctxSeqnum[r] = cur[r]
    /\ stage[cur[r]] \in SentStages

HeldByList ==
    \A r \in requests :
        /\ CtxDescribesUrb(r)
        /\ wdf[r] # "cancelrun"
        /\ r \in ctxCancelable <=> wdf[r] \in {"cancelable", "canceling"}
        /\ wdf[r] # "owned" => stage[cur[r]] = "done"

HeldByPurge ==
    \A e \in Endpoints : \A r \in purgeReq[e] :
        /\ purge[e] = "holding"
        /\ CtxDescribesUrb(r) /\ wdf[r] = "owned" /\ r \notin requests
        /\ r \notin recvReq
        /\ \A f \in Endpoints : r \in purgeReq[f] => f = e

HeldByRecv ==
    \A r \in recvReq :
        /\ recv = "payload"
        /\ CtxDescribesUrb(r) /\ wdf[r] = "owned" /\ r \notin requests
        /\ recvSeqnum = cur[r]

HeldByCancel ==
    \A r \in Requests :
        /\ wdf[r] = "cancelable" => r \in requests
        /\ wdf[r] \in {"canceling", "cancelrun"} =>
             CtxDescribesUrb(r) /\ stage[cur[r]] = "done"

OneRequestAtATime ==
    /\ \A e \in Endpoints : \A r, q \in purgeReq[e] : r = q
    /\ \A r, q \in recvReq : r = q

UnlinkedAreCancelled ==
    \A s \in unlinked : s \in Seqnums /\ outcome[s] = "cancelled"

DetachPhases ==
    detach = "deleted" => \A r \in Requests : ~IsOwned(r)

Custody ==
    /\ faults = {}
    /\ FreshUrbs
    /\ OwnedUrbs
    /\ HeldBySender
    /\ HeldByList
    /\ HeldByPurge
    /\ HeldByRecv
    /\ HeldByCancel
    /\ OneRequestAtATime
    /\ UnlinkedAreCancelled
    /\ DetachPhases

\* What is inductive: every request has one holder, as long as no stale send was
\* applied (send_complete, request_list.cpp, endpoint_purge and ret_command).
IInv == TypeOK /\ (NoStaleSend => Custody)
-----------------------------------------------------------------------------
(* The converse of Custody: no request the driver owns is without a holder. *)

\* In device_ctx::requests.  Until its send completes (never, when WskSend was refused)
\* a cancellation is only noted; from then on it is delivered to cancel_request at once.
ListedAndReachable(r) ==
    /\ r \in requests
    /\ stage[cur[r]] = "done" => wdf[r] = "cancelable" /\ r \notin canceled

HasHolder(r) ==
    \/ stage[cur[r]] \in {"built", "failing", "unlinking"}
    \/ ListedAndReachable(r)
    \/ \E e \in Endpoints : r \in purgeReq[e]
    \/ r \in recvReq
    \/ wdf[r] \in {"canceling", "cancelrun"}

\* No request is orphaned: whatever the order of send_complete, RET_SUBMIT,
\* cancel_request and endpoint_purge, each one that internal_control or a reset took
\* and that is not complete is held by the thread that sends it, the purge, the receive
\* thread or the cancel callback, or it is in the list; and one whose cancellation was
\* asked for is not left in the list by a send_complete that is over.  This is the part of
\* CancelledUrbCompletes and DetachCompletesUrbs that does not depend on fairness.
NoOrphans == NoStaleSend => \A r \in Requests : IsOwned(r) => HasHolder(r)
-----------------------------------------------------------------------------
(* The abstract specification.                                              *)

Holder(r) ==
    IF ~NoStaleSend THEN "undefined"
    ELSE IF ~IsOwned(r) THEN "none"
    ELSE IF stage[cur[r]] \in {"built", "failing", "unlinking"} THEN "sender"
    ELSE IF wdf[r] \in {"canceling", "cancelrun"} THEN "canceller"
    ELSE IF ListedAndReachable(r) THEN "list"
    ELSE IF r \in recvReq THEN "receiver"
    ELSE IF \E e \in Endpoints : r \in purgeReq[e] THEN "purge"
    ELSE "nobody"

Holding == INSTANCE UrbCustody WITH holder <- [r \in Requests |-> Holder(r)]

\* The five parties that compete for a request implement the hand-over of UrbCustody: each
\* gets it from the one that had it, and only its holder completes it.
ImplementsCustody == Holding!Spec
=============================================================================
