------------------------- MODULE UrbRequestsProofs -------------------------
(***************************************************************************)
(* Proofs about UrbRequests for any number of handles, endpoints and URBs. *)
(***************************************************************************)
EXTENDS UrbRequests, TLAPS

\* The initial state is well typed.
LEMMA TypeInit == Init => TypeOK
  BY ConstantsAssumption
  DEF Init, TypeOK, WdfStates, Seqnums, NoUrb, Stages, Outcomes, PurgeStates,
      RecvStates, DetachStates, Faults

\* Completing a request keeps the framework's state well typed.
LEMMA CompleteType ==
  ASSUME TypeOK, NEW r, NEW s, NEW how \in Outcomes, complete(r, s, how)
  PROVE  /\ wdf' \in [Requests -> WdfStates]
         /\ cur' \in [Requests -> Seqnums \cup {NoUrb}]
         /\ canceled' \in SUBSET Requests
         /\ outcome' \in [Seqnums -> Outcomes]
         /\ faults' \in SUBSET Faults
  <1>1. wdf' \in [Requests -> WdfStates] /\ cur' \in [Requests -> Seqnums \cup {NoUrb}]
    BY DEF TypeOK, complete, WdfStates
  <1>2. canceled' \in SUBSET Requests /\ outcome' \in [Seqnums -> Outcomes]
    BY DEF TypeOK, complete
  <1>3. CompletionFaults(r, s) \subseteq Faults
    BY DEF CompletionFaults, Faults
  <1>4. faults' \in SUBSET Faults
    BY <1>3 DEF TypeOK, complete
  <1> QED BY <1>1, <1>2, <1>4

\* Accepting a new URB keeps the state well typed.
LEMMA NewUrbType ==
  ASSUME TypeOK, NEW r \in Requests, NEW e \in Endpoints, NEW q \in BOOLEAN,
         NEW how \in Outcomes, NewUrb(r, e, q, how)
  PROVE  TypeOK'
  <1> DEFINE s == seqnum + 1
  <1>1. s \in Seqnums /\ s \in 0..MaxUrbs
    BY ConstantsAssumption DEF NewUrb, TypeOK, Seqnums
  <1> HIDE DEF s
  <1>2. seqnum' = s
    BY DEF NewUrb, s
  <1>3. seqnum' \in 0..MaxUrbs /\ outcome' \in [Seqnums -> Outcomes]
    BY <1>1, <1>2 DEF NewUrb, TypeOK, s
  <1>4. /\ urbRequest' = [urbRequest EXCEPT ![s] = r]
        /\ urbEndpoint' = [urbEndpoint EXCEPT ![s] = e]
        /\ queued' = IF q THEN queued \cup {s} ELSE queued
        /\ stage' = [stage EXCEPT ![s] = "built"] \/ stage' = stage
    BY DEF NewUrb, s
  <1>5. /\ urbRequest' \in [Seqnums -> Requests \cup {NoRequest}]
        /\ urbEndpoint' \in [Seqnums -> Endpoints]
        /\ queued' \in SUBSET Seqnums
        /\ stage' \in [Seqnums -> Stages]
    BY <1>1, <1>4 DEF TypeOK, Stages
  <1>6. \A u \in Seqnums : stage'[u] # "none" => urbRequest'[u] \in Requests
    BY <1>1, <1>4 DEF TypeOK
  <1>7. wdf' \in [Requests -> WdfStates] /\ cur' \in [Requests -> Seqnums \cup {NoUrb}]
    BY <1>1 DEF NewUrb, TypeOK, WdfStates, s
  <1>8. UNCHANGED <<canceled, ctxVars, requests, threadVars, unlinked, faults>>
    BY DEF NewUrb
  <1> QED
    BY <1>3, <1>5, <1>6, <1>7, <1>8
    DEF TypeOK, ctxVars, threadVars, purgeVars, recvVars

\* Every handler keeps the state well typed.
LEMMA TypeNext == TypeOK /\ [Next]_vars => TypeOK'
  <1> SUFFICES ASSUME TypeOK, [Next]_vars PROVE TypeOK'
    OBVIOUS
  <1> USE ConstantsAssumption
      DEF TypeOK, WdfStates, Seqnums, NoUrb, Stages, Outcomes, PurgeStates,
          RecvStates, DetachStates, Faults, wdfVars, ctxVars, urbVars, purgeVars,
          recvVars, threadVars, unplugged
  <1>1. ASSUME NEW r \in Requests, NEW e \in Endpoints, internal_control(r, e)
        PROVE  TypeOK'
    BY <1>1, NewUrbType DEF internal_control
  <1>2. ASSUME NEW r \in Requests, endpoint_reset(r) \/ device_reset(r) PROVE TypeOK'
    BY <1>2, NewUrbType DEF endpoint_reset, device_reset, clear_endpoint_stall, reset_port,
       send_ep0_out
  <1>3. ASSUME NEW s \in Seqnums, append_request(s) PROVE TypeOK'
    BY <1>3 DEF append_request
  <1>4. ASSUME NEW s \in Seqnums, WskSend(s) PROVE TypeOK'
    BY <1>4 DEF WskSend
  <1>5. ASSUME NEW s \in Seqnums, send_complete_ok(s) PROVE TypeOK'
    <2>1. /\ stage' \in [Seqnums -> Stages]
          /\ \A u \in Seqnums : stage'[u] # "none" => stage[u] # "none"
      BY <1>5 DEF send_complete_ok, mark_request_cancelable
    <2>2. wdf' \in [Requests -> WdfStates]
      BY <1>5 DEF send_complete_ok, mark_request_cancelable, WithSeqnum
    <2>3. requests' \in SUBSET Requests /\ ctxCancelable' \in SUBSET Requests
      BY <1>5 DEF send_complete_ok, mark_request_cancelable, WithSeqnum
    <2>4. faults' = faults \/ faults' = faults \cup {"markNotOwned"}
      BY <1>5 DEF send_complete_ok, mark_request_cancelable
    <2>5. faults' \in SUBSET Faults
      BY <2>4
    <2> QED
      BY <1>5, <2>1, <2>2, <2>3, <2>5 DEF send_complete_ok
  <1>6. ASSUME NEW s \in Seqnums, send_complete_error(s) PROVE TypeOK'
    BY <1>6 DEF send_complete_error
  <1>7. ASSUME NEW s \in Seqnums, send_complete_finish(s) PROVE TypeOK'
    <2> DEFINE r == urbRequest[s]
    <2>1. /\ stage' \in [Seqnums -> Stages]
          /\ \A u \in Seqnums : stage'[u] # "none" => stage[u] # "none"
          /\ UNCHANGED <<ctxVars, requests, urbVars, threadVars>>
          /\ r \in Requests
      BY <1>7 DEF send_complete_finish
    <2>2. CASE complete(r, s, "sendfailed") /\ UNCHANGED unlinked
      <3>1. "sendfailed" \in Outcomes OBVIOUS
      <3> QED BY <2>1, <2>2, <3>1, CompleteType
    <2>3. CASE send_cmd_unlink_and_complete(r, s)
      <3>1. "cancelled" \in Outcomes OBVIOUS
      <3>2. complete(r, s, "cancelled")
        BY <2>3 DEF send_cmd_unlink_and_complete
      <3>3. unlinked' \in SUBSET (Seqnums \cup {NoUrb})
        BY <2>1, <2>3 DEF send_cmd_unlink_and_complete
      <3> QED BY <2>1, <3>1, <3>2, <3>3, CompleteType
    <2> QED
      BY <1>7, <2>2, <2>3 DEF send_complete_finish
  <1>8. ASSUME NEW r \in Requests, UpperCancel(r) PROVE TypeOK'
    BY <1>8 DEF UpperCancel, Cancel
  <1>9. ASSUME NEW r \in Requests, cancel_request(r) PROVE TypeOK'
    BY <1>9 DEF cancel_request
  <1>10. ASSUME NEW r \in Requests, cancel_request_finish(r) PROVE TypeOK'
    BY <1>10, CompleteType DEF cancel_request_finish, send_cmd_unlink_and_complete
  <1>11. ASSUME NEW e \in Endpoints, endpoint_purge(e) PROVE TypeOK'
    BY <1>11 DEF endpoint_purge
  <1>12. ASSUME NEW e \in Endpoints, purge_remove(e) PROVE TypeOK'
    <2>1. /\ requests' \in SUBSET Requests
          /\ purge' \in [Endpoints -> PurgeStates]
          /\ UNCHANGED <<cur, canceled, ctxVars, urbVars, stage, outcome, recvVars,
                         detach, unlinked, faults>>
      BY <1>12 DEF purge_remove
    <2>2. CASE UNCHANGED <<wdf, purgeReq>>
      BY <2>1, <2>2
    <2>3. CASE \E r \in OfEndpoint(e) : Unmark(r) /\ purgeReq' = [purgeReq EXCEPT ![e] = {r}]
      <3>1. PICK r \in Requests : Unmark(r) /\ purgeReq' = [purgeReq EXCEPT ![e] = {r}]
        BY <2>3 DEF OfEndpoint
      <3>2. wdf' \in [Requests -> WdfStates]
        BY <3>1 DEF Unmark
      <3> QED
        BY <2>1, <3>1, <3>2
    <2> QED
      BY <1>12, <2>2, <2>3 DEF purge_remove
  <1>13. ASSUME NEW e \in Endpoints, purge_cancel(e) PROVE TypeOK'
    <2>1. PICK r \in purgeReq[e] : send_cmd_unlink_and_complete(r, ctxSeqnum[r])
      BY <1>13 DEF purge_cancel
    <2>2. r \in Requests /\ unlinked' \in SUBSET (Seqnums \cup {NoUrb})
      BY <2>1 DEF send_cmd_unlink_and_complete
    <2>3. complete(r, ctxSeqnum[r], "cancelled")
      BY <2>1 DEF send_cmd_unlink_and_complete
    <2> QED
      BY <1>13, <2>2, <2>3, CompleteType DEF purge_cancel
  <1>14. ASSUME NEW e \in Endpoints, queue_purge(e) PROVE TypeOK'
    BY <1>14 DEF queue_purge, Cancel, DriverOwned
  <1>15. ASSUME NEW e \in Endpoints, purge_complete(e) PROVE TypeOK'
    BY <1>15 DEF purge_complete
  <1>16. ASSUME NEW e \in Endpoints, endpoint_start(e) PROVE TypeOK'
    BY <1>16 DEF endpoint_start
  <1>17. ASSUME NEW s \in Seqnums, ret_command(s) PROVE TypeOK'
    <2>1. /\ stage' \in [Seqnums -> Stages]
          /\ \A u \in Seqnums : stage'[u] # "none" => stage[u] # "none"
      BY <1>17 DEF ret_command
    <2>2. requests' \in SUBSET Requests /\ recvReq' \in SUBSET Requests
      BY <1>17 DEF ret_command, WithSeqnum
    <2>3. wdf' \in [Requests -> WdfStates]
      BY <1>17 DEF ret_command, Unmark, WithSeqnum
    <2> QED
      BY <1>17, <2>1, <2>2, <2>3 DEF ret_command
  <1>18. ASSUME NEW failed \in BOOLEAN, recv_payload(failed) PROVE TypeOK'
    <2>1. CASE recvReq = {} /\ UNCHANGED <<wdfVars, outcome, faults>>
      BY <1>18, <2>1 DEF recv_payload
    <2>2. CASE \E r \in recvReq :
                 complete(r, recvSeqnum, IF failed THEN "aborted" ELSE "answered")
      <3> DEFINE how == IF failed THEN "aborted" ELSE "answered"
      <3>1. PICK r \in recvReq : complete(r, recvSeqnum, how)
        BY <2>2
      <3>2. how \in Outcomes OBVIOUS
      <3> HIDE DEF how
      <3> QED
        BY <1>18, <3>1, <3>2, CompleteType DEF recv_payload
    <2> QED
      BY <1>18, <2>1, <2>2 DEF recv_payload
  <1>19. CASE recv_exit
    BY <1>19 DEF recv_exit
  <1>20. CASE DetachNext
    BY <1>20 DEF DetachNext, set_unplugged, close_socket, recv_thread_join,
       plugout_and_delete, device_cleanup, DetachStep
  <1>21. CASE UNCHANGED vars
    BY <1>21 DEF vars
  <1> HIDE DEF TypeOK, Seqnums, Custody
  <1> QED
    BY <1>1, <1>2, <1>3, <1>4, <1>5, <1>6, <1>7, <1>8, <1>9, <1>10, <1>11, <1>12,
       <1>13, <1>14, <1>15, <1>16, <1>17, <1>18, <1>19, <1>20, <1>21
    DEF Next, SubmitNext, SendNext, CancelNext, PurgeNext, RecvNext

-----------------------------------------------------------------------------
(***************************************************************************)
(* Custody is inductive as long as no stale send is applied.  One lemma    *)
(* per operation that hands a request from one holder to another; the      *)
(* operations that only advance a thread are dealt with in CustodyNext.    *)
(***************************************************************************)

\* WdfRequestComplete by the only holder of a request breaks no rule.
LEMMA CompletionIsLegal ==
  ASSUME NEW r, NEW s, cur[r] = s, s # NoUrb, wdf[r] \in {"owned", "cancelrun"}
  PROVE  CompletionFaults(r, s) = {}
  BY DEF CompletionFaults, IsOwned, NoUrb

\* A request delivered by a queue, or by EvtUsbEndpointReset, is held by send().
LEMMA NewUrbCustody ==
  ASSUME TypeOK, TypeOK', Custody, NEW r \in Requests, NEW e \in Endpoints,
         NEW q \in BOOLEAN, NEW how \in Outcomes, NewUrb(r, e, q, how)
  PROVE  Custody'
  <1> USE ConstantsAssumption
      DEF TypeOK, Custody, Seqnums, NoUrb, IsOwned, CtxDescribesUrb, SentStages,
          NewUrb, ctxVars, purgeVars, recvVars, threadVars
  <1>1. faults' = {} /\ FreshUrbs'
    BY DEF FreshUrbs
  <1>2. \A p \in Requests : cur[p] # seqnum + 1
    BY DEF FreshUrbs, OwnedUrbs
  <1>3. OwnedUrbs'
    <2>1. CASE how = "none"
      BY <1>2, <2>1 DEF OwnedUrbs, FreshUrbs
    <2>2. CASE how # "none"
      BY <1>2, <2>2 DEF OwnedUrbs, FreshUrbs
    <2> QED BY <2>1, <2>2
  <1>4. HeldBySender'
    <2>1. r \notin requests /\ cur[r] = NoUrb
      BY DEF HeldByList
    <2>2. CASE how = "none"
      BY <2>1, <2>2 DEF HeldBySender, FreshUrbs
    <2>3. CASE how # "none"
      BY <2>1, <2>3 DEF HeldBySender, FreshUrbs
    <2> QED BY <2>2, <2>3
  <1>5. HeldByList'
    BY DEF HeldByList, OwnedUrbs, FreshUrbs
  <1>6. HeldByPurge' /\ HeldByRecv'
    <2>1. /\ UNCHANGED <<purge, purgeReq, recv, recvSeqnum, recvReq, requests, ctxSeqnum>>
          /\ \A p \in Requests : cur[p] # NoUrb =>
                cur'[p] = cur[p] /\ wdf'[p] = wdf[p] /\ stage'[cur[p]] = stage[cur[p]]
      BY <1>2
    <2> QED BY <2>1 DEF HeldByPurge, HeldByRecv
  <1>7. HeldByCancel'
    BY DEF HeldByCancel, OwnedUrbs, FreshUrbs
  <1>8. OneRequestAtATime' /\ UnlinkedAreCancelled' /\ DetachPhases'
    BY DEF OneRequestAtATime, UnlinkedAreCancelled, DetachPhases, FreshUrbs
  <1> QED BY <1>1, <1>3, <1>4, <1>5, <1>6, <1>7, <1>8

\* A send that succeeded leaves its request in the list, or takes it out when it
\* was cancelled meanwhile.
LEMMA MarkCustody ==
  ASSUME TypeOK, TypeOK', Custody, NEW s \in Seqnums, send_complete_ok(s)
  PROVE  Custody'
  <1> USE ConstantsAssumption
      DEF TypeOK, Custody, Seqnums, NoUrb, IsOwned, CtxDescribesUrb, SentStages,
          send_complete_ok, mark_request_cancelable, WithSeqnum, urbVars, purgeVars,
          recvVars, threadVars
  <1>1. faults' = {} /\ FreshUrbs'
    BY DEF HeldByList, HeldByCancel, OwnedUrbs, FreshUrbs
  <1>2. OwnedUrbs'
    BY DEF OwnedUrbs, HeldByList
  <1>3. HeldBySender'
    BY DEF HeldBySender, OwnedUrbs, HeldByList, HeldByCancel
  <1>4. HeldByList'
    BY DEF HeldByList, OwnedUrbs, HeldByCancel
  <1>5. HeldByPurge'
    BY DEF HeldByPurge, HeldByList, HeldByCancel, OwnedUrbs
  <1>6. HeldByRecv'
    BY DEF HeldByRecv, HeldByList, HeldByCancel, OwnedUrbs
  <1>7. HeldByCancel'
    BY DEF HeldByCancel, HeldByList, OwnedUrbs
  <1>8. OneRequestAtATime' /\ UnlinkedAreCancelled' /\ DetachPhases'
    BY DEF OneRequestAtATime, UnlinkedAreCancelled, DetachPhases
  <1> QED BY <1>1, <1>2, <1>3, <1>4, <1>5, <1>6, <1>7, <1>8

\* send_complete completes the request it took out of the list.
LEMMA SendFinishCustody ==
  ASSUME TypeOK, TypeOK', Custody, NEW s \in Seqnums, send_complete_finish(s)
  PROVE  Custody'
  <1> USE ConstantsAssumption DEF TypeOK, Custody, Seqnums, NoUrb, IsOwned
  <1> DEFINE r == urbRequest[s]
  <1>1. /\ r \in Requests /\ cur[r] = s /\ ctxSeqnum[r] = s /\ wdf[r] = "owned"
        /\ r \notin requests /\ stage[s] \notin SentStages /\ stage[s] # "none"
    BY DEF send_complete_finish, HeldBySender, SentStages
  <1>2. r \notin recvReq /\ \A e \in Endpoints : r \notin purgeReq[e]
    BY <1>1 DEF HeldByPurge, HeldByRecv, CtxDescribesUrb
  <1>3. outcome[s] = "none" /\ s <= seqnum
    BY <1>1 DEF OwnedUrbs, FreshUrbs
  <1>4. PICK how : complete(r, s, how) /\ (how = "cancelled" \/ unlinked' = unlinked)
    BY DEF send_complete_finish, send_cmd_unlink_and_complete
  <1>5. /\ stage' = [stage EXCEPT ![s] = "done"]
        /\ unlinked' \subseteq unlinked \cup {s}
        /\ UNCHANGED <<ctxVars, requests, urbVars, threadVars>>
    BY <1>1 DEF send_complete_finish, send_cmd_unlink_and_complete, unplugged
  <1>6. /\ wdf' = [wdf EXCEPT ![r] = "idle"] /\ cur' = [cur EXCEPT ![r] = NoUrb]
        /\ outcome' = [u \in Seqnums |-> IF u = s THEN how ELSE outcome[u]]
    BY <1>1, <1>4 DEF complete
  <1>7. faults' = {}
    <2>1. s # NoUrb /\ wdf[r] \in {"owned", "cancelrun"}
      BY <1>1
    <2>2. CompletionFaults(r, s) = {}
      BY <1>1, <2>1, CompletionIsLegal
    <2> QED BY <1>4, <2>2 DEF complete
  <1> HIDE DEF r
  <1> USE <1>1, <1>2, <1>3, <1>5, <1>6 DEF ctxVars, urbVars, purgeVars, recvVars, threadVars,
          CtxDescribesUrb, SentStages
  <1>8. FreshUrbs'
    BY DEF FreshUrbs
  <1>9. OwnedUrbs'
    BY DEF OwnedUrbs, r
  <1>10. HeldBySender'
    BY DEF HeldBySender, r
  <1>11. HeldByList' /\ HeldByCancel'
    BY DEF HeldByList, HeldByCancel, OwnedUrbs
  <1>12. HeldByPurge' /\ HeldByRecv'
    BY DEF HeldByPurge, HeldByRecv
  <1>13. UnlinkedAreCancelled'
    BY <1>4 DEF UnlinkedAreCancelled
  <1>14. OneRequestAtATime' /\ DetachPhases'
    BY DEF OneRequestAtATime, DetachPhases
  <1> QED BY <1>7, <1>8, <1>9, <1>10, <1>11, <1>12, <1>13, <1>14

\* remove_request(ENDPOINT) moves a request from the list to endpoint_purge, and
\* leaves to cancel_request what WdfRequestUnmarkCancelable lost.
LEMMA PurgeRemoveCustody ==
  ASSUME TypeOK, TypeOK', Custody, NEW e \in Endpoints, purge_remove(e)
  PROVE  Custody'
  <1> USE ConstantsAssumption
      DEF TypeOK, Custody, Seqnums, NoUrb, IsOwned, CtxDescribesUrb, SentStages,
          Unmark, OfEndpoint, LostToCancel, ctxVars, urbVars, recvVars
  <1>1. FreshUrbs' /\ faults' = {} /\ UnlinkedAreCancelled' /\ DetachPhases'
    BY DEF purge_remove, FreshUrbs, UnlinkedAreCancelled, DetachPhases
  <1>2. CASE OfEndpoint(e) = {q \in OfEndpoint(e) : LostToCancel(q)}
             /\ requests' = requests \ {q \in OfEndpoint(e) : LostToCancel(q)}
             /\ UNCHANGED <<wdf, purgeReq>>
    <2>1. /\ requests' \subseteq requests
          /\ \A p \in requests : p \in requests' \/ wdf[p] = "canceling"
      BY <1>2
    <2>2. /\ purgeReq[e] = {} /\ \A f \in Endpoints : f # e => purge'[f] = purge[f]
          /\ UNCHANGED <<wdf, purgeReq, cur, ctxVars, urbVars, stage, outcome, recvVars>>
      BY <1>2 DEF purge_remove, HeldByPurge
    <2>3. OwnedUrbs' /\ HeldBySender' /\ HeldByList'
      BY <2>1, <2>2 DEF OwnedUrbs, HeldBySender, HeldByList
    <2>4. HeldByPurge' /\ HeldByRecv'
      BY <2>1, <2>2 DEF HeldByPurge, HeldByRecv
    <2>5. HeldByCancel' /\ OneRequestAtATime'
      BY <2>1, <2>2 DEF HeldByCancel, OneRequestAtATime
    <2> QED BY <1>1, <2>3, <2>4, <2>5
  <1>3. CASE \E r \in OfEndpoint(e), passed \in SUBSET {q \in OfEndpoint(e) : LostToCancel(q)} :
               /\ ~LostToCancel(r)
               /\ requests' = requests \ (passed \cup {r})
               /\ Unmark(r)
               /\ purgeReq' = [purgeReq EXCEPT ![e] = {r}]
               /\ purge' = [purge EXCEPT ![e] = "holding"]
    <2>1. PICK r \in OfEndpoint(e) :
               /\ ~LostToCancel(r)
               /\ Unmark(r)
               /\ r \notin requests'
               /\ requests' \subseteq requests
               /\ \A p \in requests : p \in requests' \/ p = r \/ wdf[p] = "canceling"
               /\ purgeReq' = [purgeReq EXCEPT ![e] = {r}]
               /\ purge' = [purge EXCEPT ![e] = "holding"]
      BY <1>3
    <2>2. /\ r \in Requests /\ r \in requests
          /\ cur[r] # NoUrb /\ ctxSeqnum[r] = cur[r] /\ stage[cur[r]] \in SentStages
          /\ wdf' = [wdf EXCEPT ![r] = "owned"]
      BY <2>1 DEF HeldByList, OwnedUrbs, WdfStates
    <2>3. r \notin recvReq /\ \A f \in Endpoints : r \notin purgeReq[f]
      BY <2>2 DEF HeldByPurge, HeldByRecv
    <2>4. UNCHANGED <<cur, canceled, ctxVars, urbVars, stage, outcome, recvVars>>
      BY DEF purge_remove
    <2> USE <2>1, <2>2, <2>3, <2>4
    <2>5. OwnedUrbs'
      BY DEF OwnedUrbs
    <2>6. HeldBySender'
      BY DEF HeldBySender
    <2>7. HeldByList'
      BY DEF HeldByList
    <2>8. HeldByPurge'
      BY DEF HeldByPurge
    <2>9. HeldByRecv'
      BY DEF HeldByRecv
    <2>10. HeldByCancel'
      BY DEF HeldByCancel
    <2>11. OneRequestAtATime'
      BY DEF OneRequestAtATime
    <2> QED BY <1>1, <2>5, <2>6, <2>7, <2>8, <2>9, <2>10, <2>11
  <1> QED
    BY <1>2, <1>3 DEF purge_remove

\* endpoint_purge completes the request it took out of the list.
LEMMA PurgeCancelCustody ==
  ASSUME TypeOK, TypeOK', Custody, NEW e \in Endpoints, purge_cancel(e)
  PROVE  Custody'
  <1> USE ConstantsAssumption DEF TypeOK, Custody, Seqnums, NoUrb, IsOwned
  <1>1. PICK r \in purgeReq[e] : send_cmd_unlink_and_complete(r, ctxSeqnum[r])
    BY DEF purge_cancel
  <1> DEFINE s == cur[r]
  <1>2. /\ r \in Requests /\ s \in Seqnums /\ ctxSeqnum[r] = s /\ wdf[r] = "owned"
        /\ r \notin requests /\ stage[s] \in SentStages /\ r \notin recvReq
        /\ purgeReq[e] = {r} /\ \A f \in Endpoints : f # e => r \notin purgeReq[f]
    BY <1>1 DEF HeldByPurge, CtxDescribesUrb, OneRequestAtATime
  <1>3. /\ s <= seqnum /\ urbRequest[s] = r /\ \A p \in Requests : cur[p] = s => p = r
    BY <1>2 DEF OwnedUrbs, FreshUrbs, SentStages
  <1>4. /\ purgeReq' = [purgeReq EXCEPT ![e] = {}] /\ purge' = [purge EXCEPT ![e] = "loop"]
        /\ UNCHANGED <<ctxVars, requests, urbVars, stage, recvVars, detach>>
    BY DEF purge_cancel
  <1>5. complete(r, s, "cancelled")
    BY <1>1, <1>2 DEF send_cmd_unlink_and_complete
  <1>6. unlinked' \subseteq unlinked \cup {s}
    BY <1>1, <1>2 DEF send_cmd_unlink_and_complete, unplugged
  <1>7. /\ wdf' = [wdf EXCEPT ![r] = "idle"] /\ cur' = [cur EXCEPT ![r] = NoUrb]
        /\ outcome' = [u \in Seqnums |-> IF u = s THEN "cancelled" ELSE outcome[u]]
    BY <1>5 DEF complete
  <1>8. faults' = {}
    <2>1. s # NoUrb /\ wdf[r] \in {"owned", "cancelrun"}
      BY <1>2
    <2>2. CompletionFaults(r, s) = {}
      BY <2>1, CompletionIsLegal
    <2> QED BY <1>5, <2>2 DEF complete
  <1> HIDE DEF s
  <1> USE <1>2, <1>3, <1>4, <1>6, <1>7
      DEF ctxVars, urbVars, recvVars, CtxDescribesUrb, SentStages
  <1>9. FreshUrbs'
    BY DEF FreshUrbs
  <1>10. OwnedUrbs'
    BY DEF OwnedUrbs, s
  <1>11. HeldBySender'
    BY DEF HeldBySender, s
  <1>12. HeldByList' /\ HeldByCancel'
    BY DEF HeldByList, HeldByCancel
  <1>13. HeldByPurge'
    BY DEF HeldByPurge
  <1>14. HeldByRecv'
    BY DEF HeldByRecv
  <1>15. UnlinkedAreCancelled' /\ OneRequestAtATime' /\ DetachPhases'
    BY DEF UnlinkedAreCancelled, OneRequestAtATime, DetachPhases
  <1> QED BY <1>8, <1>9, <1>10, <1>11, <1>12, <1>13, <1>14, <1>15

\* RET_SUBMIT moves a request from the list to the receive thread.
LEMMA RetCommandCustody ==
  ASSUME TypeOK, TypeOK', Custody, NEW s \in Seqnums, ret_command(s)
  PROVE  Custody'
  <1> USE ConstantsAssumption
      DEF TypeOK, Custody, Seqnums, NoUrb, IsOwned, CtxDescribesUrb, SentStages,
          WithSeqnum, LostToCancel, Unmark, ctxVars, urbVars, purgeVars
  <1> DEFINE Rest == /\ recv = "header" /\ recv' = "payload" /\ recvSeqnum' = s
                     /\ stage' = [stage EXCEPT ![s] = IF @ = "inflight" THEN "acked" ELSE @]
                     /\ UNCHANGED <<cur, canceled, ctxVars, urbVars, outcome,
                                    purgeVars, detach, unlinked, faults>>
  <1>1. Rest
    BY DEF ret_command
  <1>2. recvReq = {}
    BY <1>1 DEF HeldByRecv
  <1>3. FreshUrbs' /\ faults' = {} /\ UnlinkedAreCancelled' /\ DetachPhases'
    BY <1>1, <1>2 DEF FreshUrbs, UnlinkedAreCancelled, DetachPhases
  <1>4. CASE /\ recvReq' = {} /\ UNCHANGED wdf /\ requests' \subseteq requests
             /\ \A p \in requests : p \in requests' \/ wdf[p] = "canceling"
    BY <1>1, <1>2, <1>3, <1>4 DEF OwnedUrbs, HeldBySender, HeldByList, HeldByPurge,
       HeldByRecv, HeldByCancel, OneRequestAtATime
  <1>5. CASE \E r \in WithSeqnum(s) : /\ ~LostToCancel(r)
                                      /\ requests' = requests \ {r}
                                      /\ recvReq' = {r}
                                      /\ Unmark(r)
    <2>1. PICK r \in WithSeqnum(s) : /\ ~LostToCancel(r)
                                     /\ requests' = requests \ {r}
                                     /\ recvReq' = {r}
                                     /\ Unmark(r)
      BY <1>5
    <2>2. /\ r \in Requests /\ r \in requests
          /\ cur[r] = s /\ ctxSeqnum[r] = s /\ stage[s] \in SentStages
          /\ wdf' = [wdf EXCEPT ![r] = "owned"]
      BY <2>1 DEF HeldByList, OwnedUrbs, WdfStates
    <2>3. \A f \in Endpoints : r \notin purgeReq[f]
      BY <2>2 DEF HeldByPurge
    <2> USE <1>1, <1>2, <2>1, <2>2, <2>3
    <2>4. OwnedUrbs'
      BY DEF OwnedUrbs
    <2>5. HeldBySender'
      BY DEF HeldBySender
    <2>6. HeldByList'
      BY DEF HeldByList
    <2>7. HeldByPurge'
      BY DEF HeldByPurge
    <2>8. HeldByRecv'
      BY DEF HeldByRecv
    <2>9. HeldByCancel'
      BY DEF HeldByCancel
    <2>10. OneRequestAtATime'
      BY DEF OneRequestAtATime
    <2> QED BY <1>3, <2>4, <2>5, <2>6, <2>7, <2>8, <2>9, <2>10
  <1> QED
    BY <1>4, <1>5 DEF ret_command

\* The receive thread completes the request it took out of the list.
LEMMA RecvPayloadCustody ==
  ASSUME TypeOK, TypeOK', Custody, NEW failed \in BOOLEAN, recv_payload(failed)
  PROVE  Custody'
  <1> USE ConstantsAssumption DEF TypeOK, Custody, Seqnums, NoUrb, IsOwned
  <1>1. /\ recv = "payload" /\ recvReq' = {} /\ recv' \in {"header", "exited"}
        /\ UNCHANGED <<ctxVars, requests, urbVars, stage, purgeVars, detach, unlinked>>
    BY DEF recv_payload
  <1>2. CASE recvReq = {} /\ UNCHANGED <<wdfVars, outcome, faults>>
    BY <1>1, <1>2 DEF wdfVars, ctxVars, urbVars, purgeVars, CtxDescribesUrb, FreshUrbs,
       OwnedUrbs, HeldBySender, HeldByList, HeldByPurge, HeldByRecv, HeldByCancel,
       OneRequestAtATime, UnlinkedAreCancelled, DetachPhases
  <1>3. CASE \E r \in recvReq :
               complete(r, recvSeqnum, IF failed THEN "aborted" ELSE "answered")
    <2> DEFINE how == IF failed THEN "aborted" ELSE "answered"
    <2> DEFINE s == recvSeqnum
    <2>1. PICK r \in recvReq : complete(r, s, how)
      BY <1>3
    <2>2. /\ r \in Requests /\ s \in Seqnums /\ cur[r] = s /\ wdf[r] = "owned"
          /\ r \notin requests /\ stage[s] \in SentStages
          /\ \A e \in Endpoints : r \notin purgeReq[e]
      BY <2>1 DEF HeldByRecv, HeldByPurge, CtxDescribesUrb
    <2>3. /\ s <= seqnum /\ urbRequest[s] = r /\ outcome[s] = "none" /\ how # "none"
          /\ \A p \in Requests : cur[p] = s => p = r
      BY <2>2 DEF OwnedUrbs, FreshUrbs, SentStages
    <2>4. /\ wdf' = [wdf EXCEPT ![r] = "idle"] /\ cur' = [cur EXCEPT ![r] = NoUrb]
          /\ outcome' = [u \in Seqnums |-> IF u = s THEN how ELSE outcome[u]]
      BY <2>1, <2>2 DEF complete
    <2>5. faults' = {}
      <3>1. s # NoUrb /\ wdf[r] \in {"owned", "cancelrun"}
        BY <2>2
      <3>2. CompletionFaults(r, s) = {}
        BY <2>2, <3>1, CompletionIsLegal
      <3> QED BY <2>1, <3>2 DEF complete
    <2> HIDE DEF how, s
    <2> USE <1>1, <2>2, <2>3, <2>4
        DEF ctxVars, urbVars, purgeVars, CtxDescribesUrb, SentStages
    <2>6. FreshUrbs'
      BY DEF FreshUrbs
    <2>7. OwnedUrbs'
      BY DEF OwnedUrbs
    <2>8. HeldBySender'
      BY DEF HeldBySender
    <2>9. HeldByList' /\ HeldByCancel'
      BY DEF HeldByList, HeldByCancel
    <2>10. HeldByPurge' /\ HeldByRecv'
      BY DEF HeldByPurge, HeldByRecv
    <2>11. UnlinkedAreCancelled' /\ OneRequestAtATime' /\ DetachPhases'
      BY DEF UnlinkedAreCancelled, OneRequestAtATime, DetachPhases
    <2> QED BY <2>5, <2>6, <2>7, <2>8, <2>9, <2>10, <2>11
  <1> QED
    BY <1>2, <1>3 DEF recv_payload

\* Contract violations are never forgotten.
LEMMA FaultsGrow == TypeOK /\ [Next]_vars => faults \subseteq faults'
  BY DEF Next, vars, SubmitNext, SendNext, CancelNext, PurgeNext, RecvNext, DetachNext,
     internal_control, endpoint_reset, device_reset, clear_endpoint_stall, reset_port,
     send_ep0_out, NewUrb, append_request, WskSend,
     send_complete_ok,
     mark_request_cancelable, send_complete_error, send_complete_finish, UpperCancel,
     cancel_request, cancel_request_finish, send_cmd_unlink_and_complete, complete,
     endpoint_purge, purge_remove, purge_cancel, queue_purge, purge_complete,
     endpoint_start, ret_command, recv_payload, recv_exit, set_unplugged, close_socket,
     recv_thread_join, plugout_and_delete, device_cleanup, DetachStep

\* The initial state has no request in anybody's hands.
LEMMA CustodyInit == Init => Custody
  BY ConstantsAssumption
  DEF Init, Custody, FreshUrbs, OwnedUrbs, HeldBySender, HeldByList, HeldByPurge,
      HeldByRecv, HeldByCancel, OneRequestAtATime, UnlinkedAreCancelled, DetachPhases,
      CtxDescribesUrb, IsOwned, NoUrb, Seqnums

\* Every operation keeps custody, unless it applies a stale send.
LEMMA CustodyNext ==
  ASSUME TypeOK, TypeOK', Custody, NoStaleSend', [Next]_vars
  PROVE  Custody'
  <1> DEFINE Frame == UNCHANGED vars
  <1>1. ASSUME NEW r \in Requests, NEW e \in Endpoints, internal_control(r, e)
        PROVE  Custody'
    <2>1. PICK how \in {"gone", "rejected", "none"} : NewUrb(r, e, TRUE, how)
      BY <1>1 DEF internal_control
    <2> QED BY <2>1, NewUrbCustody DEF Outcomes
  <1>2. ASSUME NEW r \in Requests, endpoint_reset(r) \/ device_reset(r) PROVE Custody'
    <2>1. PICK how \in {"rejected", "none"} : NewUrb(r, Ep0, FALSE, how)
      BY <1>2 DEF endpoint_reset, device_reset, clear_endpoint_stall, reset_port,
       send_ep0_out
    <2> QED BY <2>1, NewUrbCustody, ConstantsAssumption DEF Outcomes
  <1>3. ASSUME NEW s \in Seqnums, send_complete_ok(s) PROVE Custody'
    BY <1>3, MarkCustody
  <1>4. ASSUME NEW s \in Seqnums, send_complete_finish(s) PROVE Custody'
    BY <1>4, SendFinishCustody
  <1>5. ASSUME NEW e \in Endpoints, purge_remove(e) PROVE Custody'
    BY <1>5, PurgeRemoveCustody
  <1>6. ASSUME NEW e \in Endpoints, purge_cancel(e) PROVE Custody'
    BY <1>6, PurgeCancelCustody
  <1>7. ASSUME NEW s \in Seqnums, ret_command(s) PROVE Custody'
    BY <1>7, RetCommandCustody
  <1>8. ASSUME NEW failed \in BOOLEAN, recv_payload(failed) PROVE Custody'
    BY <1>8, RecvPayloadCustody
  <1> USE ConstantsAssumption
      DEF TypeOK, Seqnums, NoUrb, IsOwned, wdfVars, ctxVars, urbVars, purgeVars,
          recvVars, threadVars, Custody, FreshUrbs, OwnedUrbs, HeldBySender, HeldByList, HeldByPurge, HeldByRecv,
          HeldByCancel, OneRequestAtATime, UnlinkedAreCancelled, DetachPhases,
          CtxDescribesUrb, SentStages
  <1>9. ASSUME NEW s \in Seqnums, append_request(s) PROVE Custody'
    BY <1>9 DEF append_request
  <1>10. ASSUME NEW s \in Seqnums, WskSend(s) PROVE Custody'
    BY <1>10 DEF WskSend
  <1>11. ASSUME NEW s \in Seqnums, send_complete_error(s) PROVE Custody'
    BY <1>11 DEF send_complete_error, NoStaleSend
  <1>12. ASSUME NEW r \in Requests, UpperCancel(r) PROVE Custody'
    BY <1>12 DEF UpperCancel, Cancel
  <1>13. ASSUME NEW r \in Requests, cancel_request(r) PROVE Custody'
    BY <1>13 DEF cancel_request
  <1>14. ASSUME NEW r \in Requests, cancel_request_finish(r) PROVE Custody'
    BY <1>14 DEF cancel_request_finish, send_cmd_unlink_and_complete, complete,
       CompletionFaults, unplugged
  <1>15. ASSUME NEW e \in Endpoints, endpoint_purge(e) PROVE Custody'
    BY <1>15 DEF endpoint_purge
  <1>16. ASSUME NEW e \in Endpoints, queue_purge(e) PROVE Custody'
    BY <1>16 DEF queue_purge, Cancel, DriverOwned
  <1>17. ASSUME NEW e \in Endpoints, purge_complete(e) PROVE Custody'
    BY <1>17 DEF purge_complete
  <1>18. ASSUME NEW e \in Endpoints, endpoint_start(e) PROVE Custody'
    BY <1>18 DEF endpoint_start
  <1>19. CASE recv_exit
    BY <1>19 DEF recv_exit
  <1>20. CASE DetachNext
    BY <1>20 DEF DetachNext, set_unplugged, close_socket, recv_thread_join,
       plugout_and_delete, device_cleanup, DetachStep
  <1>21. CASE UNCHANGED vars
    BY <1>21 DEF vars
  <1> HIDE DEF TypeOK, Seqnums, Custody
  <1> QED
    BY <1>1, <1>2, <1>3, <1>4, <1>5, <1>6, <1>7, <1>8, <1>9, <1>10, <1>11, <1>12,
       <1>13, <1>14, <1>15, <1>16, <1>17, <1>18, <1>19, <1>20, <1>21
    DEF Next, SubmitNext, SendNext, CancelNext, PurgeNext, RecvNext

-----------------------------------------------------------------------------
(***************************************************************************)
(* The converse: an operation that lets go of a request hands it to the    *)
(* next holder or completes it.                                            *)
(***************************************************************************)

\* Completing one request leaves the others to their holders.
LEMMA CompleteLeavesOthers ==
  ASSUME TypeOK, NEW r \in Requests, NEW s, NEW how, complete(r, s, how),
         NEW p \in Requests, IsOwned(p)'
  PROVE  /\ p # r /\ IsOwned(p) /\ cur'[p] = cur[p] /\ wdf'[p] = wdf[p]
         /\ p \in canceled' => p \in canceled
  BY DEF TypeOK, complete, IsOwned

\* A holder that is left alone stays one.
LEMMA SameHolder ==
  ASSUME TypeOK, NEW p \in Requests, HasHolder(p),
         cur'[p] = cur[p], wdf'[p] = wdf[p], p \in canceled' => p \in canceled,
         stage'[cur[p]] = stage[cur[p]], p \in requests => p \in requests',
         p \in recvReq => p \in recvReq',
         \A e \in Endpoints : p \in purgeReq[e] => p \in purgeReq'[e]
  PROVE  HasHolder(p)'
  BY DEF HasHolder, ListedAndReachable

\* No operation orphans a request, unless it applies a stale send.
LEMMA HolderNext ==
  ASSUME TypeOK, TypeOK', Custody, Custody', NoStaleSend', [Next]_vars,
         \A r \in Requests : IsOwned(r) => HasHolder(r),
         NEW p \in Requests, IsOwned(p)'
  PROVE  HasHolder(p)'
  <1> USE ConstantsAssumption
      DEF TypeOK, Seqnums, NoUrb, IsOwned, wdfVars, ctxVars, urbVars, purgeVars,
          recvVars, threadVars
  <1>1. ASSUME NEW r \in Requests, NEW e \in Endpoints, NEW q, NEW how, NewUrb(r, e, q, how)
        PROVE  HasHolder(p)'
    <2>1. CASE p = r
      BY <1>1, <2>1 DEF NewUrb, HasHolder
    <2>2. CASE p # r
      <3>1. IsOwned(p) /\ cur'[p] = cur[p] /\ wdf'[p] = wdf[p]
        BY <1>1, <2>2 DEF NewUrb
      <3>2. stage'[cur[p]] = stage[cur[p]]
        BY <1>1, <3>1 DEF NewUrb, Custody, FreshUrbs, OwnedUrbs
      <3> QED
        BY <1>1, <3>1, <3>2, SameHolder DEF NewUrb
    <2> QED BY <2>1, <2>2
  <1>2. CASE SubmitNext
    BY <1>1, <1>2 DEF SubmitNext, internal_control, endpoint_reset, device_reset,
       clear_endpoint_stall, reset_port, send_ep0_out
  <1>3. ASSUME NEW s \in Seqnums, append_request(s) PROVE HasHolder(p)'
    BY <1>3 DEF append_request, HasHolder, ListedAndReachable, Custody, HeldBySender, OwnedUrbs
  <1>4. ASSUME NEW s \in Seqnums, WskSend(s) PROVE HasHolder(p)'
    BY <1>4 DEF WskSend, HasHolder, ListedAndReachable
  <1>5. ASSUME NEW s \in Seqnums, send_complete_ok(s) PROVE HasHolder(p)'
    <2>1. UNCHANGED <<cur, canceled, purgeReq, recvReq>> /\ IsOwned(p) /\ HasHolder(p)
      BY <1>5 DEF send_complete_ok
    <2>2. CASE /\ WithSeqnum(s) = {} /\ UNCHANGED <<wdf, requests>>
               /\ stage' = [stage EXCEPT ![s] = "done"]
      <3>1. stage[s] \notin {"built", "failing", "unlinking"}
        BY <1>5 DEF send_complete_ok
      <3>2. p \in requests => cur[p] # s
        BY <2>2 DEF WithSeqnum, Custody, HeldByList, CtxDescribesUrb
      <3> QED BY <2>1, <2>2, <3>1, <3>2 DEF HasHolder, ListedAndReachable
    <2>3. CASE \E r \in WithSeqnum(s) :
                 \/ /\ r \in canceled /\ requests' = requests \ {r} /\ UNCHANGED wdf
                    /\ stage' = [stage EXCEPT ![s] = "unlinking"]
                 \/ /\ r \notin canceled /\ wdf' = [wdf EXCEPT ![r] = "cancelable"]
                    /\ stage' = [stage EXCEPT ![s] = "done"] /\ UNCHANGED requests
      <3>1. PICK r \in WithSeqnum(s) :
                 \/ /\ r \in canceled /\ requests' = requests \ {r} /\ UNCHANGED wdf
                    /\ stage' = [stage EXCEPT ![s] = "unlinking"]
                 \/ /\ r \notin canceled /\ wdf' = [wdf EXCEPT ![r] = "cancelable"]
                    /\ stage' = [stage EXCEPT ![s] = "done"] /\ UNCHANGED requests
        BY <2>3
      <3>2. r \in Requests /\ r \in requests /\ cur[r] = s /\ (cur[p] = s => p = r)
        BY <2>1, <3>1 DEF WithSeqnum, Custody, HeldByList, CtxDescribesUrb, OwnedUrbs
      <3>3. CASE p = r
        BY <2>1, <3>1, <3>2, <3>3 DEF HasHolder, ListedAndReachable
      <3>4. CASE p # r
        BY <2>1, <3>1, <3>2, <3>4, SameHolder
      <3> QED BY <3>3, <3>4
    <2> QED BY <1>5, <2>2, <2>3 DEF send_complete_ok, mark_request_cancelable
  <1>6. ASSUME NEW s \in Seqnums, send_complete_error(s) PROVE HasHolder(p)'
    <2> DEFINE r == urbRequest[s]
    <2>1. /\ UNCHANGED <<cur, wdf, canceled, purgeReq, recvReq>> /\ IsOwned(p) /\ HasHolder(p)
          /\ stage[s] = "inflight" /\ requests' = requests \ {r}
          /\ stage' = [stage EXCEPT ![s] = IF r \in requests THEN "failing" ELSE "done"]
      BY <1>6 DEF send_complete_error
    <2>2. r \in requests => ctxSeqnum[r] = s
      BY <1>6 DEF send_complete_error, NoStaleSend
    <2>3. CASE p = r
      BY <2>1, <2>2, <2>3 DEF HasHolder, ListedAndReachable, Custody, HeldByList, CtxDescribesUrb
    <2>4. CASE p # r
      <3>1. cur[p] # s
        BY <2>1, <2>4 DEF Custody, OwnedUrbs
      <3> QED BY <2>1, <2>4, <3>1, SameHolder
    <2> QED BY <2>3, <2>4
  <1>7. ASSUME NEW s \in Seqnums, send_complete_finish(s) PROVE HasHolder(p)'
    <2>1. /\ urbRequest[s] \in Requests /\ cur[urbRequest[s]] = s
          /\ stage' = [stage EXCEPT ![s] = "done"]
          /\ UNCHANGED <<requests, purgeReq, recvReq>>
      BY <1>7 DEF send_complete_finish, Custody, HeldBySender
    <2>2. PICK how : complete(urbRequest[s], s, how)
      BY <1>7 DEF send_complete_finish, send_cmd_unlink_and_complete
    <2>3. /\ p # urbRequest[s] /\ IsOwned(p) /\ cur'[p] = cur[p] /\ wdf'[p] = wdf[p]
          /\ p \in canceled' => p \in canceled
      BY <2>1, <2>2, CompleteLeavesOthers
    <2>4. cur[p] # s
      BY <2>3 DEF Custody, OwnedUrbs
    <2> QED BY <2>1, <2>3, <2>4, SameHolder
  <1>8. ASSUME NEW r \in Requests, UpperCancel(r) PROVE HasHolder(p)'
    BY <1>8 DEF UpperCancel, Cancel, HasHolder, ListedAndReachable
  <1>9. ASSUME NEW r \in Requests, cancel_request(r) PROVE HasHolder(p)'
    BY <1>9 DEF cancel_request, HasHolder, ListedAndReachable
  <1>10. ASSUME NEW r \in Requests, cancel_request_finish(r) PROVE HasHolder(p)'
    <2>1. complete(r, ctxSeqnum[r], "cancelled") /\ UNCHANGED <<requests, stage, purgeReq, recvReq>>
      BY <1>10 DEF cancel_request_finish, send_cmd_unlink_and_complete
    <2> QED BY <2>1, CompleteLeavesOthers, SameHolder
  <1>11. ASSUME NEW e \in Endpoints, endpoint_purge(e) \/ purge_complete(e) \/ endpoint_start(e)
         PROVE  HasHolder(p)'
    BY <1>11, SameHolder DEF endpoint_purge, purge_complete, endpoint_start
  <1>12. ASSUME NEW e \in Endpoints, purge_remove(e) PROVE HasHolder(p)'
    <2>1. /\ UNCHANGED <<cur, canceled, stage, recvReq>>
          /\ p \in requests =>
               p \in requests' \/ p \in purgeReq'[e] \/ (wdf[p] = "canceling" /\ p \notin purgeReq'[e])
      BY <1>12 DEF purge_remove, LostToCancel
    <2>2. purgeReq[e] = {}
      BY <1>12 DEF purge_remove, Custody, HeldByPurge
    <2>3. \A f \in Endpoints : f # e => purgeReq'[f] = purgeReq[f]
      BY <1>12 DEF purge_remove
    <2>4. wdf'[p] = wdf[p] \/ p \in purgeReq'[e]
      BY <1>12 DEF purge_remove, Unmark, OfEndpoint
    <2> QED BY <2>1, <2>2, <2>3, <2>4 DEF HasHolder, ListedAndReachable
  <1>13. ASSUME NEW e \in Endpoints, purge_cancel(e) PROVE HasHolder(p)'
    <2>1. PICK r \in purgeReq[e] : complete(r, ctxSeqnum[r], "cancelled")
      BY <1>13 DEF purge_cancel, send_cmd_unlink_and_complete
    <2>2. r \in Requests /\ purgeReq[e] = {r}
      BY <2>1 DEF Custody, OneRequestAtATime
    <2>3. /\ p # r /\ IsOwned(p) /\ cur'[p] = cur[p] /\ wdf'[p] = wdf[p]
          /\ p \in canceled' => p \in canceled
      BY <2>1, <2>2, CompleteLeavesOthers
    <2> QED BY <1>13, <2>2, <2>3, SameHolder DEF purge_cancel
  <1>14. ASSUME NEW e \in Endpoints, queue_purge(e) PROVE HasHolder(p)'
    BY <1>14 DEF queue_purge, Cancel, HasHolder, ListedAndReachable
  <1>15. ASSUME NEW s \in Seqnums, ret_command(s) PROVE HasHolder(p)'
    <2>1. /\ UNCHANGED <<cur, canceled, purgeReq>>
          /\ recvReq = {}
          /\ stage' = [stage EXCEPT ![s] = IF @ = "inflight" THEN "acked" ELSE @]
      BY <1>15 DEF ret_command, Custody, HeldByRecv
    <2>2. /\ p \in requests => p \in requests' \/ p \in recvReq' \/ wdf[p] = "canceling"
          /\ wdf'[p] = wdf[p] \/ p \in recvReq'
      BY <1>15 DEF ret_command, LostToCancel, Unmark, WithSeqnum
    <2> QED BY <2>1, <2>2 DEF HasHolder, ListedAndReachable
  <1>16. ASSUME NEW failed \in BOOLEAN, recv_payload(failed) PROVE HasHolder(p)'
    <2>1. UNCHANGED <<requests, stage, purgeReq>>
      BY <1>16 DEF recv_payload
    <2>2. CASE recvReq = {} /\ UNCHANGED <<cur, wdf, canceled>>
      BY <2>1, <2>2, SameHolder
    <2>3. CASE \E r \in recvReq, how \in Outcomes : complete(r, recvSeqnum, how)
      <3>1. PICK r \in recvReq, how \in Outcomes : complete(r, recvSeqnum, how)
        BY <2>3
      <3>2. r \in Requests /\ recvReq = {r}
        BY <3>1 DEF Custody, OneRequestAtATime
      <3>3. /\ p # r /\ IsOwned(p) /\ cur'[p] = cur[p] /\ wdf'[p] = wdf[p]
            /\ p \in canceled' => p \in canceled
        BY <3>1, <3>2, CompleteLeavesOthers
      <3> QED BY <2>1, <3>2, <3>3, SameHolder
    <2> QED BY <1>16, <2>2, <2>3 DEF recv_payload, Outcomes
  <1>17. CASE recv_exit
    BY <1>17, SameHolder DEF recv_exit
  <1>18. CASE DetachNext
    BY <1>18, SameHolder DEF DetachNext, set_unplugged, close_socket, recv_thread_join,
       plugout_and_delete, device_cleanup, DetachStep
  <1>19. CASE UNCHANGED vars
    BY <1>19, SameHolder DEF vars
  <1> HIDE DEF TypeOK, Seqnums, IsOwned
  <1> QED
    BY <1>2, <1>3, <1>4, <1>5, <1>6, <1>7, <1>8, <1>9, <1>10, <1>11, <1>12,
       <1>13, <1>14, <1>15, <1>16, <1>17, <1>18, <1>19
    DEF Next, SendNext, CancelNext, PurgeNext, RecvNext

-----------------------------------------------------------------------------
(* The theorems.                                                            *)

\* The state of context.h stays well typed, for any number of handles,
\* endpoints and URBs.
THEOREM TypeCorrect == Spec => []TypeOK
  <1>1. Init => TypeOK
    BY TypeInit
  <1>2. TypeOK /\ [Next]_vars => TypeOK'
    BY TypeNext
  <1> QED BY <1>1, <1>2, PTL DEF Spec

\* The inductive invariant: one holder for every request the driver owns.
THEOREM Invariance == Spec => []IInv
  <1>1. Init => IInv
    BY TypeInit, CustodyInit DEF IInv
  <1>2. IInv /\ [Next]_vars => IInv'
    <2> SUFFICES ASSUME IInv, [Next]_vars PROVE IInv'
      OBVIOUS
    <2>1. TypeOK /\ TypeOK'
      BY TypeNext DEF IInv
    <2>2. ASSUME NoStaleSend' PROVE Custody'
      <3>1. NoStaleSend
        BY <2>1, <2>2, FaultsGrow DEF NoStaleSend
      <3> QED BY <2>1, <2>2, <3>1, CustodyNext DEF IInv
    <2> QED BY <2>1, <2>2 DEF IInv
  <1> QED BY <1>1, <1>2, PTL DEF Spec

\* send_complete, RET_SUBMIT, cancel_request and endpoint_purge never complete a
\* request twice, for the wrong URB or while it is cancelable, as long as no
\* failed send was looked up by a stale handle.
THEOREM FrameworkContractHolds == Spec => []FrameworkContract
  <1>1. IInv => FrameworkContract
    BY DEF IInv, Custody, FrameworkContract
  <1> QED BY <1>1, Invariance, PTL

\* device_ctx::requests never holds a completed request, nor one whose
\* request_ctx describes another URB.
THEOREM ListedRequestsAreLiveHolds == Spec => []ListedRequestsAreLive
  <1>1. IInv => ListedRequestsAreLive
    BY DEF IInv, Custody, HeldByList, CtxDescribesUrb, ListedRequestsAreLive
  <1> QED BY <1>1, Invariance, PTL

\* No URB is both answered to the upper driver and unlinked at the server.
THEOREM AnsweredIsNotUnlinkedHolds == Spec => []AnsweredIsNotUnlinked
  <1>1. IInv => AnsweredIsNotUnlinked
    BY DEF IInv, Custody, UnlinkedAreCancelled, AnsweredIsNotUnlinked
  <1> QED BY <1>1, Invariance, PTL

\* When the device is destroyed neither its list, nor a purge, nor a receive thread that was
\* not waited for long enough has one of its requests (device_cleanup, recv_thread_join).
THEOREM CleanupAssertionsHold == Spec => []CleanupAssertions
  <1>1. IInv => CleanupAssertions
    BY DEF IInv, TypeOK, Custody, HeldByList, HeldByRecv, HeldByPurge, CtxDescribesUrb,
       DetachPhases, CleanupAssertions
  <1> QED BY <1>1, Invariance, PTL
\* send(), send_complete, RET_SUBMIT, cancel_request and endpoint_purge never drop a
\* request between two of them: one that is not complete always has a holder, and a
\* cancelled one whose send is over does not stay in the list.
THEOREM NoOrphansHolds == Spec => []NoOrphans
  <1>1. Init => NoOrphans
    BY DEF Init, NoOrphans, IsOwned
  <1>2. IInv /\ IInv' /\ NoOrphans /\ [Next]_vars => NoOrphans'
    <2> SUFFICES ASSUME IInv, IInv', NoOrphans, [Next]_vars, NoStaleSend',
                        NEW p \in Requests, IsOwned(p)'
                 PROVE  HasHolder(p)'
      BY DEF NoOrphans
    <2>1. NoStaleSend
      BY FaultsGrow DEF IInv, NoStaleSend
    <2> QED BY <2>1, HolderNext DEF IInv, NoOrphans
  <1> QED BY <1>1, <1>2, Invariance, PTL DEF Spec
-----------------------------------------------------------------------------
(***************************************************************************)
(* The refinement of UrbCustody.  Custody and NoOrphans make Holder a      *)
(* partition: each of its values has a definition of its own, and nobody   *)
(* is never one of them.                                                   *)
(***************************************************************************)

Good == TypeOK /\ NoStaleSend /\ Custody /\ NoOrphans

Sending == {"built", "failing", "unlinking"}
Cancelling == {"canceling", "cancelrun"}

HolderFacts(p) ==
  /\ Holder(p) = "none" <=> ~IsOwned(p)
  /\ Holder(p) = "sender" <=> IsOwned(p) /\ stage[cur[p]] \in Sending
  /\ Holder(p) = "canceller" <=> wdf[p] \in Cancelling
  /\ Holder(p) = "list" <=> p \in requests /\ wdf[p] \notin Cancelling
  /\ Holder(p) = "receiver" <=> p \in recvReq
  /\ Holder(p) = "purge" <=> \E e \in Endpoints : p \in purgeReq[e]
  /\ Holder(p) \in {"none", "sender", "canceller", "list", "receiver", "purge"}

\* Who holds a request, told by each of the parties.
LEMMA HolderIs == Good => \A p \in Requests : HolderFacts(p)
  <1> SUFFICES ASSUME Good, NEW p \in Requests PROVE HolderFacts(p)
    OBVIOUS
  <1> USE DEF Good, Sending, Cancelling
  <1>1. IsOwned(p) <=> wdf[p] # "idle"
    BY DEF Custody, OwnedUrbs
  <1>2. IsOwned(p) /\ stage[cur[p]] \in Sending =>
          /\ wdf[p] = "owned" /\ p \notin requests /\ p \notin recvReq
          /\ \A e \in Endpoints : p \notin purgeReq[e]
    <2> SUFFICES ASSUME IsOwned(p), stage[cur[p]] \in Sending
                 PROVE  /\ wdf[p] = "owned" /\ p \notin requests /\ p \notin recvReq
                        /\ \A e \in Endpoints : p \notin purgeReq[e]
      OBVIOUS
    <2>1. cur[p] \in Seqnums /\ urbRequest[cur[p]] = p
      BY DEF TypeOK, IsOwned, Custody, OwnedUrbs
    <2>2. wdf[p] = "owned" /\ p \notin requests
      BY <2>1 DEF Custody, HeldBySender
    <2>3. p \notin recvReq /\ \A e \in Endpoints : p \notin purgeReq[e]
      BY DEF Custody, HeldByRecv, HeldByPurge, CtxDescribesUrb, SentStages
    <2> QED BY <2>2, <2>3
  <1>3. wdf[p] \in Cancelling =>
          /\ stage[cur[p]] \notin Sending /\ p \notin recvReq
          /\ \A e \in Endpoints : p \notin purgeReq[e]
    BY DEF Custody, HeldByCancel, HeldByRecv, HeldByPurge
  <1>4. p \in requests =>
          /\ IsOwned(p) /\ p \notin recvReq /\ \A e \in Endpoints : p \notin purgeReq[e]
          /\ wdf[p] \notin Cancelling => ListedAndReachable(p)
    <2> SUFFICES ASSUME p \in requests
                 PROVE  /\ IsOwned(p) /\ p \notin recvReq
                        /\ \A e \in Endpoints : p \notin purgeReq[e]
                        /\ wdf[p] \notin Cancelling => ListedAndReachable(p)
      OBVIOUS
    <2>1. IsOwned(p) /\ stage[cur[p]] \notin Sending
      BY DEF Custody, HeldByList, CtxDescribesUrb, SentStages
    <2>2. p \notin recvReq /\ \A e \in Endpoints : p \notin purgeReq[e]
      BY DEF Custody, HeldByRecv, HeldByPurge
    <2> QED BY <2>1, <2>2 DEF NoOrphans, HasHolder
  <1>5. p \in recvReq => IsOwned(p) /\ \A e \in Endpoints : p \notin purgeReq[e]
    BY DEF Custody, HeldByRecv, HeldByPurge, CtxDescribesUrb
  <1>6. (\E e \in Endpoints : p \in purgeReq[e]) => IsOwned(p)
    BY DEF Custody, HeldByPurge, CtxDescribesUrb
  <1>7. IsOwned(p) => HasHolder(p)
    BY DEF NoOrphans
  <1>8. ListedAndReachable(p) => p \in requests
    BY DEF ListedAndReachable
  <1> QED
    BY <1>1, <1>2, <1>3, <1>4, <1>5, <1>6, <1>7, <1>8 DEF HolderFacts, Holder, HasHolder

\* The same in the next state.
LEMMA HolderWillBe == Good' => \A p \in Requests : HolderFacts(p)'
  <1>1. (Good => \A p \in Requests : HolderFacts(p))'
    BY HolderIs, PTL
  <1> QED BY <1>1

\* A request that no party touches keeps its holder.
LEMMA HolderStays ==
  ASSUME Good, Good', NEW p \in Requests, cur'[p] = cur[p],
         IsOwned(p) => (stage'[cur[p]] \in Sending <=> stage[cur[p]] \in Sending),
         wdf'[p] \in Cancelling <=> wdf[p] \in Cancelling,
         wdf[p] \notin Cancelling => (p \in requests' <=> p \in requests),
         p \in recvReq' <=> p \in recvReq,
         \A e \in Endpoints : p \in purgeReq'[e] <=> p \in purgeReq[e]
  PROVE  Holder(p)' = Holder(p)
  <1>1. HolderFacts(p) /\ HolderFacts(p)'
    BY HolderIs, HolderWillBe
  <1>2. IsOwned(p)' <=> IsOwned(p)
    BY DEF IsOwned
  <1> QED BY <1>1, <1>2 DEF HolderFacts

\* One request goes from one holder to another.
LEMMA HandedOver ==
  ASSUME NEW r \in Requests, NEW from, NEW to, Holder(r) = from, Holder(r)' = to,
         \A p \in Requests : p # r => Holder(p)' = Holder(p)
  PROVE  Holding!Pass(r, from, to)
  BY DEF Holding!Pass

AbstractStep == [Holding!Next]_([r \in Requests |-> Holder(r)])

\* Nobody's request changes hands.
LEMMA NoneHandedOver ==
  ASSUME \A p \in Requests : Holder(p)' = Holder(p)
  PROVE  AbstractStep
  BY DEF AbstractStep

\* The holder of a request completes it.
LEMMA CompletedByHolder ==
  ASSUME Good, Good', NEW r \in Requests, NEW s, NEW how, complete(r, s, how),
         Holder(r) \in {"sender", "purge", "receiver", "canceller"},
         requests' = requests,
         \A u \in Seqnums : u # cur[r] => stage'[u] = stage[u],
         \A p \in recvReq : p = r \/ p \in recvReq', recvReq' \subseteq recvReq,
         \A e \in Endpoints : purgeReq'[e] \subseteq purgeReq[e],
         \A e \in Endpoints : \A p \in purgeReq[e] : p = r \/ p \in purgeReq'[e]
  PROVE  AbstractStep
  <1> USE DEF Good
  <1>1. HolderFacts(r) /\ HolderFacts(r)'
    BY HolderIs, HolderWillBe
  <1>2. cur'[r] = NoUrb /\ cur[r] # NoUrb
    BY <1>1 DEF complete, TypeOK, HolderFacts, IsOwned
  <1>3. Holder(r)' = "none"
    BY <1>1, <1>2 DEF HolderFacts, IsOwned
  <1>4. ASSUME NEW p \in Requests, p # r PROVE Holder(p)' = Holder(p)
    <2>1. cur'[p] = cur[p] /\ wdf'[p] = wdf[p]
      BY <1>4 DEF complete, TypeOK
    <2>2. IsOwned(p) => cur[p] \in Seqnums /\ cur[p] # cur[r]
      BY <1>2, <1>4 DEF TypeOK, Custody, OwnedUrbs, IsOwned
    <2> QED BY <1>4, <2>1, <2>2, HolderStays
  <1>5. PICK h \in {"sender", "purge", "receiver", "canceller"} : Holding!Pass(r, h, "none")
    BY <1>3, <1>4, HandedOver
  <1> QED BY <1>5 DEF AbstractStep, Holding!Next, Holding!Complete

\* send(): a new URB is held by its sender, and append_request puts it in the list.
LEMMA SubmitHandsOver ==
  ASSUME Good, Good', SubmitNext \/ \E s \in Seqnums : append_request(s)
  PROVE  AbstractStep
  <1> USE ConstantsAssumption DEF Good
  <1>1. ASSUME NEW r \in Requests, NEW e \in Endpoints, NEW q, NEW how, NewUrb(r, e, q, how)
        PROVE  AbstractStep
    <2>1. ASSUME NEW p \in Requests, p # r \/ how # "none" PROVE Holder(p)' = Holder(p)
      <3>1. cur'[p] = cur[p] /\ wdf'[p] = wdf[p] /\ (IsOwned(p) => stage'[cur[p]] = stage[cur[p]])
        BY <1>1, <2>1 DEF NewUrb, TypeOK, Custody, FreshUrbs, OwnedUrbs, IsOwned, Seqnums, NoUrb
      <3> QED BY <1>1, <3>1, HolderStays DEF NewUrb, threadVars, purgeVars, recvVars
    <2>2. CASE how = "none"
      <3>1. HolderFacts(r) /\ HolderFacts(r)'
        BY HolderIs, HolderWillBe
      <3>2. ~IsOwned(r) /\ IsOwned(r)' /\ stage'[cur'[r]] = "built"
        BY <1>1, <2>2 DEF NewUrb, TypeOK, IsOwned, Seqnums, NoUrb
      <3>3. Holding!Accept(r)
        BY <2>1, <3>1, <3>2, HandedOver DEF HolderFacts, Sending, Holding!Accept
      <3> QED BY <3>3 DEF AbstractStep, Holding!Next
    <2>3. CASE how # "none"
      BY <2>1, <2>3, NoneHandedOver
    <2> QED BY <2>2, <2>3
  <1>2. CASE SubmitNext
    BY <1>1, <1>2 DEF SubmitNext, internal_control, endpoint_reset, device_reset,
       clear_endpoint_stall, reset_port, send_ep0_out
  <1>3. ASSUME NEW s \in Seqnums, append_request(s) PROVE AbstractStep
    <2>0. PICK r \in Requests : r = urbRequest[s]
      BY <1>3 DEF append_request, TypeOK
    <2>1. cur[r] = s /\ wdf[r] = "owned" /\ IsOwned(r) /\ stage[s] = "built"
      BY <1>3, <2>0 DEF append_request, Custody, HeldBySender, IsOwned, Seqnums, NoUrb
    <2>2. /\ UNCHANGED <<wdf, cur, recvReq, purgeReq>> /\ requests' = requests \cup {r}
          /\ stage' = [stage EXCEPT ![s] = "listed"]
      BY <1>3, <2>0 DEF append_request, wdfVars, threadVars, purgeVars, recvVars
    <2>3. HolderFacts(r) /\ HolderFacts(r)'
      BY <2>1, HolderIs, HolderWillBe
    <2>4. Holder(r) = "sender" /\ Holder(r)' = "list"
      BY <2>1, <2>2, <2>3 DEF HolderFacts, Sending, Cancelling
    <2>5. ASSUME NEW p \in Requests, p # r PROVE Holder(p)' = Holder(p)
      <3>1. IsOwned(p) => cur[p] # s /\ cur[p] \in Seqnums
        BY <2>1, <2>5 DEF Custody, OwnedUrbs, TypeOK, IsOwned
      <3> QED BY <2>2, <2>5, <3>1, HolderStays DEF TypeOK
    <2>6. Holding!Link(r)
      BY <2>1, <2>4, <2>5, HandedOver DEF Holding!Link
    <2> QED BY <2>1, <2>6 DEF AbstractStep, Holding!Next
  <1> QED BY <1>2, <1>3

\* Somebody takes one request out of the list.
LEMMA TakenFromList ==
  ASSUME Good, Good', NEW r \in Requests, Holder(r) = "list",
         Holder(r)' \in {"sender", "purge", "receiver"},
         \A p \in Requests : p # r => Holder(p)' = Holder(p)
  PROVE  AbstractStep
  <1>1. Holding!Take(r)
    BY HandedOver DEF Holding!Take
  <1> QED BY <1>1 DEF AbstractStep, Holding!Next

\* send_complete takes a request out of the list, leaves it there, or completes it.
LEMMA SendHandsOver ==
  ASSUME Good, Good', NEW s \in Seqnums,
         WskSend(s) \/ send_complete_ok(s) \/ send_complete_error(s) \/ send_complete_finish(s)
  PROVE  AbstractStep
  <1> USE DEF Good
  <1>o. \A p \in Requests, q \in Requests : IsOwned(p) /\ cur[p] = cur[q] => p = q
    BY DEF TypeOK, Custody, OwnedUrbs, IsOwned
  <1>1. CASE WskSend(s)
    <2>1. ASSUME NEW p \in Requests PROVE Holder(p)' = Holder(p)
      BY <1>1, HolderStays DEF WskSend, TypeOK, Sending, wdfVars, threadVars, purgeVars, recvVars
    <2> QED BY <2>1, NoneHandedOver
  <1>2. CASE send_complete_ok(s)
    <2>1. /\ UNCHANGED <<cur, recvReq, purgeReq>>
          /\ stage[s] \notin Sending /\ stage \in [Seqnums -> Stages]
      BY <1>2 DEF send_complete_ok, threadVars, purgeVars, recvVars, Sending, TypeOK
    <2>2. CASE UNCHANGED <<wdf, requests>> /\ stage' = [stage EXCEPT ![s] = "done"]
      <3>1. ASSUME NEW p \in Requests PROVE Holder(p)' = Holder(p)
        BY <2>1, <2>2, HolderStays DEF Sending
      <3> QED BY <3>1, NoneHandedOver
    <2>3. ASSUME NEW r \in WithSeqnum(s), wdf' = [wdf EXCEPT ![r] = "cancelable"],
                 requests' = requests, stage' = [stage EXCEPT ![s] = "done"]
          PROVE  AbstractStep
      <3>1. r \in Requests /\ wdf[r] \notin Cancelling
        <4>1. r \in Requests /\ cur[r] = s /\ wdf[r] # "cancelrun"
          BY <2>3 DEF WithSeqnum, TypeOK, Custody, HeldByList, CtxDescribesUrb
        <4>2. stage[s] # "done"
          BY <1>2 DEF send_complete_ok
        <4> QED BY <4>1, <4>2 DEF Custody, HeldByCancel, Cancelling
      <3>2. ASSUME NEW p \in Requests PROVE Holder(p)' = Holder(p)
        BY <2>1, <2>3, <3>1, HolderStays DEF Sending, Cancelling, TypeOK
      <3> QED BY <3>2, NoneHandedOver
    <2>4. ASSUME NEW r \in WithSeqnum(s), UNCHANGED wdf, requests' = requests \ {r},
                 stage' = [stage EXCEPT ![s] = "unlinking"]
          PROVE  AbstractStep
      <3>1. r \in Requests /\ r \in requests /\ cur[r] = s /\ wdf[r] # "cancelrun" /\ IsOwned(r)
        BY <2>4 DEF WithSeqnum, TypeOK, Custody, HeldByList, CtxDescribesUrb
      <3>2. wdf[r] \notin Cancelling
        <4>1. stage[s] # "done"
          BY <1>2 DEF send_complete_ok
        <4> QED BY <3>1, <4>1 DEF Custody, HeldByCancel, Cancelling
      <3>3. HolderFacts(r) /\ HolderFacts(r)'
        BY <3>1, HolderIs, HolderWillBe
      <3>4. Holder(r) = "list" /\ Holder(r)' = "sender"
        BY <2>1, <2>4, <3>1, <3>2, <3>3 DEF HolderFacts, Sending, IsOwned
      <3>5. ASSUME NEW p \in Requests, p # r PROVE Holder(p)' = Holder(p)
        <4>1. IsOwned(p) => cur[p] # s
          BY <1>o, <3>1, <3>5
        <4> QED BY <2>1, <2>4, <3>5, <4>1, HolderStays
      <3> QED BY <3>1, <3>4, <3>5, TakenFromList
    <2> QED BY <1>2, <2>2, <2>3, <2>4 DEF send_complete_ok, mark_request_cancelable
  <1>3. CASE send_complete_error(s)
    <2>0. PICK r \in Requests : r = urbRequest[s]
      BY <1>3 DEF send_complete_error, TypeOK
    <2>1. /\ UNCHANGED <<cur, wdf, recvReq, purgeReq>> /\ requests' = requests \ {r}
          /\ stage[s] = "inflight" /\ stage \in [Seqnums -> Stages]
          /\ stage' = [stage EXCEPT ![s] = IF r \in requests THEN "failing" ELSE "done"]
      BY <1>3, <2>0 DEF send_complete_error, wdfVars, threadVars, purgeVars, recvVars, TypeOK
    <2>2. r \in requests => ctxSeqnum[r] = s
      BY <1>3, <2>0 DEF send_complete_error, NoStaleSend
    <2>3. CASE r \in requests
      <3>1. cur[r] = s /\ IsOwned(r) /\ wdf[r] # "cancelrun"
        BY <2>2, <2>3 DEF Custody, HeldByList, CtxDescribesUrb
      <3>2. wdf[r] \notin Cancelling
        BY <2>1, <3>1 DEF Custody, HeldByCancel, Cancelling
      <3>3. HolderFacts(r) /\ HolderFacts(r)'
        BY <2>1, HolderIs, HolderWillBe
      <3>4. Holder(r) = "list" /\ Holder(r)' = "sender"
        BY <2>1, <2>3, <3>1, <3>2, <3>3 DEF HolderFacts, Sending, IsOwned
      <3>5. ASSUME NEW p \in Requests, p # r PROVE Holder(p)' = Holder(p)
        <4>1. IsOwned(p) => cur[p] # s
          BY <1>o, <2>1, <3>1, <3>5
        <4> QED BY <2>1, <3>5, <4>1, HolderStays
      <3> QED BY <2>1, <3>4, <3>5, TakenFromList
    <2>4. CASE r \notin requests
      <3>1. ASSUME NEW p \in Requests PROVE Holder(p)' = Holder(p)
        BY <2>1, <2>4, HolderStays DEF Sending
      <3> QED BY <3>1, NoneHandedOver
    <2> QED BY <2>3, <2>4
  <1>4. CASE send_complete_finish(s)
    <2> DEFINE r == urbRequest[s]
    <2>1. /\ r \in Requests /\ cur[r] = s /\ s # NoUrb /\ stage[s] \in Sending
          /\ stage' = [stage EXCEPT ![s] = "done"] /\ UNCHANGED <<requests, purgeReq, recvReq>>
      BY <1>4 DEF send_complete_finish, Custody, HeldBySender, Sending, Seqnums, NoUrb,
         threadVars, purgeVars, recvVars
    <2>2. PICK how : complete(r, s, how)
      BY <1>4 DEF send_complete_finish, send_cmd_unlink_and_complete
    <2>3. Holder(r) = "sender"
      BY <2>1, HolderIs DEF HolderFacts, IsOwned
    <2>4. \A u \in Seqnums : u # cur[r] => stage'[u] = stage[u]
      BY <2>1 DEF TypeOK
    <2> HIDE DEF r
    <2> QED BY <2>1, <2>2, <2>3, <2>4, CompletedByHolder
  <1> QED BY <1>1, <1>2, <1>3, <1>4

\* EvtRequestCancel is called for requests of the list, and completes them.
LEMMA CancelHandsOver ==
  ASSUME Good, Good', CancelNext \/ \E e \in Endpoints : queue_purge(e)
  PROVE  AbstractStep
  <1> USE DEF Good
  <1>1. ASSUME NEW R \in SUBSET Requests, Cancel(R),
               UNCHANGED <<cur, requests, stage, recvReq, purgeReq>>
        PROVE  AbstractStep
    <2> DEFINE C == {r \in R : wdf[r] = "cancelable"}
    <2>1. wdf' = [r \in Requests |-> IF r \in C THEN "canceling" ELSE wdf[r]]
      BY <1>1 DEF Cancel
    <2>2. ASSUME NEW r \in C PROVE Holder(r) = "list" /\ Holder(r)' = "canceller"
      <3>1. r \in Requests /\ r \in requests /\ wdf[r] = "cancelable"
        BY <2>2 DEF Custody, HeldByCancel
      <3>2. HolderFacts(r) /\ HolderFacts(r)'
        BY <3>1, HolderIs, HolderWillBe
      <3> QED BY <2>1, <2>2, <3>1, <3>2 DEF HolderFacts, Cancelling
    <2>3. ASSUME NEW p \in Requests, p \notin C PROVE Holder(p)' = Holder(p)
      BY <1>1, <2>1, <2>3, HolderStays
    <2>4. C \in SUBSET Requests
      OBVIOUS
    <2> HIDE DEF C
    <2>5. Holding!Cancel(C)
      BY <2>2, <2>3, <2>4 DEF Holding!Cancel
    <2> QED BY <2>4, <2>5 DEF AbstractStep, Holding!Next
  <1>2. ASSUME NEW r \in Requests, UpperCancel(r) PROVE AbstractStep
    <2>1. {r} \in SUBSET Requests
      OBVIOUS
    <2> QED BY <1>1, <1>2, <2>1 DEF UpperCancel, threadVars, purgeVars, recvVars
  <1>3. ASSUME NEW e \in Endpoints, queue_purge(e) PROVE AbstractStep
    <2>1. DriverOwned(e) \in SUBSET Requests
      BY DEF DriverOwned
    <2> QED BY <1>1, <1>3, <2>1 DEF queue_purge, recvVars
  <1>4. ASSUME NEW r \in Requests, cancel_request(r) PROVE AbstractStep
    <2>1. ASSUME NEW p \in Requests PROVE Holder(p)' = Holder(p)
      BY <1>4, HolderStays DEF cancel_request, TypeOK, Cancelling, threadVars, purgeVars, recvVars
    <2> QED BY <2>1, NoneHandedOver
  <1>5. ASSUME NEW r \in Requests, cancel_request_finish(r) PROVE AbstractStep
    <2>1. /\ complete(r, ctxSeqnum[r], "cancelled") /\ wdf[r] = "cancelrun"
          /\ UNCHANGED <<requests, stage, purgeReq, recvReq>>
      BY <1>5 DEF cancel_request_finish, send_cmd_unlink_and_complete, threadVars, purgeVars,
         recvVars
    <2>2. Holder(r) = "canceller"
      BY <2>1, HolderIs DEF HolderFacts, Cancelling
    <2> QED BY <2>1, <2>2, CompletedByHolder
  <1> QED BY <1>2, <1>3, <1>4, <1>5 DEF CancelNext

\* endpoint_purge takes requests out of the list one by one, and completes them.
LEMMA PurgeHandsOver ==
  ASSUME Good, Good', NEW e \in Endpoints, purge_remove(e) \/ purge_cancel(e)
  PROVE  AbstractStep
  <1> USE DEF Good
  <1>1. CASE purge_remove(e)
    <2>1. /\ UNCHANGED <<cur, stage, recvReq>>
          /\ \A f \in Endpoints : f # e => purgeReq'[f] = purgeReq[f]
          /\ purgeReq[e] = {}
      BY <1>1 DEF purge_remove, recvVars, TypeOK, Custody, HeldByPurge
    <2>2. CASE /\ UNCHANGED <<wdf, purgeReq>>
               /\ requests' = requests \ {q \in OfEndpoint(e) : LostToCancel(q)}
      <3>1. ASSUME NEW p \in Requests PROVE Holder(p)' = Holder(p)
        BY <2>1, <2>2, HolderStays DEF LostToCancel, Cancelling
      <3> QED BY <3>1, NoneHandedOver
    <2>3. ASSUME NEW r \in OfEndpoint(e),
                 NEW passed \in SUBSET {q \in OfEndpoint(e) : LostToCancel(q)},
                 ~LostToCancel(r), Unmark(r),
                 requests' = requests \ (passed \cup {r}),
                 purgeReq' = [purgeReq EXCEPT ![e] = {r}]
          PROVE  AbstractStep
      <3>1. /\ r \in Requests /\ r \in requests /\ wdf[r] \notin Cancelling
            /\ \A p \in Requests : p # r => wdf'[p] = wdf[p]
        BY <2>3 DEF OfEndpoint, LostToCancel, Unmark, TypeOK, Custody, HeldByList, Cancelling
      <3>2. HolderFacts(r) /\ HolderFacts(r)'
        BY <3>1, HolderIs, HolderWillBe
      <3>3. r \in purgeReq'[e]
        BY <2>3 DEF TypeOK
      <3>4. Holder(r) = "list" /\ Holder(r)' = "purge"
        BY <3>1, <3>2, <3>3 DEF HolderFacts
      <3>5. ASSUME NEW p \in Requests, p # r PROVE Holder(p)' = Holder(p)
        <4>1. \A f \in Endpoints : p \in purgeReq'[f] <=> p \in purgeReq[f]
          BY <2>1, <2>3, <3>5 DEF TypeOK
        <4>2. wdf[p] \notin Cancelling => (p \in requests' <=> p \in requests)
          BY <2>3, <3>5 DEF LostToCancel, Cancelling
        <4> QED BY <2>1, <3>1, <3>5, <4>1, <4>2, HolderStays
      <3> QED BY <3>1, <3>4, <3>5, TakenFromList
    <2> QED BY <1>1, <2>2, <2>3 DEF purge_remove
  <1>2. CASE purge_cancel(e)
    <2>1. PICK r \in purgeReq[e] : complete(r, ctxSeqnum[r], "cancelled")
      BY <1>2 DEF purge_cancel, send_cmd_unlink_and_complete
    <2>2. r \in Requests /\ Holder(r) = "purge" /\ purgeReq[e] = {r}
      BY <2>1, HolderIs DEF HolderFacts, TypeOK, Custody, OneRequestAtATime
    <2>3. /\ UNCHANGED <<requests, stage, recvReq>> /\ purgeReq' = [purgeReq EXCEPT ![e] = {}]
      BY <1>2 DEF purge_cancel, recvVars
    <2>4. /\ \A f \in Endpoints : purgeReq'[f] \subseteq purgeReq[f]
          /\ \A f \in Endpoints : \A p \in purgeReq[f] : p = r \/ p \in purgeReq'[f]
      BY <2>2, <2>3 DEF TypeOK
    <2> QED BY <2>1, <2>2, <2>3, <2>4, CompletedByHolder
  <1> QED BY <1>1, <1>2

\* The receive thread takes the request of a RET_SUBMIT out of the list, and completes it.
LEMMA RecvHandsOver ==
  ASSUME Good, Good', (\E s \in Seqnums : ret_command(s))
                      \/ \E failed \in BOOLEAN : recv_payload(failed)
  PROVE  AbstractStep
  <1> USE DEF Good
  <1>1. ASSUME NEW s \in Seqnums, ret_command(s) PROVE AbstractStep
    <2>1. /\ UNCHANGED <<cur, purgeReq>> /\ recvReq = {}
          /\ \A u \in Seqnums : stage'[u] \in Sending <=> stage[u] \in Sending
      BY <1>1 DEF ret_command, purgeVars, Custody, HeldByRecv, TypeOK, Sending
    <2>2. \A p \in Requests : IsOwned(p) => cur[p] \in Seqnums
      BY DEF TypeOK, IsOwned
    <2>3. CASE /\ UNCHANGED wdf /\ recvReq' = {} /\ requests' \subseteq requests
               /\ \A p \in requests : p \in requests' \/ wdf[p] = "canceling"
      <3>1. ASSUME NEW p \in Requests PROVE Holder(p)' = Holder(p)
        BY <2>1, <2>2, <2>3, HolderStays DEF Cancelling
      <3> QED BY <3>1, NoneHandedOver
    <2>4. ASSUME NEW r \in WithSeqnum(s), ~LostToCancel(r), Unmark(r),
                 requests' = requests \ {r}, recvReq' = {r}
          PROVE  AbstractStep
      <3>1. /\ r \in Requests /\ r \in requests /\ wdf[r] \notin Cancelling
            /\ \A p \in Requests : p # r => wdf'[p] = wdf[p]
        BY <2>4 DEF WithSeqnum, LostToCancel, Unmark, TypeOK, Custody, HeldByList, Cancelling
      <3>2. HolderFacts(r) /\ HolderFacts(r)'
        BY <3>1, HolderIs, HolderWillBe
      <3>3. Holder(r) = "list" /\ Holder(r)' = "receiver"
        BY <2>4, <3>1, <3>2 DEF HolderFacts
      <3>4. ASSUME NEW p \in Requests, p # r PROVE Holder(p)' = Holder(p)
        BY <2>1, <2>2, <2>4, <3>1, <3>4, HolderStays
      <3> QED BY <3>1, <3>3, <3>4, TakenFromList
    <2>5. CASE WithSeqnum(s) = {} /\ recvReq' = {} /\ UNCHANGED <<wdf, requests>>
      BY <2>3, <2>5
    <2>6. ASSUME NEW r \in WithSeqnum(s), requests' = requests \ {r}, LostToCancel(r),
                 recvReq' = {}, UNCHANGED wdf
          PROVE  AbstractStep
      BY <2>3, <2>6 DEF LostToCancel
    <2> QED BY <1>1, <2>4, <2>5, <2>6 DEF ret_command
  <1>2. ASSUME NEW failed \in BOOLEAN, recv_payload(failed) PROVE AbstractStep
    <2>1. UNCHANGED <<requests, stage, purgeReq>> /\ recvReq' = {}
      BY <1>2 DEF recv_payload, purgeVars
    <2>2. CASE recvReq = {} /\ UNCHANGED <<cur, wdf>>
      <3>1. ASSUME NEW p \in Requests PROVE Holder(p)' = Holder(p)
        BY <2>1, <2>2, HolderStays
      <3> QED BY <3>1, NoneHandedOver
    <2>3. ASSUME NEW r \in recvReq, NEW how, complete(r, recvSeqnum, how) PROVE AbstractStep
      <3>1. r \in Requests /\ Holder(r) = "receiver" /\ recvReq = {r}
        BY <2>3, HolderIs DEF HolderFacts, TypeOK, Custody, OneRequestAtATime
      <3> QED BY <2>1, <2>3, <3>1, CompletedByHolder
    <2> QED BY <1>2, <2>2, <2>3 DEF recv_payload, wdfVars
  <1> QED BY <1>1, <1>2

\* The other steps leave every request where it is.
LEMMA RestLeavesHolders ==
  ASSUME Good, Good',
         \/ \E e \in Endpoints : endpoint_purge(e) \/ purge_complete(e) \/ endpoint_start(e)
         \/ recv_exit \/ DetachNext \/ UNCHANGED vars
  PROVE  AbstractStep
  <1>1. UNCHANGED <<cur, wdf, requests, stage, recvReq, purgeReq>>
    BY DEF endpoint_purge, purge_complete, endpoint_start, recv_exit, DetachNext, set_unplugged,
       close_socket, recv_thread_join, plugout_and_delete, device_cleanup, DetachStep, vars,
       wdfVars, threadVars, purgeVars, recvVars
  <1>2. ASSUME NEW p \in Requests PROVE Holder(p)' = Holder(p)
    BY <1>1, HolderStays
  <1> QED BY <1>2, NoneHandedOver

\* The five parties implement the hand-over of UrbCustody for any number of requests,
\* endpoints and URBs: nobody completes or takes a request that another one holds.
THEOREM CustodyRefinement == Spec => ImplementsCustody
  <1>1. Init => Holding!Init
    BY DEF Init, Holding!Init, Holder, NoStaleSend, IsOwned
  <1>2. IInv /\ IInv' /\ NoOrphans /\ NoOrphans' /\ [Next]_vars => AbstractStep
    <2> SUFFICES ASSUME IInv, IInv', NoOrphans, NoOrphans', [Next]_vars PROVE AbstractStep
      OBVIOUS
    <2>1. CASE ~NoStaleSend'
      <3>1. \A r \in Requests : Holder(r)' = "undefined"
        BY <2>1 DEF Holder
      <3>2. Holding!Undefined
        BY <3>1 DEF Holding!Undefined
      <3> QED BY <3>2 DEF AbstractStep, Holding!Next
    <2>2. CASE NoStaleSend'
      <3>1. NoStaleSend
        BY <2>2, FaultsGrow DEF IInv, NoStaleSend
      <3>2. Good /\ Good'
        BY <2>2, <3>1 DEF Good, IInv
      <3> QED
        BY <3>2, SubmitHandsOver, SendHandsOver, CancelHandsOver, PurgeHandsOver,
           RecvHandsOver, RestLeavesHolders
        DEF Next, SendNext, PurgeNext, RecvNext
    <2> QED BY <2>1, <2>2
  <1> QED
    BY <1>1, <1>2, Invariance, NoOrphansHolds, PTL
    DEF Spec, ImplementsCustody, Holding!Spec, AbstractStep
=============================================================================
