--------------------------- MODULE ClientThreads ---------------------------
(***************************************************************************)
(* The threads of wusbip: the GUI thread, the thread of read_loop, and the *)
(* thread that run_cancellable starts for every call that may block, which *)
(* asks the driver or connects to a server (Remote).  What the GUI thread  *)
(* does with a connection (DeviceList) and with the persistent devices     *)
(* (SavedDevices) it does itself.  What matters here is that it gets back  *)
(* from its waits, and what it has then.                                   *)
(*                                                                         *)
(* The driver, the network and the user are left open: a request in the    *)
(* driver may stay there for ever, a read may be completed at any time.    *)
(***************************************************************************)
EXTENDS Remote, DeviceList, SavedDevices

CONSTANTS
  MaxTries,             \* of break_read_loop, 300 in the code
  MaxEvents             \* DeviceStateEvents queued for the GUI thread

ASSUME ThreadsAssumption == MaxTries \in Nat \ {0} /\ MaxEvents \in Nat

VARIABLES
  rd,                   \* the thread of read_loop
  posted,               \* number of events queued for the GUI thread
  gui,                  \* where the GUI thread is
  op,                   \* the call in run_cancellable, or "none"
  wk,                   \* the thread of run_cancellable
  wreq,                 \* its DeviceIoControl
  evt,                  \* get_event()
  ended,                \* EndModal was posted to the dialog
  tray,                 \* m_close_to_tray
  hidden,               \* the window is hidden, its icon is in the tray
  tries,                \* of break_read_loop
  overtaken             \* CancelSynchronousIo came too late and succeeded

runVars == <<op, wk, wreq, evt, ended>>
frameVars == <<tray, hidden>>
closeVars == <<tries, overtaken>>
ownVars == <<listVars, savedVars>>
vars == <<rd, posted, gui, runVars, frameVars, closeVars, remoteVars, ownVars>>

Init ==
  /\ RemoteInit /\ ListInit /\ SavedInit
  /\ rd = "ready" /\ posted = 0 /\ gui = "idle"
  /\ op = "none" /\ wk = "none" /\ wreq = "none" /\ evt = FALSE /\ ended = FALSE
  /\ tray \in BOOLEAN /\ hidden = FALSE
  /\ tries = 0 /\ overtaken = FALSE
-----------------------------------------------------------------------------
(***************************************************************************)
(* read_loop.  The read is completed by the driver, or fails because it is *)
(* cancelled or the driver is gone; then the handle is closed.             *)
(***************************************************************************)
readerFrame == <<gui, runVars, frameVars, closeVars, remoteVars, ownVars>>

ReadFile ==
  /\ rd = "ready" /\ rd' = "reading"
  /\ UNCHANGED <<posted, readerFrame>>

QueueEvent ==
  /\ rd = "completing" /\ posted < MaxEvents
  /\ rd' = "ready" /\ posted' = posted + 1
  /\ UNCHANGED readerFrame

read_loop_exit ==
  /\ rd = "aborted" /\ rd' = "closed"
  /\ UNCHANGED <<posted, readerFrame>>

\* What the driver's complete_read may make of a read: the record, nothing if the buffer
\* of the request cannot be used, or an end of file from a queue that was purged.  A
\* driver of another version writes a record of another size.
Completions == {"record", "other size", "other abi", "eof", "error"}

complete_read(c) == [success |-> c # "error", actual |-> c \notin {"eof", "error"}]

get_device_state(c) == c \notin {"other size", "other abi"}

read_device_state(c) ==
  complete_read(c).success /\ complete_read(c).actual /\ get_device_state(c)

\* Whatever is no record ends the loop.
ReadDone ==
  /\ rd = "reading"
  /\ \E c \in Completions : rd' = IF read_device_state(c) THEN "completing" ELSE "aborted"
  /\ UNCHANGED <<posted, readerFrame>>

ReaderStep == ReadFile \/ QueueEvent \/ read_loop_exit
-----------------------------------------------------------------------------
(***************************************************************************)
(* The GUI thread handles events when it is idle and in a modal dialog.    *)
(***************************************************************************)
guiFrame == <<rd, frameVars, closeVars, ownVars>>

on_device_state ==
  /\ gui \in {"idle", "modal"} /\ posted > 0 /\ posted' = posted - 1
  /\ UNCHANGED <<rd, readerFrame>>

(***************************************************************************)
(* run_cancellable.  The GUI thread waits for a second, then shows the     *)
(* dialog, which handles events until its thread posts EndModal or the     *)
(* user presses Cancel, and at last joins the thread.                      *)
(***************************************************************************)
run_cancellable(o) ==
  /\ gui = "idle" /\ gui' = "wait"
  /\ op' = o /\ wk' = "func"
  /\ UNCHANGED <<guiFrame, posted, wreq, evt, ended>>

call_driver == run_cancellable("ioctl") /\ UNCHANGED remoteVars

connect ==
  /\ run_cancellable("connect") /\ conn' = "resolve"
  /\ UNCHANGED <<left, err, apc, resolver, lost>>

WaitDone ==
  /\ gui = "wait" /\ evt /\ gui' = "join"
  /\ UNCHANGED <<guiFrame, posted, runVars, remoteVars>>

WaitTimeout ==
  /\ gui = "wait" /\ ~evt /\ gui' = "modal"
  /\ UNCHANGED <<guiFrame, posted, runVars, remoteVars>>

EndModal ==
  /\ gui = "modal" /\ ended /\ gui' = "join"
  /\ UNCHANGED <<guiFrame, posted, runVars, remoteVars>>

CancelPressed ==
  /\ gui = "modal" /\ gui' = IF evt THEN "join" ELSE "cancel"
  /\ UNCHANGED <<guiFrame, posted, runVars, remoteVars>>

(***************************************************************************)
(* cancel_connect queues an APC; CancelSynchronousIo takes a request that  *)
(* was not dispatched yet out of the queue.  One that the driver works on  *)
(* ends when the driver ends it.  An error of either call is logged, and   *)
(* the thread is joined all the same.                                      *)
(***************************************************************************)
cancel ==
  /\ gui = "cancel"
  /\ \/ /\ gui' = "cancelled"
        /\ apc' = (op = "connect" /\ wk # "exited")
        /\ wreq' = IF wreq = "sent" THEN "done" ELSE wreq
     \/ gui' = "uncancelled" /\ UNCHANGED <<apc, wreq>>
  /\ UNCHANGED <<guiFrame, posted, op, wk, evt, ended, conn, left, err,
                 resolver, lost>>

\* A connection is for add_exported_devices, which goes on with it.
join ==
  /\ gui \in {"join", "cancelled", "uncancelled"} /\ wk = "exited"
  /\ gui' = IF conn = "connected" THEN "marks" ELSE "idle"
  /\ op' = "none" /\ wk' = "none" /\ wreq' = "none"
  /\ evt' = FALSE /\ ended' = FALSE
  /\ conn' = "idle" /\ left' = 0 /\ err' = "none" /\ apc' = FALSE
  /\ resolver' = "none" /\ lost' = FALSE
  /\ UNCHANGED <<guiFrame, posted>>
-----------------------------------------------------------------------------
(***************************************************************************)
(* The thread: the function, SetEvent, CallAfter(EndModal).                *)
(***************************************************************************)
workerFrame == <<rd, posted, gui, frameVars, closeVars, op, ownVars>>

DeviceIoControl ==
  /\ wk = "func" /\ op = "ioctl" /\ wreq = "none" /\ wreq' = "sent"
  /\ UNCHANGED <<workerFrame, wk, evt, ended, remoteVars>>

FunctionReturns ==
  /\ wk = "func"
  /\ wreq = "done" \/ conn \in {"connected", "failed"}
  /\ wk' = "set"
  /\ UNCHANGED <<workerFrame, wreq, evt, ended, remoteVars>>

SetEvent ==
  /\ wk = "set" /\ wk' = "post" /\ evt' = TRUE
  /\ UNCHANGED <<workerFrame, wreq, ended, remoteVars>>

CallAfter ==
  /\ wk = "post" /\ wk' = "exited" /\ ended' = TRUE
  /\ UNCHANGED <<workerFrame, wreq, evt, remoteVars>>

WorkerStep ==
  \/ DeviceIoControl \/ FunctionReturns \/ SetEvent \/ CallAfter
  \/ ConnectStep /\ UNCHANGED <<workerFrame, wk, wreq, evt, ended>>

(***************************************************************************)
(* The driver dispatches a request, and completes it.                      *)
(***************************************************************************)
Ioctl ==
  /\ \/ wreq = "sent" /\ wreq' = "active"
     \/ wreq = "active" /\ wreq' = "done"
  /\ UNCHANGED <<workerFrame, wk, evt, ended, remoteVars>>

remoteFrame == <<workerFrame, wk, wreq, evt, ended>>
-----------------------------------------------------------------------------
(***************************************************************************)
(* What the GUI thread does itself: on_save, on_load, and                  *)
(* add_exported_devices once it is connected.  No event is handled         *)
(* meanwhile.                                                              *)
(***************************************************************************)
ownFrame == <<rd, posted, runVars, frameVars, closeVars, remoteVars>>

on_save == gui = "idle" /\ save /\ UNCHANGED <<gui, listVars, ownFrame>>

on_load ==
  /\ gui = "idle" /\ gui' = "load"
  /\ begin_get_persistent
  /\ UNCHANGED <<listVars, ownFrame>>

\* The rows are marked, in on_load or before the devices of the server are listed.
update_from_saved ==
  /\ gui \in {"load", "marks"} /\ end_get_persistent
  /\ \/ gui = "load" /\ gui' = "idle" /\ UNCHANGED listVars
     \/ gui = "marks" /\ gui' = "list" /\ enum' = "send" /\ UNCHANGED <<peer, ndev, shown>>
  /\ UNCHANGED ownFrame

GetPersistent ==
  /\ \/ gui = "marks" /\ begin_get_persistent
     \/ get_persistent_call
  /\ UNCHANGED <<gui, listVars, ownFrame>>

SendListRequest == gui = "list" /\ send_op_common /\ UNCHANGED <<gui, savedVars, ownFrame>>

\* The devices that were shown before an error stay in the tree.
add_exported_devices ==
  /\ gui = "list" /\ enum \in {"done", "failed"} /\ gui' = "idle"
  /\ enum' = "idle" /\ peer' = "open" /\ ndev' = 0 /\ shown' = <<>>
  /\ UNCHANGED <<savedVars, ownFrame>>

\* Nothing bounds the time that the server takes.
ServerAnswers == gui = "list" /\ Receive /\ UNCHANGED <<gui, savedVars, ownFrame>>

\* The command line tool is another process.
OtherClient == cmd_port /\ UNCHANGED <<gui, listVars, ownFrame>>
-----------------------------------------------------------------------------
(***************************************************************************)
(* on_close: the window is hidden if it may be, else break_read_loop       *)
(* cancels the read of the other thread until there was one to cancel, or  *)
(* the handle is closed.  A read that was just completed is found too, but *)
(* it is not cancelled any more.  Any error of CancelSynchronousIo but     *)
(* ERROR_NOT_FOUND ends the loop, and the reader is joined where it is.    *)
(***************************************************************************)
closeFrame == <<posted, runVars, remoteVars, ownVars>>

iconize_to_tray ==
  /\ gui = "idle" /\ tray /\ ~hidden
  /\ hidden' \in BOOLEAN
  /\ UNCHANGED <<gui, tray, rd, closeVars, closeFrame>>

Restore ==
  /\ gui = "idle" /\ hidden /\ hidden' = FALSE
  /\ UNCHANGED <<gui, tray, rd, closeVars, closeFrame>>

on_close_to_tray ==
  /\ gui = "idle" /\ ~hidden /\ tray' = ~tray
  /\ UNCHANGED <<gui, hidden, rd, closeVars, closeFrame>>

\* The event cannot be vetoed if it is Close(true) of on_exit.
on_close ==
  /\ gui = "idle" /\ gui' = "close"
  /\ UNCHANGED <<frameVars, rd, closeVars, closeFrame>>

\* Mutant: the loop ends when there is nothing to cancel.
break_read_loop_once ==
  /\ gui = "close" /\ gui' = "join_reader"
  /\ rd' = IF rd = "reading" THEN "aborted" ELSE rd
  /\ overtaken' = (overtaken \/ rd = "completing")
  /\ UNCHANGED <<frameVars, tries, closeFrame>>

break_read_loop ==
  /\ gui = "close"
  /\ \/ /\ rd = "reading" /\ rd' = "aborted"
        /\ gui' = "join_reader" /\ UNCHANGED closeVars
     \/ /\ rd \in {"aborted", "closed"}
        /\ gui' = "join_reader" /\ UNCHANGED <<rd, closeVars>>
     \/ /\ rd = "completing" /\ overtaken' = TRUE
        /\ gui' = "join_reader" /\ UNCHANGED <<rd, tries>>
     \/ /\ rd # "closed"
        /\ gui' = "join_uncancelled" /\ UNCHANGED <<rd, closeVars>>
     \/ /\ rd \in {"ready", "completing", "aborted"} /\ tries' = tries + 1
        /\ gui' = IF tries' = MaxTries THEN "join_reader" ELSE gui
        /\ UNCHANGED <<rd, overtaken>>
  /\ UNCHANGED <<frameVars, closeFrame>>

read_thread_join ==
  /\ gui \in {"join_reader", "join_uncancelled"} /\ rd = "closed" /\ gui' = "closed"
  /\ UNCHANGED <<frameVars, rd, closeVars, closeFrame>>

GuiStep ==
  \/ WaitDone \/ WaitTimeout \/ EndModal \/ cancel \/ join
  \/ break_read_loop \/ read_thread_join
  \/ update_from_saved \/ GetPersistent \/ SendListRequest \/ add_exported_devices

User ==
  \/ call_driver \/ connect \/ CancelPressed
  \/ iconize_to_tray \/ Restore \/ on_close_to_tray \/ on_close
  \/ on_save \/ on_load

Next ==
  \/ ReaderStep \/ ReadDone \/ on_device_state \/ GuiStep \/ WorkerStep
  \/ Ioctl \/ User \/ ServerAnswers \/ OtherClient
  \/ (Network \/ ResolverStops) /\ UNCHANGED remoteFrame

Spec == Init /\ [][Next]_vars

(***************************************************************************)
(* The threads of the program run, and the resolver ends a request that    *)
(* was cancelled.  Nothing is assumed of the network, of the driver or of  *)
(* the user.                                                               *)
(***************************************************************************)
FairSpec ==
  /\ Spec
  /\ WF_vars(GuiStep) /\ WF_vars(WorkerStep) /\ WF_vars(ReaderStep)
  /\ WF_vars(ResolverStops /\ UNCHANGED remoteFrame)
-----------------------------------------------------------------------------
(***************************************************************************)
(* Closing the window ends the reader thread and the program, unless       *)
(* CancelSynchronousIo hit a read that had just been completed, never met  *)
(* a read in all its tries, or failed with an error that ends the loop,    *)
(* wusbip.cpp:606-609 (break_read_loop, on_close).                         *)
(***************************************************************************)
CloseEnds ==
  gui = "close" ~>
    (gui = "closed" \/ overtaken \/ tries = MaxTries \/ gui = "join_uncancelled")

(***************************************************************************)
(* A call whose function has returned, and a connect the user has          *)
(* cancelled, give the GUI thread back, whatever the network does, if only *)
(* to the blocking calls of the device list; but for a cancellation that   *)
(* comes when the name was just being resolved.  A connect whose APC could *)
(* not be queued (wxutils.cpp:129-133) is not cancelled, and may last      *)
(* (run_cancellable, cancel_connect, wait_for_resolve, try_connect).       *)
(***************************************************************************)
CommandEnds ==
  (wk \in {"set", "post", "exited"} \/ (gui = "cancelled" /\ op = "connect"))
    ~> (gui \in {"idle", "list"} \/ lost)
-----------------------------------------------------------------------------
(***************************************************************************)
(* What CloseEnds and CommandEnds rest on, without fairness: whatever the  *)
(* GUI thread blocks on is about to happen.  First the reader: it is       *)
(* joined when it has left its loop, or will leave it, but for the three   *)
(* exceptions of CloseEnds: a join after another error of                  *)
(* CancelSynchronousIo is join_uncancelled (break_read_loop,               *)
(* read_thread_join).                                                      *)
(***************************************************************************)
JoinedReaderEnds ==
  gui = "join_reader" => rd \in {"aborted", "closed"} \/ overtaken \/ tries = MaxTries

(***************************************************************************)
(* The cancellation of a connect is neither dropped nor used up in vain:   *)
(* until the thread is joined the APC still waits for an alertable wait,   *)
(* or has ended one, or the function is over; or else the name was just    *)
(* being resolved (cancel_connect, wait_for_resolve, try_connect).         *)
(***************************************************************************)
CancelIsNotLost ==
  gui = "cancelled" /\ op = "connect" =>
    \/ apc \/ lost
    \/ wk \in {"set", "post", "exited"}
    \/ conn \in {"connected", "failed"}
    \/ conn = "cancelling" /\ resolver \in {"cancelled", "stopped", "ok"}

Blocked == {"wait", "modal", "cancel", "cancelled", "uncancelled", "join"}

\* The inductive invariant behind both, on the thread of run_cancellable.
ThreadsInv ==
  /\ gui \in Blocked <=> wk # "none"
  /\ gui = "join" => wk \in {"post", "exited"}
  /\ evt => wk \in {"post", "exited"}
  /\ ended => wk = "exited"
  /\ wk \in {"none", "func", "set", "post", "exited"}
  /\ conn = "cancelling" => resolver \in {"cancelled", "stopped", "ok"}
  /\ JoinedReaderEnds /\ CancelIsNotLost
=============================================================================
