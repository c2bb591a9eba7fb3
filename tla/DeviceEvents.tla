---------------------------- MODULE DeviceEvents ----------------------------
(***************************************************************************)
(* Device state events of the virtual host controller (drivers/ude).       *)
(*                                                                         *)
(* An application reads events from a handle of the controller.  Its first *)
(* read subscribes the file object; a read that finds no event is parked   *)
(* in the manual queue vhci_ctx::reads.  device_state_changed hands an     *)
(* event to one parked read of each subscribed file object, or appends it  *)
(* to the file object's collection, whose size is bounded.  events_lock    *)
(* makes device_read, process_event, purge_read_queue and file_cleanup     *)
(* atomic; the first look at events_subscribers is taken without it.       *)
(***************************************************************************)
EXTENDS Naturals, Integers, Sequences, FiniteSets

CONSTANTS
    Files,      \* WDFFILEOBJECT handles
    Posters,    \* threads that call device_state_changed
    MaxEvents,  \* 4 * devices_cnt
    MaxPosts,   \* bound: calls of device_state_changed
    MaxReads    \* bound: reads of a file object that are not completed

ASSUME EventsAssumption ==
    /\ IsFiniteSet(Files)
    /\ MaxEvents \in Nat \ {0}
    /\ MaxPosts \in Nat
    /\ MaxReads \in Nat

Posts == 1..MaxPosts
NoPost == 0

VARIABLES
    file,          \* per file object: "none", "open", "cleaned"
    fileobjects,   \* vhci_ctx::fileobjects
    process_events,     \* file objects that have the flag set
    events_subscribers, \* vhci_ctx::events_subscribers
    events,        \* per file object, the collection: sequence of events
    waiting,       \* per file object, reads that device_read has not seen yet
    reads,         \* per file object, reads parked in vhci_ctx::reads
    purged,        \* vhci_ctx::reads does not accept requests
    poster,        \* per thread, progress of device_state_changed
    evt,           \* per thread, the event it posts
    posts,         \* number of calls of device_state_changed
    log,           \* history: events in the order process_event handled them
    audience,      \* history: per event, the subscribers when it was announced
    delivered,     \* history: per file object, events that reads returned
    dropped,       \* history: per file object, events that gave way to newer ones
    missed         \* history: per file object, events that could not be kept

fileVars == <<file, fileobjects, process_events, events_subscribers>>
postVars == <<poster, evt, posts, log, audience>>
vars == <<fileVars, events, waiting, reads, purged, postVars, delivered, dropped, missed>>

Subscribed == fileobjects \cap process_events

Init ==
    /\ file = [f \in Files |-> "none"]
    /\ fileobjects = {}
    /\ process_events = {}
    /\ events_subscribers = 0
    /\ events = [f \in Files |-> <<>>]
    /\ waiting = [f \in Files |-> 0]
    /\ reads = [f \in Files |-> 0]
    /\ purged = FALSE
    /\ poster = [p \in Posters |-> "idle"]
    /\ evt = [p \in Posters |-> NoPost]
    /\ posts = 0
    /\ log = <<>>
    /\ audience = [n \in Posts |-> {}]
    /\ delivered = [f \in Files |-> <<>>]
    /\ dropped = [f \in Files |-> {}]
    /\ missed = [f \in Files |-> {}]

-----------------------------------------------------------------------------
(* File objects.                                                            *)

device_file_create(f) ==
    /\ file[f] = "none"
    /\ file' = [file EXCEPT ![f] = "open"]
    /\ fileobjects' = fileobjects \cup {f}
    /\ UNCHANGED <<process_events, events_subscribers, events, waiting, reads, purged,
                   postVars, delivered, dropped, missed>>

\* Mutant of file_cleanup: the count is decremented for any file object.
file_cleanup_uncounts(f) ==
    /\ file[f] = "open"
    /\ file' = [file EXCEPT ![f] = "cleaned"]
    /\ fileobjects' = fileobjects \ {f}
    /\ events_subscribers' = events_subscribers - 1
    /\ UNCHANGED <<process_events, events, waiting, reads, purged, postVars, delivered,
                   dropped, missed>>

\* The last handle is closed.  A read another thread has sent may still be on
\* its way to device_read.
file_cleanup(f) ==
    /\ file[f] = "open"
    /\ file' = [file EXCEPT ![f] = "cleaned"]
    /\ fileobjects' = fileobjects \ {f}
    /\ events_subscribers' = IF f \in process_events THEN events_subscribers - 1
                                                     ELSE events_subscribers
    /\ UNCHANGED <<process_events, events, waiting, reads, purged, postVars, delivered,
                   dropped, missed>>

-----------------------------------------------------------------------------
(* Reads.                                                                   *)

\* External: the application calls ReadFile.
ReadFile(f) ==
    /\ file[f] = "open"
    /\ waiting[f] + reads[f] < MaxReads
    /\ waiting' = [waiting EXCEPT ![f] = @ + 1]
    /\ UNCHANGED <<fileVars, events, reads, purged, postVars, delivered, dropped, missed>>

\* External: a parked read is cancelled (canceled_on_queue completes it), or one
\* that was not delivered yet is cancelled by the framework.
CancelRead(f) ==
    /\ \/ reads[f] > 0 /\ reads' = [reads EXCEPT ![f] = @ - 1] /\ UNCHANGED waiting
       \/ waiting[f] > 0 /\ waiting' = [waiting EXCEPT ![f] = @ - 1] /\ UNCHANGED reads
    /\ UNCHANGED <<fileVars, events, purged, postVars, delivered, dropped, missed>>

\* The length of the buffer is wrong.
device_read_invalid(f) ==
    /\ waiting[f] > 0
    /\ waiting' = [waiting EXCEPT ![f] = @ - 1]
    /\ UNCHANGED <<fileVars, events, reads, purged, postVars, delivered, dropped, missed>>

subscribe(f) ==
    /\ process_events' = process_events \cup {f}
    /\ events_subscribers' = IF f \in process_events THEN events_subscribers
                                                     ELSE events_subscribers + 1

\* Mutant of device_read: the read is parked without a look at the collection.
device_read_parks(f) ==
    /\ waiting[f] > 0
    /\ waiting' = [waiting EXCEPT ![f] = @ - 1]
    /\ subscribe(f)
    /\ reads' = [reads EXCEPT ![f] = IF purged THEN @ ELSE @ + 1]
    /\ UNCHANGED <<file, fileobjects, events, purged, postVars, delivered, dropped, missed>>

\* Mutant of device_read: the last event of the collection is taken.
device_read_last(f) ==
    /\ waiting[f] > 0
    /\ waiting' = [waiting EXCEPT ![f] = @ - 1]
    /\ subscribe(f)
    /\ IF events[f] = <<>>
         THEN /\ reads' = [reads EXCEPT ![f] = IF purged THEN @ ELSE @ + 1]
              /\ UNCHANGED <<events, delivered>>
         ELSE /\ delivered' = [delivered EXCEPT ![f] = Append(@, events[f][Len(events[f])])]
              /\ events' = [events EXCEPT ![f] = SubSeq(@, 1, Len(@) - 1)]
              /\ UNCHANGED reads
    /\ UNCHANGED <<file, fileobjects, purged, postVars, dropped, missed>>

\* Under events_lock: subscribe, then take the first event or park.  The purged
\* queue refuses the read, which then ends with no data.
device_read(f) ==
    /\ waiting[f] > 0
    /\ waiting' = [waiting EXCEPT ![f] = @ - 1]
    /\ subscribe(f)
    /\ \/ /\ events[f] # <<>>
          /\ delivered' = [delivered EXCEPT ![f] = Append(@, Head(events[f]))]
          /\ events' = [events EXCEPT ![f] = Tail(@)]
          /\ UNCHANGED reads
       \/ /\ events[f] = <<>>
          /\ reads' = [reads EXCEPT ![f] = IF purged THEN @ ELSE @ + 1]
          /\ UNCHANGED <<events, delivered>>
    /\ UNCHANGED <<file, fileobjects, purged, postVars, dropped, missed>>

\* vhci_query_remove: parked reads are cancelled, later ones are refused.
purge_read_queue ==
    /\ purged' = TRUE
    /\ reads' = [f \in Files |-> 0]
    /\ UNCHANGED <<fileVars, events, waiting, postVars, delivered, dropped, missed>>

-----------------------------------------------------------------------------
(* device_state_changed.                                                    *)

\* The first look at events_subscribers, without the lock.
device_state_changed(p) ==
    /\ poster[p] = "idle"
    /\ posts < MaxPosts
    /\ posts' = posts + 1
    /\ evt' = [evt EXCEPT ![p] = posts']
    /\ poster' = [poster EXCEPT ![p] = IF events_subscribers = 0 THEN "recheck" ELSE "make"]
    /\ audience' = [audience EXCEPT ![posts'] = Subscribed]
    /\ UNCHANGED <<fileVars, events, waiting, reads, purged, log, delivered, dropped, missed>>

\* The second look, under events_lock.
recheck_subscribers(p) ==
    /\ poster[p] = "recheck"
    /\ poster' = [poster EXCEPT ![p] = IF events_subscribers = 0 THEN "idle" ELSE "make"]
    /\ UNCHANGED <<fileVars, events, waiting, reads, purged, evt, posts, log, audience,
                   delivered, dropped, missed>>

\* make_device_state has no memory.
make_device_state_failed(p) ==
    /\ poster[p] = "make"
    /\ poster' = [poster EXCEPT ![p] = "idle"]
    /\ audience' = [audience EXCEPT ![evt[p]] = {}]
    /\ UNCHANGED <<fileVars, events, waiting, reads, purged, evt, posts, log, delivered,
                   dropped, missed>>

\* The collection is over its bound with one more event.
Full(f) == Len(events[f]) + 1 > MaxEvents

\* Under events_lock, for each subscribed file object: complete one parked read,
\* or append the event and drop the oldest if there are too many.  lost: the
\* collection cannot grow, or the purged queue answers neither with a request nor
\* with STATUS_NO_MORE_ENTRIES.
process_event(p, lost) ==
    LET n == evt[p]
        served == {f \in Subscribed : reads[f] > 0}
        kept == Subscribed \ (served \cup lost)
        full == {f \in kept : Full(f)}
    IN
    /\ poster[p] = "make"
    /\ poster' = [poster EXCEPT ![p] = "idle"]
    /\ log' = Append(log, n)
    /\ reads' = [f \in Files |-> IF f \in served THEN reads[f] - 1 ELSE reads[f]]
    /\ delivered' = [f \in Files |->
                       IF f \in served THEN Append(delivered[f], n) ELSE delivered[f]]
    /\ events' = [f \in Files |-> IF f \in full THEN Tail(Append(events[f], n))
                                  ELSE IF f \in kept THEN Append(events[f], n)
                                  ELSE events[f]]
    /\ dropped' = [f \in Files |->
                     IF f \in full THEN dropped[f] \cup {Head(Append(events[f], n))}
                                   ELSE dropped[f]]
    /\ missed' = [f \in Files |->
                    IF f \in Subscribed \ (served \cup kept) THEN missed[f] \cup {n}
                                                             ELSE missed[f]]
    /\ UNCHANGED <<fileVars, waiting, purged, evt, posts, audience>>

-----------------------------------------------------------------------------
FileNext == \E f \in Files :
    \/ device_file_create(f)
    \/ file_cleanup(f)
    \/ ReadFile(f)
    \/ CancelRead(f)
    \/ device_read_invalid(f)
    \/ device_read(f)

PostNext == \E p \in Posters :
    \/ device_state_changed(p)
    \/ recheck_subscribers(p)
    \/ make_device_state_failed(p)
    \/ \E lost \in SUBSET Subscribed : process_event(p, lost)

Next == FileNext \/ PostNext \/ purge_read_queue

Spec == Init /\ [][Next]_vars

-----------------------------------------------------------------------------
(* Properties.                                                              *)

Elements(s) == {s[i] : i \in DOMAIN s}

\* Type invariant; the collection never exceeds its bound.
TypeOK ==
    /\ file \in [Files -> {"none", "open", "cleaned"}]
    /\ fileobjects \in SUBSET Files
    /\ process_events \in SUBSET Files
    /\ events_subscribers \in Int
    /\ events \in [Files -> Seq(Posts)]
    /\ \A f \in Files : Len(events[f]) <= MaxEvents
    /\ waiting \in [Files -> Nat]
    /\ reads \in [Files -> Nat]
    /\ purged \in BOOLEAN
    /\ poster \in [Posters -> {"idle", "recheck", "make"}]
    /\ evt \in [Posters -> Posts \cup {NoPost}]
    /\ \A p \in Posters : poster[p] = "idle" \/ evt[p] \in Posts
    /\ posts \in 0..MaxPosts
    /\ log \in Seq(Posts)
    /\ audience \in [Posts -> SUBSET Files]
    /\ delivered \in [Files -> Seq(Posts)]
    /\ dropped \in [Files -> SUBSET Posts]
    /\ missed \in [Files -> SUBSET Posts]

\* The assertion of process_event: a file object with a parked read has no event
\* waiting, so a reader never sleeps while there is something to read.
ParkedReadMeansNoEvents == \A f \in Files : reads[f] > 0 => events[f] = <<>>

\* Events reach every reader in the order process_event handled them, each once,
\* the ones still waiting after the ones already read.
EventsInOrder ==
    \A f \in Files :
        LET s == delivered[f] \o events[f] IN
        \A i, j \in DOMAIN s : i < j =>
            \E k, m \in DOMAIN log : k < m /\ log[k] = s[i] /\ log[m] = s[j]

Heard(f) == Elements(delivered[f]) \cup Elements(events[f]) \cup dropped[f] \cup missed[f]

\* The call that announced event n has returned.
Over(n) == \A p \in Posters : evt[p] = n => poster[p] = "idle"

\* A file object that had subscribed before device_state_changed was called, and
\* is still open when the call is over, has the event: read, waiting, replaced by
\* newer ones, or lost for want of memory or because reads was purged.
SubscribersHearEvents ==
    \A n \in 1..posts : Over(n) =>
        \A f \in audience[n] \cap fileobjects : n \in Heard(f)

-----------------------------------------------------------------------------
(* The inductive invariant.  The count may be too high, never too low: that   *)
(* is why no subscriber is forgotten when it reads as zero.                   *)

FileStates ==
    \A f \in Files :
        /\ f \in fileobjects <=> file[f] = "open"
        /\ file[f] = "none" => waiting[f] = 0 /\ f \notin process_events

AudienceIsSubscribed == \A n \in Posts : audience[n] \subseteq process_events

CountCovers == Cardinality(Subscribed) <= events_subscribers

IInv ==
    /\ TypeOK
    /\ FileStates
    /\ AudienceIsSubscribed
    /\ CountCovers
    /\ ParkedReadMeansNoEvents
    /\ SubscribersHearEvents
=============================================================================
