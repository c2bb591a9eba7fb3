----------------------------- MODULE VhciProofs -----------------------------
(***************************************************************************)
(* Proofs about the two modules of drivers/ude/vhci.cpp.  DeviceEvents,    *)
(* for any finite set of file objects, any threads and any bounds; its     *)
(* invariant is IInv.  DriverLifecycle, for any set of attempts, any       *)
(* number of addresses and any registry; its invariant is LifecycleInv.    *)
(***************************************************************************)
EXTENDS DeviceEvents, DriverLifecycle, FiniteSetTheorems, SequenceTheorems, TLAPS

-----------------------------------------------------------------------------
(* Sequences.                                                               *)

\* The elements of a sequence that was appended to.
LEMMA ElementsAppend ==
  ASSUME NEW S, NEW s \in Seq(S), NEW x \in S
  PROVE  Elements(Append(s, x)) = Elements(s) \cup {x}
  <1>1. DOMAIN s = 1..Len(s) /\ DOMAIN Append(s, x) = 1..(Len(s) + 1) /\ Len(s) \in Nat
    OBVIOUS
  <1>2. \A i \in 1..Len(s) : Append(s, x)[i] = s[i]
    OBVIOUS
  <1>3. Append(s, x)[Len(s) + 1] = x
    OBVIOUS
  <1> QED BY <1>1, <1>2, <1>3 DEF Elements

\* The elements of a sequence are its head and those of its tail.
LEMMA ElementsTail ==
  ASSUME NEW S, NEW s \in Seq(S), s # <<>>
  PROVE  Elements(s) = {Head(s)} \cup Elements(Tail(s))
  <1>1. Len(s) \in Nat /\ Len(s) > 0 /\ DOMAIN s = 1..Len(s)
    OBVIOUS
  <1>2. DOMAIN Tail(s) = 1..(Len(s) - 1)
    BY <1>1
  <1>3. \A i \in 1..(Len(s) - 1) : Tail(s)[i] = s[i + 1]
    BY <1>1
  <1>4. Head(s) = s[1]
    BY <1>1
  <1>5. \A i \in 1..Len(s) : i = 1 \/ i - 1 \in 1..(Len(s) - 1)
    BY <1>1
  <1>6. \A i \in 1..(Len(s) - 1) : i + 1 \in 1..Len(s)
    BY <1>1
  <1>7. ASSUME NEW x \in Elements(s) PROVE x \in {Head(s)} \cup Elements(Tail(s))
    <2>1. PICK i \in 1..Len(s) : x = s[i]
      BY <1>1, <1>7 DEF Elements
    <2>2. CASE i = 1
      BY <2>1, <2>2, <1>4
    <2>3. CASE i - 1 \in 1..(Len(s) - 1)
      <3>1. Tail(s)[i - 1] = s[i]
        BY <2>3, <1>3, <1>1
      <3> QED BY <3>1, <2>1, <2>3, <1>2 DEF Elements
    <2> QED BY <2>2, <2>3, <1>5
  <1>8. Head(s) \in Elements(s)
    BY <1>1, <1>4 DEF Elements
  <1>9. Elements(Tail(s)) \subseteq Elements(s)
    BY <1>1, <1>2, <1>3, <1>6 DEF Elements
  <1> QED BY <1>7, <1>8, <1>9

-----------------------------------------------------------------------------
(* Type correctness.                                                        *)

\* The initial state is well typed.
LEMMA TypeInit == Init => TypeOK
  <1> SUFFICES ASSUME Init PROVE TypeOK
    OBVIOUS
  <1> USE EventsAssumption DEF Init
  <1>1. <<>> \in Seq(Posts) /\ Len(<<>>) = 0
    OBVIOUS
  <1>2. /\ events \in [Files -> Seq(Posts)] /\ delivered \in [Files -> Seq(Posts)]
        /\ log \in Seq(Posts)
    BY <1>1
  <1>3. \A f \in Files : Len(events[f]) <= MaxEvents
    BY <1>1
  <1>4. waiting \in [Files -> Nat] /\ reads \in [Files -> Nat]
    OBVIOUS
  <1>5. /\ evt \in [Posters -> Posts \cup {NoPost}]
        /\ audience \in [Posts -> SUBSET Files]
    OBVIOUS
  <1>6. poster \in [Posters -> {"idle", "recheck", "make"}]
        /\ \A p \in Posters : poster[p] = "idle"
    OBVIOUS
  <1>7. posts \in 0..MaxPosts /\ events_subscribers \in Int
    OBVIOUS
  <1>8. dropped \in [Files -> SUBSET Posts] /\ missed \in [Files -> SUBSET Posts]
    OBVIOUS
  <1> QED BY <1>2, <1>3, <1>4, <1>5, <1>6, <1>7, <1>8 DEF TypeOK

\* process_event keeps the collections within their bound.
LEMMA ProcessType ==
  ASSUME TypeOK, NEW p \in Posters, NEW lost \in SUBSET Subscribed, process_event(p, lost)
  PROVE  TypeOK'
  <1> USE EventsAssumption DEF Subscribed, fileVars
  <1>1. evt[p] \in Posts
    BY DEF process_event, TypeOK
  <1>2. /\ poster' \in [Posters -> {"idle", "recheck", "make"}]
        /\ \A q \in Posters : poster'[q] = "idle" \/ evt[q] \in Posts
    BY DEF process_event, TypeOK
  <1>3. log' \in Seq(Posts)
    BY <1>1 DEF process_event, TypeOK
  <1>4. reads' \in [Files -> Nat]
    BY DEF process_event, TypeOK
  <1>5. delivered' \in [Files -> Seq(Posts)]
    BY <1>1 DEF process_event, TypeOK
  <1>6. ASSUME NEW f \in Files
        PROVE  /\ Append(events[f], evt[p]) \in Seq(Posts)
               /\ Len(Append(events[f], evt[p])) = Len(events[f]) + 1
               /\ Len(events[f]) \in Nat
               /\ Tail(Append(events[f], evt[p])) \in Seq(Posts)
               /\ Len(Tail(Append(events[f], evt[p]))) = Len(events[f])
               /\ Head(Append(events[f], evt[p])) \in Posts
    <2>1. events[f] \in Seq(Posts)
      BY DEF TypeOK
    <2> QED BY <2>1, <1>1
  <1>7. ASSUME NEW f \in Files
        PROVE  events'[f] \in Seq(Posts) /\ Len(events'[f]) <= MaxEvents
    <2>1. events[f] \in Seq(Posts) /\ Len(events[f]) <= MaxEvents
      BY DEF TypeOK
    <2> QED BY <2>1, <1>6 DEF process_event, Full
  <1>8. events' \in [Files -> Seq(Posts)]
    <2>1. events' = [f \in Files |-> events'[f]]
      BY DEF process_event
    <2> QED BY <2>1, <1>7
  <1>9. dropped' \in [Files -> SUBSET Posts]
    BY <1>6 DEF process_event, TypeOK
  <1>10. missed' \in [Files -> SUBSET Posts]
    BY <1>1 DEF process_event, TypeOK
  <1> QED
    BY <1>2, <1>3, <1>4, <1>5, <1>7, <1>8, <1>9, <1>10 DEF process_event, TypeOK

\* Every handler keeps the state well typed.
LEMMA TypeNext == TypeOK /\ [Next]_vars => TypeOK'
  <1> SUFFICES ASSUME TypeOK, [Next]_vars PROVE TypeOK'
    OBVIOUS
  <1> USE EventsAssumption DEF TypeOK, fileVars, postVars, Posts, NoPost
  <1>1. ASSUME NEW f \in Files, device_file_create(f) PROVE TypeOK'
    BY <1>1 DEF device_file_create
  <1>2. ASSUME NEW f \in Files, file_cleanup(f) PROVE TypeOK'
    BY <1>2 DEF file_cleanup
  <1>3. ASSUME NEW f \in Files, ReadFile(f) PROVE TypeOK'
    BY <1>3 DEF ReadFile
  <1>4. ASSUME NEW f \in Files, CancelRead(f) PROVE TypeOK'
    <2>1. CASE reads[f] > 0 /\ reads' = [reads EXCEPT ![f] = @ - 1] /\ UNCHANGED waiting
      BY <1>4, <2>1 DEF CancelRead
    <2>2. CASE waiting[f] > 0 /\ waiting' = [waiting EXCEPT ![f] = @ - 1] /\ UNCHANGED reads
      BY <1>4, <2>2 DEF CancelRead
    <2> QED BY <1>4, <2>1, <2>2 DEF CancelRead
  <1>5. ASSUME NEW f \in Files, device_read_invalid(f) PROVE TypeOK'
    BY <1>5 DEF device_read_invalid
  <1>6. ASSUME NEW f \in Files, device_read(f) PROVE TypeOK'
    <2>1. events[f] \in Seq(Posts) /\ Len(events[f]) <= MaxEvents
      OBVIOUS
    <2>2. events[f] # <<>> => /\ Tail(events[f]) \in Seq(Posts)
                             /\ Len(Tail(events[f])) <= MaxEvents
                             /\ Head(events[f]) \in Posts
      BY <2>1
    <2>3. events[f] # <<>> => Append(delivered[f], Head(events[f])) \in Seq(Posts)
      BY <2>2
    <2>4. waiting' \in [Files -> Nat]
      BY <1>6 DEF device_read
    <2>5. process_events' \in SUBSET Files /\ events_subscribers' \in Int
      BY <1>6 DEF device_read, subscribe
    <2>6. /\ events' \in [Files -> Seq(Posts)]
          /\ \A g \in Files : Len(events'[g]) <= MaxEvents
          /\ delivered' \in [Files -> Seq(Posts)]
          /\ reads' \in [Files -> Nat]
      <3>1. CASE events[f] = <<>>
        <4>1. /\ reads' = [reads EXCEPT ![f] = IF purged THEN @ ELSE @ + 1]
              /\ UNCHANGED <<events, delivered>>
          BY <1>6, <3>1 DEF device_read
        <4> QED BY <4>1
      <3>2. CASE events[f] # <<>>
        <4>1. /\ delivered' = [delivered EXCEPT ![f] = Append(@, Head(events[f]))]
              /\ events' = [events EXCEPT ![f] = Tail(@)]
              /\ UNCHANGED reads
          BY <1>6, <3>2 DEF device_read
        <4>2. delivered' \in [Files -> Seq(Posts)]
          BY <4>1, <2>3, <3>2
        <4>3. events' \in [Files -> Seq(Posts)]
          BY <4>1, <2>2, <3>2
        <4>4. \A g \in Files : Len(events'[g]) <= MaxEvents
          BY <4>1, <2>2, <3>2
        <4> QED BY <4>1, <4>2, <4>3, <4>4
      <3> QED BY <3>1, <3>2
    <2> QED BY <1>6, <2>4, <2>5, <2>6 DEF device_read
  <1>7. ASSUME NEW p \in Posters, device_state_changed(p) PROVE TypeOK'
    BY <1>7 DEF device_state_changed, Subscribed
  <1>8. ASSUME NEW p \in Posters, recheck_subscribers(p) PROVE TypeOK'
    BY <1>8 DEF recheck_subscribers
  <1>9. ASSUME NEW p \in Posters, make_device_state_failed(p) PROVE TypeOK'
    BY <1>9 DEF make_device_state_failed
  <1>10. ASSUME purge_read_queue PROVE TypeOK'
    BY <1>10 DEF purge_read_queue
  <1>11. CASE UNCHANGED vars
    BY <1>11 DEF vars
  <1> HIDE DEF TypeOK
  <1> QED
    BY <1>1, <1>2, <1>3, <1>4, <1>5, <1>6, <1>7, <1>8, <1>9, <1>10, <1>11, ProcessType
    DEF Next, FileNext, PostNext

-----------------------------------------------------------------------------
(* What a file object has heard of is never forgotten.                      *)

\* A read moves an event from the collection to the application.
LEMMA ReadHeard ==
  ASSUME TypeOK, NEW f \in Files, device_read(f)
  PROVE  \A g \in Files : Heard(g)' = Heard(g)
  <1> SUFFICES ASSUME NEW g \in Files PROVE Heard(g)' = Heard(g)
    OBVIOUS
  <1>1. events[f] \in Seq(Posts) /\ delivered[f] \in Seq(Posts)
    BY DEF TypeOK
  <1>2. CASE events[f] = <<>> \/ g # f
    <2>1. events'[g] = events[g] /\ delivered'[g] = delivered[g]
      BY <1>2 DEF device_read, TypeOK
    <2> QED BY <2>1 DEF Heard, device_read, Elements
  <1>3. CASE events[f] # <<>> /\ g = f
    <2>1. Head(events[f]) \in Posts
      BY <1>1, <1>3
    <2>2. /\ events'[f] = Tail(events[f])
          /\ delivered'[f] = Append(delivered[f], Head(events[f]))
      BY <1>3 DEF device_read, TypeOK
    <2>3. Elements(delivered'[f]) = Elements(delivered[f]) \cup {Head(events[f])}
      BY <2>1, <2>2, <1>1, ElementsAppend
    <2>4. Elements(events[f]) = {Head(events[f])} \cup Elements(events'[f])
      BY <2>2, <1>1, <1>3, ElementsTail
    <2>5. Elements(delivered[f])' = Elements(delivered'[f]) /\ Elements(events[f])' = Elements(events'[f])
      BY DEF Elements
    <2> QED BY <2>3, <2>4, <2>5, <1>3 DEF Heard, device_read
  <1> QED BY <1>2, <1>3

\* process_event adds its event to what each subscriber has heard of.
LEMMA ProcessHeard ==
  ASSUME TypeOK, NEW p \in Posters, NEW lost \in SUBSET Subscribed, process_event(p, lost),
         NEW f \in Files
  PROVE  /\ Heard(f) \subseteq Heard(f)'
         /\ f \in Subscribed => evt[p] \in Heard(f)'
  <1> DEFINE n == evt[p]
  <1> DEFINE longer == Append(events[f], n)
  <1>1. n \in Posts /\ events[f] \in Seq(Posts) /\ delivered[f] \in Seq(Posts)
    BY DEF process_event, TypeOK
  <1>2. Elements(longer) = Elements(events[f]) \cup {n}
    BY <1>1, ElementsAppend
  <1>3. longer \in Seq(Posts) /\ longer # <<>>
    <2>1. Len(longer) = Len(events[f]) + 1 /\ Len(events[f]) \in Nat
      BY <1>1
    <2> QED BY <1>1, <2>1
  <1>4. Elements(longer) = {Head(longer)} \cup Elements(Tail(longer))
    BY <1>3, ElementsTail
  <1>5. Elements(Append(delivered[f], n)) = Elements(delivered[f]) \cup {n}
    BY <1>1, ElementsAppend
  <1>6. /\ Elements(events[f])' = Elements(events'[f])
        /\ Elements(delivered[f])' = Elements(delivered'[f])
    BY DEF Elements
  <1> HIDE DEF n, longer
  <1>7. CASE f \notin Subscribed
    BY <1>7, <1>6 DEF process_event, Heard
  <1>8. CASE f \in Subscribed /\ reads[f] > 0
    BY <1>8, <1>5, <1>6 DEF process_event, Heard, n
  <1>9. CASE f \in Subscribed /\ ~(reads[f] > 0) /\ f \in lost
    BY <1>9, <1>6 DEF process_event, Heard, n
  <1>10. CASE f \in Subscribed /\ ~(reads[f] > 0) /\ f \notin lost /\ ~Full(f)
    BY <1>10, <1>2, <1>6 DEF process_event, Heard, n, longer
  <1>11. CASE f \in Subscribed /\ ~(reads[f] > 0) /\ f \notin lost /\ Full(f)
    BY <1>11, <1>2, <1>4, <1>6 DEF process_event, Heard, n, longer
  <1> QED BY <1>7, <1>8, <1>9, <1>10, <1>11

-----------------------------------------------------------------------------
(* The invariant.                                                           *)

\* The initial state satisfies the invariant.
LEMMA InvariantInit == Init => IInv
  <1> SUFFICES ASSUME Init PROVE IInv
    OBVIOUS
  <1>1. TypeOK
    BY TypeInit
  <1>2. Subscribed = {}
    BY DEF Init, Subscribed
  <1>3. Cardinality(Subscribed) = 0
    BY <1>2, FS_EmptySet
  <1>4. CountCovers
    BY <1>3 DEF CountCovers, Init
  <1>5. ParkedReadMeansNoEvents /\ FileStates
    BY DEF Init, ParkedReadMeansNoEvents, FileStates
  <1>6. AudienceIsSubscribed /\ SubscribersHearEvents
    BY DEF Init, AudienceIsSubscribed, SubscribersHearEvents
  <1> QED BY <1>1, <1>4, <1>5, <1>6 DEF IInv

\* A subscriber is never left out of events_subscribers.
LEMMA CountNext == IInv /\ [Next]_vars => CountCovers'
  <1> SUFFICES ASSUME IInv, [Next]_vars PROVE CountCovers'
    OBVIOUS
  <1> USE DEF CountCovers, IInv
  <1>1. IsFiniteSet(Subscribed) /\ Cardinality(Subscribed) \in Nat
    <2>1. Subscribed \subseteq Files
      BY DEF Subscribed, TypeOK
    <2> QED BY <2>1, FS_Subset, FS_CardinalityType, EventsAssumption
  <1>2. events_subscribers \in Int
    BY DEF TypeOK
  <1>3. ASSUME NEW f \in Files, device_file_create(f) PROVE CountCovers'
    <2>1. Subscribed' = Subscribed
      BY <1>3 DEF device_file_create, Subscribed, FileStates
    <2> QED BY <2>1, <1>3 DEF device_file_create
  <1>4. ASSUME NEW f \in Files, file_cleanup(f) PROVE CountCovers'
    <2>1. Subscribed' = Subscribed \ {f} /\ f \in fileobjects
      BY <1>4 DEF file_cleanup, Subscribed, FileStates
    <2>2. CASE f \in process_events
      <3>1. f \in Subscribed
        BY <2>1, <2>2 DEF Subscribed
      <3>2. Cardinality(Subscribed \ {f}) = Cardinality(Subscribed) - 1
        BY <3>1, <1>1, FS_RemoveElement
      <3> QED BY <3>2, <2>1, <2>2, <1>1, <1>2, <1>4 DEF file_cleanup
    <2>3. CASE f \notin process_events
      <3>1. Subscribed \ {f} = Subscribed
        BY <2>3 DEF Subscribed
      <3> QED BY <3>1, <2>1, <2>3, <1>4 DEF file_cleanup
    <2> QED BY <2>2, <2>3
  <1>5. ASSUME NEW f \in Files, device_read(f) PROVE CountCovers'
    <2>1. Subscribed' = IF f \in fileobjects THEN Subscribed \cup {f} ELSE Subscribed
      BY <1>5 DEF device_read, subscribe, Subscribed
    <2>2. CASE f \in process_events
      <3>1. Subscribed' = Subscribed
        BY <2>1, <2>2 DEF Subscribed
      <3> QED BY <3>1, <2>2, <1>5 DEF device_read, subscribe
    <2>3. CASE f \notin process_events
      <3>1. f \notin Subscribed
        BY <2>3 DEF Subscribed
      <3>2. Cardinality(Subscribed \cup {f}) = Cardinality(Subscribed) + 1
        BY <3>1, <1>1, FS_AddElement
      <3> QED BY <3>2, <2>1, <2>3, <1>1, <1>2, <1>5 DEF device_read, subscribe
    <2> QED BY <2>2, <2>3
  <1>6. CASE UNCHANGED fileVars
    BY <1>6 DEF fileVars, Subscribed
  <1> QED
    BY <1>3, <1>4, <1>5, <1>6
    DEF Next, FileNext, PostNext, vars, ReadFile, CancelRead, device_read_invalid,
        purge_read_queue, device_state_changed, recheck_subscribers,
        make_device_state_failed, process_event

\* A step that is not process_event, and is not the end of a call, keeps what has
\* been heard.
LEMMA HearNext ==
  ASSUME IInv, posts' = posts, fileobjects' \subseteq fileobjects,
         \A n \in Posts : audience'[n] \subseteq audience[n],
         \A n \in 1..posts : Over(n)' => Over(n),
         \A f \in Files : Heard(f) \subseteq Heard(f)'
  PROVE  SubscribersHearEvents'
  <1>1. fileobjects \subseteq Files /\ 1..posts \subseteq Posts
    BY EventsAssumption DEF IInv, TypeOK, Posts
  <1> QED BY <1>1 DEF IInv, SubscribersHearEvents

\* Each handler keeps the invariant.
LEMMA InvariantNext == IInv /\ [Next]_vars => IInv'
  <1> SUFFICES ASSUME IInv, [Next]_vars PROVE IInv'
    OBVIOUS
  <1>t. TypeOK /\ TypeOK' /\ CountCovers /\ CountCovers'
    BY TypeNext, CountNext DEF IInv
  <1>p. ParkedReadMeansNoEvents /\ FileStates /\ AudienceIsSubscribed
    BY DEF IInv
  <1> DEFINE Rest == FileStates' /\ AudienceIsSubscribed' /\ ParkedReadMeansNoEvents'
  <1>1. ASSUME NEW f \in Files, device_file_create(f) PROVE IInv'
    <2>1. Rest
      BY <1>1, <1>t, <1>p
      DEF device_file_create, postVars, FileStates, AudienceIsSubscribed,
          ParkedReadMeansNoEvents, TypeOK
    <2>2. SubscribersHearEvents'
      <3>1. \A n \in 1..posts : f \notin audience[n]
        BY <1>1, <1>t, <1>p, EventsAssumption
        DEF device_file_create, FileStates, AudienceIsSubscribed, TypeOK, Posts
      <3>2. \A g \in Files : Heard(g)' = Heard(g)
        BY <1>1 DEF device_file_create, Heard, Elements
      <3>3. \A n : Over(n)' <=> Over(n)
        BY <1>1 DEF device_file_create, postVars, Over
      <3> QED
        BY <1>1, <1>t, <3>1, <3>2, <3>3
        DEF device_file_create, postVars, IInv, SubscribersHearEvents, TypeOK
    <2> QED BY <1>t, <2>1, <2>2 DEF IInv
  <1>2. ASSUME NEW f \in Files, file_cleanup(f) PROVE IInv'
    <2>1. Rest
      BY <1>2, <1>t, <1>p
      DEF file_cleanup, postVars, FileStates, AudienceIsSubscribed,
          ParkedReadMeansNoEvents, TypeOK
    <2>2. SubscribersHearEvents'
      BY <1>2, HearNext DEF file_cleanup, postVars, Over, Heard, Elements
    <2> QED BY <1>t, <2>1, <2>2 DEF IInv
  <1>3. ASSUME NEW f \in Files, ReadFile(f) \/ CancelRead(f) \/ device_read_invalid(f)
        PROVE  IInv'
    <2>1. UNCHANGED <<fileVars, events, postVars, delivered, dropped, missed>>
      BY <1>3 DEF ReadFile, CancelRead, device_read_invalid
    <2>2. \A g \in Files : reads'[g] > 0 => reads[g] > 0
      BY <1>3, <1>t DEF ReadFile, CancelRead, device_read_invalid, TypeOK
    <2>3. \A g \in Files : file[g] = "none" => waiting'[g] = 0
      <3>1. waiting \in [Files -> Nat]
        BY <1>t DEF TypeOK
      <3>2. \A g \in Files : file[g] = "none" => waiting[g] = 0
        BY <1>p DEF FileStates
      <3>3. CASE ReadFile(f)
        BY <3>1, <3>2, <3>3 DEF ReadFile
      <3>4. CASE CancelRead(f)
        BY <3>1, <3>2, <3>4 DEF CancelRead
      <3>5. CASE device_read_invalid(f)
        BY <3>1, <3>2, <3>5 DEF device_read_invalid
      <3> QED BY <1>3, <3>3, <3>4, <3>5
    <2>4. Rest
      BY <2>1, <2>2, <2>3, <1>p
      DEF fileVars, postVars, FileStates, AudienceIsSubscribed, ParkedReadMeansNoEvents
    <2>5. SubscribersHearEvents'
      BY <2>1, HearNext DEF fileVars, postVars, Over, Heard, Elements
    <2> QED BY <1>t, <2>4, <2>5 DEF IInv
  <1>4. ASSUME NEW f \in Files, device_read(f) PROVE IInv'
    <2>1. FileStates' /\ AudienceIsSubscribed'
      BY <1>4, <1>t, <1>p
      DEF device_read, subscribe, postVars, FileStates, AudienceIsSubscribed, TypeOK
    <2>2. ParkedReadMeansNoEvents'
      <3>1. CASE events[f] = <<>>
        BY <1>4, <1>t, <1>p, <3>1 DEF device_read, ParkedReadMeansNoEvents, TypeOK
      <3>2. CASE events[f] # <<>>
        <4>1. \A g \in Files \ {f} : events'[g] = events[g]
          BY <1>4, <1>t, <3>2 DEF device_read, TypeOK
        <4>2. reads' = reads /\ ~(reads[f] > 0)
          BY <1>4, <1>p, <3>2 DEF device_read, ParkedReadMeansNoEvents
        <4> QED BY <4>1, <4>2, <1>p DEF ParkedReadMeansNoEvents
      <3> QED BY <3>1, <3>2
    <2>3. SubscribersHearEvents'
      BY <1>4, <1>t, ReadHeard, HearNext DEF device_read, postVars, Over
    <2> QED BY <1>t, <2>1, <2>2, <2>3 DEF IInv
  <1>5. ASSUME NEW p \in Posters, device_state_changed(p) PROVE IInv'
    <2>1. Rest
      BY <1>5, <1>t, <1>p
      DEF device_state_changed, fileVars, FileStates, AudienceIsSubscribed, Subscribed,
          ParkedReadMeansNoEvents, TypeOK
    <2>2. SubscribersHearEvents'
      <3>1. ASSUME NEW n \in 1..(posts + 1), Over(n)' PROVE n \in 1..posts /\ Over(n)
        BY <1>5, <1>t, <3>1, EventsAssumption DEF device_state_changed, Over, TypeOK, Posts
      <3>2. \A g \in Files : Heard(g)' = Heard(g)
        BY <1>5 DEF device_state_changed, Heard, Elements
      <3>3. \A n \in 1..posts : audience'[n] = audience[n]
        BY <1>5, <1>t, EventsAssumption DEF device_state_changed, TypeOK, Posts
      <3>4. posts' = posts + 1 /\ fileobjects' = fileobjects
        BY <1>5 DEF device_state_changed, fileVars
      <3>5. fileobjects \subseteq Files
        BY <1>t DEF TypeOK
      <3> QED
        BY <3>1, <3>2, <3>3, <3>4, <3>5 DEF IInv, SubscribersHearEvents
    <2> QED BY <1>t, <2>1, <2>2 DEF IInv
  <1>6. ASSUME NEW p \in Posters, recheck_subscribers(p) PROVE IInv'
    <2>1. Rest
      BY <1>6, <1>p
      DEF recheck_subscribers, fileVars, FileStates, AudienceIsSubscribed,
          ParkedReadMeansNoEvents
    <2>2. /\ \A g \in Files : Heard(g)' = Heard(g)
          /\ posts' = posts /\ fileobjects' = fileobjects /\ audience' = audience
      BY <1>6 DEF recheck_subscribers, fileVars, Heard, Elements
    <2>3. CASE events_subscribers = 0
      <3>1. Subscribed = {}
        <4>1. Subscribed \subseteq Files
          BY <1>t DEF Subscribed, TypeOK
        <4>2. IsFiniteSet(Subscribed) /\ Cardinality(Subscribed) \in Nat
          BY <4>1, FS_Subset, FS_CardinalityType, EventsAssumption
        <4>3. Cardinality(Subscribed) = 0
          BY <4>2, <1>t, <2>3 DEF CountCovers
        <4> QED BY <4>2, <4>3, FS_EmptySet
      <3>2. \A n \in Posts : audience[n] \cap fileobjects = {}
        BY <3>1, <1>p DEF AudienceIsSubscribed, Subscribed
      <3>3. SubscribersHearEvents'
        BY <3>2, <2>2, <1>t, EventsAssumption DEF SubscribersHearEvents, TypeOK, Posts
      <3> QED BY <1>t, <2>1, <3>3 DEF IInv
    <2>4. CASE events_subscribers # 0
      <3>1. \A n : Over(n)' => Over(n)
        BY <1>6, <1>t, <2>4 DEF recheck_subscribers, Over, TypeOK
      <3>2. SubscribersHearEvents'
        BY <3>1, <2>2, HearNext
      <3> QED BY <1>t, <2>1, <3>2 DEF IInv
    <2> QED BY <2>3, <2>4
  <1>7. ASSUME NEW p \in Posters, make_device_state_failed(p) PROVE IInv'
    <2>1. Rest
      BY <1>7, <1>t, <1>p
      DEF make_device_state_failed, fileVars, FileStates, AudienceIsSubscribed,
          ParkedReadMeansNoEvents, TypeOK
    <2>2. SubscribersHearEvents'
      <3>1. /\ \A g \in Files : Heard(g)' = Heard(g)
            /\ posts' = posts /\ fileobjects' = fileobjects
        BY <1>7 DEF make_device_state_failed, fileVars, Heard, Elements
      <3>2. fileobjects \subseteq Files /\ 1..posts \subseteq Posts
        BY <1>t, EventsAssumption DEF TypeOK, Posts
      <3>3. ASSUME NEW n \in 1..posts, n # evt[p], Over(n)'
            PROVE  Over(n) /\ audience'[n] = audience[n]
        BY <1>7, <1>t, <3>2, <3>3 DEF make_device_state_failed, Over, TypeOK
      <3>4. \A n \in 1..posts : n = evt[p] => audience'[n] = {}
        BY <1>7, <1>t, <3>2 DEF make_device_state_failed, TypeOK
      <3> QED BY <3>1, <3>2, <3>3, <3>4 DEF IInv, SubscribersHearEvents
    <2> QED BY <1>t, <2>1, <2>2 DEF IInv
  <1>8. ASSUME NEW p \in Posters, NEW lost \in SUBSET Subscribed, process_event(p, lost)
        PROVE  IInv'
    <2>1. FileStates' /\ AudienceIsSubscribed'
      BY <1>8, <1>p DEF process_event, fileVars, FileStates, AudienceIsSubscribed
    <2>2. ParkedReadMeansNoEvents'
      <3> SUFFICES ASSUME NEW f \in Files, reads'[f] > 0 PROVE events'[f] = <<>>
        BY DEF ParkedReadMeansNoEvents
      <3>1. reads[f] > 0
        BY <1>8, <1>t DEF process_event, TypeOK
      <3>2. events'[f] = events[f]
        BY <1>8, <3>1 DEF process_event
      <3> QED BY <3>1, <3>2, <1>p DEF ParkedReadMeansNoEvents
    <2>3. SubscribersHearEvents'
      <3>1. \A f \in Files : /\ Heard(f) \subseteq Heard(f)'
                             /\ f \in Subscribed => evt[p] \in Heard(f)'
        BY <1>8, <1>t, ProcessHeard
      <3>2. posts' = posts /\ fileobjects' = fileobjects /\ audience' = audience
        BY <1>8 DEF process_event, fileVars
      <3>3. fileobjects \subseteq Files /\ 1..posts \subseteq Posts
        BY <1>t, EventsAssumption DEF TypeOK, Posts
      <3>4. ASSUME NEW n \in 1..posts, n # evt[p], Over(n)' PROVE Over(n)
        BY <1>8, <1>t, <3>4 DEF process_event, Over, TypeOK
      <3>5. \A n \in 1..posts : audience[n] \cap fileobjects \subseteq Subscribed
        BY <3>3, <1>p DEF AudienceIsSubscribed, Subscribed
      <3> QED BY <3>1, <3>2, <3>3, <3>4, <3>5 DEF IInv, SubscribersHearEvents
    <2> QED BY <1>t, <2>1, <2>2, <2>3 DEF IInv
  <1>9. ASSUME purge_read_queue PROVE IInv'
    <2>1. Rest
      BY <1>9, <1>t, <1>p
      DEF purge_read_queue, fileVars, postVars, FileStates, AudienceIsSubscribed,
          ParkedReadMeansNoEvents, TypeOK
    <2>2. SubscribersHearEvents'
      BY <1>9, HearNext DEF purge_read_queue, fileVars, postVars, Over, Heard, Elements
    <2> QED BY <1>t, <2>1, <2>2 DEF IInv
  <1>10. CASE UNCHANGED vars
    <2>1. Rest
      BY <1>10, <1>p
      DEF vars, fileVars, postVars, FileStates, AudienceIsSubscribed, ParkedReadMeansNoEvents
    <2>2. SubscribersHearEvents'
      BY <1>10, HearNext DEF vars, fileVars, postVars, Over, Heard, Elements
    <2> QED BY <1>t, <2>1, <2>2 DEF IInv
  <1> QED
    BY <1>1, <1>2, <1>3, <1>4, <1>5, <1>6, <1>7, <1>8, <1>9, <1>10
    DEF Next, FileNext, PostNext

-----------------------------------------------------------------------------
(* Theorems.                                                                *)

\* The inductive invariant of the events: no subscriber is left out of the count,
\* parked reads have nothing to read, and subscribers hear every event.
THEOREM Invariance == Spec => []IInv
  BY InvariantInit, InvariantNext, PTL DEF Spec

\* The assertion of process_event holds: a reader never sleeps with an event
\* waiting for it.
THEOREM ParkedReadMeansNoEventsHolds == Spec => []ParkedReadMeansNoEvents
  <1>1. IInv => ParkedReadMeansNoEvents
    BY DEF IInv
  <1> QED BY <1>1, Invariance, PTL

\* The unlocked look at events_subscribers loses no event of a file object that
\* had subscribed before device_state_changed was called.
THEOREM SubscribersHearEventsHolds == Spec => []SubscribersHearEvents
  <1>1. IInv => SubscribersHearEvents
    BY DEF IInv
  <1> QED BY <1>1, Invariance, PTL
-----------------------------------------------------------------------------
(* The order of events.  What a reader has and will get is a subsequence of   *)
(* the log: every entry is in it, and every two entries are in its order.     *)

InOrder(s, l) ==
    /\ \A i \in 1..Len(s) : \E k \in 1..Len(l) : l[k] = s[i]
    /\ \A i, j \in 1..Len(s) : i < j =>
         \E k, m \in 1..Len(l) : k < m /\ l[k] = s[i] /\ l[m] = s[j]

OrderInv == \A f \in Files : InOrder(delivered[f] \o events[f], log)

\* A longer log keeps the order.
LEMMA OrderLog ==
  ASSUME NEW S, NEW s \in Seq(S), NEW l \in Seq(S), NEW n \in S, InOrder(s, l)
  PROVE  InOrder(s, Append(l, n))
  <1>1. /\ Len(l) \in Nat /\ Len(Append(l, n)) = Len(l) + 1
        /\ \A k \in 1..Len(l) : Append(l, n)[k] = l[k]
    OBVIOUS
  <1>2. \A k \in 1..Len(l) : k \in 1..Len(Append(l, n))
    BY <1>1
  <1> DEFINE h == Append(l, n)
  <1> HIDE DEF h
  <1>3. \A k \in 1..Len(l) : k \in 1..Len(h) /\ h[k] = l[k]
    BY <1>1, <1>2 DEF h
  <1>4. InOrder(s, h)
    <2>1. ASSUME NEW i \in 1..Len(s) PROVE \E k \in 1..Len(h) : h[k] = s[i]
      <3>1. PICK k \in 1..Len(l) : l[k] = s[i]
        BY DEF InOrder
      <3> QED BY <3>1, <1>3
    <2>2. ASSUME NEW i \in 1..Len(s), NEW j \in 1..Len(s), i < j
          PROVE  \E k, m \in 1..Len(h) : k < m /\ h[k] = s[i] /\ h[m] = s[j]
      <3>1. PICK k \in 1..Len(l), m \in 1..Len(l) : k < m /\ l[k] = s[i] /\ l[m] = s[j]
        BY <2>2 DEF InOrder
      <3> QED BY <3>1, <1>3
    <2> QED BY <2>1, <2>2 DEF InOrder
  <1> QED BY <1>4 DEF h

\* An event that is logged and handed to a reader comes last in both.
LEMMA OrderBoth ==
  ASSUME NEW S, NEW s \in Seq(S), NEW l \in Seq(S), NEW n \in S, InOrder(s, l)
  PROVE  InOrder(Append(s, n), Append(l, n))
  <1> DEFINE t == Append(s, n)
             h == Append(l, n)
  <1>1. /\ Len(l) \in Nat /\ Len(h) = Len(l) + 1 /\ h[Len(l) + 1] = n
        /\ \A k \in 1..Len(l) : h[k] = l[k] /\ k \in 1..Len(h) /\ k < Len(l) + 1
        /\ Len(l) + 1 \in 1..Len(h)
    OBVIOUS
  <1>2. /\ Len(s) \in Nat /\ Len(t) = Len(s) + 1 /\ t[Len(s) + 1] = n
        /\ \A k \in 1..Len(s) : t[k] = s[k]
    OBVIOUS
  <1>3. \A i \in 1..Len(t) : i \in 1..Len(s) \/ i = Len(s) + 1
    BY <1>2
  <1>4. \A i, j \in 1..Len(t) : i < j => i \in 1..Len(s)
    BY <1>2
  <1> HIDE DEF t, h
  <1>5. ASSUME NEW i \in 1..Len(t) PROVE \E k \in 1..Len(h) : h[k] = t[i]
    BY <1>1, <1>2, <1>3 DEF InOrder
  <1>6. ASSUME NEW i \in 1..Len(t), NEW j \in 1..Len(t), i < j
        PROVE  \E k, m \in 1..Len(h) : k < m /\ h[k] = t[i] /\ h[m] = t[j]
    <2>1. i \in 1..Len(s)
      BY <1>4, <1>6
    <2>2. CASE j \in 1..Len(s)
      <3>1. PICK k \in 1..Len(l), m \in 1..Len(l) : k < m /\ l[k] = s[i] /\ l[m] = s[j]
        BY <2>1, <2>2, <1>6 DEF InOrder
      <3> QED BY <3>1, <2>1, <2>2, <1>1, <1>2
    <2>3. CASE j = Len(s) + 1
      <3>1. PICK k \in 1..Len(l) : l[k] = s[i]
        BY <2>1 DEF InOrder
      <3> QED BY <3>1, <2>1, <2>3, <1>1, <1>2
    <2> QED BY <2>2, <2>3, <1>3
  <1>7. InOrder(t, h)
    BY <1>5, <1>6 DEF InOrder
  <1> QED BY <1>7 DEF t, h

\* The oldest waiting event may be dropped.
LEMMA OrderDrop ==
  ASSUME NEW S, NEW d \in Seq(S), NEW e \in Seq(S), NEW l \in Seq(S), e # <<>>,
         InOrder(d \o e, l)
  PROVE  InOrder(d \o Tail(e), l)
  <1> DEFINE s == d \o e
             t == d \o Tail(e)
             up(i) == IF i <= Len(d) THEN i ELSE i + 1
  <1>1. Tail(e) \in Seq(S) /\ Len(Tail(e)) = Len(e) - 1 /\ Len(e) \in Nat /\ Len(e) > 0
    OBVIOUS
  <1>2. \A i \in 1..Len(Tail(e)) : Tail(e)[i] = e[i + 1]
    BY <1>1
  <1>3. /\ Len(s) = Len(d) + Len(e) /\ Len(t) = Len(d) + Len(e) - 1
        /\ Len(d) \in Nat
        /\ \A i \in 1..Len(d) + Len(e) : s[i] = IF i <= Len(d) THEN d[i] ELSE e[i - Len(d)]
        /\ \A i \in 1..Len(d) + Len(Tail(e)) :
             t[i] = IF i <= Len(d) THEN d[i] ELSE Tail(e)[i - Len(d)]
    BY <1>1, ConcatProperties
  <1> HIDE DEF s, t
  <1>4. ASSUME NEW i \in 1..Len(t) PROVE up(i) \in 1..Len(s) /\ t[i] = s[up(i)]
    <2>1. i \in Int /\ 1 <= i /\ i <= Len(d) + Len(e) - 1
      BY <1>1, <1>3
    <2>2. up(i) \in 1..Len(d) + Len(e)
      BY <2>1, <1>1, <1>3
    <2>3. CASE i <= Len(d)
      BY <2>1, <2>2, <2>3, <1>1, <1>3
    <2>4. CASE ~(i <= Len(d))
      <3>1. i - Len(d) \in 1..Len(Tail(e)) /\ i \in 1..Len(d) + Len(Tail(e))
        BY <2>1, <2>4, <1>1, <1>3
      <3>2. t[i] = e[i - Len(d) + 1]
        BY <3>1, <2>4, <1>2, <1>3
      <3>3. s[i + 1] = e[i + 1 - Len(d)]
        BY <2>1, <2>2, <2>4, <1>1, <1>3
      <3>4. i - Len(d) + 1 = i + 1 - Len(d)
        BY <2>1, <1>3
      <3> QED BY <3>2, <3>3, <3>4, <2>2, <2>4, <1>3
    <2> QED BY <2>3, <2>4
  <1>5. ASSUME NEW i \in 1..Len(t), NEW j \in 1..Len(t), i < j PROVE up(i) < up(j)
    BY <1>5, <1>1, <1>3
  <1> HIDE DEF up
  <1>6. InOrder(s, l)
    BY DEF s
  <1>7. InOrder(t, l)
    <2>1. ASSUME NEW i \in 1..Len(t) PROVE \E k \in 1..Len(l) : l[k] = t[i]
      <3>1. up(i) \in 1..Len(s) /\ t[i] = s[up(i)]
        BY <1>4
      <3>2. PICK k \in 1..Len(l) : l[k] = s[up(i)]
        BY <3>1, <1>6 DEF InOrder
      <3> QED BY <3>1, <3>2
    <2>2. ASSUME NEW i \in 1..Len(t), NEW j \in 1..Len(t), i < j
          PROVE  \E k, m \in 1..Len(l) : k < m /\ l[k] = t[i] /\ l[m] = t[j]
      <3>1. /\ up(i) \in 1..Len(s) /\ t[i] = s[up(i)]
            /\ up(j) \in 1..Len(s) /\ t[j] = s[up(j)] /\ up(i) < up(j)
        BY <1>4, <1>5, <2>2
      <3> QED BY <3>1, <1>6 DEF InOrder
    <2> QED BY <2>1, <2>2 DEF InOrder
  <1> QED BY <1>7 DEF t

\* A read moves the oldest waiting event behind the ones already read.
LEMMA ReadConcat ==
  ASSUME NEW S, NEW d \in Seq(S), NEW e \in Seq(S), e # <<>>
  PROVE  Append(d, Head(e)) \o Tail(e) = d \o e
  <1>1. Head(e) \in S /\ Tail(e) \in Seq(S) /\ <<Head(e)>> \in Seq(S)
    BY HeadTailProperties
  <1>2. Append(d, Head(e)) = d \o <<Head(e)>>
    BY <1>1, AppendIsConcat
  <1>3. (d \o <<Head(e)>>) \o Tail(e) = d \o (<<Head(e)>> \o Tail(e))
    BY <1>1, ConcatAssociative
  <1>4. <<Head(e)>> \o Tail(e) = e
    OBVIOUS
  <1> QED BY <1>2, <1>3, <1>4

\* What process_event may do with an event n that it logs: leave a file object
\* alone, keep n, keep n and drop the oldest, or hand n to a reader that has no
\* event waiting.
LEMMA OrderProcess ==
  ASSUME NEW S, NEW d \in Seq(S), NEW e \in Seq(S), NEW l \in Seq(S), NEW n \in S,
         InOrder(d \o e, l)
  PROVE  /\ InOrder(d \o e, Append(l, n))
         /\ InOrder(d \o Append(e, n), Append(l, n))
         /\ InOrder(d \o Tail(Append(e, n)), Append(l, n))
         /\ e = <<>> => InOrder(Append(d, n) \o e, Append(l, n))
  <1> DEFINE h == Append(l, n)
             k == Append(e, n)
             a == Append(d, n)
  <1>1. h \in Seq(S) /\ k \in Seq(S) /\ Len(k) = Len(e) + 1 /\ a \in Seq(S)
    OBVIOUS
  <1>2. k # <<>>
    BY <1>1
  <1>3. d \o e \in Seq(S)
    BY ConcatProperties
  <1>4. InOrder(d \o e, h)
    BY <1>3, OrderLog
  <1>5. InOrder(Append(d \o e, n), h)
    BY <1>3, OrderBoth
  <1>6. Append(d \o e, n) = d \o k
    <2>1. <<n>> \in Seq(S)
      OBVIOUS
    <2>2. Append(d \o e, n) = (d \o e) \o <<n>> /\ k = e \o <<n>>
      BY <1>3, AppendIsConcat
    <2> HIDE DEF k
    <2> QED BY <2>1, <2>2, ConcatAssociative
  <1>7. e = <<>> => Append(d \o e, n) = a /\ a \o e = a
    BY <1>1, ConcatEmptySeq
  <1> HIDE DEF h, k, a
  <1>8. InOrder(d \o k, h)
    BY <1>5, <1>6
  <1>9. InOrder(d \o Tail(k), h)
    BY <1>1, <1>8, <1>2, OrderDrop
  <1> QED BY <1>4, <1>5, <1>7, <1>8, <1>9 DEF h, k, a

\* Every handler keeps the order.  A read that process_event completes gets the
\* newest event first, which is right because its file object has none waiting.
LEMMA OrderNext == IInv /\ OrderInv /\ [Next]_vars => OrderInv'
  <1> SUFFICES ASSUME IInv, OrderInv, [Next]_vars PROVE OrderInv'
    OBVIOUS
  <1>1. TypeOK /\ ParkedReadMeansNoEvents
    BY DEF IInv
  <1>2. /\ log \in Seq(Posts)
        /\ \A f \in Files : delivered[f] \in Seq(Posts) /\ events[f] \in Seq(Posts)
    BY <1>1 DEF TypeOK
  <1>3. \A f \in Files : delivered[f] \o events[f] \in Seq(Posts)
    BY <1>2, ConcatProperties
  <1>4. ASSUME UNCHANGED <<log, events, delivered>> PROVE OrderInv'
    BY <1>4 DEF OrderInv
  <1>5. ASSUME NEW f \in Files, device_read(f) PROVE OrderInv'
    <2>1. CASE events[f] = <<>>
      BY <2>1, <1>5, <1>4 DEF device_read, postVars
    <2>2. CASE events[f] # <<>>
      <3>1. /\ delivered' = [delivered EXCEPT ![f] = Append(@, Head(events[f]))]
            /\ events' = [events EXCEPT ![f] = Tail(@)]
            /\ log' = log
        BY <2>2, <1>5 DEF device_read, postVars
      <3>2. ASSUME NEW g \in Files
            PROVE  delivered'[g] \o events'[g] = delivered[g] \o events[g]
        <4>1. CASE g = f
          <5>1. /\ delivered'[f] = Append(delivered[f], Head(events[f]))
                /\ events'[f] = Tail(events[f])
            BY <3>1, <1>1 DEF TypeOK
          <5> QED BY <5>1, <4>1, <2>2, <1>2, ReadConcat
        <4>2. CASE g # f
          BY <4>2, <3>1, <1>1 DEF TypeOK
        <4> QED BY <4>1, <4>2
      <3> QED BY <3>1, <3>2 DEF OrderInv
    <2> QED BY <2>1, <2>2
  <1>6. ASSUME NEW p \in Posters, NEW lost \in SUBSET Subscribed, process_event(p, lost)
        PROVE  OrderInv'
    <2> DEFINE n == evt[p]
               served == {f \in Subscribed : reads[f] > 0}
               kept == Subscribed \ (served \cup lost)
               full == {f \in kept : Full(f)}
    <2>1. n \in Posts
      BY <1>6, <1>1 DEF process_event, TypeOK
    <2>2. /\ log' = Append(log, n)
          /\ \A f \in Files :
               /\ delivered'[f] = IF f \in served THEN Append(delivered[f], n)
                                                  ELSE delivered[f]
               /\ events'[f] = IF f \in full THEN Tail(Append(events[f], n))
                               ELSE IF f \in kept THEN Append(events[f], n)
                               ELSE events[f]
      BY <1>6 DEF process_event
    <2>3. \A f \in served : f \notin kept /\ f \notin full /\ reads[f] > 0
      OBVIOUS
    <2>4. full \subseteq kept
      OBVIOUS
    <2> HIDE DEF n, served, kept, full
    <2>5. ASSUME NEW f \in Files PROVE InOrder(delivered'[f] \o events'[f], log')
      <3> DEFINE d == delivered[f]
                 e == events[f]
      <3>1. /\ d \in Seq(Posts) /\ e \in Seq(Posts) /\ d \o e \in Seq(Posts)
            /\ InOrder(d \o e, log)
        BY <1>2, <1>3 DEF OrderInv
      <3>2. /\ InOrder(d \o e, Append(log, n))
            /\ InOrder(d \o Append(e, n), Append(log, n))
            /\ InOrder(d \o Tail(Append(e, n)), Append(log, n))
            /\ e = <<>> => InOrder(Append(d, n) \o e, Append(log, n))
        BY <3>1, <2>1, <1>2, OrderProcess
      <3>3. CASE f \in served
        <4>1. e = <<>>
          BY <3>3, <2>3, <1>1 DEF ParkedReadMeansNoEvents
        <4>2. delivered'[f] = Append(d, n) /\ events'[f] = e
          BY <3>3, <2>2, <2>3
        <4> QED BY <4>1, <4>2, <3>2, <2>2
      <3>4. CASE f \in full
        <4>1. delivered'[f] = d /\ events'[f] = Tail(Append(e, n))
          BY <3>4, <2>2, <2>3
        <4> QED BY <4>1, <3>2, <2>2
      <3>5. CASE f \in kept /\ f \notin full
        <4>1. delivered'[f] = d /\ events'[f] = Append(e, n)
          BY <3>5, <2>2, <2>3
        <4> QED BY <4>1, <3>2, <2>2
      <3>6. CASE f \notin served /\ f \notin kept
        <4>1. delivered'[f] = d /\ events'[f] = e
          BY <3>6, <2>2, <2>4
        <4> QED BY <4>1, <3>2, <2>2
      <3> QED BY <3>3, <3>4, <3>5, <3>6
    <2> QED BY <2>5 DEF OrderInv
  <1>7. ASSUME FileNext PROVE OrderInv'
    <2>1. PICK f \in Files : \/ device_file_create(f) \/ file_cleanup(f) \/ ReadFile(f)
                             \/ CancelRead(f) \/ device_read_invalid(f) \/ device_read(f)
      BY <1>7 DEF FileNext
    <2> QED BY <2>1, <1>4, <1>5 DEF device_file_create, file_cleanup, ReadFile, CancelRead,
                                    device_read_invalid, postVars
  <1>8. ASSUME PostNext PROVE OrderInv'
    <2>1. PICK p \in Posters : \/ device_state_changed(p) \/ recheck_subscribers(p)
                               \/ make_device_state_failed(p)
                               \/ \E lost \in SUBSET Subscribed : process_event(p, lost)
      BY <1>8 DEF PostNext
    <2> QED BY <2>1, <1>4, <1>6 DEF device_state_changed, recheck_subscribers,
                                    make_device_state_failed
  <1>9. CASE purge_read_queue
    BY <1>9, <1>4 DEF purge_read_queue, postVars
  <1>10. CASE UNCHANGED vars
    BY <1>10, <1>4 DEF vars, postVars
  <1> QED BY <1>7, <1>8, <1>9, <1>10 DEF Next

\* Nothing has been logged, read or kept at first.
LEMMA OrderInit == Init => OrderInv
  <1> SUFFICES ASSUME Init, NEW f \in Files PROVE InOrder(delivered[f] \o events[f], log)
    BY DEF OrderInv
  <1>1. delivered[f] = <<>> /\ events[f] = <<>>
    BY DEF Init
  <1>2. <<>> \o <<>> = <<>> /\ Len(<<>>) = 0
    OBVIOUS
  <1>3. delivered[f] \o events[f] = <<>>
    BY <1>1, <1>2
  <1>4. 1..0 = {}
    OBVIOUS
  <1> QED BY <1>2, <1>3, <1>4 DEF InOrder

\* Readers get events in the order process_event handled them, each at most once
\* and the waiting ones after the ones already read, although a full collection
\* drops its oldest event and a parked read overtakes the collection.
THEOREM EventsInOrderHolds == Spec => []EventsInOrder
  <1>1. IInv /\ OrderInv => EventsInOrder
    <2> SUFFICES ASSUME IInv, OrderInv, NEW f \in Files,
                        NEW i \in DOMAIN (delivered[f] \o events[f]),
                        NEW j \in DOMAIN (delivered[f] \o events[f]), i < j
                 PROVE  \E k, m \in DOMAIN log :
                          /\ k < m
                          /\ log[k] = (delivered[f] \o events[f])[i]
                          /\ log[m] = (delivered[f] \o events[f])[j]
      BY DEF EventsInOrder
    <2> DEFINE s == delivered[f] \o events[f]
    <2>1. delivered[f] \in Seq(Posts) /\ events[f] \in Seq(Posts) /\ log \in Seq(Posts)
      BY DEF IInv, TypeOK
    <2>2. s \in Seq(Posts)
      BY <2>1, ConcatProperties
    <2>3. InOrder(s, log)
      BY DEF OrderInv
    <2> HIDE DEF s
    <2>4. DOMAIN s = 1..Len(s) /\ DOMAIN log = 1..Len(log)
      BY <2>1, <2>2
    <2>5. i \in DOMAIN s /\ j \in DOMAIN s
      BY DEF s
    <2>6. i \in 1..Len(s) /\ j \in 1..Len(s)
      BY <2>4, <2>5
    <2>7. PICK k \in 1..Len(log), m \in 1..Len(log) :
            k < m /\ log[k] = s[i] /\ log[m] = s[j]
      BY <2>3, <2>6 DEF InOrder
    <2>8. k \in DOMAIN log /\ m \in DOMAIN log
      BY <2>4
    <2> QED BY <2>7, <2>8 DEF s
  <1> QED BY <1>1, OrderInit, OrderNext, Invariance, PTL DEF Spec

-----------------------------------------------------------------------------
\* A set of numbers has a least one.
LEMMA LeastNumber ==
  ASSUME NEW T, T \subseteq Nat, T # {}
  PROVE  \E x \in T : \A y \in T : x <= y
  <1> DEFINE R == OpToRel(<, Nat)
  <1>1. PICK x \in T : \A y \in T : ~(<<y, x>> \in R)
    <2>1. IsWellFoundedOn(R, Nat) BY NatLessThanWellFounded
    <2> HIDE DEF R
    <2> QED BY <2>1, WFMin
  <1>2. \A y \in T : x <= y
    <2> TAKE y \in T
    <2>1. y \in Nat /\ x \in Nat BY <1>1
    <2>2. ~(y < x) BY <1>1, <2>1 DEF OpToRel
    <2> HIDE DEF R
    <2> QED BY <2>1, <2>2
  <1> QED BY <1>1, <1>2

\* A set with zero and every successor has all numbers.
LEMMA SetInduction ==
  ASSUME NEW S, 0 \in S, \A n \in Nat : n \in S => n + 1 \in S
  PROVE  Nat \subseteq S
  <1> SUFFICES ASSUME Nat \ S # {} PROVE FALSE
    OBVIOUS
  <1>1. PICK x \in Nat \ S : \A y \in Nat \ S : x <= y
    BY LeastNumber
  <1> QED BY <1>1

-----------------------------------------------------------------------------
(* The life of the driver.  How often each resource is held follows from    *)
(* where the driver, the controller and each attach are.                    *)

\* DeviceAdd has called alloc_devices, create_target_self, create_read_queue.
WithReattach == {"configure", "create_interfaces", "add_usbdevice_emulation", "create_queues", "up"}
WithTarget == WithReattach \cup {"create_read_queue"}
WithDevices == WithTarget \cup {"create_target_self"}
VhciStates == WithDevices \cup {"none", "alloc_devices", "failed"}

\* An attach before its connection, with it, and before its work item has run to its end.
Connecting == {"connecting", "connected", "refused", "cancelled", "import", "imported"}
Looking == {"getaddrinfo", "lost", "resolving", "unresolved", "resolved"}
Working == Looking \cup Connecting \cup {"no_socket"}

\* Its request is completed, and the work item is there.
Ending == {"tail", "lacking", "ending"}
PcStates == Working \cup Ending \cup {"none", "abandoned", "plugged", "done"}

One(r) == held[r] = 1
Zero(r) == held[r] = 0

\* The controller and the driver.
DriverHolds ==
    /\ held[<<"lookaside", 0>>] = IF g_initialized THEN 1 ELSE 0
    /\ held[<<"registration", 0>>] = IF "F_REGISTER" \in g_init_flags THEN 1 ELSE 0
    /\ held[<<"provider", 0>>] = IF "F_CAPTURE" \in g_init_flags THEN 1 ELSE 0
    /\ held[<<"attr", 0>>] \in Nat

ControllerHolds ==
    /\ vhci \in WithDevices => One(<<"devices", 0>>)
    /\ vhci \in {"none", "alloc_devices"} => Zero(<<"devices", 0>>)
    /\ vhci = "failed" => held[<<"devices", 0>>] \in {0, 1}
    /\ vhci \in WithTarget => One(<<"target", 0>>)
    /\ vhci \in {"none", "alloc_devices", "create_target_self"} => Zero(<<"target", 0>>)
    /\ vhci = "failed" => held[<<"target", 0>>] \in {0, 1}

DriverAt ==
    /\ drv \in {"none", "created", "listed", "loaded", "failed", "unloaded"}
    /\ drv # "loaded" => vhci = "none"
    /\ drv \in {"none", "created"} => ~g_initialized
    /\ drv \in {"none", "created", "listed"} => g_init_flags = {}
    /\ drv # "unloaded" => (once <=> "F_CAPTURE" \in g_init_flags)
    /\ drv = "unloaded" => ~g_initialized /\ g_init_flags = {}
    /\ vhci \in VhciStates
    /\ vhci # "up" => \A a \in Attempts : pc[a] \in {"none", "done"}

\* One of the work item and the device owns the extension, which owns the rest.
Owned(a) == a \in wiExt \/ dev[a] \in {"plugged", "kept"}

AttemptAt(a) ==
    /\ pc[a] \in PcStates
    /\ dev[a] \in {"none", "orphan", "plugged", "kept", "deleted", "freed twice"}
    /\ pc[a] # "abandoned" =>
         (a \in wiExt <=> pc[a] \in Working \/ (pc[a] \in Ending /\ dev[a] \in {"none", "orphan"}))
    /\ dev[a] # "none" => pc[a] \in Ending \cup {"plugged", "done"}
    /\ vhci # "up" => dev[a] \in {"none", "deleted", "freed twice"}
    /\ pc[a] = "plugged" => dev[a] \in {"plugged", "kept", "deleted"}
    /\ dev[a] = "freed twice" => pc[a] = "done"
    /\ pc[a] \in {"resolving", "unresolved", "resolved", "no_socket", "plugged"} \cup Connecting \cup Ending
         => "F_CAPTURE" \in g_init_flags

AttemptHolds(a) ==
    /\ held[Ext(a)] = IF Owned(a) THEN 1 ELSE IF dev[a] = "freed twice" THEN -1 ELSE 0
    /\ held[Names(a)] \in {0, 1}
    /\ ~Owned(a) => Zero(Names(a))
    /\ Owned(a) /\ pc[a] # "abandoned" => One(Names(a))
    /\ held[Sock(a)] \in {0, 1} /\ held[WskSocket(a)] \in {0, 1}
    /\ ~Owned(a) \/ pc[a] \in Looking \cup {"abandoned"} => Zero(Sock(a)) /\ Zero(WskSocket(a))
    /\ pc[a] \in Connecting => One(Sock(a)) /\ One(WskSocket(a))
    /\ pc[a] = "no_socket" => One(Sock(a)) /\ Zero(WskSocket(a))
    /\ held[AddrInfo(a)] \in {0, 1}
    /\ pc[a] \in {"none", "abandoned", "getaddrinfo", "lost", "resolving", "unresolved", "done"} => Zero(AddrInfo(a))
    /\ held[Request(a)] \in {0, 1}
    /\ pc[a] \notin {"lacking", "ending", "done"} \/ vhci # "up" => Zero(Request(a))
    /\ pc[a] = "lacking" => One(Request(a))
    /\ a \in reattach_req => One(Request(a))

\* What was read from the registry.
SettingsHold ==
    /\ registry \in Registries
    /\ vhci \in WithDevices => PortsFit(ports)
    /\ vhci \in WithReattach => DelaysFit(reattach) /\ reattach.attempts * reattach.first <= MAX_TOTAL_DELAY

LifecycleTypes ==
    /\ held = [r \in Resources |-> held[r]] /\ pc = [a \in Attempts |-> pc[a]]
    /\ dev = [a \in Attempts |-> dev[a]]
    /\ wiExt \subseteq Attempts /\ reattach_req \subseteq Attempts
    /\ g_initialized \in BOOLEAN /\ once \in BOOLEAN /\ removing \in BOOLEAN

LifecycleInv ==
    /\ LifecycleTypes /\ DriverHolds /\ ControllerHolds /\ DriverAt
    /\ \A a \in Attempts : AttemptAt(a) /\ AttemptHolds(a)

-----------------------------------------------------------------------------
(* The numbers of the registry.                                             *)

\* set_usb_ports_cnt gives each hub a number of ports it can have.
LEMMA PortsAreInRange ==
  ASSUME NEW reg, \A name \in DOMAIN reg : reg[name] \in Int
  PROVE  PortsFit(set_usb_ports_cnt(reg))
  <1>1. \A name : query_usb_ports_cnt(reg, name) \in Int
    BY DEF query_usb_ports_cnt, DEF_PORTS
  <1>2. \A n \in Int : in_port_range(n) \in 1 .. 254
    BY DEF in_port_range, Lesser, Greater, MAX_PORTS, MIN_PORTS
  <1> DEFINE n3 == in_port_range(query_usb_ports_cnt(reg, "NumberOfUsb30Ports"))
             n2 == in_port_range(query_usb_ports_cnt(reg, "NumberOfUsb20Ports"))
             m2 == IF n3 + n2 > 255 THEN 255 - n3 ELSE n2
  <1>3. n3 \in 1 .. 254 /\ n2 \in 1 .. 254
    BY <1>1, <1>2
  <1>4. set_usb_ports_cnt(reg) = [usb2 |-> m2, usb3 |-> n3]
    BY DEF set_usb_ports_cnt, MAX_TOTAL_PORTS
  <1> HIDE DEF n2, n3
  <1>5. m2 \in 1 .. 254 /\ m2 + n3 <= 255
    BY <1>3
  <1> HIDE DEF m2
  <1> QED BY <1>3, <1>4, <1>5 DEF PortsFit, MIN_PORTS, MAX_PORTS, MAX_TOTAL_PORTS

\* A delay from the registry, or its default e.
LEMMA DelayIsInRange ==
  ASSUME NEW n \in Int, NEW e \in Nat, 1 <= e, e <= 3600
  PROVE  delay_of(n, e) \in Nat /\ 1 <= delay_of(n, e) /\ delay_of(n, e) <= 3600
  BY DEF delay_of, in_delay_range, Lesser, Greater, MAX_DELAY, MIN_DELAY

\* The first delay is not greater than the longest.
LEMMA DelaysAreInRange ==
  ASSUME NEW a \in Int, NEW b \in Int
  PROVE  LET d == reattach_delays(a, b)
         IN  d.first \in Nat /\ d.max \in Nat /\ 1 <= d.first /\ d.first <= d.max /\ d.max <= 3600
  <1> DEFINE f == delay_of(a, 30)
             m == delay_of(b, 480)
             x == IF f < m THEN f ELSE m
             y == IF f > m THEN f ELSE m
  <1>1. f \in Nat /\ 1 <= f /\ f <= 3600
    BY DelayIsInRange
  <1>2. m \in Nat /\ 1 <= m /\ m <= 3600
    BY DelayIsInRange
  <1>3. reattach_delays(a, b) = [first |-> x, max |-> y]
    BY DEF reattach_delays, Lesser, Greater, DEF_FIRST_DELAY, DEF_MAX_DELAY
  <1> HIDE DEF f, m
  <1>4. x \in Nat /\ y \in Nat /\ 1 <= x /\ x <= y /\ y <= 3600
    BY <1>1, <1>2
  <1> HIDE DEF x, y
  <1> QED BY <1>3, <1>4

\* Delays grow up to the longest.
LEMMA NextDelay ==
  ASSUME NEW d \in Nat \ {0}, NEW max \in Nat, d <= max
  PROVE  get_next_delay(d, max) \in d .. max
  BY DEF get_next_delay, Lesser

\* A quotient times the divisor is not more than the dividend.
LEMMA Quotient ==
  ASSUME NEW x \in Nat, NEW d \in Nat \ {0}
  PROVE  x \div d \in Nat /\ (x \div d) * d <= x
  OBVIOUS

\* A product grows with its second factor.
LEMMA Product ==
  ASSUME NEW c \in Nat, NEW d \in Nat, NEW e \in Nat, d <= e
  PROVE  c * d \in Nat /\ c * d <= c * e
  OBVIOUS

\* And with its first one.
LEMMA ProductLess ==
  ASSUME NEW c \in Int, NEW n \in Nat, NEW d \in Nat, c <= n
  PROVE  c * d <= n * d
  OBVIOUS

\* get_max_attach_attempts as a recursive function: one step of it.
Count(max, limit, f) ==
    [x \in (1..max) \X (0..limit) |->
       IF x[2] + x[1] > limit THEN 0
       ELSE IF get_next_delay(x[1], max) = x[1] THEN (limit - x[2]) \div x[1]
       ELSE 1 + f[<<get_next_delay(x[1], max), x[2] + x[1]>>]]

\* get_max_attach_attempts as a function of the delay and of the time that has passed.
LEMMA CountIs ==
  ASSUME NEW first, NEW max, NEW limit
  PROVE  get_max_attach_attempts(first, max, limit)
           = (CHOOSE f : f = Count(max, limit, f))[<<first, 0>>]
  BY DEF get_max_attach_attempts, Count

\* One step of its recursion.
LEMMA CountAt ==
  ASSUME NEW max \in Nat, NEW limit \in Nat, NEW f, NEW d \in 1..max, NEW t \in 0..limit
  PROVE  Count(max, limit, f)[<<d, t>>] =
       IF t + d > limit THEN 0
       ELSE IF get_next_delay(d, max) = d THEN (limit - t) \div d
       ELSE 1 + f[<<get_next_delay(d, max), t + d>>]
  BY DEF Count

\* The time that is left decreases, so that there is such a function.
LEMMA CountExists ==
  ASSUME NEW max \in Nat, NEW limit \in Nat
  PROVE  \E f : f = Count(max, limit, f)
  <1> DEFINE D == (1..max) \X (0..limit)
             S == {n \in Nat : \E h : /\ h = [x \in D |-> h[x]]
                                      /\ \A d \in 1..max : \A t \in 0..limit :
                                           limit - t <= n => h[<<d, t>>] = Count(max, limit, h)[<<d, t>>]}
  <1>1. \A d \in 1..max : \A t \in 0..limit :
          t + d <= limit => /\ get_next_delay(d, max) \in 1..max /\ t + d \in 0..limit
                            /\ \A n \in Nat : limit - t <= n + 1 => limit - (t + d) <= n
    <2> SUFFICES ASSUME NEW d \in 1..max, NEW t \in 0..limit, t + d <= limit
                 PROVE  /\ get_next_delay(d, max) \in 1..max /\ t + d \in 0..limit
                        /\ \A n \in Nat : limit - t <= n + 1 => limit - (t + d) <= n
      OBVIOUS
    <2>1. get_next_delay(d, max) \in d..max
      BY NextDelay
    <2> QED BY <2>1
  <1>2. 0 \in S
    <2> DEFINE e == [x \in D |-> 0]
    <2>1. e = [x \in D |-> e[x]]
      OBVIOUS
    <2>2. ASSUME NEW d \in 1..max, NEW t \in 0..limit, limit - t <= 0
          PROVE  e[<<d, t>>] = Count(max, limit, e)[<<d, t>>]
      <3>1. t + d > limit
        BY <2>2
      <3>2. e[<<d, t>>] = 0
        OBVIOUS
      <3> HIDE DEF e
      <3>3. Count(max, limit, e)[<<d, t>>] =
              IF t + d > limit THEN 0
              ELSE IF get_next_delay(d, max) = d THEN (limit - t) \div d
              ELSE 1 + e[<<get_next_delay(d, max), t + d>>]
        BY CountAt
      <3> QED BY <3>1, <3>2, <3>3
    <2> HIDE DEF e
    <2> QED BY <2>1, <2>2
  <1>3. ASSUME NEW n \in Nat, n \in S
        PROVE  n + 1 \in S
    <2>1. PICK h : \A d \in 1..max : \A t \in 0..limit :
                     limit - t <= n => h[<<d, t>>] = Count(max, limit, h)[<<d, t>>]
      BY <1>3
    <2> HIDE DEF S
    <2> DEFINE g == Count(max, limit, h)
    <2>2. ASSUME NEW d \in 1..max, NEW t \in 0..limit, limit - t <= n + 1
          PROVE  g[<<d, t>>] = Count(max, limit, g)[<<d, t>>]
      <3> DEFINE e == get_next_delay(d, max)
      <3> HIDE DEF e
      <3>1. g[<<d, t>>] = IF t + d > limit THEN 0
                          ELSE IF e = d THEN (limit - t) \div d ELSE 1 + h[<<e, t + d>>]
        BY CountAt DEF e
      <3> HIDE DEF g
      <3>2. Count(max, limit, g)[<<d, t>>] = IF t + d > limit THEN 0
                          ELSE IF e = d THEN (limit - t) \div d ELSE 1 + g[<<e, t + d>>]
        BY CountAt DEF e
      <3>3. t + d <= limit => g[<<e, t + d>>] = h[<<e, t + d>>]
        <4> SUFFICES ASSUME t + d <= limit PROVE g[<<e, t + d>>] = h[<<e, t + d>>]
          OBVIOUS
        <4>1. e \in 1..max /\ t + d \in 0..limit /\ limit - (t + d) <= n
          BY <1>1, <2>2 DEF e
        <4> QED BY <4>1, <2>1 DEF g
      <3> QED BY <3>1, <3>2, <3>3
    <2>3. g = [x \in D |-> g[x]]
      BY DEF Count
    <2> HIDE DEF g
    <2>4. \A d \in 1..max : \A t \in 0..limit : limit - t <= n + 1 => g[<<d, t>>] = Count(max, limit, g)[<<d, t>>]
      BY <2>2
    <2>5. n + 1 \in Nat
      OBVIOUS
    <2> QED BY <2>3, <2>4, <2>5, Zenon DEF S
  <1>4. limit \in S
    <2> HIDE DEF S
    <2> QED BY <1>2, <1>3, SetInduction
  <1>5. PICK h : /\ h = [x \in D |-> h[x]]
                 /\ \A d \in 1..max : \A t \in 0..limit :
                      limit - t <= limit => h[<<d, t>>] = Count(max, limit, h)[<<d, t>>]
    BY <1>4
  <1>6. h = Count(max, limit, h)
    <2>1. \A d \in 1..max : \A t \in 0..limit : h[<<d, t>>] = Count(max, limit, h)[<<d, t>>]
      <3> SUFFICES ASSUME NEW d \in 1..max, NEW t \in 0..limit
                   PROVE  h[<<d, t>>] = Count(max, limit, h)[<<d, t>>]
        OBVIOUS
      <3>1. limit - t <= limit
        OBVIOUS
      <3> QED BY <3>1, <1>5
    <2>2. \A x \in D : h[x] = Count(max, limit, h)[x]
      <3> TAKE x \in D
      <3>1. x[1] \in 1..max /\ x[2] \in 0..limit /\ x = <<x[1], x[2]>>
        OBVIOUS
      <3> QED BY <3>1, <2>1
    <2>3. Count(max, limit, h) = [x \in D |-> Count(max, limit, h)[x]]
      BY DEF Count
    <2> QED BY <1>5, <2>2, <2>3
  <1> QED BY <1>6

\* The delays that are counted, each as long as the first one or longer, fit into the limit.
LEMMA CountFits ==
  ASSUME NEW first \in Nat \ {0}, NEW max \in Nat, NEW limit \in Nat, first <= max
  PROVE  LET n == get_max_attach_attempts(first, max, limit)
         IN  n \in Nat /\ n * first <= limit
  <1> DEFINE f == CHOOSE f : f = Count(max, limit, f)
  <1>1. f = Count(max, limit, f)
    BY CountExists
  <1>2. get_max_attach_attempts(first, max, limit) = f[<<first, 0>>]
    BY CountIs
  <1> HIDE DEF f
  <1> DEFINE P(d, t) == f[<<d, t>>] \in Nat /\ f[<<d, t>>] * d <= limit - t
             S == {n \in Nat : \A d \in 1..max : \A t \in 0..limit : limit - t <= n => P(d, t)}
  <1>3. ASSUME NEW d \in 1..max, NEW t \in 0..limit,
               t + d <= limit => /\ get_next_delay(d, max) \in d..max /\ t + d \in 0..limit
                                 /\ P(get_next_delay(d, max), t + d)
        PROVE  P(d, t)
    <2> DEFINE e == get_next_delay(d, max)
               k == f[<<d, t>>]
    <2>1. k = IF t + d > limit THEN 0
              ELSE IF e = d THEN (limit - t) \div d ELSE 1 + f[<<e, t + d>>]
      BY <1>1, CountAt
    <2>2. CASE t + d > limit
      <3>1. k = 0
        BY <2>1, <2>2
      <3> HIDE DEF k
      <3>2. k \in Nat /\ k * d <= limit - t
        BY <3>1
      <3> QED BY <3>2 DEF k
    <2>3. CASE t + d <= limit /\ e = d
      <3>1. k = (limit - t) \div d
        BY <2>1, <2>3
      <3>2. limit - t \in Nat /\ d \in Nat \ {0}
        OBVIOUS
      <3> HIDE DEF k
      <3>3. k \in Nat /\ k * d <= limit - t
        BY <3>1, <3>2, Quotient
      <3> QED BY <3>3 DEF k
    <2>4. CASE t + d <= limit /\ e # d
      <3> DEFINE c == f[<<e, t + d>>]
      <3>1. k = 1 + c
        BY <2>1, <2>4
      <3>2. c \in Nat /\ c * e <= limit - (t + d) /\ e \in d..max
        BY <1>3, <2>4
      <3> HIDE DEF k, c, e
      <3>3. c * d \in Nat /\ c * d <= c * e /\ c * e \in Nat
        BY <3>2, Product
      <3>4. (1 + c) * d = d + c * d
        BY <3>2
      <3>5. k \in Nat /\ k * d <= limit - t
        BY <3>1, <3>2, <3>3, <3>4
      <3> QED BY <3>5 DEF k
    <2> QED BY <2>2, <2>3, <2>4
  <1>4. 0 \in S
    <2> SUFFICES ASSUME NEW d \in 1..max, NEW t \in 0..limit, limit - t <= 0 PROVE P(d, t)
      OBVIOUS
    <2>1. ~(t + d <= limit)
      OBVIOUS
    <2> HIDE DEF P
    <2> QED BY <2>1, <1>3
  <1>5. ASSUME NEW n \in Nat, n \in S PROVE n + 1 \in S
    <2>1. \A d \in 1..max : \A t \in 0..limit : limit - t <= n => P(d, t)
      BY <1>5
    <2> HIDE DEF P
    <2> SUFFICES ASSUME NEW d \in 1..max, NEW t \in 0..limit, limit - t <= n + 1 PROVE P(d, t)
      OBVIOUS
    <2>2. ASSUME t + d <= limit
          PROVE  get_next_delay(d, max) \in d..max /\ t + d \in 0..limit /\ P(get_next_delay(d, max), t + d)
      <3>1. get_next_delay(d, max) \in d..max
        BY NextDelay
      <3>2. t + d \in 0..limit /\ limit - (t + d) <= n /\ get_next_delay(d, max) \in 1..max
        BY <2>2, <3>1
      <3> QED BY <3>1, <3>2, <2>1
    <2> QED BY <2>2, <1>3
  <1>6. limit \in S
    <2> HIDE DEF S
    <2> QED BY <1>4, <1>5, SetInduction
  <1>7. P(first, 0)
    <2>1. \A d \in 1..max : \A t \in 0..limit : limit - t <= limit => P(d, t)
      BY <1>6
    <2>2. first \in 1..max /\ 0 \in 0..limit /\ limit - 0 <= limit
      OBVIOUS
    <2> HIDE DEF P
    <2> QED BY <2>1, <2>2
  <1>8. limit - 0 = limit
    OBVIOUS
  <1> QED BY <1>2, <1>7, <1>8

\* init_constants makes delays that get_next_delay accepts and attempts that end in time.
LEMMA ReattachIsInRange ==
  ASSUME NEW reg, \A name \in DOMAIN reg : reg[name] \in Int, NEW opened \in BOOLEAN
  PROVE  LET c == init_constants(opened, reg)
         IN  DelaysFit(c) /\ c.attempts * c.first <= MAX_TOTAL_DELAY
  <1>0. MAX_DELAY = 3600 /\ MIN_DELAY = 1 /\ MAX_TOTAL_DELAY = 259200
    BY DEF MAX_DELAY, MIN_DELAY, MAX_TOTAL_DELAY
  <1>1. CASE ~opened
    <2>1. init_constants(opened, reg) = [first |-> 30, max |-> 480, attempts |-> 20]
      BY <1>1 DEF init_constants, DEF_FIRST_DELAY, DEF_MAX_DELAY, DEF_MAX_ATTEMPTS
    <2> QED BY <2>1, <1>0 DEF DelaysFit
  <1>2. CASE opened
    <2> DEFINE a == query_reattach(reg, "ReattachFirstDelay")
               b == query_reattach(reg, "ReattachMaxDelay")
               q == query_reattach(reg, "ReattachMaxAttempts")
               d == reattach_delays(a, b)
               x == d.first
               y == d.max
               n == get_max_attach_attempts(x, y, MAX_TOTAL_DELAY)
               m == Lesser(q, n)
    <2>1. a \in Int /\ b \in Int /\ q \in Int
      BY DEF query_reattach
    <2>2. init_constants(opened, reg) = [first |-> x, max |-> y, attempts |-> m]
      BY <1>2 DEF init_constants
    <2>3. x \in Nat /\ y \in Nat /\ 1 <= x /\ x <= y /\ y <= 3600
      <3> HIDE DEF a, b
      <3> QED BY <2>1, DelaysAreInRange
    <2> HIDE DEF a, b, q, d, x, y
    <2>4. n \in Nat /\ n * x <= MAX_TOTAL_DELAY
      <3>1. x \in Nat \ {0} /\ MAX_TOTAL_DELAY \in Nat
        BY <2>3, <1>0
      <3> QED BY <2>3, <3>1, CountFits
    <2> HIDE DEF n
    <2>5. m \in Int /\ m <= n
      BY <2>1, <2>4 DEF Lesser
    <2> HIDE DEF m
    <2>6. m * x <= n * x /\ m * x \in Int /\ n * x \in Int
      BY <2>3, <2>4, <2>5, ProductLess
    <2>7. m * x <= MAX_TOTAL_DELAY
      BY <2>4, <2>6, <1>0
    <2>8. DelaysFit([first |-> x, max |-> y, attempts |-> m])
      BY <2>3, <1>0 DEF DelaysFit
    <2> QED BY <2>2, <2>7, <2>8
  <1> QED BY <1>1, <1>2

-----------------------------------------------------------------------------
(* The resources.                                                           *)

\* Resources with other names, or of another attempt, are others.
LEMMA Kinds ==
  /\ \A a : /\ Ext(a)[1] = "ext" /\ Ext(a)[2] = a
            /\ Names(a)[1] = "names" /\ Names(a)[2] = a
            /\ AddrInfo(a)[1] = "addrinfo" /\ AddrInfo(a)[2] = a
            /\ Sock(a)[1] = "sock" /\ Sock(a)[2] = a
            /\ WskSocket(a)[1] = "wsk_socket" /\ WskSocket(a)[2] = a
            /\ Request(a)[1] = "request" /\ Request(a)[2] = a
  /\ \A n : <<n, 0>>[1] = n /\ <<n, 0>>[2] = 0
  BY DEF Ext, Names, AddrInfo, Sock, WskSocket, Request

\* The resources that belong to no attempt.
LEMMA OwnIs == \A N, r : r \in Own(N) <=> \E n \in N : r = <<n, 0>>
  BY DEF Own

\* Every resource that has a name.
LEMMA InResources ==
  /\ \A a \in Attempts : /\ Ext(a) \in Resources /\ Names(a) \in Resources /\ AddrInfo(a) \in Resources
                         /\ Sock(a) \in Resources /\ WskSocket(a) \in Resources /\ Request(a) \in Resources
  /\ \A n \in {"lookaside", "registration", "provider", "devices", "target", "attr"} : <<n, 0>> \in Resources
  BY DEF Resources, Own

\* And no other one.
LEMMA ResourcesAre ==
  \A r \in Resources :
    \/ \E n \in {"lookaside", "registration", "provider", "devices", "target", "attr"} : r = <<n, 0>>
    \/ \E a \in Attempts : r \in {Ext(a), Names(a), AddrInfo(a), Sock(a), WskSocket(a), Request(a)}
  BY DEF Resources, Own

\* Zero stands for no attempt.
LEMMA AttemptsAre == \A a \in Attempts : a # 0
  BY LifecycleAssumption

\* What Take and Give do to each resource.
LEMMA GiveTake ==
  ASSUME NEW R
  PROVE  /\ Take(R) = [r \in Resources |-> Take(R)[r]] /\ Give(R) = [r \in Resources |-> Give(R)[r]]
         /\ \A r \in Resources : /\ Take(R)[r] = IF r \in R THEN held[r] + 1 ELSE held[r]
                                 /\ Give(R)[r] = IF r \in R THEN held[r] - 1 ELSE held[r]
  BY DEF Take, Give

-----------------------------------------------------------------------------
\* A step of one attempt, which leaves the others as they are.
LEMMA Others ==
  ASSUME LifecycleInv, NEW a \in Attempts,
         LifecycleTypes', DriverHolds', ControllerHolds', DriverAt', UNCHANGED vhci,
         "F_CAPTURE" \in g_init_flags => "F_CAPTURE" \in g_init_flags',
         \A b \in Attempts \ {a} : \A r \in Resources : r[2] = b => held'[r] = held[r],
         \A b \in Attempts \ {a} : /\ pc'[b] = pc[b] /\ dev'[b] = dev[b] /\ (b \in wiExt' <=> b \in wiExt)
                                   /\ b \in reattach_req' => b \in reattach_req,
         AttemptAt(a)', AttemptHolds(a)'
  PROVE  LifecycleInv'
  <1>1. ASSUME NEW b \in Attempts \ {a} PROVE AttemptAt(b)' /\ AttemptHolds(b)'
    <2>1. AttemptAt(b) /\ AttemptHolds(b)
      BY DEF LifecycleInv
    <2>2. /\ held'[Ext(b)] = held[Ext(b)] /\ held'[Names(b)] = held[Names(b)]
          /\ held'[AddrInfo(b)] = held[AddrInfo(b)] /\ held'[Sock(b)] = held[Sock(b)]
          /\ held'[WskSocket(b)] = held[WskSocket(b)] /\ held'[Request(b)] = held[Request(b)]
      BY Kinds, InResources
    <2>3. /\ pc'[b] = pc[b] /\ dev'[b] = dev[b] /\ (b \in wiExt' <=> b \in wiExt)
          /\ b \in reattach_req' => b \in reattach_req
      OBVIOUS
    <2>4. AttemptAt(b)'
      BY <2>1, <2>3 DEF AttemptAt
    <2>5. Owned(b)' <=> Owned(b)
      BY <2>3 DEF Owned
    <2>6. AttemptHolds(b)'
      BY <2>1, <2>2, <2>3, <2>5 DEF AttemptHolds, One, Zero
    <2> QED BY <2>4, <2>6
  <1> QED BY <1>1 DEF LifecycleInv

\* The same for a step that does not touch the driver, and says what becomes of each
\* resource of its attempt.
LEMMA OnlyAttempt ==
  ASSUME LifecycleInv, NEW a \in Attempts, LifecycleTypes', UNCHANGED <<globals, vhci>>,
         vhci = "up" \/ UNCHANGED pc,
         \A r \in Resources : r[2] # a => held'[r] = held[r],
         \A b \in Attempts \ {a} : /\ pc'[b] = pc[b] /\ dev'[b] = dev[b] /\ (b \in wiExt' <=> b \in wiExt)
                                   /\ b \in reattach_req' => b \in reattach_req,
         AttemptAt(a)', AttemptHolds(a)'
  PROVE  LifecycleInv'
  <1>1. \A n \in {"lookaside", "registration", "provider", "devices", "target", "attr"} : held'[<<n, 0>>] = held[<<n, 0>>]
    BY Kinds, InResources, AttemptsAre
  <1>2. /\ held'[<<"lookaside", 0>>] = held[<<"lookaside", 0>>]
        /\ held'[<<"registration", 0>>] = held[<<"registration", 0>>]
        /\ held'[<<"provider", 0>>] = held[<<"provider", 0>>] /\ held'[<<"attr", 0>>] = held[<<"attr", 0>>]
        /\ held'[<<"devices", 0>>] = held[<<"devices", 0>>] /\ held'[<<"target", 0>>] = held[<<"target", 0>>]
    BY <1>1
  <1>3. DriverHolds'
    BY <1>2 DEF LifecycleInv, DriverHolds, globals
  <1>4. ControllerHolds'
    BY <1>2 DEF LifecycleInv, ControllerHolds, One, Zero
  <1>5. DriverAt'
    BY DEF LifecycleInv, DriverAt, globals
  <1>6. \A b \in Attempts \ {a} : \A r \in Resources : r[2] = b => held'[r] = held[r]
    OBVIOUS
  <1>7. "F_CAPTURE" \in g_init_flags => "F_CAPTURE" \in g_init_flags'
    BY DEF globals
  <1> QED BY <1>3, <1>4, <1>5, <1>6, <1>7, Others

\* How often something is held is a number.
LEMMA HeldIsInt ==
  ASSUME LifecycleInv
  PROVE  \A r \in Resources : held[r] \in Int
  <1>1. ASSUME NEW a \in Attempts,
               NEW r \in {Ext(a), Names(a), AddrInfo(a), Sock(a), WskSocket(a), Request(a)}
        PROVE  held[r] \in Int
    <2>1. AttemptHolds(a)
      BY DEF LifecycleInv
    <2>2. /\ held[Ext(a)] \in {-1, 0, 1} /\ held[Names(a)] \in {0, 1} /\ held[AddrInfo(a)] \in {0, 1}
          /\ held[Sock(a)] \in {0, 1} /\ held[WskSocket(a)] \in {0, 1} /\ held[Request(a)] \in {0, 1}
      BY <2>1 DEF AttemptHolds
    <2> QED BY <2>2
  <1>2. /\ held[<<"lookaside", 0>>] \in {0, 1} /\ held[<<"registration", 0>>] \in {0, 1}
        /\ held[<<"provider", 0>>] \in {0, 1} /\ held[<<"attr", 0>>] \in Nat
    BY DEF LifecycleInv, DriverHolds
  <1>3. held[<<"devices", 0>>] \in {0, 1} /\ held[<<"target", 0>>] \in {0, 1}
    BY DEF LifecycleInv, ControllerHolds, DriverAt, One, Zero, VhciStates, WithDevices, WithTarget
  <1> QED BY <1>1, <1>2, <1>3, ResourcesAre

\* What is known of an attempt that is under way.
LEMMA AttemptFacts ==
  ASSUME LifecycleInv, NEW a \in Attempts
  PROVE  AttemptAt(a) /\ AttemptHolds(a) /\ (pc[a] \notin {"none", "done"} => vhci = "up" /\ drv = "loaded")
  BY DEF LifecycleInv, DriverAt

\* An attempt goes on, the others stay.
LEMMA PcStep ==
  ASSUME LifecycleInv, NEW a \in Attempts, NEW s, at(a, s)
  PROVE  pc' = [b \in Attempts |-> pc'[b]] /\ pc'[a] = s /\ \A b \in Attempts \ {a} : pc'[b] = pc[b]
  BY DEF LifecycleInv, LifecycleTypes, at

\* Resources of one attempt are given back.
LEMMA GiveOne ==
  ASSUME NEW a \in Attempts, NEW R, \A r \in R : r[2] = a, held' = Give(R)
  PROVE  /\ held' = [r \in Resources |-> held'[r]]
         /\ \A r \in Resources : r[2] # a => held'[r] = held[r]
         /\ \A r \in Resources : held'[r] = IF r \in R THEN held[r] - 1 ELSE held[r]
  BY GiveTake

\* An attempt takes resources of its own.
LEMMA TakeOne ==
  ASSUME NEW a \in Attempts, NEW R, \A r \in R : r[2] = a, held' = Take(R)
  PROVE  /\ held' = [r \in Resources |-> held'[r]]
         /\ \A r \in Resources : r[2] # a => held'[r] = held[r]
         /\ \A r \in Resources : held'[r] = IF r \in R THEN held[r] + 1 ELSE held[r]
  BY GiveTake

\* The attempt goes on, and holds what it held.
LEMMA GoesOn ==
  ASSUME LifecycleInv, NEW a \in Attempts, NEW s, at(a, s), vhci = "up",
         UNCHANGED <<held, globals, vhciVars, wiExt, reattach_req>>,
         dev' = [b \in Attempts |-> dev'[b]], \A b \in Attempts \ {a} : dev'[b] = dev[b],
         AttemptAt(a)', AttemptHolds(a)'
  PROVE  LifecycleInv'
  <1>1. pc' = [b \in Attempts |-> pc'[b]] /\ pc'[a] = s /\ \A b \in Attempts \ {a} : pc'[b] = pc[b]
    BY PcStep
  <1>2. LifecycleTypes'
    BY <1>1 DEF LifecycleInv, LifecycleTypes, globals, vhciVars
  <1>3. UNCHANGED <<globals, vhci>>
    BY DEF vhciVars
  <1> QED BY <1>1, <1>2, <1>3, OnlyAttempt

\* The name of the server is resolved, or not.
LEMMA ResolvedNext ==
  ASSUME LifecycleInv, NEW a \in Attempts, NEW ok \in BOOLEAN, WskGetAddressInfo(a, ok)
  PROVE  LifecycleInv'
  <1> DEFINE s == IF ok THEN "resolved" ELSE "unresolved"
  <1>1. /\ pc[a] = "resolving" /\ at(a, s) /\ held' = IF ok THEN Take({AddrInfo(a)}) ELSE held
        /\ UNCHANGED <<globals, vhciVars, wiExt, dev, reattach_req>>
    BY DEF WskGetAddressInfo
  <1>2. AttemptAt(a) /\ AttemptHolds(a) /\ vhci = "up"
    BY <1>1, AttemptFacts
  <1>3. pc' = [b \in Attempts |-> pc'[b]] /\ pc'[a] = s /\ \A b \in Attempts \ {a} : pc'[b] = pc[b]
    BY <1>1, PcStep
  <1>4. /\ held' = [r \in Resources |-> held'[r]]
        /\ \A r \in Resources : r[2] # a => held'[r] = held[r]
        /\ \A r \in Resources : held'[r] = IF ok /\ r = AddrInfo(a) THEN held[r] + 1 ELSE held[r]
    <2>1. CASE ok
      <3>1. held' = Take({AddrInfo(a)}) /\ \A r \in {AddrInfo(a)} : r[2] = a
        BY <1>1, <2>1, Kinds
      <3>2. /\ held' = [r \in Resources |-> held'[r]]
            /\ \A r \in Resources : r[2] # a => held'[r] = held[r]
            /\ \A r \in Resources : held'[r] = IF r \in {AddrInfo(a)} THEN held[r] + 1 ELSE held[r]
        BY <3>1, TakeOne
      <3> QED BY <3>2, <2>1
    <2>2. CASE ~ok
      BY <1>1, <2>2 DEF LifecycleInv, LifecycleTypes
    <2> QED BY <2>1, <2>2
  <1>5. /\ held'[Ext(a)] = held[Ext(a)] /\ held'[Names(a)] = held[Names(a)]
        /\ held'[Sock(a)] = held[Sock(a)] /\ held'[WskSocket(a)] = held[WskSocket(a)]
        /\ held'[Request(a)] = held[Request(a)]
        /\ held'[AddrInfo(a)] = IF ok THEN held[AddrInfo(a)] + 1 ELSE held[AddrInfo(a)]
    BY <1>4, Kinds, InResources
  <1>6. AttemptAt(a)'
    BY <1>1, <1>2, <1>3 DEF AttemptAt, globals, vhciVars, Working, Looking, Connecting, Ending, PcStates
  <1>7. Owned(a)' /\ Owned(a)
    BY <1>1, <1>2 DEF AttemptAt, Owned, Working, Looking, Ending
  <1>8. AttemptHolds(a)'
    BY <1>1, <1>2, <1>3, <1>5, <1>7 DEF AttemptHolds, One, Zero, Looking, Connecting
  <1>9. LifecycleTypes'
    BY <1>1, <1>3, <1>4 DEF LifecycleInv, LifecycleTypes, globals, vhciVars
  <1>10. UNCHANGED <<globals, vhci>>
    BY <1>1 DEF vhciVars
  <1> QED BY <1>1, <1>2, <1>3, <1>4, <1>6, <1>8, <1>9, <1>10, OnlyAttempt

\* The steps that only move the attempt: WskConnect, complete_removing, connected, import_ends.
LEMMA MovesNext ==
  ASSUME LifecycleInv, NEW a \in Attempts,
         \/ \E r \in {"connected", "refused", "cancelled"} : WskConnect(a, r)
         \/ complete_removing(a)
         \/ connected(a)
         \/ import_ends(a)
  PROVE  LifecycleInv'
  <1>1. PICK s : /\ at(a, s) /\ UNCHANGED <<held, globals, vhciVars, wiExt, dev, reattach_req>>
                 /\ \/ pc[a] = "connecting" /\ s \in {"connected", "refused", "cancelled"}
                    \/ pc[a] \in Enqueued /\ s = "tail"
                    \/ pc[a] = "connected" /\ s = "import"
                    \/ pc[a] = "import" /\ s \in {"imported", "tail"}
    <2>1. ASSUME NEW r \in {"connected", "refused", "cancelled"}, WskConnect(a, r)
          PROVE  /\ at(a, r) /\ UNCHANGED <<held, globals, vhciVars, wiExt, dev, reattach_req>>
                 /\ pc[a] = "connecting"
      BY <2>1 DEF WskConnect
    <2>2. CASE complete_removing(a)
      BY <2>2 DEF complete_removing
    <2>3. CASE connected(a)
      BY <2>3 DEF connected
    <2>4. CASE import_ends(a)
      <3>1. /\ pc[a] = "import" /\ (at(a, "imported") \/ at(a, "tail"))
            /\ UNCHANGED <<held, globals, vhciVars, wiExt, dev, reattach_req>>
        BY <2>4 DEF import_ends
      <3> QED BY <3>1
    <2> QED BY <2>1, <2>2, <2>3, <2>4
  <1>2. AttemptAt(a) /\ AttemptHolds(a) /\ vhci = "up" /\ pc[a] \in Working \ {"getaddrinfo", "lost"}
    BY <1>1, AttemptFacts DEF Enqueued, Working, Looking, Connecting
  <1>3. pc'[a] = s
    BY <1>1, PcStep
  <1>4. dev[a] = "none" /\ a \in wiExt
    BY <1>2 DEF AttemptAt, Working, Looking, Connecting, Ending
  <1>5. AttemptAt(a)'
    BY <1>1, <1>2, <1>3, <1>4 DEF AttemptAt, globals, vhciVars, Working, Looking, Connecting, Ending, PcStates
  <1>6. AttemptHolds(a)'
    <2>1. Owned(a) /\ Owned(a)'
      BY <1>1, <1>4 DEF Owned
    <2>2. pc[a] # "done" /\ vhci' = "up"
      BY <1>1, <1>2 DEF vhciVars, Enqueued
    <2>3. /\ s \in Connecting => pc[a] \in Connecting
          /\ s \notin Looking /\ s \notin {"none", "abandoned", "no_socket", "lacking", "ending", "done"}
          /\ s \notin {"getaddrinfo", "lost", "resolving", "unresolved"}
          /\ pc[a] \notin {"abandoned", "lacking", "ending", "done"}
      BY <1>1 DEF Looking, Connecting, Enqueued
    <2>4. /\ held[Ext(a)] = 1 /\ One(Names(a)) /\ Zero(Request(a)) /\ a \notin reattach_req
          /\ held[Sock(a)] \in {0, 1} /\ held[WskSocket(a)] \in {0, 1} /\ held[AddrInfo(a)] \in {0, 1}
          /\ pc[a] \in Connecting => One(Sock(a)) /\ One(WskSocket(a))
      BY <1>2, <2>1, <2>3 DEF AttemptHolds, One, Zero
    <2>5. held' = held /\ reattach_req' = reattach_req
      BY <1>1
    <2> QED BY <1>3, <2>1, <2>2, <2>3, <2>4, <2>5 DEF AttemptHolds, One, Zero
  <1>7. dev' = [b \in Attempts |-> dev'[b]] /\ \A b \in Attempts \ {a} : dev'[b] = dev[b]
    BY <1>1 DEF LifecycleInv, LifecycleTypes
  <1> QED BY <1>1, <1>2, <1>5, <1>6, <1>7, GoesOn

\* device::create fails: the device may be left behind.
LEMMA CreateFailedNext ==
  ASSUME LifecycleInv, NEW a \in Attempts, NEW how, device_create_failed(a, how)
  PROVE  LifecycleInv'
  <1>1. /\ pc[a] = "imported" /\ at(a, "tail")
        /\ UNCHANGED <<held, globals, vhciVars, wiExt, reattach_req>>
        /\ \/ dev' = [dev EXCEPT ![a] = "orphan"]
           \/ dev' = [dev EXCEPT ![a] = dev[a]]
    BY DEF device_create_failed
  <1>2. AttemptAt(a) /\ AttemptHolds(a) /\ vhci = "up"
    BY <1>1, AttemptFacts
  <1>3. pc'[a] = "tail"
    BY <1>1, PcStep
  <1>4. dev[a] = "none" /\ a \in wiExt
    BY <1>1, <1>2 DEF AttemptAt, Working, Connecting, Ending
  <1>5. /\ dev' = [b \in Attempts |-> dev'[b]] /\ \A b \in Attempts \ {a} : dev'[b] = dev[b]
        /\ dev'[a] \in {"none", "orphan"}
    BY <1>1, <1>4 DEF LifecycleInv, LifecycleTypes
  <1>6. AttemptAt(a)'
    BY <1>1, <1>2, <1>3, <1>4, <1>5 DEF AttemptAt, globals, vhciVars, Working, Looking, Connecting, Ending, PcStates
  <1>7. AttemptHolds(a)'
    BY <1>1, <1>2, <1>3, <1>4, <1>5 DEF AttemptHolds, One, Zero, Owned, vhciVars, Looking, Connecting
  <1> QED BY <1>1, <1>2, <1>5, <1>6, <1>7, GoesOn

\* plugin: the device gets the extension.
LEMMA PluginNext ==
  ASSUME LifecycleInv, NEW a \in Attempts, plugin(a)
  PROVE  LifecycleInv'
  <1>1. /\ pc[a] = "imported" /\ at(a, "plugged") /\ wiExt' = wiExt \ {a} /\ dev' = [dev EXCEPT ![a] = "plugged"]
        /\ UNCHANGED <<held, globals, vhciVars, reattach_req>>
    BY DEF plugin
  <1>2. AttemptAt(a) /\ AttemptHolds(a) /\ vhci = "up"
    BY <1>1, AttemptFacts
  <1>3. pc' = [b \in Attempts |-> pc'[b]] /\ pc'[a] = "plugged" /\ \A b \in Attempts \ {a} : pc'[b] = pc[b]
    BY <1>1, PcStep
  <1>4. a \in wiExt
    BY <1>1, <1>2 DEF AttemptAt, Working, Connecting, Ending
  <1>5. /\ dev' = [b \in Attempts |-> dev'[b]] /\ \A b \in Attempts \ {a} : dev'[b] = dev[b]
        /\ dev'[a] = "plugged"
    BY <1>1 DEF LifecycleInv, LifecycleTypes
  <1>6. AttemptAt(a)'
    BY <1>1, <1>2, <1>3, <1>5 DEF AttemptAt, globals, vhciVars, Working, Looking, Connecting, Ending, PcStates
  <1>7. AttemptHolds(a)'
    BY <1>1, <1>2, <1>3, <1>4, <1>5 DEF AttemptHolds, One, Zero, Owned, vhciVars, Looking, Connecting
  <1>8. LifecycleTypes'
    BY <1>1, <1>3, <1>5 DEF LifecycleInv, LifecycleTypes, globals, vhciVars
  <1>9. UNCHANGED <<globals, vhci>>
    BY <1>1 DEF vhciVars
  <1> QED BY <1>1, <1>2, <1>3, <1>5, <1>6, <1>7, <1>8, <1>9, OnlyAttempt

\* PLUGIN_HARDWARE.
LEMMA PluginHardwareNext ==
  ASSUME LifecycleInv, NEW a \in Attempts, NEW how, plugin_hardware(a, how)
  PROVE  LifecycleInv'
  <1> DEFINE new == create_device_ctx_ext(a, how)
             s == IF AttributesComplete(how) /\ how = "ok" THEN "getaddrinfo" ELSE "abandoned"
  <1>1. /\ vhci = "up" /\ pc[a] = "none" /\ UNCHANGED <<globals, vhciVars, dev, reattach_req>>
        /\ \/ /\ at(a, s) /\ held' = Take(new)
              /\ wiExt' = IF how = "memory" THEN wiExt ELSE wiExt \cup {a}
           \/ at(a, "done") /\ UNCHANGED <<wiExt, held>>
    BY DEF plugin_hardware
  <1>2. AttemptAt(a) /\ AttemptHolds(a)
    BY AttemptFacts
  <1>3. a \notin wiExt /\ dev[a] = "none" /\ ~Owned(a)
    BY <1>1, <1>2 DEF AttemptAt, Owned, Working, Looking, Connecting, Ending
  <1>4. dev' = [b \in Attempts |-> dev'[b]] /\ \A b \in Attempts \ {a} : dev'[b] = dev[b]
    BY <1>1 DEF LifecycleInv, LifecycleTypes
  <1>5. CASE at(a, "done") /\ UNCHANGED <<wiExt, held>>
    <2>1. pc'[a] = "done"
      BY <1>5, PcStep
    <2>2. AttemptAt(a)'
      BY <1>1, <1>2, <1>3, <1>5, <2>1 DEF AttemptAt, globals, vhciVars, Working, Looking, Connecting, Ending, PcStates
    <2>3. AttemptHolds(a)'
      BY <1>1, <1>2, <1>3, <1>5, <2>1 DEF AttemptHolds, One, Zero, Owned, vhciVars, Looking, Connecting
    <2> QED BY <1>1, <1>4, <1>5, <2>2, <2>3, GoesOn
  <1>6. CASE /\ at(a, s) /\ held' = Take(new)
             /\ wiExt' = IF how = "memory" THEN wiExt ELSE wiExt \cup {a}
    <2>1. pc' = [b \in Attempts |-> pc'[b]] /\ pc'[a] = s /\ \A b \in Attempts \ {a} : pc'[b] = pc[b]
      BY <1>6, PcStep
    <2>2. /\ \A r \in new : r \in {Ext(a), Names(a)}
          /\ Ext(a) \in new <=> how # "memory"
          /\ Names(a) \in new <=> how \notin {"memory", "name"}
      BY Kinds DEF create_device_ctx_ext, alloc_device_ctx_ext, init_device_attributes, save_device_location
    <2>3. s \in {"getaddrinfo", "abandoned"} /\ (s = "getaddrinfo" => how = "ok")
      OBVIOUS
    <2> HIDE DEF new, s
    <2>4. /\ held' = [r \in Resources |-> held'[r]]
          /\ \A r \in Resources : r[2] # a => held'[r] = held[r]
          /\ \A r \in Resources : held'[r] = IF r \in new THEN held[r] + 1 ELSE held[r]
      <3>1. \A r \in new : r[2] = a
        BY <2>2, Kinds
      <3> QED BY <1>6, <3>1, TakeOne
    <2>5. /\ held[Ext(a)] = 0 /\ held[Names(a)] = 0 /\ held[Sock(a)] = 0 /\ held[WskSocket(a)] = 0
          /\ held[AddrInfo(a)] = 0 /\ held[Request(a)] = 0 /\ a \notin reattach_req
      BY <1>1, <1>2, <1>3 DEF AttemptAt, AttemptHolds, One, Zero
    <2>6. /\ Sock(a) \notin new /\ WskSocket(a) \notin new /\ AddrInfo(a) \notin new /\ Request(a) \notin new
      BY <2>2, Kinds
    <2>7. /\ held'[Ext(a)] = (IF how # "memory" THEN 1 ELSE 0)
          /\ held'[Names(a)] = (IF how \notin {"memory", "name"} THEN 1 ELSE 0)
          /\ held'[Sock(a)] = 0 /\ held'[WskSocket(a)] = 0
          /\ held'[Request(a)] = 0 /\ held'[AddrInfo(a)] = 0
      BY <2>2, <2>4, <2>5, <2>6, InResources
    <2>8. a \in wiExt' <=> how # "memory"
      BY <1>3, <1>6
    <2>9. dev'[a] = "none"
      BY <1>1, <1>3
    <2>10. AttemptAt(a)'
      BY <1>1, <2>1, <2>3, <2>8, <2>9 DEF AttemptAt, globals, vhciVars, Working, Looking, Connecting, Ending, PcStates
    <2>11. Owned(a)' <=> how # "memory"
      BY <2>8, <2>9 DEF Owned
    <2>12. AttemptHolds(a)'
      BY <1>1, <2>1, <2>3, <2>5, <2>7, <2>9, <2>11 DEF AttemptHolds, One, Zero, vhciVars, Looking, Connecting
    <2>13. LifecycleTypes'
      <3>1. wiExt' \subseteq Attempts
        BY <1>6 DEF LifecycleInv, LifecycleTypes
      <3> QED BY <1>1, <1>4, <2>1, <2>4, <3>1 DEF LifecycleInv, LifecycleTypes, globals, vhciVars
    <2>14. UNCHANGED <<globals, vhci>>
      BY <1>1 DEF vhciVars
    <2>15. \A b \in Attempts \ {a} : b \in wiExt' <=> b \in wiExt
      BY <1>6
    <2> QED BY <1>1, <1>4, <2>1, <2>4, <2>10, <2>12, <2>13, <2>14, <2>15, OnlyAttempt
  <1> QED BY <1>1, <1>5, <1>6

\* getaddrinfo may capture the provider.
LEMMA GetAddrInfoNext ==
  ASSUME LifecycleInv, NEW a \in Attempts, getaddrinfo(a)
  PROVE  LifecycleInv'
  <1>1. PICK captured \in BOOLEAN : wsk_getaddrinfo(a, captured)
    BY DEF getaddrinfo
  <1> DEFINE s == IF captured THEN "resolving" ELSE "lost"
             p == <<"provider", 0>>
  <1>2. /\ pc[a] = "getaddrinfo" /\ UNCHANGED <<drv, g_initialized, vhciVars, wiExt, dev, reattach_req>>
        /\ GetProviderNPI(captured) /\ at(a, s)
    BY <1>1 DEF getaddrinfo, wsk_getaddrinfo
  <1>3. AttemptAt(a) /\ AttemptHolds(a) /\ vhci = "up" /\ drv = "loaded"
    BY <1>2, AttemptFacts
  <1>4. pc' = [b \in Attempts |-> pc'[b]] /\ pc'[a] = s /\ \A b \in Attempts \ {a} : pc'[b] = pc[b]
    BY <1>2, PcStep
  <1>5. once <=> "F_CAPTURE" \in g_init_flags
    BY <1>3 DEF LifecycleInv, DriverAt
  <1>6. held[p] = IF "F_CAPTURE" \in g_init_flags THEN 1 ELSE 0
    BY DEF LifecycleInv, DriverHolds
  <1>7. /\ held' = [r \in Resources |-> held'[r]] /\ once' \in BOOLEAN
        /\ \A r \in Resources : r # p => held'[r] = held[r]
        /\ once' <=> "F_CAPTURE" \in g_init_flags'
        /\ captured <=> "F_CAPTURE" \in g_init_flags'
        /\ "F_CAPTURE" \in g_init_flags => "F_CAPTURE" \in g_init_flags'
        /\ "F_REGISTER" \in g_init_flags' <=> "F_REGISTER" \in g_init_flags
        /\ held'[p] = IF "F_CAPTURE" \in g_init_flags' THEN 1 ELSE 0
    <2>0. held = [r \in Resources |-> held[r]] /\ once \in BOOLEAN
      BY DEF LifecycleInv, LifecycleTypes
    <2>1. CASE once
      <3>1. UNCHANGED <<held, g_init_flags, once>> /\ captured = ("F_CAPTURE" \in g_init_flags)
        BY <1>2, <2>1 DEF GetProviderNPI
      <3> QED BY <3>1, <2>0, <1>5, <1>6
    <2>2. CASE ~once /\ captured
      <3>1. once' = captured /\ g_init_flags' = g_init_flags \cup {"F_CAPTURE"} /\ held' = Take(Own({"provider"}))
        BY <1>2, <2>2 DEF GetProviderNPI
      <3>2. \A r : r \in Own({"provider"}) <=> r = p
        BY OwnIs
      <3>3. p \in Resources
        BY InResources
      <3> HIDE DEF p
      <3>4. /\ held' = [r \in Resources |-> held'[r]]
            /\ \A r \in Resources : held'[r] = IF r = p THEN held[r] + 1 ELSE held[r]
        BY <3>1, <3>2, GiveTake
      <3>5. held[p] = 0
        BY <1>5, <1>6, <2>2
      <3>6. held'[p] = 1 /\ \A r \in Resources : r # p => held'[r] = held[r]
        BY <3>3, <3>4, <3>5
      <3> QED BY <3>1, <3>4, <3>6, <2>2
    <2>3. CASE ~once /\ ~captured
      <3>1. once' = captured /\ UNCHANGED <<held, g_init_flags>>
        BY <1>2, <2>3 DEF GetProviderNPI
      <3> QED BY <3>1, <2>0, <2>3, <1>5, <1>6
    <2> QED BY <2>1, <2>2, <2>3
  <1>8. \A b \in Attempts : \A r \in Resources : r[2] = b => r # p
    BY Kinds, AttemptsAre
  <1>9. /\ held'[Ext(a)] = held[Ext(a)] /\ held'[Names(a)] = held[Names(a)]
        /\ held'[Sock(a)] = held[Sock(a)] /\ held'[WskSocket(a)] = held[WskSocket(a)]
        /\ held'[Request(a)] = held[Request(a)] /\ held'[AddrInfo(a)] = held[AddrInfo(a)]
    BY <1>7, <1>8, Kinds, InResources
  <1>10. AttemptAt(a)'
    BY <1>2, <1>3, <1>4, <1>7 DEF AttemptAt, vhciVars, Working, Looking, Connecting, Ending, PcStates
  <1>11. AttemptHolds(a)'
    <2>1. Owned(a) /\ Owned(a)'
      BY <1>2, <1>3 DEF AttemptAt, Owned, Working, Looking, Ending
    <2> QED BY <1>2, <1>3, <1>4, <1>9, <2>1 DEF AttemptHolds, One, Zero, vhciVars, Looking, Connecting
  <1>12. LifecycleTypes'
    BY <1>2, <1>4, <1>7 DEF LifecycleInv, LifecycleTypes, vhciVars
  <1>13. /\ held'[<<"lookaside", 0>>] = held[<<"lookaside", 0>>] /\ held'[<<"attr", 0>>] = held[<<"attr", 0>>]
         /\ held'[<<"registration", 0>>] = held[<<"registration", 0>>]
         /\ held'[<<"devices", 0>>] = held[<<"devices", 0>>] /\ held'[<<"target", 0>>] = held[<<"target", 0>>]
    BY <1>7, InResources, Kinds
  <1>14. DriverHolds'
    BY <1>2, <1>7, <1>13 DEF LifecycleInv, DriverHolds
  <1>15. ControllerHolds'
    BY <1>2, <1>13 DEF LifecycleInv, ControllerHolds, One, Zero, vhciVars
  <1>16. DriverAt'
    BY <1>2, <1>3, <1>4, <1>7 DEF LifecycleInv, DriverAt, vhciVars
  <1>17. UNCHANGED vhci
    BY <1>2 DEF vhciVars
  <1>18. \A b \in Attempts \ {a} : \A r \in Resources : r[2] = b => held'[r] = held[r]
    BY <1>7, <1>8
  <1> QED BY <1>2, <1>4, <1>7, <1>10, <1>11, <1>12, <1>14, <1>15, <1>16, <1>17, <1>18, Others

\* A socket is given back, or not, and another one is taken, or not.
LEMMA ConnectKeeps ==
  ASSUME LifecycleInv, NEW a \in Attempts, NEW i, NEW how, NEW gone, connect(a, i, how, gone),
         \/ pc[a] = "resolved" /\ gone = {}
         \/ pc[a] = "refused" /\ gone = {Sock(a), WskSocket(a)},
         UNCHANGED <<globals, vhciVars, wiExt, dev, reattach_req>>
  PROVE  LifecycleInv'
  <1> DEFINE new == socket(a, how)
             s == IF create_socket(a, how) THEN "connecting"
                  ELSE IF new = {Sock(a)} THEN "no_socket" ELSE "tail"
  <1>1. /\ at(a, s)
        /\ held' = [r \in Resources |-> held[r] - (IF r \in gone THEN 1 ELSE 0) + (IF r \in new THEN 1 ELSE 0)]
    BY DEF connect
  <1>2. new = {} \/ new = {Sock(a)} \/ new = {Sock(a), WskSocket(a)}
    BY DEF socket, alloc_socket
  <1>3. /\ s \in {"connecting", "no_socket", "tail"}
        /\ s = "connecting" => new = {Sock(a), WskSocket(a)}
        /\ s = "no_socket" <=> new = {Sock(a)}
    <2>1. create_socket(a, how) => WskSocket(a) \in new
      BY DEF create_socket
    <2>2. WskSocket(a) # Sock(a)
      BY Kinds
    <2> QED BY <1>2, <2>1, <2>2
  <1>4. AttemptAt(a) /\ AttemptHolds(a) /\ vhci = "up"
    BY AttemptFacts
  <1>5. pc' = [b \in Attempts |-> pc'[b]] /\ pc'[a] = s /\ \A b \in Attempts \ {a} : pc'[b] = pc[b]
    BY <1>1, PcStep
  <1>6. \A r : r \in gone \/ r \in new => r \in {Sock(a), WskSocket(a)}
    BY <1>2
  <1> HIDE DEF new, s
  <1>7. /\ held' = [r \in Resources |-> held'[r]]
        /\ \A r \in Resources : held'[r] = held[r] - (IF r \in gone THEN 1 ELSE 0) + (IF r \in new THEN 1 ELSE 0)
    BY <1>1
  <1>8. a \in wiExt /\ Owned(a) /\ Owned(a)' /\ dev[a] = "none"
    BY <1>4 DEF AttemptAt, Owned, Working, Looking, Connecting, Ending
  <1>9. /\ Sock(a) \in gone <=> pc[a] = "refused"
        /\ WskSocket(a) \in gone <=> pc[a] = "refused"
        /\ WskSocket(a) \in new => Sock(a) \in new
        /\ s = "connecting" => WskSocket(a) \in new
        /\ s = "no_socket" => Sock(a) \in new /\ WskSocket(a) \notin new
    BY <1>2, <1>3, Kinds
  <1>10. /\ pc[a] = "refused" => held[Sock(a)] = 1 /\ held[WskSocket(a)] = 1
         /\ pc[a] = "resolved" => held[Sock(a)] = 0 /\ held[WskSocket(a)] = 0
    BY <1>4, <1>8 DEF AttemptHolds, One, Zero, Connecting, Looking
  <1>11. /\ held'[Sock(a)] = IF Sock(a) \in new THEN 1 ELSE 0
         /\ held'[WskSocket(a)] = IF WskSocket(a) \in new THEN 1 ELSE 0
    BY <1>7, <1>9, <1>10, InResources
  <1>12. \A r \in Resources : r \notin {Sock(a), WskSocket(a)} /\ held[r] \in Int => held'[r] = held[r]
    BY <1>6, <1>7
  <1>13. /\ held'[Ext(a)] = held[Ext(a)] /\ held'[Names(a)] = held[Names(a)]
         /\ held'[Request(a)] = held[Request(a)] /\ held'[AddrInfo(a)] = held[AddrInfo(a)]
    <2>1. held[Ext(a)] \in Int /\ held[Names(a)] \in Int /\ held[Request(a)] \in Int /\ held[AddrInfo(a)] \in Int
      BY HeldIsInt, InResources
    <2> QED BY <2>1, <1>12, Kinds, InResources
  <1>14. \A r \in Resources : r[2] # a => held'[r] = held[r]
    <2> SUFFICES ASSUME NEW r \in Resources, r[2] # a PROVE held'[r] = held[r]
      OBVIOUS
    <2>1. held[r] \in Int
      BY HeldIsInt
    <2> QED BY <2>1, <1>12, Kinds
  <1>15. AttemptAt(a)'
    BY <1>3, <1>4, <1>5, <1>8 DEF AttemptAt, globals, vhciVars, Working, Looking, Connecting, Ending, PcStates
  <1>16. AttemptHolds(a)'
    BY <1>3, <1>4, <1>5, <1>8, <1>9, <1>11, <1>13 DEF AttemptHolds, One, Zero, vhciVars, Looking, Connecting
  <1>17. LifecycleTypes'
    BY <1>5, <1>7 DEF LifecycleInv, LifecycleTypes, globals, vhciVars
  <1>18. UNCHANGED <<globals, vhci>>
    BY DEF vhciVars
  <1> QED BY <1>4, <1>5, <1>14, <1>15, <1>16, <1>17, <1>18, OnlyAttempt

\* The completion of the resolver's IRP.
LEMMA AddrInfoNext ==
  ASSUME LifecycleInv, NEW a \in Attempts, NEW how, complete_addrinfo(a, how)
  PROVE  LifecycleInv'
  <1>1. /\ pc[a] \in {"resolved", "unresolved"} /\ UNCHANGED <<globals, vhciVars, wiExt, dev, reattach_req>>
        /\ \/ pc[a] = "resolved" /\ connect(a, 1, how, {})
           \/ pc[a] = "unresolved" /\ at(a, "tail") /\ UNCHANGED held
    BY DEF complete_addrinfo
  <1>2. CASE pc[a] = "resolved" /\ connect(a, 1, how, {})
    BY <1>1, <1>2, ConnectKeeps
  <1>3. CASE pc[a] = "unresolved" /\ at(a, "tail") /\ UNCHANGED held
    <2>1. AttemptAt(a) /\ AttemptHolds(a) /\ vhci = "up"
      BY <1>3, AttemptFacts
    <2>2. pc'[a] = "tail"
      BY <1>3, PcStep
    <2>3. dev[a] = "none" /\ a \in wiExt
      BY <1>3, <2>1 DEF AttemptAt, Working, Looking, Ending
    <2>4. AttemptAt(a)'
      BY <1>1, <1>3, <2>1, <2>2, <2>3 DEF AttemptAt, globals, vhciVars, Working, Looking, Connecting, Ending, PcStates
    <2>5. AttemptHolds(a)'
      BY <1>1, <1>3, <2>1, <2>2, <2>3 DEF AttemptHolds, One, Zero, Owned, vhciVars, Looking, Connecting
    <2>6. dev' = [b \in Attempts |-> dev'[b]] /\ \A b \in Attempts \ {a} : dev'[b] = dev[b]
      BY <1>1 DEF LifecycleInv, LifecycleTypes
    <2> QED BY <1>1, <1>3, <2>1, <2>4, <2>5, <2>6, GoesOn
  <1> QED BY <1>1, <1>2, <1>3

\* No address can be connected to.
LEMMA ConnectFailedNext ==
  ASSUME LifecycleInv, NEW a \in Attempts, NEW how, on_connect_failed(a, how)
  PROVE  LifecycleInv'
  <1> DEFINE gone == {Sock(a), WskSocket(a)}
  <1>0. pc[a] \in {"refused", "cancelled"} /\ UNCHANGED <<globals, vhciVars, wiExt, dev, reattach_req>>
    BY DEF on_connect_failed
  <1>1. AttemptAt(a) /\ AttemptHolds(a) /\ vhci = "up"
    BY <1>0, AttemptFacts
  <1>2. held[Sock(a)] = 1 /\ held[WskSocket(a)] = 1
    BY <1>0, <1>1 DEF AttemptHolds, One, Connecting
  <1>3. close_socket(a) \cup free_socket(a) = gone
    BY <1>2 DEF close_socket, free_socket
  <1> HIDE DEF gone
  <1>4. \/ \E i : pc[a] = "refused" /\ connect(a, i, how, gone)
        \/ at(a, "tail") /\ held' = Give(gone)
    BY <1>3 DEF on_connect_failed
  <1>5. CASE \E i : pc[a] = "refused" /\ connect(a, i, how, gone)
    BY <1>0, <1>5, ConnectKeeps DEF gone
  <1>6. CASE at(a, "tail") /\ held' = Give(gone)
    <2>1. pc' = [b \in Attempts |-> pc'[b]] /\ pc'[a] = "tail" /\ \A b \in Attempts \ {a} : pc'[b] = pc[b]
      BY <1>6, PcStep
    <2>2. \A r \in gone : r[2] = a
      BY Kinds DEF gone
    <2>3. /\ held' = [r \in Resources |-> held'[r]]
          /\ \A r \in Resources : r[2] # a => held'[r] = held[r]
          /\ \A r \in Resources : held'[r] = IF r \in gone THEN held[r] - 1 ELSE held[r]
      BY <1>6, <2>2, GiveOne
    <2>4. /\ held'[Ext(a)] = held[Ext(a)] /\ held'[Names(a)] = held[Names(a)]
          /\ held'[Sock(a)] = 0 /\ held'[WskSocket(a)] = 0
          /\ held'[Request(a)] = held[Request(a)] /\ held'[AddrInfo(a)] = held[AddrInfo(a)]
      BY <2>3, <1>2, Kinds, InResources DEF gone
    <2>5. Owned(a) /\ Owned(a)' /\ dev[a] = "none" /\ a \in wiExt
      BY <1>0, <1>1 DEF AttemptAt, Owned, Working, Connecting, Ending
    <2>6. AttemptAt(a)'
      BY <1>0, <1>1, <2>1, <2>5 DEF AttemptAt, globals, vhciVars, Working, Looking, Connecting, Ending, PcStates
    <2>7. AttemptHolds(a)'
      BY <1>0, <1>1, <2>1, <2>4, <2>5 DEF AttemptHolds, One, Zero, vhciVars, Looking, Connecting
    <2>8. LifecycleTypes'
      BY <1>0, <2>1, <2>3 DEF LifecycleInv, LifecycleTypes, globals, vhciVars
    <2>9. UNCHANGED <<globals, vhci>>
      BY <1>0 DEF vhciVars
    <2> QED BY <1>0, <1>1, <2>1, <2>3, <2>6, <2>7, <2>8, <2>9, OnlyAttempt
  <1> QED BY <1>4, <1>5, <1>6

\* A SOCKET without a socket is freed.
LEMMA SocketFailedNext ==
  ASSUME LifecycleInv, NEW a \in Attempts, socket_failed(a)
  PROVE  LifecycleInv'
  <1>1. /\ pc[a] = "no_socket" /\ at(a, "tail") /\ held' = Give({Sock(a)})
        /\ UNCHANGED <<globals, vhciVars, wiExt, dev, reattach_req>>
    BY DEF socket_failed, free_socket
  <1>2. AttemptAt(a) /\ AttemptHolds(a) /\ vhci = "up"
    BY <1>1, AttemptFacts
  <1>3. pc' = [b \in Attempts |-> pc'[b]] /\ pc'[a] = "tail" /\ \A b \in Attempts \ {a} : pc'[b] = pc[b]
    BY <1>1, PcStep
  <1>4. /\ held' = [r \in Resources |-> held'[r]]
        /\ \A r \in Resources : r[2] # a => held'[r] = held[r]
        /\ \A r \in Resources : held'[r] = IF r \in {Sock(a)} THEN held[r] - 1 ELSE held[r]
    <2>1. \A r \in {Sock(a)} : r[2] = a
      BY Kinds
    <2> QED BY <1>1, <2>1, GiveOne
  <1>5. held[Sock(a)] = 1 /\ held[WskSocket(a)] = 0
    BY <1>1, <1>2 DEF AttemptHolds, One, Zero
  <1>6. /\ held'[Ext(a)] = held[Ext(a)] /\ held'[Names(a)] = held[Names(a)]
        /\ held'[Sock(a)] = 0 /\ held'[WskSocket(a)] = 0
        /\ held'[Request(a)] = held[Request(a)] /\ held'[AddrInfo(a)] = held[AddrInfo(a)]
    BY <1>4, <1>5, Kinds, InResources
  <1>7. Owned(a) /\ Owned(a)' /\ dev[a] = "none" /\ a \in wiExt
    BY <1>1, <1>2 DEF AttemptAt, Owned, Working, Ending
  <1>8. AttemptAt(a)'
    BY <1>1, <1>2, <1>3, <1>7 DEF AttemptAt, globals, vhciVars, Working, Looking, Connecting, Ending, PcStates
  <1>9. AttemptHolds(a)'
    BY <1>1, <1>2, <1>3, <1>6, <1>7 DEF AttemptHolds, One, Zero, vhciVars, Looking, Connecting
  <1>10. LifecycleTypes'
    BY <1>1, <1>3, <1>4 DEF LifecycleInv, LifecycleTypes, globals, vhciVars
  <1>11. UNCHANGED <<globals, vhci>>
    BY <1>1 DEF vhciVars
  <1> QED BY <1>1, <1>2, <1>3, <1>4, <1>8, <1>9, <1>10, <1>11, OnlyAttempt

\* What a destroyed extension and a closed socket give back.
LEMMA Destroyed ==
  ASSUME LifecycleInv, NEW a \in Attempts, Owned(a)
  PROVE  LET R == close_socket(a) \cup destroy_device_ctx_ext(a) IN
         /\ \A r \in R : r[2] = a
         /\ \A r : r \in R <=> \/ r = Ext(a)
                               \/ r = Names(a) /\ held[r] = 1
                               \/ r = Sock(a) /\ held[r] = 1
                               \/ r = WskSocket(a) /\ held[r] = 1
  <1>1. AttemptHolds(a)
    BY AttemptFacts
  <1>2. held[Names(a)] \in {0, 1} /\ held[Sock(a)] \in {0, 1} /\ held[WskSocket(a)] \in {0, 1}
    BY <1>1 DEF AttemptHolds
  <1>3. \A r : r \in close_socket(a) <=> r = WskSocket(a) /\ held[r] = 1
    BY <1>2 DEF close_socket
  <1>4. \A r : r \in destroy_device_ctx_ext(a)
                 <=> r = Ext(a) \/ (r = Names(a) /\ held[r] = 1) \/ (r = Sock(a) /\ held[r] = 1)
    <2>1. (held[Names(a)] > 0 <=> held[Names(a)] = 1) /\ (held[Sock(a)] > 0 <=> held[Sock(a)] = 1)
      BY <1>2
    <2> QED BY <2>1 DEF destroy_device_ctx_ext
  <1> QED BY <1>3, <1>4, Kinds

\* The socket of a device is closed, and the device deleted, or kept by UDE.
LEMMA DetachedKeeps ==
  ASSUME LifecycleInv, NEW a \in Attempts, NEW kept \in BOOLEAN, detached(a, kept), Owned(a),
         UNCHANGED <<globals, vhciVars, reattach_req>>, vhci = "up",
         pc' = [b \in Attempts |-> pc'[b]], \A b \in Attempts \ {a} : pc'[b] = pc[b],
         \/ pc[a] = "imported" /\ pc'[a] = "tail"
         \/ pc[a] \in Ending \cup {"plugged", "done"} /\ UNCHANGED pc,
         "F_CAPTURE" \in g_init_flags \/ pc'[a] = "done",
         a \notin wiExt', \A b \in Attempts \ {a} : b \in wiExt' <=> b \in wiExt, wiExt' \subseteq Attempts
  PROVE  LifecycleInv'
  <1> DEFINE R == close_socket(a) \cup (IF kept THEN {} ELSE destroy_device_ctx_ext(a))
  <1>1. held' = Give(R) /\ dev' = [dev EXCEPT ![a] = IF kept THEN "kept" ELSE "deleted"]
    BY DEF detached
  <1>2. AttemptAt(a) /\ AttemptHolds(a)
    BY AttemptFacts
  <1>3. /\ \A r \in R : r[2] = a
        /\ \A r : r \in R <=> \/ ~kept /\ r = Ext(a)
                              \/ ~kept /\ r = Names(a) /\ held[r] = 1
                              \/ ~kept /\ r = Sock(a) /\ held[r] = 1
                              \/ r = WskSocket(a) /\ held[r] = 1
    <2>1. CASE ~kept
      BY <2>1, Destroyed
    <2>2. CASE kept
      <3>1. held[WskSocket(a)] \in {0, 1}
        BY <1>2 DEF AttemptHolds
      <3> QED BY <2>2, <3>1, Kinds DEF close_socket
    <2> QED BY <2>1, <2>2
  <1> HIDE DEF R
  <1>4. /\ held' = [r \in Resources |-> held'[r]]
        /\ \A r \in Resources : r[2] # a => held'[r] = held[r]
        /\ \A r \in Resources : held'[r] = IF r \in R THEN held[r] - 1 ELSE held[r]
    BY <1>1, <1>3, GiveOne
  <1>5. /\ held[Ext(a)] = 1 /\ held[Names(a)] = 1 /\ held[Sock(a)] \in {0, 1} /\ held[WskSocket(a)] \in {0, 1}
    <2>1. pc[a] # "abandoned"
      BY DEF Ending
    <2> QED BY <1>2, <2>1 DEF AttemptHolds, One
  <1>6. /\ Ext(a) \in R <=> ~kept
        /\ Names(a) \in R <=> ~kept
        /\ Sock(a) \in R <=> ~kept /\ held[Sock(a)] = 1
        /\ WskSocket(a) \in R <=> held[WskSocket(a)] = 1
        /\ AddrInfo(a) \notin R /\ Request(a) \notin R
    BY <1>3, <1>5, Kinds
  <1>7. /\ held'[Ext(a)] = (IF kept THEN 1 ELSE 0) /\ held'[Names(a)] = (IF kept THEN 1 ELSE 0)
        /\ held'[Sock(a)] = (IF kept THEN held[Sock(a)] ELSE 0) /\ held'[WskSocket(a)] = 0
        /\ held'[Request(a)] = held[Request(a)] /\ held'[AddrInfo(a)] = held[AddrInfo(a)]
    BY <1>4, <1>5, <1>6, InResources
  <1>8. /\ dev' = [b \in Attempts |-> dev'[b]] /\ \A b \in Attempts \ {a} : dev'[b] = dev[b]
        /\ dev'[a] = IF kept THEN "kept" ELSE "deleted"
    BY <1>1 DEF LifecycleInv, LifecycleTypes
  <1>9. Owned(a)' <=> kept
    BY <1>8 DEF Owned
  <1>10. AttemptAt(a)'
    BY <1>2, <1>8 DEF AttemptAt, globals, vhciVars, Working, Looking, Connecting, Ending, PcStates
  <1>11. AttemptHolds(a)'
    <2>1. /\ held[AddrInfo(a)] \in {0, 1} /\ (pc[a] = "done" => held[AddrInfo(a)] = 0)
          /\ held[Request(a)] \in {0, 1}
          /\ (pc[a] \notin {"lacking", "ending", "done"} => held[Request(a)] = 0)
          /\ (pc[a] = "lacking" => held[Request(a)] = 1)
          /\ (a \in reattach_req => held[Request(a)] = 1)
      BY <1>2 DEF AttemptHolds, One, Zero
    <2>2. pc'[a] \notin Looking /\ pc'[a] \notin Connecting /\ vhci' = "up" /\ reattach_req' = reattach_req
          /\ dev'[a] # "freed twice"
          /\ (pc'[a] \notin {"lacking", "ending", "done"} => pc[a] \notin {"lacking", "ending", "done"})
          /\ pc'[a] \notin {"none", "abandoned", "no_socket", "getaddrinfo", "lost", "resolving", "unresolved"}
          /\ (pc'[a] = "done" => pc[a] = "done") /\ (pc'[a] = "lacking" => pc[a] = "lacking")
      BY <1>8 DEF Looking, Connecting, Ending, vhciVars
    <2> QED BY <1>5, <1>7, <1>9, <2>1, <2>2 DEF AttemptHolds, One, Zero
  <1>12. LifecycleTypes'
    BY <1>4, <1>8 DEF LifecycleInv, LifecycleTypes, globals, vhciVars
  <1>13. UNCHANGED <<globals, vhci>>
    BY DEF vhciVars
  <1> QED BY <1>4, <1>8, <1>10, <1>11, <1>12, <1>13, OnlyAttempt

\* The device cannot be plugged in.
LEMMA PluginFailedNext ==
  ASSUME LifecycleInv, NEW a \in Attempts, NEW kept \in BOOLEAN, plugin_failed(a, kept)
  PROVE  LifecycleInv'
  <1>1. /\ pc[a] = "imported" /\ at(a, "tail") /\ wiExt' = wiExt \ {a} /\ detached(a, kept)
        /\ UNCHANGED <<globals, vhciVars, reattach_req>>
    BY DEF plugin_failed
  <1>2. AttemptAt(a) /\ vhci = "up"
    BY <1>1, AttemptFacts
  <1>3. Owned(a) /\ "F_CAPTURE" \in g_init_flags
    BY <1>1, <1>2 DEF AttemptAt, Owned, Working, Connecting, Ending
  <1>4. pc' = [b \in Attempts |-> pc'[b]] /\ pc'[a] = "tail" /\ \A b \in Attempts \ {a} : pc'[b] = pc[b]
    BY <1>1, PcStep
  <1>5. wiExt' \subseteq Attempts /\ a \notin wiExt' /\ \A b \in Attempts \ {a} : b \in wiExt' <=> b \in wiExt
    BY <1>1 DEF LifecycleInv, LifecycleTypes
  <1> QED BY <1>1, <1>2, <1>3, <1>4, <1>5, DetachedKeeps

\* A device is plugged out.
LEMMA PlugoutNext ==
  ASSUME LifecycleInv, NEW a \in Attempts, NEW kept \in BOOLEAN, plugout_hardware(a, kept)
  PROVE  LifecycleInv'
  <1>1. /\ vhci = "up" /\ dev[a] = "plugged" /\ detached(a, kept) /\ ~Pending(a)
        /\ UNCHANGED <<globals, vhciVars, pc, wiExt, reattach_req>>
    BY DEF plugout_hardware, QueueIsFree
  <1>2. AttemptAt(a)
    BY AttemptFacts
  <1>3. /\ Owned(a) /\ a \notin wiExt /\ pc[a] \in Ending \cup {"plugged", "done"}
        /\ "F_CAPTURE" \in g_init_flags \/ pc[a] = "done"
    BY <1>1, <1>2 DEF AttemptAt, Owned, Working, Looking, Connecting, Ending
  <1>4. pc' = [b \in Attempts |-> pc'[b]] /\ \A b \in Attempts \ {a} : pc'[b] = pc[b]
    BY <1>1 DEF LifecycleInv, LifecycleTypes
  <1>5. wiExt' \subseteq Attempts /\ a \notin wiExt' /\ \A b \in Attempts \ {a} : b \in wiExt' <=> b \in wiExt
    BY <1>1, <1>3 DEF LifecycleInv, LifecycleTypes
  <1> QED BY <1>1, <1>3, <1>4, <1>5, DetachedKeeps

\* The work item may create a request, whole or not.
LEMMA TailNext ==
  ASSUME LifecycleInv, NEW a \in Attempts, NEW how, NEW stopped, complete_tail(a, how, stopped)
  PROVE  LifecycleInv'
  <1> DEFINE req == start_attach_attempts(a, how)
             add == req # {} /\ RequestComplete(how)
             s == IF req # {} /\ ~RequestComplete(how) THEN "lacking" ELSE "ending"
  <1>1. /\ pc[a] \in {"tail", "plugged"} /\ at(a, s) /\ held' = Take(req)
        /\ reattach_req' = (reattach_req \ stopped) \cup (IF add THEN {a} ELSE {})
        /\ UNCHANGED <<globals, vhciVars, wiExt, dev>>
    BY DEF complete_tail
  <1>2. AttemptAt(a) /\ AttemptHolds(a) /\ vhci = "up"
    BY <1>1, AttemptFacts
  <1>3. /\ req = {} \/ req = {Request(a)}
        /\ s \in {"lacking", "ending"} /\ (s = "lacking" => req # {}) /\ (add => req # {})
    BY DEF start_attach_attempts, create_attach_request
  <1> HIDE DEF req, add, s
  <1>4. pc' = [b \in Attempts |-> pc'[b]] /\ pc'[a] = s /\ \A b \in Attempts \ {a} : pc'[b] = pc[b]
    BY <1>1, PcStep
  <1>5. /\ held' = [r \in Resources |-> held'[r]]
        /\ \A r \in Resources : r[2] # a => held'[r] = held[r]
        /\ \A r \in Resources : held'[r] = IF r \in req THEN held[r] + 1 ELSE held[r]
    <2>1. \A r \in req : r[2] = a
      BY <1>3, Kinds
    <2> QED BY <1>1, <2>1, TakeOne
  <1>6. held[Request(a)] = 0 /\ a \notin reattach_req
    <2>1. held[Request(a)] = 0
      BY <1>1, <1>2 DEF AttemptHolds, Zero
    <2>2. a \in reattach_req => held[Request(a)] = 1
      BY <1>2 DEF AttemptHolds, One
    <2> QED BY <2>1, <2>2
  <1>7. /\ held'[Ext(a)] = held[Ext(a)] /\ held'[Names(a)] = held[Names(a)]
        /\ held'[Sock(a)] = held[Sock(a)] /\ held'[WskSocket(a)] = held[WskSocket(a)]
        /\ held'[AddrInfo(a)] = held[AddrInfo(a)]
        /\ held'[Request(a)] = IF req = {} THEN 0 ELSE 1
    BY <1>3, <1>5, <1>6, Kinds, InResources
  <1>8. a \in reattach_req' => req # {}
    BY <1>1, <1>3, <1>6
  <1>9. Owned(a)' <=> Owned(a)
    BY <1>1 DEF Owned
  <1>10. AttemptAt(a)'
    <2>1. dev'[a] = dev[a] /\ wiExt' = wiExt /\ vhci' = "up" /\ g_init_flags' = g_init_flags
      BY <1>1, <1>2 DEF globals, vhciVars
    <2>2. /\ pc'[a] \in Ending \cap PcStates /\ pc'[a] \notin {"plugged", "abandoned"} \cup Working
          /\ dev[a] # "freed twice" /\ "F_CAPTURE" \in g_init_flags
          /\ a \in wiExt <=> dev[a] \in {"none", "orphan"}
      BY <1>1, <1>2, <1>3, <1>4 DEF AttemptAt, Working, Looking, Connecting, Ending, PcStates
    <2> QED BY <1>2, <2>1, <2>2 DEF AttemptAt
  <1>11. AttemptHolds(a)'
    <2>1. vhci' = "up" /\ dev'[a] = dev[a]
      BY <1>1, <1>2 DEF vhciVars
    <2> QED BY <1>1, <1>2, <1>3, <1>4, <1>7, <1>8, <1>9, <2>1 DEF AttemptHolds, One, Zero, Looking, Connecting
  <1>12. LifecycleTypes'
    BY <1>1, <1>4, <1>5 DEF LifecycleInv, LifecycleTypes, globals, vhciVars
  <1>13. UNCHANGED <<globals, vhci>>
    BY <1>1 DEF vhciVars
  <1>14. \A b \in Attempts \ {a} : b \in reattach_req' => b \in reattach_req
    BY <1>1
  <1> QED BY <1>1, <1>2, <1>4, <1>5, <1>10, <1>11, <1>12, <1>13, <1>14, OnlyAttempt

\* A request that lacks an object is deleted.
LEMMA ResetNext ==
  ASSUME LifecycleInv, NEW a \in Attempts, reset_request(a)
  PROVE  LifecycleInv'
  <1>1. /\ pc[a] = "lacking" /\ at(a, "ending") /\ held' = Give({Request(a)}) /\ reattach_req' = reattach_req \ {a}
        /\ UNCHANGED <<globals, vhciVars, wiExt, dev>>
    BY DEF reset_request, reattach_req_remove
  <1>2. AttemptAt(a) /\ AttemptHolds(a) /\ vhci = "up"
    BY <1>1, AttemptFacts
  <1>3. pc' = [b \in Attempts |-> pc'[b]] /\ pc'[a] = "ending" /\ \A b \in Attempts \ {a} : pc'[b] = pc[b]
    BY <1>1, PcStep
  <1>4. /\ held' = [r \in Resources |-> held'[r]]
        /\ \A r \in Resources : r[2] # a => held'[r] = held[r]
        /\ \A r \in Resources : held'[r] = IF r \in {Request(a)} THEN held[r] - 1 ELSE held[r]
    <2>1. \A r \in {Request(a)} : r[2] = a
      BY Kinds
    <2> QED BY <1>1, <2>1, GiveOne
  <1>5. held[Request(a)] = 1
    BY <1>1, <1>2 DEF AttemptHolds, One
  <1>6. /\ held'[Ext(a)] = held[Ext(a)] /\ held'[Names(a)] = held[Names(a)]
        /\ held'[Sock(a)] = held[Sock(a)] /\ held'[WskSocket(a)] = held[WskSocket(a)]
        /\ held'[Request(a)] = 0 /\ held'[AddrInfo(a)] = held[AddrInfo(a)]
    BY <1>4, <1>5, Kinds, InResources
  <1>7. Owned(a)' <=> Owned(a)
    BY <1>1 DEF Owned
  <1>8. AttemptAt(a)'
    BY <1>1, <1>2, <1>3 DEF AttemptAt, globals, vhciVars, Working, Looking, Connecting, Ending, PcStates
  <1>9. AttemptHolds(a)'
    BY <1>1, <1>2, <1>3, <1>6, <1>7 DEF AttemptHolds, One, Zero, vhciVars, Looking, Connecting
  <1>10. LifecycleTypes'
    BY <1>1, <1>3, <1>4 DEF LifecycleInv, LifecycleTypes, globals, vhciVars
  <1>11. UNCHANGED <<globals, vhci>>
    BY <1>1 DEF vhciVars
  <1> QED BY <1>1, <1>2, <1>3, <1>4, <1>8, <1>9, <1>10, <1>11, OnlyAttempt

\* The work item is deleted, and gives back what it still has.
LEMMA WorkitemNext ==
  ASSUME LifecycleInv, NEW a \in Attempts, delete_workitem(a)
  PROVE  LifecycleInv'
  <1> DEFINE R == workitem_cleanup(a)
  <1>1. /\ pc[a] \in {"abandoned", "ending"} /\ at(a, "done") /\ wiExt' = wiExt \ {a} /\ held' = Give(R)
        /\ UNCHANGED <<globals, vhciVars, dev, reattach_req>>
    BY DEF delete_workitem
  <1>2. AttemptAt(a) /\ AttemptHolds(a) /\ vhci = "up"
    BY <1>1, AttemptFacts
  <1>3. pc' = [b \in Attempts |-> pc'[b]] /\ pc'[a] = "done" /\ \A b \in Attempts \ {a} : pc'[b] = pc[b]
    BY <1>1, PcStep
  <1>4. /\ held[AddrInfo(a)] \in {0, 1} /\ held[Request(a)] \in {0, 1} /\ held[Names(a)] \in {0, 1}
        /\ held[Ext(a)] = IF Owned(a) THEN 1 ELSE IF dev[a] = "freed twice" THEN -1 ELSE 0
        /\ ~Owned(a) => held[Names(a)] = 0
        /\ Owned(a) /\ pc[a] # "abandoned" => held[Names(a)] = 1
        /\ held[Sock(a)] \in {0, 1} /\ held[WskSocket(a)] \in {0, 1}
        /\ ~Owned(a) => held[Sock(a)] = 0 /\ held[WskSocket(a)] = 0
        /\ a \in reattach_req => held[Request(a)] = 1
    BY <1>2 DEF AttemptHolds, One, Zero
  <1>5. \A r : r \in free_addrinfo(a) <=> r = AddrInfo(a) /\ held[r] = 1
    <2>1. held[AddrInfo(a)] > 0 <=> held[AddrInfo(a)] = 1
      <3>1. held[AddrInfo(a)] \in {0, 1}
        BY <1>4
      <3> QED BY <3>1
    <2> QED BY <2>1 DEF free_addrinfo
  <1>6. \A r : r \in R <=> \/ r = AddrInfo(a) /\ held[r] = 1
                           \/ a \in wiExt /\ (\/ r = Ext(a)
                                              \/ r = Names(a) /\ held[r] = 1
                                              \/ r = Sock(a) /\ held[r] = 1
                                              \/ r = WskSocket(a) /\ held[r] = 1)
    <2>1. CASE a \in wiExt
      <3>1. Owned(a)
        BY <2>1 DEF Owned
      <3>2. \A r : r \in close_socket(a) \cup destroy_device_ctx_ext(a)
                     <=> \/ r = Ext(a)
                         \/ r = Names(a) /\ held[r] = 1
                         \/ r = Sock(a) /\ held[r] = 1
                         \/ r = WskSocket(a) /\ held[r] = 1
        BY <3>1, Destroyed
      <3> QED BY <2>1, <3>2, <1>5 DEF workitem_cleanup
    <2>2. CASE a \notin wiExt
      BY <2>2, <1>5 DEF workitem_cleanup
    <2> QED BY <2>1, <2>2
  <1> HIDE DEF R
  <1>7. /\ held' = [r \in Resources |-> held'[r]]
        /\ \A r \in Resources : r[2] # a => held'[r] = held[r]
        /\ \A r \in Resources : held'[r] = IF r \in R THEN held[r] - 1 ELSE held[r]
    <2>1. \A r \in R : r[2] = a
      BY <1>6, Kinds
    <2> QED BY <1>1, <2>1, GiveOne
  <1>8. /\ Ext(a) \in R <=> a \in wiExt
        /\ Names(a) \in R <=> a \in wiExt /\ held[Names(a)] = 1
        /\ Sock(a) \in R <=> a \in wiExt /\ held[Sock(a)] = 1
        /\ WskSocket(a) \in R <=> a \in wiExt /\ held[WskSocket(a)] = 1
        /\ AddrInfo(a) \in R <=> held[AddrInfo(a)] = 1
        /\ Request(a) \notin R
    BY <1>6, Kinds
  <1>9. dev'[a] = dev[a] /\ a \notin wiExt' /\ (a \in wiExt => dev[a] \in {"none", "orphan"})
        /\ dev[a] # "freed twice" /\ (pc[a] = "abandoned" => dev[a] = "none")
    BY <1>1, <1>2 DEF AttemptAt, Working, Looking, Connecting, Ending
  <1>10. Owned(a) <=> a \in wiExt \/ dev[a] \in {"plugged", "kept"}
    BY DEF Owned
  <1>11. Owned(a)' <=> dev[a] \in {"plugged", "kept"}
    BY <1>9 DEF Owned
  <1>12. held'[Ext(a)] = IF dev[a] \in {"plugged", "kept"} THEN 1 ELSE 0
    <2>1. held'[Ext(a)] = IF a \in wiExt THEN held[Ext(a)] - 1 ELSE held[Ext(a)]
      BY <1>7, <1>8, InResources
    <2>2. CASE a \in wiExt
      <3>1. held[Ext(a)] = 1 /\ dev[a] \notin {"plugged", "kept"}
        BY <2>2, <1>4, <1>9, <1>10
      <3> QED BY <2>1, <2>2, <3>1
    <2>3. CASE a \notin wiExt
      BY <2>1, <2>3, <1>4, <1>9, <1>10
    <2> QED BY <2>2, <2>3
  <1>13. held'[Names(a)] = IF dev[a] \in {"plugged", "kept"} THEN 1 ELSE 0
    <2>1. held'[Names(a)] = IF a \in wiExt /\ held[Names(a)] = 1 THEN held[Names(a)] - 1 ELSE held[Names(a)]
      BY <1>7, <1>8, InResources
    <2>2. CASE a \in wiExt
      <3>1. (held[Names(a)] = 0 \/ held[Names(a)] = 1) /\ dev[a] \notin {"plugged", "kept"}
        BY <2>2, <1>4, <1>9
      <3> QED BY <2>1, <2>2, <3>1
    <2>3. CASE a \notin wiExt
      <3>1. /\ dev[a] \in {"plugged", "kept"} => held[Names(a)] = 1
            /\ dev[a] \notin {"plugged", "kept"} => held[Names(a)] = 0
        BY <2>3, <1>4, <1>9, <1>10
      <3> QED BY <2>1, <2>3, <3>1
    <2> QED BY <2>2, <2>3
  <1>14. /\ held'[Sock(a)] = (IF a \in wiExt THEN 0 ELSE held[Sock(a)])
         /\ held'[WskSocket(a)] = (IF a \in wiExt THEN 0 ELSE held[WskSocket(a)])
    <2>1. held'[Sock(a)] = (IF a \in wiExt /\ held[Sock(a)] = 1 THEN held[Sock(a)] - 1 ELSE held[Sock(a)])
      BY <1>7, <1>8, InResources
    <2>2. held'[WskSocket(a)] = (IF a \in wiExt /\ held[WskSocket(a)] = 1
                                 THEN held[WskSocket(a)] - 1 ELSE held[WskSocket(a)])
      BY <1>7, <1>8, InResources
    <2>3. held[Sock(a)] = 0 \/ held[Sock(a)] = 1
      BY <1>4
    <2>4. held[WskSocket(a)] = 0 \/ held[WskSocket(a)] = 1
      BY <1>4
    <2>5. held'[Sock(a)] = (IF a \in wiExt THEN 0 ELSE held[Sock(a)])
      BY <2>1, <2>3
    <2>6. held'[WskSocket(a)] = (IF a \in wiExt THEN 0 ELSE held[WskSocket(a)])
      BY <2>2, <2>4
    <2> QED BY <2>5, <2>6
  <1>15. held'[AddrInfo(a)] = 0 /\ held'[Request(a)] = held[Request(a)]
    <2>1. held'[AddrInfo(a)] = IF held[AddrInfo(a)] = 1 THEN held[AddrInfo(a)] - 1 ELSE held[AddrInfo(a)]
      BY <1>7, <1>8, InResources
    <2>2. held[AddrInfo(a)] = 0 \/ held[AddrInfo(a)] = 1
      BY <1>4
    <2> QED BY <2>1, <2>2, <1>7, <1>8, InResources
  <1>16. AttemptAt(a)'
    BY <1>1, <1>2, <1>3, <1>9 DEF AttemptAt, globals, vhciVars, Working, Looking, Connecting, Ending, PcStates
  <1>17. AttemptHolds(a)'
    <2>1. ~Owned(a)' => held'[Sock(a)] = 0 /\ held'[WskSocket(a)] = 0
      <3>1. CASE a \in wiExt
        BY <3>1, <1>14
      <3>2. CASE a \notin wiExt
        BY <3>2, <1>4, <1>10, <1>11, <1>14
      <3> QED BY <3>1, <3>2
    <2>2. held'[Sock(a)] \in {0, 1} /\ held'[WskSocket(a)] \in {0, 1}
      BY <1>4, <1>14
    <2>3. vhci' = "up" /\ reattach_req' = reattach_req
      BY <1>1, <1>2 DEF vhciVars
    <2> QED BY <1>3, <1>4, <1>9, <1>11, <1>12, <1>13, <1>15, <2>1, <2>2, <2>3
            DEF AttemptHolds, One, Zero, Looking, Connecting
  <1>18. LifecycleTypes'
    BY <1>1, <1>3, <1>7 DEF LifecycleInv, LifecycleTypes, globals, vhciVars
  <1>19. UNCHANGED <<globals, vhci>>
    BY <1>1 DEF vhciVars
  <1> QED BY <1>1, <1>2, <1>3, <1>7, <1>16, <1>17, <1>18, <1>19, OnlyAttempt

\* The attempts of a request come to an end.
LEMMA RequestEndsNext ==
  ASSUME LifecycleInv, NEW a \in Attempts, attach_request_ends(a)
  PROVE  LifecycleInv'
  <1>1. /\ held[Request(a)] > 0 /\ pc[a] # "lacking" /\ held' = Give({Request(a)}) /\ reattach_req' = reattach_req \ {a}
        /\ UNCHANGED <<globals, vhciVars, pc, wiExt, dev>>
    BY DEF attach_request_ends, reattach_req_remove
  <1>2. AttemptAt(a) /\ AttemptHolds(a)
    BY AttemptFacts
  <1>3. \A r \in {Request(a)} : r[2] = a
    BY Kinds
  <1>4. /\ held' = [r \in Resources |-> held'[r]]
        /\ \A r \in Resources : r[2] # a => held'[r] = held[r]
        /\ \A r \in Resources : held'[r] = IF r \in {Request(a)} THEN held[r] - 1 ELSE held[r]
    BY <1>1, <1>3, GiveOne
  <1>5. held[Request(a)] = 1
    <2>1. held[Request(a)] \in {0, 1}
      BY <1>2 DEF AttemptHolds
    <2> QED BY <1>1, <2>1
  <1>6. /\ held'[Ext(a)] = held[Ext(a)] /\ held'[Names(a)] = held[Names(a)]
        /\ held'[Sock(a)] = held[Sock(a)] /\ held'[WskSocket(a)] = held[WskSocket(a)]
        /\ held'[Request(a)] = 0 /\ held'[AddrInfo(a)] = held[AddrInfo(a)]
    BY <1>4, <1>5, Kinds, InResources
  <1>7. AttemptAt(a)'
    BY <1>1, <1>2 DEF AttemptAt, globals, vhciVars
  <1>8. Owned(a)' <=> Owned(a)
    BY <1>1 DEF Owned
  <1>9. AttemptHolds(a)'
    BY <1>1, <1>2, <1>6, <1>8 DEF AttemptHolds, One, Zero, vhciVars
  <1>10. LifecycleTypes'
    BY <1>1, <1>4 DEF LifecycleInv, LifecycleTypes, globals, vhciVars
  <1>11. UNCHANGED <<globals, vhci>>
    BY <1>1 DEF vhciVars
  <1> QED BY <1>1, <1>4, <1>7, <1>9, <1>10, <1>11, OnlyAttempt

\* stop_attach_attempts, and the removal of the controller that begins.
LEMMA StopNext ==
  ASSUME LifecycleInv, (\E stopped : stop_attach_attempts(stopped)) \/ vhci_query_remove
  PROVE  LifecycleInv'
  <1>1. /\ reattach_req' \subseteq reattach_req
        /\ UNCHANGED <<held, globals, vhci, pc, wiExt, dev>> /\ removing' \in BOOLEAN
    BY DEF stop_attach_attempts, vhci_query_remove, vhciVars, LifecycleInv, LifecycleTypes
  <1>2. LifecycleTypes' /\ DriverHolds' /\ ControllerHolds' /\ DriverAt'
    BY <1>1 DEF LifecycleInv, LifecycleTypes, DriverHolds, ControllerHolds, DriverAt, One, Zero, globals
  <1>3. \A a \in Attempts : AttemptAt(a)'
    BY <1>1 DEF LifecycleInv, AttemptAt, globals
  <1>4. \A a \in Attempts : AttemptHolds(a)'
    BY <1>1 DEF LifecycleInv, AttemptHolds, Owned, One, Zero
  <1> QED BY <1>2, <1>3, <1>4 DEF LifecycleInv

\* STOP_ATTACH_ATTEMPTS loses the strings of its attributes.
LEMMA StopFailedNext ==
  ASSUME LifecycleInv, NEW how, stop_attach_attempts_failed(how)
  PROVE  LifecycleInv'
  <1> DEFINE p == <<"attr", 0>>
             R == init_device_attributes(Own({"attr"}), how)
  <1>1. held' = Take(R) /\ UNCHANGED <<globals, vhciVars, attemptVars>>
    BY DEF stop_attach_attempts_failed
  <1>2. \A r : r \in R => r = p
    BY OwnIs DEF init_device_attributes, save_device_location
  <1>3. p \in Resources /\ p[2] = 0
    BY InResources, Kinds
  <1> HIDE DEF R
  <1>4. /\ held' = [r \in Resources |-> held'[r]]
        /\ \A r \in Resources : held'[r] = IF r \in R THEN held[r] + 1 ELSE held[r]
    BY <1>1, GiveTake
  <1>5. held'[p] \in Nat
    <2>1. held[p] \in Nat
      BY DEF LifecycleInv, DriverHolds
    <2> HIDE DEF p
    <2> QED BY <1>3, <1>4, <2>1
  <1>6. \A r \in Resources : r # p => held'[r] = held[r]
    BY <1>2, <1>4
  <1>7. /\ held'[<<"lookaside", 0>>] = held[<<"lookaside", 0>>]
        /\ held'[<<"registration", 0>>] = held[<<"registration", 0>>]
        /\ held'[<<"provider", 0>>] = held[<<"provider", 0>>]
        /\ held'[<<"devices", 0>>] = held[<<"devices", 0>>] /\ held'[<<"target", 0>>] = held[<<"target", 0>>]
    BY <1>6, InResources, Kinds
  <1>8. LifecycleTypes'
    BY <1>1, <1>4 DEF LifecycleInv, LifecycleTypes, globals, vhciVars, attemptVars
  <1>9. DriverHolds'
    BY <1>1, <1>5, <1>7 DEF LifecycleInv, DriverHolds, globals
  <1>10. ControllerHolds'
    BY <1>1, <1>7 DEF LifecycleInv, ControllerHolds, One, Zero, vhciVars
  <1>11. DriverAt'
    BY <1>1 DEF LifecycleInv, DriverAt, globals, vhciVars, attemptVars
  <1>12. ASSUME NEW a \in Attempts PROVE AttemptAt(a)' /\ AttemptHolds(a)'
    <2>1. AttemptAt(a) /\ AttemptHolds(a)
      BY DEF LifecycleInv
    <2>2. /\ held'[Ext(a)] = held[Ext(a)] /\ held'[Names(a)] = held[Names(a)]
          /\ held'[Sock(a)] = held[Sock(a)] /\ held'[WskSocket(a)] = held[WskSocket(a)]
          /\ held'[Request(a)] = held[Request(a)] /\ held'[AddrInfo(a)] = held[AddrInfo(a)]
      BY <1>3, <1>6, Kinds, InResources, AttemptsAre
    <2>3. Owned(a)' <=> Owned(a)
      BY <1>1 DEF Owned, attemptVars
    <2>4. AttemptAt(a)'
      BY <1>1, <2>1 DEF AttemptAt, globals, vhciVars, attemptVars
    <2>5. AttemptHolds(a)'
      BY <1>1, <2>1, <2>2, <2>3 DEF AttemptHolds, One, Zero, vhciVars, attemptVars
    <2> QED BY <2>4, <2>5
  <1> QED BY <1>8, <1>9, <1>10, <1>11, <1>12 DEF LifecycleInv

\* The attempts are as they were.
LEMMA AttemptsKept ==
  ASSUME LifecycleInv, UNCHANGED attemptVars, vhci # "up",
         \A r \in Resources : r[2] # 0 => held'[r] = held[r]
  PROVE  \A a \in Attempts : AttemptAt(a)' /\ AttemptHolds(a)'
  <1> SUFFICES ASSUME NEW a \in Attempts PROVE AttemptAt(a)' /\ AttemptHolds(a)'
    OBVIOUS
  <1>1. AttemptAt(a) /\ AttemptHolds(a) /\ pc[a] \in {"none", "done"}
    BY DEF LifecycleInv, DriverAt
  <1>2. /\ held'[Ext(a)] = held[Ext(a)] /\ held'[Names(a)] = held[Names(a)]
        /\ held'[Sock(a)] = held[Sock(a)] /\ held'[WskSocket(a)] = held[WskSocket(a)]
        /\ held'[Request(a)] = held[Request(a)] /\ held'[AddrInfo(a)] = held[AddrInfo(a)]
    BY Kinds, InResources, AttemptsAre
  <1>3. AttemptAt(a)'
    BY <1>1 DEF AttemptAt, attemptVars, Working, Looking, Connecting, Ending
  <1>4. Owned(a)' <=> Owned(a)
    BY DEF Owned, attemptVars
  <1>5. AttemptHolds(a)'
    BY <1>1, <1>2, <1>4 DEF AttemptHolds, One, Zero, attemptVars
  <1> QED BY <1>3, <1>5

-----------------------------------------------------------------------------
(* DriverEntry, DeviceAdd, and their ends.                                  *)

\* The six resources of the driver and of the controller, before and after a step that
\* takes or gives some of them.
DriverNames == {"lookaside", "registration", "provider", "devices", "target", "attr"}

\* A step of the driver or of the controller that leaves all attempts alone.
LEMMA DriverStep ==
  ASSUME LifecycleInv, UNCHANGED attemptVars, vhci # "up", LifecycleTypes',
         DriverHolds', ControllerHolds', DriverAt',
         \A r \in Resources : r[2] # 0 => held'[r] = held[r]
  PROVE  LifecycleInv'
  BY AttemptsKept DEF LifecycleInv

\* Own(N) touches what has a name in N.
LEMMA TakeOwn ==
  ASSUME NEW N
  PROVE  /\ \A r \in Resources : r[2] # 0 => Take(Own(N))[r] = held[r] /\ Give(Own(N))[r] = held[r]
         /\ \A n \in DriverNames : /\ Take(Own(N))[<<n, 0>>] = IF n \in N THEN held[<<n, 0>>] + 1 ELSE held[<<n, 0>>]
                                   /\ Give(Own(N))[<<n, 0>>] = IF n \in N THEN held[<<n, 0>>] - 1 ELSE held[<<n, 0>>]
  <1>1. \A r : r \in Own(N) => r[2] = 0
    BY OwnIs, Kinds
  <1>2. \A n : <<n, 0>> \in Own(N) <=> n \in N
    BY OwnIs, Kinds
  <1>3. \A n \in DriverNames : <<n, 0>> \in Resources
    BY InResources DEF DriverNames
  <1>4. \A r \in Resources : r[2] # 0 => Take(Own(N))[r] = held[r] /\ Give(Own(N))[r] = held[r]
    BY <1>1, GiveTake
  <1>5. ASSUME NEW n \in DriverNames
        PROVE  /\ Take(Own(N))[<<n, 0>>] = IF n \in N THEN held[<<n, 0>>] + 1 ELSE held[<<n, 0>>]
               /\ Give(Own(N))[<<n, 0>>] = IF n \in N THEN held[<<n, 0>>] - 1 ELSE held[<<n, 0>>]
    <2> DEFINE r == <<n, 0>>
    <2>1. r \in Resources /\ (r \in Own(N) <=> n \in N)
      BY <1>2, <1>3
    <2> HIDE DEF r
    <2>2. Take(Own(N))[r] = (IF n \in N THEN held[r] + 1 ELSE held[r])
          /\ Give(Own(N))[r] = (IF n \in N THEN held[r] - 1 ELSE held[r])
      BY <2>1, GiveTake
    <2> QED BY <2>2 DEF r
  <1> QED BY <1>4, <1>5

\* What is held of the driver and the controller, name by name.
LEMMA DriverHeld ==
  ASSUME LifecycleInv
  PROVE  /\ held[<<"lookaside", 0>>] = IF g_initialized THEN 1 ELSE 0
         /\ held[<<"registration", 0>>] = IF "F_REGISTER" \in g_init_flags THEN 1 ELSE 0
         /\ held[<<"provider", 0>>] = IF "F_CAPTURE" \in g_init_flags THEN 1 ELSE 0
         /\ held[<<"devices", 0>>] \in {0, 1} /\ held[<<"target", 0>>] \in {0, 1}
         /\ held[<<"attr", 0>>] \in Nat
         /\ vhci \in VhciStates
  BY DEF LifecycleInv, DriverHolds, ControllerHolds, DriverAt, One, Zero, VhciStates, WithDevices, WithTarget

\* DriverEntry.
LEMMA EntryNext ==
  ASSUME LifecycleInv, DriverEntry
  PROVE  LifecycleInv'
  <1>1. PICK ok \in BOOLEAN : driver_create(ok) \/ init_wsk_context_list(ok) \/ wsk_initialize(ok)
    BY DEF DriverEntry
  <1>2. CASE driver_create(ok)
    <2>1. /\ drv = "none" /\ drv' \in {"created", "unloaded"}
          /\ UNCHANGED <<held, g_initialized, g_init_flags, once, vhciVars, attemptVars>>
      BY <1>2 DEF driver_create
    <2>2. vhci = "none" /\ ~g_initialized /\ g_init_flags = {} /\ ~once
      BY <2>1 DEF LifecycleInv, DriverAt
    <2>3. LifecycleTypes' /\ DriverHolds' /\ ControllerHolds'
      BY <2>1 DEF LifecycleInv, LifecycleTypes, DriverHolds, ControllerHolds, One, Zero, vhciVars, attemptVars
    <2>4. DriverAt'
      BY <2>1, <2>2 DEF LifecycleInv, DriverAt, vhciVars, attemptVars
    <2> QED BY <2>1, <2>2, <2>3, <2>4, DriverStep
  <1>3. CASE init_wsk_context_list(ok)
    <2>1. /\ drv = "created" /\ drv' = (IF ok THEN "listed" ELSE "failed") /\ g_initialized' = ok
          /\ held' = (IF ok THEN Take(Own({"lookaside"})) ELSE held)
          /\ UNCHANGED <<g_init_flags, once, vhciVars, attemptVars>>
      BY <1>3 DEF init_wsk_context_list
    <2>2. vhci = "none" /\ ~g_initialized /\ g_init_flags = {} /\ ~once
      BY <2>1 DEF LifecycleInv, DriverAt
    <2>3. held' = [r \in Resources |-> held'[r]]
      BY <2>1, GiveTake DEF LifecycleInv, LifecycleTypes
    <2>4. \A r \in Resources : r[2] # 0 => held'[r] = held[r]
      BY <2>1, TakeOwn
    <2>5. /\ held'[<<"lookaside", 0>>] = (IF ok THEN held[<<"lookaside", 0>>] + 1 ELSE held[<<"lookaside", 0>>])
          /\ held'[<<"registration", 0>>] = held[<<"registration", 0>>]
          /\ held'[<<"provider", 0>>] = held[<<"provider", 0>>] /\ held'[<<"attr", 0>>] = held[<<"attr", 0>>]
          /\ held'[<<"devices", 0>>] = held[<<"devices", 0>>] /\ held'[<<"target", 0>>] = held[<<"target", 0>>]
      BY <2>1, TakeOwn DEF DriverNames
    <2>6. held[<<"lookaside", 0>>] = 0
      BY <2>2, DriverHeld
    <2>7. held'[<<"lookaside", 0>>] = IF ok THEN 1 ELSE 0
      BY <2>5, <2>6
    <2>8. LifecycleTypes'
      BY <2>1, <2>3 DEF LifecycleInv, LifecycleTypes, vhciVars, attemptVars
    <2>9. DriverHolds'
      BY <2>1, <2>5, <2>7 DEF LifecycleInv, DriverHolds
    <2>10. ControllerHolds'
      BY <2>1, <2>5 DEF LifecycleInv, ControllerHolds, One, Zero, vhciVars
    <2>11. DriverAt'
      BY <2>1, <2>2 DEF LifecycleInv, DriverAt, vhciVars, attemptVars
    <2> QED BY <2>1, <2>2, <2>4, <2>8, <2>9, <2>10, <2>11, DriverStep
  <1>4. CASE wsk_initialize(ok)
    <2>1. /\ drv = "listed" /\ drv' = (IF ok THEN "loaded" ELSE "failed")
          /\ g_init_flags' = (IF ok THEN g_init_flags \cup {"F_REGISTER"} ELSE g_init_flags)
          /\ held' = (IF ok THEN Take(Own({"registration"})) ELSE held)
          /\ UNCHANGED <<g_initialized, once, vhciVars, attemptVars>>
      BY <1>4 DEF wsk_initialize
    <2>2. vhci = "none" /\ g_init_flags = {} /\ ~once
      BY <2>1 DEF LifecycleInv, DriverAt
    <2>3. held' = [r \in Resources |-> held'[r]]
      BY <2>1, GiveTake DEF LifecycleInv, LifecycleTypes
    <2>4. \A r \in Resources : r[2] # 0 => held'[r] = held[r]
      BY <2>1, TakeOwn
    <2>5. /\ held'[<<"registration", 0>>] = (IF ok THEN held[<<"registration", 0>>] + 1 ELSE held[<<"registration", 0>>])
          /\ held'[<<"lookaside", 0>>] = held[<<"lookaside", 0>>]
          /\ held'[<<"provider", 0>>] = held[<<"provider", 0>>] /\ held'[<<"attr", 0>>] = held[<<"attr", 0>>]
          /\ held'[<<"devices", 0>>] = held[<<"devices", 0>>] /\ held'[<<"target", 0>>] = held[<<"target", 0>>]
      BY <2>1, TakeOwn DEF DriverNames
    <2>6. held[<<"registration", 0>>] = 0
      BY <2>2, DriverHeld
    <2>7. held'[<<"registration", 0>>] = IF ok THEN 1 ELSE 0
      BY <2>5, <2>6
    <2>8. LifecycleTypes'
      BY <2>1, <2>3 DEF LifecycleInv, LifecycleTypes, vhciVars, attemptVars
    <2>9. ("F_REGISTER" \in g_init_flags' <=> ok) /\ "F_CAPTURE" \notin g_init_flags'
      BY <2>1, <2>2
    <2>10. DriverHolds'
      BY <2>1, <2>2, <2>5, <2>7, <2>9 DEF LifecycleInv, DriverHolds
    <2>11. ControllerHolds'
      BY <2>1, <2>5 DEF LifecycleInv, ControllerHolds, One, Zero, vhciVars
    <2>12. DriverAt'
      BY <2>1, <2>2, <2>9 DEF LifecycleInv, DriverAt, vhciVars, attemptVars
    <2> QED BY <2>1, <2>2, <2>4, <2>8, <2>10, <2>11, <2>12, DriverStep
  <1> QED BY <1>1, <1>2, <1>3, <1>4

\* The driver is unloaded, or was not loaded: what it still has, it gives back.
LEMMA CleanupNext ==
  ASSUME LifecycleInv, driver_cleanup
  PROVE  LifecycleInv'
  <1> DEFINE N == {n \in DriverNames : \/ n = "provider" /\ "F_CAPTURE" \in g_init_flags
                                       \/ n = "registration" /\ "F_REGISTER" \in g_init_flags
                                       \/ n = "lookaside" /\ g_initialized}
  <1>1. /\ drv \in {"failed", "loaded"} /\ drv' = "unloaded" /\ g_init_flags' = {} /\ g_initialized' = FALSE
        /\ held' = Give(shutdown \cup delete_wsk_context_list)
        /\ UNCHANGED <<once, vhciVars, attemptVars>>
    BY DEF driver_cleanup
  <1>2. vhci = "none"
    BY DEF driver_cleanup, LifecycleInv, DriverAt
  <1>3. shutdown \cup delete_wsk_context_list = Own(N)
    <2>1. \A r : r \in ReleaseProviderNPI <=> r = <<"provider", 0>> /\ "F_CAPTURE" \in g_init_flags
      BY OwnIs DEF ReleaseProviderNPI
    <2>2. \A r : r \in shutdown <=> \/ r = <<"provider", 0>> /\ "F_CAPTURE" \in g_init_flags
                                    \/ r = <<"registration", 0>> /\ "F_REGISTER" \in g_init_flags
      BY <2>1, OwnIs DEF shutdown
    <2>3. \A r : r \in delete_wsk_context_list <=> r = <<"lookaside", 0>> /\ g_initialized
      BY OwnIs DEF delete_wsk_context_list
    <2>4. \A r : r \in Own(N) <=> \/ r = <<"provider", 0>> /\ "F_CAPTURE" \in g_init_flags
                                  \/ r = <<"registration", 0>> /\ "F_REGISTER" \in g_init_flags
                                  \/ r = <<"lookaside", 0>> /\ g_initialized
      BY OwnIs DEF DriverNames
    <2> QED BY <2>2, <2>3, <2>4
  <1>4. held' = Give(Own(N))
    BY <1>1, <1>3
  <1>5. /\ "provider" \in N <=> "F_CAPTURE" \in g_init_flags
        /\ "registration" \in N <=> "F_REGISTER" \in g_init_flags
        /\ "lookaside" \in N <=> g_initialized
        /\ "devices" \notin N /\ "target" \notin N /\ "attr" \notin N
    BY DEF DriverNames
  <1> HIDE DEF N
  <1>6. held' = [r \in Resources |-> held'[r]]
    BY <1>4, GiveTake
  <1>7. \A r \in Resources : r[2] # 0 => held'[r] = held[r]
    BY <1>4, TakeOwn
  <1>8. \A n \in DriverNames : held'[<<n, 0>>] = IF n \in N THEN held[<<n, 0>>] - 1 ELSE held[<<n, 0>>]
    BY <1>4, TakeOwn
  <1>9. held'[<<"lookaside", 0>>] = 0
    <2>1. held[<<"lookaside", 0>>] = IF "lookaside" \in N THEN 1 ELSE 0
      BY <1>5, DriverHeld
    <2> QED BY <1>8, <2>1 DEF DriverNames
  <1>10. held'[<<"registration", 0>>] = 0
    <2>1. held[<<"registration", 0>>] = IF "registration" \in N THEN 1 ELSE 0
      BY <1>5, DriverHeld
    <2> QED BY <1>8, <2>1 DEF DriverNames
  <1>11. held'[<<"provider", 0>>] = 0
    <2>1. held[<<"provider", 0>>] = IF "provider" \in N THEN 1 ELSE 0
      BY <1>5, DriverHeld
    <2> QED BY <1>8, <2>1 DEF DriverNames
  <1>12. /\ held'[<<"devices", 0>>] = held[<<"devices", 0>>] /\ held'[<<"target", 0>>] = held[<<"target", 0>>]
         /\ held'[<<"attr", 0>>] = held[<<"attr", 0>>]
    BY <1>5, <1>8 DEF DriverNames
  <1>13. LifecycleTypes'
    BY <1>1, <1>6 DEF LifecycleInv, LifecycleTypes, vhciVars, attemptVars
  <1>14. DriverHolds'
    BY <1>1, <1>9, <1>10, <1>11, <1>12 DEF LifecycleInv, DriverHolds
  <1>15. ControllerHolds'
    BY <1>1, <1>12 DEF LifecycleInv, ControllerHolds, One, Zero, vhciVars
  <1>16. DriverAt'
    BY <1>1, <1>2 DEF LifecycleInv, DriverAt, vhciVars, attemptVars
  <1> QED BY <1>1, <1>2, <1>7, <1>13, <1>14, <1>15, <1>16, DriverStep

\* A step of DeviceAdd: the resources of the driver and of the attempts stay.
LEMMA AddKeeps ==
  ASSUME LifecycleInv, UNCHANGED <<globals, attemptVars>>, vhci # "up", drv = "loaded",
         vhci' \in VhciStates, removing' \in BOOLEAN, ControllerHolds',
         held' = [r \in Resources |-> held'[r]],
         \A r \in Resources : r[2] # 0 => held'[r] = held[r],
         /\ held'[<<"lookaside", 0>>] = held[<<"lookaside", 0>>]
         /\ held'[<<"registration", 0>>] = held[<<"registration", 0>>]
         /\ held'[<<"provider", 0>>] = held[<<"provider", 0>>] /\ held'[<<"attr", 0>>] = held[<<"attr", 0>>]
  PROVE  LifecycleInv'
  <1>1. LifecycleTypes'
    BY DEF LifecycleInv, LifecycleTypes, globals, attemptVars
  <1>2. DriverHolds'
    BY DEF LifecycleInv, DriverHolds, globals
  <1>3. DriverAt'
    BY DEF LifecycleInv, DriverAt, globals, attemptVars
  <1> QED BY <1>1, <1>2, <1>3, DriverStep

\* The controller is there only while the driver is loaded.
LEMMA AddIsLoaded ==
  ASSUME LifecycleInv, vhci # "none"
  PROVE  drv = "loaded"
  BY DEF LifecycleInv, DriverAt

\* DeviceAdd begins, or fails at once.
LEMMA InitializeNext ==
  ASSUME LifecycleInv, NEW ok \in BOOLEAN, initialize(ok)
  PROVE  LifecycleInv'
  <1>1. /\ drv = "loaded" /\ vhci = "none" /\ vhci' \in {"none", "alloc_devices"} /\ removing' = FALSE
        /\ UNCHANGED <<held, globals, attemptVars>>
    BY DEF initialize
  <1>2. ControllerHolds'
    BY <1>1 DEF LifecycleInv, ControllerHolds, One, Zero, WithDevices, WithTarget, WithReattach
  <1>3. held' = [r \in Resources |-> held'[r]]
    BY <1>1 DEF LifecycleInv, LifecycleTypes
  <1>4. vhci' \in VhciStates
    BY <1>1 DEF VhciStates
  <1> QED BY <1>1, <1>2, <1>3, <1>4, AddKeeps

\* alloc_devices and create_target_self take what has the name n.
LEMMA AllocNext ==
  ASSUME LifecycleInv, NEW ok \in BOOLEAN, alloc_devices(ok) \/ create_target_self(ok)
  PROVE  LifecycleInv'
  <1>1. CASE alloc_devices(ok)
    <2>1. /\ vhci = "alloc_devices" /\ vhci' = (IF ok THEN "create_target_self" ELSE "failed")
          /\ held' = (IF ok THEN Take(Own({"devices"})) ELSE held)
          /\ UNCHANGED <<globals, removing, attemptVars>>
      BY <1>1 DEF alloc_devices
    <2>2. held' = [r \in Resources |-> held'[r]]
      BY <2>1, GiveTake DEF LifecycleInv, LifecycleTypes
    <2>3. \A r \in Resources : r[2] # 0 => held'[r] = held[r]
      BY <2>1, TakeOwn
    <2>4. /\ held'[<<"devices", 0>>] = (IF ok THEN held[<<"devices", 0>>] + 1 ELSE held[<<"devices", 0>>])
          /\ held'[<<"lookaside", 0>>] = held[<<"lookaside", 0>>]
          /\ held'[<<"registration", 0>>] = held[<<"registration", 0>>]
          /\ held'[<<"provider", 0>>] = held[<<"provider", 0>>] /\ held'[<<"attr", 0>>] = held[<<"attr", 0>>] /\ held'[<<"target", 0>>] = held[<<"target", 0>>]
      BY <2>1, TakeOwn DEF DriverNames
    <2>5. held[<<"devices", 0>>] = 0 /\ held[<<"target", 0>>] = 0
      BY <2>1 DEF LifecycleInv, ControllerHolds, Zero
    <2>6. held'[<<"devices", 0>>] = (IF ok THEN 1 ELSE 0) /\ held'[<<"target", 0>>] = 0
      BY <2>4, <2>5
    <2>7. ControllerHolds'
      BY <2>1, <2>6 DEF ControllerHolds, One, Zero, WithDevices, WithTarget, WithReattach
    <2>8. vhci' \in VhciStates
      BY <2>1 DEF VhciStates, WithDevices
    <2>9. drv = "loaded" /\ removing' \in BOOLEAN
      BY <2>1, AddIsLoaded DEF LifecycleInv, LifecycleTypes
    <2> QED BY <2>1, <2>2, <2>3, <2>4, <2>7, <2>8, <2>9, AddKeeps
  <1>2. CASE create_target_self(ok)
    <2>1. /\ vhci = "create_target_self" /\ vhci' = (IF ok THEN "create_read_queue" ELSE "failed")
          /\ held' = (IF ok THEN Take(Own({"target"})) ELSE held)
          /\ UNCHANGED <<globals, removing, attemptVars>>
      BY <1>2 DEF create_target_self
    <2>2. held' = [r \in Resources |-> held'[r]]
      BY <2>1, GiveTake DEF LifecycleInv, LifecycleTypes
    <2>3. \A r \in Resources : r[2] # 0 => held'[r] = held[r]
      BY <2>1, TakeOwn
    <2>4. /\ held'[<<"target", 0>>] = (IF ok THEN held[<<"target", 0>>] + 1 ELSE held[<<"target", 0>>])
          /\ held'[<<"lookaside", 0>>] = held[<<"lookaside", 0>>]
          /\ held'[<<"registration", 0>>] = held[<<"registration", 0>>]
          /\ held'[<<"provider", 0>>] = held[<<"provider", 0>>] /\ held'[<<"attr", 0>>] = held[<<"attr", 0>>] /\ held'[<<"devices", 0>>] = held[<<"devices", 0>>]
      BY <2>1, TakeOwn DEF DriverNames
    <2>5. held[<<"devices", 0>>] = 1 /\ held[<<"target", 0>>] = 0
      BY <2>1 DEF LifecycleInv, ControllerHolds, One, Zero, WithDevices
    <2>6. held'[<<"target", 0>>] = (IF ok THEN 1 ELSE 0) /\ held'[<<"devices", 0>>] = 1
      BY <2>4, <2>5
    <2>7. ControllerHolds'
      BY <2>1, <2>6 DEF ControllerHolds, One, Zero, WithDevices, WithTarget, WithReattach
    <2>8. vhci' \in VhciStates
      BY <2>1 DEF VhciStates, WithDevices, WithTarget
    <2>9. drv = "loaded" /\ removing' \in BOOLEAN
      BY <2>1, AddIsLoaded DEF LifecycleInv, LifecycleTypes
    <2> QED BY <2>1, <2>2, <2>3, <2>4, <2>7, <2>8, <2>9, AddKeeps
  <1> QED BY <1>1, <1>2

\* The functions of create_vhci whose objects go with the device.
LEMMA ChildNext ==
  ASSUME LifecycleInv, NEW f \in WithTarget \ {"up"}, NEW next \in WithTarget, NEW ok \in BOOLEAN,
         Child(f, next, ok)
  PROVE  LifecycleInv'
  <1>1. /\ vhci = f /\ vhci' \in {next, "failed"}
        /\ UNCHANGED <<held, globals, removing, attemptVars>>
    BY DEF Child
  <1>2. held[<<"devices", 0>>] = 1 /\ held[<<"target", 0>>] = 1
    BY <1>1 DEF LifecycleInv, ControllerHolds, One, WithDevices
  <1>3. vhci' \in WithTarget \cup {"failed"}
    BY <1>1
  <1>4. ControllerHolds'
    BY <1>1, <1>2, <1>3 DEF ControllerHolds, One, Zero, WithDevices, WithTarget, WithReattach
  <1>5. held' = [r \in Resources |-> held'[r]] /\ removing' \in BOOLEAN
    BY <1>1 DEF LifecycleInv, LifecycleTypes
  <1>6. vhci' \in VhciStates
    BY <1>3 DEF VhciStates, WithDevices
  <1>7. drv = "loaded" /\ vhci # "up"
    BY <1>1, AddIsLoaded DEF WithTarget, WithReattach
  <1> QED BY <1>1, <1>4, <1>5, <1>6, <1>7, AddKeeps

\* One step of AddDevice, or its failure.
LEMMA AddStepNext ==
  ASSUME LifecycleInv, AddStep
  PROVE  LifecycleInv'
  <1>1. PICK ok \in BOOLEAN : \/ init_context(ok) \/ configure(ok) \/ create_interfaces(ok)
                              \/ add_usbdevice_emulation(ok) \/ create_queues(ok)
    BY DEF AddStep
  <1>2. CASE alloc_devices(ok) \/ create_target_self(ok)
    BY <1>2, AllocNext
  <1>3. CASE create_read_queue(ok)
    <2>1. Child("create_read_queue", "configure", ok)
      BY <1>3 DEF create_read_queue
    <2>2. "create_read_queue" \in WithTarget \ {"up"} /\ "configure" \in WithTarget
      BY DEF WithTarget, WithReattach
    <2> QED BY <2>1, <2>2, ChildNext
  <1>4. CASE configure(ok)
    <2>1. Child("configure", "create_interfaces", ok)
      BY <1>4 DEF configure
    <2>2. "configure" \in WithTarget \ {"up"} /\ "create_interfaces" \in WithTarget
      BY DEF WithTarget, WithReattach
    <2> QED BY <2>1, <2>2, ChildNext
  <1>5. CASE create_interfaces(ok)
    <2>1. Child("create_interfaces", "add_usbdevice_emulation", ok)
      BY <1>5 DEF create_interfaces
    <2>2. "create_interfaces" \in WithTarget \ {"up"} /\ "add_usbdevice_emulation" \in WithTarget
      BY DEF WithTarget, WithReattach
    <2> QED BY <2>1, <2>2, ChildNext
  <1>6. CASE add_usbdevice_emulation(ok)
    <2>1. Child("add_usbdevice_emulation", "create_queues", ok)
      BY <1>6 DEF add_usbdevice_emulation
    <2>2. "add_usbdevice_emulation" \in WithTarget \ {"up"} /\ "create_queues" \in WithTarget
      BY DEF WithTarget, WithReattach
    <2> QED BY <2>1, <2>2, ChildNext
  <1>7. CASE create_queues(ok)
    <2>1. Child("create_queues", "up", ok)
      BY <1>7 DEF create_queues
    <2>2. "create_queues" \in WithTarget \ {"up"} /\ "up" \in WithTarget
      BY DEF WithTarget, WithReattach
    <2> QED BY <2>1, <2>2, ChildNext
  <1> QED BY <1>1, <1>2, <1>3, <1>4, <1>5, <1>6, <1>7 DEF init_context

\* DeviceAdd failed: what it had is given back.
LEMMA VhciCleanupNext ==
  ASSUME LifecycleInv, vhci_cleanup
  PROVE  LifecycleInv'
  <1> DEFINE N == {n \in {"devices", "target"} : held[<<n, 0>>] > 0}
  <1>1. /\ vhci = "failed" /\ vhci' = "none" /\ removing' = TRUE
        /\ held' = Give({r \in Own({"devices", "target"}) : held[r] > 0})
        /\ UNCHANGED <<globals, attemptVars>>
    BY DEF vhci_cleanup
  <1>2. {r \in Own({"devices", "target"}) : held[r] > 0} = Own(N)
    BY OwnIs
  <1>3. held' = Give(Own(N))
    BY <1>1, <1>2
  <1>4. /\ "devices" \in N <=> held[<<"devices", 0>>] > 0
        /\ "target" \in N <=> held[<<"target", 0>>] > 0
        /\ "lookaside" \notin N /\ "registration" \notin N /\ "provider" \notin N /\ "attr" \notin N
    OBVIOUS
  <1> HIDE DEF N
  <1>5. held' = [r \in Resources |-> held'[r]]
    BY <1>3, GiveTake
  <1>6. \A r \in Resources : r[2] # 0 => held'[r] = held[r]
    BY <1>3, TakeOwn
  <1>7. \A n \in DriverNames : held'[<<n, 0>>] = IF n \in N THEN held[<<n, 0>>] - 1 ELSE held[<<n, 0>>]
    BY <1>3, TakeOwn
  <1>8. /\ held'[<<"lookaside", 0>>] = held[<<"lookaside", 0>>]
        /\ held'[<<"registration", 0>>] = held[<<"registration", 0>>]
        /\ held'[<<"provider", 0>>] = held[<<"provider", 0>>] /\ held'[<<"attr", 0>>] = held[<<"attr", 0>>]
    BY <1>4, <1>7 DEF DriverNames
  <1>9. held'[<<"devices", 0>>] = 0
    <2>1. held[<<"devices", 0>>] \in {0, 1}
      BY DriverHeld
    <2>2. held'[<<"devices", 0>>] = IF held[<<"devices", 0>>] > 0 THEN held[<<"devices", 0>>] - 1 ELSE held[<<"devices", 0>>]
      BY <1>4, <1>7 DEF DriverNames
    <2> QED BY <2>1, <2>2
  <1>10. held'[<<"target", 0>>] = 0
    <2>1. held[<<"target", 0>>] \in {0, 1}
      BY DriverHeld
    <2>2. held'[<<"target", 0>>] = IF held[<<"target", 0>>] > 0 THEN held[<<"target", 0>>] - 1 ELSE held[<<"target", 0>>]
      BY <1>4, <1>7 DEF DriverNames
    <2> QED BY <2>1, <2>2
  <1>11. ControllerHolds'
    BY <1>1, <1>9, <1>10 DEF ControllerHolds, Zero, WithDevices, WithTarget, WithReattach
  <1>12. vhci' \in VhciStates /\ drv = "loaded" /\ removing' \in BOOLEAN /\ vhci # "up"
    BY <1>1, AddIsLoaded DEF VhciStates
  <1> QED BY <1>1, <1>5, <1>6, <1>8, <1>11, <1>12, AddKeeps

\* What the cleanup of a device gives back when no work item is left.
LEMMA CleanupOf ==
  ASSUME LifecycleInv, NEW a \in Attempts, pc[a] \in {"none", "done"}
  PROVE  /\ a \notin wiExt /\ (Owned(a) <=> dev[a] \in {"plugged", "kept"})
         /\ \A r : r \in device_cleanup(a) => r \in {Ext(a), Names(a), Sock(a), WskSocket(a)}
         /\ Ext(a) \in device_cleanup(a) <=> dev[a] \in {"plugged", "kept", "orphan"}
         /\ Names(a) \in device_cleanup(a) <=> dev[a] \in {"plugged", "kept"}
         /\ Sock(a) \in device_cleanup(a) <=> dev[a] \in {"plugged", "kept"} /\ held[Sock(a)] = 1
         /\ WskSocket(a) \in device_cleanup(a) <=> dev[a] \in {"plugged", "kept"} /\ held[WskSocket(a)] = 1
  <1>1. AttemptAt(a) /\ AttemptHolds(a)
    BY AttemptFacts
  <1>2. a \notin wiExt
    BY <1>1 DEF AttemptAt, Working, Looking, Connecting, Ending
  <1>3. Owned(a) <=> dev[a] \in {"plugged", "kept"}
    BY <1>2 DEF Owned
  <1>4. CASE dev[a] \in {"plugged", "kept"}
    <2>1. \A r : r \in close_socket(a) \cup destroy_device_ctx_ext(a)
                   <=> \/ r = Ext(a)
                       \/ r = Names(a) /\ held[r] = 1
                       \/ r = Sock(a) /\ held[r] = 1
                       \/ r = WskSocket(a) /\ held[r] = 1
      BY <1>3, <1>4, Destroyed
    <2>2. device_cleanup(a) = close_socket(a) \cup destroy_device_ctx_ext(a)
      BY <1>4 DEF device_cleanup
    <2>3. held[Names(a)] = 1
      BY <1>1, <1>3, <1>4 DEF AttemptHolds, One
    <2> QED BY <1>2, <1>3, <1>4, <2>1, <2>2, <2>3, Kinds
  <1>5. CASE dev[a] = "orphan"
    <2>1. held[Names(a)] = 0 /\ held[Sock(a)] = 0 /\ held[WskSocket(a)] = 0
      BY <1>1, <1>3, <1>5 DEF AttemptHolds, Zero
    <2>2. ~(held[Names(a)] > 0) /\ ~(held[Sock(a)] > 0) /\ ~(held[WskSocket(a)] > 0)
      BY <2>1
    <2>3. close_socket(a) = {}
      BY <2>2 DEF close_socket
    <2>4. \A r : r \in destroy_device_ctx_ext(a) <=> r = Ext(a)
      BY <2>2 DEF destroy_device_ctx_ext
    <2>5. \A r : r \in device_cleanup(a) <=> r = Ext(a)
      BY <1>5, <2>3, <2>4 DEF device_cleanup
    <2> QED BY <1>2, <1>3, <1>5, <2>5, Kinds
  <1>6. CASE dev[a] \notin {"plugged", "kept", "orphan"}
    <2>1. device_cleanup(a) = {}
      BY <1>6 DEF device_cleanup
    <2> QED BY <1>2, <1>3, <1>6, <2>1
  <1> QED BY <1>4, <1>5, <1>6

\* The controller is deleted, with its devices and requests.
LEMMA DeleteNext ==
  ASSUME LifecycleInv, delete_vhci
  PROVE  LifecycleInv'
  <1> DEFINE R == Own({"devices", "target"}) \cup (UNION {device_cleanup(a) : a \in Attempts})
                      \cup {Request(a) : a \in {b \in Attempts : held[Request(b)] > 0}}
  <1>1. /\ vhci = "up" /\ vhci' = "none" /\ held' = Give(R) /\ reattach_req' = {}
        /\ \A a \in Attempts : pc[a] \in {"none", "done"}
        /\ dev' = [a \in Attempts |-> IF dev[a] = "orphan" THEN "freed twice"
                                     ELSE IF device_cleanup(a) = {} THEN dev[a] ELSE "deleted"]
        /\ UNCHANGED <<globals, removing, pc, wiExt>>
    BY DEF delete_vhci
  <1>2. \A r : r \in R <=> \/ r \in Own({"devices", "target"})
                           \/ \E a \in Attempts : r \in device_cleanup(a)
                           \/ \E a \in Attempts : r = Request(a) /\ held[Request(a)] > 0
    <2> DEFINE D == UNION {device_cleanup(a) : a \in Attempts}
               Q == {Request(a) : a \in {b \in Attempts : held[Request(b)] > 0}}
    <2>1. \A r : r \in D <=> \E a \in Attempts : r \in device_cleanup(a)
      OBVIOUS
    <2>2. \A r : r \in Q <=> \E a \in Attempts : r = Request(a) /\ held[Request(a)] > 0
      OBVIOUS
    <2>3. \A r : r \in R <=> r \in Own({"devices", "target"}) \/ r \in D \/ r \in Q
      <3>1. R = (Own({"devices", "target"}) \cup D) \cup Q
        OBVIOUS
      <3> HIDE DEF D, Q, R
      <3> QED BY <3>1
    <2> HIDE DEF D, Q, R
    <2> QED BY <2>1, <2>2, <2>3
  <1> HIDE DEF R
  <1>3. ASSUME NEW a \in Attempts PROVE \A r \in device_cleanup(a) : r[2] = a /\ r[1] # "request" /\ r[1] # "addrinfo"
    <2>1. \A r : r \in device_cleanup(a) => r \in {Ext(a), Names(a), Sock(a), WskSocket(a)}
      BY <1>1, CleanupOf
    <2> QED BY <2>1, Kinds
  <1>4. held' = [r \in Resources |-> held'[r]]
        /\ \A r \in Resources : held'[r] = IF r \in R THEN held[r] - 1 ELSE held[r]
    <2>1. held' = Give(R)
      BY <1>1
    <2> QED BY <2>1, GiveTake
  <1>5. ASSUME NEW n \in DriverNames
        PROVE  held'[<<n, 0>>] = IF n \in {"devices", "target"} THEN held[<<n, 0>>] - 1 ELSE held[<<n, 0>>]
    <2> DEFINE r == <<n, 0>>
    <2>1. r[2] = 0 /\ r \in Resources /\ (r \in Own({"devices", "target"}) <=> n \in {"devices", "target"})
      BY Kinds, InResources, OwnIs DEF DriverNames
    <2> HIDE DEF r
    <2>2. \A a \in Attempts : r \notin device_cleanup(a) /\ r # Request(a)
      BY <1>3, <2>1, Kinds, AttemptsAre
    <2>3. r \in R <=> n \in {"devices", "target"}
      BY <1>2, <2>1, <2>2
    <2>4. held'[r] = IF n \in {"devices", "target"} THEN held[r] - 1 ELSE held[r]
      BY <1>4, <2>1, <2>3
    <2> QED BY <2>4 DEF r
  <1>6. held[<<"devices", 0>>] = 1 /\ held[<<"target", 0>>] = 1
    BY <1>1 DEF LifecycleInv, ControllerHolds, One, WithDevices, WithTarget, WithReattach
  <1>7. /\ held'[<<"lookaside", 0>>] = held[<<"lookaside", 0>>]
        /\ held'[<<"registration", 0>>] = held[<<"registration", 0>>]
        /\ held'[<<"provider", 0>>] = held[<<"provider", 0>>] /\ held'[<<"attr", 0>>] = held[<<"attr", 0>>]
        /\ held'[<<"devices", 0>>] = 0 /\ held'[<<"target", 0>>] = 0
    BY <1>5, <1>6 DEF DriverNames
  <1>8. LifecycleTypes'
    BY <1>1, <1>4 DEF LifecycleInv, LifecycleTypes, globals
  <1>9. DriverHolds'
    BY <1>1, <1>7 DEF LifecycleInv, DriverHolds, globals
  <1>10. ControllerHolds'
    BY <1>1, <1>7 DEF ControllerHolds, Zero, WithDevices, WithTarget, WithReattach
  <1>11. DriverAt'
    BY <1>1 DEF LifecycleInv, DriverAt, globals, VhciStates
  <1>12. ASSUME NEW a \in Attempts PROVE AttemptAt(a)' /\ AttemptHolds(a)'
    <2>1. AttemptAt(a) /\ AttemptHolds(a) /\ pc[a] \in {"none", "done"} /\ pc'[a] = pc[a]
      BY <1>1, AttemptFacts
    <2>2. /\ a \notin wiExt /\ (Owned(a) <=> dev[a] \in {"plugged", "kept"})
          /\ Ext(a) \in device_cleanup(a) <=> dev[a] \in {"plugged", "kept", "orphan"}
          /\ Names(a) \in device_cleanup(a) <=> dev[a] \in {"plugged", "kept"}
          /\ Sock(a) \in device_cleanup(a) <=> dev[a] \in {"plugged", "kept"} /\ held[Sock(a)] = 1
          /\ WskSocket(a) \in device_cleanup(a) <=> dev[a] \in {"plugged", "kept"} /\ held[WskSocket(a)] = 1
      BY <2>1, CleanupOf
    <2>3. \A r \in Resources : r[2] = a /\ r[1] # "request" => (r \in R <=> r \in device_cleanup(a))
      <3> SUFFICES ASSUME NEW r \in Resources, r[2] = a, r[1] # "request"
                   PROVE  r \in R <=> r \in device_cleanup(a)
        OBVIOUS
      <3>1. r \notin Own({"devices", "target"})
        BY OwnIs, Kinds, AttemptsAre
      <3>2. \A b \in Attempts : r \in device_cleanup(b) => b = a
        BY <1>3
      <3>3. \A b \in Attempts : r # Request(b)
        BY Kinds
      <3> QED BY <1>2, <3>1, <3>2, <3>3
    <2>4. Request(a) \in R <=> held[Request(a)] > 0
      <3>1. Request(a) \notin Own({"devices", "target"})
        BY OwnIs, Kinds, AttemptsAre
      <3>2. \A b \in Attempts : Request(a) \notin device_cleanup(b)
        BY <1>3, Kinds
      <3>3. \A b \in Attempts : Request(a) = Request(b) => a = b
        BY Kinds
      <3> QED BY <1>2, <3>1, <3>2, <3>3
    <2>5. AddrInfo(a) \notin R
      BY <2>3, <1>3, Kinds, InResources
    <2>6. /\ Ext(a) \in R <=> dev[a] \in {"plugged", "kept", "orphan"}
          /\ Names(a) \in R <=> dev[a] \in {"plugged", "kept"}
          /\ Sock(a) \in R <=> dev[a] \in {"plugged", "kept"} /\ held[Sock(a)] = 1
          /\ WskSocket(a) \in R <=> dev[a] \in {"plugged", "kept"} /\ held[WskSocket(a)] = 1
      BY <2>2, <2>3, Kinds, InResources
    <2>7. /\ held'[Ext(a)] = IF dev[a] \in {"plugged", "kept", "orphan"} THEN held[Ext(a)] - 1 ELSE held[Ext(a)]
          /\ held'[Names(a)] = IF dev[a] \in {"plugged", "kept"} THEN held[Names(a)] - 1 ELSE held[Names(a)]
          /\ held'[Sock(a)] = IF dev[a] \in {"plugged", "kept"} /\ held[Sock(a)] = 1 THEN held[Sock(a)] - 1 ELSE held[Sock(a)]
          /\ held'[WskSocket(a)] = IF dev[a] \in {"plugged", "kept"} /\ held[WskSocket(a)] = 1
                                     THEN held[WskSocket(a)] - 1 ELSE held[WskSocket(a)]
          /\ held'[AddrInfo(a)] = held[AddrInfo(a)]
          /\ held'[Request(a)] = IF held[Request(a)] > 0 THEN held[Request(a)] - 1 ELSE held[Request(a)]
      BY <1>4, <2>4, <2>5, <2>6, InResources
    <2>8. held'[Request(a)] = 0
      <3>1. held[Request(a)] \in {0, 1}
        BY <2>1 DEF AttemptHolds
      <3> QED BY <2>7, <3>1
    <2>9. held'[AddrInfo(a)] = 0
      BY <2>1, <2>7 DEF AttemptHolds, Zero
    <2>10. held'[Names(a)] = 0
      <3>1. held[Names(a)] = IF dev[a] \in {"plugged", "kept"} THEN 1 ELSE 0
        BY <2>1, <2>2 DEF AttemptHolds, One, Zero
      <3> QED BY <2>7, <3>1
    <2>11. held'[Sock(a)] = 0
      <3>1. held[Sock(a)] \in {0, 1} /\ (dev[a] \notin {"plugged", "kept"} => held[Sock(a)] = 0)
        BY <2>1, <2>2 DEF AttemptHolds, Zero
      <3> QED BY <2>7, <3>1
    <2>12. held'[WskSocket(a)] = 0
      <3>1. held[WskSocket(a)] \in {0, 1} /\ (dev[a] \notin {"plugged", "kept"} => held[WskSocket(a)] = 0)
        BY <2>1, <2>2 DEF AttemptHolds, Zero
      <3> QED BY <2>7, <3>1
    <2>13. held'[Ext(a)] = IF dev[a] \in {"orphan", "freed twice"} THEN -1 ELSE 0
      <3>1. held[Ext(a)] = IF dev[a] \in {"plugged", "kept"} THEN 1 ELSE IF dev[a] = "freed twice" THEN -1 ELSE 0
        BY <2>1, <2>2 DEF AttemptHolds
      <3>2. CASE dev[a] \in {"plugged", "kept"}
        <4>0. dev[a] \notin {"orphan", "freed twice"}
          BY <3>2
        <4>1. held[Ext(a)] = 1
          BY <3>1, <3>2
        <4>2. held'[Ext(a)] = held[Ext(a)] - 1
          BY <2>7, <3>2
        <4>3. held'[Ext(a)] = 0
          BY <4>1, <4>2
        <4> QED BY <4>0, <4>3
      <3>3. CASE dev[a] = "orphan"
        <4>1. held[Ext(a)] = 0
          BY <3>1, <3>3
        <4> QED BY <2>7, <3>3, <4>1
      <3>4. CASE dev[a] \notin {"plugged", "kept", "orphan"}
        <4>1. held'[Ext(a)] = held[Ext(a)]
          BY <2>7, <3>4
        <4>2. CASE dev[a] = "freed twice"
          BY <3>1, <4>1, <4>2
        <4>3. CASE dev[a] # "freed twice"
          BY <3>1, <3>4, <4>1, <4>3
        <4> QED BY <4>2, <4>3
      <3> QED BY <3>2, <3>3, <3>4
    <2>14. dev'[a] = IF dev[a] = "orphan" THEN "freed twice"
                     ELSE IF dev[a] \in {"plugged", "kept"} THEN "deleted" ELSE dev[a]
      <3>1. dev'[a] = IF dev[a] = "orphan" THEN "freed twice"
                      ELSE IF device_cleanup(a) = {} THEN dev[a] ELSE "deleted"
        BY <1>1
      <3>2. device_cleanup(a) = {} <=> dev[a] \notin {"plugged", "kept", "orphan"}
        <4>1. CASE dev[a] \in {"plugged", "kept", "orphan"}
          BY <4>1, <2>2
        <4>2. CASE dev[a] \notin {"plugged", "kept", "orphan"}
          BY <4>2 DEF device_cleanup
        <4> QED BY <4>1, <4>2
      <3> QED BY <3>1, <3>2
    <2>15. dev[a] \in {"none", "orphan", "plugged", "kept", "deleted", "freed twice"}
           /\ (dev[a] # "none" => pc[a] = "done")
      BY <2>1 DEF AttemptAt, Ending
    <2>16. dev'[a] \in {"none", "deleted", "freed twice"} /\ (dev'[a] # "none" => pc'[a] = "done")
           /\ (dev'[a] = "freed twice" <=> dev[a] \in {"orphan", "freed twice"})
      BY <2>1, <2>14, <2>15
    <2>17. AttemptAt(a)'
      BY <1>1, <2>1, <2>2, <2>16 DEF AttemptAt, PcStates, Working, Looking, Connecting, Ending
    <2>18. ~Owned(a)'
      BY <1>1, <2>2, <2>16 DEF Owned
    <2>19. AttemptHolds(a)'
      BY <1>1, <2>1, <2>8, <2>9, <2>10, <2>11, <2>12, <2>13, <2>16, <2>18
         DEF AttemptHolds, One, Zero, Looking, Connecting
    <2> QED BY <2>17, <2>19
  <1> QED BY <1>8, <1>9, <1>10, <1>11, <1>12 DEF LifecycleInv

-----------------------------------------------------------------------------
\* Every step of an attach.
LEMMA AttachStepNext ==
  ASSUME LifecycleInv, NEW a \in Attempts, AttachStep(a)
  PROVE  LifecycleInv'
  <1>1. CASE getaddrinfo(a)
    BY <1>1, GetAddrInfoNext
  <1>2. CASE \E ok \in BOOLEAN : WskGetAddressInfo(a, ok)
    BY <1>2, ResolvedNext
  <1>3. CASE \/ \E r \in {"connected", "refused", "cancelled"} : WskConnect(a, r)
             \/ complete_removing(a)
             \/ connected(a)
    BY <1>3, MovesNext
  <1>4. CASE \E how \in Connects : complete_addrinfo(a, how)
    BY <1>4, AddrInfoNext
  <1>5. CASE \E how \in Connects : on_connect_failed(a, how)
    BY <1>5, ConnectFailedNext
  <1>6. CASE \E how \in CreateCalls : device_create_failed(a, how)
    BY <1>6, CreateFailedNext
  <1>7. CASE plugin(a)
    BY <1>7, PluginNext
  <1>8. CASE \E kept \in BOOLEAN : plugin_failed(a, kept)
    BY <1>8, PluginFailedNext
  <1>9. CASE \E how \in RequestCalls, stopped \in SUBSET reattach_req : complete_tail(a, how, stopped)
    BY <1>9, TailNext
  <1>10. CASE socket_failed(a)
    BY <1>10, SocketFailedNext
  <1>11. CASE reset_request(a)
    BY <1>11, ResetNext
  <1>12. CASE delete_workitem(a)
    BY <1>12, WorkitemNext
  <1> QED BY <1>1, <1>2, <1>3, <1>4, <1>5, <1>6, <1>7, <1>8, <1>9, <1>10, <1>11, <1>12 DEF AttachStep

\* Nothing happens.
LEMMA LifecycleStutters ==
  ASSUME LifecycleInv, UNCHANGED lifecycleVars
  PROVE  LifecycleInv'
  <1>1. UNCHANGED <<held, drv, g_initialized, g_init_flags, once, vhci, removing, pc, wiExt, dev, reattach_req>>
    BY DEF lifecycleVars, globals, vhciVars, attemptVars
  <1>2. LifecycleTypes' /\ DriverHolds' /\ ControllerHolds' /\ DriverAt'
    BY <1>1 DEF LifecycleInv, LifecycleTypes, DriverHolds, ControllerHolds, DriverAt, One, Zero
  <1>3. \A a \in Attempts : AttemptAt(a)'
    BY <1>1 DEF LifecycleInv, AttemptAt
  <1>4. \A a \in Attempts : AttemptHolds(a)'
    BY <1>1 DEF LifecycleInv, AttemptHolds, Owned, One, Zero
  <1> QED BY <1>2, <1>3, <1>4 DEF LifecycleInv

\* Every step of the driver, of the controller and of the attempts.
LEMMA LifecycleStep ==
  ASSUME LifecycleInv, [LifecycleNext]_lifecycleVars
  PROVE  LifecycleInv'
  <1>1. CASE DriverEntry
    BY <1>1, EntryNext
  <1>2. CASE driver_cleanup
    BY <1>2, CleanupNext
  <1>3. CASE \E ok \in BOOLEAN : initialize(ok)
    BY <1>3, InitializeNext
  <1>4. CASE AddStep
    BY <1>4, AddStepNext
  <1>5. CASE vhci_cleanup
    BY <1>5, VhciCleanupNext
  <1>6. ASSUME NEW a \in Attempts,
               \/ \E how \in PluginCalls : plugin_hardware(a, how)
               \/ AttachStep(a)
               \/ import_ends(a)
               \/ \E kept \in BOOLEAN : plugout_hardware(a, kept)
               \/ attach_request_ends(a)
        PROVE  LifecycleInv'
    <2>1. CASE \E how \in PluginCalls : plugin_hardware(a, how)
      BY <2>1, PluginHardwareNext
    <2>2. CASE AttachStep(a)
      BY <2>2, AttachStepNext
    <2>3. CASE \E kept \in BOOLEAN : plugout_hardware(a, kept)
      BY <2>3, PlugoutNext
    <2>4. CASE attach_request_ends(a)
      BY <2>4, RequestEndsNext
    <2>5. CASE import_ends(a)
      BY <2>5, MovesNext
    <2> QED BY <1>6, <2>1, <2>2, <2>3, <2>4, <2>5
  <1>7. CASE (\E stopped \in SUBSET reattach_req : stop_attach_attempts(stopped)) \/ vhci_query_remove
    BY <1>7, StopNext
  <1>8. CASE delete_vhci
    BY <1>8, DeleteNext
  <1>9. CASE UNCHANGED lifecycleVars
    BY <1>9, LifecycleStutters
  <1>10. CASE \E how \in {"names", "hash"} : stop_attach_attempts_failed(how)
    BY <1>10, StopFailedNext
  <1> QED BY <1>1, <1>2, <1>3, <1>4, <1>5, <1>6, <1>7, <1>8, <1>9, <1>10 DEF LifecycleNext

\* Whatever fails and in whatever order the handlers run, what is held of each resource
\* follows from where the driver, the controller and the attempt are: drivers/ude/driver.cpp,
\* vhci.cpp, vhci_ioctl.cpp and libdrv/wsk_cpp.cpp.
THEOREM LifecycleInvariance == LifecycleSpec => []LifecycleInv
  <1>1. LifecycleInit => LifecycleInv
    <2> SUFFICES ASSUME LifecycleInit PROVE LifecycleInv
      OBVIOUS
    <2>1. \A n \in DriverNames : held[<<n, 0>>] = 0
      BY InResources DEF LifecycleInit, DriverNames
    <2>2. LifecycleTypes /\ DriverHolds /\ ControllerHolds /\ DriverAt
      <3>1. held[<<"attr", 0>>] \in Nat /\ DriverHolds
        BY <2>1, InResources DEF LifecycleInit, DriverHolds, DriverNames
      <3>2. LifecycleTypes
        BY DEF LifecycleInit, LifecycleTypes
      <3>3. ControllerHolds
        BY <2>1 DEF LifecycleInit, ControllerHolds, DriverNames, Zero, WithDevices, WithTarget, WithReattach
      <3>4. DriverAt
        BY DEF LifecycleInit, DriverAt, VhciStates, WithDevices, WithTarget, WithReattach
      <3> QED BY <3>1, <3>2, <3>3, <3>4
    <2>3. ASSUME NEW a \in Attempts PROVE AttemptAt(a) /\ AttemptHolds(a)
      <3>1. /\ held[Ext(a)] = 0 /\ held[Names(a)] = 0 /\ held[Sock(a)] = 0 /\ held[WskSocket(a)] = 0
            /\ held[AddrInfo(a)] = 0 /\ held[Request(a)] = 0
        BY InResources DEF LifecycleInit
      <3>2. pc[a] = "none" /\ dev[a] = "none" /\ a \notin wiExt /\ a \notin reattach_req
        BY DEF LifecycleInit
      <3> QED BY <3>1, <3>2 DEF AttemptAt, AttemptHolds, Owned, Zero, PcStates, Working, Looking, Connecting, Ending
    <2> QED BY <2>2, <2>3 DEF LifecycleInv
  <1>2. LifecycleInv /\ [LifecycleNext]_lifecycleVars => LifecycleInv'
    BY LifecycleStep
  <1> QED BY <1>1, <1>2, PTL DEF LifecycleSpec

\* Nothing is released twice but the extension of a device whose init_device failed, no
\* address list outlives the provider, no request in the collection was deleted, and a
\* driver that is unloaded has given everything back but the strings that
\* STOP_ATTACH_ATTEMPTS lost, for any number of attempts.
THEOREM ReleasedOnceHolds == LifecycleSpec => []ReleasedOnce
  <1>1. LifecycleInv => ReleasedOnce
    <2> SUFFICES ASSUME LifecycleInv PROVE ReleasedOnce
      OBVIOUS
    <2>1. ASSUME NEW r \in Resources, held[r] < 0
          PROVE  \E a \in Attempts : r = Ext(a) /\ Orphan(a)
      <3>1. CASE \E n \in DriverNames : r = <<n, 0>>
        <4>1. PICK n \in DriverNames : r = <<n, 0>>
          BY <3>1
        <4>2. held[<<n, 0>>] \in Nat
          BY DriverHeld DEF DriverNames
        <4>3. held[r] \in Nat
          BY <4>1, <4>2
        <4> QED BY <2>1, <4>3
      <3>2. CASE \E a \in Attempts : r \in {Ext(a), Names(a), AddrInfo(a), Sock(a), WskSocket(a), Request(a)}
        <4>1. PICK a \in Attempts : r \in {Ext(a), Names(a), AddrInfo(a), Sock(a), WskSocket(a), Request(a)}
          BY <3>2
        <4>2. AttemptHolds(a)
          BY AttemptFacts
        <4>3. /\ held[Names(a)] \in {0, 1} /\ held[AddrInfo(a)] \in {0, 1} /\ held[Sock(a)] \in {0, 1}
              /\ held[WskSocket(a)] \in {0, 1} /\ held[Request(a)] \in {0, 1}
          BY <4>2 DEF AttemptHolds
        <4>4. held[r] \notin {0, 1}
          BY <2>1
        <4>5. r = Ext(a)
          BY <4>1, <4>3, <4>4
        <4>6. dev[a] # "freed twice" => held[Ext(a)] \in {0, 1}
          BY <4>2 DEF AttemptHolds
        <4>7. dev[a] = "freed twice"
          BY <4>4, <4>5, <4>6
        <4> QED BY <4>5, <4>7 DEF Orphan
      <3> QED BY <3>1, <3>2, ResourcesAre DEF DriverNames
    <2>2. ASSUME NEW a \in Attempts, held[AddrInfo(a)] > 0
          PROVE  "F_CAPTURE" \in g_init_flags
      <3>1. AttemptAt(a) /\ AttemptHolds(a)
        BY AttemptFacts
      <3>2. held[AddrInfo(a)] # 0
        BY <2>2
      <3>3. pc[a] \notin {"none", "abandoned", "getaddrinfo", "lost", "resolving", "unresolved", "done"}
        BY <3>1, <3>2 DEF AttemptHolds, Zero
      <3> QED BY <3>1, <3>3 DEF AttemptAt, PcStates, Working, Looking, Ending
    <2>3. ASSUME NEW a \in reattach_req PROVE held[Request(a)] > 0
      <3>1. a \in Attempts
        BY DEF LifecycleInv, LifecycleTypes
      <3>2. held[Request(a)] = 1
        BY <3>1, AttemptFacts DEF AttemptHolds, One
      <3> QED BY <3>2
    <2>4. ASSUME drv = "unloaded", NEW r \in Resources \ Own({"attr"}) PROVE held[r] <= 0
      <3>1. ~g_initialized /\ g_init_flags = {} /\ vhci = "none"
        BY <2>4 DEF LifecycleInv, DriverAt
      <3>2. CASE \E n \in DriverNames : r = <<n, 0>>
        <4>1. \A n \in DriverNames \ {"attr"} : held[<<n, 0>>] = 0
          BY <3>1, DriverHeld DEF LifecycleInv, ControllerHolds, Zero, DriverNames
        <4>2. \E n \in DriverNames \ {"attr"} : r = <<n, 0>>
          BY <3>2, OwnIs
        <4>3. held[r] = 0
          BY <4>1, <4>2
        <4> QED BY <4>3
      <3>3. CASE \E a \in Attempts : r \in {Ext(a), Names(a), AddrInfo(a), Sock(a), WskSocket(a), Request(a)}
        <4>1. PICK a \in Attempts : r \in {Ext(a), Names(a), AddrInfo(a), Sock(a), WskSocket(a), Request(a)}
          BY <3>3
        <4>2. AttemptAt(a) /\ AttemptHolds(a) /\ pc[a] \in {"none", "done"}
          BY <3>1, AttemptFacts DEF LifecycleInv, DriverAt
        <4>3. ~Owned(a)
          BY <3>1, <4>2 DEF AttemptAt, Owned, Working, Looking, Connecting, Ending
        <4>4. /\ held[Names(a)] = 0 /\ held[AddrInfo(a)] = 0 /\ held[Sock(a)] = 0 /\ held[WskSocket(a)] = 0
              /\ held[Request(a)] = 0 /\ (held[Ext(a)] = 0 \/ held[Ext(a)] = -1)
          BY <3>1, <4>2, <4>3 DEF AttemptHolds, Zero
        <4>5. held[r] = 0 \/ held[r] = -1
          BY <4>1, <4>4
        <4> QED BY <4>5
      <3> QED BY <3>2, <3>3, ResourcesAre DEF DriverNames
    <2> QED BY <2>1, <2>2, <2>3, <2>4 DEF ReleasedOnce
  <1> QED BY <1>1, LifecycleInvariance, PTL

\* set_usb_ports_cnt and init_constants leave their assertions true, whatever the
\* registry has.
THEOREM SettingsInRangeHolds == LifecycleSpec => []SettingsInRange
  <1>1. LifecycleInit => SettingsHold
    BY DEF LifecycleInit, SettingsHold, WithDevices, WithTarget, WithReattach
  <1>2. SettingsHold /\ [LifecycleNext]_lifecycleVars => SettingsHold'
    <2> SUFFICES ASSUME SettingsHold, [LifecycleNext]_lifecycleVars PROVE SettingsHold'
      OBVIOUS
    <2> DEFINE Reads == <<registry, ports, reattach, vhci>>
    <2>1. \A name \in DOMAIN registry : registry[name] \in Int
      BY LifecycleAssumption DEF SettingsHold
    <2>2. ASSUME NEW ok \in BOOLEAN, alloc_devices(ok) PROVE SettingsHold'
      <3>1. /\ vhci' \in {"create_target_self", "failed"} /\ UNCHANGED <<registry, reattach>>
            /\ vhci' = "create_target_self" => ports' = set_usb_ports_cnt(registry)
        BY <2>2 DEF alloc_devices
      <3>2. PortsFit(set_usb_ports_cnt(registry))
        BY <2>1, PortsAreInRange
      <3>3. vhci' \notin WithReattach /\ (vhci' \in WithDevices => vhci' = "create_target_self")
        BY <3>1 DEF WithReattach, WithDevices, WithTarget
      <3>4. vhci' \in WithDevices => PortsFit(ports')
        BY <3>1, <3>2, <3>3
      <3> QED BY <3>1, <3>3, <3>4 DEF SettingsHold
    <2>3. ASSUME NEW ok \in BOOLEAN, create_read_queue(ok) PROVE SettingsHold'
      <3>1. /\ vhci = "create_read_queue" /\ vhci' = (IF ok THEN "configure" ELSE "failed") /\ UNCHANGED <<registry, ports>>
            /\ \E opened \in BOOLEAN : reattach' = IF ok THEN init_constants(opened, registry) ELSE reattach
        BY <2>3 DEF create_read_queue, Child
      <3>2. PICK opened \in BOOLEAN : reattach' = IF ok THEN init_constants(opened, registry) ELSE reattach
        BY <3>1
      <3> DEFINE c == init_constants(opened, registry)
      <3>3. DelaysFit(c) /\ c.attempts * c.first <= MAX_TOTAL_DELAY
        BY <2>1, ReattachIsInRange
      <3> HIDE DEF c
      <3>4. vhci' \in WithReattach => reattach' = c
        BY <3>1, <3>2 DEF WithReattach, c
      <3>5. PortsFit(ports)
        BY <3>1 DEF SettingsHold, WithDevices, WithTarget
      <3> QED BY <3>1, <3>3, <3>4, <3>5 DEF SettingsHold
    <2>4. ASSUME UNCHANGED <<registry, ports, reattach>>,
                 \/ vhci' = vhci \/ vhci' \notin WithDevices
                 \/ vhci \in WithReattach
                 \/ vhci \in WithDevices /\ vhci' \notin WithReattach
          PROVE  SettingsHold'
      BY <2>4 DEF SettingsHold, WithDevices, WithTarget
    <2>5. CASE vhci_cleanup \/ delete_vhci
      BY <2>5 DEF SettingsHold, vhci_cleanup, delete_vhci, WithDevices, WithTarget, WithReattach
    <2>6. CASE \E ok \in BOOLEAN : initialize(ok)
      BY <2>4, <2>6 DEF initialize, WithDevices, WithTarget, WithReattach
    <2>7. ASSUME NEW ok \in BOOLEAN, create_target_self(ok) PROVE SettingsHold'
      BY <2>4, <2>7 DEF create_target_self, WithDevices, WithTarget, WithReattach
    <2>8. ASSUME NEW ok \in BOOLEAN,
                 configure(ok) \/ create_interfaces(ok) \/ add_usbdevice_emulation(ok) \/ create_queues(ok)
          PROVE  SettingsHold'
      <3>1. vhci \in WithReattach /\ UNCHANGED <<registry, ports, reattach>>
        BY <2>8 DEF configure, create_interfaces, add_usbdevice_emulation, create_queues, Child, WithReattach
      <3> QED BY <2>4, <3>1
    <2>9. CASE AddStep
      BY <2>2, <2>3, <2>7, <2>8, <2>9 DEF AddStep, init_context
    <2>10. CASE DriverEntry \/ driver_cleanup
      BY <2>4, <2>10 DEF DriverEntry, driver_create, init_wsk_context_list, wsk_initialize, driver_cleanup, vhciVars
    <2>11. ASSUME NEW a \in Attempts, AttachStep(a) PROVE SettingsHold'
      <3>1. UNCHANGED vhciVars
        BY <2>11 DEF AttachStep, getaddrinfo, WskGetAddressInfo, WskConnect, complete_removing, complete_addrinfo,
                     on_connect_failed, socket_failed, connected, device_create_failed, plugin, plugin_failed,
                     complete_tail, reset_request, delete_workitem
      <3> QED BY <2>4, <3>1 DEF vhciVars
    <2>12. ASSUME NEW a \in Attempts,
                  \/ \E how \in PluginCalls : plugin_hardware(a, how)
                  \/ \E kept \in BOOLEAN : plugout_hardware(a, kept)
                  \/ attach_request_ends(a) \/ import_ends(a)
           PROVE  SettingsHold'
      <3>1. UNCHANGED vhciVars
        BY <2>12 DEF plugin_hardware, plugout_hardware, attach_request_ends, import_ends
      <3> QED BY <2>4, <3>1 DEF vhciVars
    <2>13. CASE \/ \E stopped \in SUBSET reattach_req : stop_attach_attempts(stopped)
                \/ \E how \in {"names", "hash"} : stop_attach_attempts_failed(how)
                \/ vhci_query_remove \/ UNCHANGED lifecycleVars
      BY <2>4, <2>13 DEF stop_attach_attempts, stop_attach_attempts_failed, vhci_query_remove, lifecycleVars, vhciVars
    <2> QED BY <2>5, <2>6, <2>9, <2>10, <2>11, <2>12, <2>13 DEF LifecycleNext
  <1>3. SettingsHold => SettingsInRange
    BY DEF SettingsHold, SettingsInRange, WithDevices, WithTarget, WithReattach
  <1> QED BY <1>1, <1>2, <1>3, PTL DEF LifecycleSpec
=============================================================================
