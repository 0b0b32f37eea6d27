---------------------------- MODULE EventDelivery ----------------------------
(***************************************************************************)
(* An ingest event's way from a publisher (internal/domain/nats/publish.go *)
(* and the publishers) through the INGEST stream to NATSPort's handlers    *)
(* (port.go) and the upsert of DomainService and its repository.           *)
(*                                                                         *)
(* One durable consumer per subject, explicit acks, at most MaxDeliver     *)
(* deliveries of a message, one callback at a time.  New messages come in  *)
(* stream order; one that was nak'd, whose ack was lost, or that a crash   *)
(* interrupted comes again later, after messages published since.          *)
(*                                                                         *)
(* An entity is a row that whole upserts overwrite: a repo, commit, pull   *)
(* request, workflow, run, task or team.  Entities do not interact, so an  *)
(* entity stands for its subject and has its part of the stream to itself. *)
(* Its versions are what the source made of it.  Events that touch rows of *)
(* several entities (components, onboardings) are MemoryRepository's.      *)
(***************************************************************************)
EXTENDS Integers, SequencesExt

CONSTANTS Entity,      \* entities, one per subject
          Recrawled,   \* those a crawl publishes again on every tick
          MaxDeliver,  \* deliveries of a message
          Persistent,  \* whether the repository is SQLite
          MaxVersion,  \* bound on an entity's versions
          MaxPending,  \* bound on an entity's messages in the stream
          MaxFaults    \* bound on failed calls and restarts of the domain

ASSUME DeliveryAssumption ==
    /\ Recrawled \subseteq Entity
    /\ MaxDeliver \in Nat \ {0} /\ Persistent \in BOOLEAN
    /\ MaxVersion \in Nat /\ MaxPending \in Nat \ {0} /\ MaxFaults \in Nat

VARIABLES source,        \* entity -> its version at the source; 0 is none
          announced,     \* entity -> the version last published
          streamExists,  \* whether the domain has created the stream
          running,       \* whether the domain is running
          stream,        \* entity -> its messages not acked yet, in order
          store,         \* entity -> the version in the repository; 0 is none
          applied,       \* entity -> versions that were ever stored
          exhausted,     \* entity -> versions given up after MaxDeliver tries
          faults         \* failures and restarts so far

vars == <<source, announced, streamExists, running, stream, store, applied, exhausted, faults>>

\* tries counts the deliveries of a message.  It is queued until the first,
\* handling while a callback has it, stored between the upsert and the ack,
\* and waiting for its next delivery otherwise.
Message == [version : 1..MaxVersion, tries : 0..MaxDeliver,
            status : {"queued", "handling", "stored", "waiting"}]

Init ==
    /\ source = [e \in Entity |-> 0] /\ announced = [e \in Entity |-> 0]
    /\ streamExists = FALSE /\ running = FALSE
    /\ stream = [e \in Entity |-> <<>>]
    /\ store = [e \in Entity |-> 0]
    /\ applied = [e \in Entity |-> {}] /\ exhausted = [e \in Entity |-> {}]
    /\ faults = 0

fault == faults < MaxFaults /\ faults' = faults + 1

-----------------------------------------------------------------------------
\* The publishing side.

ChangeSource(e) ==
    /\ source[e] < MaxVersion
    /\ source' = [source EXCEPT ![e] = @ + 1]
    /\ UNCHANGED <<announced, streamExists, running, stream, store, applied, exhausted, faults>>

\* Mutant: an entity published before is published again as it was then.
Publish_FirstCopy(e) ==
    LET version == IF announced[e] > 0 THEN announced[e] ELSE source[e]
    IN /\ streamExists /\ Len(stream[e]) < MaxPending
       /\ source[e] > (IF e \in Recrawled THEN 0 ELSE announced[e])
       /\ stream' = [stream EXCEPT ![e] =
                       Append(@, [version |-> version, tries |-> 0, status |-> "queued"])]
       /\ announced' = [announced EXCEPT ![e] = version]
       /\ UNCHANGED <<source, streamExists, running, store, applied, exhausted, faults>>

\* publish retries for as long as the stream does not exist, so the step is
\* the attempt that gets through.  A crawl publishes the version the source
\* has; only entities that are crawled in full are published a second time.
\* (A publish that fails for good is the crawlers' business.)
Publish(e) ==
    /\ streamExists /\ Len(stream[e]) < MaxPending
    /\ source[e] > (IF e \in Recrawled THEN 0 ELSE announced[e])
    /\ stream' = [stream EXCEPT ![e] =
                    Append(@, [version |-> source[e], tries |-> 0, status |-> "queued"])]
    /\ announced' = [announced EXCEPT ![e] = source[e]]
    /\ UNCHANGED <<source, streamExists, running, store, applied, exhausted, faults>>

-----------------------------------------------------------------------------
\* The domain service.

\* Run creates the stream if it is not there, and the durable consumers.
Start ==
    /\ ~running
    /\ running' = TRUE /\ streamExists' = TRUE
    /\ UNCHANGED <<source, announced, stream, store, applied, exhausted, faults>>

\* Mutant: callbacks of one consumer run side by side.
deliverAt_Concurrent(e, i) ==
    /\ running
    /\ stream' = [stream EXCEPT ![e][i].status = "handling", ![e][i].tries = @ + 1]
    /\ UNCHANGED <<source, announced, streamExists, running, store, applied, exhausted, faults>>

\* The callback is free to take the message at position i.
deliverAt(e, i) ==
    /\ running
    /\ \A j \in DOMAIN stream[e] : stream[e][j].status \notin {"handling", "stored"}
    /\ stream' = [stream EXCEPT ![e][i].status = "handling", ![e][i].tries = @ + 1]
    /\ UNCHANGED <<source, announced, streamExists, running, store, applied, exhausted, faults>>

\* The server delivers the first queued message.
Deliver(e) ==
    \E i \in DOMAIN stream[e] :
        /\ stream[e][i].status = "queued"
        /\ \A j \in 1..(i - 1) : stream[e][j].status # "queued"
        /\ deliverAt(e, i)

\* It delivers again one that waits, before or after new ones.
Redeliver(e) ==
    \E i \in DOMAIN stream[e] : stream[e][i].status = "waiting" /\ deliverAt(e, i)

spent(e, i) == stream[e][i].tries = MaxDeliver

\* An entity's messages after the delivery at position i was in vain: it waits
\* for its next one, or is given up when it is spent.
takeBack(e, i) ==
    IF spent(e, i) THEN RemoveAt(stream[e], i) ELSE [stream[e] EXCEPT ![i].status = "waiting"]

\* Mutant: the message is acked when it arrives, before the handler runs.
Handle_AckedFirst(e, i, ok) ==
    /\ stream[e][i].status = "handling"
    /\ IF ok
       THEN /\ store' = [store EXCEPT ![e] = stream[e][i].version]
            /\ applied' = [applied EXCEPT ![e] = @ \cup {stream[e][i].version}]
            /\ UNCHANGED faults
       ELSE fault /\ UNCHANGED <<store, applied>>
    /\ stream' = [stream EXCEPT ![e] = RemoveAt(@, i)]
    /\ UNCHANGED <<source, announced, streamExists, running, exhausted>>

\* The handler: the upsert, and a nak when it returns an error.
Handle(e, i, ok) ==
    /\ stream[e][i].status = "handling"
    /\ IF ok
       THEN /\ stream' = [stream EXCEPT ![e][i].status = "stored"]
            /\ store' = [store EXCEPT ![e] = stream[e][i].version]
            /\ applied' = [applied EXCEPT ![e] = @ \cup {stream[e][i].version}]
            /\ UNCHANGED <<exhausted, faults>>
       ELSE /\ fault
            /\ stream' = [stream EXCEPT ![e] = takeBack(e, i)]
            /\ exhausted' = IF spent(e, i)
                            THEN [exhausted EXCEPT ![e] = @ \cup {stream[e][i].version}]
                            ELSE exhausted
            /\ UNCHANGED <<store, applied>>
    /\ UNCHANGED <<source, announced, streamExists, running>>

\* The ack that ends the handler; one that is lost leaves the message to be
\* delivered again when the ack wait is over.
Ack(e, i, ok) ==
    /\ stream[e][i].status = "stored"
    /\ IF ok THEN UNCHANGED faults ELSE fault
    /\ stream' = [stream EXCEPT ![e] = IF ok THEN RemoveAt(@, i) ELSE takeBack(e, i)]
    /\ UNCHANGED <<source, announced, streamExists, running, store, applied, exhausted>>

\* The domain is killed.  What an entity's callback held is delivered again after
\* a restart; the in-memory repository is lost.
inCallback(e) == {i \in DOMAIN stream[e] : stream[e][i].status \in {"handling", "stored"}}

Crash ==
    /\ running /\ fault
    /\ running' = FALSE
    /\ store' = IF Persistent THEN store ELSE [e \in Entity |-> 0]
    /\ stream' = [e \in Entity |-> IF inCallback(e) = {} THEN stream[e]
                                   ELSE takeBack(e, CHOOSE i \in inCallback(e) : TRUE)]
    /\ exhausted' = [e \in Entity |-> exhausted[e] \cup
                        {stream[e][i].version : i \in {j \in inCallback(e) :
                            spent(e, j) /\ stream[e][j].status = "handling"}}]
    /\ UNCHANGED <<source, announced, streamExists, applied>>

\* One step of the consumer of an entity's subject.
Consume(e) ==
    \/ Deliver(e) \/ Redeliver(e)
    \/ \E i \in DOMAIN stream[e], ok \in BOOLEAN : Handle(e, i, ok) \/ Ack(e, i, ok)

Next ==
    \/ \E e \in Entity : ChangeSource(e) \/ Publish(e) \/ Consume(e)
    \/ Start \/ Crash

\* A killed domain is started again, tickers go on ticking, a message that can
\* be delivered is, and new messages do not hold up a redelivery for ever.
Spec ==
    /\ Init /\ [][Next]_vars
    /\ WF_vars(Start)
    /\ \A e \in Entity : WF_vars(Publish(e)) /\ WF_vars(Consume(e)) /\ SF_vars(Redeliver(e))

-----------------------------------------------------------------------------
\* The stream holds messages, at most one of an entity in a callback.
TypeOK ==
    /\ source \in [Entity -> 0..MaxVersion]
    /\ announced \in [Entity -> 0..MaxVersion]
    /\ streamExists \in BOOLEAN /\ running \in BOOLEAN
    /\ stream \in [Entity -> Seq(Message)]
    /\ \A e \in Entity :
           /\ Len(stream[e]) <= MaxPending
           /\ \A i, j \in inCallback(e) : i = j
    /\ store \in [Entity -> 0..MaxVersion]
    /\ applied \in [Entity -> SUBSET (1..MaxVersion)]
    /\ exhausted \in [Entity -> SUBSET (1..MaxVersion)]
    /\ faults \in 0..MaxFaults

\* Nothing published is lost silently: the version last published has been
\* stored, or is in the stream, or has used up its deliveries, which takes that
\* many failures.
NothingLostInDelivery ==
    /\ \A e \in Entity : announced[e] > 0 =>
           \/ announced[e] \in applied[e] \cup exhausted[e]
           \/ \E i \in DOMAIN stream[e] : stream[e][i].version = announced[e]
    /\ (\E e \in Entity : exhausted[e] # {}) => faults >= MaxDeliver

\* Every version published is stored in the end, once at least, unless its
\* deliveries are used up: through restarts, handler errors and lost acks.
PublishedIsStored ==
    \A e \in Entity, v \in 1..MaxVersion :
        (announced[e] = v) ~> (v \in applied[e] \cup exhausted[e])

\* Redelivery can put an older version over a newer one.  For what a crawl
\* publishes again on every tick that heals: from some point on the store has
\* what the source has.
RecrawledConverges ==
    \A e \in Recrawled : <>[](store[e] = source[e])
=============================================================================
