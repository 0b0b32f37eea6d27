--------------------------- MODULE QueryProtocol ----------------------------
(***************************************************************************)
(* Queries over core NATS: QueryClient (internal/domain/nats/              *)
(* query_client.go) and QueryPort (query_port.go), and the domain process  *)
(* the port runs in.  A call of the client subscribes to an inbox of its   *)
(* own, publishes the request and reads the inbox until a terminator, an   *)
(* error or the end of its context.  The port serves the requests of one   *)
(* subject one after the other and streams the rows of one snapshot of the *)
(* repository, which ingestion keeps writing to.                           *)
(*                                                                         *)
(* Core NATS delivers at most once: a reconnect may lose any message in    *)
(* flight, and a full inbox drops one and then fails the next read.        *)
(* Messages of one connection to one inbox are not reordered.              *)
(*                                                                         *)
(* A query matches every row: which ones is QueryEval's.  The context has  *)
(* a deadline (both callers set one), so it may end at any time and does   *)
(* in the end.                                                             *)
(***************************************************************************)
EXTENDS Integers, SequencesExt

CONSTANTS Query,      \* calls of the query client, each with its own inbox
          NoQuery,    \* no call
          Row,        \* rows a query may match
          Subject,    \* query subjects
          kind,       \* subject -> "entity", "diagnostics" or "aggregate"
          MaxWrites,  \* bound on changes of the store
          MaxFaults   \* bound on stops, lost messages and failed sends

ASSUME ProtocolAssumption ==
    /\ NoQuery \notin Query
    /\ kind \in [Subject -> {"entity", "diagnostics", "aggregate"}]
    /\ MaxWrites \in Nat /\ MaxFaults \in Nat

VARIABLES data,     \* rows the store holds
          port,     \* "down", "up", or "stopping" once it unsubscribed
          queue,    \* subject -> requests its handler has not taken yet
          serving,  \* subject -> the handler's query and payloads left to send
          inbox,    \* query -> replies its caller has not read yet
          phase,    \* query -> where its call is
          got,      \* query -> rows read so far
          snap,     \* query -> {}, or {the rows it was served from}
          lost,     \* queries with a lost reply
          hurt,     \* queries a fault deprived of their terminator
          writes, faults

client == <<phase, got>>
server == <<port, queue, serving>>
ghosts == <<snap, lost, hurt>>
vars == <<data, server, inbox, client, ghosts, writes, faults>>

\* rows: a row of an entity, all rows of an aggregation, none otherwise.
Message == [status : {"data", "aggregation", "done", "error", "no responders", "slow consumer"},
            rows : SUBSET Row]
notice(status) == [status |-> status, rows |-> {}]

Idle == [query |-> NoQuery, rest |-> {}]

waiting(q) == phase[q] = "waiting"

fault == faults < MaxFaults /\ faults' = faults + 1

Init ==
    /\ data \in SUBSET Row
    /\ port = "down" /\ queue = [s \in Subject |-> <<>>]
    /\ serving = [s \in Subject |-> Idle]
    /\ inbox = [q \in Query |-> <<>>]
    /\ phase = [q \in Query |-> "idle"] /\ got = [q \in Query |-> {}]
    /\ snap = [q \in Query |-> {}] /\ lost = {} /\ hurt = {}
    /\ writes = 0 /\ faults = 0

-----------------------------------------------------------------------------
\* The repository's writers and the network (external).

Write ==
    /\ writes < MaxWrites /\ writes' = writes + 1
    /\ data' \in SUBSET Row
    /\ UNCHANGED <<server, inbox, client, ghosts, faults>>

\* A request or a reply in flight is lost.
Lose(q) ==
    /\ fault
    /\ \/ \E s \in Subject : \E i \in DOMAIN queue[s] :
              /\ queue[s][i] = q
              /\ queue' = [queue EXCEPT ![s] = RemoveAt(@, i)]
              /\ UNCHANGED <<inbox, lost>>
       \/ \E i \in DOMAIN inbox[q] :
              /\ inbox' = [inbox EXCEPT ![q] = RemoveAt(@, i)]
              /\ lost' = lost \cup {q}
              /\ UNCHANGED queue
    /\ hurt' = hurt \cup {q}
    /\ UNCHANGED <<data, port, serving, client, snap, writes>>

\* The inbox is full: the reply that arrives is dropped, and the next read
\* returns the error whatever is queued.
Overflow(q) ==
    /\ fault /\ inbox[q] # <<>>
    /\ inbox' = [inbox EXCEPT ![q] = <<notice("slow consumer")>> \o Front(@)]
    /\ UNCHANGED <<data, server, client, ghosts, writes>>

\* Mutant: a call that returned is still subscribed.
reply_NotUnsubscribed(q, message) ==
    inbox' = [inbox EXCEPT ![q] = Append(@, message)]

\* A reply is delivered while the caller is subscribed.
reply(q, message) ==
    inbox' = IF waiting(q) THEN [inbox EXCEPT ![q] = Append(@, message)] ELSE inbox

-----------------------------------------------------------------------------
\* QueryPort.

Start ==
    /\ port = "down"
    /\ port' = "up"
    /\ UNCHANGED <<data, queue, serving, inbox, client, ghosts, writes, faults>>

\* Run unsubscribes: requests not taken yet are dropped.  Exit: the process
\* ends, and its handlers with it.  A crash is both at once.
Stop ==
    /\ port = "up" /\ fault
    /\ port' = "stopping"
    /\ queue' = [s \in Subject |-> <<>>]
    /\ hurt' = hurt \cup UNION {ToSet(queue[s]) : s \in Subject}
    /\ UNCHANGED <<data, serving, inbox, client, snap, lost, writes>>

Exit ==
    /\ port = "stopping"
    /\ port' = "down"
    /\ serving' = [s \in Subject |-> Idle]
    /\ hurt' = hurt \cup ({serving[s].query : s \in Subject} \ {NoQuery})
    /\ UNCHANGED <<data, queue, inbox, client, snap, lost, writes, faults>>

\* One message for each row, or one for the whole aggregation.
payloads(s, rows) == IF kind[s] = "aggregate" THEN {rows} ELSE {{r} : r \in rows}

\* Decoding or evaluating fails before any row is sent, or the handler has the
\* rows of one moment.
Begin(s) ==
    /\ serving[s] = Idle /\ queue[s] # <<>>
    /\ queue' = [queue EXCEPT ![s] = Tail(@)]
    /\ LET q == Head(queue[s])
       IN \/ /\ reply(q, notice("error"))
             /\ UNCHANGED <<serving, snap>>
          \/ /\ serving' = [serving EXCEPT ![s] = [query |-> q, rest |-> payloads(s, data)]]
             /\ snap' = [snap EXCEPT ![q] = {data}]
             /\ UNCHANGED inbox
    /\ UNCHANGED <<data, port, client, lost, hurt, writes, faults>>

\* Mutant: the rows are read from the repository as they are sent.
SendNext_Live(s) ==
    \E p \in payloads(s, data) :
        /\ serving[s].rest # {}
        /\ reply(serving[s].query, [status |-> IF kind[s] = "aggregate" THEN "aggregation" ELSE "data",
                                    rows |-> p])
        /\ serving' = [serving EXCEPT ![s].rest = @ \ {CHOOSE x \in @ : TRUE}]
        /\ UNCHANGED <<data, port, queue, client, ghosts, writes, faults>>

SendNext(s) ==
    \E p \in serving[s].rest :
        /\ reply(serving[s].query, [status |-> IF kind[s] = "aggregate" THEN "aggregation" ELSE "data",
                                    rows |-> p])
        /\ serving' = [serving EXCEPT ![s].rest = @ \ {p}]
        /\ UNCHANGED <<data, port, queue, client, ghosts, writes, faults>>

\* Mutants: whatever the subject, the handler returns without a terminator; the
\* error of a row is logged and the stream ends as if it were complete.
SendFails_Silent(s) ==
    /\ fault /\ serving[s].rest # {}
    /\ hurt' = IF kind[s] = "entity" THEN hurt ELSE hurt \cup {serving[s].query}
    /\ serving' = [serving EXCEPT ![s] = Idle]
    /\ UNCHANGED <<data, port, queue, inbox, client, snap, lost, writes>>

SendFails_Done(s) ==
    /\ fault /\ serving[s].rest # {}
    /\ reply(serving[s].query, notice("done"))
    /\ serving' = [serving EXCEPT ![s] = Idle]
    /\ UNCHANGED <<data, port, queue, client, ghosts, writes>>

\* Mutant: the error is sent, the return after it is missing.
SendFails_GoesOn(s) ==
    /\ fault /\ serving[s].rest # {}
    /\ reply(serving[s].query, notice("error"))
    /\ serving' = [serving EXCEPT ![s].rest = {}]
    /\ UNCHANGED <<data, port, queue, client, ghosts, writes>>

\* A row or an aggregation cannot be sent: too large, or the connection is
\* gone.  An entity query answers with an error after the rows it has sent;
\* the other two handlers return and send no terminator.
SendFails(s) ==
    /\ fault /\ serving[s].rest # {}
    /\ IF kind[s] = "entity"
       THEN reply(serving[s].query, notice("error")) /\ UNCHANGED hurt
       ELSE hurt' = hurt \cup {serving[s].query} /\ UNCHANGED inbox
    /\ serving' = [serving EXCEPT ![s] = Idle]
    /\ UNCHANGED <<data, port, queue, client, snap, lost, writes>>

SendDone(s) ==
    /\ serving[s] # Idle /\ serving[s].rest = {}
    /\ reply(serving[s].query, notice("done"))
    /\ serving' = [serving EXCEPT ![s] = Idle]
    /\ UNCHANGED <<data, port, queue, client, ghosts, writes, faults>>

\* A subscription's goroutine.
Handle(s) == Begin(s) \/ SendNext(s) \/ SendDone(s)

-----------------------------------------------------------------------------
\* QueryClient.

\* The inbox is subscribed before the request is published.  Without a
\* subscriber the bus answers at once.
Ask(q, s) ==
    /\ phase[q] = "idle"
    /\ phase' = [phase EXCEPT ![q] = "waiting"]
    /\ IF port = "up"
       THEN queue' = [queue EXCEPT ![s] = Append(@, q)] /\ UNCHANGED inbox
       ELSE inbox' = [inbox EXCEPT ![q] = <<notice("no responders")>>] /\ UNCHANGED queue
    /\ UNCHANGED <<data, port, serving, got, ghosts, writes, faults>>

\* The call returns: rows already read are discarded with an error, and the
\* inbox is unsubscribed.
finish(q, end, rows) ==
    /\ phase' = [phase EXCEPT ![q] = end]
    /\ got' = [got EXCEPT ![q] = IF end = "error" THEN {} ELSE rows]
    /\ inbox' = [inbox EXCEPT ![q] = <<>>]

\* The loop from one read to the next.  c.timeout is looked at after a row, and
\* only then.
read(q, timedOut) ==
    LET m == Head(inbox[q])
    IN CASE m.status = "done" -> finish(q, "answer", got[q])
         [] m.status = "aggregation" -> finish(q, "answer", m.rows)
         [] m.status = "data" /\ ~timedOut ->
                /\ got' = [got EXCEPT ![q] = @ \cup m.rows]
                /\ inbox' = [inbox EXCEPT ![q] = Tail(@)]
                /\ UNCHANGED phase
         [] OTHER -> finish(q, "error", {})

\* Mutant: rows read before the timeout are returned as the result.
Receive_TimeoutAnswers(q) ==
    /\ waiting(q) /\ inbox[q] # <<>>
    /\ \/ read(q, FALSE)
       \/ Head(inbox[q]).status = "data" /\ finish(q, "answer", got[q])
    /\ UNCHANGED <<data, server, ghosts, writes, faults>>

Receive(q) ==
    /\ waiting(q) /\ inbox[q] # <<>>
    /\ \E timedOut \in BOOLEAN : read(q, timedOut)
    /\ UNCHANGED <<data, server, ghosts, writes, faults>>

\* The context ends, or the connection is closed, while the call reads.
GiveUp(q) ==
    /\ waiting(q)
    /\ finish(q, "error", {})
    /\ UNCHANGED <<data, server, ghosts, writes, faults>>

-----------------------------------------------------------------------------
Next ==
    \/ Write \/ Start \/ Stop \/ Exit
    \/ \E s \in Subject : Handle(s) \/ SendFails(s)
    \/ \E q \in Query : \/ \E s \in Subject : Ask(q, s)
                        \/ Receive(q) \/ GiveUp(q)
                        \/ Lose(q) \/ Overflow(q)

\* Handlers and callers run.  The clock and the context are not fair here: a
\* property that needs them says so.
Fairness ==
    /\ \A s \in Subject : WF_vars(Handle(s))
    /\ \A q \in Query : WF_vars(Receive(q))

Spec == Init /\ [][Next]_vars /\ Fairness

-----------------------------------------------------------------------------
\* An inbox holds replies only while its call runs, and an idle handler has
\* nothing left to send.
TypeOK ==
    /\ data \subseteq Row
    /\ port \in {"down", "up", "stopping"}
    /\ queue \in [Subject -> Seq(Query)]
    /\ serving \in [Subject -> [query : Query \cup {NoQuery}, rest : SUBSET SUBSET Row]]
    /\ inbox \in [Query -> Seq(Message)]
    /\ phase \in [Query -> {"idle", "waiting", "answer", "error"}]
    /\ got \in [Query -> SUBSET Row]
    /\ snap \in [Query -> SUBSET SUBSET Row]
    /\ lost \subseteq Query /\ hurt \subseteq Query
    /\ writes \in Nat /\ faults \in Nat
    /\ \A q \in Query : inbox[q] # <<>> => waiting(q)
    /\ \A s \in Subject : serving[s].query = NoQuery => serving[s].rest = {}

\* A request waits in one place and is taken by one handler, once.
RequestsDistinct ==
    \A s, t \in Subject : \A i \in DOMAIN queue[s], j \in DOMAIN queue[t] :
        queue[s][i] = queue[t][j] => s = t /\ i = j
RequestsUnserved ==
    \A s \in Subject : \A i \in DOMAIN queue[s] :
        phase[queue[s][i]] # "idle" /\ snap[queue[s][i]] = {}
HandlersServe ==
    \A s \in Subject : serving[s] # Idle =>
        /\ snap[serving[s].query] # {}
        /\ \A t \in Subject : serving[t].query = serving[s].query => t = s
IdleUnserved == \A q \in Query : phase[q] = "idle" => snap[q] = {}
ServedOnce == RequestsDistinct /\ RequestsUnserved /\ HandlersServe /\ IdleUnserved

\* A terminator ends an answer: it is the last message, no handler is at work on the
\* query any more and none will be, whether the answer succeeded, failed half-way
\* or found nobody to give it.
terminators == {"done", "error", "no responders"}
AnswersEndOnce ==
    \A q \in Query : \A i \in DOMAIN inbox[q] : inbox[q][i].status \in terminators =>
        /\ i = Len(inbox[q])
        /\ \A s \in Subject : /\ serving[s].query # q
                              /\ \A k \in DOMAIN queue[s] : queue[s][k] # q

\* The rows of the first n messages.
rowsOf(messages, n) == UNION {messages[i].rows : i \in 1..n}

\* No reply to q was lost, and its next read does not fail.
whole(q) ==
    /\ q \notin lost
    /\ 1 \in DOMAIN inbox[q] => inbox[q][1].status # "slow consumer"

unserved(q) ==
    /\ got[q] = {}
    /\ \A i \in DOMAIN inbox[q] :
           /\ inbox[q][i].status \in {"error", "no responders", "slow consumer"}
           /\ inbox[q][i].rows = {}

served(q, held) ==
    /\ got[q] \subseteq held
    /\ \A i \in DOMAIN inbox[q] :
           /\ inbox[q][i].rows \subseteq held
           /\ inbox[q][i].status = "aggregation" => inbox[q][i].rows = held
           /\ inbox[q][i].status = "done" /\ whole(q) => held = got[q] \cup rowsOf(inbox[q], i - 1)
    /\ \A s \in Subject : serving[s].query = q =>
           /\ UNION serving[s].rest \subseteq held
           /\ kind[s] = "aggregate" => serving[s].rest \subseteq {held}
           /\ whole(q) => held = got[q] \cup rowsOf(inbox[q], Len(inbox[q])) \cup UNION serving[s].rest

\* What a caller has read, what is in its inbox and what its handler has left to
\* send together make up the rows it was served from, and everything but the
\* terminator comes before it, unless a reply was lost or the next read fails.
stream(q) ==
    /\ snap[q] = {} => unserved(q)
    /\ \A held \in snap[q] : served(q, held)
NothingMissing ==
    \A q \in Query : /\ phase[q] = "idle" => got[q] = {}
                     /\ waiting(q) => stream(q)

outcome == [q \in Query |-> CASE phase[q] = "idle" -> "none"
                              [] waiting(q) -> "asked"
                              [] OTHER -> phase[q]]
answer == [q \in Query |-> IF phase[q] = "answer" THEN got[q] ELSE {}]

Promise == INSTANCE QueryPromise

\* Every call of the client ends with an error and no rows, or with exactly the
\* rows the repository held at one moment after it asked, though they travel as
\* separate messages while the store changes, the domain stops, sends fail,
\* inboxes overflow and deadlines pass; only a reply lost by the network can
\* go unnoticed.
ImplementsPromise == Promise!Spec

\* Without any help from timeouts, a terminator reaches every call unless a
\* fault took its request, its terminator or the domain: serial service of a
\* subject starves no one, and a row that cannot be sent still ends the call.
TerminatorArrives == \A q \in Query : waiting(q) ~> (~waiting(q) \/ q \in hurt)
=============================================================================
