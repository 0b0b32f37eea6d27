------------------------ MODULE QueryProtocolProofs -------------------------
(***************************************************************************)
(* QueryProtocol implements QueryPromise, for any number of calls, rows,   *)
(* subjects, writes and faults.                                            *)
(***************************************************************************)
EXTENDS QueryProtocol, TLAPS

-----------------------------------------------------------------------------
\* Sequences: what the steps do to a queue or an inbox.

LEMMA AppendMessage ==
    ASSUME NEW seq \in Seq(Message), NEW m \in Message
    PROVE  /\ Append(seq, m) \in Seq(Message)
           /\ DOMAIN Append(seq, m) = DOMAIN seq \cup {Len(seq) + 1}
           /\ Len(Append(seq, m)) = Len(seq) + 1
           /\ \A i \in DOMAIN seq : Append(seq, m)[i] = seq[i]
           /\ Append(seq, m)[Len(seq) + 1] = m
           /\ \A n \in 0..Len(seq) : rowsOf(Append(seq, m), n) = rowsOf(seq, n)
           /\ rowsOf(Append(seq, m), Len(seq) + 1) = rowsOf(seq, Len(seq)) \cup m.rows
<1>1. /\ Append(seq, m) \in Seq(Message)
      /\ DOMAIN Append(seq, m) = DOMAIN seq \cup {Len(seq) + 1}
      /\ Len(Append(seq, m)) = Len(seq) + 1
      /\ \A i \in DOMAIN seq : Append(seq, m)[i] = seq[i]
      /\ Append(seq, m)[Len(seq) + 1] = m
  OBVIOUS
<1>2. ASSUME NEW n \in 0..Len(seq)
      PROVE  rowsOf(Append(seq, m), n) = rowsOf(seq, n)
  BY <1>1 DEF rowsOf
<1>3. rowsOf(Append(seq, m), Len(seq) + 1) = rowsOf(seq, Len(seq)) \cup m.rows
  BY <1>1 DEF rowsOf
<1> QED BY <1>1, <1>2, <1>3

LEMMA SingleMessage ==
    ASSUME NEW m \in Message
    PROVE  /\ <<m>> \in Seq(Message) /\ <<m>> # <<>> /\ Head(<<m>>) = m
           /\ \A i \in DOMAIN <<m>> : i = 1 /\ <<m>>[i] = m
OBVIOUS

LEMMA TailMessage ==
    ASSUME NEW seq \in Seq(Message), seq # <<>>
    PROVE  /\ Head(seq) \in Message /\ Head(seq) = seq[1] /\ 1 \in DOMAIN seq
           /\ Tail(seq) \in Seq(Message)
           /\ Len(Tail(seq)) = Len(seq) - 1
           /\ \A i \in DOMAIN Tail(seq) : i + 1 \in DOMAIN seq /\ Tail(seq)[i] = seq[i + 1]
           /\ \A n \in 1..Len(seq) : rowsOf(seq, n) = Head(seq).rows \cup rowsOf(Tail(seq), n - 1)
<1>1. /\ Head(seq) \in Message /\ Head(seq) = seq[1] /\ 1 \in DOMAIN seq
      /\ Tail(seq) \in Seq(Message)
      /\ Len(Tail(seq)) = Len(seq) - 1
      /\ \A i \in DOMAIN Tail(seq) : i + 1 \in DOMAIN seq /\ Tail(seq)[i] = seq[i + 1]
  OBVIOUS
<1>2. ASSUME NEW n \in 1..Len(seq)
      PROVE  rowsOf(seq, n) = Head(seq).rows \cup rowsOf(Tail(seq), n - 1)
  <2>1. \A i \in 1..n : i = 1 \/ (i - 1 \in 1..(n - 1) /\ seq[i] = Tail(seq)[i - 1])
    BY <1>1
  <2>2. \A i \in 1..(n - 1) : i + 1 \in 1..n /\ Tail(seq)[i] = seq[i + 1]
    BY <1>1
  <2> QED BY <1>1, <2>1, <2>2 DEF rowsOf
<1> QED BY <1>1, <1>2

LEMMA RemoveElement ==
    ASSUME NEW S, NEW seq \in Seq(S), NEW i \in DOMAIN seq
    PROVE  /\ RemoveAt(seq, i) \in Seq(S)
           /\ Len(RemoveAt(seq, i)) = Len(seq) - 1
           /\ \A j \in DOMAIN RemoveAt(seq, i) :
                  IF j < i THEN j \in DOMAIN seq /\ RemoveAt(seq, i)[j] = seq[j]
                  ELSE j + 1 \in DOMAIN seq /\ RemoveAt(seq, i)[j] = seq[j + 1]
<1> DEFINE a == SubSeq(seq, 1, i - 1)
           b == SubSeq(seq, i + 1, Len(seq))
<1>1. a \in Seq(S) /\ Len(a) = i - 1 /\ \A j \in 1..(i - 1) : j \in DOMAIN seq /\ a[j] = seq[j]
  OBVIOUS
<1>2. b \in Seq(S) /\ Len(b) = Len(seq) - i
  OBVIOUS
<1>3. \A j \in 1..(Len(seq) - i) : i + j \in DOMAIN seq /\ b[j] = seq[i + j]
  OBVIOUS
<1>4. RemoveAt(seq, i) = a \o b
  BY DEF RemoveAt
<1> HIDE DEF a, b
<1>5. a \o b \in Seq(S) /\ Len(a \o b) = Len(seq) - 1
  BY <1>1, <1>2
<1>6. ASSUME NEW j \in DOMAIN (a \o b)
      PROVE  IF j < i THEN j \in DOMAIN seq /\ (a \o b)[j] = seq[j]
             ELSE j + 1 \in DOMAIN seq /\ (a \o b)[j] = seq[j + 1]
  <2>1. j \in 1..(Len(seq) - 1)
    BY <1>5
  <2>2. CASE j < i
    BY <2>1, <2>2, <1>1, <1>2
  <2>3. CASE ~(j < i)
    <3>1. (a \o b)[j] = b[j - (i - 1)] /\ j - (i - 1) \in 1..(Len(seq) - i)
      BY <2>1, <2>3, <1>1, <1>2
    <3>2. i + (j - (i - 1)) = j + 1
      BY <2>1
    <3> QED BY <2>1, <2>3, <3>1, <3>2, <1>3
  <2> QED BY <2>2, <2>3
<1> QED BY <1>4, <1>5, <1>6

LEMMA DropLastAfterNotice ==
    ASSUME NEW seq \in Seq(Message), seq # <<>>, NEW m \in Message
    PROVE  /\ <<m>> \o Front(seq) \in Seq(Message)
           /\ Head(<<m>> \o Front(seq)) = m /\ <<m>> \o Front(seq) # <<>>
           /\ \A j \in DOMAIN (<<m>> \o Front(seq)) :
                  IF j = 1 THEN (<<m>> \o Front(seq))[j] = m
                  ELSE j - 1 \in DOMAIN seq /\ (<<m>> \o Front(seq))[j] = seq[j - 1]
BY DEF Front

-----------------------------------------------------------------------------
\* Type correctness.

LEMMA NoticeType ==
    ASSUME NEW status \in {"data", "aggregation", "done", "error", "no responders", "slow consumer"}
    PROVE  notice(status) \in Message /\ notice(status).rows = {} /\ notice(status).status = status
BY DEF notice, Message

LEMMA PayloadType ==
    ASSUME NEW s \in Subject, NEW rows \in SUBSET Row
    PROVE  payloads(s, rows) \in SUBSET SUBSET Row /\ UNION payloads(s, rows) = rows
BY DEF payloads

LEMMA HandlerQuery ==
    ASSUME TypeOK, NEW s \in Subject, serving[s] # Idle
    PROVE  serving[s].query \in Query
<1>1. serving[s] \in [query : Query \cup {NoQuery}, rest : SUBSET SUBSET Row]
  BY DEF TypeOK
<1>2. serving[s].query = NoQuery => serving[s].rest = {}
  BY DEF TypeOK
<1>3. serving[s].query = NoQuery => serving[s] = Idle
  BY <1>1, <1>2 DEF Idle
<1> QED BY <1>1, <1>3

LEMMA ReplyType ==
    ASSUME TypeOK, NEW q \in Query, NEW m \in Message, reply(q, m), UNCHANGED phase
    PROVE  /\ inbox' \in [Query -> Seq(Message)]
           /\ \A r \in Query : inbox'[r] # <<>> => waiting(r)'
           /\ \A r \in Query \ {q} : inbox'[r] = inbox[r]
           /\ waiting(q) => inbox'[q] = Append(inbox[q], m)
<1>1. inbox \in [Query -> Seq(Message)] /\ \A r \in Query : inbox[r] # <<>> => waiting(r)
  BY DEF TypeOK
<1>2. \A r \in Query : waiting(r)' = waiting(r)
  BY DEF waiting
<1>3. CASE waiting(q)
  <2>1. inbox' = [inbox EXCEPT ![q] = Append(@, m)]
    BY <1>3 DEF reply
  <2>2. Append(inbox[q], m) \in Seq(Message)
    BY <1>1, AppendMessage
  <2> QED BY <1>1, <1>2, <1>3, <2>1, <2>2
<1>4. CASE ~waiting(q)
  BY <1>1, <1>2, <1>4 DEF reply
<1> QED BY <1>3, <1>4

LEMMA FinishType ==
    ASSUME TypeOK, NEW q \in Query, NEW end \in {"answer", "error"}, NEW rows \in SUBSET Row,
           finish(q, end, rows)
    PROVE  /\ phase' \in [Query -> {"idle", "waiting", "answer", "error"}]
           /\ got' \in [Query -> SUBSET Row]
           /\ inbox' \in [Query -> Seq(Message)]
           /\ \A r \in Query : inbox'[r] # <<>> => waiting(r)'
           /\ phase'[q] = end
           /\ got'[q] = IF end = "error" THEN {} ELSE rows
           /\ \A r \in Query \ {q} :
                  inbox'[r] = inbox[r] /\ got'[r] = got[r] /\ phase'[r] = phase[r]
BY DEF TypeOK, finish, waiting

LEMMA TypeInit == Init => TypeOK
<1> SUFFICES ASSUME Init PROVE TypeOK
  OBVIOUS
<1>1. \A S : <<>> \in Seq(S)
  OBVIOUS
<1>2. Idle \in [query : Query \cup {NoQuery}, rest : SUBSET SUBSET Row] /\ Idle.rest = {}
  BY DEF Idle
<1> QED BY <1>1, <1>2 DEF Init, TypeOK

LEMMA TypeNext == TypeOK /\ [Next]_vars => TypeOK'
<1> SUFFICES ASSUME TypeOK, [Next]_vars PROVE TypeOK'
  OBVIOUS
<1> USE DEF client, server, ghosts
<1>1. CASE Write
  BY <1>1 DEF Write, TypeOK, waiting
<1>2. ASSUME NEW q \in Query, Lose(q) PROVE TypeOK'
  <2>1. ASSUME NEW s \in Subject, NEW i \in DOMAIN queue[s],
               queue' = [queue EXCEPT ![s] = RemoveAt(@, i)], UNCHANGED <<inbox, lost>>
        PROVE  TypeOK'
    <3>1. RemoveAt(queue[s], i) \in Seq(Query)
      BY RemoveElement DEF TypeOK
    <3> QED BY <1>2, <2>1, <3>1 DEF Lose, fault, TypeOK, waiting
  <2>2. ASSUME NEW i \in DOMAIN inbox[q],
               inbox' = [inbox EXCEPT ![q] = RemoveAt(@, i)],
               lost' = lost \cup {q}, UNCHANGED queue
        PROVE  TypeOK'
    <3>1. RemoveAt(inbox[q], i) \in Seq(Message) /\ inbox[q] # <<>>
      BY RemoveElement DEF TypeOK
    <3> QED BY <1>2, <2>2, <3>1 DEF Lose, fault, TypeOK, waiting
  <2> QED BY <1>2, <2>1, <2>2 DEF Lose
<1>3. ASSUME NEW q \in Query, Overflow(q) PROVE TypeOK'
  <2> DEFINE full == <<notice("slow consumer")>> \o Front(inbox[q])
  <2>1. notice("slow consumer") \in Message /\ inbox[q] \in Seq(Message) /\ inbox[q] # <<>>
    BY <1>3, NoticeType DEF Overflow, TypeOK
  <2>2. full \in Seq(Message)
    BY <2>1, DropLastAfterNotice
  <2>3. inbox' = [inbox EXCEPT ![q] = full]
    BY <1>3 DEF Overflow
  <2> HIDE DEF full
  <2>4. /\ UNCHANGED <<data, port, queue, serving, phase, got, snap, lost, hurt, writes>>
        /\ faults' = faults + 1
    BY <1>3 DEF Overflow, fault
  <2>5. /\ inbox' \in [Query -> Seq(Message)]
        /\ \A r \in Query : inbox'[r] # <<>> => waiting(r)'
    BY <2>1, <2>2, <2>3, <2>4 DEF TypeOK, waiting
  <2> QED BY <2>4, <2>5 DEF TypeOK
<1>4. CASE Start
  BY <1>4 DEF Start, TypeOK, waiting
<1>5. CASE Stop
  <2>1. UNION {ToSet(queue[s]) : s \in Subject} \subseteq Query
    BY DEF ToSet, TypeOK
  <2> QED BY <1>5, <2>1 DEF Stop, fault, TypeOK, waiting
<1>6. CASE Exit
  <2>1. Idle \in [query : Query \cup {NoQuery}, rest : SUBSET SUBSET Row] /\ Idle.rest = {}
    BY DEF Idle
  <2>2. {serving[s].query : s \in Subject} \ {NoQuery} \subseteq Query
    BY DEF TypeOK
  <2> QED BY <1>6, <2>1, <2>2 DEF Exit, TypeOK, waiting
<1>7. ASSUME NEW s \in Subject, Begin(s) PROVE TypeOK'
  <2>1. Head(queue[s]) \in Query /\ Tail(queue[s]) \in Seq(Query)
    BY <1>7 DEF Begin, TypeOK
  <2>2. queue' \in [Subject -> Seq(Query)]
    BY <1>7, <2>1 DEF Begin, TypeOK
  <2>3. CASE UNCHANGED <<serving, snap>> /\ reply(Head(queue[s]), notice("error"))
    BY <1>7, <2>1, <2>2, <2>3, NoticeType, ReplyType DEF Begin, TypeOK
  <2>4. CASE /\ UNCHANGED inbox
             /\ serving' = [serving EXCEPT ![s] = [query |-> Head(queue[s]), rest |-> payloads(s, data)]]
             /\ snap' = [snap EXCEPT ![Head(queue[s])] = {data}]
    <3>1. payloads(s, data) \in SUBSET SUBSET Row
      BY PayloadType DEF TypeOK
    <3>2. Head(queue[s]) # NoQuery
      BY <2>1, ProtocolAssumption
    <3> QED BY <1>7, <2>1, <2>2, <2>4, <3>1, <3>2 DEF Begin, TypeOK, waiting
  <2> QED BY <1>7, <2>3, <2>4 DEF Begin
<1>8. ASSUME NEW s \in Subject, SendNext(s) PROVE TypeOK'
  <2>1. PICK p \in serving[s].rest :
            /\ reply(serving[s].query, [status |-> IF kind[s] = "aggregate" THEN "aggregation" ELSE "data",
                                        rows |-> p])
            /\ serving' = [serving EXCEPT ![s].rest = @ \ {p}]
    BY <1>8 DEF SendNext
  <2>2. serving[s].query \in Query /\ p \in SUBSET Row
    BY <2>1, HandlerQuery DEF TypeOK, Idle
  <2>3. [status |-> IF kind[s] = "aggregate" THEN "aggregation" ELSE "data", rows |-> p] \in Message
    BY <2>2 DEF Message
  <2>4. /\ inbox' \in [Query -> Seq(Message)]
        /\ \A r \in Query : inbox'[r] # <<>> => waiting(r)'
    BY <1>8, <2>1, <2>2, <2>3, ReplyType DEF SendNext
  <2>5. /\ serving' \in [Subject -> [query : Query \cup {NoQuery}, rest : SUBSET SUBSET Row]]
        /\ \A t \in Subject : serving'[t].query = NoQuery => serving'[t].rest = {}
    BY <2>1 DEF TypeOK
  <2> QED BY <1>8, <2>4, <2>5 DEF SendNext, TypeOK
<1>9. ASSUME NEW s \in Subject, SendFails(s) PROVE TypeOK'
  <2>1. serving[s].query \in Query
    BY <1>9, HandlerQuery DEF SendFails, TypeOK, Idle
  <2>2. Idle \in [query : Query \cup {NoQuery}, rest : SUBSET SUBSET Row] /\ Idle.rest = {}
    BY DEF Idle
  <2>3. CASE kind[s] = "entity"
    <3>1. notice("error") \in Message /\ reply(serving[s].query, notice("error"))
      BY <1>9, <2>3, NoticeType DEF SendFails
    <3>2. /\ inbox' \in [Query -> Seq(Message)]
          /\ \A r \in Query : inbox'[r] # <<>> => waiting(r)'
      BY <1>9, <2>1, <3>1, ReplyType DEF SendFails
    <3> QED BY <1>9, <2>1, <2>2, <2>3, <3>2 DEF SendFails, fault, TypeOK
  <2>4. CASE kind[s] # "entity"
    BY <1>9, <2>1, <2>2, <2>4 DEF SendFails, fault, TypeOK, waiting
  <2> QED BY <2>3, <2>4
<1>10. ASSUME NEW s \in Subject, SendDone(s) PROVE TypeOK'
  <2>1. serving[s].query \in Query
    BY <1>10, HandlerQuery DEF SendDone
  <2>2. Idle \in [query : Query \cup {NoQuery}, rest : SUBSET SUBSET Row] /\ Idle.rest = {}
    BY DEF Idle
  <2>3. notice("done") \in Message
    BY NoticeType
  <2>4. /\ inbox' \in [Query -> Seq(Message)]
        /\ \A r \in Query : inbox'[r] # <<>> => waiting(r)'
    BY <1>10, <2>1, <2>3, ReplyType DEF SendDone
  <2> QED BY <1>10, <2>2, <2>4 DEF SendDone, TypeOK
<1>11. ASSUME NEW q \in Query, NEW s \in Subject, Ask(q, s) PROVE TypeOK'
  <2>1. Append(queue[s], q) \in Seq(Query)
    BY DEF TypeOK
  <2>2. notice("no responders") \in Message
    BY NoticeType
  <2>3. <<notice("no responders")>> \in Seq(Message)
    BY <2>2, SingleMessage
  <2> QED BY <1>11, <2>1, <2>3 DEF Ask, TypeOK, waiting
<1>12. ASSUME NEW q \in Query, Receive(q) PROVE TypeOK'
  <2>1. PICK timedOut \in BOOLEAN : read(q, timedOut)
    BY <1>12 DEF Receive
  <2>2. Head(inbox[q]) \in Message /\ Tail(inbox[q]) \in Seq(Message) /\ Head(inbox[q]).rows \in SUBSET Row
    BY <1>12, TailMessage DEF Receive, TypeOK, Message
  <2>3. CASE finish(q, "answer", got[q]) \/ finish(q, "answer", Head(inbox[q]).rows) \/ finish(q, "error", {})
    <3>1. got[q] \in SUBSET Row
      BY DEF TypeOK
    <3> QED BY <1>12, <2>2, <2>3, <3>1, FinishType DEF Receive, TypeOK
  <2>4. CASE /\ got' = [got EXCEPT ![q] = @ \cup Head(inbox[q]).rows]
             /\ inbox' = [inbox EXCEPT ![q] = Tail(@)]
             /\ UNCHANGED phase
    BY <1>12, <2>2, <2>4 DEF Receive, TypeOK, waiting
  <2> QED BY <2>1, <2>3, <2>4 DEF read
<1>13. ASSUME NEW q \in Query, GiveUp(q) PROVE TypeOK'
  BY <1>13, FinishType DEF GiveUp, TypeOK
<1>14. CASE UNCHANGED vars
  BY <1>14 DEF vars, TypeOK, waiting
<1> QED BY <1>1, <1>2, <1>3, <1>4, <1>5, <1>6, <1>7, <1>8, <1>9, <1>10, <1>11, <1>12, <1>13, <1>14
        DEF Next, Handle

\* The messages and requests of the protocol are always those of TypeOK.
THEOREM TypeCorrect == Spec => []TypeOK
<1>1. TypeOK /\ [Next]_vars => TypeOK'
  BY TypeNext
<1> QED BY <1>1, TypeInit, PTL DEF Spec

-----------------------------------------------------------------------------
\* A request waits in one place and is taken by one handler, once.

LEMMA ServedOnceInit == Init => ServedOnce
BY DEF Init, ServedOnce, RequestsDistinct, RequestsUnserved, HandlersServe, IdleUnserved

\* No step makes a call idle again.
LEMMA StaysAsked ==
    ASSUME TypeOK, [Next]_vars, NEW q \in Query, phase'[q] = "idle"
    PROVE  phase[q] = "idle"
<1> USE DEF client, server, ghosts
<1>1. ASSUME NEW r \in Query, NEW s \in Subject, Ask(r, s) PROVE phase[q] = "idle"
  BY <1>1 DEF Ask, TypeOK
<1>2. ASSUME NEW r \in Query, Receive(r) PROVE phase[q] = "idle"
  BY <1>2 DEF Receive, read, finish, TypeOK
<1>3. ASSUME NEW r \in Query, GiveUp(r) PROVE phase[q] = "idle"
  BY <1>3 DEF GiveUp, finish, TypeOK
<1>4. CASE UNCHANGED phase
  BY <1>4
<1> QED BY <1>1, <1>2, <1>3, <1>4
        DEF Next, Handle, Write, Lose, Overflow, Start, Stop, Exit, Begin, SendNext, SendFails,
            SendDone, vars

LEMMA ServedOnceNext == TypeOK /\ ServedOnce /\ [Next]_vars => ServedOnce'
<1> SUFFICES ASSUME TypeOK, ServedOnce, [Next]_vars PROVE ServedOnce'
  OBVIOUS
<1> USE DEF client, server, ghosts
<1>0. \A q \in Query : phase'[q] = "idle" => phase[q] = "idle"
  BY StaysAsked
<1>t. \A s \in Subject : \A i \in DOMAIN queue'[s] : i \in Nat \ {0} /\ queue'[s][i] \in Query
  <2>1. TypeOK'
    BY TypeNext
  <2>2. \A s \in Subject : queue'[s] \in Seq(Query)
    BY <2>1 DEF TypeOK
  <2> QED BY <2>2
<1>q. \A s \in Subject : \A i \in DOMAIN queue[s] : i \in Nat \ {0} /\ queue[s][i] \in Query
  BY DEF TypeOK
<1>u. ASSUME UNCHANGED <<queue, serving, snap>> PROVE ServedOnce'
  <2> QED BY <1>u, <1>0, <1>q
          DEF ServedOnce, RequestsDistinct, RequestsUnserved, HandlersServe, IdleUnserved
<1>1. ASSUME NEW q \in Query, Lose(q) PROVE ServedOnce'
  <2>1. ASSUME NEW s \in Subject, NEW i \in DOMAIN queue[s],
               queue' = [queue EXCEPT ![s] = RemoveAt(@, i)]
        PROVE  ServedOnce'
    <3>1. queue[s] \in Seq(Query)
      BY DEF TypeOK
    <3>2. \A j \in DOMAIN queue'[s] :
              IF j < i THEN j \in DOMAIN queue[s] /\ queue'[s][j] = queue[s][j]
              ELSE j + 1 \in DOMAIN queue[s] /\ queue'[s][j] = queue[s][j + 1]
      BY <2>1, <3>1, RemoveElement DEF TypeOK
    <3>3. \A t \in Subject \ {s} : queue'[t] = queue[t]
      BY <2>1 DEF TypeOK
    <3>4. UNCHANGED <<serving, snap, phase>>
      BY <1>1 DEF Lose
    <3>5. \A t \in Subject : \A j \in DOMAIN queue'[t] : j \in Nat
      BY <1>t
    <3>6. i \in Nat
      BY <3>1
    <3>7. RequestsDistinct'
      BY <3>2, <3>3, <3>5, <3>6 DEF ServedOnce, RequestsDistinct
    <3>8. RequestsUnserved'
      BY <3>2, <3>3, <3>4 DEF ServedOnce, RequestsUnserved
    <3> QED BY <3>4, <3>7, <3>8 DEF ServedOnce, HandlersServe, IdleUnserved
  <2>2. CASE UNCHANGED queue
    BY <1>1, <1>u, <2>2 DEF Lose
  <2> QED BY <1>1, <2>1, <2>2 DEF Lose
<1>2. CASE Stop
  BY <1>2 DEF Stop, ServedOnce, RequestsDistinct, RequestsUnserved, HandlersServe, IdleUnserved
<1>3. CASE Exit
  BY <1>3 DEF Exit, ServedOnce, RequestsDistinct, RequestsUnserved, HandlersServe, IdleUnserved
<1>4. ASSUME NEW s \in Subject, Begin(s) PROVE ServedOnce'
  <2> DEFINE q == Head(queue[s])
  <2>1. queue[s] \in Seq(Query) /\ queue[s] # <<>> /\ serving[s] = Idle
    BY <1>4 DEF Begin, TypeOK
  <2>2. q \in Query /\ q = queue[s][1] /\ 1 \in DOMAIN queue[s]
    BY <2>1
  <2>3. /\ \A t \in Subject \ {s} : queue'[t] = queue[t]
        /\ \A j \in DOMAIN queue'[s] : j \in Nat /\ j + 1 \in DOMAIN queue[s] /\ queue'[s][j] = queue[s][j + 1]
    BY <1>4, <2>1 DEF Begin, TypeOK
  <2>4. UNCHANGED phase /\ phase[q] # "idle" /\ snap[q] = {}
    BY <1>4, <2>2 DEF Begin, ServedOnce, RequestsUnserved
  <2>5. \A t \in Subject : \A j \in DOMAIN queue'[t] : queue'[t][j] # q
    <3>1. \A t \in Subject : \A j \in DOMAIN queue[t] : queue[t][j] = queue[s][1] => t = s /\ j = 1
      BY <2>2 DEF ServedOnce, RequestsDistinct
    <3>2. \A j \in DOMAIN queue'[s] : queue'[s][j] # q
      <4> SUFFICES ASSUME NEW j \in DOMAIN queue'[s], queue'[s][j] = q PROVE FALSE
        OBVIOUS
      <4>1. j \in Nat \ {0} /\ j + 1 \in DOMAIN queue[s] /\ queue[s][j + 1] = queue[s][1]
        BY <1>t, <2>2, <2>3
      <4>2. j + 1 = 1
        BY <3>1, <4>1
      <4> QED BY <4>1, <4>2
    <3>3. \A t \in Subject \ {s} : \A j \in DOMAIN queue'[t] : queue'[t][j] # q
      BY <2>2, <2>3, <3>1
    <3> QED BY <3>2, <3>3
  <2>6. RequestsDistinct'
    BY <2>3 DEF ServedOnce, RequestsDistinct
  <2>7. \A r \in Query \ {q} : snap'[r] = snap[r]
    BY <1>4, <2>2 DEF Begin, TypeOK
  <2>8. \A t \in Subject : \A j \in DOMAIN queue'[t] : queue'[t][j] \in Query
    BY <1>t
  <2>9. RequestsUnserved'
    BY <2>3, <2>4, <2>5, <2>7, <2>8 DEF ServedOnce, RequestsUnserved
  <2>10. IdleUnserved'
    BY <2>4, <2>7 DEF ServedOnce, IdleUnserved
  <2>11. HandlersServe'
    <3>1. CASE UNCHANGED <<serving, snap>>
      BY <3>1 DEF ServedOnce, HandlersServe
    <3>2. CASE /\ serving' = [serving EXCEPT ![s] = [query |-> q, rest |-> payloads(s, data)]]
               /\ snap' = [snap EXCEPT ![q] = {data}]
      <4>1. \A t \in Subject \ {s} : serving'[t] = serving[t] /\ serving[t].query # q
        <5>1. ASSUME NEW t \in Subject \ {s}, serving[t].query = q PROVE FALSE
          <6>1. serving[t] # Idle
            BY <2>2, <5>1, ProtocolAssumption DEF Idle
          <6> QED BY <2>4, <5>1, <6>1 DEF ServedOnce, HandlersServe
        <5> QED BY <3>2, <5>1 DEF TypeOK
      <4>2. serving'[s].query = q /\ snap'[q] # {}
        BY <2>2, <3>2 DEF TypeOK
      <4>3. \A t \in Subject \ {s} : serving[t] # Idle => snap'[serving[t].query] = snap[serving[t].query]
        BY <2>7, <4>1, HandlerQuery
      <4> QED BY <4>1, <4>2, <4>3 DEF ServedOnce, HandlersServe
    <3> QED BY <1>4, <3>1, <3>2 DEF Begin
  <2> QED BY <2>6, <2>9, <2>10, <2>11 DEF ServedOnce
<1>5. ASSUME NEW s \in Subject, UNCHANGED <<queue, snap, phase>>, serving[s] # Idle,
             \/ serving' = [serving EXCEPT ![s] = Idle]
             \/ \E p \in serving[s].rest : serving' = [serving EXCEPT ![s].rest = @ \ {p}]
      PROVE  ServedOnce'
  <2>1. RequestsDistinct' /\ RequestsUnserved' /\ IdleUnserved'
    BY <1>5 DEF ServedOnce, RequestsDistinct, RequestsUnserved, IdleUnserved
  <2>2. /\ \A t \in Subject \ {s} : serving'[t] = serving[t]
        /\ serving'[s] = Idle \/ serving'[s].query = serving[s].query
    BY <1>5 DEF TypeOK
  <2>3. \A t \in Subject : serving[t] # Idle => serving[t].query # NoQuery
    BY HandlerQuery, ProtocolAssumption
  <2>4. HandlersServe'
    <3> SUFFICES ASSUME NEW t \in Subject, serving'[t] # Idle
                 PROVE  /\ snap'[serving'[t].query] # {}
                        /\ \A u \in Subject : serving'[u].query = serving'[t].query => u = t
      BY DEF HandlersServe
    <3>1. serving[t] # Idle /\ serving'[t].query = serving[t].query
      BY <1>5, <2>2
    <3>2. Idle.query = NoQuery
      BY DEF Idle
    <3>3. ASSUME NEW u \in Subject, serving'[u].query = serving'[t].query PROVE u = t
      <4>1. serving[u].query = serving[t].query
        BY <2>2, <2>3, <3>1, <3>2, <3>3
      <4> QED BY <3>1, <4>1 DEF ServedOnce, HandlersServe
    <3> QED BY <1>5, <3>1, <3>3 DEF ServedOnce, HandlersServe
  <2> QED BY <2>1, <2>4 DEF ServedOnce
<1>6. ASSUME NEW s \in Subject, SendNext(s) \/ SendFails(s) \/ SendDone(s) PROVE ServedOnce'
  <2>1. serving[s] # Idle
    <3>1. Idle.rest = {}
      BY DEF Idle
    <3> QED BY <1>6, <3>1 DEF SendNext, SendFails, SendDone
  <2> QED BY <1>5, <1>6, <2>1 DEF SendNext, SendFails, SendDone
<1>7. ASSUME NEW q \in Query, NEW s \in Subject, Ask(q, s) PROVE ServedOnce'
  <2>1. /\ \A t \in Subject \ {s} : queue'[t] = queue[t]
        /\ \A i \in DOMAIN queue'[s] :
               \/ i \in DOMAIN queue[s] /\ queue'[s][i] = queue[s][i]
               \/ i = Len(queue[s]) + 1 /\ queue'[s][i] = q
    <3>1. queue[s] \in Seq(Query)
      BY DEF TypeOK
    <3>2. \A i \in DOMAIN Append(queue[s], q) :
              \/ i \in DOMAIN queue[s] /\ Append(queue[s], q)[i] = queue[s][i]
              \/ i = Len(queue[s]) + 1 /\ Append(queue[s], q)[i] = q
      BY <3>1
    <3>3. queue' = [queue EXCEPT ![s] = Append(@, q)] \/ queue' = queue
      BY <1>7 DEF Ask
    <3> QED BY <3>2, <3>3 DEF TypeOK
  <2>2. \A t \in Subject : \A i \in DOMAIN queue[t] : queue[t][i] # q /\ queue[t][i] \in Query
    <3>1. phase[q] = "idle"
      BY <1>7 DEF Ask
    <3>2. \A t \in Subject : \A i \in DOMAIN queue[t] : phase[queue[t][i]] # "idle"
      BY DEF ServedOnce, RequestsUnserved
    <3> QED BY <1>q, <3>1, <3>2
  <2>3. UNCHANGED <<serving, snap>> /\ phase'[q] # "idle" /\ snap[q] = {}
    BY <1>7 DEF Ask, TypeOK, ServedOnce, IdleUnserved
  <2>4. RequestsDistinct'
    BY <2>1, <2>2 DEF ServedOnce, RequestsDistinct
  <2>5. RequestsUnserved'
    <3> SUFFICES ASSUME NEW t \in Subject, NEW i \in DOMAIN queue'[t]
                 PROVE  phase'[queue'[t][i]] # "idle" /\ snap'[queue'[t][i]] = {}
      BY DEF RequestsUnserved
    <3>1. CASE queue'[t][i] = q
      BY <2>3, <3>1
    <3>2. CASE queue'[t][i] # q
      <4>1. i \in DOMAIN queue[t] /\ queue'[t][i] = queue[t][i]
        BY <2>1, <3>2
      <4> QED BY <1>0, <1>q, <2>3, <4>1 DEF ServedOnce, RequestsUnserved
    <3> QED BY <3>1, <3>2
  <2> QED BY <1>0, <2>3, <2>4, <2>5 DEF ServedOnce, HandlersServe, IdleUnserved
<1>8. CASE UNCHANGED <<queue, serving, snap>>
  BY <1>8, <1>u
<1> QED BY <1>1, <1>2, <1>3, <1>4, <1>6, <1>7, <1>8
        DEF Next, Handle, Write, Overflow, Start, Receive, GiveUp, vars

\* No call is served twice and no request is taken by two handlers.
THEOREM RequestsServedOnce == Spec => []ServedOnce
<1>1. TypeOK /\ ServedOnce /\ [Next]_vars => (TypeOK /\ ServedOnce)'
  BY TypeNext, ServedOnceNext
<1>2. Init => TypeOK /\ ServedOnce
  BY TypeInit, ServedOnceInit
<1> QED BY <1>1, <1>2, PTL DEF Spec

-----------------------------------------------------------------------------
\* A terminator ends an answer.

\* Nobody is answering the query, or is going to.
over(q) ==
    \A s \in Subject : /\ serving[s].query # q
                       /\ \A k \in DOMAIN queue[s] : queue[s][k] # q

\* What has been asked and is over stays so: a handler takes its queries from a
\* queue, and a call is queued once.
LEMMA OverStays ==
    ASSUME TypeOK, [Next]_vars, NEW q \in Query, phase[q] # "idle", over(q)
    PROVE  over(q)'
<1> USE DEF client, server, ghosts
<1>1. Idle.query = NoQuery /\ NoQuery # q
  BY ProtocolAssumption DEF Idle
<1>2. CASE UNCHANGED <<queue, serving>>
  BY <1>2 DEF over
<1>3. ASSUME NEW s \in Subject, NEW i \in DOMAIN queue[s],
             queue' = [queue EXCEPT ![s] = RemoveAt(@, i)], UNCHANGED serving
      PROVE  over(q)'
  <2>1. queue[s] \in Seq(Query)
    BY DEF TypeOK
  <2>2. \A j \in DOMAIN queue'[s] : \E k \in DOMAIN queue[s] : queue'[s][j] = queue[s][k]
    BY <1>3, <2>1, RemoveElement DEF TypeOK
  <2>3. \A t \in Subject \ {s} : queue'[t] = queue[t]
    BY <1>3 DEF TypeOK
  <2> QED BY <1>3, <2>2, <2>3 DEF over
<1>4. CASE Stop \/ Exit
  BY <1>1, <1>4 DEF Stop, Exit, over
<1>5. ASSUME NEW s \in Subject, Begin(s) PROVE over(q)'
  <2>1. queue[s] \in Seq(Query) /\ queue[s] # <<>>
    BY <1>5 DEF Begin, TypeOK
  <2>2. Head(queue[s]) # q
    BY <2>1 DEF over
  <2>3. \A j \in DOMAIN queue'[s] : \E k \in DOMAIN queue[s] : queue'[s][j] = queue[s][k]
    <3>1. queue'[s] = Tail(queue[s])
      BY <1>5 DEF Begin, TypeOK
    <3>2. \A j \in DOMAIN Tail(queue[s]) : j + 1 \in DOMAIN queue[s] /\ Tail(queue[s])[j] = queue[s][j + 1]
      BY <2>1
    <3> QED BY <3>1, <3>2
  <2>4. \A t \in Subject \ {s} : queue'[t] = queue[t]
    BY <1>5 DEF Begin, TypeOK
  <2>5. \A t \in Subject : serving'[t].query # q
    <3>1. CASE UNCHANGED serving
      BY <3>1 DEF over
    <3>2. CASE serving' = [serving EXCEPT ![s] = [query |-> Head(queue[s]), rest |-> payloads(s, data)]]
      BY <2>2, <3>2 DEF TypeOK, over
    <3> QED BY <1>5, <3>1, <3>2 DEF Begin
  <2> QED BY <2>3, <2>4, <2>5 DEF over
<1>6. ASSUME NEW s \in Subject, SendNext(s) \/ SendDone(s) \/ SendFails(s) PROVE over(q)'
  <2>1. UNCHANGED queue
    BY <1>6 DEF SendNext, SendDone, SendFails
  <2>2. \A t \in Subject : serving'[t].query \in {serving[t].query, NoQuery}
    <3>1. CASE serving' = [serving EXCEPT ![s] = Idle]
      BY <1>1, <3>1 DEF TypeOK
    <3>2. CASE \E x \in serving[s].rest : serving' = [serving EXCEPT ![s].rest = @ \ {x}]
      BY <3>2 DEF TypeOK
    <3> QED BY <1>6, <3>1, <3>2 DEF SendNext, SendDone, SendFails
  <2> QED BY <1>1, <2>1, <2>2 DEF over
<1>7. ASSUME NEW r \in Query, NEW s \in Subject, Ask(r, s) PROVE over(q)'
  <2>1. r # q /\ UNCHANGED serving
    BY <1>7 DEF Ask
  <2>2. queue[s] \in Seq(Query)
    BY DEF TypeOK
  <2>3. \A i \in DOMAIN Append(queue[s], r) :
            \/ i \in DOMAIN queue[s] /\ Append(queue[s], r)[i] = queue[s][i]
            \/ Append(queue[s], r)[i] = r
    BY <2>2
  <2>4. queue' = [queue EXCEPT ![s] = Append(@, r)] \/ queue' = queue
    BY <1>7 DEF Ask
  <2> QED BY <2>1, <2>3, <2>4 DEF over, TypeOK
<1>8. ASSUME NEW r \in Query, Lose(r) PROVE over(q)'
  BY <1>2, <1>3, <1>8 DEF Lose
<1> QED BY <1>2, <1>4, <1>5, <1>6, <1>7, <1>8
        DEF Next, Handle, Write, Start, Overflow, Receive, GiveUp, vars

\* A query that is being served is not over; what its handler answers last is.
LEMMA LastOfHandler ==
    ASSUME TypeOK, ServedOnce, NEW s \in Subject, serving[s] # Idle, NEW q, q = serving[s].query,
           UNCHANGED queue, serving' = [serving EXCEPT ![s] = Idle]
    PROVE  over(q)'
<1>1. q \in Query /\ snap[q] # {}
  BY HandlerQuery DEF ServedOnce, HandlersServe
<1>2. Idle.query # q
  BY <1>1, ProtocolAssumption DEF Idle
<1>3. \A t \in Subject : \A k \in DOMAIN queue[t] : queue[t][k] # q
  BY <1>1 DEF ServedOnce, RequestsUnserved
<1>4. \A t \in Subject \ {s} : serving[t].query # q
  BY DEF ServedOnce, HandlersServe
<1>5. \A t \in Subject : serving'[t].query # q
  BY <1>2, <1>4 DEF TypeOK
<1> QED BY <1>3, <1>5 DEF over

\* So is a query that is refused as it is taken from its queue.
LEMMA LastOfQueue ==
    ASSUME TypeOK, ServedOnce, NEW s \in Subject, queue[s] # <<>>, NEW q, q = Head(queue[s]),
           UNCHANGED serving, queue' = [queue EXCEPT ![s] = Tail(@)]
    PROVE  over(q)'
<1>1. queue[s] \in Seq(Query)
  BY DEF TypeOK
<1>2. q \in Query /\ q = queue[s][1] /\ 1 \in DOMAIN queue[s]
  BY <1>1
<1>3. \A t \in Subject : \A j \in DOMAIN queue[t] : queue[t][j] = queue[s][1] => t = s /\ j = 1
  BY <1>2 DEF ServedOnce, RequestsDistinct
<1>4. \A j \in DOMAIN Tail(queue[s]) :
          j \in Nat \ {0} /\ j + 1 \in DOMAIN queue[s] /\ Tail(queue[s])[j] = queue[s][j + 1]
  BY <1>1
<1>5. \A j \in DOMAIN Tail(queue[s]) : Tail(queue[s])[j] # q
  <2> SUFFICES ASSUME NEW j \in DOMAIN Tail(queue[s]), Tail(queue[s])[j] = q PROVE FALSE
    OBVIOUS
  <2>1. j \in Nat \ {0} /\ j + 1 = 1
    BY <1>2, <1>3, <1>4
  <2> QED BY <2>1
<1>6. \A t \in Subject : serving[t].query # q
  <2>1. snap[q] = {}
    BY <1>2 DEF ServedOnce, RequestsUnserved
  <2>2. ASSUME NEW t \in Subject, serving[t].query = q PROVE FALSE
    <3>1. serving[t] # Idle
      BY <1>2, <2>2, ProtocolAssumption DEF Idle
    <3> QED BY <2>1, <2>2, <3>1 DEF ServedOnce, HandlersServe
  <2> QED BY <2>2
<1>7. queue'[s] = Tail(queue[s]) /\ \A t \in Subject \ {s} : queue'[t] = queue[t]
  BY DEF TypeOK
<1>8. \A t \in Subject : \A k \in DOMAIN queue'[t] : queue'[t][k] # q
  BY <1>2, <1>3, <1>5, <1>7
<1> QED BY <1>6, <1>8 DEF over

\* A call that has not asked yet is over, in a sense.
LEMMA IdleIsOver ==
    ASSUME TypeOK, ServedOnce, NEW q \in Query, phase[q] = "idle"
    PROVE  over(q)
<1>1. snap[q] = {}
  BY DEF ServedOnce, IdleUnserved
<1>2. ASSUME NEW s \in Subject, serving[s].query = q PROVE FALSE
  <2>1. serving[s] # Idle
    BY <1>2, ProtocolAssumption DEF Idle
  <2> QED BY <1>1, <1>2, <2>1 DEF ServedOnce, HandlersServe
<1>3. \A s \in Subject : \A k \in DOMAIN queue[s] : queue[s][k] # q
  BY DEF ServedOnce, RequestsUnserved
<1> QED BY <1>2, <1>3 DEF over

\* The answer of one query, with its terminator at the end.
endsOnce(q) ==
    \A i \in DOMAIN inbox[q] : inbox[q][i].status \in terminators => i = Len(inbox[q]) /\ over(q)

\* A reply to a query that is not over.
LEMMA ReplyEnds ==
    ASSUME TypeOK, NEW q \in Query, NEW m \in Message, ~over(q), endsOnce(q),
           reply(q, m), UNCHANGED phase, m.status \in terminators => over(q)'
    PROVE  endsOnce(q)'
<1>1. \A i \in DOMAIN inbox[q] : inbox[q][i].status \notin terminators
  BY DEF endsOnce
<1>2. inbox[q] \in Seq(Message)
  BY DEF TypeOK
<1>3. CASE waiting(q)
  <2>1. inbox'[q] = Append(inbox[q], m)
    BY <1>3, ReplyType
  <2> QED BY <1>1, <1>2, <2>1, AppendMessage DEF endsOnce
<1>4. CASE ~waiting(q)
  BY <1>1, <1>4 DEF reply, endsOnce
<1> QED BY <1>3, <1>4

\* Messages are taken out of an inbox, or the last is dropped, and what is left ends
\* with a terminator if anything in it does.
terminatorLast(seq) == \A i \in DOMAIN seq : seq[i].status \in terminators => i = Len(seq)

LEMMA RemovedLast ==
    ASSUME NEW seq \in Seq(Message), terminatorLast(seq), NEW k \in DOMAIN seq, NEW next \in Seq(Message),
           Len(next) = Len(seq) - 1,
           \A j \in DOMAIN next : IF j < k THEN j \in DOMAIN seq /\ next[j] = seq[j]
                                  ELSE j + 1 \in DOMAIN seq /\ next[j] = seq[j + 1]
    PROVE  \A j \in DOMAIN next : next[j].status \in terminators =>
               j = Len(next) /\ \E i \in DOMAIN seq : seq[i].status \in terminators
<1> SUFFICES ASSUME NEW j \in DOMAIN next, next[j].status \in terminators
             PROVE  j = Len(next) /\ \E i \in DOMAIN seq : seq[i].status \in terminators
  OBVIOUS
<1>1. j \in Nat /\ j <= Len(next) /\ Len(seq) \in Nat /\ Len(next) = Len(seq) - 1
  OBVIOUS
<1>2. CASE j < k
  <2>1. j \in DOMAIN seq /\ seq[j].status \in terminators
    BY <1>2
  <2>2. j = Len(seq)
    BY <2>1 DEF terminatorLast
  <2> QED BY <1>1, <2>2
<1>3. CASE ~(j < k)
  <2>1. j + 1 \in DOMAIN seq /\ seq[j + 1].status \in terminators
    BY <1>3
  <2>2. j + 1 = Len(seq)
    BY <2>1 DEF terminatorLast
  <2>3. j = Len(next)
    BY <1>1, <2>2
  <2> QED BY <2>1, <2>3
<1> QED BY <1>2, <1>3

LEMMA Indices ==
    ASSUME NEW S, NEW seq \in Seq(S)
    PROVE  /\ \A i \in DOMAIN seq : i \in Nat /\ ~(i < 1)
           /\ seq # <<>> => Len(seq) \in DOMAIN seq
OBVIOUS

LEMMA FirstElements ==
    ASSUME NEW S, NEW seq \in Seq(S), NEW i \in DOMAIN seq
    PROVE  SubSeq(seq, 1, i - 1) \in Seq(S) /\ Len(SubSeq(seq, 1, i - 1)) = i - 1
OBVIOUS

LEMMA DroppedLast ==
    ASSUME NEW seq \in Seq(Message), seq # <<>>, terminatorLast(seq),
           NEW m \in Message, m.status \notin terminators
    PROVE  \A j \in DOMAIN (<<m>> \o Front(seq)) : (<<m>> \o Front(seq))[j].status \notin terminators
<1> DEFINE next == <<m>> \o Front(seq)
<1>1. Len(seq) \in Nat \ {0} /\ Front(seq) \in Seq(Message) /\ Len(Front(seq)) = Len(seq) - 1
  <2>1. Len(seq) \in Nat \ {0}
    OBVIOUS
  <2>2. Front(seq) = SubSeq(seq, 1, Len(seq) - 1)
    BY DEF Front
  <2>3. SubSeq(seq, 1, Len(seq) - 1) \in Seq(Message) /\ Len(SubSeq(seq, 1, Len(seq) - 1)) = Len(seq) - 1
    BY <2>1, FirstElements, Indices
  <2> QED BY <2>1, <2>2, <2>3
<1>2. next \in Seq(Message) /\ Len(next) = Len(seq)
  BY <1>1
<1>3. \A j \in DOMAIN next : IF j = 1 THEN next[j] = m
                             ELSE j - 1 \in DOMAIN seq /\ next[j] = seq[j - 1]
  BY DropLastAfterNotice
<1> HIDE DEF next
<1>4. ASSUME NEW j \in DOMAIN next, next[j].status \in terminators PROVE FALSE
  <2>1. j \in Nat /\ j <= Len(seq)
    BY <1>1, <1>2
  <2>2. j # 1
    BY <1>3, <1>4
  <2>3. j - 1 \in DOMAIN seq /\ seq[j - 1].status \in terminators
    BY <1>3, <1>4, <2>2
  <2>4. j - 1 = Len(seq)
    BY <2>3 DEF terminatorLast
  <2> QED BY <1>1, <2>1, <2>4
<1> QED BY <1>4 DEF next

LEMMA TakenEnds ==
    ASSUME TypeOK, NEW q \in Query, endsOnce(q), inbox[q] # <<>>, over(q) => over(q)',
           \/ inbox'[q] = Tail(inbox[q])
           \/ \E i \in DOMAIN inbox[q] : inbox'[q] = RemoveAt(inbox[q], i)
           \/ inbox'[q] = <<notice("slow consumer")>> \o Front(inbox[q])
    PROVE  endsOnce(q)'
<1>1. inbox[q] \in Seq(Message) /\ terminatorLast(inbox[q])
  BY DEF TypeOK, endsOnce, terminatorLast
<1>2. SUFFICES ASSUME NEW j \in DOMAIN inbox'[q], inbox'[q][j].status \in terminators
               PROVE  j = Len(inbox'[q]) /\ \E i \in DOMAIN inbox[q] : inbox[q][i].status \in terminators
  BY DEF endsOnce
<1>3. CASE inbox'[q] = Tail(inbox[q])
  <2>1. /\ 1 \in DOMAIN inbox[q] /\ inbox'[q] \in Seq(Message)
        /\ Len(inbox'[q]) = Len(inbox[q]) - 1
        /\ \A i \in DOMAIN inbox'[q] : i + 1 \in DOMAIN inbox[q] /\ inbox'[q][i] = inbox[q][i + 1]
    BY <1>1, <1>3, TailMessage
  <2>2. \A i \in DOMAIN inbox'[q] : ~(i < 1)
    <3>1. inbox'[q] \in Seq(Message)
      BY <2>1
    <3> QED BY <3>1, Indices
  <2> QED BY <1>1, <1>2, <2>1, <2>2, RemovedLast
<1>4. ASSUME NEW i \in DOMAIN inbox[q], inbox'[q] = RemoveAt(inbox[q], i)
      PROVE  j = Len(inbox'[q]) /\ \E k \in DOMAIN inbox[q] : inbox[q][k].status \in terminators
  <2>1. /\ inbox'[q] \in Seq(Message)
        /\ Len(inbox'[q]) = Len(inbox[q]) - 1
        /\ \A k \in DOMAIN inbox'[q] :
               IF k < i THEN k \in DOMAIN inbox[q] /\ inbox'[q][k] = inbox[q][k]
               ELSE k + 1 \in DOMAIN inbox[q] /\ inbox'[q][k] = inbox[q][k + 1]
    BY <1>1, <1>4, RemoveElement
  <2> QED BY <1>1, <1>2, <2>1, RemovedLast
<1>5. CASE inbox'[q] = <<notice("slow consumer")>> \o Front(inbox[q])
  <2>1. notice("slow consumer") \in Message /\ notice("slow consumer").status \notin terminators
    BY NoticeType DEF terminators
  <2> QED BY <1>1, <1>2, <1>5, <2>1, DroppedLast
<1> QED BY <1>3, <1>4, <1>5

LEMMA AnswersEndOnceNext == TypeOK /\ ServedOnce /\ AnswersEndOnce /\ [Next]_vars => AnswersEndOnce'
<1> SUFFICES ASSUME TypeOK, ServedOnce, AnswersEndOnce, [Next]_vars, NEW q \in Query
             PROVE  endsOnce(q)'
  BY DEF AnswersEndOnce, endsOnce, over
<1> USE DEF client, server, ghosts
<1>1. endsOnce(q)
  BY DEF AnswersEndOnce, endsOnce, over
<1>2. inbox[q] # <<>> => phase[q] = "waiting"
  BY DEF TypeOK, waiting
<1>3. inbox[q] # <<>> /\ over(q) => over(q)'
  BY <1>2, OverStays
<1>4. CASE inbox'[q] = inbox[q]
  <2>1. inbox[q] = <<>> => DOMAIN inbox'[q] = {}
    BY <1>4
  <2> QED BY <1>1, <1>3, <1>4, <2>1 DEF endsOnce
<1>5. CASE inbox'[q] = <<>>
  BY <1>5 DEF endsOnce
<1>6. ASSUME NEW s \in Subject, SendNext(s) \/ SendDone(s) \/ SendFails(s) PROVE endsOnce(q)'
  <2>1. serving[s] # Idle
    <3>1. Idle.rest = {}
      BY DEF Idle
    <3> QED BY <1>6, <3>1 DEF SendNext, SendFails, SendDone
  <2>6. PICK p \in Query : p = serving[s].query
    BY <2>1, HandlerQuery
  <2>2. ~over(p) /\ UNCHANGED <<queue, phase>>
    BY <1>6, <2>6 DEF over, SendNext, SendDone, SendFails
  <2>3. ASSUME NEW m \in Message, reply(p, m), m.status \in terminators => over(p)'
        PROVE  endsOnce(q)'
    <3>1. CASE p = q
      BY <1>1, <2>2, <2>3, <3>1, ReplyEnds
    <3>2. CASE p # q
      BY <1>4, <2>3, <3>2 DEF reply, TypeOK
    <3> QED BY <3>1, <3>2
  <2>4. CASE SendNext(s)
    <3>1. PICK x \in serving[s].rest :
              reply(p, [status |-> IF kind[s] = "aggregate" THEN "aggregation" ELSE "data", rows |-> x])
      BY <2>4, <2>6 DEF SendNext
    <3>2. [status |-> IF kind[s] = "aggregate" THEN "aggregation" ELSE "data", rows |-> x] \in Message
      BY DEF TypeOK, Message
    <3> QED BY <2>3, <3>1, <3>2 DEF terminators
  <2>5. CASE SendDone(s) \/ SendFails(s)
    <3>1. over(p)'
      BY <2>1, <2>2, <2>5, <2>6, LastOfHandler DEF SendDone, SendFails
    <3>2. notice("done") \in Message /\ notice("error") \in Message
      BY NoticeType
    <3>3. CASE SendDone(s)
      BY <2>3, <2>6, <3>1, <3>2, <3>3 DEF SendDone
    <3>4. CASE SendFails(s) /\ UNCHANGED inbox
      BY <1>4, <3>4
    <3>5. CASE SendFails(s) /\ reply(p, notice("error"))
      BY <2>3, <3>1, <3>2, <3>5
    <3> QED BY <2>5, <2>6, <3>3, <3>4, <3>5 DEF SendFails
  <2> QED BY <1>6, <2>4, <2>5
<1>7. ASSUME NEW s \in Subject, Begin(s) PROVE endsOnce(q)'
  <2>1. queue[s] \in Seq(Query) /\ queue[s] # <<>> /\ queue' = [queue EXCEPT ![s] = Tail(@)]
    BY <1>7 DEF Begin, TypeOK
  <2>4. PICK p \in Query : p = Head(queue[s]) /\ 1 \in DOMAIN queue[s] /\ p = queue[s][1]
    BY <2>1
  <2>2. ~over(p) /\ UNCHANGED phase
    BY <1>7, <2>4 DEF over, Begin
  <2>3. CASE reply(p, notice("error")) /\ UNCHANGED serving
    <3>1. over(p)'
      BY <2>1, <2>3, <2>4, LastOfQueue
    <3>2. notice("error") \in Message
      BY NoticeType
    <3>3. CASE p = q
      BY <1>1, <2>2, <2>3, <3>1, <3>2, <3>3, ReplyEnds
    <3>4. CASE p # q
      BY <1>4, <2>3, <3>4 DEF reply, TypeOK
    <3> QED BY <3>3, <3>4
  <2> QED BY <1>4, <1>7, <2>3, <2>4 DEF Begin
<1>8. ASSUME NEW r \in Query, NEW s \in Subject, Ask(r, s) PROVE endsOnce(q)'
  <2>1. CASE r = q /\ inbox' = [inbox EXCEPT ![r] = <<notice("no responders")>>]
    <3>1. inbox'[q] = <<notice("no responders")>>
      BY <2>1 DEF TypeOK
    <3>2. Len(inbox'[q]) = 1 /\ \A i \in DOMAIN inbox'[q] : i = 1
      <4>1. \A m : Len(<<m>>) = 1 /\ \A i \in DOMAIN <<m>> : i = 1
        OBVIOUS
      <4> QED BY <3>1, <4>1
    <3>3. phase[q] = "idle" /\ UNCHANGED serving
      BY <1>8, <2>1 DEF Ask
    <3>4. over(q)
      BY <3>3, IdleIsOver
    <3>5. CASE UNCHANGED queue
      BY <3>2, <3>3, <3>4, <3>5 DEF endsOnce, over
    <3>6. CASE UNCHANGED inbox
      BY <1>4, <3>6
    <3> QED BY <1>8, <3>5, <3>6 DEF Ask
  <2> QED BY <1>4, <1>8, <2>1 DEF Ask, TypeOK
<1>9. ASSUME NEW r \in Query, Receive(r) \/ GiveUp(r) PROVE endsOnce(q)'
  <2>1. CASE r # q
    BY <1>4, <1>9, <2>1 DEF Receive, GiveUp, read, finish, TypeOK
  <2>2. CASE r = q /\ \E end, rows : finish(q, end, rows)
    BY <1>5, <2>2 DEF finish, TypeOK
  <2>3. CASE r = q /\ inbox' = [inbox EXCEPT ![q] = Tail(@)] /\ inbox[q] # <<>>
    BY <1>1, <1>3, <2>3, TakenEnds DEF TypeOK
  <2> QED BY <1>9, <2>1, <2>2, <2>3 DEF Receive, GiveUp, read
<1>10. ASSUME NEW r \in Query, Lose(r) \/ Overflow(r) PROVE endsOnce(q)'
  <2>1. CASE r # q
    BY <1>4, <1>10, <2>1 DEF Lose, Overflow, TypeOK
  <2>2. ASSUME r = q, NEW i \in DOMAIN inbox[q], inbox' = [inbox EXCEPT ![q] = RemoveAt(@, i)]
        PROVE  endsOnce(q)'
    <3>1. inbox[q] # <<>>
      BY <2>2
    <3> QED BY <1>1, <1>3, <2>2, <3>1, TakenEnds DEF TypeOK
  <2>3. CASE r = q /\ Overflow(q)
    BY <1>1, <1>3, <2>3, TakenEnds DEF Overflow, TypeOK
  <2> QED BY <1>4, <1>10, <2>1, <2>2, <2>3 DEF Lose
<1> QED BY <1>4, <1>6, <1>7, <1>8, <1>9, <1>10
        DEF Next, Handle, Write, Start, Stop, Exit, vars

\* An answer has one terminator, at its end, and after it nobody answers the query.
THEOREM OneTerminator == Spec => []AnswersEndOnce
<1>1. Init => AnswersEndOnce
  BY DEF Init, AnswersEndOnce
<1> QED BY <1>1, AnswersEndOnceNext, TypeCorrect, RequestsServedOnce, PTL DEF Spec

-----------------------------------------------------------------------------
\* No row of an answer is missing.

LEMMA NothingMissingInit == Init => NothingMissing
BY DEF Init, NothingMissing, waiting

\* What the stream of a call depends on.
LEMMA StreamUnchanged ==
    ASSUME NEW q \in Query, stream(q),
           inbox'[q] = inbox[q], got'[q] = got[q], snap'[q] = snap[q], q \in lost' <=> q \in lost,
           \A s \in Subject : serving'[s].query = q => serving'[s] = serving[s]
    PROVE  stream(q)'
<1>1. whole(q)' = whole(q)
  BY DEF whole
<1>2. unserved(q) => unserved(q)'
  BY DEF unserved
<1>3. ASSUME NEW held \in snap[q], served(q, held) PROVE served(q, held)'
  BY <1>1, <1>3 DEF served
<1> QED BY <1>2, <1>3 DEF stream

\* A reply that is not a read error leaves the rest of the stream as it is.
LEMMA AppendReply ==
    ASSUME NEW old \in Seq(Message), NEW m \in Message
    PROVE  /\ 1 \in DOMAIN Append(old, m)
           /\ Append(old, m)[1] = IF 1 \in DOMAIN old THEN old[1] ELSE m
           /\ \A i \in DOMAIN Append(old, m) :
                  \/ /\ i \in DOMAIN old /\ Append(old, m)[i] = old[i]
                     /\ rowsOf(Append(old, m), i - 1) = rowsOf(old, i - 1)
                  \/ /\ i = Len(old) + 1 /\ Append(old, m)[i] = m
                     /\ rowsOf(Append(old, m), i - 1) = rowsOf(old, Len(old))
           /\ rowsOf(Append(old, m), Len(Append(old, m))) = rowsOf(old, Len(old)) \cup m.rows
<1>1. /\ DOMAIN Append(old, m) = DOMAIN old \cup {Len(old) + 1}
      /\ Len(Append(old, m)) = Len(old) + 1
      /\ \A i \in DOMAIN old : Append(old, m)[i] = old[i]
      /\ Append(old, m)[Len(old) + 1] = m
      /\ \A n \in 0..Len(old) : rowsOf(Append(old, m), n) = rowsOf(old, n)
      /\ rowsOf(Append(old, m), Len(old) + 1) = rowsOf(old, Len(old)) \cup m.rows
  BY AppendMessage
<1>2. Len(old) \in Nat /\ \A i \in DOMAIN old : i - 1 \in 0..Len(old) /\ i \in Nat
  OBVIOUS
<1>3. 1 \in DOMAIN Append(old, m) /\ Append(old, m)[1] = IF 1 \in DOMAIN old THEN old[1] ELSE m
  OBVIOUS
<1>4. (Len(old) + 1) - 1 = Len(old) /\ Len(old) \in 0..Len(old)
  BY <1>2
<1> QED BY <1>1, <1>2, <1>3, <1>4

LEMMA StreamAppend ==
    ASSUME TypeOK, NEW q \in Query, NEW m \in Message, m.status # "slow consumer",
           inbox'[q] = Append(inbox[q], m), UNCHANGED lost
    PROVE  /\ whole(q)' <=> whole(q)
           /\ \A i \in DOMAIN inbox'[q] :
                  \/ /\ i \in DOMAIN inbox[q] /\ inbox'[q][i] = inbox[q][i]
                     /\ rowsOf(inbox'[q], i - 1) = rowsOf(inbox[q], i - 1)
                  \/ /\ i = Len(inbox[q]) + 1 /\ inbox'[q][i] = m
                     /\ rowsOf(inbox'[q], i - 1) = rowsOf(inbox[q], Len(inbox[q]))
           /\ rowsOf(inbox'[q], Len(inbox'[q])) = rowsOf(inbox[q], Len(inbox[q])) \cup m.rows
<1> DEFINE new == Append(inbox[q], m)
<1>1. inbox[q] \in Seq(Message)
  BY Zenon DEF TypeOK
<1>2. /\ 1 \in DOMAIN new /\ new[1] = IF 1 \in DOMAIN inbox[q] THEN inbox[q][1] ELSE m
      /\ \A i \in DOMAIN new :
             \/ /\ i \in DOMAIN inbox[q] /\ new[i] = inbox[q][i]
                /\ rowsOf(new, i - 1) = rowsOf(inbox[q], i - 1)
             \/ /\ i = Len(inbox[q]) + 1 /\ new[i] = m
                /\ rowsOf(new, i - 1) = rowsOf(inbox[q], Len(inbox[q]))
      /\ rowsOf(new, Len(new)) = rowsOf(inbox[q], Len(inbox[q])) \cup m.rows
  BY <1>1, AppendReply, Zenon
<1> HIDE DEF new
<1>3. inbox'[q] = new
  BY Zenon DEF new
<1>4. whole(q)' <=> (q \notin lost /\ (1 \in DOMAIN new => new[1].status # "slow consumer"))
  BY <1>3, Zenon DEF whole
<1>5. whole(q) <=> (q \notin lost /\ (1 \in DOMAIN inbox[q] => inbox[q][1].status # "slow consumer"))
  BY Zenon DEF whole
<1>6. whole(q)' <=> whole(q)
  <2>1. CASE 1 \in DOMAIN inbox[q]
    <3>1. new[1] = inbox[q][1] /\ 1 \in DOMAIN new
      BY <1>2, <2>1
    <3> QED BY <1>4, <1>5, <2>1, <3>1, Zenon
  <2>2. CASE 1 \notin DOMAIN inbox[q]
    <3>1. new[1] = m
      BY <1>2, <2>2
    <3> QED BY <1>4, <1>5, <2>2, <3>1, Zenon
  <2> QED BY <2>1, <2>2
<1> QED BY <1>2, <1>3, <1>6, Zenon

\* A handler sends a message to its own query, and what is left shrinks by it.
LEMMA StreamSend ==
    ASSUME TypeOK, NEW s \in Subject, NEW q \in Query, serving[s].query = q, stream(q),
           NEW m \in Message, inbox'[q] = Append(inbox[q], m), UNCHANGED <<lost, got, snap>>,
           HandlersServe, serving[s] # Idle,
           \A t \in Subject \ {s} : serving'[t] = serving[t],
           \/ /\ m.status = "data" \/ (m.status = "aggregation" /\ kind[s] = "aggregate")
              /\ m.rows \in serving[s].rest
              /\ serving'[s].query = q /\ serving'[s].rest = serving[s].rest \ {m.rows}
           \/ /\ m.status = "done" /\ m.rows = {} /\ serving[s].rest = {}
              /\ serving'[s].query = NoQuery
           \/ m.status = "error" /\ m.rows = {} /\ serving'[s].query = NoQuery
    PROVE  stream(q)'
<1>1. snap[q] # {} /\ \A t \in Subject \ {s} : serving'[t].query # q
  BY DEF HandlersServe
<1>2. q # NoQuery
  BY ProtocolAssumption
<1> SUFFICES ASSUME NEW held \in snap[q] PROVE served(q, held)'
  BY <1>1 DEF stream
<1>3. served(q, held)
  BY DEF stream
<1>4. m.status # "slow consumer"
  OBVIOUS
<1>5. /\ whole(q)' <=> whole(q)
      /\ \A i \in DOMAIN inbox'[q] :
             \/ /\ i \in DOMAIN inbox[q] /\ inbox'[q][i] = inbox[q][i]
                /\ rowsOf(inbox'[q], i - 1) = rowsOf(inbox[q], i - 1)
             \/ /\ i = Len(inbox[q]) + 1 /\ inbox'[q][i] = m
                /\ rowsOf(inbox'[q], i - 1) = rowsOf(inbox[q], Len(inbox[q]))
      /\ rowsOf(inbox'[q], Len(inbox'[q])) = rowsOf(inbox[q], Len(inbox[q])) \cup m.rows
  BY <1>4, StreamAppend
<1>6. /\ UNION serving[s].rest \subseteq held
      /\ kind[s] = "aggregate" => serving[s].rest \subseteq {held}
      /\ whole(q) => held = got[q] \cup rowsOf(inbox[q], Len(inbox[q])) \cup UNION serving[s].rest
  BY <1>3 DEF served
<1>7. /\ m.rows \subseteq held
      /\ m.status = "aggregation" => m.rows = held
      /\ m.status = "done" /\ whole(q) => held = got[q] \cup rowsOf(inbox[q], Len(inbox[q]))
  BY <1>6
<1>8. ASSUME NEW i \in DOMAIN inbox'[q]
      PROVE  /\ inbox'[q][i].rows \subseteq held
             /\ inbox'[q][i].status = "aggregation" => inbox'[q][i].rows = held
             /\ inbox'[q][i].status = "done" /\ whole(q)' => held = got'[q] \cup rowsOf(inbox'[q], i - 1)
  <2>1. CASE /\ i \in DOMAIN inbox[q] /\ inbox'[q][i] = inbox[q][i]
             /\ rowsOf(inbox'[q], i - 1) = rowsOf(inbox[q], i - 1)
    BY <1>3, <1>5, <2>1 DEF served
  <2>2. CASE /\ inbox'[q][i] = m /\ rowsOf(inbox'[q], i - 1) = rowsOf(inbox[q], Len(inbox[q]))
    BY <1>5, <1>7, <2>2
  <2> QED BY <1>5, <2>1, <2>2
<1>9. ASSUME NEW t \in Subject, serving'[t].query = q
      PROVE  /\ UNION serving'[t].rest \subseteq held
             /\ kind[t] = "aggregate" => serving'[t].rest \subseteq {held}
             /\ whole(q)' => held = got'[q] \cup rowsOf(inbox'[q], Len(inbox'[q])) \cup UNION serving'[t].rest
  <2>1. t = s /\ m.rows \in serving[s].rest
    BY <1>1, <1>2, <1>9
  <2>2. serving'[t].rest = serving[s].rest \ {m.rows}
    BY <1>1, <1>2, <1>9
  <2>3. UNION serving[s].rest = m.rows \cup UNION serving'[t].rest
    BY <2>1, <2>2
  <2> QED BY <1>5, <1>6, <2>1, <2>2, <2>3
<1>10. got'[q] \subseteq held
  BY <1>3 DEF served
<1> QED BY <1>8, <1>9, <1>10 DEF served

\* After a loss or an overflow nothing is claimed of the rows that are left.
LEMMA StreamBroken ==
    ASSUME NEW q \in Query, stream(q), ~whole(q)', UNCHANGED <<got, snap, serving>>,
           \A j \in DOMAIN inbox'[q] :
               \/ inbox'[q][j] = notice("slow consumer")
               \/ \E k \in DOMAIN inbox[q] : inbox'[q][j] = inbox[q][k]
    PROVE  stream(q)'
<1>1. notice("slow consumer").rows = {} /\ notice("slow consumer").status = "slow consumer"
  BY DEF notice
<1>2. unserved(q) => unserved(q)'
  BY <1>1 DEF unserved
<1>3. ASSUME NEW held \in snap[q] PROVE served(q, held)'
  <2>1. served(q, held)
    BY DEF stream
  <2>2. ASSUME NEW j \in DOMAIN inbox'[q]
        PROVE  /\ inbox'[q][j].rows \subseteq held
               /\ inbox'[q][j].status = "aggregation" => inbox'[q][j].rows = held
    BY <1>1, <2>1, <2>2 DEF served
  <2> QED BY <2>1, <2>2 DEF served
<1> QED BY <1>2, <1>3 DEF stream

LEMMA LoseStream ==
    ASSUME TypeOK, NEW p \in Query, Lose(p), NEW q \in Query, stream(q)
    PROVE  stream(q)'
<1>1. UNCHANGED <<got, snap, serving>>
  BY DEF Lose, client, server
<1>2. CASE UNCHANGED <<inbox, lost>>
  BY <1>1, <1>2, StreamUnchanged
<1>3. ASSUME NEW i \in DOMAIN inbox[p], inbox' = [inbox EXCEPT ![p] = RemoveAt(@, i)],
             lost' = lost \cup {p}
      PROVE  stream(q)'
  <2>0. inbox \in [Query -> Seq(Message)]
    BY DEF TypeOK
  <2>1. CASE q # p
    <3>1. inbox'[q] = inbox[q] /\ (q \in lost' <=> q \in lost)
      BY <1>3, <2>0, <2>1
    <3> QED BY <1>1, <3>1, StreamUnchanged
  <2>2. CASE q = p
    <3>1. inbox'[q] = RemoveAt(inbox[q], i) /\ q \in lost' /\ i \in DOMAIN inbox[q]
      BY <1>3, <2>0, <2>2
    <3>2. inbox[q] \in Seq(Message)
      BY <2>0
    <3>3. \A j \in DOMAIN RemoveAt(inbox[q], i) : \E k \in DOMAIN inbox[q] : RemoveAt(inbox[q], i)[j] = inbox[q][k]
      BY <3>1, <3>2, RemoveElement
    <3>4. \A j \in DOMAIN inbox'[q] : \E k \in DOMAIN inbox[q] : inbox'[q][j] = inbox[q][k]
      BY <3>1, <3>3, Zenon
    <3>5. ~whole(q)'
      BY <3>1 DEF whole
    <3> QED BY <1>1, <3>4, <3>5, StreamBroken
  <2> QED BY <2>1, <2>2
<1> QED BY <1>2, <1>3 DEF Lose

LEMMA OverflowStream ==
    ASSUME TypeOK, NEW p \in Query, Overflow(p), NEW q \in Query, stream(q)
    PROVE  stream(q)'
<1>0. inbox \in [Query -> Seq(Message)]
  BY DEF TypeOK
<1>1. UNCHANGED <<got, snap, serving, lost>>
  BY DEF Overflow, client, server, ghosts
<1>2. CASE q # p
  <2>1. inbox'[q] = inbox[q]
    BY <1>0, <1>2 DEF Overflow
  <2> QED BY <1>1, <2>1, StreamUnchanged
<1>3. CASE q = p
  <2> DEFINE m == notice("slow consumer")
             new == <<m>> \o Front(inbox[q])
  <2>1. m \in Message /\ m.status = "slow consumer"
    BY NoticeType
  <2>2. inbox[q] \in Seq(Message) /\ inbox[q] # <<>> /\ inbox'[q] = new
    BY <1>0, <1>3 DEF Overflow
  <2> HIDE DEF m
  <2>3. /\ new \in Seq(Message) /\ new # <<>>
        /\ \A j \in DOMAIN new :
               IF j = 1 THEN new[j] = m ELSE j - 1 \in DOMAIN inbox[q] /\ new[j] = inbox[q][j - 1]
    BY <2>1, <2>2, DropLastAfterNotice
  <2> HIDE DEF new
  <2>4. 1 \in DOMAIN new
    BY <2>3
  <2>5. \A j \in DOMAIN new : new[j] = m \/ \E k \in DOMAIN inbox[q] : new[j] = inbox[q][k]
    BY <2>3
  <2>6. \A j \in DOMAIN inbox'[q] : inbox'[q][j] = m \/ \E k \in DOMAIN inbox[q] : inbox'[q][j] = inbox[q][k]
    BY <2>2, <2>5, Zenon
  <2>7. 1 \in DOMAIN inbox'[q] /\ inbox'[q][1].status = "slow consumer"
    <3>1. new[1] = m
      BY <2>3, <2>4
    <3> QED BY <2>1, <2>2, <2>4, <3>1, Zenon
  <2>8. ~whole(q)'
    BY <2>7 DEF whole
  <2> QED BY <1>1, <2>6, <2>8, StreamBroken DEF m
<1> QED BY <1>2, <1>3

\* A handler answers with an error before it has rows, or takes its snapshot.
LEMMA BeginStream ==
    ASSUME TypeOK, ServedOnce, TypeOK', ServedOnce', NEW s \in Subject, Begin(s),
           NEW q \in Query, waiting(q), stream(q)
    PROVE  stream(q)'
<1> DEFINE p == Head(queue[s])
<1>1. UNCHANGED <<got, lost, phase>>
  BY DEF Begin, client
<1>2. p \in Query /\ snap[p] = {}
  <2>1. queue[s] \in Seq(Query) /\ queue[s] # <<>>
    BY DEF TypeOK, Begin
  <2>2. p = queue[s][1] /\ 1 \in DOMAIN queue[s] /\ p \in Query
    BY <2>1
  <2> HIDE DEF p
  <2> QED BY <2>2 DEF ServedOnce, RequestsUnserved
<1> HIDE DEF p
<1>3. CASE reply(p, notice("error")) /\ UNCHANGED <<serving, snap>>
  <2>1. notice("error") \in Message /\ notice("error").rows = {} /\ notice("error").status = "error"
    BY NoticeType
  <2>2. /\ \A r \in Query \ {p} : inbox'[r] = inbox[r]
        /\ waiting(p) => inbox'[p] = Append(inbox[p], notice("error"))
    BY <1>1, <1>2, <1>3, <2>1, ReplyType
  <2>3. CASE q # p
    BY <1>1, <1>3, <2>2, <2>3, StreamUnchanged
  <2>4. CASE q = p
    <3>1. unserved(q)
      BY <1>2, <2>4 DEF stream
    <3>2. \A i \in DOMAIN inbox'[q] :
              \/ /\ i \in DOMAIN inbox[q] /\ inbox'[q][i] = inbox[q][i]
                 /\ rowsOf(inbox'[q], i - 1) = rowsOf(inbox[q], i - 1)
              \/ /\ i = Len(inbox[q]) + 1 /\ inbox'[q][i] = notice("error")
                 /\ rowsOf(inbox'[q], i - 1) = rowsOf(inbox[q], Len(inbox[q]))
      <4>1. /\ notice("error").status # "slow consumer" /\ UNCHANGED lost
            /\ inbox'[q] = Append(inbox[q], notice("error"))
        BY <1>1, <2>1, <2>2, <2>4
      <4> QED BY <2>1, <4>1, StreamAppend
    <3>3. unserved(q)'
      BY <1>1, <2>1, <3>1, <3>2 DEF unserved
    <3> QED BY <1>2, <1>3, <2>4, <3>3 DEF stream
  <2> QED BY <2>3, <2>4
<1>4. CASE /\ serving' = [serving EXCEPT ![s] = [query |-> p, rest |-> payloads(s, data)]]
           /\ snap' = [snap EXCEPT ![p] = {data}]
           /\ UNCHANGED inbox
  <2>1. serving'[s] = [query |-> p, rest |-> payloads(s, data)] /\ \A t \in Subject \ {s} : serving'[t] = serving[t]
    BY <1>4 DEF TypeOK
  <2>2. CASE q # p
    <3>1. snap'[q] = snap[q]
      BY <1>4, <2>2 DEF TypeOK
    <3>2. \A t \in Subject : serving'[t].query = q => serving'[t] = serving[t]
      BY <2>1, <2>2
    <3> QED BY <1>1, <1>4, <3>1, <3>2, StreamUnchanged
  <2>3. CASE q = p
    <3>1. snap'[q] = {data} /\ data \in SUBSET Row
      BY <1>4, <2>3 DEF TypeOK
    <3>2. unserved(q)
      BY <1>2, <2>3 DEF stream
    <3>3. \A t \in Subject : serving'[t].query = q => t = s
      <4>1. serving'[s].query # NoQuery /\ Idle.query = NoQuery
        BY <2>1, <1>2, ProtocolAssumption DEF Idle
      <4>2. serving'[s] # Idle /\ serving'[s].query = q
        BY <4>1, <2>1, <2>3
      <4> QED BY <4>2 DEF ServedOnce, HandlersServe
    <3>4. UNION serving'[s].rest = data /\ (kind[s] = "aggregate" => serving'[s].rest = {data})
      BY <2>1, <3>1, PayloadType DEF payloads
    <3>5. \A n \in Nat : n <= Len(inbox[q]) => rowsOf(inbox[q], n) = {}
      <4>1. inbox[q] \in Seq(Message)
        BY DEF TypeOK
      <4>2. \A i \in DOMAIN inbox[q] : inbox[q][i].rows = {}
        BY <3>2 DEF unserved
      <4>3. ASSUME NEW n \in Nat, n <= Len(inbox[q]) PROVE \A i \in 1..n : i \in DOMAIN inbox[q]
        BY <4>1, <4>3
      <4> QED BY <4>2, <4>3 DEF rowsOf
    <3>6. Len(inbox[q]) \in Nat
      <4>1. inbox[q] \in Seq(Message)
        BY DEF TypeOK
      <4> QED BY <4>1
    <3>7. got'[q] = {} /\ inbox'[q] = inbox[q]
      BY <1>1, <1>4, <3>2 DEF unserved
    <3>8. ASSUME NEW i \in DOMAIN inbox'[q]
          PROVE  /\ inbox'[q][i].rows = {}
                 /\ inbox'[q][i].status \in {"error", "no responders", "slow consumer"}
      BY <3>2, <3>7 DEF unserved
    <3>9. rowsOf(inbox'[q], Len(inbox'[q])) = {}
      BY <3>5, <3>6, <3>7
    <3>10. ASSUME NEW held \in snap'[q] PROVE served(q, held)'
      <4>1. held = data
        BY <3>1
      <4>2. \A t \in Subject : serving'[t].query = q =>
                /\ UNION serving'[t].rest = held
                /\ kind[t] = "aggregate" => serving'[t].rest = {held}
        BY <3>3, <3>4, <4>1
      <4> QED BY <3>7, <3>8, <3>9, <4>2 DEF served
    <3> QED BY <3>1, <3>10 DEF stream
  <2> QED BY <2>2, <2>3
<1> QED BY <1>3, <1>4 DEF Begin, p

\* A handler sends its next message or its terminator, or gives the stream up.
LEMMA HandlerStream ==
    ASSUME TypeOK, ServedOnce, NEW s \in Subject, SendNext(s) \/ SendFails(s) \/ SendDone(s),
           NEW q \in Query, waiting(q), stream(q)
    PROVE  stream(q)'
<1> DEFINE p == serving[s].query
<1>1. UNCHANGED phase /\ got' = got /\ lost' = lost /\ snap' = snap
  BY DEF SendNext, SendFails, SendDone, client, ghosts
<1>2. Idle.rest = {} /\ Idle.query = NoQuery
  BY DEF Idle
<1>3. serving[s] # Idle
  BY <1>2 DEF SendNext, SendFails, SendDone
<1>4. p \in Query
  BY <1>3, HandlerQuery
<1>5. \A t \in Subject \ {s} : serving'[t] = serving[t]
  BY DEF SendNext, SendFails, SendDone, TypeOK
<1>6. serving'[s].query \in {p, NoQuery}
  <2>1. CASE serving' = [serving EXCEPT ![s] = Idle]
    BY <1>2, <2>1 DEF TypeOK
  <2>2. CASE \E x \in serving[s].rest : serving' = [serving EXCEPT ![s].rest = @ \ {x}]
    BY <2>2 DEF TypeOK
  <2> QED BY <2>1, <2>2 DEF SendNext, SendFails, SendDone
<1>7. CASE q # p
  <2>1. \A t \in Subject : serving'[t].query = q => serving'[t] = serving[t]
    BY <1>5, <1>6, <1>7, ProtocolAssumption
  <2>2. ASSUME NEW m \in Message, reply(p, m) PROVE inbox'[q] = inbox[q]
    BY <1>1, <1>4, <1>7, <2>2, ReplyType
  <2>3. inbox'[q] = inbox[q]
    <3>1. notice("error") \in Message /\ notice("done") \in Message
      BY NoticeType
    <3>2. \A x \in serving[s].rest :
              [status |-> IF kind[s] = "aggregate" THEN "aggregation" ELSE "data", rows |-> x] \in Message
      BY DEF TypeOK, Message
    <3> QED BY <1>4, <2>2, <3>1, <3>2 DEF SendNext, SendFails, SendDone
  <2> QED BY <1>1, <2>1, <2>3, StreamUnchanged
<1>8. ASSUME q = p, NEW m \in Message, reply(p, m),
             \/ /\ m.status = "data" \/ (m.status = "aggregation" /\ kind[s] = "aggregate")
                /\ m.rows \in serving[s].rest
                /\ serving'[s].query = q /\ serving'[s].rest = serving[s].rest \ {m.rows}
             \/ /\ m.status = "done" /\ m.rows = {} /\ serving[s].rest = {}
                /\ serving'[s].query = NoQuery
             \/ m.status = "error" /\ m.rows = {} /\ serving'[s].query = NoQuery
      PROVE  stream(q)'
  <2>1. inbox'[q] = Append(inbox[q], m)
    BY <1>1, <1>4, <1>8, ReplyType
  <2> QED BY <1>1, <1>3, <1>5, <1>8, <2>1, StreamSend DEF ServedOnce
<1>9. CASE q = p
  <2>1. ASSUME SendNext(s) PROVE stream(q)'
    <3>1. PICK x \in serving[s].rest :
              /\ reply(p, [status |-> IF kind[s] = "aggregate" THEN "aggregation" ELSE "data", rows |-> x])
              /\ serving' = [serving EXCEPT ![s].rest = @ \ {x}]
      BY <2>1 DEF SendNext
    <3> DEFINE m == [status |-> IF kind[s] = "aggregate" THEN "aggregation" ELSE "data", rows |-> x]
    <3>2. /\ m \in Message /\ m.rows = x
          /\ m.status = "data" \/ (m.status = "aggregation" /\ kind[s] = "aggregate")
      BY DEF TypeOK, Message
    <3>3. serving'[s].query = p /\ serving'[s].rest = serving[s].rest \ {x}
      BY <3>1 DEF TypeOK
    <3>4. reply(p, m)
      BY <3>1
    <3> HIDE DEF m
    <3> QED BY <1>8, <1>9, <3>2, <3>3, <3>4
  <2>2. ASSUME SendDone(s) PROVE stream(q)'
    <3>1. notice("done") \in Message /\ notice("done").rows = {} /\ notice("done").status = "done"
      BY NoticeType
    <3>2. reply(p, notice("done")) /\ serving[s].rest = {} /\ serving'[s].query = NoQuery
      BY <1>2, <2>2 DEF SendDone, TypeOK
    <3> QED BY <1>8, <1>9, <3>1, <3>2
  <2>3. ASSUME SendFails(s) PROVE stream(q)'
    <3>1. notice("error") \in Message /\ notice("error").rows = {} /\ notice("error").status = "error"
      BY NoticeType
    <3>2. serving'[s].query = NoQuery
      BY <1>2, <2>3 DEF SendFails, TypeOK
    <3>3. CASE reply(p, notice("error"))
      BY <1>8, <1>9, <3>1, <3>2, <3>3
    <3>4. CASE UNCHANGED inbox
      <4>1. \A t \in Subject : serving'[t].query = q => serving'[t] = serving[t]
        BY <1>5, <3>2, ProtocolAssumption
      <4> QED BY <1>1, <3>4, <4>1, StreamUnchanged
    <3> QED BY <2>3, <3>3, <3>4 DEF SendFails
  <2> QED BY <2>1, <2>2, <2>3
<1> QED BY <1>7, <1>9

\* The caller takes a row out of its inbox.
LEMMA ReceiveStream ==
    ASSUME TypeOK, NEW q \in Query, stream(q), inbox[q] # <<>>, Head(inbox[q]).status = "data",
           got'[q] = got[q] \cup Head(inbox[q]).rows, inbox'[q] = Tail(inbox[q]),
           snap' = snap, lost' = lost, serving' = serving
    PROVE  stream(q)'
<1> DEFINE old == inbox[q]
           new == Tail(inbox[q])
<1>1. old \in Seq(Message)
  BY Zenon DEF TypeOK
<1>2. /\ Head(old) \in Message /\ Head(old) = old[1] /\ 1 \in DOMAIN old
      /\ new \in Seq(Message)
      /\ Len(new) = Len(old) - 1
      /\ \A i \in DOMAIN new : i + 1 \in DOMAIN old /\ new[i] = old[i + 1]
      /\ \A n \in 1..Len(old) : rowsOf(old, n) = Head(old).rows \cup rowsOf(new, n - 1)
  BY <1>1, TailMessage, Zenon
<1>3. \A i \in DOMAIN new : i + 1 \in 1..Len(old) /\ (i + 1) - 1 = i /\ i \in 1..Len(old) /\ i \in Nat
  BY <1>1, <1>2
<1>4. Len(old) \in 1..Len(old)
  BY <1>1, <1>2
<1>5. got'[q] = got[q] \cup Head(old).rows /\ inbox'[q] = new /\ Head(old).status = "data"
  OBVIOUS
<1> HIDE DEF old, new
<1>6. ~unserved(q)
  BY <1>2, <1>5 DEF unserved, old
<1>7. whole(q)' => whole(q)
  BY <1>2, <1>5 DEF whole, old
<1> SUFFICES ASSUME NEW held \in snap[q] PROVE served(q, held)'
  BY <1>6 DEF stream
<1>8. /\ got[q] \subseteq held
      /\ \A i \in DOMAIN old :
             /\ old[i].rows \subseteq held
             /\ old[i].status = "aggregation" => old[i].rows = held
             /\ old[i].status = "done" /\ whole(q) => held = got[q] \cup rowsOf(old, i - 1)
      /\ \A s \in Subject : serving[s].query = q =>
             /\ UNION serving[s].rest \subseteq held
             /\ kind[s] = "aggregate" => serving[s].rest \subseteq {held}
             /\ whole(q) => held = got[q] \cup rowsOf(old, Len(old)) \cup UNION serving[s].rest
  BY DEF stream, served, old
<1>9. got'[q] \subseteq held
  BY <1>2, <1>5, <1>8
<1>10. ASSUME NEW i \in DOMAIN new
       PROVE  /\ new[i].rows \subseteq held
              /\ new[i].status = "aggregation" => new[i].rows = held
              /\ new[i].status = "done" /\ whole(q)' => held = got'[q] \cup rowsOf(new, i - 1)
  <2>1. i + 1 \in DOMAIN old /\ new[i] = old[i + 1]
    BY <1>2
  <2>2. rowsOf(old, i) = Head(old).rows \cup rowsOf(new, i - 1)
    BY <1>2, <1>3
  <2>3. new[i].status = "done" /\ whole(q) => held = got[q] \cup rowsOf(old, i)
    BY <1>3, <1>8, <2>1
  <2>4. /\ new[i].rows \subseteq held
        /\ new[i].status = "aggregation" => new[i].rows = held
    BY <1>8, <2>1
  <2> QED BY <1>5, <1>7, <2>2, <2>3, <2>4
<1>11. ASSUME NEW s \in Subject, serving[s].query = q
       PROVE  /\ UNION serving[s].rest \subseteq held
              /\ kind[s] = "aggregate" => serving[s].rest \subseteq {held}
              /\ whole(q)' => held = got'[q] \cup rowsOf(new, Len(new)) \cup UNION serving[s].rest
  <2>1. rowsOf(old, Len(old)) = Head(old).rows \cup rowsOf(new, Len(new))
    BY <1>2, <1>4
  <2> QED BY <1>5, <1>7, <1>8, <1>11, <2>1
<1>12. /\ \A i \in DOMAIN inbox'[q] :
             /\ inbox'[q][i].rows \subseteq held
             /\ inbox'[q][i].status = "aggregation" => inbox'[q][i].rows = held
             /\ inbox'[q][i].status = "done" /\ whole(q)' => held = got'[q] \cup rowsOf(inbox'[q], i - 1)
       /\ \A s \in Subject : serving'[s].query = q =>
             /\ UNION serving'[s].rest \subseteq held
             /\ kind[s] = "aggregate" => serving'[s].rest \subseteq {held}
             /\ whole(q)' => held = got'[q] \cup rowsOf(inbox'[q], Len(inbox'[q])) \cup UNION serving'[s].rest
  BY <1>5, <1>10, <1>11
<1> QED BY <1>9, <1>12 DEF served

LEMMA AskStream ==
    ASSUME TypeOK, ServedOnce, NothingMissing, NEW p \in Query, NEW s \in Subject, Ask(p, s)
    PROVE  NothingMissing'
<1>1. UNCHANGED <<serving, got, snap, lost>>
  BY DEF Ask, ghosts
<1>2. ASSUME NEW q \in Query \ {p} PROVE phase'[q] = phase[q] /\ inbox'[q] = inbox[q]
  BY <1>2 DEF Ask, TypeOK
<1>3. inbox[p] = <<>> /\ got[p] = {} /\ snap[p] = {} /\ phase'[p] = "waiting"
  BY DEF Ask, TypeOK, waiting, ServedOnce, IdleUnserved, NothingMissing
<1>4. \A i \in DOMAIN inbox'[p] : inbox'[p][i] = notice("no responders")
  <2>1. notice("no responders") \in Message
    BY NoticeType
  <2>2. CASE inbox' = [inbox EXCEPT ![p] = <<notice("no responders")>>]
    <3>1. inbox'[p] = <<notice("no responders")>>
      BY <2>2 DEF TypeOK
    <3> DEFINE one == <<notice("no responders")>>
    <3>2. \A i \in DOMAIN one : one[i] = notice("no responders")
      BY <2>1, SingleMessage
    <3> HIDE DEF one
    <3>3. inbox'[p] = one
      BY <3>1 DEF one
    <3> QED BY <3>2, <3>3, Zenon
  <2>3. CASE UNCHANGED inbox
    <3>1. inbox'[p] = <<>>
      BY <1>3, <2>3
    <3>2. ~\E i \in DOMAIN <<>> : TRUE
      OBVIOUS
    <3> QED BY <3>1, <3>2, Zenon
  <2> QED BY <2>2, <2>3 DEF Ask
<1>5. unserved(p)'
  <2>1. notice("no responders").rows = {} /\ notice("no responders").status = "no responders"
    BY NoticeType
  <2> QED BY <1>1, <1>3, <1>4, <2>1 DEF unserved
<1>6. ASSUME NEW q \in Query, waiting(q)' PROVE stream(q)'
  <2>1. CASE q = p
    BY <1>1, <1>3, <1>5, <2>1 DEF stream
  <2>2. CASE q # p
    <3>1. stream(q)
      BY <1>2, <1>6, <2>2 DEF NothingMissing, waiting
    <3> QED BY <1>1, <1>2, <2>2, <3>1, StreamUnchanged
  <2> QED BY <2>1, <2>2
<1>7. \A q \in Query : phase'[q] = "idle" => got'[q] = {}
  BY <1>1, <1>2, <1>3 DEF NothingMissing
<1> QED BY <1>6, <1>7 DEF NothingMissing

\* A call that returns reads no more, and the others go on.
LEMMA FinishStream ==
    ASSUME TypeOK, NothingMissing, NEW p \in Query, NEW end \in {"answer", "error"},
           NEW rows \in SUBSET Row, finish(p, end, rows), UNCHANGED <<serving, snap, lost>>
    PROVE  NothingMissing'
<1>1. /\ phase'[p] = end
      /\ \A q \in Query \ {p} : inbox'[q] = inbox[q] /\ got'[q] = got[q] /\ phase'[q] = phase[q]
  BY FinishType
<1>2. ASSUME NEW q \in Query, waiting(q)' PROVE stream(q)'
  <2>1. q # p
    BY <1>1, <1>2 DEF waiting
  <2>2. stream(q)
    BY <1>1, <1>2, <2>1 DEF NothingMissing, waiting
  <2> QED BY <1>1, <2>1, <2>2, StreamUnchanged
<1>3. \A q \in Query : phase'[q] = "idle" => got'[q] = {}
  BY <1>1 DEF NothingMissing
<1> QED BY <1>2, <1>3 DEF NothingMissing

\* A read of the client, by the kind of message.
LEMMA ReadCases ==
    ASSUME TypeOK, NEW p \in Query, Receive(p)
    PROVE  /\ waiting(p) /\ inbox[p] # <<>> /\ UNCHANGED <<data, serving, snap, lost>>
           /\ Head(inbox[p]).rows \in SUBSET Row /\ got[p] \in SUBSET Row
           /\ \/ Head(inbox[p]).status = "done" /\ finish(p, "answer", got[p])
              \/ Head(inbox[p]).status = "aggregation" /\ finish(p, "answer", Head(inbox[p]).rows)
              \/ /\ Head(inbox[p]).status = "data" /\ UNCHANGED phase
                 /\ got' = [got EXCEPT ![p] = @ \cup Head(inbox[p]).rows]
                 /\ inbox' = [inbox EXCEPT ![p] = Tail(@)]
              \/ finish(p, "error", {})
<1>1. waiting(p) /\ inbox[p] # <<>> /\ UNCHANGED <<data, serving, snap, lost>>
  BY DEF Receive, server, ghosts
<1>2. Head(inbox[p]).rows \in SUBSET Row /\ got[p] \in SUBSET Row
  <2>1. inbox[p] \in Seq(Message)
    BY DEF TypeOK
  <2>2. Head(inbox[p]) \in Message
    BY <1>1, <2>1, TailMessage
  <2> QED BY <2>2 DEF Message, TypeOK
<1>3. PICK timedOut \in BOOLEAN : read(p, timedOut)
  BY DEF Receive
<1> QED BY <1>1, <1>2, <1>3 DEF read

LEMMA ReceiveMissing ==
    ASSUME TypeOK, NothingMissing, NEW p \in Query, Receive(p)
    PROVE  NothingMissing'
<1>1. /\ waiting(p) /\ inbox[p] # <<>> /\ UNCHANGED <<serving, snap, lost>>
      /\ Head(inbox[p]).rows \in SUBSET Row /\ got[p] \in SUBSET Row
  BY ReadCases
<1>2. CASE \E end \in {"answer", "error"} : \E rows \in SUBSET Row : finish(p, end, rows)
  BY <1>1, <1>2, FinishStream
<1>3. CASE /\ Head(inbox[p]).status = "data" /\ UNCHANGED phase
           /\ got' = [got EXCEPT ![p] = @ \cup Head(inbox[p]).rows]
           /\ inbox' = [inbox EXCEPT ![p] = Tail(@)]
  <2>1. /\ got'[p] = got[p] \cup Head(inbox[p]).rows
        /\ inbox'[p] = Tail(inbox[p])
        /\ \A q \in Query \ {p} : got'[q] = got[q] /\ inbox'[q] = inbox[q]
    BY <1>3 DEF TypeOK
  <2>2. ASSUME NEW q \in Query, waiting(q)' PROVE stream(q)'
    <3>1. stream(q)
      BY <1>3, <2>2 DEF NothingMissing, waiting
    <3>2. CASE q = p
      BY <1>1, <1>3, <2>1, <3>1, <3>2, ReceiveStream
    <3>3. CASE q # p
      BY <1>1, <2>1, <3>1, <3>3, StreamUnchanged
    <3> QED BY <3>2, <3>3
  <2>3. \A q \in Query : phase'[q] = "idle" => got'[q] = {}
    BY <1>1, <1>3, <2>1 DEF NothingMissing, waiting
  <2> QED BY <2>2, <2>3 DEF NothingMissing
<1> QED BY <1>1, <1>2, <1>3, ReadCases

LEMMA NothingMissingNext ==
    TypeOK /\ ServedOnce /\ NothingMissing /\ [Next]_vars => NothingMissing'
<1> SUFFICES ASSUME TypeOK, ServedOnce, NothingMissing, [Next]_vars PROVE NothingMissing'
  OBVIOUS
<1>t. TypeOK'
  BY TypeNext
<1>s. ServedOnce'
  BY ServedOnceNext
<1>0. ASSUME UNCHANGED phase, UNCHANGED got, \A q \in Query : waiting(q) /\ stream(q) => stream(q)'
      PROVE  NothingMissing'
  BY <1>0 DEF NothingMissing, waiting
<1>1. ASSUME UNCHANGED <<inbox, phase, got, snap, lost>>,
             \A s \in Subject : serving'[s] # serving[s] => serving'[s] = Idle
      PROVE  NothingMissing'
  <2>1. \A q \in Query : \A s \in Subject : serving'[s].query = q => serving'[s] = serving[s]
    BY <1>1, ProtocolAssumption DEF Idle
  <2> QED BY <1>0, <1>1, <2>1, StreamUnchanged
<1>2. CASE Write \/ Start \/ Stop \/ UNCHANGED vars
  BY <1>1, <1>2 DEF Write, Start, Stop, vars, server, client, ghosts
<1>3. CASE Exit
  BY <1>1, <1>3 DEF Exit, client
<1>4. ASSUME NEW s \in Subject, Begin(s) PROVE NothingMissing'
  <2>1. UNCHANGED phase /\ UNCHANGED got
    BY <1>4 DEF Begin, client
  <2> QED BY <1>0, <1>4, <1>s, <1>t, <2>1, BeginStream
<1>5. ASSUME NEW s \in Subject, SendNext(s) \/ SendFails(s) \/ SendDone(s) PROVE NothingMissing'
  <2>1. UNCHANGED phase /\ UNCHANGED got
    BY <1>5 DEF SendNext, SendFails, SendDone, client
  <2> QED BY <1>0, <1>5, <2>1, HandlerStream
<1>6. ASSUME NEW p \in Query, Lose(p) \/ Overflow(p) PROVE NothingMissing'
  <2>1. UNCHANGED phase /\ UNCHANGED got
    BY <1>6 DEF Lose, Overflow, client
  <2> QED BY <1>0, <1>6, <2>1, LoseStream, OverflowStream
<1>7. ASSUME NEW p \in Query, GiveUp(p) PROVE NothingMissing'
  BY <1>7, FinishStream DEF GiveUp, server, ghosts
<1> QED BY <1>2, <1>3, <1>4, <1>5, <1>6, <1>7, AskStream, ReceiveMissing DEF Next, Handle

\* What a caller read, its inbox and its handler together hold every row it was
\* served from, in any interleaving with the writers, unless a reply was lost.
THEOREM NoRowMissing == Spec => []NothingMissing
<1>1. TypeOK /\ ServedOnce /\ NothingMissing /\ [Next]_vars => (TypeOK /\ ServedOnce /\ NothingMissing)'
  BY TypeNext, ServedOnceNext, NothingMissingNext
<1>2. Init => TypeOK /\ ServedOnce /\ NothingMissing
  BY TypeInit, ServedOnceInit, NothingMissingInit
<1> QED BY <1>1, <1>2, PTL DEF Spec

-----------------------------------------------------------------------------
\* Refinement.

LEMMA OutcomeUnchanged ==
    ASSUME UNCHANGED phase, \A q \in Query : got'[q] = got[q] \/ phase[q] # "answer"
    PROVE  UNCHANGED <<outcome, answer>>
<1>1. \A q \in Query : outcome'[q] = outcome[q] /\ answer'[q] = answer[q]
  BY DEF outcome, answer, waiting
<1> QED BY <1>1 DEF outcome, answer

LEMMA OutcomeFinish ==
    ASSUME TypeOK, NEW p \in Query, waiting(p), NEW end \in {"answer", "error"},
           NEW rows \in SUBSET Row, finish(p, end, rows)
    PROVE  /\ outcome[p] = "asked" /\ outcome' = [outcome EXCEPT ![p] = end]
           /\ end = "answer" => answer' = [answer EXCEPT ![p] = rows]
           /\ end = "error" => answer' = answer
<1>1. /\ phase'[p] = end
      /\ got'[p] = IF end = "error" THEN {} ELSE rows
      /\ \A q \in Query \ {p} : got'[q] = got[q] /\ phase'[q] = phase[q]
  BY FinishType
<1>2. outcome[p] = "asked" /\ answer[p] = {}
  BY DEF outcome, answer, waiting
<1>3. outcome'[p] = end /\ answer'[p] = IF end = "answer" THEN rows ELSE {}
  BY <1>1 DEF outcome, answer, waiting
<1>4. \A q \in Query \ {p} : outcome'[q] = outcome[q] /\ answer'[q] = answer[q]
  BY <1>1 DEF outcome, answer, waiting
<1>5. /\ outcome = [q \in Query |-> outcome[q]] /\ answer = [q \in Query |-> answer[q]]
      /\ outcome' = [q \in Query |-> outcome'[q]] /\ answer' = [q \in Query |-> answer'[q]]
  BY DEF outcome, answer
<1> HIDE DEF outcome, answer
<1> QED BY <1>2, <1>3, <1>4, <1>5

\* Whatever ends a call that is not an error hands over one state's rows.
LEMMA ReceivePromise ==
    ASSUME TypeOK, NothingMissing, NEW p \in Query, Receive(p)
    PROVE  Promise!Succeed(p) \/ Promise!Fail(p) \/ UNCHANGED Promise!vars
<1> DEFINE m == Head(inbox[p])
<1>1. /\ waiting(p) /\ inbox[p] # <<>> /\ UNCHANGED <<data, serving, snap, lost>>
      /\ m.rows \in SUBSET Row /\ got[p] \in SUBSET Row
  BY ReadCases
<1>2. stream(p)
  BY <1>1 DEF NothingMissing
<1>3. 1 \in DOMAIN inbox[p] /\ inbox[p][1] = m
  <2>1. inbox[p] \in Seq(Message)
    BY DEF TypeOK
  <2> QED BY <1>1, <2>1, TailMessage
<1> HIDE DEF m
<1>4. ASSUME NEW rows \in SUBSET Row, finish(p, "answer", rows), snap[p] # {},
             \A held \in snap[p] : rows \subseteq held /\ (p \notin lost => rows = held)
      PROVE  Promise!Succeed(p)
  <2>1. /\ outcome[p] = "asked" /\ outcome' = [outcome EXCEPT ![p] = "answer"]
        /\ answer' = [answer EXCEPT ![p] = rows]
    BY <1>1, <1>4, OutcomeFinish
  <2>2. \E held \in snap[p] : rows \in IF p \in lost THEN SUBSET held ELSE {held}
    BY <1>4
  <2> QED BY <1>1, <2>1, <2>2 DEF Promise!Succeed
<1>5. CASE m.status = "done" /\ finish(p, "answer", got[p])
  <2>1. snap[p] # {}
    BY <1>2, <1>3, <1>5 DEF stream, unserved
  <2>2. ASSUME NEW held \in snap[p] PROVE got[p] \subseteq held /\ (p \notin lost => got[p] = held)
    <3>1. served(p, held)
      BY <1>2 DEF stream
    <3>2. p \notin lost => held = got[p] \cup rowsOf(inbox[p], 1 - 1)
      BY <1>3, <1>5, <3>1 DEF served, whole
    <3>3. rowsOf(inbox[p], 1 - 1) = {}
      BY DEF rowsOf
    <3> QED BY <3>1, <3>2, <3>3 DEF served
  <2> QED BY <1>1, <1>4, <1>5, <2>1, <2>2
<1>6. CASE m.status = "aggregation" /\ finish(p, "answer", m.rows)
  <2>1. snap[p] # {}
    BY <1>2, <1>3, <1>6 DEF stream, unserved
  <2>2. \A held \in snap[p] : m.rows = held
    BY <1>2, <1>3, <1>6 DEF stream, served
  <2> QED BY <1>1, <1>4, <1>6, <2>1, <2>2
<1>7. CASE UNCHANGED phase /\ got' = [got EXCEPT ![p] = @ \cup m.rows]
  <2>1. \A q \in Query : got'[q] = got[q] \/ phase[q] # "answer"
    BY <1>1, <1>7 DEF TypeOK, waiting
  <2> QED BY <1>1, <1>7, <2>1, OutcomeUnchanged DEF Promise!vars
<1>8. CASE finish(p, "error", {})
  <2>1. /\ outcome[p] = "asked" /\ outcome' = [outcome EXCEPT ![p] = "error"] /\ answer' = answer
    BY <1>1, <1>8, OutcomeFinish
  <2> QED BY <1>1, <2>1 DEF Promise!Fail
<1> QED BY <1>5, <1>6, <1>7, <1>8, ReadCases DEF m

LEMMA AskPromise ==
    ASSUME TypeOK, NEW p \in Query, NEW s \in Subject, Ask(p, s)
    PROVE  Promise!Ask(p)
<1>1. phase[p] = "idle" /\ phase' = [phase EXCEPT ![p] = "waiting"] /\ UNCHANGED <<data, got, snap, lost>>
  BY DEF Ask, ghosts
<1>2. phase'[p] = "waiting" /\ \A q \in Query \ {p} : phase'[q] = phase[q]
  BY <1>1 DEF TypeOK
<1>3. /\ outcome[p] = "none" /\ outcome'[p] = "asked"
      /\ \A q \in Query \ {p} : outcome'[q] = outcome[q]
  BY <1>1, <1>2 DEF outcome, waiting
<1>4. \A q \in Query : answer'[q] = answer[q]
  BY <1>1, <1>2 DEF answer
<1>5. /\ outcome = [q \in Query |-> outcome[q]] /\ outcome' = [q \in Query |-> outcome'[q]]
      /\ answer' = answer
  BY <1>4 DEF outcome, answer
<1> HIDE DEF outcome, answer
<1>6. outcome' = [outcome EXCEPT ![p] = "asked"]
  BY <1>3, <1>5
<1> QED BY <1>1, <1>3, <1>5, <1>6 DEF Promise!Ask

LEMMA ServePromise ==
    ASSUME TypeOK, ServedOnce, NEW s \in Subject, Begin(s)
    PROVE  (\E q \in Query : Promise!Serve(q)) \/ UNCHANGED Promise!vars
<1> DEFINE p == Head(queue[s])
<1>1. p \in Query /\ snap[p] = {} /\ phase[p] # "idle"
  <2>1. queue[s] \in Seq(Query) /\ queue[s] # <<>>
    BY DEF TypeOK, Begin
  <2>2. p = queue[s][1] /\ 1 \in DOMAIN queue[s] /\ p \in Query
    BY <2>1
  <2> HIDE DEF p
  <2> QED BY <2>2 DEF ServedOnce, RequestsUnserved
<1>2. UNCHANGED phase /\ UNCHANGED <<data, got, lost>>
  BY DEF Begin, client
<1>3. UNCHANGED <<outcome, answer>>
  BY <1>2, OutcomeUnchanged
<1>4. UNCHANGED snap \/ snap' = [snap EXCEPT ![p] = {data}]
  BY DEF Begin
<1> HIDE DEF p
<1>5. outcome[p] # "none"
  BY <1>1 DEF outcome, waiting, TypeOK
<1> QED BY <1>1, <1>2, <1>3, <1>4, <1>5 DEF Promise!Serve, Promise!vars

\* Every call ends as QueryPromise says, for any number of calls, rows, handlers
\* and faults.
THEOREM AnswersAreSnapshots == Spec => ImplementsPromise
<1>1. Init => Promise!Init
  BY DEF Init, Promise!Init, outcome, answer, waiting
<1>2. ASSUME TypeOK, ServedOnce, NothingMissing, [Next]_vars PROVE [Promise!Next]_(Promise!vars)
  <2>0. ASSUME UNCHANGED phase, UNCHANGED <<data, got, snap, lost>> PROVE UNCHANGED Promise!vars
    BY <2>0, OutcomeUnchanged DEF Promise!vars
  <2>1. ASSUME Write PROVE Promise!Write
    <3>1. UNCHANGED phase /\ UNCHANGED <<got, snap, lost>> /\ data' \in SUBSET Row
      BY <2>1 DEF Write, client, ghosts
    <3> QED BY <3>1, OutcomeUnchanged DEF Promise!Write
  <2>2. CASE Start \/ Stop \/ Exit \/ UNCHANGED vars
    BY <2>0, <2>2 DEF Start, Stop, Exit, vars, client, ghosts
  <2>3. ASSUME NEW s \in Subject, SendNext(s) \/ SendFails(s) \/ SendDone(s) PROVE UNCHANGED Promise!vars
    BY <2>0, <2>3 DEF SendNext, SendFails, SendDone, client, ghosts
  <2>4. ASSUME NEW p \in Query, Overflow(p) PROVE UNCHANGED Promise!vars
    BY <2>0, <2>4 DEF Overflow, client, ghosts
  <2>5. ASSUME NEW p \in Query, Lose(p) PROVE Promise!Lose(p) \/ UNCHANGED Promise!vars
    <3>1. UNCHANGED phase /\ UNCHANGED <<data, got, snap>>
      BY <2>5 DEF Lose, client
    <3>2. lost' = lost \/ lost' = lost \cup {p}
      BY <2>5 DEF Lose
    <3> QED BY <3>1, <3>2, OutcomeUnchanged DEF Promise!Lose, Promise!vars
  <2>6. ASSUME NEW p \in Query, GiveUp(p) PROVE Promise!Fail(p)
    <3>1. waiting(p) /\ finish(p, "error", {}) /\ UNCHANGED <<data, snap, lost>>
      BY <2>6 DEF GiveUp, ghosts
    <3>2. outcome[p] = "asked" /\ outcome' = [outcome EXCEPT ![p] = "error"] /\ answer' = answer
      BY <1>2, <3>1, OutcomeFinish
    <3> QED BY <3>1, <3>2 DEF Promise!Fail
  <2> QED BY <1>2, <2>1, <2>2, <2>3, <2>4, <2>5, <2>6, AskPromise, ServePromise, ReceivePromise
          DEF Next, Handle, Promise!Next
<1>3. Spec => [](TypeOK /\ ServedOnce /\ NothingMissing)
  BY TypeCorrect, RequestsServedOnce, NoRowMissing, PTL
<1> QED BY <1>1, <1>2, <1>3, PTL DEF Spec, ImplementsPromise, Promise!Spec
=============================================================================
