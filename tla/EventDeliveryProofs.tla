------------------------ MODULE EventDeliveryProofs ------------------------
(***************************************************************************)
(* That what was published is stored, on its way, or used up, and that a   *)
(* message is used up by failures only, for every number of entities,      *)
(* versions, deliveries, pending messages and faults.                      *)
(*                                                                         *)
(* The invariant follows a message: what a delivery in vain costs is a     *)
(* fault of its own, and once the upsert has returned the version has been *)
(* applied, so that the message is no longer needed.                       *)
(***************************************************************************)
EXTENDS EventDelivery, SequenceTheorems, TLAPS

inHand == {"handling", "stored"}

\* Each delivery but the one under way was in vain, and took a fault.
messageOK(e, m) ==
    /\ m.status = "queued" => m.tries = 0
    /\ m.status = "waiting" => m.tries < MaxDeliver /\ m.tries <= faults
    /\ m.status \in inHand => m.tries - 1 <= faults
    /\ m.status = "stored" => m.version \in applied[e]

\* What was published last of an entity is accounted for, and it took as many
\* faults as a message has deliveries to use one up.
laneOK(e) ==
    /\ \A i \in DOMAIN stream[e] : messageOK(e, stream[e][i])
    /\ announced[e] > 0 =>
           \/ announced[e] \in applied[e] \cup exhausted[e]
           \/ \E i \in DOMAIN stream[e] : stream[e][i].version = announced[e]
    /\ exhausted[e] # {} => faults >= MaxDeliver

IndInv == TypeOK /\ \A e \in Entity : laneOK(e)

\* Nothing has been published at first.
LEMMA InitInv == Init => IndInv
  <1> SUFFICES ASSUME Init  PROVE IndInv
    OBVIOUS
  <1>1. \A e \in Entity : stream[e] = <<>> /\ DOMAIN stream[e] = {} /\ Len(stream[e]) = 0
    BY DEF Init
  <1>2. stream \in [Entity -> Seq(Message)]  BY DEF Init
  <1>3. TypeOK
    <2>1. \A e \in Entity : Len(stream[e]) <= MaxPending /\ inCallback(e) = {}
      BY <1>1, DeliveryAssumption DEF inCallback
    <2>2. 0 \in 0..MaxVersion /\ 0 \in 0..MaxFaults  BY DeliveryAssumption
    <2> QED  BY <1>2, <2>1, <2>2 DEF Init, TypeOK
  <1>4. \A e \in Entity : announced[e] = 0 /\ exhausted[e] = {}  BY DEF Init
  <1> QED  BY <1>1, <1>3, <1>4 DEF IndInv, laneOK

-----------------------------------------------------------------------------
\* Sequences of messages.

\* A sequence without its i-th element keeps the others.
LEMMA RemoveAtProperties ==
    ASSUME NEW S, NEW s \in Seq(S), NEW i \in 1..Len(s)
    PROVE  /\ RemoveAt(s, i) \in Seq(S) /\ Len(RemoveAt(s, i)) = Len(s) - 1
           /\ \A k \in 1..(i - 1) : RemoveAt(s, i)[k] = s[k]
           /\ \A k \in i..(Len(s) - 1) : RemoveAt(s, i)[k] = s[k + 1]
  <1> DEFINE a == SubSeq(s, 1, i - 1)
             b == SubSeq(s, i + 1, Len(s))
  <1>1. a \in Seq(S) /\ Len(a) = i - 1 /\ \A k \in 1..(i - 1) : a[k] = s[k]
    BY SubSeqProperties
  <1>2. b \in Seq(S) /\ Len(b) = Len(s) - i /\ \A k \in 1..(Len(s) - i) : b[k] = s[i + k]
    <2>1. i + 1 \in Int /\ Len(s) \in Int /\ \A k \in (i + 1)..Len(s) : s[k] \in S
      OBVIOUS
    <2>2. /\ b \in Seq(S)
          /\ Len(b) = IF i + 1 <= Len(s) THEN Len(s) - (i + 1) + 1 ELSE 0
          /\ \A k \in 1..(Len(s) - (i + 1) + 1) : b[k] = s[(i + 1) + k - 1]
      BY <2>1, SubSeqProperties
    <2>3. \A k \in 1..(Len(s) - i) : k \in 1..(Len(s) - (i + 1) + 1) /\ (i + 1) + k - 1 = i + k
      OBVIOUS
    <2> HIDE DEF b
    <2> QED  BY <2>2, <2>3
  <1> HIDE DEF a, b
  <1>3. a \o b \in Seq(S) /\ Len(a \o b) = Len(s) - 1
    <2>1. a \o b \in Seq(S) /\ Len(a \o b) = Len(a) + Len(b)  BY <1>1, <1>2, ConcatProperties
    <2>2. Len(s) \in Nat /\ i \in Nat  OBVIOUS
    <2> QED  BY <1>1, <1>2, <2>1, <2>2
  <1>4. \A k \in 1..(i - 1) : (a \o b)[k] = s[k]  BY <1>1, <1>2, ConcatProperties
  <1>5. ASSUME NEW k \in i..(Len(s) - 1)  PROVE (a \o b)[k] = s[k + 1]
    <2>1. (a \o b)[k] = b[k - (i - 1)]  BY <1>1, <1>2, ConcatProperties
    <2>2. k - (i - 1) \in 1..(Len(s) - i) /\ i + (k - (i - 1)) = k + 1  OBVIOUS
    <2> QED  BY <1>2, <2>1, <2>2
  <1> QED  BY <1>3, <1>4, <1>5 DEF RemoveAt, a, b

\* The same, without positions.
LEMMA RemoveAtKeepsOthers ==
    ASSUME NEW S, NEW s \in Seq(S), NEW i \in DOMAIN s
    PROVE  /\ RemoveAt(s, i) \in Seq(S) /\ Len(RemoveAt(s, i)) <= Len(s)
           /\ \A k \in DOMAIN RemoveAt(s, i) : \E j \in DOMAIN s \ {i} : RemoveAt(s, i)[k] = s[j]
           /\ \A j \in DOMAIN s \ {i} : \E k \in DOMAIN RemoveAt(s, i) : RemoveAt(s, i)[k] = s[j]
  <1> DEFINE r == RemoveAt(s, i)
  <1>1. Len(s) \in Nat /\ DOMAIN s = 1..Len(s)  OBVIOUS
  <1>2. /\ r \in Seq(S) /\ Len(r) = Len(s) - 1
        /\ \A k \in 1..(i - 1) : r[k] = s[k]
        /\ \A k \in i..(Len(s) - 1) : r[k] = s[k + 1]
    BY <1>1, RemoveAtProperties
  <1> HIDE DEF r
  <1>3. DOMAIN r = 1..(Len(s) - 1)  BY <1>2
  <1>4. ASSUME NEW k \in DOMAIN r  PROVE \E j \in DOMAIN s \ {i} : r[k] = s[j]
    <2>1. CASE k < i
      <3>1. k \in DOMAIN s \ {i} /\ r[k] = s[k]  BY <1>1, <1>2, <1>3, <2>1
      <3> QED  BY <3>1
    <2>2. CASE ~(k < i)
      <3>1. k + 1 \in DOMAIN s \ {i} /\ r[k] = s[k + 1]  BY <1>1, <1>2, <1>3, <2>2
      <3> QED  BY <3>1
    <2> QED  BY <2>1, <2>2
  <1>5. ASSUME NEW j \in DOMAIN s \ {i}  PROVE \E k \in DOMAIN r : r[k] = s[j]
    <2>1. CASE j < i
      <3>1. j \in DOMAIN r /\ r[j] = s[j]  BY <1>1, <1>2, <1>3, <2>1
      <3> QED  BY <3>1
    <2>2. CASE ~(j < i)
      <3>1. j - 1 \in DOMAIN r /\ r[j - 1] = s[j]  BY <1>1, <1>2, <1>3, <2>2
      <3> QED  BY <3>1
    <2> QED  BY <2>1, <2>2
  <1> QED  BY <1>1, <1>2, <1>4, <1>5 DEF r

\* After a delivery in vain no message of the entity is in hand: the one that
\* was waits, or is gone if it was spent.
LEMMA TakenBack ==
    ASSUME TypeOK, NEW e \in Entity, NEW i \in inCallback(e)
    PROVE  /\ takeBack(e, i) \in Seq(Message) /\ Len(takeBack(e, i)) <= MaxPending
           /\ \A k \in DOMAIN takeBack(e, i) :
                  \/ \E j \in DOMAIN stream[e] :
                         takeBack(e, i)[k] = stream[e][j] /\ stream[e][j].status \notin inHand
                  \/ ~spent(e, i) /\ takeBack(e, i)[k] = [stream[e][i] EXCEPT !.status = "waiting"]
           /\ \A j \in DOMAIN stream[e] :
                  \/ \E k \in DOMAIN takeBack(e, i) : takeBack(e, i)[k].version = stream[e][j].version
                  \/ j = i /\ spent(e, i)
  <1> DEFINE s == stream[e]
  <1>1. s \in Seq(Message) /\ i \in DOMAIN s /\ Len(s) <= MaxPending /\ Len(s) \in Nat
    BY DEF TypeOK, inCallback
  <1>2. \A j \in DOMAIN s \ {i} : s[j].status \notin inHand
    BY DEF TypeOK, inCallback, inHand
  <1>3. CASE spent(e, i)
    <2>1. takeBack(e, i) = RemoveAt(s, i)  BY <1>3 DEF takeBack
    <2> HIDE DEF s
    <2>2. /\ RemoveAt(s, i) \in Seq(Message) /\ Len(RemoveAt(s, i)) <= Len(s)
          /\ \A k \in DOMAIN RemoveAt(s, i) : \E j \in DOMAIN s \ {i} : RemoveAt(s, i)[k] = s[j]
          /\ \A j \in DOMAIN s \ {i} : \E k \in DOMAIN RemoveAt(s, i) : RemoveAt(s, i)[k] = s[j]
      BY <1>1, RemoveAtKeepsOthers
    <2>3. Len(RemoveAt(s, i)) <= MaxPending
      BY <1>1, <2>2, DeliveryAssumption
    <2>4. \A k \in DOMAIN RemoveAt(s, i) :
              \E j \in DOMAIN s : RemoveAt(s, i)[k] = s[j] /\ s[j].status \notin inHand
      BY <1>2, <2>2
    <2>5. \A j \in DOMAIN s :
              \/ \E k \in DOMAIN RemoveAt(s, i) : RemoveAt(s, i)[k].version = s[j].version
              \/ j = i
      BY <2>2
    <2> QED  BY <1>3, <2>1, <2>2, <2>3, <2>4, <2>5 DEF s
  <1>4. CASE ~spent(e, i)
    <2> DEFINE m == [s[i] EXCEPT !.status = "waiting"]
               r == [s EXCEPT ![i] = m]
    <2>1. takeBack(e, i) = r  BY <1>4 DEF takeBack
    <2>2. s[i] \in Message  BY <1>1
    <2>3. m \in Message /\ m.version = s[i].version  BY <2>2 DEF Message
    <2> HIDE DEF s, m
    <2>4. /\ r \in Seq(Message) /\ Len(r) = Len(s) /\ DOMAIN r = DOMAIN s
          /\ r[i] = m /\ \A j \in DOMAIN s \ {i} : r[j] = s[j]
      BY <1>1, <2>3
    <2> HIDE DEF r
    <2>5. \A k \in DOMAIN r : (\E j \in DOMAIN s : r[k] = s[j] /\ s[j].status \notin inHand) \/ r[k] = m
      BY <1>2, <2>4
    <2>6. \A j \in DOMAIN s : r[j].version = s[j].version
      BY <2>3, <2>4
    <2> QED  BY <1>1, <1>4, <2>1, <2>4, <2>5, <2>6 DEF s, m
  <1> QED  BY <1>3, <1>4
-----------------------------------------------------------------------------
\* Steps.

\* An entity to which nothing happens is not concerned by more faults.
LEMMA OtherLane ==
    ASSUME NEW e, laneOK(e), faults \in Nat, faults' \in Nat, faults' >= faults,
           MaxDeliver \in Nat,
           stream'[e] = stream[e], stream[e] \in Seq(Message), announced'[e] = announced[e],
           applied'[e] = applied[e], exhausted'[e] = exhausted[e]
    PROVE  laneOK(e)'
  <1>1. ASSUME NEW i \in DOMAIN stream[e]  PROVE messageOK(e, stream[e][i])'
    <2>1. stream[e][i] \in Message  OBVIOUS
    <2>2. stream[e][i].tries \in Nat  BY <2>1 DEF Message
    <2>3. messageOK(e, stream[e][i])  BY DEF laneOK
    <2> QED  BY <2>2, <2>3 DEF messageOK
  <1> QED  BY <1>1 DEF laneOK

\* A step on one entity's messages, which become t and are as they should be.
laneBecomes(e, t) ==
    /\ stream' = [stream EXCEPT ![e] = t]
    /\ t \in Seq(Message) /\ Len(t) <= MaxPending
    /\ \A i, j \in DOMAIN t : t[i].status \in inHand /\ t[j].status \in inHand => i = j
    /\ \A i \in DOMAIN t :
           /\ t[i].status = "queued" => t[i].tries = 0
           /\ t[i].status = "waiting" => t[i].tries < MaxDeliver /\ t[i].tries <= faults'
           /\ t[i].status \in inHand => t[i].tries - 1 <= faults'
           /\ t[i].status = "stored" => t[i].version \in applied'[e]
    /\ announced'[e] > 0 =>
           \/ announced'[e] \in applied'[e] \cup exhausted'[e]
           \/ \E i \in DOMAIN t : t[i].version = announced'[e]
    /\ exhausted'[e] = exhausted[e] \/ faults' >= MaxDeliver

\* The rest of the state keeps its type, and that of other entities its value.
othersKept(e) ==
    /\ UNCHANGED <<source, streamExists, running>>
    /\ announced' \in [Entity -> 0..MaxVersion] /\ store' \in [Entity -> 0..MaxVersion]
    /\ applied' \in [Entity -> SUBSET (1..MaxVersion)]
    /\ exhausted' \in [Entity -> SUBSET (1..MaxVersion)]
    /\ faults' \in 0..MaxFaults /\ faults' >= faults
    /\ \A d \in Entity \ {e} : /\ announced'[d] = announced[d] /\ applied'[d] = applied[d]
                               /\ exhausted'[d] = exhausted[d]

LEMMA LaneStep ==
    ASSUME IndInv, NEW e \in Entity, NEW t, laneBecomes(e, t), othersKept(e)
    PROVE  IndInv'
  <1> USE DEF laneBecomes, othersKept
  <1>1. TypeOK /\ \A d \in Entity : laneOK(d)  BY DEF IndInv
  <1>2. stream'[e] = t /\ \A d \in Entity \ {e} : stream'[d] = stream[d]  BY <1>1 DEF TypeOK
  <1>3. stream' \in [Entity -> Seq(Message)]  BY <1>1 DEF TypeOK
  <1>4. faults \in Nat /\ faults' \in Nat /\ MaxDeliver \in Nat
    BY <1>1, DeliveryAssumption DEF TypeOK
  <1>5. ASSUME NEW d \in Entity
        PROVE  Len(stream'[d]) <= MaxPending /\ \A i, j \in inCallback(d)' : i = j
    <2>1. CASE d = e  BY <1>2, <2>1 DEF inCallback, inHand
    <2>2. CASE d # e  BY <1>1, <1>2, <2>2 DEF TypeOK, inCallback
    <2> QED  BY <2>1, <2>2
  <1>6. TypeOK'  BY <1>1, <1>3, <1>5 DEF TypeOK
  <1>7. laneOK(e)'
    <2>1. exhausted[e] # {} => faults >= MaxDeliver  BY <1>1 DEF laneOK
    <2>2. exhausted'[e] # {} => faults' >= MaxDeliver  BY <1>4, <2>1
    <2> QED  BY <1>2, <2>2 DEF laneOK, messageOK
  <1>8. ASSUME NEW d \in Entity \ {e}  PROVE laneOK(d)'
    BY <1>1, <1>2, <1>4, OtherLane DEF TypeOK
  <1> QED  BY <1>6, <1>7, <1>8 DEF IndInv

\* A published version is in the stream.
LEMMA PublishInv == ASSUME IndInv, NEW e \in Entity, Publish(e)  PROVE IndInv'
  <1> PICK m : m = [version |-> source[e], tries |-> 0, status |-> "queued"]
    OBVIOUS
  <1> PICK t : t = Append(stream[e], m)
    OBVIOUS
  <1>1. TypeOK /\ laneOK(e)  BY DEF IndInv
  <1>2. /\ stream[e] \in Seq(Message) /\ Len(stream[e]) \in Nat /\ Len(stream[e]) < MaxPending
        /\ MaxPending \in Nat /\ MaxDeliver \in Nat
    BY <1>1, DeliveryAssumption DEF Publish, TypeOK
  <1>3. source[e] \in 1..MaxVersion
    BY <1>1, DeliveryAssumption DEF Publish, TypeOK
  <1>4. m \in Message  BY <1>2, <1>3 DEF Message
  <1>5. m.version = source[e] /\ m.tries = 0 /\ m.status = "queued"  OBVIOUS
  <1>6. stream' = [stream EXCEPT ![e] = t] /\ announced' = [announced EXCEPT ![e] = source[e]]
    BY DEF Publish
  <1>7. /\ UNCHANGED <<source, streamExists, running, store, applied, exhausted, faults>>
    BY DEF Publish
  <1>8. /\ t \in Seq(Message) /\ Len(t) = Len(stream[e]) + 1
        /\ \A i \in DOMAIN stream[e] : t[i] = stream[e][i]
        /\ t[Len(stream[e]) + 1] = m
        /\ DOMAIN t = DOMAIN stream[e] \cup {Len(stream[e]) + 1}
    BY <1>2, <1>4, AppendProperties
  <1>9. laneBecomes(e, t)
    <2>1. \A i, j \in DOMAIN t : t[i].status \in inHand /\ t[j].status \in inHand => i = j
      BY <1>1, <1>5, <1>8 DEF TypeOK, inCallback, inHand
    <2>2. \A i \in DOMAIN t : messageOK(e, t[i])
      BY <1>1, <1>5, <1>8 DEF laneOK, messageOK, inHand
    <2>3. \E i \in DOMAIN t : t[i].version = announced'[e]
      BY <1>1, <1>5, <1>6, <1>8 DEF TypeOK
    <2>4. Len(t) <= MaxPending  BY <1>2, <1>8
    <2> QED  BY <1>6, <1>7, <1>8, <2>1, <2>2, <2>3, <2>4 DEF laneBecomes, messageOK
  <1>10. othersKept(e)
    <2>1. announced' \in [Entity -> 0..MaxVersion]  BY <1>1, <1>3, <1>6 DEF TypeOK
    <2>2. faults' >= faults  BY <1>1, <1>7, DeliveryAssumption DEF TypeOK
    <2> QED  BY <1>1, <1>6, <1>7, <2>1, <2>2 DEF othersKept, TypeOK
  <1> QED  BY <1>9, <1>10, LaneStep

\* What becomes of a message at position i when nothing else happens to the
\* entity's messages.
LEMMA Replace ==
    ASSUME NEW s \in Seq(Message), NEW i \in DOMAIN s, NEW m \in Message, m.version = s[i].version
    PROVE  /\ [s EXCEPT ![i] = m] \in Seq(Message) /\ Len([s EXCEPT ![i] = m]) = Len(s)
           /\ DOMAIN [s EXCEPT ![i] = m] = DOMAIN s
           /\ [s EXCEPT ![i] = m][i] = m
           /\ \A j \in DOMAIN s \ {i} : [s EXCEPT ![i] = m][j] = s[j]
           /\ \A j \in DOMAIN s : [s EXCEPT ![i] = m][j].version = s[j].version
  OBVIOUS

\* A message is delivered: as no other is in hand, it is the only one, and it has
\* a delivery left.
LEMMA DeliverInv ==
    ASSUME IndInv, NEW e \in Entity, Deliver(e) \/ Redeliver(e)
    PROVE  IndInv'
  <1>1. PICK i \in DOMAIN stream[e] : stream[e][i].status \in {"queued", "waiting"} /\ deliverAt(e, i)
    BY DEF Deliver, Redeliver
  <1> PICK s : s = stream[e]
    OBVIOUS
  <1> PICK m : m = [s[i] EXCEPT !.status = "handling", !.tries = @ + 1]
    OBVIOUS
  <1> PICK t : t = [s EXCEPT ![i] = m]
    OBVIOUS
  <1>2. TypeOK /\ laneOK(e)  BY DEF IndInv
  <1>3. s \in Seq(Message) /\ s[i] \in Message /\ messageOK(e, s[i]) /\ Len(s) <= MaxPending
    BY <1>2 DEF TypeOK, laneOK
  <1>4. s[i].tries \in Nat /\ s[i].tries < MaxDeliver /\ s[i].tries <= faults
    BY <1>1, <1>2, <1>3, DeliveryAssumption DEF messageOK, Message, TypeOK
  <1>5. /\ m \in Message /\ m.version = s[i].version
        /\ m.status = "handling" /\ m.tries = s[i].tries + 1
    <2>1. s[i] = [version |-> s[i].version, tries |-> s[i].tries, status |-> s[i].status]
      BY <1>3 DEF Message
    <2>2. m = [version |-> s[i].version, tries |-> s[i].tries + 1, status |-> "handling"]
      BY <2>1
    <2>3. s[i].version \in 1..MaxVersion /\ s[i].tries + 1 \in 0..MaxDeliver
      BY <1>3, <1>4, DeliveryAssumption DEF Message
    <2> QED  BY <2>2, <2>3 DEF Message
  <1>6. stream' = [stream EXCEPT ![e] = t]
    BY <1>1, <1>2 DEF deliverAt, TypeOK
  <1>7. /\ \A j \in DOMAIN s : s[j].status \notin inHand
        /\ UNCHANGED <<source, announced, streamExists, running, store, applied, exhausted, faults>>
    BY <1>1 DEF deliverAt, inHand
  <1>8. /\ t \in Seq(Message) /\ Len(t) = Len(s) /\ DOMAIN t = DOMAIN s
        /\ t[i] = m /\ \A j \in DOMAIN s \ {i} : t[j] = s[j]
        /\ \A j \in DOMAIN s : t[j].version = s[j].version
    BY <1>1, <1>3, <1>5, Replace
  <1>9. laneBecomes(e, t)
    <2>1. \A j, k \in DOMAIN t : t[j].status \in inHand /\ t[k].status \in inHand => j = k
      BY <1>7, <1>8
    <2>2. ASSUME NEW j \in DOMAIN t  PROVE messageOK(e, t[j])
      <3>1. CASE j = i
        <4>1. m.tries - 1 <= faults  BY <1>4, <1>5
        <4> QED  BY <1>5, <1>8, <3>1, <4>1 DEF messageOK
      <3>2. CASE j # i  BY <1>2, <1>8, <3>2 DEF laneOK, messageOK
      <3> QED  BY <3>1, <3>2
    <2>3. announced[e] > 0 =>
              announced[e] \in applied[e] \cup exhausted[e] \/ \E j \in DOMAIN t : t[j].version = announced[e]
      BY <1>2, <1>8 DEF laneOK
    <2> QED  BY <1>3, <1>6, <1>7, <1>8, <2>1, <2>2, <2>3 DEF laneBecomes, messageOK
  <1>10. othersKept(e)
    <2>1. faults' >= faults  BY <1>2, <1>7, DeliveryAssumption DEF TypeOK
    <2> QED  BY <1>2, <1>7, <2>1 DEF othersKept, TypeOK
  <1> QED  BY <1>9, <1>10, LaneStep
\* What is left in vain of an entity's messages is as it should be after one
\* more fault; a version that is gone has used its deliveries up.
LEMMA TakenBackLane ==
    ASSUME TypeOK, NEW e \in Entity, laneOK(e), NEW i \in inCallback(e)
    PROVE  /\ \A k \in DOMAIN takeBack(e, i) :
                  LET m == takeBack(e, i)[k]
                  IN /\ m.status \notin inHand
                     /\ m.status = "queued" => m.tries = 0
                     /\ m.status = "waiting" => m.tries < MaxDeliver /\ m.tries <= faults + 1
           /\ spent(e, i) => faults + 1 >= MaxDeliver
           /\ announced[e] > 0 =>
                  \/ announced[e] \in applied[e] \cup exhausted[e]
                  \/ spent(e, i) /\ stream[e][i].version = announced[e]
                  \/ \E k \in DOMAIN takeBack(e, i) : takeBack(e, i)[k].version = announced[e]
  <1>1. /\ faults \in Nat /\ MaxDeliver \in Nat
        /\ stream[e] \in Seq(Message) /\ i \in DOMAIN stream[e] /\ stream[e][i].status \in inHand
    BY DeliveryAssumption DEF TypeOK, inCallback, inHand
  <1>2. \A j \in DOMAIN stream[e] : stream[e][j] \in Message /\ messageOK(e, stream[e][j])
    BY <1>1 DEF laneOK
  <1>3. /\ \A k \in DOMAIN takeBack(e, i) :
               \/ \E j \in DOMAIN stream[e] :
                      takeBack(e, i)[k] = stream[e][j] /\ stream[e][j].status \notin inHand
               \/ ~spent(e, i) /\ takeBack(e, i)[k] = [stream[e][i] EXCEPT !.status = "waiting"]
        /\ \A j \in DOMAIN stream[e] :
               \/ \E k \in DOMAIN takeBack(e, i) : takeBack(e, i)[k].version = stream[e][j].version
               \/ j = i /\ spent(e, i)
    BY TakenBack
  <1>4. stream[e][i].tries \in 0..MaxDeliver /\ stream[e][i].tries <= faults + 1
    BY <1>1, <1>2 DEF messageOK, Message
  <1>5. ASSUME NEW k \in DOMAIN takeBack(e, i), NEW m, m = takeBack(e, i)[k]
        PROVE  /\ m.status \notin inHand
               /\ m.status = "queued" => m.tries = 0
               /\ m.status = "waiting" => m.tries < MaxDeliver /\ m.tries <= faults + 1
    <2>1. ASSUME NEW j \in DOMAIN stream[e], m = stream[e][j], stream[e][j].status \notin inHand
          PROVE  /\ m.status \notin inHand
                 /\ m.status = "queued" => m.tries = 0
                 /\ m.status = "waiting" => m.tries < MaxDeliver /\ m.tries <= faults + 1
      <3>1. m \in Message /\ messageOK(e, m)  BY <1>2, <2>1
      <3>2. m.tries \in Nat  BY <3>1 DEF Message
      <3> QED  BY <1>1, <2>1, <3>1, <3>2 DEF messageOK
    <2>2. ASSUME ~spent(e, i), m = [stream[e][i] EXCEPT !.status = "waiting"]
          PROVE  m.status = "waiting" /\ m.tries < MaxDeliver /\ m.tries <= faults + 1
      <3>1. m.status = "waiting" /\ m.tries = stream[e][i].tries
        BY <1>1, <1>2, <2>2 DEF Message
      <3> QED  BY <1>1, <1>4, <2>2, <3>1 DEF spent
    <2> QED  BY <1>3, <1>5, <2>1, <2>2 DEF inHand
  <1>6. spent(e, i) => faults + 1 >= MaxDeliver  BY <1>1, <1>4 DEF spent
  <1>7. announced[e] > 0 =>
            \/ announced[e] \in applied[e] \cup exhausted[e]
            \/ spent(e, i) /\ stream[e][i].version = announced[e]
            \/ \E k \in DOMAIN takeBack(e, i) : takeBack(e, i)[k].version = announced[e]
    BY <1>3 DEF laneOK
  <1> QED  BY <1>5, <1>6, <1>7

\* A step that takes message i back, one more fault, leaves the entity as it should
\* be, if a version that was not applied is used up with its last delivery.
LEMMA TakeBackStep ==
    ASSUME TypeOK, NEW e \in Entity, laneOK(e), NEW i \in inCallback(e), NEW t, t = takeBack(e, i),
           stream' = [stream EXCEPT ![e] = t], faults' = faults + 1, faults \in Nat,
           announced'[e] = announced[e], applied'[e] = applied[e],
           \/ exhausted'[e] = exhausted[e] /\ (spent(e, i) => stream[e][i].version \in applied[e])
           \/ exhausted'[e] = exhausted[e] \cup {stream[e][i].version} /\ spent(e, i)
    PROVE  laneBecomes(e, t)
  <1>1. t \in Seq(Message) /\ Len(t) <= MaxPending  BY TakenBack
  <1>2. \A k \in DOMAIN t :
            /\ t[k].status \notin inHand
            /\ t[k].status = "queued" => t[k].tries = 0
            /\ t[k].status = "waiting" => t[k].tries < MaxDeliver /\ t[k].tries <= faults'
    BY TakenBackLane
  <1>3. spent(e, i) => faults' >= MaxDeliver  BY TakenBackLane
  <1>4. announced[e] > 0 =>
            \/ announced[e] \in applied[e] \cup exhausted[e]
            \/ spent(e, i) /\ stream[e][i].version = announced[e]
            \/ \E k \in DOMAIN t : t[k].version = announced[e]
    BY TakenBackLane
  <1>5. announced'[e] > 0 =>
            \/ announced'[e] \in applied'[e] \cup exhausted'[e]
            \/ \E k \in DOMAIN t : t[k].version = announced'[e]
    BY <1>4
  <1>6. exhausted'[e] = exhausted[e] \/ faults' >= MaxDeliver  BY <1>3
  <1>7. \A k \in DOMAIN t : t[k].status # "stored"  BY <1>2 DEF inHand
  <1> QED  BY <1>1, <1>2, <1>5, <1>6, <1>7 DEF laneBecomes

\* A version whose upsert returned is applied; one whose handler failed for the
\* last time is used up.
LEMMA HandleInv ==
    ASSUME IndInv, NEW e \in Entity, NEW i \in DOMAIN stream[e], NEW ok \in BOOLEAN,
           Handle(e, i, ok)
    PROVE  IndInv'
  <1> PICK s : s = stream[e]
    OBVIOUS
  <1>1. TypeOK /\ laneOK(e)  BY DEF IndInv
  <1>2. /\ s \in Seq(Message) /\ s[i] \in Message /\ messageOK(e, s[i]) /\ Len(s) <= MaxPending
        /\ s[i].status = "handling" /\ i \in inCallback(e)
    BY <1>1 DEF Handle, TypeOK, laneOK, inCallback
  <1>3. /\ UNCHANGED <<source, announced, streamExists, running>>
        /\ s[i].version \in 1..MaxVersion /\ s[i].version \in 0..MaxVersion
    BY <1>2, DeliveryAssumption DEF Handle, Message
  <1>4. CASE ok
    <2> PICK m : m = [s[i] EXCEPT !.status = "stored"]
      OBVIOUS
    <2> PICK t : t = [s EXCEPT ![i] = m]
      OBVIOUS
    <2>1. m \in Message /\ m.version = s[i].version /\ m.status = "stored" /\ m.tries = s[i].tries
      BY <1>2 DEF Message
    <2>2. /\ t \in Seq(Message) /\ Len(t) = Len(s) /\ DOMAIN t = DOMAIN s
          /\ t[i] = m /\ \A j \in DOMAIN s \ {i} : t[j] = s[j]
          /\ \A j \in DOMAIN s : t[j].version = s[j].version
      BY <1>2, <2>1, Replace
    <2>3. /\ stream' = [stream EXCEPT ![e] = t]
          /\ store' = [store EXCEPT ![e] = s[i].version]
          /\ applied' = [applied EXCEPT ![e] = @ \cup {s[i].version}]
          /\ UNCHANGED <<exhausted, faults>>
      BY <1>1, <1>4 DEF Handle, TypeOK
    <2>4. applied'[e] = applied[e] \cup {s[i].version}  BY <1>1, <2>3 DEF TypeOK
    <2>5. laneBecomes(e, t)
      <3>1. \A j, k \in DOMAIN t : t[j].status \in inHand /\ t[k].status \in inHand => j = k
        <4>1. \A j \in DOMAIN t : t[j].status \in inHand => s[j].status \in inHand
          BY <1>2, <2>2 DEF inHand
        <4> QED  BY <1>1, <2>2, <4>1 DEF TypeOK, inCallback, inHand
      <3>2. ASSUME NEW j \in DOMAIN t
            PROVE  /\ t[j].status = "queued" => t[j].tries = 0
                   /\ t[j].status = "waiting" => t[j].tries < MaxDeliver /\ t[j].tries <= faults
                   /\ t[j].status \in inHand => t[j].tries - 1 <= faults
                   /\ t[j].status = "stored" => t[j].version \in applied'[e]
        <4>1. CASE j = i  BY <1>2, <2>1, <2>2, <2>4, <4>1 DEF messageOK, inHand
        <4>2. CASE j # i  BY <1>1, <2>2, <2>4, <4>2 DEF laneOK, messageOK
        <4> QED  BY <4>1, <4>2
      <3>3. announced[e] > 0 =>
                \/ announced[e] \in applied'[e] \cup exhausted[e]
                \/ \E j \in DOMAIN t : t[j].version = announced[e]
        BY <1>1, <2>2, <2>4 DEF laneOK
      <3> QED  BY <1>2, <1>3, <2>2, <2>3, <3>1, <3>2, <3>3 DEF laneBecomes
    <2>6. othersKept(e)
      <3>1. store' \in [Entity -> 0..MaxVersion] /\ applied' \in [Entity -> SUBSET (1..MaxVersion)]
        BY <1>1, <1>3, <2>3 DEF TypeOK
      <3>2. faults' >= faults  BY <1>1, <2>3, DeliveryAssumption DEF TypeOK
      <3> QED  BY <1>1, <1>3, <2>3, <3>1, <3>2 DEF othersKept, TypeOK
    <2> QED  BY <2>5, <2>6, LaneStep
  <1>5. CASE ~ok
    <2> PICK t : t = takeBack(e, i)
      OBVIOUS
    <2>1. /\ stream' = [stream EXCEPT ![e] = t]
          /\ exhausted' = IF spent(e, i) THEN [exhausted EXCEPT ![e] = @ \cup {s[i].version}]
                                         ELSE exhausted
          /\ UNCHANGED <<store, applied>>
          /\ faults < MaxFaults /\ faults' = faults + 1
      BY <1>5 DEF Handle, fault
    <2>2. /\ exhausted'[e] = IF spent(e, i) THEN exhausted[e] \cup {s[i].version} ELSE exhausted[e]
          /\ \A d \in Entity \ {e} : exhausted'[d] = exhausted[d]
          /\ exhausted' \in [Entity -> SUBSET (1..MaxVersion)]
      BY <1>1, <1>3, <2>1 DEF TypeOK
    <2>3. laneBecomes(e, t)
      <3>1. s[i] = stream[e][i] /\ announced'[e] = announced[e] /\ applied'[e] = applied[e]
        BY <2>1 DEF Handle
      <3>2. \/ exhausted'[e] = exhausted[e] /\ ~spent(e, i)
            \/ exhausted'[e] = exhausted[e] \cup {stream[e][i].version} /\ spent(e, i)
        BY <2>2
      <3>3. faults \in Nat /\ i \in inCallback(e)  BY <1>1, <1>2, DeliveryAssumption DEF TypeOK
      <3> QED  BY <1>1, <2>1, <3>1, <3>2, <3>3, TakeBackStep
    <2>4. othersKept(e)
      <3>1. faults' \in 0..MaxFaults /\ faults' >= faults
        BY <1>1, <2>1, DeliveryAssumption DEF TypeOK
      <3> QED  BY <1>1, <1>3, <2>1, <2>2, <3>1 DEF othersKept, TypeOK
    <2> QED  BY <2>3, <2>4, LaneStep
  <1> QED  BY <1>4, <1>5

\* A message that is acked has been applied; so has one whose ack is lost.
LEMMA AckInv ==
    ASSUME IndInv, NEW e \in Entity, NEW i \in DOMAIN stream[e], NEW ok \in BOOLEAN,
           Ack(e, i, ok)
    PROVE  IndInv'
  <1> PICK s : s = stream[e]
    OBVIOUS
  <1>1. TypeOK /\ laneOK(e)  BY DEF IndInv
  <1>2. /\ s \in Seq(Message) /\ messageOK(e, s[i]) /\ Len(s) <= MaxPending /\ Len(s) \in Nat
        /\ s[i].status = "stored" /\ i \in inCallback(e)
    BY <1>1 DEF Ack, TypeOK, laneOK, inCallback
  <1>3. s[i].version \in applied[e]  BY <1>2 DEF messageOK
  <1>4. UNCHANGED <<source, announced, streamExists, running, store, applied, exhausted>>
    BY DEF Ack
  <1>5. CASE ok
    <2> PICK t : t = RemoveAt(s, i)
      OBVIOUS
    <2>1. stream' = [stream EXCEPT ![e] = t] /\ faults' = faults
      BY <1>1, <1>5 DEF Ack, TypeOK
    <2>2. /\ t \in Seq(Message) /\ Len(t) <= Len(s)
          /\ \A k \in DOMAIN t : \E j \in DOMAIN s \ {i} : t[k] = s[j]
          /\ \A j \in DOMAIN s \ {i} : \E k \in DOMAIN t : t[k] = s[j]
      BY <1>2, RemoveAtKeepsOthers
    <2>3. Len(t) <= MaxPending  BY <1>2, <2>2, DeliveryAssumption
    <2>4. \A j \in DOMAIN s \ {i} : s[j].status \notin inHand
      BY <1>1, <1>2 DEF TypeOK, inCallback, inHand
    <2>5. laneBecomes(e, t)
      <3>1. \A k \in DOMAIN t : t[k].status \notin inHand /\ messageOK(e, t[k])
        BY <1>1, <2>2, <2>4 DEF laneOK
      <3>2. announced[e] > 0 =>
                \/ announced[e] \in applied[e] \cup exhausted[e]
                \/ \E k \in DOMAIN t : t[k].version = announced[e]
        BY <1>1, <1>3, <2>2 DEF laneOK
      <3> QED  BY <1>4, <2>1, <2>2, <2>3, <3>1, <3>2 DEF laneBecomes, messageOK, inHand
    <2>6. othersKept(e)
      <3>1. faults' >= faults  BY <1>1, <2>1, DeliveryAssumption DEF TypeOK
      <3> QED  BY <1>1, <1>4, <2>1, <3>1 DEF othersKept, TypeOK
    <2> QED  BY <2>5, <2>6, LaneStep
  <1>6. CASE ~ok
    <2> PICK t : t = takeBack(e, i)
      OBVIOUS
    <2>1. stream' = [stream EXCEPT ![e] = t] /\ faults < MaxFaults /\ faults' = faults + 1
      BY <1>6 DEF Ack, fault
    <2>2. laneBecomes(e, t)
      <3>1. faults \in Nat /\ i \in inCallback(e)  BY <1>1, <1>2, DeliveryAssumption DEF TypeOK
      <3> QED  BY <1>1, <1>3, <1>4, <2>1, <3>1, TakeBackStep
    <2>3. othersKept(e)
      <3>1. faults' \in 0..MaxFaults /\ faults' >= faults
        BY <1>1, <2>1, DeliveryAssumption DEF TypeOK
      <3> QED  BY <1>1, <1>4, <2>1, <3>1 DEF othersKept, TypeOK
    <2> QED  BY <2>2, <2>3, LaneStep
  <1> QED  BY <1>5, <1>6

-----------------------------------------------------------------------------
\* Steps that are not of one entity's messages.

\* Nothing that the invariant speaks of changes.
LEMMA KeepInv ==
    ASSUME IndInv,
           UNCHANGED <<announced, stream, store, applied, exhausted, faults>>,
           source' \in [Entity -> 0..MaxVersion], streamExists' \in BOOLEAN, running' \in BOOLEAN
    PROVE  IndInv'
  <1>1. TypeOK /\ \A e \in Entity : laneOK(e)  BY DEF IndInv
  <1>2. TypeOK'  BY <1>1 DEF TypeOK, inCallback
  <1>3. \A e \in Entity : laneOK(e)'  BY <1>1 DEF laneOK, messageOK
  <1> QED  BY <1>2, <1>3 DEF IndInv

LEMMA SourceAndStartInv ==
    ASSUME IndInv, (\E e \in Entity : ChangeSource(e)) \/ Start
    PROVE  IndInv'
  <1>1. TypeOK  BY DEF IndInv
  <1>2. CASE \E e \in Entity : ChangeSource(e)
    <2>1. PICK e \in Entity : ChangeSource(e)  BY <1>2
    <2>2. source' \in [Entity -> 0..MaxVersion]
      <3>1. source[e] + 1 \in 0..MaxVersion
        BY <1>1, <2>1, DeliveryAssumption DEF TypeOK, ChangeSource
      <3> QED  BY <1>1, <2>1, <3>1 DEF TypeOK, ChangeSource
    <2> QED  BY <1>1, <2>1, <2>2, KeepInv DEF TypeOK, ChangeSource
  <1>3. CASE Start
    BY <1>1, <1>3, KeepInv DEF TypeOK, Start
  <1> QED  BY <1>2, <1>3

\* What the killed domain had in hand waits for its start, or is gone: applied
\* before the kill, or used up by it.
LEMMA CrashInv ==
    ASSUME IndInv, Crash
    PROVE  IndInv'
  <1>1. TypeOK /\ \A e \in Entity : laneOK(e)  BY DEF IndInv
  <1>2. /\ faults \in Nat /\ faults' = faults + 1 /\ faults' \in 0..MaxFaults
        /\ MaxDeliver \in Nat
    BY <1>1, DeliveryAssumption DEF Crash, fault, TypeOK
  <1>3. UNCHANGED <<source, announced, streamExists, applied>> /\ running' = FALSE
    BY DEF Crash
  <1> DEFINE lost(e) == {j \in inCallback(e) : spent(e, j) /\ stream[e][j].status = "handling"}
             back(e) == IF inCallback(e) = {} THEN stream[e]
                        ELSE takeBack(e, CHOOSE i \in inCallback(e) : TRUE)
             gone(e) == {stream[e][i].version : i \in lost(e)}
  <1>4. stream' = [e \in Entity |-> back(e)]  BY DEF Crash
  <1>5. exhausted' = [e \in Entity |-> exhausted[e] \cup gone(e)]  BY DEF Crash
  <1>6. store' \in [Entity -> 0..MaxVersion]
    BY <1>1, DeliveryAssumption DEF Crash, TypeOK
  <1>7. \A e \in Entity : stream'[e] = back(e) /\ exhausted'[e] = exhausted[e] \cup gone(e)
    <2> HIDE DEF back, gone
    <2> QED  BY <1>4, <1>5
  <1>8. ASSUME NEW e \in Entity
        PROVE  /\ back(e) \in Seq(Message) /\ Len(back(e)) <= MaxPending
               /\ \A i, j \in DOMAIN back(e) :
                      back(e)[i].status \in inHand /\ back(e)[j].status \in inHand => i = j
               /\ exhausted'[e] \in SUBSET (1..MaxVersion)
               /\ laneOK(e)'
    <2>1. CASE inCallback(e) = {}
      <3>1. back(e) = stream[e] /\ gone(e) = {}  BY <2>1
      <3> HIDE DEF back, gone
      <3>2. /\ stream[e] \in Seq(Message) /\ Len(stream[e]) <= MaxPending
            /\ exhausted[e] \in SUBSET (1..MaxVersion)
        BY <1>1 DEF TypeOK
      <3>3. \A i \in DOMAIN stream[e] : stream[e][i].status \notin inHand
        BY <2>1 DEF inCallback, inHand
      <3>4. laneOK(e)'
        <4>1. stream'[e] = stream[e] /\ exhausted'[e] = exhausted[e]  BY <1>7, <3>1
        <4>2. faults' \in Nat /\ faults' >= faults  BY <1>2
        <4> QED  BY <1>1, <1>2, <1>3, <3>2, <4>1, <4>2, OtherLane
      <3> QED  BY <1>7, <3>1, <3>2, <3>3, <3>4
    <2>2. CASE inCallback(e) # {}
      <3> PICK i : i = CHOOSE j \in inCallback(e) : TRUE
        OBVIOUS
      <3> PICK t : t = takeBack(e, i)
        OBVIOUS
      <3>1. i \in inCallback(e)  BY <2>2
      <3>2. back(e) = t  BY <2>2
      <3>3. inCallback(e) = {i}  BY <1>1, <3>1 DEF TypeOK
      <3>4. /\ stream[e] \in Seq(Message) /\ i \in DOMAIN stream[e]
            /\ stream[e][i] \in Message /\ messageOK(e, stream[e][i])
            /\ stream[e][i].status \in inHand
            /\ exhausted[e] \in SUBSET (1..MaxVersion)
        BY <1>1, <3>1 DEF TypeOK, laneOK, inCallback, inHand
      <3>5. /\ stream[e][i].version \in 1..MaxVersion
            /\ stream[e][i].status = "stored" => stream[e][i].version \in applied[e]
        BY <3>4 DEF Message, messageOK
      <3>6. gone(e) = IF spent(e, i) /\ stream[e][i].status = "handling"
                      THEN {stream[e][i].version} ELSE {}
        BY <3>3
      <3> HIDE DEF back, gone
      <3>7. \/ exhausted'[e] = exhausted[e] /\ (spent(e, i) => stream[e][i].version \in applied[e])
            \/ exhausted'[e] = exhausted[e] \cup {stream[e][i].version} /\ spent(e, i)
        BY <1>7, <3>4, <3>5, <3>6 DEF inHand
      <3>8. t \in Seq(Message) /\ Len(t) <= MaxPending
        BY <1>1, <3>1, TakenBack
      <3>9. \A k \in DOMAIN t :
                /\ t[k].status \notin inHand
                /\ t[k].status = "queued" => t[k].tries = 0
                /\ t[k].status = "waiting" => t[k].tries < MaxDeliver /\ t[k].tries <= faults'
        BY <1>1, <1>2, <3>1, TakenBackLane
      <3>10. laneOK(e)'
        <4>1. stream'[e] = t  BY <1>7, <3>2
        <4>2. \A k \in DOMAIN t : messageOK(e, t[k])'
          BY <3>9 DEF messageOK, inHand
        <4>3. announced[e] > 0 =>
                  \/ announced[e] \in applied[e] \cup exhausted'[e]
                  \/ \E k \in DOMAIN t : t[k].version = announced[e]
          BY <1>1, <3>1, <3>7, TakenBackLane
        <4>4. exhausted'[e] # {} => faults' >= MaxDeliver
          <5>1. spent(e, i) => faults' >= MaxDeliver  BY <1>1, <1>2, <3>1, TakenBackLane
          <5>2. exhausted[e] # {} => faults' >= MaxDeliver  BY <1>1, <1>2 DEF laneOK
          <5> QED  BY <3>7, <5>1, <5>2
        <4> QED  BY <1>3, <4>1, <4>2, <4>3, <4>4 DEF laneOK
      <3> QED  BY <1>7, <3>2, <3>4, <3>5, <3>7, <3>8, <3>9, <3>10
    <2> QED  BY <2>1, <2>2
  <1> HIDE DEF back, gone
  <1>9. TypeOK'
    <2>1. stream' \in [Entity -> Seq(Message)]  BY <1>4, <1>8
    <2>2. \A e \in Entity : Len(stream'[e]) <= MaxPending  BY <1>7, <1>8
    <2>3. \A e \in Entity : \A i, j \in inCallback(e)' : i = j
      BY <1>7, <1>8 DEF inCallback, inHand
    <2>4. exhausted' \in [Entity -> SUBSET (1..MaxVersion)]  BY <1>5, <1>7, <1>8
    <2> QED  BY <1>1, <1>2, <1>3, <1>6, <2>1, <2>2, <2>3, <2>4 DEF TypeOK
  <1> QED  BY <1>8, <1>9 DEF IndInv

-----------------------------------------------------------------------------
\* Every step keeps the invariant.
LEMMA StepInv == IndInv /\ [Next]_vars => IndInv'
  <1> SUFFICES ASSUME IndInv, [Next]_vars  PROVE IndInv'
    OBVIOUS
  <1>1. CASE (\E e \in Entity : ChangeSource(e)) \/ Start
    BY <1>1, SourceAndStartInv
  <1>2. ASSUME NEW e \in Entity, Publish(e)  PROVE IndInv'
    BY <1>2, PublishInv
  <1>3. ASSUME NEW e \in Entity, Consume(e)  PROVE IndInv'
    <2>1. CASE Deliver(e) \/ Redeliver(e)
      BY <2>1, DeliverInv
    <2>2. ASSUME NEW i \in DOMAIN stream[e], NEW ok \in BOOLEAN, Handle(e, i, ok)  PROVE IndInv'
      BY <2>2, HandleInv
    <2>3. ASSUME NEW i \in DOMAIN stream[e], NEW ok \in BOOLEAN, Ack(e, i, ok)  PROVE IndInv'
      BY <2>3, AckInv
    <2> QED  BY <1>3, <2>1, <2>2, <2>3 DEF Consume
  <1>4. CASE Crash
    BY <1>4, CrashInv
  <1>5. CASE UNCHANGED vars
    <2>1. TypeOK  BY DEF IndInv
    <2> QED  BY <1>5, <2>1, KeepInv DEF vars, TypeOK
  <1> QED  BY <1>1, <1>2, <1>3, <1>4, <1>5 DEF Next

THEOREM IndInvHolds == Spec => []IndInv
  <1> QED  BY InitInv, StepInv, PTL DEF Spec

\* The stream holds messages within its bounds, and a callback of the port has at
\* most one message of an entity, through redeliveries and restarts.
THEOREM TypeCorrect == Spec => []TypeOK
  <1>1. IndInv => TypeOK  BY DEF IndInv
  <1> QED  BY <1>1, IndInvHolds, PTL

\* What publish was told is in the stream has been stored, is in the stream or has
\* used up its deliveries, for any number of entities and any MaxDeliver, and
\* that takes MaxDeliver failures.
THEOREM NothingLost == Spec => []NothingLostInDelivery
  <1>1. IndInv => NothingLostInDelivery  BY DEF IndInv, laneOK, NothingLostInDelivery
  <1> QED  BY <1>1, IndInvHolds, PTL
=============================================================================
