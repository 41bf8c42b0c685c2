--------------------------- MODULE EventBusProofs ---------------------------
(***************************************************************************)
(* Proofs about EventBus, for any number of clients, connections and       *)
(* events, and for replay buffers and queues of any size.                  *)
(***************************************************************************)
EXTENDS EventBus, SequenceTheorems, WellFoundedInduction, TLAPS

(***************************************************************************)
(* The inductive invariant.                                                *)
(***************************************************************************)
Ascending(events) ==
  \A i, k \in 1 .. Len(events) : i < k => events[i].eid < events[k].eid

(* The replay buffer holds the newest events, all of them.                 *)
BufferInv ==
  /\ Len(buffer) <= lastId
  /\ \A i \in 1 .. Len(buffer) : buffer[i].eid = lastId - Len(buffer) + i

(* Deliveries are made in order; one number is one event.                  *)
CallbacksInv ==
  /\ Ascending(callbacks)
  /\ \A c \in Range(callbacks) :
       c.eid \in 1 .. lastId /\ \A b \in Range(buffer) : b.eid = c.eid => b = c

(* What is queued is in order and older than what is yet to be delivered.  *)
QueueInv(s) ==
  /\ Ascending(queue[s])
  /\ \A e \in Range(queue[s]) :
       /\ e.eid \in 1 .. lastId
       /\ \A c \in Range(callbacks) : e.eid < c.eid
       /\ \A b \in Range(buffer) : b.eid = e.eid => b = e
  /\ stream[s] = "closed" => queue[s] = <<>>
  /\ stream[s] = "waiting" /\ queue[s] # <<>> => s \in ready

(* A stream replays its snapshot, in order, before it does anything else.  *)
ReplayInv(s) ==
  /\ since[s] <= lastId
  /\ Ascending(replay[s])
  /\ \A e \in Range(replay[s]) : e.eid \in 1 .. since[s]
  /\ stream[s] # "replay" => replay[s] = <<>>

(* An open stream sent, holds, awaits or has given up everything its       *)
(* snapshot held and everything published since.                           *)
ReachInv(s) ==
  stream[s] # "closed" =>
    /\ \A id \in since[s] + 1 .. lastId :
         id \in IdsOf(callbacks) \cup IdsOf(queue[s]) \cup Range(got[s]) \cup lost[s]
    /\ \A b \in Range(buffer) : b.eid <= since[s] =>
         b.eid \in IdsOf(replay[s]) \cup Range(got[s]) \cup lost[s]

(* What the client received was published, and left no gap.                *)
GotInv(s) ==
  /\ \A id \in Range(got[s]) : id \in 1 .. lastId
  /\ \A b \in Range(buffer) : (\E id \in Range(got[s]) : b.eid < id) =>
       b.eid \in Range(got[s]) \cup lost[s]

StreamInv(s) == QueueInv(s) /\ ReplayInv(s) /\ ReachInv(s) /\ GotInv(s)

Inv == TypeOK /\ BufferInv /\ CallbacksInv /\ \A s \in Clients : StreamInv(s)

-----------------------------------------------------------------------------
(***************************************************************************)
(* Sequences of events: who is in them, and in which order.                *)
(***************************************************************************)
LEMMA RangeIs ==
  ASSUME NEW S, NEW q \in Seq(S)
  PROVE  /\ Len(q) \in Nat
         /\ \A i \in 1 .. Len(q) : q[i] \in S /\ q[i] \in Range(q)
         /\ \A e \in Range(q) : e \in S /\ \E i \in 1 .. Len(q) : q[i] = e
         /\ q = <<>> <=> Len(q) = 0
         /\ q = <<>> <=> Range(q) = {}
<1>1. Len(q) \in Nat /\ DOMAIN q = 1 .. Len(q) /\ \A i \in 1 .. Len(q) : q[i] \in S
  OBVIOUS
<1>2. Range(q) = {q[i] : i \in 1 .. Len(q)}
  BY <1>1 DEF Range
<1>3. q = <<>> <=> Len(q) = 0
  OBVIOUS
<1>4. Range(q) = {} <=> Len(q) = 0
  <2>1. Len(q) # 0 => 1 \in 1 .. Len(q)
    BY <1>1
  <2>2. Len(q) = 0 => 1 .. Len(q) = {}
    BY <1>1
  <2> QED
    BY <1>2, <2>1, <2>2
<1> QED
  BY <1>1, <1>2, <1>3, <1>4

LEMMA IdsOfRange ==
  ASSUME NEW q, NEW id
  PROVE  id \in IdsOf(q) <=> \E e \in Range(q) : e.eid = id
  BY DEF IdsOf

LEMMA RangeAppend ==
  ASSUME NEW S, NEW q \in Seq(S), NEW e \in S
  PROVE  Append(q, e) \in Seq(S) /\ Range(Append(q, e)) = Range(q) \cup {e}
<1>1. /\ Append(q, e) \in Seq(S) /\ Len(Append(q, e)) = Len(q) + 1 /\ Len(q) \in Nat
      /\ \A i \in 1 .. Len(q) : Append(q, e)[i] = q[i]
      /\ Append(q, e)[Len(q) + 1] = e
  OBVIOUS
<1>2. \A i \in 1 .. Len(q) + 1 : i = Len(q) + 1 \/ i \in 1 .. Len(q)
  BY <1>1
<1>3. ASSUME NEW x \in Range(Append(q, e)) PROVE x \in Range(q) \cup {e}
  <2>1. PICK i \in 1 .. Len(q) + 1 : Append(q, e)[i] = x
    BY <1>1, RangeIs
  <2> QED
    BY <1>1, <1>2, <2>1, RangeIs
<1>4. ASSUME NEW x \in Range(q) \cup {e} PROVE x \in Range(Append(q, e))
  <2>1. PICK i \in 1 .. Len(q) + 1 : Append(q, e)[i] = x
    <3>1. CASE x = e
      BY <1>1, <3>1
    <3>2. CASE x \in Range(q)
      <4>1. PICK i \in 1 .. Len(q) : q[i] = x
        BY <3>2, RangeIs
      <4> QED
        BY <1>1, <4>1
    <3> QED
      BY <3>1, <3>2
  <2> QED
    BY <1>1, <2>1, RangeIs
<1> QED
  BY <1>1, <1>3, <1>4

LEMMA RangeAppendIds ==
  ASSUME NEW n, NEW ids \in Seq(1 .. n), NEW id \in 1 .. n
  PROVE  Range(Append(ids, id)) = Range(ids) \cup {id}
<1> DEFINE S == 1 .. n
<1>1. ids \in Seq(S) /\ id \in S
  OBVIOUS
<1> HIDE DEF S
<1> QED
  BY <1>1, RangeAppend

LEMMA RangeTail ==
  ASSUME NEW S, NEW q \in Seq(S), q # <<>>
  PROVE  /\ Tail(q) \in Seq(S) /\ Head(q) \in S /\ Head(q) = q[1] /\ Len(q) >= 1
         /\ Len(Tail(q)) = Len(q) - 1
         /\ \A i \in 1 .. Len(q) - 1 : Tail(q)[i] = q[i + 1]
         /\ Range(q) = Range(Tail(q)) \cup {Head(q)}
<1>1. /\ Tail(q) \in Seq(S) /\ Head(q) \in S /\ Head(q) = q[1] /\ Len(q) \in Nat /\ Len(q) >= 1
      /\ Len(Tail(q)) = Len(q) - 1
      /\ \A i \in 1 .. Len(q) - 1 : Tail(q)[i] = q[i + 1]
  OBVIOUS
<1>2. ASSUME NEW x \in Range(Tail(q)) \cup {Head(q)} PROVE x \in Range(q)
  <2>1. PICK i \in 1 .. Len(q) : q[i] = x
    <3>1. CASE x = Head(q)
      BY <1>1, <3>1
    <3>2. CASE x \in Range(Tail(q))
      <4>1. PICK i \in 1 .. Len(q) - 1 : Tail(q)[i] = x
        <5>1. Tail(q) \in Seq(S) /\ Len(Tail(q)) = Len(q) - 1
          BY <1>1
        <5> QED
          BY <3>2, <5>1, RangeIs
      <4>2. i + 1 \in 1 .. Len(q) /\ q[i + 1] = x
        BY <1>1, <4>1
      <4> QED
        BY <4>2
    <3> QED
      BY <1>2, <3>1, <3>2
  <2> QED
    BY <2>1, RangeIs
<1>3. ASSUME NEW x \in Range(q) PROVE x \in Range(Tail(q)) \cup {Head(q)}
  <2>1. PICK i \in 1 .. Len(q) : q[i] = x
    BY RangeIs
  <2>2. CASE i # 1
    <3>1. i - 1 \in 1 .. Len(q) - 1 /\ Tail(q)[i - 1] = x
      BY <1>1, <2>1, <2>2
    <3>2. i - 1 \in 1 .. Len(Tail(q)) /\ Tail(q)[i - 1] = x
      BY <1>1, <3>1
    <3> QED
      BY <1>1, <3>2, RangeIs, ZenonT(60)
  <2> QED
    BY <1>1, <2>1, <2>2
<1> QED
  BY <1>1, <1>2, <1>3

LEMMA AscendingAppend ==
  ASSUME NEW q \in Seq(Events), NEW e \in Events, Ascending(q),
         \A x \in Range(q) : x.eid < e.eid
  PROVE  Ascending(Append(q, e))
<1>1. /\ Len(Append(q, e)) = Len(q) + 1 /\ Len(q) \in Nat
      /\ \A i \in 1 .. Len(q) : Append(q, e)[i] = q[i]
      /\ Append(q, e)[Len(q) + 1] = e
  OBVIOUS
<1>2. \A i \in 1 .. Len(q) : q[i].eid < e.eid
  BY RangeIs
<1> SUFFICES ASSUME NEW i \in 1 .. Len(q) + 1, NEW k \in 1 .. Len(q) + 1, i < k
             PROVE  Append(q, e)[i].eid < Append(q, e)[k].eid
  BY <1>1 DEF Ascending
<1>3. i \in 1 .. Len(q) /\ (k \in 1 .. Len(q) \/ k = Len(q) + 1)
  BY <1>1
<1> QED
  BY <1>1, <1>2, <1>3 DEF Ascending

LEMMA AscendingTail ==
  ASSUME NEW q \in Seq(Events), q # <<>>, Ascending(q)
  PROVE  Ascending(Tail(q)) /\ \A x \in Range(Tail(q)) : Head(q).eid < x.eid
<1>1. /\ Tail(q) \in Seq(Events) /\ Head(q) = q[1] /\ Len(q) \in Nat /\ Len(q) >= 1
      /\ Len(Tail(q)) = Len(q) - 1
      /\ \A i \in 1 .. Len(q) - 1 : Tail(q)[i] = q[i + 1]
  BY RangeTail, RangeIs
<1>2. \A i \in 1 .. Len(q) - 1 : i + 1 \in 1 .. Len(q) /\ 1 < i + 1 /\ 1 \in 1 .. Len(q)
  BY <1>1
<1>3. \A i \in 1 .. Len(q) - 1 : Head(q).eid < Tail(q)[i].eid
  BY <1>1, <1>2 DEF Ascending
<1>4. \A x \in Range(Tail(q)) : Head(q).eid < x.eid
  BY <1>1, <1>3, RangeIs
<1>5. Ascending(Tail(q))
  <2> SUFFICES ASSUME NEW i \in 1 .. Len(q) - 1, NEW k \in 1 .. Len(q) - 1, i < k
               PROVE  q[i + 1].eid < q[k + 1].eid
    BY <1>1 DEF Ascending
  <2>1. i + 1 \in 1 .. Len(q) /\ k + 1 \in 1 .. Len(q) /\ i + 1 < k + 1
    BY <1>1
  <2> QED
    BY <2>1 DEF Ascending
<1> QED
  BY <1>4, <1>5

LEMMA LeastNat ==
  ASSUME NEW T \in SUBSET Nat, T # {}
  PROVE  \E m \in T : \A n \in T : m <= n
<1> DEFINE R == {p \in Nat \X Nat : p[1] < p[2]}
<1>1. IsWellFoundedOn(R, Nat)
  BY NatLessThanWellFounded DEF OpToRel
<1>2. \A x, y \in Nat : x < y => <<x, y>> \in R
  OBVIOUS
<1> HIDE DEF R
<1>3. PICK m \in T : \A y \in T : ~(<<y, m>> \in R)
  BY <1>1, WFMin, Zenon
<1>4. ASSUME NEW n \in T PROVE m <= n
  <2>1. ~(n < m)
    BY <1>2, <1>3
  <2> QED
    BY <2>1
<1> QED
  BY <1>4

LEMMA RemoveAtFacts ==
  ASSUME NEW S, NEW q \in Seq(S), NEW i \in 1 .. Len(q)
  PROVE  /\ RemoveAt(q, i) \in Seq(S) /\ Len(RemoveAt(q, i)) = Len(q) - 1
         /\ \A k \in 1 .. Len(q) - 1 : RemoveAt(q, i)[k] = IF k < i THEN q[k] ELSE q[k + 1]
<1> DEFINE a == SubSeq(q, 1, i - 1)
           b == SubSeq(q, i + 1, Len(q))
<1>1. Len(q) \in Nat /\ i \in Nat /\ i >= 1 /\ i <= Len(q)
  OBVIOUS
<1>2. /\ a \in Seq(S) /\ Len(a) = i - 1
      /\ \A k \in 1 .. i - 1 : a[k] = q[k]
  BY <1>1
<1>3. /\ b \in Seq(S) /\ Len(b) = Len(q) - i
      /\ \A k \in 1 .. Len(q) - i : b[k] = q[i + k]
  BY <1>1
<1>4. RemoveAt(q, i) = a \o b
  BY DEF RemoveAt
<1> HIDE DEF a, b
<1>5. /\ a \o b \in Seq(S) /\ Len(a \o b) = Len(q) - 1
      /\ \A k \in 1 .. Len(q) - 1 : (a \o b)[k] = IF k <= i - 1 THEN a[k] ELSE b[k - (i - 1)]
  <2>1. a \o b \in Seq(S) /\ Len(a \o b) = Len(a) + Len(b)
    BY <1>2, <1>3, ConcatProperties
  <2>2. \A k \in 1 .. Len(a) + Len(b) : (a \o b)[k] = IF k <= Len(a) THEN a[k] ELSE b[k - Len(a)]
    BY <1>2, <1>3, ConcatProperties
  <2>3. Len(a) + Len(b) = Len(q) - 1
    BY <1>1, <1>2, <1>3
  <2> QED
    BY <1>2, <2>1, <2>2, <2>3
<1>6. ASSUME NEW k \in 1 .. Len(q) - 1
      PROVE  (a \o b)[k] = IF k < i THEN q[k] ELSE q[k + 1]
  <2>1. CASE k < i
    BY <1>1, <1>2, <1>5, <2>1
  <2>2. CASE ~(k < i)
    <3>1. k - (i - 1) \in 1 .. Len(q) - i /\ i + (k - (i - 1)) = k + 1
      BY <1>1, <2>2
    <3> QED
      BY <1>1, <1>3, <1>5, <2>2, <3>1
  <2> QED
    BY <2>1, <2>2
<1> QED
  BY <1>4, <1>5, <1>6

LEMMA RangeRemoveAt ==
  ASSUME NEW S, NEW q \in Seq(S), NEW i \in 1 .. Len(q)
  PROVE  /\ Range(RemoveAt(q, i)) \subseteq Range(q)
         /\ \A x \in Range(q) : x = q[i] \/ x \in Range(RemoveAt(q, i))
<1> DEFINE r == RemoveAt(q, i)
<1>1. /\ r \in Seq(S) /\ Len(r) = Len(q) - 1 /\ Len(q) \in Nat
      /\ \A k \in 1 .. Len(q) - 1 : r[k] = IF k < i THEN q[k] ELSE q[k + 1]
  BY RemoveAtFacts
<1> HIDE DEF r
<1>2. ASSUME NEW x \in Range(r) PROVE x \in Range(q)
  <2>1. PICK k \in 1 .. Len(q) - 1 : r[k] = x
    BY <1>1, RangeIs
  <2>2. k \in 1 .. Len(q) /\ k + 1 \in 1 .. Len(q)
    BY <1>1
  <2> QED
    BY <1>1, <2>1, <2>2, RangeIs, SMTT(30)
<1>3. ASSUME NEW x \in Range(q), x # q[i] PROVE x \in Range(r)
  <2>1. PICK k \in 1 .. Len(q) : q[k] = x
    BY RangeIs
  <2>2. k # i
    BY <1>3, <2>1
  <2>3. \E j \in 1 .. Len(q) - 1 : r[j] = x
    <3>1. CASE k < i
      <4>1. k \in 1 .. Len(q) - 1
        BY <1>1, <3>1
      <4> QED
        BY <1>1, <2>1, <3>1, <4>1
    <3>2. CASE k > i
      <4>1. k - 1 \in 1 .. Len(q) - 1 /\ ~(k - 1 < i) /\ (k - 1) + 1 = k
        BY <1>1, <3>2
      <4> QED
        BY <1>1, <2>1, <4>1
    <3> QED
      BY <1>1, <2>2, <3>1, <3>2
  <2> QED
    BY <1>1, <2>3, RangeIs
<1> QED
  BY <1>2, <1>3 DEF r

LEMMA AscendingRemoveAt ==
  ASSUME NEW q \in Seq(Events), NEW i \in 1 .. Len(q), Ascending(q)
  PROVE  Ascending(RemoveAt(q, i))
<1> DEFINE r == RemoveAt(q, i)
<1>1. /\ r \in Seq(Events) /\ Len(r) = Len(q) - 1 /\ Len(q) \in Nat
      /\ \A k \in 1 .. Len(q) - 1 : r[k] = IF k < i THEN q[k] ELSE q[k + 1]
  <2>1. Len(q) \in Nat
    OBVIOUS
  <2> QED
    BY <2>1, RemoveAtFacts, Zenon
<1> HIDE DEF r
<1>2. ASSUME NEW j \in 1 .. Len(q) - 1, NEW k \in 1 .. Len(q) - 1, j < k
      PROVE  r[j].eid < r[k].eid
  <2> DEFINE at(m) == IF m < i THEN m ELSE m + 1
  <2>1. at(j) \in 1 .. Len(q) /\ at(k) \in 1 .. Len(q) /\ at(j) < at(k)
    BY <1>1, <1>2
  <2>2. r[j] = q[at(j)] /\ r[k] = q[at(k)]
    BY <1>1
  <2> HIDE DEF at
  <2> QED
    BY <2>1, <2>2 DEF Ascending
<1> QED
  BY <1>1, <1>2 DEF Ascending, r

(***************************************************************************)
(* put_nowait: the new event is appended, after an older one made room, or *)
(* is refused; a job transition makes room only among job transitions, and *)
(* then it is the oldest.                                                  *)
(***************************************************************************)
LEMMA FirstOfKind ==
  ASSUME NEW q \in Seq(Events), NEW kinds, NEW k \in 1 .. Len(q), q[k].kind \in kinds
  PROVE  \E i \in 1 .. Len(q) :
           q[i].kind \in kinds /\ \A j \in 1 .. i - 1 : q[j].kind \notin kinds
<1> DEFINE T == {i \in 1 .. Len(q) : q[i].kind \in kinds}
<1>1. T \in SUBSET Nat /\ T # {} /\ Len(q) \in Nat
  OBVIOUS
<1>2. PICK i \in T : \A n \in T : i <= n
  <2> HIDE DEF T
  <2> QED
    BY <1>1, LeastNat
<1>3. \A j \in 1 .. i - 1 : j \in 1 .. Len(q) /\ ~(i <= j)
  BY <1>1
<1> QED
  BY <1>2, <1>3

LEMMA PutCases ==
  ASSUME NEW q \in Seq(Events), NEW e \in Events, Len(q) <= MaxQueue
  PROVE  \/ Len(q) < MaxQueue /\ Put(q, e) = Append(q, e)
         \/ /\ Len(q) = MaxQueue /\ Put(q, e) = q /\ e.kind = "ordinary"
         \/ /\ Len(q) = MaxQueue
            /\ \E i \in 1 .. Len(q) :
                 /\ Put(q, e) = Append(RemoveAt(q, i), e)
                 /\ q[i].kind = "job" =>
                      i = 1 /\ e.kind # "ordinary" /\ \A k \in 1 .. Len(q) : q[k].kind = "job"
<1> DEFINE Oldest(kinds) ==
             {i \in DOMAIN q : q[i].kind \in kinds /\ \A k \in 1 .. i - 1 : q[k].kind \notin kinds}
           ordinary == Oldest({"ordinary"})
           notJob == Oldest(Kinds \ {"job"})
           Displace(S) == Append(RemoveAt(q, CHOOSE i \in S : TRUE), e)
<1>1. Len(q) \in Nat /\ DOMAIN q = 1 .. Len(q) /\ \A i \in 1 .. Len(q) : q[i] \in Events
  OBVIOUS
<1>2. Put(q, e) = IF Len(q) < MaxQueue THEN Append(q, e)
                  ELSE IF ordinary # {} THEN Displace(ordinary)
                  ELSE IF ~Priority(e) THEN q
                  ELSE Displace(IF notJob # {} THEN notJob ELSE {1})
  BY DEF Put
<1>3. \A i \in ordinary : i \in 1 .. Len(q) /\ q[i].kind = "ordinary"
  BY <1>1
<1>4. \A i \in notJob : i \in 1 .. Len(q) /\ q[i].kind # "job"
  BY <1>1
<1>5. notJob = {} => \A k \in 1 .. Len(q) : q[k].kind = "job"
  <2> SUFFICES ASSUME NEW k \in 1 .. Len(q), q[k].kind # "job" PROVE notJob # {}
    OBVIOUS
  <2>1. q[k].kind \in Kinds \ {"job"}
    BY <1>1 DEF Events
  <2>2. \E i \in 1 .. Len(q) : q[i].kind \in Kinds \ {"job"}
                               /\ \A j \in 1 .. i - 1 : q[j].kind \notin Kinds \ {"job"}
    BY <2>1, FirstOfKind, Zenon
  <2> QED
    BY <1>1, <2>2
<1> HIDE DEF ordinary, notJob
<1>6. \A S : S # {} => (CHOOSE i \in S : TRUE) \in S
  OBVIOUS
<1>7. CASE Len(q) < MaxQueue
  BY <1>2, <1>7
<1>8. CASE Len(q) = MaxQueue
  <2>1. CASE ordinary # {}
    <3> DEFINE i == CHOOSE x \in ordinary : TRUE
    <3>1. i \in ordinary
      BY <2>1
    <3>2. Put(q, e) = Append(RemoveAt(q, i), e)
      BY <1>2, <1>8, <2>1, EventBusAssumption
    <3> HIDE DEF i
    <3> QED
      BY <1>3, <1>8, <3>1, <3>2
  <2>2. CASE ordinary = {} /\ e.kind = "ordinary"
    BY <1>2, <1>8, <2>2, EventBusAssumption DEF Priority
  <2>3. CASE ordinary = {} /\ e.kind # "ordinary"
    <3> DEFINE S == IF notJob # {} THEN notJob ELSE {1}
               i == CHOOSE x \in S : TRUE
    <3>1. i \in S
      BY <1>6
    <3>2. Put(q, e) = Append(RemoveAt(q, i), e)
      BY <1>2, <1>8, <2>3, EventBusAssumption DEF Priority
    <3> HIDE DEF i
    <3>3. i \in 1 .. Len(q)
      BY <1>1, <1>4, <1>8, <3>1, EventBusAssumption
    <3>4. q[i].kind = "job" => notJob = {} /\ i = 1
      BY <1>4, <3>1
    <3> QED
      BY <1>5, <1>8, <2>3, <3>2, <3>3, <3>4
  <2> QED
    BY <2>1, <2>2, <2>3
<1>9. Len(q) < MaxQueue \/ Len(q) = MaxQueue
  <2>1. Len(q) \in Nat /\ MaxQueue \in Nat
    BY EventBusAssumption
  <2> QED
    BY <2>1
<1> QED
  BY <1>7, <1>8, <1>9, Zenon

LEMMA PutFacts ==
  ASSUME NEW q \in Seq(Events), NEW e \in Events, Len(q) <= MaxQueue
  PROVE  /\ Put(q, e) \in Seq(Events) /\ Len(Put(q, e)) <= MaxQueue
         /\ Range(Put(q, e)) \subseteq Range(q) \cup {e}
         /\ Ascending(q) /\ (\A x \in Range(q) : x.eid < e.eid) => Ascending(Put(q, e))
         /\ e \notin Range(Put(q, e)) => e.kind = "ordinary"
         /\ \A x \in Range(q) : x \notin Range(Put(q, e)) /\ x.kind = "job" =>
              /\ Len(q) = MaxQueue /\ x = q[1]
              /\ \A y \in Range(q) : y.kind = "job"
<1>1. Len(q) \in Nat /\ MaxQueue \in Nat
  BY EventBusAssumption
<1>2. CASE Len(q) < MaxQueue /\ Put(q, e) = Append(q, e)
  <2>1. Len(Append(q, e)) = Len(q) + 1
    OBVIOUS
  <2>2. Append(q, e) \in Seq(Events) /\ Range(Append(q, e)) = Range(q) \cup {e}
    BY RangeAppend
  <2>3. Ascending(q) /\ (\A x \in Range(q) : x.eid < e.eid) => Ascending(Append(q, e))
    BY AscendingAppend
  <2> QED
    BY <1>1, <1>2, <2>1, <2>2, <2>3
<1>3. CASE Len(q) = MaxQueue /\ Put(q, e) = q /\ e.kind = "ordinary"
  BY <1>3
<1>4. CASE Len(q) = MaxQueue /\ \E i \in 1 .. Len(q) :
             /\ Put(q, e) = Append(RemoveAt(q, i), e)
             /\ q[i].kind = "job" =>
                  i = 1 /\ e.kind # "ordinary" /\ \A k \in 1 .. Len(q) : q[k].kind = "job"
  <2>1. PICK i \in 1 .. Len(q) :
             /\ Put(q, e) = Append(RemoveAt(q, i), e)
             /\ q[i].kind = "job" =>
                  i = 1 /\ e.kind # "ordinary" /\ \A k \in 1 .. Len(q) : q[k].kind = "job"
    BY <1>4
  <2> DEFINE r == RemoveAt(q, i)
  <2>2. r \in Seq(Events) /\ Len(r) = Len(q) - 1 /\ Range(r) \subseteq Range(q)
        /\ \A x \in Range(q) : x = q[i] \/ x \in Range(r)
    BY RemoveAtFacts, RangeRemoveAt
  <2>3. Ascending(q) => Ascending(r)
    BY AscendingRemoveAt
  <2>4. Put(q, e) = Append(r, e)
    BY <2>1
  <2> HIDE DEF r
  <2>5. Len(Append(r, e)) = Len(r) + 1
    BY <2>2
  <2>6. Append(r, e) \in Seq(Events) /\ Range(Append(r, e)) = Range(r) \cup {e}
    BY <2>2, RangeAppend
  <2>7. Ascending(q) /\ (\A x \in Range(q) : x.eid < e.eid) => Ascending(Append(r, e))
    BY <2>2, <2>3, AscendingAppend
  <2>8. \A y \in Range(q) : \E k \in 1 .. Len(q) : q[k] = y
    BY RangeIs
  <2>9. ASSUME NEW x \in Range(q), x \notin Range(Put(q, e)), x.kind = "job"
        PROVE  x = q[1] /\ \A y \in Range(q) : y.kind = "job"
    BY <2>1, <2>2, <2>4, <2>6, <2>8, <2>9
  <2> QED
    BY <1>1, <1>4, <2>2, <2>4, <2>5, <2>6, <2>7, <2>9
<1> QED
  BY <1>2, <1>3, <1>4, PutCases

-----------------------------------------------------------------------------
(* The replay buffer *)

LEMMA BufferFacts ==
  ASSUME TypeOK, BufferInv
  PROVE  /\ buffer \in Seq(Events) /\ Len(buffer) \in Nat /\ lastId \in Nat
         /\ \A i \in 1 .. Len(buffer) : buffer[i].eid \in 1 .. lastId
         /\ \A e \in Range(buffer) : e \in Events /\ e.eid \in 1 .. lastId
         /\ \A e, x \in Range(buffer) : e.eid = x.eid => e = x
         /\ \A e \in Range(buffer) : \A id \in e.eid .. lastId :
              \E x \in Range(buffer) : x.eid = id
<1>1. buffer \in Seq(Events) /\ Len(buffer) \in Nat /\ lastId \in Nat
  BY EventBusAssumption DEF TypeOK
<1>2. \A i \in 1 .. Len(buffer) : buffer[i].eid = lastId - Len(buffer) + i
                                  /\ buffer[i].eid \in 1 .. lastId
  BY <1>1 DEF BufferInv
<1>3. \A e \in Range(buffer) : e \in Events /\ \E i \in 1 .. Len(buffer) : buffer[i] = e
  BY <1>1, RangeIs
<1>4. \A e, x \in Range(buffer) : e.eid = x.eid => e = x
  <2> SUFFICES ASSUME NEW i \in 1 .. Len(buffer), NEW k \in 1 .. Len(buffer),
                      buffer[i].eid = buffer[k].eid
               PROVE  i = k
    BY <1>3
  <2> QED
    BY <1>1, <1>2
<1>5. ASSUME NEW e \in Range(buffer), NEW id \in e.eid .. lastId
      PROVE  \E x \in Range(buffer) : x.eid = id
  <2>1. PICK i \in 1 .. Len(buffer) : buffer[i] = e
    BY <1>3
  <2>2. id \in Int /\ id >= lastId - Len(buffer) + i /\ id <= lastId
    BY <1>1, <1>2, <2>1
  <2> DEFINE k == id - (lastId - Len(buffer))
  <2>3. k \in 1 .. Len(buffer) /\ lastId - Len(buffer) + k = id
    BY <1>1, <2>2
  <2> HIDE DEF k
  <2>4. buffer[k].eid = id /\ buffer[k] \in Range(buffer)
    BY <1>1, <1>2, <2>3, RangeIs
  <2> QED
    BY <2>4
<1> QED
  BY <1>1, <1>2, <1>3, <1>4, <1>5

LEMMA BacklogFacts ==
  ASSUME TypeOK, BufferInv, NEW seen \in Nat
  PROVE  /\ Backlog(seen) \in Seq(Events) /\ Ascending(Backlog(seen))
         /\ \A e : e \in Range(Backlog(seen)) <=> e \in Range(buffer) /\ e.eid > seen
<1> DEFINE Splits(i) == \A k \in DOMAIN buffer : buffer[k].eid > seen <=> k >= i
           first == CHOOSE i \in 1 .. Len(buffer) + 1 : Splits(i)
           r == SubSeq(buffer, first, Len(buffer))
<1>1. /\ buffer \in Seq(Events) /\ Len(buffer) \in Nat /\ lastId \in Nat
      /\ DOMAIN buffer = 1 .. Len(buffer)
      /\ \A i \in 1 .. Len(buffer) : buffer[i].eid = lastId - Len(buffer) + i
  BY BufferFacts DEF BufferInv
<1>2. \E i \in 1 .. Len(buffer) + 1 : Splits(i)
  <2>1. CASE seen < lastId - Len(buffer)
    BY <1>1, <2>1, SMTT(30)
  <2>2. CASE seen >= lastId
    <3>1. \A k \in 1 .. Len(buffer) : ~(buffer[k].eid > seen) /\ ~(k >= Len(buffer) + 1)
      BY <1>1, <2>2
    <3>2. Splits(Len(buffer) + 1)
      BY <1>1, <3>1
    <3> HIDE DEF Splits
    <3> QED
      BY <1>1, <3>2
  <2>3. CASE seen >= lastId - Len(buffer) /\ seen < lastId
    <3> DEFINE i == seen - (lastId - Len(buffer)) + 1
    <3>1. i \in 1 .. Len(buffer) + 1
      BY <1>1, <2>3
    <3>2. \A k \in 1 .. Len(buffer) : buffer[k].eid > seen <=> k >= i
      BY <1>1, <2>3
    <3>3. Splits(i)
      BY <1>1, <3>2
    <3> HIDE DEF Splits, i
    <3> QED
      BY <3>1, <3>3
  <2> QED
    BY <1>1, <2>1, <2>2, <2>3
<1>3. first \in 1 .. Len(buffer) + 1 /\ Splits(first)
  <2> HIDE DEF Splits
  <2> QED
    BY <1>2
<1>4. Backlog(seen) = r
  BY DEF Backlog
<1> HIDE DEF first
<1>5. /\ r \in Seq(Events) /\ Len(r) = Len(buffer) - first + 1
      /\ \A k \in 1 .. Len(buffer) - first + 1 : r[k] = buffer[first + k - 1]
  <2>1. first \in Nat /\ first >= 1 /\ first <= Len(buffer) + 1
    BY <1>1, <1>3
  <2>2. \A k \in first .. Len(buffer) : buffer[k] \in Events
    BY <1>1, <2>1
  <2>3. Len(r) = IF first <= Len(buffer) THEN Len(buffer) - first + 1 ELSE 0
    BY <1>1, <2>1, <2>2, SubSeqProperties
  <2> QED
    BY <1>1, <2>1, <2>2, <2>3, SubSeqProperties
<1> HIDE DEF r
<1>6. \A k \in 1 .. Len(r) : first + k - 1 \in 1 .. Len(buffer) /\ r[k] = buffer[first + k - 1]
                             /\ r[k].eid = lastId - Len(buffer) + (first + k - 1)
                             /\ r[k].eid > seen
  <2> SUFFICES ASSUME NEW k \in 1 .. Len(r)
               PROVE  /\ first + k - 1 \in 1 .. Len(buffer) /\ r[k] = buffer[first + k - 1]
                      /\ r[k].eid = lastId - Len(buffer) + (first + k - 1)
                      /\ r[k].eid > seen
    OBVIOUS
  <2>1. first \in Nat /\ first >= 1 /\ k \in Nat /\ k >= 1 /\ k <= Len(buffer) - first + 1
    BY <1>1, <1>3, <1>5
  <2>2. first + k - 1 \in 1 .. Len(buffer) /\ first + k - 1 >= first
    BY <1>1, <2>1
  <2>3. r[k] = buffer[first + k - 1]
    BY <1>5
  <2> QED
    BY <1>1, <1>3, <2>2, <2>3
<1>7. Ascending(r)
  <2> SUFFICES ASSUME NEW i \in 1 .. Len(r), NEW k \in 1 .. Len(r), i < k
               PROVE  r[i].eid < r[k].eid
    BY DEF Ascending
  <2>1. r[i].eid = lastId - Len(buffer) + (first + i - 1)
        /\ r[k].eid = lastId - Len(buffer) + (first + k - 1)
    BY <1>6
  <2>2. first \in Int /\ i \in Int /\ k \in Int
    BY <1>1, <1>3
  <2> QED
    BY <1>1, <2>1, <2>2
<1>8. ASSUME NEW e \in Range(r) PROVE e \in Range(buffer) /\ e.eid > seen
  <2>1. PICK k \in 1 .. Len(r) : r[k] = e
    BY <1>5, RangeIs
  <2>2. first + k - 1 \in 1 .. Len(buffer) /\ r[k] = buffer[first + k - 1] /\ r[k].eid > seen
    BY <1>6
  <2>3. buffer[first + k - 1] \in Range(buffer)
    BY <1>1, <2>2, RangeIs
  <2> QED
    BY <2>1, <2>2, <2>3
<1>9. ASSUME NEW e \in Range(buffer), e.eid > seen PROVE e \in Range(r)
  <2>1. PICK i \in 1 .. Len(buffer) : buffer[i] = e
    BY <1>1, RangeIs
  <2>2. i >= first
    BY <1>1, <1>3, <1>9, <2>1
  <2>3. i - first + 1 \in 1 .. Len(r) /\ first + (i - first + 1) - 1 = i
    BY <1>1, <1>3, <1>5, <2>2
  <2>4. r[i - first + 1] = e
    BY <1>6, <2>1, <2>3
  <2> QED
    BY <1>5, <2>3, <2>4, RangeIs
<1> QED
  BY <1>4, <1>5, <1>7, <1>8, <1>9

-----------------------------------------------------------------------------
(* Every action keeps the invariant *)

LEMMA TypeFacts ==
  ASSUME TypeOK, NEW s \in Clients
  PROVE  /\ lastId \in Nat /\ since[s] \in Nat
         /\ replay[s] \in Seq(Events) /\ queue[s] \in Seq(Events) /\ Len(queue[s]) <= MaxQueue
         /\ got[s] \in Seq(1 .. MaxEvents)
         /\ callbacks \in Seq(Events) /\ buffer \in Seq(Events)
  BY EventBusAssumption DEF TypeOK

LEMMA InitInv == Init => Inv
<1> SUFFICES ASSUME Init PROVE Inv
  OBVIOUS
<1>1. \A S : <<>> \in Seq(S) /\ Len(<<>>) = 0 /\ Range(<<>>) = {}
  BY DEF Range
<1>2. TypeOK
  BY <1>1, EventBusAssumption DEF Init, TypeOK
<1>3. BufferInv /\ CallbacksInv
  BY <1>1 DEF Init, BufferInv, CallbacksInv, Ascending
<1>4. \A s \in Clients : StreamInv(s)
  BY <1>1 DEF Init, StreamInv, QueueInv, ReplayInv, ReachInv, GotInv, Ascending
<1> QED
  BY <1>2, <1>3, <1>4 DEF Inv

(* A step of one stream is none of the others'.                            *)
LEMMA OtherStream ==
  ASSUME NEW t, StreamInv(t), UNCHANGED <<lastId, buffer, callbacks>>,
         stream'[t] = stream[t], replay'[t] = replay[t], queue'[t] = queue[t],
         since'[t] = since[t], got'[t] = got[t], lost'[t] = lost[t], t \in ready => t \in ready'
  PROVE  StreamInv(t)'
  BY DEF StreamInv, QueueInv, ReplayInv, ReachInv, GotInv, Ascending

LEMMA KeepFacts ==
  ASSUME NEW e \in Events, TypeOK
  PROVE  /\ Keep(buffer, e) \in Seq(Events)
         /\ Len(Keep(buffer, e)) = IF Len(buffer) < MaxBuffer THEN Len(buffer) + 1 ELSE Len(buffer)
         /\ Keep(buffer, e)[Len(Keep(buffer, e))] = e
         /\ \A i \in 1 .. Len(Keep(buffer, e)) - 1 :
              Keep(buffer, e)[i] = IF Len(buffer) < MaxBuffer THEN buffer[i] ELSE buffer[i + 1]
         /\ e \in Range(Keep(buffer, e)) /\ Range(Keep(buffer, e)) \subseteq Range(buffer) \cup {e}
<1>1. buffer \in Seq(Events) /\ Len(buffer) \in Nat /\ Len(buffer) <= MaxBuffer
  BY DEF TypeOK
<1>2. CASE Len(buffer) < MaxBuffer
  <2>1. Keep(buffer, e) = Append(buffer, e)
    BY <1>2 DEF Keep
  <2>2. Append(buffer, e) \in Seq(Events) /\ Range(Append(buffer, e)) = Range(buffer) \cup {e}
    BY <1>1, RangeAppend
  <2> QED
    BY <1>1, <1>2, <2>1, <2>2
<1>3. CASE ~(Len(buffer) < MaxBuffer)
  <2>1. buffer # <<>> /\ Keep(buffer, e) = Append(Tail(buffer), e)
    BY <1>1, <1>3, EventBusAssumption DEF Keep
  <2> DEFINE r == Tail(buffer)
  <2>2. /\ r \in Seq(Events) /\ Len(r) = Len(buffer) - 1 /\ Range(r) \subseteq Range(buffer)
        /\ \A i \in 1 .. Len(buffer) - 1 : r[i] = buffer[i + 1]
    BY <1>1, <2>1, RangeTail
  <2>3. Keep(buffer, e) = Append(r, e)
    BY <2>1
  <2> HIDE DEF r
  <2>4. Append(r, e) \in Seq(Events) /\ Range(Append(r, e)) = Range(r) \cup {e}
    BY <2>2, RangeAppend
  <2>5. Len(Append(r, e)) = Len(r) + 1 /\ Append(r, e)[Len(r) + 1] = e
        /\ \A i \in 1 .. Len(r) : Append(r, e)[i] = r[i]
    BY <2>2
  <2>6. Len(Append(r, e)) = Len(buffer) /\ Len(r) + 1 = Len(buffer)
    BY <1>1, <2>2, <2>5
  <2> QED
    BY <1>3, <2>2, <2>3, <2>4, <2>5, <2>6
<1> QED
  BY <1>2, <1>3

LEMMA PublishInv ==
  ASSUME Inv, NEW kind \in Kinds, Publish(kind)
  PROVE  Inv'
<1> DEFINE id == lastId + 1
           e == Event(id, kind)
<1>1. TypeOK /\ BufferInv /\ CallbacksInv /\ \A s \in Clients : StreamInv(s)
  BY DEF Inv
<1>2. lastId \in Nat /\ e \in Events /\ e.eid = lastId + 1 /\ id \in 1 .. MaxEvents
  BY <1>1, EventBusAssumption DEF Publish, TypeOK, Event, Events
<1>3. /\ lastId' = lastId + 1 /\ buffer' = Keep(buffer, e)
      /\ (callbacks' = callbacks /\ Subscribed = {}) \/ callbacks' = Append(callbacks, e)
      /\ UNCHANGED <<stream, replay, queue, ready, since, got, lost, connects>>
  BY DEF Publish
<1> HIDE DEF id, e
<1>4. /\ callbacks \in Seq(Events) /\ buffer \in Seq(Events) /\ Len(buffer) \in Nat
      /\ Len(buffer) <= MaxBuffer
  BY <1>1 DEF TypeOK
<1>5. /\ Range(buffer') \subseteq Range(buffer) \cup {e} /\ buffer' \in Seq(Events)
      /\ Len(buffer') = IF Len(buffer) < MaxBuffer THEN Len(buffer) + 1 ELSE Len(buffer)
      /\ buffer'[Len(buffer')] = e
      /\ \A i \in 1 .. Len(buffer') - 1 :
              buffer'[i] = IF Len(buffer) < MaxBuffer THEN buffer[i] ELSE buffer[i + 1]
  BY <1>1, <1>2, <1>3, KeepFacts
<1>6. /\ callbacks' \in Seq(Events) /\ Range(callbacks') \subseteq Range(callbacks) \cup {e}
      /\ Range(callbacks) \subseteq Range(callbacks') /\ Ascending(callbacks')
  <2>1. CASE callbacks' = Append(callbacks, e)
    <3>1. \A c \in Range(callbacks) : c.eid < e.eid
      BY <1>1, <1>2 DEF CallbacksInv
    <3> QED
      BY <1>1, <1>2, <1>4, <2>1, <3>1, RangeAppend, AscendingAppend DEF CallbacksInv
  <2>2. CASE callbacks' = callbacks
    BY <1>1, <1>4, <2>2 DEF CallbacksInv
  <2> QED
    BY <1>3, <2>1, <2>2
<1>7. TypeOK'
  <2>1. Len(buffer') <= MaxBuffer
    BY <1>4, <1>5, EventBusAssumption
  <2>2. lastId' \in 0 .. MaxEvents
    BY <1>2, <1>3 DEF id
  <2> QED
    BY <1>1, <1>3, <1>5, <1>6, <2>1, <2>2 DEF TypeOK
<1>8. BufferInv'
  <2>1. Len(buffer') \in Nat /\ Len(buffer') <= lastId'
    BY <1>1, <1>2, <1>3, <1>4, <1>5 DEF BufferInv
  <2>2. ASSUME NEW i \in 1 .. Len(buffer')
        PROVE  buffer'[i].eid = lastId' - Len(buffer') + i
    <3>1. CASE i = Len(buffer')
      BY <1>2, <1>3, <1>5, <2>1, <3>1
    <3>2. CASE i # Len(buffer') /\ Len(buffer) < MaxBuffer
      <4>1. i \in 1 .. Len(buffer) /\ buffer'[i] = buffer[i] /\ Len(buffer') = Len(buffer) + 1
        BY <1>4, <1>5, <2>1, <3>2
      <4> QED
        BY <1>1, <1>2, <1>3, <1>4, <4>1 DEF BufferInv
    <3>3. CASE i # Len(buffer') /\ ~(Len(buffer) < MaxBuffer)
      <4>1. i + 1 \in 1 .. Len(buffer) /\ buffer'[i] = buffer[i + 1] /\ Len(buffer') = Len(buffer)
        BY <1>4, <1>5, <2>1, <3>3
      <4> QED
        BY <1>1, <1>2, <1>3, <1>4, <4>1 DEF BufferInv
    <3> QED
      BY <3>1, <3>2, <3>3
  <2> QED
    BY <2>1, <2>2 DEF BufferInv
<1>9. \A b \in Range(buffer) : b.eid \in 1 .. lastId
  BY <1>1, BufferFacts
<1>10. CallbacksInv'
  <2> SUFFICES ASSUME NEW c \in Range(callbacks')
               PROVE  c.eid \in 1 .. lastId' /\ \A b \in Range(buffer') : b.eid = c.eid => b = c
    BY <1>6 DEF CallbacksInv
  <2> QED
    BY <1>1, <1>2, <1>3, <1>5, <1>6, <1>9 DEF CallbacksInv
<1>11. ASSUME NEW s \in Clients PROVE StreamInv(s)'
  <2>1. StreamInv(s) /\ since[s] \in Nat
    BY <1>1, TypeFacts
  <2>2. QueueInv(s)'
    <3> SUFFICES ASSUME NEW x \in Range(queue[s])
                 PROVE  /\ x.eid \in 1 .. lastId'
                        /\ \A c \in Range(callbacks') : x.eid < c.eid
                        /\ \A b \in Range(buffer') : b.eid = x.eid => b = x
      BY <1>3, <2>1 DEF StreamInv, QueueInv, Ascending
    <3> QED
      BY <1>2, <1>3, <1>5, <1>6, <2>1 DEF StreamInv, QueueInv
  <2>3. ReplayInv(s)'
    BY <1>2, <1>3, <2>1 DEF StreamInv, ReplayInv, Ascending
  <2>4. ReachInv(s)'
    <3> SUFFICES ASSUME stream[s] # "closed"
                 PROVE  ReachInv(s)'
      BY <1>3 DEF ReachInv
    <3>1. callbacks' = Append(callbacks, e) /\ e \in Range(callbacks')
      <4>1. s \in Subscribed
        BY DEF Subscribed
      <4>2. callbacks' = Append(callbacks, e)
        BY <1>3, <4>1
      <4>3. Range(Append(callbacks, e)) = Range(callbacks) \cup {e}
        BY <1>2, <1>4, RangeAppend
      <4> QED
        BY <4>2, <4>3
    <3>2. lastId + 1 \in IdsOf(callbacks') /\ IdsOf(callbacks) \subseteq IdsOf(callbacks')
      BY <1>2, <1>6, <3>1 DEF IdsOf
    <3>3. \A i \in since[s] + 1 .. lastId' : i = lastId + 1 \/ i \in since[s] + 1 .. lastId
      BY <1>2, <1>3, <2>1
    <3>4. \A b \in Range(buffer') : b.eid <= since[s] => b \in Range(buffer)
      BY <1>2, <1>5, <2>1 DEF StreamInv, ReplayInv
    <3> QED
      BY <1>3, <2>1, <3>2, <3>3, <3>4 DEF StreamInv, ReachInv
  <2>5. GotInv(s)'
    <3>1. \A b \in Range(buffer') : (\E i \in Range(got[s]) : b.eid < i) => b \in Range(buffer)
      BY <1>2, <1>5, <2>1 DEF StreamInv, GotInv
    <3> QED
      BY <1>2, <1>3, <2>1, <3>1 DEF StreamInv, GotInv
  <2> QED
    BY <2>2, <2>3, <2>4, <2>5 DEF StreamInv
<1> QED
  BY <1>7, <1>8, <1>10, <1>11 DEF Inv

LEMMA DeliverInv ==
  ASSUME Inv, Deliver
  PROVE  Inv'
<1> DEFINE e == Head(callbacks)
<1>1. TypeOK /\ BufferInv /\ CallbacksInv /\ \A s \in Clients : StreamInv(s)
  BY DEF Inv
<1>2. callbacks \in Seq(Events) /\ callbacks # <<>>
  BY <1>1 DEF TypeOK, Deliver
<1>3. /\ e \in Events /\ callbacks' = Tail(callbacks) /\ callbacks' \in Seq(Events)
      /\ Range(callbacks) = Range(callbacks') \cup {e}
      /\ Ascending(callbacks') /\ \A c \in Range(callbacks') : e.eid < c.eid
  BY <1>1, <1>2, RangeTail, AscendingTail DEF Deliver, CallbacksInv
<1>4. /\ queue' = [s \in Clients |-> IF s \in Subscribed THEN Put(queue[s], e) ELSE queue[s]]
      /\ lost' = [s \in Clients |->
            IF s \in Subscribed
            THEN lost[s] \cup (IdsOf(Append(queue[s], e)) \ IdsOf(queue'[s]))
            ELSE lost[s]]
      /\ ready' = ready \cup Subscribed
      /\ UNCHANGED <<lastId, buffer, stream, replay, since, got, connects>>
  BY DEF Deliver
<1> HIDE DEF e
<1>5. e.eid \in 1 .. lastId /\ \A b \in Range(buffer) : b.eid = e.eid => b = e
  BY <1>1, <1>3 DEF CallbacksInv
<1>6. ASSUME NEW s \in Clients, s \in Subscribed
      PROVE  /\ queue'[s] = Put(queue[s], e) /\ queue'[s] \in Seq(Events)
             /\ Len(queue'[s]) <= MaxQueue /\ Range(queue'[s]) \subseteq Range(queue[s]) \cup {e}
             /\ Ascending(queue'[s])
             /\ IdsOf(Append(queue[s], e)) = IdsOf(queue[s]) \cup {e.eid}
  <2>1. queue[s] \in Seq(Events) /\ Len(queue[s]) <= MaxQueue
    BY <1>1, TypeFacts
  <2>2. Ascending(queue[s]) /\ \A x \in Range(queue[s]) : x.eid < e.eid
    BY <1>1, <1>3 DEF StreamInv, QueueInv
  <2>3. queue'[s] = Put(queue[s], e)
    BY <1>4, <1>6
  <2>4. IdsOf(Append(queue[s], e)) = IdsOf(queue[s]) \cup {e.eid}
    <3>1. Range(Append(queue[s], e)) = Range(queue[s]) \cup {e}
      BY <1>3, <2>1, RangeAppend
    <3> QED
      BY <3>1 DEF IdsOf
  <2>5. /\ Put(queue[s], e) \in Seq(Events) /\ Len(Put(queue[s], e)) <= MaxQueue
        /\ Range(Put(queue[s], e)) \subseteq Range(queue[s]) \cup {e}
        /\ Ascending(Put(queue[s], e))
    BY <1>3, <2>1, <2>2, PutFacts
  <2> QED
    BY <2>3, <2>4, <2>5
<1>7. TypeOK'
  <2>1. queue' \in [Clients -> Seq(Events)] /\ \A s \in Clients : Len(queue'[s]) <= MaxQueue
    <3>1. ASSUME NEW s \in Clients
          PROVE  queue'[s] \in Seq(Events) /\ Len(queue'[s]) <= MaxQueue
      BY <1>1, <1>4, <1>6 DEF TypeOK
    <3> QED
      BY <1>4, <3>1
  <2>2. lost' \in [Clients -> SUBSET (1 .. MaxEvents)]
    <3>1. ASSUME NEW s \in Clients, s \in Subscribed
          PROVE  IdsOf(queue[s]) \cup {e.eid} \subseteq 1 .. MaxEvents
      <4>1. \A i \in 1 .. lastId : i \in 1 .. MaxEvents
        BY <1>1, EventBusAssumption DEF TypeOK
      <4>2. \A x \in Range(queue[s]) : x.eid \in 1 .. lastId
        BY <1>1 DEF StreamInv, QueueInv
      <4> QED
        BY <1>5, <4>1, <4>2 DEF IdsOf
    <3>2. ASSUME NEW s \in Clients PROVE lost'[s] \subseteq 1 .. MaxEvents
      BY <1>1, <1>4, <1>6, <3>1 DEF TypeOK
    <3> QED
      BY <1>4, <3>2
  <2> QED
    BY <1>1, <1>3, <1>4, <2>1, <2>2 DEF TypeOK, Subscribed
<1>8. BufferInv' /\ CallbacksInv'
  BY <1>1, <1>3, <1>4 DEF BufferInv, CallbacksInv
<1>9. ASSUME NEW s \in Clients PROVE StreamInv(s)'
  <2>1. StreamInv(s)
    BY <1>1
  <2>2. CASE s \in Subscribed
    <3>1. /\ queue'[s] = Put(queue[s], e) /\ queue'[s] \in Seq(Events)
          /\ Range(queue'[s]) \subseteq Range(queue[s]) \cup {e} /\ Ascending(queue'[s])
          /\ IdsOf(Append(queue[s], e)) = IdsOf(queue[s]) \cup {e.eid}
      BY <1>6, <2>2
    <3>2. lost'[s] = lost[s] \cup ((IdsOf(queue[s]) \cup {e.eid}) \ IdsOf(queue'[s]))
      BY <1>4, <2>2, <3>1
    <3>3. s \in ready' /\ stream[s] # "closed"
      BY <1>4, <2>2 DEF Subscribed
    <3>4. QueueInv(s)'
      <4>1. \A x \in Range(queue'[s]) : \A c \in Range(callbacks') : x.eid < c.eid
        BY <1>3, <2>1, <3>1 DEF StreamInv, QueueInv
      <4>2. \A x \in Range(queue'[s]) : x.eid \in 1 .. lastId
                                        /\ \A b \in Range(buffer) : b.eid = x.eid => b = x
        BY <1>5, <2>1, <3>1 DEF StreamInv, QueueInv
      <4> QED
        BY <1>4, <3>1, <3>3, <4>1, <4>2 DEF QueueInv
    <3>5. IdsOf(callbacks) = IdsOf(callbacks') \cup {e.eid}
      BY <1>3 DEF IdsOf
    <3>6. ReachInv(s)'
      BY <1>4, <2>1, <3>2, <3>5 DEF StreamInv, ReachInv
    <3>7. ReplayInv(s)' /\ GotInv(s)'
      BY <1>4, <2>1, <3>2 DEF StreamInv, ReplayInv, GotInv, Ascending
    <3> QED
      BY <3>4, <3>6, <3>7 DEF StreamInv
  <2>3. CASE s \notin Subscribed
    <3>1. stream[s] = "closed" /\ queue'[s] = queue[s] /\ lost'[s] = lost[s]
      BY <1>4, <2>3 DEF Subscribed
    <3>2. \A c \in Range(callbacks') : c \in Range(callbacks)
      BY <1>3
    <3> QED
      BY <1>4, <2>1, <3>1, <3>2
      DEF StreamInv, QueueInv, ReplayInv, ReachInv, GotInv, Ascending
  <2> QED
    BY <2>2, <2>3
<1> QED
  BY <1>7, <1>8, <1>9 DEF Inv

LEMMA ConnectInv ==
  ASSUME Inv, NEW s \in Clients, Connect(s)
  PROVE  Inv'
<1> DEFINE seen == LastEventId(s)
<1>1. TypeOK /\ BufferInv /\ CallbacksInv /\ \A t \in Clients : StreamInv(t)
  BY DEF Inv
<1>2. /\ stream[s] = "closed" /\ stream' = [stream EXCEPT ![s] = "replay"]
      /\ replay' = [replay EXCEPT ![s] = Backlog(seen)]
      /\ since' = [since EXCEPT ![s] = lastId]
      /\ connects' = [connects EXCEPT ![s] = @ + 1] /\ connects[s] < MaxConnects
      /\ UNCHANGED <<lastId, buffer, callbacks, queue, ready, got, lost>>
  BY DEF Connect
<1>3. got[s] \in Seq(1 .. MaxEvents) /\ lastId \in Nat
  BY <1>1, TypeFacts
<1>4. seen \in Nat /\ (seen = 0 \/ seen \in Range(got[s]))
  <2>1. CASE got[s] = <<>>
    BY <2>1 DEF LastEventId
  <2>2. CASE got[s] # <<>>
    <3>1. Len(got[s]) \in 1 .. Len(got[s]) /\ seen = got[s][Len(got[s])]
      BY <1>3, <2>2 DEF LastEventId
    <3>2. \A i \in 1 .. Len(got[s]) : got[s][i] \in 1 .. MaxEvents /\ got[s][i] \in Range(got[s])
      BY <1>3, RangeIs
    <3> HIDE DEF seen
    <3> QED
      BY <3>1, <3>2
  <2> QED
    BY <2>1, <2>2
<1> HIDE DEF seen
<1>5. /\ Backlog(seen) \in Seq(Events) /\ Ascending(Backlog(seen))
      /\ \A e : e \in Range(Backlog(seen)) <=> e \in Range(buffer) /\ e.eid > seen
  BY <1>1, <1>4, BacklogFacts
<1>6. \A b \in Range(buffer) : b.eid \in 1 .. lastId
  BY <1>1, BufferFacts
<1>7. TypeOK'
  <2>1. connects' \in [Clients -> 0 .. MaxConnects]
    BY <1>1, <1>2, EventBusAssumption DEF TypeOK
  <2>2. lastId \in 0 .. MaxEvents
    BY <1>1 DEF TypeOK
  <2> QED
    BY <1>1, <1>2, <1>5, <2>1, <2>2 DEF TypeOK
<1>8. BufferInv' /\ CallbacksInv'
  BY <1>1, <1>2 DEF BufferInv, CallbacksInv
<1>9. StreamInv(s)'
  <2>1. /\ stream'[s] = "replay" /\ replay'[s] = Backlog(seen) /\ since'[s] = lastId
        /\ queue'[s] = queue[s] /\ got'[s] = got[s] /\ lost'[s] = lost[s]
    BY <1>1, <1>2 DEF TypeOK
  <2>2. QueueInv(s)' /\ GotInv(s)'
    BY <1>1, <1>2, <2>1 DEF StreamInv, QueueInv, GotInv
  <2>3. ReplayInv(s)'
    BY <1>2, <1>3, <1>5, <1>6, <2>1 DEF ReplayInv
  <2>4. ReachInv(s)'
    <3>1. ASSUME NEW b \in Range(buffer)
          PROVE  b.eid \in IdsOf(Backlog(seen)) \cup Range(got[s]) \cup lost[s]
      <4>1. CASE b.eid > seen
        BY <1>5, <4>1 DEF IdsOf
      <4>2. CASE b.eid = seen
        BY <1>4, <1>6, <4>2
      <4>3. CASE b.eid < seen
        BY <1>1, <1>4, <1>6, <4>3 DEF StreamInv, GotInv
      <4> QED
        BY <1>4, <1>6, <4>1, <4>2, <4>3
    <3>2. \A id \in since'[s] + 1 .. lastId' : FALSE
      BY <1>2, <1>3, <2>1
    <3> QED
      BY <1>2, <2>1, <3>1, <3>2 DEF ReachInv
  <2> QED
    BY <2>2, <2>3, <2>4 DEF StreamInv
<1>10. ASSUME NEW t \in Clients, t # s PROVE StreamInv(t)'
  <2>1. /\ stream'[t] = stream[t] /\ replay'[t] = replay[t] /\ since'[t] = since[t]
        /\ queue'[t] = queue[t] /\ got'[t] = got[t] /\ lost'[t] = lost[t] /\ ready' = ready
    BY <1>1, <1>2, <1>10 DEF TypeOK
  <2> QED
    BY <1>1, <1>2, <2>1, OtherStream
<1> QED
  BY <1>7, <1>8, <1>9, <1>10 DEF Inv

(* An event is sent whose predecessors in the buffer are all accounted for. *)
LEMMA GotNext ==
  ASSUME NEW s \in Clients, GotInv(s), got[s] \in Seq(1 .. MaxEvents), NEW id \in 1 .. MaxEvents,
         id \in 1 .. lastId, lastId \in Nat, UNCHANGED <<lastId, buffer, lost>>,
         got'[s] = Append(got[s], id), \A b \in Range(buffer) : b.eid \in 1 .. lastId,
         \A b \in Range(buffer) : b.eid < id => b.eid \in Range(got[s]) \cup lost[s]
  PROVE  GotInv(s)' /\ Range(got'[s]) = Range(got[s]) \cup {id}
<1>1. Range(Append(got[s], id)) = Range(got[s]) \cup {id}
  BY RangeAppendIds
<1>2. Range(got'[s]) = Range(got[s]) \cup {id}
  BY <1>1
<1> QED
  BY <1>2 DEF GotInv

LEMMA ReplayStepInv ==
  ASSUME Inv, NEW s \in Clients, Replay(s)
  PROVE  Inv'
<1>1. TypeOK /\ BufferInv /\ CallbacksInv /\ \A t \in Clients : StreamInv(t)
  BY DEF Inv
<1>2. /\ stream[s] = "replay"
      /\ UNCHANGED <<lastId, buffer, callbacks, queue, ready, since, lost, connects>>
  BY DEF Replay
<1>3. BufferInv' /\ CallbacksInv'
  BY <1>1, <1>2 DEF BufferInv, CallbacksInv
<1>4. ASSUME NEW t \in Clients, t # s PROVE StreamInv(t)'
  <2>1. stream'[t] = stream[t] /\ replay'[t] = replay[t] /\ got'[t] = got[t]
    BY <1>1, <1>4 DEF Replay, TypeOK
  <2> QED
    BY <1>1, <1>2, <2>1, OtherStream
<1>5. QueueInv(s) /\ ReplayInv(s) /\ ReachInv(s) /\ GotInv(s)
  BY <1>1 DEF StreamInv
<1>6. CASE replay[s] = <<>>
  <2>1. /\ stream' = [stream EXCEPT ![s] = "live"] /\ UNCHANGED <<got, replay>>
        /\ stream'[s] = "live"
    BY <1>1, <1>6 DEF Replay, TypeOK
  <2>2. TypeOK'
    BY <1>1, <1>2, <2>1 DEF TypeOK
  <2>3. StreamInv(s)'
    BY <1>2, <1>5, <1>6, <2>1 DEF StreamInv, QueueInv, ReplayInv, ReachInv, GotInv
  <2> QED
    BY <1>3, <1>4, <2>2, <2>3 DEF Inv
<1>7. CASE replay[s] # <<>>
  <2> DEFINE e == Head(replay[s])
  <2>1. /\ got' = [got EXCEPT ![s] = Append(@, e.eid)]
        /\ replay' = [replay EXCEPT ![s] = Tail(@)] /\ stream' = stream
    BY <1>7 DEF Replay
  <2>2. replay[s] \in Seq(Events) /\ got[s] \in Seq(1 .. MaxEvents) /\ lastId \in Nat
        /\ since[s] \in Nat
    BY <1>1, TypeFacts
  <2>3. /\ Tail(replay[s]) \in Seq(Events) /\ Range(replay[s]) = Range(Tail(replay[s])) \cup {e}
        /\ Ascending(Tail(replay[s])) /\ \A x \in Range(Tail(replay[s])) : e.eid < x.eid
    BY <1>5, <1>7, <2>2, RangeTail, AscendingTail DEF ReplayInv
  <2> HIDE DEF e
  <2>4. e.eid \in 1 .. since[s] /\ since[s] <= lastId
    BY <1>5, <2>3 DEF ReplayInv
  <2>5. e.eid \in 1 .. lastId /\ e.eid \in 1 .. MaxEvents
    BY <1>1, <2>2, <2>4, EventBusAssumption DEF TypeOK
  <2>6. got'[s] = Append(got[s], e.eid) /\ replay'[s] = Tail(replay[s])
    BY <1>1, <2>1 DEF TypeOK
  <2>7. \A b \in Range(buffer) : b.eid \in 1 .. lastId
    BY <1>1, BufferFacts
  <2>8. IdsOf(replay[s]) = IdsOf(Tail(replay[s])) \cup {e.eid}
    BY <2>3 DEF IdsOf
  <2>9. ASSUME NEW b \in Range(buffer), b.eid < e.eid
        PROVE  b.eid \in Range(got[s]) \cup lost[s]
    <3>1. b.eid \in IdsOf(replay[s]) \cup Range(got[s]) \cup lost[s]
      BY <1>2, <1>5, <2>2, <2>4, <2>7, <2>9 DEF ReachInv
    <3>2. b.eid \notin IdsOf(replay[s])
      <4> SUFFICES ASSUME NEW x \in Range(replay[s]), x.eid = b.eid PROVE FALSE
        BY DEF IdsOf
      <4> QED
        BY <2>2, <2>3, <2>4, <2>7, <2>9
    <3> QED
      BY <3>1, <3>2
  <2>10. GotInv(s)' /\ Range(got'[s]) = Range(got[s]) \cup {e.eid}
    BY <1>2, <1>5, <2>2, <2>5, <2>6, <2>7, <2>9, GotNext
  <2>11. TypeOK'
    <3>1. Append(got[s], e.eid) \in Seq(1 .. MaxEvents)
      BY <2>2, <2>5
    <3> QED
      BY <1>1, <1>2, <2>1, <2>3, <3>1 DEF TypeOK
  <2>12. ReplayInv(s)'
    BY <1>2, <1>5, <2>1, <2>3, <2>6 DEF ReplayInv
  <2>13. QueueInv(s)'
    BY <1>2, <1>5, <2>1 DEF QueueInv
  <2>14. ReachInv(s)'
    BY <1>2, <1>5, <2>1, <2>6, <2>8, <2>10 DEF ReachInv
  <2>15. StreamInv(s)'
    BY <2>10, <2>12, <2>13, <2>14 DEF StreamInv
  <2> QED
    BY <1>3, <1>4, <2>11, <2>15 DEF Inv
<1> QED
  BY <1>6, <1>7

LEMMA TakeInv ==
  ASSUME Inv, NEW s \in Clients, Take(s)
  PROVE  Inv'
<1>1. TypeOK /\ BufferInv /\ CallbacksInv /\ \A t \in Clients : StreamInv(t)
  BY DEF Inv
<1>2. stream[s] = "live" /\ UNCHANGED <<lastId, buffer, callbacks, replay, since, lost, connects>>
  BY DEF Take
<1>3. BufferInv' /\ CallbacksInv'
  BY <1>1, <1>2 DEF BufferInv, CallbacksInv
<1>4. ASSUME NEW t \in Clients, t # s PROVE StreamInv(t)'
  <2>1. stream'[t] = stream[t] /\ queue'[t] = queue[t] /\ got'[t] = got[t]
        /\ (t \in ready => t \in ready')
    BY <1>1, <1>4 DEF Take, TypeOK
  <2> QED
    BY <1>1, <1>2, <2>1, OtherStream
<1>5. QueueInv(s) /\ ReplayInv(s) /\ ReachInv(s) /\ GotInv(s)
  BY <1>1 DEF StreamInv
<1>6. CASE queue[s] = <<>>
  <2>1. /\ stream' = [stream EXCEPT ![s] = "waiting"] /\ UNCHANGED <<got, queue>>
        /\ ready' = ready \ {s} /\ stream'[s] = "waiting"
    BY <1>1, <1>6 DEF Take, TypeOK
  <2>2. TypeOK'
    BY <1>1, <1>2, <2>1 DEF TypeOK
  <2>3. StreamInv(s)'
    BY <1>2, <1>5, <1>6, <2>1 DEF StreamInv, QueueInv, ReplayInv, ReachInv, GotInv
  <2> QED
    BY <1>3, <1>4, <2>2, <2>3 DEF Inv
<1>7. CASE queue[s] # <<>>
  <2> DEFINE e == Head(queue[s])
  <2>1. /\ got' = [got EXCEPT ![s] = Append(@, e.eid)]
        /\ queue' = [queue EXCEPT ![s] = Tail(@)] /\ stream' = stream /\ ready' \subseteq ready
    BY <1>7 DEF Take
  <2>2. /\ queue[s] \in Seq(Events) /\ got[s] \in Seq(1 .. MaxEvents) /\ lastId \in Nat
        /\ since[s] \in Nat /\ Len(queue[s]) <= MaxQueue
    BY <1>1, TypeFacts
  <2>3. /\ Tail(queue[s]) \in Seq(Events) /\ Range(queue[s]) = Range(Tail(queue[s])) \cup {e}
        /\ Ascending(Tail(queue[s])) /\ \A x \in Range(Tail(queue[s])) : e.eid < x.eid
    BY <1>5, <1>7, <2>2, RangeTail, AscendingTail DEF QueueInv
  <2>4. Len(Tail(queue[s])) <= MaxQueue
    BY <1>7, <2>2, RangeTail, EventBusAssumption
  <2> HIDE DEF e
  <2>5. e.eid \in 1 .. lastId /\ \A c \in Range(callbacks) : e.eid < c.eid
    BY <1>5, <2>3 DEF QueueInv
  <2>6. e.eid \in 1 .. MaxEvents
    BY <1>1, <2>2, <2>5, EventBusAssumption DEF TypeOK
  <2>7. got'[s] = Append(got[s], e.eid) /\ queue'[s] = Tail(queue[s])
    BY <1>1, <2>1 DEF TypeOK
  <2>8. \A b \in Range(buffer) : b.eid \in 1 .. lastId
    BY <1>1, BufferFacts
  <2>9. IdsOf(queue[s]) = IdsOf(Tail(queue[s])) \cup {e.eid}
    BY <2>3 DEF IdsOf
  <2>10. ASSUME NEW b \in Range(buffer), b.eid < e.eid
         PROVE  b.eid \in Range(got[s]) \cup lost[s]
    <3>1. CASE b.eid <= since[s]
      <4>1. IdsOf(replay[s]) = {}
        <5>1. Range(<<>>) = {}
          BY DEF Range
        <5> QED
          BY <1>2, <1>5, <5>1 DEF ReplayInv, IdsOf
      <4> QED
        BY <1>2, <1>5, <3>1, <4>1 DEF ReachInv
    <3>2. CASE b.eid > since[s]
      <4>1. b.eid \in since[s] + 1 .. lastId
        BY <2>2, <2>8, <3>2
      <4>2. b.eid \in IdsOf(callbacks) \cup IdsOf(queue[s]) \cup Range(got[s]) \cup lost[s]
        BY <1>2, <1>5, <4>1 DEF ReachInv
      <4>3. b.eid \notin IdsOf(callbacks)
        <5> SUFFICES ASSUME NEW c \in Range(callbacks), c.eid = b.eid PROVE FALSE
          BY DEF IdsOf
        <5> QED
          BY <2>5, <2>8, <2>10
      <4>4. b.eid \notin IdsOf(queue[s])
        <5> SUFFICES ASSUME NEW c \in Range(queue[s]), c.eid = b.eid PROVE FALSE
          BY DEF IdsOf
        <5> QED
          BY <2>3, <2>5, <2>8, <2>10
      <4> QED
        BY <4>2, <4>3, <4>4
    <3> QED
      BY <2>2, <2>8, <3>1, <3>2
  <2>11. GotInv(s)' /\ Range(got'[s]) = Range(got[s]) \cup {e.eid}
    BY <1>2, <1>5, <2>2, <2>5, <2>6, <2>7, <2>8, <2>10, GotNext
  <2>12. TypeOK'
    <3>1. Append(got[s], e.eid) \in Seq(1 .. MaxEvents)
      BY <2>2, <2>6
    <3> QED
      BY <1>1, <1>2, <2>1, <2>3, <2>4, <3>1 DEF TypeOK
  <2>13. QueueInv(s)'
    BY <1>2, <1>5, <2>1, <2>3, <2>7 DEF QueueInv
  <2>14. ReplayInv(s)'
    BY <1>2, <1>5, <2>1 DEF ReplayInv
  <2>15. ReachInv(s)'
    BY <1>2, <1>5, <2>1, <2>7, <2>9, <2>11 DEF ReachInv
  <2>16. StreamInv(s)'
    BY <2>11, <2>13, <2>14, <2>15 DEF StreamInv
  <2> QED
    BY <1>3, <1>4, <2>12, <2>16 DEF Inv
<1> QED
  BY <1>6, <1>7

LEMMA WakeInv ==
  ASSUME Inv, NEW s \in Clients, Wake(s)
  PROVE  Inv'
<1>1. TypeOK /\ BufferInv /\ CallbacksInv /\ \A t \in Clients : StreamInv(t)
  BY DEF Inv
<1>2. /\ stream[s] = "waiting" /\ stream' = [stream EXCEPT ![s] = "live"] /\ stream'[s] = "live"
      /\ UNCHANGED <<lastId, buffer, callbacks, replay, queue, ready, since, got, lost, connects>>
  BY <1>1 DEF Wake, TypeOK
<1>3. TypeOK' /\ BufferInv' /\ CallbacksInv'
  BY <1>1, <1>2 DEF TypeOK, BufferInv, CallbacksInv
<1>4. StreamInv(s)'
  BY <1>1, <1>2 DEF StreamInv, QueueInv, ReplayInv, ReachInv, GotInv, Ascending
<1>5. ASSUME NEW t \in Clients, t # s PROVE StreamInv(t)'
  <2>1. stream'[t] = stream[t]
    BY <1>1, <1>2, <1>5 DEF TypeOK
  <2> QED
    BY <1>1, <1>2, <2>1, OtherStream
<1> QED
  BY <1>3, <1>4, <1>5 DEF Inv

LEMMA DisconnectInv ==
  ASSUME Inv, NEW s \in Clients, Disconnect(s)
  PROVE  Inv'
<1>1. TypeOK /\ BufferInv /\ CallbacksInv /\ \A t \in Clients : StreamInv(t)
  BY DEF Inv
<1>2. /\ stream' = [stream EXCEPT ![s] = "closed"] /\ stream'[s] = "closed"
      /\ replay' = [replay EXCEPT ![s] = <<>>] /\ replay'[s] = <<>>
      /\ queue' = [queue EXCEPT ![s] = <<>>] /\ queue'[s] = <<>>
      /\ ready' = ready \ {s}
      /\ UNCHANGED <<lastId, buffer, callbacks, since, got, lost, connects>>
  BY <1>1 DEF Disconnect, TypeOK
<1>3. <<>> \in Seq(Events) /\ Len(<<>>) = 0 /\ Range(<<>>) = {} /\ Ascending(<<>>)
  BY DEF Range, Ascending
<1>4. TypeOK' /\ BufferInv' /\ CallbacksInv'
  BY <1>1, <1>2, <1>3, EventBusAssumption, SMTT(30) DEF TypeOK, BufferInv, CallbacksInv
<1>5. StreamInv(s)'
  BY <1>1, <1>2, <1>3 DEF StreamInv, QueueInv, ReplayInv, ReachInv, GotInv
<1>6. ASSUME NEW t \in Clients, t # s PROVE StreamInv(t)'
  <2>1. stream'[t] = stream[t] /\ replay'[t] = replay[t] /\ queue'[t] = queue[t]
        /\ (t \in ready => t \in ready')
    BY <1>1, <1>2, <1>6 DEF TypeOK
  <2> QED
    BY <1>1, <1>2, <2>1, OtherStream
<1> QED
  BY <1>4, <1>5, <1>6 DEF Inv

LEMMA InvStep ==
  ASSUME Inv, [Next]_vars
  PROVE  Inv'
<1>1. ASSUME NEW kind \in Kinds, Publish(kind) PROVE Inv'
  BY <1>1, PublishInv
<1>2. CASE Deliver
  BY <1>2, DeliverInv
<1>3. ASSUME NEW s \in Clients, StreamMoves(s) PROVE Inv'
  BY <1>3, ConnectInv, ReplayStepInv, TakeInv, WakeInv, DisconnectInv DEF StreamMoves
<1>4. CASE UNCHANGED vars
  <2>1. TypeOK' /\ BufferInv' /\ CallbacksInv'
    BY <1>4 DEF vars, Inv, TypeOK, BufferInv, CallbacksInv
  <2>2. ASSUME NEW t \in Clients PROVE StreamInv(t)'
    BY <1>4, OtherStream DEF vars, Inv
  <2> QED
    BY <2>1, <2>2 DEF Inv
<1> QED
  BY <1>1, <1>2, <1>3, <1>4 DEF Next

THEOREM BusInvariant == Spec => []Inv
  BY InitInv, InvStep, PTL DEF Spec

-----------------------------------------------------------------------------
(***************************************************************************)
(* The bus is well typed: replay buffer and queues stay within their sizes.*)
(***************************************************************************)
THEOREM Typed == Spec => []TypeOK
<1>1. Inv => TypeOK
  BY DEF Inv
<1> QED
  BY BusInvariant, <1>1, PTL

(***************************************************************************)
(* A stream never sleeps on a queue that holds something.                  *)
(***************************************************************************)
THEOREM WakeupsNotLost == Spec => []NoLostWakeup
<1>1. Inv => NoLostWakeup
  BY DEF Inv, StreamInv, QueueInv, NoLostWakeup
<1> QED
  BY BusInvariant, <1>1, PTL

(***************************************************************************)
(* Reconnecting leaves no gap: what the buffer holds below the newest      *)
(* event a client received, it received too, or an overflow gave it up.    *)
(***************************************************************************)
THEOREM NoGaps == Spec => []NothingSkipped
<1>1. Inv => NothingSkipped
  BY DEF Inv, StreamInv, GotInv, NothingSkipped
<1> QED
  BY BusInvariant, <1>1, PTL

(***************************************************************************)
(* An overflow takes a job transition only from a queue that holds nothing *)
(* else.                                                                   *)
(***************************************************************************)
THEOREM JobsLeaveLast == Spec => JobEventsLeaveLast
<1> DEFINE Kept(s, e) ==
      e.kind = "job" /\ callbacks' # callbacks /\ e \notin Range(queue'[s])
         /\ stream'[s] = stream[s]
        => \A x \in Range(queue[s]) : x.kind = "job"
<1>1. ASSUME Inv, [Next]_vars, NEW s \in Clients, NEW e \in Range(queue[s])
      PROVE  Kept(s, e)
  <2>1. TypeOK /\ queue[s] \in Seq(Events) /\ Len(queue[s]) <= MaxQueue /\ callbacks \in Seq(Events)
    BY <1>1, TypeFacts DEF Inv
  <2>2. CASE Deliver
    <3> DEFINE h == Head(callbacks)
    <3>1. h \in Events
      BY <2>1, <2>2, RangeTail DEF Deliver
    <3>2. queue'[s] = queue[s] \/ queue'[s] = Put(queue[s], h)
      BY <2>2 DEF Deliver
    <3> HIDE DEF h
    <3> QED
      BY <1>1, <2>1, <3>1, <3>2, PutFacts
  <2>3. CASE queue'[s] = queue[s]
    BY <1>1, <2>3
  <2>4. CASE callbacks' = callbacks
    BY <2>4
  <2>5. (\E kind \in Kinds : Publish(kind)) => queue'[s] = queue[s]
    BY DEF Publish
  <2>6. ASSUME NEW t \in Clients, StreamMoves(t) PROVE callbacks' = callbacks
    BY <2>6 DEF StreamMoves, Connect, Replay, Take, Wake, Disconnect
  <2>7. UNCHANGED vars => callbacks' = callbacks
    BY DEF vars
  <2> HIDE DEF Kept
  <2> QED
    BY <1>1, <2>2, <2>3, <2>4, <2>5, <2>6, <2>7 DEF Next
<1>2. ASSUME Inv, [Next]_vars
      PROVE  \A s \in Clients : \A e \in Range(queue[s]) : Kept(s, e)
  BY <1>1, <1>2
<1>3. Inv /\ [Next]_vars => [\A s \in Clients : \A e \in Range(queue[s]) : Kept(s, e)]_vars
  BY <1>2
<1> QED
  BY BusInvariant, <1>3, PTL DEF Spec, JobEventsLeaveLast

-----------------------------------------------------------------------------
(* The newest job transition *)

(* What the client has, or may still get.                                  *)
Reaches(s) == Range(got[s]) \cup OnItsWay(s)

LEMMA PublishKeepsNewest ==
  ASSUME Inv, NewestJobEventKept, NEW kind \in Kinds, Publish(kind)
  PROVE  NewestJobEventKept'
<1> DEFINE e == Event(lastId + 1, kind)
<1>1. TypeOK /\ BufferInv /\ lastId \in Nat /\ \A s \in Clients : StreamInv(s)
  BY TypeFacts, EventBusAssumption DEF Inv, TypeOK
<1>2. e \in Events /\ e.eid = lastId + 1
  BY <1>1 DEF Event, Events
<1>3. /\ lastId' = lastId + 1 /\ buffer' = Keep(buffer, e)
      /\ (callbacks' = callbacks /\ Subscribed = {}) \/ callbacks' = Append(callbacks, e)
      /\ UNCHANGED <<stream, replay, queue, ready, since, got, lost, connects>>
  BY DEF Publish
<1> HIDE DEF e
<1>4. callbacks \in Seq(Events) /\ buffer \in Seq(Events) /\ Len(buffer) \in Nat
  BY <1>1 DEF TypeOK
<1>5. e \in Range(buffer') /\ Range(buffer') \subseteq Range(buffer) \cup {e}
  BY <1>1, <1>2, <1>3, KeepFacts
<1> SUFFICES ASSUME NEW s \in Subscribed, NEW j \in Range(buffer'), j.eid > since[s],
                    j.kind = "job", \A x \in Range(buffer') : x.kind = "job" => x.eid <= j.eid
             PROVE  j.eid \in Reaches(s)'
  BY <1>3 DEF NewestJobEventKept, Subscribed, Reaches
<1>6. callbacks' = Append(callbacks, e)
  BY <1>3
<1>7. Range(callbacks') = Range(callbacks) \cup {e}
  BY <1>2, <1>4, <1>6, RangeAppend
<1>8. IdsOf(callbacks') = IdsOf(callbacks) \cup {e.eid}
  BY <1>7 DEF IdsOf
<1>9. CASE j = e
  BY <1>8, <1>9 DEF Reaches, OnItsWay
<1>10. CASE j # e
  <2>1. j \in Range(buffer) /\ j.eid \in 1 .. lastId
    BY <1>1, <1>5, <1>10, BufferFacts
  <2>2. ASSUME NEW x \in Range(buffer), x.kind = "job" PROVE x.eid <= j.eid
    <3>1. CASE x \in Range(buffer')
      BY <2>2, <3>1
    <3>2. CASE x \notin Range(buffer')
      <4>1. ~(Len(buffer) < MaxBuffer) /\ buffer # <<>>
        <5>1. Len(buffer) < MaxBuffer => Range(buffer') = Range(buffer) \cup {e}
          BY <1>2, <1>3, <1>4, RangeAppend DEF Keep
        <5>2. buffer # <<>>
          BY <1>4, RangeIs
        <5> QED
          BY <3>2, <5>1, <5>2
      <4>2. buffer' = Append(Tail(buffer), e) /\ Tail(buffer) \in Seq(Events)
        BY <1>3, <1>4, <4>1, RangeTail DEF Keep
      <4>3. Range(buffer') = Range(Tail(buffer)) \cup {e}
        BY <1>2, <4>2, RangeAppend, ZenonT(60)
      <4>4. x = buffer[1] /\ 1 \in 1 .. Len(buffer)
        BY <1>4, <3>2, <4>1, <4>3, RangeTail
      <4>5. PICK i \in 1 .. Len(buffer) : buffer[i] = j
        BY <1>4, <2>1, RangeIs
      <4>6. x.eid = lastId - Len(buffer) + 1 /\ j.eid = lastId - Len(buffer) + i
        BY <1>1, <4>4, <4>5 DEF BufferInv
      <4> QED
        BY <1>1, <1>4, <4>5, <4>6
    <3> QED
      BY <3>1, <3>2
  <2>3. j.eid \in Reaches(s)
    BY <2>1, <2>2 DEF NewestJobEventKept, Reaches
  <2> QED
    BY <1>3, <1>8, <2>3 DEF Reaches, OnItsWay
<1> QED
  BY <1>9, <1>10

LEMMA DeliverKeepsNewest ==
  ASSUME Inv, NewestJobEventKept, MaxQueue >= 2, Deliver
  PROVE  NewestJobEventKept'
<1> DEFINE e == Head(callbacks)
<1>1. TypeOK /\ BufferInv /\ CallbacksInv /\ \A s \in Clients : StreamInv(s)
  BY DEF Inv
<1>2. callbacks \in Seq(Events) /\ callbacks # <<>>
  BY <1>1 DEF TypeOK, Deliver
<1>3. /\ e \in Events /\ callbacks' = Tail(callbacks)
      /\ Range(callbacks) = Range(callbacks') \cup {e}
  BY <1>2, RangeTail DEF Deliver
<1>4. /\ \A s \in Subscribed : queue'[s] = Put(queue[s], e)
      /\ UNCHANGED <<lastId, buffer, stream, replay, since, got, connects>>
  BY DEF Deliver, Subscribed
<1> HIDE DEF e
<1> SUFFICES ASSUME NEW s \in Subscribed, NEW j \in Range(buffer), j.eid > since[s],
                    j.kind = "job", \A x \in Range(buffer) : x.kind = "job" => x.eid <= j.eid
             PROVE  j.eid \in Reaches(s)'
  BY <1>4 DEF NewestJobEventKept, Subscribed, Reaches
<1>5. s \in Clients /\ queue[s] \in Seq(Events) /\ Len(queue[s]) <= MaxQueue
      /\ StreamInv(s) /\ queue'[s] = Put(queue[s], e)
  BY <1>1, <1>4, TypeFacts DEF Subscribed
<1>6. j.eid \in Reaches(s)
  BY DEF NewestJobEventKept, Reaches
<1>7. IdsOf(callbacks) = IdsOf(callbacks') \cup {e.eid}
  BY <1>3 DEF IdsOf
<1>8. CASE j.eid \in Range(got[s]) \cup IdsOf(replay[s]) \cup IdsOf(callbacks')
  BY <1>4, <1>8 DEF Reaches, OnItsWay
<1>9. CASE j.eid = e.eid
  <2>1. j = e
    BY <1>1, <1>3, <1>9 DEF CallbacksInv
  <2>2. e \in Range(queue'[s])
    BY <1>3, <1>5, <2>1, PutFacts
  <2> QED
    BY <2>1, <2>2 DEF Reaches, OnItsWay, IdsOf
<1>10. CASE j.eid \in IdsOf(queue[s])
  <2>1. j \in Range(queue[s])
    <3>1. PICK x \in Range(queue[s]) : x.eid = j.eid
      BY <1>10 DEF IdsOf
    <3> QED
      BY <1>5, <3>1 DEF StreamInv, QueueInv
  <2>2. ASSUME j \notin Range(queue'[s]) PROVE FALSE
    <3>1. Len(queue[s]) = MaxQueue /\ j = queue[s][1] /\ \A y \in Range(queue[s]) : y.kind = "job"
      BY <1>3, <1>5, <2>1, <2>2, PutFacts
    <3>2. 1 \in 1 .. Len(queue[s]) /\ 2 \in 1 .. Len(queue[s])
      BY <3>1, EventBusAssumption
    <3> DEFINE y == queue[s][2]
    <3>3. y \in Range(queue[s]) /\ y.kind = "job" /\ j.eid < y.eid
      BY <1>5, <3>1, <3>2, RangeIs DEF StreamInv, QueueInv, Ascending
    <3> HIDE DEF y
    <3>4. y.eid \in j.eid .. lastId /\ \A b \in Range(buffer) : b.eid = y.eid => b = y
      BY <1>1, <1>5, <3>3, BufferFacts DEF StreamInv, QueueInv
    <3>5. \E b \in Range(buffer) : b.eid = y.eid
      BY <1>1, <3>4, BufferFacts
    <3>6. y \in Range(buffer)
      BY <3>4, <3>5
    <3>7. j.eid \in Nat /\ y.eid \in Nat
      BY <1>1, <3>6, BufferFacts
    <3> QED
      BY <3>3, <3>6, <3>7
  <2> QED
    BY <2>2 DEF Reaches, OnItsWay, IdsOf
<1> QED
  BY <1>6, <1>7, <1>8, <1>9, <1>10 DEF Reaches, OnItsWay

(* A stream's own step: what it had, it sent or still holds.               *)
LEMMA StreamKeepsNewest ==
  ASSUME Inv, NewestJobEventKept, NEW t \in Clients, StreamMoves(t)
  PROVE  NewestJobEventKept'
<1>1. TypeOK
  BY DEF Inv
<1>2. UNCHANGED <<lastId, buffer, callbacks>>
  BY DEF StreamMoves, Connect, Replay, Take, Wake, Disconnect
<1> SUFFICES ASSUME NEW s \in Clients, stream'[s] # "closed", NEW j \in Range(buffer),
                    j.eid > since'[s], j.kind = "job",
                    \A x \in Range(buffer) : x.kind = "job" => x.eid <= j.eid
             PROVE  j.eid \in Reaches(s)'
  BY <1>2 DEF NewestJobEventKept, Subscribed, Reaches
<1>3. s \in Subscribed /\ since'[s] = since[s] => j.eid \in Reaches(s)
  BY DEF NewestJobEventKept, Reaches
<1>4. CASE s # t
  <2>1. /\ stream'[s] = stream[s] /\ since'[s] = since[s] /\ got'[s] = got[s]
        /\ replay'[s] = replay[s] /\ queue'[s] = queue[s]
    BY <1>1, <1>4 DEF StreamMoves, Connect, Replay, Take, Wake, Disconnect, TypeOK
  <2> QED
    BY <1>2, <1>3, <2>1 DEF Subscribed, Reaches, OnItsWay
<1>5. CASE s = t /\ Connect(t)
  <2>1. since'[s] = lastId /\ lastId \in Nat /\ j.eid \in 1 .. lastId
    BY <1>1, <1>5, BufferFacts DEF Connect, TypeOK, Inv
  <2> QED
    BY <2>1
<1>6. CASE s = t /\ Replay(t)
  <2>1. s \in Subscribed /\ since'[s] = since[s] /\ queue'[s] = queue[s]
    BY <1>6 DEF Replay, Subscribed
  <2>2. CASE replay[s] = <<>>
    BY <1>2, <1>3, <1>6, <2>1, <2>2 DEF Replay, Reaches, OnItsWay
  <2>3. CASE replay[s] # <<>>
    <3>1. replay[s] \in Seq(Events) /\ got[s] \in Seq(1 .. MaxEvents)
          /\ replay'[s] = Tail(replay[s]) /\ got'[s] = Append(got[s], Head(replay[s]).eid)
      BY <1>1, <1>6, <2>3 DEF Replay, TypeOK
    <3>2. Range(replay[s]) = Range(replay'[s]) \cup {Head(replay[s])}
      BY <2>3, <3>1, RangeTail
    <3>3. IdsOf(replay[s]) = IdsOf(replay'[s]) \cup {Head(replay[s]).eid}
      BY <3>2 DEF IdsOf
    <3>4. Range(got'[s]) = Range(got[s]) \cup {Head(replay[s]).eid}
      <4>1. Head(replay[s]).eid \in 1 .. since[s] /\ since[s] <= lastId
        BY <3>2 DEF Inv, StreamInv, ReplayInv
      <4>2. since[s] \in Nat /\ lastId \in 0 .. MaxEvents
        BY <1>1, TypeFacts DEF TypeOK
      <4>3. Head(replay[s]).eid \in 1 .. MaxEvents
        BY <4>1, <4>2, EventBusAssumption
      <4> QED
        BY <3>1, <4>3, RangeAppendIds
    <3> QED
      BY <1>2, <1>3, <2>1, <3>3, <3>4 DEF Reaches, OnItsWay
  <2> QED
    BY <2>2, <2>3
<1>7. CASE s = t /\ Take(t)
  <2>1. s \in Subscribed /\ since'[s] = since[s] /\ replay'[s] = replay[s]
    BY <1>7 DEF Take, Subscribed
  <2>2. CASE queue[s] = <<>>
    BY <1>2, <1>3, <1>7, <2>1, <2>2 DEF Take, Reaches, OnItsWay
  <2>3. CASE queue[s] # <<>>
    <3>1. queue[s] \in Seq(Events) /\ got[s] \in Seq(1 .. MaxEvents)
          /\ queue'[s] = Tail(queue[s]) /\ got'[s] = Append(got[s], Head(queue[s]).eid)
      BY <1>1, <1>7, <2>3 DEF Take, TypeOK
    <3>2. Range(queue[s]) = Range(queue'[s]) \cup {Head(queue[s])}
      BY <2>3, <3>1, RangeTail
    <3>3. IdsOf(queue[s]) = IdsOf(queue'[s]) \cup {Head(queue[s]).eid}
      BY <3>2 DEF IdsOf
    <3>4. Range(got'[s]) = Range(got[s]) \cup {Head(queue[s]).eid}
      <4>1. Head(queue[s]).eid \in 1 .. lastId
        BY <3>2 DEF Inv, StreamInv, QueueInv
      <4>2. lastId \in 0 .. MaxEvents
        BY <1>1 DEF TypeOK
      <4>3. Head(queue[s]).eid \in 1 .. MaxEvents
        BY <4>1, <4>2, EventBusAssumption
      <4> QED
        BY <3>1, <4>3, RangeAppendIds
    <3> QED
      BY <1>2, <1>3, <2>1, <3>3, <3>4 DEF Reaches, OnItsWay
  <2> QED
    BY <2>2, <2>3
<1>8. CASE s = t /\ Wake(t)
  <2>1. s \in Subscribed /\ UNCHANGED <<since, got, replay, queue>>
    BY <1>8 DEF Wake, Subscribed
  <2> QED
    BY <1>2, <1>3, <2>1 DEF Reaches, OnItsWay
<1>9. CASE s = t /\ Disconnect(t)
  BY <1>1, <1>9 DEF Disconnect, TypeOK
<1> QED
  BY <1>4, <1>5, <1>6, <1>7, <1>8, <1>9 DEF StreamMoves

(***************************************************************************)
(* With a queue of two places or more, the newest job transition of a      *)
(* stream's time is never lost to an overflow.                             *)
(***************************************************************************)
THEOREM NewestJobNotLost ==
  ASSUME MaxQueue >= 2
  PROVE  Spec => []NewestJobEventKept
<1>1. Init => NewestJobEventKept
  BY DEF Init, NewestJobEventKept, Subscribed
<1>2. Inv /\ NewestJobEventKept /\ [Next]_vars => NewestJobEventKept'
  <2> SUFFICES ASSUME Inv, NewestJobEventKept, [Next]_vars PROVE NewestJobEventKept'
    OBVIOUS
  <2>1. CASE UNCHANGED vars
    BY <2>1 DEF vars, NewestJobEventKept, Subscribed, OnItsWay
  <2> QED
    BY <2>1, PublishKeepsNewest, DeliverKeepsNewest, StreamKeepsNewest DEF Next
<1> QED
  BY <1>1, <1>2, BusInvariant, PTL DEF Spec
=============================================================================
