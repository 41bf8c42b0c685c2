------------------------------ MODULE EventBus ------------------------------
(***************************************************************************)
(* Event delivery to the browser: EventBus and BoundedEventQueue of        *)
(* web/progress.py and the stream of _sse_stream in web/server.py.         *)
(*                                                                         *)
(* An event is numbered, kept in a replay buffer, and handed to the event  *)
(* loop (call_soon_threadsafe), which puts it in the queue of every        *)
(* subscribed stream some time later.  A stream replays the buffer from    *)
(* the last event its client has seen, then sends what its queue holds.    *)
(* Clients disconnect and come back with Last-Event-ID.                    *)
(*                                                                         *)
(* Streams, deliveries and publishers run on the event loop; whatever has  *)
(* no await in it is one step.  (A handler of the thread pool can publish  *)
(* too, when it finds an orphaned job: job.py:690.  That is left out.)     *)
(***************************************************************************)
EXTENDS Integers, SequencesExt

CONSTANTS
    Clients,        \* browsers, each with at most one stream
    MaxBuffer,      \* max_buffer: events kept for replay
    MaxQueue,       \* max_subscriber_events
    MaxEvents,      \* bound: events published
    MaxConnects     \* bound: connections of a client

ASSUME EventBusAssumption ==
    /\ MaxBuffer \in Nat \ {0} /\ MaxQueue \in Nat \ {0}
    /\ MaxEvents \in Nat /\ MaxConnects \in Nat

VARIABLES
    lastId,         \* EventBus._next_event_id
    buffer,         \* EventBus._buffer
    callbacks,      \* deliveries the loop has yet to make
    stream,         \* state of each client's stream
    replay,         \* rest of the backlog the stream has to send
    queue,          \* BoundedEventQueue of the stream
    ready,          \* queues whose _ready event is set
    since,          \* history: lastId when the stream took its snapshot
    got,            \* ids of the events the client received, in order
    lost,           \* history: ids the client's full queues gave up
    connects

vars == <<lastId, buffer, callbacks, stream, replay, queue, ready, since, got, lost,
          connects>>

\* Job transitions; stages, warnings and errors; other logs and progress.
Kinds == {"job", "alert", "ordinary"}
Events == [eid : Nat, kind : Kinds]
Event(id, kind) == [eid |-> id, kind |-> kind]

IdsOf(events) == {e.eid : e \in Range(events)}

\* _priority_event
Priority(e) == e.kind # "ordinary"

Subscribed == {s \in Clients : stream[s] # "closed"}

\* What Last-Event-ID says: the client's last frame, nothing on a first visit.
LastEventId(s) == IF got[s] = <<>> THEN 0 ELSE got[s][Len(got[s])]

Init ==
    /\ lastId = 0 /\ buffer = <<>> /\ callbacks = <<>>
    /\ stream = [s \in Clients |-> "closed"]
    /\ replay = [s \in Clients |-> <<>>]
    /\ queue = [s \in Clients |-> <<>>]
    /\ ready = {}
    /\ since = [s \in Clients |-> 0]
    /\ got = [s \in Clients |-> <<>>]
    /\ lost = [s \in Clients |-> {}]
    /\ connects = [s \in Clients |-> 0]

-----------------------------------------------------------------------------
(* EventBus.publish *)

\* deque(maxlen = max_buffer): the oldest event makes room.
\* (Faulty variant: nothing makes room.)
KeepAll(buf, e) == Append(buf, e)
Keep(buf, e) == IF Len(buf) < MaxBuffer THEN Append(buf, e) ELSE Append(Tail(buf), e)

\* Numbered, kept and scheduled in one step.
Publish(kind) ==
    /\ lastId < MaxEvents
    /\ lastId' = lastId + 1
    /\ buffer' = Keep(buffer, Event(lastId + 1, kind))
    /\ callbacks' = IF Subscribed = {} THEN callbacks
                    ELSE Append(callbacks, Event(lastId + 1, kind))
    /\ UNCHANGED <<stream, replay, queue, ready, since, got, lost, connects>>

-----------------------------------------------------------------------------
(* BoundedEventQueue *)

\* Faulty variant: the oldest event goes, whatever it is.
PutDroppingOldest(q, e) == IF Len(q) < MaxQueue THEN Append(q, e) ELSE Append(Tail(q), e)

(***************************************************************************)
(* put_nowait: a full queue drops its oldest ordinary event; if all are of *)
(* priority, an ordinary event is refused and another displaces the oldest *)
(* that is not a job transition, or else the oldest.                       *)
(***************************************************************************)
Put(q, e) ==
    LET Oldest(kinds) ==
            {i \in DOMAIN q : q[i].kind \in kinds /\ \A k \in 1 .. i - 1 : q[k].kind \notin kinds}
        ordinary == Oldest({"ordinary"})
        notJob == Oldest(Kinds \ {"job"})
        Displace(S) == Append(RemoveAt(q, CHOOSE i \in S : TRUE), e)
    IN  IF Len(q) < MaxQueue THEN Append(q, e)
        ELSE IF ordinary # {} THEN Displace(ordinary)
        ELSE IF ~Priority(e) THEN q
        ELSE Displace(IF notJob # {} THEN notJob ELSE {1})

\* _deliver, run by the loop.
Deliver ==
    /\ callbacks # <<>>
    /\ queue' = [s \in Clients |-> IF s \in Subscribed THEN Put(queue[s], Head(callbacks))
                                   ELSE queue[s]]
    /\ lost' = [s \in Clients |->
            IF s \in Subscribed
            THEN lost[s] \cup (IdsOf(Append(queue[s], Head(callbacks))) \ IdsOf(queue'[s]))
            ELSE lost[s]]
    /\ ready' = ready \cup Subscribed
    /\ callbacks' = Tail(callbacks)
    /\ UNCHANGED <<lastId, buffer, stream, replay, since, got, connects>>

-----------------------------------------------------------------------------
(* The stream of _sse_stream *)

\* The backlog without what the client has seen; its ids ascend, so this is the
\* end of the buffer.
Backlog(seen) ==
    LET first == CHOOSE i \in 1 .. Len(buffer) + 1 :
                     \A k \in DOMAIN buffer : buffer[k].eid > seen <=> k >= i
    IN  SubSeq(buffer, first, Len(buffer))

\* Faulty variant: off by one in what the client has seen.
ConnectOffByOne(s) ==
    /\ stream[s] = "closed" /\ connects[s] < MaxConnects
    /\ stream' = [stream EXCEPT ![s] = "replay"]
    /\ replay' = [replay EXCEPT ![s] = Backlog(LastEventId(s) + 1)]
    /\ since' = [since EXCEPT ![s] = lastId]
    /\ connects' = [connects EXCEPT ![s] = @ + 1]
    /\ UNCHANGED <<lastId, buffer, callbacks, queue, ready, got, lost>>

\* The generator starts: bus.backlog(), without what the client has seen, and
\* bus.subscribe(), which makes a new queue.
Connect(s) ==
    /\ stream[s] = "closed" /\ connects[s] < MaxConnects
    /\ stream' = [stream EXCEPT ![s] = "replay"]
    /\ replay' = [replay EXCEPT ![s] = Backlog(LastEventId(s))]
    /\ since' = [since EXCEPT ![s] = lastId]
    /\ connects' = [connects EXCEPT ![s] = @ + 1]
    /\ UNCHANGED <<lastId, buffer, callbacks, queue, ready, got, lost>>

\* The next event of the backlog is sent, or the stream turns to its queue.
Replay(s) ==
    /\ stream[s] = "replay"
    /\ IF replay[s] # <<>>
       THEN /\ got' = [got EXCEPT ![s] = Append(@, Head(replay[s]).eid)]
            /\ replay' = [replay EXCEPT ![s] = Tail(@)]
            /\ UNCHANGED stream
       ELSE /\ stream' = [stream EXCEPT ![s] = "live"]
            /\ UNCHANGED <<got, replay>>
    /\ UNCHANGED <<lastId, buffer, callbacks, queue, ready, since, lost, connects>>

\* Faulty variant: get clears the flag although events are left.
TakeClearing(s) ==
    /\ stream[s] = "live"
    /\ IF queue[s] # <<>> /\ s \in ready
       THEN /\ got' = [got EXCEPT ![s] = Append(@, Head(queue[s]).eid)]
            /\ queue' = [queue EXCEPT ![s] = Tail(@)]
            /\ stream' = [stream EXCEPT ![s] = "waiting"]
       ELSE /\ stream' = [stream EXCEPT ![s] = "waiting"]
            /\ UNCHANGED <<got, queue>>
    /\ ready' = ready \ {s}
    /\ UNCHANGED <<lastId, buffer, callbacks, replay, since, lost, connects>>

\* BoundedEventQueue.get: an event is taken and sent, or the stream waits for the flag.
Take(s) ==
    /\ stream[s] = "live"
    /\ IF queue[s] # <<>>
       THEN /\ got' = [got EXCEPT ![s] = Append(@, Head(queue[s]).eid)]
            /\ queue' = [queue EXCEPT ![s] = Tail(@)]
            /\ ready' = IF Len(queue[s]) = 1 THEN ready \ {s} ELSE ready
            /\ UNCHANGED stream
       ELSE /\ ready' = ready \ {s}
            /\ stream' = [stream EXCEPT ![s] = "waiting"]
            /\ UNCHANGED <<got, queue>>
    /\ UNCHANGED <<lastId, buffer, callbacks, replay, since, lost, connects>>

Wake(s) ==
    /\ stream[s] = "waiting" /\ s \in ready
    /\ stream' = [stream EXCEPT ![s] = "live"]
    /\ UNCHANGED <<lastId, buffer, callbacks, replay, queue, ready, since, got, lost, connects>>

\* The client goes away; what was queued for it is gone.
Disconnect(s) ==
    /\ s \in Subscribed
    /\ stream' = [stream EXCEPT ![s] = "closed"]
    /\ replay' = [replay EXCEPT ![s] = <<>>]
    /\ queue' = [queue EXCEPT ![s] = <<>>]
    /\ ready' = ready \ {s}
    /\ UNCHANGED <<lastId, buffer, callbacks, since, got, lost, connects>>

-----------------------------------------------------------------------------
StreamMoves(s) == Connect(s) \/ Replay(s) \/ Take(s) \/ Wake(s) \/ Disconnect(s)

Next ==
    \/ \E kind \in Kinds : Publish(kind)
    \/ Deliver
    \/ \E s \in Clients : StreamMoves(s)

(***************************************************************************)
(* Fairness: the loop runs what is ready, in FIFO order; a connected       *)
(* client reads.  Nothing has to be published and nobody has to connect.   *)
(***************************************************************************)
Fairness ==
    /\ WF_vars(Deliver)
    /\ \A s \in Clients : SF_vars(Replay(s)) /\ SF_vars(Take(s)) /\ SF_vars(Wake(s))

Spec == Init /\ [][Next]_vars
FairSpec == Spec /\ Fairness

-----------------------------------------------------------------------------
(* Properties *)

TypeOK ==
    /\ lastId \in 0 .. MaxEvents
    /\ buffer \in Seq(Events) /\ Len(buffer) <= MaxBuffer
    /\ callbacks \in Seq(Events)
    /\ stream \in [Clients -> {"closed", "replay", "live", "waiting"}]
    /\ replay \in [Clients -> Seq(Events)]
    /\ queue \in [Clients -> Seq(Events)] /\ \A s \in Clients : Len(queue[s]) <= MaxQueue
    /\ got \in [Clients -> Seq(1 .. MaxEvents)]
    /\ lost \in [Clients -> SUBSET (1 .. MaxEvents)]
    /\ ready \subseteq Clients
    /\ since \in [Clients -> 0 .. MaxEvents]
    /\ connects \in [Clients -> 0 .. MaxConnects]

OnItsWay(s) == IdsOf(replay[s]) \cup IdsOf(queue[s]) \cup IdsOf(callbacks)

(***************************************************************************)
(* "So the sidebar and run state cannot silently stop updating"            *)
(* (progress.py:84-86): the newest job transition since a stream was       *)
(* opened has reached its client or is on its way, however many other      *)
(* events overflow the queue (of two places at least).                     *)
(***************************************************************************)
NewestJobEventKept ==
    \A s \in Subscribed : \A e \in Range(buffer) :
        /\ e.kind = "job" /\ e.eid > since[s]
        /\ \A x \in Range(buffer) : x.kind = "job" => x.eid <= e.eid
        => e.eid \in Range(got[s]) \cup OnItsWay(s)

(***************************************************************************)
(* A job transition leaves a queue unread only when nothing else could     *)
(* make room.                                                              *)
(***************************************************************************)
JobEventsLeaveLast ==
    [][\A s \in Clients : \A e \in Range(queue[s]) :
          e.kind = "job" /\ callbacks' # callbacks /\ e \notin Range(queue'[s])
             /\ stream'[s] = stream[s]
          => \A x \in Range(queue[s]) : x.kind = "job"]_vars

(***************************************************************************)
(* A stream that waits for its queue has been signalled whenever the queue *)
(* holds something: clearing the flag and waiting for it never miss a put. *)
(***************************************************************************)
NoLostWakeup == \A s \in Clients : stream[s] = "waiting" /\ queue[s] # <<>> => s \in ready

(***************************************************************************)
(* Reconnecting with Last-Event-ID loses nothing: of what the replay       *)
(* buffer still holds, a client has everything up to the newest event it   *)
(* received, but for what an overflow gave up.                             *)
(***************************************************************************)
NothingSkipped ==
    \A s \in Clients : \A e \in Range(buffer) :
        (\E id \in Range(got[s]) : e.eid < id) =>
            e.eid \in Range(got[s]) \cup lost[s]

(***************************************************************************)
(* A client that stays connected gets the newest job transition.           *)
(***************************************************************************)
NewestJobEventArrives ==
    \A s \in Clients : \A id \in 1 .. MaxEvents :
        (s \in Subscribed /\ since[s] < id /\ \E e \in Range(buffer) : e = Event(id, "job"))
            ~> \/ id \in Range(got[s]) \/ s \notin Subscribed \/ since[s] >= id
               \/ \E e \in Range(buffer) : e.kind = "job" /\ e.eid > id

(***************************************************************************)
(* "Snapshot the backlog before subscribing so an event cannot be          *)
(* delivered from both the replay buffer and the live queue"               *)
(* (server.py:212-214).                                                    *)
(***************************************************************************)
NoEventTwice == \A s \in Clients : \A i, k \in DOMAIN got[s] : i # k => got[s][i] # got[s][k]

=============================================================================
