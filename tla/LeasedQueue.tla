----------------------------- MODULE LeasedQueue -----------------------------
(***************************************************************************)
(* What a queue promises the clients that send, receive and delete: every  *)
(* accepted message stands in one place of one queue until it is gone for  *)
(* good; it is handed out only when no visibility timeout holds it back,   *)
(* each time with a receipt handle of its own; only the latest handle can  *)
(* remove the message or put its deadline off.  SQSQueue is shown to       *)
(* implement this specification.                                           *)
(***************************************************************************)
EXTENDS Naturals

CONSTANT Queues     \* queue names

VARIABLES
    time,       \* the wall clock
    places,     \* the places given out so far, one per send and per redrive
    message,    \* message[m], m not gone: where m stands and until when it is invisible
    gone,       \* the messages deleted, purged or dropped with their queue
    held        \* the receipt handles given out and not used up

queueVars == <<time, places, message, gone, held>>

Live == DOMAIN message

\* The handle of a delivery of m out of the place r.
Handle(m, r) == [message |-> m, place |-> r.place, delivery |-> r.deliveries]

\* h is the latest handle of its message.
Current(h) == h.message \in Live /\ h = Handle(h.message, message[h.message])

LQInit ==
    /\ time \in Nat /\ places = 0
    /\ message = [m \in {} |-> 0]
    /\ gone = {} /\ held = {}

\* A message never seen before takes a new place, where it may be delayed.
Accept ==
    /\ places' = places + 1
    /\ \E m \in DOMAIN message' :
         /\ m \notin Live \cup gone
         /\ DOMAIN message' = Live \cup {m}
         /\ message'[m] \in [queue : Queues, place : {places'}, deliveries : {0}, until : Nat]
    /\ \A m \in Live : message'[m] = message[m]
    /\ UNCHANGED <<time, gone, held>>

\* Available to a receiver of q.
Available(m, q) == message[m].queue = q /\ message[m].until <= time

\* One more delivery out of the same place: the handle before it is void.
HandedOut(m) ==
    message'[m] \in [queue : {message[m].queue}, place : {message[m].place},
                     deliveries : {message[m].deliveries + 1}, until : Nat]

\* A move to a new place, the dead-letter queue's, visible at once.
MovedOn(m) ==
    message'[m] \in [queue : Queues, place : (places + 1)..places', deliveries : {0}, until : {0}]

Receive(q) ==
    /\ DOMAIN message' = Live
    /\ places <= places'
    /\ \A m \in Live : \/ message'[m] = message[m]
                       \/ Available(m, q) /\ (HandedOut(m) \/ MovedOn(m))
    /\ \A m, n \in Live : MovedOn(m) /\ MovedOn(n) /\ message'[m].place = message'[n].place => m = n
    /\ held' = held \cup {Handle(m, message'[m]) : m \in {k \in Live : HandedOut(k)}}
    /\ UNCHANGED <<time, gone>>

Delete(h) ==
    /\ Current(h)
    /\ message' = [m \in Live \ {h.message} |-> message[m]]
    /\ gone' = gone \cup {h.message}
    /\ held' = held \ {h}
    /\ UNCHANGED <<time, places>>

\* The holder of the latest handle sets a new deadline, counted from now.
Postpone(h) ==
    /\ Current(h)
    /\ DOMAIN message' = Live
    /\ message'[h.message] \in [queue : {message[h.message].queue}, place : {h.place},
                                deliveries : {h.delivery}, until : Nat]
    /\ message'[h.message].until >= time
    /\ \A m \in Live \ {h.message} : message'[m] = message[m]
    /\ UNCHANGED <<time, places, gone, held>>

\* Purging or deleting q.
Drop(q) ==
    LET In == {m \in Live : message[m].queue = q}
    IN  /\ message' = [m \in Live \ In |-> message[m]]
        /\ gone' = gone \cup In
        /\ UNCHANGED <<time, places, held>>

Pass == time' = time + 1 /\ UNCHANGED <<places, message, gone, held>>

LQNext ==
    \/ Pass
    \/ Accept
    \/ \E q \in Queues : Receive(q) \/ Drop(q)
    \/ \E h \in held : Delete(h) \/ Postpone(h)

LQSpec == LQInit /\ [][LQNext]_queueVars
=============================================================================
