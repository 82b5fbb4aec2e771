---------------------------- MODULE EventStream -----------------------------
(***************************************************************************)
(* Run events on their way to the clients: the broker that puts each event *)
(* into a bounded queue per subscriber, and the loop behind each socket.   *)
(*                                                                         *)
(* The loop starts one task that receives a message of the client and one  *)
(* that takes an event from the queue, and waits for the first of them.    *)
(* If both are done by the time it goes on, it takes either one; what the  *)
(* other one received is dropped.  It answers the message, or sends the    *)
(* event, and turns again.                                                 *)
(*                                                                         *)
(* Events are numbers.  What the messages ask for is RunControl, and the   *)
(* broker's close, which the server never calls, is left out.              *)
(***************************************************************************)
EXTENDS Integers, SequencesExt

CONSTANTS
  Client,
  MaxQueue,      \* EventBroker.max_queue
  MaxEvents,     \* bound: events published
  MaxMessages    \* bound: messages that a client sends per connection

ASSUME StreamAssumption == {MaxQueue, MaxEvents, MaxMessages} \subseteq Nat \ {0}

VARIABLES
  published,   \* events published so far: their numbers are 1 .. published
  conn         \* [Client -> the client's connection]

stream == <<published, conn>>

Nothing == 0
Off == [at |-> "off"]

\* A new connection.  The queue belongs to the broker, inbox and said to the
\* socket, event and message are what the two tasks have received; got and
\* lost are history: the events that the client received, and the last one that
\* was dropped for a message.
Opened == [at |-> "wait", since |-> published, queue |-> << >>, event |-> Nothing,
           said |-> 0, inbox |-> << >>, message |-> Nothing,
           got |-> << >>, lost |-> Nothing]

StreamInit ==
  /\ published = 0
  /\ conn = [c \in Client |-> Off]

On(c) == conn[c] # Off
Become(c, k) == conn' = [conn EXCEPT ![c] = k] /\ UNCHANGED published

\* A client that is allowed to connect subscribes.
Connect(c) == ~On(c) /\ Become(c, Opened)

\* The client leaves, or its message or its socket fails: the queue is given up.
Close(c) == On(c) /\ Become(c, Off)

Say(c) ==
  /\ On(c) /\ conn[c].said < MaxMessages
  /\ Become(c, [conn[c] EXCEPT !.said = @ + 1, !.inbox = Append(@, conn[c].said + 1)])

\* Mutant: a full queue takes no event.
DeliverIfRoom(q, e) == IF Len(q) = MaxQueue THEN q ELSE Append(q, e)

\* Mutant: the queue has no limit.
DeliverAlways(q, e) == Append(q, e)

\* A full queue loses its oldest event.
Deliver(q, e) == Append(IF Len(q) = MaxQueue THEN Tail(q) ELSE q, e)

Publish ==
  /\ published < MaxEvents
  /\ published' = published + 1
  /\ conn' = [c \in Client |->
       IF On(c) THEN [conn[c] EXCEPT !.queue = Deliver(@, published')] ELSE Off]

\* The two tasks of a turn.
Receive(c) ==
  LET k == conn[c] IN
  /\ On(c) /\ k.at = "wait" /\ k.message = Nothing /\ k.inbox # << >>
  /\ Become(c, [k EXCEPT !.message = Head(k.inbox), !.inbox = Tail(@)])

TakeEvent(c) ==
  LET k == conn[c] IN
  /\ On(c) /\ k.at = "wait" /\ k.event = Nothing /\ k.queue # << >>
  /\ Become(c, [k EXCEPT !.event = Head(k.queue), !.queue = Tail(@)])

\* The loop takes the event and sends it; a message that was received too is
\* dropped.
ChooseEvent(c) ==
  LET k == conn[c] IN
  /\ On(c) /\ k.at = "wait" /\ k.event # Nothing
  /\ Become(c, [k EXCEPT !.at = "send", !.message = Nothing])

Send(c) ==
  LET k == conn[c] IN
  /\ On(c) /\ k.at = "send"
  /\ Become(c, [k EXCEPT !.at = "wait", !.event = Nothing, !.got = Append(@, k.event)])

\* Mutant: the event goes back to the end of the queue.
AnswerRequeueing(c) ==
  LET k == conn[c] IN
  /\ On(c) /\ k.at = "wait" /\ k.message # Nothing
  /\ Become(c, [k EXCEPT !.message = Nothing, !.event = Nothing,
                         !.lost = IF k.event = Nothing THEN @ ELSE k.event,
                         !.queue = IF k.event = Nothing THEN @ ELSE Deliver(@, k.event)])

\* The loop takes the message and answers it; an event that was received too is
\* dropped.
Answer(c) ==
  LET k == conn[c] IN
  /\ On(c) /\ k.at = "wait" /\ k.message # Nothing
  /\ Become(c, [k EXCEPT !.message = Nothing, !.event = Nothing,
                         !.lost = IF k.event = Nothing THEN @ ELSE k.event])

Loop(c) == TakeEvent(c) \/ Receive(c) \/ ChooseEvent(c) \/ Send(c) \/ Answer(c)

StreamNext ==
  \/ Publish
  \/ \E c \in Client : Connect(c) \/ Close(c) \/ Say(c) \/ Loop(c)

\* The loop of a socket goes on while its client takes what is sent.
Fairness == \A c \in Client : WF_stream(Loop(c))

StreamSpec == StreamInit /\ [][StreamNext]_stream /\ Fairness

-----------------------------------------------------------------------------
(* Properties                                                              *)

\* The shape of connections: a queue within its limit.
StreamTypeOK ==
  /\ published \in 0 .. MaxEvents
  /\ \A c \in Client : On(c) =>
       LET k == conn[c] IN
       /\ k.at \in {"wait", "send"} /\ k.since \in 0 .. published
       /\ k.queue \in Seq(1 .. published) /\ Len(k.queue) <= MaxQueue
       /\ k.event \in 0 .. published /\ (k.at = "send" => k.event # Nothing)
       /\ k.said \in 0 .. MaxMessages /\ k.message \in 0 .. k.said
       /\ k.inbox \in Seq(1 .. k.said)
       /\ k.got \in Seq(1 .. published) /\ k.lost \in 0 .. published

\* The events on their way to a client, oldest first.
Line(c) ==
  IF ~On(c) THEN << >>
  ELSE (IF conn[c].event = Nothing THEN << >> ELSE <<conn[c].event>>) \o conn[c].queue

Got(c) == IF On(c) THEN conn[c].got ELSE << >>

Channel(c) == INSTANCE LossyFifo WITH line <- Line(c), got <- Got(c)

\* Events arrive in order and once at most, whatever is dropped on the way:
\* each connection implements LossyFifo (broker.py, publish; main.py, websocket).
ImplementsLossyFifo ==
  /\ \A c \in Client : Channel(c)!Init
  /\ [][\A c \in Client : [Channel(c)!Next]_(Channel(c)!vars)]_stream

\* A client that stays and takes what is sent gets the last event, whatever it lost
\* before, unless this event was received in one turn with a message and dropped
\* for it (main.py, websocket).
LastEventArrives ==
  \A c \in Client :
    published = MaxEvents /\ On(c) ~>
      \/ ~On(c) \/ conn[c].since = MaxEvents \/ conn[c].lost = MaxEvents
      \/ MaxEvents \in Range(conn[c].got)
=============================================================================
