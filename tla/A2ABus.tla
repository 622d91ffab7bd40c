------------------------------- MODULE A2ABus -------------------------------
(***************************************************************************)
(* core/agent/messaging.py, A2ABus, as core/agent/kernel.py uses it: the   *)
(* mailboxes of the agents, and the requests that wait for a reply.        *)
(*                                                                         *)
(* The mailboxes are unbounded, so a put never waits: register, send,      *)
(* broadcast and the first half of request_response happen at once.  What  *)
(* waits is a receive, on the queue that was the agent's mailbox when it   *)
(* began, and a request, on a future of its own.  A put wakes the receive,  *)
(* which takes the first message of that queue when its turn comes.        *)
(*                                                                         *)
(* Left out: the agent cards that discover() filters, and the topics:      *)
(* nobody in the repository subscribes.  A message is the name of the      *)
(* request it carries, or "event".                                         *)
(***************************************************************************)
EXTENDS Integers, Sequences, SequencesExt

CONSTANTS
    Agents,         \* pids
    Requests,       \* message_id of a request
    Types,          \* message_type of a reply: "response", "error"
    MaxEvents,      \* bound of the events sent
    MaxUnregisters  \* bound of the calls of unregister

ASSUME BusAssumption ==
    /\ MaxEvents \in Nat /\ MaxUnregisters \in Nat
    /\ {"event", "nothing"} \cap Requests = {}
    /\ Types \cap {"idle", "waiting", "refused", "nothing"} = {}

VARIABLES
    boxes,        \* _mailboxes
    receiving,    \* a's receive: "no", "waiting", or "stranded" on an old queue
    pending,      \* _pending_requests
    future,       \* the result of r's future, "nothing" while it has none
    caller,       \* where the call of request_response is, or what it returned
    woken,        \* the message that a's receive will take from a mailbox which
                  \* was unregistered since it was woken, or "nothing"
    read,         \* the requests that were received: they can be replied to
    gone,         \* history: the requests that went with a mailbox
    events, unregisters

mail == <<boxes, receiving, woken, read, gone>>
asks == <<pending, future, caller>>
busVars == <<mail, asks, events, unregisters>>

Members == DOMAIN boxes

BusTypeOK ==
    /\ Members \subseteq Agents
    /\ \A a \in Members : boxes[a] \in Seq(Requests \cup {"event"})
    /\ receiving \in [Agents -> {"no", "waiting", "stranded"}]
    /\ \A a \in Agents : receiving[a] = "waiting" => a \in Members
    /\ woken \in [Agents -> Requests \cup {"event", "nothing"}]
    /\ \A a \in Agents : woken[a] # "nothing" => receiving[a] = "stranded"
    /\ pending \subseteq Requests
    /\ future \in [Requests -> Types \cup {"nothing"}]
    /\ caller \in [Requests -> {"idle", "waiting", "refused", "nothing"} \cup Types]
    /\ read \subseteq Requests /\ gone \subseteq Requests
    /\ events \in 0..MaxEvents /\ unregisters \in 0..MaxUnregisters

-----------------------------------------------------------------------------
(* Mailboxes. *)

Put(targets, m) ==
    boxes' = [a \in Members |-> IF a \in targets THEN Append(boxes[a], m) ELSE boxes[a]]

\* Registering twice changes the card and leaves the mailbox.
Register(a) ==
    /\ a \notin Members
    /\ boxes' = [b \in Members \cup {a} |-> IF b = a THEN << >> ELSE boxes[b]]
    /\ UNCHANGED <<receiving, woken, read, gone, asks, events, unregisters>>

\* What is in the mailbox goes with it.  A receive keeps its old queue: if a
\* message is there it has been woken and will take that one, or else it waits
\* on a queue that nobody can put a message in any more.
Unregister(a) ==
    /\ a \in Members /\ unregisters < MaxUnregisters
    /\ unregisters' = unregisters + 1
    /\ boxes' = [b \in Members \ {a} |-> boxes[b]]
    /\ LET takes == receiving[a] = "waiting" /\ boxes[a] # << >>
           lost == IF takes THEN Tail(boxes[a]) ELSE boxes[a]
       IN /\ woken' = IF takes THEN [woken EXCEPT ![a] = Head(boxes[a])] ELSE woken
          /\ gone' = gone \cup (ToSet(lost) \ {"event"})
    /\ receiving' = [receiving EXCEPT ![a] = IF @ = "waiting" THEN "stranded" ELSE @]
    /\ UNCHANGED <<read, asks, events>>

\* send to one agent, or broadcast to all but the sender.
SendEvent(targets) ==
    /\ targets # {} /\ events < MaxEvents
    /\ events' = events + 1
    /\ Put(targets, "event")
    /\ UNCHANGED <<receiving, woken, read, gone, asks, unregisters>>

Send == \E a \in Members : SendEvent({a})
Broadcast == \E a \in Agents : SendEvent(Members \ {a})

Take(a) ==
    /\ boxes[a] # << >>
    /\ boxes' = [boxes EXCEPT ![a] = Tail(@)]
    /\ read' = read \cup ({Head(boxes[a])} \ {"event"})
    /\ receiving' = [receiving EXCEPT ![a] = "no"]

\* receive raises at once when the agent has no mailbox.
Receive(a) ==
    /\ receiving[a] = "no" /\ a \in Members
    /\ \/ Take(a)
       \/ /\ boxes[a] = << >>
          /\ receiving' = [receiving EXCEPT ![a] = "waiting"]
          /\ UNCHANGED <<boxes, read>>
    /\ UNCHANGED <<woken, gone, asks, events, unregisters>>

Deliver(a) ==
    /\ receiving[a] = "waiting"
    /\ Take(a)
    /\ UNCHANGED <<woken, gone, asks, events, unregisters>>

\* get_nowait on the queue that is no mailbox any more.
DeliverOld(a) ==
    /\ woken[a] # "nothing"
    /\ woken' = [woken EXCEPT ![a] = "nothing"]
    /\ read' = read \cup ({woken[a]} \ {"event"})
    /\ receiving' = [receiving EXCEPT ![a] = "no"]
    /\ UNCHANGED <<boxes, gone, asks, events, unregisters>>

\* Mutant: a message that comes as the receive times out is lost.
ReceiveEndsTaking(a) ==
    /\ receiving[a] # "no"
    /\ receiving' = [receiving EXCEPT ![a] = "no"]
    /\ boxes' = IF receiving[a] = "waiting" /\ boxes[a] # << >>
                THEN [boxes EXCEPT ![a] = Tail(@)] ELSE boxes
    /\ woken' = [woken EXCEPT ![a] = "nothing"]
    /\ gone' = gone \cup ({woken[a]} \ {"event", "nothing"})
    /\ UNCHANGED <<read, asks, events, unregisters>>

\* The receive times out.  A message that comes as it does stays in the queue,
\* and goes with it if that is a mailbox no more.
ReceiveEnds(a) ==
    /\ receiving[a] # "no"
    /\ receiving' = [receiving EXCEPT ![a] = "no"]
    /\ woken' = [woken EXCEPT ![a] = "nothing"]
    /\ gone' = gone \cup ({woken[a]} \ {"event", "nothing"})
    /\ UNCHANGED <<boxes, read, asks, events, unregisters>>

-----------------------------------------------------------------------------
(* Requests. *)

\* request_response up to its wait; delegate_task calls it.  The future is
\* there before the message is sent, outside the try: if the target is not
\* registered, send raises and the future stays.
Ask(r) ==
    /\ caller[r] = "idle"
    /\ pending' = pending \cup {r}
    /\ \/ \E a \in Members : Put({a}, r) /\ caller' = [caller EXCEPT ![r] = "waiting"]
       \/ /\ Agents \ Members # {}
          /\ caller' = [caller EXCEPT ![r] = "refused"]
          /\ UNCHANGED boxes
    /\ UNCHANGED <<future, receiving, woken, read, gone, events, unregisters>>

\* Mutant: a second reply takes the place of the first.
ReplyAgain(r, type) ==
    /\ r \in read /\ r \in pending
    /\ future' = [future EXCEPT ![r] = type]
    /\ UNCHANGED <<pending, caller, mail, events, unregisters>>

\* reply, by whoever received the request, as often as it likes.  One that
\* finds no future, or one that is done, is dropped.
Reply(r, type) ==
    /\ r \in read /\ r \in pending /\ future[r] = "nothing"
    /\ future' = [future EXCEPT ![r] = type]
    /\ UNCHANGED <<pending, caller, mail, events, unregisters>>

\* Mutant: only an answered request is taken off the table.
ReturnsKeeping(r, value) ==
    /\ caller[r] = "waiting"
    /\ caller' = [caller EXCEPT ![r] = value]
    /\ pending' = IF value = "nothing" THEN pending ELSE pending \ {r}
    /\ UNCHANGED <<future, mail, events, unregisters>>

Returns(r, value) ==
    /\ caller[r] = "waiting"
    /\ caller' = [caller EXCEPT ![r] = value]
    /\ pending' = pending \ {r}
    /\ UNCHANGED <<future, mail, events, unregisters>>

\* wait_for returns the reply,
Answered(r) == future[r] # "nothing" /\ Returns(r, future[r])

\* or times out, from Python 3.12 on also when a reply has just been accepted.
AskTimesOut(r) == Returns(r, "nothing")

-----------------------------------------------------------------------------

BusInit ==
    /\ boxes = [a \in {} |-> << >>]
    /\ receiving = [a \in Agents |-> "no"]
    /\ woken = [a \in Agents |-> "nothing"]
    /\ pending = {}
    /\ future = [r \in Requests |-> "nothing"]
    /\ caller = [r \in Requests |-> "idle"]
    /\ read = {} /\ gone = {}
    /\ events = 0 /\ unregisters = 0

BusNext ==
    \/ \E a \in Agents : Register(a) \/ Unregister(a)
    \/ Send \/ Broadcast
    \/ \E a \in Agents : Receive(a) \/ Deliver(a) \/ DeliverOld(a) \/ ReceiveEnds(a)
    \/ \E r \in Requests : Ask(r) \/ Answered(r) \/ AskTimesOut(r)
    \/ \E r \in Requests, t \in Types : Reply(r, t)

BusSpec == BusInit /\ [][BusNext]_busVars

-----------------------------------------------------------------------------
(* Properties. *)

\* request_response keeps what module A2ARequests promises: late and second
\* replies never change what its caller gets.
Promise == INSTANCE A2ARequests WITH first <- future
KeepsPromise == Promise!Spec

\* _pending_requests holds the requests that wait, and for ever those that
\* send refused; nothing else stays behind.
PendingExact == pending = {r \in Requests : caller[r] \in {"waiting", "refused"}}

\* A request that was sent is in one mailbox, once, or has woken one receive
\* whose mailbox was unregistered, or was received, or went with a mailbox:
\* time-outs of receives and unregister lose and double nothing.
Boxed(r) == \E a \in Members : r \in ToSet(boxes[a])
Wakes(r) == \E a \in Agents : woken[a] = r

Sent(r) == caller[r] \notin {"idle", "refused"}

BoxedOnce(r) ==
    \A a, b \in Members : \A i \in DOMAIN boxes[a], j \in DOMAIN boxes[b] :
        boxes[a][i] = r /\ boxes[b][j] = r => a = b /\ i = j

WakesOne(r) == \A a, b \in Agents : woken[a] = r /\ woken[b] = r => a = b

Conserved ==
    \A r \in Requests :
        /\ BoxedOnce(r) /\ WakesOne(r)
        /\ Sent(r) <=> Boxed(r) \/ Wakes(r) \/ r \in read \/ r \in gone
        /\ Boxed(r) => ~Wakes(r) /\ r \notin read /\ r \notin gone
        /\ Wakes(r) => r \notin read /\ r \notin gone
        /\ ~(r \in read /\ r \in gone)

=============================================================================
