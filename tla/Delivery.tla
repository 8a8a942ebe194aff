------------------------------ MODULE Delivery --------------------------------
(***************************************************************************)
(* What the delivery of messages and instructions promises, each step      *)
(* atomic: the statuses of src/src/team/state/dispatch.ts, the marks of    *)
(* src/src/team/state/mailbox.ts, and what they say of the recipient.      *)
(* Dispatch is the code that has to keep this with several processes, a    *)
(* lock, time limits and crashes.                                          *)
(*                                                                         *)
(* An item is one message of a mailbox, or one instruction of an inbox.    *)
(***************************************************************************)
EXTENDS Naturals

CONSTANTS Mail,        \* messages, each for one recipient
          Inbox,       \* instructions written to the inbox file of a worker
          MaxRequests  \* bound on the dispatch requests of a run; a module that
                       \* instantiates this one makes the assumptions (Dispatch)

Item == Mail \cup Inbox
Request == 1..MaxRequests

VARIABLES sent,       \* items that have been written to a mailbox or an inbox
          told,       \* items whose recipient has been told: the trigger was submitted
                      \* in its pane, or persisted for the leader
          read,       \* messages the recipient has read of its own accord
          notified,   \* messages with notified_at
          delivered,  \* messages with delivered_at
          queue       \* queue[r]: the request as the queue has it

deliveryVars == <<sent, told, read, notified, delivered, queue>>

Status == {"pending", "notified", "delivered", "failed"}
Absent == [item |-> "none", status |-> "absent"]
Queued == [item : Item, status : Status]

\* The recipient knows of the item.
Known(i) == i \in told \/ i \in read

\* The edges a request may take; to stay where it is, too.
Edge(from, to) ==
    \/ from = to
    \/ <<from, to>> \in {<<"pending", "notified">>, <<"pending", "failed">>,
                         <<"notified", "delivered">>, <<"notified", "failed">>,
                         <<"failed", "notified">>}

-----------------------------------------------------------------------------

DeliveryInit ==
    /\ sent = {}
    /\ told = {}
    /\ read = {}
    /\ notified = {}
    /\ delivered = {}
    /\ queue = [r \in Request |-> Absent]

\* An item is written before anybody is told of it.
Write(i) ==
    /\ sent' = sent \cup {i}
    /\ UNCHANGED <<told, read, notified, delivered, queue>>

\* A message has at most one request that is still to be served.
Queue(r, i) ==
    /\ i \in sent
    /\ queue[r] = Absent
    /\ \A q \in Request : queue[q] # Absent /\ queue[q].item = i => queue[q].status # "pending"
    /\ queue' = [queue EXCEPT ![r] = [item |-> i, status |-> "pending"]]
    /\ UNCHANGED <<sent, told, read, notified, delivered>>

Tell(i) ==
    /\ i \in sent
    /\ told' = told \cup {i}
    /\ UNCHANGED <<sent, read, notified, delivered, queue>>

\* The recipient reads its mailbox and marks a message as delivered.
Read(i) ==
    /\ i \in sent \cap Mail
    /\ read' = read \cup {i}
    /\ delivered' = delivered \cup {i}
    /\ UNCHANGED <<sent, told, notified, queue>>

\* notified_at is the truth.
Mark(i) ==
    /\ i \in Mail
    /\ Known(i)
    /\ notified' = notified \cup {i}
    /\ UNCHANGED <<sent, told, read, delivered, queue>>

\* Requests, several when the queue is written back as a whole, change status along
\* the edges of Edge: what is delivered stays delivered, what is served is
\* never pending again, what is notified or delivered is so in truth.
Move ==
    /\ queue' \in [Request -> Queued \cup {Absent}]
    /\ \A r \in Request :
          queue'[r] # queue[r] =>
              /\ queue[r] # Absent
              /\ queue'[r] # Absent
              /\ queue'[r].item = queue[r].item
              /\ Edge(queue[r].status, queue'[r].status)
              /\ queue'[r].status = "notified" => Known(queue[r].item)
              /\ queue'[r].status = "delivered" => queue[r].item \in read
    /\ UNCHANGED <<sent, told, read, notified, delivered>>

DeliveryNext ==
    \/ \E i \in Item : Write(i) \/ Tell(i)
    \/ \E i \in Mail : Read(i) \/ Mark(i)
    \/ \E i \in Item, r \in Request : Queue(r, i)
    \/ Move

DeliverySpec == DeliveryInit /\ [][DeliveryNext]_deliveryVars

=============================================================================
