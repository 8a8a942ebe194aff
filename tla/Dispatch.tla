------------------------------ MODULE Dispatch --------------------------------
(***************************************************************************)
(* How a message or an instruction reaches its recipient:                  *)
(*   src/src/team/state/mailbox.ts     the mailboxes,                      *)
(*   src/src/team/state/dispatch.ts    the queue of dispatch requests,     *)
(*   src/src/team/mcp-comm.ts          write, queue, notify, mark,         *)
(*   src/src/team/runtime.ts           send with receipt and fallback,     *)
(*                                     the delivery part of a poll,        *)
(*   src/src/team/api-interop.ts       send-message, mailbox-mark-...,     *)
(*   src/src/scripts/notify-hook/team-dispatch.ts                          *)
(*                                     the hook that drains the queue.     *)
(* Callers (leader, workers, polls) interleave between two awaits.  What   *)
(* is done under the lock of a mailbox, or under that of the queue, is one *)
(* step, except for the hook: it types into panes while it holds the lock  *)
(* of the queue.  A mailbox lock is held so shortly that its failures are  *)
(* left to DirLock.  There is one worker and the leader, and one copy of a *)
(* message: a body sent again after its delivery is another message.       *)
(***************************************************************************)
EXTENDS Naturals, FiniteSets

CONSTANTS Mail,        \* messages
          Inbox,       \* instructions for the worker's inbox
          ForLeader,   \* the messages whose recipient is the leader
          Strict,      \* instructions that require evidence that the worker started
          Menus,       \* bound: the items of a behaviour are among those of one of Menus
          Caller,      \* processes that send
          Leader,      \* those among them that poll and instruct; the others acknowledge
          Free, Orphan, Hook,  \* the lock of the queue: free, of a dead process, of the hook
          Modes,       \* dispatch modes: "hook" (hook_preferred_with_fallback) or
                       \* "direct" (transport_direct, prompt_stdin)
          MaxRequests, \* bound on the requests of a run
          MaxCrashes   \* bound on the processes that die

ASSUME DispatchAssumption ==
    /\ Mail \cap Inbox = {}
    /\ "none" \notin Mail \cup Inbox
    /\ ForLeader \subseteq Mail
    /\ Strict \subseteq Inbox
    /\ Leader \subseteq Caller
    /\ Modes \subseteq {"hook", "direct"}
    /\ MaxRequests \in Nat
    /\ MaxCrashes \in Nat
    /\ Free # Orphan /\ Free # Hook /\ Orphan # Hook

VARIABLES sent, notified, delivered,   \* the mailboxes and the inbox, as in Delivery
          requests,   \* dispatch/requests.json
          latest,     \* latest[i]: the request of i that was updated last (updated_at)
          recorded,   \* mailboxNotifiedByMessageId of the monitor snapshot
          lock,       \* of the queue
          hot,        \* the cooldown files: a trigger was typed lately
          told, read, \* what recipients know, as in Delivery
          alive,      \* the worker's pane can be typed into
          leaderPane, \* the leader's pane is known
          mode,       \* dispatch_mode of the team
          pc, call, todo, telling,          \* of callers
          answer,     \* answer[p]: whether the last call of p has returned ok
          hookPc, copy, next, warm,         \* of the hook
          crashes

boxVars == <<sent, notified, delivered>>
queueVars == <<requests, latest>>
knowVars == <<told, read>>
worldVars == <<alive, leaderPane, mode, crashes>>
callVars == <<pc, call, todo, telling, answer>>
hookVars == <<hookPc, copy, next, warm>>
vars == <<boxVars, queueVars, recorded, lock, hot, knowVars, worldVars, callVars, hookVars>>

Item == Mail \cup Inbox
Request == 1..MaxRequests
NoRequest == [item |-> "none", status |-> "absent", via |-> "none", tries |-> 0]
Call(k, i) == [kind |-> k, item |-> i, req |-> 0, seen |-> "absent", receipt |-> "absent"]
NoCall == Call("none", "none")

\* What Delivery sees of a request.
QueueView == [r \in Request |-> [item |-> requests[r].item, status |-> requests[r].status]]

D == INSTANCE Delivery WITH queue <- QueueView

MaxUnconfirmed == 3   \* MAX_UNCONFIRMED_ATTEMPTS

-----------------------------------------------------------------------------
(* state/dispatch.ts *)

LooseTransition(from, to) ==     \* mutant: a delivered request can fail
    \/ from = to
    \/ <<from, to>> \in {<<"pending", "notified">>, <<"pending", "failed">>,
                         <<"notified", "delivered">>, <<"notified", "failed">>,
                         <<"failed", "notified">>, <<"delivered", "failed">>}

\* canTransitionDispatchStatus
CanTransition(from, to) ==
    \/ from = to
    \/ <<from, to>> \in {<<"pending", "notified">>, <<"pending", "failed">>,
                         <<"notified", "delivered">>, <<"notified", "failed">>,
                         <<"failed", "notified">>}

\* transitionDispatchRequest: the status the caller read may have changed by now.
Accepted(r, from, to) ==
    /\ requests[r].status \in {from, to}
    /\ CanTransition(requests[r].status, to)

\* The same request with another status; attempt_count matters as long as it is pending.
Moved(q, to) == [item |-> q.item, status |-> to, via |-> q.via,
                 tries |-> IF to = "pending" THEN q.tries ELSE 0]

\* Under the lock, which may be had too late: then nothing changes and the call throws.
Transition(r, from, to) ==
    IF lock = Free /\ Accepted(r, from, to)
    THEN /\ requests' = [requests EXCEPT ![r] = Moved(requests[r], to)]
         /\ latest' = [latest EXCEPT ![requests[r].item] = r]
    ELSE UNCHANGED queueVars

\* equivalentPendingDispatch
PendingFor(i) == {r \in Request : requests[r].item = i /\ requests[r].status = "pending"}
Unused == {r \in Request : requests[r] = NoRequest}

-----------------------------------------------------------------------------

Init ==
    /\ sent = {} /\ notified = {} /\ delivered = {}
    /\ requests = [r \in Request |-> NoRequest]
    /\ latest = [i \in Item |-> 0]
    /\ recorded = {}
    /\ lock = Free
    /\ hot = FALSE
    /\ told = {} /\ read = {}
    /\ alive = TRUE
    /\ leaderPane \in BOOLEAN
    /\ mode \in Modes
    /\ pc = [p \in Caller |-> "idle"]
    /\ call = [p \in Caller |-> NoCall]
    /\ todo = [p \in Caller |-> {}]
    /\ telling = [p \in Caller |-> {}]
    /\ answer = [p \in Caller |-> "none"]
    /\ hookPc = "idle"
    /\ copy = [r \in Request |-> NoRequest]
    /\ next = 1
    /\ warm = FALSE
    /\ crashes = 0

\* A caller goes on at another point with what it has learnt.
Go(p, to, with) ==
    /\ pc' = [pc EXCEPT ![p] = to]
    /\ call' = [call EXCEPT ![p] = with]
    /\ UNCHANGED <<todo, telling, answer>>

\* A call returns or throws.  In a poll a message that was told is kept in mind for the
\* snapshot and the next one is taken up; what throws ends the poll.
Return(p, with) ==
    LET polling == call[p].kind = "poll" /\ with # "thrown"
    IN /\ pc' = [pc EXCEPT ![p] = IF polling THEN "poll" ELSE "idle"]
       /\ call' = [call EXCEPT ![p] = IF polling THEN Call("poll", "none") ELSE NoCall]
       /\ todo' = [todo EXCEPT ![p] = IF polling THEN @ ELSE {}]
       /\ telling' = [telling EXCEPT ![p] =
             IF ~polling THEN {} ELSE IF with = "ok" THEN @ \cup {call[p].item} ELSE @]
       /\ answer' = [answer EXCEPT ![p] = IF with = "ok" THEN "ok" ELSE "none"]

-----------------------------------------------------------------------------
(* Calls *)

OnMenu(i) == \E m \in Menus : sent \cup {i} \subseteq m

Begin(p, k, i, to) ==
    /\ pc[p] = "idle"
    /\ pc' = [pc EXCEPT ![p] = to]
    /\ call' = [call EXCEPT ![p] = IF to = "idle" THEN NoCall ELSE Call(k, i)]
    /\ answer' = [answer EXCEPT ![p] = "none"]

\* sendDirectMessage: an identical message that is not delivered is used again, and is
\* not dispatched again once it is notified (existing_message_already_notified).  "send"
\* is sendWorkerMessage; "post" is send-message when the recipient has no pane.
Send(p, k, i) ==
    /\ i \notin delivered          \* bound: one copy of each message
    /\ OnMenu(i)
    /\ Begin(p, k, i, IF i \in notified THEN "idle" ELSE "enqueue")
    /\ sent' = sent \cup {i}
    /\ UNCHANGED <<notified, delivered, queueVars, recorded, lock, hot, knowVars, worldVars,
                   todo, telling, hookVars>>

\* dispatchCriticalInboxInstruction and queueInboxInstruction write the inbox first.
Instruct(p, i) ==
    /\ OnMenu(i)
    /\ Begin(p, "instruct", i, "enqueue")
    /\ sent' = sent \cup {i}
    /\ UNCHANGED <<notified, delivered, queueVars, recorded, lock, hot, knowVars, worldVars,
                   todo, telling, hookVars>>

\* deliverPendingMailboxMessages: what neither the mailbox nor the last snapshot calls
\* notified, if the worker is alive.  The leader's mailbox is not polled.
Poll(p) ==
    LET pending == (sent \cap Mail) \ (delivered \cup ForLeader)
        known == pending \cap (notified \cup recorded)
    IN /\ Begin(p, "poll", "none", "poll")
       /\ todo' = [todo EXCEPT ![p] = IF alive THEN pending \ known ELSE {}]
       /\ telling' = [telling EXCEPT ![p] = known]
       /\ UNCHANGED <<boxVars, queueVars, recorded, lock, hot, knowVars, worldVars, hookVars>>

StubbornNext(p) ==   \* mutant: the poll keeps at a message until it is told
    /\ pc[p] = "poll"
    /\ \E i \in todo[p] \ telling[p] :
         call' = [call EXCEPT ![p] = Call("poll", i)]
    /\ pc' = [pc EXCEPT ![p] = "enqueue"]
    /\ UNCHANGED <<boxVars, queueVars, recorded, lock, hot, knowVars, worldVars, todo, telling,
                   answer, hookVars>>

PollNext(p) ==
    /\ pc[p] = "poll"
    /\ \E i \in todo[p] :
         /\ todo' = [todo EXCEPT ![p] = @ \ {i}]
         /\ call' = [call EXCEPT ![p] = Call("poll", i)]
    /\ pc' = [pc EXCEPT ![p] = "enqueue"]
    /\ UNCHANGED <<boxVars, queueVars, recorded, lock, hot, knowVars, worldVars, telling, answer,
                   hookVars>>

RecordAll(p) ==      \* mutant: the snapshot calls everything it has seen notified
    /\ pc[p] = "poll"
    /\ todo[p] = {}
    /\ recorded' = (sent \cap Mail) \ (delivered \cup ForLeader)
    /\ pc' = [pc EXCEPT ![p] = "idle"]
    /\ call' = [call EXCEPT ![p] = NoCall]
    /\ telling' = [telling EXCEPT ![p] = {}]
    /\ UNCHANGED <<boxVars, queueVars, lock, hot, knowVars, worldVars, todo, answer, hookVars>>

\* monitorTeam writes what was told into the snapshot.
PollEnd(p) ==
    /\ pc[p] = "poll"
    /\ todo[p] = {}
    /\ recorded' = telling[p]
    /\ pc' = [pc EXCEPT ![p] = "idle"]
    /\ call' = [call EXCEPT ![p] = NoCall]
    /\ telling' = [telling EXCEPT ![p] = {}]
    /\ UNCHANGED <<boxVars, queueVars, lock, hot, knowVars, worldVars, todo, answer, hookVars>>

\* mailbox-mark-delivered, by the worker that has read the message.
Ack(p, i) ==
    /\ i \in sent
    /\ Begin(p, "ack", i, "ack")
    /\ read' = read \cup {i}
    /\ delivered' = delivered \cup {i}
    /\ UNCHANGED <<sent, notified, queueVars, recorded, lock, hot, told, worldVars, todo, telling,
                   hookVars>>

-----------------------------------------------------------------------------
(* Into the queue *)

\* transport_preference of the request a call makes.
Via(p) == IF mode = "direct" /\ call[p].kind # "post" THEN "direct" ELSE "hook"

\* What a call does when its request r is queued, or was there already: then it fails with
\* duplicate_pending_dispatch_request, unless it looks after the request it has found.
Queued(p, r, deduped) ==
    LET c == [call[p] EXCEPT !.req = r]
        leader == c.item \in ForLeader
        leave == IF deduped THEN Return(p, "failed") ELSE Go(p, "queued", c)
    IN \/ c.kind = "post" /\ leave
       \/ /\ Via(p) = "direct"
          /\ IF deduped /\ c.kind # "poll" THEN Return(p, "failed") ELSE Go(p, "type", c)
       \/ /\ c.kind # "post" /\ Via(p) = "hook"
          /\ \/ (leader => leaderPane) /\ Go(p, "wait", c)
             \/ leader /\ leaderPane /\ leave  \* no tmux here
             \/ leader /\ ~leaderPane /\ Go(p, "defer", c)

\* enqueueDispatchRequest: a request of the item that is pending is used again.
Reuse(p) ==
    /\ pc[p] = "enqueue"
    /\ lock = Free
    /\ \E r \in PendingFor(call[p].item) : Queued(p, r, TRUE)
    /\ UNCHANGED <<boxVars, queueVars, recorded, lock, hot, knowVars, worldVars, hookVars>>

Enqueue(p) ==
    /\ pc[p] = "enqueue"
    /\ lock = Free
    /\ PendingFor(call[p].item) = {}
    /\ \E r \in Unused :
         /\ \A q \in Unused : r <= q
         /\ requests' = [requests EXCEPT ![r] = [item |-> call[p].item, status |-> "pending",
                                                 via |-> Via(p), tries |-> 0]]
         /\ latest' = [latest EXCEPT ![call[p].item] = r]
         /\ Queued(p, r, FALSE)
    /\ UNCHANGED <<boxVars, recorded, lock, hot, knowVars, worldVars, hookVars>>

\* The lock of the queue is not to be had in time (or the bound on requests is reached).
EnqueueFails(p) ==
    /\ pc[p] = "enqueue"
    /\ lock # Free \/ (PendingFor(call[p].item) = {} /\ Unused = {})
    /\ Return(p, "thrown")
    /\ UNCHANGED <<boxVars, queueVars, recorded, lock, hot, knowVars, worldVars, hookVars>>

\* queued_for_hook_dispatch: the sender is answered ok at once, and the hook types later.
LeaveToHook(p) ==
    /\ pc[p] = "queued"
    /\ Return(p, "ok")
    /\ UNCHANGED <<boxVars, queueVars, recorded, lock, hot, knowVars, worldVars, hookVars>>

\* leader_pane_missing_mailbox_persisted: the request stays pending and only looks recent
\* (markDispatchRequestLeaderPaneMissingDeferred, which swallows what it throws), and the
\* sender is answered ok.
Defer(p) ==
    /\ pc[p] = "defer"
    /\ IF requests[call[p].req].status = "pending" THEN Transition(call[p].req, "pending", "pending")
                                                   ELSE UNCHANGED queueVars
    /\ Return(p, "ok")
    /\ UNCHANGED <<boxVars, recorded, lock, hot, knowVars, worldVars, hookVars>>

-----------------------------------------------------------------------------
(* Out of the queue, by the caller itself *)

\* notifyWorkerOutcome and notifyLeaderAsync: the trigger is submitted in the worker's
\* pane, or written to the leader's mailbox.
Tell(i, ok) ==
    /\ ok = (i \in ForLeader \/ alive)
    /\ told' = IF ok THEN told \cup {i} ELSE told

\* A message is marked in its mailbox before its request is marked in the queue.
AfterTelling(i) == IF i \in Mail THEN "mark" ELSE "read"

\* The transport is direct: the caller tells at once.
Type(p) ==
    LET c == call[p]
    IN /\ pc[p] = "type"
       /\ \E ok \in BOOLEAN :
            /\ Tell(c.item, ok)
            /\ \/ ok /\ c.item \in ForLeader /\ ~leaderPane /\ Go(p, "defer", c)
               \/ ok /\ (c.item \in ForLeader => leaderPane) /\ Go(p, AfterTelling(c.item), c)
               \* a poll that cannot tell leaves its request pending
               \/ ~ok /\ c.kind = "poll" /\ Return(p, "failed")
               \/ ~ok /\ c.kind # "poll" /\ Go(p, "failRead", c)
       /\ UNCHANGED <<boxVars, queueVars, recorded, lock, hot, read, worldVars, hookVars>>

\* waitForDispatchReceipt reads the queue, without the lock, until the request is served or
\* dispatch_ack_timeout_ms have passed: then the receipt is still pending.
Receipt(p) ==
    LET got == requests[call[p].req].status
        c == [call[p] EXCEPT !.receipt = got]
    IN /\ pc[p] = "wait"
       /\ \/ got \in {"notified", "delivered"} /\ c.item \in Mail /\ Go(p, "mark", c)
          \/ got = "delivered" /\ c.item \in Inbox /\ Return(p, "ok")
          \/ got = "notified" /\ c.item \in Inbox /\ Return(p, "ok")
          \* no evidence that the worker started: waitForWorkerStartupEvidence
          \/ got = "notified" /\ c.item \in Strict /\ Go(p, "fallback", c)
          \/ got \in {"pending", "failed"} /\ Go(p, "fallback", c)
       /\ UNCHANGED <<boxVars, queueVars, recorded, lock, hot, knowVars, worldVars, hookVars>>

EagerFallback(p) ==  \* mutant: the outcome of the fallback is not looked at
    LET c == call[p]
    IN /\ pc[p] = "fallback"
       /\ \E ok \in BOOLEAN : Tell(c.item, ok)
       /\ Go(p, AfterTelling(c.item), c)
       /\ UNCHANGED <<boxVars, queueVars, recorded, lock, hot, read, worldVars, hookVars>>

\* The hook did not serve the request in time, or could not.
Fallback(p) ==
    LET c == call[p]
    IN /\ pc[p] = "fallback"
       /\ \E ok \in BOOLEAN :
            /\ Tell(c.item, ok)
            /\ \/ ok /\ Go(p, AfterTelling(c.item), c)
               \/ ~ok /\ c.receipt = "failed" /\ Go(p, "failWrite", [c EXCEPT !.seen = "failed"])
               \/ ~ok /\ c.receipt # "failed" /\ Go(p, "failRead", c)
       /\ UNCHANGED <<boxVars, queueVars, recorded, lock, hot, read, worldVars, hookVars>>

\* markMessageNotified; after a receipt of the hook nothing else is left to do.
MarkMail(p) ==
    /\ pc[p] = "mark"
    /\ notified' = notified \cup {call[p].item}
    /\ IF call[p].receipt \in {"notified", "delivered"} THEN Return(p, "ok")
                                                        ELSE Go(p, "read", call[p])
    /\ UNCHANGED <<sent, delivered, queueVars, recorded, lock, hot, knowVars, worldVars, hookVars>>

\* The request is marked; an acknowledgement goes on to mark it delivered.
Marked(p) == IF call[p].kind = "ack" THEN Go(p, "ackRead", call[p]) ELSE Return(p, "ok")

\* markDispatchRequestNotified reads the request without the lock ...
MarkRead(p) ==
    LET now == requests[call[p].req].status
    IN /\ pc[p] = "read"
       /\ IF now \in {"notified", "delivered"} THEN Marked(p)
                                               ELSE Go(p, "write", [call[p] EXCEPT !.seen = now])
       /\ UNCHANGED <<boxVars, queueVars, recorded, lock, hot, knowVars, worldVars, hookVars>>

HopefulWrite(p) ==     \* mutant: a lock that cannot be had is ignored after any receipt
    LET c == call[p]
    IN /\ pc[p] = "write"
       /\ Transition(c.req, c.seen, "notified")
       /\ Marked(p)
       /\ UNCHANGED <<boxVars, recorded, lock, hot, knowVars, worldVars, hookVars>>

\* ... and moves it on from the status it read, with the lock.  After a timed out receipt a
\* refusal means that the hook has failed the request meanwhile, which is put on record.
\* What throws is caught after a failed receipt, and in a direct poll.
MarkWrite(p) ==
    LET c == call[p]
        caught == c.receipt = "failed" \/ (c.kind = "poll" /\ Via(p) = "direct")
    IN /\ pc[p] = "write"
       /\ Transition(c.req, c.seen, "notified")
       /\ \/ lock = Free /\ ~Accepted(c.req, c.seen, "notified")
             /\ c.receipt \in {"pending", "notified"} /\ Go(p, "patch", c)
          \/ lock = Free /\ (Accepted(c.req, c.seen, "notified") \/ c.receipt \in {"failed", "absent"})
             /\ Marked(p)
          \/ lock # Free /\ Return(p, IF caught THEN "ok" ELSE "thrown")
       /\ UNCHANGED <<boxVars, recorded, lock, hot, knowVars, worldVars, hookVars>>

Patch(p) ==
    /\ pc[p] = "patch"
    /\ Transition(call[p].req, "failed", "failed")
    /\ Return(p, "ok")
    /\ UNCHANGED <<boxVars, recorded, lock, hot, knowVars, worldVars, hookVars>>

\* The recipient could not be told: markImmediateDispatchFailure, and the end of
\* finalizeHookPreferredMailboxDispatch and of dispatchCriticalInboxInstruction.
FailRead(p) ==
    LET c == call[p]
        now == requests[c.req].status
        over == \/ Via(p) = "direct" /\ now # "pending"
                \/ c.item \in Inbox /\ now = "failed"
    IN /\ pc[p] = "failRead"
       /\ IF over THEN Return(p, "failed") ELSE Go(p, "failWrite", [c EXCEPT !.seen = now])
       /\ UNCHANGED <<boxVars, queueVars, recorded, lock, hot, knowVars, worldVars, hookVars>>

FailWrite(p) ==
    /\ pc[p] = "failWrite"
    /\ Transition(call[p].req, call[p].seen, "failed")
    /\ Return(p, "failed")
    /\ UNCHANGED <<boxVars, recorded, lock, hot, knowVars, worldVars, hookVars>>

\* markLatestMailboxDispatchDelivered: the request of the message that was updated last.
AckFind(p) ==
    LET c == [call[p] EXCEPT !.req = latest[call[p].item]]
    IN /\ pc[p] = "ack"
       /\ IF c.req = 0 THEN Return(p, "ok")
          ELSE Go(p, IF requests[c.req].status = "pending" THEN "read" ELSE "ackRead", c)
       /\ UNCHANGED <<boxVars, queueVars, recorded, lock, hot, knowVars, worldVars, hookVars>>

\* markDispatchRequestDelivered, in two steps as above; a failed request stays failed.
AckRead(p) ==
    LET now == requests[call[p].req].status
    IN /\ pc[p] = "ackRead"
       /\ IF now = "delivered" THEN Return(p, "ok")
                               ELSE Go(p, "ackWrite", [call[p] EXCEPT !.seen = now])
       /\ UNCHANGED <<boxVars, queueVars, recorded, lock, hot, knowVars, worldVars, hookVars>>

AckWrite(p) ==
    /\ pc[p] = "ackWrite"
    /\ Transition(call[p].req, call[p].seen, "delivered")
    /\ Return(p, IF lock = Free THEN "ok" ELSE "thrown")
    /\ UNCHANGED <<boxVars, recorded, lock, hot, knowVars, worldVars, hookVars>>

-----------------------------------------------------------------------------
(* drainPendingTeamDispatch, run by the notify hook and by the fallback watcher *)

ForHook(q) == q.status = "pending" /\ q.via = "hook"
Deferred(q) == ForHook(q) /\ q.item \in ForLeader /\ ~leaderPane

\* A drain that finds nothing to do changes nothing and is left out.  Whether the cooldown
\* of what was typed last has passed is decided when a drain looks.
DrainBegin(cold) ==
    /\ hookPc = "idle"
    /\ \E r \in Request : ForHook(requests[r])
    /\ lock = Free
    /\ lock' = Hook
    /\ hookPc' = "drain"
    /\ copy' = requests
    /\ next' = 1
    /\ ~cold => hot
    /\ hot' = ~cold
    /\ warm' = ~cold
    /\ UNCHANGED <<boxVars, queueVars, recorded, knowVars, worldVars, callVars>>

\* shouldSkipRequest; the leader's pane is missing; a trigger was typed lately: its key is
\* the worker's name, which every trigger contains (extractIssueKey).
DrainSkip ==
    /\ hookPc = "drain"
    /\ next <= MaxRequests
    /\ ~ForHook(copy[next]) \/ Deferred(copy[next]) \/ warm
    /\ next' = next + 1
    /\ UNCHANGED <<boxVars, queueVars, recorded, lock, hot, knowVars, worldVars, callVars,
                   hookPc, copy, warm>>

Uncounted(q) == q    \* mutant: attempts are not counted

OneMore(q) ==        \* mutant: <= for <
    IF q.tries + 1 <= MaxUnconfirmed
    THEN [item |-> q.item, status |-> "pending", via |-> q.via, tries |-> q.tries + 1]
    ELSE Moved(q, "failed")

\* A trigger that was typed and is still to be seen in the pane is left to later drains,
\* three times in all.
Unconfirmed(q) ==
    IF q.tries + 1 < MaxUnconfirmed
    THEN [item |-> q.item, status |-> "pending", via |-> q.via, tries |-> q.tries + 1]
    ELSE Moved(q, "failed")

\* injectDispatchRequest: typed, and seen to be consumed; or typed, and unconfirmed; or not
\* typed at all.
DrainInject ==
    LET q == copy[next]
    IN /\ hookPc = "drain"
       /\ next <= MaxRequests
       /\ ForHook(q) /\ ~Deferred(q) /\ ~warm
       /\ \/ /\ q.item \in ForLeader \/ alive
             /\ told' = told \cup {q.item}
             /\ copy' = [copy EXCEPT ![next] = Moved(q, "notified")]
             /\ hookPc' = IF q.item \in Mail THEN "mark" ELSE "drain"
             /\ next' = IF q.item \in Mail THEN next ELSE next + 1
          \/ /\ copy' = [copy EXCEPT ![next] = Unconfirmed(q)]
             /\ next' = next + 1
             /\ UNCHANGED <<told, hookPc>>
          \/ /\ copy' = [copy EXCEPT ![next] = Moved(q, "failed")]
             /\ next' = next + 1
             /\ UNCHANGED <<told, hookPc>>
       /\ warm' = TRUE
       /\ UNCHANGED <<boxVars, queueVars, recorded, lock, hot, read, worldVars, callVars>>

\* updateMailboxNotified
DrainMark ==
    /\ hookPc = "mark"
    /\ notified' = notified \cup {copy[next].item}
    /\ hookPc' = "drain"
    /\ next' = next + 1
    /\ UNCHANGED <<sent, delivered, queueVars, recorded, lock, hot, knowVars, worldVars, callVars,
                   copy, warm>>

\* The cooldown files and requests.json are written, the lock is released.
DrainWrite ==
    LET touched == {r \in Request : copy[r] # requests[r] \/ Deferred(copy[r])}
        of(i) == {r \in touched : copy[r].item = i}
    IN /\ hookPc = "drain"
       /\ next = MaxRequests + 1
       /\ requests' = copy
       /\ latest' = [i \in Item |-> IF of(i) = {} THEN latest[i] ELSE CHOOSE r \in of(i) : TRUE]
       /\ hot' = (hot \/ copy # requests)
       /\ lock' = Free
       /\ hookPc' = "idle"
       /\ copy' = [r \in Request |-> NoRequest]
       /\ next' = 1
       /\ warm' = FALSE
       /\ UNCHANGED <<boxVars, recorded, knowVars, worldVars, callVars>>

-----------------------------------------------------------------------------
(* Crashes and time *)

\* The hook dies; the cooldown files may have been written.
HookCrash ==
    /\ hookPc # "idle"
    /\ crashes < MaxCrashes
    /\ crashes' = crashes + 1
    /\ hot' \in {hot, hot \/ copy # requests}
    /\ lock' = Orphan
    /\ hookPc' = "idle"
    /\ copy' = [r \in Request |-> NoRequest]
    /\ next' = 1
    /\ warm' = FALSE
    /\ UNCHANGED <<boxVars, queueVars, recorded, knowVars, alive, leaderPane, mode, callVars>>

Locked == {"enqueue", "defer", "write", "patch", "failWrite", "ackWrite"}

\* A caller dies between two steps, or with the lock.
Crash(p) ==
    /\ pc[p] # "idle"
    /\ crashes < MaxCrashes
    /\ crashes' = crashes + 1
    /\ \/ lock' = lock
       \/ pc[p] \in Locked /\ lock = Free /\ lock' = Orphan
    /\ pc' = [pc EXCEPT ![p] = "idle"]
    /\ call' = [call EXCEPT ![p] = NoCall]
    /\ todo' = [todo EXCEPT ![p] = {}]
    /\ telling' = [telling EXCEPT ![p] = {}]
    /\ answer' = [answer EXCEPT ![p] = "none"]
    /\ UNCHANGED <<boxVars, queueVars, recorded, hot, knowVars, alive, leaderPane, mode, hookVars>>

\* LOCK_STALE_MS after the death of its owner the next process removes the lock.
Recover ==
    /\ lock = Orphan
    /\ lock' = Free
    /\ UNCHANGED <<boxVars, queueVars, recorded, hot, knowVars, worldVars, callVars, hookVars>>

\* The worker's pane dies or hangs, and is back again.
PaneChanges ==
    /\ alive' = ~alive
    /\ UNCHANGED <<boxVars, queueVars, recorded, lock, hot, knowVars, leaderPane, mode, crashes,
                   callVars, hookVars>>

-----------------------------------------------------------------------------

\* What a call does once it has begun; a poll ends by itself.
Step(p) ==
    \/ PollNext(p) \/ PollEnd(p)
    \/ Reuse(p) \/ Enqueue(p) \/ EnqueueFails(p) \/ LeaveToHook(p) \/ Defer(p)
    \/ Type(p) \/ Receipt(p) \/ Fallback(p)
    \/ MarkMail(p) \/ MarkRead(p) \/ MarkWrite(p) \/ Patch(p)
    \/ FailRead(p) \/ FailWrite(p)
    \/ AckFind(p) \/ AckRead(p) \/ AckWrite(p)

HookStep == DrainSkip \/ DrainInject \/ DrainMark \/ DrainWrite

Next ==
    \/ \E p \in Caller :
          \/ \E i \in Mail : Send(p, "send", i) \/ Send(p, "post", i)
          \/ p \in Leader /\ \E i \in Inbox : Instruct(p, i)
          \/ p \notin Leader /\ \E i \in Mail \ ForLeader : Ack(p, i)
          \/ p \in Leader /\ Poll(p)
          \/ Step(p)
          \/ Crash(p)
    \/ \E cold \in BOOLEAN : DrainBegin(cold)
    \/ HookStep \/ HookCrash
    \/ Recover \/ PaneChanges

\* Processes that live go on; the watcher drains every tick, and not always within a
\* cooldown; stale locks are removed.  Nobody has to call, and panes change when they like.
Fairness ==
    /\ \A p \in Caller : WF_vars(Step(p))
    /\ SF_vars(DrainBegin(TRUE))
    /\ WF_vars(HookStep)
    /\ WF_vars(Recover)

Spec == Init /\ [][Next]_vars /\ Fairness

-----------------------------------------------------------------------------

KeptRequests == [item : Item, status : {"pending", "notified", "delivered", "failed"},
                 via : {"hook", "direct"}, tries : 0..(MaxUnconfirmed - 1)] \cup {NoRequest}
Calls == [kind : {"none", "send", "post", "instruct", "poll", "ack"}, item : Item \cup {"none"},
          req : 0..MaxRequests,
          seen : {"absent", "pending", "notified", "delivered", "failed"},
          receipt : {"absent", "pending", "notified", "delivered", "failed"}]
Points == {"idle", "poll", "enqueue", "queued", "defer", "type", "wait", "fallback", "mark", "read", "write",
           "patch", "failRead", "failWrite", "ack", "ackRead", "ackWrite"}

\* Every variable keeps the shape its file or its process gives it.
TypeOK ==
    /\ sent \subseteq Item /\ notified \subseteq Mail /\ delivered \subseteq Mail
    /\ requests \in [Request -> KeptRequests]
    /\ latest \in [Item -> 0..MaxRequests]
    /\ recorded \subseteq Mail
    /\ lock \in {Free, Orphan, Hook}
    /\ hot \in BOOLEAN
    /\ told \subseteq Item /\ read \subseteq Mail
    /\ alive \in BOOLEAN /\ leaderPane \in BOOLEAN /\ mode \in Modes
    /\ pc \in [Caller -> Points]
    /\ call \in [Caller -> Calls]
    /\ todo \in [Caller -> SUBSET Mail]
    /\ telling \in [Caller -> SUBSET Mail]
    /\ answer \in [Caller -> {"none", "ok"}]
    /\ hookPc \in {"idle", "drain", "mark"}
    /\ copy \in [Request -> KeptRequests]
    /\ next \in 1..(MaxRequests + 1)
    /\ warm \in BOOLEAN
    /\ crashes \in 0..MaxCrashes

Known(i) == i \in told \/ i \in read

\* Whoever marks a message or a request, in which order, after which wait: what is called
\* notified or delivered, in the mailbox, in the snapshot or in the queue, the recipient
\* was told of or has read.
NotifiedIsTrue ==
    /\ \A i \in notified \cup recorded : Known(i)
    /\ \A r \in Request :
          requests[r].status \in {"notified", "delivered"} => Known(requests[r].item)

\* What a call may leave pending when it answers ok, without having waited for the hook: a
\* request the hook is to type (the recipient has no pane, or the sender no tmux), and the
\* direct request of a leader without a pane, whose mailbox has the trigger already.
LeftBehind(c, q) ==
    /\ c.receipt = "absent"
    /\ \/ q.via = "hook" /\ (c.kind = "post" \/ c.item \in ForLeader)
       \/ q.via = "direct" /\ c.item \in ForLeader /\ ~leaderPane /\ c.item \in told

\* Whoever is answered ok has its request no longer pending, although the hook and other
\* callers mark it as well, unless it left the request behind without waiting for it.  So
\* nothing is typed once more by the hook after a fallback was called confirmed, and no
\* instruction and no message for a worker's pane is taken for sent while it is queued.
AnsweredSettled ==
    [][\A p \in Caller :
          /\ call[p].kind \in {"send", "post", "instruct"}
          /\ call[p].req # 0
          /\ pc'[p] = "idle"
          /\ answer'[p] = "ok"
          => \/ requests'[call[p].req].status # "pending"
             \/ LeftBehind(call[p], requests'[call[p].req])]_vars

\* The queue, the mailboxes and the marks are those of Delivery, at every step.
Refinement == D!DeliverySpec

\* Every call returns or throws, whatever it meets.
CallsReturn == \A p \in Caller : pc[p] # "idle" ~> pc[p] = "idle"

\* While the hook is run, no request that is for the hook stays pending, unless it is for a
\* leader without a pane.
RequestsServed ==
    \A r \in Request :
        ForHook(requests[r]) /\ ~Deferred(requests[r]) ~> requests[r].status # "pending"

\* While polls are completed and the worker's pane lives, the worker learns of a message.
MailShown ==
    ([]<><<\E p \in Caller : PollEnd(p)>>_vars /\ <>[]alive)
        => \A i \in Mail \ ForLeader : i \in sent ~> Known(i)

=============================================================================
