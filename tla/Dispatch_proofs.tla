--------------------------- MODULE Dispatch_proofs ----------------------------
(***************************************************************************)
(* Dispatch keeps its types, marks only what the recipient knows, answers  *)
(* "ok" only for requests that are settled or knowingly left behind, and   *)
(* implements Delivery: for any number of callers, items, requests and     *)
(* crashes.                                                                *)
(*                                                                         *)
(* The argument: what is under the lock of the queue only moves requests   *)
(* on (Progress); what a caller has read of its request without the lock   *)
(* is therefore still true in part when it acts on it (CallInv), and what  *)
(* the hook writes back differs from the queue only by what the hook has   *)
(* done (HookInv), as nobody else has had the lock.                        *)
(***************************************************************************)
EXTENDS Dispatch, TLAPS

Status == {"pending", "notified", "delivered", "failed"}
Done == {"notified", "delivered", "failed"}
Kinds == {"none", "send", "post", "instruct", "poll", "ack"}

\* The types of the queue, of the callers and of the hook.
QueueType ==
    /\ requests \in [Request -> KeptRequests]
    /\ latest \in [Item -> 0..MaxRequests]

CallType ==
    /\ pc \in [Caller -> Points]
    /\ call \in [Caller -> Calls]
    /\ todo \in [Caller -> SUBSET Mail]
    /\ telling \in [Caller -> SUBSET Mail]
    /\ answer \in [Caller -> {"none", "ok"}]

HookType ==
    /\ hookPc \in {"idle", "drain", "mark"}
    /\ copy \in [Request -> KeptRequests]
    /\ next \in 1..(MaxRequests + 1)
    /\ warm \in BOOLEAN

OtherType ==
    /\ sent \subseteq Item /\ notified \subseteq Mail /\ delivered \subseteq Mail
    /\ recorded \subseteq Mail
    /\ lock \in {Free, Orphan, Hook}
    /\ hot \in BOOLEAN
    /\ told \subseteq Item /\ read \subseteq Mail
    /\ alive \in BOOLEAN /\ leaderPane \in BOOLEAN /\ mode \in Modes
    /\ crashes \in 0..MaxCrashes

\* What a call knows of its item and of its request is true where it is used.
CallInv(p) ==
    /\ call[p].item # "none" => call[p].item \in sent
    /\ pc[p] \notin {"idle", "poll"} => call[p].item # "none"
    /\ pc[p] \notin {"idle", "poll", "enqueue", "ack"} => call[p].req # 0
    /\ pc[p] \in {"idle", "poll", "enqueue", "ack"} =>
          call[p].req = 0 /\ call[p].seen = "absent" /\ call[p].receipt = "absent"
    /\ pc[p] = "poll" => call[p].kind = "poll"
    /\ call[p].kind = "ack" => /\ pc[p] \in {"ack", "read", "write", "ackRead", "ackWrite"}
                               /\ call[p].receipt = "absent"
    /\ call[p].kind = "poll" => /\ call[p].item \in (Mail \ ForLeader) \cup {"none"}
                                /\ pc[p] \notin {"queued", "defer"}
    /\ call[p].kind = "ack" => call[p].item \in read
    /\ pc[p] \in {"ack", "ackRead", "ackWrite"} => call[p].kind = "ack"
    /\ pc[p] \in {"mark", "read", "write", "patch"} => Known(call[p].item)
    /\ pc[p] = "mark" => call[p].item \in Mail
    /\ pc[p] = "write" => call[p].seen # "absent"
    /\ pc[p] = "type" => call[p].receipt = "absent"
    /\ todo[p] \subseteq sent \ ForLeader
    /\ \A i \in telling[p] : Known(i)

\* What a call has read of its request without the lock is still true as far as it goes:
\* a request that was no longer pending is not pending, and one that is going to be left
\* behind may be.
ReadInv(p) ==
    call[p].req # 0 =>
        /\ requests[call[p].req].item = call[p].item
        /\ requests[call[p].req].status # "absent"
        /\ call[p].receipt \in Done => requests[call[p].req].status \in Done
        /\ call[p].seen \in Done => requests[call[p].req].status \in Done
        /\ pc[p] = "patch" => requests[call[p].req].status \in Done
        /\ pc[p] \in {"queued", "defer"} => LeftBehind(call[p], requests[call[p].req])

\* The queue tells the truth.
QueueInv ==
    /\ \A i \in notified \cup recorded : Known(i)
    /\ \A r \in Request :
         /\ requests[r].status # "absent" => requests[r].item \in sent
         /\ requests[r].status \in {"notified", "delivered"} => Known(requests[r].item)
         /\ requests[r].status = "delivered" => requests[r].item \in read
         /\ requests[r].via = "direct" => mode = "direct"
    /\ \A i \in Item : latest[i] # 0 => /\ requests[latest[i]].item = i
                                        /\ requests[latest[i]].status # "absent"

\* The hook's copy is the queue but for what the hook has done.
CopyOK(r) ==
    \/ copy[r] = requests[r]
    \/ /\ requests[r].status = "pending"
       /\ copy[r].item = requests[r].item /\ copy[r].via = requests[r].via
       /\ copy[r].status \in {"pending", "notified", "failed"}
       /\ copy[r].status = "notified" => copy[r].item \in told

HookInv ==
    /\ (lock = Hook) <=> (hookPc # "idle")
    /\ hookPc # "idle" => \A r \in Request : CopyOK(r)
    /\ hookPc = "mark" => next \in Request /\ copy[next].item \in told \cap Mail

Inv ==
    /\ TypeOK
    /\ \A p \in Caller : CallInv(p) /\ ReadInv(p)
    /\ QueueInv
    /\ HookInv

\* Requests only move on.
Progress ==
    \A r \in Request : requests[r].status # "absent" =>
        /\ requests'[r].item = requests[r].item
        /\ requests'[r].via = requests[r].via
        /\ requests'[r].status # "absent"
        /\ requests[r].status \in Done => requests'[r].status \in Done

LEMMA TypeParts == TypeOK <=> QueueType /\ CallType /\ HookType /\ OtherType
  BY DEF TypeOK, QueueType, CallType, HookType, OtherType

-----------------------------------------------------------------------------
(* Lemmas about the operators *)

\* A request of the queue is complete, or it is not there.
LEMMA Kept ==
  ASSUME NEW q \in KeptRequests
  PROVE  /\ q.status = "absent" <=> q = NoRequest
         /\ q.status # "absent" =>
              /\ q.item \in Item /\ q.status \in Status /\ q.via \in {"hook", "direct"}
              /\ q.tries \in 0..2
  BY DEF KeptRequests, NoRequest, Status, MaxUnconfirmed

\* A request moved to a status is a request.
LEMMA MovedType ==
  ASSUME NEW q \in KeptRequests, q.status # "absent", NEW to \in Status
  PROVE  /\ Moved(q, to) \in KeptRequests
         /\ Moved(q, to).item = q.item
         /\ Moved(q, to).status = to
         /\ Moved(q, to).via = q.via
  <1>1. q.item \in Item /\ q.via \in {"hook", "direct"} /\ q.tries \in 0..2
    BY Kept
  <1>2. QED  BY <1>1 DEF Moved, KeptRequests, Status, MaxUnconfirmed

\* transitionDispatchRequest either changes nothing or moves one request along an edge.
LEMMA TransitionStep ==
  ASSUME TypeOK, NEW r \in Request, NEW from, NEW to \in Status, Transition(r, from, to)
  PROVE  \/ UNCHANGED queueVars
         \/ /\ lock = Free
            /\ Accepted(r, from, to)
            /\ requests[r].status # "absent"
            /\ requests[r].item \in Item
            /\ requests'[r] = Moved(requests[r], to)
            /\ \A s \in Request : s # r => requests'[s] = requests[s]
            /\ latest'[requests[r].item] = r
            /\ \A i \in Item : i # requests[r].item => latest'[i] = latest[i]
            /\ QueueType'
  <1> SUFFICES ASSUME lock = Free, Accepted(r, from, to)
               PROVE  /\ requests[r].status # "absent"
                      /\ requests[r].item \in Item
                      /\ requests'[r] = Moved(requests[r], to)
                      /\ \A s \in Request : s # r => requests'[s] = requests[s]
                      /\ latest'[requests[r].item] = r
                      /\ \A i \in Item : i # requests[r].item => latest'[i] = latest[i]
                      /\ QueueType'
    BY DEF Transition
  <1>1. requests[r] \in KeptRequests  BY DEF TypeOK
  <1>2. requests[r].status # "absent"
    BY DEF Accepted, CanTransition, Status
  <1>3. requests[r].item \in Item  BY <1>1, <1>2, Kept
  <1>4. Moved(requests[r], to) \in KeptRequests  BY <1>1, <1>2, MovedType
  <1>5. /\ requests' = [requests EXCEPT ![r] = Moved(requests[r], to)]
        /\ latest' = [latest EXCEPT ![requests[r].item] = r]
    BY DEF Transition
  <1>6. r \in 0..MaxRequests  BY DispatchAssumption DEF Request
  <1>7. QueueType'
    BY <1>3, <1>4, <1>5, <1>6 DEF QueueType, TypeOK
  <1>8. QED  BY <1>2, <1>3, <1>5, <1>7 DEF TypeOK

\* What is written, told or read stays so, and the team keeps its settings.
Monotone ==
    /\ sent \subseteq sent' /\ told \subseteq told' /\ read \subseteq read'
    /\ UNCHANGED <<mode, leaderPane>>

\* Another status than pending is final in this sense.
LEMMA TransitionProgress ==
  ASSUME TypeOK, NEW r \in Request, NEW from, NEW to \in Status, Transition(r, from, to)
  PROVE  /\ Progress
         /\ QueueType'
  <1>1. CASE UNCHANGED queueVars
    BY <1>1 DEF queueVars, Progress, QueueType, TypeOK
  <1>2. CASE ~UNCHANGED queueVars
    <2>1. /\ Accepted(r, from, to)
          /\ requests[r].status # "absent"
          /\ requests'[r] = Moved(requests[r], to)
          /\ \A s \in Request : s # r => requests'[s] = requests[s]
          /\ QueueType'
      BY <1>2, TransitionStep
    <2>2. /\ Moved(requests[r], to).item = requests[r].item
          /\ Moved(requests[r], to).status = to
          /\ Moved(requests[r], to).via = requests[r].via
      BY <2>1, MovedType DEF TypeOK
    <2>3. requests[r].status \in Done => to \in Done
      BY <2>1 DEF Accepted, CanTransition, Done
    <2>4. QED  BY <2>1, <2>2, <2>3 DEF Progress, Status
  <1>3. QED  BY <1>1, <1>2

\* A request may be marked when the recipient knows, and as delivered when it has read.
LEMMA TransitionQueue ==
  ASSUME TypeOK, QueueInv, NEW r \in Request, NEW from, NEW to \in Status,
         Transition(r, from, to),
         UNCHANGED <<boxVars, recorded, knowVars, mode>>,
         to = "notified" => Known(requests[r].item),
         to = "delivered" => requests[r].item \in read
  PROVE  QueueInv'
  <1>1. CASE UNCHANGED queueVars
    BY <1>1 DEF queueVars, boxVars, knowVars, QueueInv, Known
  <1>2. CASE ~UNCHANGED queueVars
    <2>1. /\ requests[r].status # "absent"
          /\ requests[r].item \in Item
          /\ requests'[r] = Moved(requests[r], to)
          /\ \A s \in Request : s # r => requests'[s] = requests[s]
          /\ latest'[requests[r].item] = r
          /\ \A i \in Item : i # requests[r].item => latest'[i] = latest[i]
      BY <1>2, TransitionStep
    <2>2. /\ Moved(requests[r], to).item = requests[r].item
          /\ Moved(requests[r], to).status = to
          /\ Moved(requests[r], to).via = requests[r].via
      BY <2>1, MovedType DEF TypeOK
    <2>3. UNCHANGED <<sent, notified, recorded, told, read>>
      BY DEF boxVars, knowVars
    <2>4. \A i \in notified' \cup recorded' : Known(i)'
      BY <2>3 DEF QueueInv, Known
    <2>5. ASSUME NEW s \in Request
          PROVE  /\ requests'[s].status # "absent" => requests'[s].item \in sent'
                 /\ requests'[s].status \in {"notified", "delivered"} => Known(requests[s].item)'
                 /\ requests'[s].status = "delivered" => requests'[s].item \in read'
                 /\ requests'[s].via = "direct" => mode' = "direct"
      <3>1. CASE s = r
        BY <3>1, <2>1, <2>2, <2>3 DEF QueueInv, Known, Status
      <3>2. CASE s # r
        BY <3>2, <2>1, <2>3 DEF QueueInv, Known
      <3>3. QED  BY <3>1, <3>2
    <2>6. ASSUME NEW i \in Item, latest'[i] # 0
          PROVE  requests'[latest'[i]].item = i /\ requests'[latest'[i]].status # "absent"
      <3>1. CASE i = requests[r].item
        BY <3>1, <2>1, <2>2 DEF Status
      <3>2. CASE i # requests[r].item
        <4>1. latest'[i] = latest[i] /\ latest[i] \in Request
          BY <3>2, <2>1, <2>6 DEF TypeOK, Request
        <4>2. requests[latest[i]].item = i /\ requests[latest[i]].status # "absent"
          BY <4>1, <2>6 DEF QueueInv
        <4>3. latest[i] # r  BY <4>2, <3>2
        <4>4. QED  BY <4>1, <4>2, <4>3, <2>1
      <3>3. QED  BY <3>1, <3>2
    <2>7. QED  BY <2>4, <2>5, <2>6 DEF QueueInv
  <1>3. QED  BY <1>1, <1>2

\* What a step of a caller does to the caller.
LEMMA GoFacts ==
  ASSUME CallType, NEW p \in Caller, NEW to \in Points, NEW with \in Calls, Go(p, to, with)
  PROVE  /\ CallType'
         /\ pc'[p] = to /\ call'[p] = with
         /\ todo' = todo /\ telling' = telling
         /\ \A q \in Caller \ {p} : pc'[q] = pc[q] /\ call'[q] = call[q]
  BY DEF Go, CallType

LEMMA CallCalls ==
  ASSUME NEW k \in Kinds, NEW i \in Item \cup {"none"}
  PROVE  Call(k, i) \in Calls
  BY DispatchAssumption DEF Call, Calls, Kinds

LEMMA ReturnFacts ==
  ASSUME CallType, NEW p \in Caller, NEW with, Return(p, with),
         call[p].kind = "poll" /\ with = "ok" => call[p].item \in Mail
  PROVE  /\ CallType'
         /\ pc'[p] \in {"idle", "poll"}
         /\ pc'[p] = "idle" => call'[p] = NoCall
         /\ pc'[p] = "poll" => call'[p] = Call("poll", "none")
         /\ todo'[p] \subseteq todo[p]
         /\ \A i \in telling'[p] :
               i \in telling[p] \/ (call[p].kind = "poll" /\ with = "ok" /\ i = call[p].item)
         /\ answer'[p] = "ok" => with = "ok"
         /\ pc'[p] = "poll" => call[p].kind = "poll"
         /\ \A q \in Caller \ {p} : /\ pc'[q] = pc[q] /\ call'[q] = call[q]
                                    /\ todo'[q] = todo[q] /\ telling'[q] = telling[q]
                                    /\ answer'[q] = answer[q]
  <1> DEFINE polling == call[p].kind = "poll" /\ with # "thrown"
             c == IF polling THEN Call("poll", "none") ELSE NoCall
             k == IF polling THEN "poll" ELSE "idle"
             d == IF polling THEN todo[p] ELSE {}
             t == IF ~polling THEN {} ELSE
                  IF with = "ok" THEN telling[p] \cup {call[p].item} ELSE telling[p]
             a == IF with = "ok" THEN "ok" ELSE "none"
  <1>1. /\ pc' = [pc EXCEPT ![p] = k]
        /\ call' = [call EXCEPT ![p] = c]
        /\ todo' = [todo EXCEPT ![p] = d]
        /\ telling' = [telling EXCEPT ![p] = t]
        /\ answer' = [answer EXCEPT ![p] = a]
    BY DEF Return, CallType
  <1>2. c \in Calls  BY CallCalls DEF NoCall, Kinds
  <1>3. d \subseteq Mail /\ t \subseteq Mail  BY DEF CallType
  <1>4. k \in Points /\ a \in {"none", "ok"}  BY DEF Points
  <1>5. CallType'  BY <1>1, <1>2, <1>3, <1>4 DEF CallType
  <1>6. pc'[p] = k /\ call'[p] = c /\ todo'[p] = d /\ telling'[p] = t /\ answer'[p] = a
    BY <1>1 DEF CallType
  <1>7. \A q \in Caller \ {p} : /\ pc'[q] = pc[q] /\ call'[q] = call[q]
                                /\ todo'[q] = todo[q] /\ telling'[q] = telling[q]
                                /\ answer'[q] = answer[q]
    BY <1>1 DEF CallType
  <1>8. QED  BY <1>5, <1>6, <1>7

\* A caller that a step leaves alone.
LEMMA OthersKeep ==
  ASSUME TypeOK, NEW q \in Caller, CallInv(q), ReadInv(q), Progress, Monotone,
         pc'[q] = pc[q], call'[q] = call[q], todo'[q] = todo[q], telling'[q] = telling[q]
  PROVE  CallInv(q)' /\ ReadInv(q)'
  <1>1. CallInv(q)'  BY DEF CallInv, Monotone, Known
  <1>2. call[q].req \in 0..MaxRequests  BY DEF TypeOK, Calls
  <1>3. ReadInv(q)'
    <2> SUFFICES ASSUME call[q].req # 0
                 PROVE  /\ requests'[call[q].req].item = call[q].item
                        /\ requests'[call[q].req].status # "absent"
                        /\ call[q].receipt \in Done => requests'[call[q].req].status \in Done
                        /\ call[q].seen \in Done => requests'[call[q].req].status \in Done
                        /\ pc[q] = "patch" => requests'[call[q].req].status \in Done
                        /\ pc[q] \in {"queued", "defer"} =>
                              LeftBehind(call[q], requests[call[q].req])'
      BY DEF ReadInv
    <2>1. call[q].req \in Request  BY <1>2 DEF Request
    <2>2. pc[q] \in {"queued", "defer"} => LeftBehind(call[q], requests[call[q].req])'
      BY <2>1 DEF ReadInv, Progress, Monotone, LeftBehind
    <2>3. QED  BY <2>1, <2>2 DEF ReadInv, Progress
  <1>4. QED  BY <1>1, <1>3

\* A caller that returns.
LEMMA ReturnKeeps ==
  ASSUME TypeOK, NEW p \in Caller, CallInv(p), Monotone, NEW with, Return(p, with),
         call[p].kind = "poll" /\ with = "ok" => call[p].item \in Mail /\ Known(call[p].item)
  PROVE  CallInv(p)' /\ ReadInv(p)'
  <1>1. /\ pc'[p] \in {"idle", "poll"}
        /\ pc'[p] = "idle" => call'[p] = NoCall
        /\ pc'[p] = "poll" => call'[p] = Call("poll", "none")
        /\ todo'[p] \subseteq todo[p]
        /\ \A i \in telling'[p] :
               i \in telling[p] \/ (call[p].kind = "poll" /\ with = "ok" /\ i = call[p].item)
    BY ReturnFacts, TypeParts
  <1>2. call'[p].item = "none" /\ call'[p].req = 0 /\ call'[p].seen = "absent"
        /\ call'[p].receipt = "absent" /\ call'[p].kind # "ack"
    BY <1>1 DEF NoCall, Call
  <1>3. pc'[p] = "poll" => call'[p].kind = "poll"
    BY <1>1 DEF Call
  <1>4. \A i \in telling'[p] : Known(i)'
    BY <1>1 DEF CallInv, Known, Monotone
  <1>5. CallInv(p)'
    BY <1>1, <1>2, <1>3, <1>4 DEF CallInv, Monotone
  <1>6. QED  BY <1>2, <1>5 DEF ReadInv

\* What is not disturbed.
LEMMA QueueKeeps ==
  ASSUME QueueInv, UNCHANGED queueVars, Monotone,
         \A i \in notified' \cup recorded' : Known(i)'
  PROVE  QueueInv'
  BY DEF QueueInv, queueVars, Monotone, Known

LEMMA HookKeeps ==
  ASSUME HookInv, UNCHANGED <<requests, lock, hookVars>>, told \subseteq told'
  PROVE  HookInv'
  BY DEF HookInv, hookVars, CopyOK

LEMMA HookKeepsFree ==
  ASSUME HookInv, lock = Free, lock' = lock, UNCHANGED hookVars
  PROVE  HookInv'
  BY DispatchAssumption DEF HookInv, hookVars

LEMMA NoChangeProgress ==
  ASSUME UNCHANGED queueVars
  PROVE  Progress
  BY DEF Progress, queueVars

Others(p) == \A q \in Caller \ {p} : /\ pc'[q] = pc[q] /\ call'[q] = call[q]
                                     /\ todo'[q] = todo[q] /\ telling'[q] = telling[q]

\* A caller that goes on.
LEMMA GoKeeps ==
  ASSUME TypeOK, NEW p \in Caller, CallInv(p), Monotone, NEW to \in Points, NEW c \in Calls,
         Go(p, to, c),
         pc[p] \notin {"idle", "poll"},
         to \notin {"idle", "poll", "enqueue", "ack"},
         c.item = call[p].item, c.kind = call[p].kind,
         c.req \in Request,
         requests'[c.req].item = c.item,
         requests'[c.req].status # "absent",
         c.receipt \in Done => requests'[c.req].status \in Done,
         c.seen \in Done => requests'[c.req].status \in Done,
         to = "patch" => requests'[c.req].status \in Done,
         c.kind = "ack" => /\ to \in {"read", "write", "ackRead", "ackWrite"}
                           /\ c.receipt = "absent",
         to \in {"ackRead", "ackWrite"} => c.kind = "ack",
         to \in {"mark", "read", "write", "patch"} => Known(c.item)',
         to = "mark" => c.item \in Mail,
         to = "write" => c.seen # "absent",
         to = "type" => c.receipt = "absent",
         to \in {"queued", "defer"} => c.kind # "poll" /\ LeftBehind(c, requests[c.req])'
  PROVE  CallInv(p)' /\ ReadInv(p)'
  <1>1. pc'[p] = to /\ call'[p] = c /\ todo' = todo /\ telling' = telling
    BY GoFacts, TypeParts
  <1>2. c.req # 0  BY DEF Request
  <1>3. CallInv(p)'
    BY <1>1, <1>2 DEF CallInv, Monotone, Known
  <1>4. ReadInv(p)'  BY <1>1 DEF ReadInv
  <1>5. QED  BY <1>3, <1>4

\* A step of caller p, put together.
LEMMA CallerStep ==
  ASSUME Inv, NEW p \in Caller, CallType', QueueType', OtherType', UNCHANGED hookVars,
         Progress, Monotone, Others(p), CallInv(p)', ReadInv(p)', QueueInv', HookInv'
  PROVE  Inv'
  <1>1. HookType'  BY TypeParts DEF Inv, HookType, hookVars
  <1>2. TypeOK'
    BY <1>1 DEF TypeOK, QueueType, CallType, HookType, OtherType
  <1>3. ASSUME NEW q \in Caller PROVE CallInv(q)' /\ ReadInv(q)'
    <2>1. CASE q = p  BY <2>1
    <2>2. CASE q # p
      BY <2>2, OthersKeep DEF Inv, Others
    <2>3. QED  BY <2>1, <2>2
  <1>4. QED  BY <1>2, <1>3 DEF Inv

\* A step of caller p that at most tells a recipient.
LEMMA QuietStep ==
  ASSUME Inv, NEW p \in Caller, CallType', Others(p), CallInv(p)', ReadInv(p)',
         UNCHANGED <<boxVars, queueVars, recorded, lock, hot, read, worldVars, hookVars>>,
         told \subseteq told', told' \subseteq Item
  PROVE  Inv'
  <1>1. UNCHANGED <<sent, notified, delivered, requests, latest>>
    BY DEF boxVars, queueVars
  <1>2. QueueType'  BY <1>1, TypeParts DEF Inv, QueueType
  <1>3. OtherType'
    BY <1>1, TypeParts DEF Inv, OtherType, worldVars
  <1>4. Monotone  BY <1>1 DEF Monotone, worldVars
  <1>5. Progress  BY NoChangeProgress
  <1>6. QueueInv'  BY <1>1, <1>4 DEF Inv, QueueInv, Known, Monotone
  <1>7. HookInv'  BY <1>1, HookKeeps DEF Inv
  <1>8. QED  BY <1>2, <1>3, <1>4, <1>5, <1>6, <1>7, CallerStep

\* A step of caller p that moves a request under the lock.
LEMMA MoveStep ==
  ASSUME Inv, NEW p \in Caller, CallType', Others(p), CallInv(p)', ReadInv(p)',
         UNCHANGED <<boxVars, recorded, lock, hot, knowVars, worldVars, hookVars>>,
         NEW r \in Request, NEW from, NEW to \in Status, Transition(r, from, to),
         to = "notified" => Known(requests[r].item),
         to = "delivered" => requests[r].item \in read
  PROVE  Inv'
  <1>1. Progress /\ QueueType'  BY TransitionProgress DEF Inv
  <1>2. UNCHANGED <<sent, notified, delivered, told, read>>
    BY DEF boxVars, knowVars
  <1>3. OtherType'
    BY <1>2, TypeParts DEF Inv, OtherType, worldVars
  <1>4. Monotone  BY <1>2 DEF Monotone, worldVars
  <1>5. QueueInv'  BY TransitionQueue DEF Inv, worldVars
  <1>6. HookInv'
    <2>1. CASE lock = Free  BY <2>1, HookKeepsFree DEF Inv
    <2>2. CASE lock # Free
      BY <2>2, <1>2, HookKeeps DEF Inv, Transition, queueVars
    <2>3. QED  BY <2>1, <2>2
  <1>7. QED  BY <1>1, <1>3, <1>4, <1>5, <1>6, CallerStep

-----------------------------------------------------------------------------
(* The steps of a caller that only read *)

\* A return in a step that changes nothing else.
LEMMA QuietReturn ==
  ASSUME Inv, NEW p \in Caller, NEW with, Return(p, with),
         call[p].kind = "poll" /\ with = "ok" => call[p].item \in Mail /\ Known(call[p].item),
         UNCHANGED <<boxVars, queueVars, recorded, lock, hot, read, worldVars, hookVars>>,
         told \subseteq told', told' \subseteq Item
  PROVE  Inv'
  <1>1. CallType' /\ Others(p)  BY ReturnFacts, TypeParts DEF Inv, Others
  <1>2. Monotone  BY DEF Monotone, worldVars, boxVars
  <1>3. CallInv(p)' /\ ReadInv(p)'  BY <1>2, ReturnKeeps DEF Inv
  <1>4. QED  BY <1>1, <1>3, QuietStep

\* So does one that goes on.
LEMMA QuietGo ==
  ASSUME Inv, NEW p \in Caller, NEW to \in Points, NEW c \in Calls, Go(p, to, c),
         UNCHANGED <<boxVars, queueVars, recorded, lock, hot, read, worldVars, hookVars>>,
         told \subseteq told', told' \subseteq Item,
         CallInv(p)', ReadInv(p)'
  PROVE  Inv'
  <1>1. CallType' /\ Others(p)
    BY GoFacts, TypeParts DEF Inv, Others, CallType
  <1>2. QED  BY <1>1, QuietStep

\* The locals of a call, one of them changed.
LEMMA CallSet ==
  ASSUME NEW c \in Calls
  PROVE  /\ \A r \in 0..MaxRequests :
               /\ [c EXCEPT !.req = r] \in Calls
               /\ [c EXCEPT !.req = r].kind = c.kind /\ [c EXCEPT !.req = r].item = c.item
               /\ [c EXCEPT !.req = r].req = r
               /\ [c EXCEPT !.req = r].seen = c.seen
               /\ [c EXCEPT !.req = r].receipt = c.receipt
         /\ \A s \in Status \cup {"absent"} :
               /\ [c EXCEPT !.seen = s] \in Calls
               /\ [c EXCEPT !.seen = s].kind = c.kind /\ [c EXCEPT !.seen = s].item = c.item
               /\ [c EXCEPT !.seen = s].req = c.req
               /\ [c EXCEPT !.seen = s].seen = s
               /\ [c EXCEPT !.seen = s].receipt = c.receipt
         /\ \A s \in Status \cup {"absent"} :
               /\ [c EXCEPT !.receipt = s] \in Calls
               /\ [c EXCEPT !.receipt = s].kind = c.kind
               /\ [c EXCEPT !.receipt = s].item = c.item
               /\ [c EXCEPT !.receipt = s].req = c.req
               /\ [c EXCEPT !.receipt = s].seen = c.seen
               /\ [c EXCEPT !.receipt = s].receipt = s
  BY DEF Calls, Status

\* What is known of a call that has its request.
LEMMA AtWork ==
  ASSUME Inv, NEW p \in Caller, pc[p] \notin {"idle", "poll", "enqueue", "ack"}
  PROVE  /\ call[p] \in Calls
         /\ call[p].item \in Item /\ call[p].item \in sent
         /\ call[p].req \in Request
         /\ requests[call[p].req] \in KeptRequests
         /\ requests[call[p].req].item = call[p].item
         /\ requests[call[p].req].status \in Status
         /\ call[p].receipt \in Done => requests[call[p].req].status \in Done
         /\ call[p].seen \in Done => requests[call[p].req].status \in Done
         /\ pc[p] = "patch" => requests[call[p].req].status \in Done
  <1>1. call[p] \in Calls  BY DEF Inv, TypeOK
  <1>2. /\ call[p].item # "none" /\ call[p].req # 0 /\ call[p].item \in sent
    BY DEF Inv, CallInv
  <1>3. call[p].item \in Item /\ call[p].req \in Request
    BY <1>1, <1>2, DispatchAssumption DEF Calls, Request
  <1>4. requests[call[p].req] \in KeptRequests  BY <1>3 DEF Inv, TypeOK
  <1>5. ReadInv(p)  BY DEF Inv
  <1>6. requests[call[p].req].status \in Status  BY <1>2, <1>4, <1>5, Kept DEF ReadInv
  <1>7. QED  BY <1>1, <1>2, <1>3, <1>4, <1>5, <1>6 DEF ReadInv

\* Quiet is what the steps that only read or tell leave alone.
Quiet == UNCHANGED <<boxVars, queueVars, recorded, lock, hot, read, worldVars, hookVars>>

LEMMA ToldStep ==
  ASSUME Inv, NEW i \in Item, NEW ok \in BOOLEAN, Tell(i, ok)
  PROVE  told \subseteq told' /\ told' \subseteq Item /\ (ok => i \in told')
  BY DEF Tell, Inv, TypeOK

\* A caller with a request goes on with the same request, and the queue is as it was.
LEMMA WorkGo ==
  ASSUME Inv, NEW p \in Caller, pc[p] \notin {"idle", "poll", "enqueue", "ack"},
         NEW to \in Points, NEW c \in Calls, Go(p, to, c), Quiet,
         told \subseteq told', told' \subseteq Item,
         to \notin {"idle", "poll", "enqueue", "ack"},
         c.item = call[p].item, c.kind = call[p].kind, c.req = call[p].req,
         c.receipt \in Done => requests[c.req].status \in Done,
         c.seen \in Done => requests[c.req].status \in Done,
         to = "patch" => requests[c.req].status \in Done,
         c.kind = "ack" => /\ to \in {"read", "write", "ackRead", "ackWrite"}
                           /\ c.receipt = "absent",
         to \in {"ackRead", "ackWrite"} => c.kind = "ack",
         to \in {"mark", "read", "write", "patch"} => c.item \in told' \cup read,
         to = "mark" => c.item \in Mail,
         to = "write" => c.seen # "absent",
         to \notin {"type", "queued"},
         to = "defer" => c.kind # "poll" /\ LeftBehind(c, requests[c.req])'
  PROVE  Inv'
  <1>1. /\ call[p].req \in Request /\ requests[call[p].req].item = call[p].item
        /\ requests[call[p].req].status \in Status
    BY AtWork
  <1>2. requests' = requests /\ Monotone /\ read' = read
    BY DEF Quiet, queueVars, boxVars, Monotone, worldVars
  <1>3. TypeOK /\ CallInv(p)  BY DEF Inv
  <1>4. to \in {"mark", "read", "write", "patch"} => Known(c.item)'
    BY <1>2 DEF Known
  <1>5. requests[c.req].status # "absent"  BY <1>1 DEF Status
  <1>6. CallInv(p)' /\ ReadInv(p)'
    BY <1>1, <1>2, <1>3, <1>4, <1>5, GoKeeps
  <1>7. QED  BY <1>6, QuietGo DEF Quiet

LEMMA TypeKeeps ==
  ASSUME Inv, NEW p \in Caller, Type(p)
  PROVE  Inv'
  <1> DEFINE c == call[p]
  <1>1. pc[p] = "type" /\ Quiet  BY DEF Type, Quiet
  <1>2. c \in Calls /\ c.item \in Item  BY <1>1, AtWork
  <1>3. PICK ok \in BOOLEAN :
          /\ Tell(c.item, ok)
          /\ \/ ok /\ c.item \in ForLeader /\ ~leaderPane /\ Go(p, "defer", c)
             \/ ok /\ (c.item \in ForLeader => leaderPane) /\ Go(p, AfterTelling(c.item), c)
             \/ ~ok /\ c.kind = "poll" /\ Return(p, "failed")
             \/ ~ok /\ c.kind # "poll" /\ Go(p, "failRead", c)
    BY DEF Type
  <1>4. told \subseteq told' /\ told' \subseteq Item /\ (ok => c.item \in told')
    BY <1>2, <1>3, ToldStep
  <1>5. c.kind # "ack"  BY <1>1 DEF Inv, CallInv
  <1>6. c.receipt \in Done => requests[c.req].status \in Done
    BY <1>1, AtWork
  <1>7. c.seen \in Done => requests[c.req].status \in Done
    BY <1>1, AtWork
  <1>8. CASE Return(p, "failed")
    BY <1>1, <1>4, <1>8, QuietReturn DEF Quiet
  <1>9. CASE ok /\ c.item \in ForLeader /\ ~leaderPane /\ Go(p, "defer", c)
    <2>1. "defer" \in Points  BY DEF Points
    <2>2. PICK d \in Calls : d = c  BY <1>2
    <2>3. c.receipt = "absent" /\ c.kind # "poll"
      BY <1>1, <1>9, DispatchAssumption DEF Inv, CallInv
    <2>4. requests'[d.req].via \in {"hook", "direct"} /\ leaderPane' = leaderPane
      BY <1>1, <2>2, AtWork, Kept DEF Quiet, queueVars, worldVars, Status
    <2>5. LeftBehind(d, requests[d.req])'
      BY <1>4, <1>9, <2>2, <2>3, <2>4 DEF LeftBehind
    <2>6. QED  BY <1>1, <1>4, <1>5, <1>6, <1>7, <1>9, <2>1, <2>2, <2>3, <2>5, WorkGo
  <1>10. CASE Go(p, "failRead", c)
    <2>1. "failRead" \in Points  BY DEF Points
    <2>2. QED  BY <1>1, <1>2, <1>4, <1>5, <1>6, <1>7, <1>10, <2>1, WorkGo
  <1>11. CASE ok /\ Go(p, AfterTelling(c.item), c)
    <2>1. /\ AfterTelling(c.item) \in Points
          /\ AfterTelling(c.item) \in {"mark", "read"}
          /\ AfterTelling(c.item) = "mark" => c.item \in Mail
      BY DEF Points, AfterTelling
    <2>2. QED  BY <1>1, <1>2, <1>4, <1>5, <1>6, <1>7, <1>11, <2>1, WorkGo
  <1>12. QED  BY <1>3, <1>8, <1>9, <1>10, <1>11

LEMMA ReceiptKeeps ==
  ASSUME Inv, NEW p \in Caller, Receipt(p)
  PROVE  Inv'
  <1> DEFINE got == requests[call[p].req].status
             c == [call[p] EXCEPT !.receipt = got]
  <1>1. pc[p] = "wait" /\ Quiet /\ UNCHANGED told
    BY DEF Receipt, Quiet, knowVars
  <1>2. /\ call[p] \in Calls /\ got \in Status /\ call[p].req \in Request
        /\ call[p].item \in Item
        /\ requests[call[p].req].item = call[p].item
        /\ call[p].seen \in Done => got \in Done
    BY <1>1, AtWork
  <1>3. /\ c \in Calls /\ c.kind = call[p].kind /\ c.item = call[p].item
        /\ c.req = call[p].req /\ c.seen = call[p].seen /\ c.receipt = got
    BY <1>2, CallSet
  <1>4. told \subseteq told' /\ told' \subseteq Item
    BY <1>1 DEF Inv, TypeOK
  <1>5. /\ c.receipt \in Done => requests[c.req].status \in Done
        /\ c.seen \in Done => requests[c.req].status \in Done
    BY <1>2, <1>3
  <1>10. call[p].kind # "ack"  BY <1>1 DEF Inv, CallInv
  <1>6. CASE got \in {"notified", "delivered"} /\ c.item \in Mail /\ Go(p, "mark", c)
    <2>1. "mark" \in Points  BY DEF Points
    <2>2. Known(call[p].item)  BY <1>2, <1>6 DEF Inv, QueueInv
    <2>3. QED
      BY <1>1, <1>3, <1>4, <1>5, <1>6, <1>10, <2>1, <2>2, WorkGo DEF Known
  <1>7. CASE c.item \in Inbox /\ Return(p, "ok")
    <2>1. call[p].kind # "poll"
      BY <1>3, <1>7, <1>2, DispatchAssumption DEF Inv, CallInv
    <2>2. QED  BY <1>1, <1>4, <1>7, <2>1, QuietReturn DEF Quiet
  <1>8. CASE Go(p, "fallback", c)
    <2>1. "fallback" \in Points  BY DEF Points
    <2>2. QED  BY <1>1, <1>3, <1>4, <1>5, <1>8, <1>10, <2>1, WorkGo
  <1>9. QED  BY <1>6, <1>7, <1>8 DEF Receipt

LEMMA FallbackKeeps ==
  ASSUME Inv, NEW p \in Caller, Fallback(p)
  PROVE  Inv'
  <1> DEFINE c == call[p]
             f == [c EXCEPT !.seen = "failed"]
  <1>1. pc[p] = "fallback" /\ Quiet  BY DEF Fallback, Quiet
  <1>2. /\ c \in Calls /\ c.item \in Item
        /\ c.receipt \in Done => requests[c.req].status \in Done
        /\ c.seen \in Done => requests[c.req].status \in Done
    BY <1>1, AtWork
  <1>3. PICK ok \in BOOLEAN :
          /\ Tell(c.item, ok)
          /\ \/ ok /\ Go(p, AfterTelling(c.item), c)
             \/ ~ok /\ c.receipt = "failed" /\ Go(p, "failWrite", f)
             \/ ~ok /\ c.receipt # "failed" /\ Go(p, "failRead", c)
    BY DEF Fallback
  <1>4. told \subseteq told' /\ told' \subseteq Item /\ (ok => c.item \in told')
    BY <1>2, <1>3, ToldStep
  <1>5. c.kind # "ack"  BY <1>1 DEF Inv, CallInv
  <1>6. CASE ok /\ Go(p, AfterTelling(c.item), c)
    <2>1. /\ AfterTelling(c.item) \in Points
          /\ AfterTelling(c.item) \in {"mark", "read"}
          /\ AfterTelling(c.item) = "mark" => c.item \in Mail
      BY DEF Points, AfterTelling
    <2>2. QED  BY <1>1, <1>2, <1>4, <1>5, <1>6, <2>1, WorkGo
  <1>7. CASE c.receipt = "failed" /\ Go(p, "failWrite", f)
    <2>1. "failWrite" \in Points /\ "failed" \in Status \cup {"absent"} /\ "failed" \in Done
      BY DEF Points, Status, Done
    <2>2. /\ f \in Calls /\ f.kind = c.kind /\ f.item = c.item /\ f.req = c.req
          /\ f.seen = "failed" /\ f.receipt = c.receipt
      BY <1>2, <2>1, CallSet
    <2>3. requests[c.req].status \in Done  BY <1>2, <1>7, <2>1
    <2>4. QED  BY <1>1, <1>4, <1>5, <1>7, <2>1, <2>2, <2>3, WorkGo
  <1>8. CASE Go(p, "failRead", c)
    <2>1. "failRead" \in Points  BY DEF Points
    <2>2. QED  BY <1>1, <1>2, <1>4, <1>5, <1>8, <2>1, WorkGo
  <1>9. QED  BY <1>3, <1>6, <1>7, <1>8

\* The mark of a request is made, or found, for a caller that has told its recipient.
LEMMA MarkReadKeeps ==
  ASSUME Inv, NEW p \in Caller, MarkRead(p)
  PROVE  Inv'
  <1> DEFINE now == requests[call[p].req].status
             c == [call[p] EXCEPT !.seen = now]
  <1>1. pc[p] = "read" /\ Quiet /\ told' = told
    BY DEF MarkRead, Quiet, knowVars
  <1>2. /\ call[p] \in Calls /\ now \in Status
        /\ call[p].receipt \in Done => now \in Done
        /\ call[p].seen \in Done => now \in Done
        /\ call[p].item \in Item
    BY <1>1, AtWork
  <1>3. /\ c \in Calls /\ c.kind = call[p].kind /\ c.item = call[p].item
        /\ c.req = call[p].req /\ c.seen = now /\ c.receipt = call[p].receipt
    BY <1>2, CallSet
  <1>4. told \subseteq told' /\ told' \subseteq Item  BY <1>1 DEF Inv, TypeOK
  <1>5. /\ Known(call[p].item)
        /\ call[p].kind = "ack" => call[p].receipt = "absent"
    BY <1>1 DEF Inv, CallInv
  <1>6. call[p].kind = "poll" => call[p].item \in Mail
    BY <1>1, <1>2, DispatchAssumption DEF Inv, CallInv
  <1>7. CASE Return(p, "ok")
    BY <1>1, <1>4, <1>5, <1>6, <1>7, QuietReturn DEF Quiet
  <1>8. CASE call[p].kind = "ack" /\ Go(p, "ackRead", call[p])
    <2>1. "ackRead" \in Points  BY DEF Points
    <2>2. QED  BY <1>1, <1>2, <1>4, <1>5, <1>8, <2>1, WorkGo
  <1>9. CASE Go(p, "write", c)
    <2>1. "write" \in Points  BY DEF Points
    <2>2. call[p].item \in told' \cup read  BY <1>1, <1>5 DEF Known
    <2>3. c.seen # "absent"  BY <1>2, <1>3 DEF Status
    <2>4. QED  BY <1>1, <1>2, <1>3, <1>4, <1>5, <1>9, <2>1, <2>2, <2>3, WorkGo
  <1>10. QED  BY <1>7, <1>8, <1>9 DEF MarkRead, Marked

LEMMA FailReadKeeps ==
  ASSUME Inv, NEW p \in Caller, FailRead(p)
  PROVE  Inv'
  <1> DEFINE now == requests[call[p].req].status
             c == [call[p] EXCEPT !.seen = now]
  <1>1. pc[p] = "failRead" /\ Quiet /\ told' = told
    BY DEF FailRead, Quiet, knowVars
  <1>2. /\ call[p] \in Calls /\ now \in Status
        /\ call[p].receipt \in Done => now \in Done
    BY <1>1, AtWork
  <1>3. /\ c \in Calls /\ c.kind = call[p].kind /\ c.item = call[p].item
        /\ c.req = call[p].req /\ c.seen = now /\ c.receipt = call[p].receipt
    BY <1>2, CallSet
  <1>4. told \subseteq told' /\ told' \subseteq Item  BY <1>1 DEF Inv, TypeOK
  <1>5. call[p].kind # "ack"  BY <1>1 DEF Inv, CallInv
  <1>6. CASE Return(p, "failed")
    BY <1>1, <1>4, <1>6, QuietReturn DEF Quiet
  <1>7. CASE Go(p, "failWrite", c)
    <2>1. "failWrite" \in Points  BY DEF Points
    <2>2. QED  BY <1>1, <1>2, <1>3, <1>4, <1>5, <1>7, <2>1, WorkGo
  <1>8. QED  BY <1>6, <1>7 DEF FailRead

LEMMA AckReadKeeps ==
  ASSUME Inv, NEW p \in Caller, AckRead(p)
  PROVE  Inv'
  <1> DEFINE now == requests[call[p].req].status
             c == [call[p] EXCEPT !.seen = now]
  <1>1. pc[p] = "ackRead" /\ Quiet /\ told' = told
    BY DEF AckRead, Quiet, knowVars
  <1>2. /\ call[p] \in Calls /\ now \in Status
        /\ call[p].receipt \in Done => now \in Done
    BY <1>1, AtWork
  <1>3. /\ c \in Calls /\ c.kind = call[p].kind /\ c.item = call[p].item
        /\ c.req = call[p].req /\ c.seen = now /\ c.receipt = call[p].receipt
    BY <1>2, CallSet
  <1>4. told \subseteq told' /\ told' \subseteq Item  BY <1>1 DEF Inv, TypeOK
  <1>5. call[p].kind = "ack" /\ call[p].receipt = "absent"
    BY <1>1 DEF Inv, CallInv
  <1>6. CASE Return(p, "ok")
    BY <1>1, <1>4, <1>5, <1>6, QuietReturn DEF Quiet
  <1>7. CASE Go(p, "ackWrite", c)
    <2>1. "ackWrite" \in Points  BY DEF Points
    <2>2. QED  BY <1>1, <1>2, <1>3, <1>4, <1>5, <1>7, <2>1, WorkGo
  <1>8. QED  BY <1>6, <1>7 DEF AckRead

LEMMA AckFindKeeps ==
  ASSUME Inv, NEW p \in Caller, AckFind(p)
  PROVE  Inv'
  <1> DEFINE r == latest[call[p].item]
  <1>1. pc[p] = "ack" /\ Quiet /\ told' = told
    BY DEF AckFind, Quiet, knowVars
  <1>2. /\ call[p] \in Calls /\ CallInv(p) /\ call[p].kind = "ack"
        /\ call[p].seen = "absent" /\ call[p].receipt = "absent"
        /\ call[p].item # "none" /\ call[p].item \in read
    BY <1>1 DEF Inv, CallInv, TypeOK
  <1>3. call[p].item \in Item /\ r \in 0..MaxRequests
    BY <1>2 DEF Calls, Inv, TypeOK
  <1>0. PICK c \in Calls : c = [call[p] EXCEPT !.req = r]
    BY <1>2, <1>3, CallSet
  <1>4. /\ c.kind = "ack" /\ c.item = call[p].item
        /\ c.req = r /\ c.seen = "absent" /\ c.receipt = "absent"
    BY <1>0, <1>2, <1>3, CallSet
  <1>5. told \subseteq told' /\ told' \subseteq Item  BY <1>1 DEF Inv, TypeOK
  <1>6. CASE Return(p, "ok")
    BY <1>1, <1>2, <1>5, <1>6, QuietReturn DEF Quiet
  <1>7. CASE r # 0 /\ Go(p, IF requests[r].status = "pending" THEN "read" ELSE "ackRead", c)
    <2> DEFINE to == IF requests[r].status = "pending" THEN "read" ELSE "ackRead"
    <2>1. to \in Points /\ to \in {"read", "ackRead"}  BY DEF Points
    <2>2. r \in Request /\ requests[r].item = call[p].item /\ requests[r].status # "absent"
      BY <1>3, <1>7 DEF Inv, QueueInv, Request
    <2>3. UNCHANGED requests /\ Monotone
      BY <1>1 DEF Quiet, queueVars, Monotone, boxVars, worldVars
    <2>4. "absent" \notin Done  BY DEF Done
    <2>5. Known(c.item)'  BY <1>1, <1>2, <1>4 DEF Known, Quiet
    <2> HIDE DEF to
    <2>6. CallInv(p)' /\ ReadInv(p)'
      BY <1>1, <1>2, <1>4, <1>7, <2>1, <2>2, <2>3, <2>4, <2>5, GoKeeps DEF Inv, to
    <2>7. QED  BY <1>1, <1>4, <1>5, <1>7, <2>1, <2>6, QuietGo DEF Quiet, to
  <1>8. QED  BY <1>0, <1>4, <1>6, <1>7 DEF AckFind

-----------------------------------------------------------------------------
(* The steps of a caller that write the queue or a mailbox *)

\* Under is what these steps leave alone.
Under == UNCHANGED <<boxVars, recorded, lock, hot, knowVars, worldVars, hookVars>>

LEMMA UnderMonotone == Under => Monotone
  BY DEF Under, Monotone, boxVars, knowVars, worldVars

\* A caller moves its request and returns.
LEMMA MoveReturn ==
  ASSUME Inv, NEW p \in Caller, pc[p] \notin {"idle", "poll", "enqueue", "ack"}, Under,
         NEW from, NEW to \in Status, Transition(call[p].req, from, to),
         to = "notified" => Known(call[p].item),
         to = "delivered" => call[p].item \in read,
         NEW with, Return(p, with),
         call[p].kind = "poll" /\ with = "ok" => Known(call[p].item)
  PROVE  Inv'
  <1>1. /\ call[p].req \in Request /\ call[p].item \in Item
        /\ requests[call[p].req].item = call[p].item
    BY AtWork
  <1>2. call[p].kind = "poll" => call[p].item \in Mail
    BY <1>1, DispatchAssumption DEF Inv, CallInv
  <1>3. CallType' /\ Others(p)  BY <1>2, ReturnFacts, TypeParts DEF Inv, Others
  <1>4. Monotone  BY UnderMonotone
  <1>5. CallInv(p)' /\ ReadInv(p)'  BY <1>2, <1>4, ReturnKeeps DEF Inv
  <1>6. QED  BY <1>1, <1>3, <1>5, MoveStep DEF Under

\* A caller moves its request and goes on with it.
LEMMA MoveGo ==
  ASSUME Inv, NEW p \in Caller, pc[p] \notin {"idle", "poll", "enqueue", "ack"}, Under,
         NEW from, NEW to \in Status, Transition(call[p].req, from, to),
         to = "notified" => Known(call[p].item),
         to = "delivered" => call[p].item \in read,
         NEW at \in {"patch", "ackRead"}, Go(p, at, call[p]),
         at = "patch" => /\ requests[call[p].req].status \in Done
                         /\ Known(call[p].item)
                         /\ call[p].kind # "ack",
         at = "ackRead" => call[p].kind = "ack"
  PROVE  Inv'
  <1>1. /\ call[p] \in Calls
        /\ call[p].req \in Request /\ call[p].item \in Item
        /\ requests[call[p].req].item = call[p].item
        /\ requests[call[p].req].status # "absent"
        /\ call[p].receipt \in Done => requests[call[p].req].status \in Done
        /\ call[p].seen \in Done => requests[call[p].req].status \in Done
    BY AtWork DEF Status
  <1>2. at \in Points  BY DEF Points
  <1>3. CallType' /\ Others(p)
    BY <1>1, <1>2, GoFacts, TypeParts DEF Inv, Others
  <1>4. Monotone /\ UNCHANGED <<told, read>>  BY UnderMonotone DEF Under, knowVars
  <1>5. Progress  BY <1>1, TransitionProgress DEF Inv
  <1>6. PICK c \in Calls : c = call[p]  BY <1>1
  <1>7. /\ requests'[c.req].item = c.item /\ requests'[c.req].status # "absent"
        /\ c.receipt \in Done => requests'[c.req].status \in Done
        /\ c.seen \in Done => requests'[c.req].status \in Done
        /\ at = "patch" => requests'[c.req].status \in Done
    BY <1>1, <1>5, <1>6 DEF Progress
  <1>8. at = "patch" => Known(c.item)'  BY <1>4, <1>6 DEF Known
  <1>9. c.kind = "ack" => c.receipt = "absent"
    BY <1>6 DEF Inv, CallInv
  <1>10. CallInv(p)' /\ ReadInv(p)'
    BY <1>1, <1>2, <1>4, <1>6, <1>7, <1>8, <1>9, GoKeeps DEF Inv
  <1>11. QED  BY <1>1, <1>3, <1>10, MoveStep DEF Under

LEMMA MarkWriteKeeps ==
  ASSUME Inv, NEW p \in Caller, MarkWrite(p)
  PROVE  Inv'
  <1> DEFINE c == call[p]
  <1>1. pc[p] = "write" /\ Under /\ Transition(c.req, c.seen, "notified")
    BY DEF MarkWrite, Under
  <1>2. "notified" \in Status /\ "notified" # "delivered"  BY DEF Status
  <1>3. Known(c.item)  BY <1>1 DEF Inv, CallInv
  <1>4. ASSUME NEW with, Return(p, with) PROVE Inv'
    BY <1>1, <1>2, <1>3, <1>4, MoveReturn
  <1>5. CASE Go(p, "ackRead", c) /\ c.kind = "ack"
    BY <1>1, <1>2, <1>3, <1>5, MoveGo
  <1>6. CASE /\ ~Accepted(c.req, c.seen, "notified")
             /\ c.receipt \in {"pending", "notified"}
             /\ Go(p, "patch", c)
    <2>1. c.kind # "ack"  BY <1>6 DEF Inv, CallInv
    <2>2. requests[c.req].status \in Status /\ (c.seen \in Done => requests[c.req].status \in Done)
          /\ c \in Calls /\ c.seen # "absent"
      BY <1>1, AtWork DEF Inv, CallInv
    <2>3. requests[c.req].status \in Done
      BY <1>6, <2>2 DEF Calls, Accepted, CanTransition, Status, Done
    <2>4. QED  BY <1>1, <1>2, <1>3, <1>6, <2>1, <2>3, MoveGo
  <1>7. QED  BY <1>4, <1>5, <1>6 DEF MarkWrite, Marked

LEMMA PatchKeeps ==
  ASSUME Inv, NEW p \in Caller, Patch(p) PROVE Inv'
  <1>1. pc[p] = "patch" /\ Under /\ Transition(call[p].req, "failed", "failed") /\ Return(p, "ok")
    BY DEF Patch, Under
  <1>2. Known(call[p].item)  BY <1>1 DEF Inv, CallInv
  <1>3. QED  BY <1>1, <1>2, MoveReturn DEF Status

LEMMA FailWriteKeeps ==
  ASSUME Inv, NEW p \in Caller, FailWrite(p) PROVE Inv'
  <1>1. /\ pc[p] = "failWrite" /\ Under /\ Transition(call[p].req, call[p].seen, "failed")
        /\ Return(p, "failed")
    BY DEF FailWrite, Under
  <1>2. QED  BY <1>1, MoveReturn DEF Status

LEMMA AckWriteKeeps ==
  ASSUME Inv, NEW p \in Caller, AckWrite(p) PROVE Inv'
  <1>1. /\ pc[p] = "ackWrite" /\ Under /\ Transition(call[p].req, call[p].seen, "delivered")
        /\ Return(p, IF lock = Free THEN "ok" ELSE "thrown")
    BY DEF AckWrite, Under
  <1>2. call[p].kind = "ack" /\ call[p].item \in read  BY <1>1 DEF Inv, CallInv
  <1>3. "delivered" \in Status /\ "delivered" # "notified"  BY DEF Status
  <1>4. QED  BY <1>1, <1>2, <1>3, MoveReturn

LEMMA DeferKeeps ==
  ASSUME Inv, NEW p \in Caller, Defer(p) PROVE Inv'
  <1>1. pc[p] = "defer" /\ Under /\ Return(p, "ok")
    BY DEF Defer, Under
  <1>0. call[p].kind # "poll"  BY <1>1 DEF Inv, CallInv
  <1>2. CASE Transition(call[p].req, "pending", "pending")
    BY <1>0, <1>1, <1>2, MoveReturn DEF Status
  <1>3. CASE UNCHANGED queueVars
    <2>1. /\ UNCHANGED <<boxVars, queueVars, recorded, lock, hot, read, worldVars, hookVars>>
          /\ told \subseteq told' /\ told' \subseteq Item
      BY <1>1, <1>3 DEF Under, knowVars, Inv, TypeOK
    <2>2. QED  BY <1>0, <1>1, <2>1, QuietReturn
  <1>4. QED  BY <1>2, <1>3 DEF Defer

LEMMA LeaveToHookKeeps ==
  ASSUME Inv, NEW p \in Caller, LeaveToHook(p) PROVE Inv'
  <1>1. pc[p] = "queued" /\ Return(p, "ok") /\ Quiet /\ told' = told
    BY DEF LeaveToHook, Quiet, knowVars
  <1>2. call[p].kind # "poll"  BY <1>1 DEF Inv, CallInv
  <1>3. told \subseteq told' /\ told' \subseteq Item  BY <1>1 DEF Inv, TypeOK
  <1>4. QED  BY <1>1, <1>2, <1>3, QuietReturn DEF Quiet

\* markMessageNotified: the message is known to its recipient.
LEMMA MarkMailKeeps ==
  ASSUME Inv, NEW p \in Caller, MarkMail(p) PROVE Inv'
  <1> DEFINE i == call[p].item
  <1>1. /\ pc[p] = "mark"
        /\ notified' = notified \cup {i}
        /\ UNCHANGED <<sent, delivered, queueVars, recorded, lock, hot, knowVars, worldVars, hookVars>>
    BY DEF MarkMail
  <1>2. Known(i) /\ i \in Mail /\ call[p].kind # "ack"
    BY <1>1 DEF Inv, CallInv
  <1>3. UNCHANGED <<requests, latest, told, read>>  BY <1>1 DEF queueVars, knowVars
  <1>4. Monotone  BY <1>1, <1>3 DEF Monotone, worldVars
  <1>5. QueueType'  BY <1>3, TypeParts DEF Inv, QueueType
  <1>6. OtherType'  BY <1>1, <1>2, <1>3, TypeParts DEF Inv, OtherType, worldVars
  <1>7. Progress  BY <1>1, NoChangeProgress
  <1>8. QueueInv'
    <2>1. \A j \in notified' \cup recorded' : Known(j)'
      BY <1>1, <1>2, <1>3 DEF Inv, QueueInv, Known
    <2>2. QED  BY <1>1, <1>4, <2>1, QueueKeeps DEF Inv
  <1>9. HookInv'  BY <1>1, <1>3, HookKeeps DEF Inv
  <1>10. UNCHANGED hookVars  BY <1>1
  <1>11. CASE Return(p, "ok")
    <2>1. CallType' /\ Others(p)
      BY <1>2, <1>11, ReturnFacts, TypeParts DEF Inv, Others
    <2>2. CallInv(p)' /\ ReadInv(p)'  BY <1>2, <1>4, <1>11, ReturnKeeps DEF Inv
    <2>3. QED
      BY <1>4, <1>5, <1>6, <1>7, <1>8, <1>9, <1>10, <2>1, <2>2, CallerStep
  <1>12. CASE Go(p, "read", call[p])
    <2>1. "read" \in Points  BY DEF Points
    <2>2. /\ call[p] \in Calls /\ call[p].req \in Request
          /\ requests[call[p].req].item = i /\ requests[call[p].req].status # "absent"
          /\ call[p].receipt \in Done => requests[call[p].req].status \in Done
          /\ call[p].seen \in Done => requests[call[p].req].status \in Done
      BY <1>1, AtWork DEF Status
    <2>3. CallType' /\ Others(p)
      BY <1>12, <2>1, <2>2, GoFacts, TypeParts DEF Inv, Others
    <2>4. PICK c \in Calls : c = call[p]  BY <2>2
    <2>5. Known(c.item)'  BY <1>2, <1>3, <2>4 DEF Known
    <2>6. CallInv(p)' /\ ReadInv(p)'
      BY <1>1, <1>2, <1>3, <1>4, <1>12, <2>1, <2>2, <2>4, <2>5, GoKeeps DEF Inv
    <2>7. QED
      BY <1>4, <1>5, <1>6, <1>7, <1>8, <1>9, <1>10, <2>3, <2>6, CallerStep
  <1>13. QED  BY <1>11, <1>12 DEF MarkMail

-----------------------------------------------------------------------------
(* The beginning of calls, and polls *)

LEMMA BeginFacts ==
  ASSUME CallType, NEW p \in Caller, NEW k \in Kinds, NEW i \in Item \cup {"none"},
         NEW to \in Points, Begin(p, k, i, to),
         todo' \in [Caller -> SUBSET Mail], telling' \in [Caller -> SUBSET Mail]
  PROVE  /\ CallType'
         /\ pc[p] = "idle" /\ pc'[p] = to
         /\ call'[p] = IF to = "idle" THEN NoCall ELSE Call(k, i)
         /\ \A q \in Caller \ {p} : pc'[q] = pc[q] /\ call'[q] = call[q]
  <1>1. Call(k, i) \in Calls /\ NoCall \in Calls  BY CallCalls DEF NoCall, Kinds
  <1>2. QED  BY <1>1 DEF Begin, CallType

LEMMA BeginKeeps ==
  ASSUME Inv, NEW p \in Caller, NEW k \in Kinds, NEW i \in Item \cup {"none"},
         NEW to \in {"idle", "poll", "enqueue", "ack"}, Begin(p, k, i, to),
         todo' \in [Caller -> SUBSET Mail], telling' \in [Caller -> SUBSET Mail],
         Monotone,
         i # "none" => i \in sent',
         to \in {"enqueue", "ack"} => i # "none",
         to = "poll" => k = "poll",
         to = "ack" => k = "ack",
         k = "poll" => i = "none",
         k = "ack" => i \in read' /\ to = "ack",
         todo'[p] \subseteq sent' \ ForLeader,
         \A j \in telling'[p] : Known(j)'
  PROVE  CallInv(p)' /\ ReadInv(p)'
  <1>1. to \in Points  BY DEF Points
  <1>2. /\ pc'[p] = to
        /\ call'[p] = IF to = "idle" THEN NoCall ELSE Call(k, i)
    BY <1>1, BeginFacts, TypeParts DEF Inv
  <1>3. /\ call'[p].req = 0 /\ call'[p].seen = "absent" /\ call'[p].receipt = "absent"
        /\ call'[p].item = IF to = "idle" THEN "none" ELSE i
        /\ call'[p].kind = IF to = "idle" THEN "none" ELSE k
    BY <1>2 DEF NoCall, Call
  <1>4. CallInv(p)'  BY <1>2, <1>3 DEF CallInv
  <1>5. QED  BY <1>3, <1>4 DEF ReadInv

\* A step of caller p that writes an item, or reads one.
LEMMA StartStep ==
  ASSUME Inv, NEW p \in Caller, CallType', Others(p), CallInv(p)', ReadInv(p)',
         UNCHANGED <<notified, queueVars, lock, hot, told, worldVars, hookVars>>,
         sent \subseteq sent', sent' \subseteq Item,
         read \subseteq read', read' \subseteq Mail, delivered' \subseteq Mail,
         recorded' \subseteq Mail, \A i \in recorded' : Known(i)
  PROVE  Inv'
  <1>1. UNCHANGED <<requests, latest>>  BY DEF queueVars
  <1>2. QueueType'  BY <1>1, TypeParts DEF Inv, QueueType
  <1>3. OtherType'  BY TypeParts DEF Inv, OtherType, worldVars
  <1>4. Monotone  BY DEF Monotone, worldVars
  <1>5. Progress  BY NoChangeProgress
  <1>6. \A i \in notified' \cup recorded' : Known(i)'  BY DEF Inv, QueueInv, Known
  <1>7. QueueInv'  BY <1>4, <1>6, QueueKeeps DEF Inv
  <1>8. HookInv'  BY <1>1, HookKeeps DEF Inv
  <1>9. QED  BY <1>2, <1>3, <1>4, <1>5, <1>7, <1>8, CallerStep

\* Tables of a caller that did not change.
LEMMA TablesKept ==
  ASSUME Inv, NEW p \in Caller, UNCHANGED <<todo, telling>>, Monotone
  PROVE  /\ todo' \in [Caller -> SUBSET Mail] /\ telling' \in [Caller -> SUBSET Mail]
         /\ todo'[p] \subseteq sent' \ ForLeader
         /\ \A j \in telling'[p] : Known(j)'
  BY DEF Inv, TypeOK, CallInv, Monotone, Known

LEMMA SendKeeps ==
  ASSUME Inv, NEW p \in Caller, NEW k \in {"send", "post"}, NEW i \in Mail, Send(p, k, i)
  PROVE  Inv'
  <1> DEFINE to == IF i \in notified THEN "idle" ELSE "enqueue"
  <1>1. /\ Begin(p, k, i, to) /\ sent' = sent \cup {i}
        /\ UNCHANGED <<notified, delivered, queueVars, recorded, lock, hot, knowVars, worldVars,
                       todo, telling, hookVars>>
    BY DEF Send
  <1>2. /\ k \in Kinds /\ i \in Item \cup {"none"} /\ i # "none" /\ to \in Points
        /\ to \in {"idle", "enqueue"} /\ k # "poll" /\ k # "ack"
    BY DispatchAssumption DEF Kinds, Item, Points
  <1>3. UNCHANGED <<told, read>>  BY <1>1 DEF knowVars
  <1>4. Monotone  BY <1>1, <1>3 DEF Monotone, worldVars
  <1>5. /\ todo' \in [Caller -> SUBSET Mail] /\ telling' \in [Caller -> SUBSET Mail]
        /\ todo'[p] \subseteq sent' \ ForLeader /\ \A j \in telling'[p] : Known(j)'
    BY <1>1, <1>4, TablesKept
  <1>6. CallType' /\ Others(p)
    BY <1>1, <1>2, <1>5, BeginFacts, TypeParts DEF Inv, Others
  <1>7. i \in sent'  BY <1>1
  <1>8. CallInv(p)' /\ ReadInv(p)'
    BY <1>1, <1>2, <1>4, <1>5, <1>7, BeginKeeps
  <1>9. /\ sent \subseteq sent' /\ sent' \subseteq Item /\ read' \subseteq Mail
        /\ delivered' \subseteq Mail /\ recorded' \subseteq Mail
        /\ \A j \in recorded' : Known(j)
    BY <1>1, <1>3 DEF Inv, TypeOK, Item, QueueInv
  <1>10. QED  BY <1>1, <1>3, <1>6, <1>8, <1>9, StartStep

LEMMA InstructKeeps ==
  ASSUME Inv, NEW p \in Caller, NEW i \in Inbox, Instruct(p, i)
  PROVE  Inv'
  <1>1. /\ Begin(p, "instruct", i, "enqueue") /\ sent' = sent \cup {i}
        /\ UNCHANGED <<notified, delivered, queueVars, recorded, lock, hot, knowVars, worldVars,
                       todo, telling, hookVars>>
    BY DEF Instruct
  <1>2. /\ "instruct" \in Kinds /\ i \in Item \cup {"none"} /\ i # "none" /\ "enqueue" \in Points
    BY DispatchAssumption DEF Kinds, Item, Points
  <1>3. UNCHANGED <<told, read>>  BY <1>1 DEF knowVars
  <1>4. Monotone  BY <1>1, <1>3 DEF Monotone, worldVars
  <1>5. /\ todo' \in [Caller -> SUBSET Mail] /\ telling' \in [Caller -> SUBSET Mail]
        /\ todo'[p] \subseteq sent' \ ForLeader /\ \A j \in telling'[p] : Known(j)'
    BY <1>1, <1>4, TablesKept
  <1>6. CallType' /\ Others(p)
    BY <1>1, <1>2, <1>5, BeginFacts, TypeParts DEF Inv, Others
  <1>7. i \in sent'  BY <1>1
  <1>8. CallInv(p)' /\ ReadInv(p)'
    BY <1>1, <1>2, <1>4, <1>5, <1>7, BeginKeeps
  <1>9. /\ sent \subseteq sent' /\ sent' \subseteq Item /\ read' \subseteq Mail
        /\ delivered' \subseteq Mail /\ recorded' \subseteq Mail
        /\ \A j \in recorded' : Known(j)
    BY <1>1, <1>3 DEF Inv, TypeOK, Item, QueueInv
  <1>10. QED  BY <1>1, <1>3, <1>6, <1>8, <1>9, StartStep

LEMMA AckKeeps ==
  ASSUME Inv, NEW p \in Caller, NEW i \in Mail, Ack(p, i)
  PROVE  Inv'
  <1>1. /\ Begin(p, "ack", i, "ack") /\ i \in sent /\ read' = read \cup {i}
        /\ delivered' = delivered \cup {i}
        /\ UNCHANGED <<sent, notified, queueVars, recorded, lock, hot, told, worldVars,
                       todo, telling, hookVars>>
    BY DEF Ack
  <1>2. /\ "ack" \in Kinds /\ i \in Item \cup {"none"} /\ i # "none" /\ "ack" \in Points
    BY DispatchAssumption DEF Kinds, Item, Points
  <1>4. Monotone  BY <1>1 DEF Monotone, worldVars
  <1>5. /\ todo' \in [Caller -> SUBSET Mail] /\ telling' \in [Caller -> SUBSET Mail]
        /\ todo'[p] \subseteq sent' \ ForLeader /\ \A j \in telling'[p] : Known(j)'
    BY <1>1, <1>4, TablesKept
  <1>6. CallType' /\ Others(p)
    BY <1>1, <1>2, <1>5, BeginFacts, TypeParts DEF Inv, Others
  <1>7. i \in sent' /\ i \in read'  BY <1>1
  <1>8. CallInv(p)' /\ ReadInv(p)'
    BY <1>1, <1>2, <1>4, <1>5, <1>7, BeginKeeps
  <1>9. /\ sent \subseteq sent' /\ sent' \subseteq Item /\ read \subseteq read'
        /\ read' \subseteq Mail
        /\ delivered' \subseteq Mail /\ recorded' \subseteq Mail
        /\ \A j \in recorded' : Known(j)
    BY <1>1 DEF Inv, TypeOK, QueueInv
  <1>10. QED  BY <1>1, <1>6, <1>8, <1>9, StartStep

LEMMA PollKeeps ==
  ASSUME Inv, NEW p \in Caller, Poll(p)
  PROVE  Inv'
  <1> DEFINE pending == (sent \cap Mail) \ (delivered \cup ForLeader)
             known == pending \cap (notified \cup recorded)
             t == IF alive THEN pending \ known ELSE {}
  <1>1. /\ Begin(p, "poll", "none", "poll")
        /\ todo' = [todo EXCEPT ![p] = t]
        /\ telling' = [telling EXCEPT ![p] = known]
        /\ UNCHANGED <<boxVars, queueVars, recorded, lock, hot, knowVars, worldVars, hookVars>>
    BY DEF Poll
  <1>2. "poll" \in Kinds /\ "none" \in Item \cup {"none"} /\ "poll" \in Points
    BY DEF Kinds, Points
  <1>3. UNCHANGED <<sent, notified, delivered, told, read>>  BY <1>1 DEF knowVars, boxVars
  <1>4. Monotone  BY <1>1, <1>3 DEF Monotone, worldVars
  <1>5. t \subseteq Mail /\ known \subseteq Mail /\ t \subseteq sent \ ForLeader
    OBVIOUS
  <1>6. \A j \in known : Known(j)  BY DEF Inv, QueueInv
  <1>7. /\ todo' \in [Caller -> SUBSET Mail] /\ telling' \in [Caller -> SUBSET Mail]
        /\ todo'[p] = t /\ telling'[p] = known
        /\ \A q \in Caller \ {p} : todo'[q] = todo[q] /\ telling'[q] = telling[q]
    BY <1>1, <1>5 DEF Inv, TypeOK
  <1>8. todo'[p] \subseteq sent' \ ForLeader /\ \A j \in telling'[p] : Known(j)'
    BY <1>3, <1>5, <1>6, <1>7 DEF Known
  <1>9. CallType' /\ Others(p)
    BY <1>1, <1>2, <1>7, BeginFacts, TypeParts DEF Inv, Others
  <1>10. CallInv(p)' /\ ReadInv(p)'
    BY <1>1, <1>2, <1>4, <1>7, <1>8, BeginKeeps
  <1>11. told \subseteq told' /\ told' \subseteq Item  BY <1>3 DEF Inv, TypeOK
  <1>12. UNCHANGED <<boxVars, queueVars, recorded, lock, hot, read, worldVars, hookVars>>
    BY <1>1, <1>3
  <1>13. QED  BY <1>9, <1>10, <1>11, <1>12, QuietStep

LEMMA PollNextKeeps ==
  ASSUME Inv, NEW p \in Caller, PollNext(p)
  PROVE  Inv'
  <1>1. PICK i \in todo[p] :
          /\ todo' = [todo EXCEPT ![p] = @ \ {i}]
          /\ call' = [call EXCEPT ![p] = Call("poll", i)]
    BY DEF PollNext
  <1>2. /\ pc' = [pc EXCEPT ![p] = "enqueue"]
        /\ UNCHANGED <<boxVars, queueVars, recorded, lock, hot, knowVars, worldVars, telling,
                       answer, hookVars>>
    BY DEF PollNext
  <1>3. i \in Mail \ ForLeader /\ i \in sent /\ i # "none"
    BY <1>1, DispatchAssumption DEF Inv, TypeOK, CallInv
  <1>4. Call("poll", i) \in Calls  BY <1>3, CallCalls DEF Item, Kinds
  <1>5. /\ CallType' /\ Others(p)
        /\ pc'[p] = "enqueue" /\ call'[p] = Call("poll", i) /\ todo'[p] \subseteq todo[p]
        /\ telling' = telling
    <2>1. "enqueue" \in Points  BY DEF Points
    <2>2. QED  BY <1>1, <1>2, <1>4, <2>1 DEF Inv, TypeOK, CallType, Others
  <1>6. UNCHANGED <<sent, told, read>>  BY <1>2 DEF boxVars, knowVars
  <1>7. /\ call'[p].req = 0 /\ call'[p].seen = "absent" /\ call'[p].receipt = "absent"
        /\ call'[p].item = i /\ call'[p].kind = "poll"
    BY <1>5 DEF Call
  <1>8. CallInv(p)'
    BY <1>3, <1>5, <1>6, <1>7 DEF CallInv, Inv, Known
  <1>9. ReadInv(p)'  BY <1>7 DEF ReadInv
  <1>10. told \subseteq told' /\ told' \subseteq Item  BY <1>6 DEF Inv, TypeOK
  <1>11. QED  BY <1>2, <1>5, <1>6, <1>8, <1>9, <1>10, QuietStep

LEMMA PollEndKeeps ==
  ASSUME Inv, NEW p \in Caller, PollEnd(p)
  PROVE  Inv'
  <1>1. /\ recorded' = telling[p]
        /\ pc' = [pc EXCEPT ![p] = "idle"]
        /\ call' = [call EXCEPT ![p] = NoCall]
        /\ telling' = [telling EXCEPT ![p] = {}]
        /\ UNCHANGED <<boxVars, queueVars, lock, hot, knowVars, worldVars, todo, answer, hookVars>>
    BY DEF PollEnd
  <1>2. UNCHANGED <<sent, notified, delivered, told, read>>  BY <1>1 DEF boxVars, knowVars
  <1>3. NoCall \in Calls  BY CallCalls DEF NoCall, Kinds
  <1>4. /\ CallType' /\ Others(p)
        /\ pc'[p] = "idle" /\ call'[p] = NoCall /\ telling'[p] = {} /\ todo' = todo
    <2>1. "idle" \in Points  BY DEF Points
    <2>2. QED  BY <1>1, <1>3, <2>1 DEF Inv, TypeOK, CallType, Others
  <1>5. /\ call'[p].req = 0 /\ call'[p].seen = "absent" /\ call'[p].receipt = "absent"
        /\ call'[p].item = "none" /\ call'[p].kind = "none"
    BY <1>4 DEF Call, NoCall
  <1>6. CallInv(p)'  BY <1>2, <1>4, <1>5 DEF CallInv, Inv
  <1>7. ReadInv(p)'  BY <1>5 DEF ReadInv
  <1>8. recorded' \subseteq Mail /\ \A i \in recorded' : Known(i)
    BY <1>1 DEF Inv, TypeOK, CallInv
  <1>9. /\ sent \subseteq sent' /\ sent' \subseteq Item /\ read \subseteq read'
        /\ read' \subseteq Mail /\ delivered' \subseteq Mail
    BY <1>2 DEF Inv, TypeOK
  <1>10. QED  BY <1>1, <1>2, <1>4, <1>6, <1>7, <1>8, <1>9, StartStep

LEMMA EnqueueFailsKeeps ==
  ASSUME Inv, NEW p \in Caller, EnqueueFails(p)
  PROVE  Inv'
  <1>1. /\ Return(p, "thrown") /\ Quiet /\ told' = told
    BY DEF EnqueueFails, Quiet, knowVars
  <1>2. told \subseteq told' /\ told' \subseteq Item  BY <1>1 DEF Inv, TypeOK
  <1>3. QED  BY <1>1, <1>2, QuietReturn DEF Quiet

-----------------------------------------------------------------------------
(* The world and the hook *)

\* A step that leaves the callers alone.
LEMMA WorldStep ==
  ASSUME Inv, UNCHANGED callVars, Progress, Monotone,
         QueueType', HookType', OtherType', QueueInv', HookInv'
  PROVE  Inv'
  <1>1. UNCHANGED <<pc, call, todo, telling, answer>>  BY DEF callVars
  <1>2. CallType'  BY <1>1, TypeParts DEF Inv, CallType
  <1>3. TypeOK'  BY <1>2 DEF TypeOK, QueueType, CallType, HookType, OtherType
  <1>4. ASSUME NEW q \in Caller PROVE CallInv(q)' /\ ReadInv(q)'
    BY <1>1, OthersKeep DEF Inv
  <1>5. QED  BY <1>3, <1>4 DEF Inv

\* So does one that does not touch the queue either.
LEMMA IdleStep ==
  ASSUME Inv, UNCHANGED <<callVars, queueVars, boxVars, recorded, knowVars, mode, leaderPane>>,
         HookType', OtherType', HookInv'
  PROVE  Inv'
  <1>1. UNCHANGED <<sent, notified, delivered, requests, latest, told, read>>
    BY DEF boxVars, queueVars, knowVars
  <1>2. Monotone  BY <1>1 DEF Monotone, worldVars
  <1>3. QueueType'  BY <1>1, TypeParts DEF Inv, QueueType
  <1>4. Progress  BY NoChangeProgress
  <1>5. QueueInv'  BY <1>1 DEF Inv, QueueInv, Known
  <1>6. QED  BY <1>2, <1>3, <1>4, <1>5, WorldStep

LEMMA RecoverKeeps ==
  ASSUME Inv, Recover PROVE Inv'
  <1>1. /\ lock = Orphan /\ lock' = Free
        /\ UNCHANGED <<boxVars, queueVars, recorded, hot, knowVars, worldVars, callVars, hookVars>>
    BY DEF Recover
  <1>2. HookType'  BY <1>1, TypeParts DEF Inv, HookType, hookVars
  <1>3. OtherType'
    BY <1>1, TypeParts DEF Inv, OtherType, boxVars, knowVars, worldVars
  <1>4. hookPc = "idle" /\ hookPc' = "idle"
    BY <1>1, DispatchAssumption DEF Inv, HookInv, hookVars
  <1>5. HookInv'  BY <1>1, <1>4, DispatchAssumption DEF HookInv
  <1>6. QED  BY <1>1, <1>2, <1>3, <1>5, IdleStep DEF worldVars

LEMMA PaneChangesKeeps ==
  ASSUME Inv, PaneChanges PROVE Inv'
  <1>1. /\ alive' \in BOOLEAN
        /\ UNCHANGED <<boxVars, queueVars, recorded, lock, hot, knowVars, leaderPane, mode, crashes,
                       callVars, hookVars>>
    BY DEF PaneChanges
  <1>2. HookType'  BY <1>1, TypeParts DEF Inv, HookType, hookVars
  <1>3. OtherType'
    BY <1>1, TypeParts DEF Inv, OtherType, boxVars, knowVars
  <1>4. HookInv'  BY <1>1, HookKeeps DEF Inv, queueVars, knowVars
  <1>5. QED  BY <1>1, <1>2, <1>3, <1>4, IdleStep

\* A lock of a dead process is nobody's.
LEMMA CrashKeeps ==
  ASSUME Inv, NEW p \in Caller, Crash(p) PROVE Inv'
  <1>1. /\ crashes < MaxCrashes /\ crashes' = crashes + 1
        /\ lock' = lock \/ (lock = Free /\ lock' = Orphan)
        /\ pc' = [pc EXCEPT ![p] = "idle"]
        /\ call' = [call EXCEPT ![p] = NoCall]
        /\ todo' = [todo EXCEPT ![p] = {}]
        /\ telling' = [telling EXCEPT ![p] = {}]
        /\ answer' = [answer EXCEPT ![p] = "none"]
        /\ UNCHANGED <<boxVars, queueVars, recorded, hot, knowVars, alive, leaderPane, mode, hookVars>>
    BY DEF Crash
  <1>2. UNCHANGED <<sent, notified, delivered, requests, latest, told, read>>
    BY <1>1 DEF boxVars, queueVars, knowVars
  <1>3. NoCall \in Calls  BY CallCalls DEF NoCall, Kinds
  <1>4. /\ CallType' /\ Others(p)
        /\ pc'[p] = "idle" /\ call'[p] = NoCall /\ telling'[p] = {} /\ todo'[p] = {}
    <2>1. "idle" \in Points  BY DEF Points
    <2>2. QED  BY <1>1, <1>3, <2>1 DEF Inv, TypeOK, CallType, Others
  <1>5. /\ call'[p].req = 0 /\ call'[p].seen = "absent" /\ call'[p].receipt = "absent"
        /\ call'[p].item = "none" /\ call'[p].kind = "none"
    BY <1>4 DEF Call, NoCall
  <1>6. CallInv(p)'  BY <1>2, <1>4, <1>5 DEF CallInv
  <1>7. ReadInv(p)'  BY <1>5 DEF ReadInv
  <1>8. Monotone  BY <1>1, <1>2 DEF Monotone, worldVars
  <1>9. QueueType'  BY <1>2, TypeParts DEF Inv, QueueType
  <1>10. crashes' \in 0..MaxCrashes
    BY <1>1, DispatchAssumption DEF Inv, TypeOK
  <1>11. OtherType'  BY <1>1, <1>2, <1>10, TypeParts DEF Inv, OtherType
  <1>12. Progress  BY <1>1, NoChangeProgress
  <1>13. QueueInv'  BY <1>1, <1>2 DEF Inv, QueueInv, Known
  <1>14. HookInv'
    BY <1>1, <1>2, DispatchAssumption DEF Inv, HookInv, hookVars, CopyOK
  <1>15. UNCHANGED hookVars  BY <1>1
  <1>16. QED
    BY <1>4, <1>6, <1>7, <1>8, <1>9, <1>11, <1>12, <1>13, <1>14, <1>15, CallerStep

LEMMA EmptyCopy == [r \in Request |-> NoRequest] \in [Request -> KeptRequests]
  BY DEF KeptRequests

LEMMA DrainBeginKeeps ==
  ASSUME Inv, NEW cold \in BOOLEAN, DrainBegin(cold) PROVE Inv'
  <1>1. /\ lock' = Hook /\ hookPc' = "drain" /\ copy' = requests /\ next' = 1
        /\ hot' = ~cold /\ warm' = ~cold
        /\ UNCHANGED <<boxVars, queueVars, recorded, knowVars, worldVars, callVars>>
    BY DEF DrainBegin
  <1>2. 1 \in 1..(MaxRequests + 1)  BY DispatchAssumption
  <1>3. HookType'  BY <1>1, <1>2 DEF Inv, TypeOK, HookType
  <1>4. OtherType'
    BY <1>1, TypeParts DEF Inv, OtherType, boxVars, knowVars, worldVars
  <1>5. HookInv'  BY <1>1 DEF HookInv, CopyOK, queueVars
  <1>6. QED  BY <1>1, <1>3, <1>4, <1>5, IdleStep DEF worldVars

LEMMA DrainSkipKeeps ==
  ASSUME Inv, DrainSkip PROVE Inv'
  <1>1. /\ hookPc = "drain" /\ next <= MaxRequests /\ next' = next + 1
        /\ UNCHANGED <<boxVars, queueVars, recorded, lock, hot, knowVars, worldVars, callVars,
                       hookPc, copy, warm>>
    BY DEF DrainSkip
  <1>2. next' \in 1..(MaxRequests + 1)
    BY <1>1, DispatchAssumption DEF Inv, TypeOK
  <1>3. HookType'  BY <1>1, <1>2 DEF Inv, TypeOK, HookType
  <1>4. OtherType'
    BY <1>1, TypeParts DEF Inv, OtherType, boxVars, knowVars, worldVars
  <1>5. HookInv'
    BY <1>1 DEF Inv, HookInv, CopyOK, queueVars, knowVars
  <1>6. QED  BY <1>1, <1>3, <1>4, <1>5, IdleStep DEF worldVars

\* The request the hook takes up is pending in the queue as well.
LEMMA HookTarget ==
  ASSUME Inv, hookPc = "drain", next \in Request, ForHook(copy[next])
  PROVE  /\ copy[next] \in KeptRequests /\ copy[next].status = "pending"
         /\ requests[next].status = "pending"
         /\ copy[next].item = requests[next].item
         /\ copy[next].item \in Item /\ copy[next].item \in sent
         /\ copy[next].via = requests[next].via
         /\ copy[next].via \in {"hook", "direct"} /\ copy[next].tries \in 0..2
  <1>1. copy[next] \in KeptRequests /\ copy[next].status = "pending"
    BY DEF Inv, TypeOK, ForHook
  <1>2. CopyOK(next)  BY DEF Inv, HookInv
  <1>3. /\ requests[next].status = "pending" /\ copy[next].item = requests[next].item
        /\ copy[next].via = requests[next].via
    BY <1>1, <1>2 DEF CopyOK
  <1>4. requests[next].item \in sent  BY <1>3 DEF Inv, QueueInv
  <1>5. QED  BY <1>1, <1>3, <1>4, Kept

\* What the hook writes into its copy.
LEMMA UnconfirmedType ==
  ASSUME NEW q \in KeptRequests, q.status = "pending"
  PROVE  /\ Unconfirmed(q) \in KeptRequests
         /\ Unconfirmed(q).item = q.item /\ Unconfirmed(q).via = q.via
         /\ Unconfirmed(q).status \in {"pending", "failed"}
  <1>1. /\ q.item \in Item /\ q.via \in {"hook", "direct"} /\ q.tries \in 0..2
    BY Kept
  <1>2. /\ Moved(q, "failed") \in KeptRequests /\ Moved(q, "failed").item = q.item
        /\ Moved(q, "failed").status = "failed" /\ Moved(q, "failed").via = q.via
    BY MovedType DEF Status
  <1>3. CASE q.tries + 1 < MaxUnconfirmed
    <2>1. q.tries + 1 \in 0..2  BY <1>1, <1>3 DEF MaxUnconfirmed
    <2>2. QED
      BY <1>1, <1>3, <2>1 DEF Unconfirmed, KeptRequests, MaxUnconfirmed
  <1>4. CASE ~(q.tries + 1 < MaxUnconfirmed)
    BY <1>2, <1>4 DEF Unconfirmed
  <1>5. QED  BY <1>3, <1>4

\* One request of the copy is served, or cannot be.
LEMMA CopyStep ==
  ASSUME Inv, hookPc = "drain", next \in Request, ForHook(copy[next]),
         NEW q \in KeptRequests, copy' = [copy EXCEPT ![next] = q],
         q.item = copy[next].item, q.via = copy[next].via,
         q.status \in {"pending", "notified", "failed"},
         q.status = "notified" => q.item \in told',
         told \subseteq told', requests' = requests
  PROVE  /\ copy' \in [Request -> KeptRequests]
         /\ copy'[next] = q
         /\ \A r \in Request : CopyOK(r)'
  <1>1. copy' \in [Request -> KeptRequests] /\ copy'[next] = q
    BY DEF Inv, TypeOK
  <1>2. ASSUME NEW r \in Request, r = next PROVE CopyOK(r)'
    BY <1>1, <1>2, HookTarget DEF CopyOK
  <1>3. ASSUME NEW r \in Request, r # next PROVE CopyOK(r)'
    <2>1. copy'[r] = copy[r]  BY <1>3 DEF Inv, TypeOK
    <2>2. CopyOK(r)  BY DEF Inv, HookInv
    <2>3. QED  BY <2>1, <2>2 DEF CopyOK
  <1>4. QED  BY <1>1, <1>2, <1>3

LEMMA DrainInjectKeeps ==
  ASSUME Inv, DrainInject PROVE Inv'
  <1> DEFINE q == copy[next]
             typed == Moved(q, "notified")
             lost == Moved(q, "failed")
  <1>1. /\ hookPc = "drain" /\ next <= MaxRequests /\ ForHook(q)
        /\ warm' = TRUE
        /\ UNCHANGED <<boxVars, queueVars, recorded, lock, hot, read, worldVars, callVars>>
    BY DEF DrainInject
  <1>2. next \in Request /\ next + 1 \in 1..(MaxRequests + 1) /\ next \in 1..(MaxRequests + 1)
    BY <1>1, DispatchAssumption DEF Inv, TypeOK, Request
  <1>3. /\ q \in KeptRequests /\ q.status = "pending" /\ q.item \in Item /\ q.item \in sent
    BY <1>1, <1>2, HookTarget
  <1>4. /\ typed \in KeptRequests /\ typed.item = q.item /\ typed.status = "notified"
        /\ lost \in KeptRequests /\ lost.item = q.item /\ lost.status = "failed"
        /\ typed.via = q.via /\ lost.via = q.via
    BY <1>3, MovedType DEF Status
  <1>5. /\ Unconfirmed(q) \in KeptRequests /\ Unconfirmed(q).item = q.item
        /\ Unconfirmed(q).via = q.via
        /\ Unconfirmed(q).status \in {"pending", "failed"}
    BY <1>3, UnconfirmedType
  <1>6. UNCHANGED <<sent, notified, delivered, requests, latest>>
    BY <1>1 DEF boxVars, queueVars
  <1>7. /\ told \subseteq told' /\ told' \subseteq Item
        /\ copy' \in [Request -> KeptRequests]
        /\ \A r \in Request : CopyOK(r)'
        /\ hookPc' \in {"drain", "mark"} /\ next' \in 1..(MaxRequests + 1)
        /\ hookPc' = "mark" => next' \in Request /\ copy'[next'].item \in told' \cap Mail
    <2>1. CASE /\ told' = told \cup {q.item}
               /\ copy' = [copy EXCEPT ![next] = typed]
               /\ hookPc' = IF q.item \in Mail THEN "mark" ELSE "drain"
               /\ next' = IF q.item \in Mail THEN next ELSE next + 1
      <3>1. told \subseteq told' /\ told' \subseteq Item /\ q.item \in told'
        BY <1>3, <2>1 DEF Inv, TypeOK
      <3>2. /\ copy' \in [Request -> KeptRequests]
            /\ copy'[next] = typed
            /\ \A r \in Request : CopyOK(r)'
        BY <1>1, <1>2, <1>4, <1>6, <2>1, <3>1, CopyStep
      <3>3. QED  BY <1>2, <1>4, <2>1, <3>1, <3>2
    <2>2. CASE /\ copy' = [copy EXCEPT ![next] = Unconfirmed(q)]
               /\ next' = next + 1 /\ UNCHANGED <<told, hookPc>>
      <3>1. told \subseteq told' /\ told' \subseteq Item  BY <2>2 DEF Inv, TypeOK
      <3>2. /\ copy' \in [Request -> KeptRequests]
            /\ \A r \in Request : CopyOK(r)'
        BY <1>1, <1>2, <1>5, <1>6, <2>2, <3>1, CopyStep
      <3>3. QED  BY <1>1, <1>2, <2>2, <3>1, <3>2
    <2>3. CASE /\ copy' = [copy EXCEPT ![next] = lost]
               /\ next' = next + 1 /\ UNCHANGED <<told, hookPc>>
      <3>1. told \subseteq told' /\ told' \subseteq Item  BY <2>3 DEF Inv, TypeOK
      <3>2. /\ copy' \in [Request -> KeptRequests]
            /\ \A r \in Request : CopyOK(r)'
        BY <1>1, <1>2, <1>4, <1>6, <2>3, <3>1, CopyStep
      <3>3. QED  BY <1>1, <1>2, <2>3, <3>1, <3>2
    <2>4. QED  BY <2>1, <2>2, <2>3 DEF DrainInject
  <1>8. HookType'  BY <1>1, <1>7 DEF HookType
  <1>9. OtherType'
    BY <1>1, <1>6, <1>7, TypeParts DEF Inv, OtherType, worldVars
  <1>10. Monotone  BY <1>1, <1>6, <1>7 DEF Monotone, worldVars
  <1>11. QueueType'  BY <1>6, TypeParts DEF Inv, QueueType
  <1>12. Progress  BY <1>1, NoChangeProgress
  <1>13. QueueInv'  BY <1>1, <1>6, <1>7 DEF Inv, QueueInv, Known, worldVars
  <1>14. HookInv'  BY <1>1, <1>7 DEF Inv, HookInv
  <1>15. QED
    BY <1>1, <1>8, <1>9, <1>10, <1>11, <1>12, <1>13, <1>14, WorldStep

LEMMA DrainMarkKeeps ==
  ASSUME Inv, DrainMark PROVE Inv'
  <1>1. /\ hookPc = "mark" /\ notified' = notified \cup {copy[next].item}
        /\ hookPc' = "drain" /\ next' = next + 1
        /\ UNCHANGED <<sent, delivered, queueVars, recorded, lock, hot, knowVars, worldVars, callVars,
                       copy, warm>>
    BY DEF DrainMark
  <1>2. next \in Request /\ copy[next].item \in told \cap Mail
    BY <1>1 DEF Inv, HookInv
  <1>3. UNCHANGED <<requests, latest, told, read>>  BY <1>1 DEF queueVars, knowVars
  <1>4. next' \in 1..(MaxRequests + 1)
    BY <1>1, <1>2, DispatchAssumption DEF Request
  <1>5. HookType'  BY <1>1, <1>4 DEF Inv, TypeOK, HookType
  <1>6. OtherType'
    BY <1>1, <1>2, <1>3, TypeParts DEF Inv, OtherType, worldVars
  <1>7. Monotone  BY <1>1, <1>3 DEF Monotone, worldVars
  <1>8. QueueType'  BY <1>3, TypeParts DEF Inv, QueueType
  <1>9. Progress  BY <1>1, NoChangeProgress
  <1>10. \A i \in notified' \cup recorded' : Known(i)'
    BY <1>1, <1>2, <1>3 DEF Inv, QueueInv, Known
  <1>11. QueueInv'  BY <1>1, <1>7, <1>10, QueueKeeps DEF Inv
  <1>12. HookInv'  BY <1>1, <1>3 DEF Inv, HookInv, CopyOK
  <1>13. QED
    BY <1>1, <1>5, <1>6, <1>7, <1>8, <1>9, <1>11, <1>12, WorldStep

\* The copy is written back: nobody else has had the lock, so only the hook's own
\* changes are written.
LEMMA DrainWriteKeeps ==
  ASSUME Inv, DrainWrite PROVE Inv'
  <1> DEFINE touched == {r \in Request : copy[r] # requests[r] \/ Deferred(copy[r])}
             of(i) == {r \in touched : copy[r].item = i}
  <1>1. /\ hookPc = "drain" /\ requests' = copy
        /\ latest' = [i \in Item |-> IF of(i) = {} THEN latest[i] ELSE CHOOSE r \in of(i) : TRUE]
        /\ hot' = (hot \/ copy # requests)
        /\ lock' = Free /\ hookPc' = "idle" /\ copy' = [r \in Request |-> NoRequest]
        /\ next' = 1 /\ warm' = FALSE
        /\ UNCHANGED <<boxVars, recorded, knowVars, worldVars, callVars>>
    BY DEF DrainWrite
  <1>2. \A r \in Request : CopyOK(r)  BY <1>1 DEF Inv, HookInv
  <1>3. UNCHANGED <<sent, notified, delivered, told, read>>  BY <1>1 DEF boxVars, knowVars
  <1>4. ASSUME NEW i \in Item
        PROVE  /\ latest'[i] \in 0..MaxRequests
               /\ \/ latest'[i] = latest[i]
                  \/ /\ latest'[i] \in Request
                     /\ copy[latest'[i]].item = i /\ copy[latest'[i]].status # "absent"
    <2>1. CASE of(i) = {}
      BY <1>1, <2>1 DEF Inv, TypeOK
    <2>2. CASE of(i) # {}
      <3>1. PICK r : r = CHOOSE x \in of(i) : TRUE  OBVIOUS
      <3>2. r \in of(i)  BY <2>2, <3>1
      <3>3. r \in Request /\ copy[r].item = i /\ (copy[r] # requests[r] \/ Deferred(copy[r]))
        BY <3>2
      <3>4. copy[r].status # "absent"
        BY <1>2, <3>3 DEF CopyOK, Deferred, ForHook
      <3>5. latest'[i] = r  BY <1>1, <2>2, <3>1
      <3>6. r \in 0..MaxRequests  BY <3>3, DispatchAssumption DEF Request
      <3>7. QED  BY <3>3, <3>4, <3>5, <3>6
    <2>3. QED  BY <2>1, <2>2
  <1>5. QueueType'
    <2>1. requests' \in [Request -> KeptRequests]  BY <1>1 DEF Inv, TypeOK
    <2>2. latest' \in [Item -> 0..MaxRequests]
      <3> HIDE DEF touched, of
      <3>1. DOMAIN latest' = Item /\ latest' = [i \in Item |-> latest'[i]]  BY <1>1
      <3>2. QED  BY <1>4, <3>1
    <2>3. QED  BY <2>1, <2>2 DEF QueueType
  <1>6. HookType'
    <2>1. 1 \in 1..(MaxRequests + 1)  BY DispatchAssumption
    <2>2. copy' \in [Request -> KeptRequests]  BY <1>1, EmptyCopy
    <2>3. QED  BY <1>1, <2>1, <2>2 DEF HookType
  <1>7. OtherType'
    BY <1>1, <1>3, TypeParts DEF Inv, OtherType, worldVars
  <1>8. Monotone  BY <1>1, <1>3 DEF Monotone, worldVars
  <1>9. Progress  BY <1>1, <1>2 DEF Progress, CopyOK, Done
  <1>10. QueueInv'
    <2>1. \A i \in notified' \cup recorded' : Known(i)'
      BY <1>1, <1>3 DEF Inv, QueueInv, Known
    <2>2. ASSUME NEW r \in Request
          PROVE  /\ requests'[r].status # "absent" => requests'[r].item \in sent'
                 /\ requests'[r].status \in {"notified", "delivered"} => Known(copy[r].item)
                 /\ requests'[r].status = "delivered" => requests'[r].item \in read'
                 /\ requests'[r].via = "direct" => mode' = "direct"
      BY <1>1, <1>2, <1>3 DEF Inv, QueueInv, Known, CopyOK, worldVars
    <2>3. ASSUME NEW i \in Item, latest'[i] # 0
          PROVE  requests'[latest'[i]].item = i /\ requests'[latest'[i]].status # "absent"
      <3> HIDE DEF touched, of
      <3>1. CASE latest'[i] = latest[i]
        <4>1. latest[i] \in Request  BY <2>3, <3>1 DEF Inv, TypeOK, Request
        <4>2. requests[latest[i]].item = i /\ requests[latest[i]].status # "absent"
          BY <2>3, <3>1 DEF Inv, QueueInv
        <4>3. CopyOK(latest[i])  BY <1>2, <4>1
        <4>4. QED  BY <1>1, <3>1, <4>2, <4>3 DEF CopyOK
      <3>2. CASE latest'[i] # latest[i]
        BY <1>1, <1>4, <3>2
      <3>3. QED  BY <3>1, <3>2
    <2>4. QED  BY <1>1, <1>3, <2>1, <2>2, <2>3 DEF QueueInv, Known
  <1>11. HookInv'  BY <1>1, DispatchAssumption DEF HookInv
  <1>12. UNCHANGED callVars  BY <1>1
  <1>13. QED
    BY <1>5, <1>6, <1>7, <1>8, <1>9, <1>10, <1>11, <1>12, WorldStep

LEMMA HookCrashKeeps ==
  ASSUME Inv, HookCrash PROVE Inv'
  <1>1. /\ crashes < MaxCrashes /\ crashes' = crashes + 1
        /\ hot' \in {hot, hot \/ copy # requests}
        /\ lock' = Orphan /\ hookPc' = "idle" /\ copy' = [r \in Request |-> NoRequest]
        /\ next' = 1 /\ warm' = FALSE
        /\ UNCHANGED <<boxVars, queueVars, recorded, knowVars, alive, leaderPane, mode, callVars>>
    BY DEF HookCrash
  <1>2. HookType'
    <2>1. 1 \in 1..(MaxRequests + 1)  BY DispatchAssumption
    <2>2. copy' \in [Request -> KeptRequests]  BY <1>1, EmptyCopy
    <2>3. QED  BY <1>1, <2>1, <2>2 DEF HookType
  <1>3. crashes' \in 0..MaxCrashes  BY <1>1, DispatchAssumption DEF Inv, TypeOK
  <1>4. hot' \in BOOLEAN  BY <1>1 DEF Inv, TypeOK
  <1>5. OtherType'
    BY <1>1, <1>3, <1>4, TypeParts DEF Inv, OtherType, boxVars, knowVars
  <1>6. HookInv'  BY <1>1, DispatchAssumption DEF HookInv
  <1>7. QED  BY <1>1, <1>2, <1>5, <1>6, IdleStep

-----------------------------------------------------------------------------
(* Into the queue *)

\* What a caller does with its request, new or found.
LEMMA QueuedKeeps ==
  ASSUME Inv, NEW p \in Caller, pc[p] = "enqueue", NEW r \in Request, NEW deduped \in BOOLEAN,
         Queued(p, r, deduped), Monotone,
         requests'[r].item = call[p].item, requests'[r].status # "absent",
         Via(p) = "hook" /\ (deduped => mode = "hook") => requests'[r].via = "hook"
  PROVE  CallType' /\ Others(p) /\ CallInv(p)' /\ ReadInv(p)'
  <1> DEFINE c == [call[p] EXCEPT !.req = r]
             Leaves == /\ requests'[r].via = "hook"
                       /\ call[p].kind = "post" \/ call[p].item \in ForLeader
                       /\ call[p].kind # "poll"
  <1>1. /\ call[p] \in Calls /\ call[p].receipt = "absent" /\ call[p].seen = "absent"
        /\ call[p].kind # "ack"
    BY DEF Inv, TypeOK, CallInv
  <1>2. r \in 0..MaxRequests  BY DispatchAssumption DEF Request
  <1>3. /\ c \in Calls /\ c.kind = call[p].kind /\ c.item = call[p].item /\ c.req = r
        /\ c.seen = "absent" /\ c.receipt = "absent"
    BY <1>1, <1>2, CallSet
  <1>4. \/ Return(p, "failed")
        \/ Go(p, "type", c) \/ Go(p, "wait", c)
        \/ Leaves /\ (Go(p, "queued", c) \/ Go(p, "defer", c))
    <2>1. \/ Return(p, "failed")
          \/ Go(p, "type", c) \/ Go(p, "wait", c)
          \/ Go(p, "queued", c) /\ ~deduped /\ Via(p) = "hook"
             /\ (call[p].kind = "post" \/ call[p].item \in ForLeader)
          \/ Go(p, "defer", c) /\ call[p].kind # "post" /\ Via(p) = "hook"
             /\ call[p].item \in ForLeader
      BY <1>3 DEF Queued, Via
    <2>2. call[p].kind # "post" /\ Via(p) = "hook" => mode = "hook"
      BY DispatchAssumption DEF Via, Inv, TypeOK
    <2>3. call[p].item \in ForLeader => call[p].kind # "poll"
      BY DispatchAssumption DEF Inv, CallInv
    <2>4. QED  BY <2>1, <2>2, <2>3
  <1>5. ASSUME NEW with \in {"failed"}, Return(p, with)
        PROVE  CallType' /\ Others(p) /\ CallInv(p)' /\ ReadInv(p)'
    <2>1. CallType' /\ Others(p)  BY <1>5, ReturnFacts, TypeParts DEF Inv, Others
    <2>2. CallInv(p)' /\ ReadInv(p)'  BY <1>5, ReturnKeeps DEF Inv
    <2>3. QED  BY <2>1, <2>2
  <1>6. ASSUME NEW to \in {"type", "wait", "queued", "defer"}, Go(p, to, c),
               to \in {"queued", "defer"} => Leaves
        PROVE  CallType' /\ Others(p) /\ CallInv(p)' /\ ReadInv(p)'
    <2>1. to \in Points  BY DEF Points
    <2>2. CallType' /\ Others(p)
      BY <1>3, <1>6, <2>1, GoFacts, TypeParts DEF Inv, Others
    <2>3. TypeOK /\ CallInv(p)  BY DEF Inv
    <2>4. "absent" \notin Done  BY DEF Done
    <2>5. CallInv(p)' /\ ReadInv(p)'
      <3>1. PICK d \in Calls : d = c  BY <1>3
      <3> HIDE DEF c
      <3>2. requests'[d.req].item = d.item /\ requests'[d.req].status # "absent"
        BY <1>3, <3>1
      <3>3. to \in {"queued", "defer"} => d.kind # "poll" /\ LeftBehind(d, requests[d.req])'
        BY <1>3, <1>6, <3>1 DEF LeftBehind
      <3>4. QED  BY <1>1, <1>3, <1>6, <2>1, <2>3, <2>4, <3>1, <3>2, <3>3, GoKeeps
    <2>6. QED  BY <2>2, <2>5
  <1>7. QED  BY <1>4, <1>5, <1>6

LEMMA ReuseKeeps ==
  ASSUME Inv, NEW p \in Caller, Reuse(p) PROVE Inv'
  <1>1. PICK r \in PendingFor(call[p].item) : Queued(p, r, TRUE)
    BY DEF Reuse
  <1>2. pc[p] = "enqueue" /\ Quiet /\ told' = told  BY DEF Reuse, Quiet, knowVars
  <1>3. r \in Request /\ requests[r].item = call[p].item /\ requests[r].status = "pending"
    BY <1>1 DEF PendingFor
  <1>4. requests' = requests /\ Monotone
    BY <1>2 DEF Quiet, queueVars, boxVars, Monotone, worldVars
  <1>5. mode = "hook" => requests[r].via = "hook"
    <2>1. requests[r].via \in {"hook", "direct"}
      BY <1>3, Kept DEF Inv, TypeOK
    <2>2. QED  BY <1>3, <2>1 DEF Inv, QueueInv
  <1>6. CallType' /\ Others(p) /\ CallInv(p)' /\ ReadInv(p)'
    BY <1>1, <1>2, <1>3, <1>4, <1>5, QueuedKeeps
  <1>7. told \subseteq told' /\ told' \subseteq Item  BY <1>2 DEF Inv, TypeOK
  <1>8. QED  BY <1>2, <1>6, <1>7, QuietStep DEF Quiet

LEMMA EnqueueKeeps ==
  ASSUME Inv, NEW p \in Caller, Enqueue(p) PROVE Inv'
  <1> DEFINE i == call[p].item
             n == [item |-> i, status |-> "pending", via |-> Via(p), tries |-> 0]
  <1>1. /\ pc[p] = "enqueue" /\ lock = Free
        /\ UNCHANGED <<boxVars, recorded, lock, hot, knowVars, worldVars, hookVars>>
    BY DEF Enqueue
  <1>2. PICK r \in Unused :
          /\ requests' = [requests EXCEPT ![r] = n]
          /\ latest' = [latest EXCEPT ![i] = r]
          /\ Queued(p, r, FALSE)
    BY DEF Enqueue
  <1>3. r \in Request /\ requests[r] = NoRequest  BY <1>2 DEF Unused
  <1>4. i \in Item /\ i \in sent
    BY <1>1, DispatchAssumption DEF Inv, TypeOK, CallInv, Calls
  <1>5. n \in KeptRequests
    <2>1. 0 \in 0..(MaxUnconfirmed - 1)  BY DEF MaxUnconfirmed
    <2>2. Via(p) \in {"hook", "direct"}  BY DEF Via
    <2>3. QED  BY <1>4, <2>1, <2>2 DEF KeptRequests
  <1>6. UNCHANGED <<sent, notified, delivered, told, read>>  BY <1>1 DEF boxVars, knowVars
  <1>7. Monotone  BY <1>1, <1>6 DEF Monotone, worldVars
  <1>8. /\ requests'[r].item = i /\ requests'[r].status = "pending" /\ requests'[r].via = Via(p)
        /\ \A s \in Request \ {r} : requests'[s] = requests[s]
        /\ latest'[i] = r
        /\ \A j \in Item \ {i} : latest'[j] = latest[j]
    BY <1>2, <1>3, <1>4 DEF Inv, TypeOK
  <1>9. CallType' /\ Others(p) /\ CallInv(p)' /\ ReadInv(p)'
    BY <1>1, <1>2, <1>3, <1>7, <1>8, QueuedKeeps
  <1>10. QueueType'
    <2>1. r \in 0..MaxRequests  BY <1>3, DispatchAssumption DEF Request
    <2> HIDE DEF n
    <2>2. QED  BY <1>2, <1>3, <1>4, <1>5, <2>1 DEF Inv, TypeOK, QueueType
  <1>11. OtherType'  BY <1>1, <1>6, TypeParts DEF Inv, OtherType, worldVars
  <1>12. requests[r].status = "absent"  BY <1>3 DEF NoRequest
  <1>13. Progress  BY <1>8, <1>12 DEF Progress
  <1>14. QueueInv'
    <2>1. \A j \in notified' \cup recorded' : Known(j)'
      BY <1>1, <1>6 DEF Inv, QueueInv, Known
    <2>2. ASSUME NEW s \in Request
          PROVE  /\ requests'[s].status # "absent" => requests'[s].item \in sent'
                 /\ requests'[s].status \in {"notified", "delivered"} => Known(requests[s].item)'
                 /\ requests'[s].status = "delivered" => requests'[s].item \in read'
                 /\ requests'[s].via = "direct" => mode' = "direct"
      <3>1. CASE s = r  BY <3>1, <1>1, <1>4, <1>6, <1>8 DEF Via, worldVars
      <3>2. CASE s # r  BY <3>2, <1>1, <1>6, <1>8 DEF Inv, QueueInv, Known, worldVars
      <3>3. QED  BY <3>1, <3>2
    <2>3. ASSUME NEW j \in Item, latest'[j] # 0
          PROVE  requests'[latest'[j]].item = j /\ requests'[latest'[j]].status # "absent"
      <3>1. CASE j = i  BY <3>1, <1>8
      <3>2. CASE j # i
        <4>1. latest'[j] = latest[j] /\ latest[j] \in Request
          BY <3>2, <1>8, <2>3 DEF Inv, TypeOK, Request
        <4>2. requests[latest[j]].item = j /\ requests[latest[j]].status # "absent"
          BY <4>1, <2>3 DEF Inv, QueueInv
        <4>3. latest[j] # r  BY <4>2, <1>12
        <4>4. QED  BY <4>1, <4>2, <4>3, <1>8
      <3>3. QED  BY <3>1, <3>2
    <2>4. QED  BY <2>1, <2>2, <2>3 DEF QueueInv
  <1>15. HookInv'  BY <1>1, HookKeepsFree DEF Inv
  <1>16. UNCHANGED hookVars  BY <1>1
  <1>17. QED
    BY <1>7, <1>9, <1>10, <1>11, <1>13, <1>14, <1>15, <1>16, CallerStep

-----------------------------------------------------------------------------
(* Theorems *)

LEMMA InitInv == Init => Inv
  <1> SUFFICES ASSUME Init PROVE Inv  OBVIOUS
  <1>1. TypeOK
    <2>1. QueueType  BY EmptyCopy, DispatchAssumption DEF Init, QueueType
    <2>2. CallType
      <3>1. NoCall \in Calls  BY CallCalls DEF NoCall, Kinds
      <3>2. QED  BY <3>1 DEF Init, CallType, Points
    <2>3. HookType
      <3>1. 1 \in 1..(MaxRequests + 1)  BY DispatchAssumption
      <3>2. copy \in [Request -> KeptRequests]  BY EmptyCopy DEF Init
      <3>3. QED  BY <3>1, <3>2 DEF Init, HookType
    <2>4. OtherType
      <3>1. crashes \in 0..MaxCrashes  BY DispatchAssumption DEF Init
      <3>2. leaderPane \in BOOLEAN /\ mode \in Modes  BY DEF Init
      <3>3. QED  BY <3>1, <3>2 DEF Init, OtherType
    <2>5. QED  BY <2>1, <2>2, <2>3, <2>4, TypeParts
  <1>2. ASSUME NEW p \in Caller PROVE CallInv(p) /\ ReadInv(p)
    BY DEF Init, CallInv, ReadInv, NoCall, Call
  <1>3. QueueInv
    <2>1. \A r \in Request : requests[r].status = "absent" /\ requests[r].via = "none"  BY DEF Init, NoRequest
    <2>2. QED  BY <2>1 DEF Init, QueueInv
  <1>4. HookInv  BY DispatchAssumption DEF Init, HookInv
  <1>5. QED  BY <1>1, <1>2, <1>3, <1>4 DEF Inv

LEMMA CallerKeeps ==
  ASSUME Inv, NEW p \in Caller, Step(p) PROVE Inv'
  <1>1. CASE PollNext(p) \/ PollEnd(p) \/ Reuse(p) \/ Enqueue(p) \/ EnqueueFails(p)
           \/ LeaveToHook(p) \/ Defer(p)
    BY <1>1, PollNextKeeps, PollEndKeeps, ReuseKeeps, EnqueueKeeps, EnqueueFailsKeeps,
       LeaveToHookKeeps, DeferKeeps
  <1>2. CASE Type(p) \/ Receipt(p) \/ Fallback(p)
    BY <1>2, TypeKeeps, ReceiptKeeps, FallbackKeeps
  <1>3. CASE MarkMail(p) \/ MarkRead(p) \/ MarkWrite(p) \/ Patch(p)
    BY <1>3, MarkMailKeeps, MarkReadKeeps, MarkWriteKeeps, PatchKeeps
  <1>4. CASE FailRead(p) \/ FailWrite(p)
    BY <1>4, FailReadKeeps, FailWriteKeeps
  <1>5. CASE AckFind(p) \/ AckRead(p) \/ AckWrite(p)
    BY <1>5, AckFindKeeps, AckReadKeeps, AckWriteKeeps
  <1>6. QED  BY <1>1, <1>2, <1>3, <1>4, <1>5 DEF Step

LEMMA NextKeeps ==
  ASSUME Inv, [Next]_vars PROVE Inv'
  <1>1. ASSUME NEW p \in Caller, NEW i \in Mail, Send(p, "send", i) \/ Send(p, "post", i)
        PROVE  Inv'
    BY <1>1, SendKeeps
  <1>2. ASSUME NEW p \in Caller, NEW i \in Inbox, Instruct(p, i) PROVE Inv'
    BY <1>2, InstructKeeps
  <1>3. ASSUME NEW p \in Caller, NEW i \in Mail, Ack(p, i) PROVE Inv'
    BY <1>3, AckKeeps
  <1>4. ASSUME NEW p \in Caller, Poll(p) \/ Step(p) \/ Crash(p) PROVE Inv'
    BY <1>4, PollKeeps, CallerKeeps, CrashKeeps
  <1>5. ASSUME NEW cold \in BOOLEAN, DrainBegin(cold) PROVE Inv'
    BY <1>5, DrainBeginKeeps
  <1>6. CASE HookStep \/ HookCrash
    BY <1>6, DrainSkipKeeps, DrainInjectKeeps, DrainMarkKeeps, DrainWriteKeeps, HookCrashKeeps
       DEF HookStep
  <1>7. CASE Recover \/ PaneChanges
    BY <1>7, RecoverKeeps, PaneChangesKeeps
  <1>8. CASE UNCHANGED vars
    <2>1. UNCHANGED <<callVars, queueVars, boxVars, recorded, knowVars, hookVars, worldVars, lock, hot>>
      BY <1>8 DEF vars
    <2>2. HookType'  BY <2>1, TypeParts DEF Inv, HookType, hookVars
    <2>3. OtherType'
      BY <2>1, TypeParts DEF Inv, OtherType, boxVars, knowVars, worldVars
    <2>4. HookInv'  BY <2>1, HookKeeps DEF Inv, queueVars, knowVars
    <2>5. QED  BY <2>1, <2>2, <2>3, <2>4, IdleStep DEF worldVars
  <1>9. QED
    BY <1>1, <1>2, <1>3, <1>4, <1>5, <1>6, <1>7, <1>8 DEF Next

\* The invariant holds at every step of the code, whoever crashes and whatever times out.
THEOREM SpecInv == Spec => []Inv
  <1>1. Init => Inv  BY InitInv
  <1>2. Inv /\ [Next]_vars => Inv'  BY NextKeeps
  <1>3. QED  BY <1>1, <1>2, PTL DEF Spec

\* TypeOK: every variable keeps the shape its file or its process gives it.
THEOREM TypeCorrect == Spec => []TypeOK
  <1>1. Inv => TypeOK  BY DEF Inv
  <1>2. QED  BY <1>1, SpecInv, PTL

\* NotifiedIsTrue: what is marked notified or delivered, in the mailbox, in the snapshot or
\* in the queue, was told to its recipient or read by it.
THEOREM NotifiedTrue == Spec => []NotifiedIsTrue
  <1>1. Inv => NotifiedIsTrue  BY DEF Inv, QueueInv, NotifiedIsTrue
  <1>2. QED  BY <1>1, SpecInv, PTL

-----------------------------------------------------------------------------
(* What the answer to a sender means *)

\* A step of one caller is not a step of another.
LEMMA GoPoint ==
  ASSUME CallType, NEW p \in Caller, NEW to, NEW with, Go(p, to, with)
  PROVE  /\ pc'[p] = to
         /\ \A q \in Caller \ {p} : pc'[q] = pc[q]
  BY DEF Go, CallType

LEMMA ReturnPoint ==
  ASSUME CallType, NEW p \in Caller, NEW with, Return(p, with)
  PROVE  /\ answer'[p] = IF with = "ok" THEN "ok" ELSE "none"
         /\ \A q \in Caller \ {p} : pc'[q] = pc[q]
  <1>1. \E to : pc' = [pc EXCEPT ![p] = to]  BY DEF Return
  <1>2. answer' = [answer EXCEPT ![p] = IF with = "ok" THEN "ok" ELSE "none"]
    BY DEF Return
  <1>3. QED  BY <1>1, <1>2 DEF CallType

LEMMA QueuedPoint ==
  ASSUME CallType, NEW p \in Caller, NEW r, NEW deduped \in BOOLEAN, Queued(p, r, deduped)
  PROVE  /\ pc'[p] = "idle" => answer'[p] = "none"
         /\ \A q \in Caller \ {p} : pc'[q] = pc[q]
  <1> DEFINE c == [call[p] EXCEPT !.req = r]
  <1>1. \/ Return(p, "failed") \/ Go(p, "queued", c)
        \/ Go(p, "type", c) \/ Go(p, "wait", c) \/ Go(p, "defer", c)
    BY DEF Queued
  <1>2. CASE Return(p, "failed")
    BY <1>2, ReturnPoint
  <1>3. CASE Go(p, "queued", c) \/ Go(p, "type", c) \/ Go(p, "wait", c) \/ Go(p, "defer", c)
    <2> HIDE DEF c
    <2>1. QED  BY <1>3, GoPoint
  <1>4. QED  BY <1>1, <1>2, <1>3

\* How a step of a caller can end its call.
LEMMA StepPoint ==
  ASSUME CallType, NEW p \in Caller, Step(p)
  PROVE  \A q \in Caller \ {p} : pc'[q] = pc[q]
  <1>1. CASE PollNext(p) \/ PollEnd(p)
    BY <1>1 DEF PollNext, PollEnd, CallType
  <1>2. CASE Reuse(p) \/ Enqueue(p)
    BY <1>2, QueuedPoint DEF Reuse, Enqueue
  <1>3. CASE \/ EnqueueFails(p) \/ LeaveToHook(p) \/ Defer(p) \/ Patch(p)
             \/ FailWrite(p) \/ AckWrite(p)
    BY <1>3, ReturnPoint DEF EnqueueFails, LeaveToHook, Defer, Patch, FailWrite, AckWrite
  <1>4. CASE Type(p) \/ Fallback(p)
    BY <1>4, ReturnPoint, GoPoint DEF Type, Fallback
  <1>5. CASE Receipt(p) \/ MarkMail(p) \/ MarkRead(p)
    BY <1>5, ReturnPoint, GoPoint DEF Receipt, MarkMail, MarkRead, Marked
  <1>6. CASE MarkWrite(p) \/ FailRead(p) \/ AckFind(p) \/ AckRead(p)
    BY <1>6, ReturnPoint, GoPoint DEF MarkWrite, Marked, FailRead, AckFind, AckRead
  <1>7. QED  BY <1>1, <1>2, <1>3, <1>4, <1>5, <1>6 DEF Step

\* A request that has been served stays served in the step that returns.
LEMMA ServedStays ==
  ASSUME Inv, NEW r \in Request, requests[r].status \in Done,
         NEW s \in Request, NEW from, NEW to \in Status, Transition(s, from, to)
  PROVE  requests'[r].status # "pending"
  <1>1. Progress  BY TransitionProgress DEF Inv
  <1>2. requests'[r].status \in Done  BY <1>1 DEF Progress, Done
  <1>3. QED  BY <1>2 DEF Done

\* A mark that is not refused is made; one that is refused was made by another.
LEMMA MarkSettles ==
  ASSUME Inv, NEW p \in Caller, MarkWrite(p), call[p].kind # "poll", call[p].kind # "ack",
         pc'[p] = "idle", answer'[p] = "ok"
  PROVE  requests'[call[p].req].status # "pending"
  <1> DEFINE c == call[p]
             r == c.req
  <1>1. pc[p] = "write" /\ Transition(r, c.seen, "notified")
    BY DEF MarkWrite
  <1>2. /\ r \in Request /\ requests[r].status \in Status
        /\ c.receipt \in Done => requests[r].status \in Done
        /\ c.seen \in Done => requests[r].status \in Done
        /\ c \in Calls
    BY <1>1, AtWork
  <1>3. c.seen # "absent"  BY <1>1 DEF Inv, CallInv
  <1>4. "notified" \in Status /\ "failed" \in Done  BY DEF Status, Done
  <1>5. CASE requests[r].status \in Done
    BY <1>1, <1>2, <1>4, <1>5, ServedStays
  <1>6. CASE requests[r].status \notin Done
    <2>1. requests[r].status = "pending" /\ c.seen \notin Done /\ c.receipt # "failed"
      BY <1>2, <1>4, <1>6 DEF Status, Done
    <2>2. c.seen = "pending"
      BY <1>2, <1>3, <2>1 DEF Calls, Done
    <2>3. Accepted(r, c.seen, "notified")
      BY <2>1, <2>2 DEF Accepted, CanTransition
    <2>4. lock = Free
      <3>1. CASE lock # Free
        <4>1. Return(p, "thrown")
          BY <2>1, <3>1 DEF MarkWrite
        <4>2. QED  BY <4>1, ReturnPoint, TypeParts DEF Inv
      <3>2. QED  BY <3>1
    <2>5. requests' = [requests EXCEPT ![r] = Moved(requests[r], "notified")]
      BY <1>1, <2>3, <2>4 DEF Transition
    <2>6. requests'[r].status = "notified"
      BY <1>2, <2>5 DEF Inv, TypeOK, Moved
    <2>7. QED  BY <2>6
  <1>7. QED  BY <1>5, <1>6

\* The request of p is settled after a step, or knowingly left behind.
SettledOrLeft(p) ==
    \/ requests'[call[p].req].status # "pending"
    \/ LeftBehind(call[p], requests'[call[p].req])

LEMMA StepSettles ==
  ASSUME Inv, NEW p \in Caller, Step(p),
         call[p].kind \in {"send", "post", "instruct"}, call[p].req # 0,
         pc'[p] = "idle", answer'[p] = "ok"
  PROVE  SettledOrLeft(p)
  <1> DEFINE r == call[p].req
  <1>0. ASSUME requests'[r].status # "pending" PROVE SettledOrLeft(p)
    BY <1>0 DEF SettledOrLeft
  <1>1. pc[p] \notin {"idle", "poll", "enqueue", "ack"}  BY DEF Inv, CallInv
  <1>2. /\ r \in Request /\ requests[r].status \in Status
        /\ call[p].receipt \in Done => requests[r].status \in Done
        /\ pc[p] = "patch" => requests[r].status \in Done
    BY <1>1, AtWork
  <1>3. CallType  BY TypeParts DEF Inv
  <1>4. ~PollNext(p) /\ ~PollEnd(p) /\ ~Reuse(p) /\ ~Enqueue(p) /\ ~EnqueueFails(p) /\ ~AckFind(p)
    BY <1>1 DEF PollNext, PollEnd, Reuse, Enqueue, EnqueueFails, AckFind
  <1>5. ~AckRead(p) /\ ~AckWrite(p)
    BY DEF Inv, CallInv, AckRead, AckWrite
  <1>6. ~FailWrite(p) /\ ~FailRead(p)
    BY <1>3, ReturnPoint, GoPoint DEF FailWrite, FailRead
  <1>7. ~Fallback(p)
    <2>1. SUFFICES ASSUME Fallback(p) PROVE FALSE  OBVIOUS
    <2>2. \E to \in {"mark", "read", "failWrite", "failRead"} : \E c : Go(p, to, c)
      BY <2>1 DEF Fallback, AfterTelling
    <2>3. QED  BY <1>3, <2>2, GoPoint
  <1>8. ~Type(p)
    <2>1. SUFFICES ASSUME Type(p) PROVE FALSE  OBVIOUS
    <2>2. \E to \in {"mark", "read", "defer", "failRead"} : \E c : Go(p, to, c)
      BY <2>1 DEF Type, AfterTelling
    <2>3. QED  BY <1>3, <2>2, GoPoint
  <1>9. CASE Receipt(p)
    <2>1. requests' = requests  BY <1>9 DEF Receipt, queueVars
    <2>2. requests[r].status \in {"notified", "delivered"}
      BY <1>3, <1>9, GoPoint DEF Receipt
    <2>3. QED  BY <1>0, <2>1, <2>2
  <1>10. CASE MarkMail(p)
    <2>1. requests' = requests  BY <1>10 DEF MarkMail, queueVars
    <2>2. call[p].receipt \in {"notified", "delivered"}
      BY <1>3, <1>10, GoPoint DEF MarkMail
    <2>3. QED  BY <1>2, <1>0, <2>1, <2>2 DEF Done
  <1>11. CASE MarkRead(p)
    <2>1. requests' = requests  BY <1>11 DEF MarkRead, queueVars
    <2>2. requests[r].status \in {"notified", "delivered"}
      BY <1>3, <1>11, GoPoint DEF MarkRead
    <2>3. QED  BY <1>0, <2>1, <2>2
  <1>12. CASE MarkWrite(p)
    <2>1. call[p].kind # "poll" /\ call[p].kind # "ack"  OBVIOUS
    <2>2. QED  BY <1>12, <1>0, <2>1, MarkSettles
  <1>13. CASE Patch(p)
    <2>1. pc[p] = "patch" /\ Transition(r, "failed", "failed") /\ "failed" \in Status
      BY <1>13 DEF Patch, Status
    <2>2. QED  BY <1>2, <1>0, <2>1, ServedStays
  <1>14. CASE LeaveToHook(p) \/ Defer(p)
    <2>1. pc[p] \in {"queued", "defer"}  BY <1>14 DEF LeaveToHook, Defer
    <2>2. LeftBehind(call[p], requests[r]) /\ requests[r].status # "absent"
      BY <2>1 DEF Inv, ReadInv
    <2>3. Progress
      <3>1. CASE UNCHANGED queueVars  BY <3>1, NoChangeProgress
      <3>2. CASE Transition(r, "pending", "pending")
        BY <1>2, <3>2, TransitionProgress DEF Inv, Status
      <3>3. QED  BY <1>14, <3>1, <3>2 DEF LeaveToHook, Defer
    <2>4. requests'[r].via = requests[r].via  BY <1>2, <2>2, <2>3 DEF Progress
    <2>5. QED  BY <2>2, <2>4 DEF SettledOrLeft, LeftBehind
  <1>15. QED
    BY <1>4, <1>5, <1>6, <1>7, <1>8, <1>9, <1>10, <1>11, <1>12, <1>13, <1>14 DEF Step

\* Only a step of its own ends a call with an answer.
LEMMA NextSettles ==
  ASSUME Inv, [Next]_vars, NEW q \in Caller,
         call[q].kind \in {"send", "post", "instruct"}, call[q].req # 0,
         pc'[q] = "idle", answer'[q] = "ok"
  PROVE  SettledOrLeft(q)
  <1>1. pc[q] # "idle" /\ CallType  BY TypeParts DEF Inv, CallInv
  <1>2. ASSUME NEW p \in Caller, NEW k, NEW i, NEW to, Begin(p, k, i, to) PROVE FALSE
    BY <1>1, <1>2 DEF Begin, CallType
  <1>3. ASSUME NEW p \in Caller, Crash(p) PROVE FALSE
    BY <1>1, <1>3 DEF Crash, CallType
  <1>4. ASSUME callVars' = callVars PROVE FALSE
    BY <1>1, <1>4 DEF callVars
  <1>5. ASSUME NEW p \in Caller, Step(p) PROVE p = q
    BY <1>1, <1>5, StepPoint
  <1>6. ASSUME NEW p \in Caller, NEW k, NEW i, Send(p, k, i) \/ Instruct(p, i) \/ Ack(p, i) PROVE FALSE
    BY <1>2, <1>6 DEF Send, Instruct, Ack
  <1>7. ASSUME NEW p \in Caller, Poll(p) PROVE FALSE
    BY <1>2, <1>7 DEF Poll
  <1>8. ASSUME (\E cold \in BOOLEAN : DrainBegin(cold)) \/ HookStep \/ HookCrash \/ Recover \/ PaneChanges
        PROVE  FALSE
    BY <1>4, <1>8 DEF DrainBegin, HookStep, DrainSkip, DrainInject, DrainMark, DrainWrite,
                      HookCrash, Recover, PaneChanges
  <1>9. ASSUME UNCHANGED vars PROVE FALSE
    BY <1>4, <1>9 DEF vars
  <1>10. Step(q)
    BY <1>3, <1>5, <1>6, <1>7, <1>8, <1>9 DEF Next
  <1>11. QED  BY <1>10, StepSettles

\* AnsweredSettled: the request of a sender that is answered ok is no longer pending, unless
\* the sender has not waited for the hook: then it is one the hook is to type, or the direct
\* one of a leader without a pane, whose mailbox has the trigger.
THEOREM Answered == Spec => AnsweredSettled
  <1> DEFINE A == \A p \in Caller :
                     /\ call[p].kind \in {"send", "post", "instruct"}
                     /\ call[p].req # 0
                     /\ pc'[p] = "idle"
                     /\ answer'[p] = "ok"
                     => \/ requests'[call[p].req].status # "pending"
                        \/ LeftBehind(call[p], requests'[call[p].req])
  <1>1. Inv /\ [Next]_vars => A  BY NextSettles DEF SettledOrLeft
  <1>2. Spec => [][A]_vars
    <2> HIDE DEF A
    <2>1. Spec => [][Next]_vars  BY PTL DEF Spec
    <2>2. QED  BY <1>1, <2>1, SpecInv, PTL
  <1>3. QED  BY <1>2 DEF AnsweredSettled

-----------------------------------------------------------------------------
(* Dispatch implements Delivery *)

\* Requests that move along the edges, or not at all.
LEMMA MapMove ==
  ASSUME Inv, Inv', UNCHANGED <<boxVars, knowVars>>,
         \A r \in Request :
            requests'[r] # requests[r] =>
               /\ requests[r].status # "absent" /\ requests'[r].status # "absent"
               /\ requests'[r].item = requests[r].item
               /\ CanTransition(requests[r].status, requests'[r].status)
               /\ requests'[r].status = "notified" => Known(requests[r].item)
               /\ requests'[r].status = "delivered" => requests[r].item \in read
  PROVE  D!Move
  <1>1. ASSUME NEW r \in Request
        PROVE  /\ QueueView[r] = [item |-> requests[r].item, status |-> requests[r].status]
               /\ QueueView'[r] = [item |-> requests'[r].item, status |-> requests'[r].status]
    BY DEF QueueView
  <1>2. ASSUME NEW r \in Request PROVE QueueView'[r] \in D!Queued \cup {D!Absent}
    <2>1. requests'[r] \in KeptRequests  BY DEF Inv, TypeOK
    <2>2. \/ requests'[r] = NoRequest
          \/ requests'[r].item \in Item /\ requests'[r].status \in Status
      BY <2>1, Kept
    <2>3. CASE requests'[r] = NoRequest
      BY <2>3 DEF QueueView, D!Absent, NoRequest
    <2>4. CASE requests'[r].item \in Item /\ requests'[r].status \in Status
      BY <2>4 DEF QueueView, D!Queued, D!Status, D!Item, Item, Status
    <2>5. QED  BY <2>2, <2>3, <2>4
  <1>3. QueueView' \in [Request -> D!Queued \cup {D!Absent}]
    <2>1. QueueView' = [r \in Request |-> QueueView'[r]]  BY DEF QueueView
    <2>2. QED  BY <1>2, <2>1
  <1>4. ASSUME NEW r \in Request, QueueView'[r] # QueueView[r]
        PROVE  /\ QueueView[r] # D!Absent
               /\ QueueView'[r] # D!Absent
               /\ QueueView'[r].item = QueueView[r].item
               /\ D!Edge(QueueView[r].status, QueueView'[r].status)
               /\ QueueView'[r].status = "notified" => D!Known(QueueView[r].item)
               /\ QueueView'[r].status = "delivered" => QueueView[r].item \in read
    <2>1. requests'[r] # requests[r]  BY <1>1, <1>4
    <2>2. /\ QueueView[r].item = requests[r].item /\ QueueView[r].status = requests[r].status
          /\ QueueView'[r].item = requests'[r].item /\ QueueView'[r].status = requests'[r].status
      BY DEF QueueView
    <2>3. QueueView[r] # D!Absent /\ QueueView'[r] # D!Absent
      BY <2>1, <2>2 DEF D!Absent
    <2>4. D!Edge(QueueView[r].status, QueueView'[r].status)
      BY <2>1, <2>2 DEF D!Edge, CanTransition
    <2>5. QED
      BY <2>1, <2>2, <2>3, <2>4 DEF D!Known, Known
  <1>5. UNCHANGED <<sent, told, read, notified, delivered>>  BY DEF boxVars, knowVars
  <1>6. QED  BY <1>3, <1>4, <1>5 DEF D!Move, D!Request, Request

\* Nothing that Delivery knows of.
LEMMA MapQuiet ==
  ASSUME Inv, Inv', UNCHANGED <<boxVars, knowVars, requests>>
  PROVE  D!Move
  BY MapMove

LEMMA MapTransition ==
  ASSUME Inv, Inv', UNCHANGED <<boxVars, knowVars>>,
         NEW r \in Request, NEW from, NEW to \in Status, Transition(r, from, to),
         to = "notified" => Known(requests[r].item),
         to = "delivered" => requests[r].item \in read
  PROVE  D!Move
  <1>1. CASE UNCHANGED queueVars  BY <1>1, MapQuiet DEF queueVars
  <1>2. CASE ~UNCHANGED queueVars
    <2>1. /\ Accepted(r, from, to)
          /\ requests[r].status # "absent"
          /\ requests'[r] = Moved(requests[r], to)
          /\ \A s \in Request : s # r => requests'[s] = requests[s]
      BY <1>2, TransitionStep DEF Inv
    <2>2. /\ requests'[r].item = requests[r].item /\ requests'[r].status = to
      BY <2>1, MovedType DEF Inv, TypeOK
    <2>3. "absent" \notin Status  BY DEF Status
    <2>4. QED  BY <2>1, <2>2, <2>3, MapMove DEF Accepted
  <1>3. QED  BY <1>1, <1>2

\* A recipient is told, or was told before, or is not told.
LEMMA MapTell ==
  ASSUME Inv, Inv', NEW i \in Item, i \in sent, UNCHANGED <<boxVars, read, requests>>,
         told' = told \cup {i} \/ told' = told
  PROVE  (\E j \in Item : D!Tell(j)) \/ D!Move
  <1>1. CASE told' = told  BY <1>1, MapQuiet DEF knowVars
  <1>2. CASE told' = told \cup {i}
    <2>1. QueueView' = QueueView  BY DEF QueueView
    <2>2. D!Tell(i)  BY <1>2, <2>1 DEF D!Tell, boxVars
    <2>3. QED  BY <2>2
  <1>3. QED  BY <1>1, <1>2

LEMMA MapMark ==
  ASSUME NEW i \in Mail, Known(i), notified' = notified \cup {i},
         UNCHANGED <<sent, delivered, knowVars, requests>>
  PROVE  D!Mark(i)
  <1>1. QueueView' = QueueView  BY DEF QueueView
  <1>2. QED  BY <1>1 DEF D!Mark, D!Known, Known, knowVars

LEMMA MapWrite ==
  ASSUME NEW i \in Item, sent' = sent \cup {i},
         UNCHANGED <<notified, delivered, knowVars, requests>>
  PROVE  D!Write(i)
  <1>1. QueueView' = QueueView  BY DEF QueueView
  <1>2. QED  BY <1>1 DEF D!Write, knowVars

LEMMA MapRead ==
  ASSUME NEW p \in Caller, NEW i \in Mail, Ack(p, i)
  PROVE  D!Read(i)
  <1>1. QueueView' = QueueView  BY DEF QueueView, Ack, queueVars
  <1>2. QED  BY <1>1 DEF D!Read, Ack

\* A request is queued when no other of its item is pending.
LEMMA MapQueue ==
  ASSUME Inv, Inv', NEW p \in Caller, Enqueue(p)
  PROVE  \E i \in Item, r \in Request : D!Queue(r, i)
  <1> DEFINE i == call[p].item
             n == [item |-> i, status |-> "pending", via |-> Via(p), tries |-> 0]
  <1>1. /\ pc[p] = "enqueue" /\ PendingFor(i) = {}
        /\ UNCHANGED <<boxVars, knowVars>>
    BY DEF Enqueue
  <1>2. PICK r \in Unused : requests' = [requests EXCEPT ![r] = n]
    BY DEF Enqueue
  <1>3. r \in Request /\ requests[r] = NoRequest  BY <1>2 DEF Unused
  <1>4. i \in Item /\ i \in sent
    BY <1>1, DispatchAssumption DEF Inv, TypeOK, CallInv, Calls
  <1>5. QueueView' = [QueueView EXCEPT ![r] = [item |-> i, status |-> "pending"]]
    <2>1. requests'[r] = n /\ \A s \in Request \ {r} : requests'[s] = requests[s]
      BY <1>2, <1>3 DEF Inv, TypeOK
    <2>2. QueueView'[r] = [item |-> i, status |-> "pending"]
      BY <2>1, <1>3 DEF QueueView
    <2>3. \A s \in Request \ {r} : QueueView'[s] = QueueView[s]
      BY <2>1 DEF QueueView
    <2>4. /\ QueueView = [s \in Request |-> QueueView[s]]
          /\ QueueView' = [s \in Request |-> QueueView'[s]]
      BY DEF QueueView
    <2>5. QED  BY <1>3, <2>2, <2>3, <2>4
  <1>6. QueueView[r] = D!Absent  BY <1>3 DEF QueueView, D!Absent, NoRequest
  <1>7. \A q \in Request : QueueView[q].item = i => QueueView[q].status # "pending"
    BY <1>1 DEF QueueView, PendingFor
  <1>8. UNCHANGED <<sent, told, read, notified, delivered>>
    BY <1>1 DEF boxVars, knowVars
  <1>9. D!Queue(r, i)
    BY <1>4, <1>5, <1>6, <1>7, <1>8 DEF D!Queue, D!Request, Request
  <1>10. QED  BY <1>3, <1>4, <1>9

\* What the hook writes back: its own changes, along the edges.
LEMMA MapDrainWrite ==
  ASSUME Inv, Inv', DrainWrite
  PROVE  D!Move
  <1>1. requests' = copy /\ UNCHANGED <<boxVars, knowVars>> /\ hookPc = "drain"
    BY DEF DrainWrite
  <1>2. \A r \in Request : CopyOK(r)  BY <1>1 DEF Inv, HookInv
  <1>3. ASSUME NEW r \in Request, requests'[r] # requests[r]
        PROVE  /\ requests[r].status # "absent" /\ requests'[r].status # "absent"
               /\ requests'[r].item = requests[r].item
               /\ CanTransition(requests[r].status, requests'[r].status)
               /\ requests'[r].status = "notified" => Known(requests[r].item)
               /\ requests'[r].status = "delivered" => requests[r].item \in read
    BY <1>1, <1>2, <1>3 DEF CopyOK, CanTransition, Known
  <1>4. QED  BY <1>1, <1>3, MapMove

\* A step of a caller.
LEMMA MapStep ==
  ASSUME Inv, Inv', NEW p \in Caller, Step(p)
  PROVE  \/ \E i \in Item : D!Tell(i)
         \/ \E i \in Mail : D!Mark(i)
         \/ \E i \in Item, r \in Request : D!Queue(r, i)
         \/ D!Move
  <1>1. CASE PollNext(p) \/ PollEnd(p) \/ Reuse(p) \/ EnqueueFails(p) \/ LeaveToHook(p)
             \/ Receipt(p) \/ MarkRead(p) \/ FailRead(p) \/ AckFind(p) \/ AckRead(p)
    <2>1. UNCHANGED <<boxVars, knowVars, queueVars>>
      BY <1>1 DEF PollNext, PollEnd, Reuse, EnqueueFails, LeaveToHook, Receipt, MarkRead, FailRead,
                  AckFind, AckRead
    <2>2. QED  BY <2>1, MapQuiet DEF queueVars
  <1>2. CASE Enqueue(p)  BY <1>2, MapQueue
  <1>3. CASE Defer(p)
    <2>1. pc[p] = "defer" /\ UNCHANGED <<boxVars, knowVars>>  BY <1>3 DEF Defer
    <2>2. call[p].req \in Request  BY <2>1, AtWork
    <2>3. CASE UNCHANGED queueVars  BY <2>1, <2>3, MapQuiet DEF queueVars
    <2>4. CASE Transition(call[p].req, "pending", "pending")
      BY <2>1, <2>2, <2>4, MapTransition DEF Status
    <2>5. QED  BY <1>3, <2>3, <2>4 DEF Defer
  <1>4. CASE Type(p) \/ Fallback(p)
    <2>1. /\ pc[p] \in {"type", "fallback"} /\ UNCHANGED <<boxVars, queueVars, read>>
          /\ \E ok \in BOOLEAN : Tell(call[p].item, ok)
      BY <1>4 DEF Type, Fallback
    <2>2. call[p].item \in Item /\ call[p].item \in sent  BY <2>1, AtWork
    <2>3. QED  BY <2>1, <2>2, MapTell DEF Tell, queueVars
  <1>5. CASE MarkMail(p)
    <2>1. /\ pc[p] = "mark" /\ notified' = notified \cup {call[p].item}
          /\ UNCHANGED <<sent, delivered, queueVars, knowVars>>
      BY <1>5 DEF MarkMail
    <2>2. call[p].item \in Mail /\ Known(call[p].item)  BY <2>1 DEF Inv, CallInv
    <2>3. QED  BY <2>1, <2>2, MapMark DEF queueVars
  <1>6. CASE MarkWrite(p)
    <2>1. /\ pc[p] = "write" /\ Transition(call[p].req, call[p].seen, "notified")
          /\ UNCHANGED <<boxVars, knowVars>>
      BY <1>6 DEF MarkWrite
    <2>2. call[p].req \in Request /\ requests[call[p].req].item = call[p].item
      BY <2>1, AtWork
    <2>3. Known(call[p].item)  BY <2>1 DEF Inv, CallInv
    <2>4. QED  BY <2>1, <2>2, <2>3, MapTransition DEF Status
  <1>7. CASE Patch(p) \/ FailWrite(p)
    <2>1. /\ pc[p] \in {"patch", "failWrite"} /\ UNCHANGED <<boxVars, knowVars>>
          /\ \E from : Transition(call[p].req, from, "failed")
      BY <1>7 DEF Patch, FailWrite
    <2>2. call[p].req \in Request  BY <2>1, AtWork
    <2>3. QED  BY <2>1, <2>2, MapTransition DEF Status
  <1>8. CASE AckWrite(p)
    <2>1. /\ pc[p] = "ackWrite" /\ Transition(call[p].req, call[p].seen, "delivered")
          /\ UNCHANGED <<boxVars, knowVars>>
      BY <1>8 DEF AckWrite
    <2>2. call[p].req \in Request /\ requests[call[p].req].item = call[p].item
      BY <2>1, AtWork
    <2>3. call[p].item \in read  BY <2>1 DEF Inv, CallInv
    <2>4. QED  BY <2>1, <2>2, <2>3, MapTransition DEF Status
  <1>9. QED
    BY <1>1, <1>2, <1>3, <1>4, <1>5, <1>6, <1>7, <1>8 DEF Step

\* A step of the hook.
LEMMA MapHook ==
  ASSUME Inv, Inv', HookStep
  PROVE  (\E i \in Item : D!Tell(i)) \/ (\E i \in Mail : D!Mark(i)) \/ D!Move
  <1>1. CASE DrainSkip
    BY <1>1, MapQuiet DEF DrainSkip, queueVars
  <1>2. CASE DrainInject
    <2>1. /\ hookPc = "drain" /\ next <= MaxRequests /\ ForHook(copy[next])
          /\ UNCHANGED <<boxVars, queueVars, read>>
          /\ told' = told \cup {copy[next].item} \/ told' = told
      BY <1>2 DEF DrainInject
    <2>2. next \in Request  BY <2>1, DispatchAssumption DEF Inv, TypeOK, Request
    <2>3. copy[next].item \in Item /\ copy[next].item \in sent
      BY <2>1, <2>2, HookTarget
    <2>4. QED  BY <2>1, <2>3, MapTell DEF queueVars
  <1>3. CASE DrainMark
    <2>1. /\ hookPc = "mark" /\ notified' = notified \cup {copy[next].item}
          /\ UNCHANGED <<sent, delivered, queueVars, knowVars>>
      BY <1>3 DEF DrainMark
    <2>2. copy[next].item \in Mail /\ Known(copy[next].item)
      BY <2>1 DEF Inv, HookInv, Known
    <2>3. QED  BY <2>1, <2>2, MapMark DEF queueVars
  <1>4. CASE DrainWrite  BY <1>4, MapDrainWrite
  <1>5. QED  BY <1>1, <1>2, <1>3, <1>4 DEF HookStep

\* Every step of the code is a step of Delivery.
LEMMA MapNext ==
  ASSUME Inv, Inv', [Next]_vars
  PROVE  D!DeliveryNext
  <1>1. ASSUME NEW p \in Caller, NEW k, NEW i \in Mail, Send(p, k, i) PROVE D!DeliveryNext
    <2>1. i \in Item  BY DEF Item
    <2>2. D!Write(i)  BY <1>1, <2>1, MapWrite DEF Send, queueVars
    <2>3. QED  BY <2>1, <2>2 DEF D!DeliveryNext, D!Item, Item
  <1>2. ASSUME NEW p \in Caller, NEW i \in Inbox, Instruct(p, i) PROVE D!DeliveryNext
    <2>1. i \in Item  BY DEF Item
    <2>2. D!Write(i)  BY <1>2, <2>1, MapWrite DEF Instruct, queueVars
    <2>3. QED  BY <2>1, <2>2 DEF D!DeliveryNext, D!Item, Item
  <1>3. ASSUME NEW p \in Caller, NEW i \in Mail, Ack(p, i) PROVE D!DeliveryNext
    BY <1>3, MapRead DEF D!DeliveryNext
  <1>4. ASSUME NEW p \in Caller, Step(p) PROVE D!DeliveryNext
    BY <1>4, MapStep DEF D!DeliveryNext, D!Item, Item, D!Request, Request
  <1>5. CASE HookStep
    BY <1>5, MapHook DEF D!DeliveryNext, D!Item, Item
  <1>6. ASSUME UNCHANGED <<boxVars, knowVars, queueVars>> PROVE D!DeliveryNext
    BY <1>6, MapQuiet DEF D!DeliveryNext, queueVars
  <1>7. ASSUME NEW p \in Caller, Poll(p) \/ Crash(p) PROVE D!DeliveryNext
    BY <1>6, <1>7 DEF Poll, Crash
  <1>8. ASSUME (\E cold \in BOOLEAN : DrainBegin(cold)) \/ HookCrash \/ Recover \/ PaneChanges
        PROVE  D!DeliveryNext
    BY <1>6, <1>8 DEF DrainBegin, HookCrash, Recover, PaneChanges
  <1>9. CASE UNCHANGED vars  BY <1>6, <1>9 DEF vars
  <1>10. QED
    BY <1>1, <1>2, <1>3, <1>4, <1>5, <1>7, <1>8, <1>9 DEF Next

\* Refinement: the queue, the mailboxes and the marks of the code are those of Delivery at
\* every step.
THEOREM Implements == Spec => Refinement
  <1>1. Init => D!DeliveryInit
    BY DEF Init, D!DeliveryInit, QueueView, D!Absent, NoRequest, D!Request, Request
  <1>2. Inv /\ Inv' /\ [Next]_vars => D!DeliveryNext
    BY MapNext
  <1>3. Spec => D!DeliveryInit /\ [][D!DeliveryNext]_(D!deliveryVars)
    <2>1. Spec => Init /\ [][Next]_vars  BY PTL DEF Spec
    <2>2. QED  BY <1>1, <1>2, <2>1, SpecInv, PTL
  <1>4. QED  BY <1>3 DEF Refinement, D!DeliverySpec

=============================================================================
