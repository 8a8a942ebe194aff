---------------------------- MODULE RuntimeEngine ----------------------------
(***************************************************************************)
(* The runtime engine of src/crates/omq-runtime-core and the command       *)
(* `omq-runtime exec', which the TypeScript side starts for every change it*)
(* mirrors (src/src/runtime/bridge.ts).  An invocation loads events.json   *)
(* under a shared lock and replays it, processes one command in memory,    *)
(* may compact the log, and then, in sections of its own, persists the     *)
(* files under an exclusive lock.  Invocations overlap, and the bridge     *)
(* kills one that takes too long.                                          *)
(*                                                                         *)
(* A command and the event it is recorded as are one pair: what it does and*)
(* to what.  Timestamps, targets and bodies are left out, as are the files *)
(* of the compatibility view, which no invocation reads.                   *)
(***************************************************************************)
EXTENDS Integers, FiniteSets, SequencesExt

CONSTANTS Exec,         \* the invocations that may run at once
          Request,      \* ids of dispatch requests
          Message,      \* ids of mailbox messages
          Owner,        \* who may hold the authority
          Nobody,       \* no owner, no holder of the lock
          Torn,         \* a file that does not parse, or is not there
          MaxCommands   \* bound: the commands that are processed

ASSUME EngineAssumption ==
    /\ Nobody \notin Owner \cup Exec
    /\ MaxCommands \in Nat

VARIABLES
    events,     \* events.json
    backlog,    \* the requests snapshot.json counts as pending and as notified
    flock,      \* who holds engine.lock exclusively
    stage,      \* where each invocation is
    memory,     \* its engine: owner, requests, messages
    journal,    \* its event_log
    base,       \* history: the log it loaded
    commands,   \* how many commands were accepted
    accepted,   \* history: the events they are
    answered,   \* history: those whose caller was told
    whole,      \* history: the last persist that wrote went through
    overrun     \* history: the events that an overlap, a killed persist or a new
                \* init has removed

disk      == <<events, backlog, flock>>
local     == <<stage, memory, journal, base>>
told      == <<commands, accepted, answered>>
engineVars == <<disk, local, told, whole, overrun>>

-----------------------------------------------------------------------------
(* The engine in memory *)

Marks == {"notified", "delivered", "failed"}
Mail  == {"mail_notified", "mail_delivered"}

Event == {"acquired", "renewed"} \X Owner
         \cup ({"queued"} \cup Marks) \X Request
         \cup ({"created"} \cup Mail) \X Message

ASSUME TornAssumption == Torn \notin Seq(Event)

NewEngine == [owner    |-> Nobody,
              requests |-> [r \in Request |-> "none"],
              messages |-> [m \in Message |-> "none"]]

\* The states of a request in which a mark is accepted.
Before(mark) ==
    CASE mark = "notified"  -> {"pending"}
      [] mark = "delivered" -> {"notified"}
      [] mark = "failed"    -> {"pending", "notified"}

Accepts(m, e) ==
    CASE e[1] = "acquired"            -> m.owner \in {Nobody, e[2]}
      [] e[1] = "renewed"             -> m.owner = e[2]
      [] e[1] \in {"queued", "created"} -> TRUE
      [] e[1] \in Marks               -> m.requests[e[2]] \in Before(e[1])
      [] e[1] \in Mail                -> m.messages[e[2]] \in {"created", "mail_notified"}

Apply(m, e) ==
    CASE e[1] \in {"acquired", "renewed"} -> [m EXCEPT !.owner = e[2]]
      [] e[1] = "queued"          -> [m EXCEPT !.requests = [@ EXCEPT ![e[2]] = "pending"]]
      [] e[1] \in Marks           -> [m EXCEPT !.requests = [@ EXCEPT ![e[2]] = e[1]]]
      [] e[1] \in Mail \cup {"created"} ->
             [m EXCEPT !.messages = [@ EXCEPT ![e[2]] = e[1]]]

\* replay_event: what is refused is passed over.
ReplayEvent(m, e) == IF Accepts(m, e) THEN Apply(m, e) ELSE m

Replay(log) ==
    LET after[n \in 0..Len(log)] ==
            IF n = 0 THEN NewEngine ELSE ReplayEvent(after[n - 1], log[n])
    IN after[Len(log)]

Counted(m) == [s \in {"pending", "notified"} |-> {r \in Request : m.requests[r] = s}]

\* The log without the events in a set: retain.
Without(log, dropped) ==
    LET kept[n \in 0..Len(log)] ==
            IF n = 0 THEN <<>>
            ELSE IF log[n] \in dropped THEN kept[n - 1]
            ELSE Append(kept[n - 1], log[n])
    IN kept[Len(log)]

Ended(m) == {r \in Request : m.requests[r] \in {"delivered", "failed"}}

\* compact drops every event of a request that has ended.
CompactQueue(m, log) ==     \* mutant: the marks stay
    Without(log, {"queued"} \X Ended(m))

CompactMarks(m, log) ==     \* mutant: only the marks are dropped
    Without(log, Marks \X Ended(m))

CompactOpen(m, log) ==      \* mutant: also of a request that was only notified
    Without(log, ({"queued"} \cup Marks) \X {r \in Request : m.requests[r] \in Marks})

Compact(m, log) ==
    Without(log, ({"queued"} \cup Marks) \X Ended(m))

Logged(log) == IF log = Torn THEN {} ELSE ToSet(log)

-----------------------------------------------------------------------------

EngineInit ==
    /\ events = Torn
    /\ backlog = Counted(NewEngine)
    /\ flock = Nobody
    /\ stage = [p \in Exec |-> "idle"]
    /\ memory = [p \in Exec |-> NewEngine]
    /\ journal = [p \in Exec |-> <<>>]
    /\ base = [p \in Exec |-> Torn]
    /\ commands = 0
    /\ accepted = {} /\ answered = {}
    /\ whole = TRUE
    /\ overrun = {}

\* Ids of requests and messages are new ones.
Fresh(e) == e[1] \in {"queued", "created"} => e \notin accepted

Startable(p) == stage[p] = "idle" /\ commands < MaxCommands

Starts(p, m, log, read) ==
    /\ commands' = commands + 1
    /\ memory' = [memory EXCEPT ![p] = m]
    /\ journal' = [journal EXCEPT ![p] = log]
    /\ base' = [base EXCEPT ![p] = read]
    /\ stage' = [stage EXCEPT ![p] = "persist"]

\* exec up to persist: the shared lock is held while events.json is read, what
\* cannot be read is taken for an empty log, and what is refused ends in an error.
Begin(p, e, compacting) ==
    LET log    == IF events = Torn THEN <<>> ELSE events
        loaded == Replay(log)
        m      == Apply(loaded, e)
        longer == Append(log, e)
    IN /\ Startable(p)
       /\ flock = Nobody
       /\ Fresh(e)
       /\ Accepts(loaded, e)
       /\ Starts(p, m, IF compacting THEN Compact(m, longer) ELSE longer, events)
       /\ accepted' = accepted \cup {e}
       /\ UNCHANGED <<disk, answered, whole, overrun>>

\* omq-runtime init persists a new engine over whatever is there.
BeginInit(p) ==
    /\ Startable(p)
    /\ Starts(p, NewEngine, <<>>, Torn)
    /\ UNCHANGED <<disk, accepted, answered, whole, overrun>>

LockFiles(p) ==
    /\ stage[p] = "persist"
    /\ flock = Nobody
    /\ flock' = p
    /\ stage' = [stage EXCEPT ![p] = "snapshot"]
    /\ UNCHANGED <<events, backlog, memory, journal, base, told, whole, overrun>>

WriteSnapshot(p) ==
    /\ stage[p] = "snapshot"
    /\ backlog' = Counted(memory[p])
    /\ stage' = [stage EXCEPT ![p] = "truncate"]
    /\ whole' = FALSE
    /\ UNCHANGED <<events, flock, memory, journal, base, told, overrun>>

\* fs::write truncates first.
Truncate(p) ==
    /\ stage[p] = "truncate"
    /\ events' = Torn
    /\ stage' = [stage EXCEPT ![p] = "events"]
    /\ overrun' = IF events = base[p] THEN overrun
                  ELSE overrun \cup (Logged(events) \ ToSet(journal[p]))
    /\ UNCHANGED <<backlog, flock, memory, journal, base, told, whole>>

WriteEvents(p) ==
    /\ stage[p] = "events"
    /\ events' = journal[p]
    /\ flock' = Nobody
    /\ stage' = [stage EXCEPT ![p] = "answer"]
    /\ whole' = TRUE
    /\ UNCHANGED <<backlog, memory, journal, base, told, overrun>>

\* The invocation is over; what it knew is forgotten.
Gone(p) ==
    /\ stage' = [stage EXCEPT ![p] = "idle"]
    /\ memory' = [memory EXCEPT ![p] = NewEngine]
    /\ journal' = [journal EXCEPT ![p] = <<>>]
    /\ base' = [base EXCEPT ![p] = Torn]

\* What persist has not written, or has cut off, when it stops; the lock goes with
\* the file.
Stops(p) ==
    /\ stage[p] \in {"persist", "snapshot", "truncate", "events"}
    /\ flock' = IF flock = p THEN Nobody ELSE flock
    /\ overrun' = overrun \cup (ToSet(journal[p])
                                 \ (IF stage[p] = "events" THEN {} ELSE Logged(base[p])))
    /\ UNCHANGED <<events, backlog, commands, accepted, whole>>

\* exec ignores the error of a persist that fails, and answers.
PersistFails(p) ==
    /\ Stops(p)
    /\ stage' = [stage EXCEPT ![p] = "answer"]
    /\ UNCHANGED <<memory, journal, base, answered>>

\* The bridge kills what takes longer than its timeout.
Killed(p) ==
    /\ \/ Stops(p)
       \/ stage[p] = "answer" /\ UNCHANGED <<disk, commands, accepted, whole, overrun>>
    /\ Gone(p)
    /\ UNCHANGED answered

\* The event of the command, which compact may have dropped, was its last.
Answer(p) ==
    /\ stage[p] = "answer"
    /\ answered' = answered \cup (ToSet(journal[p]) \ Logged(base[p]))
    /\ Gone(p)
    /\ UNCHANGED <<disk, commands, accepted, whole, overrun>>

ExecStep(p) ==
    \/ \E e \in Event, compacting \in BOOLEAN : Begin(p, e, compacting)
    \/ BeginInit(p) \/ LockFiles(p) \/ WriteSnapshot(p) \/ Truncate(p) \/ WriteEvents(p)
    \/ PersistFails(p) \/ Killed(p) \/ Answer(p)

EngineNext == \E p \in Exec : ExecStep(p)

EngineSpec == EngineInit /\ [][EngineNext]_engineVars

-----------------------------------------------------------------------------
(* Properties *)

Memory == [owner    : Owner \cup {Nobody},
           requests : [Request -> {"none", "pending"} \cup Marks],
           messages : [Message -> {"none", "created"} \cup Mail]]

EngineTypeOK ==
    /\ events \in Seq(Event) \cup {Torn}
    /\ backlog \in [{"pending", "notified"} -> SUBSET Request]
    /\ flock \in Exec \cup {Nobody}
    /\ stage \in [Exec -> {"idle", "persist", "snapshot", "truncate", "events", "answer"}]
    /\ memory \in [Exec -> Memory]
    /\ journal \in [Exec -> Seq(Event)]
    /\ base \in [Exec -> Seq(Event) \cup {Torn}]
    /\ commands \in 0..MaxCommands
    /\ {accepted, answered, overrun} \subseteq SUBSET Event
    /\ whole \in BOOLEAN

\* No event of a log that can be read is refused when it is replayed, whichever
\* invocations have overlapped, been killed or compacted it.
LogReplays ==
    events # Torn =>
        \A i \in DOMAIN events : Accepts(Replay(SubSeq(events, 1, i - 1)), events[i])

\* After a persist that went through, a restart from events.json finds the requests
\* pending and notified that snapshot.json counts as such.
FilesAgree ==
    whole /\ events # Torn => backlog = Counted(Replay(events))

Over(e) ==
    e[1] \in {"queued"} \cup Marks
    /\ {<<"delivered", e[2]>>, <<"failed", e[2]>>} \cap accepted # {}

\* An event its caller was told of stays in the log, unless its request has ended, an
\* invocation that had loaded an older log wrote over it, a persist stopped halfway,
\* or init began anew.
AnsweredKept ==
    flock = Nobody =>
        \A e \in answered : e \in Logged(events) \cup overrun \/ Over(e)

=============================================================================
