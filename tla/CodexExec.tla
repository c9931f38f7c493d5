------------------------------ MODULE CodexExec ------------------------------
(***************************************************************************)
(* The Codex exec adapter (teacher/codex_exec.py): one teacher is opened    *)
(* (version probe), then answers requests one at a time under its lock.     *)
(* A call allocates an audit directory, runs the CLI as the leader of a     *)
(* process group of its own, follows its JSON event stream with a reader    *)
(* thread beside the waiting main thread, and publishes the call's audit    *)
(* trail (events, quarantine receipt, manifest) before it answers.  The     *)
(* caller keeps the answer in the teacher cache.  The module also holds     *)
(* the scan that human_audit.py makes of that trail: what it counts as      *)
(* malformed, and when it refuses the tree altogether.                      *)
(*                                                                         *)
(* The program may die between any two steps; files survive, stream do     *)
(* not.  Data is abstracted to what the properties tell apart: an event is  *)
(* its kind, a failure code is "provider" (provider_failure_event) or       *)
(* "other", a stored event stream is what the scan's life-cycle check says  *)
(* of it.  A line is chosen when the reader consumes it, which stands for   *)
(* every time at which the process may have written it.                     *)
(***************************************************************************)
EXTENDS Naturals, Sequences, FiniteSets

CONSTANTS
    Requests,     \* the request hashes the callers ask for
    MaxCalls,     \* bound: calls of generate in a behaviour
    MaxLines,     \* bound: lines a run of the CLI writes
    MaxEvents,    \* _MAX_JSON_EVENTS
    Lines,        \* the kinds of lines explored, out of AllLines
    MaxFaults     \* bound: failing file operations, identity changes, crashes

Calls == 1 .. MaxCalls

\* The lines the reader tells apart.  "long" is an agent message above the
\* output limit, "tool" any other completed item, "badusage" a turn.completed
\* with a wrong usage table, "malformed" a line refused before it is counted.
AllLines == {"thread", "turn", "reasoning", "message", "long", "tool", "done",
             "badusage", "error", "turnfailed", "unknown", "malformed"}

ASSUME RequestsAssumption == Requests # {}
ASSUME CallsAssumption  == MaxCalls \in Nat \ {0} /\ MaxFaults \in Nat
ASSUME LinesAssumption  == Lines \subseteq AllLines /\ MaxLines \in Nat
ASSUME EventsAssumption == MaxEvents \in Nat \ {0}

VARIABLES
    teacher,      \* "none", "ready", "failed" (could not be opened) or "closed"
    pc,           \* where the thread inside the adapter is
    mode,         \* what the process is run for: "version" or "exec"
    call,         \* the number of the call in progress, or of the last one
    request,      \* its request hash
    phase,        \* _JsonlState.phase
    events,       \* _JsonlState.events, as kinds
    leader,       \* the CLI: "none", "running", "zero" or "nonzero" (its exit)
    member,       \* a descendant in the process group of the CLI is alive
    reader,       \* the stdout reader: "off", "reading" or "done"
    readerFailure,\* its result.failure
    pipes,        \* "open" or "closed"
    failure,      \* failure_code
    answered,     \* response is not None
    private,      \* the private root of the call exists
    counted,      \* how many events the manifest's event_counts cover
    audit,        \* per call: the files of its attempt directory
    cache,        \* per request: the call whose answer the cache holds, 0 if none
    outcome,      \* history: what the caller of each call saw
    faults        \* how many faults were used up

process == <<leader, member>>
stream  == <<phase, events, reader, readerFailure>>
result  == <<failure, answered, private, counted>>
durable == <<audit, cache>>
place   == <<teacher, mode, call, request>>
vars == <<place, pc, process, stream, pipes, result, durable, outcome, faults>>

-----------------------------------------------------------------------------
(* The event protocol: _JsonlState.consume and finish.                      *)

\* The phase a line leads to, where the protocol accepts it.
NextPhase(ph, line) ==
    CASE ph = "initial"  /\ line = "thread"    -> "thread"
      [] ph = "thread"   /\ line = "turn"      -> "turn"
      [] ph = "turn"     /\ line = "reasoning" -> "turn"
      [] ph = "turn"     /\ line = "message"   -> "answered"
      [] ph = "answered" /\ line = "done"      -> "completed"
      [] OTHER -> "refused"

\* The failure of a line the protocol refuses: the provider's own failure
\* events are told apart, except after the message, where only the order counts.
Refusal(ph, line) ==
    IF line \in {"error", "turnfailed"} /\ ph # "answered" THEN "provider" ELSE "other"

\* Mutant of Uncounted: no line is refused before it counts.
NeverUncounted(evs, line) == FALSE

\* A full list of events and a malformed line are refused before they count.
Uncounted(evs, line) == Len(evs) >= MaxEvents \/ line = "malformed"

-----------------------------------------------------------------------------
(* The audit trail and what the scan of human_audit.py makes of it.         *)

Files == {"events", "quarantine", "manifest", "tmp"}
NoAudit == [dir |-> "none", req |-> "none", names |-> {}, trail |-> "other",
            honest |-> FALSE, status |-> "none", code |-> "none"]

\* _validate_metadata_lifecycle: the only two event streams it accepts.
Lifecycle(evs) ==
    LET n == Len(evs) IN
    IF /\ n >= 4
       /\ evs[1] = "thread" /\ evs[2] = "turn"
       /\ evs[n - 1] = "message" /\ evs[n] = "done"
       /\ \A i \in 3 .. n - 2 : evs[i] = "reasoning"
    THEN "answer"
    ELSE IF evs = <<"thread", "turn", "error">> THEN "failure" ELSE "other"

Committed(c) == "manifest" \in audit[c].names /\ audit[c].status = "committed"

\* _validate_manifest_contract, as far as a manifest of this program can break
\* it: a committed manifest has no failure code, a quarantined one has one.
Contract(a) == (a.status = "committed" /\ a.code = "none")
                 \/ (a.status = "quarantined" /\ a.code # "none")

\* _expected_transaction_files.
TransactionFiles(a) == {"manifest", "events"} \cup
                         (IF a.status = "committed" THEN {} ELSE {"quarantine"})

\* Mutant of Accounted: a committed attempt is not looked up in the cache.
AccountedWithoutCache(c) ==
    LET a == audit[c] IN
    /\ a.dir = "attempt" /\ a.honest
    /\ \/ a.status = "committed" /\ a.names = {"manifest", "events"}
       \/ a.status = "quarantined" /\ a.trail = "failure" /\ a.code = "provider"

\* One attempt passes: its transaction is exact, its events agree with the
\* manifest, and a committed one is the answer the cache holds.
Accounted(c) ==
    LET a == audit[c] IN
    /\ a.dir = "attempt"
    /\ Contract(a) /\ a.names = TransactionFiles(a)
    /\ a.honest
    /\ \/ /\ a.status = "committed"
          /\ a.trail = "answer"
          /\ cache[a.req] = c
       \/ /\ a.status = "quarantined"
          /\ a.trail = "failure" /\ a.code = "provider"

\* _walk_audit_manifests raises on an invocation without its one attempt.
WalkRefused == \E c \in Calls : audit[c].dir = "invocation"

\* _empty_audit_request_count: request directories with no invocation in them.
EmptyRequests ==
    {r \in Requests :
        /\ \E c \in Calls : audit[c].req = r /\ audit[c].dir = "request"
        /\ \A c \in Calls : audit[c].req = r => audit[c].dir \in {"none", "request"}}

\* _teacher_cache_response_index: the calls whose answer a cache entry holds.
CachedAnswers == {cache[r] : r \in {q \in Requests : cache[q] # 0}}

\* Cached answers no committed manifest refers to.
Unreferenced == {c \in CachedAnswers : ~Committed(c)}

Malformed ==
    Cardinality(EmptyRequests) + Cardinality(Unreferenced)
      + Cardinality({c \in Calls : audit[c].dir = "attempt" /\ ~Accounted(c)})

ScanClean == ~WalkRefused /\ Malformed = 0

-----------------------------------------------------------------------------

Init ==
    /\ teacher = "none" /\ pc = "idle" /\ mode = "version"
    /\ call = 0 /\ request = CHOOSE r \in Requests : TRUE
    /\ phase = "initial" /\ events = <<>>
    /\ leader = "none" /\ member = FALSE
    /\ reader = "off" /\ readerFailure = "none"
    /\ pipes = "closed"
    /\ failure = "none" /\ answered = FALSE
    /\ private = FALSE /\ counted = 0
    /\ audit = [c \in Calls |-> NoAudit]
    /\ cache = [r \in Requests |-> 0]
    /\ outcome = [c \in Calls |-> "none"]
    /\ faults = 0

Fault == faults < MaxFaults /\ faults' = faults + 1

\* The fresh _JsonlState, results and flags a run starts from.
Fresh ==
    /\ phase' = "initial" /\ events' = <<>>
    /\ reader' = "off" /\ readerFailure' = "none"
    /\ pipes' = "closed"
    /\ leader' = "none" /\ member' = FALSE
    /\ failure' = "none" /\ answered' = FALSE
    /\ counted' = 0

\* The provider table, the credentials or the executable are not as pinned.
OpenRefused == Fault /\ teacher' = "failed"

\* __init__: the pinned executable and the credentials are read, a private
\* root without a workspace is made, and the version is probed in it.
OpenTeacher ==
    /\ pc = "idle" /\ teacher = "none"
    /\ mode' = "version"
    /\ Fresh
    /\ \/ pc' = "start" /\ private' = TRUE /\ UNCHANGED <<teacher, faults>>
       \/ OpenRefused /\ UNCHANGED <<pc, private>>
    /\ UNCHANGED <<call, request, durable, outcome>>

CloseTeacher ==
    /\ pc = "idle" /\ teacher = "ready"
    /\ teacher' = "closed"
    /\ UNCHANGED <<pc, mode, call, request, process, stream, pipes, result,
                   durable, outcome, faults>>

\* A cached answer is returned without a call (CachingTeacher.generate).
\* Otherwise generate takes the lock and starts an attempt.
Ask ==
    /\ pc = "idle" /\ teacher = "ready" /\ call < MaxCalls
    /\ \E r \in Requests :
         /\ cache[r] = 0
         /\ request' = r
         /\ audit' = [audit EXCEPT ![call + 1].req = r]
    /\ call' = call + 1
    /\ outcome' = [outcome EXCEPT ![call + 1] = "open"]
    /\ mode' = "exec" /\ pc' = "directories"
    /\ Fresh
    /\ UNCHANGED <<teacher, private, cache, faults>>

Refuse ==
    /\ pc' = "idle"
    /\ outcome' = [outcome EXCEPT ![call] = "refused"]

\* _attempt_directory: request, invocation and attempt directory, one mkdir
\* after the other; a failing one ends the call without an audit.
NextDirectory == [none |-> "request", request |-> "invocation", invocation |-> "attempt"]

MakeDirectory ==
    /\ pc = "directories"
    /\ \/ LET d == NextDirectory[audit[call].dir] IN
          /\ audit' = [audit EXCEPT ![call].dir = d]
          /\ pc' = IF d = "attempt" THEN "encode" ELSE pc
          /\ UNCHANGED <<outcome, faults>>
       \/ Fault /\ Refuse /\ UNCHANGED audit
    /\ UNCHANGED <<place, process, stream, pipes, result, cache>>

\* What fails before the process goes straight to the audit, quarantined.
Unprepared == Fault /\ pc' = "events" /\ failure' = "other"

\* The request and the schema made for the CLI are within their bounds.
EncodeRequest ==
    /\ pc = "encode"
    /\ (pc' = "prepare" /\ UNCHANGED <<failure, faults>>) \/ Unprepared
    /\ UNCHANGED <<place, private, process, stream, pipes, answered, counted, durable, outcome>>

\* The private root is made, with the credentials and the request in it.
Prepare ==
    /\ pc = "prepare"
    /\ \/ pc' = "start" /\ private' = TRUE /\ UNCHANGED <<failure, faults>>
       \/ Unprepared /\ UNCHANGED private
    /\ UNCHANGED <<place, process, stream, pipes, answered, counted, durable, outcome>>

-----------------------------------------------------------------------------
(* _run and _probe_cli_version: the life of the process.                    *)

\* The executable is checked and the group and its threads are started.
StartProcess ==
    /\ pc = "start"
    /\ \/ /\ leader' = "running"
          /\ member' \in BOOLEAN
          /\ reader' = "reading" /\ pipes' = "open"
          /\ pc' = "wait"
          /\ UNCHANGED <<failure, faults>>
       \/ /\ Fault /\ failure' = "other" /\ pc' = "remove"
          /\ UNCHANGED <<leader, member, reader, pipes>>
    /\ UNCHANGED <<place, phase, events, readerFailure, answered,
                   private, counted, durable, outcome>>

\* Mutant of Wait: the loop has no deadline.
WaitForEver ==
    /\ pc = "wait"
    /\ \/ readerFailure # "none" /\ failure' = readerFailure /\ pc' = "kill"
       \/ /\ leader \in {"zero", "nonzero"} /\ reader = "done"
          /\ pc' = "join" /\ UNCHANGED failure
    /\ UNCHANGED <<place, process, stream, pipes, answered, private, counted,
                   durable, outcome, faults>>

\* The turn of the waiting loop that leaves it: the reader failed, the process
\* ended and every thread is done (a failure that came since the loop looked
\* for one is met again by Join), or, at any time, the stderr reader or the
\* stdin writer failed or the deadline has passed.
Wait ==
    /\ pc = "wait"
    /\ \/ readerFailure # "none" /\ failure' = readerFailure /\ pc' = "kill"
       \/ /\ leader \in {"zero", "nonzero"} /\ reader = "done"
          /\ IF mode = "version" /\ leader = "nonzero"
             THEN failure' = "other" /\ pc' = "kill"
             ELSE pc' = "join" /\ UNCHANGED failure
       \/ readerFailure = "none" /\ failure' = "other" /\ pc' = "kill"
    /\ UNCHANGED <<place, process, stream, pipes, answered, private, counted,
                   durable, outcome, faults>>

\* Mutant of Join: the failures are not looked at again.
JoinWithoutAnotherLook ==
    /\ pc = "join" /\ pc' = "kill"
    /\ UNCHANGED <<place, process, stream, pipes, result, durable, outcome, faults>>

\* The threads are joined within what is left of the deadline, which may be
\* nothing, and their failures looked at again.
Join ==
    /\ pc = "join"
    /\ \/ readerFailure = "none" /\ failure' = "other" /\ pc' = "kill"
       \/ readerFailure # "none" /\ failure' = readerFailure /\ pc' = "kill"
       \/ readerFailure = "none" /\ pc' = "kill" /\ UNCHANGED failure
    /\ UNCHANGED <<place, process, stream, pipes, answered, private, counted,
                   durable, outcome, faults>>

\* Mutant of TerminateGroup: an ended leader is taken for an ended group.
TerminateLeader ==
    /\ pc = "kill"
    /\ leader' = IF leader = "running" THEN "nonzero" ELSE leader
    /\ pipes' = "closed" /\ pc' = "settle"
    /\ UNCHANGED <<place, stream, member, answered, private, counted, failure,
                   durable, outcome, faults>>

\* _terminate_process_group: SIGTERM, SIGKILL and bounded waits.  The leader
\* dies; a member may outlast the waits; whoever left the group is not reached.
\* Finally the pipes are closed, every thread still alive gets half a second
\* and no more, and the executable is checked once more; that failure, too,
\* replaces any other.
TerminateGroup ==
    /\ pc = "kill"
    /\ leader' = IF leader = "running" THEN "nonzero" ELSE leader
    /\ \/ member' = FALSE /\ UNCHANGED <<failure, faults>>
       \/ member' \in {FALSE, member} /\ Fault /\ failure' = "other"
    /\ pipes' = "closed"
    /\ pc' = "settle"
    /\ UNCHANGED <<place, stream, answered, private, counted, durable, outcome>>

\* What the run is worth: the exit code, the finished protocol and the last
\* message on disk; a probe has to print the pinned version and nothing else.
Settle ==
    /\ pc = "settle"
    /\ pc' = "remove"
    /\ LET complete == IF mode = "version" THEN events = <<"version">>
                       ELSE leader = "zero" /\ phase = "completed"
       IN \/ failure # "none" /\ UNCHANGED <<failure, answered, faults>>
          \/ /\ failure = "none"
             /\ answered' = complete
             /\ failure' = IF complete THEN "none" ELSE "other"
             /\ UNCHANGED faults
          \/ failure = "none" /\ complete /\ Fault /\ failure' = "other" /\ UNCHANGED answered
    /\ UNCHANGED <<place, process, stream, pipes, private, counted, durable, outcome>>

\* The private root goes; if it cannot, the answer is dropped.  The teacher is
\* ready when its probe answered and left nothing behind.  A call goes on to
\* its manifest, whose event counts are those of this moment.
RemovePrivateRoot ==
    /\ pc = "remove"
    /\ \/ private' = FALSE /\ UNCHANGED <<failure, answered, faults>>
       \/ Fault /\ failure' = "other" /\ answered' = FALSE /\ UNCHANGED private
    /\ IF mode = "version"
       THEN /\ pc' = "idle"
            /\ teacher' = IF answered' THEN "ready" ELSE "failed"
       ELSE pc' = "events" /\ UNCHANGED teacher
    /\ counted' = Len(events)
    /\ UNCHANGED <<mode, call, request, process, stream, pipes,
                   durable, outcome>>

-----------------------------------------------------------------------------
(* The audit: _write_audit.                                                 *)

Status == IF answered /\ failure = "none" THEN "committed" ELSE "quarantined"

\* What the directory says once a file is in place.
Placed(a, name) ==
    LET b == [a EXCEPT !.names = @ \cup {name}] IN
    CASE name = "events"     -> [b EXCEPT !.trail = Lifecycle(events),
                                          !.honest = (counted = Len(events))]
      [] name = "manifest"   -> [b EXCEPT !.status = Status, !.code = failure]
      [] name = "quarantine" -> b

FollowedBy(name) ==
    CASE name = "events"     -> IF failure = "none" THEN "manifest" ELSE "quarantine"
      [] name = "quarantine" -> "manifest"
      [] name = "manifest"   -> "answer"

\* An atomic write that raises may have replaced the file all the same (its
\* outcome is ambiguous); every failure leads to the removal of all three.
WriteAudit ==
    /\ pc \in {"events", "quarantine", "manifest"}
    /\ \/ /\ audit' = [audit EXCEPT ![call] = Placed(@, pc)]
          /\ pc' = FollowedBy(pc)
          /\ UNCHANGED faults
       \/ /\ Fault /\ pc' = "retract"
          /\ audit' \in {audit, [audit EXCEPT ![call] = Placed(@, pc)]}
    /\ UNCHANGED <<place, process, stream, pipes, result, cache, outcome>>

\* Each removal may fail without a word.
RetractAudit ==
    /\ pc = "retract"
    /\ \/ audit' = [audit EXCEPT ![call].names = {}] /\ UNCHANGED faults
       \/ /\ Fault
          /\ \E kept \in SUBSET audit[call].names :
               kept # {} /\ audit' = [audit EXCEPT ![call].names = kept]
    /\ Refuse
    /\ UNCHANGED <<place, process, stream, pipes, result, cache>>

\* A committed attempt is answered, unless its directory cannot be closed;
\* anything else is an error of fixed text.
Answer ==
    /\ pc = "answer"
    /\ IF answered /\ failure = "none"
       THEN \/ pc' = "store" /\ UNCHANGED <<outcome, faults>>
            \/ Fault /\ Refuse
       ELSE Refuse /\ UNCHANGED faults
    /\ UNCHANGED <<place, process, stream, pipes, result, durable>>

\* CachingTeacher stores the response and returns it.
Store ==
    /\ pc = "store"
    /\ \/ /\ cache' = [cache EXCEPT ![request] = call]
          /\ pc' = "idle" /\ outcome' = [outcome EXCEPT ![call] = "answered"]
          /\ UNCHANGED faults
       \/ Fault /\ Refuse /\ UNCHANGED cache
    /\ UNCHANGED <<place, process, stream, pipes, result, audit>>

-----------------------------------------------------------------------------
(* The process and the stream.                                             *)

Running == pc \in {"wait", "join", "kill", "settle", "remove", "events"}

ProcessEnds ==
    /\ Running
    /\ \/ leader = "running" /\ leader' \in {"zero", "nonzero"} /\ UNCHANGED member
       \/ member /\ member' = FALSE /\ UNCHANGED leader
    /\ UNCHANGED <<place, pc, stream, pipes, result, durable, outcome, faults>>

\* The reader takes the next line off its chunk: _JsonlState.consume, or the
\* bounded prefix of a probe.  What was read before the pipes were closed, and
\* the read in progress then, is still consumed afterwards.
ConsumeLine ==
    /\ Running /\ reader = "reading" /\ Len(events) < MaxLines
    /\ \E line \in (IF mode = "version" THEN {"version"} ELSE Lines) :
         LET next == NextPhase(phase, line) IN
         IF Uncounted(events, line)
         THEN readerFailure' = "other" /\ reader' = "done" /\ UNCHANGED <<phase, events>>
         ELSE /\ events' = Append(events, line)
              /\ IF mode = "version" THEN UNCHANGED <<phase, reader, readerFailure>>
                 ELSE IF next # "refused"
                 THEN phase' = next /\ UNCHANGED <<reader, readerFailure>>
                 ELSE /\ readerFailure' = Refusal(phase, line) /\ reader' = "done"
                      /\ UNCHANGED phase
    /\ UNCHANGED <<place, pc, process, pipes, result,
                   durable, outcome, faults>>

\* The end of the stream, or a stream closed under the reader.  A descendant
\* that keeps the stream open shows as a reader that does not end.
ReaderEnds ==
    /\ Running /\ reader = "reading"
    /\ \/ leader # "running" /\ UNCHANGED readerFailure
       \/ pipes = "closed" /\ readerFailure' = "other"
    /\ reader' = "done"
    /\ UNCHANGED <<place, pc, process, phase, events, pipes,
                   result, durable, outcome, faults>>

\* The program dies.  A write in progress leaves its temporary file, the
\* private root stays where nothing looks at it again, and a new program
\* opens a new teacher.
Crash ==
    /\ pc # "idle" /\ Fault
    /\ pc' = "idle" /\ teacher' = "none"
    /\ \E left \in (IF pc \in {"events", "quarantine", "manifest"}
                    THEN {{}, {"tmp"}} ELSE {{}}) :
         audit' = IF mode = "version" THEN audit
                  ELSE [audit EXCEPT ![call].names = @ \cup left]
    /\ outcome' = IF mode = "version" THEN outcome
                  ELSE [outcome EXCEPT ![call] = "crashed"]
    /\ mode' = "version"
    /\ Fresh
    /\ private' = FALSE
    /\ UNCHANGED <<call, request, cache>>

Main == \/ OpenTeacher \/ Ask \/ MakeDirectory \/ EncodeRequest \/ Prepare \/ StartProcess
        \/ Wait \/ Join \/ TerminateGroup \/ Settle
        \/ RemovePrivateRoot \/ WriteAudit \/ RetractAudit
        \/ Answer \/ Store

Next == \/ Main \/ ConsumeLine \/ ReaderEnds
        \/ ProcessEnds \/ Crash \/ CloseTeacher

\* The thread inside the adapter is scheduled, and a deadline passes; nothing
\* is promised of the CLI, of its readers or of the disk.
Spec == Init /\ [][Next]_vars /\ WF_vars(Main)

-----------------------------------------------------------------------------

TypeOK ==
    /\ teacher \in {"none", "ready", "failed", "closed"}
    /\ pc \in {"idle", "directories", "encode", "prepare", "start", "wait", "join", "kill",
               "settle", "remove", "events", "quarantine", "manifest",
               "retract", "answer", "store"}
    /\ mode \in {"version", "exec"} /\ call \in 0 .. MaxCalls /\ request \in Requests
    /\ phase \in {"initial", "thread", "turn", "answered", "completed"}
    /\ events \in Seq((AllLines \ {"malformed"}) \cup {"version"}) /\ Len(events) <= MaxEvents
    /\ leader \in {"none", "running", "zero", "nonzero"}
    /\ member \in BOOLEAN
    /\ reader \in {"off", "reading", "done"}
    /\ readerFailure \in {"none", "provider", "other"}
    /\ failure \in {"none", "provider", "other"}
    /\ pipes \in {"open", "closed"} /\ counted \in 0 .. MaxEvents
    /\ answered \in BOOLEAN /\ private \in BOOLEAN
    /\ audit \in [Calls ->
         [dir : {"none", "request", "invocation", "attempt"}, req : Requests \cup {"none"},
          names : SUBSET Files, trail : {"answer", "failure", "other"}, honest : BOOLEAN,
          status : {"none", "committed", "quarantined"}, code : {"none", "provider", "other"}]]
    /\ cache \in [Requests -> 0 .. MaxCalls]
    /\ outcome \in [Calls -> {"none", "open", "answered", "refused", "crashed"}]
    /\ faults \in 0 .. MaxFaults

\* A manifest says "committed" only beside the complete event stream of an
\* answer, counted to the last event, and without a quarantine receipt, even
\* while readers of the call are still running.
CommittedIsWhole ==
    \A c \in Calls : Committed(c) /\ outcome[c] # "refused" =>
        /\ audit[c].trail = "answer" /\ audit[c].honest
        /\ "events" \in audit[c].names /\ "quarantine" \notin audit[c].names

\* Nothing of a run outlives the answer: its group, its stream, its root.
AnswersAlone ==
    pc \in {"answer", "store"} /\ answered /\ failure = "none" =>
        /\ leader = "zero" /\ ~member
        /\ reader = "done" /\ ~private

\* Between calls, a tree the scan finds clean lists exactly the answers that
\* were given: no answer is missing and none was made up, whatever failed or
\* crashed before.
CleanScanIsComplete ==
    pc = "idle" /\ ScanClean =>
        \A c \in Calls : /\ outcome[c] = "answered" <=> Committed(c)
                         /\ Committed(c) => cache[audit[c].req] = c

\* Every call returns, whatever the CLI, its descendants and the disk do.
EveryCallEnds == (pc # "idle") ~> (pc = "idle")
=============================================================================
