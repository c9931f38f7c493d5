-------------------------- MODULE CodexExecProofs --------------------------
(***************************************************************************)
(* The safety properties of CodexExec, for any requests, any number of      *)
(* calls, lines, events and faults.                                         *)
(***************************************************************************)
EXTENDS CodexExec, FiniteSetTheorems, TLAPS

Filing == {"events", "quarantine", "manifest", "retract", "answer", "store"}

\* Where the adapter is, and for whom.
Placing ==
    /\ pc \in {"directories", "encode", "prepare"} \cup Filing => mode = "exec"
    /\ mode = "exec" => call \in Calls
    /\ mode = "exec" /\ pc # "idle" =>
         /\ outcome[call] = "open" /\ audit[call].req = request /\ cache[request] = 0
         /\ pc = "directories" <=> audit[call].dir # "attempt"
    /\ \A c \in Calls : c > call => /\ outcome[c] = "none"
                                    /\ audit[c].names = {} /\ audit[c].dir = "none"

\* What an event stream no line of which was refused looks like.
Follows(ph, evs) ==
    LET n == Len(evs) IN
    CASE ph = "initial" -> n = 0
      [] ph = "thread" -> n = 1 /\ evs[1] = "thread"
      [] ph = "turn" -> /\ n >= 2 /\ evs[1] = "thread" /\ evs[2] = "turn"
                        /\ \A i \in 3 .. n : evs[i] = "reasoning"
      [] ph = "answered" -> /\ n >= 3 /\ evs[1] = "thread" /\ evs[2] = "turn"
                            /\ evs[n] = "message" /\ \A i \in 3 .. n - 1 : evs[i] = "reasoning"
      [] ph = "completed" -> Lifecycle(evs) = "answer"

Followed == mode = "exec" /\ readerFailure = "none" => Follows(phase, events)

\* A run without a failure ended by itself, and nothing of it is left.
Ended ==
    /\ pc \in {"directories", "encode", "prepare", "start", "wait", "join", "kill", "settle"} => ~answered
    /\ pc \in {"directories", "encode", "prepare", "start"} => reader = "off" /\ readerFailure = "none" /\ events = <<>>
    /\ pc \in {"directories", "encode", "prepare", "start", "wait", "join"} => failure = "none"
    /\ pc \in {"wait", "join", "kill", "settle"} => reader # "off" /\ leader # "none"
    /\ pc = "join" => reader = "done" /\ leader # "running"
    /\ pc \in {"kill", "settle"} /\ failure = "none" =>
         reader = "done" /\ readerFailure = "none" /\ leader # "running"
    /\ pc = "settle" /\ failure = "none" => ~member
    /\ mode = "exec" /\ pc \in {"remove"} \cup Filing /\ answered /\ failure = "none" =>
         reader = "done" /\ readerFailure = "none" /\ leader = "zero" /\ ~member /\ phase = "completed"
    /\ pc \in Filing /\ answered /\ failure = "none" => ~private /\ counted = Len(events)
    /\ pc = "store" => answered /\ failure = "none"

\* What is in the directory of the call in progress.
Filed ==
    LET a == audit[call] IN
    /\ mode = "exec" /\ pc \notin {"idle", "quarantine", "manifest", "retract", "answer", "store"} => a.names = {}
    /\ pc = "quarantine" => a.names = {"events"} /\ failure # "none"
    /\ pc = "manifest" => a.names = (IF failure = "none" THEN {"events"} ELSE {"events", "quarantine"})
    /\ pc \in {"quarantine", "manifest"} => a.trail = Lifecycle(events) /\ a.honest = (counted = Len(events))
    /\ pc \in {"answer", "store"} /\ answered /\ failure = "none" => Committed(call)

\* What the calls of the past left.
Past ==
    /\ \A c \in Calls : audit[c].names # {} => audit[c].dir = "attempt"
    /\ \A c \in Calls : outcome[c] = "answered" =>
         Committed(c) /\ audit[c].req \in Requests /\ cache[audit[c].req] = c
    /\ \A r \in Requests : cache[r] # 0 => outcome[cache[r]] = "answered" /\ audit[cache[r]].req = r

\* Every call was made for a request.
Named == \A c \in Calls : ~(c > call) => audit[c].req \in Requests

-----------------------------------------------------------------------------
(* Types.                                                                   *)

AuditType ==
    [dir : {"none", "request", "invocation", "attempt"}, req : Requests \cup {"none"},
     names : SUBSET Files, trail : {"answer", "failure", "other"}, honest : BOOLEAN,
     status : {"none", "committed", "quarantined"}, code : {"none", "provider", "other"}]

Events == Seq((AllLines \ {"malformed"}) \cup {"version"})

TypeFlow ==
    /\ teacher \in {"none", "ready", "failed", "closed"}
    /\ pc \in {"idle", "directories", "encode", "prepare", "start", "wait", "join", "kill",
               "settle", "remove", "events", "quarantine", "manifest",
               "retract", "answer", "store"}
    /\ mode \in {"version", "exec"} /\ call \in 0 .. MaxCalls /\ request \in Requests
    /\ leader \in {"none", "running", "zero", "nonzero"}
    /\ reader \in {"off", "reading", "done"} /\ pipes \in {"open", "closed"}
    /\ failure \in {"none", "provider", "other"}
    /\ counted \in 0 .. MaxEvents /\ faults \in 0 .. MaxFaults

TypeFlags == member \in BOOLEAN /\ answered \in BOOLEAN /\ private \in BOOLEAN

TypeStream ==
    /\ phase \in {"initial", "thread", "turn", "answered", "completed"}
    /\ readerFailure \in {"none", "provider", "other"}
    /\ events \in Events /\ Len(events) <= MaxEvents

TypeFiles ==
    /\ audit \in [Calls -> AuditType]
    /\ cache \in [Requests -> 0 .. MaxCalls]
    /\ outcome \in [Calls -> {"none", "open", "answered", "refused", "crashed"}]

LEMMA TypeParts == TypeOK <=> TypeFlow /\ TypeFlags /\ TypeStream /\ TypeFiles
  BY DEF TypeOK, TypeFlow, TypeFlags, TypeStream, TypeFiles, AuditType, Events

LEMMA TypeInit == Init => TypeOK
<1> SUFFICES ASSUME Init PROVE TypeOK
  OBVIOUS
<1>1. request \in Requests
  BY RequestsAssumption DEF Init
<1>2. TypeFlow
  BY <1>1, CallsAssumption, EventsAssumption DEF Init, TypeFlow
<1>3. TypeFlags
  BY DEF Init, TypeFlags
<1>5. TypeStream
  BY EventsAssumption DEF Init, TypeStream, Events
<1>4. TypeFiles
  BY CallsAssumption DEF Init, TypeFiles, AuditType, NoAudit, Files
<1> QED  BY <1>2, <1>3, <1>4, <1>5, TypeParts

\* What a line does to the stream.
LEMMA Consumed ==
  ASSUME TypeStream, ConsumeLine
  PROVE  \E line \in AllLines \cup {"version"} :
           /\ line = "version" <=> mode = "version"
           /\ \/ readerFailure' = "other" /\ reader' = "done" /\ UNCHANGED <<phase, events>>
              \/ /\ line # "malformed" /\ Len(events) < MaxEvents
                 /\ events' = Append(events, line)
                 /\ \/ mode = "version" /\ UNCHANGED <<phase, reader, readerFailure>>
                    \/ /\ mode # "version" /\ phase' = NextPhase(phase, line) /\ phase' # "refused"
                       /\ UNCHANGED <<reader, readerFailure>>
                    \/ /\ readerFailure' = Refusal(phase, line) /\ reader' = "done"
                       /\ UNCHANGED phase
  BY LinesAssumption, EventsAssumption DEF ConsumeLine, Uncounted, AllLines, TypeStream, Events

LEMMA StreamStep ==
  ASSUME TypeStream, [Next]_vars
  PROVE  TypeStream'
<1>1. CASE ConsumeLine
  <2>1. PICK line \in AllLines \cup {"version"} :
           \/ readerFailure' = "other" /\ UNCHANGED <<phase, events>>
           \/ /\ line # "malformed" /\ Len(events) < MaxEvents
              /\ events' = Append(events, line)
              /\ \/ UNCHANGED <<phase, readerFailure>>
                 \/ phase' = NextPhase(phase, line) /\ phase' # "refused" /\ UNCHANGED readerFailure
                 \/ readerFailure' = Refusal(phase, line) /\ UNCHANGED phase
    BY <1>1, Consumed
  <2>2. events' \in Events /\ Len(events') <= MaxEvents
    BY <2>1, EventsAssumption DEF TypeStream, Events
  <2>3. phase' \in {"initial", "thread", "turn", "answered", "completed"}
    BY <2>1 DEF TypeStream, NextPhase
  <2>4. readerFailure' \in {"none", "provider", "other"}
    BY <2>1 DEF TypeStream, Refusal
  <2> QED  BY <2>2, <2>3, <2>4 DEF TypeStream
<1>2. CASE OpenTeacher \/ Ask \/ Crash
  <2>1. phase' = "initial" /\ events' = <<>> /\ readerFailure' = "none"
    BY <1>2 DEF OpenTeacher, Ask, Crash, Fresh
  <2> QED  BY <2>1, EventsAssumption DEF TypeStream, Events
<1>3. CASE ReaderEnds
  BY <1>3 DEF TypeStream, ReaderEnds
<1>4. CASE UNCHANGED <<phase, events, readerFailure>>
  BY <1>4 DEF TypeStream
<1> QED
  BY <1>1, <1>2, <1>3, <1>4
     DEF Next, Main, CloseTeacher, MakeDirectory, EncodeRequest, Prepare, StartProcess, Wait, Join,
         TerminateGroup, Settle, RemovePrivateRoot, WriteAudit, RetractAudit, Answer, Store,
         ProcessEnds, vars, stream

LEMMA FlagsStep ==
  ASSUME TypeFlags, [Next]_vars
  PROVE  TypeFlags'
<1>1. CASE Settle
  BY <1>1 DEF TypeFlags, Settle, process
<1>2. CASE Next /\ ~Settle
  BY <1>2
     DEF TypeFlags, Next, Main, OpenTeacher, OpenRefused, Ask, Fresh, CloseTeacher, MakeDirectory,
         EncodeRequest, Prepare, Unprepared, StartProcess, Wait, Join, TerminateGroup,
         RemovePrivateRoot, WriteAudit, RetractAudit, Refuse, Answer, Store, ConsumeLine, ReaderEnds,
         ProcessEnds, Crash, process, result
<1>3. CASE UNCHANGED vars
  BY <1>3 DEF TypeFlags, vars, process, result
<1> QED  BY <1>1, <1>2, <1>3

LEMMA Terminated ==
  ASSUME TerminateGroup
  PROVE  (UNCHANGED <<failure, faults>> /\ ~member') \/ (Fault /\ failure' = "other")
  BY DEF TerminateGroup

LEMMA FlowStep ==
  ASSUME TypeFlow, TypeStream, TypeFlags, [Next]_vars
  PROVE  TypeFlow'
<1> USE CallsAssumption, EventsAssumption DEF TypeFlow, Fault, place, process, stream, result
<1>1. CASE OpenTeacher
  BY <1>1 DEF OpenTeacher, OpenRefused, Fresh
<1>13. CASE CloseTeacher
  BY <1>13 DEF CloseTeacher
<1>15. CASE Ask
  <2>1. call' \in 0 .. MaxCalls /\ request' \in Requests /\ pc' = "directories" /\ mode' = "exec"
    BY <1>15 DEF Ask
  <2>2. UNCHANGED <<teacher, faults>>
    BY <1>15 DEF Ask
  <2> QED  BY <1>15, <2>1, <2>2 DEF Ask, Fresh
<1>2. CASE MakeDirectory \/ EncodeRequest \/ Prepare
  BY <1>2 DEF MakeDirectory, EncodeRequest, Prepare, Unprepared, Refuse
<1>3. CASE StartProcess
  BY <1>3 DEF StartProcess
<1>14. CASE TerminateGroup
  <2>1. leader' \in {"zero", "nonzero", "none"} /\ pipes' = "closed" /\ pc' = "settle"
    BY <1>14 DEF TerminateGroup
  <2>2. failure' \in {failure, "other"} /\ faults' \in 0 .. MaxFaults
    <3>1. UNCHANGED <<failure, faults>> \/ (Fault /\ failure' = "other")
      BY <1>14, Terminated, Zenon
    <3> QED  BY <3>1
  <2>3. UNCHANGED <<teacher, mode, call, request, reader, counted>>
    BY <1>14 DEF TerminateGroup
  <2> QED  BY <2>1, <2>2, <2>3
<1>4. CASE Wait \/ Join
  BY <1>4 DEF Wait, Join, TypeStream
<1>5. CASE Settle
  BY <1>5 DEF Settle
<1>6. CASE RemovePrivateRoot
  BY <1>6 DEF RemovePrivateRoot, TypeStream, Events
<1>7. CASE WriteAudit
  BY <1>7 DEF WriteAudit, FollowedBy
<1>8. CASE RetractAudit \/ Answer \/ Store
  BY <1>8 DEF RetractAudit, Answer, Store, Refuse
<1>9. CASE ConsumeLine
  BY <1>9 DEF ConsumeLine
<1>10. CASE ReaderEnds \/ ProcessEnds
  BY <1>10 DEF ReaderEnds, ProcessEnds
<1>11. CASE Crash
  BY <1>11 DEF Crash, Fresh
<1>12. CASE UNCHANGED vars
  BY <1>12 DEF vars
<1> QED
  BY <1>1, <1>2, <1>3, <1>4, <1>5, <1>6, <1>7, <1>8, <1>9, <1>10, <1>11, <1>12, <1>13,
     <1>14, <1>15 DEF Next, Main

LEMMA EventsType ==
  ASSUME NEW a \in AuditType, NEW trail \in {"answer", "failure", "other"}, NEW honest \in BOOLEAN
  PROVE  [a EXCEPT !.trail = trail, !.honest = honest] \in AuditType
  BY DEF AuditType

LEMMA ManifestType ==
  ASSUME NEW a \in AuditType, NEW status \in {"none", "committed", "quarantined"},
         NEW code \in {"none", "provider", "other"}
  PROVE  [a EXCEPT !.status = status, !.code = code] \in AuditType
  BY DEF AuditType

\* A file put in place leaves a record of the same type.
LEMMA PlacedType ==
  ASSUME NEW a \in AuditType, NEW name \in {"events", "quarantine", "manifest"}, TypeFlow
  PROVE  Placed(a, name) \in AuditType
<1> DEFINE b == [a EXCEPT !.names = @ \cup {name}]
<1>1. b \in AuditType
  BY DEF AuditType, Files
<1> HIDE DEF b
<1>2. CASE name = "events"
  <2>1. Placed(a, name) = [b EXCEPT !.trail = Lifecycle(events), !.honest = (counted = Len(events))]
    BY <1>2 DEF Placed, b
  <2>2. Lifecycle(events) \in {"answer", "failure", "other"}
    BY DEF Lifecycle
  <2> DEFINE trail == Lifecycle(events)
             honest == counted = Len(events)
  <2>3. trail \in {"answer", "failure", "other"} /\ honest \in BOOLEAN
    BY <2>2
  <2>4. Placed(a, name) = [b EXCEPT !.trail = trail, !.honest = honest]
    BY <2>1
  <2> HIDE DEF trail, honest
  <2>5. [b EXCEPT !.trail = trail, !.honest = honest] \in AuditType
    BY <1>1, <2>3, EventsType, Zenon
  <2> QED  BY <2>4, <2>5, Zenon
<1>3. CASE name = "manifest"
  <2>1. Placed(a, name) = [b EXCEPT !.status = Status, !.code = failure]
    BY <1>3 DEF Placed, b
  <2>2. Status \in {"none", "committed", "quarantined"}
    BY DEF Status
  <2>3. failure \in {"none", "provider", "other"}
    BY DEF TypeFlow
  <2>4. [b EXCEPT !.status = Status, !.code = failure] \in AuditType
    BY <1>1, <2>2, <2>3, ManifestType, Zenon
  <2> QED  BY <2>1, <2>4, Zenon
<1>4. CASE name = "quarantine"
  BY <1>1, <1>4 DEF Placed, b
<1> QED  BY <1>2, <1>3, <1>4

LEMMA FilesStep ==
  ASSUME TypeFiles, TypeFlow, Placing, [Next]_vars
  PROVE  TypeFiles'
<1> USE CallsAssumption DEF TypeFiles
<1>1. CASE Ask
  <2>1. PICK r \in Requests : audit' = [audit EXCEPT ![call + 1].req = r]
    BY <1>1 DEF Ask
  <2>2. audit' \in [Calls -> AuditType]
    <3>1. ASSUME NEW c \in Calls  PROVE audit'[c] = audit[c] \/ audit'[c] = [audit[c] EXCEPT !.req = r]
      BY <2>1
    <3>2. \A c \in Calls : audit[c] \in AuditType /\ [audit[c] EXCEPT !.req = r] \in AuditType
      BY DEF AuditType
    <3>3. audit' \in [Calls -> {audit'[c] : c \in Calls}]
      BY <2>1
    <3> QED  BY <3>1, <3>2, <3>3
  <2> QED  BY <1>1, <2>2 DEF Ask
<1>2. CASE MakeDirectory
  <2>1. call \in Calls
    BY <1>2 DEF MakeDirectory, Placing
  <2>2. outcome' \in [Calls -> {"none", "open", "answered", "refused", "crashed"}] /\ UNCHANGED cache
    BY <1>2, <2>1 DEF MakeDirectory, Refuse
  <2>3. UNCHANGED audit \/ audit' = [audit EXCEPT ![call].dir = NextDirectory[audit[call].dir]]
    BY <1>2 DEF MakeDirectory
  <2>4. audit' \in [Calls -> AuditType]
    <3>1. audit[call].dir # "attempt"
      BY <1>2 DEF MakeDirectory, Placing
    <3>2. NextDirectory[audit[call].dir] \in {"request", "invocation", "attempt"}
      BY <2>1, <3>1 DEF NextDirectory, AuditType
    <3> QED  BY <2>1, <2>3, <3>2 DEF AuditType
  <2> QED  BY <2>2, <2>4
<1>3. CASE WriteAudit
  <2>1. call \in Calls /\ pc \in {"events", "quarantine", "manifest"}
    BY <1>3 DEF WriteAudit, Placing, Filing
  <2>2. Placed(audit[call], pc) \in AuditType
    BY <2>1, PlacedType
  <2>3. audit' \in [Calls -> AuditType] /\ UNCHANGED <<cache, outcome>>
    BY <1>3, <2>1, <2>2 DEF WriteAudit
  <2> QED  BY <2>3
<1>4. CASE RetractAudit
  <2>1. call \in Calls
    BY <1>4 DEF RetractAudit, Placing, Filing
  <2>2. audit' \in [Calls -> AuditType]
    BY <1>4, <2>1 DEF RetractAudit, AuditType
  <2> QED  BY <1>4, <2>1, <2>2 DEF RetractAudit, Refuse
<1>5. CASE Answer
  BY <1>5 DEF Answer, Refuse, durable
<1>6. CASE Store
  <2>1. call \in Calls
    BY <1>6 DEF Store, Placing, Filing
  <2> QED  BY <1>6, <2>1 DEF Store, Refuse, Calls, TypeFlow
<1>7. CASE Crash
  <2>1. mode # "version" => call \in Calls
    BY <1>7 DEF Placing, TypeFlow
  <2>2. audit' \in [Calls -> AuditType]
    BY <1>7, <2>1 DEF Crash, AuditType, Files
  <2> QED  BY <1>7, <2>2 DEF Crash
<1>8. CASE UNCHANGED <<audit, cache, outcome>>
  BY <1>8
<1> QED
  BY <1>1, <1>2, <1>3, <1>4, <1>5, <1>6, <1>7, <1>8
     DEF Next, Main, OpenTeacher, CloseTeacher, EncodeRequest, Prepare, StartProcess, Wait, Join,
         TerminateGroup, Settle, RemovePrivateRoot, ConsumeLine, ReaderEnds, ProcessEnds, vars, durable

LEMMA TypeStep ==
  ASSUME TypeOK, Placing, [Next]_vars
  PROVE  TypeOK'
<1>1. TypeFlow /\ TypeFlags /\ TypeStream /\ TypeFiles
  BY TypeParts
<1>2. TypeFlow' /\ TypeFlags' /\ TypeStream' /\ TypeFiles'
  BY <1>1, FlowStep, FlagsStep, StreamStep, FilesStep
<1> QED  BY <1>2 DEF TypeOK, TypeFlow, TypeFlags, TypeStream, TypeFiles, AuditType, Events

-----------------------------------------------------------------------------
(* Where the adapter is.                                                    *)

LEMMA PlacingStep ==
  ASSUME TypeOK, Placing, [Next]_vars
  PROVE  Placing'
<1>0. call \in 0 .. MaxCalls /\ TypeFlow /\ TypeFiles
  BY TypeParts DEF TypeFlow
<1> USE CallsAssumption DEF Placing, Filing, Calls
<1>1. CASE OpenTeacher \/ CloseTeacher
  BY <1>1 DEF OpenTeacher, OpenRefused, Fresh, CloseTeacher, durable
<1>2. CASE Ask
  <2>1. call + 1 \in Calls
    BY <1>0, <1>2 DEF Ask
  <2>2. PICK r \in Requests : /\ cache[r] = 0 /\ request' = r
                             /\ audit' = [audit EXCEPT ![call + 1].req = r]
    BY <1>2 DEF Ask
  <2>3. audit[call + 1].dir = "none" /\ audit[call + 1].names = {} /\ audit[call + 1] \in AuditType
    BY <1>0, <2>1 DEF TypeFiles
  <2>4. audit'[call + 1] = [audit[call + 1] EXCEPT !.req = r]
    BY <1>0, <2>1, <2>2 DEF TypeFiles
  <2>5. audit'[call + 1].req = r /\ audit'[call + 1].dir = "none" /\ audit'[call + 1].names = {}
    BY <2>3, <2>4 DEF AuditType
  <2>6. \A c \in Calls : c > call + 1 => audit'[c] = audit[c] /\ outcome'[c] = outcome[c]
    BY <1>0, <1>2, <2>2 DEF TypeFiles, Ask
  <2>7. outcome'[call + 1] = "open" /\ call' = call + 1 /\ pc' = "directories" /\ mode' = "exec" /\ cache' = cache
    BY <1>0, <1>2, <2>1 DEF TypeFiles, Ask
  <2> QED  BY <1>0, <2>1, <2>2, <2>5, <2>6, <2>7
<1>3. CASE MakeDirectory
  <2>1. call \in Calls /\ audit[call] \in AuditType /\ mode = "exec" /\ pc = "directories"
    BY <1>0, <1>3 DEF MakeDirectory, TypeFiles
  <2>2. CASE Refuse /\ UNCHANGED audit
    BY <1>0, <1>3, <2>1, <2>2 DEF MakeDirectory, Refuse, place, TypeFiles
  <2>3. CASE LET d == NextDirectory[audit[call].dir] IN
          /\ audit' = [audit EXCEPT ![call].dir = d]
          /\ pc' = IF d = "attempt" THEN "encode" ELSE pc
          /\ UNCHANGED <<outcome, faults>>
    <3>1. audit'[call] = [audit[call] EXCEPT !.dir = NextDirectory[audit[call].dir]]
      BY <1>0, <2>1, <2>3 DEF TypeFiles
    <3>2. audit'[call].dir = NextDirectory[audit[call].dir] /\ audit'[call].req = audit[call].req
          /\ audit'[call].names = audit[call].names
      BY <2>1, <3>1 DEF AuditType
    <3>3. \A c \in Calls : c # call => audit'[c] = audit[c]
      BY <1>0, <2>3 DEF TypeFiles
    <3> QED  BY <1>0, <1>3, <2>1, <2>3, <3>2, <3>3 DEF MakeDirectory, place
  <2> QED  BY <1>3, <2>2, <2>3 DEF MakeDirectory
<1>4. CASE EncodeRequest \/ Prepare
  BY <1>4 DEF EncodeRequest, Prepare, Unprepared, place, durable
<1>5. CASE StartProcess \/ Wait \/ Join \/ Settle
  BY <1>5 DEF StartProcess, Wait, Join, Settle, place, durable
<1>6. CASE TerminateGroup
  <2>1. pc = "kill" /\ pc' = "settle" /\ UNCHANGED <<place, durable, outcome>>
    BY <1>6 DEF TerminateGroup
  <2> QED  BY <2>1 DEF place, durable
<1>7. CASE RemovePrivateRoot
  BY <1>0, <1>7 DEF RemovePrivateRoot, durable, TypeFlow
<1>8. CASE WriteAudit \/ RetractAudit
  <2>1. call \in Calls /\ audit[call] \in AuditType /\ mode = "exec" /\ pc \notin {"idle", "directories"}
    BY <1>0, <1>8 DEF WriteAudit, RetractAudit, TypeFiles
  <2>2. /\ \A c \in Calls : c # call => audit'[c] = audit[c]
        /\ audit'[call].req = audit[call].req /\ audit'[call].dir = audit[call].dir
    <3>1. CASE audit' = [audit EXCEPT ![call] = Placed(@, pc)] /\ pc \in {"events", "quarantine", "manifest"}
      <4>1. Placed(audit[call], pc).req = audit[call].req /\ Placed(audit[call], pc).dir = audit[call].dir
        BY <2>1, <3>1 DEF Placed, AuditType
      <4> QED  BY <1>0, <2>1, <3>1, <4>1 DEF TypeFiles
    <3>2. ASSUME NEW S, audit' = [audit EXCEPT ![call].names = S]
          PROVE <2>2!1 /\ <2>2!2
      BY <1>0, <2>1, <3>2 DEF TypeFiles, AuditType
    <3> QED  BY <1>8, <3>1, <3>2 DEF WriteAudit, RetractAudit
  <2>3. /\ UNCHANGED <<place, cache>>
        /\ \/ pc' \in Filing /\ UNCHANGED outcome
           \/ pc' = "idle" /\ outcome' = [outcome EXCEPT ![call] = "refused"]
    BY <1>8 DEF WriteAudit, RetractAudit, Refuse, FollowedBy
  <2> QED  BY <1>0, <2>1, <2>2, <2>3 DEF TypeFiles, place
<1>9. CASE Answer
  BY <1>0, <1>9 DEF Answer, Refuse, place, durable, TypeFiles
<1>10. CASE Store
  BY <1>0, <1>10 DEF Store, Refuse, place, TypeFiles
<1>11. CASE ConsumeLine \/ ReaderEnds \/ ProcessEnds
  <2>1. UNCHANGED <<place, pc, durable, outcome>>
    BY <1>11 DEF ConsumeLine, ReaderEnds, ProcessEnds
  <2> QED  BY <2>1 DEF place, durable
<1>12. CASE Crash
  <2>1. pc' = "idle" /\ mode' = "version" /\ UNCHANGED call
    BY <1>12 DEF Crash
  <2>2. \A c \in Calls : c > call => audit'[c] = audit[c] /\ outcome'[c] = outcome[c]
    BY <1>0, <1>12 DEF Crash, TypeFiles
  <2> QED  BY <2>1, <2>2
<1>13. CASE UNCHANGED vars
  BY <1>13 DEF vars, place, durable
<1> QED
  BY <1>1, <1>2, <1>3, <1>4, <1>5, <1>6, <1>7, <1>8, <1>9, <1>10, <1>11, <1>12, <1>13 DEF Next, Main

LEMMA NamedStep ==
  ASSUME TypeOK, Placing, Named, [Next]_vars
  PROVE  Named'
<1>0. TypeFiles /\ call \in 0 .. MaxCalls
  BY TypeParts DEF TypeFlow
<1>1. CASE Ask
  <2>1. PICK r \in Requests : audit' = [audit EXCEPT ![call + 1].req = r]
    BY <1>1 DEF Ask
  <2>2. call + 1 \in Calls /\ call' = call + 1
    BY <1>0, <1>1, CallsAssumption DEF Ask, Calls
  <2>3. audit[call + 1] \in AuditType /\ audit'[call + 1] = [audit[call + 1] EXCEPT !.req = r]
    BY <1>0, <2>1, <2>2 DEF TypeFiles
  <2>4. audit'[call + 1].req = r
    BY <2>3 DEF AuditType
  <2>5. \A c \in Calls : c # call + 1 => audit'[c] = audit[c]
    BY <1>0, <2>1 DEF TypeFiles
  <2> QED  BY <1>0, <2>1, <2>2, <2>4, <2>5, CallsAssumption DEF Named, Calls
<1>2. CASE MakeDirectory \/ WriteAudit \/ RetractAudit \/ Crash
  <2>1. UNCHANGED call
    BY <1>2 DEF MakeDirectory, WriteAudit, RetractAudit, Crash, place
  <2>2. ASSUME NEW c \in Calls  PROVE audit'[c].req = audit[c].req
    <3>1. audit[c] \in AuditType
      BY <1>0 DEF TypeFiles
    <3>2. ASSUME NEW S, audit' = [audit EXCEPT ![call].names = S] \/ audit' = [audit EXCEPT ![call].dir = S]
          PROVE  audit'[c].req = audit[c].req
      BY <1>0, <3>1, <3>2 DEF TypeFiles, AuditType
    <3>3. CASE MakeDirectory \/ RetractAudit \/ Crash
      BY <3>2, <3>3 DEF MakeDirectory, RetractAudit, Crash
    <3>4. CASE WriteAudit
      <4>1. c = call => Placed(audit[call], pc).req = audit[call].req
        BY <3>1, <3>4 DEF WriteAudit, Placed, AuditType
      <4>2. audit' = audit \/ audit' = [audit EXCEPT ![call] = Placed(audit[call], pc)]
        BY <3>4 DEF WriteAudit
      <4> QED  BY <1>0, <4>1, <4>2 DEF TypeFiles
    <3> QED  BY <1>2, <3>3, <3>4
  <2> QED  BY <2>1, <2>2 DEF Named
<1>3. CASE UNCHANGED <<call, audit>>
  BY <1>3 DEF Named
<1> QED
  BY <1>1, <1>2, <1>3
     DEF Next, Main, OpenTeacher, CloseTeacher, EncodeRequest, Prepare, StartProcess, Wait, Join,
         TerminateGroup, Settle, RemovePrivateRoot, Answer, Store, ConsumeLine, ReaderEnds,
         ProcessEnds, vars, durable, place

-----------------------------------------------------------------------------
(* The stream.                                                              *)

LEMMA FollowedStep ==
  ASSUME TypeOK, Placing, Followed, Ended, [Next]_vars
  PROVE  Followed'
<1>0. TypeStream
  BY TypeParts
<1>1. CASE ConsumeLine
  <2>1. PICK line \in AllLines \cup {"version"} :
           \/ readerFailure' = "other"
           \/ /\ events' = Append(events, line)
              /\ \/ mode = "version"
                 \/ phase' = NextPhase(phase, line) /\ phase' # "refused" /\ UNCHANGED readerFailure
                 \/ readerFailure' = Refusal(phase, line)
    BY <1>0, <1>1, Consumed
  <2>2. UNCHANGED mode
    BY <1>1 DEF ConsumeLine, place
  <2>3. ASSUME mode = "exec", readerFailure' = "none"
        PROVE  Follows(phase', events')
    <3>1. /\ events' = Append(events, line) /\ phase' = NextPhase(phase, line) /\ phase' # "refused"
          /\ Follows(phase, events)
      BY <2>1, <2>3 DEF Refusal, Followed
    <3>2. /\ Len(events') = Len(events) + 1 /\ Len(events) \in Nat /\ events'[Len(events) + 1] = line
          /\ \A i \in 1 .. Len(events) : events'[i] = events[i]
      BY <1>0, <3>1 DEF TypeStream, Events
    <3>3. phase \in {"initial", "thread", "turn", "answered", "completed"}
      BY <1>0 DEF TypeStream
    <3>4. \/ phase = "initial" /\ line = "thread" /\ phase' = "thread"
          \/ phase = "thread" /\ line = "turn" /\ phase' = "turn"
          \/ phase = "turn" /\ line = "reasoning" /\ phase' = "turn"
          \/ phase = "turn" /\ line = "message" /\ phase' = "answered"
          \/ phase = "answered" /\ line = "done" /\ phase' = "completed"
      BY <3>1, <3>3 DEF NextPhase
    <3> DEFINE n == Len(events)
    <3>5. /\ n \in Nat /\ Len(events') = n + 1 /\ events'[n + 1] = line
          /\ \A i \in 1 .. n : events'[i] = events[i]
      BY <3>2
    <3> HIDE DEF n
    <3>7. CASE phase = "initial" /\ line = "thread" /\ phase' = "thread"
      <4>1. n = 0
        BY <3>1, <3>7 DEF Follows, n
      <4> QED  BY <3>5, <3>7, <4>1 DEF Follows
    <3>8. CASE phase = "thread" /\ line = "turn" /\ phase' = "turn"
      <4>1. n = 1 /\ events[1] = "thread"
        BY <3>1, <3>8 DEF Follows, n
      <4>2. Len(events') = 2 /\ events'[1] = "thread" /\ events'[2] = "turn"
        BY <3>5, <3>8, <4>1
      <4> QED  BY <3>8, <4>2 DEF Follows
    <3>9. CASE phase = "turn" /\ phase' \in {"turn", "answered"}
      <4>1. n >= 2 /\ events[1] = "thread" /\ events[2] = "turn" /\ \A i \in 3 .. n : events[i] = "reasoning"
        BY <3>1, <3>9 DEF Follows, n
      <4>2. /\ Len(events') = n + 1 /\ n \in Nat /\ events'[1] = "thread" /\ events'[2] = "turn"
            /\ \A i \in 3 .. n : events'[i] = "reasoning"
        BY <3>5, <4>1
      <4>3. CASE line = "reasoning" /\ phase' = "turn"
        <5>1. \A i \in 3 .. n + 1 : events'[i] = "reasoning"
          BY <3>5, <4>2, <4>3
        <5> QED  BY <4>1, <4>2, <4>3, <5>1 DEF Follows
      <4>4. CASE line = "message" /\ phase' = "answered"
        BY <3>5, <4>1, <4>2, <4>4 DEF Follows
      <4> QED  BY <3>4, <3>9, <4>3, <4>4
    <3>6. CASE phase = "answered" /\ line = "done" /\ phase' = "completed"
      <4>1. /\ n >= 3 /\ events[1] = "thread" /\ events[2] = "turn"
            /\ events[n] = "message" /\ \A i \in 3 .. n - 1 : events[i] = "reasoning"
        BY <3>1, <3>6 DEF Follows, n
      <4>2. /\ Len(events') = n + 1 /\ n \in Nat /\ events'[n + 1] = "done" /\ events'[n] = "message"
            /\ events'[1] = "thread" /\ events'[2] = "turn"
            /\ \A i \in 3 .. n - 1 : events'[i] = "reasoning"
        BY <3>5, <3>6, <4>1
      <4>3. Lifecycle(events') = "answer"
        BY <4>1, <4>2 DEF Lifecycle
      <4> QED  BY <3>6, <4>3 DEF Follows
    <3> QED  BY <3>4, <3>6, <3>7, <3>8, <3>9
  <2> QED  BY <2>2, <2>3 DEF Followed
<1>2. CASE OpenTeacher \/ Ask \/ Crash
  <2>1. phase' = "initial" /\ events' = <<>>
    BY <1>2 DEF OpenTeacher, Ask, Crash, Fresh
  <2> QED  BY <2>1 DEF Followed, Follows
<1>3. CASE ReaderEnds
  BY <1>3 DEF Followed, ReaderEnds, place
<1>4. CASE UNCHANGED <<mode, phase, events, readerFailure>>
  BY <1>4 DEF Followed
<1> QED
  BY <1>1, <1>2, <1>3, <1>4
     DEF Next, Main, CloseTeacher, MakeDirectory, EncodeRequest, Prepare, StartProcess, Wait, Join,
         TerminateGroup, Settle, RemovePrivateRoot, WriteAudit, RetractAudit, Answer, Store,
         ProcessEnds, vars, stream, place

-----------------------------------------------------------------------------
(* The end of the process.                                                  *)

LEMMA EndedStep ==
  ASSUME TypeOK, Placing, Ended, [Next]_vars
  PROVE  Ended'
<1>0. TypeFlow /\ TypeStream /\ TypeFlags
  BY TypeParts
<1> USE DEF Filing
<1>1. CASE OpenTeacher
  BY <1>1 DEF Ended, OpenTeacher, OpenRefused, Fresh
<1>2. CASE Ask
  BY <1>2 DEF Ended, Ask, Fresh
<1>3. CASE CloseTeacher \/ Crash
  <2>1. pc' = "idle"
    BY <1>3 DEF CloseTeacher, Crash
  <2> QED  BY <2>1 DEF Ended
<1>4. CASE MakeDirectory
  <2>1. pc = "directories" /\ pc' \in {"directories", "encode", "idle"} /\ UNCHANGED <<process, stream, result>>
    BY <1>4 DEF MakeDirectory, Refuse
  <2> QED  BY <2>1 DEF Ended, process, stream, result
<1>5. CASE EncodeRequest
  <2>1. /\ pc = "encode" /\ UNCHANGED <<process, stream, private, answered, counted>>
        /\ (pc' = "prepare" /\ UNCHANGED failure) \/ (pc' = "events" /\ failure' = "other")
    BY <1>5 DEF EncodeRequest, Unprepared
  <2> QED  BY <2>1 DEF Ended, process, stream
<1>6. CASE Prepare
  <2>1. /\ pc = "prepare" /\ UNCHANGED <<process, stream, answered, counted>>
        /\ (pc' = "start" /\ UNCHANGED failure) \/ (pc' = "events" /\ failure' = "other")
    BY <1>6 DEF Prepare, Unprepared
  <2> QED  BY <2>1 DEF Ended, process, stream
<1>7. CASE StartProcess
  <2>1. /\ pc = "start" /\ UNCHANGED <<answered, readerFailure>>
        /\ \/ pc' = "wait" /\ UNCHANGED failure /\ leader' = "running" /\ reader' = "reading"
           \/ pc' = "remove"
    BY <1>7 DEF StartProcess
  <2> QED  BY <2>1 DEF Ended
<1>8. CASE Wait
  <2>1. /\ pc = "wait" /\ UNCHANGED <<process, stream, answered>>
        /\ \/ pc' = "kill" /\ failure' # "none"
           \/ /\ pc' = "join" /\ UNCHANGED failure
              /\ leader \in {"zero", "nonzero"} /\ reader = "done"
    BY <1>8 DEF Wait
  <2> QED  BY <2>1 DEF Ended, process, stream
<1>9. CASE Join
  <2>1. /\ pc = "join" /\ pc' = "kill" /\ UNCHANGED <<process, stream, answered>>
        /\ failure' # "none" \/ (UNCHANGED failure /\ readerFailure = "none")
    BY <1>9 DEF Join
  <2> QED  BY <2>1 DEF Ended, process, stream
<1>10. CASE TerminateGroup
  <2>1. pc = "kill" /\ pc' = "settle" /\ UNCHANGED <<stream, answered>>
        /\ leader' = IF leader = "running" THEN "nonzero" ELSE leader
    BY <1>10 DEF TerminateGroup
  <2>2. (UNCHANGED failure /\ ~member') \/ failure' = "other"
    BY <1>10, Terminated
  <2> QED  BY <2>1, <2>2 DEF Ended, stream
<1>11. CASE Settle
  <2>1. pc = "settle" /\ pc' = "remove" /\ UNCHANGED <<process, stream, mode>> /\ ~answered
    BY <1>11 DEF Settle, Ended, place
  <2>2. ASSUME mode = "exec", answered', failure' = "none"
        PROVE  failure = "none" /\ leader = "zero" /\ phase = "completed"
    BY <1>11, <2>1, <2>2 DEF Settle
  <2> QED  BY <2>1, <2>2 DEF Ended, process, stream
<1>12. CASE RemovePrivateRoot
  <2>1. /\ pc = "remove" /\ pc' \in {"idle", "events"} /\ UNCHANGED <<process, stream, mode>>
        /\ counted' = Len(events)
        /\ (~private' /\ UNCHANGED <<failure, answered>>) \/ failure' = "other"
    BY <1>12 DEF RemovePrivateRoot
  <2> QED  BY <2>1 DEF Ended, process, stream
<1>13. CASE WriteAudit \/ RetractAudit \/ Answer \/ Store
  <2>1. pc \in Filing /\ pc' \in (Filing \ {"events"}) \cup {"idle"} /\ UNCHANGED <<process, stream, result, mode>>
    BY <1>13 DEF WriteAudit, RetractAudit, Answer, Store, FollowedBy, Refuse, place
  <2>2. pc' = "store" => answered /\ failure = "none"
    BY <1>13 DEF WriteAudit, RetractAudit, Answer, Store, FollowedBy, Refuse
  <2> QED  BY <2>1, <2>2 DEF Ended, process, stream, result
<1>14. CASE ConsumeLine
  <2>1. reader = "reading" /\ reader' # "off" /\ UNCHANGED <<pc, mode, process, result>> /\ Running
    BY <1>14 DEF ConsumeLine, place
  <2> QED  BY <2>1 DEF Ended, Placing, Running, process, result
<1>15. CASE ReaderEnds
  <2>1. reader = "reading" /\ reader' = "done" /\ UNCHANGED <<pc, mode, process, result, phase, events>> /\ Running
    BY <1>15 DEF ReaderEnds, place
  <2> QED  BY <2>1 DEF Ended, Running, process, result
<1>16. CASE ProcessEnds
  <2>1. /\ UNCHANGED <<pc, mode, stream, result>> /\ Running
        /\ (leader = "running" /\ leader' \in {"zero", "nonzero"}) \/ UNCHANGED leader
        /\ ~member' \/ UNCHANGED member
    BY <1>16 DEF ProcessEnds, place
  <2> QED  BY <2>1 DEF Ended, Running, stream, result
<1>17. CASE UNCHANGED vars
  BY <1>17 DEF Ended, vars, process, stream, result, place
<1> QED
  BY <1>1, <1>2, <1>3, <1>4, <1>5, <1>6, <1>7, <1>8, <1>9, <1>10, <1>11, <1>12, <1>13, <1>14,
     <1>15, <1>16, <1>17 DEF Next, Main

-----------------------------------------------------------------------------
(* The directory of the call in progress, and those of the past.            *)

\* Steps of the call that leave the files as they are.
LEMMA FiledStays ==
  ASSUME Filed, Past, CommittedIsWhole, UNCHANGED <<call, audit, cache, outcome>>,
         \/ mode' # "exec" /\ pc' \notin Filing
         \/ /\ UNCHANGED mode /\ pc' \notin {"quarantine", "manifest", "retract", "answer", "store"}
            /\ pc \notin {"idle", "quarantine", "manifest", "retract", "answer", "store"}
         \/ pc' = "idle"
  PROVE  Filed' /\ Past' /\ CommittedIsWhole'
<1>1. Filed'
  BY DEF Filed, Filing
<1>2. Past' /\ CommittedIsWhole'
  BY DEF Past, CommittedIsWhole, Committed
<1> QED  BY <1>1, <1>2

\* Steps that leave the directories of other calls as they are, and the cache.
LEMMA OthersStay ==
  ASSUME TypeFiles, TypeFlow, Placing, Past, CommittedIsWhole, mode = "exec", pc # "idle", UNCHANGED <<call, cache>>,
         \A c \in Calls : c # call => audit'[c] = audit[c] /\ outcome'[c] = outcome[c],
         audit'[call].names # {} => audit'[call].dir = "attempt", outcome'[call] # "answered",
         Committed(call)' /\ outcome'[call] # "refused" =>
            /\ audit'[call].trail = "answer" /\ audit'[call].honest
            /\ "events" \in audit'[call].names /\ "quarantine" \notin audit'[call].names
  PROVE  Past' /\ CommittedIsWhole'
<1>1. call \in Calls /\ outcome[call] = "open"
  BY DEF Placing
<1>2. CommittedIsWhole'
  BY <1>1 DEF CommittedIsWhole, Committed
<1>3. \A c \in Calls : outcome'[c] = "answered" => c # call /\ audit'[c] = audit[c] /\ outcome[c] = "answered"
  BY <1>1
<1>4. \A r \in Requests : cache[r] # 0 => cache[r] \in Calls /\ cache[r] # call
  BY <1>1 DEF Past, TypeFiles, Calls
<1>5. Past'
  BY <1>1, <1>3, <1>4 DEF Past, Committed
<1> QED  BY <1>2, <1>5

LEMMA FiledStep ==
  ASSUME TypeOK, Placing, Followed, Ended, Filed, Past, CommittedIsWhole, [Next]_vars
  PROVE  Filed' /\ Past' /\ CommittedIsWhole'
<1>0. TypeFlow /\ TypeFiles /\ TypeFlags
  BY TypeParts
<1>1. CASE OpenTeacher
  <2>1. UNCHANGED <<call, audit, cache, outcome>> /\ mode' = "version" /\ pc' \in {"start", "idle"}
    BY <1>1 DEF OpenTeacher, OpenRefused, durable
  <2> QED  BY <2>1, FiledStays DEF Filing
<1>2. CASE CloseTeacher
  BY <1>2, FiledStays DEF CloseTeacher, durable
<1>3. CASE Ask
  <2>1. call + 1 \in Calls /\ call' = call + 1 /\ pc' = "directories"
    BY <1>0, <1>3, CallsAssumption DEF Ask, Calls, TypeFlow
  <2>2. PICK r \in Requests : audit' = [audit EXCEPT ![call + 1].req = r]
    BY <1>3 DEF Ask
  <2>3. /\ audit[call + 1].names = {} /\ outcome[call + 1] = "none" /\ audit[call + 1] \in AuditType
    BY <1>0, <2>1 DEF Placing, TypeFiles, TypeFlow
  <2>4. audit'[call + 1] = [audit[call + 1] EXCEPT !.req = r]
    BY <1>0, <2>1, <2>2 DEF TypeFiles
  <2>5. audit'[call + 1].names = {}
    BY <2>3, <2>4 DEF AuditType
  <2>6. \A c \in Calls : c # call + 1 => audit'[c] = audit[c] /\ outcome'[c] = outcome[c]
    BY <1>0, <1>3, <2>2 DEF TypeFiles, Ask
  <2>7. outcome'[call + 1] = "open" /\ cache' = cache
    BY <1>0, <1>3, <2>1 DEF TypeFiles, Ask
  <2>8. Filed'
    BY <2>1, <2>5 DEF Filed
  <2>9. CommittedIsWhole'
    BY <2>5, <2>6 DEF CommittedIsWhole, Committed
  <2>10. \A r0 \in Requests : cache[r0] # 0 => cache[r0] \in Calls /\ cache[r0] # call + 1
    BY <1>0, <2>3 DEF Past, TypeFiles, Calls
  <2>11. Past'
    BY <2>5, <2>6, <2>7, <2>10 DEF Past, Committed
  <2> QED  BY <2>8, <2>9, <2>11
<1>4. CASE MakeDirectory
  <2>1. call \in Calls /\ audit[call] \in AuditType /\ mode = "exec" /\ pc = "directories" /\ outcome[call] = "open"
    BY <1>0, <1>4 DEF MakeDirectory, TypeFiles, Placing
  <2>2. audit[call].names = {}
    BY <2>1 DEF Filed
  <2>3. audit'[call].names = {} /\ \A c \in Calls : c # call => audit'[c] = audit[c]
    <3>1. ASSUME NEW d, audit' = [audit EXCEPT ![call].dir = d]
          PROVE  audit'[call].names = {} /\ \A c \in Calls : c # call => audit'[c] = audit[c]
      BY <1>0, <2>1, <2>2, <3>1 DEF TypeFiles, AuditType
    <3> QED  BY <1>4, <2>2, <3>1 DEF MakeDirectory
  <2>4. /\ UNCHANGED <<call, cache, mode>> /\ pc' \in {"directories", "encode", "idle"}
        /\ outcome'[call] # "answered" /\ \A c \in Calls : c # call => outcome'[c] = outcome[c]
    BY <1>0, <1>4, <2>1 DEF MakeDirectory, Refuse, TypeFiles, place
  <2>5. Filed'
    BY <2>3, <2>4 DEF Filed
  <2> QED  BY <1>0, <2>1, <2>3, <2>4, <2>5, OthersStay DEF Committed
<1>5. CASE EncodeRequest \/ Prepare
  <2>1. /\ UNCHANGED <<call, audit, cache, outcome, mode>> /\ pc \in {"encode", "prepare"}
        /\ pc' \in {"prepare", "start", "events"}
    BY <1>5 DEF EncodeRequest, Prepare, Unprepared, place, durable
  <2> QED  BY <2>1, FiledStays
<1>6. CASE StartProcess \/ Wait \/ Join \/ TerminateGroup \/ Settle
  <2>1. /\ UNCHANGED <<call, audit, cache, outcome, mode>> /\ pc \in {"start", "wait", "join", "kill", "settle"}
        /\ pc' \in {"wait", "join", "kill", "settle", "remove"}
    BY <1>6 DEF StartProcess, Wait, Join, TerminateGroup, Settle, place, durable
  <2>2. mode' # "exec" => pc' \notin Filing
    BY <2>1 DEF Filing
  <2> QED  BY <2>1, FiledStays
<1>7. CASE RemovePrivateRoot
  <2>1. /\ UNCHANGED <<call, audit, cache, outcome, mode>> /\ pc = "remove" /\ pc' \in {"idle", "events"}
    BY <1>7 DEF RemovePrivateRoot, durable
  <2> QED  BY <2>1, FiledStays
<1>8. CASE WriteAudit
  <2>1. /\ call \in Calls /\ audit[call] \in AuditType /\ mode = "exec" /\ outcome[call] = "open"
        /\ audit[call].dir = "attempt" /\ pc \in {"events", "quarantine", "manifest"}
        /\ UNCHANGED <<call, cache, mode, outcome, events, counted, answered, failure>>
    BY <1>0, <1>8 DEF WriteAudit, TypeFiles, Placing, Filing, place, stream, result
  <2>2. /\ (pc' = FollowedBy(pc) /\ audit'[call] = Placed(audit[call], pc)) \/ pc' = "retract"
        /\ audit'[call] \in {audit[call], Placed(audit[call], pc)}
        /\ \A c \in Calls : c # call => audit'[c] = audit[c]
    BY <1>0, <1>8, <2>1 DEF WriteAudit, TypeFiles
  <2> DEFINE a == audit[call]
             b == Placed(audit[call], pc)
  <2>3. /\ b.dir = "attempt" /\ b.names = a.names \cup {pc}
        /\ pc = "events" => b.trail = Lifecycle(events) /\ b.honest = (counted = Len(events))
        /\ pc # "events" => b.trail = a.trail /\ b.honest = a.honest
        /\ pc = "manifest" => b.status = Status
    BY <2>1 DEF Placed, AuditType
  <2> HIDE DEF b, a
  <2>4. CASE pc = "events"
    <3>1. b.names = {"events"}
      BY <2>1, <2>3, <2>4 DEF Filed, a
    <3>2. Filed'
      BY <2>1, <2>2, <2>3, <2>4, <3>1 DEF Filed, FollowedBy, b
    <3>3. ~Committed(call)'
      BY <2>2, <2>4, <2>1, <3>1 DEF Committed, Filed, b
    <3>4. audit'[call].dir = "attempt"
      BY <2>1, <2>2, <2>3 DEF b
    <3> QED  BY <1>0, <2>1, <2>2, <3>2, <3>3, <3>4, OthersStay
  <2>5. CASE pc = "quarantine"
    <3>1. b.names = {"events", "quarantine"} /\ failure # "none"
      BY <2>1, <2>3, <2>5 DEF Filed, a
    <3>2. Filed'
      BY <2>1, <2>2, <2>3, <2>5, <3>1 DEF Filed, FollowedBy, a, b
    <3>3. ~Committed(call)'
      BY <2>2, <2>5, <2>1, <3>1 DEF Committed, Filed, b
    <3>4. audit'[call].dir = "attempt"
      BY <2>1, <2>2, <2>3 DEF b
    <3> QED  BY <1>0, <2>1, <2>2, <3>2, <3>3, <3>4, OthersStay
  <2>6. CASE pc = "manifest"
    <3>1. /\ b.names = (IF failure = "none" THEN {"events", "manifest"} ELSE {"events", "quarantine", "manifest"})
          /\ b.trail = Lifecycle(events) /\ b.honest = (counted = Len(events)) /\ b.status = Status
      BY <2>1, <2>3, <2>6 DEF Filed, a
    <3>2. Filed'
      BY <2>1, <2>2, <2>6, <3>1 DEF Filed, FollowedBy, Committed, Status, b
    <3>3. ASSUME answered, failure = "none"
          PROVE  Lifecycle(events) = "answer" /\ counted = Len(events)
      BY <2>1, <2>6, <3>3 DEF Ended, Filing, Followed, Follows
    <3>4. audit'[call].dir = "attempt"
      BY <2>1, <2>2, <2>3 DEF b
    <3>5. Committed(call)' =>
            /\ audit'[call].trail = "answer" /\ audit'[call].honest
            /\ "events" \in audit'[call].names /\ "quarantine" \notin audit'[call].names
      <4>1. CASE audit'[call] = audit[call]
        BY <2>1, <2>6, <4>1 DEF Committed, Filed
      <4>2. CASE audit'[call] = b
        <5>1. Committed(call)' => answered /\ failure = "none"
          BY <2>1, <3>1, <4>2 DEF Committed, Status
        <5>2. failure = "none" => b.names = {"events", "manifest"}
          BY <3>1
        <5>3. Committed(call)' => b.trail = "answer" /\ b.honest
          BY <3>1, <3>3, <5>1
        <5>4. Committed(call)' => "events" \in b.names /\ "quarantine" \notin b.names
          BY <5>1, <5>2
        <5> QED  BY <4>2, <5>3, <5>4
      <4> QED  BY <2>2, <4>1, <4>2 DEF b
    <3> QED  BY <1>0, <2>1, <2>2, <3>2, <3>4, <3>5, OthersStay
  <2> QED  BY <2>1, <2>4, <2>5, <2>6
<1>9. CASE RetractAudit
  <2>1. /\ call \in Calls /\ audit[call] \in AuditType /\ mode = "exec" /\ audit[call].dir = "attempt"
        /\ pc = "retract" /\ UNCHANGED <<call, cache>> /\ pc' = "idle"
    BY <1>0, <1>9 DEF RetractAudit, TypeFiles, Placing, Filing, place, Refuse
  <2>2. audit'[call].dir = "attempt" /\ \A c \in Calls : c # call => audit'[c] = audit[c]
    <3>1. ASSUME NEW S, audit' = [audit EXCEPT ![call].names = S]
          PROVE  audit'[call].dir = "attempt" /\ \A c \in Calls : c # call => audit'[c] = audit[c]
      BY <1>0, <2>1, <3>1 DEF TypeFiles, AuditType
    <3> QED  BY <1>9, <3>1 DEF RetractAudit
  <2>3. outcome'[call] = "refused" /\ \A c \in Calls : c # call => outcome'[c] = outcome[c]
    BY <1>0, <1>9, <2>1 DEF RetractAudit, Refuse, TypeFiles
  <2>4. Filed'
    BY <2>1 DEF Filed
  <2> QED  BY <1>0, <2>1, <2>2, <2>3, <2>4, OthersStay
<1>10. CASE Answer
  <2>1. /\ call \in Calls /\ mode = "exec" /\ pc = "answer" /\ outcome[call] = "open" /\ audit[call].dir = "attempt"
        /\ UNCHANGED <<call, cache, audit, mode, answered, failure>>
    BY <1>0, <1>10 DEF Answer, Placing, Filing, place, durable, result
  <2>2. CASE pc' = "store" /\ UNCHANGED outcome
    BY <2>1, <2>2 DEF Filed, Past, CommittedIsWhole, Committed
  <2>3. CASE Refuse
    <3>1. outcome'[call] = "refused" /\ \A c \in Calls : c # call => outcome'[c] = outcome[c]
      BY <1>0, <2>1, <2>3 DEF Refuse, TypeFiles
    <3>2. Filed'
      BY <2>3 DEF Filed, Refuse
    <3> QED  BY <1>0, <2>1, <3>1, <3>2, OthersStay
  <2> QED  BY <1>10, <2>2, <2>3 DEF Answer
<1>11. CASE Store
  <2>1. /\ call \in Calls /\ mode = "exec" /\ pc = "store" /\ outcome[call] = "open" /\ audit[call].dir = "attempt"
        /\ audit[call].req = request /\ cache[request] = 0 /\ request \in Requests
        /\ UNCHANGED <<call, audit, mode>> /\ pc' = "idle"
    BY <1>0, <1>11 DEF Store, Placing, Filing, place, Refuse, TypeFlow
  <2>2. Filed'
    BY <2>1 DEF Filed
  <2>3. CASE Refuse /\ UNCHANGED cache
    <3>1. outcome'[call] = "refused" /\ \A c \in Calls : c # call => outcome'[c] = outcome[c]
      BY <1>0, <2>1, <2>3 DEF Refuse, TypeFiles
    <3> QED  BY <1>0, <2>1, <2>2, <2>3, <3>1, OthersStay
  <2>4. CASE cache' = [cache EXCEPT ![request] = call] /\ outcome' = [outcome EXCEPT ![call] = "answered"]
    <3>1. Committed(call)
      BY <2>1 DEF Ended, Filed
    <3>2. CommittedIsWhole'
      BY <2>1, <2>4 DEF CommittedIsWhole, Committed
    <3>3. cache'[request] = call /\ \A r \in Requests : r # request => cache'[r] = cache[r]
      BY <1>0, <2>1, <2>4 DEF TypeFiles
    <3>4. outcome'[call] = "answered" /\ \A c \in Calls : c # call => outcome'[c] = outcome[c]
      BY <1>0, <2>1, <2>4 DEF TypeFiles
    <3>5. \A r \in Requests : cache[r] # 0 => cache[r] \in Calls /\ cache[r] # call
      BY <1>0, <2>1 DEF Past, TypeFiles, Calls
    <3>6. \A c \in Calls : outcome[c] = "answered" => audit[c].req \in Requests /\ audit[c].req # request
      BY <2>1 DEF Past, Calls
    <3>7. Past'
      BY <2>1, <3>1, <3>3, <3>4, <3>5, <3>6 DEF Past, Committed
    <3> QED  BY <2>2, <3>2, <3>7
  <2> QED  BY <1>11, <2>3, <2>4 DEF Store
<1>12. CASE ConsumeLine
  <2>1. UNCHANGED <<call, audit, cache, outcome, mode, pc>> /\ pc \in {"wait", "join", "kill", "settle", "remove", "events"}
    BY <1>12 DEF ConsumeLine, place, durable, Running
  <2> QED  BY <2>1, FiledStays
<1>13. CASE ReaderEnds \/ ProcessEnds
  <2>1. UNCHANGED <<call, audit, cache, outcome, mode, pc>> /\ pc \in {"wait", "join", "kill", "settle", "remove", "events"}
    BY <1>13 DEF ReaderEnds, ProcessEnds, place, durable, Running
  <2> QED  BY <2>1, FiledStays
<1>14. CASE Crash
  <2>1. pc # "idle" /\ pc' = "idle" /\ mode' = "version" /\ UNCHANGED <<call, cache>>
    BY <1>14 DEF Crash
  <2>2. CASE mode = "version"
    <3>1. UNCHANGED <<audit, outcome>>
      BY <1>14, <2>2 DEF Crash
    <3> QED  BY <2>1, <3>1, FiledStays
  <2>3. CASE mode = "exec"
    <3>1. call \in Calls /\ audit[call] \in AuditType /\ outcome[call] = "open"
      BY <1>0, <2>1, <2>3 DEF Placing, TypeFiles
    <3>2. PICK left \in {{}, {"tmp"}} : /\ pc \notin {"events", "quarantine", "manifest"} => left = {}
                                       /\ audit' = [audit EXCEPT ![call].names = @ \cup left]
      BY <1>14, <2>3 DEF Crash
    <3>3. audit'[call] = [audit[call] EXCEPT !.names = @ \cup left] /\ \A c \in Calls : c # call => audit'[c] = audit[c]
      BY <1>0, <3>1, <3>2 DEF TypeFiles
    <3>4. /\ audit'[call].names = audit[call].names \cup left /\ audit'[call].dir = audit[call].dir
          /\ audit'[call].trail = audit[call].trail /\ audit'[call].honest = audit[call].honest
          /\ audit'[call].status = audit[call].status
      BY <3>1, <3>3 DEF AuditType
    <3>5. audit'[call].names # {} => audit'[call].dir = "attempt"
      BY <2>3, <3>1, <3>2, <3>4 DEF Past, Placing
    <3>6. Committed(call)' => Committed(call)
      <4>1. "manifest" \notin left
        BY <3>2
      <4> QED  BY <2>1, <3>4, <4>1 DEF Committed
    <3>7. Committed(call)' => /\ audit'[call].trail = "answer" /\ audit'[call].honest
                             /\ "events" \in audit'[call].names /\ "quarantine" \notin audit'[call].names
      BY <3>1, <3>2, <3>4, <3>6 DEF CommittedIsWhole
    <3>8. outcome'[call] = "crashed" /\ \A c \in Calls : c # call => outcome'[c] = outcome[c]
      BY <1>0, <1>14, <2>3, <3>1 DEF Crash, TypeFiles
    <3>9. Filed'
      BY <2>1 DEF Filed
    <3> QED  BY <1>0, <2>1, <2>3, <3>3, <3>5, <3>7, <3>8, <3>9, OthersStay
  <2> QED  BY <1>0, <2>2, <2>3 DEF TypeFlow
<1>15. CASE UNCHANGED vars
  BY <1>15 DEF vars, place, durable, result, stream, Filed, Past, CommittedIsWhole, Committed
<1> QED
  BY <1>1, <1>2, <1>3, <1>4, <1>5, <1>6, <1>7, <1>8, <1>9, <1>10, <1>11, <1>12, <1>13, <1>14,
     <1>15 DEF Next, Main

-----------------------------------------------------------------------------

IInv == TypeOK /\ Placing /\ Named /\ Followed /\ Ended /\ Filed /\ Past /\ CommittedIsWhole

LEMMA InitHolds == Init => IInv
<1> SUFFICES ASSUME Init PROVE IInv
  OBVIOUS
<1>1. Placing /\ Named /\ Filed /\ Past /\ CommittedIsWhole
  BY CallsAssumption DEF Init, Placing, Named, Filing, Filed, Past, CommittedIsWhole, Committed, NoAudit, Calls
<1>2. Followed /\ Ended
  BY DEF Init, Followed, Ended, Filing
<1> QED  BY <1>1, <1>2, TypeInit DEF IInv

LEMMA StepHolds == IInv /\ [Next]_vars => IInv'
  BY TypeStep, PlacingStep, NamedStep, FollowedStep, EndedStep, FiledStep DEF IInv

LEMMA AnswersFollow == IInv => AnswersAlone
  BY DEF IInv, Placing, Filing, Ended, AnswersAlone

\* A clean scan has counted nothing.
LEMMA CleanScan ==
  ASSUME TypeFiles, ScanClean
  PROVE  \A c \in Calls : audit[c].dir = "attempt" => Accounted(c)
<1> DEFINE Bad == {c \in Calls : audit[c].dir = "attempt" /\ ~Accounted(c)}
<1>1. IsFiniteSet(Calls)
  BY FS_Interval, CallsAssumption DEF Calls
<1>2. IsFiniteSet(Bad)
  BY <1>1, FS_Subset
<1>3. IsFiniteSet(Unreferenced)
  <2>1. Unreferenced \subseteq Calls
    BY CallsAssumption DEF Unreferenced, CachedAnswers, TypeFiles, Calls
  <2> QED  BY <1>1, <2>1, FS_Subset
<1>4. IsFiniteSet(EmptyRequests)
  <2>1. EmptyRequests \subseteq {audit[c].req : c \in Calls}
    BY DEF EmptyRequests
  <2>2. IsFiniteSet({audit[c].req : c \in Calls})
    <3> DEFINE reqs == [c \in Calls |-> audit[c].req]
    <3>1. reqs \in Surjection(Calls, {audit[c].req : c \in Calls})
      BY DEF Surjection
    <3> QED  BY <1>1, <3>1, FS_Surjection
  <2> QED  BY <2>1, <2>2, FS_Subset
<1>5. Cardinality(Bad) = 0
  <2>1. /\ Cardinality(Bad) \in Nat /\ Cardinality(Unreferenced) \in Nat
        /\ Cardinality(EmptyRequests) \in Nat
    BY <1>2, <1>3, <1>4, FS_CardinalityType
  <2>2. Cardinality(EmptyRequests) + Cardinality(Unreferenced) + Cardinality(Bad) = 0
    BY DEF ScanClean, Malformed
  <2> QED  BY <2>1, <2>2
<1>6. Bad = {}
  BY <1>2, <1>5, FS_EmptySet
<1> QED  BY <1>6

LEMMA CleanFollows == IInv => CleanScanIsComplete
<1> SUFFICES ASSUME IInv, ScanClean, NEW c \in Calls
             PROVE  /\ outcome[c] = "answered" <=> Committed(c)
                    /\ Committed(c) => cache[audit[c].req] = c
  BY DEF CleanScanIsComplete
<1>1. TypeFiles
  BY TypeParts DEF IInv
<1>2. ASSUME Committed(c)
      PROVE  outcome[c] = "answered" /\ cache[audit[c].req] = c
  <2>1. audit[c].dir = "attempt"
    BY <1>2 DEF IInv, Past, Committed
  <2>2. Accounted(c)
    BY <1>1, <2>1, CleanScan
  <2>3. cache[audit[c].req] = c
    BY <1>2, <2>2 DEF Accounted, Committed
  <2>4. audit[c].req \in Requests
    <3>1. ~(c > call)
      BY <1>2 DEF IInv, Placing, Committed
    <3> QED  BY <3>1 DEF IInv, Named
  <2> QED  BY <2>3, <2>4 DEF IInv, Past, Calls
<1> QED  BY <1>2 DEF IInv, Past

\* Every variable keeps its type, and no stream grows past its limit.
THEOREM TypeCorrect == Spec => []TypeOK
<1>1. IInv => TypeOK
  BY DEF IInv
<1> QED  BY InitHolds, StepHolds, <1>1, PTL DEF Spec

\* A manifest says "committed" only over the whole answer, however the program
\* failed or died on the way.
THEOREM CommitsWholeAnswers == Spec => []CommittedIsWhole
<1>1. IInv => CommittedIsWhole
  BY DEF IInv
<1> QED  BY InitHolds, StepHolds, <1>1, PTL DEF Spec

\* When a call answers, its process, its readers and its private root are gone.
THEOREM NothingOutlivesAnswers == Spec => []AnswersAlone
  BY InitHolds, StepHolds, AnswersFollow, PTL DEF Spec

\* A tree the scan finds clean lists exactly the answers that were given.
THEOREM CleanScansAreComplete == Spec => []CleanScanIsComplete
  BY InitHolds, StepHolds, CleanFollows, PTL DEF Spec
=============================================================================
