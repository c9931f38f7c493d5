---------------------------- MODULE PragmaticBatch ----------------------------
(***************************************************************************)
(* The crash-resumable enrichment batch of generation/pragmatic_batch.py.  *)
(*                                                                         *)
(* One runner, alone under the batch lock, serves the requested cases in   *)
(* order.  Each case owns two provider slots.  Everything that survives a  *)
(* crash is a file: the ledger (reports/pragmatic-batch-state.json), one   *)
(* quarantine receipt per failed slot, and per case a positive record or a *)
(* failure receipt; at the end a provenance manifest and a report.  Every  *)
(* step below contains at most one atomic file replacement, so a crash can *)
(* fall between any two of them.  The runner's memory never differs from   *)
(* the ledger except inside a step, so only its position, the answer it    *)
(* holds and the verdict it is carrying out are kept as volatile state.    *)
(*                                                                         *)
(* Abstractions.  A case is its position in the requested order.  A prompt *)
(* (and the request hash over it) is identified by the repair category it  *)
(* carries: one request builder call is deterministic in it.  The wall     *)
(* clock is the whole number of ticks since the batch started.  A file     *)
(* digest is the file's content.                                           *)
(***************************************************************************)
EXTENDS Integers, Sequences, FiniteSets

CONSTANTS
  None,            \* no such file
  NumCases,        \* number of requested cases
  Ineligible,      \* cases the catalog does not offer for enrichment
  RetryTransport,  \* configuration.retry_transport_once
  GlobalLimit,     \* configuration.global_wall_clock_seconds, in ticks
  SlotTimeout,     \* configuration.slot_timeout_seconds, in ticks
  Answers,         \* the answers a teacher gives in this instance
  CaseBytes,       \* size of a case without slots in the ledger file
  SlotBytes,       \* size of a slot in the ledger file
  MaxStateBytes,   \* the largest ledger file the reader accepts
  MaxElapsed,      \* bound: the clock stops advancing here
  MaxClockSteps,   \* bound: how often the wall clock is set back
  MaxStops         \* bound: how many crashes and systemic errors occur

Cases == 1..NumCases

AllAnswers ==
  {"transport", "garbled", "foreign", "unbounded", "overlong_id",
   "unstructured", "illegal", "noncanonical", "oversized", "valid"}

VARIABLES
  \* durable: what the files say
  ledger,      \* the persisted batch state, None before the first run
  quarantine,  \* quarantine[c][i]: the receipt of slot i
  record,      \* record[c]: the positive enrichment record
  receipt,     \* receipt[c]: the failure receipt
  manifest,    \* the provenance manifest of the last finished run
  report,      \* the report of the last finished run
  \* volatile: lost when the process ends
  pc,          \* where the runner is, "down" when no process runs
  resuming,    \* the run was started with --resume
  cur,         \* the case being served
  answer,      \* what the teacher returned for the current slot
  verdict,     \* the outcome or error kind being carried out
  \* the world
  exit,        \* how the last process ended
  elapsed,     \* ticks since the batch started
  clockSteps,  \* how often the clock was set back
  stops,       \* how many crashes and systemic errors occurred
  calls        \* history: provider calls really made, per slot

durable  == <<ledger, quarantine, record, receipt, manifest, report>>
volatile == <<pc, resuming, cur, answer, verdict>>
world    == <<exit, elapsed, clockSteps, stops, calls>>
vars     == <<durable, volatile, world>>

-------------------------------------------------------------------------------
(***************************************************************************)
(* Data                                                                    *)
(***************************************************************************)

NoVerdict == "no_verdict"
NoRepair  == "no_repair"
MaxSlots  == 2

Outcomes ==
  {"success", "transport", "provenance", "teacher_response_metadata",
   "structured_invalid", "semantic_invalid", "record_too_large",
   "deadline_exceeded", "interrupted_unknown"}

Repairs ==
  {NoRepair, "invalid_teacher_response_metadata", "invalid_structured_output",
   "semantic_validation_failed", "invalid_canonical_path"}

Purposes ==
  {"normal", "transport_retry", "provenance_retry", "structured_repair",
   "semantic_repair", "fatal"}

ErrorKinds ==
  Outcomes \cup {"ineligible", "global_wall_clock_exhausted", "interrupted_provider_slot"}

(* provider_response_cached: true, false, or null when no response is known. *)
CachedFlags == {"true", "false", "null"}

QuarantineReceipt ==
  [outcome: Outcomes \ {"success"}, repair: Repairs, cached: CachedFlags,
   committed: BOOLEAN]

(* A slot of the ledger.  quarantined stands for the path and the digest of *)
(* the quarantine receipt the slot is bound to.                             *)
SlotState ==
  [purpose: Purposes, repair: Repairs,
   status: {"reserved", "provider_invoked", "completed"},
   outcome: Outcomes \cup {"none"}, resultRepair: Repairs,
   evidence: {"confirmed", "upper_bound"}, cached: CachedFlags,
   quarantined: QuarantineReceipt \cup {None}]

(* A case of the ledger; its record and failure paths follow its status. *)
CaseState ==
  [status: {"pending", "success", "failed"}, slots: Seq(SlotState),
   error: ErrorKinds \cup {"none"}]

(* A record carries the prompt it answers; late (history) says that the     *)
(* clock had passed the deadline when the file was put in place.            *)
Record == [prompt: Repairs, late: BOOLEAN]

FailureReceipt == [attempts: 0..MaxSlots, error: ErrorKinds]

(* What the teacher call left the runner with.  Only a response object has  *)
(* a cached flag: an exception or an undecodable object leaves null.        *)
TeacherAnswer == [kind: AllAnswers, cached: CachedFlags]
NoAnswer == [kind |-> "transport", cached |-> "null"]

ASSUME BatchAssumption ==
  /\ NumCases \in Nat \ {0}
  /\ Ineligible \subseteq Cases
  /\ RetryTransport \in BOOLEAN
  /\ GlobalLimit \in Nat \ {0} /\ SlotTimeout \in Nat \ {0}
  /\ Answers \subseteq AllAnswers
  /\ CaseBytes \in Nat /\ SlotBytes \in Nat /\ MaxStateBytes \in Nat
  /\ MaxElapsed \in Nat /\ MaxClockSteps \in Nat /\ MaxStops \in Nat
  /\ None \notin [Cases -> CaseState]
  /\ None \notin QuarantineReceipt \cup Record \cup FailureReceipt

Slots(c) == ledger[c].slots
Last(c)  == Slots(c)[Len(Slots(c))]
(* Mutant: a failed case is served again. *)
PendingOrFailed == {c \in Cases : ledger[c].status # "success"}

Pending  == {c \in Cases : ledger[c].status = "pending"}

(* Slots consumed by cases 1..n. *)
SlotTotal[n \in 0..NumCases] ==
  IF n = 0 THEN 0 ELSE SlotTotal[n - 1] + Len(Slots(n))

LedgerBytes == NumCases * CaseBytes + SlotTotal[NumCases] * SlotBytes

LedgerReadable == LedgerBytes <= MaxStateBytes

-------------------------------------------------------------------------------
(***************************************************************************)
(* The retry rule, and what a resumed run accepts                          *)
(***************************************************************************)

(* _purpose: why the next slot is taken, from the outcome of the previous. *)
Purpose(prev) ==
  CASE prev.status # "completed" -> "transport_retry"
    [] prev.outcome \in {"transport", "interrupted_unknown"} -> "transport_retry"
    [] prev.outcome \in {"provenance", "teacher_response_metadata",
                         "record_too_large"} -> "provenance_retry"
    [] prev.outcome = "structured_invalid" -> "structured_repair"
    [] prev.outcome = "semantic_invalid" -> "semantic_repair"
    [] OTHER -> "fatal"

(* The repair category the next prompt carries. *)
Repair(prev) ==
  CASE Purpose(prev) = "provenance_retry" -> "invalid_teacher_response_metadata"
    [] Purpose(prev) \in {"structured_repair", "semantic_repair"} -> prev.resultRepair
    [] OTHER -> NoRepair

NextPurpose(c) == IF Slots(c) = << >> THEN "normal" ELSE Purpose(Last(c))
NextRepair(c)  == IF Slots(c) = << >> THEN NoRepair ELSE Repair(Last(c))

(* The result repair categories each outcome may come with. *)
ExpectedResults(outcome) ==
  CASE outcome = "teacher_response_metadata" ->
         {NoRepair, "invalid_teacher_response_metadata"}
    [] outcome = "structured_invalid" -> {"invalid_structured_output"}
    [] outcome = "semantic_invalid" ->
         {"semantic_validation_failed", "invalid_canonical_path"}
    [] outcome = "record_too_large" -> {"invalid_teacher_response_metadata"}
    [] OTHER -> {NoRepair}

(* Mutant: off by one. *)
CeilingPassed(c) == Len(Slots(c)) > MaxSlots

CeilingReached(c) == Len(Slots(c)) >= MaxSlots

(* _expected_failure_kinds: the terminal reasons a slot prefix can lead to. *)
ExpectedFailureKinds(c) ==
  IF c \in Ineligible /\ Slots(c) = << >> THEN {"ineligible"}
  ELSE {"global_wall_clock_exhausted"} \cup
       IF Slots(c) = << >> THEN {}
       ELSE IF Last(c).status # "completed"
            THEN (IF CeilingReached(c) THEN {"interrupted_provider_slot"} ELSE {})
                 \cup (IF RetryTransport THEN {} ELSE {"transport"})
            ELSE (IF Last(c).outcome = "deadline_exceeded" \/ CeilingReached(c)
                  THEN {Last(c).outcome} ELSE {})
                 \cup (IF RetryTransport THEN {}
                       ELSE {Last(c).outcome} \cap {"transport", "interrupted_unknown"})

(* Slot i was taken for the reason slot i - 1 gives. *)
SlotReplays(c, i) ==
  LET slot == Slots(c)[i]
      purpose == IF i = 1 THEN "normal" ELSE Purpose(Slots(c)[i - 1])
  IN  /\ purpose # "fatal"
      /\ slot.purpose = purpose
      /\ slot.repair = IF i = 1 THEN NoRepair ELSE Repair(Slots(c)[i - 1])
      /\ i = 2 /\ purpose = "transport_retry" => RetryTransport
      /\ slot.status # "completed" => i = Len(Slots(c))

(* The claims a completed slot makes agree with each other and with the *)
(* quarantine receipt on disk.                                          *)
SlotResultHolds(c, i) ==
  LET slot == Slots(c)[i]
  IN  /\ slot.resultRepair \in ExpectedResults(slot.outcome)
      /\ slot.outcome \in {"transport", "interrupted_unknown"}
           => slot.evidence = "upper_bound" /\ slot.cached = "null"
      /\ slot.evidence = "confirmed" => slot.cached = "false"
      /\ slot.cached = "true" => slot.evidence = "upper_bound"
      /\ IF slot.outcome = "success" THEN i = Len(Slots(c))
         ELSE /\ slot.quarantined # None
              /\ quarantine[c][i] = slot.quarantined
              /\ quarantine[c][i].outcome = slot.outcome
              /\ quarantine[c][i].repair = slot.resultRepair
              /\ quarantine[c][i].cached = slot.cached
              /\ slot.evidence = "confirmed" => quarantine[c][i].committed

HasSuccessSlot(c) ==
  \E i \in DOMAIN Slots(c) :
     Slots(c)[i].status = "completed" /\ Slots(c)[i].outcome = "success"

(* A settled case is backed by its artifact, and by that one only. *)
TerminalHolds(c) ==
  CASE ledger[c].status = "success" ->
         /\ HasSuccessSlot(c)
         /\ \A i \in DOMAIN Slots(c) : Slots(c)[i].status = "completed"
         /\ c \notin Ineligible
         /\ record[c] # None
         /\ record[c].prompt = Last(c).repair
         /\ receipt[c] = None
    [] ledger[c].status = "failed" ->
         /\ ~HasSuccessSlot(c)
         /\ ledger[c].error \in ExpectedFailureKinds(c)
         /\ receipt[c] = [attempts |-> Len(Slots(c)), error |-> ledger[c].error]
         /\ record[c] = None
    [] OTHER -> ~HasSuccessSlot(c)

(* validate_pragmatic_state_semantics, for one case. *)
CaseHolds(c) ==
  /\ Slots(c) # << >> => c \notin Ineligible
  /\ \A i \in DOMAIN Slots(c) :
        /\ SlotReplays(c, i)
        /\ Slots(c)[i].status = "completed" => SlotResultHolds(c, i)
  /\ TerminalHolds(c)

(* Mutant: expects the slot to be completed, as after an orderly end. *)
RecordAdoptableOnceCompleted(c) ==
  /\ Slots(c) # << >>
  /\ Last(c).status = "completed"
  /\ record[c].prompt = Last(c).repair

(* A record left by a run that died is adopted only for the slot it answers. *)
RecordAdoptable(c) ==
  /\ Slots(c) # << >>
  /\ Last(c).status = "provider_invoked"
  /\ record[c].prompt = Last(c).repair

-------------------------------------------------------------------------------
(***************************************************************************)
(* Starting, stopping, and the world                                       *)
(***************************************************************************)

Init ==
  /\ ledger = None
  /\ quarantine = [c \in Cases |-> [i \in 1..MaxSlots |-> None]]
  /\ record = [c \in Cases |-> None]
  /\ receipt = [c \in Cases |-> None]
  /\ manifest = None /\ report = None
  /\ pc = "down" /\ resuming = FALSE /\ cur = 1
  /\ answer = NoAnswer /\ verdict = NoVerdict
  /\ exit = "none" /\ elapsed = 0 /\ clockSteps = 0 /\ stops = 0
  /\ calls = [c \in Cases |-> [i \in 1..MaxSlots |-> 0]]

(* The process is gone; only files remain. *)
Down(how) ==
  /\ pc' = "down" /\ resuming' = FALSE /\ cur' = 1
  /\ answer' = NoAnswer /\ verdict' = NoVerdict
  /\ exit' = how

Goto(place) == pc' = place /\ UNCHANGED <<resuming, cur, exit>>

(* First invocation: refused when a ledger exists, otherwise the empty *)
(* ledger is written and its start time fixes the deadline.            *)
StartBatch ==
  /\ pc = "down"
  /\ ledger = None
  /\ ledger' = [c \in Cases |-> [status |-> "pending", slots |-> << >>, error |-> "none"]]
  /\ pc' = "next" /\ exit' = "none"
  /\ UNCHANGED <<quarantine, record, receipt, manifest, report, resuming, cur,
                 answer, verdict, elapsed, clockSteps, stops, calls>>

(* --resume: the ledger must be readable and every claim in it must hold. *)
ResumeAccepted ==
  /\ ledger # None
  /\ LedgerReadable
  /\ \A c \in Cases : CaseHolds(c)

ResumeBatch ==
  /\ pc = "down"
  /\ ResumeAccepted
  /\ pc' = "next" /\ resuming' = TRUE /\ exit' = "none"
  /\ UNCHANGED <<durable, cur, answer, verdict, elapsed, clockSteps, stops, calls>>

(* The process is killed between two steps, or a write fails. *)
Crash ==
  /\ pc # "down"
  /\ stops < MaxStops /\ stops' = stops + 1
  /\ Down("crashed")
  /\ UNCHANGED <<durable, elapsed, clockSteps, calls>>

(* A systemic error is raised on purpose and ends the whole run: the local *)
(* preparation, the Git cache or the readback of a record failed.          *)
SystemicError ==
  /\ pc \in {"prepare", "evaluate", "readback"}
  /\ stops < MaxStops /\ stops' = stops + 1
  /\ Down("systemic")
  /\ UNCHANGED <<durable, elapsed, clockSteps, calls>>

Tick ==
  /\ ledger # None
  /\ elapsed < MaxElapsed /\ elapsed' = elapsed + 1
  /\ UNCHANGED <<durable, volatile, exit, clockSteps, stops, calls>>

(* time.time() is the wall clock and may be set back. *)
ClockSetBack ==
  /\ ledger # None /\ elapsed > 0
  /\ clockSteps < MaxClockSteps /\ clockSteps' = clockSteps + 1
  /\ elapsed' = elapsed - 1
  /\ UNCHANGED <<durable, volatile, exit, stops, calls>>

PastDeadline == elapsed >= GlobalLimit
TooLateToStart == GlobalLimit - elapsed < SlotTimeout

-------------------------------------------------------------------------------
(***************************************************************************)
(* Choosing a case                                                         *)
(***************************************************************************)

(* Carry the case to a failure of the given kind: receipt first, then ledger. *)
Fail(kind) ==
  /\ verdict' = kind /\ answer' = NoAnswer
  /\ Goto("fail")
  /\ UNCHANGED <<durable, elapsed, clockSteps, stops, calls>>

(* Carry the current slot to an outcome: receipt first, then ledger. *)
Quarantine(outcome) ==
  /\ verdict' = outcome
  /\ Goto("quarantine")
  /\ UNCHANGED <<durable, answer, elapsed, clockSteps, stops, calls>>

Proceed(place) ==
  /\ Goto(place)
  /\ UNCHANGED <<durable, answer, verdict, elapsed, clockSteps, stops, calls>>

NextCase ==
  /\ pc = "next"
  /\ \E c \in Pending :
       /\ \A d \in Pending : c <= d
       /\ cur' = c
       /\ IF c \in Ineligible THEN pc' = "fail" /\ verdict' = "ineligible"
          ELSE /\ pc' = IF resuming THEN "recover" ELSE "admit"
               /\ UNCHANGED verdict
  /\ UNCHANGED <<durable, resuming, answer, exit, elapsed, clockSteps, stops, calls>>

(* A resumed run first looks for a record the dead run had published. *)
RecoverRecord ==
  /\ pc = "recover" /\ record[cur] # None
  /\ IF RecordAdoptable(cur) THEN Proceed("succeed")
     ELSE Down("systemic") /\ UNCHANGED <<durable, elapsed, clockSteps, stops, calls>>

(* Mutant: the slot in flight is called for again. *)
RecoverSlotByCalling ==
  /\ pc = "recover" /\ record[cur] = None
  /\ IF Slots(cur) # << >> /\ Last(cur).status # "completed"
     THEN Proceed("invoke")
     ELSE Proceed("admit")

(* Then it gives up the slot the dead run was in. *)
RecoverSlot ==
  /\ pc = "recover" /\ record[cur] = None
  /\ IF Slots(cur) # << >> /\ Last(cur).status # "completed"
     THEN Quarantine("interrupted_unknown")
     ELSE Proceed("admit")

(* Both before the preparation and at the head of the slot loop. *)
CeilingFailure ==
  /\ pc \in {"admit", "attempt"}
  /\ CeilingReached(cur)
  /\ Fail(IF Last(cur).status # "completed" THEN "interrupted_provider_slot"
          ELSE Last(cur).outcome)

ClockFailure ==
  /\ pc \in {"admit", "attempt"}
  /\ ~CeilingReached(cur) /\ TooLateToStart
  /\ Fail("global_wall_clock_exhausted")

Admit ==
  /\ pc = "admit"
  /\ ~CeilingReached(cur) /\ ~TooLateToStart
  /\ Proceed("prepare")

Prepare == pc = "prepare" /\ Proceed("attempt")

-------------------------------------------------------------------------------
(***************************************************************************)
(* One provider slot                                                       *)
(***************************************************************************)

(* Only reachable when the clock was set back after a deadline. *)
RetryUndefined ==
  /\ pc = "attempt" /\ ~CeilingReached(cur) /\ ~TooLateToStart
  /\ NextPurpose(cur) = "fatal"
  /\ Down("systemic")
  /\ UNCHANGED <<durable, elapsed, clockSteps, stops, calls>>

RetryRefused ==
  /\ pc = "attempt" /\ ~CeilingReached(cur) /\ ~TooLateToStart
  /\ NextPurpose(cur) = "transport_retry" /\ ~RetryTransport
  /\ Fail(IF Last(cur).outcome = "interrupted_unknown" THEN "interrupted_unknown"
          ELSE "transport")

NewSlot(c) ==
  [purpose |-> NextPurpose(c), repair |-> NextRepair(c), status |-> "reserved",
   outcome |-> "none", resultRepair |-> NoRepair, evidence |-> "upper_bound",
   cached |-> "null", quarantined |-> None]

(* The slot is consumed on disk before anything is asked of the provider. *)
ReserveSlot ==
  /\ pc = "attempt" /\ ~CeilingReached(cur) /\ ~TooLateToStart
  /\ NextPurpose(cur) # "fatal"
  /\ NextPurpose(cur) = "transport_retry" => RetryTransport
  /\ ledger' = [ledger EXCEPT ![cur].slots = Append(@, NewSlot(cur))]
  /\ Goto("invoke")
  /\ UNCHANGED <<quarantine, record, receipt, manifest, report, answer, verdict,
                 elapsed, clockSteps, stops, calls>>

(* The ledger with the case's last slot replaced. *)
WithLast(c, slot) == [ledger EXCEPT ![c].slots[Len(Slots(c))] = slot]

InvokeSlot ==
  /\ pc = "invoke"
  /\ ledger' = WithLast(cur, [Last(cur) EXCEPT !.status = "provider_invoked"])
  /\ Goto("call")
  /\ UNCHANGED <<quarantine, record, receipt, manifest, report, answer, verdict,
                 elapsed, clockSteps, stops, calls>>

HasResponse(a) == a.kind \notin {"transport", "garbled"}

(* Any answer may come back.  A response that is not from the cache proves   *)
(* a provider call, one from the cache excludes it, and without a response   *)
(* (an exception may precede or follow the request) either may be the case.  *)
CallTeacher ==
  /\ pc = "call"
  /\ \E a \in TeacherAnswer :
       /\ a.kind \in Answers
       /\ HasResponse(a) <=> a.cached # "null"
       /\ answer' = a
       /\ \/ a.cached # "false" /\ UNCHANGED calls
          \/ a.cached # "true" /\ calls' = [calls EXCEPT ![cur][Len(Slots(cur))] = @ + 1]
  /\ Goto("returned")
  /\ UNCHANGED <<durable, verdict, elapsed, clockSteps, stops>>

(* The deadline is read again after the call, after the evaluation and    *)
(* before the record is written; past it the answer is only quarantined.  *)
AnswerLate ==
  /\ pc \in {"returned", "evaluated", "commit"}
  /\ PastDeadline
  /\ Quarantine("deadline_exceeded")

(* _response_or_outcome: failures known without reading the text. *)
ProviderFailure(kind) ==
  CASE kind = "transport" -> "transport"
    [] kind \in {"garbled", "foreign"} -> "provenance"
    [] kind \in {"unbounded", "overlong_id"} -> "teacher_response_metadata"
    [] OTHER -> "none"

AnswerFailed ==
  /\ pc = "returned" /\ ~PastDeadline
  /\ ProviderFailure(answer.kind) # "none"
  /\ Quarantine(ProviderFailure(answer.kind))

AnswerReceived ==
  /\ pc = "returned" /\ ~PastDeadline
  /\ ProviderFailure(answer.kind) = "none"
  /\ Proceed("evaluate")

Evaluate == pc = "evaluate" /\ Proceed("evaluated")

AnswerInvalid ==
  /\ pc = "evaluated" /\ ~PastDeadline
  /\ answer.kind \in {"unstructured", "illegal", "noncanonical"}
  /\ Quarantine(IF answer.kind = "unstructured" THEN "structured_invalid"
                ELSE "semantic_invalid")

AnswerValid ==
  /\ pc = "evaluated" /\ ~PastDeadline
  /\ answer.kind \in {"valid", "oversized"}
  /\ Proceed("build")

RecordTooLarge ==
  /\ pc = "build" /\ answer.kind = "oversized"
  /\ Quarantine("record_too_large")

BuildRecord == pc = "build" /\ answer.kind # "oversized" /\ Proceed("commit")

CommitRecord == pc = "commit" /\ ~PastDeadline /\ Proceed("publish")

PublishRecord ==
  /\ pc = "publish"
  /\ record' = [record EXCEPT ![cur] = [prompt |-> Last(cur).repair, late |-> PastDeadline]]
  /\ Goto("published")
  /\ UNCHANGED <<ledger, quarantine, receipt, manifest, report, answer, verdict,
                 elapsed, clockSteps, stops, calls>>

(* Mutant: the late record stays. *)
LeaveLateRecord ==
  /\ pc \in {"published", "verified"} /\ PastDeadline
  /\ Quarantine("deadline_exceeded")

(* The deadline passed while the record was written or read back. *)
RetractRecord ==
  /\ pc \in {"published", "verified"} /\ PastDeadline
  /\ record' = [record EXCEPT ![cur] = None]
  /\ verdict' = "deadline_exceeded"
  /\ Goto("quarantine")
  /\ UNCHANGED <<ledger, quarantine, receipt, manifest, report, answer,
                 elapsed, clockSteps, stops, calls>>

(* Mutant: the deadline is not read again. *)
KeepAnyRecord ==
  /\ pc \in {"published", "verified"}
  /\ Proceed(IF pc = "published" THEN "readback" ELSE "succeed")

KeepRecord ==
  /\ pc \in {"published", "verified"} /\ ~PastDeadline
  /\ Proceed(IF pc = "published" THEN "readback" ELSE "succeed")

Readback == pc = "readback" /\ Proceed("verified")

-------------------------------------------------------------------------------
(***************************************************************************)
(* Settling a slot, a case and the batch                                   *)
(***************************************************************************)

ResultRepair(outcome, kind) ==
  CASE outcome = "structured_invalid" -> "invalid_structured_output"
    [] outcome = "semantic_invalid" ->
         IF kind = "noncanonical" THEN "invalid_canonical_path"
         ELSE "semantic_validation_failed"
    [] outcome = "record_too_large" -> "invalid_teacher_response_metadata"
    [] OTHER -> NoRepair

NewQuarantine ==
  [outcome |-> verdict, repair |-> ResultRepair(verdict, answer.kind),
   cached |-> answer.cached, committed |-> HasResponse(answer)]

(* The receipt model bounds the provider's request id; a longer one is not *)
(* a failed slot but an exception that nothing catches.                    *)
WriteQuarantine ==
  /\ pc = "quarantine"
  /\ IF answer.kind = "overlong_id"
     THEN Down("rejected") /\ UNCHANGED durable
     ELSE /\ quarantine' = [quarantine EXCEPT ![cur][Len(Slots(cur))] = NewQuarantine]
          /\ Goto("complete")
          /\ UNCHANGED <<ledger, record, receipt, manifest, report, answer, verdict>>
  /\ UNCHANGED <<elapsed, clockSteps, stops, calls>>

(* Mutant: any known response counts as a call. *)
EvidenceOfAnyResponse(cached) == IF cached = "null" THEN "upper_bound" ELSE "confirmed"

Evidence(cached) == IF cached = "false" THEN "confirmed" ELSE "upper_bound"

(* _complete_slot.  For an oversized record the caller does not pass on what *)
(* is known of the response.                                                 *)
Completed(slot, outcome, cached, file) ==
  LET known == IF outcome = "record_too_large" THEN "null" ELSE cached
  IN  [slot EXCEPT !.status = "completed", !.outcome = outcome,
                   !.resultRepair = ResultRepair(outcome, answer.kind),
                   !.evidence = Evidence(known), !.cached = known,
                   !.quarantined = file]

CompleteSlot ==
  /\ pc = "complete"
  /\ ledger' = WithLast(cur, Completed(Last(cur), verdict, answer.cached,
                                       quarantine[cur][Len(Slots(cur))]))
  /\ answer' = NoAnswer
  /\ IF verdict = "deadline_exceeded" THEN Goto("fail") /\ UNCHANGED verdict
     ELSE /\ Goto(IF verdict = "interrupted_unknown" THEN "admit" ELSE "attempt")
          /\ verdict' = NoVerdict
  /\ UNCHANGED <<quarantine, record, receipt, manifest, report,
                 elapsed, clockSteps, stops, calls>>

(* Mutant: an earlier failure receipt stays beside the record. *)
LeaveStaleReceipt ==
  /\ pc = "succeed"
  /\ Goto("settle_success")
  /\ UNCHANGED <<durable, answer, verdict, elapsed, clockSteps, stops, calls>>

RemoveStaleReceipt ==
  /\ pc = "succeed"
  /\ receipt' = [receipt EXCEPT ![cur] = None]
  /\ Goto("settle_success")
  /\ UNCHANGED <<ledger, quarantine, record, manifest, report, answer, verdict,
                 elapsed, clockSteps, stops, calls>>

SettleSuccess ==
  /\ pc = "settle_success"
  /\ LET slot == Completed(Last(cur), "success", answer.cached, None)
     IN  ledger' = [WithLast(cur, slot) EXCEPT ![cur].status = "success"]
  /\ answer' = NoAnswer
  /\ Goto("next")
  /\ UNCHANGED <<quarantine, record, receipt, manifest, report, verdict,
                 elapsed, clockSteps, stops, calls>>

(* _terminal_failure, in its two writes. *)
WriteFailureReceipt ==
  /\ pc = "fail"
  /\ receipt' = [receipt EXCEPT ![cur] = [attempts |-> Len(Slots(cur)), error |-> verdict]]
  /\ Goto("settle_failure")
  /\ UNCHANGED <<ledger, quarantine, record, manifest, report, answer, verdict,
                 elapsed, clockSteps, stops, calls>>

SettleFailure ==
  /\ pc = "settle_failure"
  /\ ledger' = [ledger EXCEPT ![cur].status = "failed", ![cur].error = verdict]
  /\ verdict' = NoVerdict
  /\ Goto("next")
  /\ UNCHANGED <<quarantine, record, receipt, manifest, report, answer,
                 elapsed, clockSteps, stops, calls>>

Settled(status) == {c \in Cases : ledger[c].status = status}

(* Mutant: every failure receipt is taken for a stale one. *)
CleanUpAllReceipts ==
  /\ pc = "next" /\ Pending = {}
  /\ record'  = [c \in Cases |-> IF c \in Settled("success") THEN record[c] ELSE None]
  /\ receipt' = [c \in Cases |-> None]
  /\ Goto("manifest")
  /\ UNCHANGED <<ledger, quarantine, manifest, report, answer, verdict,
                 elapsed, clockSteps, stops, calls>>

(* _cleanup_enrichment_artifacts: only the artifacts the ledger claims stay. *)
CleanUp ==
  /\ pc = "next" /\ Pending = {}
  /\ record'  = [c \in Cases |-> IF c \in Settled("success") THEN record[c] ELSE None]
  /\ receipt' = [c \in Cases |-> IF c \in Settled("failed") THEN receipt[c] ELSE None]
  /\ Goto("manifest")
  /\ UNCHANGED <<ledger, quarantine, manifest, report, answer, verdict,
                 elapsed, clockSteps, stops, calls>>

(* The manifest binds the digest of the ledger file, which is read back. *)
WriteManifest ==
  /\ pc = "manifest"
  /\ IF ~LedgerReadable THEN Down("rejected") /\ UNCHANGED durable
     ELSE /\ manifest' = [ledger |-> ledger,
                          records |-> {c \in Cases : record[c] # None},
                          failures |-> {c \in Cases : receipt[c] # None}]
          /\ Goto("report")
          /\ UNCHANGED <<ledger, quarantine, record, receipt, report, answer, verdict>>
  /\ UNCHANGED <<elapsed, clockSteps, stops, calls>>

(* Mutant: only the last slot of a case is looked at. *)
LastSlotUncertain ==
  \E c \in Cases : Slots(c) # << >> /\ Last(c).evidence # "confirmed"

Uncertain ==
  \E c \in Cases : \E i \in DOMAIN Slots(c) :
    Slots(c)[i].status # "completed" \/ Slots(c)[i].evidence # "confirmed"

WriteReport ==
  /\ pc = "report"
  /\ report' = [success |-> Settled("success"), failed |-> Settled("failed"),
                kind |-> IF Uncertain THEN "upper_bound" ELSE "exact",
                value |-> SlotTotal[NumCases]]
  /\ Down("finished")
  /\ UNCHANGED <<ledger, quarantine, record, receipt, manifest,
                 elapsed, clockSteps, stops, calls>>

-------------------------------------------------------------------------------
(***************************************************************************)
(* Specification                                                           *)
(***************************************************************************)

SlotStep ==
  \/ RetryUndefined \/ RetryRefused \/ ReserveSlot \/ InvokeSlot \/ CallTeacher
  \/ AnswerLate \/ AnswerFailed \/ AnswerReceived \/ Evaluate \/ AnswerInvalid
  \/ AnswerValid \/ RecordTooLarge \/ BuildRecord \/ CommitRecord
  \/ PublishRecord \/ RetractRecord \/ KeepRecord \/ Readback

CaseStep ==
  \/ NextCase \/ RecoverRecord \/ RecoverSlot \/ CeilingFailure \/ ClockFailure
  \/ Admit \/ Prepare \/ WriteQuarantine \/ CompleteSlot \/ RemoveStaleReceipt
  \/ SettleSuccess \/ WriteFailureReceipt \/ SettleFailure

FinishStep == CleanUp \/ WriteManifest \/ WriteReport

RunnerStep == SlotStep \/ CaseStep \/ FinishStep

WorldStep == Crash \/ SystemicError \/ Tick \/ ClockSetBack

Next == StartBatch \/ ResumeBatch \/ RunnerStep \/ WorldStep

Spec == Init /\ [][Next]_vars

(* A process that is not killed goes on, and the operator resumes a batch   *)
(* whose process is gone, as the runbooks say.  Nothing makes a crash, a    *)
(* clock tick or the first invocation happen.                               *)
FairSpec == Spec /\ WF_vars(RunnerStep) /\ WF_vars(ResumeBatch)

-------------------------------------------------------------------------------
(***************************************************************************)
(* Properties                                                              *)
(***************************************************************************)

Places ==
  {"down", "next", "recover", "admit", "prepare", "attempt", "invoke", "call",
   "returned", "evaluate", "evaluated", "build", "commit", "publish",
   "published", "readback", "verified", "quarantine", "complete", "succeed",
   "settle_success", "fail", "settle_failure", "manifest", "report"}

(* Every variable has its type, and no case owns more than two slots. *)
TypeOK ==
  /\ ledger \in [Cases -> CaseState] \cup {None}
  /\ ledger # None => \A c \in Cases : Len(Slots(c)) <= MaxSlots
  /\ quarantine \in [Cases -> [1..MaxSlots -> QuarantineReceipt \cup {None}]]
  /\ record \in [Cases -> Record \cup {None}]
  /\ receipt \in [Cases -> FailureReceipt \cup {None}]
  /\ pc \in Places /\ resuming \in BOOLEAN /\ cur \in Cases
  /\ answer \in TeacherAnswer /\ verdict \in ErrorKinds \cup {NoVerdict}
  /\ exit \in {"none", "crashed", "systemic", "rejected", "finished"}
  /\ elapsed \in Nat /\ clockSteps \in Nat /\ stops \in Nat
  /\ calls \in [Cases -> [1..MaxSlots -> Nat]]

(* Whatever instant the process dies at, the files it leaves are accepted by *)
(* the next --resume: the replay of validate_pragmatic_state_semantics finds *)
(* no fault, and a record found beside a pending case belongs to the slot    *)
(* that was in flight.  (A slot that ended record_too_large is excepted: its *)
(* receipt and its ledger entry disagree on the cached flag.)                *)
NeverWedged ==
  ledger # None =>
    \A c \in Cases :
      /\ \/ CaseHolds(c)
         \/ \E i \in DOMAIN Slots(c) : Slots(c)[i].outcome = "record_too_large"
      /\ ledger[c].status = "pending" /\ record[c] # None => RecordAdoptable(c)

(* How the ledger shows what SlotBudget speaks of. *)
ConsumedSlots == [c \in Cases |-> IF ledger = None THEN 0 ELSE Len(Slots(c))]
CaseStatuses  == [c \in Cases |-> IF ledger = None THEN "pending" ELSE ledger[c].status]

Budget == INSTANCE SlotBudget WITH consumed <- ConsumedSlots, status <- CaseStatuses

(* The batch keeps the promise of SlotBudget across crashes and resumes: a   *)
(* slot is consumed on disk before its call, is called for at most once, no  *)
(* case gets a third slot, and a settled case costs nothing on resume.       *)
SpendsWithinBudget == Budget!Spec

(* The report's invocation count is honest: "exact" is claimed only when     *)
(* every consumed slot was a real provider call, and the value is never      *)
(* below the number of calls made.                                           *)
InvocationCountHonest ==
  report # None =>
    /\ report.value = SlotTotal[NumCases]
    /\ \A c \in Cases : \A i \in 1..MaxSlots :
         calls[c][i] <= IF i \in DOMAIN Slots(c) THEN 1 ELSE 0
    /\ report.kind = "exact" =>
         \A c \in Cases : \A i \in DOMAIN Slots(c) : calls[c][i] = 1

(* Once a report exists it stays true of the files, whatever later resumes   *)
(* do: the successes are the cases with a record, the failures those with a  *)
(* failure receipt, together they are all the cases, and the manifest binds  *)
(* the ledger that is on disk.                                               *)
ReportMatchesFiles ==
  report # None =>
    /\ report.success = {c \in Cases : record[c] # None}
    /\ report.failed = {c \in Cases : receipt[c] # None}
    /\ report.success \cup report.failed = Cases
    /\ report.success \cap report.failed = {}
    /\ manifest = [ledger |-> ledger, records |-> report.success,
                   failures |-> report.failed]

(* Nothing a settled case left on disk changes again: not its slots, its     *)
(* record, its failure receipt, nor the quarantine receipts its slots are    *)
(* bound to.                                                                 *)
SettledCaseFrozen ==
  [][\A c \in Cases :
       ledger # None /\ ledger[c].status # "pending"
       => /\ ledger'[c] = ledger[c] /\ record'[c] = record[c]
          /\ receipt'[c] = receipt[c] /\ quarantine'[c] = quarantine[c]]_vars

(* A record put in place after the deadline is taken back: the run that      *)
(* published it never reports the case as a success.  Only a success adopted *)
(* from a dead run, recognised by its unknown cached flag, can carry one.    *)
LateRecordRetracted ==
  \A c \in Cases :
    ledger # None /\ ledger[c].status = "success" /\ record[c].late
    => Last(c).cached = "null"

(* Every batch that was started is reported in the end, if the operator      *)
(* resumes it after each of the finitely many stops.                         *)
BatchCompletes == ledger # None ~> report # None

(* The tests of the post-write and the readback deadline: a record whose     *)
(* write crossed the deadline is removed and the case fails.                 *)
LateRecordNeverSucceeds ==
  \A c \in Cases :
    ledger # None /\ ledger[c].status = "success" => ~record[c].late

(* "Per-case continuation": what a provider answers for one case may fail    *)
(* that case, but it does not end the batch.                                 *)
AnswerNeverEndsBatch == exit # "rejected"

(* The state contract admits 10,000 cases; the ledger the runner writes for  *)
(* them stays readable by the runner itself.                                 *)
LedgerStaysReadable == ledger # None => LedgerReadable
===============================================================================
