--------------------------- MODULE FailFastBatch ---------------------------
(***************************************************************************)
(* The fail-fast recovery batch (generation/fail_fast_batch.py) and the     *)
(* enrichment runner it drives (generation/enrichment.py).  A run holds the *)
(* batch lock, recomputes from the files which segment of the frozen scope  *)
(* may be served, moves the reports of the run before into the history,     *)
(* serves its cases in order up to the first failure, and publishes a       *)
(* provenance manifest, a summary and a report that anybody can recompute.  *)
(* Nothing but the output tree survives a run; every step changes at most   *)
(* one file, so the program may die between any two changes.                *)
(*                                                                         *)
(* Data.  A positive record is the prompt version it answers ("current" is  *)
(* bound to the last committed attempt of its case).  The request of an     *)
(* attempt is given by the verdicts on the committed attempts before it, so *)
(* an attempt is just its verdict, "transport" for a quarantined provider   *)
(* failure.  Invalid paths and other semantic errors are one verdict.  A    *)
(* digest is the content it covers.  What a call can leave in the audit     *)
(* tree, and which of it a scan calls malformed, is the subject of          *)
(* CodexExec; here it is the variable "clean".                              *)
(***************************************************************************)
EXTENDS Naturals, Sequences, FiniteSets

CONSTANTS
    Scope,        \* the frozen scope, a sequence of cases
    First,        \* the case that comes with a positive of prompt v2.1
    Target,       \* _EXPLICIT_REATTESTATION_TARGET, with one of prompt v2.2
    Segments,     \* the case lists runs are started with
    Verdicts,     \* the verdicts on a response, out of AllVerdicts
    MaxRuns,      \* bound: runs of the batch
    MaxFaults     \* bound: failing file operations, spoilt calls, crashes

Range(s) == {s[i] : i \in DOMAIN s}
Cases == Range(Scope)

\* "unusable" is a response the runner refuses without another attempt: of
\* another provenance, with unbounded metadata, or too large as a record.
Repairable  == {"structured", "semantic", "metadata"}
AllVerdicts == Repairable \cup {"valid", "unusable"}

ASSUME ScopeAssumption ==
    /\ Scope \in Seq(Cases) /\ \A i, j \in DOMAIN Scope : Scope[i] = Scope[j] => i = j
    /\ First \in Cases /\ Target \in Cases /\ First # Target
ASSUME SegmentsAssumption == Segments \subseteq Seq(Cases) /\ <<>> \notin Segments
ASSUME VerdictsAssumption == Verdicts \subseteq AllVerdicts
ASSUME BoundsAssumption   == MaxRuns \in Nat /\ MaxFaults \in Nat

VARIABLES
    \* the output tree
    record,     \* per case: the positive record
    moved,      \* the frozen positive of Target is in enrichment/quarantine
    receipt,    \* per case: the failure receipt
    history,    \* the receipts in reports/remaining-p0/history
    attempts,   \* per case: the verdicts on its audited attempts, in order
    clean,      \* the scan of the teacher audit finds nothing malformed
    manifest,   \* the provenance manifest
    summary,    \* the summary, which commits to the manifest
    report,     \* the report
    \* the run
    pc,         \* where the run is
    requested,  \* its case list
    mode,       \* recovery mode of the preflight
    started,    \* how many cases it started
    attempt,    \* how many attempts the runner has made for the case
    pending,    \* the receipt the runner is about to write
    failed,     \* the last started case failed
    \* history and bounds
    calls,      \* per case: provider invocations ever made
    runs,
    faults

evidence == <<record, moved, receipt, history, attempts, clean>>
papers   == <<manifest, summary, report>>
runVars  == <<requested, mode, started, attempt, pending, failed>>
counts   == <<calls, runs, faults>>
vars == <<evidence, papers, pc, runVars, counts>>

None == [kind |-> "none"]
Receipt(kind, n, validated) == [kind |-> kind, attempts |-> n, validated |-> validated]

-----------------------------------------------------------------------------
(* The audit trail.                                                         *)

\* The cache holds the response to the k-th request of a case.  (After a
\* transport failure no preflight accepts the tree, so none is followed.)
Held(c, k) == k \in DOMAIN attempts[c] /\ attempts[c][k] # "transport"
Transports(S) == UNION {{<<c, i>> : i \in {j \in DOMAIN attempts[c] : attempts[c][j] = "transport"}} : c \in S}
Attempts(S) == UNION {{c} \X DOMAIN attempts[c] : c \in S}

\* _audit_state: a clean scan, whose provider failures are those of the frozen
\* expectation once the failures of the active cases are set apart.
AuditAccepted(active) == clean /\ Transports(Cases \ active) = {}

\* No two attempts of a case answer the same request: only committed attempts
\* lead on to another one.
DistinctRequests(c) == \A i \in DOMAIN attempts[c] : attempts[c][i] = "transport" => i = Len(attempts[c])

-----------------------------------------------------------------------------
(* Which segment of the scope a run may serve.                              *)

\* _scope_completion_kinds and _recovery_scope_state: a case that started in
\* this run counts as it did before, which its files no longer show.
Kind(c, active) ==
    CASE record[c] = "current" /\ c \notin active -> IF c = Target THEN "reattested" ELSE "current"
      [] record[c] = "current" /\ c \in active    -> IF c = Target THEN "v22" ELSE "none"
      [] record[c] = "none" /\ c = Target /\ c \in active /\ moved -> "v22"
      [] OTHER -> record[c]

Reattests(seg, active) == seg = <<Target>> /\ Kind(Target, active) \in {"v22", "reattested"}

Done(seg, active) ==
    {c \in Cases : Kind(c, active) \in {"v21", "current", "reattested"}
                     \cup (IF Reattests(seg, active) THEN {"v22"} ELSE {})}

Before(c) == {Scope[i] : i \in {j \in DOMAIN Scope : \E k \in DOMAIN Scope : j < k /\ Scope[k] = c}}
After(c)  == {d \in Cases : c \in Before(d)}

\* _resolve_scope_contract and _validate_scope_segment.
SegmentAllowed(seg, active) ==
    /\ seg[1] = Target /\ Kind(Target, active) \in {"v22", "reattested"} => seg = <<Target>>
    /\ \E i \in DOMAIN Scope : i + Len(seg) - 1 <= Len(Scope)
                                 /\ seg = SubSeq(Scope, i, i + Len(seg) - 1)
    /\ Before(seg[1]) \subseteq Done(seg, active)
    /\ Reattests(seg, active) \/ seg[1] \notin Done(seg, active)

\* _recovery_scope_state: all that is asked of the tree before a run, and again
\* by everybody who builds or verifies its report.
ScopeHolds(seg, active) == AuditAccepted(active) /\ SegmentAllowed(seg, active)

ModeOf(seg, active) == IF Reattests(seg, active) THEN "explicit_reattestation" ELSE "forward_recovery"
Forbidden(seg) == After(seg[Len(seg)])

-----------------------------------------------------------------------------
(* The replay of what a report says.                                        *)

\* The attempt whose validation a receipt quotes: the last well-formed one.
LastValidated(seq) ==
    LET Seen == {i \in DOMAIN seq : seq[i] \in {"semantic", "metadata"}}
    IN  IF Seen = {} THEN 0 ELSE CHOOSE i \in Seen : \A j \in Seen : j <= i

ExhaustedReceipt(seq) == Receipt(seq[Len(seq)], Len(seq), LastValidated(seq))

\* _verify_transport_stop_attempt: the one failure of the run, at the first try.
TransportStop(c, active) ==
    /\ attempts[c] = <<"transport">>
    /\ Cardinality(Transports(active)) = 1
    /\ receipt[c] = Receipt("transport", 1, 0)

\* _verify_stopped_attempt_sequence: that, or attempts none of which was valid.
StoppedSequence(c, active) ==
    \/ TransportStop(c, active)
    \/ /\ Len(attempts[c]) \in 1 .. 3
       /\ Range(attempts[c]) \subseteq Repairable
       /\ receipt[c] = ExhaustedReceipt(attempts[c])

\* _verify_recovered_attempt_sequence: the replay evaluates the text of a
\* response only, and takes an attempt repaired for its metadata as valid.
RecoveredSequence(c) ==
    LET n == Len(attempts[c]) IN
    /\ n \in 1 .. 3
    /\ \A i \in 1 .. n - 1 : attempts[c][i] \in {"structured", "semantic"}
    /\ attempts[c][n] = "valid"

\* _verify_recovered_record_binding: the attempts of the requested cases are
\* all the current attempts there are, and no more than three.
RecoveredBinding(seg) ==
    /\ Cardinality(Attempts(Range(seg))) \in 1 .. 3
    /\ Transports(Range(seg)) = {}
    /\ Attempts(Cases) \ Transports(Cases) = Attempts(Range(seg))
    /\ \A c \in Range(seg) : record[c] = "current" /\ RecoveredSequence(c)

\* The provenance manifest of a run over the files as they are.
Manifest(seg, n, stopped) ==
    [kind |-> "run", requested |-> seg, started |-> n,
     receipt |-> IF stopped THEN receipt[seg[n]] ELSE None]

Inventory == <<record, moved, receipt, history, attempts, manifest, summary>>

\* _build_report raises unless all of this holds.
Buildable(seg, n, stopped) ==
    LET active == {seg[i] : i \in 1 .. n} IN
    /\ ScopeHolds(seg, active)
    /\ Attempts(Forbidden(seg)) = {}
    /\ manifest = Manifest(seg, n, stopped) /\ summary = manifest
    /\ IF stopped
       THEN receipt[seg[n]] # None
              /\ (attempts[seg[n]] # <<>> => StoppedSequence(seg[n], active))
       ELSE RecoveredBinding(seg)

\* Mutant of Verifies: a positive beside the receipt goes unnoticed.
VerifiesBesidePositive ==
    /\ report # None
    /\ Buildable(report.requested, report.started, report.stopped)
    /\ report.inventory = Inventory

\* _verify_fail_fast_report_unlocked.
Verifies ==
    /\ report # None
    /\ LET seg  == report.requested
           n    == report.started
           active == {seg[i] : i \in 1 .. n}
       IN  /\ Buildable(seg, n, report.stopped)
           /\ report.mode = ModeOf(seg, active)
           /\ report.inventory = Inventory
           /\ \A c \in Range(seg) : Len(attempts[c]) <= 3 /\ DistinctRequests(c)
           /\ \A c \in Range(seg) \ active : attempts[c] = <<>>
           /\ \A c \in (Range(seg) \ active) \cup Forbidden(seg) : record[c] = "none"
           /\ report.stopped => record[seg[n]] = "none"

-----------------------------------------------------------------------------

Init ==
    /\ record = [c \in Cases |-> IF c = First THEN "v21" ELSE IF c = Target THEN "v22" ELSE "none"]
    /\ moved = FALSE
    /\ receipt = [c \in Cases |-> None] /\ history = {}
    /\ attempts = [c \in Cases |-> <<>>] /\ clean = TRUE
    /\ manifest = None /\ summary = None /\ report = None
    /\ pc = "idle" /\ requested = <<>> /\ mode = "none"
    /\ started = 0 /\ attempt = 0 /\ pending = None /\ failed = FALSE
    /\ calls = [c \in Cases |-> 0] /\ runs = 0 /\ faults = 0

Case == requested[started]
Fault == faults < MaxFaults /\ faults' = faults + 1

\* The run ends and lets go of the lock, with a report or an exception.
Leave ==
    /\ pc' = "idle" /\ requested' = <<>> /\ mode' = "none"
    /\ started' = 0 /\ attempt' = 0 /\ pending' = None /\ failed' = FALSE

\* The preflight reads; a run it refuses has changed nothing.
StartRun ==
    /\ pc = "idle" /\ runs < MaxRuns
    /\ \E seg \in Segments :
         /\ ScopeHolds(seg, {})
         /\ requested' = seg /\ mode' = ModeOf(seg, {})
    /\ runs' = runs + 1 /\ pc' = "archive manifest"
    /\ UNCHANGED <<evidence, papers, started, attempt, pending, failed, calls, faults>>

\* The papers of the run before go to the history, one after the other.
ArchivePapers ==
    /\ \/ /\ pc = "archive manifest" /\ pc' = "archive summary"
          /\ manifest' = None /\ UNCHANGED <<summary, report>>
       \/ /\ pc = "archive summary" /\ pc' = "archive report"
          /\ summary' = None /\ UNCHANGED <<manifest, report>>
       \/ /\ pc = "archive report" /\ pc' = "case"
          /\ report' = None /\ UNCHANGED <<manifest, summary>>
    /\ UNCHANGED <<evidence, runVars, counts>>

\* Mutant of StartCase: the receipt of an earlier run is left to the runner.
StartCaseInPlace ==
    /\ pc = "case" /\ started < Len(requested)
    /\ started' = started + 1 /\ attempt' = 0 /\ pc' = "existing"
    /\ UNCHANGED <<evidence, papers, requested, mode, pending, failed, counts>>

\* The receipt of an earlier run goes to the history before the case starts.
StartCase ==
    /\ pc = "case" /\ started < Len(requested)
    /\ LET c == requested[started + 1] IN
       /\ history' = history \cup (IF receipt[c] = None THEN {} ELSE {<<c, receipt[c]>>})
       /\ receipt' = [receipt EXCEPT ![c] = None]
    /\ started' = started + 1 /\ attempt' = 0 /\ pc' = "existing"
    /\ UNCHANGED <<record, moved, attempts, clean, papers, requested, mode, pending,
                   failed, counts>>

NoMoreCases ==
    /\ pc = "case" /\ started = Len(requested)
    /\ pc' = "manifest"
    /\ UNCHANGED <<evidence, papers, runVars, counts>>

-----------------------------------------------------------------------------
(* EnrichmentRunner.run.  Whatever it raises ends the batch's loop.         *)

RunnerRaises == pc' = "ensure" /\ failed' = TRUE

\* A record that is current is returned once a stale receipt is gone.
ReuseRecord ==
    /\ pc = "existing" /\ record[Case] = "current"
    /\ \/ receipt' = [receipt EXCEPT ![Case] = None] /\ pc' = "case"
          /\ UNCHANGED <<failed, faults>>
       \/ Fault /\ RunnerRaises /\ UNCHANGED receipt
    /\ UNCHANGED <<record, moved, history, attempts, clean, papers, requested, mode,
                   started, attempt, pending, calls, runs>>

\* Any other record is moved out of the way first.  That, or the reading of
\* the repository before it, may fail.
MoveRecord ==
    /\ pc = "existing" /\ record[Case] # "current"
    /\ \/ /\ record' = [record EXCEPT ![Case] = "none"]
          /\ moved' = (moved \/ record[Case] = "v22")
          /\ pc' = "attempt"
          /\ UNCHANGED <<failed, faults>>
       \/ Fault /\ RunnerRaises /\ UNCHANGED <<record, moved>>
    /\ UNCHANGED <<receipt, history, attempts, clean, papers, requested, mode, started,
                   attempt, pending, calls, runs>>

\* The teacher raised: a receipt of fixed text for this attempt.
TeacherRaised ==
    /\ pc' = "fail" /\ pending' = Receipt("transport", attempt + 1, 0)
    /\ UNCHANGED <<attempt, failed>>

\* Mutant of Judged: one attempt too many.
JudgedOnceMore(v, seq) ==
    /\ attempt' = attempt + 1
    /\ \/ v = "valid" /\ pc' = "publish" /\ UNCHANGED pending
       \/ v = "unusable" /\ pc' = "fail" /\ pending' = Receipt("terminal", attempt + 1, 0)
       \/ v \in Repairable /\ attempt < 3 /\ pc' = "attempt" /\ UNCHANGED pending
       \/ v \in Repairable /\ attempt = 3 /\ pc' = "fail" /\ pending' = ExhaustedReceipt(seq)
    /\ UNCHANGED <<failed, faults>>

\* What follows from the verdict on a response; the repository it is judged
\* against may be unreadable.
Judged(v, seq) ==
    /\ attempt' = attempt + 1
    /\ \/ /\ \/ v = "valid" /\ pc' = "publish" /\ UNCHANGED pending
             \/ v = "unusable" /\ pc' = "fail" /\ pending' = Receipt("terminal", attempt + 1, 0)
             \/ v \in Repairable /\ attempt < 2 /\ pc' = "attempt" /\ UNCHANGED pending
             \/ v \in Repairable /\ attempt = 2 /\ pc' = "fail" /\ pending' = ExhaustedReceipt(seq)
          /\ UNCHANGED <<failed, faults>>
       \/ Fault /\ RunnerRaises /\ UNCHANGED pending

\* A response the cache holds is judged as it was in the run before.
ReplayAttempt ==
    /\ pc = "attempt" /\ Held(Case, attempt + 1)
    /\ Judged(attempts[Case][attempt + 1], SubSeq(attempts[Case], 1, attempt + 1))
    /\ UNCHANGED <<evidence, papers, requested, mode, started, calls, runs>>

\* Otherwise the provider is called.  A call ends with a committed attempt, an
\* audited provider failure, or an audit no scan accepts.
CallTeacher ==
    /\ pc = "attempt" /\ ~Held(Case, attempt + 1)
    /\ calls' = [calls EXCEPT ![Case] = @ + 1]
    /\ \/ \E v \in Verdicts :
            /\ attempts' = [attempts EXCEPT ![Case] = Append(@, v)]
            /\ Judged(v, Append(SubSeq(attempts[Case], 1, attempt), v))
            /\ UNCHANGED clean
       \/ /\ attempts' = [attempts EXCEPT ![Case] = Append(@, "transport")]
          /\ TeacherRaised /\ UNCHANGED <<clean, faults>>
       \/ Fault /\ clean' = FALSE /\ TeacherRaised /\ UNCHANGED attempts
    /\ UNCHANGED <<record, moved, receipt, history, papers, requested, mode, started, runs>>

\* The teacher may also raise before it starts anything, with or without an
\* incomplete directory in the audit tree.
TeacherUnavailable ==
    /\ pc = "attempt" /\ ~Held(Case, attempt + 1)
    /\ Fault /\ TeacherRaised /\ clean' \in {clean, FALSE}
    /\ UNCHANGED <<record, moved, receipt, history, attempts, papers, requested, mode,
                   started, calls, runs>>

\* An atomic write that raises may have replaced the file all the same.
PublishRecord ==
    /\ pc = "publish"
    /\ receipt' = [receipt EXCEPT ![Case] = None]
    /\ \/ /\ record' = [record EXCEPT ![Case] = "current"]
          /\ pc' = "readback" /\ UNCHANGED <<failed, faults>>
       \/ Fault /\ RunnerRaises /\ record' \in {record, [record EXCEPT ![Case] = "current"]}
    /\ UNCHANGED <<moved, history, attempts, clean, papers, requested, mode, started,
                   attempt, pending, calls, runs>>

ReadBack ==
    /\ pc = "readback"
    /\ \/ pc' = "case" /\ UNCHANGED faults
       \/ Fault /\ pc' = "discard"
    /\ UNCHANGED <<evidence, papers, runVars, calls, runs>>

\* A positive that could not be read back is removed before its receipt; if it
\* cannot be, the runner raises without one.
Discard ==
    /\ pc = "discard"
    /\ \/ /\ record' = [record EXCEPT ![Case] = "none"]
          /\ pc' = "fail" /\ pending' = Receipt("integrity", attempt, attempt)
          /\ UNCHANGED <<failed, faults>>
       \/ Fault /\ RunnerRaises /\ UNCHANGED <<record, pending>>
    /\ UNCHANGED <<moved, receipt, history, attempts, clean, papers, requested, mode,
                   started, attempt, calls, runs>>

WriteFailure ==
    /\ pc = "fail" /\ RunnerRaises
    /\ \/ receipt' = [receipt EXCEPT ![Case] = pending] /\ UNCHANGED faults
       \/ Fault /\ UNCHANGED receipt
    /\ UNCHANGED <<record, moved, history, attempts, clean, papers, requested, mode,
                   started, attempt, pending, calls, runs>>

-----------------------------------------------------------------------------
(* The end of a run.                                                        *)

\* Mutant of EnsureReceipt: the next case is served after a failure.
EnsureReceiptAndGoOn ==
    /\ pc = "ensure"
    /\ receipt' = [receipt EXCEPT ![Case] =
                     IF @ = None THEN Receipt("orchestrator", Len(attempts[Case]), 0) ELSE @]
    /\ pc' = IF started < Len(requested) THEN "case" ELSE "manifest"
    /\ UNCHANGED <<record, moved, history, attempts, clean, papers, runVars, counts>>

\* The loop breaks; a runner that left no receipt gets one of the batch.
EnsureReceipt ==
    /\ pc = "ensure"
    /\ \/ /\ receipt' = [receipt EXCEPT ![Case] =
                IF @ = None THEN Receipt("orchestrator", Len(attempts[Case]), 0) ELSE @]
          /\ pc' = "manifest" /\ UNCHANGED <<runVars, faults>>
       \/ Fault /\ receipt[Case] = None /\ Leave /\ UNCHANGED receipt
    /\ UNCHANGED <<record, moved, history, attempts, clean, papers, calls, runs>>

WriteManifest ==
    /\ pc = "manifest"
    /\ manifest' = Manifest(requested, started, failed)
    /\ pc' = "summary"
    /\ UNCHANGED <<evidence, summary, report, runVars, counts>>

PublishSummary ==
    /\ pc = "summary"
    /\ summary' = manifest
    /\ pc' = "report"
    /\ UNCHANGED <<evidence, manifest, report, runVars, counts>>

\* A report is built from the files; what it says of the scope has to be what
\* the preflight said.
WriteReport ==
    /\ pc = "report"
    /\ LET active == {requested[i] : i \in 1 .. started} IN
       IF Buildable(requested, started, failed) /\ ModeOf(requested, active) = mode
       THEN /\ report' = [kind |-> "report", requested |-> requested, started |-> started,
                          stopped |-> failed, mode |-> mode, inventory |-> Inventory]
            /\ pc' = "verify" /\ UNCHANGED runVars
       ELSE Leave /\ UNCHANGED report
    /\ UNCHANGED <<evidence, manifest, summary, counts>>

\* The run returns the report it verified, or raises and leaves it behind.
VerifyReport ==
    /\ pc = "verify" /\ Leave
    /\ UNCHANGED <<evidence, papers, counts>>

\* A failing read, move or write of the batch itself ends the run as a crash
\* does; only a call in progress leaves something else behind.
Crash ==
    /\ pc # "idle" /\ Fault /\ Leave
    /\ \/ UNCHANGED <<clean, calls>>
       \/ /\ pc = "attempt" /\ ~Held(Case, attempt + 1)
          /\ calls' = [calls EXCEPT ![Case] = @ + 1]
          /\ clean' = FALSE
    /\ UNCHANGED <<record, moved, receipt, history, attempts, papers, runs>>

RunCase == \/ ReuseRecord \/ MoveRecord \/ ReplayAttempt \/ CallTeacher
           \/ TeacherUnavailable \/ PublishRecord \/ ReadBack \/ Discard \/ WriteFailure

Next == \/ StartRun \/ ArchivePapers \/ StartCase \/ NoMoreCases \/ RunCase
        \/ EnsureReceipt \/ WriteManifest \/ PublishSummary \/ WriteReport
        \/ VerifyReport \/ Crash

Spec == Init /\ [][Next]_vars

-----------------------------------------------------------------------------

Kinds == {"transport", "terminal", "integrity", "orchestrator"} \cup Repairable
Receipts == {None} \cup [kind : Kinds, attempts : 0 .. 4 + MaxRuns, validated : 0 .. 3]

TypeOK ==
    /\ record \in [Cases -> {"none", "v21", "v22", "current"}] /\ moved \in BOOLEAN
    /\ receipt \in [Cases -> Receipts] /\ history \subseteq Cases \X (Receipts \ {None})
    /\ attempts \in [Cases -> Seq(AllVerdicts \cup {"transport"})] /\ clean \in BOOLEAN
    /\ pc \in {"idle", "archive manifest", "archive summary", "archive report", "case",
               "existing", "attempt", "publish", "readback", "discard", "fail",
               "ensure", "manifest", "summary", "report", "verify"}
    /\ requested \in Segments \cup {<<>>} /\ started \in 0 .. Len(requested)
    /\ mode \in {"none", "forward_recovery", "explicit_reattestation"}
    /\ attempt \in 0 .. 3 /\ pending \in Receipts /\ failed \in BOOLEAN
    /\ calls \in [Cases -> Nat] /\ runs \in 0 .. MaxRuns /\ faults \in 0 .. MaxFaults

\* The provider is called for a case only while every case before it in the
\* scope has its positive, at most three times in the life of an output tree,
\* and never again once it gave a valid answer, whatever failed or crashed.
CallsAreDue ==
    [][\A c \in Cases : calls'[c] # calls[c] =>
          /\ \A d \in Before(c) : record[d] # "none"
          /\ calls[c] < 3
          /\ "valid" \notin Range(attempts[c])]_vars

\* A report that verifies, in whatever state runs and crashes left the tree,
\* accounts for every call ever paid for, and tells the truth: a recovered one
\* about positives of all its cases, a stopped one about a failure without a
\* positive, positives before it and nothing after it.
VerifiedReportIsTrue ==
    pc = "idle" /\ Verifies =>
        LET seg  == report.requested
            last == seg[report.started]
        IN  /\ \A c \in Cases : calls[c] = Len(attempts[c])
            /\ IF report.stopped
               THEN /\ record[last] = "none" /\ receipt[last] # None
                    /\ \A c \in Range(seg) \cap Before(last) : record[c] = "current"
                    /\ \A c \in After(last) : calls[c] = 0 /\ record[c] = "none"
               ELSE \A c \in Range(seg) : record[c] = "current" /\ receipt[c] = None

\* A failure receipt is never overwritten or deleted: what a run published
\* about a failure stays in place or in the history.
EvidenceKept ==
    [][\A c \in Cases : receipt[c] # None /\ receipt'[c] # receipt[c]
          => <<c, receipt[c]>> \in history']_vars
=============================================================================
