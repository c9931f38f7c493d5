# Formal models of EGSI generation

This directory holds TLA+ models of the generation pipeline in `src/src/egsi` (and of the
SBS replay tools in `src/src/sbs`): modules, the TLC configurations that check them on
small instances, and proofs that TLAPS checks for instances of every size.
`PROJECT.json` lists the runs, the mutants, the map from definitions to source lines,
the hazards, the findings and the theorems.

    tlc -workers 2 -config Batch_core.cfg MCPragmaticBatch.tla
    tlapm PragmaticBatchProofs.tla

## 1. Inventory

The program turns collected repair cases into training data. A *teacher* (an LLM provider)
diagnoses each case; its answers are validated, bound to evidence in the case and stored as
records; records become trajectories and training packages; several gates and audits
recompute commitments over the result. All state is files in anchored output trees, and
one batch lock per tree keeps two batch runners apart.

| Component | State | Operations | What makes it correct |
|---|---|---|---|
| Pragmatic batch (`generation/pragmatic_batch.py`) | ledger `pragmatic-state.json`, records, quarantine and failure receipts, manifest, report | start, resume, reserve / invoke / complete a slot, publish a record, settle a case, clean up, report | every state a crash leaves can be resumed; at most two paid slots per case; a settled case stays as it is; the report agrees with the files |
| Teacher cache (`teacher/cache.py`) | one file per request key | look up, ask, write atomically | entries are whole; an entry is not paid for again; an answer that is returned has been stored |
| Safe I/O (`generation/safeio.py`) | directory handles, the batch lock | atomic write, remove, quarantine, bounded read | a write is seen whole or not at all |
| Plain batch, trajectory pilot (`generation/pilot.py`) | records, failure receipts, provenance manifest, summary; episodes, Parquet file, trajectory manifest and reports | enrich, compile, pilot: invalidation, cases, clean-up, papers, compilation, tidying | outputs never outlive the inputs they were made from |
| Enrichment runner (`generation/enrichment.py`) | one record or one failure receipt | anchor, ask, repair, write or fail | exactly one outcome per case; an untrusted record is removed before the failure is written |
| Codex exec adapter (`teacher/codex_exec.py`) | a CLI process group, its reader threads, an audit directory per call | open, call, terminate, file, answer | a committed attempt is a whole answer; every call ends; nothing of it outlives its answer |
| Other teachers (`teacher/base.py`, HTTP and fixture adapters) | none | one request with bounded retries | bounded time and attempts |
| Trajectory compiler and replay (`generation/trajectory.py`, `replay.py`) | none | compile a record into events, replay events | replay of a compiled trajectory succeeds and ends in the recorded state |
| Process supervisor (`generation/process_supervisor.py`) | three processes, pipes, a PID namespace | launch gate, result pipe, kill and reap | the target runs only after confirmation; nothing survives its supervisor |
| First-case hard gate (`generation/first_case_hard_gate.py`) | a report file | run bounded processes, re-read evidence, publish | a published pass describes what is on disk |
| Fail-fast batch (`generation/fail_fast_batch.py`) | a frozen scope, attempts, receipts, history, manifest, summary, report | resolve a segment, archive, serve, stop, report, verify | calls in the order of the scope and never for nothing; a report that verifies is true; no evidence of a failure is lost |
| Training packages (`training_ready.py`, `incremental_training_ready.py`) | an output tree and a marker of its owner | claim, clear, build, verify | a foreign tree is never cleared; a crash leaves a claimable tree |
| Human audit (`human_audit.py`) | a packet in `reports` | replay a tree file by file, publish a packet | a packet that passes is about a tree that was complete |
| Live attestation (`live_attestation.py`) | an attestation beside the fail-fast report | preflight, run, snapshot, attest, verify, sign | what is signed was the tree, with attempts of the run itself |
| Test receipts (`test_receipt.py`) | commitments | recompute | any change of the evidence is noticed |
| Context, Git objects, redaction, candidates | none | bounded deterministic selection and text processing | bounds and determinism |
| SBS (`src/src/sbs`) | a replayed state, reports | replay a fixture, report, check | every step is legal and termination is consistent |
| Launcher and scripts (`src/scripts`) | lock files | verify the runtime before use | nothing unverified is executed |

Interactions. `cli.py` opens the configuration, wraps a teacher adapter in `CachedTeacher` and
calls a batch runner. A batch runner takes `batch_lock` on its output root, for which a second
one waits (`flock` with `LOCK_EX`, `safeio.py:93`), while the single `enrich` command takes no lock and shares the
cache directory `cache/teacher` with everyone. A runner calls `evaluate_enrichment_attempt` for
an answer, `_atomic_json` for each file and `_write_provenance_manifest` at the end. The
trajectory commands take the same lock and read what a finished batch left. The auditor and the
locked live run read the tree without the lock, file by file, while commands may change it; the live run takes
the lock for its batch and for the replay of its report. The Codex adapter runs the CLI in a
process group of its own and follows its event stream with threads beside the waiting caller; the audit
directory it leaves is what the fail-fast batch, the auditor and the attestation count attempts by. The first-case hard gate runs its commands under the process
supervisor: it starts the supervisor as a child, pins it, writes one byte to its launch gate, reads
one result from its standard output, and ends it with SIGTERM or SIGKILL when that takes too long.

What is hard here: crashes between any two of the many file writes of a slot, and the
resumes that follow; a wall-clock deadline that is read at five places of a slot; money that
must not be spent twice; cached and interrupted answers that must not be counted as
confirmed calls; below the batch lock, several processes on one cache entry; readers of a tree
without its lock, who put together what they saw at different moments; a chain of papers
(records, manifest, summary, report, attestation) of which each quotes the one before and any may be replaced, or left
behind by a crash; and, where the adapter and the gates run commands, processes and threads
that wait for, signal and outlive each other.

## 2. What is modelled

| Module | Role |
|---|---|
| `PragmaticBatch` | the pragmatic batch: its files, its one runner, crashes, resumes, the clock, all answers |
| `SlotBudget` | abstract specification: what may be spent on a batch |
| `MCPragmaticBatch` | answer sets for TLC |
| `PragmaticBatchProofs` | type correctness, `PragmaticBatch` implements `SlotBudget`, settled cases are frozen |
| `PragmaticFilesProofs` | what its files say at every crash: a resume accepts them, reports are true, late records are taken back |
| `TeacherCache` | one cache entry and the processes that generate through it |
| `MCTeacherCache` | symmetry for TLC |
| `TeacherCacheProofs` | every safety property of `TeacherCache` |
| `OutputClaim` | the output tree of the incremental training package, its builds and whoever else writes there |
| `MCOutputClaim` | symmetry for TLC |
| `OutputClaimProofs` | every property of `OutputClaim` |
| `ProcessSupervisor` | one command under the supervisor: caller, outer supervisor, PID 1 of the namespace, the target and what it leaves |
| `MCProcessSupervisor` | the instance for TLC |
| `ProcessSupervisorProofs` | every safety property of `ProcessSupervisor` |
| `CodexExec` | the Codex adapter: one teacher, its CLI, its reader thread, its audit trail, and the scan of that trail |
| `MCCodexExec` | the instance for TLC |
| `CodexExecProofs` | every safety property of `CodexExec` |
| `FailFastBatch` | the fail-fast batch and the enrichment runner: runs over segments of a frozen scope, stops and crashes |
| `MCFailFastBatch` | the scope and its segments for TLC |
| `FailFastProofs` | every property of `FailFastBatch` |
| `PilotBatch` | the output tree and the commands enrich, compile and pilot, which write it under the lock |
| `HumanAudit` | extends it by the auditor, who reads without the lock |
| `LiveAttestation` | extends it by the locked live run, which reads without the lock, too |
| `OutputTree` | composes these three: one tree, its writer and a reader beside it |
| `MCOutputTree` | case lists and loads for TLC |
| `OutputTreeProofs` | every property of `OutputTree` |

### 2.1 PragmaticBatch

Durable state (what a crash leaves): `ledger` (`pragmatic-state.json`: status and slots of every
case, `None` before the first start), `record`, `receipt` and `quarantine` (the files of each
case), `manifest` and `report`. Volatile state (lost by a crash): `pc`, the case in hand `cur`,
the answer being processed, the verdict on it, and `resuming`, whether the run was started to resume. `elapsed` is the clock of the batch, `stops`,
`clockSteps` and `calls` count crashes, backward clock steps and provider calls.

One action stands for the code between two durable writes, with every guard and early return of
it: `StartBatch`, `ResumeBatch` (accepts the ledger only if `CaseHolds`, the translation of
`validate_pragmatic_state_semantics`, holds), `NextCase`, `RecoverRecord` and `RecoverSlot` (a slot a crash
interrupted), `CeilingFailure`, `ClockFailure`, `Admit`, `ReserveSlot`, `InvokeSlot`, `CallTeacher`, the
four outcomes of an answer, `PublishRecord`, `RetractRecord`, `KeepRecord`, `Readback`,
`WriteQuarantine`, `CompleteSlot`, `SettleSuccess`, `WriteFailureReceipt`, `SettleFailure`, `CleanUp`,
`WriteManifest`, `WriteReport`. The environment may `Crash` between any two of them, `Tick`, or set the
clock back (`ClockSetBack`, as `time.time()` may be).

A file is what it decodes to. A write is one step: `safeio` writes a temporary file, syncs and
renames it, and a reader never sees the temporary name. An answer is one of the ways through
`_response_or_outcome` and `_evaluate_enrichment_attempt` (no response, each failing
classification, success), not a text. Ledger sizes are counted in units (`CaseBytes`,
`SlotBytes`) so that the two size limits of the code can be compared with the growth of the ledger.

### 2.2 TeacherCache

`files` is every file ever created, `entry` the one that bears the entry's name, `durable` the
ones a power loss may leave under it, `temps` the ones under temporary names. `run[p]` is
what a `generate` call remembers between two system calls. The actions are the system calls of
`_read_entry_once_at` (`StatEntry`, `OpenEntry`, `CheckOpened`, `ReadOpened`, with `Retry`), of `generate`
(`Found`, `CallTeacher`) and of `_atomic_write_at` (`CreateTemporary`, `FillTemporary`,
`CheckDestination`, `Replace` or `ReplaceFails`, `Observed`, `Committed`, `SyncDirectory`). The faults
are a rename that raises before or after it took effect, a failing write, a killed process and a
power loss that undoes what was not synced.

### 2.3 OutputClaim

`marker` is the marker file `.egsi-incremental-training-ready-owner.json`, `tree` who wrote which
path, `dirs` the directories, `listed` what the manifest on disk lists, `residue` whether a temporary
file of a killed write is there. `Acceptable` and `Owned` translate `_preflight_output_ownership`
with `_legacy_output_ownership`. A build goes through `StartBuild` (the first check, whose result it
keeps in `found`), `Prepare` (sources are validated and all episodes compiled, or the build ends),
`CheckClaim`, `MarkAll`, `RemoveOwned`, `CheckCleared` and `MarkPackage` (the five steps of
`_claim_incremental_output`), `WriteArtifact` for each path in the order of the code and
`FinishBuild` (the last check). `Undo`, `RemoveOwned` and `Undone` are the clean-up of `_build_or_clear`.
Any write or removal may raise (`Error`), a build may be killed anywhere (`Kill`), and between any two
steps the operator may write a file, remove one of its own or tidy up.

The model shows two states that need the operator's hand; no document says otherwise:

* A failing build over an unmarked package removes that package file by file. Its directories stay,
  and a tree with directories but without marker and manifest is refused from then on (`lost`,
  the exception in `Reclaimable`).
* A build killed inside an atomic write leaves a temporary file in the tree, which every later check
  refuses until someone removes it (`residue`).

### 2.4 ProcessSupervisor

The caller (`_run_bounded_process_group` of the hard gate) has `caller` (where it is), `setup`, `noted`
(the two booleans of `gate_state`), `asked` (what `_terminate_supervisor_process` returned) and `outcome`. The
outer supervisor (`main`, `_namespace_supervise`, `_outer_collect_result`) has `outer`, `term` (the flag its SIGTERM
handler sets), `answer` and `said`, and of PID 1 it knows `status`, `heard` and `eof`. PID 1 (`_pid1_main`,
`_run_target`) has `pid1`, `exit`, `verdict`, `sent` and `known`, the return code it has. The members of
the namespace are the target and one stray child for all it may leave; they run, write to a pipe, fork
and exit as they like.

An action is the code between two points where another process can notice a difference: a wait, a
signal, a read or write of a pipe, an exit. `Pin`, `AwaitReady`, `TryRelease`, `Release`, `NoteRelease`,
`LeaveSetup`, `Decode`, `Overdue`, `AskToEnd`, `AwaitEnd`, `ForceEnd` and `Join` are the caller;
`ArmTermination`, `SignalReady`, `AwaitGate`, `EnterNamespace`, the loop `Top`, `Look`, `Judge`, `OuterOverdue`,
`Select`, then `Reap` and `Write` the outer; `Arm`, `LaunchTarget`, the loop `Poll`, `Adopt`, `Overrun`, `Read`, `Drain`,
`Drained`, then `Report` PID 1. The kernel delivers PID 1's death signal (`DeathSignal`) and ends the
namespace with it (`DestroyNamespace`): files are closed first, then the members die, and only then PID 1
can be collected. Faults are a killed caller or outer, a SIGTERM from elsewhere, an `OSError` in the collection,
and a `KeyboardInterrupt` of the caller at any step (`Interrupt`).

A deadline may pass whenever it is looked at. A result is its status or error code. What is left out: the
result that exceeds the outer's limit (PID 1 bounds it before), signals the caller may not
send to its own child, and interrupts in the few bytecodes between the start of the child and the first
`try`, and between the two `try` statements, which nothing protects.

The model shows three situations in which a call may end before its processes have, without saying so;
`Contained` excepts them by the history variables `faulted` and `cut`:

* The outer is killed by somebody else, or its collection fails with an `OSError`. PID 1 is then left to the
  death signal, and the caller may report "process supervisor failed" a moment before the namespace is gone.
* A `KeyboardInterrupt` while the capture threads are joined after a clean-up that was not confirmed: `cleanup_needed`
  is false by then, and the `finally` block asks only whether the threads still run.
* A second `KeyboardInterrupt` escapes the clean-up of the first.

### 2.5 CodexExec

`place` is where the adapter is and for which call, `process` the CLI (`leader`) and a descendant in its group
(`member`), `stream` the reader thread with `_JsonlState` (`phase`, `events`, `reader`, `readerFailure`), `result` what `_run` has decided,
`audit` the directory of each call and `cache` what the caller stores. A call goes through `MakeDirectory` (three
`mkdir`s), `EncodeRequest`, `Prepare`, `StartProcess`, `Wait`, `Join`, `TerminateGroup`, `Settle`,
`RemovePrivateRoot`, `WriteAudit` (events, receipt, manifest), `RetractAudit` if a write failed, `Answer` and `Store`;
`OpenTeacher` runs the version probe through the same steps. Beside them the CLI ends when it likes (`ProcessEnds`) and the
reader takes one line at a time (`ConsumeLine`, `ReaderEnds`), also in the half second in which the main thread no longer
waits for it. Any file operation may fail, an identity check may find a changed file, and the program may die (`Crash`).

A line is its kind for the event protocol (`NextPhase`, `Refusal`). The scan of `human_audit.py` is in the same module
(`Accounted`, `Unreferenced`, `EmptyRequests`, `WalkRefused`, `ScanClean`), because what a call leaves and what a scan makes of it have to
be judged together. The model shows how narrow the scan is: any quarantined attempt but the exact sequence
thread, turn, error makes the tree malformed for good, and so does a crash at almost any point of a call.

### 2.6 FailFastBatch

The tree is `record`, `moved` (the frozen positive of the target is in the quarantine), `receipt`, `history`, `attempts` (per
case, the verdict on each audited attempt), `clean` (whether the scan finds nothing malformed; the detail is `CodexExec`) and
the three papers `manifest`, `summary`, `report`. A run goes through `StartRun` (the whole preflight, `ScopeHolds`), `ArchivePapers` (three
moves), then for each case `StartCase`, `ReuseRecord` or `MoveRecord`, `ReplayAttempt` or `CallTeacher` up to three times, `PublishRecord`,
`ReadBack`, `Discard`, `WriteFailure`; after the first failure `EnsureReceipt`; then `WriteManifest`, `PublishSummary`, `WriteReport` and
`VerifyReport`. Nothing but the tree survives a run; `Crash` may end it anywhere, in a provider call with an incomplete
audit. `Verifies` translates `_verify_fail_fast_report_unlocked` and may be asked of any idle tree.

The model shows what no document says:

* A case list that starts behind the target cannot be reported as recovered once the target has been re-attested: the binding demands that
  the attempts of the requested cases are all the current attempts there are (`RecoveredBinding`). The tests accept such lists in the preflight.
* A re-attestation that ends after its frozen positive was moved restarts as a forward recovery; the report of that run is
  refused because the scope changed, and the run after it succeeds.
* After a provider failure every later preflight refuses the tree.
* A receipt of the batch claims that no positive was written even beside a positive that could not be removed; the verification of
  the report refuses that tree.
* A case that succeeds after a repair of its metadata cannot be reported: the replay looks at the text of responses only.

### 2.7 PilotBatch, HumanAudit, LiveAttestation and OutputTree

`PilotBatch` has the tree (`source`, the version of the repository; `audit`, the trail; `rec`, `receipt`, `prov`, `sum` of the enrichment;
`episodes`, `parquet`, `man`, `val`, `pil` of the trajectory stage; `temp`) and the command that holds the lock (`pc`, `cmd`, its list and what it has done).
Its actions are single file operations: `UnlinkEpisodes`, `UnlinkPapers`, `ReuseRecord`, `AskTeacher`, `CleanUp`, `WriteProvenance`, `WriteSummary` of the
enrichment, `LoadRecords`, `SkipOrKeep`, `WriteEvents`, `WriteTransitions`, `WriteParquet`, `Tidy`, `WriteManifest`, `WriteValidation`, `WritePilot` of the
compiler. `CaseRaises` and `CompileRaises` are failures of one case, `Stop` ends a command anywhere.
The runner of a case is one step here; its detail is `FailFastBatch`.

`HumanAudit` reads what the commands write, one file per step and in the order of `build_human_audit`, keeps what it read
(`aprov`, `aman`, `agates`) and publishes the packet with a temporary that a concurrent `Tidy` may take away. `LiveAttestation` follows the
launcher through `Preflight`, `EnterRun`, `EnterBatch`, `RunBatch`, the second inventory (`ReadPost`), `ReplayReport`, the snapshot
(`NoteDirectories`, `ReadSource`, `ReadFiles`, `RecheckDirectories`), `Attest`, `VerifyInProcess`, `CompareWithTree` before and after `VerifyHeld`, and
`Sign`. `touched` stands for inode and times: a file that changed and changed back since it was read is still
recognised. `OutputTree` interleaves all of it.

Abstractions of these modules: a record is the version of the repository it was made from; the repository is edited only while the lock
is free; the inventory of the preflight and the identities of the directories are each taken at one moment; the batch of a live run is one step;
what the scans of the trail and of the baseline find is nondeterministic. A report lists the attempts at its case for the present
request, as `_attempts` does; that the code also compares the older ones with a frozen expectation (`_verify_historical_audit_expectation`)
is left to `BatchRaises`. The papers of the trajectory stage lie in `reports`, which the recheck of the directories leaves
out: they are compared as files only (`FilesOfReports`), and the snapshot reads them at one moment.

The model shows what no document says:

* A fail-fast batch does not invalidate the trajectory stage, as an enrichment does; hence the condition in `ReportsCiteTheTree`. Nor does the
  pragmatic one. A pilot summary stays when the compiler alone runs again over the same manifest.
* A death in the middle of the invalidation leaves manifests that list removed files: files go first, manifests last.
* The compiler's tidying in `reports` removes the temporary of an auditor, whose audit then raises.
* The tree need not be whole at any moment of an audit that passes, only at some earlier one: its files may be removed behind
  the auditor, one after the other. This is why `PassedPacketWasWhole` speaks of the past.
* A command that takes the lock between the last inventory of a live run and its batch can make an attempt, which the batch
  then replays from the cache and the run attests as its own. What is attested is only that the attempts were made since the preflight.
* An attestation stays in place when its verification fails; only the signature tells.

## 3. Runs

| Run | Distinct states | Shows |
|---|---|---|
| `batch_core` | 596,704 | two cases, two crashes anywhere, a deadline that may pass at any step: all safety properties, the refinement of `SlotBudget`, and that a started batch is reported in the end |
| `batch_every_answer` | 126,756 | every kind of answer, an ineligible case, no transport retry, a ledger at its size limit, a clock that is set back: a resume accepts whatever is left |
| `batch_late_record` | (violation) | a record written after the deadline becomes a success by a crash |
| `batch_overlong_id` | (violation) | one answer with an overlong request id ends the whole batch |
| `batch_ledger_size` | (violation) | the ledger outgrows the limit of its own reader |
| `cache_races` | 1,679,584 | three processes, two different answers, one fault: all properties of the cache |
| `claim_builds` | 1,592,973 | three builds over an empty or an older tree, one fault anywhere, two acts of the operator anywhere: all properties of the claim |
| `supervisor_safety` | 6,251,135 | one kill or failing call and one interrupt at any step: nothing is left unless the call says so, answers are the target's, no process number is signalled after it was given back, nothing starts unreleased |
| `supervisor_ends` | 1,009,052 | one kill, targets that hang, fork and exceed the limit: everything ends |
| `codex_calls` | 2,472,785 | two calls, a limit of five events, every stream of up to six lines, one failure or death anywhere: committed attempts are whole, clean scans complete, every call ends |
| `failfast_runs` | 2,482,002 | three runs over four cases, two failures or deaths anywhere: calls are due, evidence is kept, verified reports are true |
| `output_stages` | 3,668,833 | two commands beside an audit, or one beside a live run, with one failure anywhere and one edit of the repository: packets, papers and signatures are true |

Properties of the batch:

* `NeverWedged`: whatever is on disk when no runner is active, a resume accepts it. The
  properties of the validator against all writers of the files, at each crash point.
* `InvocationCountHonest`: the report's number of calls is that of the consumed slots, never below the
  calls that were really made, and it is called exact only if every consumed slot was called for.
  Its run never sets the clock back; `CountIsHonest` is proved for a clock that is. (A batch that meets a clock set back
  ends without a report; `batch_every_answer` checks that what it leaves is resumable.)
* `ReportMatchesFiles`: a finished batch has exactly the files that its report and manifest claim.
* `LateRecordRetracted`: a record whose write crossed the deadline does not succeed in the run that
  wrote it.
* `SpendsWithinBudget`: `PragmaticBatch` implements `SlotBudget`: a slot is on disk before
  its call, is called for at most once, no case has a third slot, cases are served in order, a
  settled case costs nothing.
* `SettledCaseFrozen`: nothing a settled case left changes again.
* `BatchCompletes`: a batch that was started is reported in the end.

Properties of the cache: `EntryWhole`, `NeverAsksOverEntry`, `ReturnedWasEntry`, `FailureExplained`,
`NoResidue`, each stated in the module.

Properties of the claim:

* `OwnsWhatItWrote`: the marker covers everything the program wrote that is still there. This is why
  the claim writes the marker twice: first for the old package and the new one, then for the new one alone.
* `Reclaimable`: however a build ended, the next one accepts the tree, once foreign files and
  temporary files are gone.
* `NothingStaleAfterFailure`: after a failed rebuild the previous package is not there.
* `RemovesOnlyOwned`: no build removes or replaces a foreign file that the marker does not own, whenever
  that file appeared. A foreign file under a path of the package is not protected; it is the tree's owner's.
* `ReportedIsWhole`: success is reported only over a tree that is exactly the build's own package.

Properties of the supervised call:

* `Contained`: a call that returns, or raises anything but a failed containment, leaves no process. The caller
  only sees pipes, one exit status and its own notes; the property says that these suffice.
* `TrueAnswer`: a call that returns has the target's own return code (not the 0 that `Popen.poll` assumes
  when somebody else collected it) and all the target printed.
* `SignalsItsOwn`: the outer never kills by a number it has given back to the kernel.
* `StartsOnlyReleased`: no target starts for a call that was abandoned before the release.
* `EverythingEnds`: whatever is killed, late or interrupted, in the end nothing is left.

Properties of the Codex adapter:

* `CommittedIsWhole`: a manifest says "committed" only beside the complete, fully counted event stream of an answer, even
  while readers of the call are still running.
* `AnswersAlone`: nothing of a run outlives its answer: its group, its stream, its private root.
* `CleanScanIsComplete`: between calls, a trail the scan finds clean lists exactly the answers that were given.
* `EveryCallEnds`: every call returns, whatever the CLI, its descendants and the disk do.

Properties of the fail-fast batch:

* `CallsAreDue`: the provider is called for a case only while all cases before it have their positive, at most three times in the life
  of a tree, and never after a valid answer, over any sequence of runs, stops and crashes.
* `EvidenceKept`: a failure receipt is in place or in the history, never gone.
* `VerifiedReportIsTrue`: a report that verifies, in whatever state runs and crashes left the tree, accounts for every call
  ever paid for and says of each case what its files say.

Properties of the output tree:

* `PassedPacketWasWhole`: the packet of an audit that passed is about a tree that was complete at one moment, though the auditor
  read it at many.
* `ReportsCiteTheTree`: no paper of the trajectory stage outlives the provenance manifest and the records it was made from.
* `SignedWasTrue`: what the launcher signs was the tree at one moment of its verification, with attempts made since the preflight.

Bounds. Two cases are the least with an order between them, and with one settled beside one
pending; nothing in the code relates three. Two crashes allow one in a fresh run and one in
its resume; a resume forgets everything a run had in memory, so a longer chain only repeats
these. `MaxElapsed` is the deadline, so that every check of it has both outcomes, and one
clock step back suffices to undo it once. `SlotTimeout` is one tick, the smallest that
can cross the deadline. In the cache three processes let two writers race under a reader; each process
may call again while `MaxCalls` lasts; two responses differ or agree; `ReadAttempts` 2 instead of
8 lets the retries run out. One fault is explored at every step of every interleaving; the
proofs need neither bound. Three builds are the least in which a build meets what a failed rebuild left of
an earlier success; two cases let packages differ, one fault and two acts of the operator fall
into every step of every build.
In the supervisor one chunk within the limit and one beyond it, by the target or by what it left, give each read its
outcomes; one fault and one interrupt fall into every step, and the proofs need neither bound. The
liveness run accepts no chunk and interrupts nobody, to stay small; with an interrupt instead of the chunks
the property holds too (971,064 states, two minutes).

In the Codex run five events hold the shortest answer and one line too many, or an answer with a `reasoning` line between;
the latter is at the limit of events (`MaxEvents`), and the sixth line, of a run or of a probe, exceeds it; two calls of equal or different requests let one meet what the other left. Four cases of the
fail-fast scope are the frozen one, the one that is attested again and two that follow, alone and together; three runs are the least that stop, resume
and re-attest, and the two faults let a run fail over what a failed run left; the verdicts left out ("semantic") differ from the
others only in the receipt, and the proofs need no bound. In the output tree two cases let a list be a part of the
frozen one and a Parquet file be out of order; two versions make a record stale. Two commands are the least in which one
invalidates what another made while an audit is on its way; the live run has enough with one. An audit and a live run never change what the other reads,
so they are not combined.

Fairness. `BatchCompletes` assumes weak fairness of the runner's own step (a sequential process
that is not killed goes on) and of `ResumeBatch` (the runbook `docs/PRAGMATIC_P1_RUNBOOK.md`,
"Resume after interruption", tells the operator to start the same command again), and a bounded
number of crashes. No fairness is assumed of crashes, of the clock or of any particular answer.
`EverythingEnds` assumes weak fairness of the caller, of the outer, of PID 1 and of the kernel, each a sequential
process that goes on while it can, and strong fairness of `OuterOverdue`, `Overrun` and `Drained`: these loops
look at a monotonic clock in each turn, so the deadline passes for one of the looks. Nothing is assumed
of the target and its children. `EveryCallEnds` assumes weak fairness of the adapter's main thread alone, whose waits all have a deadline;
nothing is promised of the CLI, the reader threads or the disk. The fail-fast batch and the output tree have no fairness:
their operators may stop at any time, and their properties are safety properties.

`CHECK_DEADLOCK FALSE` is set where the bounds stop the system: a crash budget that is
used up after the last resume, a ledger that cannot be written, calls that are used up, a call that is over, a teacher
that is closed or could not be opened, runs and commands that are used up.

## 4. Proofs

`PragmaticBatchProofs` proves, for every number of cases and crashes, every clock and every answer:

* `TypeCorrect`: `Spec => []TypeOK`. `TypeOK` is not inductive alone; `TypeInv` adds
  `Serving` (the program counter agrees with the case in hand: it is pending, and inside a slot it has
  one) and `OutcomesKnown` (a completed slot has an outcome). With it, the guards of
  `ReserveSlot` bound the slots of a case.
* `SpendingCorrect`: `Spec => SpendsWithinBudget`, a refinement, by `Paid`, which relates the ghost
  count of calls to the states of the slots: a slot has been called for only if it is past
  `reserved`.
* `SettledStaysSettled`: `Spec => SettledCaseFrozen`, by `Claimed`: every receipt on disk is
  claimed by a ledger entry, or belongs to the case in hand, and so the clean-up finds nothing to
  remove from a settled case.

`PragmaticFilesProofs` builds on these and proves the other four safety properties of the batch:

* `ResumeAcceptsTheFiles`: `Spec => []NeverWedged`. What a resume replays relates the slots of a case to its files, and the runner writes
  them one after the other; the property is inductive with three parts about the run in between. `InHand`: at each place of the runner the last slot has
  the status a crash there leaves, and a fresh run has no slots but those of its case. `AnswerKept`: an answer is held only while it is dealt with, and only a response
  has a cached flag. `Carrying`: what the runner is about to write (the end of a slot, the failure of a case) fits the answer, the quarantine and the
  slots it is about, so that the next write completes a state the validator accepts. The proof goes through every
  write of the ledger, of a record, a receipt and a quarantine file.
* `ReportStaysTrue`: `Spec => []ReportMatchesFiles`, by `Reported`: from the clean-up on every case is settled and has the file of its status and
  no other (`Tidy`), and the manifest binds that ledger. `Claimed` is why the clean-up leaves it so; nothing is pending any more, so no
  later resume writes a case, and it makes the same manifest and report again.
* `CountIsHonest`: `Spec => []InvocationCountHonest`, by `Paid` (a call needs a slot), `Reported` and `Confirmed` (evidence is
  "confirmed" only after a call by this slot, never by an answer from the cache).
* `LateRecordsAreRetracted`: `Spec => [](clockSteps = 0 => LateRecordRetracted)`. The hypothesis is that nobody has set the clock back so far; without
  it the property is false, since a deadline that has passed is then in the future again. The run that checks it has no backward steps
  (`MaxClockSteps = 0`). Under it, a record the run itself put in place too late is past the deadline at the
  look the runner takes next (`LateSeen`); a late record that stays was recovered from a dead run, without a cached flag.

`TeacherCacheProofs` proves all six safety properties from one invariant `IInv` (checked by
TLC before it was proved). Its parts: `Phases` (where a call stands and
why), `Owned` and `Hidden` (a temporary file has one owner and nobody else can see it),
`Filled` (it holds what the owner writes), `Whole` (whatever a power loss may
leave under the entry's name was renamed there, whole and synced), `Opened` (an open file was
the entry), `Holding` (a call that began over an entry only reads) and `Undisturbed` (a call that
nothing has disturbed sees the entry as it is).

`OutputClaimProofs` proves all six properties of `OutputClaim`, for any cases and any number of builds,
faults and acts of the operator, from one invariant. Its parts: `Claiming` (from the claim on, what
the program has in the tree is what is about to be removed), `Writing` (while the package is written, the
program's files are exactly those of the package that are done), `Unmarked` (a tree without a marker is
as it was found) and `Quiet` (a build that nothing interferes with finds the tree acceptable throughout).
The first three carry the claim across kills, the last the clean-up of a failed build.

`ProcessSupervisorProofs` proves the five safety properties, for any limits and any number of faults and
interrupts, from one invariant that TLC checked first. Its parts: `Gated` (nothing starts before
the release, and no release before its note), `Collected` (PID 1 is collected once and the outer knows
it; an outer that answers has no PID 1 left), `Answered` (a whole answer comes from an outer that ended by itself),
`Accounted` (the limit, the return code, and every chunk of the target is in the pipe or taken) and `Relayed`
(PID 1's verdict reaches the caller unchanged or not at all). `Contained` follows at `Decode` from `Collected`
and `Answered`, at `Join` from what `Confirmed` asks for.

`CodexExecProofs` proves the four safety properties of `CodexExec`, for any requests, calls, lines, limits and faults. The parts of its
invariant: `Placing` and `Named` (where the adapter is and for which request; later calls have left nothing), `Followed` (a stream none of
whose lines was refused is what its phase says), `Ended` (without a failure the process has ended by itself, the reader is done, and nothing is
left of either), `Filed` (which files the call in progress has placed, and that they agree with the stream) and `Past` (answers, committed
attempts and cache entries are the same calls). `CommittedIsWhole` follows at the manifest from `Followed`, `Ended` and `Filed`; `CleanScanIsComplete`
needs that a malformed count of zero means an empty set for each of its three terms, hence the theorems on cardinalities.

`FailFastProofs` proves all four properties of `FailFastBatch`, for any scope, segments, verdicts, runs and faults. The parts of its invariant: `Under` (which
case a run is at, and whether it failed), `Trying` (a clean audit counts every call; the attempts before the next are repairable and, in an
accepted tree, all there are), `Served` (the cases before the one in hand have positives and no receipt, and that one has no receipt while the runner
works) and `Reported` (what a report says was so when it was written). The lemmas `SegmentIs`, `SegmentFacts` and `AfterIs` relate positions in a
segment to the order of the scope. `CallsAreDue` follows from `Trying` and `Served`; `VerifiedReportIsTrue` from `Reported` and the equality of the
inventory, since a report is verified against the files long after its run.

`OutputTreeProofs` proves all four properties of `OutputTree`, for any case list, lists of commands, versions, failures and loads.

* `TypesCorrect`: `Spec => []TypeOK`. A command's place in its list is a number, so its type alone needs `InOrder` (from the first case to past the
  last; `ListFits`, by the pigeonhole principle, bounds a list without repetition by the frozen one). That a manifest commits to records needs
  `InHand`: every case the enrichment has processed has a record, which no later case removes because the list names it once (`ServedOnce`),
  and what is compiled is in the manifest. While a command has anything in hand it has the lock, and the batch of a live run waits for it.
* `PassedPacketsWereWhole`: `Spec => []PassedPacketWasWhole`. The idea is that an artifact manifest with a row for every case of the frozen list
  *vouches* for a moment at which the tree was whole (`Vouched`), the moment it was written, for as long as it exists on disk or in
  an auditor's hand. At that moment `CompiledInOrder` says that a case that was passed over has no row and never gets one, so that
  all rows are there and in order, and `CompiledOnTree` that records, episodes and Parquet file are in place. `Gated` carries
  what the auditor's gates found through its steps: its two manifests agree, and every case it has been through has a row.
  Nothing is assumed of the tree during the audit itself.
* `PapersCiteTheTree`: `ReportsCiteTheTree` becomes inductive with `NoPapers` (while records may change there are no papers) and
  `FromCommitted` (what is compiled are records the committed manifest lists).
* `SignaturesAreTrue`: `SignedWasTrue` needs `Current` (what the snapshot holds and nobody touched since is the tree), `Attests` (an attestation
  is about the inventory it was bound to) and `Witnessed` (once the directories are found untouched after the files were, both were at the moment of
  the files, and so the whole attestation held then).

The assumptions are `BatchAssumption`, `CacheAssumption`, `ClaimAssumption`, `SupervisorAssumption`, those of `CodexExec` (`RequestsAssumption`,
`CallsAssumption`, `LinesAssumption`, `EventsAssumption`), of `FailFastBatch` (`ScopeAssumption`: no case twice, the frozen cases in it;
`SegmentsAssumption`, `VerdictsAssumption`, `BoundsAssumption`) and of the output tree (`OrderAssumption`, `ListsAssumption`, `BoundsAssumption`, `LoadsAssumption`). They say
that bounds are natural numbers, model values distinct, sets of paths disjoint and lists without repetition. The case lists of the output tree are
moreover not empty: `_validate_case_ids` (`pilot.py:439`), which every command calls first, refuses an empty list and one that
names a case twice.

Every safety property a run checks is thus also proved for all values of the constants. Only model-checked are the liveness
properties `BatchCompletes`, `EverythingEnds` and `EveryCallEnds`, which are out of the prover's reach. The three properties of the runs
that expect a violation are false of the code and have no theorem.

## 5. Findings

1. `batch_late_record`. `_recover_post_record_success` adopts a record that matches the slot in
   flight without reading the deadline; the same record would have been taken back, had
   the process lived.
2. `batch_overlong_id`. An answer is classified as failed because its request id is out of
   bounds, and the receipt of the failure carries that id into a bounded field: the validation
   error ends the batch instead of the case, and so does each resume that gets the same cached answer.
3. `batch_ledger_size`. The ledger is written with a limit of 16 MiB and read with one of 2 MiB;
   a batch of the size the contract admits outgrows the second.

## 6. Not modelled, and why

* `CleanUp` removes several files one by one; the model does it in one step. By `Claimed` it
  removes nothing that a settled case claims, so a crash in its middle leaves what a crash before
  or after it leaves, for every claimed file.
* The `ValidationError` branch at lines 1253-1279 of `pragmatic_batch.py`: the record is built
  from values that were validated before.
* The `record_too_large` outcome is modelled; its mismatch of the `cached` flag is reachable
  only past the 1 MiB bound of the payload, and `NeverWedged` excepts it by name.
* Records of a *plain* batch in the output root of a pragmatic one: the runbooks forbid sharing a root.
* An operator who overwrites an artifact a build has already written: the last check of the build goes by name
  (`incremental_training_ready.py:1298`), so such a package is reported. The operator of `OutputClaim` writes only where there is no
  file, and `ReportedIsWhole` is about that operator.
* Inode reuse in the cache: it could only make a retry an error.
* Two pragmatic batches on one root: the second waits for the batch lock and then is the next run on what the first left.
* The sources of an incremental package are read-only for it: what does not hold of them makes a case a gap
  or ends the build (`Prepare`).
* The rest of the first-case hard gate, beside its command under the supervisor: it re-reads evidence of earlier stages and compares it,
  with no step of another process that its lock would not exclude; its publication is the atomic write modelled for the packet.
* The canonical test receipts a fail-fast report quotes: constant during a run.
* Paths with links, and the descriptor-relative resolution that refuses them: the modelled trees have none. A temporary of a
  killed write is modelled where a later step looks at it (`OutputClaim`, `HumanAudit`, `CodexExec`).
* The composition of an audit with a live run, and of the Codex adapter with the batches in one state space: the product is out of TLC's
  reach, and the interface between them is the audit trail, which `CodexExec` judges and `FailFastBatch` counts.
* Contents: prompts, payload validation, redaction and digests are one bit each (matches or not). Compilation and replay of an
  episode are a function of its record; the Git reader, the context selection and the SBS tools are functions of their input.

## 7. Plan

1. *(done)* `PragmaticBatch`, `SlotBudget`, `PragmaticBatchProofs`.
2. *(done)* `TeacherCache`, `TeacherCacheProofs`.
3. *(done)* `OutputClaim`, `OutputClaimProofs`.
4. *(done)* `ProcessSupervisor`, `ProcessSupervisorProofs`.
5. *(done)* `CodexExec` with the scan of its trail, `CodexExecProofs`.
6. *(done)* `FailFastBatch` with the enrichment runner, `FailFastProofs`.
7. *(done)* `PilotBatch`, `HumanAudit`, `LiveAttestation`, `OutputTree`, `OutputTreeProofs`.
8. *(done)* `PragmaticFilesProofs`: `NeverWedged`, `ReportMatchesFiles`, `InvocationCountHonest`, and
   `LateRecordRetracted` under a clock that is not set back.
9. *(done)* The types of `OutputTree`, and `PassedPacketWasWhole` against a history of the tree.
10. `safeio` below its one-step write: a register with a lock as the abstract specification of the atomic write.
11. Compile and replay, and the SBS state machine: operators checked against each other over bounded inputs.
