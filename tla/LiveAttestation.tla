-------------------------- MODULE LiveAttestation --------------------------
(***************************************************************************)
(* The locked live run (generation/live_attestation.py, driven by           *)
(* scripts/locked_runtime_bootstrap.py): a preflight takes an inventory of  *)
(* the output tree; the run serves one case with the fail-fast batch, takes *)
(* a second inventory and a snapshot of all that replays the report, and    *)
(* writes an attestation; a verifier compares the snapshot with the tree,   *)
(* replays it, compares again, and the launcher signs.  Only the batch and  *)
(* the replay of its report hold the batch lock.                            *)
(*                                                                         *)
(* What the batch does to the tree is the subject of FailFastBatch; here it *)
(* is one step.  A file is identified by inode and times, so a file or a    *)
(* directory that changed since it was read is recognised even when it      *)
(* changed back: "touched" are the parts of the tree that did.              *)
(***************************************************************************)
EXTENDS PilotBatch

VARIABLES
    report,     \* reports/remaining-p0/fail-fast-report.json
    att,        \* the attestation beside it
    signed,     \* the attestation the launcher signed
    lpc,        \* where the run is
    lpre,       \* the inventory of the preflight
    lpost,      \* the inventory after the batch, directory by directory
    lrep,       \* the report the batch returned
    lsnap,      \* the snapshot
    touched,    \* parts of the tree changed since the snapshot read them
    lives       \* bound: live runs left

live_run == <<lpc, lpre, lpost, lrep, lsnap>>
liveVars == <<report, att, signed, live_run, touched, lives>>

\* inventory_snapshot, and the parts of the tree it walks in this order.
Inventory ==
    [kind |-> "inventory", audit |-> audit, enrichment |-> <<rec, receipt, prov>>,
     report |-> report, summary |-> sum]

Part(p) ==
    CASE p = "source"     -> source
      [] p = "audit"      -> audit
      [] p = "enrichment" -> <<rec, receipt, prov>>
      [] p = "summary"    -> sum
      [] p = "report"     -> report
      [] p = "papers"     -> <<man, val, pil>>
      [] p = "outputs"    -> <<episodes, parquet>>

Parts == {"source", "audit", "enrichment", "summary", "report", "papers", "outputs"}

\* _attempts: what the trail has under the requests of that version.
AttemptsOf(c, version, trail) ==
    {i \in DOMAIN trail : trail[i][1] = c /\ trail[i][2] = version}

LiveInit ==
    /\ report = None /\ att = None /\ signed = None
    /\ lpc = "idle" /\ lpre = None /\ lpost = None /\ lrep = None /\ lsnap = None /\ touched = {}

LiveEnds == lpc' = "idle" /\ lpre' = None /\ lpost' = None /\ lrep' = None /\ lsnap' = None

-----------------------------------------------------------------------------
(* The run.                                                                 *)

\* A step that is refused ends the run.
GoOnIf(ok, to) == IF ok THEN lpc' = to /\ UNCHANGED <<lpre, lpost, lrep, lsnap>> ELSE LiveEnds

\* The preflight mode, in a process of its own.
Preflight ==
    /\ lpc = "idle" /\ lives > 0 /\ lives' = lives - 1
    /\ lpre' = Inventory /\ lpc' = "run"
    /\ UNCHANGED <<pilotVars, report, att, signed, lpost, lrep, lsnap, touched>>

\* The run mode takes the inventory again, and again before the provider.
EnterRun ==
    /\ lpc = "run" /\ GoOnIf(Inventory = lpre, "execute")
    /\ UNCHANGED <<pilotVars, report, att, signed, touched, lives>>

EnterBatch ==
    /\ lpc = "execute" /\ GoOnIf(Inventory = lpre, "batch")
    /\ UNCHANGED <<pilotVars, report, att, signed, touched, lives>>

\* run_fail_fast_batch under the lock: it moves the papers of the run before to
\* the history, serves one case, and publishes a manifest, a summary and a
\* report that lists every attempt at that case for its present request.
RunBatch ==
    /\ lpc = "batch" /\ lock = "free"
    /\ \E c \in Cases : \E a \in Outcomes(c) :
         /\ Asked(c, a) /\ LeftBy(c, a)
         /\ prov' = Provenance(<<c>>, IF a = "good" THEN {c} ELSE {}, rec', receipt') /\ sum' = prov'
         /\ report' = [kind |-> "report", prov |-> prov', attempts |-> AttemptsOf(c, source, audit'),
                       status |-> IF a = "good" THEN "PASS" ELSE "STOP"]
    /\ lrep' = report' /\ lpost' = [kind |-> "inventory"] /\ lpc' = "post audit"
    /\ UNCHANGED <<source, outputs, temp, command, commands, faults, att, signed, lpre, lsnap,
                   touched, lives>>

\* It refuses the tree, raises, or dies with some of that done.
BatchRaises ==
    /\ lpc = "batch" /\ lock = "free" /\ Fault
    /\ \E n \in 0 .. 3 :
         /\ prov'   = IF n > 0 THEN None ELSE prov
         /\ sum'    = IF n > 1 THEN None ELSE sum
         /\ report' = IF n > 2 THEN None ELSE report
         /\ \/ UNCHANGED <<audit, rec, receipt>>
            \/ /\ n = 3
               /\ \E c \in Cases :
                    /\ audit' = Append(audit, <<c, source, "transport">>)
                    /\ rec' = [rec EXCEPT ![c] = 0]
                    /\ receipt' \in {receipt, [receipt EXCEPT ![c] = Receipt("transport", source)]}
    /\ LiveEnds
    /\ UNCHANGED <<source, outputs, temp, command, commands, att, signed, touched, lives>>

\* The inventory after the batch: a directory that changes while it is walked
\* is refused, so each is read at one moment.
ReadPost ==
    /\ LET Read(from, field, to) ==
             /\ lpc = from /\ lpc' = to
             /\ lpost' = [f \in DOMAIN lpost \cup {field} |->
                            IF f = field THEN Inventory[field] ELSE lpost[f]]
       IN  \/ Read("post audit", "audit", "post enrichment")
           \/ Read("post enrichment", "enrichment", "post report")
           \/ Read("post report", "report", "post summary")
           \/ Read("post summary", "summary", "replay")
    /\ UNCHANGED <<pilotVars, report, att, signed, lpre, lrep, lsnap, touched, lives>>

-----------------------------------------------------------------------------
(* The snapshot and the attestation.                                        *)

\* The report and the summary quote the manifest, and it quotes the files.
PapersAgree(inv) ==
    LET p == inv.enrichment[3] IN
    /\ inv.report # None /\ inv.report.prov = p /\ inv.summary = p
    /\ \A c \in DOMAIN p.rec    : inv.enrichment[1][c] = p.rec[c]
    /\ \A c \in DOMAIN p.failed : inv.enrichment[2][c] = p.failed[c]

\* verify_fail_fast_report, over an inventory and a version of the repository:
\* the papers agree, are made from that version, and leave no attempt out.
Verifies(inv, version) ==
    /\ PapersAgree(inv)
    /\ LET p == inv.enrichment[3] IN
       /\ \A c \in DOMAIN p.rec    : p.rec[c] = version
       /\ \A c \in DOMAIN p.failed : p.failed[c].source = version
       /\ inv.report.attempts = AttemptsOf(p.ids[1], version, inv.audit)

\* create_live_semantic_snapshot first replays the report, if there is one,
\* under the lock ...
ReplayReport ==
    /\ lpc = "replay" /\ lock = "free"
    /\ GoOnIf(report = None \/ Verifies(Inventory, source), "directories")
    /\ UNCHANGED <<pilotVars, report, att, signed, touched, lives>>

\* ... then notes the identities of all directories but reports and
\* reports/remaining-p0, which the run itself changes, ...
NoteDirectories ==
    /\ lpc = "directories" /\ lpc' = "snapshot source"
    /\ lsnap' = [inventory |-> Inventory, source |-> 0] /\ touched' = {}
    /\ UNCHANGED <<pilotVars, report, att, signed, lpre, lpost, lrep, lives>>

\* ... reads every file of the repository and the data the cases declare, ...
ReadSource ==
    /\ lpc = "snapshot source" /\ lpc' = "snapshot summary"
    /\ lsnap' = [lsnap EXCEPT !.source = source] /\ touched' = touched \ {"source"}
    /\ UNCHANGED <<pilotVars, report, att, signed, lpre, lpost, lrep, lives>>

\* ... then those of the two directories, one after the other (the papers of
\* the trajectory stage, which lie among them, with the last), ...
ReadFiles ==
    /\ \/ /\ lpc = "snapshot summary" /\ lpc' = "snapshot report"
          /\ lsnap' = [lsnap EXCEPT !.inventory.summary = sum] /\ touched' = touched \ {"summary"}
       \/ /\ lpc = "snapshot report" /\ lpc' = "recheck"
          /\ lsnap' = [lsnap EXCEPT !.inventory.report = report] /\ touched' = touched \ {"report", "papers"}
    /\ UNCHANGED <<pilotVars, report, att, signed, lpre, lpost, lrep, lives>>

\* ... and looks at the directories of the output tree again.
RecheckDirectories ==
    /\ lpc = "recheck"
    /\ GoOnIf(touched \cap {"audit", "enrichment", "outputs"} = {}, "attest")
    /\ UNCHANGED <<pilotVars, report, att, signed, touched, lives>>

Attestation ==
    [kind |-> "attestation", pre |-> lpre.audit, post |-> lpost,
     attempts |-> lrep.attempts, status |-> lrep.status]

\* Every attempt was created since the preflight.
CreatedSince(a) == a.attempts \cap DOMAIN a.pre = {} /\ a.attempts \subseteq DOMAIN a.post.audit

\* verify_live_attestation_binding: what is attested is that inventory, with the
\* papers of a run and attempts of its own.
Bound(a, inv) ==
    /\ CreatedSince(a) /\ a.post = inv
    /\ inv.report # None /\ inv.enrichment[3] # None /\ inv.summary # None

\* build_live_attestation, and the file.
Attest ==
    /\ lpc = "attest"
    /\ GoOnIf(Bound(Attestation, lpost), "verify")
    /\ att' = IF Bound(Attestation, lpost) THEN Attestation ELSE att
    /\ UNCHANGED <<pilotVars, report, signed, touched, lives>>

-----------------------------------------------------------------------------
(* Verification.                                                            *)

\* materialize_live_semantic_snapshot: a private tree with what was read.
Replica == lsnap.inventory

\* _verify_locked_live_enrichment_semantics over that tree.
SnapshotBears(a) ==
    /\ Bound(a, Replica) /\ Verifies(Replica, lsnap.source)
    /\ a.attempts = Replica.report.attempts /\ a.status = Replica.report.status

\* The run ends with a replay of its own; the attestation stays if it fails.
VerifyInProcess ==
    /\ lpc = "verify"
    /\ GoOnIf(SnapshotBears(att), "files before")
    /\ UNCHANGED <<pilotVars, report, att, signed, touched, lives>>

\* Mutant of CompareWithTree: the verifier goes by the snapshot alone.
CompareWithSnapshot ==
    /\ \/ lpc = "files before" /\ lpc' = "directories before"
       \/ lpc = "directories before" /\ lpc' = "semantics"
       \/ lpc = "files after" /\ lpc' = "directories after"
       \/ lpc = "directories after" /\ lpc' = "sign"
    /\ UNCHANGED <<pilotVars, report, att, signed, lpre, lpost, lrep, lsnap, touched, lives>>

\* verify_live_semantic_snapshot_against_live compares each file, then each
\* directory, with the one the snapshot read ...
Untouched(parts) == touched \cap parts = {}
FilesOfReports == {"summary", "report", "papers"}

\* ... in the launcher's verifier, before and after the replay.
CompareWithTree ==
    /\ \/ lpc = "files before" /\ GoOnIf(Untouched(FilesOfReports), "directories before")
       \/ lpc = "directories before" /\ GoOnIf(Untouched(Parts \ FilesOfReports), "semantics")
       \/ lpc = "files after" /\ GoOnIf(Untouched(FilesOfReports), "directories after")
       \/ lpc = "directories after" /\ GoOnIf(Untouched(Parts \ FilesOfReports), "sign")
    /\ UNCHANGED <<pilotVars, report, att, signed, touched, lives>>

VerifyHeld ==
    /\ lpc = "semantics"
    /\ GoOnIf(SnapshotBears(att), "files after")
    /\ UNCHANGED <<pilotVars, report, att, signed, touched, lives>>

Sign ==
    /\ lpc = "sign" /\ signed' = att /\ LiveEnds
    /\ UNCHANGED <<pilotVars, report, att, touched, lives>>

LiveStep ==
    \/ Preflight \/ EnterRun \/ EnterBatch \/ RunBatch \/ BatchRaises \/ ReadPost
    \/ ReplayReport \/ NoteDirectories \/ ReadSource \/ ReadFiles \/ RecheckDirectories \/ Attest
    \/ VerifyInProcess \/ CompareWithTree \/ VerifyHeld \/ Sign

\* What other processes do to the tree meanwhile is remembered.
Touch ==
    touched' = IF lsnap = None THEN touched ELSE touched \cup {p \in Parts : Part(p)' # Part(p)}

LiveTypeOK ==
    /\ \A r \in {report, lrep} \ {None} :
         r.attempts \subseteq Nat /\ r.status \in {"PASS", "STOP"} /\ Len(r.prov.ids) = 1
    /\ touched \subseteq Parts
    /\ (lpc = "idle") = (lpre = None)
    /\ \A a \in {att, signed} \ {None} : a.status \in {"PASS", "STOP"}

=============================================================================
