----------------------------- MODULE PilotBatch -----------------------------
(***************************************************************************)
(* The output tree and the commands that write it under the batch lock: the *)
(* plain enrichment batch, the trajectory compiler and the pilot, which is  *)
(* both under one lock (generation/pilot.py, trajectory.py, replay.py and   *)
(* safeio.py).  Each command changes at most one file in a step, and may    *)
(* raise or die between any two.  HumanAudit and LiveAttestation read the   *)
(* same tree without the lock; OutputTree composes them.                    *)
(*                                                                         *)
(* Data.  The repository under --root is its version, and a record is the   *)
(* version it was made from: a response is cached by its request, so case   *)
(* and version determine the record.  An episode file is named by a digest  *)
(* of its record; it is the triple of case, version and kind.  The digest a *)
(* paper quotes is the content it covers.                                   *)
(***************************************************************************)
EXTENDS Naturals, Sequences, FiniteSets

CONSTANTS
    Order,        \* the frozen case list
    Lists,        \* the case lists commands are started with
    MaxSource,    \* bound: versions of the repository
    MaxFaults     \* bound: failing operations and crashes

Cases == {Order[i] : i \in DOMAIN Order}

\* _validate_case_ids refuses a list that is empty or names a case twice.
CaseList(list) == list # <<>> /\ \A i, j \in DOMAIN list : list[i] = list[j] => i = j

ASSUME OrderAssumption == Order \in Seq(Cases) /\ CaseList(Order)
ASSUME ListsAssumption == Lists \subseteq Seq(Cases) /\ \A list \in Lists : CaseList(list)
ASSUME BoundsAssumption == MaxSource \in Nat \ {0} /\ MaxFaults \in Nat

VARIABLES
    \* the output tree
    source,      \* version of the repository
    audit,       \* the teacher's audit trail and cache: per served case the
                 \* version it was asked for and how that ended
    rec,         \* per case: the version its record was made from, 0 for none
    receipt,     \* per case: the failure receipt
    prov,        \* enrichment/_batch-provenance.json
    sum,         \* reports/enrichment-summary.json: the manifest it commits to
    episodes,    \* the files under episodes
    parquet,     \* trajectories/train.parquet: the episodes in it, in order
    man,         \* reports/trajectory-artifact-manifest.json
    val,         \* reports/trajectory-validation.json: the manifest it quotes
    pil,         \* reports/pilot-summary.json: likewise
    temp,        \* an auditor's temporary is in reports
    \* the command that holds the lock
    pc,
    cmd,         \* "enrich", "compile" or "pilot"
    ids,         \* its case list
    k,           \* the case of it that is served
    held,        \* the cases the enrichment has processed
    ready,       \* the cases the compiler prepared
    built,       \* the episodes it has, in the order of the list
    lock,        \* who holds the batch lock
    \* bounds
    commands,    \* commands left
    faults

outputs    == <<episodes, parquet, man, val, pil>>
enrichment == <<rec, receipt, prov, sum>>
tree       == <<source, audit, enrichment, outputs, temp>>
command    == <<pc, cmd, ids, k, held, ready, built, lock>>
pilotVars  == <<tree, command, commands, faults>>

Sources == 1 .. MaxSource
None == [kind |-> "none"]
Receipt(why, s) == [kind |-> why, source |-> s]

\* _write_provenance_manifest over the files as they are: the records of the
\* processed cases and the receipts kept for the others.
Provenance(list, done, records, receipts) ==
    LET Failed == {c \in {list[i] : i \in DOMAIN list} \ done : receipts[c] # None}
    IN  [kind |-> "provenance", ids |-> list, rec |-> [c \in done |-> records[c]],
         failed |-> [c \in Failed |-> receipts[c]]]

Manifest(p, rows) == [kind |-> "artifacts", prov |-> p, rows |-> rows]

Files(rows) == {rows[i] : i \in DOMAIN rows} \X {"events", "transitions"}

\* The answer the cache replays; a transport failure is audited, not cached.
Answer(c, s) ==
    IF \E a \in {"good", "bad"} : <<c, s, a>> \in {audit[i] : i \in DOMAIN audit}
    THEN CHOOSE a \in {"good", "bad"} : <<c, s, a>> \in {audit[i] : i \in DOMAIN audit}
    ELSE "none"

\* What a manifest lists is in place.
RecordsInPlace(p)  == \A c \in DOMAIN p.rec : rec[c] = p.rec[c]
ReceiptsInPlace(p) == \A c \in DOMAIN p.failed : receipt[c] = p.failed[c]

PilotInit ==
    /\ source = 1 /\ audit = <<>>
    /\ rec = [c \in Cases |-> 0] /\ receipt = [c \in Cases |-> None]
    /\ prov = None /\ sum = None
    /\ episodes = {} /\ parquet = <<>> /\ man = None /\ val = None /\ pil = None /\ temp = FALSE
    /\ pc = "idle" /\ cmd = "none" /\ ids = <<>> /\ k = 0 /\ held = {} /\ ready = {} /\ built = <<>>
    /\ lock = "free" /\ faults = 0

-----------------------------------------------------------------------------
(* Commands begin and end.                                                  *)

Fault == faults < MaxFaults /\ faults' = faults + 1

\* Mutant of Release: the lock is left behind.
ReleaseButLock ==
    /\ pc' = "idle" /\ cmd' = "none" /\ ids' = <<>> /\ k' = 0 /\ held' = {} /\ ready' = {} /\ built' = <<>>
    /\ UNCHANGED lock

\* Whatever a command holds when it ends, the lock goes with its process.
Release ==
    /\ pc' = "idle" /\ cmd' = "none" /\ ids' = <<>> /\ k' = 0 /\ held' = {} /\ ready' = {} /\ built' = <<>>
    /\ lock' = "free"

\* The repository is edited between commands.
EditSource ==
    /\ lock = "free" /\ source < MaxSource
    /\ source' = source + 1
    /\ UNCHANGED <<audit, enrichment, outputs, temp, command, commands, faults>>

\* The lock is waited for; the steps before it change nothing.
StartCommand ==
    /\ lock = "free" /\ commands > 0
    /\ cmd' \in {"enrich", "compile", "pilot"} /\ ids' \in Lists
    /\ pc' = IF cmd' = "compile" THEN "load" ELSE "unlink episodes"
    /\ k' = 1 /\ held' = {} /\ ready' = {} /\ built' = <<>> /\ lock' = "command"
    /\ commands' = commands - 1
    /\ UNCHANGED <<tree, faults>>

\* A failing operation outside the cases, or the end of the process.
Stop ==
    /\ pc # "idle" /\ Fault /\ Release
    /\ UNCHANGED <<tree, commands>>

-----------------------------------------------------------------------------
(* The enrichment stage.                                                    *)

\* _invalidate_trajectory_outputs, file by file.
UnlinkEpisodes ==
    /\ pc = "unlink episodes"
    /\ IF episodes = {} THEN pc' = "unlink papers" /\ UNCHANGED episodes
       ELSE UNCHANGED pc /\ \E f \in episodes : episodes' = episodes \ {f}
    /\ UNCHANGED <<source, audit, enrichment, parquet, man, val, pil, temp, cmd, ids, k,
                   held, ready, built, lock, commands, faults>>

\* Mutant of UnlinkPapers: the pilot's own summary is forgotten.
UnlinkPapersButPilot ==
    /\ pc = "unlink papers"
    /\ IF parquet # <<>> THEN parquet' = <<>> /\ UNCHANGED <<pc, val, man, pil>>
       ELSE IF val # None THEN val' = None /\ UNCHANGED <<pc, parquet, man, pil>>
       ELSE /\ man' = None /\ pc' = "case"
            /\ UNCHANGED <<parquet, val, pil>>
    /\ UNCHANGED <<source, audit, enrichment, episodes, temp, cmd, ids, k, held, ready, built, lock,
                   commands, faults>>

UnlinkPapers ==
    /\ pc = "unlink papers"
    /\ IF parquet # <<>> THEN parquet' = <<>> /\ UNCHANGED <<pc, val, man, pil>>
       ELSE IF val # None THEN val' = None /\ UNCHANGED <<pc, parquet, man, pil>>
       ELSE IF man # None THEN man' = None /\ UNCHANGED <<pc, parquet, val, pil>>
       ELSE pil' = None /\ pc' = "case" /\ UNCHANGED <<parquet, val, man>>
    /\ UNCHANGED <<source, audit, enrichment, episodes, temp, cmd, ids, k, held, ready, built, lock,
                   commands, faults>>

NextCase == k' = k + 1 /\ pc' = IF k = Len(ids) THEN "clean up" ELSE "case"

\* A current record is read back and kept, its stale receipt removed.
ReuseRecord ==
    /\ pc = "case" /\ rec[ids[k]] = source
    /\ receipt' = [receipt EXCEPT ![ids[k]] = None]
    /\ held' = held \cup {ids[k]} /\ NextCase
    /\ UNCHANGED <<source, audit, rec, prov, sum, outputs, temp, cmd, ids, ready, built, lock,
                   commands, faults>>

\* How the teacher may answer for the repository as it is, and the audit of it.
Outcomes(c) ==
    IF Answer(c, source) = "none" THEN {"good", "bad", "transport"} ELSE {Answer(c, source)}
Asked(c, a) ==
    audit' = IF Answer(c, source) = "none" THEN Append(audit, <<c, source, a>>) ELSE audit

\* What a case leaves: its record and its receipt.
Left(c, s, r) == rec' = [rec EXCEPT ![c] = s] /\ receipt' = [receipt EXCEPT ![c] = r]
LeftBy(c, a) == IF a = "good" THEN Left(c, source, None) ELSE Left(c, 0, Receipt(a, source))

\* Any other record goes to the quarantine; the teacher answers, from its cache
\* where it can.
AskTeacher ==
    /\ pc = "case" /\ rec[ids[k]] # source
    /\ \E a \in Outcomes(ids[k]) :
         /\ Asked(ids[k], a) /\ LeftBy(ids[k], a)
         /\ held' = IF a = "good" THEN held \cup {ids[k]} ELSE held
    /\ NextCase
    /\ UNCHANGED <<source, prov, sum, outputs, temp, cmd, ids, ready, built, lock, commands, faults>>

\* A file operation of the runner fails and the batch goes on to the next case:
\* nothing changed, or the old record moved, or the teacher was asked and the
\* receipt, the record or its readback failed.
CaseRaises ==
    /\ pc = "case" /\ Fault
    /\ LET c == ids[k] IN
       \/ UNCHANGED <<audit, rec, receipt>>
       \/ rec[c] # source /\ Left(c, 0, receipt[c]) /\ UNCHANGED audit
       \/ /\ rec[c] # source
          /\ \E a \in Outcomes(c) :
               /\ Asked(c, a)
               /\ \/ Left(c, 0, receipt[c])
                  \/ a = "good" /\ \/ Left(c, 0, None) \/ Left(c, source, None)
                                   \/ Left(c, 0, Receipt("bad", source))
    /\ NextCase
    /\ UNCHANGED <<source, prov, sum, outputs, temp, cmd, ids, held, ready, built, lock, commands>>

\* _cleanup_enrichment_artifacts, file by file: records that were not processed
\* in this run, then receipts of cases that did not fail in it.
CleanUp ==
    /\ pc = "clean up"
    /\ LET Records  == {c \in Cases \ held : rec[c] # 0}
           Receipts == {c \in Cases \ ({ids[i] : i \in DOMAIN ids} \ held) : receipt[c] # None}
       IN  \/ \E c \in Records : rec' = [rec EXCEPT ![c] = 0] /\ UNCHANGED <<receipt, pc>>
           \/ /\ Records = {}
              /\ \E c \in Receipts : receipt' = [receipt EXCEPT ![c] = None]
              /\ UNCHANGED <<rec, pc>>
           \/ Records = {} /\ Receipts = {} /\ pc' = "provenance" /\ UNCHANGED <<rec, receipt>>
    /\ UNCHANGED <<source, audit, prov, sum, outputs, temp, cmd, ids, k, held, ready, built, lock,
                   commands, faults>>

WriteProvenance ==
    /\ pc = "provenance"
    /\ prov' = Provenance(ids, held, rec, receipt) /\ pc' = "summary"
    /\ UNCHANGED <<source, audit, rec, receipt, sum, outputs, temp, cmd, ids, k, held, ready,
                   built, lock, commands, faults>>

\* The pilot compiles under the same lock what it has just committed to.
WriteSummary ==
    /\ pc = "summary" /\ sum' = prov
    /\ \/ cmd = "enrich" /\ Release
       \/ cmd = "pilot" /\ pc' = "load" /\ k' = 1 /\ held' = {} /\ UNCHANGED <<cmd, ids, ready, built, lock>>
    /\ UNCHANGED <<source, audit, rec, receipt, prov, outputs, temp, commands, faults>>

-----------------------------------------------------------------------------
(* The trajectory stage.                                                    *)

\* _load_committed_provenance against the commitment the operator took from the
\* summary; for the pilot that is the manifest it wrote.
Committed ==
    /\ prov # None /\ prov = sum /\ prov.ids = ids
    /\ RecordsInPlace(prov) /\ ReceiptsInPlace(prov)

\* Every committed record is checked and prepared before any is compiled.
LoadRecords ==
    /\ pc = "load"
    /\ IF Committed
       THEN /\ ready' = {c \in DOMAIN prov.rec : rec[c] = source}
            /\ pc' = "compile" /\ UNCHANGED <<cmd, ids, k, held, built, lock>>
       ELSE Release
    /\ UNCHANGED <<tree, commands, faults>>

Episode(c) == <<c, prov.rec[c]>>

\* replay_events: files of the case that lead to the commitment of its new
\* episode, from the first event to the close.
Replays(c) == Files(<<Episode(c)>>) \subseteq episodes

NextEpisode == k' = k + 1 /\ pc' = IF k = Len(ids) THEN "parquet" ELSE "compile"

\* A case without a prepared record is passed over; files that replay are kept.
SkipOrKeep ==
    /\ pc = "compile"
    /\ \/ ids[k] \notin ready /\ UNCHANGED built
       \/ /\ ids[k] \in ready /\ Replays(ids[k])
          /\ built' = Append(built, Episode(ids[k]))
    /\ NextEpisode
    /\ UNCHANGED <<tree, cmd, ids, held, ready, lock, commands, faults>>

WriteEvents ==
    /\ pc = "compile" /\ ids[k] \in ready /\ ~Replays(ids[k])
    /\ episodes' = episodes \cup {<<Episode(ids[k]), "events">>}
    /\ pc' = "transitions"
    /\ UNCHANGED <<source, audit, enrichment, parquet, man, val, pil, temp, cmd, ids, k, held,
                   ready, built, lock, commands, faults>>

WriteTransitions ==
    /\ pc = "transitions"
    /\ episodes' = episodes \cup {<<Episode(ids[k]), "transitions">>}
    /\ built' = Append(built, Episode(ids[k])) /\ NextEpisode
    /\ UNCHANGED <<source, audit, enrichment, parquet, man, val, pil, temp, cmd, ids, held,
                   ready, lock, commands, faults>>

\* A write or readback that fails is the failure of its case only.
CompileRaises ==
    /\ pc \in {"compile", "transitions"} /\ ids[k] \in ready /\ Fault
    /\ NextEpisode
    /\ UNCHANGED <<tree, cmd, ids, held, ready, built, lock, commands>>

WriteParquet ==
    /\ pc = "parquet" /\ parquet' = built /\ pc' = "tidy"
    /\ UNCHANGED <<source, audit, enrichment, episodes, man, val, pil, temp, cmd, ids, k, held,
                   ready, built, lock, commands, faults>>

\* _publish_trajectory_artifact_manifest: files no entry will list go, and the
\* temporaries in reports, an auditor's included.
Tidy ==
    /\ pc = "tidy"
    /\ \/ \E f \in episodes \ Files(built) : episodes' = episodes \ {f} /\ UNCHANGED <<pc, temp>>
       \/ episodes \subseteq Files(built) /\ temp' = FALSE /\ pc' = "manifest" /\ UNCHANGED episodes
    /\ UNCHANGED <<source, audit, enrichment, parquet, man, val, pil, cmd, ids, k, held, ready,
                   built, lock, commands, faults>>

WriteManifest ==
    /\ pc = "manifest" /\ man' = Manifest(prov, built) /\ pc' = "validation"
    /\ UNCHANGED <<source, audit, enrichment, episodes, parquet, val, pil, temp, cmd, ids, k,
                   held, ready, built, lock, commands, faults>>

WriteValidation ==
    /\ pc = "validation" /\ val' = man
    /\ \/ cmd = "compile" /\ Release
       \/ cmd = "pilot" /\ pc' = "pilot" /\ UNCHANGED <<cmd, ids, k, held, ready, built, lock>>
    /\ UNCHANGED <<source, audit, enrichment, episodes, parquet, man, pil, temp, commands, faults>>

WritePilot ==
    /\ pc = "pilot" /\ pil' = val /\ Release
    /\ UNCHANGED <<source, audit, enrichment, episodes, parquet, man, val, temp, commands, faults>>

CommandStep ==
    \/ StartCommand \/ Stop
    \/ UnlinkEpisodes \/ UnlinkPapers \/ ReuseRecord \/ AskTeacher \/ CaseRaises \/ CleanUp
    \/ WriteProvenance \/ WriteSummary
    \/ LoadRecords \/ SkipOrKeep \/ WriteEvents \/ WriteTransitions \/ CompileRaises
    \/ WriteParquet \/ Tidy \/ WriteManifest \/ WriteValidation \/ WritePilot

-----------------------------------------------------------------------------
Rows == Cases \X Sources
CommitsTo(p) ==
    p = None \/ /\ p.ids \in Seq(Cases)
                /\ DOMAIN p.rec \subseteq Cases /\ \A c \in DOMAIN p.rec : p.rec[c] \in Sources
                /\ DOMAIN p.failed \subseteq Cases \ DOMAIN p.rec
ListsRows(m) == m = None \/ m.rows \in Seq(Rows)
ReceiptValues == {None} \cup {Receipt(a, s) : a \in {"bad", "transport"}, s \in Sources}

TreeTypes ==
    /\ source \in Sources /\ rec \in [Cases -> 0 .. MaxSource] /\ receipt \in [Cases -> ReceiptValues]
    /\ audit \in Seq(Cases \X Sources \X {"good", "bad", "transport"})
    /\ CommitsTo(prov) /\ CommitsTo(sum)
    /\ episodes \subseteq Rows \X {"events", "transitions"} /\ parquet \in Seq(Rows)
    /\ ListsRows(man) /\ ListsRows(val) /\ ListsRows(pil)
    /\ temp \in BOOLEAN

RunTypes ==
    /\ lock \in {"free", "command"} /\ (lock = "command") = (pc # "idle")
    /\ cmd \in {"none", "enrich", "compile", "pilot"} /\ ids \in Lists \cup {<<>>}
    /\ k \in 0 .. Len(Order) + 1 /\ held \subseteq Cases /\ ready \subseteq Cases
    /\ built \in Seq(Rows)
    /\ commands \in Nat /\ faults \in 0 .. MaxFaults

PilotTypeOK == TreeTypes /\ RunTypes

=============================================================================
