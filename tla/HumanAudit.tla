----------------------------- MODULE HumanAudit -----------------------------
(***************************************************************************)
(* The auditor of an output tree (generation/human_audit.py): it replays    *)
(* every artifact, one file after the other and without the batch lock, and *)
(* publishes a packet for human review.  A record that is not what the      *)
(* provenance manifest says, or that is gone when it is read again, ends    *)
(* the audit; anything else that is missing or does not match fails a gate. *)
(* What the scan of the teacher audit finds is the subject of CodexExec.    *)
(***************************************************************************)
EXTENDS PilotBatch

VARIABLES
    json,       \* reports/human-audit-packet.json
    md,         \* reports/human-audit-packet.md
    apc,        \* where the audit is
    aprov,      \* the provenance manifest it read
    aman,       \* the trajectory manifest it read
    agates,     \* no gate has failed
    acase,      \* the case it reads
    audits      \* bound: audits left

packets   == <<json, md>>
audit_run == <<apc, aprov, aman, agates, acase>>
auditVars == <<packets, audit_run, audits>>

\* The gates of the batch: the Parquet file holds the transitions of the cases
\* that have an episode, in the order of the list.
BatchGates ==
    LET Listed(c) == \E i \in DOMAIN aman.rows : aman.rows[i][1] = c
        cs == SelectSeq(Order, Listed)
    IN  /\ DOMAIN aprov.rec = Cases
        /\ aman.rows = [i \in DOMAIN cs |-> <<cs[i], aprov.rec[cs[i]]>>]

Packet == [kind |-> "packet", pass |-> agates /\ BatchGates, prov |-> aprov, man |-> aman]

AuditInit ==
    /\ json = None /\ md = None
    /\ apc = "idle" /\ aprov = None /\ aman = None /\ agates = FALSE /\ acase = 0

AuditEnds == apc' = "idle" /\ aprov' = None /\ aman' = None /\ agates' = FALSE /\ acase' = 0

\* _manifest_expectation: the manifest, which is to name the frozen list ...
ReadProvenance ==
    /\ apc = "idle" /\ audits > 0 /\ audits' = audits - 1
    /\ IF prov # None /\ prov.ids = Order
       THEN apc' = "records" /\ aprov' = prov /\ agates' = TRUE /\ acase' = 1 /\ UNCHANGED aman
       ELSE UNCHANGED audit_run
    /\ UNCHANGED <<pilotVars, packets>>

\* ... and the files it lists, in its order: the records, then the receipts.
ReadListed ==
    /\ apc = "records"
    /\ LET c == Order[acase] IN
       IF /\ c \in DOMAIN aprov.rec => rec[c] = aprov.rec[c]
          /\ c \in DOMAIN aprov.failed => receipt[c] = aprov.failed[c]
       THEN /\ IF acase = Len(Order) THEN apc' = "manifest" /\ acase' = 1
               ELSE acase' = acase + 1 /\ UNCHANGED apc
            /\ UNCHANGED <<aprov, aman, agates>>
       ELSE AuditEnds
    /\ UNCHANGED <<pilotVars, packets, audits>>

\* _validate_trajectory_manifest.
ReadManifest ==
    /\ apc = "manifest" /\ apc' = "scan"
    /\ aman' = man
    /\ agates' = (agates /\ man # None /\ man.prov = aprov)
    /\ UNCHANGED <<pilotVars, packets, aprov, acase, audits>>

\* The audit trail and the cache: an attempt nothing binds, or a failed one,
\* fails a gate of a live batch.
ScanTeacherAudit ==
    /\ apc = "scan" /\ apc' = "baseline"
    /\ agates' \in {agates, FALSE}
    /\ UNCHANGED <<pilotVars, packets, aprov, aman, acase, audits>>

\* The observation of earlier attempts, against what the repository expects.
ReadBaseline ==
    /\ apc = "baseline" /\ apc' = "parquet"
    /\ agates' \in {agates, FALSE}
    /\ UNCHANGED <<pilotVars, packets, aprov, aman, acase, audits>>

ReadParquet ==
    /\ apc = "parquet" /\ apc' = "record"
    /\ agates' = (agates /\ aman # None /\ aman.rows # <<>> /\ parquet = aman.rows)
    /\ UNCHANGED <<pilotVars, packets, aprov, aman, acase, audits>>

\* The gates of a case, first those of its record, which is read again and
\* checked against the repository as it is now.
CheckRecord ==
    /\ apc = "record"
    /\ LET c == Order[acase] IN
       IF c \in DOMAIN aprov.rec /\ rec[c] = 0 THEN AuditEnds
       ELSE /\ agates' = (agates /\ c \in DOMAIN aprov.rec
                            /\ rec[c] = aprov.rec[c] /\ rec[c] = source)
            /\ apc' = "events" /\ UNCHANGED <<aprov, aman, acase>>
    /\ UNCHANGED <<pilotVars, packets, audits>>

NextAuditCase ==
    IF acase = Len(Order) THEN apc' = "markdown" /\ acase' = 0
    ELSE apc' = "record" /\ acase' = acase + 1

\* compile_t1_episode: a record whose context, prompt or validation is no longer
\* that of the repository has no episode.
Compiles(c) == c \in DOMAIN aprov.rec /\ aprov.rec[c] = source

\* The file of the case the manifest has an entry for is in place, and is what
\* the compiler makes of the record now.
Linked(c, kind) ==
    /\ Compiles(c)
    /\ aman # None /\ \E i \in DOMAIN aman.rows : aman.rows[i] = <<c, aprov.rec[c]>>
    /\ <<<<c, aprov.rec[c]>>, kind>> \in episodes

\* Mutant of CheckEpisode: entries that are there are checked, all of them.
CheckListedEpisode ==
    /\ apc \in {"events", "transitions"}
    /\ agates' = (agates /\ LET c == Order[acase] IN
                    aman # None /\ \A i \in DOMAIN aman.rows :
                       aman.rows[i][1] = c => Linked(c, apc))
    /\ \/ apc = "events" /\ apc' = "transitions" /\ UNCHANGED acase
       \/ apc = "transitions" /\ NextAuditCase
    /\ UNCHANGED <<pilotVars, packets, aprov, aman, audits>>

CheckEpisode ==
    /\ apc \in {"events", "transitions"}
    /\ agates' = (agates /\ Linked(Order[acase], apc))
    /\ \/ apc = "events" /\ apc' = "transitions" /\ UNCHANGED acase
       \/ apc = "transitions" /\ NextAuditCase
    /\ UNCHANGED <<pilotVars, packets, aprov, aman, audits>>

-----------------------------------------------------------------------------
(* AnchoredDirectory.atomic_bytes, for the two files of the packet: a       *)
(* temporary beside the file, then its replacement.                         *)

WriteTemporary ==
    /\ \/ apc = "markdown" /\ apc' = "replace markdown"
       \/ apc = "json" /\ apc' = "replace json"
    /\ temp' = TRUE
    /\ UNCHANGED <<source, audit, enrichment, outputs, command, commands, faults, packets,
                   aprov, aman, agates, acase, audits>>

\* A replacement whose temporary has gone raises, unless the file already has
\* the content it would have got.
ReplaceMarkdown ==
    /\ apc = "replace markdown"
    /\ IF temp \/ md = Packet THEN md' = Packet /\ apc' = "json" /\ UNCHANGED <<aprov, aman, agates, acase>>
       ELSE AuditEnds /\ UNCHANGED md
    /\ temp' = FALSE
    /\ UNCHANGED <<source, audit, enrichment, outputs, command, commands, faults, json, audits>>

ReplaceJson ==
    /\ apc = "replace json"
    /\ json' = IF temp THEN Packet ELSE json
    /\ AuditEnds /\ temp' = FALSE
    /\ UNCHANGED <<source, audit, enrichment, outputs, command, commands, faults, md, audits>>

AuditStep ==
    \/ ReadProvenance \/ ReadListed \/ ReadManifest \/ ScanTeacherAudit \/ ReadBaseline \/ ReadParquet
    \/ CheckRecord \/ CheckEpisode
    \/ WriteTemporary \/ ReplaceMarkdown \/ ReplaceJson

AuditTypeOK ==
    /\ \A p \in {json, md} \ {None} : p.pass \in BOOLEAN /\ p.prov.ids = Order
    /\ agates \in BOOLEAN /\ acase \in 0 .. Len(Order)
    /\ (apc = "idle") = (aprov = None)

=============================================================================
