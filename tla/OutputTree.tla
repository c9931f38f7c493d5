----------------------------- MODULE OutputTree -----------------------------
(***************************************************************************)
(* One output tree: the commands that write it under the batch lock, and    *)
(* beside them either the auditor or the locked live run, which read it     *)
(* without.  Nothing promises that a command or a reader goes on.           *)
(***************************************************************************)
EXTENDS HumanAudit, LiveAttestation

CONSTANT Loads      \* bounds: how many commands, audits and live runs there are

ASSUME LoadsAssumption == Loads \subseteq [commands : Nat, audits : Nat, lives : Nat]

VARIABLES
    wholes,      \* the pairs of manifests some moment found whole
    batched,     \* the batch of a live run has changed the enrichment
    truths       \* the attestations of which all held at a moment of their verification

vars == <<pilotVars, auditVars, liveVars, wholes, batched, truths>>

\* A complete tree: one record per case of the list, made from the repository
\* as it is, its episode, all of them in the Parquet file, and both manifests.
Whole ==
    /\ prov # None /\ prov.ids = Order /\ DOMAIN prov.rec = Cases
    /\ \A c \in Cases : rec[c] = prov.rec[c] /\ rec[c] = source
    /\ man # None /\ man.prov = prov
    /\ man.rows = [i \in DOMAIN Order |-> <<Order[i], prov.rec[Order[i]]>>]
    /\ Files(man.rows) \subseteq episodes /\ parquet = man.rows

Verifying == {"files before", "directories before", "semantics", "files after", "directories after", "sign"}

Remember ==
    /\ wholes' = IF Whole' THEN wholes \cup {<<prov, man>>'} ELSE wholes
    /\ batched' = (batched \/ (lpc = "batch" /\ lpc' # "batch"))
    /\ LET Held == /\ lpc' \in Verifying /\ Inventory' = att'.post
                   /\ att'.attempts \cap DOMAIN lpre'.audit = {}
       IN  truths' = IF Held THEN truths \cup {att'} ELSE truths

Init ==
    /\ PilotInit /\ AuditInit /\ LiveInit
    /\ \E n \in Loads : commands = n.commands /\ audits = n.audits /\ lives = n.lives
    /\ wholes = {} /\ batched = FALSE /\ truths = {}

Edited ==
    EditSource /\ UNCHANGED <<auditVars, report, att, signed, live_run, lives>> /\ Touch /\ Remember
Commanded ==
    CommandStep /\ UNCHANGED <<auditVars, report, att, signed, live_run, lives>> /\ Touch /\ Remember
Audited  == AuditStep /\ UNCHANGED liveVars /\ Remember
Attested == LiveStep  /\ UNCHANGED auditVars /\ Remember

Next == Edited \/ Commanded \/ Audited \/ Attested

Spec == Init /\ [][Next]_vars

-----------------------------------------------------------------------------

TypeOK == PilotTypeOK /\ AuditTypeOK /\ LiveTypeOK

\* The packet of an audit that passed is about a tree that was once complete:
\* the two manifests it quotes, and everything they list, were in place at the
\* same moment, though the auditor read them at different ones.
PassedPacketWasWhole == json # None /\ json.pass => <<json.prov, json.man>> \in wholes

\* Before the first batch of a live run, no paper of the trajectory stage
\* outlives the provenance manifest and the records it was made from: artifact
\* manifest, validation report and pilot summary go before the next enrichment
\* touches either.
ReportsCiteTheTree ==
    ~batched =>
        \A m \in {man, val, pil} \ {None} :
            m.prov = prov /\ \A i \in DOMAIN m.rows : rec[m.rows[i][1]] = m.rows[i][2]

\* What the launcher signs was the tree at one moment since its verifier began,
\* and every attempt in it was made by the run it attests.
SignedWasTrue == signed # None => signed \in truths

=============================================================================
