-------------------------- MODULE OutputTreeProofs --------------------------
(***************************************************************************)
(* The safety properties of OutputTree, for every case list, every set of   *)
(* command lists, and any number of versions, failures, commands, audits    *)
(* and runs: types, what an audit vouches for, what the papers cite, and     *)
(* what is signed.                                                         *)
(***************************************************************************)
EXTENDS OutputTree, FiniteSetTheorems, TLAPS

Compiling == {"compile", "transitions", "parquet", "tidy", "manifest", "validation", "pilot"}
Enriching == {"case", "clean up", "provenance", "summary"}

-----------------------------------------------------------------------------
(* Types.                                                                   *)

Unlinking == {"unlink episodes", "unlink papers"}
OfACase   == {"case", "compile", "transitions"}

\* The command serves the list it was started with from its first case to its last.
InOrder ==
    /\ pc \in {"idle", "load"} \cup Unlinking \cup Enriching \cup Compiling
    /\ pc # "idle" => ids \in Lists
    /\ pc = "idle" => k = 0
    /\ pc \in {"load"} \cup Unlinking => k = 1
    /\ pc \in OfACase => k \in DOMAIN ids
    /\ pc \in (Enriching \cup Compiling) \ OfACase => k = Len(ids) + 1

\* What was processed has a record, what is compiled is in the manifest.
InHand ==
    /\ pc \notin Enriching => held = {}
    /\ pc = "case" => held \subseteq {ids[j] : j \in 1 .. (k - 1)}
    /\ \A c \in held : rec[c] # 0
    /\ pc \in Compiling => prov # None /\ ready \subseteq DOMAIN prov.rec
    /\ pc = "transitions" => ids[k] \in ready

\* What a command relies on: the types, its place, and what it has in hand.
CommandInv == TreeTypes /\ RunTypes /\ InOrder /\ InHand

\* A list of distinct cases of the frozen list is no longer than that.
LEMMA ListFits ==
  ASSUME NEW list \in Lists
  PROVE  /\ list \in Seq(Cases) /\ CaseList(list)
         /\ Len(list) \in Nat \ {0} /\ DOMAIN list = 1 .. Len(list)
         /\ Len(list) <= Len(Order)
<1>1. list \in Seq(Cases) /\ CaseList(list) /\ Order \in Seq(Cases)
  BY ListsAssumption, OrderAssumption
<1>2. /\ Len(list) \in Nat /\ DOMAIN list = 1 .. Len(list)
      /\ Len(Order) \in Nat /\ DOMAIN Order = 1 .. Len(Order)
  BY <1>1
<1>3. Len(list) # 0
  BY <1>1 DEF CaseList
<1> DEFINE n == Len(list)
           m == Len(Order)
           f == [i \in 1 .. n |-> CHOOSE j \in 1 .. m : Order[j] = list[i]]
<1>4. \A i \in 1 .. n : f[i] \in 1 .. m /\ Order[f[i]] = list[i]
  <2> TAKE i \in 1 .. n
  <2>1. list[i] \in Cases
    BY <1>1, <1>2
  <2>2. \E j \in 1 .. m : Order[j] = list[i]
    BY <1>2, <2>1 DEF Cases
  <2>3. f[i] = CHOOSE j \in 1 .. m : Order[j] = list[i]
    OBVIOUS
  <2> HIDE DEF f
  <2> QED  BY <2>2, <2>3
<1>5. f \in [1 .. n -> 1 .. m]
  BY <1>4
<1>6. IsFiniteSet(1 .. n) /\ IsFiniteSet(1 .. m) /\ Cardinality(1 .. n) = n /\ Cardinality(1 .. m) = m
  <2>1. n \in Int /\ m \in Int /\ n >= 0 /\ m >= 0
    BY <1>2
  <2> HIDE DEF n, m
  <2> QED  BY <2>1, FS_Interval
<1>7. ~(m < n)
  <2> SUFFICES ASSUME m < n PROVE FALSE
    OBVIOUS
  <2> HIDE DEF f, n, m
  <2>1. \E x, y \in 1 .. n : x # y /\ f[x] = f[y]
    BY <1>5, <1>6, FS_PigeonHole
  <2>2. \A x, y \in 1 .. n : list[x] = list[y] => x = y
    BY <1>1, <1>2 DEF CaseList, n
  <2> QED  BY <1>4, <2>1, <2>2
<1> QED  BY <1>1, <1>2, <1>3, <1>7

\* The list it serves, in numbers.
LEMMA Place ==
  ASSUME InOrder, pc # "idle"
  PROVE  /\ ids \in Lists /\ ids \in Seq(Cases) /\ CaseList(ids)
         /\ Len(ids) \in Nat \ {0} /\ DOMAIN ids = 1 .. Len(ids) /\ Len(ids) <= Len(Order)
         /\ k \in 1 .. (Len(ids) + 1)
         /\ pc \in OfACase => k \in DOMAIN ids /\ ids[k] \in Cases
<1>1. ids \in Lists
  BY DEF InOrder
<1>2. /\ ids \in Seq(Cases) /\ CaseList(ids) /\ Len(ids) \in Nat \ {0}
      /\ DOMAIN ids = 1 .. Len(ids) /\ Len(ids) <= Len(Order)
  BY <1>1, ListFits
<1>3. \/ k = 1
      \/ pc \in OfACase /\ k \in DOMAIN ids
      \/ k = Len(ids) + 1
  BY DEF InOrder
<1> DEFINE n == Len(ids)
<1>4. n \in Nat \ {0} /\ (k = 1 \/ k \in 1 .. n \/ k = n + 1)
  BY <1>2, <1>3
<1> HIDE DEF n
<1>5. k \in 1 .. (n + 1)
  BY <1>4
<1>6. pc \in OfACase => k \in DOMAIN ids
  BY DEF InOrder
<1> QED  BY <1>1, <1>2, <1>5, <1>6 DEF n

\* A place that is not the last has a next.
LEMMA NextPlace ==
  ASSUME NEW n \in Nat, NEW i \in 1 .. n, i # n
  PROVE  i + 1 \in 1 .. n
OBVIOUS

\* From one case of the list to the next, or past the last.
LEMMA NextInOrder ==
  ASSUME InOrder, pc \in OfACase, UNCHANGED ids, k' = k + 1,
         \/ pc' = IF k = Len(ids) THEN "clean up" ELSE "case"
         \/ pc' = IF k = Len(ids) THEN "parquet" ELSE "compile"
  PROVE  InOrder'
<1> DEFINE n == Len(ids)
<1>1. /\ ids \in Lists /\ n \in Nat /\ DOMAIN ids = 1 .. n /\ k \in 1 .. n
  BY Place DEF OfACase
<1>2. Len(ids') = n /\ DOMAIN ids' = 1 .. n
  BY <1>1
<1> HIDE DEF n
<1>3. k = n => pc' \in {"clean up", "parquet"} /\ k' = n + 1
  BY DEF n
<1>4. k # n => pc' \in {"case", "compile"}
  BY DEF n
<1>5. k # n => k + 1 \in 1 .. n
  BY <1>1, NextPlace, Zenon
<1>6. k # n => k' \in 1 .. n
  BY <1>5, Zenon
<1> QED  BY <1>1, <1>2, <1>3, <1>4, <1>6 DEF InOrder, Unlinking, OfACase, Enriching, Compiling

\* Every step of the command keeps it in order.
LEMMA InOrderStep ==
  ASSUME InOrder, CommandStep
  PROVE  InOrder'
<1> DEFINE Idle == pc' = "idle" /\ k' = 0
<1>0. ASSUME Idle PROVE InOrder'
  BY <1>0 DEF InOrder, Unlinking, OfACase, Enriching, Compiling
<1>1. CASE StartCommand
  BY <1>1 DEF StartCommand, InOrder, Unlinking, OfACase, Enriching, Compiling
<1>2. CASE Stop
  BY <1>0, <1>2 DEF Stop, Release
<1>3. CASE UnlinkEpisodes
  BY <1>3 DEF UnlinkEpisodes, InOrder, Unlinking, OfACase, Enriching, Compiling
<1>4. CASE UnlinkPapers
  <2>1. CASE pc' = pc
    BY <1>4, <2>1 DEF UnlinkPapers, InOrder, Unlinking, OfACase, Enriching, Compiling
  <2>2. CASE pc' = "case"
    <3>1. UNCHANGED <<ids, k>> /\ k = 1 /\ ids \in Lists
      BY <1>4 DEF UnlinkPapers, InOrder, Unlinking
    <3>2. Len(ids) \in Nat \ {0} /\ DOMAIN ids = 1 .. Len(ids)
      BY <3>1, ListFits
    <3>3. 1 \in DOMAIN ids
      BY <3>2
    <3> QED  BY <2>2, <3>1, <3>3 DEF InOrder, Unlinking, OfACase, Enriching, Compiling
  <2> QED  BY <1>4, <2>1, <2>2 DEF UnlinkPapers
<1>5. CASE ReuseRecord \/ AskTeacher \/ CaseRaises
  <2>1. pc = "case" /\ UNCHANGED ids /\ NextCase
    BY <1>5 DEF ReuseRecord, AskTeacher, CaseRaises
  <2> QED  BY <2>1, NextInOrder DEF NextCase, OfACase
<1>6. CASE CleanUp \/ WriteProvenance
  <2>1. UNCHANGED <<ids, k>> /\ pc \in {"clean up", "provenance"}
        /\ pc' \in {"clean up", "provenance", "summary"}
    BY <1>6 DEF CleanUp, WriteProvenance
  <2> QED  BY <2>1 DEF InOrder, Unlinking, OfACase, Enriching, Compiling
<1>7. CASE WriteSummary
  <2>1. CASE Release
    BY <1>0, <2>1 DEF Release
  <2>2. CASE pc' = "load" /\ k' = 1 /\ UNCHANGED ids
    BY <1>7, <2>2 DEF WriteSummary, InOrder, Unlinking, OfACase, Enriching, Compiling
  <2> QED  BY <1>7, <2>1, <2>2 DEF WriteSummary
<1>8. CASE LoadRecords
  <2>1. CASE Release
    BY <1>0, <2>1 DEF Release
  <2>2. CASE pc' = "compile" /\ UNCHANGED <<ids, k>>
    <3>1. k = 1 /\ ids \in Lists
      BY <1>8 DEF LoadRecords, InOrder
    <3>2. Len(ids) \in Nat \ {0} /\ DOMAIN ids = 1 .. Len(ids)
      BY <3>1, ListFits
    <3>3. 1 \in DOMAIN ids
      BY <3>2
    <3> QED  BY <2>2, <3>1, <3>3 DEF InOrder, Unlinking, OfACase, Enriching, Compiling
  <2> QED  BY <1>8, <2>1, <2>2 DEF LoadRecords
<1>9. CASE SkipOrKeep \/ WriteTransitions \/ CompileRaises
  <2>1. pc \in {"compile", "transitions"} /\ UNCHANGED ids /\ NextEpisode
    BY <1>9 DEF SkipOrKeep, WriteTransitions, CompileRaises
  <2> QED  BY <2>1, NextInOrder DEF NextEpisode, OfACase
<1>10. CASE WriteEvents
  <2>1. UNCHANGED <<ids, k>> /\ pc = "compile" /\ pc' = "transitions"
    BY <1>10 DEF WriteEvents
  <2> QED  BY <2>1 DEF InOrder, Unlinking, OfACase, Enriching, Compiling
<1>11. CASE WriteParquet \/ Tidy \/ WriteManifest
  <2>1. UNCHANGED <<ids, k>> /\ pc \in {"parquet", "tidy", "manifest"}
        /\ pc' \in {"tidy", "manifest", "validation"}
    BY <1>11 DEF WriteParquet, Tidy, WriteManifest
  <2> QED  BY <2>1 DEF InOrder, Unlinking, OfACase, Enriching, Compiling
<1>12. CASE WriteValidation \/ WritePilot
  <2>1. CASE Release
    BY <1>0, <2>1 DEF Release
  <2>2. CASE UNCHANGED <<ids, k>> /\ pc = "validation" /\ pc' = "pilot"
    BY <2>2 DEF InOrder, Unlinking, OfACase, Enriching, Compiling
  <2> QED  BY <1>12, <2>1, <2>2 DEF WriteValidation, WritePilot
<1> QED
  BY <1>1, <1>2, <1>3, <1>4, <1>5, <1>6, <1>7, <1>8, <1>9, <1>10, <1>11, <1>12 DEF CommandStep

\* What the teacher answers is one of three, and audited.
LEMMA AskedTypes ==
  ASSUME TreeTypes, NEW c \in Cases, NEW a \in Outcomes(c)
  PROVE  /\ a \in {"good", "bad", "transport"}
         /\ Asked(c, a) => audit' \in Seq(Cases \X Sources \X {"good", "bad", "transport"})
<1>1. Answer(c, source) \in {"good", "bad", "none"}
  BY DEF Answer
<1>2. a \in {"good", "bad", "transport"}
  BY <1>1 DEF Outcomes
<1>3. <<c, source, a>> \in Cases \X Sources \X {"good", "bad", "transport"}
  BY <1>2 DEF TreeTypes
<1>4. ASSUME Asked(c, a) PROVE audit' \in Seq(Cases \X Sources \X {"good", "bad", "transport"})
  <2> DEFINE T == Cases \X Sources \X {"good", "bad", "transport"}
             e == <<c, source, a>>
  <2>1. audit \in Seq(T) /\ e \in T
    BY <1>3 DEF TreeTypes
  <2>2. audit' = audit \/ audit' = Append(audit, e)
    BY <1>4 DEF Asked
  <2> HIDE DEF T, e
  <2>3. audit' \in Seq(T)
    BY <2>1, <2>2
  <2> QED  BY <2>3 DEF T
<1> QED  BY <1>2, <1>4

\* A record and a receipt of the teacher's are such.
LEMMA LeftTypes ==
  ASSUME TreeTypes, NEW c \in Cases
  PROVE  /\ \A s \in 0 .. MaxSource, r \in ReceiptValues :
              Left(c, s, r) => rec' \in [Cases -> 0 .. MaxSource] /\ receipt' \in [Cases -> ReceiptValues]
         /\ source \in 0 .. MaxSource /\ source # 0 /\ 0 \in 0 .. MaxSource
         /\ None \in ReceiptValues /\ receipt[c] \in ReceiptValues
         /\ \A a \in {"bad", "transport"} : Receipt(a, source) \in ReceiptValues
         /\ \A a \in {"good", "bad", "transport"} :
              LeftBy(c, a) => rec' \in [Cases -> 0 .. MaxSource] /\ receipt' \in [Cases -> ReceiptValues]
<1>1. \A s \in 0 .. MaxSource, r \in ReceiptValues :
        Left(c, s, r) => rec' \in [Cases -> 0 .. MaxSource] /\ receipt' \in [Cases -> ReceiptValues]
  BY DEF Left, TreeTypes
<1>2. source \in 1 .. MaxSource /\ MaxSource \in Nat
  BY BoundsAssumption DEF TreeTypes, Sources
<1>3. source \in 0 .. MaxSource /\ source # 0 /\ 0 \in 0 .. MaxSource
  BY <1>2
<1>4. /\ None \in ReceiptValues /\ receipt[c] \in ReceiptValues
      /\ \A a \in {"bad", "transport"} : Receipt(a, source) \in ReceiptValues
  BY <1>2 DEF ReceiptValues, TreeTypes, Sources
<1>5. ASSUME NEW a \in {"good", "bad", "transport"}, LeftBy(c, a)
      PROVE  rec' \in [Cases -> 0 .. MaxSource] /\ receipt' \in [Cases -> ReceiptValues]
  <2>1. CASE a = "good"
    BY <1>1, <1>3, <1>4, <1>5, <2>1 DEF LeftBy
  <2>2. CASE a # "good"
    BY <1>1, <1>3, <1>4, <1>5, <2>2 DEF LeftBy
  <2> QED  BY <2>1, <2>2
<1> QED  BY <1>1, <1>3, <1>4, <1>5

\* A provenance manifest over processed cases that have a record.
LEMMA ProvenanceTypes ==
  ASSUME NEW list \in Seq(Cases), NEW done \in SUBSET Cases, NEW records \in [Cases -> 0 .. MaxSource],
         NEW receipts, \A c \in done : records[c] # 0
  PROVE  CommitsTo(Provenance(list, done, records, receipts))
<1> DEFINE p == Provenance(list, done, records, receipts)
           Failed == {c \in {list[i] : i \in DOMAIN list} \ done : receipts[c] # None}
<1>1. p.ids = list /\ p.rec = [c \in done |-> records[c]] /\ p.failed = [c \in Failed |-> receipts[c]]
  BY DEF Provenance
<1>2. MaxSource \in Nat
  BY BoundsAssumption
<1>3. \A c \in done : records[c] \in 1 .. MaxSource
  BY <1>2
<1>4. Failed \subseteq Cases \ done
  OBVIOUS
<1> HIDE DEF p, Failed
<1>5. DOMAIN p.rec = done /\ \A c \in done : p.rec[c] \in Sources
  BY <1>1, <1>3 DEF Sources
<1>6. DOMAIN p.failed = Failed
  BY <1>1
<1>7. CommitsTo(p)
  BY <1>1, <1>4, <1>5, <1>6 DEF CommitsTo
<1> QED  BY <1>7 DEF p

\* An episode of a committed record.
LEMMA EpisodeTypes ==
  ASSUME TreeTypes, prov # None, NEW c \in DOMAIN prov.rec
  PROVE  Episode(c) \in Rows
BY DEF TreeTypes, CommitsTo, Episode, Rows

\* The case a command serves is one of the frozen list.
LEMMA Served ==
  ASSUME InOrder, pc \in OfACase
  PROVE  ids \in Lists /\ k \in DOMAIN ids /\ ids[k] \in Cases
<1>1. ids \in Lists /\ k \in DOMAIN ids
  BY DEF InOrder, Unlinking, OfACase, Enriching, Compiling
<1>2. ids \in Seq(Cases)
  BY <1>1, ListFits
<1> QED  BY <1>1, <1>2

\* What the enrichment does to a case leaves the tree well typed.
LEMMA CaseTypes ==
  ASSUME CommandInv, ReuseRecord \/ AskTeacher \/ CaseRaises
  PROVE  TreeTypes'
<1>0. TreeTypes /\ InOrder /\ pc \in OfACase
  BY DEF CommandInv, ReuseRecord, AskTeacher, CaseRaises, OfACase
<1>1. ids[k] \in Cases
  BY <1>0, Served
<1>2. UNCHANGED <<source, prov, sum, outputs, temp>>
  BY DEF ReuseRecord, AskTeacher, CaseRaises
<1> SUFFICES /\ rec' \in [Cases -> 0 .. MaxSource] /\ receipt' \in [Cases -> ReceiptValues]
             /\ audit' \in Seq(Cases \X Sources \X {"good", "bad", "transport"})
  BY <1>0, <1>2 DEF TreeTypes, CommitsTo, ListsRows, outputs
<1>3. /\ rec \in [Cases -> 0 .. MaxSource] /\ receipt \in [Cases -> ReceiptValues]
      /\ audit \in Seq(Cases \X Sources \X {"good", "bad", "transport"})
  BY <1>0 DEF TreeTypes
<1>4. CASE ReuseRecord
  <2>1. UNCHANGED <<audit, rec>> /\ receipt' = [receipt EXCEPT ![ids[k]] = None]
    BY <1>4 DEF ReuseRecord
  <2>2. None \in ReceiptValues
    BY DEF ReceiptValues
  <2> QED  BY <1>1, <1>3, <2>1, <2>2
<1>5. CASE AskTeacher
  <2>1. PICK a \in Outcomes(ids[k]) : Asked(ids[k], a) /\ LeftBy(ids[k], a)
    BY <1>5 DEF AskTeacher
  <2> QED  BY <1>0, <1>1, <2>1, AskedTypes, LeftTypes
<1>6. CASE CaseRaises
  <2> DEFINE c == ids[k]
  <2>1. \/ UNCHANGED <<audit, rec, receipt>>
        \/ Left(c, 0, receipt[c]) /\ UNCHANGED audit
        \/ \E a \in Outcomes(c) :
             /\ Asked(c, a)
             /\ \E s \in {0, source}, r \in {receipt[c], None, Receipt("bad", source)} : Left(c, s, r)
    BY <1>6 DEF CaseRaises
  <2>2. c \in Cases
    BY <1>1
  <2> HIDE DEF c
  <2>3. CASE UNCHANGED <<audit, rec, receipt>>
    BY <1>3, <2>3
  <2>4. CASE Left(c, 0, receipt[c]) /\ UNCHANGED audit
    BY <1>0, <1>3, <2>2, <2>4, LeftTypes
  <2>5. ASSUME NEW a \in Outcomes(c), Asked(c, a),
               NEW s \in {0, source}, NEW r \in {receipt[c], None, Receipt("bad", source)}, Left(c, s, r)
        PROVE  /\ rec' \in [Cases -> 0 .. MaxSource] /\ receipt' \in [Cases -> ReceiptValues]
               /\ audit' \in Seq(Cases \X Sources \X {"good", "bad", "transport"})
    <3>1. s \in 0 .. MaxSource /\ r \in ReceiptValues
      BY <1>0, <2>2, LeftTypes
    <3> QED  BY <1>0, <2>2, <2>5, <3>1, LeftTypes, AskedTypes
  <2> QED  BY <2>1, <2>3, <2>4, <2>5
<1> QED  BY <1>4, <1>5, <1>6

\* Every step of a command leaves the files it may write well typed.
LEMMA TreeTypesStep ==
  ASSUME CommandInv, CommandStep
  PROVE  TreeTypes'
<1>0. TreeTypes /\ RunTypes /\ InOrder /\ InHand
  BY DEF CommandInv
<1>1. CASE StartCommand \/ Stop \/ LoadRecords \/ SkipOrKeep \/ CompileRaises
  <2>1. UNCHANGED tree
    BY <1>1 DEF StartCommand, Stop, LoadRecords, SkipOrKeep, CompileRaises
  <2> QED  BY <1>0, <2>1 DEF TreeTypes, CommitsTo, ListsRows, tree, enrichment, outputs
<1>2. CASE UnlinkEpisodes
  <2>1. UNCHANGED <<source, audit, enrichment, parquet, man, val, pil, temp>> /\ episodes' \subseteq episodes
    BY <1>2 DEF UnlinkEpisodes
  <2> QED  BY <1>0, <2>1 DEF TreeTypes, CommitsTo, ListsRows, enrichment
<1>3. CASE UnlinkPapers
  <2>1. /\ UNCHANGED <<source, audit, enrichment, episodes, temp>>
        /\ parquet' = parquet \/ parquet' = <<>>
        /\ man' \in {man, None} /\ val' \in {val, None} /\ pil' \in {pil, None}
    BY <1>3 DEF UnlinkPapers
  <2>2. parquet' \in Seq(Rows)
    <3>1. parquet \in Seq(Rows)
      BY <1>0 DEF TreeTypes
    <3>2. <<>> \in Seq(Rows)
      OBVIOUS
    <3> QED  BY <2>1, <3>1, <3>2
  <2>3. /\ ListsRows(None) /\ ListsRows(man) /\ ListsRows(val) /\ ListsRows(pil)
    BY <1>0 DEF TreeTypes, ListsRows
  <2>4. ListsRows(man') /\ ListsRows(val') /\ ListsRows(pil')
    BY <2>1, <2>3
  <2> QED  BY <1>0, <2>1, <2>2, <2>4 DEF TreeTypes, CommitsTo, ListsRows, enrichment
<1>4. CASE ReuseRecord \/ AskTeacher \/ CaseRaises
  BY <1>4, CaseTypes
<1>5. CASE CleanUp
  <2>1. UNCHANGED <<source, audit, prov, sum, outputs, temp>>
    BY <1>5 DEF CleanUp
  <2>2. /\ rec' = rec \/ \E c \in Cases : rec' = [rec EXCEPT ![c] = 0]
        /\ receipt' = receipt \/ \E c \in Cases : receipt' = [receipt EXCEPT ![c] = None]
    BY <1>5 DEF CleanUp
  <2>3. 0 \in 0 .. MaxSource /\ None \in ReceiptValues
    BY BoundsAssumption DEF ReceiptValues
  <2>4. rec' \in [Cases -> 0 .. MaxSource] /\ receipt' \in [Cases -> ReceiptValues]
    BY <1>0, <2>2, <2>3 DEF TreeTypes
  <2> QED  BY <1>0, <2>1, <2>4 DEF TreeTypes, CommitsTo, ListsRows, outputs
<1>6. CASE WriteProvenance
  <2>1. UNCHANGED <<source, audit, rec, receipt, sum, outputs, temp>>
        /\ prov' = Provenance(ids, held, rec, receipt) /\ pc # "idle"
    BY <1>6 DEF WriteProvenance
  <2>2. /\ ids \in Seq(Cases) /\ held \in SUBSET Cases /\ rec \in [Cases -> 0 .. MaxSource]
        /\ \A c \in held : rec[c] # 0
    BY <1>0, <2>1, ListFits DEF InOrder, InHand, RunTypes, TreeTypes
  <2>3. CommitsTo(prov')
    BY <2>1, <2>2, ProvenanceTypes
  <2> QED  BY <1>0, <2>1, <2>3 DEF TreeTypes, CommitsTo, ListsRows, outputs
<1>7. CASE WriteSummary
  <2>1. UNCHANGED <<source, audit, rec, receipt, prov, outputs, temp>> /\ sum' = prov
    BY <1>7 DEF WriteSummary
  <2> QED  BY <1>0, <2>1 DEF TreeTypes, CommitsTo, ListsRows, outputs
<1>8. CASE WriteEvents \/ WriteTransitions
  <2>1. /\ UNCHANGED <<source, audit, enrichment, parquet, man, val, pil, temp>>
        /\ \E kind \in {"events", "transitions"} : episodes' = episodes \cup {<<Episode(ids[k]), kind>>}
    BY <1>8 DEF WriteEvents, WriteTransitions
  <2>2. prov # None /\ ids[k] \in DOMAIN prov.rec
    BY <1>0, <1>8 DEF WriteEvents, WriteTransitions, InHand, Compiling
  <2>3. Episode(ids[k]) \in Rows
    BY <1>0, <2>2, EpisodeTypes
  <2>4. episodes' \subseteq Rows \X {"events", "transitions"}
    BY <1>0, <2>1, <2>3 DEF TreeTypes
  <2> QED  BY <1>0, <2>1, <2>4 DEF TreeTypes, CommitsTo, ListsRows, enrichment
<1>9. CASE WriteParquet
  <2>1. UNCHANGED <<source, audit, enrichment, episodes, man, val, pil, temp>> /\ parquet' = built
    BY <1>9 DEF WriteParquet
  <2> QED  BY <1>0, <2>1 DEF TreeTypes, RunTypes, CommitsTo, ListsRows, enrichment
<1>10. CASE Tidy
  <2>1. /\ UNCHANGED <<source, audit, enrichment, parquet, man, val, pil>>
        /\ episodes' \subseteq episodes /\ temp' \in {temp, FALSE}
    BY <1>10 DEF Tidy
  <2> QED  BY <1>0, <2>1 DEF TreeTypes, CommitsTo, ListsRows, enrichment
<1>11. CASE WriteManifest
  <2>1. /\ UNCHANGED <<source, audit, enrichment, episodes, parquet, val, pil, temp>>
        /\ man' = Manifest(prov, built)
    BY <1>11 DEF WriteManifest
  <2>2. ListsRows(man')
    BY <1>0, <2>1 DEF ListsRows, Manifest, RunTypes
  <2> QED  BY <1>0, <2>1, <2>2 DEF TreeTypes, CommitsTo, ListsRows, enrichment
<1>12. CASE WriteValidation \/ WritePilot
  <2>1. /\ UNCHANGED <<source, audit, enrichment, episodes, parquet, man, temp>>
        /\ val' \in {val, man} /\ pil' \in {pil, val}
    BY <1>12 DEF WriteValidation, WritePilot
  <2> QED  BY <1>0, <2>1 DEF TreeTypes, CommitsTo, ListsRows, enrichment
<1> QED
  BY <1>1, <1>2, <1>3, <1>4, <1>5, <1>6, <1>7, <1>8, <1>9, <1>10, <1>11, <1>12 DEF CommandStep

\* A place in a list, or past its end, is within the bound of its type.
LEMMA PlaceTypes ==
  ASSUME NEW list \in Lists, NEW n, n = 1 \/ n \in DOMAIN list \/ n = Len(list) + 1
  PROVE  n \in 0 .. (Len(Order) + 1)
<1>1. Len(list) \in Nat /\ DOMAIN list = 1 .. Len(list) /\ Len(list) <= Len(Order) /\ Len(Order) \in Nat
  BY ListFits, OrderAssumption
<1> DEFINE l == Len(list)
           m == Len(Order)
<1>2. l \in Nat /\ m \in Nat /\ l <= m /\ (n = 1 \/ n \in 1 .. l \/ n = l + 1)
  BY <1>1
<1> HIDE DEF l, m
<1>3. n \in 0 .. (m + 1)
  BY <1>2
<1> QED  BY <1>3 DEF m

\* Every step of a command leaves what it holds in memory well typed.
LEMMA RunTypesStep ==
  ASSUME CommandInv, CommandStep, InOrder'
  PROVE  RunTypes'
<1>0. TreeTypes /\ RunTypes /\ InOrder /\ InHand
  BY DEF CommandInv
<1>1. k' \in 0 .. (Len(Order) + 1)
  <2>1. CASE pc' = "idle"
    <3>1. k' = 0 /\ Len(Order) \in Nat
      BY <2>1, OrderAssumption DEF InOrder
    <3> QED  BY <3>1
  <2>2. CASE pc' # "idle"
    <3>1. ids' \in Lists /\ (k' = 1 \/ k' \in DOMAIN ids' \/ k' = Len(ids') + 1)
      BY <2>2 DEF InOrder, Unlinking, OfACase, Enriching, Compiling
    <3> QED  BY <3>1, PlaceTypes
  <2> QED  BY <2>1, <2>2
<1>2. /\ commands' \in Nat /\ faults' \in 0 .. MaxFaults
      /\ cmd' \in {"none", "enrich", "compile", "pilot"}
  <2>1. MaxFaults \in Nat /\ commands \in Nat /\ faults \in 0 .. MaxFaults
        /\ cmd \in {"none", "enrich", "compile", "pilot"}
    BY <1>0, BoundsAssumption DEF RunTypes
  <2>2. commands' = commands \/ (commands > 0 /\ commands' = commands - 1)
    BY DEF CommandStep, StartCommand, Stop, UnlinkEpisodes, UnlinkPapers, ReuseRecord, AskTeacher,
       CaseRaises, CleanUp, WriteProvenance, WriteSummary, LoadRecords, SkipOrKeep, WriteEvents,
       WriteTransitions, CompileRaises, WriteParquet, Tidy, WriteManifest, WriteValidation, WritePilot
  <2>3. faults' = faults \/ (faults < MaxFaults /\ faults' = faults + 1)
    BY DEF CommandStep, StartCommand, Stop, UnlinkEpisodes, UnlinkPapers, ReuseRecord, AskTeacher,
       CaseRaises, CleanUp, WriteProvenance, WriteSummary, LoadRecords, SkipOrKeep, WriteEvents,
       WriteTransitions, CompileRaises, WriteParquet, Tidy, WriteManifest, WriteValidation, WritePilot,
       Fault
  <2>4. cmd' = cmd \/ cmd' \in {"none", "enrich", "compile", "pilot"}
    BY DEF CommandStep, StartCommand, Stop, UnlinkEpisodes, UnlinkPapers, ReuseRecord, AskTeacher,
       CaseRaises, CleanUp, WriteProvenance, WriteSummary, LoadRecords, SkipOrKeep, WriteEvents,
       WriteTransitions, CompileRaises, WriteParquet, Tidy, WriteManifest, WriteValidation, WritePilot,
       Release
  <2>5. commands' \in Nat
    BY <2>1, <2>2
  <2>6. faults' \in 0 .. MaxFaults
    BY <2>1, <2>3
  <2> QED  BY <2>1, <2>4, <2>5, <2>6
<1> DEFINE Sound == /\ ids' \in Lists \cup {<<>>} /\ lock' \in {"free", "command"}
                    /\ (lock' = "command") = (pc' # "idle")
                    /\ held' \subseteq Cases /\ ready' \subseteq Cases /\ built' \in Seq(Rows)
<1>3. Sound
  <2>0. /\ ids \in Lists \cup {<<>>} /\ lock \in {"free", "command"}
        /\ (lock = "command") = (pc # "idle")
        /\ held \subseteq Cases /\ ready \subseteq Cases /\ built \in Seq(Rows)
    BY <1>0 DEF RunTypes
  <2>1. ASSUME Release PROVE Sound
    BY <2>1 DEF Release
  <2>2. CASE StartCommand
    <3>1. pc' # "idle" /\ lock' = "command"
      BY <2>2 DEF StartCommand
    <3>2. ids' \in Lists /\ held' = {} /\ ready' = {} /\ built' = <<>>
      BY <2>2 DEF StartCommand
    <3> QED  BY <3>1, <3>2
  <2>3. CASE Stop
    BY <2>1, <2>3 DEF Stop
  <2>4. CASE \/ UnlinkEpisodes \/ UnlinkPapers \/ CaseRaises \/ CleanUp \/ WriteProvenance
             \/ WriteEvents \/ CompileRaises \/ WriteParquet \/ Tidy \/ WriteManifest
    <3>1. UNCHANGED <<ids, held, ready, built, lock>> /\ pc # "idle" /\ pc' # "idle"
      BY <2>4 DEF UnlinkEpisodes, UnlinkPapers, CaseRaises, NextCase, CleanUp, WriteProvenance,
         WriteEvents, CompileRaises, NextEpisode, WriteParquet, Tidy, WriteManifest
    <3> QED  BY <2>0, <3>1
  <2>5. CASE ReuseRecord \/ AskTeacher
    <3>1. /\ UNCHANGED <<ids, ready, built, lock>> /\ pc = "case" /\ pc' # "idle"
          /\ held' \subseteq held \cup {ids[k]}
      BY <2>5 DEF ReuseRecord, AskTeacher, NextCase
    <3>2. ids[k] \in Cases
      BY <1>0, <3>1, Served DEF OfACase
    <3> QED  BY <2>0, <3>1, <3>2
  <2>6. CASE WriteSummary
    <3>1. \/ Release
          \/ /\ UNCHANGED <<ids, ready, built, lock>> /\ pc = "summary" /\ pc' = "load" /\ held' = {}
      BY <2>6 DEF WriteSummary
    <3> QED  BY <2>0, <2>1, <3>1
  <2>7. CASE LoadRecords
    <3>1. CASE Committed
      <4>1. /\ UNCHANGED <<ids, held, built, lock>> /\ pc = "load" /\ pc' = "compile"
            /\ ready' \subseteq DOMAIN prov.rec /\ prov # None
        BY <2>7, <3>1 DEF LoadRecords, Committed
      <4>2. DOMAIN prov.rec \subseteq Cases
        BY <1>0, <4>1 DEF TreeTypes, CommitsTo
      <4> QED  BY <2>0, <4>1, <4>2
    <3>2. CASE ~Committed
      BY <2>1, <2>7, <3>2 DEF LoadRecords
    <3> QED  BY <3>1, <3>2
  <2>8. CASE SkipOrKeep \/ WriteTransitions
    <3>1. /\ UNCHANGED <<ids, held, ready, lock>> /\ pc \in {"compile", "transitions"} /\ pc' # "idle"
          /\ built' = built \/ (ids[k] \in ready /\ built' = Append(built, Episode(ids[k])))
      BY <1>0, <2>8 DEF SkipOrKeep, WriteTransitions, NextEpisode, InHand
    <3>2. prov # None /\ ready \subseteq DOMAIN prov.rec
      BY <1>0, <3>1 DEF InHand, Compiling
    <3>3. ids[k] \in ready => Episode(ids[k]) \in Rows
      BY <1>0, <3>2, EpisodeTypes
    <3>4. built' \in Seq(Rows)
      BY <2>0, <3>1, <3>3
    <3> QED  BY <2>0, <3>1, <3>4
  <2>9. CASE WriteValidation \/ WritePilot
    <3>1. \/ Release
          \/ UNCHANGED <<ids, held, ready, built, lock>> /\ pc = "validation" /\ pc' = "pilot"
      BY <2>9 DEF WriteValidation, WritePilot
    <3> QED  BY <2>0, <2>1, <3>1
  <2> QED  BY <2>2, <2>3, <2>4, <2>5, <2>6, <2>7, <2>8, <2>9 DEF CommandStep
<1> QED  BY <1>1, <1>2, <1>3 DEF RunTypes

\* A case that is served was not served before.
LEMMA ServedOnce ==
  ASSUME NEW list \in Lists, NEW n \in DOMAIN list
  PROVE  /\ list[n] \notin {list[j] : j \in 1 .. (n - 1)}
         /\ {list[j] : j \in 1 .. (n - 1)} \cup {list[n]} = {list[j] : j \in 1 .. n}
<1>1. /\ CaseList(list) /\ Len(list) \in Nat /\ DOMAIN list = 1 .. Len(list)
  BY ListFits
<1> DEFINE l == Len(list)
<1>2. l \in Nat /\ n \in 1 .. l /\ DOMAIN list = 1 .. l
  BY <1>1
<1> HIDE DEF l
<1>3. \A j \in 1 .. (n - 1) : j \in DOMAIN list /\ j # n
  BY <1>2
<1>4. \A j \in 1 .. n : j \in 1 .. (n - 1) \/ j = n
  BY <1>2
<1>5. 1 .. (n - 1) \subseteq 1 .. n /\ n \in 1 .. n
  BY <1>2
<1>6. list[n] \notin {list[j] : j \in 1 .. (n - 1)}
  BY <1>1, <1>3 DEF CaseList
<1> QED  BY <1>4, <1>5, <1>6

\* The case served is added to what was processed only with a record, and no
\* record processed before it is touched.
LEMMA CaseInHand ==
  ASSUME CommandInv, ReuseRecord \/ AskTeacher \/ CaseRaises
  PROVE  InHand'
<1> DEFINE c == ids[k]
           Before == {ids[j] : j \in 1 .. (k - 1)}
           UpTo   == {ids[j] : j \in 1 .. k}
<1>1. /\ TreeTypes /\ InOrder /\ InHand /\ pc = "case" /\ pc' \in {"case", "clean up"} /\ k' = k + 1
      /\ UNCHANGED ids
  BY DEF CommandInv, ReuseRecord, AskTeacher, CaseRaises, NextCase
<1>2. ids \in Lists /\ k \in DOMAIN ids /\ c \in Cases
  BY <1>1, Served DEF OfACase
<1>3. c \notin Before /\ Before \cup {c} = UpTo
  BY <1>2, ServedOnce
<1>4. held \subseteq Before /\ \A d \in held : rec[d] # 0
  BY <1>1 DEF InHand
<1>5. UpTo = ({ids[j] : j \in 1 .. (k - 1)})'
  <2>1. k \in Nat
    BY <1>2, ListFits
  <2>2. (k + 1) - 1 = k
    BY <2>1
  <2> QED  BY <1>1, <2>2
<1> HIDE DEF c, Before, UpTo
<1>6. source # 0 /\ rec \in [Cases -> 0 .. MaxSource]
  BY <1>1, <1>2, LeftTypes DEF TreeTypes
<1>7. /\ held' \subseteq held \cup {c}
      /\ \A d \in Cases \ {c} : rec'[d] = rec[d]
      /\ c \in held' => rec'[c] # 0 \/ c \in held
  <2>1. CASE ReuseRecord
    <3>1. UNCHANGED rec /\ rec[c] = source /\ held' = held \cup {c}
      BY <2>1 DEF ReuseRecord, c
    <3> QED  BY <1>6, <3>1
  <2>2. CASE AskTeacher
    <3>1. PICK a \in Outcomes(c) : LeftBy(c, a) /\ held' = IF a = "good" THEN held \cup {c} ELSE held
      BY <2>2 DEF AskTeacher, c
    <3>2. a = "good" => rec' = [rec EXCEPT ![c] = source]
      BY <3>1 DEF LeftBy, Left
    <3>3. a # "good" => rec' = [rec EXCEPT ![c] = 0] /\ held' = held
      BY <3>1 DEF LeftBy, Left
    <3> QED  BY <1>2, <1>6, <3>1, <3>2, <3>3 DEF c
  <2>3. CASE CaseRaises
    <3>1. held' = held /\ (rec' = rec \/ \E s : rec' = [rec EXCEPT ![c] = s])
      BY <2>3 DEF CaseRaises, Left, c
    <3> QED  BY <1>6, <3>1
  <2> QED  BY <2>1, <2>2, <2>3
<1>8. held' \subseteq UpTo
  BY <1>3, <1>4, <1>7
<1>9. held \subseteq Cases
  BY DEF CommandInv, RunTypes
<1>10. \A d \in held' : rec'[d] # 0
  BY <1>3, <1>4, <1>7, <1>9
<1> QED  BY <1>1, <1>5, <1>8, <1>10 DEF InHand, Enriching, Compiling

\* Every step of a command keeps what it has in hand on the tree.
LEMMA InHandStep ==
  ASSUME CommandInv, CommandStep
  PROVE  InHand'
<1>0. TreeTypes /\ RunTypes /\ InOrder /\ InHand
  BY DEF CommandInv
<1>r. ASSUME Release PROVE InHand'
  BY <1>r DEF Release, InHand, Enriching, Compiling
<1>1. CASE StartCommand
  BY <1>1 DEF StartCommand, InHand, Enriching, Compiling
<1>2. CASE Stop
  BY <1>r, <1>2 DEF Stop
<1>3. CASE UnlinkEpisodes \/ UnlinkPapers
  <2>1. /\ UNCHANGED <<rec, held>> /\ pc \notin Enriching
        /\ pc' \in {"unlink episodes", "unlink papers", "case"}
    BY <1>3 DEF UnlinkEpisodes, UnlinkPapers, enrichment, Enriching
  <2> QED  BY <1>0, <2>1 DEF InHand, Enriching, Compiling
<1>4. CASE ReuseRecord \/ AskTeacher \/ CaseRaises
  BY <1>4, CaseInHand
<1>5. CASE CleanUp
  <2>1. /\ UNCHANGED held /\ pc = "clean up" /\ pc' \in {"clean up", "provenance"}
        /\ rec' = rec \/ \E c \in Cases \ held : rec' = [rec EXCEPT ![c] = 0]
    BY <1>5 DEF CleanUp
  <2>2. \A c \in held : rec'[c] = rec[c]
    BY <1>0, <2>1 DEF RunTypes, TreeTypes
  <2> QED  BY <1>0, <2>1, <2>2 DEF InHand, Enriching, Compiling
<1>6. CASE WriteProvenance
  <2>1. UNCHANGED <<rec, held>> /\ pc = "provenance" /\ pc' = "summary"
    BY <1>6 DEF WriteProvenance
  <2> QED  BY <1>0, <2>1 DEF InHand, Enriching, Compiling
<1>7. CASE WriteSummary
  <2>1. ASSUME held' = {}, pc' = "load" PROVE InHand'
    BY <2>1 DEF InHand, Enriching, Compiling
  <2> QED  BY <1>7, <1>r, <2>1 DEF WriteSummary
<1>8. CASE LoadRecords
  <2>1. CASE Committed
    <3>1. /\ UNCHANGED <<held, prov>> /\ pc = "load" /\ pc' = "compile"
          /\ ready' \subseteq DOMAIN prov.rec /\ prov # None
      BY <1>8, <2>1 DEF LoadRecords, Committed, tree, enrichment
    <3> QED  BY <1>0, <3>1 DEF InHand, Enriching, Compiling
  <2>2. CASE ~Committed
    BY <1>8, <1>r, <2>2 DEF LoadRecords
  <2> QED  BY <2>1, <2>2
<1>9. CASE \/ SkipOrKeep \/ WriteTransitions \/ CompileRaises \/ WriteParquet \/ Tidy \/ WriteManifest
           \/ WriteEvents
  <2>1. /\ UNCHANGED <<held, prov, ready, ids>> /\ pc \in Compiling /\ pc' \in Compiling
        /\ pc' = "transitions" => UNCHANGED k /\ ids[k] \in ready
    BY <1>9 DEF SkipOrKeep, WriteTransitions, CompileRaises, WriteParquet, Tidy, WriteManifest,
       WriteEvents, NextEpisode, tree, enrichment, Compiling
  <2>2. held = {} /\ prov # None /\ ready \subseteq DOMAIN prov.rec
    BY <1>0, <2>1 DEF InHand, Enriching, Compiling
  <2> QED  BY <2>1, <2>2 DEF InHand, Enriching, Compiling
<1>10. CASE WriteValidation \/ WritePilot
  <2>1. ASSUME UNCHANGED <<held, prov, ready>>, pc = "validation", pc' = "pilot" PROVE InHand'
    BY <1>0, <2>1 DEF InHand, Enriching, Compiling
  <2> QED  BY <1>10, <1>r, <2>1 DEF WriteValidation, WritePilot, enrichment
<1> QED
  BY <1>1, <1>2, <1>3, <1>4, <1>5, <1>6, <1>7, <1>8, <1>9, <1>10 DEF CommandStep

\* The parts together: a command may rely on them after each of its steps.
LEMMA CommandTypes ==
  ASSUME CommandInv, CommandStep
  PROVE  CommandInv'
<1>1. InOrder'
  BY InOrderStep DEF CommandInv
<1> QED  BY <1>1, TreeTypesStep, RunTypesStep, InHandStep DEF CommandInv

-----------------------------------------------------------------------------
(* Types of the auditor and of the live run.                                *)

\* What the run of one case leaves is well typed, whether it returns or raises.
LEMMA BatchTypes ==
  ASSUME CommandInv, RunBatch \/ BatchRaises
  PROVE  CommandInv'
<1>0. TreeTypes /\ RunTypes /\ InOrder /\ InHand
  BY DEF CommandInv
<1>1. lock = "free" /\ UNCHANGED <<source, outputs, temp, command, commands>>
  BY DEF RunBatch, BatchRaises
<1>2. pc = "idle"
  BY <1>0, <1>1 DEF RunTypes
<1>3. InOrder'
  BY <1>0, <1>1 DEF InOrder, command
<1>4. InHand'
  BY <1>0, <1>1, <1>2 DEF InHand, command, Enriching, Compiling
<1>5. faults' \in 0 .. MaxFaults
  <2>1. faults' = faults \/ (faults < MaxFaults /\ faults' = faults + 1)
    BY DEF RunBatch, BatchRaises, Fault
  <2>2. MaxFaults \in Nat /\ faults \in 0 .. MaxFaults
    BY <1>0, BoundsAssumption DEF RunTypes
  <2> QED  BY <2>1, <2>2
<1>6. RunTypes'
  BY <1>0, <1>1, <1>5 DEF RunTypes, command
<1>7. CASE RunBatch
  <2>0. PICK c \in Cases : \E a \in Outcomes(c) :
          /\ Asked(c, a) /\ LeftBy(c, a)
          /\ prov' = Provenance(<<c>>, IF a = "good" THEN {c} ELSE {}, rec', receipt') /\ sum' = prov'
    BY <1>7 DEF RunBatch
  <2>1. PICK a \in Outcomes(c) :
          /\ Asked(c, a) /\ LeftBy(c, a)
          /\ prov' = Provenance(<<c>>, IF a = "good" THEN {c} ELSE {}, rec', receipt') /\ sum' = prov'
    BY <2>0
  <2>2. /\ a \in {"good", "bad", "transport"}
        /\ audit' \in Seq(Cases \X Sources \X {"good", "bad", "transport"})
        /\ rec' \in [Cases -> 0 .. MaxSource] /\ receipt' \in [Cases -> ReceiptValues]
    BY <1>0, <2>1, AskedTypes, LeftTypes
  <2> DEFINE done == IF a = "good" THEN {c} ELSE {}
  <2>3. \A d \in done : rec'[d] # 0
    <3>1. CASE a = "good"
      <4>1. rec' = [rec EXCEPT ![c] = source] /\ source # 0 /\ rec \in [Cases -> 0 .. MaxSource]
        BY <1>0, <2>1, <3>1, LeftTypes DEF LeftBy, Left, TreeTypes
      <4> QED  BY <4>1
    <3> QED  BY <3>1
  <2>4. <<c>> \in Seq(Cases) /\ done \in SUBSET Cases
    OBVIOUS
  <2>5. prov' = Provenance(<<c>>, done, rec', receipt') /\ sum' = prov'
    BY <2>1
  <2> HIDE DEF done
  <2>6. CommitsTo(prov')
    BY <2>2, <2>3, <2>4, <2>5, ProvenanceTypes
  <2>7. TreeTypes'
    BY <1>0, <1>1, <2>2, <2>5, <2>6 DEF TreeTypes, CommitsTo, ListsRows, outputs
  <2> QED  BY <1>3, <1>4, <1>6, <2>7 DEF CommandInv
<1>8. CASE BatchRaises
  <2>1. /\ prov' \in {None, prov} /\ sum' \in {None, sum}
        /\ \/ UNCHANGED <<audit, rec, receipt>>
           \/ \E c \in Cases :
                /\ audit' = Append(audit, <<c, source, "transport">>)
                /\ rec' = [rec EXCEPT ![c] = 0]
                /\ receipt' = receipt \/ receipt' = [receipt EXCEPT ![c] = Receipt("transport", source)]
    BY <1>8 DEF BatchRaises
  <2>2. /\ rec \in [Cases -> 0 .. MaxSource] /\ receipt \in [Cases -> ReceiptValues]
        /\ source \in Sources
        /\ audit \in Seq(Cases \X Sources \X {"good", "bad", "transport"})
    BY <1>0 DEF TreeTypes
  <2>3. CommitsTo(prov') /\ CommitsTo(sum')
    <3>1. CommitsTo(None) /\ CommitsTo(prov) /\ CommitsTo(sum)
      BY <1>0 DEF TreeTypes, CommitsTo
    <3> QED  BY <2>1, <3>1
  <2>4. /\ rec' \in [Cases -> 0 .. MaxSource] /\ receipt' \in [Cases -> ReceiptValues]
        /\ audit' \in Seq(Cases \X Sources \X {"good", "bad", "transport"})
    <3>1. ASSUME NEW c \in Cases, audit' = Append(audit, <<c, source, "transport">>),
                 rec' = [rec EXCEPT ![c] = 0],
                 receipt' = receipt \/ receipt' = [receipt EXCEPT ![c] = Receipt("transport", source)]
          PROVE  /\ rec' \in [Cases -> 0 .. MaxSource] /\ receipt' \in [Cases -> ReceiptValues]
                 /\ audit' \in Seq(Cases \X Sources \X {"good", "bad", "transport"})
      <4>1. 0 \in 0 .. MaxSource /\ Receipt("transport", source) \in ReceiptValues
        BY <1>0, LeftTypes
      <4>2. <<c, source, "transport">> \in Cases \X Sources \X {"good", "bad", "transport"}
        BY <2>2
      <4>3. rec' \in [Cases -> 0 .. MaxSource] /\ receipt' \in [Cases -> ReceiptValues]
        BY <2>2, <3>1, <4>1
      <4>4. audit' \in Seq(Cases \X Sources \X {"good", "bad", "transport"})
        BY <2>2, <3>1, <4>2
      <4> QED  BY <4>3, <4>4
    <3>2. CASE UNCHANGED <<audit, rec, receipt>>
      BY <2>2, <3>2
    <3> QED  BY <2>1, <3>1, <3>2
  <2>5. TreeTypes'
    BY <1>0, <1>1, <2>3, <2>4 DEF TreeTypes, CommitsTo, ListsRows, outputs
  <2> QED  BY <1>3, <1>4, <1>6, <2>5 DEF CommandInv
<1> QED  BY <1>7, <1>8

\* Nobody else's step changes what a command relies on, but for a temporary
\* and the version of the repository.
LEMMA CommandTypesOthers ==
  ASSUME CommandInv, source' \in Sources, temp' \in BOOLEAN,
         UNCHANGED <<audit, enrichment, outputs, command, commands, faults>>
  PROVE  CommandInv'
BY DEF CommandInv, TreeTypes, RunTypes, InOrder, InHand, CommitsTo, ListsRows,
   enrichment, outputs, command

\* A command may rely on them whatever step is taken beside it.
LEMMA CommandInvStep ==
  ASSUME CommandInv, [Next]_vars
  PROVE  CommandInv'
<1>0. source \in Sources /\ temp \in BOOLEAN
  BY DEF CommandInv, TreeTypes
<1>1. CASE Edited
  <2>1. source' = source + 1 /\ source < MaxSource /\ MaxSource \in Nat /\ source \in 1 .. MaxSource
    BY <1>0, <1>1, BoundsAssumption DEF Edited, EditSource, Sources
  <2>2. source' \in Sources
    BY <2>1 DEF Sources
  <2> QED  BY <1>0, <1>1, <2>2, CommandTypesOthers DEF Edited, EditSource
<1>2. CASE Commanded
  BY <1>2, CommandTypes DEF Commanded
<1>3. CASE Audited
  <2>1. /\ UNCHANGED <<source, audit, enrichment, outputs, command, commands, faults>>
        /\ temp' \in {temp, TRUE, FALSE}
    BY <1>3 DEF Audited, AuditStep, ReadProvenance, ReadListed, ReadManifest, ScanTeacherAudit,
         ReadBaseline, ReadParquet, CheckRecord, CheckEpisode, WriteTemporary, ReplaceMarkdown,
         ReplaceJson, pilotVars, tree
  <2> QED  BY <1>0, <2>1, CommandTypesOthers
<1>4. CASE Attested
  <2>1. RunBatch \/ BatchRaises \/ UNCHANGED pilotVars
    BY <1>4 DEF Attested, LiveStep, Preflight, EnterRun, EnterBatch, ReadPost, ReplayReport,
         NoteDirectories, ReadSource, ReadFiles, RecheckDirectories, Attest, VerifyInProcess,
         CompareWithTree, VerifyHeld, Sign
  <2>2. CASE UNCHANGED pilotVars
    BY <1>0, <2>2, CommandTypesOthers DEF pilotVars, tree
  <2> QED  BY <2>1, <2>2, BatchTypes
<1>5. CASE UNCHANGED vars
  BY <1>0, <1>5, CommandTypesOthers DEF vars, pilotVars, tree
<1> QED  BY <1>1, <1>2, <1>3, <1>4, <1>5 DEF Next

\* The auditor's values, with the manifest it knows.
AuditorTypes == AuditTypeOK /\ (apc # "idle" => aprov.ids = Order)

\* The auditor's steps keep its values typed, and the packet about the frozen list.
LEMMA AuditorStep ==
  ASSUME AuditorTypes, AuditStep
  PROVE  AuditorTypes'
<1> DEFINE m == Len(Order)
           OfOrder(p) == p # None => p.pass \in BOOLEAN /\ p.prov.ids = Order
<1>0. /\ OfOrder(json) /\ OfOrder(md) /\ agates \in BOOLEAN /\ acase \in 0 .. m
      /\ (apc = "idle") = (aprov = None) /\ (apc # "idle" => aprov.ids = Order)
  BY DEF AuditorTypes, AuditTypeOK
<1>1. m \in Nat \ {0}
  BY OrderAssumption DEF CaseList
<1>2. ASSUME apc # "idle" PROVE OfOrder(Packet)
  <2>1. Packet.pass = (agates /\ BatchGates) /\ Packet.prov = aprov
    BY DEF Packet
  <2>2. (agates /\ BatchGates) \in BOOLEAN
    BY DEF BatchGates
  <2> QED  BY <1>0, <1>2, <2>1, <2>2
<1>3. \A n \in 0 .. m : n # m => n + 1 \in 0 .. m
  <2> HIDE DEF m
  <2> QED  BY <1>1
<1>4. 0 \in 0 .. m /\ 1 \in 0 .. m
  <2> HIDE DEF m
  <2> QED  BY <1>1
<1>5. agates' \in BOOLEAN
  BY <1>0 DEF AuditStep, ReadProvenance, ReadListed, ReadManifest, ScanTeacherAudit,
     ReadBaseline, ReadParquet, CheckRecord, CheckEpisode, WriteTemporary, ReplaceMarkdown,
     ReplaceJson, AuditEnds, audit_run
<1>6. acase' \in 0 .. m
  <2>1. \/ acase' \in {acase, 0, 1}
        \/ acase # m /\ acase' = acase + 1
    BY DEF AuditStep, ReadProvenance, ReadListed, ReadManifest, ScanTeacherAudit,
       ReadBaseline, ReadParquet, CheckRecord, CheckEpisode, NextAuditCase, WriteTemporary,
       ReplaceMarkdown, ReplaceJson, AuditEnds, audit_run
  <2> HIDE DEF m
  <2> QED  BY <1>0, <1>3, <1>4, <2>1
<1>7. (apc' = "idle") = (aprov' = None) /\ (apc' # "idle" => aprov'.ids = Order)
  <2>1. \/ apc' = "idle" /\ aprov' = None
        \/ apc' # "idle" /\ prov # None /\ prov.ids = Order /\ aprov' = prov
        \/ UNCHANGED audit_run
        \/ apc # "idle" /\ apc' # "idle" /\ aprov' = aprov
    BY DEF AuditStep, ReadProvenance, ReadListed, ReadManifest, ScanTeacherAudit,
       ReadBaseline, ReadParquet, CheckRecord, CheckEpisode, NextAuditCase, WriteTemporary,
       ReplaceMarkdown, ReplaceJson, AuditEnds, audit_run
  <2> QED  BY <1>0, <2>1 DEF audit_run
<1>8. OfOrder(json') /\ OfOrder(md')
  <2>1. /\ json' = json \/ (apc # "idle" /\ json' = Packet)
        /\ md' = md \/ (apc # "idle" /\ md' = Packet)
    BY DEF AuditStep, ReadProvenance, ReadListed, ReadManifest, ScanTeacherAudit,
       ReadBaseline, ReadParquet, CheckRecord, CheckEpisode, WriteTemporary,
       ReplaceMarkdown, ReplaceJson, packets
  <2> HIDE DEF OfOrder
  <2> QED  BY <1>0, <1>2, <2>1
<1> QED  BY <1>5, <1>6, <1>7, <1>8 DEF AuditorTypes, AuditTypeOK

\* The live run's values, with the report of its batch.
RunnerTypes == LiveTypeOK /\ (lpc \notin {"idle", "run", "execute", "batch"} => lrep # None)

\* The steps of a live run keep its values typed, and its papers those of one case.
LEMMA RunnerStep ==
  ASSUME RunnerTypes, LiveStep, TreeTypes'
  PROVE  RunnerTypes'
<1> DEFINE OfARun(r) == r # None =>
              r.attempts \subseteq Nat /\ r.status \in {"PASS", "STOP"} /\ Len(r.prov.ids) = 1
           Ended(a) == a # None => a.status \in {"PASS", "STOP"}
           Before == {"idle", "run", "execute", "batch"}
<1>0. /\ OfARun(report) /\ OfARun(lrep) /\ Ended(att) /\ Ended(signed) /\ touched \subseteq Parts
      /\ (lpc = "idle") = (lpre = None) /\ (lpc \notin Before => lrep # None)
  BY DEF RunnerTypes, LiveTypeOK
<1>1. OfARun(None) /\ Ended(None) /\ None.kind = "none"
  BY DEF None
<1>2. CASE RunBatch
  <2>1. /\ UNCHANGED <<att, signed, lpre, touched>> /\ lpc = "batch" /\ lpc' = "post audit"
        /\ lrep' = report'
    BY <1>2 DEF RunBatch
  <2>2. PICK c \in Cases : \E a \in Outcomes(c) :
          /\ prov' = Provenance(<<c>>, IF a = "good" THEN {c} ELSE {}, rec', receipt')
          /\ report' = [kind |-> "report", prov |-> prov', attempts |-> AttemptsOf(c, source, audit'),
                        status |-> IF a = "good" THEN "PASS" ELSE "STOP"]
    BY <1>2 DEF RunBatch
  <2>3. PICK a \in Outcomes(c) :
          /\ prov' = Provenance(<<c>>, IF a = "good" THEN {c} ELSE {}, rec', receipt')
          /\ report' = [kind |-> "report", prov |-> prov', attempts |-> AttemptsOf(c, source, audit'),
                        status |-> IF a = "good" THEN "PASS" ELSE "STOP"]
    BY <2>2
  <2>4. /\ report'.kind = "report" /\ report'.prov = prov'
        /\ report'.attempts = AttemptsOf(c, source, audit') /\ report'.status \in {"PASS", "STOP"}
    BY <2>3
  <2>5. prov'.ids = <<c>>
    BY <2>3 DEF Provenance
  <2>6. Len(report'.prov.ids) = 1
    BY <2>4, <2>5
  <2>7. report'.attempts \subseteq Nat
    <3>0. audit' \in Seq(Cases \X Sources \X {"good", "bad", "transport"})
      BY DEF TreeTypes
    <3>1. AttemptsOf(c, source, audit') \subseteq DOMAIN audit' /\ DOMAIN audit' \subseteq Nat
      BY <3>0 DEF AttemptsOf
    <3> QED  BY <2>4, <3>1
  <2>8. report' # None
    BY <1>1, <2>4
  <2>9. OfARun(report')
    BY <2>4, <2>6, <2>7
  <2> HIDE DEF OfARun, Ended
  <2> QED  BY <1>0, <2>1, <2>8, <2>9 DEF RunnerTypes, LiveTypeOK, OfARun, Ended
<1>3. CASE BatchRaises
  <2>1. /\ UNCHANGED <<att, signed, touched>> /\ lpc' = "idle" /\ lpre' = None /\ lrep' = None
        /\ report' = report \/ report' = None
    BY <1>3 DEF BatchRaises, LiveEnds
  <2> HIDE DEF OfARun, Ended
  <2>2. OfARun(report') /\ OfARun(lrep') /\ Ended(att') /\ Ended(signed')
    BY <1>0, <1>1, <2>1
  <2> QED  BY <1>0, <2>1, <2>2 DEF RunnerTypes, LiveTypeOK, OfARun, Ended
<1>4. CASE Preflight
  <2>1. /\ UNCHANGED <<report, lrep, att, signed, touched>> /\ lpc' = "run" /\ lpre' = Inventory
    BY <1>4 DEF Preflight
  <2>2. Inventory.kind = "inventory"
    BY DEF Inventory
  <2>3. Inventory # None
    BY <1>1, <2>2
  <2> HIDE DEF OfARun, Ended
  <2>4. OfARun(report') /\ OfARun(lrep') /\ Ended(att') /\ Ended(signed')
    BY <1>0, <2>1
  <2> QED  BY <1>0, <2>1, <2>3, <2>4 DEF RunnerTypes, LiveTypeOK, OfARun, Ended
<1>5. CASE \/ EnterRun \/ EnterBatch \/ ReplayReport \/ RecheckDirectories \/ VerifyInProcess
           \/ CompareWithTree \/ VerifyHeld \/ Sign \/ ReadPost \/ Attest
           \/ NoteDirectories \/ ReadSource \/ ReadFiles
  <2>1. /\ report' = report /\ touched' \subseteq touched
        /\ signed' = signed \/ signed' = att
    BY <1>5 DEF EnterRun, EnterBatch, ReplayReport, RecheckDirectories, VerifyInProcess,
       CompareWithTree, VerifyHeld, Sign, ReadPost, Attest, NoteDirectories, ReadSource, ReadFiles
  <2>2. \/ LiveEnds
        \/ /\ lpc # "idle" /\ lpc' # "idle" /\ UNCHANGED <<lpre, lrep>>
           /\ lpc \notin Before \/ lpc' \in Before
    BY <1>5 DEF EnterRun, EnterBatch, ReplayReport, RecheckDirectories, VerifyInProcess,
       CompareWithTree, VerifyHeld, Sign, ReadPost, Attest, NoteDirectories, ReadSource, ReadFiles,
       GoOnIf
  <2>3. att' = att \/ (lpc = "attest" /\ att' = Attestation)
    BY <1>5 DEF EnterRun, EnterBatch, ReplayReport, RecheckDirectories, VerifyInProcess,
       CompareWithTree, VerifyHeld, Sign, ReadPost, Attest, NoteDirectories, ReadSource, ReadFiles
  <2>4. lpc = "attest" => Ended(Attestation)
    BY <1>0 DEF Attestation
  <2> HIDE DEF OfARun, Ended
  <2>5. OfARun(report') /\ OfARun(lrep') /\ Ended(att') /\ Ended(signed')
    BY <1>0, <1>1, <2>1, <2>2, <2>3, <2>4 DEF LiveEnds
  <2>6. (lpc' = "idle") = (lpre' = None) /\ (lpc' \notin Before => lrep' # None)
    BY <1>0, <2>2 DEF LiveEnds
  <2> QED  BY <1>0, <2>1, <2>5, <2>6 DEF RunnerTypes, LiveTypeOK, OfARun, Ended
<1> QED  BY <1>2, <1>3, <1>4, <1>5 DEF LiveStep

-----------------------------------------------------------------------------
(* The types of the whole tree.                                             *)

TypeInv == CommandInv /\ AuditorTypes /\ RunnerTypes

\* An empty tree is well typed.
LEMMA TypeInit == Init => TypeInv
<1> SUFFICES ASSUME Init PROVE TypeInv
  OBVIOUS
<1>1. /\ MaxSource \in Nat \ {0} /\ MaxFaults \in Nat /\ Len(Order) \in Nat
  BY BoundsAssumption, OrderAssumption
<1>2. 1 \in Sources /\ 0 \in 0 .. MaxSource /\ 0 \in 0 .. MaxFaults /\ 0 \in 0 .. (Len(Order) + 1)
      /\ 0 \in 0 .. Len(Order)
  BY <1>1 DEF Sources
<1>3. TreeTypes
  <2>1. rec \in [Cases -> 0 .. MaxSource] /\ receipt \in [Cases -> ReceiptValues] /\ source \in Sources
    BY <1>2 DEF Init, PilotInit, ReceiptValues
  <2>2. audit = <<>> /\ parquet = <<>> /\ episodes = {} /\ temp = FALSE
        /\ prov = None /\ sum = None /\ man = None /\ val = None /\ pil = None
    BY DEF Init, PilotInit
  <2>3. audit \in Seq(Cases \X Sources \X {"good", "bad", "transport"}) /\ parquet \in Seq(Rows)
    BY <2>2
  <2>4. /\ CommitsTo(prov) /\ CommitsTo(sum)
        /\ ListsRows(man) /\ ListsRows(val) /\ ListsRows(pil)
    BY <2>2 DEF CommitsTo, ListsRows
  <2> QED  BY <2>1, <2>2, <2>3, <2>4 DEF TreeTypes
<1>4. RunTypes
  <2>1. commands \in Nat
    BY LoadsAssumption DEF Init
  <2> QED  BY <1>2, <2>1 DEF Init, PilotInit, RunTypes
<1>5. InOrder /\ InHand
  BY DEF Init, PilotInit, InOrder, InHand, Unlinking, OfACase, Enriching, Compiling
<1>6. AuditorTypes /\ RunnerTypes
  BY <1>2 DEF Init, AuditInit, LiveInit, AuditorTypes, AuditTypeOK, RunnerTypes, LiveTypeOK
<1> QED  BY <1>3, <1>4, <1>5, <1>6 DEF TypeInv, CommandInv

\* The types of the tree and of its three kinds of process, together.
LEMMA TypeStep ==
  ASSUME TypeInv, [Next]_vars
  PROVE  TypeInv'
<1>1. CommandInv'
  BY CommandInvStep DEF TypeInv
<1>2. AuditorTypes'
  <2>1. CASE UNCHANGED <<packets, audit_run>>
    BY <2>1 DEF TypeInv, AuditorTypes, AuditTypeOK, packets, audit_run
  <2>2. CASE AuditStep
    BY <2>2, AuditorStep DEF TypeInv
  <2>3. UNCHANGED <<packets, audit_run>> \/ AuditStep
    BY DEF Next, Edited, Commanded, Audited, Attested, vars, auditVars
  <2> QED  BY <2>1, <2>2, <2>3
<1>3. RunnerTypes'
  <2>1. CASE UNCHANGED liveVars
    BY <2>1 DEF TypeInv, RunnerTypes, LiveTypeOK, liveVars, live_run
  <2>2. CASE LiveStep
    BY <1>1, <2>2, RunnerStep DEF TypeInv, CommandInv
  <2>3. CASE UNCHANGED <<report, att, signed, live_run>> /\ Touch
    <3>1. touched' \subseteq touched \cup Parts
      BY <2>3 DEF Touch
    <3> QED  BY <2>3, <3>1 DEF TypeInv, RunnerTypes, LiveTypeOK, live_run
  <2>4. UNCHANGED liveVars \/ LiveStep \/ (UNCHANGED <<report, att, signed, live_run>> /\ Touch)
    BY DEF Next, Edited, Commanded, Audited, Attested, vars
  <2> QED  BY <2>1, <2>2, <2>3, <2>4
<1> QED  BY <1>1, <1>2, <1>3 DEF TypeInv

\* Every variable of the tree, its commands and its readers keeps its type,
\* whoever fails or dies between two files.
THEOREM TypesCorrect == Spec => []TypeOK
<1>1. TypeInv => TypeOK
  BY DEF TypeInv, CommandInv, AuditorTypes, RunnerTypes, TypeOK, PilotTypeOK
<1> QED  BY TypeInit, TypeStep, <1>1, PTL DEF Spec

-----------------------------------------------------------------------------
(* What an audit vouches for.                                               *)

\* The case is among the rows.
HasRow(rows, c) == \E i \in DOMAIN rows : rows[i][1] = c

\* A manifest with a row for every case of the frozen list, each of them with a
\* committed record, describes a tree that was whole.
Vouched(m) ==
    m # None /\ m.prov.ids = Order /\ DOMAIN m.prov.rec = Cases /\ (\A c \in Cases : HasRow(m.rows, c))
      => <<m.prov, m>> \in wholes

\* Either every case so far was compiled, in the order of the list, or one that
\* was passed over has no row, and will never have one.
CompiledInOrder ==
    pc \in Compiling =>
      \/ /\ \A i \in 1 .. (k - 1) : ids[i] \in ready
         /\ built = [i \in 1 .. (k - 1) |-> Episode(ids[i])]
      \/ \E j \in 1 .. (k - 1) : ~HasRow(built, ids[j])

\* What is compiled is on the tree: records that are committed and of the
\* repository as it is, the files of their episodes, and then the Parquet file.
CompiledOnTree ==
    /\ pc \in Compiling =>
         /\ prov.ids = ids /\ \A c \in DOMAIN prov.rec : rec[c] = prov.rec[c]
         /\ \A c \in ready : rec[c] = source
         /\ Files(built) \subseteq episodes
    /\ pc = "transitions" => <<Episode(ids[k]), "events">> \in episodes
    /\ pc \in {"tidy", "manifest"} => parquet = built
    /\ pc \notin Compiling => built = <<>>

\* As long as no gate has failed, the auditor's two manifests agree, and every
\* case it has been through has a row.
Gated ==
    /\ apc \in {"manifest", "scan", "baseline", "parquet"} => acase = 1
    /\ agates /\ apc \notin {"idle", "records", "manifest"} => aman # None /\ aman.prov = aprov
    /\ agates /\ apc \in {"record", "events", "transitions"} =>
         \A i \in 1 .. (acase - 1) : HasRow(aman.rows, Order[i])
    /\ agates /\ apc \in {"markdown", "replace markdown", "json", "replace json"} =>
         \A c \in Cases : HasRow(aman.rows, c)

\* What compiled manifests and audits rely on.
CompiledInv == CompiledInOrder /\ CompiledOnTree
AuditedInv  == Vouched(man) /\ Vouched(aman) /\ Gated /\ PassedPacketWasWhole

\* One row more.
LEMMA RowAppended ==
  ASSUME NEW S, NEW rows \in Seq(S), NEW e, NEW c
  PROVE  HasRow(Append(rows, e), c) <=> (HasRow(rows, c) \/ e[1] = c)
<1> DEFINE n == Len(rows)
<1>1. /\ n \in Nat /\ DOMAIN rows = 1 .. n /\ DOMAIN Append(rows, e) = 1 .. (n + 1)
      /\ Append(rows, e)[n + 1] = e /\ \A i \in 1 .. n : Append(rows, e)[i] = rows[i]
  OBVIOUS
<1>2. 1 .. (n + 1) = (1 .. n) \cup {n + 1}
  <2>1. n \in Nat
    BY <1>1
  <2> HIDE DEF n
  <2> QED  BY <2>1
<1> HIDE DEF n
<1> QED  BY <1>1, <1>2 DEF HasRow

\* Files of one row more.
LEMMA FilesAppended ==
  ASSUME NEW S, NEW rows \in Seq(S), NEW e
  PROVE  Files(Append(rows, e)) = Files(rows) \cup {<<e, "events">>, <<e, "transitions">>}
<1> DEFINE n == Len(rows)
<1>1. /\ n \in Nat /\ DOMAIN rows = 1 .. n /\ DOMAIN Append(rows, e) = 1 .. (n + 1)
      /\ Append(rows, e)[n + 1] = e /\ \A i \in 1 .. n : Append(rows, e)[i] = rows[i]
  OBVIOUS
<1>2. 1 .. (n + 1) = (1 .. n) \cup {n + 1}
  <2>1. n \in Nat
    BY <1>1
  <2> HIDE DEF n
  <2> QED  BY <2>1
<1> DEFINE grown == Append(rows, e)
<1> HIDE DEF n, grown
<1>3. {grown[i] : i \in DOMAIN grown} = {rows[i] : i \in DOMAIN rows} \cup {e}
  <2>1. DOMAIN grown = DOMAIN rows \cup {n + 1} /\ grown[n + 1] = e
        /\ \A i \in DOMAIN rows : grown[i] = rows[i]
    BY <1>1, <1>2 DEF grown
  <2> QED  BY <2>1
<1>4. Files(grown) = Files(rows) \cup {<<e, "events">>, <<e, "transitions">>}
  <2> DEFINE A == {rows[i] : i \in DOMAIN rows}
             B == {grown[i] : i \in DOMAIN grown}
  <2>1. Files(rows) = A \X {"events", "transitions"} /\ Files(grown) = B \X {"events", "transitions"}
    BY DEF Files
  <2>2. B = A \cup {e}
    BY <1>3
  <2> HIDE DEF A, B
  <2>3. (A \cup {e}) \X {"events", "transitions"}
          = (A \X {"events", "transitions"}) \cup {<<e, "events">>, <<e, "transitions">>}
    OBVIOUS
  <2> QED  BY <2>1, <2>2, <2>3
<1> QED  BY <1>4 DEF grown

\* Rows of the first cases of a list, and one more.
LEMMA OrderAppended ==
  ASSUME NEW S, NEW n \in Nat, NEW f, NEW rows \in Seq(S), rows = [i \in 1 .. n |-> f[i]]
  PROVE  Append(rows, f[n + 1]) = [i \in 1 .. (n + 1) |-> f[i]]
<1>1. DOMAIN rows = 1 .. n /\ DOMAIN rows = 1 .. Len(rows) /\ Len(rows) \in Nat
  OBVIOUS
<1>2. Len(rows) = n
  BY <1>1
<1>3. \A i \in 1 .. n : rows[i] = f[i]
  OBVIOUS
<1>4. Append(rows, f[n + 1]) = [i \in 1 .. (n + 1) |-> IF i \in 1 .. n THEN rows[i] ELSE f[n + 1]]
  BY <1>2
<1>5. \A i \in 1 .. (n + 1) : i \notin 1 .. n => i = n + 1
  OBVIOUS
<1> QED  BY <1>3, <1>4, <1>5

\* The compiler goes to the next case with what it has, and perhaps the episode
\* of a prepared case.
LEMMA NextCompiled ==
  ASSUME CommandInv, CompiledInOrder, pc \in {"compile", "transitions"},
         UNCHANGED <<prov, ids, ready>>, k' = k + 1,
         built' = built \/ (ids[k] \in ready /\ built' = Append(built, Episode(ids[k])))
  PROVE  CompiledInOrder'
<1> DEFINE f == [i \in 1 .. k |-> Episode(ids[i])]
<1>1. built \in Seq(Rows) /\ ids \in Lists /\ k \in DOMAIN ids
  BY DEF CommandInv, RunTypes, InOrder, OfACase, Unlinking, Enriching, Compiling
<1>2. /\ k \in Nat \ {0} /\ k' - 1 = k /\ 1 .. (k' - 1) = 1 .. k
      /\ k - 1 \in Nat /\ (k - 1) + 1 = k
      /\ \A i \in 1 .. k : i \in 1 .. (k - 1) \/ i = k
      /\ k \in 1 .. k /\ 1 .. (k - 1) \subseteq 1 .. k
  <2>1. k \in Nat \ {0}
    BY <1>1, ListFits
  <2> QED  BY <2>1
<1>3. ids[k] \notin {ids[j] : j \in 1 .. (k - 1)}
  BY <1>1, ServedOnce
<1>4. \A i \in 1 .. k : f[i] = Episode(ids[i]) /\ f[i][1] = ids[i] /\ f[i] = Episode(ids[i])'
  BY DEF Episode
<1>5. ASSUME NEW j \in 1 .. (k - 1), ~HasRow(built, ids[j])
      PROVE  j \in 1 .. (k' - 1) /\ ~HasRow(built', ids[j])
  <2>1. j \in 1 .. (k' - 1) /\ ids[j] # ids[k]
    BY <1>2, <1>3, <1>5
  <2>2. Episode(ids[k])[1] = ids[k]
    BY DEF Episode
  <2>3. HasRow(Append(built, Episode(ids[k])), ids[j]) <=> (HasRow(built, ids[j]) \/ ids[k] = ids[j])
    BY <1>1, <2>2, RowAppended
  <2> QED  BY <1>5, <2>1, <2>3
<1>6. ASSUME \A i \in 1 .. (k - 1) : ids[i] \in ready, built = [i \in 1 .. (k - 1) |-> Episode(ids[i])]
      PROVE  \/ /\ \A i \in 1 .. (k' - 1) : ids[i] \in ready
                /\ built' = [i \in 1 .. (k' - 1) |-> Episode(ids[i])']
             \/ ~HasRow(built', ids[k])
  <2>1. built = [i \in 1 .. (k - 1) |-> f[i]]
    BY <1>2, <1>4, <1>6
  <2>2. CASE built' = built
    <3>1. DOMAIN built = 1 .. (k - 1) /\ \A i \in 1 .. (k - 1) : built[i][1] = ids[i]
      BY <1>2, <1>4, <2>1
    <3> QED  BY <1>3, <2>2, <3>1 DEF HasRow
  <2>3. CASE ids[k] \in ready /\ built' = Append(built, Episode(ids[k]))
    <3>1. Append(built, f[(k - 1) + 1]) = [i \in 1 .. ((k - 1) + 1) |-> f[i]]
      <4> HIDE DEF f
      <4> QED  BY <1>1, <1>2, <2>1, OrderAppended
    <3>2. built' = [i \in 1 .. k |-> f[i]]
      BY <1>2, <1>4, <2>3, <3>1
    <3>3. built' = [i \in 1 .. k |-> Episode(ids[i])']
      BY <1>4, <3>2
    <3> QED  BY <1>2, <1>6, <2>3, <3>3
  <2> QED  BY <2>2, <2>3
<1>7. \/ /\ \A i \in 1 .. (k' - 1) : ids'[i] \in ready'
         /\ built' = [i \in 1 .. (k' - 1) |-> Episode(ids[i])']
      \/ \E j \in 1 .. (k' - 1) : ~HasRow(built', ids'[j])
  <2>1. \/ /\ \A i \in 1 .. (k - 1) : ids[i] \in ready
           /\ built = [i \in 1 .. (k - 1) |-> Episode(ids[i])]
        \/ \E j \in 1 .. (k - 1) : ~HasRow(built, ids[j])
    BY DEF CompiledInOrder, Compiling
  <2> QED  BY <1>2, <1>5, <1>6, <2>1
<1> QED  BY <1>7 DEF CompiledInOrder, HasRow, Episode

\* Going to the next case leaves what was compiled on the tree.
LEMMA NextOnTree ==
  ASSUME CommandInv, CompiledInv, UNCHANGED <<source, rec, prov, ids, ready>>,
         episodes \subseteq episodes', pc \in {"compile", "transitions"}, NextEpisode,
         \/ built' = built
         \/ /\ ids[k] \in ready /\ built' = Append(built, Episode(ids[k]))
            /\ {<<Episode(ids[k]), "events">>, <<Episode(ids[k]), "transitions">>} \subseteq episodes'
  PROVE  CompiledInv'
<1>1. CompiledInOrder'
  <2>1. built' = built \/ (ids[k] \in ready /\ built' = Append(built, Episode(ids[k])))
    OBVIOUS
  <2>2. k' = k + 1
    BY DEF NextEpisode
  <2> QED  BY <2>1, <2>2, NextCompiled DEF CompiledInv
<1>2. built \in Seq(Rows) /\ Files(built) \subseteq episodes
  BY DEF CommandInv, RunTypes, CompiledInv, CompiledOnTree, Compiling
<1>3. Files(Append(built, Episode(ids[k])))
        = Files(built) \cup {<<Episode(ids[k]), "events">>, <<Episode(ids[k]), "transitions">>}
  BY <1>2, FilesAppended
<1>4. Files(built') \subseteq episodes'
  <2>1. CASE built' = built
    BY <1>2, <2>1
  <2>2. CASE /\ built' = Append(built, Episode(ids[k]))
             /\ {<<Episode(ids[k]), "events">>, <<Episode(ids[k]), "transitions">>} \subseteq episodes'
    <3>1. Files(built') = Files(built) \cup {<<Episode(ids[k]), "events">>, <<Episode(ids[k]), "transitions">>}
      BY <1>3, <2>2
    <3> QED  BY <1>2, <2>2, <3>1
  <2> QED  BY <2>1, <2>2
<1>5. pc' \in {"compile", "parquet"}
  BY DEF NextEpisode
<1>6. /\ prov.ids = ids /\ \A c \in DOMAIN prov.rec : rec[c] = prov.rec[c]
      /\ \A c \in ready : rec[c] = source
  BY DEF CompiledInv, CompiledOnTree, Compiling
<1> QED  BY <1>1, <1>4, <1>5, <1>6 DEF CompiledInv, CompiledOnTree, Files, Compiling

\* A step that keeps the compiler's place and what it has.
LEMMA CompiledStays ==
  ASSUME CompiledInv, UNCHANGED <<source, rec, prov, ids, k, ready, built>>,
         Files(built) \subseteq episodes', pc \in Compiling, pc' \in Compiling,
         pc' = "transitions" => <<Episode(ids[k]), "events">> \in episodes',
         pc' \in {"tidy", "manifest"} => parquet' = built
  PROVE  CompiledInv'
<1>1. CompiledInOrder'
  BY DEF CompiledInv, CompiledInOrder, HasRow, Episode
<1>2. CompiledOnTree'
  BY DEF CompiledInv, CompiledOnTree, Files, Episode, Compiling
<1> QED  BY <1>1, <1>2 DEF CompiledInv

\* Every step of a command keeps what it compiled in order and on the tree.
LEMMA CompiledStep ==
  ASSUME CommandInv, CompiledInv, CommandStep
  PROVE  CompiledInv'
<1>i. CompiledInOrder /\ CompiledOnTree
  BY DEF CompiledInv
<1>0. ASSUME pc' \notin Compiling, built' = <<>> PROVE CompiledInv'
  BY <1>0 DEF CompiledInv, CompiledInOrder, CompiledOnTree, Compiling
<1>r. ASSUME Release PROVE CompiledInv'
  BY <1>0, <1>r DEF Release, Compiling
<1>1. CASE \/ StartCommand \/ Stop \/ UnlinkEpisodes \/ UnlinkPapers \/ ReuseRecord \/ AskTeacher
           \/ CaseRaises \/ CleanUp \/ WriteProvenance \/ WriteSummary
  <2>1. /\ pc' \notin Compiling
        /\ built' = <<>> \/ (built' = built /\ pc \notin Compiling)
    BY <1>1 DEF StartCommand, Stop, UnlinkEpisodes, UnlinkPapers, ReuseRecord, AskTeacher,
       CaseRaises, NextCase, CleanUp, WriteProvenance, WriteSummary, Release, Compiling
  <2> QED  BY <1>i, <1>0, <2>1 DEF CompiledOnTree
<1>2. CASE LoadRecords
  <2>1. CASE Committed
    <3>1. /\ UNCHANGED <<source, rec, prov, ids, k, built>> /\ pc = "load" /\ pc' = "compile"
          /\ ready' = {c \in DOMAIN prov.rec : rec[c] = source}
          /\ prov.ids = ids /\ \A c \in DOMAIN prov.rec : rec[c] = prov.rec[c]
      BY <1>2, <2>1 DEF LoadRecords, Committed, RecordsInPlace, tree, enrichment
    <3>2. k = 1 /\ built = <<>>
      BY <1>i, <3>1 DEF CommandInv, InOrder, CompiledOnTree, Compiling
    <3>3. built' = <<>> /\ 1 .. (k' - 1) = {}
      BY <3>1, <3>2
    <3>4. built' = [i \in 1 .. (k' - 1) |-> Episode(ids[i])']
      BY <3>3
    <3>5. CompiledInOrder'
      BY <3>3, <3>4 DEF CompiledInOrder, Episode
    <3>6. Files(built') = {}
      BY <3>3 DEF Files
    <3>7. CompiledOnTree'
      BY <3>1, <3>6 DEF CompiledOnTree, Files, Compiling
    <3> QED  BY <3>5, <3>7 DEF CompiledInv
  <2>2. CASE ~Committed
    BY <1>2, <1>r, <2>2 DEF LoadRecords
  <2> QED  BY <2>1, <2>2
<1>3. CASE SkipOrKeep
  <2>1. /\ UNCHANGED <<source, rec, prov, ids, ready, episodes>> /\ pc = "compile" /\ NextEpisode
        /\ \/ built' = built
           \/ ids[k] \in ready /\ Replays(ids[k]) /\ built' = Append(built, Episode(ids[k]))
    BY <1>3 DEF SkipOrKeep, tree, enrichment, outputs
  <2>2. Replays(ids[k]) =>
          {<<Episode(ids[k]), "events">>, <<Episode(ids[k]), "transitions">>} \subseteq episodes
    BY DEF Replays, Files
  <2> QED  BY <2>1, <2>2, NextOnTree
<1>4. CASE WriteEvents
  <2>1. /\ UNCHANGED <<source, rec, prov, ids, k, ready, built>> /\ pc = "compile" /\ pc' = "transitions"
        /\ episodes' = episodes \cup {<<Episode(ids[k]), "events">>}
    BY <1>4 DEF WriteEvents, enrichment
  <2>2. Files(built) \subseteq episodes
    BY <1>i, <2>1 DEF CompiledOnTree, Compiling
  <2> QED  BY <2>1, <2>2, CompiledStays DEF Compiling
<1>5. CASE WriteTransitions
  <2>1. /\ UNCHANGED <<source, rec, prov, ids, ready>> /\ pc = "transitions" /\ NextEpisode
        /\ episodes' = episodes \cup {<<Episode(ids[k]), "transitions">>}
        /\ built' = Append(built, Episode(ids[k]))
    BY <1>5 DEF WriteTransitions, enrichment
  <2>2. ids[k] \in ready /\ <<Episode(ids[k]), "events">> \in episodes
    BY <1>i, <2>1 DEF CommandInv, InHand, CompiledOnTree
  <2>3. /\ episodes \subseteq episodes'
        /\ {<<Episode(ids[k]), "events">>, <<Episode(ids[k]), "transitions">>} \subseteq episodes'
    BY <2>1, <2>2
  <2> QED  BY <2>1, <2>2, <2>3, NextOnTree
<1>6. CASE CompileRaises
  <2>1. /\ UNCHANGED <<source, rec, prov, ids, ready, episodes, built>> /\ pc \in {"compile", "transitions"}
        /\ NextEpisode
    BY <1>6 DEF CompileRaises, tree, enrichment, outputs
  <2> QED  BY <2>1, NextOnTree
<1>7. CASE WriteParquet
  <2>1. /\ UNCHANGED <<source, rec, prov, ids, k, ready, built, episodes>> /\ parquet' = built
        /\ pc = "parquet" /\ pc' = "tidy"
    BY <1>7 DEF WriteParquet, enrichment
  <2>2. Files(built) \subseteq episodes
    BY <1>i, <2>1 DEF CompiledOnTree, Compiling
  <2> QED  BY <2>1, <2>2, CompiledStays DEF Compiling
<1>8. CASE Tidy
  <2>1. /\ UNCHANGED <<source, rec, prov, ids, k, ready, built, parquet>>
        /\ pc = "tidy" /\ pc' \in {"tidy", "manifest"}
        /\ episodes' = episodes \/ \E f \in episodes \ Files(built) : episodes' = episodes \ {f}
    BY <1>8 DEF Tidy, enrichment
  <2>2. Files(built) \subseteq episodes /\ parquet = built
    BY <1>i, <2>1 DEF CompiledOnTree, Compiling
  <2>3. Files(built) \subseteq episodes'
    BY <2>1, <2>2
  <2> QED  BY <2>1, <2>2, <2>3, CompiledStays DEF Compiling
<1>9. CASE WriteManifest
  <2>1. /\ UNCHANGED <<source, rec, prov, ids, k, ready, built, episodes>>
        /\ pc = "manifest" /\ pc' = "validation"
    BY <1>9 DEF WriteManifest, enrichment
  <2>2. Files(built) \subseteq episodes
    BY <1>i, <2>1 DEF CompiledOnTree, Compiling
  <2> QED  BY <2>1, <2>2, CompiledStays DEF Compiling
<1>10. CASE WriteValidation \/ WritePilot
  <2>1. ASSUME ~Release PROVE CompiledInv'
    <3>1. /\ UNCHANGED <<source, rec, prov, ids, k, ready, built, episodes>>
          /\ pc = "validation" /\ pc' = "pilot"
      BY <1>10, <2>1 DEF WriteValidation, WritePilot, enrichment
    <3>2. Files(built) \subseteq episodes
      BY <1>i, <3>1 DEF CompiledOnTree, Compiling
    <3> QED  BY <3>1, <3>2, CompiledStays DEF Compiling
  <2> QED  BY <1>r, <2>1
<1> QED
  BY <1>1, <1>2, <1>3, <1>4, <1>5, <1>6, <1>7, <1>8, <1>9, <1>10 DEF CommandStep

\* Steps of others: while a command compiles, nobody touches what it relies on.
LEMMA CompiledOthers ==
  ASSUME CommandInv, CompiledInv, UNCHANGED <<episodes, parquet, command>>,
         lock = "free" \/ UNCHANGED <<source, rec, prov>>
  PROVE  CompiledInv'
<1>1. CASE lock = "free"
  <2>1. pc = "idle" /\ pc' = "idle" /\ built' = built
    BY <1>1 DEF CommandInv, RunTypes, command
  <2> QED  BY <2>1 DEF CompiledInv, CompiledInOrder, CompiledOnTree, Compiling
<1>2. CASE UNCHANGED <<source, rec, prov>>
  BY <1>2 DEF CompiledInv, CompiledInOrder, CompiledOnTree, HasRow, Files, Episode, command
<1> QED  BY <1>1, <1>2

\* The pairs that were whole are remembered.
LEMMA WholesGrow == Remember => wholes \subseteq wholes' /\ (Whole' => <<prov', man'>> \in wholes')
  BY DEF Remember

\* A manifest that vouches for a moment does so for good: what was whole is remembered.
LEMMA VouchedStays ==
  ASSUME NEW m, Vouched(m), Remember
  PROVE  m # None /\ m.prov.ids = Order /\ DOMAIN m.prov.rec = Cases /\ (\A c \in Cases : HasRow(m.rows, c))
           => <<m.prov, m>> \in wholes'
BY WholesGrow DEF Vouched

\* The manifest the compiler writes vouches for the tree it leaves.
LEMMA ManifestVouches ==
  ASSUME CommandInv, CompiledInv, WriteManifest, Remember
  PROVE  Vouched(man)'
<1> SUFFICES ASSUME man'.prov.ids = Order, DOMAIN man'.prov.rec = Cases, \A c \in Cases : HasRow(man'.rows, c)
             PROVE  <<man'.prov, man'>> \in wholes'
  BY DEF Vouched, HasRow
<1>1. /\ UNCHANGED <<source, audit, rec, prov, episodes, parquet>> /\ pc = "manifest"
      /\ man' = Manifest(prov, built)
  BY DEF WriteManifest, enrichment
<1>2. man'.prov = prov /\ man'.rows = built /\ man' # None
  BY <1>1 DEF Manifest, None
<1>3. /\ prov # None /\ ready \subseteq DOMAIN prov.rec /\ k = Len(ids) + 1 /\ ids \in Lists
      /\ prov.ids = ids /\ (\A c \in DOMAIN prov.rec : rec[c] = prov.rec[c])
      /\ (\A c \in ready : rec[c] = source) /\ Files(built) \subseteq episodes /\ parquet = built
  BY <1>1 DEF CommandInv, InOrder, InHand, CompiledInv, CompiledOnTree, Unlinking, OfACase,
     Enriching, Compiling
<1>4. ids = Order /\ DOMAIN prov.rec = Cases
  BY <1>2, <1>3
<1>5. DOMAIN Order = 1 .. (k - 1)
  <2>1. Len(Order) \in Nat /\ DOMAIN Order = 1 .. Len(Order)
    BY OrderAssumption
  <2>2. k - 1 = Len(Order)
    BY <1>3, <1>4, <2>1
  <2> QED  BY <2>1, <2>2
<1>6. \A i \in DOMAIN Order : Order[i] \in Cases
  BY DEF Cases
<1>7. /\ \A i \in DOMAIN Order : Order[i] \in ready
      /\ built = [i \in DOMAIN Order |-> Episode(Order[i])]
  <2>1. \A j \in 1 .. (k - 1) : HasRow(built, ids[j])
    BY <1>2, <1>4, <1>5, <1>6
  <2> QED  BY <1>1, <1>4, <1>5, <2>1 DEF CompiledInv, CompiledInOrder, Compiling
<1>8. \A c \in Cases : c \in ready
  BY <1>7 DEF Cases
<1>9. Whole'
  <2>1. /\ prov' # None /\ prov'.ids = Order /\ DOMAIN prov'.rec = Cases
        /\ \A c \in Cases : rec'[c] = prov'.rec[c] /\ rec'[c] = source'
    BY <1>1, <1>3, <1>4, <1>8
  <2>2. man' # None /\ man'.prov = prov' /\ man'.rows = built
    BY <1>1, <1>2
  <2>3. built = [i \in DOMAIN Order |-> <<Order[i], prov'.rec[Order[i]]>>]
    BY <1>1, <1>7 DEF Episode
  <2>4. Files(man'.rows) \subseteq episodes' /\ parquet' = man'.rows
    BY <1>1, <1>2, <1>3
  <2> QED  BY <2>1, <2>2, <2>3, <2>4 DEF Whole, Files
<1> QED  BY <1>1, <1>2, <1>9, WholesGrow

\* Other steps leave the manifest, or remove it.
LEMMA ManifestStep ==
  ASSUME CommandInv, CompiledInv, Vouched(man), [Next]_vars
  PROVE  Vouched(man)'
<1>1. ASSUME man' = None PROVE Vouched(man)'
  BY <1>1 DEF Vouched
<1>2. ASSUME UNCHANGED man, Remember PROVE Vouched(man)'
  BY <1>2, VouchedStays DEF Vouched, HasRow
<1>3. CASE Edited
  BY <1>2, <1>3 DEF Edited, EditSource, outputs
<1>4. CASE Commanded
  <2>1. man' = None \/ UNCHANGED man \/ WriteManifest
    BY <1>4 DEF Commanded, CommandStep, StartCommand, Stop, UnlinkEpisodes, UnlinkPapers, ReuseRecord,
       AskTeacher, CaseRaises, CleanUp, WriteProvenance, WriteSummary, LoadRecords, SkipOrKeep,
       WriteEvents, WriteTransitions, CompileRaises, WriteParquet, Tidy, WriteValidation,
       WritePilot, tree, outputs
  <2> QED  BY <1>1, <1>2, <1>4, <2>1, ManifestVouches DEF Commanded
<1>5. CASE Audited \/ Attested
  <2>1. UNCHANGED man
    BY <1>5 DEF Audited, AuditStep, ReadProvenance, ReadListed, ReadManifest, ScanTeacherAudit,
         ReadBaseline, ReadParquet, CheckRecord, CheckEpisode, WriteTemporary, ReplaceMarkdown,
         ReplaceJson, Attested, LiveStep, Preflight, EnterRun, EnterBatch, RunBatch, BatchRaises,
         ReadPost, ReplayReport, NoteDirectories, ReadSource, ReadFiles, RecheckDirectories, Attest,
         VerifyInProcess, CompareWithTree, VerifyHeld, Sign, pilotVars, tree, outputs
  <2> QED  BY <1>2, <1>5, <2>1 DEF Audited, Attested
<1>6. CASE UNCHANGED vars
  BY <1>6 DEF vars, pilotVars, tree, outputs, Vouched, HasRow
<1> QED  BY <1>3, <1>4, <1>5, <1>6 DEF Next

\* Every step of the auditor that fails no gate keeps what its gates found.
LEMMA GatedStep ==
  ASSUME AuditorTypes, Gated, AuditStep
  PROVE  Gated'
<1> DEFINE Writing == {"markdown", "replace markdown", "json", "replace json"}
           m == Len(Order)
<1>0. acase \in 0 .. m /\ m \in Nat \ {0} /\ DOMAIN Order = 1 .. m
  BY OrderAssumption DEF AuditorTypes, AuditTypeOK, CaseList
<1>e. ASSUME AuditEnds PROVE Gated'
  BY <1>e DEF AuditEnds, Gated
<1>1. CASE ReadProvenance
  <2>1. \/ apc' = "records"
        \/ UNCHANGED audit_run
    BY <1>1 DEF ReadProvenance
  <2>2. CASE apc' = "records"
    BY <2>2 DEF Gated
  <2>3. CASE UNCHANGED audit_run
    BY <2>3 DEF Gated, HasRow, audit_run
  <2> QED  BY <2>1, <2>2, <2>3
<1>2. CASE ReadListed
  <2>1. AuditEnds \/ apc' = "records" \/ (apc' = "manifest" /\ acase' = 1)
    BY <1>2 DEF ReadListed
  <2> QED  BY <1>e, <2>1 DEF Gated
<1>3. CASE ReadManifest
  BY <1>3 DEF ReadManifest, Gated
<1>4. CASE ScanTeacherAudit \/ ReadBaseline
  <2>1. /\ apc \in {"scan", "baseline"} /\ apc' \in {"baseline", "parquet"}
        /\ UNCHANGED <<aprov, aman, acase>> /\ agates' \in {agates, FALSE}
    BY <1>4 DEF ScanTeacherAudit, ReadBaseline
  <2>2. agates' => agates
    BY <2>1
  <2> QED  BY <2>1, <2>2 DEF Gated
<1>5. CASE ReadParquet
  <2>1. /\ apc = "parquet" /\ apc' = "record" /\ acase' = 1 /\ aman' = aman /\ aprov' = aprov
        /\ agates' => agates
    BY <1>5 DEF ReadParquet, Gated
  <2>2. 1 .. (acase' - 1) = {}
    BY <2>1
  <2> QED  BY <2>1, <2>2 DEF Gated
<1>6. CASE CheckRecord
  <2>1. \/ AuditEnds
        \/ /\ apc = "record" /\ apc' = "events" /\ UNCHANGED <<aprov, aman, acase>>
           /\ agates' => agates
    BY <1>6 DEF CheckRecord
  <2> QED  BY <1>e, <2>1 DEF Gated, HasRow
<1>7. CASE CheckEpisode
  <2>1. /\ apc \in {"events", "transitions"} /\ UNCHANGED <<aprov, aman>>
        /\ agates' => agates /\ Linked(Order[acase], apc)
        /\ \/ apc' = "transitions" /\ UNCHANGED acase
           \/ apc = "transitions" /\ NextAuditCase
    BY <1>7 DEF CheckEpisode
  <2>2. agates' => /\ aman # None /\ aman.prov = aprov
                   /\ \A i \in 1 .. (acase - 1) : HasRow(aman.rows, Order[i])
                   /\ HasRow(aman.rows, Order[acase])
    <3>1. Linked(Order[acase], apc) => HasRow(aman.rows, Order[acase])
      BY DEF Linked, HasRow
    <3> QED  BY <2>1, <3>1 DEF Gated
  <2>3. CASE apc' = "transitions" /\ UNCHANGED acase
    BY <2>1, <2>2, <2>3 DEF Gated, HasRow
  <2>4. CASE NextAuditCase
    <3>1. CASE acase = m
      <4>1. apc' = "markdown"
        BY <2>4, <3>1 DEF NextAuditCase
      <4>2. \A i \in 1 .. m : i \in 1 .. (acase - 1) \/ i = acase
        <5> HIDE DEF m
        <5> QED  BY <1>0, <3>1
      <4>3. agates' => \A i \in 1 .. m : HasRow(aman.rows, Order[i])
        BY <2>2, <4>2
      <4>4. agates' => \A c \in Cases : HasRow(aman.rows, c)
        BY <1>0, <4>3 DEF Cases
      <4> QED  BY <2>1, <2>2, <4>1, <4>4 DEF Gated, HasRow
    <3>2. CASE acase # m
      <4>1. apc' = "record" /\ acase' = acase + 1
        BY <2>4, <3>2 DEF NextAuditCase
      <4>2. \A i \in 1 .. (acase' - 1) : i \in 1 .. (acase - 1) \/ i = acase
        <5> HIDE DEF m
        <5> QED  BY <1>0, <4>1
      <4>3. agates' => \A i \in 1 .. (acase' - 1) : HasRow(aman.rows, Order[i])
        BY <2>2, <4>2
      <4> QED  BY <2>1, <2>2, <4>1, <4>3 DEF Gated, HasRow
    <3> QED  BY <3>1, <3>2
  <2> QED  BY <2>1, <2>3, <2>4
<1>8. CASE WriteTemporary \/ ReplaceMarkdown \/ ReplaceJson
  <2>1. \/ AuditEnds
        \/ apc \in Writing /\ apc' \in Writing /\ UNCHANGED <<aprov, aman, agates, acase>>
    BY <1>8 DEF WriteTemporary, ReplaceMarkdown, ReplaceJson
  <2>2. CASE apc \in Writing /\ apc' \in Writing /\ UNCHANGED <<aprov, aman, agates, acase>>
    <3>1. agates => /\ aman # None /\ aman.prov = aprov
                    /\ \A c \in Cases : HasRow(aman.rows, c)
      BY <2>2 DEF Gated
    <3> QED  BY <2>2, <3>1 DEF Gated, HasRow
  <2> QED  BY <1>e, <2>1, <2>2
<1> QED  BY <1>1, <1>2, <1>3, <1>4, <1>5, <1>6, <1>7, <1>8 DEF AuditStep

\* The packet is written only from manifests that vouch for one moment.
LEMMA AuditedStep ==
  ASSUME TypeInv, CompiledInv, AuditedInv, [Next]_vars
  PROVE  AuditedInv'
<1>1. Vouched(man)'
  BY ManifestStep DEF TypeInv, AuditedInv
<1>2. (AuditStep /\ Remember) \/ UNCHANGED <<packets, audit_run>>
  BY DEF Next, Edited, Commanded, Audited, Attested, vars, auditVars
<1>3. wholes \subseteq wholes'
  BY WholesGrow DEF Next, Edited, Commanded, Audited, Attested, vars
<1>4. CASE UNCHANGED <<packets, audit_run>>
  <2>1. Gated' /\ Vouched(aman)' /\ PassedPacketWasWhole'
    BY <1>3, <1>4 DEF AuditedInv, Gated, Vouched, PassedPacketWasWhole, HasRow, packets, audit_run
  <2> QED  BY <1>1, <2>1 DEF AuditedInv
<1>5. CASE AuditStep
  <2>1. Gated'
    BY <1>5, GatedStep DEF TypeInv, AuditedInv
  <2>2. Vouched(aman)'
    <3>1. aman' \in {aman, man, None}
      BY <1>5 DEF AuditStep, ReadProvenance, ReadListed, ReadManifest, ScanTeacherAudit,
         ReadBaseline, ReadParquet, CheckRecord, CheckEpisode, WriteTemporary, ReplaceMarkdown,
         ReplaceJson, AuditEnds, audit_run
    <3> QED  BY <1>3, <3>1 DEF AuditedInv, Vouched, HasRow
  <2>3. PassedPacketWasWhole'
    <3>1. CASE json' = json
      BY <1>3, <3>1 DEF AuditedInv, PassedPacketWasWhole
    <3>2. CASE ReplaceJson /\ json' = Packet
      <4>0. Packet.pass = (agates /\ BatchGates) /\ Packet.prov = aprov /\ Packet.man = aman
        BY DEF Packet
      <4>1. /\ json'.pass = (agates /\ BatchGates) /\ json'.prov = aprov /\ json'.man = aman
            /\ apc = "replace json"
        BY <3>2, <4>0 DEF ReplaceJson
      <4>2. aprov.ids = Order
        BY <4>1 DEF TypeInv, AuditorTypes
      <4>3. ASSUME json'.pass PROVE <<aprov, aman>> \in wholes
        <5>1. agates /\ DOMAIN aprov.rec = Cases
          BY <4>1, <4>3 DEF BatchGates
        <5>2. aman # None /\ aman.prov = aprov /\ \A c \in Cases : HasRow(aman.rows, c)
          BY <4>1, <5>1 DEF AuditedInv, Gated
        <5> QED  BY <4>2, <5>1, <5>2 DEF AuditedInv, Vouched
      <4> QED  BY <1>3, <4>1, <4>3 DEF PassedPacketWasWhole
    <3>3. json' = json \/ (ReplaceJson /\ json' = Packet)
      BY <1>5 DEF AuditStep, ReadProvenance, ReadListed, ReadManifest, ScanTeacherAudit,
         ReadBaseline, ReadParquet, CheckRecord, CheckEpisode, WriteTemporary, ReplaceMarkdown,
         ReplaceJson, packets
    <3> QED  BY <3>1, <3>2, <3>3
  <2> QED  BY <1>1, <2>1, <2>2, <2>3 DEF AuditedInv
<1> QED  BY <1>2, <1>4, <1>5

\* What is compiled stays in order and on the tree, whoever takes a step.
LEMMA CompiledInvStep ==
  ASSUME CommandInv, CompiledInv, [Next]_vars
  PROVE  CompiledInv'
<1>1. CASE Edited
  <2>1. UNCHANGED <<episodes, parquet, command>> /\ lock = "free"
    BY <1>1 DEF Edited, EditSource, outputs
  <2> QED  BY <2>1, CompiledOthers
<1>2. CASE Commanded
  BY <1>2, CompiledStep DEF Commanded
<1>3. CASE Audited
  <2>1. UNCHANGED <<episodes, parquet, command, source, rec, prov>>
    BY <1>3 DEF Audited, AuditStep, ReadProvenance, ReadListed, ReadManifest, ScanTeacherAudit,
         ReadBaseline, ReadParquet, CheckRecord, CheckEpisode, WriteTemporary, ReplaceMarkdown,
         ReplaceJson, pilotVars, tree, enrichment, outputs
  <2> QED  BY <2>1, CompiledOthers
<1>4. CASE Attested
  <2>1. /\ UNCHANGED <<episodes, parquet, command>>
        /\ lock = "free" \/ UNCHANGED <<source, rec, prov>>
    BY <1>4 DEF Attested, LiveStep, Preflight, EnterRun, EnterBatch, RunBatch, BatchRaises, ReadPost,
         ReplayReport, NoteDirectories, ReadSource, ReadFiles, RecheckDirectories, Attest,
         VerifyInProcess, CompareWithTree, VerifyHeld, Sign, pilotVars, tree, enrichment, outputs
  <2> QED  BY <2>1, CompiledOthers
<1>5. CASE UNCHANGED vars
  BY <1>5, CompiledOthers DEF vars, pilotVars, tree, enrichment, outputs
<1> QED  BY <1>1, <1>2, <1>3, <1>4, <1>5 DEF Next

\* A packet that passed is about a tree that was complete at some moment, with
\* both manifests the packet quotes in place, though the auditor holds no lock
\* and commands, failures and live runs go on between any two of its reads.
THEOREM PassedPacketsWereWhole == Spec => []PassedPacketWasWhole
<1>1. Init => CompiledInv /\ AuditedInv
  BY DEF Init, PilotInit, AuditInit, CompiledInv, CompiledInOrder, CompiledOnTree, AuditedInv,
     Vouched, Gated, PassedPacketWasWhole, Compiling
<1>2. TypeInv /\ CompiledInv /\ AuditedInv /\ [Next]_vars => (TypeInv /\ CompiledInv /\ AuditedInv)'
  BY TypeStep, CompiledInvStep, AuditedStep DEF TypeInv
<1>3. AuditedInv => PassedPacketWasWhole
  BY DEF AuditedInv
<1> QED  BY TypeInit, <1>1, <1>2, <1>3, PTL DEF Spec

-----------------------------------------------------------------------------
(* Papers of the trajectory stage.                                          *)

\* While records or the provenance manifest may change there are no such papers.
NoPapers == pc \in Enriching => man = None /\ val = None /\ pil = None

\* What is compiled are records the committed manifest lists.
FromCommitted ==
    /\ pc \in Compiling =>
         /\ \A c \in DOMAIN prov.rec : rec[c] = prov.rec[c]
         /\ ready \subseteq DOMAIN prov.rec
         /\ built \in Seq({Episode(c) : c \in DOMAIN prov.rec})
    /\ pc = "transitions" => ids[k] \in ready
    /\ pc \notin Compiling => built = <<>>

Citing == ReportsCiteTheTree /\ (~batched => NoPapers /\ FromCommitted)

\* An empty tree has no papers.
LEMMA CitingInit == Init => Citing
  BY DEF Init, PilotInit, Citing, ReportsCiteTheTree, NoPapers, FromCommitted, Compiling, Enriching

\* What a batch of a live run changes is not claimed to agree with the papers.
LEMMA BatchedStays == Remember => (batched => batched')
  BY DEF Remember

\* A live run changes the tree only with its batch, and is then exempt.
LEMMA CitingLive ==
  ASSUME Citing, Attested
  PROVE  Citing'
<1>1. CASE RunBatch \/ BatchRaises
  <2>1. batched'
    BY <1>1 DEF Attested, Remember, RunBatch, BatchRaises, LiveEnds
  <2> QED  BY <2>1 DEF Citing, ReportsCiteTheTree
<1>2. CASE UNCHANGED pilotVars
  <2>1. batched => batched'
    BY BatchedStays DEF Attested
  <2> QED  BY <1>2, <2>1 DEF Citing, ReportsCiteTheTree, NoPapers, FromCommitted, Episode,
                pilotVars, tree, command, outputs, enrichment
<1>3. RunBatch \/ BatchRaises \/ UNCHANGED pilotVars
  BY DEF Attested, LiveStep, Preflight, EnterRun, EnterBatch, ReadPost, ReplayReport,
         NoteDirectories, ReadSource, ReadFiles, RecheckDirectories, Attest, VerifyInProcess,
         CompareWithTree, VerifyHeld, Sign
<1> QED  BY <1>1, <1>2, <1>3

\* An auditor changes none of what the papers cite.
LEMMA CitingAudit ==
  ASSUME Citing, Audited
  PROVE  Citing'
<1>1. UNCHANGED <<enrichment, outputs, command>>
  BY DEF Audited, AuditStep, ReadProvenance, ReadListed, ReadManifest, ScanTeacherAudit,
         ReadBaseline, ReadParquet, CheckRecord, CheckEpisode, WriteTemporary, ReplaceMarkdown,
         ReplaceJson, pilotVars, tree
<1>2. batched => batched'
  BY BatchedStays DEF Audited
<1> QED  BY <1>1, <1>2 DEF Citing, ReportsCiteTheTree, NoPapers, FromCommitted, Episode,
              command, outputs, enrichment

\* The compiler goes on with what it has, and perhaps an episode of a prepared case.
LEMMA BuiltGrows ==
  ASSUME pc \in Compiling, FromCommitted, UNCHANGED <<prov, rec>>,
         built' = built \/ (ids[k] \in ready /\ built' = Append(built, Episode(ids[k])))
  PROVE  built' \in Seq(({Episode(c) : c \in DOMAIN prov.rec})')
<1> DEFINE S == {Episode(c) : c \in DOMAIN prov.rec}
<1>1. S' = S
  BY DEF Episode
<1>2. built \in Seq(S)
  BY DEF FromCommitted
<1>3. ids[k] \in ready => Episode(ids[k]) \in S
  BY DEF FromCommitted
<1> HIDE DEF S
<1>4. built' \in Seq(S)
  BY <1>2, <1>3
<1> QED  BY <1>1, <1>4 DEF S

\* Before the batch of a live run, every step of a command keeps the papers true.
LEMMA CitingCommand ==
  ASSUME Citing, ~batched, CommandStep
  PROVE  (\A m \in {man, val, pil} \ {None} :
            m.prov = prov /\ \A i \in DOMAIN m.rows : rec[m.rows[i][1]] = m.rows[i][2])'
         /\ NoPapers' /\ FromCommitted'
<1> DEFINE Cites(m) == m.prov = prov /\ \A i \in DOMAIN m.rows : rec[m.rows[i][1]] = m.rows[i][2]
           Papers == \A m \in {man, val, pil} \ {None} : Cites(m)
           All == Papers /\ NoPapers /\ FromCommitted
<1> SUFFICES All'
  OBVIOUS
<1>0. All
  BY DEF Citing, ReportsCiteTheTree
<1> USE DEF NoPapers, FromCommitted, Compiling, Enriching, Episode
<1>1. CASE StartCommand
  BY <1>0, <1>1 DEF StartCommand, tree, enrichment, outputs
<1>2. CASE Stop
  BY <1>0, <1>2 DEF Stop, Release, tree, enrichment, outputs
<1>3. CASE UnlinkEpisodes
  BY <1>0, <1>3 DEF UnlinkEpisodes, enrichment
<1>4. CASE UnlinkPapers
  BY <1>0, <1>4 DEF UnlinkPapers, enrichment
<1>5. CASE ReuseRecord \/ AskTeacher \/ CaseRaises
  <2>1. pc = "case" /\ pc' \in Enriching
    BY <1>5 DEF ReuseRecord, AskTeacher, CaseRaises, NextCase
  <2>2. UNCHANGED <<man, val, pil, built>>
    BY <1>5 DEF ReuseRecord, AskTeacher, CaseRaises, outputs
  <2> QED  BY <1>0, <2>1, <2>2
<1>6. CASE CleanUp
  <2>1. pc = "clean up" /\ pc' \in Enriching
    BY <1>6 DEF CleanUp
  <2>2. UNCHANGED <<man, val, pil, built>>
    BY <1>6 DEF CleanUp, outputs
  <2> QED  BY <1>0, <2>1, <2>2
<1>7. CASE WriteProvenance
  BY <1>0, <1>7 DEF WriteProvenance, outputs
<1>8. CASE WriteSummary
  BY <1>0, <1>8 DEF WriteSummary, Release, outputs
<1>9. CASE LoadRecords
  <2>1. UNCHANGED <<man, val, pil, prov, rec>> /\ pc = "load" /\ built = <<>>
    BY <1>0, <1>9 DEF LoadRecords, tree, enrichment, outputs
  <2>2. CASE Committed
    <3>1. /\ \A c \in DOMAIN prov.rec : rec[c] = prov.rec[c]
          /\ ready' \subseteq DOMAIN prov.rec /\ pc' = "compile" /\ built' = <<>>
      BY <1>9, <2>1, <2>2 DEF LoadRecords, Committed, RecordsInPlace
    <3> QED  BY <1>0, <2>1, <3>1
  <2>3. CASE ~Committed
    BY <1>0, <1>9, <2>1, <2>3 DEF LoadRecords, Release
  <2> QED  BY <2>2, <2>3
<1>10. CASE SkipOrKeep
  <2>1. UNCHANGED <<man, val, pil, prov, rec, ready>> /\ pc = "compile"
        /\ pc' \in {"compile", "parquet"}
    BY <1>10 DEF SkipOrKeep, NextEpisode, tree, enrichment, outputs
  <2>2. built' = built \/ (ids[k] \in ready /\ built' = Append(built, Episode(ids[k])))
    BY <1>10 DEF SkipOrKeep
  <2>3. built' \in Seq(({Episode(c) : c \in DOMAIN prov.rec})')
    BY <1>0, <2>1, <2>2, BuiltGrows
  <2> QED  BY <1>0, <2>1, <2>3
<1>11. CASE WriteEvents
  BY <1>0, <1>11 DEF WriteEvents, enrichment
<1>12. CASE WriteTransitions
  <2>1. UNCHANGED <<man, val, pil, prov, rec, ready>> /\ pc = "transitions"
        /\ pc' \in {"compile", "parquet"}
    BY <1>12 DEF WriteTransitions, NextEpisode, enrichment
  <2>2. ids[k] \in ready /\ built' = Append(built, Episode(ids[k]))
    BY <1>0, <1>12 DEF WriteTransitions
  <2>3. built' \in Seq(({Episode(c) : c \in DOMAIN prov.rec})')
    BY <1>0, <2>1, <2>2, BuiltGrows
  <2> QED  BY <1>0, <2>1, <2>3
<1>13. CASE CompileRaises
  BY <1>0, <1>13 DEF CompileRaises, NextEpisode, tree, enrichment, outputs
<1>14. CASE WriteParquet
  BY <1>0, <1>14 DEF WriteParquet, enrichment
<1>15. CASE Tidy
  BY <1>0, <1>15 DEF Tidy, enrichment
<1>16. CASE WriteManifest
  <2>1. UNCHANGED <<val, pil, prov, rec, ready, built>> /\ pc = "manifest" /\ pc' = "validation"
    BY <1>16 DEF WriteManifest, enrichment
  <2>2. man'.prov = prov /\ man'.rows = built
    BY <1>16 DEF WriteManifest, Manifest
  <2>3. \A i \in DOMAIN built : rec[built[i][1]] = built[i][2]
    BY <1>0, <2>1
  <2> QED  BY <1>0, <2>1, <2>2, <2>3
<1>17. CASE WriteValidation
  BY <1>0, <1>17 DEF WriteValidation, Release, enrichment
<1>18. CASE WritePilot
  BY <1>0, <1>18 DEF WritePilot, Release, enrichment
<1> QED
  BY <1>1, <1>2, <1>3, <1>4, <1>5, <1>6, <1>7, <1>8, <1>9, <1>10, <1>11, <1>12, <1>13, <1>14,
     <1>15, <1>16, <1>17, <1>18 DEF CommandStep

\* The papers stay true, whoever takes a step.
LEMMA CitingStep ==
  ASSUME Citing, [Next]_vars
  PROVE  Citing'
<1>1. CASE Edited
  <2>1. UNCHANGED <<enrichment, outputs, command>> /\ (batched => batched')
    BY <1>1, BatchedStays DEF Edited, EditSource
  <2> QED  BY <2>1 DEF Citing, ReportsCiteTheTree, NoPapers, FromCommitted, Episode,
                command, outputs, enrichment
<1>2. CASE Commanded
  <2>1. batched => batched'
    BY <1>2, BatchedStays DEF Commanded
  <2>2. CASE batched
    BY <2>1, <2>2 DEF Citing, ReportsCiteTheTree
  <2>3. CASE ~batched
    BY <1>2, <2>3, CitingCommand DEF Commanded, Citing, ReportsCiteTheTree
  <2> QED  BY <2>2, <2>3
<1>3. CASE Audited
  BY <1>3, CitingAudit
<1>4. CASE Attested
  BY <1>4, CitingLive
<1>5. CASE UNCHANGED vars
  BY <1>5 DEF Citing, ReportsCiteTheTree, NoPapers, FromCommitted, Episode,
     vars, pilotVars, tree, command, outputs, enrichment
<1> QED  BY <1>1, <1>2, <1>3, <1>4, <1>5 DEF Next

\* Whatever commands do, fail at or die in, no paper of the trajectory stage
\* quotes a manifest or a record that is no longer there, until the batch of a
\* live run changes them.
THEOREM PapersCiteTheTree == Spec => []ReportsCiteTheTree
<1>1. Citing => ReportsCiteTheTree
  BY DEF Citing
<1> QED  BY CitingInit, CitingStep, <1>1, PTL DEF Spec

-----------------------------------------------------------------------------
(* What is signed.                                                          *)

Snapping == {"snapshot source", "snapshot summary", "snapshot report", "recheck", "attest", "verify"}
Replayed == {"semantics", "files after", "directories after", "sign"}

\* While there is a snapshot, what it holds of a part nobody has touched is that part.
Current ==
    lpc \in Snapping \cup Verifying =>
        /\ DOMAIN lsnap = {"inventory", "source"}
        /\ lsnap.inventory = [kind |-> "inventory", audit |-> lsnap.inventory.audit,
                              enrichment |-> lsnap.inventory.enrichment,
                              report |-> lsnap.inventory.report, summary |-> lsnap.inventory.summary]
        /\ "audit" \notin touched => lsnap.inventory.audit = audit
        /\ "enrichment" \notin touched => lsnap.inventory.enrichment = <<rec, receipt, prov>>
        /\ "report" \notin touched => lsnap.inventory.report = report
        /\ "summary" \notin touched => lsnap.inventory.summary = sum

\* What is verified is the snapshot, and made since the preflight.
Attests ==
    /\ lpc \in {"verify"} \cup Verifying => att.pre = lpre.audit
    /\ lpc \in Verifying => att.post = lsnap.inventory /\ CreatedSince(att)

\* If the directories are found untouched after the files, both were when the
\* files were found untouched.
Witnessed ==
    /\ lpc = "directories before" /\ {"audit", "enrichment"} \cap touched = {} => att \in truths
    /\ lpc \in Replayed => att \in truths

Signing == Current /\ Attests /\ Witnessed /\ SignedWasTrue

\* Before a run nothing is snapped, attested or signed.
LEMMA SigningInit == Init => Signing
  BY DEF Init, LiveInit, Signing, Current, Attests, Witnessed, SignedWasTrue, Snapping, Verifying, Replayed

\* An attestation that was true at a moment is remembered.
LEMMA TruthsGrow == Remember => truths \subseteq truths'
  BY DEF Remember

\* Steps of others: a part that changes is touched.
LEMMA SigningOthers ==
  ASSUME Signing, Remember, UNCHANGED <<report, att, signed, live_run>>, Touch
  PROVE  Signing'
<1>1. UNCHANGED <<lpc, lpre, lpost, lrep, lsnap, report, att, signed>> /\ truths \subseteq truths'
  BY TruthsGrow DEF live_run
<1>2. ASSUME lpc \in Snapping \cup Verifying
      PROVE  touched' = touched \cup {p \in Parts : Part(p)' # Part(p)}
  <2>1. DOMAIN lsnap = {"inventory", "source"}
    BY <1>2 DEF Signing, Current
  <2>2. DOMAIN None = {"kind"}
    BY DEF None
  <2>3. lsnap # None
    BY <2>1, <2>2
  <2> QED  BY <2>3 DEF Touch
<1>3. touched \subseteq touched'
  BY DEF Touch
<1>4. ASSUME lpc \in Snapping \cup Verifying
      PROVE  /\ "audit" \notin touched' => audit' = audit
             /\ "enrichment" \notin touched' => <<rec, receipt, prov>>' = <<rec, receipt, prov>>
             /\ "summary" \notin touched' => sum' = sum
  <2>1. "audit" \in Parts /\ "enrichment" \in Parts /\ "summary" \in Parts
    BY DEF Parts
  <2>2. Part("audit") = audit /\ Part("enrichment") = <<rec, receipt, prov>> /\ Part("summary") = sum
    BY DEF Part
  <2>3. Part("audit")' = audit' /\ Part("enrichment")' = <<rec, receipt, prov>>' /\ Part("summary")' = sum'
    BY DEF Part
  <2> QED  BY <1>2, <1>4, <2>1, <2>2, <2>3
<1>5. Current'
  BY <1>1, <1>3, <1>4 DEF Signing, Current
<1>6. Attests'
  BY <1>1 DEF Signing, Attests, CreatedSince
<1>7. Witnessed' /\ SignedWasTrue'
  BY <1>1, <1>3 DEF Signing, Witnessed, SignedWasTrue
<1> QED  BY <1>5, <1>6, <1>7 DEF Signing

\* Steps of the run between which nothing is snapped.
LEMMA SigningBefore ==
  ASSUME Signing, Remember, UNCHANGED <<signed>>, lpc' \notin Snapping \cup Verifying
  PROVE  Signing'
<1>1. truths \subseteq truths'
  BY TruthsGrow
<1>2. Replayed \subseteq Verifying /\ "verify" \in Snapping /\ "directories before" \in Verifying
  BY DEF Replayed, Verifying, Snapping
<1> QED  BY <1>1, <1>2 DEF Signing, Current, Attests, Witnessed, SignedWasTrue

\* Every step of a live run keeps what its attestation says witnessed.
LEMMA SigningAttested ==
  ASSUME Signing, Attested
  PROVE  Signing'
<1> USE DEF Snapping, Verifying, Replayed
<1>0. Remember /\ truths \subseteq truths' /\ LiveStep
  BY TruthsGrow DEF Attested
<1>1. CASE Preflight \/ EnterRun \/ EnterBatch \/ RunBatch \/ BatchRaises \/ ReadPost \/ ReplayReport
  <2>1. UNCHANGED signed /\ lpc' \notin Snapping \cup Verifying
    BY <1>1 DEF Preflight, EnterRun, EnterBatch, RunBatch, BatchRaises, ReadPost, ReplayReport,
       GoOnIf, LiveEnds
  <2> QED  BY <1>0, <2>1, SigningBefore
<1>2. CASE NoteDirectories
  <2>1. lpc' = "snapshot source" /\ lsnap' = [inventory |-> Inventory, source |-> 0] /\ touched' = {}
        /\ UNCHANGED <<pilotVars, report, signed>>
    BY <1>2 DEF NoteDirectories
  <2>2. DOMAIN lsnap' = {"inventory", "source"} /\ lsnap'.inventory = Inventory
    BY <2>1
  <2>3. Current'
    BY <2>1, <2>2 DEF Current, Inventory, pilotVars, tree, enrichment
  <2> QED  BY <1>0, <2>1, <2>3 DEF Signing, Attests, Witnessed, SignedWasTrue
<1>3. CASE ReadSource
  <2>1. lpc = "snapshot source" /\ lpc' = "snapshot summary" /\ UNCHANGED <<pilotVars, report, signed>>
        /\ touched' = touched \ {"source"} /\ lsnap' = [lsnap EXCEPT !.source = source]
    BY <1>3 DEF ReadSource
  <2>2. DOMAIN lsnap' = {"inventory", "source"} /\ lsnap'.inventory = lsnap.inventory
    BY <2>1 DEF Signing, Current
  <2>3. Current'
    BY <2>1, <2>2 DEF Signing, Current, pilotVars, tree, enrichment
  <2> QED  BY <1>0, <2>1, <2>3 DEF Signing, Attests, Witnessed, SignedWasTrue
<1>4. CASE ReadFiles
  <2>1. lpc' \in {"snapshot report", "recheck"} /\ lpc \in Snapping
        /\ UNCHANGED <<pilotVars, report, signed>>
    BY <1>4 DEF ReadFiles
  <2>2. Current'
    <3>1. CASE lsnap' = [lsnap EXCEPT !.inventory.summary = sum] /\ touched' = touched \ {"summary"}
      <4>1. DOMAIN lsnap' = {"inventory", "source"}
            /\ lsnap'.inventory = [lsnap.inventory EXCEPT !.summary = sum]
        BY <2>1, <3>1 DEF Signing, Current
      <4>2. lsnap'.inventory = [kind |-> "inventory", audit |-> lsnap.inventory.audit,
                                enrichment |-> lsnap.inventory.enrichment,
                                report |-> lsnap.inventory.report, summary |-> sum]
        <5> DEFINE I == lsnap.inventory
        <5>1. I = [kind |-> "inventory", audit |-> I.audit, enrichment |-> I.enrichment,
                   report |-> I.report, summary |-> I.summary]
          BY <2>1 DEF Signing, Current
        <5>2. lsnap'.inventory = [I EXCEPT !.summary = sum]
          BY <4>1
        <5> HIDE DEF I
        <5>3. [I EXCEPT !.summary = sum]
                = [kind |-> "inventory", audit |-> I.audit, enrichment |-> I.enrichment,
                   report |-> I.report, summary |-> sum]
          BY <5>1
        <5> QED  BY <5>2, <5>3 DEF I
      <4>3. /\ lsnap'.inventory.audit = lsnap.inventory.audit
            /\ lsnap'.inventory.enrichment = lsnap.inventory.enrichment
            /\ lsnap'.inventory.report = lsnap.inventory.report
            /\ lsnap'.inventory.summary = sum
        BY <4>2
      <4>4. /\ "audit" \notin touched => lsnap.inventory.audit = audit
            /\ "enrichment" \notin touched => lsnap.inventory.enrichment = <<rec, receipt, prov>>
            /\ "report" \notin touched => lsnap.inventory.report = report
        BY <2>1 DEF Signing, Current
      <4>5. UNCHANGED <<audit, rec, receipt, prov, sum, report>>
        BY <2>1 DEF pilotVars, tree, enrichment
      <4> QED  BY <3>1, <4>1, <4>2, <4>3, <4>4, <4>5 DEF Current
    <3>2. CASE lsnap' = [lsnap EXCEPT !.inventory.report = report] /\ touched' = touched \ {"report", "papers"}
      <4>1. DOMAIN lsnap' = {"inventory", "source"}
            /\ lsnap'.inventory = [lsnap.inventory EXCEPT !.report = report]
        BY <2>1, <3>2 DEF Signing, Current
      <4>2. lsnap'.inventory = [kind |-> "inventory", audit |-> lsnap.inventory.audit,
                                enrichment |-> lsnap.inventory.enrichment,
                                report |-> report, summary |-> lsnap.inventory.summary]
        <5> DEFINE I == lsnap.inventory
        <5>1. I = [kind |-> "inventory", audit |-> I.audit, enrichment |-> I.enrichment,
                   report |-> I.report, summary |-> I.summary]
          BY <2>1 DEF Signing, Current
        <5>2. lsnap'.inventory = [I EXCEPT !.report = report]
          BY <4>1
        <5> HIDE DEF I
        <5>3. [I EXCEPT !.report = report]
                = [kind |-> "inventory", audit |-> I.audit, enrichment |-> I.enrichment,
                   report |-> report, summary |-> I.summary]
          BY <5>1
        <5> QED  BY <5>2, <5>3 DEF I
      <4>3. /\ lsnap'.inventory.audit = lsnap.inventory.audit
            /\ lsnap'.inventory.enrichment = lsnap.inventory.enrichment
            /\ lsnap'.inventory.report = report
            /\ lsnap'.inventory.summary = lsnap.inventory.summary
        BY <4>2
      <4>4. /\ "audit" \notin touched => lsnap.inventory.audit = audit
            /\ "enrichment" \notin touched => lsnap.inventory.enrichment = <<rec, receipt, prov>>
            /\ "summary" \notin touched => lsnap.inventory.summary = sum
        BY <2>1 DEF Signing, Current
      <4>5. UNCHANGED <<audit, rec, receipt, prov, sum, report>>
        BY <2>1 DEF pilotVars, tree, enrichment
      <4> QED  BY <3>2, <4>1, <4>2, <4>3, <4>4, <4>5 DEF Current
    <3> QED  BY <1>4, <3>1, <3>2 DEF ReadFiles
  <2> QED  BY <1>0, <2>1, <2>2 DEF Signing, Attests, Witnessed, SignedWasTrue
<1>5. CASE lpc' = "idle"
  <2>1. CASE UNCHANGED signed
    BY <1>0, <1>5, <2>1, SigningBefore
  <2>2. CASE lpc = "sign" /\ signed' = att
    <3>1. SignedWasTrue'
      BY <1>0, <2>2 DEF Signing, Witnessed, SignedWasTrue
    <3> QED  BY <1>5, <3>1 DEF Signing, Current, Attests, Witnessed
  <2> QED  BY <1>0, <2>1, <2>2 DEF LiveStep, Preflight, EnterRun, EnterBatch, RunBatch, BatchRaises,
                ReadPost, ReplayReport, NoteDirectories, ReadSource, ReadFiles, RecheckDirectories,
                Attest, VerifyInProcess, CompareWithTree, VerifyHeld, Sign
<1>6. CASE RecheckDirectories /\ lpc' # "idle"
  <2>1. lpc = "recheck" /\ lpc' = "attest" /\ UNCHANGED <<pilotVars, report, signed, touched, lsnap>>
    BY <1>6 DEF RecheckDirectories, GoOnIf, LiveEnds
  <2> QED  BY <1>0, <2>1 DEF Signing, Current, Attests, Witnessed, SignedWasTrue, pilotVars, tree, enrichment
<1>7. CASE Attest /\ lpc' # "idle"
  <2>1. lpc = "attest" /\ lpc' = "verify" /\ UNCHANGED <<pilotVars, report, signed, touched, lsnap, lpre>>
        /\ att' = Attestation
    BY <1>7 DEF Attest, GoOnIf, LiveEnds
  <2>2. att'.pre = lpre'.audit
    BY <2>1 DEF Attestation
  <2> QED  BY <1>0, <2>1, <2>2 DEF Signing, Current, Attests, Witnessed, SignedWasTrue, pilotVars, tree, enrichment
<1>8. CASE VerifyInProcess /\ lpc' # "idle"
  <2>1. lpc = "verify" /\ lpc' = "files before" /\ SnapshotBears(att)
        /\ UNCHANGED <<pilotVars, report, att, signed, touched, lsnap, lpre>>
    BY <1>8 DEF VerifyInProcess, GoOnIf, LiveEnds
  <2>2. att.post = lsnap.inventory /\ CreatedSince(att)
    BY <2>1 DEF SnapshotBears, Bound, Replica
  <2> QED  BY <1>0, <2>1, <2>2 DEF Signing, Current, Attests, Witnessed, SignedWasTrue, CreatedSince,
                pilotVars, tree, enrichment
<1>9. CASE CompareWithTree /\ lpc' # "idle"
  <2>1. UNCHANGED <<pilotVars, report, att, signed, touched, lsnap, lpre>>
    BY <1>9 DEF CompareWithTree, GoOnIf, LiveEnds
  <2>2. \/ lpc = "files before" /\ lpc' = "directories before" /\ touched \cap {"summary", "report"} = {}
        \/ /\ lpc = "directories before" /\ lpc' = "semantics"
           /\ touched \cap {"audit", "enrichment"} = {}
        \/ lpc \in Replayed /\ lpc' \in Replayed
    BY <1>9 DEF CompareWithTree, GoOnIf, LiveEnds, Untouched, FilesOfReports, Parts
  <2>3. Current' /\ Attests' /\ SignedWasTrue'
    BY <1>0, <2>1, <2>2 DEF Signing, Current, Attests, SignedWasTrue, CreatedSince, pilotVars, tree, enrichment
  <2>4. ASSUME lpc = "files before", lpc' = "directories before", touched \cap {"summary", "report"} = {},
               {"audit", "enrichment"} \cap touched = {}
        PROVE  att' \in truths'
    <3>1. lsnap.inventory = Inventory
      BY <2>4 DEF Signing, Current, Inventory
    <3>2. Inventory' = Inventory
      BY <2>1 DEF Inventory, pilotVars, tree, enrichment
    <3>3. Inventory' = att'.post
      BY <2>1, <2>4, <3>1, <3>2 DEF Signing, Attests
    <3>4. att'.attempts \cap DOMAIN lpre'.audit = {}
      BY <2>1, <2>4 DEF Signing, Attests, CreatedSince
    <3> QED  BY <1>0, <2>4, <3>3, <3>4 DEF Remember
  <2>5. Witnessed'
    BY <1>0, <2>1, <2>2, <2>4 DEF Signing, Witnessed
  <2> QED  BY <2>3, <2>5 DEF Signing
<1>10. CASE VerifyHeld /\ lpc' # "idle"
  <2>1. lpc = "semantics" /\ lpc' = "files after"
        /\ UNCHANGED <<pilotVars, report, att, signed, touched, lsnap, lpre>>
    BY <1>10 DEF VerifyHeld, GoOnIf, LiveEnds
  <2> QED  BY <1>0, <2>1 DEF Signing, Current, Attests, Witnessed, SignedWasTrue, CreatedSince,
                pilotVars, tree, enrichment
<1> QED
  BY <1>0, <1>1, <1>2, <1>3, <1>4, <1>5, <1>6, <1>7, <1>8, <1>9, <1>10
     DEF LiveStep, Sign, LiveEnds

\* What is signed stays witnessed, whoever takes a step.
LEMMA SigningStep ==
  ASSUME Signing, [Next]_vars
  PROVE  Signing'
<1>1. CASE Edited \/ Commanded
  BY <1>1, SigningOthers DEF Edited, Commanded
<1>2. CASE Audited
  <2>1. UNCHANGED <<source, audit, enrichment, outputs>>
    BY <1>2 DEF Audited, AuditStep, ReadProvenance, ReadListed, ReadManifest, ScanTeacherAudit,
         ReadBaseline, ReadParquet, CheckRecord, CheckEpisode, WriteTemporary, ReplaceMarkdown,
         ReplaceJson, pilotVars, tree
  <2>2. UNCHANGED liveVars /\ truths \subseteq truths'
    BY <1>2, TruthsGrow DEF Audited
  <2> QED  BY <2>1, <2>2 DEF Signing, Current, Attests, Witnessed, SignedWasTrue, CreatedSince,
                liveVars, live_run, enrichment
<1>3. CASE Attested
  BY <1>3, SigningAttested
<1>4. CASE UNCHANGED vars
  BY <1>4 DEF Signing, Current, Attests, Witnessed, SignedWasTrue, CreatedSince,
     vars, liveVars, live_run, pilotVars, tree, enrichment
<1> QED  BY <1>1, <1>2, <1>3, <1>4 DEF Next

\* The launcher signs only what was the tree at one moment since its verifier
\* began, with attempts made since the preflight, whoever writes the tree meanwhile.
THEOREM SignaturesAreTrue == Spec => []SignedWasTrue
<1>1. Signing => SignedWasTrue
  BY DEF Signing
<1> QED  BY SigningInit, SigningStep, <1>1, PTL DEF Spec

=============================================================================
