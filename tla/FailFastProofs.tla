--------------------------- MODULE FailFastProofs ---------------------------
(***************************************************************************)
(* The properties of FailFastBatch, for any scope, segments, verdicts and   *)
(* any number of runs and faults.                                           *)
(***************************************************************************)
EXTENDS FailFastBatch, TLAPS

Archiving == {"archive manifest", "archive summary", "archive report"}
InRunner  == {"existing", "attempt", "publish", "readback", "discard", "fail"}
Ending    == {"manifest", "summary", "report"}

\* Where the run is.
Under ==
    /\ pc # "idle" => requested \in Segments
    /\ pc \in InRunner \cup {"ensure"} => started \in 1 .. Len(requested)
    /\ pc \in Archiving \cup {"idle"} => started = 0
    /\ pc \in Archiving \cup {"idle", "case"} \cup InRunner => ~failed
    /\ pc = "ensure" => failed
    /\ pc \in Ending /\ failed => started \in 1 .. Len(requested)
    /\ pc \in Ending /\ ~failed => started = Len(requested)

\* The runner is on its way through the attempts of a case that has no valid
\* answer yet, in a tree whose audit was accepted.
Trying ==
    /\ pc = "existing" => attempt = 0
    /\ pc = "attempt" =>
         /\ attempt \in 0 .. 2
         /\ \A i \in 1 .. attempt : i \in DOMAIN attempts[Case] /\ attempts[Case][i] \in Repairable
    /\ pc \in Archiving \cup {"case", "existing", "attempt", "publish", "readback"} =>
         /\ clean
         /\ \A c \in Cases : \A i \in DOMAIN attempts[c] : attempts[c][i] # "transport"
    /\ \A c \in Cases : Len(attempts[c]) <= 3
    /\ clean => \A c \in Cases : calls[c] = Len(attempts[c])

Segment(seg) == \E i \in DOMAIN Scope : i + Len(seg) - 1 <= Len(Scope)
                                         /\ seg = SubSeq(Scope, i, i + Len(seg) - 1)

\* The cases before the one in hand are served.
Served ==
    pc # "idle" =>
      /\ Segment(requested)
      /\ \A d \in Before(requested[1]) : record[d] # "none"
      /\ \A j \in 1 .. started :
           j < started \/ pc = "case" \/ (pc \in Ending /\ ~failed) =>
              record[requested[j]] = "current" /\ receipt[requested[j]] = None
      /\ pc = "readback" => record[Case] = "current"
      /\ pc \in InRunner => receipt[Case] = None

\* What a report says was so when it was written.
Reported ==
    report # None =>
      LET seg == report.requested
          n   == report.started
      IN  /\ seg \in Segments /\ n \in Nat
          /\ IF report.stopped
             THEN n \in 1 .. Len(seg) /\ \A j \in 1 .. n - 1 : report.inventory[1][seg[j]] = "current"
             ELSE n = Len(seg) /\ \A j \in 1 .. n : report.inventory[3][seg[j]] = None

-----------------------------------------------------------------------------
(* The scope.                                                               *)

Verdict == AllVerdicts \cup {"transport"}

LEMMA ScopeFacts ==
  /\ Len(Scope) \in Nat /\ DOMAIN Scope = 1 .. Len(Scope)
  /\ \A i \in 1 .. Len(Scope) : Scope[i] \in Cases
  /\ \A c \in Cases : \E i \in 1 .. Len(Scope) : c = Scope[i]
  /\ \A i, j \in 1 .. Len(Scope) : Scope[i] = Scope[j] => i = j
  BY ScopeAssumption DEF Cases, Range

LEMMA BeforeIs ==
  ASSUME NEW i \in 1 .. Len(Scope)
  PROVE  Before(Scope[i]) = {Scope[j] : j \in 1 .. i - 1}
  BY ScopeFacts, ScopeAssumption DEF Before

\* Where the m-th case of the scope is in a segment that starts with the i-th.
LEMMA Place ==
  ASSUME NEW i \in Nat, NEW m \in Nat, NEW a \in Nat, NEW b \in Nat, i + a <= m, m + 1 <= i + b
  PROVE  /\ m - i + 1 \in Nat /\ i + (m - i + 1) - 1 = m
         /\ a + 1 <= m - i + 1 /\ m - i + 1 <= b
  OBVIOUS

LEMMA SegmentIs ==
  ASSUME NEW seg \in Segments, NEW i \in DOMAIN Scope, i + Len(seg) - 1 <= Len(Scope),
         seg = SubSeq(Scope, i, i + Len(seg) - 1)
  PROVE  /\ Len(seg) \in Nat /\ Len(seg) >= 1 /\ i >= 1 /\ DOMAIN seg = 1 .. Len(seg)
         /\ \A j \in 1 .. Len(seg) : i + j - 1 \in 1 .. Len(Scope) /\ seg[j] = Scope[i + j - 1]
         /\ \A j, k \in 1 .. Len(seg) : seg[j] = seg[k] => j = k
         /\ \A j \in 1 .. Len(seg) :
              Before(seg[j]) = Before(seg[1]) \cup {seg[k] : k \in 1 .. j - 1}
         /\ \A j \in 1 .. Len(seg) : seg[j] \notin Before(seg[1])
<1>1. seg \in Seq(Cases) /\ seg # <<>>
  BY SegmentsAssumption
<1>2. Len(seg) \in Nat /\ Len(seg) >= 1 /\ i \in 1 .. Len(Scope) /\ DOMAIN seg = 1 .. Len(seg)
  BY <1>1, ScopeFacts
<1>3. ASSUME NEW j \in 1 .. Len(seg)  PROVE i + j - 1 \in 1 .. Len(Scope) /\ seg[j] = Scope[i + j - 1]
  <2>1. i + j - 1 \in 1 .. Len(Scope)
    BY <1>2, ScopeFacts
  <2>2. Scope \in Seq(Cases) /\ i \in Nat /\ i + Len(seg) - 1 \in Nat /\ j \in 1 .. Len(seg)
    BY <1>2, ScopeFacts, ScopeAssumption
  <2>3. SubSeq(Scope, i, i + Len(seg) - 1)[j] = Scope[i + j - 1]
    BY <1>2, <2>2, ScopeFacts, SMTT(30)
  <2> QED  BY <2>1, <2>3
<1>4. ASSUME NEW j \in 1 .. Len(seg), NEW k \in 1 .. Len(seg), seg[j] = seg[k]  PROVE j = k
  <2>1. i + j - 1 = i + k - 1
    BY <1>3, <1>4, ScopeFacts
  <2> QED  BY <1>2, <2>1
<1>5. Before(seg[1]) = {Scope[j] : j \in 1 .. i - 1}
  <2>1. seg[1] = Scope[i]
    <3>1. 1 \in 1 .. Len(seg) /\ i + 1 - 1 = i
      BY <1>2
    <3> QED  BY <1>3, <3>1
  <2> QED  BY <1>2, <2>1, BeforeIs
<1>6. ASSUME NEW j \in 1 .. Len(seg)
      PROVE  Before(seg[j]) = Before(seg[1]) \cup {seg[k] : k \in 1 .. j - 1}
  <2>1. Before(seg[j]) = {Scope[m] : m \in 1 .. i + j - 2}
    <3> DEFINE k == i + j - 1
    <3>1. k \in 1 .. Len(Scope) /\ seg[j] = Scope[k] /\ k - 1 = i + j - 2
      BY <1>2, <1>3
    <3> HIDE DEF k
    <3> QED  BY <3>1, BeforeIs
  <2>2. ASSUME NEW m \in 1 .. i + j - 2, m \notin 1 .. i - 1
        PROVE  m - i + 1 \in 1 .. j - 1 /\ Scope[m] = seg[m - i + 1]
    <3> DEFINE k == m - i + 1
    <3>0. i \in Nat /\ j \in Nat /\ m \in Nat /\ 1 <= j /\ i <= m /\ m <= i + j - 2 /\ j <= Len(seg)
      <4>1. i \in Nat /\ j \in Nat /\ 1 <= j /\ j <= Len(seg) /\ i >= 1
        BY <1>2
      <4>2. m \in Nat /\ 1 <= m /\ m <= i + j - 2
        BY <4>1
      <4>3. i <= m
        BY <2>2, <4>1, <4>2
      <4> QED  BY <4>1, <4>2, <4>3
    <3>1. k \in Nat /\ 1 <= k /\ k <= j - 1 /\ i + k - 1 = m
      <4>1. 0 \in Nat /\ j - 1 \in Nat /\ i + 0 <= m /\ m + 1 <= i + (j - 1)
        BY <3>0
      <4>2. 0 + 1 <= k /\ k \in Nat /\ k <= j - 1 /\ i + k - 1 = m
        BY <3>0, <4>1, Place
      <4> QED  BY <4>2
    <3> HIDE DEF k
    <3>2. k \in 1 .. j - 1 /\ k \in 1 .. Len(seg)
      BY <1>2, <3>0, <3>1
    <3>3. seg[k] = Scope[m]
      BY <1>3, <3>1, <3>2
    <3> QED  BY <3>2, <3>3 DEF k
  <2>3. ASSUME NEW k \in 1 .. j - 1
        PROVE  i + k - 1 \in 1 .. i + j - 2 /\ seg[k] = Scope[i + k - 1]
    <3>1. k \in 1 .. Len(seg)
      BY <1>2
    <3>2. seg[k] = Scope[i + k - 1]
      BY <1>3, <3>1
    <3>3. i + k - 1 \in 1 .. i + j - 2
      BY <1>2, <3>1
    <3> QED  BY <3>2, <3>3
  <2>4. ASSUME NEW m \in 1 .. i + j - 2
        PROVE  Scope[m] \in Before(seg[1]) \cup {seg[k] : k \in 1 .. j - 1}
    BY <1>5, <2>2, <2>4
  <2>5. ASSUME NEW m \in 1 .. i - 1  PROVE m \in 1 .. i + j - 2
    BY <1>2
  <2>6. Before(seg[1]) \subseteq Before(seg[j])
    BY <1>5, <2>1, <2>5
  <2>7. {seg[k] : k \in 1 .. j - 1} \subseteq Before(seg[j])
    BY <2>1, <2>3
  <2>8. Before(seg[j]) \subseteq Before(seg[1]) \cup {seg[k] : k \in 1 .. j - 1}
    BY <2>1, <2>4
  <2> QED  BY <2>6, <2>7, <2>8
<1>7. ASSUME NEW j \in 1 .. Len(seg), seg[j] \in Before(seg[1])  PROVE FALSE
  <2>1. PICK m \in 1 .. i - 1 : seg[j] = Scope[m]
    BY <1>5, <1>7
  <2>2. m \in 1 .. Len(Scope) /\ i + j - 1 \in 1 .. Len(Scope) /\ Scope[m] = Scope[i + j - 1]
    BY <1>2, <1>3, <2>1, ScopeFacts
  <2>3. m = i + j - 1
    BY <2>2, ScopeFacts
  <2> QED  BY <1>2, <2>1, <2>3
<1>8. \A j \in 1 .. Len(seg) : seg[j] \notin Before(seg[1])
  BY <1>7
<1>9. \A j \in 1 .. Len(seg) : i + j - 1 \in 1 .. Len(Scope) /\ seg[j] = Scope[i + j - 1]
  BY <1>3
<1>10. \A j, k \in 1 .. Len(seg) : seg[j] = seg[k] => j = k
  BY <1>4
<1>11. \A j \in 1 .. Len(seg) : Before(seg[j]) = Before(seg[1]) \cup {seg[k] : k \in 1 .. j - 1}
  BY <1>6
<1>12. Len(seg) \in Nat /\ Len(seg) >= 1 /\ i >= 1 /\ DOMAIN seg = 1 .. Len(seg)
  BY <1>2
<1> QED  BY <1>8, <1>9, <1>10, <1>11, <1>12

LEMMA SegmentFacts ==
  ASSUME NEW seg \in Segments, Segment(seg)
  PROVE  /\ Len(seg) \in Nat /\ Len(seg) >= 1 /\ DOMAIN seg = 1 .. Len(seg)
         /\ \A j \in 1 .. Len(seg) : seg[j] \in Cases
         /\ \A j, k \in 1 .. Len(seg) : seg[j] = seg[k] => j = k
         /\ \A j \in 1 .. Len(seg) :
              Before(seg[j]) = Before(seg[1]) \cup {seg[k] : k \in 1 .. j - 1}
         /\ \A j \in 1 .. Len(seg) : seg[j] \notin Before(seg[1])
<1>1. PICK i \in DOMAIN Scope : i + Len(seg) - 1 <= Len(Scope) /\ seg = SubSeq(Scope, i, i + Len(seg) - 1)
  BY DEF Segment
<1>2. \A j \in 1 .. Len(seg) : seg[j] \in Cases
  BY SegmentsAssumption
<1> QED  BY <1>1, <1>2, SegmentIs

\* What comes after a case of a segment is in the rest of it, or behind it.
LEMMA AfterIs ==
  ASSUME NEW seg \in Segments, Segment(seg), NEW n \in 1 .. Len(seg), NEW d \in After(seg[n])
  PROVE  d \in Forbidden(seg) \/ \E j \in n + 1 .. Len(seg) : d = seg[j]
<1>1. PICK i \in DOMAIN Scope : i + Len(seg) - 1 <= Len(Scope) /\ seg = SubSeq(Scope, i, i + Len(seg) - 1)
  BY DEF Segment
<1>2. /\ Len(seg) \in Nat /\ Len(seg) >= 1 /\ i >= 1
      /\ \A j \in 1 .. Len(seg) : i + j - 1 \in 1 .. Len(Scope) /\ seg[j] = Scope[i + j - 1]
  BY <1>1, SegmentIs
<1>3. d \in Cases /\ seg[n] \in Before(d)
  BY DEF After
<1>4. PICK m \in 1 .. Len(Scope) : d = Scope[m]
  BY <1>3, ScopeFacts
<1>5. i + n - 1 < m
  <2>1. PICK l \in 1 .. m - 1 : seg[n] = Scope[l]
    BY <1>3, <1>4, BeforeIs
  <2>2. l = i + n - 1
    <3>1. i + n - 1 \in 1 .. Len(Scope) /\ Scope[l] = Scope[i + n - 1] /\ l \in 1 .. Len(Scope)
      BY <1>2, <1>4, <2>1, ScopeFacts
    <3> QED  BY <3>1, ScopeFacts
  <2> QED  BY <1>4, <2>1, <2>2, ScopeFacts
<1>6. CASE m <= i + Len(seg) - 1
  <2> DEFINE j == m - i + 1
  <2>1. n \in Nat /\ i \in Nat /\ m \in Nat /\ Len(seg) \in Nat
    BY <1>1, <1>2, <1>4, ScopeFacts
  <2>2. j \in Nat /\ n + 1 <= j /\ j <= Len(seg) /\ i + j - 1 = m
    <3>1. i + n <= m /\ m + 1 <= i + Len(seg)
      BY <1>5, <1>6, <2>1
    <3> QED  BY <2>1, <3>1, Place
  <2> HIDE DEF j
  <2>3. j \in n + 1 .. Len(seg) /\ j \in 1 .. Len(seg)
    BY <1>2, <2>1, <2>2
  <2>4. d = seg[j]
    BY <1>2, <1>4, <2>2, <2>3
  <2> QED  BY <2>3, <2>4
<1>7. CASE m > i + Len(seg) - 1
  <2>1. i + Len(seg) - 1 \in 1 .. m - 1 /\ seg[Len(seg)] = Scope[i + Len(seg) - 1]
    BY <1>1, <1>2, <1>4, <1>7, ScopeFacts
  <2>2. seg[Len(seg)] \in Before(d)
    BY <1>4, <2>1, BeforeIs
  <2> QED  BY <1>3, <2>2 DEF Forbidden, After
<1> QED  BY <1>1, <1>2, <1>4, <1>6, <1>7, ScopeFacts

-----------------------------------------------------------------------------
(* Types.                                                                   *)

TypeRun ==
    /\ pc \in {"idle", "archive manifest", "archive summary", "archive report", "case",
               "existing", "attempt", "publish", "readback", "discard", "fail",
               "ensure", "manifest", "summary", "report", "verify"}
    /\ requested \in Segments \cup {<<>>} /\ started \in 0 .. Len(requested)
    /\ mode \in {"none", "forward_recovery", "explicit_reattestation"}
    /\ attempt \in 0 .. 3 /\ runs \in 0 .. MaxRuns /\ faults \in 0 .. MaxFaults

TypeFlags == moved \in BOOLEAN /\ clean \in BOOLEAN /\ failed \in BOOLEAN

TypeTree ==
    /\ record \in [Cases -> {"none", "v21", "v22", "current"}]
    /\ receipt \in [Cases -> Receipts] /\ history \subseteq Cases \X (Receipts \ {None})
    /\ pending \in Receipts
    /\ attempts \in [Cases -> Seq(Verdict)] /\ calls \in [Cases -> Nat]

LEMMA TypeParts == TypeOK <=> TypeRun /\ TypeFlags /\ TypeTree
  BY DEF TypeOK, TypeRun, TypeFlags, TypeTree, Verdict

LEMMA InitInv == Init => TypeOK /\ Under /\ Trying /\ Served /\ Reported
<1> SUFFICES ASSUME Init PROVE TypeOK /\ Under /\ Trying /\ Served /\ Reported
  OBVIOUS
<1>1. TypeRun
  BY BoundsAssumption DEF Init, TypeRun
<1>2. TypeFlags
  BY DEF Init, TypeFlags
<1>3. TypeTree
  BY DEF Init, TypeTree, Receipts
<1>4. Under
  BY DEF Init, Under, Archiving, InRunner, Ending
<1>5. Trying
  BY DEF Init, Trying, Archiving
<1>6. Served /\ Reported
  BY DEF Init, Served, Reported
<1> QED  BY <1>1, <1>2, <1>3, <1>4, <1>5, <1>6, TypeParts

\* A run that is about a case is about one of the scope.
LEMMA CaseIs ==
  ASSUME Under, pc \in InRunner \cup {"ensure"}
  PROVE  Case \in Cases /\ requested \in Segments /\ started \in 1 .. Len(requested)
<1>1. requested \in Segments /\ started \in 1 .. Len(requested)
  BY DEF Under, InRunner
<1>2. requested \in Seq(Cases)
  BY <1>1, SegmentsAssumption
<1> QED  BY <1>1, <1>2 DEF Case

LEMMA ReceiptType ==
  ASSUME NEW kind \in Kinds, NEW n \in 0 .. 4, NEW v \in 0 .. 3
  PROVE  Receipt(kind, n, v) \in Receipts
  BY BoundsAssumption DEF Receipt, Receipts

LEMMA ExhaustedType ==
  ASSUME NEW seq \in Seq(Verdict), Len(seq) \in 1 .. 3, seq[Len(seq)] \in Repairable
  PROVE  ExhaustedReceipt(seq) \in Receipts
<1> DEFINE Seen == {i \in DOMAIN seq : seq[i] \in {"semantic", "metadata"}}
<1>1. Seen \subseteq 1 .. 3
  OBVIOUS
<1>2. ASSUME Seen # {}
      PROVE  \E i \in Seen : \A j \in Seen : j <= i
  <2>1. CASE 3 \in Seen
    BY <1>1, <2>1
  <2>2. CASE 3 \notin Seen /\ 2 \in Seen
    BY <1>1, <2>2
  <2>3. CASE 3 \notin Seen /\ 2 \notin Seen
    BY <1>1, <1>2, <2>3
  <2> QED  BY <2>1, <2>2, <2>3
<1>3. LastValidated(seq) = IF Seen = {} THEN 0 ELSE CHOOSE i \in Seen : \A j \in Seen : j <= i
  BY DEF LastValidated
<1> HIDE DEF Seen
<1>4. LastValidated(seq) \in 0 .. 3
  <2>1. Seen # {} => (CHOOSE i \in Seen : \A j \in Seen : j <= i) \in Seen
    BY <1>2, Zenon
  <2>2. LastValidated(seq) = 0 \/ LastValidated(seq) \in Seen
    BY <1>3, <2>1, Zenon
  <2> DEFINE last == LastValidated(seq)
  <2>3. last = 0 \/ last \in Seen
    BY <2>2
  <2> HIDE DEF last
  <2>4. last \in Seen => last \in 1 .. 3
    BY <1>1
  <2>5. last \in 0 .. 3
    BY <2>3, <2>4
  <2> QED  BY <2>5 DEF last
<1>5. seq[Len(seq)] \in Kinds /\ Len(seq) \in 0 .. 4
  BY DEF Kinds
<1> QED  BY <1>4, <1>5, ReceiptType DEF ExhaustedReceipt

\* What a verdict leads to.
LEMMA JudgedIs ==
  ASSUME NEW v, NEW seq \in Seq(Verdict), Judged(v, seq), attempt \in 0 .. 2, Len(seq) = attempt + 1,
         seq[Len(seq)] = v, TypeOK
  PROVE  /\ attempt' = attempt + 1 /\ pending' \in Receipts /\ faults' \in 0 .. MaxFaults
         /\ \/ v = "valid" /\ pc' = "publish" /\ UNCHANGED failed
            \/ pc' = "fail" /\ UNCHANGED failed
            \/ v \in Repairable /\ attempt' \in 0 .. 2 /\ pc' = "attempt" /\ UNCHANGED failed
            \/ pc' = "ensure" /\ failed'
<1>0. pending \in Receipts /\ faults \in 0 .. MaxFaults
  BY TypeParts DEF TypeRun, TypeTree
<1>1. Receipt("terminal", attempt + 1, 0) \in Receipts
  BY ReceiptType DEF Kinds
<1>2. ASSUME v \in Repairable  PROVE ExhaustedReceipt(seq) \in Receipts
  <2>1. Len(seq) \in 1 .. 3 /\ seq[Len(seq)] \in Repairable
    BY <1>2
  <2> QED  BY <2>1, ExhaustedType
<1>3. CASE Fault /\ RunnerRaises /\ UNCHANGED pending /\ attempt' = attempt + 1
  <2>1. pc' = "ensure" /\ failed'
    BY <1>3 DEF RunnerRaises
  <2>2. faults' \in 0 .. MaxFaults
    BY <1>0, <1>3, BoundsAssumption DEF Fault
  <2> QED  BY <1>0, <1>3, <2>1, <2>2
<1>4. CASE /\ attempt' = attempt + 1 /\ UNCHANGED <<failed, faults>>
           /\ \/ v = "valid" /\ pc' = "publish" /\ UNCHANGED pending
              \/ v = "unusable" /\ pc' = "fail" /\ pending' = Receipt("terminal", attempt + 1, 0)
              \/ v \in Repairable /\ attempt < 2 /\ pc' = "attempt" /\ UNCHANGED pending
              \/ v \in Repairable /\ attempt = 2 /\ pc' = "fail" /\ pending' = ExhaustedReceipt(seq)
  BY <1>0, <1>1, <1>2, <1>4
<1> QED  BY <1>3, <1>4 DEF Judged

-----------------------------------------------------------------------------
(* One step, of a run between its cases or of the runner of a case.         *)

LEMMA TypeTreeStays ==
  ASSUME TypeTree, UNCHANGED <<record, receipt, history, pending, attempts, calls>>
  PROVE  TypeTree'
  BY DEF TypeTree

LEMMA FlagsStep ==
  ASSUME TypeFlags, [Next]_vars
  PROVE  TypeFlags'
<1> USE DEF TypeFlags, evidence, papers, runVars, counts
<1>1. CASE StartRun \/ ArchivePapers \/ StartCase \/ NoMoreCases
  BY <1>1 DEF StartRun, ArchivePapers, StartCase, NoMoreCases
<1>2. CASE ReuseRecord \/ MoveRecord \/ WriteFailure
  BY <1>2 DEF ReuseRecord, MoveRecord, WriteFailure, RunnerRaises
<1>3. CASE ReplayAttempt \/ CallTeacher \/ TeacherUnavailable
  BY <1>3 DEF ReplayAttempt, CallTeacher, TeacherUnavailable, TeacherRaised, Judged, RunnerRaises
<1>4. CASE PublishRecord \/ ReadBack \/ Discard
  BY <1>4 DEF PublishRecord, ReadBack, Discard, RunnerRaises
<1>5. CASE EnsureReceipt
  BY <1>5 DEF EnsureReceipt, Leave
<1>6. CASE WriteManifest \/ PublishSummary
  BY <1>6 DEF WriteManifest, PublishSummary
<1>7. CASE WriteReport
  BY <1>7 DEF WriteReport, Leave
<1>8. CASE VerifyReport \/ Crash
  BY <1>8 DEF VerifyReport, Crash, Leave
<1>9. CASE UNCHANGED vars
  BY <1>9 DEF vars
<1> QED  BY <1>1, <1>2, <1>3, <1>4, <1>5, <1>6, <1>7, <1>8, <1>9 DEF Next, RunCase

LEMMA UnderStep ==
  ASSUME TypeOK, Under, Trying, [Next]_vars
  PROVE  Under'
<1>0. TypeRun
  BY TypeParts
<1> USE DEF Archiving, InRunner, Ending, evidence, papers, runVars, counts
<1>1. CASE Leave
  BY <1>1 DEF Leave, Under
<1>2. CASE StartRun
  BY <1>2 DEF StartRun, Under
<1>3. CASE ArchivePapers
  <2>1. pc \in Archiving /\ pc' \in Archiving \cup {"case"} /\ UNCHANGED runVars
    BY <1>3 DEF ArchivePapers
  <2> QED  BY <2>1 DEF Under
<1>4. CASE StartCase
  <2>1. /\ pc = "case" /\ started < Len(requested) /\ started' = started + 1 /\ pc' = "existing"
        /\ UNCHANGED <<requested, failed>>
    BY <1>4 DEF StartCase
  <2>2. requested \in Seq(Cases)
    BY <2>1, SegmentsAssumption DEF Under
  <2> QED  BY <1>0, <2>1, <2>2 DEF Under, TypeRun
<1>5. CASE NoMoreCases
  BY <1>5 DEF NoMoreCases, Under
<1>6. CASE RunCase
  <2>1. pc \in InRunner /\ UNCHANGED <<requested, started>>
    BY <1>6 DEF RunCase, ReuseRecord, MoveRecord, ReplayAttempt, CallTeacher, TeacherUnavailable,
       PublishRecord, ReadBack, Discard, WriteFailure
  <2>2. (pc' \in InRunner \cup {"case"} /\ UNCHANGED failed) \/ (pc' = "ensure" /\ failed')
    <3>1. CASE ReuseRecord \/ MoveRecord \/ PublishRecord
      BY <3>1 DEF ReuseRecord, MoveRecord, PublishRecord, RunnerRaises
    <3>2. CASE ReplayAttempt \/ CallTeacher \/ TeacherUnavailable
      BY <3>2 DEF ReplayAttempt, CallTeacher, TeacherUnavailable, TeacherRaised, Judged, RunnerRaises
    <3>3. CASE ReadBack \/ Discard \/ WriteFailure
      BY <3>3 DEF ReadBack, Discard, WriteFailure, RunnerRaises
    <3> QED  BY <1>6, <3>1, <3>2, <3>3 DEF RunCase
  <2>3. requested' \in Segments /\ started' \in 1 .. Len(requested') /\ ~failed
    BY <2>1 DEF Under
  <2>4. CASE pc' \in InRunner \cup {"case"} /\ UNCHANGED failed
    <3>1. ~failed'
      BY <2>3, <2>4
    <3> QED  BY <2>3, <2>4, <3>1 DEF Under
  <2>5. CASE pc' = "ensure" /\ failed'
    BY <2>3, <2>5 DEF Under
  <2> QED  BY <2>2, <2>4, <2>5
<1>7. CASE EnsureReceipt /\ ~Leave
  <2>1. pc = "ensure" /\ pc' = "manifest" /\ UNCHANGED <<requested, started, failed>>
    BY <1>7 DEF EnsureReceipt
  <2> QED  BY <2>1 DEF Under
<1>8. CASE WriteManifest \/ PublishSummary
  <2>1. pc \in Ending /\ pc' \in Ending /\ UNCHANGED <<requested, started, failed>>
    BY <1>8 DEF WriteManifest, PublishSummary
  <2> QED  BY <2>1 DEF Under
<1>9. CASE WriteReport /\ ~Leave
  BY <1>9 DEF WriteReport, Under
<1>10. CASE UNCHANGED vars
  BY <1>10 DEF vars, Under
<1> QED
  BY <1>1, <1>2, <1>3, <1>4, <1>5, <1>6, <1>7, <1>8, <1>9, <1>10 DEF Next, VerifyReport, Crash

\* The tree a run starts with has no failure of the provider in its audit.
LEMMA StartsClean ==
  ASSUME StartRun
  PROVE  clean /\ \A c \in Cases : \A i \in DOMAIN attempts[c] : attempts[c][i] # "transport"
<1>1. AuditAccepted({})
  BY DEF StartRun, ScopeHolds
<1>2. ASSUME NEW c \in Cases, NEW i \in DOMAIN attempts[c], attempts[c][i] = "transport"
      PROVE  FALSE
  <2>1. <<c, i>> \in Transports(Cases \ {})
    BY <1>2 DEF Transports
  <2> QED  BY <1>1, <2>1 DEF AuditAccepted
<1> QED  BY <1>1, <1>2 DEF AuditAccepted

\* Steps that leave the audit trail and the count of calls as they are.
LEMMA TryingStays ==
  ASSUME Trying, UNCHANGED <<attempts, clean, calls>>,
         pc' # "existing" \/ attempt' = 0,
         pc' # "attempt",
         pc' \in Archiving \cup {"case", "existing", "publish", "readback"} =>
           pc \in Archiving \cup {"case", "existing", "attempt", "publish", "readback"}
  PROVE  Trying'
  BY DEF Trying

\* The runner judges the response to its next request.
LEMMA TryingJudged ==
  ASSUME TypeOK, Trying, pc = "attempt", UNCHANGED <<requested, started>>, Case \in Cases,
         NEW v, NEW seq \in Seq(Verdict), Judged(v, seq), Len(seq) = attempt + 1, seq[Len(seq)] = v,
         attempts' \in [Cases -> Seq(Verdict)], clean',
         \A c \in Cases : Len(attempts'[c]) <= 3 /\ calls'[c] = Len(attempts'[c]),
         \A c \in Cases : \A i \in DOMAIN attempts'[c] : attempts'[c][i] # "transport",
         attempt + 1 \in DOMAIN attempts'[Case], attempts'[Case][attempt + 1] = v,
         \A i \in 1 .. attempt : i \in DOMAIN attempts'[Case] /\ attempts'[Case][i] = attempts[Case][i]
  PROVE  Trying'
<1>1. attempt \in 0 .. 2 /\ \A i \in 1 .. attempt : attempts[Case][i] \in Repairable
  BY DEF Trying
<1>2. /\ attempt' = attempt + 1
      /\ \/ pc' = "attempt" /\ v \in Repairable /\ attempt' \in 0 .. 2
         \/ pc' \in {"publish", "fail", "ensure"}
  BY <1>1, JudgedIs
<1>3. Case' = Case
  BY DEF Case
<1>4. ASSUME pc' = "attempt"
      PROVE  \A i \in 1 .. attempt' : i \in DOMAIN attempts'[Case] /\ attempts'[Case][i] \in Repairable
  <2>1. v \in Repairable
    BY <1>2, <1>4
  <2>2. \A i \in 1 .. attempt' : i \in 1 .. attempt \/ i = attempt + 1
    BY <1>1, <1>2
  <2> QED  BY <1>1, <2>1, <2>2
<1> QED  BY <1>2, <1>3, <1>4 DEF Trying

\* A sequence with m elements and no further one.
LEMMA LengthIs ==
  ASSUME NEW n \in Nat, NEW m \in 0 .. 2, m + 1 \notin 1 .. n, \A i \in 1 .. m : i \in 1 .. n
  PROVE  n = m
<1>1. n < m + 1
  OBVIOUS
<1>2. m = 0 \/ m \in 1 .. n
  OBVIOUS
<1> QED  BY <1>1, <1>2

LEMMA TryingStep ==
  ASSUME TypeOK, Under, Trying, [Next]_vars
  PROVE  Trying'
<1>0. TypeRun /\ TypeTree
  BY TypeParts
<1> USE DEF Archiving, evidence, papers, runVars, counts
<1>1. CASE StartRun
  <2>1. pc' = "archive manifest" /\ UNCHANGED <<attempts, clean, calls>>
    BY <1>1 DEF StartRun
  <2> QED  BY <1>1, <2>1, StartsClean DEF Trying
<1>2. CASE ArchivePapers \/ StartCase \/ NoMoreCases
  BY <1>2, TryingStays DEF ArchivePapers, StartCase, NoMoreCases
<1>3. CASE ReuseRecord \/ PublishRecord \/ ReadBack \/ Discard \/ WriteFailure
  BY <1>3, TryingStays DEF ReuseRecord, PublishRecord, ReadBack, Discard, WriteFailure, RunnerRaises
<1>4. CASE MoveRecord
  <2>1. pc = "existing" /\ pc' \in {"attempt", "ensure"} /\ UNCHANGED <<attempts, clean, calls, attempt>>
    BY <1>4 DEF MoveRecord, RunnerRaises
  <2>2. attempt' = 0 /\ \A i \in 1 .. attempt' : FALSE
    BY <2>1 DEF Trying
  <2>3. clean /\ \A c \in Cases : \A i \in DOMAIN attempts[c] : attempts[c][i] # "transport"
    BY <2>1 DEF Trying
  <2>4. CASE pc' = "attempt"
    <3>1. attempt' \in 0 .. 2 /\ attempts' = attempts /\ calls' = calls /\ clean' = clean
      BY <2>1, <2>2
    <3> QED  BY <2>2, <2>3, <2>4, <3>1 DEF Trying
  <2>5. CASE pc' = "ensure"
    BY <2>1, <2>5 DEF Trying
  <2> QED  BY <2>1, <2>4, <2>5
<1>5. CASE ReplayAttempt
  <2>1. /\ pc = "attempt" /\ attempt + 1 \in DOMAIN attempts[Case]
        /\ Judged(attempts[Case][attempt + 1], SubSeq(attempts[Case], 1, attempt + 1))
        /\ UNCHANGED <<attempts, clean, calls, requested, started>>
    BY <1>5 DEF ReplayAttempt, Held
  <2>2. Case \in Cases /\ attempts[Case] \in Seq(Verdict) /\ attempt \in 0 .. 2
    BY <1>0, <2>1, CaseIs DEF InRunner, TypeTree, Trying
  <2> DEFINE seq == SubSeq(attempts[Case], 1, attempt + 1)
  <2>3. seq \in Seq(Verdict) /\ Len(seq) = attempt + 1 /\ seq[Len(seq)] = attempts[Case][attempt + 1]
    BY <2>1, <2>2
  <2>4. /\ \A c \in Cases : Len(attempts'[c]) <= 3 /\ calls'[c] = Len(attempts'[c])
        /\ \A c \in Cases : \A i \in DOMAIN attempts'[c] : attempts'[c][i] # "transport"
        /\ clean' /\ attempts' \in [Cases -> Seq(Verdict)]
        /\ \A i \in 1 .. attempt : i \in DOMAIN attempts'[Case] /\ attempts'[Case][i] = attempts[Case][i]
    BY <1>0, <2>1, <2>2 DEF Trying, TypeTree
  <2> HIDE DEF seq
  <2> QED  BY <2>1, <2>2, <2>3, <2>4, TryingJudged DEF seq
<1>6. CASE CallTeacher
  <2>1. /\ pc = "attempt" /\ ~Held(Case, attempt + 1) /\ UNCHANGED <<requested, started>>
        /\ calls' = [calls EXCEPT ![Case] = @ + 1]
    BY <1>6 DEF CallTeacher
  <2>2. Case \in Cases /\ attempts[Case] \in Seq(Verdict) /\ attempt \in 0 .. 2 /\ clean
    BY <1>0, <2>1, CaseIs DEF InRunner, TypeTree, Trying
  <2>3. Len(attempts[Case]) = attempt
    <3>1. attempt + 1 \notin DOMAIN attempts[Case]
      BY <2>1, <2>2 DEF Held, Trying
    <3>2. \A i \in 1 .. attempt : i \in 1 .. Len(attempts[Case])
      BY <2>1, <2>2 DEF Trying
    <3>3. Len(attempts[Case]) \in Nat /\ attempt + 1 \notin 1 .. Len(attempts[Case])
      BY <2>2, <3>1
    <3> QED  BY <2>2, <3>2, <3>3, LengthIs
  <2>4. ASSUME NEW v \in Verdict, attempts' = [attempts EXCEPT ![Case] = Append(@, v)]
        PROVE  /\ attempts' \in [Cases -> Seq(Verdict)] /\ attempts'[Case] = Append(attempts[Case], v)
               /\ Len(attempts'[Case]) = attempt + 1 /\ attempts'[Case][attempt + 1] = v
               /\ \A i \in 1 .. attempt : attempts'[Case][i] = attempts[Case][i]
               /\ \A c \in Cases : Len(attempts'[c]) <= 3 /\ calls'[c] = Len(attempts'[c])
    <3>1. attempts' \in [Cases -> Seq(Verdict)] /\ attempts'[Case] = Append(attempts[Case], v)
      BY <1>0, <2>2, <2>4 DEF TypeTree
    <3>2. /\ Len(attempts'[Case]) = attempt + 1 /\ attempts'[Case][attempt + 1] = v
          /\ \A i \in 1 .. attempt : attempts'[Case][i] = attempts[Case][i]
      BY <2>2, <2>3, <3>1
    <3>3. \A c \in Cases : c # Case => attempts'[c] = attempts[c] /\ calls'[c] = calls[c]
      BY <1>0, <2>1, <2>4 DEF TypeTree
    <3>4. calls'[Case] = attempt + 1
      BY <1>0, <2>1, <2>2, <2>3 DEF TypeTree, Trying
    <3>5. \A c \in Cases : c # Case => Len(attempts'[c]) <= 3 /\ calls'[c] = Len(attempts'[c])
      BY <2>2, <3>3 DEF Trying
    <3>6. Len(attempts'[Case]) <= 3 /\ calls'[Case] = Len(attempts'[Case])
      BY <2>2, <3>2, <3>4
    <3> QED  BY <3>1, <3>2, <3>5, <3>6
  <2>5. CASE \E v \in Verdicts :
               /\ attempts' = [attempts EXCEPT ![Case] = Append(@, v)]
               /\ Judged(v, Append(SubSeq(attempts[Case], 1, attempt), v))
               /\ UNCHANGED clean
    <3>1. PICK v \in Verdicts : /\ attempts' = [attempts EXCEPT ![Case] = Append(@, v)]
                               /\ Judged(v, Append(SubSeq(attempts[Case], 1, attempt), v))
                               /\ UNCHANGED clean
      BY <2>5
    <3>2. v \in Verdict /\ v # "transport"
      BY VerdictsAssumption DEF Verdict, AllVerdicts, Repairable
    <3> DEFINE seq == Append(SubSeq(attempts[Case], 1, attempt), v)
    <3>3. seq \in Seq(Verdict) /\ Len(seq) = attempt + 1 /\ seq[Len(seq)] = v
      BY <2>2, <2>3, <3>2
    <3> HIDE DEF seq
    <3>4. \A c \in Cases : \A i \in DOMAIN attempts'[c] : attempts'[c][i] # "transport"
      <4>1. \A c \in Cases : c # Case => attempts'[c] = attempts[c]
        BY <1>0, <3>1 DEF TypeTree
      <4>2. \A i \in DOMAIN attempts'[Case] : i \in 1 .. attempt \/ i = attempt + 1
        BY <2>2, <2>3, <2>4, <3>1, <3>2
      <4> QED  BY <2>1, <2>2, <2>3, <2>4, <3>1, <3>2, <4>1, <4>2 DEF Trying
    <3>5. attempt + 1 \in DOMAIN attempts'[Case] /\ \A i \in 1 .. attempt : i \in DOMAIN attempts'[Case]
      <4>1. attempts'[Case] \in Seq(Verdict) /\ Len(attempts'[Case]) = attempt + 1
        BY <2>2, <2>4, <3>1, <3>2
      <4> QED  BY <2>2, <4>1
    <3> QED  BY <2>1, <2>2, <2>4, <3>1, <3>2, <3>3, <3>4, <3>5, TryingJudged DEF seq
  <2>6. CASE attempts' = [attempts EXCEPT ![Case] = Append(@, "transport")] /\ TeacherRaised /\ UNCHANGED clean
    BY <2>1, <2>4, <2>6 DEF TeacherRaised, Trying, Verdict
  <2>7. CASE ~clean' /\ TeacherRaised /\ UNCHANGED attempts
    BY <2>7 DEF TeacherRaised, Trying
  <2> QED  BY <1>6, <2>5, <2>6, <2>7 DEF CallTeacher
<1>7. CASE TeacherUnavailable
  <2>1. pc' = "fail" /\ UNCHANGED <<attempts, calls>>
    BY <1>7 DEF TeacherUnavailable, TeacherRaised
  <2>2. clean' \in {clean, FALSE}
    BY <1>7 DEF TeacherUnavailable
  <2>3. clean' => clean
    BY <2>2, Zenon
  <2> QED  BY <2>1, <2>3 DEF Trying
<1>8. CASE EnsureReceipt \/ WriteManifest \/ PublishSummary \/ WriteReport \/ VerifyReport
  BY <1>8, TryingStays DEF EnsureReceipt, WriteManifest, PublishSummary, WriteReport, VerifyReport, Leave
<1>9. CASE Crash
  <2>1. pc' = "idle" /\ UNCHANGED attempts
    BY <1>9 DEF Crash, Leave
  <2>2. UNCHANGED <<clean, calls>> \/ clean' = FALSE
    BY <1>9 DEF Crash
  <2>3. CASE UNCHANGED <<clean, calls>>
    BY <2>1, <2>3 DEF Trying
  <2>4. CASE clean' = FALSE
    BY <2>1, <2>4 DEF Trying
  <2> QED  BY <2>2, <2>3, <2>4
<1>10. CASE UNCHANGED vars
  BY <1>10 DEF vars, Trying, Case
<1> QED
  BY <1>1, <1>2, <1>3, <1>4, <1>5, <1>6, <1>7, <1>8, <1>9, <1>10 DEF Next, RunCase

-----------------------------------------------------------------------------
(* What is served stays served.                                             *)

\* A step about the case in hand touches no case before it.
LEMMA ServedMoves ==
  ASSUME TypeOK, Served, pc # "idle", UNCHANGED <<requested, started>>,
         requested \in Segments, started \in 1 .. Len(requested),
         \A c \in Cases : c # Case => record'[c] = record[c] /\ receipt'[c] = receipt[c],
         pc' = "case" \/ (pc' \in Ending /\ ~failed') =>
             record'[Case] = "current" /\ receipt'[Case] = None,
         pc' = "readback" => record'[Case] = "current",
         pc' \in InRunner => receipt'[Case] = None
  PROVE  Served'
<1>1. Segment(requested) /\ Segment(requested)'
  BY DEF Served, Segment
<1>2. /\ Len(requested) \in Nat /\ \A j \in 1 .. Len(requested) : requested[j] \in Cases
      /\ \A j, k \in 1 .. Len(requested) : requested[j] = requested[k] => j = k
      /\ \A j \in 1 .. Len(requested) : requested[j] \notin Before(requested[1])
  BY <1>1, SegmentFacts
<1>3. Case' = Case /\ Case = requested[started]
  BY DEF Case
<1>4. ASSUME NEW d \in Before(requested[1])  PROVE record'[d] # "none"
  <2>1. d \in Cases /\ d # Case /\ record[d] # "none"
    BY <1>2, <1>3, <1>4, ScopeFacts DEF Before, Served
  <2> QED  BY <2>1
<1>5. Before(requested[1])' = Before(requested[1])
  BY DEF Before
<1>6. ASSUME NEW j \in 1 .. started,
             j < started \/ pc' = "case" \/ (pc' \in Ending /\ ~failed')
      PROVE  record'[requested[j]] = "current" /\ receipt'[requested[j]] = None
  <2>1. CASE j < started
    <3>1. requested[j] \in Cases /\ requested[j] # Case
      BY <1>2, <1>3, <2>1
    <3>2. record[requested[j]] = "current" /\ receipt[requested[j]] = None
      BY <2>1 DEF Served
    <3> QED  BY <3>1, <3>2
  <2>2. CASE ~(j < started)
    <3>1. j = started
      BY <1>2, <2>2
    <3> QED  BY <1>3, <1>6, <3>1
  <2> QED  BY <2>1, <2>2
<1> QED  BY <1>1, <1>3, <1>4, <1>5, <1>6 DEF Served

LEMMA ServedStep ==
  ASSUME TypeOK, Under, Served, [Next]_vars
  PROVE  Served'
<1>0. TypeRun /\ TypeTree
  BY TypeParts
<1> USE DEF evidence, papers, runVars, counts
<1>1. CASE Leave
  BY <1>1 DEF Leave, Served
<1>2. CASE StartRun
  <2>1. PICK seg \in Segments : ScopeHolds(seg, {}) /\ requested' = seg
    BY <1>2 DEF StartRun
  <2>2. pc' = "archive manifest" /\ started' = 0 /\ UNCHANGED <<record, receipt>>
    BY <1>2, <1>0 DEF StartRun, Under, Archiving
  <2>3. Segment(seg) /\ Before(seg[1]) \subseteq Done(seg, {})
    BY <2>1 DEF ScopeHolds, SegmentAllowed, Segment
  <2>4. ASSUME NEW d \in Before(seg[1])  PROVE record[d] # "none"
    <3>1. Kind(d, {}) # "none"
      BY <2>3, <2>4 DEF Done
    <3> QED  BY <3>1 DEF Kind
  <2>5. Segment(requested)' /\ Before(requested[1])' = Before(seg[1])
    BY <2>1, <2>3 DEF Segment, Before
  <2>6. started' = 0
    BY <2>2
  <2>7. \A j \in 1 .. started' : FALSE
    BY <2>6
  <2> QED  BY <2>2, <2>4, <2>5, <2>7 DEF Served, InRunner
<1>3. CASE ArchivePapers
  <2>1. /\ pc \in Archiving /\ pc' \in Archiving \cup {"case"}
        /\ UNCHANGED <<record, receipt, requested, started, failed>>
    BY <1>3 DEF ArchivePapers, Archiving
  <2>2. \A j \in 1 .. started' : FALSE
    BY <2>1 DEF Under
  <2>3. pc # "idle" /\ pc' \notin InRunner
    BY <2>1 DEF Archiving, InRunner
  <2>4. Segment(requested)' /\ Before(requested[1])' = Before(requested[1])
    BY <2>1, <2>3 DEF Served, Segment, Before
  <2> QED  BY <2>1, <2>2, <2>3, <2>4 DEF Served, InRunner
<1>4. CASE StartCase
  <2> DEFINE c == requested[started + 1]
  <2>1. /\ pc = "case" /\ pc' = "existing" /\ started < Len(requested) /\ started' = started + 1
        /\ receipt' = [receipt EXCEPT ![c] = None] /\ UNCHANGED <<record, requested>>
    BY <1>4 DEF StartCase
  <2>2. Segment(requested) /\ Segment(requested)' /\ requested \in Segments
    BY <2>1 DEF Served, Segment, Under
  <2>3. Len(requested) \in Nat /\ c \in Cases /\ Case' = c
    BY <1>0, <2>1, <2>2, SegmentFacts DEF TypeRun, Case
  <2>4. ASSUME NEW j \in 1 .. started', j < started'
        PROVE  record'[requested[j]] = "current" /\ receipt'[requested[j]] = None
    <3>1. j \in 1 .. started /\ requested[j] \in Cases
      BY <1>0, <2>1, <2>2, <2>3, <2>4, SegmentFacts DEF TypeRun
    <3>2. record[requested[j]] = "current" /\ receipt[requested[j]] = None
      BY <2>1, <3>1 DEF Served
    <3> HIDE DEF c
    <3> QED  BY <1>0, <2>1, <3>1, <3>2 DEF TypeTree
  <2>5. receipt'[Case'] = None
    BY <1>0, <2>1, <2>3 DEF TypeTree
  <2>6. Before(requested[1])' = Before(requested[1])
    BY <2>1 DEF Before
  <2>7. \A d \in Before(requested[1]) : record'[d] # "none"
    BY <2>1 DEF Served
  <2> HIDE DEF c
  <2> QED  BY <2>1, <2>2, <2>4, <2>5, <2>6, <2>7 DEF Served, Ending
<1>5. CASE NoMoreCases
  <2>1. /\ pc = "case" /\ pc' = "manifest" /\ ~failed
        /\ UNCHANGED <<record, receipt, requested, started, failed>>
    BY <1>5 DEF NoMoreCases, Under
  <2>2. Segment(requested)' /\ Before(requested[1])' = Before(requested[1])
    BY <2>1 DEF Served, Segment, Before
  <2> QED  BY <2>1, <2>2 DEF Served, InRunner
<1>6. CASE RunCase
  <2>1. pc \in InRunner /\ UNCHANGED <<requested, started>>
    BY <1>6 DEF RunCase, ReuseRecord, MoveRecord, ReplayAttempt, CallTeacher, TeacherUnavailable,
       PublishRecord, ReadBack, Discard, WriteFailure, InRunner
  <2>2. Case \in Cases /\ requested \in Segments /\ started \in 1 .. Len(requested) /\ pc # "idle"
    BY <2>1, CaseIs DEF InRunner
  <2>3. receipt[Case] = None
    BY <2>1, <2>2 DEF Served
  <2>4. CASE ReuseRecord
    <3>1. /\ receipt' \in {receipt, [receipt EXCEPT ![Case] = None]} /\ UNCHANGED record
          /\ record[Case] = "current" /\ pc' \in {"case", "ensure"}
      BY <2>4 DEF ReuseRecord, RunnerRaises
    <3>2. \A d \in Cases : receipt'[d] = receipt[d]
      BY <1>0, <2>2, <2>3, <3>1 DEF TypeTree
    <3> QED  BY <2>1, <2>2, <2>3, <3>1, <3>2, ServedMoves DEF InRunner, Ending
  <2>5. CASE MoveRecord
    <3>1. /\ record' \in {record, [record EXCEPT ![Case] = "none"]} /\ UNCHANGED receipt
          /\ pc' \in {"attempt", "ensure"}
      BY <2>5 DEF MoveRecord, RunnerRaises
    <3>2. \A d \in Cases : d # Case => record'[d] = record[d]
      BY <1>0, <2>2, <3>1 DEF TypeTree
    <3> QED  BY <2>1, <2>2, <2>3, <3>1, <3>2, ServedMoves DEF InRunner, Ending
  <2>6. CASE ReplayAttempt \/ CallTeacher \/ TeacherUnavailable
    <3>1. UNCHANGED <<record, receipt>> /\ pc' \in {"publish", "fail", "attempt", "ensure"}
      BY <2>6 DEF ReplayAttempt, CallTeacher, TeacherUnavailable, TeacherRaised, Judged, RunnerRaises
    <3> QED  BY <2>1, <2>2, <2>3, <3>1, ServedMoves DEF InRunner, Ending
  <2>7. CASE PublishRecord
    <3>1. /\ record' \in {record, [record EXCEPT ![Case] = "current"]}
          /\ receipt' = [receipt EXCEPT ![Case] = None]
          /\ \/ pc' = "readback" /\ record' = [record EXCEPT ![Case] = "current"]
             \/ pc' = "ensure"
      BY <2>7 DEF PublishRecord, RunnerRaises
    <3>2. /\ \A d \in Cases : d # Case => record'[d] = record[d] /\ receipt'[d] = receipt[d]
          /\ receipt'[Case] = None /\ (pc' = "readback" => record'[Case] = "current")
      BY <1>0, <2>2, <3>1 DEF TypeTree
    <3> QED  BY <2>1, <2>2, <2>3, <3>1, <3>2, ServedMoves DEF InRunner, Ending
  <2>8. CASE ReadBack
    <3>1. UNCHANGED <<record, receipt>> /\ pc = "readback" /\ pc' \in {"case", "discard"}
      BY <2>8 DEF ReadBack
    <3>2. record[Case] = "current"
      BY <3>1 DEF Served
    <3> QED  BY <2>1, <2>2, <2>3, <3>1, <3>2, ServedMoves DEF InRunner, Ending
  <2>9. CASE Discard
    <3>1. /\ record' \in {record, [record EXCEPT ![Case] = "none"]} /\ UNCHANGED receipt
          /\ pc' \in {"fail", "ensure"}
      BY <2>9 DEF Discard, RunnerRaises
    <3>2. \A d \in Cases : d # Case => record'[d] = record[d]
      BY <1>0, <2>2, <3>1 DEF TypeTree
    <3> QED  BY <2>1, <2>2, <2>3, <3>1, <3>2, ServedMoves DEF InRunner, Ending
  <2>10. CASE WriteFailure
    <3>1. /\ receipt' \in {receipt, [receipt EXCEPT ![Case] = pending]} /\ UNCHANGED record
          /\ pc' = "ensure"
      BY <2>10 DEF WriteFailure, RunnerRaises
    <3>2. \A d \in Cases : d # Case => receipt'[d] = receipt[d]
      BY <1>0, <2>2, <3>1 DEF TypeTree
    <3> QED  BY <2>1, <2>2, <3>1, <3>2, ServedMoves DEF InRunner, Ending
  <2> QED  BY <1>6, <2>4, <2>5, <2>6, <2>7, <2>8, <2>9, <2>10 DEF RunCase
<1>7. CASE EnsureReceipt /\ ~Leave
  <2>1. pc = "ensure" /\ failed
    BY <1>7 DEF EnsureReceipt, Under
  <2>2. /\ receipt' = [receipt EXCEPT ![Case] =
                IF @ = None THEN Receipt("orchestrator", Len(attempts[Case]), 0) ELSE @]
        /\ pc' = "manifest" /\ UNCHANGED <<record, requested, started, failed>>
    BY <1>7 DEF EnsureReceipt
  <2>3. Case \in Cases /\ requested \in Segments /\ started \in 1 .. Len(requested) /\ pc # "idle"
    BY <2>1, CaseIs
  <2>4. \A d \in Cases : d # Case => receipt'[d] = receipt[d]
    BY <1>0, <2>2, <2>3 DEF TypeTree
  <2>5. ~(pc' = "case" \/ (pc' \in Ending /\ ~failed')) /\ pc' \notin InRunner /\ pc' # "readback"
    BY <2>1, <2>2 DEF InRunner
  <2> QED  BY <2>2, <2>3, <2>4, <2>5, ServedMoves
<1>8. CASE WriteManifest \/ PublishSummary \/ (WriteReport /\ ~Leave)
  <2>1. /\ pc \in Ending /\ pc' \in Ending \cup {"verify"}
        /\ UNCHANGED <<record, receipt, requested, started, failed>>
    BY <1>8 DEF WriteManifest, PublishSummary, WriteReport, Ending
  <2>2. pc # "idle" /\ Segment(requested)' /\ Before(requested[1])' = Before(requested[1])
    BY <2>1 DEF Served, Segment, Before, Ending
  <2>3. pc' \notin InRunner /\ pc' # "readback" /\ pc' # "case"
    BY <2>1 DEF InRunner, Ending
  <2>4. pc' \in Ending /\ ~failed' => pc \in Ending /\ ~failed
    BY <2>1
  <2> QED  BY <2>1, <2>2, <2>3, <2>4 DEF Served
<1>9. CASE UNCHANGED vars
  BY <1>9 DEF vars, Served, Segment, Before, Case
<1> QED
  BY <1>1, <1>2, <1>3, <1>4, <1>5, <1>6, <1>7, <1>8, <1>9 DEF Next, VerifyReport, Crash

-----------------------------------------------------------------------------
(* What a report says was so.                                               *)

LEMMA ReportedStep ==
  ASSUME TypeOK, Under, Served, Reported, [Next]_vars
  PROVE  Reported'
<1> USE DEF evidence, papers, runVars, counts
<1>1. CASE UNCHANGED report
  BY <1>1 DEF Reported
<1>2. CASE ArchivePapers
  BY <1>2 DEF ArchivePapers, Reported
<1>3. CASE WriteReport /\ ~UNCHANGED report
  <2>1. /\ pc = "report" /\ Buildable(requested, started, failed)
        /\ report' = [kind |-> "report", requested |-> requested, started |-> started,
                      stopped |-> failed, mode |-> mode, inventory |-> Inventory]
    BY <1>3 DEF WriteReport
  <2>2. requested \in Segments /\ Segment(requested) /\ started \in Nat
    BY <2>1, TypeParts, SegmentFacts DEF Under, Served, Ending, TypeRun
  <2>3. Len(requested) \in Nat /\ report'.requested = requested /\ report'.started = started
    BY <2>1, <2>2, SegmentFacts
  <2>4. report'.inventory[1] = record /\ report'.inventory[3] = receipt
    BY <2>1 DEF Inventory
  <2>5. CASE failed
    <3>1. report'.stopped
      BY <2>1, <2>5
    <3>2. started \in 1 .. Len(requested)
      BY <2>1, <2>5 DEF Under, Ending
    <3>3. \A j \in 1 .. started - 1 : record[requested[j]] = "current"
      BY <2>1, <3>2, <2>3 DEF Served
    <3> QED  BY <2>2, <2>3, <2>4, <3>1, <3>2, <3>3 DEF Reported
  <2>6. CASE ~failed
    <3>1. ~report'.stopped
      BY <2>1, <2>6
    <3>2. started = Len(requested)
      BY <2>1, <2>6 DEF Under, Ending
    <3>3. \A j \in 1 .. started : receipt[requested[j]] = None
      BY <2>1, <2>6 DEF Served, Ending
    <3> QED  BY <2>2, <2>3, <2>4, <3>1, <3>2, <3>3 DEF Reported
  <2> QED  BY <2>5, <2>6
<1>4. CASE StartRun \/ StartCase \/ NoMoreCases \/ EnsureReceipt \/ WriteManifest
             \/ PublishSummary \/ VerifyReport \/ Crash
  BY <1>1, <1>4 DEF StartRun, StartCase, NoMoreCases, EnsureReceipt, WriteManifest, PublishSummary,
     VerifyReport, Crash
<1>5. CASE RunCase
  BY <1>1, <1>5 DEF RunCase, ReuseRecord, MoveRecord, ReplayAttempt, CallTeacher, TeacherUnavailable,
     PublishRecord, ReadBack, Discard, WriteFailure
<1> QED  BY <1>1, <1>2, <1>3, <1>4, <1>5 DEF Next, vars

-----------------------------------------------------------------------------
(* Types, step by step.                                                     *)

LEMMA TypeRunStep ==
  ASSUME TypeOK, Under, Trying, [Next]_vars
  PROVE  TypeRun'
<1>0. TypeRun /\ TypeTree
  BY TypeParts
<1> USE DEF evidence, papers, runVars, counts
<1>a. faults \in 0 .. MaxFaults /\ runs \in 0 .. MaxRuns /\ attempt \in 0 .. 3
  BY <1>0 DEF TypeRun
<1>1. ASSUME Fault PROVE faults' \in 0 .. MaxFaults
  BY <1>a, <1>1, BoundsAssumption DEF Fault
<1>2. CASE StartRun
  <2>1. PICK seg \in Segments : requested' = seg /\ mode' = ModeOf(seg, {})
    BY <1>2 DEF StartRun
  <2>2. /\ pc' = "archive manifest" /\ runs < MaxRuns /\ runs' = runs + 1
        /\ UNCHANGED <<started, attempt, faults>> /\ started = 0
    BY <1>2 DEF StartRun, Under, Archiving
  <2>3. seg \in Seq(Cases) /\ Len(seg) \in Nat
    BY SegmentsAssumption
  <2>4. requested' \in Segments \cup {<<>>} /\ started' \in 0 .. Len(requested')
    <3>1. started' = 0
      BY <2>2
    <3> QED  BY <2>1, <2>3, <3>1
  <2>5. mode' \in {"none", "forward_recovery", "explicit_reattestation"}
    BY <2>1 DEF ModeOf
  <2>6. runs' \in 0 .. MaxRuns /\ attempt' \in 0 .. 3 /\ faults' \in 0 .. MaxFaults
    <3>1. runs < MaxRuns /\ runs' = runs + 1
      BY <2>2
    <3>2. runs' \in 0 .. MaxRuns
      BY <1>a, <3>1, BoundsAssumption
    <3>3. attempt' = attempt /\ faults' = faults
      BY <2>2
    <3> QED  BY <1>a, <3>2, <3>3
  <2> QED  BY <2>2, <2>4, <2>5, <2>6 DEF TypeRun
<1>3. ASSUME Leave, UNCHANGED runs, faults' \in 0 .. MaxFaults
      PROVE  TypeRun'
  <2>1. started' \in 0 .. Len(requested')
    <3>1. started' = 0 /\ requested' = <<>>
      BY <1>3 DEF Leave
    <3> QED  BY <3>1
  <2>2. attempt' \in 0 .. 3 /\ runs' \in 0 .. MaxRuns
    BY <1>a, <1>3 DEF Leave
  <2>3. requested' \in Segments \cup {<<>>} /\ pc' = "idle" /\ mode' = "none"
    BY <1>3 DEF Leave
  <2> QED  BY <1>3, <2>1, <2>2, <2>3 DEF TypeRun
<1>4. CASE ArchivePapers \/ NoMoreCases \/ WriteManifest \/ PublishSummary \/ (WriteReport /\ ~Leave)
  BY <1>0, <1>4 DEF TypeRun, ArchivePapers, NoMoreCases, WriteManifest, PublishSummary, WriteReport
<1>5. CASE StartCase
  <2>1. /\ pc = "case" /\ pc' = "existing" /\ started < Len(requested) /\ started' = started + 1
        /\ attempt' = 0 /\ UNCHANGED <<requested, mode, runs, faults>>
    BY <1>5 DEF StartCase
  <2>2. Len(requested) \in Nat
    BY <2>1, SegmentsAssumption DEF Under
  <2>3. started' \in 0 .. Len(requested')
    BY <1>0, <2>1, <2>2 DEF TypeRun
  <2> QED  BY <1>0, <2>1, <2>3 DEF TypeRun
<1>6. CASE RunCase
  <2>1. /\ UNCHANGED <<requested, mode, started, runs>>
        /\ pc' \in InRunner \cup {"case", "ensure"}
    <3>1. CASE ReuseRecord \/ MoveRecord \/ PublishRecord
      BY <3>1 DEF ReuseRecord, MoveRecord, PublishRecord, RunnerRaises, InRunner
    <3>2. CASE ReplayAttempt \/ CallTeacher \/ TeacherUnavailable
      BY <3>2 DEF ReplayAttempt, CallTeacher, TeacherUnavailable, TeacherRaised, Judged, RunnerRaises, InRunner
    <3>3. CASE ReadBack \/ Discard \/ WriteFailure
      BY <3>3 DEF ReadBack, Discard, WriteFailure, RunnerRaises, InRunner
    <3> QED  BY <1>6, <3>1, <3>2, <3>3 DEF RunCase
  <2>2. attempt' \in 0 .. 3
    <3>1. ASSUME NEW v, NEW seq, Judged(v, seq), pc = "attempt"  PROVE attempt' \in 0 .. 3
      <4>1. attempt \in 0 .. 2 /\ attempt' = attempt + 1
        BY <3>1 DEF Judged, Trying
      <4> QED  BY <4>1
    <3>2. CASE ReplayAttempt \/ CallTeacher \/ TeacherUnavailable
      BY <1>a, <3>1, <3>2 DEF ReplayAttempt, CallTeacher, TeacherUnavailable, TeacherRaised
    <3>3. CASE ReuseRecord \/ MoveRecord \/ PublishRecord \/ ReadBack \/ Discard \/ WriteFailure
      BY <1>a, <3>3 DEF ReuseRecord, MoveRecord, PublishRecord, ReadBack, Discard, WriteFailure
    <3> QED  BY <1>6, <3>2, <3>3 DEF RunCase
  <2>3. faults' \in 0 .. MaxFaults
    <3>1. faults' = faults \/ Fault
      BY <1>6 DEF RunCase, ReuseRecord, MoveRecord, ReplayAttempt, CallTeacher, TeacherUnavailable,
         Judged, PublishRecord, ReadBack, Discard, WriteFailure
    <3> QED  BY <1>a, <1>1, <3>1
  <2> QED  BY <1>0, <2>1, <2>2, <2>3 DEF InRunner, TypeRun
<1>7. CASE EnsureReceipt
  <2>1. runs' = runs /\ (faults' = faults \/ Fault)
    BY <1>7 DEF EnsureReceipt
  <2>2. faults' \in 0 .. MaxFaults
    BY <1>a, <1>1, <2>1
  <2>3. Leave \/ (pc' = "manifest" /\ UNCHANGED runVars)
    BY <1>7 DEF EnsureReceipt
  <2>4. CASE pc' = "manifest" /\ UNCHANGED runVars
    BY <1>0, <2>1, <2>2, <2>4 DEF TypeRun
  <2> QED  BY <1>3, <2>1, <2>2, <2>3, <2>4
<1>8. CASE (WriteReport /\ Leave) \/ VerifyReport
  <2>1. Leave /\ UNCHANGED <<runs, faults>>
    BY <1>8 DEF WriteReport, VerifyReport
  <2> QED  BY <1>a, <1>3, <2>1
<1>9. CASE Crash
  <2>1. Leave /\ Fault /\ UNCHANGED runs
    BY <1>9 DEF Crash
  <2> QED  BY <1>1, <1>3, <2>1
<1>10. CASE UNCHANGED vars
  BY <1>0, <1>10 DEF vars, TypeRun
<1> QED
  BY <1>2, <1>4, <1>5, <1>6, <1>7, <1>8, <1>9, <1>10 DEF Next

LEMMA TypeTreeStep ==
  ASSUME TypeOK, Under, Trying, Served, [Next]_vars
  PROVE  TypeTree'
<1>0. TypeRun /\ TypeTree
  BY TypeParts
<1> USE DEF evidence, papers, runVars, counts
<1>1. None \in Receipts
  BY DEF Receipts
<1>2. CASE UNCHANGED <<record, receipt, history, attempts, calls>> /\ pending' \in Receipts
  BY <1>0, <1>2 DEF TypeTree
<1>3. CASE Leave /\ UNCHANGED <<record, receipt, history, attempts, calls>>
  BY <1>1, <1>2, <1>3 DEF Leave
<1>4. CASE StartRun \/ ArchivePapers \/ NoMoreCases \/ WriteManifest \/ PublishSummary
             \/ WriteReport \/ VerifyReport \/ UNCHANGED vars
  BY <1>0, <1>3, <1>4, TypeTreeStays
     DEF StartRun, ArchivePapers, NoMoreCases, WriteManifest, PublishSummary, WriteReport,
         VerifyReport, vars
<1>5. CASE StartCase
  <2> DEFINE c == requested[started + 1]
  <2>1. /\ pc = "case" /\ started < Len(requested)
        /\ history' = history \cup (IF receipt[c] = None THEN {} ELSE {<<c, receipt[c]>>})
        /\ receipt' = [receipt EXCEPT ![c] = None]
        /\ UNCHANGED <<record, attempts, pending, calls>>
    BY <1>5 DEF StartCase
  <2>2. c \in Cases
    BY <1>0, <2>1, SegmentFacts DEF Under, Served, TypeRun
  <2> HIDE DEF c
  <2>3. receipt' \in [Cases -> Receipts] /\ receipt[c] \in Receipts
    BY <1>0, <1>1, <2>1, <2>2 DEF TypeTree
  <2>4. history' \subseteq Cases \X (Receipts \ {None})
    <3>1. history \subseteq Cases \X (Receipts \ {None})
      BY <1>0 DEF TypeTree
    <3>2. CASE receipt[c] = None
      BY <2>1, <3>1, <3>2
    <3>3. CASE receipt[c] # None
      BY <2>1, <2>2, <2>3, <3>1, <3>3
    <3> QED  BY <3>2, <3>3
  <2> QED  BY <1>0, <2>1, <2>3, <2>4 DEF TypeTree
<1>6. ASSUME pc \in InRunner \cup {"ensure"}  PROVE Case \in Cases
  BY <1>6, CaseIs
<1>7. CASE ReuseRecord \/ MoveRecord \/ PublishRecord \/ ReadBack
  <2>1. Case \in Cases /\ UNCHANGED <<history, attempts, calls, pending>>
    BY <1>6, <1>7 DEF ReuseRecord, MoveRecord, PublishRecord, ReadBack, InRunner
  <2>2. receipt' \in {receipt, [receipt EXCEPT ![Case] = None]}
    BY <1>7 DEF ReuseRecord, MoveRecord, PublishRecord, ReadBack
  <2>3. record' \in {record, [record EXCEPT ![Case] = "none"], [record EXCEPT ![Case] = "current"]}
    BY <1>7 DEF ReuseRecord, MoveRecord, PublishRecord, ReadBack
  <2>4. receipt' \in [Cases -> Receipts]
    BY <1>0, <1>1, <2>1, <2>2 DEF TypeTree
  <2>5. record' \in [Cases -> {"none", "v21", "v22", "current"}]
    BY <1>0, <2>1, <2>3 DEF TypeTree
  <2> QED  BY <1>0, <2>1, <2>4, <2>5 DEF TypeTree
<1>8. CASE Discard
  <2>1. pc = "discard" /\ UNCHANGED <<receipt, history, attempts, calls>>
    BY <1>8 DEF Discard
  <2>2. record' \in {record, [record EXCEPT ![Case] = "none"]}
    BY <1>8 DEF Discard
  <2>3. record' \in [Cases -> {"none", "v21", "v22", "current"}]
    BY <1>0, <1>6, <2>1, <2>2 DEF TypeTree, InRunner
  <2>4. Receipt("integrity", attempt, attempt) \in Receipts
    <3>1. attempt \in 0 .. 3
      BY <1>0 DEF TypeRun
    <3>2. attempt \in 0 .. 4
      BY <3>1
    <3>3. "integrity" \in Kinds
      BY DEF Kinds
    <3> QED  BY <3>1, <3>2, <3>3, ReceiptType
  <2>5. pending' \in Receipts
    BY <1>0, <1>8, <2>4 DEF Discard, TypeTree
  <2> QED  BY <1>0, <2>1, <2>3, <2>5 DEF TypeTree
<1>9. CASE WriteFailure
  <2>1. pc = "fail" /\ UNCHANGED <<record, history, attempts, calls, pending>>
    BY <1>9 DEF WriteFailure
  <2>2. receipt' \in {receipt, [receipt EXCEPT ![Case] = pending]}
    BY <1>9 DEF WriteFailure
  <2>3. receipt' \in [Cases -> Receipts]
    BY <1>0, <1>6, <2>1, <2>2 DEF TypeTree, InRunner
  <2> QED  BY <1>0, <2>1, <2>3 DEF TypeTree
<1>10. ASSUME TeacherRaised, pc = "attempt"  PROVE pending' \in Receipts
  <2>1. attempt + 1 \in 0 .. 4 /\ "transport" \in Kinds
    BY <1>0, <1>10 DEF Trying, Kinds
  <2> QED  BY <1>10, <2>1, ReceiptType DEF TeacherRaised
<1>11. CASE TeacherUnavailable
  <2>1. pc = "attempt" /\ TeacherRaised /\ UNCHANGED <<record, receipt, history, attempts, calls>>
    BY <1>11 DEF TeacherUnavailable
  <2> QED  BY <1>2, <1>10, <2>1
<1>12. CASE ReplayAttempt
  <2>1. /\ pc = "attempt" /\ attempt + 1 \in DOMAIN attempts[Case]
        /\ Judged(attempts[Case][attempt + 1], SubSeq(attempts[Case], 1, attempt + 1))
        /\ UNCHANGED <<record, receipt, history, attempts, calls>>
    BY <1>12 DEF ReplayAttempt, Held
  <2>2. attempts[Case] \in Seq(Verdict) /\ attempt \in 0 .. 2
    BY <1>0, <1>6, <2>1 DEF InRunner, TypeTree, Trying
  <2> DEFINE seq == SubSeq(attempts[Case], 1, attempt + 1)
  <2>3. seq \in Seq(Verdict) /\ Len(seq) = attempt + 1 /\ seq[Len(seq)] = attempts[Case][attempt + 1]
    BY <2>1, <2>2
  <2> HIDE DEF seq
  <2>4. pending' \in Receipts
    BY <2>1, <2>2, <2>3, JudgedIs DEF seq
  <2> QED  BY <1>2, <2>1, <2>4
<1>13. CASE CallTeacher
  <2>1. /\ pc = "attempt" /\ calls' = [calls EXCEPT ![Case] = @ + 1]
        /\ UNCHANGED <<record, receipt, history>>
    BY <1>13 DEF CallTeacher
  <2>2. Case \in Cases /\ attempts[Case] \in Seq(Verdict) /\ attempt \in 0 .. 2
    BY <1>0, <1>6, <2>1 DEF InRunner, TypeTree, Trying
  <2>3. calls' \in [Cases -> Nat]
    BY <1>0, <2>1, <2>2 DEF TypeTree
  <2>4. ASSUME NEW v \in Verdict, attempts' = [attempts EXCEPT ![Case] = Append(@, v)]
        PROVE  attempts' \in [Cases -> Seq(Verdict)]
    BY <1>0, <2>2, <2>4 DEF TypeTree
  <2>5. CASE \E v \in Verdicts :
               /\ attempts' = [attempts EXCEPT ![Case] = Append(@, v)]
               /\ Judged(v, Append(SubSeq(attempts[Case], 1, attempt), v))
    <3>1. PICK v \in Verdicts : /\ attempts' = [attempts EXCEPT ![Case] = Append(@, v)]
                               /\ Judged(v, Append(SubSeq(attempts[Case], 1, attempt), v))
      BY <2>5
    <3>2. v \in Verdict
      BY VerdictsAssumption DEF Verdict
    <3> DEFINE seq == Append(SubSeq(attempts[Case], 1, attempt), v)
    <3>3. attempt <= Len(attempts[Case])
      <4>1. \A i \in 1 .. attempt : i \in 1 .. Len(attempts[Case])
        BY <2>1, <2>2 DEF Trying
      <4> QED  BY <2>2, <4>1
    <3>4. seq \in Seq(Verdict) /\ Len(seq) = attempt + 1 /\ seq[Len(seq)] = v
      BY <2>2, <3>2, <3>3
    <3> HIDE DEF seq
    <3>5. pending' \in Receipts
      BY <2>2, <3>1, <3>4, JudgedIs DEF seq
    <3>6. attempts' \in [Cases -> Seq(Verdict)]
      BY <2>4, <3>1, <3>2
    <3> QED  BY <1>0, <2>1, <2>3, <3>5, <3>6 DEF TypeTree
  <2>6. CASE attempts' = [attempts EXCEPT ![Case] = Append(@, "transport")] /\ TeacherRaised
    <3>1. attempts' \in [Cases -> Seq(Verdict)]
      BY <2>4, <2>6 DEF Verdict
    <3>2. pending' \in Receipts
      BY <1>10, <2>1, <2>6
    <3> QED  BY <1>0, <2>1, <2>3, <3>1, <3>2 DEF TypeTree
  <2>7. CASE TeacherRaised /\ UNCHANGED attempts
    <3>1. pending' \in Receipts
      BY <1>10, <2>1, <2>7
    <3> QED  BY <1>0, <2>1, <2>3, <2>7, <3>1 DEF TypeTree
  <2> QED  BY <1>13, <2>5, <2>6, <2>7 DEF CallTeacher
<1>14. CASE EnsureReceipt
  <2>1. pc = "ensure" /\ UNCHANGED <<record, history, attempts, calls>>
    BY <1>14 DEF EnsureReceipt
  <2>2. CASE Leave /\ UNCHANGED receipt
    BY <1>3, <2>1, <2>2
  <2>3. CASE /\ receipt' = [receipt EXCEPT ![Case] =
                    IF @ = None THEN Receipt("orchestrator", Len(attempts[Case]), 0) ELSE @]
             /\ UNCHANGED runVars
    <3>1. Case \in Cases
      BY <1>6, <2>1
    <3>2. Len(attempts[Case]) \in 0 .. 4
      <4>1. attempts[Case] \in Seq(Verdict) /\ Len(attempts[Case]) <= 3
        BY <1>0, <3>1 DEF TypeTree, Trying
      <4>2. \A n \in Nat : n <= 3 => n \in 0 .. 4
        OBVIOUS
      <4>3. Len(attempts[Case]) \in Nat
        BY <4>1
      <4> QED  BY <4>1, <4>2, <4>3
    <3>3. Receipt("orchestrator", Len(attempts[Case]), 0) \in Receipts
      <4>1. "orchestrator" \in Kinds
        BY DEF Kinds
      <4> DEFINE n == Len(attempts[Case])
      <4>2. n \in 0 .. 4 /\ 0 \in 0 .. 3
        BY <3>2
      <4> HIDE DEF n
      <4>3. Receipt("orchestrator", n, 0) \in Receipts
        BY <4>1, <4>2, ReceiptType
      <4> QED  BY <4>3 DEF n
    <3>4. receipt' \in [Cases -> Receipts]
      BY <1>0, <2>3, <3>1, <3>3 DEF TypeTree
    <3> QED  BY <1>0, <2>1, <2>3, <3>4 DEF TypeTree
  <2> QED  BY <1>14, <2>2, <2>3 DEF EnsureReceipt
<1>15. CASE Crash
  <2>1. Leave /\ pc # "idle" /\ UNCHANGED <<record, receipt, history, attempts>>
    BY <1>15 DEF Crash
  <2>2. CASE UNCHANGED calls
    BY <1>3, <2>1, <2>2
  <2>3. CASE pc = "attempt" /\ calls' = [calls EXCEPT ![Case] = @ + 1]
    <3>1. Case \in Cases
      BY <1>6, <2>3 DEF InRunner
    <3>2. calls' \in [Cases -> Nat]
      BY <1>0, <2>3, <3>1 DEF TypeTree
    <3>3. pending' \in Receipts
      BY <1>1, <2>1 DEF Leave
    <3> QED  BY <1>0, <2>1, <3>2, <3>3 DEF TypeTree
  <2> QED  BY <1>15, <2>2, <2>3 DEF Crash
<1> QED
  BY <1>4, <1>5, <1>7, <1>8, <1>9, <1>11, <1>12, <1>13, <1>14, <1>15 DEF Next, RunCase

-----------------------------------------------------------------------------
(* The theorems.                                                            *)

IInv == TypeOK /\ Under /\ Trying /\ Served /\ Reported

LEMMA Inductive == Spec => []IInv
<1>1. Init => IInv
  BY InitInv DEF IInv
<1>2. IInv /\ [Next]_vars => IInv'
  <2> SUFFICES ASSUME IInv, [Next]_vars  PROVE IInv'
    OBVIOUS
  <2>1. TypeOK /\ Under /\ Trying /\ Served /\ Reported
    BY DEF IInv
  <2>2. TypeFlags /\ TypeRun /\ TypeTree
    BY <2>1, TypeParts
  <2>3. TypeFlags' /\ TypeRun' /\ TypeTree'
    BY <2>1, <2>2, FlagsStep, TypeRunStep, TypeTreeStep
  <2>4. TypeOK'
    BY <2>3, TypeParts DEF TypeOK, TypeFlags, TypeRun, TypeTree, Verdict
  <2>5. Under' /\ Trying' /\ Served' /\ Reported'
    BY <2>1, UnderStep, TryingStep, ServedStep, ReportedStep
  <2> QED  BY <2>4, <2>5 DEF IInv
<1> QED  BY <1>1, <1>2, PTL DEF Spec

\* Runs of the batch, their failures and their crashes keep every variable in
\* its type: no case is ever given a fourth attempt.
THEOREM TypeCorrect == Spec => []TypeOK
<1>1. IInv => TypeOK
  BY DEF IInv
<1> QED  BY <1>1, Inductive, PTL

\* No step of the batch or of its runner takes a failure receipt away that is
\* not in the history.
THEOREM ReceiptsAreKept == Spec => EvidenceKept
<1>1. ASSUME IInv, [Next]_vars
      PROVE  [\A c \in Cases : receipt[c] # None /\ receipt'[c] # receipt[c]
                => <<c, receipt[c]>> \in history']_vars
  <2>0. TypeTree /\ Under /\ Served
    BY <1>1, TypeParts DEF IInv
  <2> SUFFICES ASSUME NEW c \in Cases, receipt[c] # None, receipt'[c] # receipt[c]
               PROVE  <<c, receipt[c]>> \in history'
    OBVIOUS
  <2> USE DEF evidence, papers, runVars, counts
  <2>1. CASE StartCase
    <3> DEFINE d == requested[started + 1]
    <3>1. /\ receipt' = [receipt EXCEPT ![d] = None]
          /\ history' = history \cup (IF receipt[d] = None THEN {} ELSE {<<d, receipt[d]>>})
      BY <2>1 DEF StartCase
    <3> HIDE DEF d
    <3>2. c = d
      BY <2>0, <3>1 DEF TypeTree
    <3> QED  BY <3>1, <3>2
  <2>2. ASSUME pc \in InRunner, NEW r, receipt' = [receipt EXCEPT ![Case] = r]  PROVE FALSE
    <3>1. receipt[Case] = None
      BY <2>0, <2>2 DEF Served, InRunner
    <3>2. c # Case
      BY <3>1
    <3> QED  BY <2>0, <2>2, <3>2 DEF TypeTree
  <2>3. CASE ReuseRecord \/ PublishRecord \/ WriteFailure
    <3>1. pc \in InRunner
      BY <2>3 DEF ReuseRecord, PublishRecord, WriteFailure, InRunner
    <3>2. \/ receipt' = [receipt EXCEPT ![Case] = None]
          \/ receipt' = [receipt EXCEPT ![Case] = pending]
          \/ receipt' = receipt
      BY <2>3 DEF ReuseRecord, PublishRecord, WriteFailure
    <3> QED  BY <2>2, <3>1, <3>2
  <2>4. CASE EnsureReceipt
    BY <2>0, <2>4 DEF EnsureReceipt, TypeTree
  <2>5. CASE UNCHANGED receipt
    BY <2>5
  <2>6. CASE StartRun \/ ArchivePapers \/ NoMoreCases \/ WriteManifest \/ PublishSummary \/ WriteReport
               \/ VerifyReport \/ Crash
    BY <2>5, <2>6 DEF StartRun, ArchivePapers, NoMoreCases, WriteManifest, PublishSummary, WriteReport,
       VerifyReport, Crash
  <2>7. CASE MoveRecord \/ ReplayAttempt \/ CallTeacher \/ TeacherUnavailable \/ ReadBack \/ Discard
    BY <2>5, <2>7 DEF MoveRecord, ReplayAttempt, CallTeacher, TeacherUnavailable, ReadBack, Discard
  <2> QED  BY <1>1, <2>1, <2>3, <2>4, <2>5, <2>6, <2>7 DEF Next, RunCase, vars
<1> QED  BY <1>1, Inductive, PTL DEF Spec, EvidenceKept

\* What the runner has done for the case in hand is all there is in its audit.
LEMMA NextRequest ==
  ASSUME IInv, pc = "attempt", ~Held(Case, attempt + 1)
  PROVE  /\ Case \in Cases /\ calls[Case] < 3
         /\ "valid" \notin Range(attempts[Case])
         /\ \A d \in Before(Case) : record[d] # "none"
<1>0. TypeTree /\ Under /\ Trying /\ Served
  BY TypeParts DEF IInv
<1>1. Case \in Cases /\ requested \in Segments /\ started \in 1 .. Len(requested)
  BY <1>0, CaseIs DEF InRunner
<1>2. /\ attempts[Case] \in Seq(Verdict) /\ attempt \in 0 .. 2 /\ calls[Case] = Len(attempts[Case])
      /\ \A i \in 1 .. attempt : i \in DOMAIN attempts[Case] /\ attempts[Case][i] \in Repairable
      /\ \A i \in DOMAIN attempts[Case] : attempts[Case][i] # "transport"
  BY <1>0, <1>1 DEF TypeTree, Trying, Archiving
<1>3. Len(attempts[Case]) = attempt
  <2>1. attempt + 1 \notin 1 .. Len(attempts[Case])
    BY <1>2 DEF Held
  <2>2. \A i \in 1 .. attempt : i \in 1 .. Len(attempts[Case])
    BY <1>2
  <2>3. Len(attempts[Case]) \in Nat
    BY <1>2
  <2> QED  BY <1>2, <2>1, <2>2, <2>3, LengthIs
<1>4. "valid" \notin Range(attempts[Case])
  <2>1. \A i \in DOMAIN attempts[Case] : attempts[Case][i] \in Repairable
    BY <1>2, <1>3
  <2> QED  BY <2>1 DEF Range, Repairable
<1>5. Segment(requested) /\ Case = requested[started]
  BY <1>0 DEF Served, Case
<1>6. ASSUME NEW d \in Before(Case)  PROVE record[d] # "none"
  <2>1. d \in Before(requested[1]) \/ \E k \in 1 .. started - 1 : d = requested[k]
    <3>1. Before(requested[started]) = Before(requested[1]) \cup {requested[k] : k \in 1 .. started - 1}
      BY <1>1, <1>5, SegmentFacts
    <3> QED  BY <1>5, <1>6, <3>1
  <2>2. CASE d \in Before(requested[1])
    BY <1>0, <2>2 DEF Served
  <2>3. CASE \E k \in 1 .. started - 1 : d = requested[k]
    <3>1. PICK k \in 1 .. started - 1 : d = requested[k]
      BY <2>3
    <3>2. k \in 1 .. started /\ k < started
      BY <1>1, <3>1, SegmentFacts, <1>5
    <3> QED  BY <1>0, <3>1, <3>2 DEF Served
  <2> QED  BY <2>1, <2>2, <2>3
<1>7. calls[Case] < 3
  BY <1>2, <1>3
<1> QED  BY <1>1, <1>4, <1>6, <1>7

\* The provider is called in the order of the scope, three times per case at
\* most and never after a valid answer, whichever runs fail or die.
THEOREM EveryCallIsDue == Spec => CallsAreDue
<1>1. ASSUME IInv, [Next]_vars
      PROVE  [\A c \in Cases : calls'[c] # calls[c] =>
                /\ \A d \in Before(c) : record[d] # "none"
                /\ calls[c] < 3
                /\ "valid" \notin Range(attempts[c])]_vars
  <2>0. TypeTree
    BY <1>1, TypeParts DEF IInv
  <2> SUFFICES ASSUME NEW c \in Cases, calls'[c] # calls[c]
               PROVE  /\ \A d \in Before(c) : record[d] # "none"
                      /\ calls[c] < 3
                      /\ "valid" \notin Range(attempts[c])
    OBVIOUS
  <2> USE DEF evidence, papers, runVars, counts
  <2>1. /\ pc = "attempt" /\ ~Held(Case, attempt + 1)
        /\ calls' = [calls EXCEPT ![Case] = @ + 1]
    <3>1. CASE CallTeacher
      BY <3>1 DEF CallTeacher
    <3>2. CASE Crash
      BY <3>2 DEF Crash
    <3>3. CASE StartRun \/ ArchivePapers \/ StartCase \/ NoMoreCases \/ EnsureReceipt \/ WriteManifest
                 \/ PublishSummary \/ WriteReport \/ VerifyReport
      BY <3>3 DEF StartRun, ArchivePapers, StartCase, NoMoreCases, EnsureReceipt, WriteManifest,
         PublishSummary, WriteReport, VerifyReport
    <3>4. CASE ReuseRecord \/ MoveRecord \/ ReplayAttempt \/ TeacherUnavailable \/ PublishRecord
                 \/ ReadBack \/ Discard \/ WriteFailure
      BY <3>4 DEF ReuseRecord, MoveRecord, ReplayAttempt, TeacherUnavailable, PublishRecord,
         ReadBack, Discard, WriteFailure
    <3>5. CASE UNCHANGED vars
      BY <3>5 DEF vars
    <3> QED  BY <1>1, <3>1, <3>2, <3>3, <3>4, <3>5 DEF Next, RunCase
  <2>2. c = Case
    BY <2>0, <2>1 DEF TypeTree
  <2> QED  BY <1>1, <2>1, <2>2, NextRequest
<1> QED  BY <1>1, Inductive, PTL DEF Spec, CallsAreDue

\* A report that _verify_fail_fast_report_unlocked accepts is true of the
\* files beside it, and its tree accounts for every call that was made.
THEOREM VerifiedReportsAreTrue == Spec => []VerifiedReportIsTrue
<1>1. ASSUME IInv, pc = "idle", Verifies
      PROVE  LET seg  == report.requested
                 last == seg[report.started]
             IN  /\ \A c \in Cases : calls[c] = Len(attempts[c])
                 /\ IF report.stopped
                    THEN /\ record[last] = "none" /\ receipt[last] # None
                         /\ \A c \in Range(seg) \cap Before(last) : record[c] = "current"
                         /\ \A c \in After(last) : calls[c] = 0 /\ record[c] = "none"
                    ELSE \A c \in Range(seg) : record[c] = "current" /\ receipt[c] = None
  <2> DEFINE seg == report.requested
             n == report.started
             active == {seg[i] : i \in 1 .. n}
             last == seg[n]
  <2>0. TypeTree /\ Trying /\ Reported
    BY <1>1, TypeParts DEF IInv
  <2>1. /\ report # None /\ report.inventory = Inventory
        /\ Buildable(seg, n, report.stopped)
        /\ \A c \in Range(seg) \ active : attempts[c] = <<>>
        /\ \A c \in (Range(seg) \ active) \cup Forbidden(seg) : record[c] = "none"
        /\ report.stopped => record[last] = "none"
    BY <1>1 DEF Verifies
  <2>2. ScopeHolds(seg, active) /\ Attempts(Forbidden(seg)) = {}
    BY <2>1 DEF Buildable
  <2>3. /\ seg \in Segments /\ n \in Nat
        /\ IF report.stopped
           THEN n \in 1 .. Len(seg) /\ \A j \in 1 .. n - 1 : report.inventory[1][seg[j]] = "current"
           ELSE n = Len(seg) /\ \A j \in 1 .. n : report.inventory[3][seg[j]] = None
    BY <2>0, <2>1 DEF Reported
  <2>4. report.inventory[1] = record /\ report.inventory[3] = receipt
    BY <2>1 DEF Inventory
  <2> HIDE DEF seg, n
  <2>5. Segment(seg) /\ clean
    BY <2>2 DEF ScopeHolds, AuditAccepted, SegmentAllowed, Segment
  <2>6. /\ Len(seg) \in Nat /\ DOMAIN seg = 1 .. Len(seg)
        /\ \A j \in 1 .. Len(seg) : seg[j] \in Cases
        /\ \A j, k \in 1 .. Len(seg) : seg[j] = seg[k] => j = k
        /\ \A j \in 1 .. Len(seg) :
             Before(seg[j]) = Before(seg[1]) \cup {seg[k] : k \in 1 .. j - 1}
        /\ \A j \in 1 .. Len(seg) : seg[j] \notin Before(seg[1])
    BY <2>3, <2>5, SegmentFacts
  <2>7. \A c \in Cases : calls[c] = Len(attempts[c])
    BY <2>0, <2>5 DEF Trying
  <2>8. CASE report.stopped
    <3>1. n \in 1 .. Len(seg) /\ \A j \in 1 .. n - 1 : record[seg[j]] = "current"
      BY <2>3, <2>4, <2>8
    <3>2. record[last] = "none" /\ receipt[last] # None
      BY <2>1, <2>8 DEF Buildable
    <3>3. ASSUME NEW c \in Range(seg) \cap Before(last)  PROVE record[c] = "current"
      <4>1. PICK j \in 1 .. Len(seg) : c = seg[j]
        BY <2>6, <3>3 DEF Range
      <4>2. c \in {seg[k] : k \in 1 .. n - 1}
        BY <2>6, <3>1, <3>3, <4>1
      <4> QED  BY <3>1, <4>2
    <3>4. ASSUME NEW d \in After(last)  PROVE calls[d] = 0 /\ record[d] = "none"
      <4>1. d \in Cases
        BY <3>4 DEF After
      <4>2. d \in Forbidden(seg) \/ \E j \in n + 1 .. Len(seg) : d = seg[j]
        BY <2>3, <2>5, <3>1, <3>4, AfterIs
      <4>3. record[d] = "none" /\ attempts[d] = <<>>
        <5>1. CASE d \in Forbidden(seg)
          <6>1. ASSUME NEW i \in DOMAIN attempts[d]  PROVE FALSE
            <7>1. <<d, i>> \in {d} \X DOMAIN attempts[d]
              OBVIOUS
            <7>2. {d} \X DOMAIN attempts[d] \in {{c} \X DOMAIN attempts[c] : c \in Forbidden(seg)}
              BY <5>1
            <7> QED  BY <2>2, <7>1, <7>2 DEF Attempts
          <6>2. attempts[d] \in Seq(Verdict)
            BY <2>0, <4>1 DEF TypeTree
          <6>3. attempts[d] = <<>>
            <7>1. ASSUME NEW i \in 1 .. Len(attempts[d])  PROVE FALSE
              <8>1. i \in DOMAIN attempts[d]
                BY <6>2
              <8> QED  BY <6>1, <8>1
            <7>2. Len(attempts[d]) = 0
              BY <6>2, <7>1
            <7> QED  BY <6>2, <7>2
          <6>4. record[d] = "none"
            BY <2>1, <5>1
          <6> QED  BY <6>3, <6>4
        <5>2. CASE \E j \in n + 1 .. Len(seg) : d = seg[j]
          <6>1. PICK j \in n + 1 .. Len(seg) : d = seg[j]
            BY <5>2
          <6>2. d \in Range(seg)
            BY <2>6, <3>1, <6>1 DEF Range
          <6>3. d \notin active
            <7>1. \A i \in 1 .. n : i \in 1 .. Len(seg) /\ i # j /\ j \in 1 .. Len(seg)
              BY <2>6, <3>1, <6>1
            <7> QED  BY <2>6, <6>1, <7>1
          <6> QED  BY <2>1, <6>2, <6>3
        <5> QED  BY <4>2, <5>1, <5>2
      <4>4. calls[d] = 0
        BY <2>7, <4>1, <4>3
      <4> QED  BY <4>3, <4>4
    <3> QED  BY <2>7, <2>8, <3>2, <3>3, <3>4 DEF seg, n
  <2>9. CASE ~report.stopped
    <3>1. RecoveredBinding(seg)
      BY <2>1, <2>9 DEF Buildable
    <3>2. \A c \in Range(seg) : record[c] = "current"
      BY <3>1 DEF RecoveredBinding
    <3>3. \A c \in Range(seg) : receipt[c] = None
      BY <2>3, <2>4, <2>6, <2>9 DEF Range
    <3> QED  BY <2>7, <2>9, <3>2, <3>3 DEF seg, n
  <2> QED  BY <2>8, <2>9
<1>2. IInv => VerifiedReportIsTrue
  BY <1>1 DEF VerifiedReportIsTrue
<1> QED  BY <1>2, Inductive, PTL
=============================================================================
