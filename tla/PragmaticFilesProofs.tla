-------------------------- MODULE PragmaticFilesProofs --------------------------
(***************************************************************************)
(* What the files of a pragmatic batch say, at every instant at which its  *)
(* process may die: a resume accepts them, its reports are true of them,   *)
(* and a record that was late is taken back.  For every number of cases,   *)
(* every limit and any number of crashes.                                  *)
(***************************************************************************)
EXTENDS PragmaticBatchProofs

(* Where the slot in hand has been invoked but not completed, and where the *)
(* answer to it is kept.                                                    *)
AnswerPlaces  == SlotPlaces \ {"invoke", "call"}
InvokedPlaces == SlotPlaces \ {"invoke", "quarantine", "complete"}

(* validate_pragmatic_state_semantics finds no fault with a case, but for the *)
(* result of a slot that ended record_too_large.                              *)
Replayable(c) ==
  /\ Slots(c) # << >> => c \notin Ineligible
  /\ \A i \in DOMAIN Slots(c) :
        /\ SlotReplays(c, i)
        /\ Slots(c)[i].status = "completed"
             => SlotResultHolds(c, i) \/ Slots(c)[i].outcome = "record_too_large"
  /\ TerminalHolds(c)

(* A record beside a pending case belongs to the slot in flight. *)
Adoptable(c) == ledger[c].status = "pending" /\ record[c] # None => RecordAdoptable(c)

OnFile == ledger # None => \A c \in Cases : Replayable(c) /\ Adoptable(c)

(* The slot in hand is where the runner's position says, and before a slot is *)
(* taken there is none in flight.                                             *)
InHand ==
  /\ pc \in InvokedPlaces => Last(cur).status = "provider_invoked"
  /\ pc \in {"quarantine", "complete"} => Last(cur).status # "completed"
  /\ pc \in {"admit", "prepare", "attempt"} /\ Slots(cur) # << >>
       => Last(cur).status = "completed"
  /\ pc # "down" /\ ~resuming
       => \A c \in Pending : pc = "next" \/ c # cur => Slots(c) = << >>
  /\ pc \in RecordPlaces \ {"recover"} => record[cur] # None

(* The runner holds an answer only while it deals with it; a response has a *)
(* cached flag and nothing else does.                                       *)
AnswerKept ==
  /\ pc \notin AnswerPlaces => answer = NoAnswer
  /\ HasResponse(answer) <=> answer.cached # "null"

(* What is being carried out can be written: the verdict over a slot fits the *)
(* answer and its receipt, the verdict over a case its slots and its receipt. *)
Carrying ==
  /\ pc \in {"quarantine", "complete"} /\ verdict \in {"transport", "interrupted_unknown"}
       => answer.cached = "null"
  /\ pc = "complete" => quarantine[cur][Len(Slots(cur))] = NewQuarantine
  /\ pc \in {"fail", "settle_failure"} => verdict \in ExpectedFailureKinds(cur)
  /\ pc = "settle_failure"
       => receipt[cur] = [attempts |-> Len(Slots(cur)), error |-> verdict]

FilesInv == OnFile /\ InHand /\ AnswerKept /\ Carrying

(* Evidence of a call is only confirmed when there was one. *)
Confirmed ==
  /\ answer.cached = "false" => calls[cur][Len(Slots(cur))] = 1
  /\ ledger # None => \A c \in Cases : \A i \in DOMAIN Slots(c) :
       Slots(c)[i].evidence = "confirmed" => calls[c][i] = 1

(* Every case is settled and has the artifact of its status and no other. *)
Tidy ==
  /\ ledger # None /\ Pending = {}
  /\ \A c \in Cases : /\ ledger[c].status = "success" <=> record[c] # None
                      /\ ledger[c].status = "failed"  <=> receipt[c] # None

Bound == [ledger |-> ledger, records |-> Settled("success"), failures |-> Settled("failed")]

(* The manifest and the report say what the ledger says, and nothing can *)
(* change that any more.                                                 *)
Reported ==
  /\ pc \in {"manifest", "report"} => Tidy
  /\ pc = "report" => manifest = Bound
  /\ report # None =>
       /\ Tidy /\ manifest = Bound
       /\ report.success = Settled("success") /\ report.failed = Settled("failed")
       /\ report.kind = "exact" => ~Uncertain
       /\ report.value = SlotTotal[NumCases]

(* While the clock only goes forward, a late record that the runner wrote *)
(* itself is past the deadline at the next look at it.                    *)
LateSeen ==
  /\ pc = "published" /\ record[cur].late => PastDeadline
  /\ pc \in {"readback", "verified", "succeed", "settle_success"} /\ record[cur].late
       => answer.cached = "null"
  /\ LateRecordRetracted

LateInv == clockSteps = 0 => LateSeen

-------------------------------------------------------------------------------
(* What is read from a case alone does not change when the case does not. *)
LEMMA CaseFrame ==
  ASSUME NEW c \in Cases, ledger'[c] = ledger[c], quarantine'[c] = quarantine[c],
         \/ ledger[c].status = "pending"
         \/ record'[c] = record[c] /\ receipt'[c] = receipt[c],
         Replayable(c)
  PROVE  Replayable(c)'
BY DEF Replayable, SlotReplays, SlotResultHolds, TerminalHolds, HasSuccessSlot,
       ExpectedFailureKinds, CeilingReached, Slots, Last

(* SlotTotal is a function of the ledger. *)
LEMMA TotalFrame ==
  ASSUME ledger' = ledger
  PROVE  SlotTotal' = SlotTotal
BY DEF SlotTotal, Slots

-------------------------------------------------------------------------------
(* A pending case, spelt out slot by slot. *)
LEMMA PendingCase ==
  ASSUME NEW c \in Cases, ledger[c].status = "pending", Replayable(c)
  PROVE  /\ Slots(c) # << >> => c \notin Ineligible
         /\ \A i \in DOMAIN Slots(c) : /\ SlotReplays(c, i)
                                       /\ Slots(c)[i].status # "completed" => i = Len(Slots(c))
         /\ \A i \in DOMAIN Slots(c) : Slots(c)[i].status = "completed" =>
              /\ Slots(c)[i].outcome # "success"
              /\ SlotResultHolds(c, i) \/ Slots(c)[i].outcome = "record_too_large"
BY DEF Replayable, SlotReplays, TerminalHolds, HasSuccessSlot

(* The last slot of the case in hand was rewritten without touching the reason *)
(* it was taken for: the slots still replay, and the results before it stand.   *)
LEMMA RewrittenReplays ==
  ASSUME TypeInv, pc \in CasePlaces, Slots(cur) # << >>, NEW c \in Cases, c = cur, Replayable(c),
         NEW slot, NEW status, Rewritten(slot, status), quarantine'[c] = quarantine[c],
         slot.purpose = Last(c).purpose, slot.repair = Last(c).repair
  PROVE  LET n == Len(Slots(c))
         IN  /\ n \in {1, 2} /\ DOMAIN Slots(c)' = 1..n /\ Len(Slots(c)') = n
             /\ Slots(c)' # << >> /\ Last(c)' = slot /\ Slots(c)'[n] = slot
             /\ c \notin Ineligible
             /\ \A i \in 1..n : SlotReplays(c, i)'
             /\ \A i \in 1..n : i # n =>
                  /\ Slots(c)'[i].status = "completed" /\ Slots(c)'[i].outcome # "success"
                  /\ SlotResultHolds(c, i)' \/ Slots(c)'[i].outcome = "record_too_large"
<1> DEFINE n == Len(Slots(c))
           old == Slots(c)
           new == ledger'[c].slots
<1>1. /\ ledger[c].status = "pending" /\ old \in Seq(SlotState)
      /\ n \in {1, 2} /\ DOMAIN old = 1..n
  <2>1. n \in Nat \ {0} /\ n <= 2
    BY InCase, LastSlot
  <2> HIDE DEF n
  <2>2. n \in {1, 2}
    BY <2>1
  <2> QED
    BY <2>2, InCase DEF Pending, n
<1>2. /\ Len(new) = n /\ DOMAIN new = 1..n /\ new[n] = slot
      /\ \A i \in 1..n : i # n => new[i] = old[i]
  BY <1>1 DEF Rewritten
<1>3. /\ c \notin Ineligible
      /\ \A i \in 1..n : SlotReplays(c, i) /\ (old[i].status # "completed" => i = n)
      /\ \A i \in 1..n : old[i].status = "completed" =>
           /\ old[i].outcome # "success"
           /\ SlotResultHolds(c, i) \/ old[i].outcome = "record_too_large"
  BY <1>1, PendingCase
<1>4. Slots(c)' = new /\ slot.purpose = old[n].purpose /\ slot.repair = old[n].repair
  BY DEF Slots, Last
<1> HIDE DEF n, new
<1>5. new # << >>
  <2>1. Len(new) # 0
    BY <1>1, <1>2
  <2> QED
    BY <2>1
<1>6. \A i \in 1..n : SlotReplays(c, i)'
  <2> TAKE i \in 1..n
  <2>1. SlotReplays(c, i)
    BY <1>3
  <2>2. CASE i = n
    BY <1>1, <1>2, <1>4, <2>1, <2>2 DEF SlotReplays, Slots, new
  <2>3. CASE i # n
    BY <1>1, <1>2, <1>3, <1>4, <2>1, <2>3 DEF SlotReplays, Slots, new
  <2> QED
    BY <2>2, <2>3
<1>7. \A i \in 1..n : i # n =>
        /\ new[i].status = "completed" /\ new[i].outcome # "success"
        /\ SlotResultHolds(c, i)' \/ new[i].outcome = "record_too_large"
  <2> TAKE i \in 1..n
  <2> HAVE i # n
  <2>1. new[i] = old[i] /\ old[i].status = "completed" /\ old[i].outcome # "success"
    BY <1>2, <1>3
  <2>2. SlotResultHolds(c, i) => SlotResultHolds(c, i)'
    BY <2>1, <1>4 DEF SlotResultHolds, Slots
  <2> QED
    BY <1>3, <2>1, <2>2
<1>8. Last(c)' = slot
  BY <1>2, <1>4 DEF Last
<1> QED
  BY <1>1, <1>2, <1>3, <1>4, <1>5, <1>6, <1>7, <1>8 DEF n

(* What FilesInv says of the case in hand. *)
LEMMA CaseInHand ==
  ASSUME TypeInv, FilesInv, pc \in CasePlaces, NEW c \in Cases, c = cur
  PROVE  /\ ledger # None /\ ledger[c].status = "pending"
         /\ Replayable(c) /\ Adoptable(c)
         /\ Slots(c) \in Seq(SlotState) /\ Len(Slots(c)) \in {0, 1, 2}
         /\ DOMAIN Slots(c) = 1..Len(Slots(c))
         /\ Slots(c) = << >> <=> Len(Slots(c)) = 0
<1>1. /\ ledger # None /\ c \in Pending /\ Slots(c) \in Seq(SlotState)
      /\ Len(Slots(c)) \in Nat /\ Len(Slots(c)) <= 2
  BY InCase
<1>2. Len(Slots(c)) \in {0, 1, 2}
  <2> DEFINE n == Len(Slots(c))
  <2>1. n \in Nat /\ n <= 2
    BY <1>1
  <2> HIDE DEF n
  <2>2. n \in {0, 1, 2}
    BY <2>1
  <2> QED
    BY <2>2 DEF n
<1> QED
  BY <1>1, <1>2 DEF FilesInv, OnFile, Pending

(* The slot ReserveSlot appends replays, and so do those before it. *)
LEMMA ReserveReplays ==
  ASSUME TypeInv, Claimed, FilesInv, ReserveSlot, NEW c \in Cases, c = cur
  PROVE  Replayable(c)' /\ Adoptable(c)'
<1> DEFINE n == Len(Slots(c))
           old == Slots(c)
           new == ledger'[c].slots
<1>1. /\ pc = "attempt" /\ pc \in CasePlaces
      /\ UNCHANGED <<quarantine, record, receipt>>
      /\ NextPurpose(c) # "fatal"
      /\ NextPurpose(c) = "transport_retry" => RetryTransport
  BY DEF ReserveSlot, CasePlaces, Places
<1>2. /\ ledger[c].status = "pending" /\ Replayable(c) /\ old \in Seq(SlotState)
      /\ DOMAIN old = 1..n /\ (old = << >> <=> n = 0)
  BY <1>1, CaseInHand
<1>3. /\ n \in {0, 1} /\ Len(new) = n + 1 /\ DOMAIN new = 1..n \cup {n + 1}
      /\ new[n + 1] = NewSlot(c) /\ (\A i \in 1..n : new[i] = old[i])
      /\ ledger'[c].status = "pending" /\ new # << >>
  BY <1>2, ReserveEffect DEF Reserved
<1>4. /\ \A i \in 1..n : SlotReplays(c, i)
      /\ \A i \in 1..n : old[i].status = "completed" =>
           /\ old[i].outcome # "success"
           /\ SlotResultHolds(c, i) \/ old[i].outcome = "record_too_large"
  BY <1>2, PendingCase
<1>5. c \notin Ineligible /\ record[c] = None
  BY <1>1 DEF Claimed, RecordPlaces
<1>6. n = 1 => old[1].status = "completed" /\ Last(c) = old[1] /\ old # << >>
  BY <1>1, <1>2 DEF FilesInv, InHand, Last
<1>7. Slots(c)' = new
  BY DEF Slots
<1>8. /\ NewSlot(c).purpose = NextPurpose(c) /\ NewSlot(c).repair = NextRepair(c)
      /\ NewSlot(c).status = "reserved"
  BY DEF NewSlot
<1> HIDE DEF n, new
<1>9. ASSUME NEW i \in 1..n
      PROVE  /\ SlotReplays(c, i)'
             /\ new[i].status = "completed" /\ new[i].outcome # "success"
             /\ SlotResultHolds(c, i)' \/ new[i].outcome = "record_too_large"
  <2>1. i = 1 /\ n = 1 /\ new[1] = old[1] /\ old[1].status = "completed"
        /\ old[1].outcome # "success"
    BY <1>3, <1>4, <1>6
  <2>2. SlotReplays(c, 1)'
    BY <1>4, <1>7, <2>1 DEF SlotReplays, Slots
  <2>3. SlotResultHolds(c, 1) => SlotResultHolds(c, 1)'
    BY <1>1, <1>7, <2>1 DEF SlotResultHolds, Slots
  <2> QED
    BY <1>4, <2>1, <2>2, <2>3
<1>10. ASSUME NEW k, k = n + 1 PROVE SlotReplays(c, k)'
  <2>1. CASE n = 0
    <3>1. NextPurpose(c) = "normal" /\ NextRepair(c) = NoRepair
      BY <1>2, <2>1 DEF NextPurpose, NextRepair
    <3>2. k = 1 /\ new[1] = NewSlot(c) /\ Len(new) = 1
      BY <1>3, <1>10, <2>1
    <3> QED
      BY <1>1, <1>7, <1>8, <3>1, <3>2 DEF SlotReplays
  <2>2. CASE n = 1
    <3>1. NextPurpose(c) = Purpose(old[1]) /\ NextRepair(c) = Repair(old[1])
      BY <1>6, <2>2 DEF NextPurpose, NextRepair
    <3>2. k = 2 /\ new[1] = old[1] /\ new[2] = NewSlot(c) /\ Len(new) = 2
      BY <1>3, <1>10, <2>2
    <3> QED
      BY <1>1, <1>7, <1>8, <3>1, <3>2 DEF SlotReplays
  <2> QED
    BY <1>3, <2>1, <2>2
<1>11. TerminalHolds(c)'
  BY <1>3, <1>7, <1>8, <1>9 DEF TerminalHolds, HasSuccessSlot
<1>12. Replayable(c)'
  <2>1. \A i \in DOMAIN new : i \in 1..n \/ i = n + 1
    BY <1>3
  <2> QED
    BY <1>3, <1>5, <1>7, <1>8, <1>9, <1>10, <1>11, <2>1 DEF Replayable
<1>13. Adoptable(c)'
  BY <1>1, <1>5 DEF Adoptable
<1> QED
  BY <1>12, <1>13

(* Noting the call leaves the case as it was, but for the slot's status. *)
LEMMA InvokeReplays ==
  ASSUME TypeInv, Claimed, FilesInv, InvokeSlot, NEW c \in Cases, c = cur
  PROVE  Replayable(c)' /\ Adoptable(c)' /\ Last(c)'.status = "provider_invoked"
<1> DEFINE slot == [Last(cur) EXCEPT !.status = "provider_invoked"]
<1>1. /\ pc = "invoke" /\ pc \in CasePlaces /\ Slots(cur) # << >>
      /\ UNCHANGED <<quarantine, record, receipt>>
  BY Typed DEF InvokeSlot, CasePlaces, SlotPlaces, Places
<1>2. /\ slot.purpose = Last(c).purpose /\ slot.repair = Last(c).repair
      /\ slot.status = "provider_invoked"
  BY <1>1, InSlot DEF SlotState
<1>3. Rewritten(slot, "pending")
  BY InvokeEffect
<1>4. Replayable(c)
  BY <1>1, CaseInHand
<1> HIDE DEF slot
<1> DEFINE n == Len(Slots(c))
<1>5. /\ n \in {1, 2} /\ DOMAIN Slots(c)' = 1..n /\ Len(Slots(c)') = n
      /\ Slots(c)' # << >> /\ Last(c)' = slot /\ Slots(c)'[n] = slot
      /\ c \notin Ineligible
      /\ \A i \in 1..n : SlotReplays(c, i)'
      /\ \A i \in 1..n : i # n =>
           /\ Slots(c)'[i].status = "completed" /\ Slots(c)'[i].outcome # "success"
           /\ SlotResultHolds(c, i)' \/ Slots(c)'[i].outcome = "record_too_large"
  BY <1>1, <1>2, <1>3, <1>4, RewrittenReplays
<1>6. ledger'[c].status = "pending"
  BY <1>3 DEF Rewritten
<1> HIDE DEF n
<1>7. TerminalHolds(c)'
  BY <1>2, <1>5, <1>6 DEF TerminalHolds, HasSuccessSlot
<1>8. Replayable(c)'
  BY <1>2, <1>5, <1>7 DEF Replayable
<1>9. record'[c] = None
  BY <1>1 DEF Claimed, RecordPlaces
<1> QED
  BY <1>2, <1>5, <1>8, <1>9 DEF Adoptable

(* What _complete_slot writes, field by field. *)
LEMMA CompletedIs ==
  ASSUME NEW slot \in SlotState, NEW outcome, NEW cached, NEW file
  PROVE  LET done  == Completed(slot, outcome, cached, file)
             known == IF outcome = "record_too_large" THEN "null" ELSE cached
         IN  /\ done.status = "completed" /\ done.outcome = outcome
             /\ done.resultRepair = ResultRepair(outcome, answer.kind)
             /\ done.evidence = Evidence(known) /\ done.cached = known
             /\ done.quarantined = file
             /\ done.purpose = slot.purpose /\ done.repair = slot.repair
BY DEF Completed, SlotState

(* Every outcome comes with a result repair category the validator expects. *)
LEMMA ResultExpected ==
  ASSUME NEW outcome \in Outcomes, NEW kind
  PROVE  ResultRepair(outcome, kind) \in ExpectedResults(outcome)
BY DEF Outcomes, ResultRepair, ExpectedResults

(* The result of a slot that fails is what its quarantine receipt says. *)
LEMMA CompleteReplays ==
  ASSUME TypeInv, Claimed, FilesInv, CompleteSlot, NEW c \in Cases, c = cur
  PROVE  /\ Replayable(c)' /\ Adoptable(c)'
         /\ Slots(c)' # << >> /\ Last(c)'.status = "completed" /\ Last(c)'.outcome = verdict
<1> DEFINE n == Len(Slots(c))
           slot == Completed(Last(cur), verdict, answer.cached,
                             quarantine[cur][Len(Slots(cur))])
<1>1. /\ pc = "complete" /\ pc \in CasePlaces /\ Slots(cur) # << >>
      /\ UNCHANGED <<quarantine, record, receipt>>
  BY Typed DEF CompleteSlot, CasePlaces, SlotPlaces, Places
<1>2. /\ verdict \in Outcomes \ {"success"} /\ Last(cur) \in SlotState /\ n \in 1..MaxSlots
      /\ answer \in TeacherAnswer
  BY <1>1, InSlot, Typed DEF TypeInv, Serving
<1>3. quarantine[c][n] = NewQuarantine /\ NewQuarantine # None
  <2>1. quarantine[c][n] = NewQuarantine
    BY <1>1 DEF FilesInv, Carrying
  <2>2. ResultRepair(verdict, answer.kind) \in Repairs /\ HasResponse(answer) \in BOOLEAN
    BY DEF ResultRepair, Repairs, NoRepair, HasResponse
  <2>3. NewQuarantine \in QuarantineReceipt
    BY <1>2, <2>2 DEF NewQuarantine, QuarantineReceipt, TeacherAnswer
  <2> QED
    BY <2>1, <2>3, BatchAssumption
<1> DEFINE known == IF verdict = "record_too_large" THEN "null" ELSE answer.cached
<1>4. /\ slot.status = "completed" /\ slot.outcome = verdict
      /\ slot.resultRepair = ResultRepair(verdict, answer.kind)
      /\ slot.evidence = Evidence(known) /\ slot.cached = known
      /\ slot.quarantined = NewQuarantine
      /\ slot.purpose = Last(c).purpose /\ slot.repair = Last(c).repair
  BY <1>2, <1>3, CompletedIs
<1>5. Rewritten(slot, "pending") /\ Replayable(c)
  BY <1>1, CompleteEffect, CaseInHand
<1> HIDE DEF slot
<1>6. /\ n \in {1, 2} /\ DOMAIN Slots(c)' = 1..n /\ Len(Slots(c)') = n
      /\ Slots(c)' # << >> /\ Last(c)' = slot /\ Slots(c)'[n] = slot
      /\ c \notin Ineligible
      /\ \A i \in 1..n : SlotReplays(c, i)'
      /\ \A i \in 1..n : i # n =>
           /\ Slots(c)'[i].status = "completed" /\ Slots(c)'[i].outcome # "success"
           /\ SlotResultHolds(c, i)' \/ Slots(c)'[i].outcome = "record_too_large"
  BY <1>1, <1>4, <1>5, RewrittenReplays
<1>7. ledger'[c].status = "pending" /\ record'[c] = None
  BY <1>1, <1>5 DEF Rewritten, Claimed, RecordPlaces
<1> HIDE DEF n
<1>8. ASSUME NEW k, k = n, verdict # "record_too_large" PROVE SlotResultHolds(c, k)'
  <2>1. Slots(c)'[k] = slot /\ known = answer.cached /\ quarantine'[c][k] = NewQuarantine
    BY <1>1, <1>3, <1>6, <1>8
  <2>2. slot.resultRepair \in ExpectedResults(slot.outcome)
    BY <1>2, <1>4, ResultExpected
  <2>3. /\ NewQuarantine.outcome = verdict
        /\ NewQuarantine.repair = ResultRepair(verdict, answer.kind)
        /\ NewQuarantine.cached = answer.cached
        /\ NewQuarantine.committed = HasResponse(answer)
    BY DEF NewQuarantine
  <2>4. slot.outcome \in {"transport", "interrupted_unknown"} => slot.cached = "null"
    BY <1>1, <1>4, <2>1 DEF FilesInv, Carrying
  <2>5. slot.cached = "false" => HasResponse(answer)
    BY <1>4, <2>1 DEF FilesInv, AnswerKept
  <2>6. /\ slot.evidence = "confirmed" <=> slot.cached = "false"
        /\ slot.cached # "false" => slot.evidence = "upper_bound"
    BY <1>4 DEF Evidence
  <2> QED
    BY <1>2, <1>3, <1>4, <2>1, <2>2, <2>3, <2>4, <2>5, <2>6 DEF SlotResultHolds
<1>9. TerminalHolds(c)'
  BY <1>2, <1>4, <1>6, <1>7 DEF TerminalHolds, HasSuccessSlot
<1>10. Replayable(c)'
  BY <1>4, <1>6, <1>8, <1>9 DEF Replayable
<1> QED
  BY <1>4, <1>6, <1>7, <1>10 DEF Adoptable

(* A settled success is backed by its record, and by that alone. *)
LEMMA SettleSuccessReplays ==
  ASSUME TypeInv, Claimed, FilesInv, SettleSuccess, NEW c \in Cases, c = cur
  PROVE  Replayable(c)' /\ Adoptable(c)' /\ Last(c)'.cached = answer.cached
<1> DEFINE n == Len(Slots(c))
           slot == Completed(Last(cur), "success", answer.cached, None)
<1>1. /\ pc = "settle_success" /\ pc \in CasePlaces /\ Slots(cur) # << >>
      /\ UNCHANGED <<quarantine, record, receipt>>
  BY Typed DEF SettleSuccess, CasePlaces, SlotPlaces, Places
<1>2. Last(cur) \in SlotState /\ "success" \in Outcomes
  BY <1>1, InSlot DEF Outcomes
<1>3. /\ slot.status = "completed" /\ slot.outcome = "success"
      /\ slot.resultRepair = ResultRepair("success", answer.kind)
      /\ slot.evidence = Evidence(answer.cached) /\ slot.cached = answer.cached
      /\ slot.purpose = Last(c).purpose /\ slot.repair = Last(c).repair
  BY <1>2, CompletedIs
<1>4. Rewritten(slot, "success") /\ Replayable(c) /\ Adoptable(c) /\ ledger[c].status = "pending"
  BY <1>1, SettleSuccessEffect, CaseInHand
<1> HIDE DEF slot
<1>5. /\ n \in {1, 2} /\ DOMAIN Slots(c)' = 1..n /\ Len(Slots(c)') = n
      /\ Slots(c)' # << >> /\ Last(c)' = slot /\ Slots(c)'[n] = slot
      /\ c \notin Ineligible
      /\ \A i \in 1..n : SlotReplays(c, i)'
      /\ \A i \in 1..n : i # n =>
           /\ Slots(c)'[i].status = "completed" /\ Slots(c)'[i].outcome # "success"
           /\ SlotResultHolds(c, i)' \/ Slots(c)'[i].outcome = "record_too_large"
  BY <1>1, <1>3, <1>4, RewrittenReplays
<1>6. ledger'[c].status = "success"
  BY <1>4 DEF Rewritten
<1>7. record'[c] # None /\ record'[c].prompt = slot.repair /\ receipt'[c] = None
  BY <1>1, <1>3, <1>4 DEF FilesInv, InHand, Adoptable, RecordAdoptable, Claimed, RecordPlaces
<1> HIDE DEF n
<1>8. ASSUME NEW k, k = n PROVE SlotResultHolds(c, k)'
  <2>1. Slots(c)'[k] = slot /\ k = Len(Slots(c)')
    BY <1>5, <1>8
  <2>2. slot.resultRepair \in ExpectedResults(slot.outcome)
    BY <1>2, <1>3, ResultExpected
  <2>3. /\ slot.evidence = "confirmed" <=> slot.cached = "false"
        /\ slot.cached # "false" => slot.evidence = "upper_bound"
    BY <1>3 DEF Evidence
  <2> QED
    BY <1>3, <2>1, <2>2, <2>3 DEF SlotResultHolds
<1>9. TerminalHolds(c)'
  BY <1>3, <1>5, <1>6, <1>7 DEF TerminalHolds, HasSuccessSlot
<1>10. Replayable(c)'
  BY <1>3, <1>5, <1>8, <1>9 DEF Replayable
<1> QED
  BY <1>3, <1>5, <1>6, <1>10 DEF Adoptable

(* A settled failure is backed by its receipt, which names one of the reasons *)
(* its slots can lead to.                                                     *)
LEMMA SettleFailureReplays ==
  ASSUME TypeInv, Claimed, FilesInv, SettleFailure, NEW c \in Cases, c = cur
  PROVE  Replayable(c)' /\ Adoptable(c)'
<1>1. /\ pc = "settle_failure" /\ pc \in CasePlaces
      /\ UNCHANGED <<quarantine, record, receipt>>
  BY DEF SettleFailure, CasePlaces, Places
<1>2. /\ Replayable(c) /\ ledger[c].status = "pending"
      /\ verdict \in ExpectedFailureKinds(c)
      /\ receipt[c] = [attempts |-> Len(Slots(c)), error |-> verdict]
      /\ record[c] = None
  BY <1>1, CaseInHand DEF FilesInv, Carrying, Claimed, RecordPlaces
<1>3. /\ ledger'[c].slots = ledger[c].slots
      /\ ledger'[c].status = "failed" /\ ledger'[c].error = verdict
  BY SettleFailureEffect
<1>4. Slots(c)' = Slots(c)
  BY <1>3 DEF Slots
<1>5. \A i \in DOMAIN Slots(c) :
        /\ SlotReplays(c, i)'
        /\ SlotResultHolds(c, i) => SlotResultHolds(c, i)'
  BY <1>1, <1>2, <1>4 DEF SlotReplays, SlotResultHolds, Replayable
<1>6. ExpectedFailureKinds(c)' = ExpectedFailureKinds(c)
  BY <1>4 DEF ExpectedFailureKinds, CeilingReached, Last
<1>7. ~HasSuccessSlot(c)'
  BY <1>2, <1>4, PendingCase DEF HasSuccessSlot
<1>8. TerminalHolds(c)'
  BY <1>1, <1>2, <1>3, <1>4, <1>6, <1>7 DEF TerminalHolds
<1> QED
  BY <1>2, <1>3, <1>4, <1>5, <1>8 DEF Replayable, Adoptable

(* A new quarantine receipt is that of a slot no completed result is bound to. *)
LEMMA QuarantineReplays ==
  ASSUME TypeInv, Claimed, FilesInv, WriteQuarantine, NEW c \in Cases, c = cur
  PROVE  Replayable(c)' /\ Adoptable(c)'
<1>1. /\ pc = "quarantine" /\ pc \in CasePlaces /\ Slots(cur) # << >>
      /\ UNCHANGED <<ledger, record, receipt>>
  BY Typed DEF WriteQuarantine, CasePlaces, SlotPlaces, Places, durable
<1>2. /\ Replayable(c) /\ Adoptable(c) /\ ledger[c].status = "pending"
      /\ Last(c).status # "completed"
  BY <1>1, CaseInHand DEF FilesInv, InHand
<1>3. \A i \in DOMAIN Slots(c) : Slots(c)[i].status = "completed" => quarantine'[c][i] = quarantine[c][i]
  <2> DEFINE n == Len(Slots(c))
  <2>1. n \in 1..MaxSlots /\ \A i \in DOMAIN Slots(c) : Slots(c)[i].status = "completed" => i # n
    BY <1>1, <1>2, InSlot DEF Last
  <2>2. DOMAIN Slots(c) \subseteq 1..MaxSlots
    BY <1>1, CaseInHand DEF MaxSlots
  <2> HIDE DEF n
  <2>3. \/ quarantine' = quarantine
        \/ quarantine' = [quarantine EXCEPT ![c][n] = NewQuarantine]
    BY DEF WriteQuarantine, durable, n
  <2>4. quarantine[c] \in [1..MaxSlots -> QuarantineReceipt \cup {None}]
        /\ quarantine \in [Cases -> [1..MaxSlots -> QuarantineReceipt \cup {None}]]
    BY Typed
  <2>5. \A i \in 1..MaxSlots : i # n => quarantine'[c][i] = quarantine[c][i]
    BY <2>1, <2>3, <2>4 DEF MaxSlots
  <2> QED
    BY <2>1, <2>2, <2>5
<1>4. Slots(c)' = Slots(c)
  BY <1>1 DEF Slots
<1>5. \A i \in DOMAIN Slots(c) :
        /\ SlotReplays(c, i)'
        /\ Slots(c)[i].status = "completed" /\ SlotResultHolds(c, i) => SlotResultHolds(c, i)'
  BY <1>2, <1>3, <1>4 DEF SlotReplays, SlotResultHolds, Replayable
<1>6. TerminalHolds(c)' /\ Adoptable(c)'
  BY <1>1, <1>2, <1>4 DEF TerminalHolds, HasSuccessSlot, Replayable, Adoptable, RecordAdoptable, Last
<1> QED
  BY <1>2, <1>4, <1>5, <1>6 DEF Replayable

-------------------------------------------------------------------------------
(* The steps that change the ledger entry of a case or a quarantine receipt. *)
SlotWrite ==
  \/ ReserveSlot \/ InvokeSlot \/ WriteQuarantine \/ CompleteSlot
  \/ SettleSuccess \/ SettleFailure

(* They do it to the case in hand alone. *)
LEMMA OtherCases ==
  ASSUME TypeInv, SlotWrite, NEW c \in Cases, c # cur
  PROVE  /\ ledger'[c] = ledger[c] /\ quarantine'[c] = quarantine[c]
         /\ record' = record /\ receipt' = receipt
<1>1. CASE ReserveSlot
  BY <1>1, ReserveEffect DEF Reserved, ReserveSlot
<1>2. CASE InvokeSlot
  BY <1>2, InvokeEffect DEF Rewritten, InvokeSlot
<1>3. CASE WriteQuarantine
  BY <1>3, Typed DEF WriteQuarantine, durable
<1>4. CASE CompleteSlot
  BY <1>4, CompleteEffect DEF Rewritten, CompleteSlot
<1>5. CASE SettleSuccess
  BY <1>5, SettleSuccessEffect DEF Rewritten, SettleSuccess
<1>6. CASE SettleFailure
  BY <1>6, SettleFailureEffect DEF SettleFailure
<1> QED
  BY <1>1, <1>2, <1>3, <1>4, <1>5, <1>6 DEF SlotWrite

(* A record beside a pending case stays that of the slot in flight. *)
LEMMA AdoptableFrame ==
  ASSUME NEW c \in Cases, ledger'[c] = ledger[c], record'[c] = record[c], Adoptable(c)
  PROVE  Adoptable(c)'
BY DEF Adoptable, RecordAdoptable, Last, Slots

(* Whatever is written next, the files stay in order. *)
LEMMA OnFileStep ==
  ASSUME TypeInv, Claimed, FilesInv, [Next]_vars
  PROVE  OnFile'
<1>1. CASE StartBatch
  <2>1. /\ \A c \in Cases : ledger'[c] = [status |-> "pending", slots |-> << >>, error |-> "none"]
        /\ \A c \in Cases : record'[c] = None
    BY <1>1 DEF StartBatch, Claimed
  <2> SUFFICES ASSUME NEW c \in Cases PROVE Replayable(c)' /\ Adoptable(c)'
    BY DEF OnFile
  <2>2. Slots(c)' = << >> /\ ledger'[c].status = "pending" /\ record'[c] = None
    BY <2>1 DEF Slots
  <2> QED
    BY <2>2 DEF Replayable, TerminalHolds, HasSuccessSlot, Adoptable
<1>2. CASE ledger = None /\ ~StartBatch
  <2>1. pc = "down"
    BY <1>2 DEF TypeInv, Serving
  <2>2. UNCHANGED durable
    BY <1>2, <2>1, OthersWriteNothing
       DEF FileWrite, ReserveSlot, InvokeSlot, PublishRecord, RetractRecord, WriteQuarantine,
           CompleteSlot, RemoveStaleReceipt, SettleSuccess, WriteFailureReceipt, SettleFailure,
           CleanUp, WriteManifest, WriteReport
  <2> QED
    BY <1>2, <2>2 DEF OnFile, durable
<1>3. CASE ledger # None /\ ~StartBatch
  <2> SUFFICES ASSUME NEW c \in Cases PROVE Replayable(c)' /\ Adoptable(c)'
    BY DEF OnFile
  <2>1. Replayable(c) /\ Adoptable(c)
    BY <1>3 DEF FilesInv, OnFile
  <2>2. CASE ledger[c].status # "pending"
    <3>1. /\ ledger'[c] = ledger[c] /\ quarantine'[c] = quarantine[c]
          /\ record'[c] = record[c] /\ receipt'[c] = receipt[c]
      BY <1>3, <2>2, ClaimedStep DEF Frozen, vars, durable
    <3> QED
      BY <2>1, <3>1, CaseFrame, AdoptableFrame
  <2>3. CASE ledger[c].status = "pending" /\ c = cur /\ SlotWrite
    BY <2>3, ReserveReplays, InvokeReplays, QuarantineReplays, CompleteReplays,
       SettleSuccessReplays, SettleFailureReplays DEF SlotWrite
  <2>4. CASE ledger[c].status = "pending" /\ c # cur /\ SlotWrite
    BY <2>1, <2>4, OtherCases, CaseFrame, AdoptableFrame
  <2>5. CASE ledger[c].status = "pending" /\ ~SlotWrite
    <3>1. ~CleanUp
      BY <2>5 DEF CleanUp, Pending
    <3>2. ledger' = ledger /\ quarantine' = quarantine
      <4>1. CASE ~FileWrite
        BY <4>1, OthersWriteNothing DEF durable
      <4>2. CASE FileWrite
        BY <1>3, <2>5, <3>1, <4>2
           DEF FileWrite, SlotWrite, PublishRecord, RetractRecord, RemoveStaleReceipt,
               WriteFailureReceipt, WriteManifest, WriteReport, durable
      <4> QED
        BY <4>1, <4>2
    <3>3. Replayable(c)'
      BY <2>1, <2>5, <3>2, CaseFrame
    <3>4. CASE PublishRecord \/ RetractRecord
      <4>1. c # cur => record'[c] = record[c]
        BY <3>4, Typed DEF PublishRecord, RetractRecord
      <4>2. c = cur /\ RetractRecord => record'[c] = None
        BY Typed DEF RetractRecord
      <4>3. ASSUME c = cur, PublishRecord PROVE Adoptable(c)'
        <5>1. /\ Slots(c) # << >> /\ Last(c).status = "provider_invoked"
              /\ record'[c].prompt = Last(c).repair
          BY <4>3, Typed DEF PublishRecord, FilesInv, InHand, SlotPlaces, CasePlaces, Places,
                             InvokedPlaces
        <5> QED
          BY <3>2, <5>1 DEF Adoptable, RecordAdoptable, Last, Slots
      <4>4. c = cur /\ RetractRecord => Adoptable(c)'
        BY <4>2 DEF Adoptable
      <4> QED
        BY <2>1, <3>2, <3>3, <3>4, <4>1, <4>3, <4>4, AdoptableFrame
    <3>5. CASE ~(PublishRecord \/ RetractRecord)
      <4>1. record' = record
        <5>1. CASE ~FileWrite
          BY <5>1, OthersWriteNothing DEF durable
        <5>2. CASE FileWrite
          BY <1>3, <2>5, <3>1, <3>5, <5>2
             DEF FileWrite, SlotWrite, RemoveStaleReceipt, WriteFailureReceipt, WriteManifest,
                 WriteReport, durable
        <5> QED
          BY <5>1, <5>2
      <4> QED
        BY <2>1, <3>2, <3>3, <4>1, AdoptableFrame
    <3> QED
      BY <3>3, <3>4, <3>5
  <2> QED
    BY <2>2, <2>3, <2>4, <2>5
<1> QED
  BY <1>1, <1>2, <1>3

-------------------------------------------------------------------------------
(* The runner's own memory. *)
Memory == InHand /\ AnswerKept /\ Carrying

(* Nothing is in hand when no process runs. *)
LEMMA MemoryLost ==
  ASSUME NEW how, Down(how)
  PROVE  Memory'
<1>1. HasResponse(NoAnswer) = FALSE /\ NoAnswer.cached = "null"
  BY DEF HasResponse, NoAnswer
<1>2. HasResponse(answer)' = HasResponse(NoAnswer) /\ answer'.cached = "null"
  BY <1>1 DEF Down, HasResponse
<1>3. AnswerKept'
  BY <1>1, <1>2 DEF Down, AnswerKept
<1>4. InHand' /\ Carrying'
  BY DEF Down, InHand, Carrying, RecordPlaces, InvokedPlaces, SlotPlaces, CasePlaces
<1> QED
  BY <1>3, <1>4 DEF Memory

(* A step within a case that leaves the files and the answer alone. *)
LEMMA MoveKeepsMemory ==
  ASSUME TypeInv, FilesInv, UNCHANGED durable, NEW place, Goto(place),
         pc \in CasePlaces, place \in CasePlaces,
         \/ answer' = answer /\ (pc \in AnswerPlaces => place \in AnswerPlaces)
         \/ answer' = NoAnswer /\ place \notin AnswerPlaces,
         place \in InvokedPlaces => Last(cur).status = "provider_invoked",
         place = "quarantine" => Last(cur).status # "completed",
         place # "complete", place # "settle_failure",
         place \in {"admit", "prepare", "attempt"} /\ Slots(cur) # << >>
           => Last(cur).status = "completed",
         place \in RecordPlaces \ {"recover"} => record[cur] # None,
         place = "quarantine" /\ verdict' \in {"transport", "interrupted_unknown"}
           => answer.cached = "null" /\ answer' = answer,
         place = "fail" => verdict' \in ExpectedFailureKinds(cur)
  PROVE  Memory'
<1>1. /\ pc' = place /\ cur' = cur /\ resuming' = resuming
      /\ \A c \in Cases : Slots(c)' = Slots(c)
      /\ Slots(cur)' = Slots(cur) /\ Last(cur)' = Last(cur)
      /\ ExpectedFailureKinds(cur)' = ExpectedFailureKinds(cur)
      /\ record' = record /\ Pending' = Pending
  BY DEF Goto, durable, Slots, Last, ExpectedFailureKinds, CeilingReached, Pending
<1>2. InHand'
  <2>1. pc # "next" /\ place # "next"
    BY DEF CasePlaces
  <2>2. ASSUME ~resuming, NEW c \in Pending, c # cur PROVE Slots(c) = << >>
    BY <2>1, <2>2 DEF FilesInv, InHand, CasePlaces
  <2> QED
    BY <1>1, <2>1, <2>2 DEF InHand, Pending
<1>3. AnswerKept'
  <2>1. CASE answer' = answer /\ (pc \in AnswerPlaces => place \in AnswerPlaces)
    BY <1>1, <2>1 DEF FilesInv, AnswerKept, HasResponse
  <2>2. CASE answer' = NoAnswer /\ place \notin AnswerPlaces
    BY <1>1, <2>2 DEF AnswerKept, HasResponse, NoAnswer
  <2> QED
    BY <2>1, <2>2
<1>4. Carrying'
  BY <1>1 DEF Carrying
<1> QED
  BY <1>2, <1>3, <1>4 DEF Memory

(* The reasons to give a case up are those its slots can lead to. *)
LEMMA FailureExpected ==
  ASSUME TypeInv, Claimed, FilesInv, CeilingFailure \/ ClockFailure \/ RetryRefused
  PROVE  verdict' \in ExpectedFailureKinds(cur)
<1>1. /\ cur \notin Ineligible /\ cur \in Cases
      /\ pc = "attempt" /\ Slots(cur) # << >> => Last(cur).status = "completed"
  BY Typed DEF Claimed, CeilingFailure, ClockFailure, RetryRefused, CasePlaces, Places,
               FilesInv, InHand
<1>2. CASE CeilingFailure
  <2>1. Slots(cur) # << >> /\ CeilingReached(cur)
    BY <1>2, InCase DEF CeilingFailure, CeilingReached, MaxSlots, CasePlaces, Places
  <2>2. verdict' = IF Last(cur).status # "completed" THEN "interrupted_provider_slot"
                   ELSE Last(cur).outcome
    BY <1>2 DEF CeilingFailure, Fail
  <2> QED
    BY <1>1, <2>1, <2>2 DEF ExpectedFailureKinds
<1>3. CASE ClockFailure
  BY <1>1, <1>3 DEF ClockFailure, Fail, ExpectedFailureKinds
<1>4. CASE RetryRefused
  <2>1. /\ NextPurpose(cur) = "transport_retry" /\ ~RetryTransport /\ pc = "attempt"
        /\ verdict' = IF Last(cur).outcome = "interrupted_unknown" THEN "interrupted_unknown"
                      ELSE "transport"
    BY <1>4 DEF RetryRefused, Fail
  <2>2. Slots(cur) # << >> /\ Purpose(Last(cur)) = "transport_retry"
    BY <2>1 DEF NextPurpose
  <2>3. Last(cur).status = "completed"
    BY <1>1, <2>1, <2>2
  <2>4. Last(cur).outcome \in {"transport", "interrupted_unknown"}
    BY <2>2, <2>3 DEF Purpose
  <2> QED
    BY <1>1, <2>1, <2>2, <2>3, <2>4 DEF ExpectedFailureKinds
<1> QED
  BY <1>2, <1>3, <1>4

(* Moves within a case that keep the answer, or drop it. *)
LEMMA MovesKeepMemory ==
  ASSUME TypeInv, Claimed, FilesInv,
         \/ RecoverRecord \/ RecoverSlot \/ CeilingFailure \/ ClockFailure \/ Admit
         \/ Prepare \/ RetryUndefined \/ RetryRefused \/ AnswerLate
         \/ AnswerFailed \/ AnswerReceived \/ Evaluate \/ AnswerInvalid \/ AnswerValid
         \/ RecordTooLarge \/ BuildRecord \/ CommitRecord \/ KeepRecord \/ Readback
  PROVE  Memory'
<1> USE DEF Proceed, Fail, Quarantine, CasePlaces, SlotPlaces, Places, InvokedPlaces,
            AnswerPlaces, RecordPlaces
<1>0. /\ pc \in InvokedPlaces => Last(cur).status = "provider_invoked"
      /\ pc \in {"admit", "prepare", "attempt"} /\ Slots(cur) # << >>
           => Last(cur).status = "completed"
      /\ pc \in RecordPlaces \ {"recover"} => record[cur] # None
      /\ pc \notin AnswerPlaces => answer = NoAnswer
      /\ NoAnswer.cached = "null"
      /\ HasResponse(answer) <=> answer.cached # "null"
  BY DEF FilesInv, InHand, AnswerKept, NoAnswer
<1>1. CASE RecoverRecord
  <2>1. CASE RecordAdoptable(cur)
    BY <1>0, <1>1, <2>1, MoveKeepsMemory DEF RecoverRecord, RecordAdoptable
  <2>2. CASE ~RecordAdoptable(cur)
    BY <1>1, <2>2, MemoryLost DEF RecoverRecord
  <2> QED
    BY <2>1, <2>2
<1>2. CASE RecoverSlot
  <2>1. CASE Slots(cur) # << >> /\ Last(cur).status # "completed"
    BY <1>0, <1>2, <2>1, MoveKeepsMemory DEF RecoverSlot
  <2>2. CASE ~(Slots(cur) # << >> /\ Last(cur).status # "completed")
    BY <1>0, <1>2, <2>2, MoveKeepsMemory DEF RecoverSlot
  <2> QED
    BY <2>1, <2>2
<1>3. CASE CeilingFailure
  BY <1>0, <1>3, FailureExpected, MoveKeepsMemory DEF CeilingFailure
<1>4. CASE ClockFailure
  BY <1>0, <1>4, FailureExpected, MoveKeepsMemory DEF ClockFailure
<1>5. CASE Admit
  BY <1>0, <1>5, MoveKeepsMemory DEF Admit
<1>6. CASE Prepare
  BY <1>0, <1>6, MoveKeepsMemory DEF Prepare
<1>7. CASE RetryUndefined
  BY <1>7, MemoryLost DEF RetryUndefined
<1>8. CASE RetryRefused
  BY <1>0, <1>8, FailureExpected, MoveKeepsMemory DEF RetryRefused
<1>9. CASE AnswerLate
  BY <1>0, <1>9, MoveKeepsMemory DEF AnswerLate
<1>10. CASE AnswerFailed
  <2>1. ProviderFailure(answer.kind) # "interrupted_unknown"
    BY DEF ProviderFailure
  <2>2. ProviderFailure(answer.kind) = "transport" => answer.cached = "null"
    BY <1>0 DEF ProviderFailure, HasResponse
  <2> QED
    BY <1>0, <1>10, <2>1, <2>2, MoveKeepsMemory DEF AnswerFailed
<1>11. CASE AnswerReceived
  BY <1>0, <1>11, MoveKeepsMemory DEF AnswerReceived
<1>12. CASE Evaluate
  BY <1>0, <1>12, MoveKeepsMemory DEF Evaluate
<1>13. CASE AnswerInvalid
  BY <1>0, <1>13, MoveKeepsMemory DEF AnswerInvalid
<1>14. CASE AnswerValid
  BY <1>0, <1>14, MoveKeepsMemory DEF AnswerValid
<1>15. CASE RecordTooLarge
  BY <1>0, <1>15, MoveKeepsMemory DEF RecordTooLarge
<1>16. CASE BuildRecord
  BY <1>0, <1>16, MoveKeepsMemory DEF BuildRecord
<1>17. CASE CommitRecord
  BY <1>0, <1>17, MoveKeepsMemory DEF CommitRecord
<1>18. CASE KeepRecord
  <2>1. CASE pc = "published"
    BY <1>0, <1>18, <2>1, MoveKeepsMemory DEF KeepRecord
  <2>2. CASE pc = "verified"
    BY <1>0, <1>18, <2>2, MoveKeepsMemory DEF KeepRecord
  <2> QED
    BY <1>18, <2>1, <2>2 DEF KeepRecord
<1>19. CASE Readback
  BY <1>0, <1>19, MoveKeepsMemory DEF Readback
<1> QED
  BY <1>1, <1>2, <1>3, <1>4, <1>5, <1>6, <1>7, <1>8, <1>9, <1>10, <1>11, <1>12,
     <1>13, <1>14, <1>15, <1>16, <1>17, <1>18, <1>19

(* The answer that comes back is kept; nothing is on file yet. *)
LEMMA CallKeepsMemory ==
  ASSUME TypeInv, FilesInv, CallTeacher
  PROVE  Memory'
<1>1. /\ pc = "call" /\ pc' = "returned" /\ cur' = cur /\ resuming' = resuming
      /\ ledger' = ledger /\ record' = record
      /\ HasResponse(answer') <=> answer'.cached # "null"
  BY DEF CallTeacher, Goto, durable
<1>2. /\ Last(cur)' = Last(cur) /\ Last(cur).status = "provider_invoked"
      /\ \A c \in Cases : Slots(c)' = Slots(c)
      /\ Pending' = Pending
  BY <1>1 DEF FilesInv, InHand, Last, Slots, Pending, InvokedPlaces, SlotPlaces, CasePlaces, Places
<1>3. InHand'
  <2>1. ~resuming => \A c \in Pending : c # cur => Slots(c) = << >>
    BY <1>1 DEF FilesInv, InHand
  <2> QED
    BY <1>1, <1>2, <2>1 DEF InHand, Pending, RecordPlaces
<1>4. AnswerKept'
  BY <1>1 DEF AnswerKept, HasResponse, AnswerPlaces, SlotPlaces, CasePlaces, Places
<1> QED
  BY <1>1, <1>3, <1>4 DEF Memory, Carrying

(* Starting, resuming, stopping, the clock and the choice of a case. *)
LEMMA ControlKeepsMemory ==
  ASSUME TypeInv, Claimed, FilesInv,
         StartBatch \/ ResumeBatch \/ WorldStep \/ NextCase \/ UNCHANGED vars
  PROVE  Memory'
<1> USE DEF CasePlaces, SlotPlaces, Places, InvokedPlaces, AnswerPlaces, RecordPlaces
<1>1. CASE StartBatch
  <2>1. /\ pc' = "next" /\ answer' = answer /\ pc = "down"
        /\ \A c \in Cases : Slots(c)' = << >>
    BY <1>1 DEF StartBatch, Slots
  <2> QED
    BY <2>1 DEF Memory, InHand, AnswerKept, Carrying, HasResponse, FilesInv, Pending
<1>2. CASE ResumeBatch
  BY <1>2 DEF ResumeBatch, Memory, InHand, AnswerKept, Carrying, HasResponse, FilesInv
<1>3. CASE Crash \/ SystemicError
  BY <1>3, MemoryLost DEF Crash, SystemicError
<1>4. CASE Tick \/ ClockSetBack \/ UNCHANGED vars
  <2>1. UNCHANGED <<durable, volatile>>
    BY <1>4 DEF Tick, ClockSetBack, vars
  <2>2. InHand'
    BY <2>1 DEF InHand, FilesInv, Slots, Last, Pending, durable, volatile
  <2>3. AnswerKept'
    BY <2>1 DEF AnswerKept, FilesInv, HasResponse, volatile
  <2>4. Carrying'
    BY <2>1 DEF Carrying, FilesInv, NewQuarantine, HasResponse, ExpectedFailureKinds,
                CeilingReached, Slots, Last, durable, volatile
  <2> QED
    BY <2>2, <2>3, <2>4 DEF Memory
<1>5. CASE NextCase
  <2>1. /\ pc = "next" /\ cur' \in Pending /\ UNCHANGED <<durable, resuming, answer>>
        /\ cur' \in Ineligible => pc' = "fail" /\ verdict' = "ineligible"
        /\ cur' \notin Ineligible => pc' = IF resuming THEN "recover" ELSE "admit"
    BY <1>5 DEF NextCase
  <2>2. /\ \A c \in Cases : Slots(c)' = Slots(c) /\ Last(c)' = Last(c)
        /\ Pending' = Pending
    BY <2>1 DEF Slots, Last, Pending, durable
  <2>3. ~resuming => \A c \in Pending : Slots(c) = << >>
    BY <2>1 DEF FilesInv, InHand
  <2>4. InHand'
    BY <2>1, <2>2, <2>3 DEF InHand, Pending
  <2>5. AnswerKept'
    BY <2>1 DEF AnswerKept, FilesInv, HasResponse
  <2>6. cur' \in Ineligible => Slots(cur)' = << >>
    <3>1. ledger # None
      BY <2>1 DEF TypeInv, Serving
    <3>2. \A c \in Pending : c \in Ineligible => Slots(c)' = << >>
      BY <2>2, <3>1 DEF FilesInv, OnFile, Replayable, Pending
    <3>3. (\A c \in Pending : c \in Ineligible => Slots(c)' = << >>)
            => (cur' \in Ineligible => ledger'[cur'].slots = << >>)
      BY <2>1 DEF Slots
    <3> QED
      BY <3>2, <3>3 DEF Slots
  <2>7. Carrying'
    BY <2>1, <2>6 DEF Carrying, ExpectedFailureKinds
  <2> QED
    BY <2>4, <2>5, <2>7 DEF Memory
<1> QED
  BY <1>1, <1>2, <1>3, <1>4, <1>5 DEF WorldStep

(* The steps that write a file. *)
LEMMA WritesKeepMemory ==
  ASSUME TypeInv, Claimed, FilesInv, FileWrite, ~StartBatch
  PROVE  Memory'
<1> USE DEF CasePlaces, SlotPlaces, Places, InvokedPlaces, AnswerPlaces, RecordPlaces, Goto
<1>0. /\ pc \in InvokedPlaces => Last(cur).status = "provider_invoked"
      /\ pc \in RecordPlaces \ {"recover"} => record[cur] # None
      /\ pc # "down" /\ ~resuming
           => \A c \in Pending : pc = "next" \/ c # cur => Slots(c) = << >>
      /\ pc \notin AnswerPlaces => answer = NoAnswer
      /\ HasResponse(answer) <=> answer.cached # "null"
      /\ HasResponse(NoAnswer) <=> NoAnswer.cached # "null"
      /\ cur \in Cases
  BY Typed DEF FilesInv, InHand, AnswerKept, NoAnswer, HasResponse
<1>1. CASE ReserveSlot
  <2>1. /\ pc = "attempt" /\ pc' = "invoke" /\ UNCHANGED <<resuming, cur, answer>>
        /\ \A c \in Cases : c # cur => Slots(c)' = Slots(c) /\ ledger'[c] = ledger[c]
    BY <1>1, OtherCases DEF ReserveSlot, SlotWrite, Slots
  <2>2. InHand'
    BY <1>0, <2>1 DEF InHand, Pending
  <2> QED
    BY <1>0, <2>1, <2>2 DEF Memory, AnswerKept, Carrying, HasResponse
<1>2. CASE InvokeSlot
  <2>1. /\ pc = "invoke" /\ pc' = "call" /\ UNCHANGED <<resuming, cur, answer>>
        /\ \A c \in Cases : c # cur => Slots(c)' = Slots(c) /\ ledger'[c] = ledger[c]
        /\ Last(cur)'.status = "provider_invoked"
    <3>1. UNCHANGED <<resuming, cur, answer>> /\ pc = "invoke" /\ pc' = "call"
      BY <1>2 DEF InvokeSlot
    <3>2. \A c \in Cases : c = cur => Last(c)'.status = "provider_invoked"
      BY <1>2, InvokeReplays
    <3>3. Last(cur)'.status = "provider_invoked"
      BY <1>0, <3>1, <3>2 DEF Last, Slots
    <3> QED
      BY <1>2, <3>1, <3>3, OtherCases DEF SlotWrite, Slots
  <2>2. InHand'
    BY <1>0, <2>1 DEF InHand, Pending
  <2> QED
    BY <1>0, <2>1, <2>2 DEF Memory, AnswerKept, Carrying, HasResponse
<1>3. CASE PublishRecord
  <2>1. /\ pc = "publish" /\ pc' = "published"
        /\ UNCHANGED <<ledger, resuming, cur, answer>> /\ record'[cur] # None
    <3>1. Last(cur) \in SlotState
      BY <1>3, Typed, InSlot DEF PublishRecord
    <3>2. [prompt |-> Last(cur).repair, late |-> PastDeadline] \in Record
      BY <3>1 DEF Record, SlotState, PastDeadline
    <3>3. record'[cur] = [prompt |-> Last(cur).repair, late |-> PastDeadline]
      BY <1>0, <1>3, Typed DEF PublishRecord
    <3> QED
      BY <1>3, <3>2, <3>3, BatchAssumption DEF PublishRecord
  <2>2. \A c \in Cases : Slots(c)' = Slots(c) /\ Last(c)' = Last(c)
    BY <2>1 DEF Slots, Last
  <2>3. InHand'
    BY <1>0, <2>1, <2>2 DEF InHand, Pending
  <2> QED
    BY <1>0, <2>1, <2>3 DEF Memory, AnswerKept, Carrying, HasResponse
<1>4. CASE RetractRecord
  <2>1. /\ pc \in {"published", "verified"} /\ pc' = "quarantine"
        /\ UNCHANGED <<ledger, resuming, cur, answer>> /\ verdict' = "deadline_exceeded"
    BY <1>4 DEF RetractRecord
  <2>2. \A c \in Cases : Slots(c)' = Slots(c) /\ Last(c)' = Last(c)
    BY <2>1 DEF Slots, Last
  <2>3. InHand'
    BY <1>0, <2>1, <2>2 DEF InHand, Pending
  <2> QED
    BY <1>0, <2>1, <2>3 DEF Memory, AnswerKept, Carrying, HasResponse
<1>5. CASE WriteQuarantine
  <2>1. CASE Down("rejected")
    BY <2>1, MemoryLost
  <2>2. CASE ~Down("rejected")
    <3> DEFINE n == Len(Slots(cur))
    <3>1. /\ pc = "quarantine" /\ pc' = "complete"
          /\ quarantine' = [quarantine EXCEPT ![cur][n] = NewQuarantine]
          /\ UNCHANGED <<ledger, resuming, cur, answer, verdict>>
      BY <1>5, <2>2 DEF WriteQuarantine
    <3>2. n \in 1..MaxSlots
      BY <3>1, Typed, InSlot
    <3> HIDE DEF n
    <3>3. quarantine'[cur][n] = NewQuarantine
      BY <1>0, <3>1, <3>2, Typed DEF MaxSlots
    <3>4. NewQuarantine' = NewQuarantine
      BY <3>1 DEF NewQuarantine, HasResponse
    <3>5. \A c \in Cases : Slots(c)' = Slots(c) /\ Last(c)' = Last(c)
      BY <3>1 DEF Slots, Last
    <3>6. Last(cur).status # "completed"
      BY <3>1 DEF FilesInv, InHand
    <3>7. InHand'
      BY <1>0, <3>1, <3>5, <3>6 DEF InHand, Pending
    <3>8. Carrying'
      <4>1. verdict \in {"transport", "interrupted_unknown"} => answer.cached = "null"
        BY <3>1 DEF FilesInv, Carrying
      <4>2. quarantine'[cur'][Len(Slots(cur)')] = NewQuarantine'
        BY <1>0, <3>1, <3>3, <3>4, <3>5 DEF n
      <4> QED
        BY <3>1, <4>1, <4>2 DEF Carrying
    <3> QED
      BY <1>0, <3>1, <3>7, <3>8 DEF Memory, AnswerKept, HasResponse
  <2> QED
    BY <2>1, <2>2
<1>6. CASE CompleteSlot
  <2>1. /\ pc = "complete" /\ pc' \in {"fail", "admit", "attempt"}
        /\ UNCHANGED <<resuming, cur>> /\ answer' = NoAnswer
        /\ pc' = "fail" => verdict = "deadline_exceeded" /\ verdict' = verdict
    BY <1>6 DEF CompleteSlot
  <2>2. \A c \in Cases : c # cur => Slots(c)' = Slots(c) /\ ledger'[c] = ledger[c]
    BY <1>6, OtherCases DEF SlotWrite, Slots
  <2>3. /\ Slots(cur)' # << >> /\ Last(cur)'.status = "completed"
        /\ Last(cur)'.outcome = verdict
    <3>1. \A c \in Cases : c = cur =>
            /\ Slots(c)' # << >> /\ Last(c)'.status = "completed" /\ Last(c)'.outcome = verdict
      BY <1>6, CompleteReplays
    <3> QED
      BY <1>0, <2>1, <3>1 DEF Last, Slots
  <2>4. InHand'
    BY <1>0, <2>1, <2>2, <2>3 DEF InHand, Pending
  <2>5. Carrying'
    BY <2>1, <2>3 DEF Carrying, ExpectedFailureKinds
  <2> QED
    BY <1>0, <2>1, <2>4, <2>5 DEF Memory, AnswerKept, HasResponse
<1>7. CASE RemoveStaleReceipt
  <2>1. /\ pc = "succeed" /\ pc' = "settle_success"
        /\ UNCHANGED <<ledger, record, resuming, cur, answer>>
    BY <1>7 DEF RemoveStaleReceipt
  <2>2. \A c \in Cases : Slots(c)' = Slots(c) /\ Last(c)' = Last(c)
    BY <2>1 DEF Slots, Last
  <2>3. InHand'
    BY <1>0, <2>1, <2>2 DEF InHand, Pending
  <2> QED
    BY <1>0, <2>1, <2>3 DEF Memory, AnswerKept, Carrying, HasResponse
<1>8. CASE SettleSuccess \/ SettleFailure
  <2>1. /\ pc \in {"settle_success", "settle_failure"} /\ pc' = "next"
        /\ UNCHANGED <<resuming, cur>> /\ answer' = NoAnswer
    BY <1>0, <1>8 DEF SettleSuccess, SettleFailure
  <2>2. /\ \A c \in Cases : c # cur => Slots(c)' = Slots(c) /\ ledger'[c] = ledger[c]
        /\ ledger'[cur].status # "pending"
    BY <1>8, OtherCases, SettleSuccessEffect, SettleFailureEffect
       DEF SlotWrite, Slots, Rewritten
  <2>3. InHand'
    BY <1>0, <2>1, <2>2 DEF InHand, Pending
  <2> QED
    BY <1>0, <2>1, <2>3 DEF Memory, AnswerKept, Carrying, HasResponse
<1>9. CASE WriteFailureReceipt
  <2>1. /\ pc = "fail" /\ pc' = "settle_failure"
        /\ UNCHANGED <<ledger, record, resuming, cur, answer, verdict>>
        /\ receipt'[cur] = [attempts |-> Len(Slots(cur)), error |-> verdict]
    BY <1>0, <1>9, Typed DEF WriteFailureReceipt
  <2>2. \A c \in Cases : Slots(c)' = Slots(c) /\ Last(c)' = Last(c)
    BY <2>1 DEF Slots, Last
  <2>3. InHand'
    BY <1>0, <2>1, <2>2 DEF InHand, Pending
  <2>4. Carrying'
    BY <1>0, <2>1, <2>2 DEF FilesInv, Carrying, ExpectedFailureKinds, CeilingReached
  <2> QED
    BY <1>0, <2>1, <2>3, <2>4 DEF Memory, AnswerKept, HasResponse
<1>10. CASE CleanUp \/ WriteManifest \/ WriteReport
  <2>1. CASE \E how : Down(how)
    BY <2>1, MemoryLost
  <2>2. CASE ~\E how : Down(how)
    <3>1. /\ pc \in {"next", "manifest"} /\ pc' \in {"manifest", "report"}
          /\ UNCHANGED <<ledger, resuming, cur, answer>>
          /\ pc = "next" => Pending = {}
      BY <1>10, <2>2 DEF CleanUp, WriteManifest, WriteReport
    <3>2. ~resuming => \A c \in Pending : c # cur => Slots(c)' = << >>
      BY <1>0, <3>1 DEF Slots
    <3>3. InHand'
      BY <3>1, <3>2 DEF InHand, Pending
    <3> QED
      BY <1>0, <3>1, <3>3 DEF Memory, AnswerKept, Carrying, HasResponse
  <2> QED
    BY <2>1, <2>2
<1> QED
  BY <1>1, <1>2, <1>3, <1>4, <1>5, <1>6, <1>7, <1>8, <1>9, <1>10 DEF FileWrite

(* FilesInv is inductive. *)
LEMMA FilesStep ==
  ASSUME TypeInv, Claimed, FilesInv, [Next]_vars
  PROVE  FilesInv'
<1>1. Memory'
  <2>1. CASE UNCHANGED vars
    BY <2>1, ControlKeepsMemory
  <2>2. CASE Next
    BY <2>2, ControlKeepsMemory, MovesKeepMemory, CallKeepsMemory, WritesKeepMemory
       DEF Next, RunnerStep, SlotStep, CaseStep, FinishStep, FileWrite
  <2> QED
    BY <2>1, <2>2
<1> QED
  BY <1>1, OnFileStep DEF Memory, FilesInv

(* Before the first run there is nothing on file. *)
LEMMA FilesStart == Init => FilesInv
BY DEF Init, FilesInv, OnFile, InHand, AnswerKept, Carrying, HasResponse, NoAnswer,
       InvokedPlaces, AnswerPlaces, SlotPlaces, CasePlaces, RecordPlaces

(* At every instant the files are as FilesInv says. *)
LEMMA FilesAlways == Spec => []FilesInv
<1>1. TypeInv /\ Claimed /\ FilesInv /\ [Next]_vars => FilesInv'
  BY FilesStep
<1> QED
  BY <1>1, FilesStart, TypeInvAlways, ClaimedAlways, PTL DEF Spec

(* A batch is never wedged.  Whatever instant its process dies at, the next   *)
(* --resume finds no fault in the files it left (but for the one outcome,     *)
(* record_too_large, whose receipt and ledger entry disagree), and a record   *)
(* beside a pending case belongs to the slot that was in flight.              *)
THEOREM ResumeAcceptsTheFiles == Spec => []NeverWedged
<1>1. FilesInv => NeverWedged
  <2> SUFFICES ASSUME FilesInv, ledger # None, NEW c \in Cases
               PROVE  /\ \/ CaseHolds(c)
                         \/ \E i \in DOMAIN Slots(c) : Slots(c)[i].outcome = "record_too_large"
                      /\ ledger[c].status = "pending" /\ record[c] # None => RecordAdoptable(c)
    BY DEF NeverWedged
  <2>1. Replayable(c) /\ Adoptable(c)
    BY DEF FilesInv, OnFile
  <2>2. ASSUME \A i \in DOMAIN Slots(c) : Slots(c)[i].outcome # "record_too_large"
        PROVE  CaseHolds(c)
    BY <2>1, <2>2 DEF Replayable, CaseHolds
  <2> QED
    BY <2>1, <2>2 DEF Adoptable
<1> QED
  BY <1>1, FilesAlways, PTL
-------------------------------------------------------------------------------

(* While the ledger and the calls stand, an answer stays that of its case. *)
LEMMA AnswerOrCase ==
  ASSUME [Next]_vars, pc = "next" => answer = NoAnswer,
         ~StartBatch, ~ReserveSlot, ~InvokeSlot, ~CallTeacher, ~CompleteSlot,
         ~SettleSuccess, ~SettleFailure
  PROVE  answer' = NoAnswer \/ (answer' = answer /\ cur' = cur)
<1> USE DEF Goto, Down, Proceed, Fail, Quarantine, volatile
<1>1. CASE UNCHANGED vars \/ ResumeBatch \/ WorldStep
  BY <1>1 DEF vars, ResumeBatch, WorldStep, Crash, SystemicError, Tick, ClockSetBack
<1>2. CASE SlotStep
  BY <1>2 DEF SlotStep, RetryUndefined, RetryRefused, AnswerLate, AnswerFailed,
              AnswerReceived, Evaluate, AnswerInvalid, AnswerValid, RecordTooLarge,
              BuildRecord, CommitRecord, PublishRecord, RetractRecord, KeepRecord, Readback
<1>3. CASE CaseStep
  BY <1>3 DEF CaseStep, NextCase, RecoverRecord, RecoverSlot, CeilingFailure, ClockFailure,
              Admit, Prepare, WriteQuarantine, RemoveStaleReceipt, WriteFailureReceipt
<1>4. CASE FinishStep
  BY <1>4 DEF FinishStep, CleanUp, WriteManifest, WriteReport
<1> QED
  BY <1>1, <1>2, <1>3, <1>4 DEF Next, RunnerStep

(* The answer in hand was paid for by a call for the slot in hand. *)
LEMMA EvidencePaid ==
  ASSUME TypeInv, FilesInv, Confirmed, pc \in SlotPlaces, NEW slot, NEW status, NEW outcome,
         NEW file, Rewritten(slot, status), slot = Completed(Last(cur), outcome, answer.cached, file),
         UNCHANGED calls, NEW i \in DOMAIN Slots(cur)', Slots(cur)'[i].evidence = "confirmed",
         cur' = cur
  PROVE  calls'[cur][i] = 1
<1> DEFINE n == Len(Slots(cur))
<1>1. /\ cur \in Cases /\ ledger # None /\ Last(cur) \in SlotState
  BY Typed, InCase, InSlot DEF SlotPlaces
<1>2. DOMAIN Slots(cur)' = DOMAIN Slots(cur)
  BY DEF Rewritten, Slots
<1>3. CASE i = n
  <2>1. slot.evidence = "confirmed"
    BY <1>3 DEF Rewritten, Slots
  <2>2. answer.cached = "false"
    BY <1>1, <2>1 DEF Completed, Evidence, SlotState
  <2> QED
    BY <1>3, <2>2 DEF Confirmed
<1>4. CASE i # n
  BY <1>1, <1>2, <1>4 DEF Confirmed, Rewritten, Slots
<1> QED
  BY <1>3, <1>4

(* Evidence of a call stays backed by the call. *)
LEMMA ConfirmedStep ==
  ASSUME TypeInv, Paid, FilesInv, Confirmed, [Next]_vars
  PROVE  Confirmed'
<1> USE DEF CasePlaces, SlotPlaces, AnswerPlaces, Places
<1>0. /\ pc \notin AnswerPlaces => answer = NoAnswer
      /\ pc \in CasePlaces => ledger # None /\ cur \in Cases
      /\ NoAnswer.cached # "false"
  BY InCase DEF FilesInv, AnswerKept, NoAnswer
<1>1. CASE StartBatch
  BY <1>0, <1>1 DEF StartBatch, Confirmed, Slots
<1>2. CASE ReserveSlot
  <2>1. Reserved /\ pc = "attempt" /\ answer' = answer /\ UNCHANGED calls
    BY <1>2, ReserveEffect DEF ReserveSlot
  <2>2. NewSlot(cur).evidence # "confirmed"
    BY DEF NewSlot
  <2> QED
    BY <1>0, <2>1, <2>2 DEF Confirmed, Reserved, Slots
<1>3. CASE InvokeSlot
  <2>1. PICK slot : Rewritten(slot, "pending") /\ slot.evidence = Last(cur).evidence
    <3>1. Last(cur) \in SlotState
      BY <1>0, <1>3, Typed, InSlot DEF InvokeSlot
    <3> QED
      BY <1>3, <3>1, InvokeEffect DEF SlotState
  <2>2. pc = "invoke" /\ answer' = answer /\ cur' = cur /\ UNCHANGED calls
    BY <1>3 DEF InvokeSlot, Goto
  <2> QED
    BY <1>0, <2>1, <2>2 DEF Confirmed, Rewritten, Slots, Last
<1>4. CASE CallTeacher
  <2> DEFINE n == Len(Slots(cur))
  <2>1. /\ pc = "call" /\ cur' = cur /\ ledger' = ledger
        /\ \/ answer'.cached # "false" /\ UNCHANGED calls
           \/ calls' = [calls EXCEPT ![cur][n] = @ + 1]
    BY <1>4 DEF CallTeacher, Goto, durable
  <2>2. /\ n \in 1..MaxSlots /\ calls \in [Cases -> [1..MaxSlots -> Nat]]
        /\ cur \in Cases /\ calls[cur][n] = 0
    BY <2>1, Typed, InSlot DEF Paid
  <2>3. Slots(cur)' = Slots(cur)
    BY <2>1 DEF Slots
  <2>4. Len(Slots(cur)') = n
    BY <2>3
  <2> HIDE DEF n
  <2>5. \/ UNCHANGED calls /\ answer'.cached # "false"
        \/ /\ calls'[cur][n] = 1
           /\ \A c \in Cases : \A i \in 1..MaxSlots :
                 ~(c = cur /\ i = n) => calls'[c][i] = calls[c][i]
    BY <2>1, <2>2 DEF MaxSlots
  <2>6. ASSUME NEW c \in Cases, NEW i \in DOMAIN Slots(c)', ledger' # None,
               Slots(c)'[i].evidence = "confirmed"
        PROVE  calls'[c][i] = 1
    <3>1. i \in DOMAIN Slots(c) /\ calls[c][i] = 1
      BY <2>1, <2>6 DEF Confirmed, Slots
    <3>2. i \in 1..MaxSlots
      <4>1. ledger \in [Cases -> CaseState] /\ Len(Slots(c)) <= 2
        BY <1>0, <2>1, InCase, KnownSlots DEF Slots, MaxSlots
      <4>2. Slots(c) \in Seq(SlotState)
        BY <4>1 DEF Slots, CaseState
      <4>3. i \in 1..Len(Slots(c)) /\ Len(Slots(c)) \in Nat
        BY <3>1, <4>2
      <4> QED
        BY <4>1, <4>3 DEF MaxSlots
    <3> QED
      BY <2>2, <2>5, <3>1, <3>2
  <2>7. answer'.cached = "false" => calls'[cur'][Len(Slots(cur)')] = 1
    BY <2>1, <2>4, <2>5
  <2> QED
    BY <2>1, <2>6, <2>7 DEF Confirmed
<1>5. CASE CompleteSlot
  <2>1. pc \in SlotPlaces /\ answer' = NoAnswer /\ cur' = cur /\ UNCHANGED calls
    BY <1>5 DEF CompleteSlot, Goto
  <2>2. PICK file : Rewritten(Completed(Last(cur), verdict, answer.cached, file), "pending")
    BY <1>5, CompleteEffect
  <2>3. \A i \in DOMAIN Slots(cur)' : Slots(cur)'[i].evidence = "confirmed" => calls'[cur][i] = 1
    BY <2>1, <2>2, EvidencePaid
  <2> QED
    BY <1>0, <2>1, <2>2, <2>3 DEF Confirmed, Rewritten, Slots
<1>6. CASE SettleSuccess
  <2>1. pc \in SlotPlaces /\ answer' = NoAnswer /\ cur' = cur /\ UNCHANGED calls
    BY <1>6 DEF SettleSuccess, Goto
  <2>2. Rewritten(Completed(Last(cur), "success", answer.cached, None), "success")
    BY <1>6, SettleSuccessEffect
  <2>3. \A i \in DOMAIN Slots(cur)' : Slots(cur)'[i].evidence = "confirmed" => calls'[cur][i] = 1
    BY <2>1, <2>2, EvidencePaid
  <2> QED
    BY <1>0, <2>1, <2>2, <2>3 DEF Confirmed, Rewritten, Slots
<1>7. CASE SettleFailure
  <2>1. pc = "settle_failure" /\ answer' = answer /\ UNCHANGED calls
    BY <1>7 DEF SettleFailure
  <2> QED
    BY <1>0, <1>7, <2>1, SettleFailureEffect DEF Confirmed, Slots
<1>8. CASE ~(StartBatch \/ ReserveSlot \/ InvokeSlot \/ CallTeacher \/ CompleteSlot
             \/ SettleSuccess \/ SettleFailure)
  <2>1. UNCHANGED <<ledger, calls>>
    BY <1>8, QuietSteps
  <2>2. answer' = NoAnswer \/ (answer' = answer /\ cur' = cur)
    BY <1>0, <1>8, AnswerOrCase
  <2> QED
    BY <1>0, <2>1, <2>2 DEF Confirmed, Slots
<1> QED
  BY <1>1, <1>2, <1>3, <1>4, <1>5, <1>6, <1>7, <1>8

-------------------------------------------------------------------------------
(* The last two places of a run are only reached by their writes. *)
LEMMA LastPlaces ==
  ASSUME [Next]_vars, ~CleanUp, ~WriteManifest
  PROVE  pc' \notin {"manifest", "report"} \/ pc' = pc
<1> USE DEF Goto, Down, Proceed, Fail, Quarantine, volatile
<1>1. CASE UNCHANGED vars \/ StartBatch \/ ResumeBatch \/ WorldStep
  BY <1>1 DEF vars, StartBatch, ResumeBatch, WorldStep, Crash, SystemicError, Tick, ClockSetBack
<1>2. CASE SlotStep
  BY <1>2 DEF SlotStep, RetryUndefined, RetryRefused, ReserveSlot, InvokeSlot, CallTeacher,
              AnswerLate, AnswerFailed,
              AnswerReceived, Evaluate, AnswerInvalid, AnswerValid, RecordTooLarge,
              BuildRecord, CommitRecord, PublishRecord, RetractRecord, KeepRecord, Readback
<1>3. CASE CaseStep
  BY <1>3 DEF CaseStep, NextCase, RecoverRecord, RecoverSlot, CeilingFailure, ClockFailure,
              Admit, Prepare, WriteQuarantine, CompleteSlot, RemoveStaleReceipt, SettleSuccess,
              WriteFailureReceipt, SettleFailure
<1>4. CASE WriteReport
  BY <1>4 DEF WriteReport
<1> QED
  BY <1>1, <1>2, <1>3, <1>4 DEF Next, RunnerStep, FinishStep

(* A settled ledger, the manifest and the report are read from files alone. *)
LEMMA ReportFrame ==
  ASSUME UNCHANGED durable
  PROVE  /\ Tidy' <=> Tidy
         /\ Bound' = Bound
         /\ Uncertain' <=> Uncertain
         /\ Settled("success")' = Settled("success") /\ Settled("failed")' = Settled("failed")
         /\ SlotTotal' = SlotTotal
<1>1. SlotTotal' = SlotTotal
  BY TotalFrame DEF durable
<1> QED
  BY <1>1 DEF Tidy, Bound, Uncertain, Settled, Pending, Slots, durable

(* Before every case has settled there is no report. *)
LEMMA ReportedLater ==
  ASSUME TypeInv, Reported, FileWrite, ~CleanUp, ~WriteManifest, ~WriteReport
  PROVE  Reported'
<1>1. ~Tidy
  <2>1. CASE StartBatch
    BY <2>1 DEF StartBatch, Tidy
  <2>2. CASE ~StartBatch
    <3>1. pc \in CasePlaces
      BY <2>2 DEF FileWrite, ReserveSlot, InvokeSlot, PublishRecord, RetractRecord, WriteQuarantine,
         CompleteSlot, RemoveStaleReceipt, SettleSuccess, WriteFailureReceipt, SettleFailure,
         CasePlaces, Places
    <3> QED
      BY <3>1, InCase DEF Tidy
  <2> QED
    BY <2>1, <2>2
<1>2. report' = report /\ pc' \notin {"manifest", "report"}
  BY DEF FileWrite, StartBatch, ReserveSlot, InvokeSlot, PublishRecord, RetractRecord,
         WriteQuarantine, CompleteSlot, RemoveStaleReceipt, SettleSuccess, WriteFailureReceipt,
         SettleFailure, Goto, Down, durable
<1> QED
  BY <1>1, <1>2 DEF Reported

(* The clean-up leaves every settled case the artifact of its status only. *)
LEMMA CleanUpTidies ==
  ASSUME TypeInv, FilesInv, CleanUp
  PROVE  Tidy'
<1>1. /\ ledger # None /\ ledger' = ledger /\ Pending = {} /\ pc = "next"
      /\ record' = [c \in Cases |-> IF c \in Settled("success") THEN record[c] ELSE None]
      /\ receipt' = [c \in Cases |-> IF c \in Settled("failed") THEN receipt[c] ELSE None]
  BY DEF CleanUp, TypeInv, Serving
<1>2. ledger \in [Cases -> CaseState]
  BY <1>1 DEF TypeInv, TypeOK
<1>3. ASSUME NEW c \in Cases
      PROVE  /\ ledger[c].status = "success" => record[c] # None
             /\ ledger[c].status = "failed" => receipt[c] # None
  <2>1. TerminalHolds(c)
    BY <1>1 DEF FilesInv, OnFile, Replayable
  <2>2. ledger[c].status = "failed" => receipt[c] # None
    <3> SUFFICES ASSUME ledger[c].status = "failed" PROVE receipt[c] # None
      OBVIOUS
    <3>0. Slots(c) # << >> /\ Last(c).status = "completed" => Last(c).outcome \in Outcomes
      <4> SUFFICES ASSUME Slots(c) # << >>, Last(c).status = "completed"
                   PROVE  Last(c).outcome \in Outcomes
        OBVIOUS
      <4>1. Last(c) \in SlotState /\ Len(Slots(c)) \in DOMAIN Slots(c)
        BY <1>2, LastSlot
      <4>2. Last(c).outcome # "none"
        BY <1>1, <4>1 DEF TypeInv, OutcomesKnown, Last
      <4> QED
        BY <4>1, <4>2 DEF SlotState
    <3>1. /\ receipt[c] = [attempts |-> Len(Slots(c)), error |-> ledger[c].error]
          /\ ledger[c].error \in ErrorKinds
      <4>1. ledger[c].error \in ExpectedFailureKinds(c)
        BY <2>1 DEF TerminalHolds
      <4>2. ExpectedFailureKinds(c) \subseteq ErrorKinds
        BY <3>0 DEF ExpectedFailureKinds, ErrorKinds, Outcomes
      <4> QED
        BY <2>1, <4>1, <4>2 DEF TerminalHolds
    <3>2. Len(Slots(c)) \in 0..MaxSlots
      <4>1. Slots(c) \in Seq(SlotState) /\ Len(Slots(c)) <= MaxSlots
        BY <1>1, <1>2 DEF TypeInv, TypeOK, Slots, CaseState
      <4> DEFINE n == Len(Slots(c))
      <4>2. n \in Nat /\ n <= 2
        BY <4>1 DEF MaxSlots
      <4> HIDE DEF n
      <4>3. n \in 0..MaxSlots
        BY <4>2 DEF MaxSlots
      <4> QED
        BY <4>3 DEF n
    <3>3. receipt[c] \in FailureReceipt
      BY <3>1, <3>2 DEF FailureReceipt
    <3> QED
      BY <3>3, BatchAssumption
  <2> QED
    BY <2>1, <2>2 DEF TerminalHolds
<1> QED
  BY <1>1, <1>3 DEF Tidy, Pending, Settled

(* What was reported stays true of the files. *)
LEMMA ReportedStep ==
  ASSUME TypeInv, FilesInv, Reported, [Next]_vars
  PROVE  Reported'
<1>1. CASE ~FileWrite
  <2>1. UNCHANGED durable
    BY <1>1, OthersWriteNothing
  <2>2. pc' \notin {"manifest", "report"} \/ pc' = pc
    BY <1>1, LastPlaces DEF FileWrite
  <2> QED
    BY <2>1, <2>2, ReportFrame DEF Reported, durable
<1>2. CASE FileWrite /\ ~CleanUp /\ ~WriteManifest /\ ~WriteReport
  BY <1>2, ReportedLater
<1>3. CASE CleanUp
  <2>1. UNCHANGED <<ledger, manifest, report>> /\ pc' = "manifest"
    BY <1>3 DEF CleanUp, Goto
  <2>2. Tidy'
    BY <1>3, CleanUpTidies
  <2>3. SlotTotal' = SlotTotal
    BY <2>1, TotalFrame
  <2> QED
    BY <2>1, <2>2, <2>3 DEF Reported, Bound, Settled, Uncertain, Slots
<1>4. CASE WriteManifest
  <2>1. Tidy /\ UNCHANGED <<ledger, record, receipt, report>>
    BY <1>4 DEF WriteManifest, Reported, durable
  <2>2. Tidy' /\ Bound' = Bound /\ (Uncertain' <=> Uncertain)
        /\ Settled("success")' = Settled("success") /\ Settled("failed")' = Settled("failed")
    BY <2>1 DEF Tidy, Bound, Settled, Uncertain, Pending, Slots
  <2>3. SlotTotal' = SlotTotal
    BY <2>1, TotalFrame
  <2>4. CASE UNCHANGED durable /\ pc' = "down"
    BY <2>1, <2>2, <2>3, <2>4 DEF Reported, durable
  <2>5. CASE ~(UNCHANGED durable /\ pc' = "down")
    <3>1. /\ manifest' = [ledger |-> ledger, records |-> {c \in Cases : record[c] # None},
                          failures |-> {c \in Cases : receipt[c] # None}]
      BY <1>4, <2>5 DEF WriteManifest, Down
    <3>2. /\ {c \in Cases : record[c] # None} = Settled("success")
          /\ {c \in Cases : receipt[c] # None} = Settled("failed")
      BY <2>1 DEF Tidy, Settled
    <3>3. manifest' = Bound
      BY <3>1, <3>2 DEF Bound
    <3> QED
      BY <2>1, <2>2, <2>3, <3>3 DEF Reported
  <2> QED
    BY <2>4, <2>5
<1>5. CASE WriteReport
  <2>1. /\ Tidy /\ manifest = Bound /\ pc' = "down"
        /\ UNCHANGED <<ledger, record, receipt, manifest>>
        /\ report' = [success |-> Settled("success"), failed |-> Settled("failed"),
                      kind |-> IF Uncertain THEN "upper_bound" ELSE "exact",
                      value |-> SlotTotal[NumCases]]
    BY <1>5 DEF WriteReport, Reported, Down
  <2>2. Tidy' /\ Bound' = Bound /\ (Uncertain' <=> Uncertain)
        /\ Settled("success")' = Settled("success") /\ Settled("failed")' = Settled("failed")
    BY <2>1 DEF Tidy, Bound, Settled, Uncertain, Pending, Slots
  <2>3. SlotTotal' = SlotTotal
    BY <2>1, TotalFrame
  <2>4. report'.kind = "exact" => ~Uncertain
    BY <2>1
  <2> QED
    BY <2>1, <2>2, <2>3, <2>4 DEF Reported
<1> QED
  BY <1>1, <1>2, <1>3, <1>4, <1>5

(* Before the first run nothing has been reported and no call was made. *)
LEMMA ReportStart == Init => Reported /\ Confirmed
BY DEF Init, Reported, Confirmed, NoAnswer

(* The evidence on file and the report are always backed. *)
LEMMA ReportAlways == Spec => [](Reported /\ Confirmed)
<1>1. TypeInv /\ Paid /\ FilesInv /\ Reported /\ Confirmed /\ [Next]_vars
        => (Reported /\ Confirmed)'
  BY ReportedStep, ConfirmedStep
<1> QED
  BY <1>1, ReportStart, TypeInvAlways, PaidAlways, FilesAlways, PTL DEF Spec

(* Once a report exists it stays true of the files, whatever later resumes do: *)
(* its successes are the cases with a record, its failures those with a        *)
(* failure receipt, together they are all the cases, and the manifest binds    *)
(* the ledger that is on disk.                                                 *)
THEOREM ReportStaysTrue == Spec => []ReportMatchesFiles
<1>1. TypeInv /\ Reported => ReportMatchesFiles
  <2> SUFFICES ASSUME TypeInv, Reported, report # None
               PROVE  /\ report.success = {c \in Cases : record[c] # None}
                      /\ report.failed = {c \in Cases : receipt[c] # None}
                      /\ report.success \cup report.failed = Cases
                      /\ report.success \cap report.failed = {}
                      /\ manifest = [ledger |-> ledger, records |-> report.success,
                                     failures |-> report.failed]
    BY DEF ReportMatchesFiles
  <2>1. /\ ledger \in [Cases -> CaseState] /\ Pending = {} /\ manifest = Bound
        /\ report.success = Settled("success") /\ report.failed = Settled("failed")
        /\ \A c \in Cases : /\ ledger[c].status = "success" <=> record[c] # None
                            /\ ledger[c].status = "failed"  <=> receipt[c] # None
    BY DEF Reported, Tidy, TypeInv, TypeOK
  <2>2. \A c \in Cases : ledger[c].status \in {"success", "failed"}
    BY <2>1 DEF Pending, CaseState
  <2> QED
    BY <2>1, <2>2 DEF Settled, Bound
<1> QED
  BY <1>1, TypeInvAlways, ReportAlways, PTL

(* The invocation count of a report is honest: its value is the number of     *)
(* slots consumed, no more calls were made than that, and "exact" is claimed  *)
(* only when every slot consumed was a call the provider really got.          *)
THEOREM CountIsHonest == Spec => []InvocationCountHonest
<1>1. TypeInv /\ Paid /\ Reported /\ Confirmed => InvocationCountHonest
  <2> SUFFICES ASSUME TypeInv, Paid, Reported, Confirmed, report # None
               PROVE  /\ report.value = SlotTotal[NumCases]
                      /\ \A c \in Cases : \A i \in 1..MaxSlots :
                           calls[c][i] <= IF i \in DOMAIN Slots(c) THEN 1 ELSE 0
                      /\ report.kind = "exact" =>
                           \A c \in Cases : \A i \in DOMAIN Slots(c) : calls[c][i] = 1
    BY DEF InvocationCountHonest
  <2>1. /\ report.value = SlotTotal[NumCases] /\ ledger # None
        /\ report.kind = "exact" => ~Uncertain
    BY DEF Reported, Tidy
  <2>2. ASSUME NEW c \in Cases, NEW i \in 1..MaxSlots
        PROVE  calls[c][i] <= IF i \in DOMAIN Slots(c) THEN 1 ELSE 0
    <3>1. calls[c][i] # 0 => calls[c][i] = 1 /\ i <= Len(Slots(c))
      BY DEF Paid
    <3>2. i \in 1..2
      BY DEF MaxSlots
    <3>3. DOMAIN Slots(c) = 1..Len(Slots(c)) /\ Len(Slots(c)) \in Nat
      BY <2>1 DEF TypeInv, TypeOK, CaseState, Slots
    <3>4. calls[c][i] # 0 => i \in DOMAIN Slots(c)
      BY <3>1, <3>2, <3>3
    <3> QED
      BY <3>1, <3>4
  <2>3. ASSUME report.kind = "exact", NEW c \in Cases, NEW i \in DOMAIN Slots(c)
        PROVE  calls[c][i] = 1
    BY <2>1, <2>3 DEF Uncertain, Confirmed
  <2> QED
    BY <2>1, <2>2, <2>3
<1> QED
  BY <1>1, TypeInvAlways, PaidAlways, ReportAlways, PTL
-------------------------------------------------------------------------------
(* Only SettleSuccess makes a success of a case. *)
LEMMA NewSuccess ==
  ASSUME TypeInv, [Next]_vars, ~SettleSuccess, NEW c \in Cases,
         ledger' # None, ledger'[c].status = "success"
  PROVE  ledger # None /\ ledger[c].status = "success"
<1>1. CASE StartBatch
  BY <1>1 DEF StartBatch
<1>2. CASE ReserveSlot
  BY <1>2, InCase, ReserveEffect DEF Reserved, ReserveSlot, CasePlaces, Places
<1>3. CASE InvokeSlot
  BY <1>3, InCase, InvokeEffect DEF Rewritten, InvokeSlot, CasePlaces, Places
<1>4. CASE CompleteSlot
  BY <1>4, InCase, CompleteEffect DEF Rewritten, CompleteSlot, CasePlaces, Places
<1>5. CASE SettleFailure
  BY <1>5, InCase, SettleFailureEffect DEF SettleFailure, CasePlaces, Places
<1>6. CASE CallTeacher
  BY <1>6 DEF CallTeacher, durable
<1>7. CASE ~(StartBatch \/ ReserveSlot \/ InvokeSlot \/ CallTeacher \/ CompleteSlot
             \/ SettleFailure)
  BY <1>7, QuietSteps
<1> QED
  BY <1>1, <1>2, <1>3, <1>4, <1>5, <1>6, <1>7

(* Where a record of the run itself lies that its case has not claimed yet. *)
KeptPlaces == {"readback", "verified", "succeed", "settle_success"}

(* How the runner comes there: with its own record in time, or with a record *)
(* of a dead run and no answer.                                              *)
LEMMA KeptHow ==
  ASSUME [Next]_vars, pc' \in KeptPlaces
  PROVE  /\ record' = record /\ cur' = cur /\ answer' = answer
         /\ \/ pc \in KeptPlaces
            \/ pc = "published" /\ ~PastDeadline
            \/ pc = "recover"
<1> USE DEF KeptPlaces, Goto, Down, Proceed, Fail, Quarantine, durable, volatile
<1>1. CASE UNCHANGED vars \/ StartBatch \/ ResumeBatch \/ WorldStep
  BY <1>1 DEF vars, StartBatch, ResumeBatch, WorldStep, Crash, SystemicError, Tick, ClockSetBack
<1>2. CASE SlotStep
  BY <1>2 DEF SlotStep, RetryUndefined, RetryRefused, ReserveSlot, InvokeSlot, CallTeacher,
              AnswerLate, AnswerFailed,
              AnswerReceived, Evaluate, AnswerInvalid, AnswerValid, RecordTooLarge,
              BuildRecord, CommitRecord, PublishRecord, RetractRecord, KeepRecord, Readback
<1>3. CASE CaseStep
  BY <1>3 DEF CaseStep, NextCase, RecoverRecord, RecoverSlot, CeilingFailure, ClockFailure,
              Admit, Prepare, WriteQuarantine, CompleteSlot, RemoveStaleReceipt, SettleSuccess,
              WriteFailureReceipt, SettleFailure
<1>4. CASE FinishStep
  BY <1>4 DEF FinishStep, CleanUp, WriteManifest, WriteReport
<1> QED
  BY <1>1, <1>2, <1>3, <1>4 DEF Next, RunnerStep

(* A record that is late when it is put in place is so at every later look. *)
LEMMA PublishedHow ==
  ASSUME [Next]_vars, pc' = "published", TypeInv, clockSteps' = 0
  PROVE  /\ cur' = cur
         /\ PastDeadline => PastDeadline'
         /\ \/ record' = record /\ pc = "published"
            \/ record'[cur].late = PastDeadline
<1> USE DEF Goto, Down, Proceed, Fail, Quarantine, durable, volatile
<1>1. CASE UNCHANGED vars
  BY <1>1 DEF vars, world, PastDeadline
<1>2. CASE WorldStep
  BY <1>2, Typed, BatchAssumption DEF WorldStep, Crash, SystemicError, Tick, ClockSetBack, PastDeadline
<1>3. CASE StartBatch \/ ResumeBatch \/ CaseStep \/ FinishStep
  BY <1>3 DEF StartBatch, ResumeBatch, FinishStep, CleanUp, WriteManifest, WriteReport,
              CaseStep, NextCase, RecoverRecord, RecoverSlot, CeilingFailure, ClockFailure,
              Admit, Prepare, WriteQuarantine, CompleteSlot, RemoveStaleReceipt, SettleSuccess,
              WriteFailureReceipt, SettleFailure
<1>4. CASE PublishRecord
  BY <1>4, Typed DEF PublishRecord, PastDeadline
<1>5. CASE SlotStep /\ ~PublishRecord
  BY <1>5 DEF SlotStep, RetryUndefined, RetryRefused, ReserveSlot, InvokeSlot, CallTeacher,
              AnswerLate, AnswerFailed,
              AnswerReceived, Evaluate, AnswerInvalid, AnswerValid, RecordTooLarge,
              BuildRecord, CommitRecord, RetractRecord, KeepRecord, Readback
<1> QED
  BY <1>1, <1>2, <1>3, <1>4, <1>5 DEF Next, RunnerStep

(* The clock that was never set back was not set back by an earlier step. *)
LEMMA NeverSetBack ==
  ASSUME TypeInv, [Next]_vars, clockSteps' = 0
  PROVE  clockSteps = 0
<1> USE DEF Goto, Down, Proceed, Fail, Quarantine, world
<1>1. CASE UNCHANGED vars \/ StartBatch \/ ResumeBatch \/ FinishStep
  BY <1>1 DEF vars, StartBatch, ResumeBatch, FinishStep, CleanUp, WriteManifest, WriteReport
<1>2. CASE WorldStep
  BY <1>2, Typed DEF WorldStep, Crash, SystemicError, Tick, ClockSetBack
<1>3. CASE SlotStep
  BY <1>3 DEF SlotStep, RetryUndefined, RetryRefused, ReserveSlot, InvokeSlot, CallTeacher,
              AnswerLate, AnswerFailed,
              AnswerReceived, Evaluate, AnswerInvalid, AnswerValid, RecordTooLarge,
              BuildRecord, CommitRecord, PublishRecord, RetractRecord, KeepRecord, Readback
<1>4. CASE CaseStep
  BY <1>4 DEF CaseStep, NextCase, RecoverRecord, RecoverSlot, CeilingFailure, ClockFailure,
              Admit, Prepare, WriteQuarantine, CompleteSlot, RemoveStaleReceipt, SettleSuccess,
              WriteFailureReceipt, SettleFailure
<1> QED
  BY <1>1, <1>2, <1>3, <1>4 DEF Next, RunnerStep

(* LateInv is inductive. *)
LEMMA LateStep ==
  ASSUME TypeInv, Claimed, FilesInv, LateInv, [Next]_vars
  PROVE  LateInv'
<1> SUFFICES ASSUME clockSteps' = 0 PROVE LateSeen'
  BY DEF LateInv
<1>0. LateSeen
  BY NeverSetBack DEF LateInv
<1>1. pc' = "published" /\ record'[cur'].late => PastDeadline'
  BY <1>0, PublishedHow DEF LateSeen
<1>2. pc' \in KeptPlaces /\ record'[cur'].late => answer'.cached = "null"
  <2> SUFFICES ASSUME pc' \in KeptPlaces, record'[cur'].late
               PROVE  answer'.cached = "null"
    OBVIOUS
  <2>1. pc = "recover" => answer.cached = "null"
    BY DEF FilesInv, AnswerKept, AnswerPlaces, SlotPlaces, NoAnswer
  <2> QED
    BY <1>0, <2>1, KeptHow DEF LateSeen, KeptPlaces
<1>3. LateRecordRetracted'
  <2> SUFFICES ASSUME NEW c \in Cases, ledger' # None, ledger'[c].status = "success",
                      record'[c].late
               PROVE  Last(c)'.cached = "null"
    BY DEF LateRecordRetracted
  <2>1. CASE ledger # None /\ ledger[c].status = "success"
    <3>1. ledger'[c] = ledger[c] /\ record'[c] = record[c]
      <4>1. [Frozen]_vars
        BY ClaimedStep
      <4> QED
        BY <2>1, <4>1 DEF Frozen, vars, durable
    <3> QED
      BY <1>0, <2>1, <3>1 DEF LateSeen, LateRecordRetracted, Last, Slots
  <2>2. CASE ~(ledger # None /\ ledger[c].status = "success")
    <3>1. SettleSuccess
      BY <2>2, NewSuccess
    <3>2. c = cur
      BY <2>2, <3>1, InCase, SettleSuccessEffect DEF Rewritten, SettleSuccess, CasePlaces, Places
    <3>3. Last(c)'.cached = answer.cached
      BY <3>1, <3>2, SettleSuccessReplays
    <3>4. pc = "settle_success" /\ record' = record
      BY <3>1 DEF SettleSuccess
    <3> QED
      BY <1>0, <3>2, <3>3, <3>4 DEF LateSeen
  <2> QED
    BY <2>1, <2>2
<1> QED
  BY <1>1, <1>2, <1>3 DEF LateSeen, KeptPlaces

(* A record put in place after the deadline is taken back: as long as nobody  *)
(* has set the clock back, a case that settled as a success while its record  *)
(* was late owes it to a dead run, and its unknown cached flag shows it.      *)
THEOREM LateRecordsAreRetracted == Spec => [](clockSteps = 0 => LateRecordRetracted)
<1>1. Init => LateInv
  BY DEF Init, LateInv, LateSeen, LateRecordRetracted
<1>2. TypeInv /\ Claimed /\ FilesInv /\ LateInv /\ [Next]_vars => LateInv'
  BY LateStep
<1>3. LateInv => (clockSteps = 0 => LateRecordRetracted)
  BY DEF LateInv, LateSeen
<1> QED
  BY <1>1, <1>2, <1>3, TypeInvAlways, ClaimedAlways, FilesAlways, PTL DEF Spec
===============================================================================
