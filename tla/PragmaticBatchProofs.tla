------------------------- MODULE PragmaticBatchProofs -------------------------
(***************************************************************************)
(* Theorems of PragmaticBatch, for every number of cases, every limit and  *)
(* any number of crashes.                                                  *)
(***************************************************************************)
EXTENDS PragmaticBatch, TLAPS

(* Where the runner serves the case cur, and where that case has a slot. *)
CasePlaces == Places \ {"down", "next", "manifest", "report"}
SlotPlaces == CasePlaces \ {"recover", "admit", "prepare", "attempt",
                            "fail", "settle_failure"}

(* The runner's position fits the ledger: it serves the first pending case, *)
(* and beyond the reservation that case has a slot.                         *)
Serving ==
  /\ pc # "down" => ledger # None
  /\ pc \in CasePlaces => cur \in Pending /\ \A d \in Cases : d < cur => d \notin Pending
  /\ pc \in SlotPlaces => Slots(cur) # << >>
  /\ pc \in {"quarantine", "complete"} => verdict \in Outcomes \ {"success"}
  /\ pc \in {"fail", "settle_failure"} => verdict \in ErrorKinds

(* A completed slot has an outcome. *)
OutcomesKnown ==
  ledger # None =>
    \A c \in Cases : \A i \in DOMAIN Slots(c) :
      Slots(c)[i].status = "completed" => Slots(c)[i].outcome # "none"

TypeInv == TypeOK /\ Serving /\ OutcomesKnown

-------------------------------------------------------------------------------
(* Reading the last slot of a case. *)
LEMMA LastSlot ==
  ASSUME ledger \in [Cases -> CaseState], NEW c \in Cases, Slots(c) # << >>
  PROVE  /\ Len(Slots(c)) \in Nat \ {0}
         /\ Len(Slots(c)) \in DOMAIN Slots(c)
         /\ Last(c) \in SlotState
BY DEF Slots, Last, CaseState

(* Replacing the last slot of a case changes nothing else. *)
LEMMA ReplaceLast ==
  ASSUME ledger \in [Cases -> CaseState], NEW c \in Cases, Slots(c) # << >>,
         NEW slot \in SlotState
  PROVE  LET new == WithLast(c, slot)
         IN  /\ new \in [Cases -> CaseState]
             /\ \A d \in Cases \ {c} : new[d] = ledger[d]
             /\ new[c].status = ledger[c].status
             /\ new[c].error = ledger[c].error
             /\ Len(new[c].slots) = Len(Slots(c))
             /\ new[c].slots[Len(Slots(c))] = slot
             /\ \A i \in DOMAIN Slots(c) :
                   i # Len(Slots(c)) => new[c].slots[i] = Slots(c)[i]
<1>1. ledger[c] \in CaseState /\ Slots(c) \in Seq(SlotState)
  BY DEF Slots, CaseState
<1>2. Len(Slots(c)) \in DOMAIN Slots(c)
  BY LastSlot
<1> DEFINE seq == [Slots(c) EXCEPT ![Len(Slots(c))] = slot]
           rec == [ledger[c] EXCEPT !.slots = seq]
<1>3. /\ seq \in Seq(SlotState)
      /\ Len(seq) = Len(Slots(c))
      /\ seq[Len(Slots(c))] = slot
      /\ \A i \in DOMAIN Slots(c) : i # Len(Slots(c)) => seq[i] = Slots(c)[i]
  BY <1>1, <1>2
<1> HIDE DEF seq
<1>4. /\ rec \in CaseState
      /\ rec.slots = seq /\ rec.status = ledger[c].status /\ rec.error = ledger[c].error
  BY <1>1, <1>3 DEF CaseState
<1>5. WithLast(c, slot) = [ledger EXCEPT ![c] = rec]
  BY DEF WithLast, Slots, seq
<1> HIDE DEF rec
<1> QED
  BY <1>3, <1>4, <1>5

(* Reserving a slot appends one and changes nothing else. *)
LEMMA AppendSlot ==
  ASSUME ledger \in [Cases -> CaseState], NEW c \in Cases, NEW slot \in SlotState
  PROVE  LET new == [ledger EXCEPT ![c].slots = Append(@, slot)]
         IN  /\ new \in [Cases -> CaseState]
             /\ \A d \in Cases \ {c} : new[d] = ledger[d]
             /\ new[c].status = ledger[c].status
             /\ new[c].error = ledger[c].error
             /\ new[c].slots = Append(Slots(c), slot)
<1>1. ledger[c] \in CaseState /\ Slots(c) \in Seq(SlotState)
  BY DEF Slots, CaseState
<1> DEFINE seq == Append(Slots(c), slot)
           rec == [ledger[c] EXCEPT !.slots = seq]
<1>2. seq \in Seq(SlotState)
  BY <1>1
<1> HIDE DEF seq
<1>3. /\ rec \in CaseState
      /\ rec.slots = seq /\ rec.status = ledger[c].status /\ rec.error = ledger[c].error
  BY <1>1, <1>2 DEF CaseState
<1>4. [ledger EXCEPT ![c].slots = Append(@, slot)] = [ledger EXCEPT ![c] = rec]
  BY DEF Slots, seq
<1> HIDE DEF rec
<1> QED
  BY <1>3, <1>4 DEF seq
-------------------------------------------------------------------------------
(* A process that ends leaves well-typed files behind. *)
LEMMA StopKeepsTypes ==
  ASSUME TypeInv, UNCHANGED durable,
         NEW how \in {"none", "crashed", "systemic", "rejected", "finished"}, Down(how),
         elapsed' \in Nat, clockSteps' \in Nat, stops' \in Nat, UNCHANGED calls
  PROVE  TypeInv'
<1>1. 1 \in Cases
  BY BatchAssumption DEF Cases
<1>2. TypeOK'
  BY <1>1 DEF TypeInv, TypeOK, Down, durable, Slots, Places, NoAnswer, TeacherAnswer,
              AllAnswers, CachedFlags
<1>3. Serving' /\ OutcomesKnown'
  BY DEF TypeInv, Serving, OutcomesKnown, Down, durable, Slots, CasePlaces, SlotPlaces
<1> QED
  BY <1>2, <1>3 DEF TypeInv

(* So does a step within a case that only moves the runner. *)
LEMMA MoveKeepsTypes ==
  ASSUME TypeInv, UNCHANGED <<durable, elapsed, clockSteps, stops>>,
         pc \in CasePlaces, NEW place \in CasePlaces, Goto(place),
         place \in SlotPlaces => Slots(cur) # << >>,
         answer' \in TeacherAnswer,
         verdict' \in ErrorKinds \cup {NoVerdict},
         place \in {"quarantine", "complete"} => verdict' \in Outcomes \ {"success"},
         place \in {"fail", "settle_failure"} => verdict' \in ErrorKinds,
         calls' \in [Cases -> [1..MaxSlots -> Nat]]
  PROVE  TypeInv'
<1>1. TypeOK'
  BY DEF TypeInv, TypeOK, Goto, durable, Slots, CasePlaces
<1>2. Serving'
  BY DEF TypeInv, Serving, Goto, durable, Slots, Pending, CasePlaces
<1>3. OutcomesKnown'
  BY DEF TypeInv, OutcomesKnown, durable, Slots
<1> QED
  BY <1>1, <1>2, <1>3 DEF TypeInv

(* The case in hand has a place in the file. *)
LEMMA InCase ==
  ASSUME TypeInv, pc \in CasePlaces
  PROVE  /\ ledger # None /\ ledger \in [Cases -> CaseState]
         /\ cur \in Cases /\ cur \in Pending
         /\ Slots(cur) \in Seq(SlotState)
         /\ Len(Slots(cur)) \in Nat /\ Len(Slots(cur)) <= 2
<1>1. ledger # None /\ cur \in Pending
  BY DEF TypeInv, Serving, CasePlaces
<1>2. ledger \in [Cases -> CaseState] /\ cur \in Cases /\ Len(Slots(cur)) <= MaxSlots
  BY <1>1 DEF TypeInv, TypeOK
<1>3. Slots(cur) \in Seq(SlotState)
  BY <1>2 DEF Slots, CaseState
<1> QED
  BY <1>1, <1>2, <1>3 DEF MaxSlots

(* So has its last slot, once it has one. *)
LEMMA InSlot ==
  ASSUME TypeInv, pc \in CasePlaces, Slots(cur) # << >>
  PROVE  /\ Len(Slots(cur)) \in 1..MaxSlots
         /\ Len(Slots(cur)) \in DOMAIN Slots(cur)
         /\ Last(cur) \in SlotState
         /\ Last(cur).status = "completed" => Last(cur).outcome \in Outcomes
<1>1. Len(Slots(cur)) \in DOMAIN Slots(cur) /\ Last(cur) \in SlotState
  BY InCase, LastSlot
<1>2. Last(cur).outcome \in Outcomes \cup {"none"}
  BY <1>1 DEF SlotState
<1>3. Last(cur).status = "completed" => Last(cur).outcome # "none"
  BY <1>1, InCase DEF TypeInv, OutcomesKnown, Last
<1>4. Len(Slots(cur)) \in 1..MaxSlots
  <2> DEFINE n == Len(Slots(cur))
  <2>1. n \in Nat \ {0}
    BY InCase, LastSlot
  <2>2. n <= 2
    BY InCase
  <2> HIDE DEF n
  <2>3. n \in 1..MaxSlots
    BY <2>1, <2>2 DEF MaxSlots
  <2> QED
    BY <2>3 DEF n
<1> QED
  BY <1>1, <1>2, <1>3, <1>4

-------------------------------------------------------------------------------
(* One more call for a slot. *)
LEMMA CountCall ==
  ASSUME calls \in [Cases -> [1..MaxSlots -> Nat]], NEW c \in Cases, NEW n \in 1..MaxSlots
  PROVE  [calls EXCEPT ![c][n] = @ + 1] \in [Cases -> [1..MaxSlots -> Nat]]
BY DEF MaxSlots

(* Actions that leave the files alone. *)
LEMMA MovesKeepTypes ==
  ASSUME TypeInv,
         \/ RecoverRecord \/ RecoverSlot \/ CeilingFailure \/ ClockFailure \/ Admit
         \/ Prepare \/ RetryUndefined \/ RetryRefused \/ CallTeacher \/ AnswerLate
         \/ AnswerFailed \/ AnswerReceived \/ Evaluate \/ AnswerInvalid \/ AnswerValid
         \/ RecordTooLarge \/ BuildRecord \/ CommitRecord \/ KeepRecord \/ Readback
  PROVE  TypeInv'
<1> USE DEF CasePlaces, SlotPlaces, Places, Proceed, Fail, Quarantine
<1>0. /\ answer \in TeacherAnswer /\ verdict \in ErrorKinds \cup {NoVerdict}
      /\ calls \in [Cases -> [1..MaxSlots -> Nat]]
      /\ elapsed \in Nat /\ clockSteps \in Nat /\ stops \in Nat
      /\ NoAnswer \in TeacherAnswer
  BY DEF TypeInv, TypeOK, NoAnswer, TeacherAnswer, AllAnswers, CachedFlags
<1>00. pc \in SlotPlaces => Slots(cur) # << >>
  BY DEF TypeInv, Serving
<1>1. CASE RecoverRecord
  <2>1. CASE RecordAdoptable(cur)
    BY <1>1, <2>1, <1>0, MoveKeepsTypes DEF RecoverRecord, RecordAdoptable
  <2>2. CASE ~RecordAdoptable(cur)
    BY <1>1, <2>2, <1>0, StopKeepsTypes DEF RecoverRecord
  <2> QED
    BY <2>1, <2>2
<1>2. CASE RecoverSlot
  BY <1>2, <1>0, MoveKeepsTypes DEF RecoverSlot, ErrorKinds, Outcomes
<1>3. CASE CeilingFailure
  <2>1. pc \in CasePlaces /\ Slots(cur) # << >>
    BY <1>3, InCase DEF CeilingFailure, CeilingReached, MaxSlots
  <2>2. "interrupted_provider_slot" \in ErrorKinds /\ Outcomes \subseteq ErrorKinds
    BY DEF ErrorKinds
  <2>3. verdict' \in ErrorKinds
    <3>1. CASE Last(cur).status # "completed"
      BY <1>3, <2>2, <3>1 DEF CeilingFailure
    <3>2. CASE Last(cur).status = "completed"
      <4>1. Last(cur).outcome \in ErrorKinds
        BY <2>1, <2>2, <3>2, InSlot
      <4>2. verdict' = Last(cur).outcome
        BY <1>3, <3>2 DEF CeilingFailure
      <4> QED
        BY <4>1, <4>2
    <3> QED
      BY <3>1, <3>2
  <2> QED
    BY <1>3, <2>1, <2>3, <1>0, MoveKeepsTypes DEF CeilingFailure
<1>4. CASE ClockFailure
  BY <1>4, <1>0, MoveKeepsTypes DEF ClockFailure, ErrorKinds
<1>5. CASE Admit
  BY <1>5, <1>0, MoveKeepsTypes DEF Admit
<1>6. CASE Prepare
  BY <1>6, <1>0, MoveKeepsTypes DEF Prepare
<1>7. CASE RetryUndefined
  BY <1>7, <1>0, StopKeepsTypes DEF RetryUndefined
<1>8. CASE RetryRefused
  BY <1>8, <1>0, MoveKeepsTypes DEF RetryRefused, ErrorKinds, Outcomes
<1>9. CASE CallTeacher
  <2>1. pc = "call" /\ Goto("returned") /\ UNCHANGED <<durable, verdict, elapsed, clockSteps, stops>>
    BY <1>9 DEF CallTeacher
  <2>2. answer' \in TeacherAnswer
    BY <1>9 DEF CallTeacher
  <2>3. cur \in Cases /\ Len(Slots(cur)) \in 1..MaxSlots
    BY <2>1, <1>00, InCase, InSlot
  <2>4. \/ UNCHANGED calls
        \/ calls' = [calls EXCEPT ![cur][Len(Slots(cur))] = @ + 1]
    BY <1>9 DEF CallTeacher
  <2>5. calls' \in [Cases -> [1..MaxSlots -> Nat]]
    <3> DEFINE n == Len(Slots(cur))
    <3> HIDE DEF n
    <3>1. [calls EXCEPT ![cur][n] = @ + 1] \in [Cases -> [1..MaxSlots -> Nat]]
      BY <1>0, <2>3, CountCall DEF n
    <3> QED
      BY <1>0, <2>4, <3>1 DEF n
  <2> QED
    BY <2>1, <2>2, <2>5, <1>0, <1>00, MoveKeepsTypes
<1>10. CASE AnswerLate
  BY <1>10, <1>0, <1>00, MoveKeepsTypes DEF AnswerLate, ErrorKinds, Outcomes
<1>11. CASE AnswerFailed
  <2>1. ProviderFailure(answer.kind) \in Outcomes \ {"success"}
    BY <1>11 DEF AnswerFailed, ProviderFailure, Outcomes
  <2> QED
    BY <1>11, <2>1, <1>0, <1>00, MoveKeepsTypes DEF AnswerFailed, ErrorKinds
<1>12. CASE AnswerReceived
  BY <1>12, <1>0, <1>00, MoveKeepsTypes DEF AnswerReceived
<1>13. CASE Evaluate
  BY <1>13, <1>0, <1>00, MoveKeepsTypes DEF Evaluate
<1>14. CASE AnswerInvalid
  BY <1>14, <1>0, <1>00, MoveKeepsTypes DEF AnswerInvalid, ErrorKinds, Outcomes
<1>15. CASE AnswerValid
  BY <1>15, <1>0, <1>00, MoveKeepsTypes DEF AnswerValid
<1>16. CASE RecordTooLarge
  BY <1>16, <1>0, <1>00, MoveKeepsTypes DEF RecordTooLarge, ErrorKinds, Outcomes
<1>17. CASE BuildRecord
  BY <1>17, <1>0, <1>00, MoveKeepsTypes DEF BuildRecord
<1>18. CASE CommitRecord
  BY <1>18, <1>0, <1>00, MoveKeepsTypes DEF CommitRecord
<1>19. CASE KeepRecord
  BY <1>19, <1>0, <1>00, MoveKeepsTypes DEF KeepRecord
<1>20. CASE Readback
  BY <1>20, <1>0, <1>00, MoveKeepsTypes DEF Readback
<1> QED
  BY <1>1, <1>2, <1>3, <1>4, <1>5, <1>6, <1>7, <1>8, <1>9, <1>10, <1>11, <1>12,
     <1>13, <1>14, <1>15, <1>16, <1>17, <1>18, <1>19, <1>20
-------------------------------------------------------------------------------
(* What is written into the ledger is a slot. *)
LEMMA PurposeTypes ==
  ASSUME NEW prev \in SlotState
  PROVE  Purpose(prev) \in Purposes /\ Repair(prev) \in Repairs
<1>1. Purpose(prev) \in Purposes
  BY DEF Purpose, Purposes
<1>2. prev.resultRepair \in Repairs
  BY DEF SlotState
<1>3. Repair(prev) \in Repairs
  BY <1>2 DEF Repair, Repairs, NoRepair
<1> QED
  BY <1>1, <1>3

(* The slot _new_slot reserves is a slot state. *)
LEMMA NewSlotType ==
  ASSUME TypeInv, pc \in CasePlaces
  PROVE  NewSlot(cur) \in SlotState
<1>1. NextPurpose(cur) \in Purposes /\ NextRepair(cur) \in Repairs
  <2>1. CASE Slots(cur) = << >>
    BY <2>1 DEF NextPurpose, NextRepair, Purposes, Repairs, NoRepair
  <2>2. CASE Slots(cur) # << >>
    <3>1. Last(cur) \in SlotState
      BY <2>2, InSlot
    <3> QED
      BY <2>2, <3>1, PurposeTypes DEF NextPurpose, NextRepair
  <2> QED
    BY <2>1, <2>2
<1> QED
  BY <1>1 DEF NewSlot, SlotState, Repairs, NoRepair, CachedFlags

(* A completed slot is a slot state with the outcome it was completed with. *)
LEMMA CompletedType ==
  ASSUME NEW slot \in SlotState, NEW outcome \in Outcomes, NEW cached \in CachedFlags,
         NEW file \in QuarantineReceipt \cup {None}
  PROVE  /\ Completed(slot, outcome, cached, file) \in SlotState
         /\ Completed(slot, outcome, cached, file).outcome = outcome
         /\ Completed(slot, outcome, cached, file).purpose = slot.purpose
         /\ Completed(slot, outcome, cached, file).repair = slot.repair
<1>1. ResultRepair(outcome, answer.kind) \in Repairs
  BY DEF ResultRepair, Repairs, NoRepair
<1>2. \A known \in CachedFlags : Evidence(known) \in {"confirmed", "upper_bound"}
  BY DEF Evidence
<1>3. "null" \in CachedFlags /\ "completed" \in {"reserved", "provider_invoked", "completed"}
  BY DEF CachedFlags
<1> DEFINE known == IF outcome = "record_too_large" THEN "null" ELSE cached
<1>4. known \in CachedFlags /\ Evidence(known) \in {"confirmed", "upper_bound"}
  BY <1>2, <1>3
<1> HIDE DEF known
<1>5. Completed(slot, outcome, cached, file) =
        [slot EXCEPT !.status = "completed", !.outcome = outcome,
                     !.resultRepair = ResultRepair(outcome, answer.kind),
                     !.evidence = Evidence(known), !.cached = known,
                     !.quarantined = file]
  BY DEF Completed, known
<1> QED
  BY <1>1, <1>3, <1>4, <1>5 DEF SlotState

(* What is known of the slots on file. *)
LEMMA KnownSlots ==
  ASSUME TypeInv, ledger # None, NEW c \in Cases
  PROVE  /\ Len(ledger[c].slots) <= MaxSlots
         /\ \A i \in DOMAIN ledger[c].slots :
              ledger[c].slots[i].status = "completed" => ledger[c].slots[i].outcome # "none"
BY DEF TypeInv, TypeOK, OutcomesKnown, Slots

(* The last slot of the case in hand was rewritten, and the case perhaps *)
(* settled.                                                              *)
Rewritten(slot, status) ==
  /\ ledger' # None /\ ledger' \in [Cases -> CaseState]
  /\ \A c \in Cases \ {cur} : ledger'[c] = ledger[c]
  /\ ledger'[cur].status = status
  /\ ledger'[cur].error = ledger[cur].error
  /\ Len(ledger'[cur].slots) = Len(Slots(cur))
  /\ DOMAIN ledger'[cur].slots = DOMAIN Slots(cur)
  /\ ledger'[cur].slots[Len(Slots(cur))] = slot
  /\ \A i \in DOMAIN Slots(cur) :
        i # Len(Slots(cur)) => ledger'[cur].slots[i] = Slots(cur)[i]
  /\ \A c \in Cases : Len(ledger'[c].slots) <= MaxSlots
  /\ OutcomesKnown'

(* Writing the last slot of the case in hand rewrites that slot and nothing  *)
(* else.                                                                     *)
LEMMA SlotWritten ==
  ASSUME TypeInv, pc \in CasePlaces, Slots(cur) # << >>,
         NEW slot \in SlotState, slot.status = "completed" => slot.outcome # "none",
         NEW status \in {"pending", "success", "failed"},
         \/ ledger' = WithLast(cur, slot) /\ status = ledger[cur].status
         \/ ledger' = [WithLast(cur, slot) EXCEPT ![cur].status = status]
  PROVE  Rewritten(slot, status)
<1> DEFINE new == WithLast(cur, slot)
<1>1. /\ new \in [Cases -> CaseState]
      /\ \A d \in Cases \ {cur} : new[d] = ledger[d]
      /\ new[cur].status = ledger[cur].status /\ new[cur].error = ledger[cur].error
      /\ Len(new[cur].slots) = Len(Slots(cur))
      /\ new[cur].slots[Len(Slots(cur))] = slot
      /\ \A i \in DOMAIN Slots(cur) :
            i # Len(Slots(cur)) => new[cur].slots[i] = Slots(cur)[i]
  BY InCase, ReplaceLast
<1>2. cur \in Cases
  BY InCase
<1> HIDE DEF new
<1>3. /\ ledger' \in [Cases -> CaseState]
      /\ \A c \in Cases : ledger'[c].slots = new[c].slots
      /\ ledger'[cur].error = ledger[cur].error
      /\ \A d \in Cases \ {cur} : ledger'[d] = ledger[d]
      /\ ledger'[cur].status = status
  <2>1. CASE ledger' = new /\ status = ledger[cur].status
    BY <1>1, <1>2, <2>1
  <2>2. CASE ledger' = [new EXCEPT ![cur].status = status]
    BY <1>1, <1>2, <2>2 DEF CaseState
  <2> QED
    BY <2>1, <2>2 DEF new
<1>4. ledger' # None
  BY <1>3, BatchAssumption
<1>5. \A c \in Cases : Len(ledger'[c].slots) <= MaxSlots
  BY <1>1, <1>3, InCase, KnownSlots DEF Slots
<1>6. OutcomesKnown' /\ DOMAIN ledger'[cur].slots = DOMAIN Slots(cur)
  <2>1. \A i \in DOMAIN Slots(cur) :
           ledger[cur].slots[i].status = "completed" => ledger[cur].slots[i].outcome # "none"
    BY <1>2, InCase DEF TypeInv, OutcomesKnown, Slots
  <2>2. DOMAIN ledger'[cur].slots = DOMAIN Slots(cur)
    BY <1>1, <1>2, <1>3, InCase DEF CaseState
  <2>3. \A i \in DOMAIN Slots(cur) :
           ledger'[cur].slots[i].status = "completed" => ledger'[cur].slots[i].outcome # "none"
    BY <1>1, <1>2, <1>3, <2>1 DEF Slots
  <2>4. \A d \in Cases \ {cur} : \A i \in DOMAIN ledger'[d].slots :
           ledger'[d].slots[i].status = "completed" => ledger'[d].slots[i].outcome # "none"
    BY <1>3, InCase DEF TypeInv, OutcomesKnown, Slots
  <2> QED
    BY <2>2, <2>3, <2>4 DEF OutcomesKnown, Slots
<1> QED
  BY <1>1, <1>2, <1>3, <1>4, <1>5, <1>6 DEF Rewritten

-------------------------------------------------------------------------------
(* What every step may assume of the variables. *)
LEMMA Typed ==
  ASSUME TypeInv
  PROVE  /\ quarantine \in [Cases -> [1..MaxSlots -> QuarantineReceipt \cup {None}]]
         /\ record \in [Cases -> Record \cup {None}]
         /\ receipt \in [Cases -> FailureReceipt \cup {None}]
         /\ resuming \in BOOLEAN /\ cur \in Cases
         /\ answer \in TeacherAnswer /\ verdict \in ErrorKinds \cup {NoVerdict}
         /\ exit \in {"none", "crashed", "systemic", "rejected", "finished"}
         /\ elapsed \in Nat /\ clockSteps \in Nat /\ stops \in Nat
         /\ calls \in [Cases -> [1..MaxSlots -> Nat]]
         /\ NoAnswer \in TeacherAnswer /\ 1 \in Cases
         /\ pc \in SlotPlaces => Slots(cur) # << >>
<1>1. NoAnswer \in TeacherAnswer
  BY DEF NoAnswer, TeacherAnswer, AllAnswers, CachedFlags
<1>2. 1 \in Cases
  BY BatchAssumption DEF Cases
<1> QED
  BY <1>1, <1>2 DEF TypeInv, TypeOK, Serving

(* A step that writes anything but the ledger. *)
LEMMA WriteKeepsTypes ==
  ASSUME TypeInv, UNCHANGED <<ledger, elapsed, clockSteps, stops, calls>>,
         quarantine' \in [Cases -> [1..MaxSlots -> QuarantineReceipt \cup {None}]],
         record' \in [Cases -> Record \cup {None}],
         receipt' \in [Cases -> FailureReceipt \cup {None}],
         answer' = answer, UNCHANGED <<resuming, cur, exit>>, pc' \in Places,
         verdict' \in ErrorKinds \cup {NoVerdict}, Serving'
  PROVE  TypeInv'
BY DEF TypeInv, TypeOK, OutcomesKnown, Slots

(* The steps that write files, and the reports at the end, keep the types. *)
LEMMA WritesKeepTypes ==
  ASSUME TypeInv,
         \/ PublishRecord \/ RetractRecord \/ WriteQuarantine \/ RemoveStaleReceipt
         \/ WriteFailureReceipt \/ CleanUp \/ WriteManifest \/ WriteReport
  PROVE  TypeInv'
<1> USE DEF CasePlaces, SlotPlaces, Places, Goto
<1>1. CASE PublishRecord
  <2>1. pc = "publish" /\ Last(cur) \in SlotState
    BY <1>1, Typed, InSlot DEF PublishRecord
  <2>2. [prompt |-> Last(cur).repair, late |-> PastDeadline] \in Record
    BY <2>1 DEF Record, SlotState, PastDeadline
  <2>3. record' \in [Cases -> Record \cup {None}]
    BY <1>1, <2>2, Typed DEF PublishRecord
  <2>4. Serving'
    BY <1>1 DEF PublishRecord, TypeInv, Serving, Slots, Pending
  <2> QED
    BY <1>1, <2>3, <2>4, Typed, WriteKeepsTypes DEF PublishRecord
<1>2. CASE RetractRecord
  <2>1. record' \in [Cases -> Record \cup {None}]
    BY <1>2, Typed DEF RetractRecord
  <2>2. Serving'
    BY <1>2 DEF RetractRecord, TypeInv, Serving, Slots, Pending, Outcomes
  <2>3. verdict' \in ErrorKinds
    BY <1>2 DEF RetractRecord, ErrorKinds, Outcomes
  <2> QED
    BY <1>2, <2>1, <2>2, <2>3, Typed, WriteKeepsTypes DEF RetractRecord
<1>3. CASE WriteQuarantine
  <2>1. CASE Down("rejected") /\ UNCHANGED durable
    BY <1>3, <2>1, Typed, StopKeepsTypes DEF WriteQuarantine
  <2>2. CASE ~(Down("rejected") /\ UNCHANGED durable)
    <3> DEFINE n == Len(Slots(cur))
    <3>1. /\ pc = "quarantine" /\ n \in 1..MaxSlots
          /\ verdict \in Outcomes \ {"success"}
      BY <1>3, Typed, InSlot DEF WriteQuarantine, TypeInv, Serving
    <3>2. /\ quarantine' = [quarantine EXCEPT ![cur][n] = NewQuarantine]
          /\ Goto("complete")
          /\ UNCHANGED <<ledger, record, receipt, manifest, report, answer, verdict>>
          /\ UNCHANGED <<elapsed, clockSteps, stops, calls>>
      BY <1>3, <2>2 DEF WriteQuarantine
    <3> HIDE DEF n
    <3>3. ResultRepair(verdict, answer.kind) \in Repairs /\ HasResponse(answer) \in BOOLEAN
      BY DEF ResultRepair, Repairs, NoRepair, HasResponse
    <3>4. NewQuarantine \in QuarantineReceipt
      BY <3>1, <3>3, Typed DEF NewQuarantine, QuarantineReceipt, TeacherAnswer
    <3>5. quarantine' \in [Cases -> [1..MaxSlots -> QuarantineReceipt \cup {None}]]
      BY <3>1, <3>2, <3>4, Typed DEF MaxSlots
    <3>6. Serving'
      BY <3>1, <3>2 DEF TypeInv, Serving, Slots, Pending
    <3> QED
      BY <3>2, <3>5, <3>6, Typed, WriteKeepsTypes
  <2> QED
    BY <2>1, <2>2
<1>4. CASE RemoveStaleReceipt
  <2>1. receipt' \in [Cases -> FailureReceipt \cup {None}]
    BY <1>4, Typed DEF RemoveStaleReceipt
  <2>2. Serving'
    BY <1>4 DEF RemoveStaleReceipt, TypeInv, Serving, Slots, Pending
  <2> QED
    BY <1>4, <2>1, <2>2, Typed, WriteKeepsTypes DEF RemoveStaleReceipt
<1>5. CASE WriteFailureReceipt
  <2>1. /\ pc = "fail" /\ verdict \in ErrorKinds
        /\ Len(Slots(cur)) \in Nat /\ Len(Slots(cur)) <= 2
    BY <1>5, InCase DEF WriteFailureReceipt, TypeInv, Serving
  <2>2. [attempts |-> Len(Slots(cur)), error |-> verdict] \in FailureReceipt
    <3> DEFINE n == Len(Slots(cur))
    <3>1. n \in Nat /\ n <= 2
      BY <2>1
    <3> HIDE DEF n
    <3>2. n \in 0..MaxSlots
      BY <3>1 DEF MaxSlots
    <3> QED
      BY <2>1, <3>2 DEF n, FailureReceipt
  <2>3. receipt' \in [Cases -> FailureReceipt \cup {None}]
    BY <1>5, <2>2, Typed DEF WriteFailureReceipt
  <2>4. Serving'
    BY <1>5, <2>1 DEF WriteFailureReceipt, TypeInv, Serving, Slots, Pending
  <2> QED
    BY <1>5, <2>3, <2>4, Typed, WriteKeepsTypes DEF WriteFailureReceipt
<1>6. CASE CleanUp
  <2>1. /\ record' \in [Cases -> Record \cup {None}]
        /\ receipt' \in [Cases -> FailureReceipt \cup {None}]
    BY <1>6, Typed DEF CleanUp
  <2>2. Serving'
    BY <1>6 DEF CleanUp, TypeInv, Serving
  <2> QED
    BY <1>6, <2>1, <2>2, Typed, WriteKeepsTypes DEF CleanUp
<1>7. CASE WriteManifest
  <2>1. CASE Down("rejected") /\ UNCHANGED durable
    BY <1>7, <2>1, Typed, StopKeepsTypes DEF WriteManifest
  <2>2. CASE ~(Down("rejected") /\ UNCHANGED durable)
    <3>1. Serving'
      BY <1>7, <2>2 DEF WriteManifest, TypeInv, Serving
    <3> QED
      BY <1>7, <2>2, <3>1, Typed, WriteKeepsTypes DEF WriteManifest
  <2> QED
    BY <2>1, <2>2
<1>8. CASE WriteReport
  <2>1. TypeOK'
    BY <1>8, Typed DEF WriteReport, Down, TypeInv, TypeOK, Slots
  <2>2. Serving' /\ OutcomesKnown'
    BY <1>8 DEF WriteReport, Down, TypeInv, Serving, OutcomesKnown, Slots
  <2> QED
    BY <2>1, <2>2 DEF TypeInv
<1> QED
  BY <1>1, <1>2, <1>3, <1>4, <1>5, <1>6, <1>7, <1>8
(* A step that writes the ledger within a case. *)
LEMMA LedgerKeepsTypes ==
  ASSUME TypeInv, UNCHANGED <<quarantine, record, receipt, elapsed, clockSteps, stops, calls>>,
         UNCHANGED <<resuming, cur, exit>>,
         ledger' \in [Cases -> CaseState],
         \A c \in Cases : Len(ledger'[c].slots) <= MaxSlots, OutcomesKnown',
         answer' \in TeacherAnswer, verdict' \in ErrorKinds \cup {NoVerdict},
         pc' \in Places, Serving'
  PROVE  TypeInv'
BY Typed DEF TypeInv, TypeOK, Slots

(* What each step that writes the ledger does to it. *)
Reserved ==
  /\ ledger' # None /\ ledger' \in [Cases -> CaseState]
  /\ \A c \in Cases \ {cur} : ledger'[c] = ledger[c]
  /\ ledger'[cur].status = ledger[cur].status
  /\ ledger'[cur].slots # << >>
  /\ Len(Slots(cur)) \in {0, 1} /\ Len(ledger'[cur].slots) = Len(Slots(cur)) + 1
  /\ DOMAIN ledger'[cur].slots = DOMAIN Slots(cur) \cup {Len(Slots(cur)) + 1}
  /\ ledger'[cur].slots[Len(Slots(cur)) + 1] = NewSlot(cur)
  /\ \A i \in DOMAIN Slots(cur) : ledger'[cur].slots[i] = Slots(cur)[i]
  /\ \A c \in Cases : Len(ledger'[c].slots) <= MaxSlots
  /\ OutcomesKnown'

(* Reserving appends one slot to the case in hand, and only below the        *)
(* ceiling.                                                                  *)
LEMMA ReserveEffect ==
  ASSUME TypeInv, ReserveSlot
  PROVE  Reserved
<1> USE DEF CasePlaces, SlotPlaces, Places
<1> DEFINE n == Len(Slots(cur))
           new == ledger'[cur].slots
<1>1. /\ pc = "attempt" /\ cur \in Cases /\ ledger \in [Cases -> CaseState]
      /\ cur \in Pending /\ Slots(cur) \in Seq(SlotState)
  BY InCase DEF ReserveSlot
<1>2. /\ ledger' \in [Cases -> CaseState]
      /\ \A d \in Cases \ {cur} : ledger'[d] = ledger[d]
      /\ ledger'[cur].status = ledger[cur].status
      /\ new = Append(Slots(cur), NewSlot(cur))
  BY <1>1, NewSlotType, AppendSlot DEF ReserveSlot
<1>3. n \in {0, 1}
  <2>1. n \in Nat /\ ~(n >= MaxSlots)
    BY <1>1, InCase DEF ReserveSlot, CeilingReached
  <2> HIDE DEF n
  <2> QED
    BY <2>1 DEF MaxSlots
<1>4. /\ Len(new) = n + 1 /\ new # << >> /\ new[n + 1] = NewSlot(cur)
      /\ \A i \in DOMAIN Slots(cur) : new[i] = Slots(cur)[i]
      /\ DOMAIN new = DOMAIN Slots(cur) \cup {n + 1}
  BY <1>1, <1>2, NewSlotType
<1> HIDE DEF n
<1>5. \A c \in Cases : Len(ledger'[c].slots) <= MaxSlots
  <2>1. Len(ledger'[cur].slots) <= MaxSlots
    BY <1>3, <1>4 DEF MaxSlots
  <2>2. \A d \in Cases \ {cur} : Len(ledger'[d].slots) <= MaxSlots
    BY <1>1, <1>2, InCase, KnownSlots
  <2> QED
    BY <2>1, <2>2
<1>6. \A i \in DOMAIN new : new[i].status = "completed" => new[i].outcome # "none"
  <2>1. NewSlot(cur).status # "completed"
    BY DEF NewSlot
  <2>2. \A i \in DOMAIN Slots(cur) :
           Slots(cur)[i].status = "completed" => Slots(cur)[i].outcome # "none"
    BY <1>1, InCase, KnownSlots DEF Slots
  <2> HIDE DEF new
  <2> QED
    BY <1>4, <2>1, <2>2
<1>7. \A d \in Cases \ {cur} : \A i \in DOMAIN ledger'[d].slots :
         ledger'[d].slots[i].status = "completed" => ledger'[d].slots[i].outcome # "none"
  BY <1>1, <1>2, InCase, KnownSlots
<1>8. OutcomesKnown'
  BY <1>6, <1>7 DEF OutcomesKnown, Slots
<1>9. ledger' # None
  BY <1>2, BatchAssumption
<1> QED
  BY <1>2, <1>3, <1>4, <1>5, <1>8, <1>9 DEF Reserved, n

(* Noting the call rewrites the last slot. *)
LEMMA InvokeEffect ==
  ASSUME TypeInv, InvokeSlot
  PROVE  Rewritten([Last(cur) EXCEPT !.status = "provider_invoked"], "pending")
<1> DEFINE slot == [Last(cur) EXCEPT !.status = "provider_invoked"]
<1>1. pc \in CasePlaces /\ Slots(cur) # << >> /\ Last(cur) \in SlotState
  BY Typed, InSlot DEF InvokeSlot, CasePlaces, SlotPlaces, Places
<1>2. slot \in SlotState /\ slot.status # "completed"
  BY <1>1 DEF SlotState
<1>3. ledger' = WithLast(cur, slot) /\ ledger[cur].status = "pending"
  BY <1>1, InCase DEF InvokeSlot, Pending
<1> HIDE DEF slot
<1>4. Rewritten(slot, "pending")
  BY <1>1, <1>2, <1>3, SlotWritten
<1> QED
  BY <1>4 DEF slot

(* Completing a failed slot rewrites the last slot. *)
LEMMA CompleteEffect ==
  ASSUME TypeInv, CompleteSlot
  PROVE  Rewritten(Completed(Last(cur), verdict, answer.cached,
                             quarantine[cur][Len(Slots(cur))]), "pending")
<1> DEFINE n == Len(Slots(cur))
           slot == Completed(Last(cur), verdict, answer.cached, quarantine[cur][n])
<1>1. /\ pc \in CasePlaces /\ Slots(cur) # << >> /\ Last(cur) \in SlotState
      /\ cur \in Cases /\ n \in 1..MaxSlots /\ verdict \in Outcomes \ {"success"}
  BY Typed, InSlot DEF CompleteSlot, TypeInv, Serving, CasePlaces, SlotPlaces, Places
<1>2. slot \in SlotState /\ slot.outcome # "none"
  <2>1. answer.cached \in CachedFlags
    BY Typed DEF TeacherAnswer
  <2> HIDE DEF n
  <2>2. quarantine[cur][n] \in QuarantineReceipt \cup {None}
    BY <1>1, Typed DEF MaxSlots
  <2>3. slot \in SlotState /\ slot.outcome = verdict
    BY <1>1, <2>1, <2>2, CompletedType
  <2> QED
    BY <1>1, <2>3 DEF Outcomes
<1>3. ledger' = WithLast(cur, slot) /\ ledger[cur].status = "pending"
  BY <1>1, InCase DEF CompleteSlot, Pending
<1> HIDE DEF slot
<1>4. Rewritten(slot, "pending")
  BY <1>1, <1>2, <1>3, SlotWritten
<1> QED
  BY <1>4 DEF slot, n

(* A success rewrites the last slot and settles the case. *)
LEMMA SettleSuccessEffect ==
  ASSUME TypeInv, SettleSuccess
  PROVE  Rewritten(Completed(Last(cur), "success", answer.cached, None), "success")
<1> DEFINE slot == Completed(Last(cur), "success", answer.cached, None)
<1>1. pc \in CasePlaces /\ Slots(cur) # << >> /\ Last(cur) \in SlotState
  BY Typed, InSlot DEF SettleSuccess, CasePlaces, SlotPlaces, Places
<1>2. slot \in SlotState /\ slot.outcome # "none"
  <2>1. answer.cached \in CachedFlags /\ "success" \in Outcomes
    BY Typed DEF TeacherAnswer, Outcomes
  <2>2. slot \in SlotState /\ slot.outcome = "success"
    BY <1>1, <2>1, CompletedType
  <2> QED
    BY <2>2
<1>3. ledger' = [WithLast(cur, slot) EXCEPT ![cur].status = "success"]
  BY DEF SettleSuccess
<1> HIDE DEF slot
<1>4. Rewritten(slot, "success")
  BY <1>1, <1>2, <1>3, SlotWritten
<1> QED
  BY <1>4 DEF slot

(* A failure settles the case and leaves its slots alone. *)
LEMMA SettleFailureEffect ==
  ASSUME TypeInv, SettleFailure
  PROVE  /\ ledger' # None /\ ledger' \in [Cases -> CaseState]
         /\ \A c \in Cases \ {cur} : ledger'[c] = ledger[c]
         /\ \A c \in Cases : ledger'[c].slots = ledger[c].slots
         /\ ledger'[cur].status = "failed" /\ ledger'[cur].error = verdict
         /\ \A c \in Cases : Len(ledger'[c].slots) <= MaxSlots
         /\ OutcomesKnown'
<1>1. /\ verdict \in ErrorKinds /\ cur \in Cases /\ ledger # None
      /\ ledger \in [Cases -> CaseState]
  BY InCase DEF SettleFailure, TypeInv, Serving, CasePlaces, Places
<1>2. /\ ledger' \in [Cases -> CaseState]
      /\ \A c \in Cases \ {cur} : ledger'[c] = ledger[c]
      /\ \A c \in Cases : ledger'[c].slots = ledger[c].slots
      /\ ledger'[cur].status = "failed" /\ ledger'[cur].error = verdict
  BY <1>1 DEF SettleFailure, CaseState
<1>3. ledger' # None
  BY <1>2, BatchAssumption
<1>4. (\A c \in Cases : Len(ledger'[c].slots) <= MaxSlots) /\ OutcomesKnown'
  BY <1>1, <1>2, KnownSlots DEF OutcomesKnown, Slots
<1> QED
  BY <1>1, <1>2, <1>3, <1>4

(* The steps that persist the ledger keep the types. *)
LEMMA LedgerWritesKeepTypes ==
  ASSUME TypeInv,
         ReserveSlot \/ InvokeSlot \/ CompleteSlot \/ SettleSuccess \/ SettleFailure
  PROVE  TypeInv'
<1> USE DEF CasePlaces, SlotPlaces, Places, Goto
<1>1. CASE ReserveSlot
  <2>1. Reserved /\ cur \in Cases
    BY <1>1, ReserveEffect, Typed
  <2>2. Serving'
    <3>1. cur \in Pending' /\ \A d \in Cases : d < cur => d \notin Pending'
      BY <1>1, <2>1 DEF ReserveSlot, Reserved, TypeInv, Serving, Pending, Cases
    <3> QED
      BY <1>1, <2>1, <3>1 DEF ReserveSlot, Reserved, Serving, Slots
  <2> QED
    BY <1>1, <2>1, <2>2, Typed, LedgerKeepsTypes DEF ReserveSlot, Reserved
<1>2. CASE InvokeSlot
  <2>1. PICK slot : Rewritten(slot, "pending")
    BY <1>2, InvokeEffect
  <2>2. pc = "invoke" /\ cur \in Cases /\ Len(Slots(cur)) \in 1..2
    BY <1>2, Typed, InSlot DEF InvokeSlot, MaxSlots
  <2>3. ledger'[cur].slots # << >>
    BY <2>1, <2>2 DEF Rewritten
  <2>4. Serving'
    BY <1>2, <2>1, <2>2, <2>3 DEF InvokeSlot, Rewritten, TypeInv, Serving, Slots, Pending, Cases
  <2> QED
    BY <1>2, <2>1, <2>4, Typed, LedgerKeepsTypes DEF InvokeSlot, Rewritten
<1>3. CASE CompleteSlot
  <2>1. PICK slot : Rewritten(slot, "pending")
    BY <1>3, CompleteEffect
  <2>2. /\ pc' \in {"fail", "admit", "attempt"} /\ UNCHANGED <<resuming, cur, exit>>
        /\ pc' = "fail" => verdict' = "deadline_exceeded"
        /\ verdict' \in {"deadline_exceeded", NoVerdict}
    BY <1>3 DEF CompleteSlot
  <2>3. "deadline_exceeded" \in ErrorKinds
    BY DEF ErrorKinds, Outcomes
  <2>4. pc = "complete" /\ cur \in Cases
    BY <1>3, Typed DEF CompleteSlot
  <2>5. Serving'
    BY <2>1, <2>2, <2>3, <2>4 DEF Rewritten, TypeInv, Serving, Slots, Pending, Cases
  <2> QED
    BY <1>3, <2>1, <2>2, <2>3, <2>5, Typed, LedgerKeepsTypes DEF CompleteSlot, Rewritten
<1>4. CASE SettleSuccess
  <2>1. PICK slot : Rewritten(slot, "success")
    BY <1>4, SettleSuccessEffect
  <2>2. Serving'
    BY <1>4, <2>1 DEF SettleSuccess, Rewritten, Serving
  <2> QED
    BY <1>4, <2>1, <2>2, Typed, LedgerKeepsTypes DEF SettleSuccess, Rewritten
<1>5. CASE SettleFailure
  <2>1. Serving'
    BY <1>5, SettleFailureEffect DEF SettleFailure, Serving
  <2> QED
    BY <1>5, <2>1, SettleFailureEffect, Typed, LedgerKeepsTypes DEF SettleFailure
<1> QED
  BY <1>1, <1>2, <1>3, <1>4, <1>5

(* Starting, resuming, stopping, the clock and the choice of the next case   *)
(* keep the types.                                                           *)
LEMMA ControlKeepsTypes ==
  ASSUME TypeInv, StartBatch \/ ResumeBatch \/ WorldStep \/ NextCase
  PROVE  TypeInv'
<1> USE DEF CasePlaces, SlotPlaces, Places
<1>1. CASE StartBatch
  <2>1. [status |-> "pending", slots |-> << >>, error |-> "none"] \in CaseState
    BY DEF CaseState
  <2>2. /\ ledger' \in [Cases -> CaseState]
        /\ \A c \in Cases : ledger'[c].slots = << >>
    BY <1>1, <2>1 DEF StartBatch
  <2>3. ledger' # None
    BY <2>2, BatchAssumption
  <2>4. TypeOK'
    BY <1>1, <2>2, Typed DEF StartBatch, TypeOK, Slots, MaxSlots
  <2>5. Serving' /\ OutcomesKnown'
    BY <1>1, <2>2, <2>3 DEF StartBatch, Serving, OutcomesKnown, Slots
  <2> QED
    BY <2>4, <2>5 DEF TypeInv
<1>2. CASE ResumeBatch
  BY <1>2, Typed DEF ResumeBatch, ResumeAccepted, TypeInv, TypeOK, Serving, OutcomesKnown,
                     Slots, durable
<1>3. CASE Crash
  <2>1. stops' \in Nat
    BY <1>3, Typed DEF Crash
  <2> QED
    BY <1>3, <2>1, Typed, StopKeepsTypes DEF Crash
<1>4. CASE SystemicError
  <2>1. stops' \in Nat
    BY <1>4, Typed DEF SystemicError
  <2> QED
    BY <1>4, <2>1, Typed, StopKeepsTypes DEF SystemicError
<1>5. CASE Tick
  BY <1>5 DEF Tick, TypeInv, TypeOK, Serving, OutcomesKnown, Slots, Pending, durable, volatile
<1>6. CASE ClockSetBack
  BY <1>6 DEF ClockSetBack, TypeInv, TypeOK, Serving, OutcomesKnown, Slots, Pending,
              durable, volatile
<1>7. CASE NextCase
  <2>1. /\ cur' \in Pending /\ \A d \in Pending : cur' <= d
        /\ pc = "next" /\ pc' \in {"fail", "recover", "admit"}
        /\ pc' = "fail" => verdict' = "ineligible"
        /\ verdict' \in {verdict, "ineligible"}
        /\ UNCHANGED <<durable, resuming, answer, exit, elapsed, clockSteps, stops, calls>>
    BY <1>7 DEF NextCase
  <2>2. "ineligible" \in ErrorKinds
    BY DEF ErrorKinds
  <2>3. TypeOK'
    BY <2>1, <2>2, Typed DEF TypeInv, TypeOK, Slots, Pending, durable
  <2>4. \A d \in Cases : d < cur' => d \notin Pending
    BY <2>1 DEF Pending, Cases
  <2>5. Serving' /\ OutcomesKnown'
    BY <2>1, <2>2, <2>4 DEF TypeInv, Serving, OutcomesKnown, Slots, Pending, durable
  <2> QED
    BY <2>3, <2>5 DEF TypeInv
<1> QED
  BY <1>1, <1>2, <1>3, <1>4, <1>5, <1>6, <1>7 DEF WorldStep

(* Every step keeps the types. *)
LEMMA TypeStep == TypeInv /\ [Next]_vars => TypeInv'
<1> SUFFICES ASSUME TypeInv, [Next]_vars PROVE TypeInv'
  OBVIOUS
<1>1. CASE UNCHANGED vars
  BY <1>1 DEF TypeInv, TypeOK, Serving, OutcomesKnown, Slots, Pending,
              vars, durable, volatile, world
<1>2. CASE Next
  BY <1>2, MovesKeepTypes, WritesKeepTypes, LedgerWritesKeepTypes, ControlKeepsTypes
     DEF Next, RunnerStep, SlotStep, CaseStep, FinishStep
<1> QED
  BY <1>1, <1>2

(* The types hold at the start. *)
LEMMA TypeStart == Init => TypeInv
<1> SUFFICES ASSUME Init PROVE TypeInv
  OBVIOUS
<1>1. 1 \in Cases /\ NoAnswer \in TeacherAnswer
  BY BatchAssumption DEF Cases, NoAnswer, TeacherAnswer, AllAnswers, CachedFlags
<1>2. TypeOK
  BY <1>1 DEF Init, TypeOK, Places, MaxSlots
<1>3. Serving /\ OutcomesKnown
  BY DEF Init, Serving, OutcomesKnown, CasePlaces, SlotPlaces
<1> QED
  BY <1>2, <1>3 DEF TypeInv

(* The strengthened type invariant holds of every behaviour of the batch. *)
LEMMA TypeInvAlways == Spec => []TypeInv
BY TypeStart, TypeStep, PTL DEF Spec

(* Every variable keeps its type, and no case is ever given a third provider *)
(* slot, whatever crashes, resumes and clock changes happen.                 *)
THEOREM TypeCorrect == Spec => []TypeOK
<1>1. TypeInv => TypeOK
  BY DEF TypeInv
<1> QED
  BY <1>1, TypeInvAlways, PTL
-------------------------------------------------------------------------------
(***************************************************************************)
(* The batch implements SlotBudget.  Types are not enough: a slot must not *)
(* have been called for before the runner reaches the call.                *)
(***************************************************************************)
Paid ==
  /\ \A c \in Cases : \A i \in 1..MaxSlots :
       calls[c][i] # 0 => calls[c][i] = 1 /\ ledger # None /\ i <= Len(Slots(c))
  /\ pc \in {"invoke", "call"} => calls[cur][Len(Slots(cur))] = 0

(* Two functions that agree, or agree except in one place. *)
LEMMA SameFunction ==
  ASSUME NEW f, NEW g, f = [c \in Cases |-> f[c]], g = [c \in Cases |-> g[c]],
         \A c \in Cases : g[c] = f[c]
  PROVE  g = f
OBVIOUS

(* Two functions on Cases that agree except at x differ by one EXCEPT. *)
LEMMA ChangedFunction ==
  ASSUME NEW f, NEW g, f = [c \in Cases |-> f[c]], g = [c \in Cases |-> g[c]],
         NEW x \in Cases, \A c \in Cases \ {x} : g[c] = f[c]
  PROVE  g = [f EXCEPT ![x] = g[x]]
OBVIOUS

(* The mapped variables, case by case, before and after a step. *)
LEMMA Mapped ==
  /\ ConsumedSlots = [c \in Cases |-> ConsumedSlots[c]]
  /\ ConsumedSlots' = [c \in Cases |-> ConsumedSlots'[c]]
  /\ CaseStatuses = [c \in Cases |-> CaseStatuses[c]]
  /\ CaseStatuses' = [c \in Cases |-> CaseStatuses'[c]]
  /\ ledger # None => \A c \in Cases : /\ ConsumedSlots[c] = Len(ledger[c].slots)
                                       /\ CaseStatuses[c] = ledger[c].status
  /\ ledger' # None => \A c \in Cases : /\ ConsumedSlots'[c] = Len(ledger'[c].slots)
                                        /\ CaseStatuses'[c] = ledger'[c].status
BY DEF ConsumedSlots, CaseStatuses, Slots

(* Most steps leave the ledger and the calls alone, and do not lead to one. *)
LEMMA QuietSteps ==
  ASSUME [Next]_vars,
         ~StartBatch, ~ReserveSlot, ~InvokeSlot, ~CallTeacher, ~CompleteSlot,
         ~SettleSuccess, ~SettleFailure
  PROVE  /\ UNCHANGED <<ledger, calls>>
         /\ pc' \in {"invoke", "call"} => pc' = pc /\ cur' = cur
<1> USE DEF Goto, Down, Proceed, Fail, Quarantine, durable, volatile, world
<1>1. CASE UNCHANGED vars
  BY <1>1 DEF vars
<1>2. CASE ResumeBatch \/ WorldStep
  BY <1>2 DEF ResumeBatch, WorldStep, Crash, SystemicError, Tick, ClockSetBack
<1>3. CASE SlotStep
  BY <1>3 DEF SlotStep, RetryUndefined, RetryRefused, AnswerLate, AnswerFailed,
              AnswerReceived, Evaluate, AnswerInvalid, AnswerValid, RecordTooLarge,
              BuildRecord, CommitRecord, PublishRecord, RetractRecord, KeepRecord, Readback
<1>4. CASE CaseStep
  BY <1>4 DEF CaseStep, NextCase, RecoverRecord, RecoverSlot, CeilingFailure, ClockFailure,
              Admit, Prepare, WriteQuarantine, RemoveStaleReceipt, WriteFailureReceipt
<1>5. CASE FinishStep
  BY <1>5 DEF FinishStep, CleanUp, WriteManifest, WriteReport
<1> QED
  BY <1>1, <1>2, <1>3, <1>4, <1>5 DEF Next, RunnerStep

(* A step that keeps the number of slots, the states of the cases and the *)
(* calls is no step of the budget.                                        *)
LEMMA BudgetStutter ==
  ASSUME TypeInv, Paid,
         ConsumedSlots' = ConsumedSlots, CaseStatuses' = CaseStatuses,
         ledger # None => ledger' # None,
         UNCHANGED calls,
         pc' \in {"invoke", "call"} => pc \in {"invoke", "call"} /\ cur' = cur
  PROVE  UNCHANGED Budget!budgetVars /\ Paid'
<1>1. UNCHANGED Budget!budgetVars
  BY DEF Budget!budgetVars
<1>2. \A c \in Cases : ledger # None => /\ ledger' # None
                                        /\ Len(ledger'[c].slots) = Len(ledger[c].slots)
  BY Mapped
<1>3. ASSUME pc' \in {"invoke", "call"} PROVE calls'[cur'][Len(ledger'[cur'].slots)] = 0
  <2>1. /\ cur \in Cases /\ ledger # None /\ cur' = cur
        /\ calls[cur][Len(ledger[cur].slots)] = 0
    BY <1>3, Typed DEF Paid, TypeInv, Serving, Slots
  <2> QED
    BY <1>2, <2>1
<1>4. \A c \in Cases : \A i \in 1..MaxSlots :
        calls'[c][i] # 0 => calls'[c][i] = 1 /\ ledger' # None /\ i <= Len(ledger'[c].slots)
  BY <1>2 DEF Paid, Slots
<1> QED
  BY <1>1, <1>3, <1>4 DEF Paid, Slots

(* Only the first pending case has a turn. *)
LEMMA Turn ==
  ASSUME TypeInv, pc \in CasePlaces
  PROVE  /\ cur \in Cases /\ ledger # None /\ ledger[cur].status = "pending"
         /\ cur \in Budget!Cases /\ Budget!IsTurnOf(cur)
<1>1. cur \in Cases /\ ledger # None /\ ledger[cur].status = "pending"
  BY InCase DEF Pending
<1>2. \A d \in Cases : d < cur => ledger[d].status # "pending"
  BY DEF TypeInv, Serving, Pending
<1>3. \A d \in 1..(cur - 1) : d \in Cases /\ d < cur
  BY <1>1, BatchAssumption DEF Cases
<1> QED
  BY <1>1, <1>2, <1>3, Mapped DEF Budget!IsTurnOf, Cases, Budget!Cases

(* Every step of the batch is a step of SlotBudget or leaves its variables   *)
(* alone.                                                                    *)
LEMMA BudgetStep ==
  ASSUME TypeInv, Paid, [Next]_vars
  PROVE  [Budget!Next]_Budget!budgetVars /\ Paid'
<1> USE DEF CasePlaces, SlotPlaces, Places
<1>1. CASE StartBatch
  <2>1. /\ \A c \in Cases : ledger'[c].slots = << >> /\ ledger'[c].status = "pending"
        /\ ledger = None /\ pc' = "next" /\ UNCHANGED calls
    BY <1>1 DEF StartBatch
  <2>2. ConsumedSlots' = ConsumedSlots /\ CaseStatuses' = CaseStatuses
    BY <2>1 DEF ConsumedSlots, CaseStatuses, Slots
  <2> QED
    BY <2>1, <2>2, BudgetStutter
<1>2. CASE ReserveSlot
  <2>1. Reserved /\ UNCHANGED calls /\ pc' = "invoke" /\ cur' = cur
    BY <1>2, ReserveEffect DEF ReserveSlot, Goto
  <2>2. cur \in Budget!Cases /\ cur \in Cases /\ ledger # None /\ Budget!IsTurnOf(cur)
    BY <1>2, Turn DEF ReserveSlot
  <2>3. /\ \A c \in Cases : CaseStatuses'[c] = CaseStatuses[c]
        /\ \A c \in Cases \ {cur} : ConsumedSlots'[c] = ConsumedSlots[c]
        /\ ConsumedSlots'[cur] = ConsumedSlots[cur] + 1 /\ ConsumedSlots[cur] \in {0, 1}
    <3>1. /\ \A c \in Cases : ledger'[c].status = ledger[c].status
          /\ \A c \in Cases \ {cur} : ledger'[c].slots = ledger[c].slots
          /\ ledger' # None
      BY <2>1 DEF Reserved
    <3>2. /\ Len(ledger'[cur].slots) = Len(ledger[cur].slots) + 1
          /\ Len(ledger[cur].slots) \in {0, 1}
      BY <2>1 DEF Reserved, Slots
    <3>3. /\ ConsumedSlots[cur] = Len(ledger[cur].slots)
          /\ ConsumedSlots'[cur] = Len(ledger'[cur].slots)
      BY <2>2, <3>1, Mapped
    <3>4. ConsumedSlots'[cur] = ConsumedSlots[cur] + 1 /\ ConsumedSlots[cur] \in {0, 1}
      BY <3>2, <3>3
    <3>5. \A c \in Cases : CaseStatuses'[c] = CaseStatuses[c]
      BY <2>2, <3>1, Mapped
    <3>6. \A c \in Cases \ {cur} : ConsumedSlots'[c] = ConsumedSlots[c]
      BY <2>2, <3>1, Mapped
    <3> QED
      BY <3>4, <3>5, <3>6
  <2>4. /\ ConsumedSlots' = [ConsumedSlots EXCEPT ![cur] = @ + 1]
        /\ CaseStatuses' = CaseStatuses
    <3>1. ConsumedSlots' = [ConsumedSlots EXCEPT ![cur] = ConsumedSlots'[cur]]
      BY <2>2, <2>3, Mapped, ChangedFunction
    <3>2. CaseStatuses' = CaseStatuses
      BY <2>2, <2>3, Mapped, SameFunction
    <3> QED
      BY <2>3, <3>1, <3>2
  <2>5. Budget!Consume(cur)
    BY <2>1, <2>2, <2>3, <2>4 DEF Budget!Consume, MaxSlots
  <2>6. Paid'
    <3> DEFINE n == Len(ledger[cur].slots)
    <3>1. n \in {0, 1}
      BY <2>1 DEF Reserved, Slots
    <3>2. \A c \in Cases : \A i \in 1..MaxSlots :
            calls[c][i] # 0 => calls[c][i] = 1 /\ i <= Len(ledger[c].slots)
      BY DEF Paid, Slots
    <3>3. calls[cur][n + 1] = 0
      <4> HIDE DEF n
      <4>1. n + 1 \in 1..MaxSlots /\ ~(n + 1 <= n)
        BY <3>1 DEF MaxSlots
      <4> QED
        BY <2>2, <3>2, <4>1 DEF n
    <3>4. /\ ledger' # None /\ Len(ledger'[cur].slots) = n + 1
          /\ \A c \in Cases \ {cur} : ledger'[c] = ledger[c]
      BY <2>1 DEF Reserved, Slots
    <3> HIDE DEF n
    <3>5. \A c \in Cases : \A i \in 1..MaxSlots :
            calls[c][i] # 0 => calls[c][i] = 1 /\ i <= Len(ledger'[c].slots)
      <4>1. \A i \in 1..MaxSlots : i <= n => i <= n + 1
        BY <3>1 DEF MaxSlots
      <4>2. \A i \in 1..MaxSlots :
              calls[cur][i] # 0 => calls[cur][i] = 1 /\ i <= Len(ledger'[cur].slots)
        BY <2>2, <3>2, <3>4, <4>1 DEF n
      <4> QED
        BY <3>2, <3>4, <4>2
    <3> QED
      BY <2>1, <3>3, <3>4, <3>5 DEF Paid, Slots
  <2> QED
    BY <2>2, <2>5, <2>6 DEF Budget!Next
<1>3. CASE InvokeSlot \/ CompleteSlot
  <2>1. PICK slot : Rewritten(slot, "pending")
    BY <1>3, InvokeEffect, CompleteEffect
  <2>2. cur \in Cases /\ ledger # None /\ ledger[cur].status = "pending"
    BY <1>3, Turn DEF InvokeSlot, CompleteSlot
  <2>3. \A c \in Cases : /\ ConsumedSlots'[c] = ConsumedSlots[c]
                         /\ CaseStatuses'[c] = CaseStatuses[c]
    BY <2>1, <2>2, Mapped DEF Rewritten, Slots
  <2>4. /\ UNCHANGED calls
        /\ pc' \in {"invoke", "call"} => pc \in {"invoke", "call"} /\ cur' = cur
    BY <1>3 DEF InvokeSlot, CompleteSlot, Goto
  <2>5. ConsumedSlots' = ConsumedSlots /\ CaseStatuses' = CaseStatuses
    BY <2>3, Mapped, SameFunction
  <2> QED
    BY <2>1, <2>2, <2>4, <2>5, BudgetStutter DEF Rewritten
<1>4. CASE CallTeacher
  <2> DEFINE n == Len(Slots(cur))
  <2>1. pc = "call" /\ pc' = "returned" /\ UNCHANGED ledger
    BY <1>4 DEF CallTeacher, Goto, durable
  <2>2. /\ cur \in Budget!Cases /\ cur \in Cases /\ ledger # None /\ Budget!IsTurnOf(cur)
        /\ n \in 1..MaxSlots /\ calls[cur][n] = 0
    BY <2>1, Turn, Typed, InSlot DEF Paid
  <2>3. ConsumedSlots' = ConsumedSlots /\ CaseStatuses' = CaseStatuses
    BY <2>1 DEF ConsumedSlots, CaseStatuses, Slots
  <2>4. CASE UNCHANGED calls
    BY <2>1, <2>3, <2>4, BudgetStutter
  <2>5. CASE calls' = [calls EXCEPT ![cur][n] = @ + 1]
    <3>1. ConsumedSlots[cur] = n
      BY <2>2, Mapped DEF Slots
    <3> HIDE DEF n
    <3>2. calls' = [calls EXCEPT ![cur][n] = 1]
      BY <2>2, <2>5, Typed DEF MaxSlots
    <3>3. ConsumedSlots[cur] > 0
      BY <2>2, <3>1 DEF MaxSlots
    <3>4. Budget!Call(cur)
      BY <2>2, <2>3, <3>1, <3>2, <3>3 DEF Budget!Call
    <3>5. \A c \in Cases : \A i \in 1..MaxSlots :
            calls'[c][i] # 0 => \/ calls'[c][i] = calls[c][i]
                                \/ c = cur /\ i = n /\ calls'[c][i] = 1
      <4>1. \A c \in Cases \ {cur} : calls'[c] = calls[c]
        BY <2>2, <3>2, Typed
      <4>2. calls'[cur] = [calls[cur] EXCEPT ![n] = 1]
        BY <2>2, <3>2, Typed
      <4>3. calls[cur] \in [1..MaxSlots -> Nat]
        BY <2>2, Typed
      <4>4. \A i \in 1..MaxSlots : calls'[cur][i] = IF i = n THEN 1 ELSE calls[cur][i]
        BY <2>2, <4>2, <4>3 DEF MaxSlots
      <4> TAKE c \in Cases
      <4> TAKE i \in 1..MaxSlots
      <4>5. CASE c = cur
        BY <4>4, <4>5
      <4>6. CASE c # cur
        BY <4>1, <4>6
      <4> QED
        BY <4>5, <4>6
    <3>6. n <= Len(ledger[cur].slots)
      BY <2>2 DEF n, Slots, MaxSlots
    <3>7. Paid'
      BY <2>1, <2>2, <3>5, <3>6 DEF Paid, Slots
    <3> QED
      BY <2>2, <3>4, <3>7 DEF Budget!Next
  <2> QED
    BY <1>4, <2>4, <2>5 DEF CallTeacher
<1>5. CASE SettleSuccess \/ SettleFailure
  <2>1. /\ UNCHANGED calls /\ pc' = "next"
        /\ pc \in {"settle_success", "settle_failure"}
        /\ SettleSuccess => pc = "settle_success"
    BY <1>5 DEF SettleSuccess, SettleFailure, Goto
  <2>2. cur \in Budget!Cases /\ cur \in Cases /\ ledger # None /\ Budget!IsTurnOf(cur)
    BY <2>1, Turn
  <2>3. /\ ledger' # None
        /\ \A c \in Cases : Len(ledger'[c].slots) = Len(ledger[c].slots)
        /\ \A c \in Cases \ {cur} : ledger'[c].status = ledger[c].status
        /\ \/ SettleSuccess /\ ledger'[cur].status = "success"
           \/ ledger'[cur].status = "failed"
    <3>1. CASE SettleSuccess
      <4>1. PICK slot : Rewritten(slot, "success")
        BY <3>1, SettleSuccessEffect
      <4> QED
        BY <3>1, <4>1 DEF Rewritten, Slots
    <3>2. CASE SettleFailure
      BY <3>2, SettleFailureEffect
    <3> QED
      BY <1>5, <3>1, <3>2
  <2>4. SettleSuccess => ConsumedSlots[cur] > 0
    <3>1. SettleSuccess => Len(ledger[cur].slots) \in 1..MaxSlots
      BY <2>1, Typed, InSlot DEF Slots
    <3>2. ConsumedSlots[cur] = Len(ledger[cur].slots)
      BY <2>2, Mapped
    <3>3. SettleSuccess => ConsumedSlots[cur] \in 1..2
      BY <3>1, <3>2 DEF MaxSlots
    <3> QED
      BY <3>3
  <2>5. ConsumedSlots' = ConsumedSlots
    BY <2>2, <2>3, Mapped, SameFunction
  <2>6. CaseStatuses' = [CaseStatuses EXCEPT ![cur] = CaseStatuses'[cur]]
    BY <2>2, <2>3, Mapped, ChangedFunction
  <2>7. \/ CaseStatuses'[cur] = "failed"
        \/ CaseStatuses'[cur] = "success" /\ ConsumedSlots[cur] > 0
    BY <2>2, <2>3, <2>4, Mapped
  <2>8. Budget!Settle(cur)
    BY <2>1, <2>2, <2>5, <2>6, <2>7 DEF Budget!Settle
  <2>9. Paid'
    BY <2>1, <2>2, <2>3 DEF Paid, Slots
  <2> QED
    BY <2>2, <2>8, <2>9 DEF Budget!Next
<1>6. CASE ~(StartBatch \/ ReserveSlot \/ InvokeSlot \/ CallTeacher \/ CompleteSlot
             \/ SettleSuccess \/ SettleFailure)
  <2>1. /\ UNCHANGED <<ledger, calls>>
        /\ pc' \in {"invoke", "call"} => pc' = pc /\ cur' = cur
    BY <1>6, QuietSteps
  <2>2. ConsumedSlots' = ConsumedSlots /\ CaseStatuses' = CaseStatuses
    BY <2>1 DEF ConsumedSlots, CaseStatuses, Slots
  <2> QED
    BY <2>1, <2>2, BudgetStutter
<1> QED
  BY <1>1, <1>2, <1>3, <1>4, <1>5, <1>6

(* The batch starts where SlotBudget does. *)
LEMMA BudgetStart == Init => Budget!Init /\ Paid
BY DEF Init, Budget!Init, Budget!Cases, Cases, Paid, MaxSlots, ConsumedSlots, CaseStatuses

(* Only a slot on file is ever called for, and at most once. *)
LEMMA PaidAlways == Spec => []Paid
<1>1. TypeInv /\ Paid /\ [Next]_vars => Paid'
  BY BudgetStep
<1> QED
  BY <1>1, BudgetStart, TypeInvAlways, PTL DEF Spec

(* The batch spends within the budget of SlotBudget: a slot is consumed on   *)
(* disk before its call, is called for at most once, no case gets a third    *)
(* one, cases are served in order and a settled case costs nothing again,    *)
(* for any number of cases, crashes and resumes.                             *)
THEOREM SpendingCorrect == Spec => SpendsWithinBudget
<1>1. TypeInv /\ Paid /\ [Next]_vars => [Budget!Next]_Budget!budgetVars
  BY BudgetStep
<1> QED
  BY <1>1, BudgetStart, PaidAlways, TypeInvAlways, PTL DEF Spec, SpendsWithinBudget, Budget!Spec
-------------------------------------------------------------------------------
(***************************************************************************)
(* Nothing of a settled case changes.  The last step, which removes every  *)
(* artifact the ledger does not claim, needs that a settled case has only  *)
(* the artifact it claims; that in turn needs to know where a record can   *)
(* be before its case settles.                                             *)
(***************************************************************************)
RecordPlaces == {"recover", "published", "readback", "verified", "succeed", "settle_success"}

ClaimedOnly ==
  ledger # None => \A c \in Cases :
    /\ ledger[c].status = "success" => receipt[c] = None
    /\ ledger[c].status = "failed" => record[c] = None

(* Unless the run resumes an earlier one, only the case in hand has a record. *)
OwnRecordsOnly ==
  ledger # None => \A c \in Cases :
    pc # "down" /\ ~resuming /\ ledger[c].status = "pending" /\ record[c] # None
      => c = cur /\ pc \in RecordPlaces

Claimed ==
  /\ ledger = None => \A c \in Cases : record[c] = None
  /\ ClaimedOnly
  /\ OwnRecordsOnly
  /\ \A c \in Ineligible : record[c] = None
  /\ pc \in CasePlaces \ RecordPlaces => record[cur] = None
  /\ pc = "settle_success" => receipt[cur] = None
  /\ pc \in CasePlaces \ {"fail", "settle_failure"} => cur \notin Ineligible

Frozen ==
  \A c \in Cases :
    ledger # None /\ ledger[c].status # "pending"
    => /\ ledger'[c] = ledger[c] /\ record'[c] = record[c]
       /\ receipt'[c] = receipt[c] /\ quarantine'[c] = quarantine[c]

(* Steps that touch no file. *)
LEMMA ClaimedMoves ==
  ASSUME TypeInv, Claimed, [Next]_vars, UNCHANGED durable,
         ~CompleteSlot, ~SettleSuccess, ~SettleFailure
  PROVE  Claimed' /\ Frozen
<1> USE DEF Goto, Down, Proceed, Fail, Quarantine, Claimed, ClaimedOnly, OwnRecordsOnly,
            CasePlaces, Places, RecordPlaces, durable
<1>0. Frozen
  BY DEF Frozen
<1>1. CASE UNCHANGED vars
  BY <1>0, <1>1 DEF vars, volatile
<1>2. CASE ResumeBatch \/ WorldStep
  BY <1>0, <1>2 DEF ResumeBatch, WorldStep, Crash, SystemicError, Tick, ClockSetBack, volatile
<1>3. CASE SlotStep
  BY <1>0, <1>3, Typed DEF SlotStep, RetryUndefined, RetryRefused, ReserveSlot, InvokeSlot,
              CallTeacher, AnswerLate, AnswerFailed,
              AnswerReceived, Evaluate, AnswerInvalid, AnswerValid, RecordTooLarge,
              BuildRecord, CommitRecord, PublishRecord, RetractRecord, KeepRecord, Readback
<1>4. CASE NextCase
  BY <1>0, <1>4, Typed DEF NextCase, Pending, TypeInv, Serving
<1>5. CASE CaseStep /\ ~NextCase
  <2>1. CASE RecoverRecord \/ RecoverSlot \/ CeilingFailure \/ ClockFailure \/ Admit \/ Prepare
    BY <1>0, <2>1, Typed DEF RecoverRecord, RecoverSlot, CeilingFailure, ClockFailure,
                             Admit, Prepare
  <2>2. CASE WriteQuarantine \/ RemoveStaleReceipt \/ WriteFailureReceipt
    BY <1>0, <2>2, Typed DEF WriteQuarantine, RemoveStaleReceipt, WriteFailureReceipt
  <2> QED
    BY <1>5, <2>1, <2>2 DEF CaseStep
<1>6. CASE FinishStep
  BY <1>0, <1>6 DEF FinishStep, CleanUp, WriteManifest, WriteReport
<1>7. CASE StartBatch
  BY <1>0, <1>7 DEF StartBatch
<1> QED
  BY <1>1, <1>2, <1>3, <1>4, <1>5, <1>6, <1>7 DEF Next, RunnerStep
(* Steps that write a file. *)
LEMMA ClaimedWrites ==
  ASSUME TypeInv, Claimed,
         \/ StartBatch \/ ReserveSlot \/ InvokeSlot \/ PublishRecord \/ RetractRecord
         \/ WriteQuarantine \/ CompleteSlot \/ RemoveStaleReceipt \/ SettleSuccess
         \/ WriteFailureReceipt \/ SettleFailure \/ CleanUp \/ WriteManifest \/ WriteReport
  PROVE  Claimed' /\ Frozen
<1> USE DEF Goto, Claimed, ClaimedOnly, OwnRecordsOnly, Frozen, CasePlaces, Places, RecordPlaces
<1>0. /\ record \in [Cases -> Record \cup {None}]
      /\ receipt \in [Cases -> FailureReceipt \cup {None}]
      /\ cur \in Cases /\ Ineligible \subseteq Cases
      /\ pc # "down" => ledger # None
  BY Typed, BatchAssumption DEF TypeInv, Serving
<1>00. pc \in CasePlaces => ledger # None /\ ledger[cur].status = "pending"
  BY InCase DEF Pending
<1>1. CASE StartBatch
  BY <1>1 DEF StartBatch
<1>2. CASE ReserveSlot
  <2>1. Reserved
    BY <1>2, ReserveEffect
  <2> QED
    BY <1>0, <1>00, <1>2, <2>1 DEF ReserveSlot, Reserved
<1>3. CASE InvokeSlot
  <2>1. PICK slot : Rewritten(slot, "pending")
    BY <1>3, InvokeEffect
  <2> QED
    BY <1>0, <1>00, <1>3, <2>1 DEF InvokeSlot, Rewritten
<1>4. CASE PublishRecord
  BY <1>0, <1>00, <1>4 DEF PublishRecord
<1>5. CASE RetractRecord
  BY <1>0, <1>00, <1>5 DEF RetractRecord
<1>6. CASE WriteQuarantine
  <2>1. pc = "quarantine" /\ quarantine \in [Cases -> [1..MaxSlots -> QuarantineReceipt \cup {None}]]
    BY <1>6, Typed DEF WriteQuarantine
  <2> QED
    BY <1>0, <1>00, <1>6, <2>1 DEF WriteQuarantine, Down, durable
<1>7. CASE CompleteSlot
  <2>1. PICK slot : Rewritten(slot, "pending")
    BY <1>7, CompleteEffect
  <2> QED
    BY <1>0, <1>00, <1>7, <2>1 DEF CompleteSlot, Rewritten
<1>8. CASE RemoveStaleReceipt
  BY <1>0, <1>00, <1>8 DEF RemoveStaleReceipt
<1>9. CASE SettleSuccess
  <2>1. PICK slot : Rewritten(slot, "success")
    BY <1>9, SettleSuccessEffect
  <2> QED
    BY <1>0, <1>00, <1>9, <2>1 DEF SettleSuccess, Rewritten
<1>10. CASE WriteFailureReceipt
  BY <1>0, <1>00, <1>10 DEF WriteFailureReceipt
<1>11. CASE SettleFailure
  BY <1>0, <1>00, <1>11, SettleFailureEffect DEF SettleFailure
<1>12. CASE CleanUp
  <2>1. \A c \in Cases : ledger[c].status # "pending" => ledger[c].status \in {"success", "failed"}
    BY <1>0, <1>12 DEF CleanUp, TypeInv, TypeOK, CaseState
  <2>2. \A c \in Cases : ledger[c].status # "pending"
    BY <1>12 DEF CleanUp, Pending
  <2> QED
    BY <1>0, <1>12, <2>1, <2>2 DEF CleanUp, Settled
<1>13. CASE WriteManifest
  BY <1>13 DEF WriteManifest, Down, durable
<1>14. CASE WriteReport
  BY <1>14 DEF WriteReport, Down
<1> QED
  BY <1>1, <1>2, <1>3, <1>4, <1>5, <1>6, <1>7, <1>8, <1>9, <1>10, <1>11, <1>12, <1>13, <1>14

(* The steps that write a file. *)
FileWrite ==
  \/ StartBatch \/ ReserveSlot \/ InvokeSlot \/ PublishRecord \/ RetractRecord
  \/ WriteQuarantine \/ CompleteSlot \/ RemoveStaleReceipt \/ SettleSuccess
  \/ WriteFailureReceipt \/ SettleFailure \/ CleanUp \/ WriteManifest \/ WriteReport

(* No other step changes what is on disk. *)
LEMMA OthersWriteNothing ==
  ASSUME [Next]_vars, ~FileWrite
  PROVE  UNCHANGED durable
<1> USE DEF FileWrite, Down, Proceed, Fail, Quarantine, vars
<1>1. CASE UNCHANGED vars \/ ResumeBatch \/ WorldStep
  BY <1>1 DEF ResumeBatch, WorldStep, Crash, SystemicError, Tick, ClockSetBack
<1>2. CASE SlotStep
  BY <1>2 DEF SlotStep, RetryUndefined, RetryRefused, CallTeacher, AnswerLate,
     AnswerFailed, AnswerReceived, Evaluate, AnswerInvalid, AnswerValid, RecordTooLarge,
     BuildRecord, CommitRecord, KeepRecord, Readback
<1>3. CASE CaseStep
  BY <1>3 DEF CaseStep, NextCase, RecoverRecord, RecoverSlot, CeilingFailure,
     ClockFailure, Admit, Prepare
<1> QED
  BY <1>1, <1>2, <1>3 DEF Next, RunnerStep, FinishStep

(* Every step keeps what the ledger claims, and freezes what is settled. *)
LEMMA ClaimedStep ==
  ASSUME TypeInv, Claimed, [Next]_vars
  PROVE  Claimed' /\ [Frozen]_vars
<1>1. CASE FileWrite
  BY <1>1, ClaimedWrites DEF FileWrite
<1>2. CASE ~FileWrite
  BY <1>2, OthersWriteNothing, ClaimedMoves DEF FileWrite
<1> QED
  BY <1>1, <1>2

(* An empty output root claims nothing. *)
LEMMA ClaimedStart == Init => Claimed
BY BatchAssumption DEF Init, Claimed, ClaimedOnly, OwnRecordsOnly, CasePlaces, Cases

(* So the ledger never claims what is not there. *)
LEMMA ClaimedAlways == Spec => []Claimed
<1>1. TypeInv /\ Claimed /\ [Next]_vars => Claimed'
  BY ClaimedStep
<1> QED
  BY <1>1, ClaimedStart, TypeInvAlways, PTL DEF Spec

(* Once a case has settled, nothing it left on disk changes again: neither   *)
(* its ledger entry, nor its record, its failure receipt or its quarantine   *)
(* receipts, whatever resumes follow and although every finished run removes *)
(* the artifacts it takes for strays.                                        *)
THEOREM SettledStaysSettled == Spec => SettledCaseFrozen
<1>1. TypeInv /\ Claimed /\ [Next]_vars => [Frozen]_vars
  BY ClaimedStep
<1> QED
  BY <1>1, ClaimedAlways, TypeInvAlways, PTL DEF Spec, SettledCaseFrozen, Frozen
===============================================================================
