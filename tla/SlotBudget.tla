------------------------------ MODULE SlotBudget ------------------------------
(***************************************************************************)
(* What a pragmatic enrichment batch promises about the money it spends,   *)
(* with no word on files, crashes or clocks.  A case owns MaxSlots         *)
(* provider slots.  A slot is consumed before the provider may be called   *)
(* for it, is called for at most once, and cases are served in the         *)
(* requested order.  A case that has settled is never touched again.       *)
(* PragmaticBatch implements this specification.                           *)
(***************************************************************************)
EXTENDS Integers

CONSTANTS
  NumCases,   \* cases 1..NumCases, in the order the operator requested them
  MaxSlots    \* provider slots a case may consume

VARIABLES
  consumed,   \* slots the case has used up
  calls,      \* how often the provider was really called for each slot
  status      \* pending, or how the case settled

budgetVars == <<consumed, calls, status>>

Cases == 1..NumCases

Init ==
  /\ consumed = [c \in Cases |-> 0]
  /\ calls    = [c \in Cases |-> [i \in 1..MaxSlots |-> 0]]
  /\ status   = [c \in Cases |-> "pending"]

(* Every case requested before c has settled. *)
IsTurnOf(c) ==
  /\ status[c] = "pending"
  /\ \A earlier \in 1..(c - 1) : status[earlier] # "pending"

Consume(c) ==
  /\ IsTurnOf(c)
  /\ consumed[c] < MaxSlots
  /\ consumed' = [consumed EXCEPT ![c] = @ + 1]
  /\ UNCHANGED <<calls, status>>

(* Only the slot consumed last can be called for, and only once. *)
Call(c) ==
  /\ IsTurnOf(c)
  /\ consumed[c] > 0
  /\ calls[c][consumed[c]] = 0
  /\ calls' = [calls EXCEPT ![c][consumed[c]] = 1]
  /\ UNCHANGED <<consumed, status>>

Settle(c) ==
  /\ IsTurnOf(c)
  /\ \/ status' = [status EXCEPT ![c] = "failed"]
     \/ consumed[c] > 0 /\ status' = [status EXCEPT ![c] = "success"]
  /\ UNCHANGED <<consumed, calls>>

Next == \E c \in Cases : Consume(c) \/ Call(c) \/ Settle(c)

Spec == Init /\ [][Next]_budgetVars
===============================================================================
