------------------------ MODULE ProcessSupervisorProofs ------------------------
(***************************************************************************)
(* Every safety property of ProcessSupervisor, for any limits and any      *)
(* number of faults and interrupts.                                        *)
(***************************************************************************)
EXTENDS ProcessSupervisor, TLAPS

-------------------------------------------------------------------------------
(***************************************************************************)
(* The inductive invariant                                                 *)
(***************************************************************************)

(* Nothing starts before the gate is released, and the gate is released only *)
(* after the attempt was noted.                                              *)
Gated ==
  /\ caller = "write" => noted # "no"
  /\ gate = "released" => noted # "no"
  /\ outer \in {"enter", "top", "look", "judge", "select", "reap"} => gate = "released"
  /\ outer \in {"boot", "ready", "gate", "enter"} => pid1 = "none"
  /\ pid1 # "none" => gate = "released"
  /\ pid1 \in {"none", "arm", "launch"} => \A m \in Members : member[m] = "none"

(* PID 1 is collected once, and the outer knows when it was. *)
Collected ==
  /\ pid1 = "gone" => status # "none" \/ outer \in {"reap", "say", "ended", "killed"}
  /\ status # "none" => pid1 = "gone"
  /\ pid1 \in {"closing", "zombie"} => exit # "none"
  /\ outer \in {"say", "ended"} /\ answer # "cleanup_failed" /\ ~faulted =>
       pid1 \in {"none", "gone"}
  /\ pid1 \in {"none", "zombie", "gone"} => \A m \in Members : ~Alive(m)

(* An outer whose answer is whole has ended by itself. *)
Answered ==
  /\ outer = "ended" => said = answer
  /\ outer # "ended" => said \in {"nothing", "part"}
  /\ asked = "graceful" => OuterEnded
  /\ caller \in {"pin", "ready", "release", "write", "note", "leave", "watch"} /\ ~faulted =>
       outer # "killed"

(* While PID 1 runs on, its limit is not exceeded, and nobody but itself    *)
(* collects the target; with its return code, all the target wrote is read. *)
Accounted ==
  /\ pid1 \in {"none", "arm", "launch", "poll", "adopt", "read"} => Captured <= CaptureLimit
  /\ known # "assumed"
  /\ member["target"] = "reaped" <=> known = "own"
  /\ wrote["target"] = taken["target"] + (IF pipe = "target" THEN 1 ELSE 0)
  /\ pid1 = "poll" /\ known = "own" => pipe # "target"
  /\ verdict = "completed" => known = "own" /\ pipe # "target"

(* A result is passed on as it is. *)
Relayed ==
  /\ pid1 \in {"none", "arm", "launch", "poll", "adopt", "read"} => verdict = "nothing"
  /\ pid1 = "report" => verdict \in Results
  /\ sent \in {"nothing", "part", verdict} /\ heard \in {"nothing", "part", verdict}
  /\ verdict = "nothing" => sent = "nothing"
  /\ answer = "completed" \/ said = "completed" \/ outcome = "completed" => verdict = "completed"

IInv ==
  /\ TypeOK /\ Gated /\ Collected /\ Answered /\ Accounted /\ Relayed
  /\ Contained /\ SignalsItsOwn

USE SupervisorAssumption DEF callerVars, outerVars, pid1Vars, memberVars, counts, history,
                             others, Members

-------------------------------------------------------------------------------
(***************************************************************************)
(* What the steps of each process leave alone                              *)
(***************************************************************************)

(* The caller reaches the others through the gate and by signals only. *)
LEMMA CallerFrame ==
  CallerStep \/ Interrupt =>
    UNCHANGED <<ready, answer, status, heard, eof, pid1Vars, memberVars, faults, faulted, astray>>
BY DEF CallerStep, Interrupt, Pin, AwaitReady, TryRelease, Release, NoteRelease, LeaveSetup, Decode,
       Overdue, AskToEnd, AwaitEnd, ForceEnd, Join, Abandon, Proceed, Over, GiveUp, KillOuter

(* PID 1 and the kernel tell the outer nothing but through PID 1's own state. *)
LEMMA Pid1Frame ==
  Pid1Step \/ Kernel => UNCHANGED <<callerVars, gate, ready, outerVars, counts, history>>
BY DEF Pid1Step, Kernel, Arm, LaunchTarget, Poll, Adopt, Overrun, Read, Drain, Drained, Report,
       DeathSignal, DestroyNamespace

(* The members of the namespace reach nobody outside but by their pipe. *)
LEMMA MemberFrame ==
  MemberStep => UNCHANGED <<callerVars, gate, ready, outerVars, pid1Vars, taken, counts, history>>
BY DEF MemberStep, TargetForks, MemberExits, MemberWrites

-------------------------------------------------------------------------------
(* Types, and the limit of what is captured. *)
LEMMA TypeOKKept == ASSUME IInv, [Next]_vars PROVE TypeOK'
<1> USE DEF IInv
<1>1. CASE CallerStep
  <2>1. CASE Pin
    BY <2>1 DEF Pin, Proceed, Abandon, TypeOK, Captured
  <2>2. CASE AwaitReady
    BY <2>2 DEF AwaitReady, Proceed, Abandon, TypeOK, Captured
  <2>3. CASE TryRelease
    BY <2>3 DEF TryRelease, Proceed, TypeOK, Captured
  <2>4. CASE Release
    BY <2>4 DEF Release, Proceed, Abandon, TypeOK, Captured
  <2>5. CASE NoteRelease
    BY <2>5 DEF NoteRelease, Proceed, TypeOK, Captured
  <2>6. CASE LeaveSetup
    <3>1. setup' \in BOOLEAN
      BY Zenon, <2>6 DEF LeaveSetup
    <3>2. /\ caller' = "watch"
          /\ UNCHANGED <<noted, asked, outcome, gate, others, counts, history>>
      BY <2>6 DEF LeaveSetup
    <3> QED BY <3>1, <3>2 DEF TypeOK, Captured
  <2>7. CASE Decode
    BY <2>7 DEF Decode, Over, TypeOK, Captured
  <2>8. CASE Overdue
    BY <2>8 DEF Overdue, GiveUp, Over, TypeOK, Captured
  <2>9. CASE AskToEnd
    BY <2>9 DEF AskToEnd, TypeOK, Captured
  <2>10. CASE AwaitEnd
    BY <2>10 DEF AwaitEnd, TypeOK, Captured
  <2>11. CASE ForceEnd
    BY <2>11 DEF ForceEnd, KillOuter, TypeOK, Texts, Captured
  <2>12. CASE Join
    BY <2>12 DEF Join, Over, TypeOK, Captured
  <2> QED BY <1>1, <2>1, <2>2, <2>3, <2>4, <2>5, <2>6, <2>7, <2>8, <2>9, <2>10,
         <2>11, <2>12 DEF CallerStep
<1>2. CASE Interrupt
  <2>1. cut' = cut \/ cut' = TRUE
    BY <1>2 DEF Interrupt, Abandon, GiveUp
  <2>2. cut \in BOOLEAN
    BY DEF TypeOK
  <2>3. cut' \in BOOLEAN
    BY Zenon, <2>1, <2>2
  <2>4. interrupts' \in Nat
    BY <1>2 DEF Interrupt, TypeOK
  <2>5. /\ caller' \in {"term", "over"} /\ gate' \in {gate, "closed"}
        /\ outcome' \in {outcome, "failed", "unconfirmed"}
        /\ UNCHANGED <<setup, noted, asked, others, faults, faulted, astray>>
    BY <1>2 DEF Interrupt, Abandon, GiveUp, Over
  <2> QED BY <2>3, <2>4, <2>5 DEF TypeOK, Captured
<1>3. CASE OuterStep
  <2>1. CASE ArmTermination
    BY <2>1 DEF ArmTermination, TypeOK, Captured
  <2>2. CASE SignalReady
    BY <2>2 DEF SignalReady, TypeOK, Captured
  <2>3. CASE AwaitGate
    BY <2>3 DEF AwaitGate, Say, TypeOK, Texts, Results, Captured
  <2>4. CASE EnterNamespace
    BY <2>4 DEF EnterNamespace, Say, TypeOK, Texts, Results, Captured
  <2>5. CASE Top
    BY <2>5 DEF Top, EndPid1, KillPid1, Pid1Ends, TypeOK, Texts, Results, Captured
  <2>6. CASE Look
    BY <2>6 DEF Look, TypeOK, Captured
  <2>7. CASE Judge
    BY <2>7 DEF Judge, Say, Results, TypeOK, Texts, Captured
  <2>8. CASE OuterOverdue
    BY <2>8 DEF OuterOverdue, EndPid1, KillPid1, Pid1Ends, TypeOK, Texts, Results,
           Captured, Collected
  <2>9. CASE Select
    BY <2>9 DEF Select, TypeOK, Captured
  <2>10. CASE Reap
    BY <2>10 DEF Reap, Say, TypeOK, Texts, Results, Captured
  <2>11. CASE Write
    BY <2>11 DEF Write, TypeOK, Captured
  <2> QED BY <1>3, <2>1, <2>2, <2>3, <2>4, <2>5, <2>6, <2>7, <2>8, <2>9, <2>10,
         <2>11 DEF OuterStep
<1>4. CASE Pid1Step
  BY <1>4 DEF Pid1Step, Arm, Pid1Ends, Conclude, LaunchTarget, Poll, Adopt, Overrun,
         Read, Captured, Drain, Drained, Report, Results, TypeOK, Texts, Accounted
<1>5. CASE Kernel
  BY <1>5 DEF Kernel, DeathSignal, Pid1Ends, DestroyNamespace, TypeOK, Captured
<1>6. CASE MemberStep
  BY <1>6 DEF MemberStep, TargetForks, MemberExits, MemberWrites, TypeOK, Captured
<1>7. CASE CallerDies
  BY <1>7 DEF CallerDies, Fault, TypeOK, Captured
<1>8. CASE OuterDies
  BY <1>8 DEF OuterDies, Fault, KillOuter, TypeOK, Texts, Captured
<1>9. CASE OuterAsked
  BY <1>9 DEF OuterAsked, Fault, TypeOK, Captured
<1>10. CASE CollectorFails
  BY <1>10 DEF CollectorFails, Fault, Say, TypeOK, Texts, Results, Captured
<1>11. CASE UNCHANGED vars
  BY <1>11 DEF vars, TypeOK, Texts, Results, Captured
<1> QED BY <1>1, <1>2, <1>3, <1>4, <1>5, <1>6, <1>7, <1>8, <1>9, <1>10, <1>11 DEF Next

-------------------------------------------------------------------------------
(* The launch gate. *)
LEMMA GatedKept == ASSUME IInv, [Next]_vars PROVE Gated'
<1> USE DEF IInv
<1>1. CASE CallerStep
  BY <1>1 DEF CallerStep, Pin, Proceed, Abandon, AwaitReady, TryRelease, Release,
         NoteRelease, LeaveSetup, Decode, Over, Overdue, GiveUp, AskToEnd, AwaitEnd,
         ForceEnd, KillOuter, Join, Confirmed, Gated
<1>2. CASE Interrupt
  BY <1>2 DEF Interrupt, Abandon, Over, GiveUp, Gated
<1>3. CASE OuterStep
  BY <1>3 DEF OuterStep, ArmTermination, SignalReady, AwaitGate, Say,
         EnterNamespace, Top, EndPid1, KillPid1, Pid1Ends, Look, Judge,
         OuterOverdue, Select, Reap, Write, Gated
<1>4. CASE Pid1Step
  BY <1>4 DEF Pid1Step, Arm, Pid1Ends, Conclude, LaunchTarget, Poll, Adopt, Overrun,
         Read, Drain, Drained, Report, Gated
<1>5. CASE Kernel
  BY <1>5 DEF Kernel, DeathSignal, Pid1Runs, Pid1Ends, DestroyNamespace, Gated
<1>6. CASE MemberStep
  BY <1>6 DEF MemberStep, TargetForks, Alive, MemberExits, MemberWrites, Gated
<1>7. CASE CallerDies
  BY <1>7 DEF CallerDies, Gated
<1>8. CASE OuterDies
  BY <1>8 DEF OuterDies, KillOuter, Gated
<1>9. CASE OuterAsked
  BY <1>9 DEF OuterAsked, Gated
<1>10. CASE CollectorFails
  BY <1>10 DEF CollectorFails, Say, Gated
<1>11. CASE UNCHANGED vars
  BY <1>11 DEF vars, Gated
<1> QED BY <1>1, <1>2, <1>3, <1>4, <1>5, <1>6, <1>7, <1>8, <1>9, <1>10, <1>11 DEF Next

-------------------------------------------------------------------------------
(* PID 1 and its namespace. *)
LEMMA CollectedKept == ASSUME IInv, [Next]_vars PROVE Collected'
<1> USE DEF IInv
<1>1. CASE CallerStep
  BY <1>1 DEF CallerStep, Pin, Proceed, Abandon, AwaitReady, TryRelease, Release,
         NoteRelease, LeaveSetup, Decode, Overdue, GiveUp, AskToEnd, AwaitEnd,
         ForceEnd, KillOuter, Join, Confirmed, Collected, Alive
<1>2. CASE Interrupt
  BY <1>2 DEF Interrupt, Abandon, GiveUp, Collected, Alive
<1>3. CASE OuterStep
  <2>1. CASE ArmTermination
    BY <2>1 DEF ArmTermination, Collected, Alive
  <2>2. CASE SignalReady
    BY <2>2 DEF SignalReady, Collected, Alive
  <2>3. CASE AwaitGate
    BY <2>3 DEF AwaitGate, Collected, Alive, Gated
  <2>4. CASE EnterNamespace
    BY <2>4 DEF EnterNamespace, Collected, Alive, Gated
  <2>5. CASE Top
    BY <2>5 DEF Top, EndPid1, KillPid1, Pid1Ends, Collected, Alive
  <2>6. CASE Look
    <3>1. CASE status = "none" /\ pid1 = "zombie"
      BY <2>6, <3>1 DEF Look, Collected, Alive
    <3>2. CASE ~(status = "none" /\ pid1 = "zombie")
      BY <2>6, <3>2 DEF Look, Collected, Alive
    <3> QED BY <3>1, <3>2
  <2>7. CASE Judge
    BY <2>7 DEF Judge, Collected, Alive
  <2>8. CASE OuterOverdue
    BY <2>8 DEF OuterOverdue, EndPid1, KillPid1, Pid1Ends, Collected, Alive
  <2>9. CASE Select
    BY <2>9 DEF Select, Collected, Alive
  <2>10. CASE Reap
    BY <2>10 DEF Reap, Say, Collected, Alive
  <2>11. CASE Write
    BY <2>11 DEF Write, Collected, Alive
  <2> QED BY <1>3, <2>1, <2>2, <2>3, <2>4, <2>5, <2>6, <2>7, <2>8, <2>9, <2>10,
         <2>11 DEF OuterStep
<1>4. CASE Pid1Step
  BY <1>4 DEF Pid1Step, Arm, Pid1Ends, Conclude, LaunchTarget, Poll, Adopt, Overrun,
         Read, Drain, Drained, Report, Collected
<1>5. CASE Kernel
  BY <1>5 DEF Kernel, DeathSignal, Pid1Runs, Pid1Ends, DestroyNamespace, Alive,
         Collected
<1>6. CASE MemberStep
  BY <1>6 DEF MemberStep, TargetForks, MemberExits, MemberWrites, Collected
<1>7. CASE CallerDies
  BY <1>7 DEF CallerDies, Collected, Alive
<1>8. CASE OuterDies
  BY <1>8 DEF OuterDies, KillOuter, Collected, Alive
<1>9. CASE OuterAsked
  BY <1>9 DEF OuterAsked, Collected, Alive
<1>10. CASE CollectorFails
  BY <1>10 DEF CollectorFails, Collected, Alive
<1>11. CASE UNCHANGED vars
  BY <1>11 DEF vars, Collected, Alive
<1> QED BY <1>1, <1>2, <1>3, <1>4, <1>5, <1>6, <1>7, <1>8, <1>9, <1>10, <1>11 DEF Next

-------------------------------------------------------------------------------
(* The end of the outer. *)
LEMMA AnsweredKept == ASSUME IInv, [Next]_vars PROVE Answered'
<1> USE DEF IInv
<1>1. CASE CallerStep
  BY <1>1 DEF CallerStep, Pin, Proceed, Abandon, AwaitReady, TryRelease, Release,
         OuterEnded, NoteRelease, LeaveSetup, Decode, Over, Overdue, GiveUp,
         AskToEnd, AwaitEnd, ForceEnd, KillOuter, Join, Confirmed, Answered
<1>2. CASE Interrupt
  BY <1>2 DEF Interrupt, Abandon, Over, GiveUp, OuterEnded, Answered
<1>3. CASE OuterStep
  BY <1>3 DEF OuterStep, ArmTermination, SignalReady, AwaitGate, Say,
         EnterNamespace, Top, EndPid1, Look, Judge, OuterOverdue, Select, Reap,
         Write, Answered, OuterEnded
<1>4. CASE Pid1Step
  BY <1>4, Pid1Frame DEF Answered, OuterEnded
<1>5. CASE Kernel
  BY <1>5, Pid1Frame DEF Answered, OuterEnded
<1>6. CASE MemberStep
  BY <1>6, MemberFrame DEF Answered, OuterEnded
<1>7. CASE CallerDies
  BY <1>7 DEF CallerDies, Answered, OuterEnded
<1>8. CASE OuterDies
  BY <1>8 DEF OuterDies, OuterEnded, KillOuter, Answered
<1>9. CASE OuterAsked
  BY <1>9 DEF OuterAsked, Answered
<1>10. CASE CollectorFails
  BY <1>10 DEF CollectorFails, Say, Answered, OuterEnded
<1>11. CASE UNCHANGED vars
  BY <1>11 DEF vars, Answered, OuterEnded
<1> QED BY <1>1, <1>2, <1>3, <1>4, <1>5, <1>6, <1>7, <1>8, <1>9, <1>10, <1>11 DEF Next

-------------------------------------------------------------------------------
(* What the target printed. *)
LEMMA AccountedKept == ASSUME IInv, [Next]_vars PROVE Accounted'
<1> USE DEF IInv
<1>1. CASE CallerStep
  BY <1>1, CallerFrame DEF Accounted, Captured
<1>2. CASE Interrupt
  BY <1>2, CallerFrame DEF Accounted, Captured
<1>3. CASE OuterStep
  BY <1>3 DEF OuterStep, ArmTermination, SignalReady, AwaitGate, EnterNamespace,
         Top, EndPid1, KillPid1, Pid1Ends, Look, Judge, OuterOverdue, Select, Reap,
         Write, Accounted, Captured, Gated
<1>4. CASE Pid1Step
  <2>1. CASE Arm
    BY <2>1 DEF Arm, Pid1Ends, Conclude, Accounted, Captured
  <2>2. CASE LaunchTarget
    <3>1. /\ pid1 = "launch" /\ pid1' \in {"poll", "report"}
          /\ verdict' \in {verdict, "launch_failed"}
          /\ UNCHANGED <<known, pipe, wrote, taken>>
      BY <2>2 DEF LaunchTarget, Conclude
    <3>2. member' = member \/ member' = [member EXCEPT !["target"] = "running"]
      BY <2>2 DEF LaunchTarget
    <3> QED BY <3>1, <3>2 DEF TypeOK, Gated, Accounted, Captured
  <2>3. CASE Poll
    BY <2>3 DEF Poll, Accounted, Captured, TypeOK
  <2>4. CASE Adopt
    BY <2>4 DEF Adopt, Conclude, Accounted, Captured, TypeOK
  <2>5. CASE Overrun
    BY <2>5 DEF Overrun, Conclude, Accounted
  <2>6. CASE Read
    BY <2>6 DEF Read, Pid1Ends, Captured, Conclude, Accounted, TypeOK
  <2>7. CASE Drain
    BY <2>7 DEF Drain, Accounted, Captured
  <2>8. CASE Drained
    BY <2>8 DEF Drained, Accounted, Captured, TypeOK
  <2>9. CASE Report
    BY <2>9 DEF Report, Pid1Ends, Accounted
  <2> QED BY <1>4, <2>1, <2>2, <2>3, <2>4, <2>5, <2>6, <2>7, <2>8, <2>9 DEF Pid1Step
<1>5. CASE Kernel
  BY <1>5 DEF Kernel, DeathSignal, Pid1Ends, DestroyNamespace, Alive, Accounted
<1>6. CASE MemberStep
  BY <1>6 DEF MemberStep, TargetForks, Alive, MemberExits, MemberWrites, Accounted,
         Captured, TypeOK
<1>7. CASE CallerDies
  BY <1>7 DEF CallerDies, Accounted, Captured
<1>8. CASE OuterDies
  BY <1>8 DEF OuterDies, KillOuter, Accounted, Captured
<1>9. CASE OuterAsked
  BY <1>9 DEF OuterAsked, Accounted, Captured
<1>10. CASE CollectorFails
  BY <1>10 DEF CollectorFails, Accounted, Captured
<1>11. CASE UNCHANGED vars
  BY <1>11 DEF vars, Accounted, Captured
<1> QED BY <1>1, <1>2, <1>3, <1>4, <1>5, <1>6, <1>7, <1>8, <1>9, <1>10, <1>11 DEF Next

-------------------------------------------------------------------------------
(* The result on its way. *)
LEMMA RelayedKept == ASSUME IInv, [Next]_vars PROVE Relayed'
<1> USE DEF IInv
<1>1. CASE CallerStep
  BY <1>1 DEF CallerStep, Pin, Proceed, Abandon, AwaitReady, TryRelease, Release,
         NoteRelease, LeaveSetup, Decode, Over, Overdue, GiveUp, AskToEnd, AwaitEnd,
         ForceEnd, KillOuter, Join, Confirmed, Relayed
<1>2. CASE Interrupt
  BY <1>2 DEF Interrupt, Abandon, Over, GiveUp, Relayed
<1>3. CASE OuterStep
  BY <1>3 DEF OuterStep, ArmTermination, SignalReady, AwaitGate, Say,
         EnterNamespace, Top, EndPid1, KillPid1, Pid1Ends, Look, Judge,
         OuterOverdue, Select, Reap, Write, Relayed, Gated
<1>4. CASE Pid1Step
  BY <1>4 DEF Pid1Step, Arm, Pid1Ends, Conclude, LaunchTarget, Poll, Adopt, Overrun,
         Read, Drain, Drained, Report, Results, Relayed
<1>5. CASE Kernel
  BY <1>5 DEF Kernel, DeathSignal, Pid1Ends, DestroyNamespace, Relayed
<1>6. CASE MemberStep
  BY <1>6, MemberFrame DEF Relayed, Results
<1>7. CASE CallerDies
  BY <1>7 DEF CallerDies, Relayed
<1>8. CASE OuterDies
  BY <1>8 DEF OuterDies, KillOuter, Relayed
<1>9. CASE OuterAsked
  BY <1>9 DEF OuterAsked, Relayed
<1>10. CASE CollectorFails
  BY <1>10 DEF CollectorFails, Say, Relayed
<1>11. CASE UNCHANGED vars
  BY <1>11 DEF vars, Relayed, Results
<1> QED BY <1>1, <1>2, <1>3, <1>4, <1>5, <1>6, <1>7, <1>8, <1>9, <1>10, <1>11 DEF Next

-------------------------------------------------------------------------------
(* What the caller may conclude. *)
LEMMA ContainedKept == ASSUME IInv, [Next]_vars PROVE Contained'
<1> USE DEF IInv
<1>1. CASE CallerStep
  BY <1>1 DEF CallerStep, Pin, Proceed, Abandon, AwaitReady, TryRelease, Release,
         OuterEnded, NoteRelease, LeaveSetup, Decode, OutputClosed, Over, Overdue,
         GiveUp, AskToEnd, AwaitEnd, ForceEnd, Join, Confirmed, Contained,
         NothingRuns, Alive, TypeOK, Gated, Collected, Answered
<1>2. CASE Interrupt
  BY <1>2 DEF Interrupt, Abandon, Over, GiveUp, Contained
<1>3. CASE OuterStep
  BY <1>3 DEF OuterStep, ArmTermination, SignalReady, AwaitGate, EnterNamespace,
         Top, Look, Judge, OuterOverdue, Select, Reap, Write, Contained,
         NothingRuns, OuterEnded
<1>4. CASE Pid1Step
  BY <1>4 DEF Pid1Step, Arm, LaunchTarget, Poll, Adopt, Overrun, Read, Drain,
         Drained, Report, Contained, NothingRuns
<1>5. CASE Kernel
  BY <1>5 DEF Kernel, DeathSignal, Pid1Runs, DestroyNamespace, Contained,
         NothingRuns
<1>6. CASE MemberStep
  BY <1>6 DEF MemberStep, TargetForks, MemberExits, MemberWrites, Contained,
         NothingRuns
<1>7. CASE CallerDies
  BY <1>7 DEF CallerDies, Contained
<1>8. CASE OuterDies
  BY <1>8 DEF OuterDies, Contained
<1>9. CASE OuterAsked
  BY <1>9 DEF OuterAsked, Contained, NothingRuns
<1>10. CASE CollectorFails
  BY <1>10 DEF CollectorFails, Contained
<1>11. CASE UNCHANGED vars
  BY <1>11 DEF vars, Contained, NothingRuns, OuterEnded, Alive
<1> QED BY <1>1, <1>2, <1>3, <1>4, <1>5, <1>6, <1>7, <1>8, <1>9, <1>10, <1>11 DEF Next

-------------------------------------------------------------------------------
(* Process numbers. *)
LEMMA SignalsItsOwnKept == ASSUME IInv, [Next]_vars PROVE SignalsItsOwn'
<1> USE DEF IInv
<1>1. CASE CallerStep
  BY <1>1, CallerFrame DEF SignalsItsOwn
<1>2. CASE Interrupt
  BY <1>2, CallerFrame DEF SignalsItsOwn
<1>3. CASE OuterStep
  BY <1>3 DEF OuterStep, ArmTermination, SignalReady, AwaitGate, EnterNamespace,
         Top, EndPid1, KillPid1, Look, Judge, OuterOverdue, Select, Reap, Write,
         SignalsItsOwn, TypeOK, Collected
<1>4. CASE Pid1Step
  BY <1>4, Pid1Frame DEF SignalsItsOwn
<1>5. CASE Kernel
  BY <1>5, Pid1Frame DEF SignalsItsOwn
<1>6. CASE MemberStep
  BY <1>6, MemberFrame DEF SignalsItsOwn
<1>7. CASE CallerDies
  BY <1>7 DEF CallerDies, SignalsItsOwn
<1>8. CASE OuterDies
  BY <1>8 DEF OuterDies, SignalsItsOwn
<1>9. CASE OuterAsked
  BY <1>9 DEF OuterAsked, SignalsItsOwn
<1>10. CASE CollectorFails
  BY <1>10 DEF CollectorFails, SignalsItsOwn
<1>11. CASE UNCHANGED vars
  BY <1>11 DEF vars, SignalsItsOwn
<1> QED BY <1>1, <1>2, <1>3, <1>4, <1>5, <1>6, <1>7, <1>8, <1>9, <1>10, <1>11 DEF Next
-------------------------------------------------------------------------------
(***************************************************************************)
(* The invariant, and what follows from it                                 *)
(***************************************************************************)

LEMMA Initially == Init => IInv
<1> SUFFICES ASSUME Init PROVE IInv
  OBVIOUS
<1>1. TypeOK
  <2>1. /\ setup \in BOOLEAN /\ ready \in BOOLEAN /\ term \in BOOLEAN /\ eof \in BOOLEAN
        /\ faulted \in BOOLEAN /\ cut \in BOOLEAN /\ astray \in BOOLEAN
    BY Zenon DEF Init
  <2>2. /\ member \in [Members -> {"none", "running", "ended", "reaped", "killed"}]
        /\ wrote \in [Members -> Nat] /\ taken \in [Members -> Nat] /\ Captured <= CaptureLimit + 1
    BY DEF Init, Captured
  <2>3. {faults, interrupts} \subseteq Nat /\ {answer, said, heard, verdict, sent} \subseteq {"nothing"}
    BY DEF Init
  <2> QED BY <2>1, <2>2, <2>3 DEF Init, TypeOK, Texts
<1>2. Gated /\ Answered /\ Relayed
  BY DEF Init, Gated, Answered, Relayed
<1>3. Collected /\ Contained /\ SignalsItsOwn
  BY DEF Init, Collected, Contained, SignalsItsOwn, Alive
<1>4. Accounted
  BY DEF Init, Accounted, Captured
<1> QED BY <1>1, <1>2, <1>3, <1>4 DEF IInv

LEMMA Inductive == IInv /\ [Next]_vars => IInv'
BY TypeOKKept, GatedKept, CollectedKept, AnsweredKept, AccountedKept, RelayedKept, ContainedKept,
   SignalsItsOwnKept DEF IInv

LEMMA Invariant == Spec => []IInv
BY Initially, Inductive, PTL DEF Spec

(* Every variable keeps its type, and PID 1 never holds more than one chunk *)
(* beyond its limit.                                                        *)
THEOREM TypeCorrect == Spec => []TypeOK
<1>1. IInv => TypeOK
  BY DEF IInv
<1> QED BY <1>1, Invariant, PTL

(* When a call ends and does not say that its clean-up is unconfirmed, nothing *)
(* it started runs; whatever is killed, late, interrupted or printed before.   *)
THEOREM CallsAreContained == Spec => []Contained
<1>1. IInv => Contained
  BY DEF IInv
<1> QED BY <1>1, Invariant, PTL

(* A call that returns has the target's own return code and all its output. *)
THEOREM AnswersAreTrue == Spec => []TrueAnswer
<1>1. IInv => TrueAnswer
  <2> SUFFICES ASSUME IInv, outcome = "completed"
               PROVE  known = "own" /\ taken["target"] = wrote["target"]
    BY DEF TrueAnswer
  <2>1. verdict = "completed"
    BY DEF IInv, Relayed
  <2>2. known = "own" /\ pipe # "target"
    BY <2>1 DEF IInv, Accounted
  <2>3. wrote["target"] = taken["target"] + 0
    BY <2>2 DEF IInv, Accounted
  <2>4. taken["target"] \in Nat
    BY DEF IInv, TypeOK
  <2> QED BY <2>2, <2>3, <2>4
<1> QED BY <1>1, Invariant, PTL

(* The outer never signals a process number it has already given back. *)
THEOREM SignalsAreItsOwn == Spec => []SignalsItsOwn
<1>1. IInv => SignalsItsOwn
  BY DEF IInv
<1> QED BY <1>1, Invariant, PTL

(* No target starts before the gate is released, nor after it was abandoned. *)
THEOREM StartsAreReleased == Spec => []StartsOnlyReleased
<1>1. IInv => StartsOnlyReleased
  BY DEF IInv, Gated, StartsOnlyReleased
<1> QED BY <1>1, Invariant, PTL
===============================================================================
