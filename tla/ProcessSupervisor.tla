--------------------------- MODULE ProcessSupervisor ---------------------------
(***************************************************************************)
(* A command run by first_case_hard_gate.py under process_supervisor.py.   *)
(* Four kinds of processes take part: the caller, its child the outer      *)
(* supervisor, the outer's child PID 1 of a new PID namespace, and inside  *)
(* the namespace the target with whatever it leaves behind.  The caller    *)
(* must not go on while any of it runs, and must not lose what it printed. *)
(*                                                                         *)
(* Abstractions.  Both streams of the target are one pipe, which holds one *)
(* chunk: a read of PID 1 takes all that a pipe can hold.  A deadline may  *)
(* pass at any time it is looked at, since no process is scheduled within  *)
(* a bound.  A result is its status or its error code.  All the processes  *)
(* the target leaves behind are one, the stray.                            *)
(***************************************************************************)
EXTENDS Naturals

CONSTANTS
  CaptureLimit,  \* chunks that PID 1 accepts from the pipe
  MaxChunks,     \* bound: chunks the target, and the stray, write
  MaxFaults,     \* bound: processes killed by others, and failing system calls
  MaxInterrupts  \* bound: KeyboardInterrupts of the caller

ASSUME SupervisorAssumption ==
  CaptureLimit \in Nat /\ MaxChunks \in Nat /\ MaxFaults \in Nat /\ MaxInterrupts \in Nat

Members == {"target", "stray"}

(* What a result says; what the caller gets to read may be a part of one. *)
Results == {"completed", "timeout", "capture_limit", "capture_failed", "launch_failed",
            "namespace_unavailable", "terminated", "cleanup_failed", "internal_error"}
Texts == Results \cup {"nothing", "part"}

VARIABLES
  caller,    \* where the caller is
  setup,     \* it has not yet left the setup of its child
  noted,     \* what it noted of the gate: "no", "tried" or "yes"
  asked,     \* how the outer took its request to end
  outcome,   \* how the call ended
  gate,      \* the launch gate: "shut", "released" or, its writer gone, "closed"
  ready,     \* the outer has written that it can be asked to end
  outer,     \* where the outer supervisor is
  term,      \* it has been asked to end
  answer,    \* what it will write, once it knows
  said,      \* what is in its standard output
  status,    \* the exit status of PID 1 it collected
  heard,     \* what it read from the result pipe
  eof,       \* it read the end of that pipe
  pid1,      \* where PID 1 is
  exit,      \* its exit status
  verdict,   \* the result it arrived at
  sent,      \* what is in the result pipe
  known,     \* the return code of the target as PID 1 knows it
  member,    \* member[m]: state of a process of the namespace
  pipe,      \* whose chunk is in the pipe, "empty" if none
  wrote,     \* wrote[m]: chunks m wrote
  taken,     \* taken[m]: chunks of m that PID 1 took
  faults, interrupts,  \* how many of each occurred
  faulted,   \* history: the outer was killed by others, or failed to collect
  cut,       \* history: the caller was interrupted while it joined its threads
  astray     \* history: a signal was sent to the number of a process long gone

callerVars == <<caller, setup, noted, asked, outcome>>
outerVars  == <<outer, term, answer, said, status, heard, eof>>
pid1Vars   == <<pid1, exit, verdict, sent, known>>
memberVars == <<member, pipe, wrote, taken>>
counts     == <<faults, interrupts>>
history    == <<faulted, cut, astray>>
others     == <<ready, outerVars, pid1Vars, memberVars>>
vars       == <<callerVars, gate, others, counts, history>>

-------------------------------------------------------------------------------
(***************************************************************************)
(* Processes and pipes                                                     *)
(***************************************************************************)

OuterEnded == outer \in {"ended", "killed"}
Pid1Runs == pid1 \in {"arm", "launch", "poll", "adopt", "read", "report"}

(* PID 1 inherits the standard output of the outer. *)
OutputClosed == OuterEnded /\ ~Pid1Runs

Alive(m) == member[m] = "running"

Init ==
  /\ caller = "pin" /\ setup = TRUE /\ noted = "no" /\ asked = "none" /\ outcome = "none"
  /\ gate = "shut" /\ ready = FALSE
  /\ outer = "boot" /\ term = FALSE /\ answer = "nothing" /\ said = "nothing"
  /\ status = "none" /\ heard = "nothing" /\ eof = FALSE
  /\ pid1 = "none" /\ exit = "none" /\ verdict = "nothing" /\ sent = "nothing"
  /\ known = "none"
  /\ member = [m \in Members |-> "none"] /\ pipe = "empty"
  /\ wrote = [m \in Members |-> 0] /\ taken = [m \in Members |-> 0]
  /\ faults = 0 /\ interrupts = 0
  /\ faulted = FALSE /\ cut = FALSE /\ astray = FALSE

(* A process ends by closing its files; only then the kernel destroys the *)
(* namespace, and only after that PID 1 can be collected.                 *)
Pid1Ends(how) == pid1' = "closing" /\ exit' = how

(* SIGKILL by number: whoever bears that number by then is hit. *)
KillPid1 ==
  /\ astray' = (astray \/ pid1 = "gone")
  /\ IF Pid1Runs THEN Pid1Ends("other") ELSE UNCHANGED <<pid1, exit>>

-------------------------------------------------------------------------------
(***************************************************************************)
(* The caller: setup and launch gate                                       *)
(***************************************************************************)

(* Whatever raises during the setup leads to a clean-up of the child. *)
Abandon ==
  /\ caller' = "term" /\ gate' = IF gate = "shut" THEN "closed" ELSE gate
  /\ UNCHANGED <<setup, noted, asked, outcome, others, history>>

Proceed(place) ==
  caller' = place /\ UNCHANGED <<setup, asked, outcome, others, counts, history>>

(* The child is pinned by a pidfd and its identity in procfs. *)
Pin ==
  /\ caller = "pin"
  /\ \/ Proceed("ready") /\ UNCHANGED <<noted, gate>>
     \/ Abandon /\ UNCHANGED counts

AwaitReady ==
  /\ caller = "ready"
  /\ \/ ready /\ Proceed("release") /\ UNCHANGED <<noted, gate>>
     \/ ~ready /\ Abandon /\ UNCHANGED counts

(* The attempt is noted before the gate is written, the success after. *)
TryRelease ==
  /\ caller = "release"
  /\ Proceed("write") /\ noted' = "tried" /\ UNCHANGED gate

Release ==
  /\ caller = "write"
  /\ \/ ~OuterEnded /\ Proceed("note") /\ gate' = "released" /\ UNCHANGED noted
     \/ OuterEnded /\ Abandon /\ UNCHANGED counts

NoteRelease ==
  /\ caller = "note"
  /\ Proceed("leave") /\ noted' = "yes" /\ UNCHANGED gate

LeaveSetup ==
  /\ caller = "leave" /\ caller' = "watch" /\ setup' = FALSE
  /\ UNCHANGED <<noted, asked, outcome, gate, others, counts, history>>

-------------------------------------------------------------------------------
(***************************************************************************)
(* The caller: waiting for the result, and ending the outer                *)
(***************************************************************************)

Over(how) == caller' = "over" /\ outcome' = how

(* The outer has ended and its output is complete. *)
Decode ==
  /\ caller = "watch" /\ OutputClosed
  /\ Over(IF outer = "killed" \/ said \in {"nothing", "part", "internal_error"} THEN "broken"
          ELSE IF said = "completed" THEN "completed"
          ELSE IF said = "cleanup_failed" THEN "unconfirmed" ELSE "error")
  /\ UNCHANGED <<setup, noted, asked, gate, others, counts, history>>

GiveUp ==
  /\ \/ ~OuterEnded /\ caller' = "term" /\ UNCHANGED outcome
     \/ OuterEnded /\ Over("unconfirmed")
  /\ UNCHANGED <<setup, noted, asked, gate, others, history>>

(* The call takes too long, or the outer's output cannot be captured. *)
Overdue == caller = "watch" /\ GiveUp /\ UNCHANGED counts

(* SIGTERM ends the outer while it has no handler for it. *)
AskToEnd ==
  /\ caller = "term" /\ caller' = "ack"
  /\ outer' = IF outer = "boot" THEN "killed" ELSE outer
  /\ term' = (term \/ (outer # "boot" /\ ~OuterEnded))
  /\ UNCHANGED <<setup, noted, asked, outcome, gate, ready, answer, said, status, heard, eof,
                 pid1Vars, memberVars, counts, history>>

AwaitEnd ==
  /\ caller = "ack"
  /\ \/ OuterEnded /\ caller' = "join" /\ asked' = "graceful"
     \/ ~OuterEnded /\ caller' = "kill" /\ UNCHANGED asked
  /\ UNCHANGED <<setup, noted, outcome, gate, others, counts, history>>

(* SIGKILL; a part of what the outer was about to write may be out. *)
KillOuter ==
  /\ outer' = IF OuterEnded THEN outer ELSE "killed"
  /\ said' \in {said} \cup IF outer = "say" THEN {"part"} ELSE {}
  /\ UNCHANGED <<ready, term, answer, status, heard, eof, pid1Vars, memberVars>>

ForceEnd ==
  /\ caller = "kill" /\ caller' = "join" /\ KillOuter
  /\ asked' \in {"forced", "failed"}
  /\ UNCHANGED <<setup, noted, outcome, gate, counts, history>>

(* Mutant: any end of the outer passes for a confirmed one. *)
AnyEndConfirms(joined) == joined /\ asked # "failed"

(* What confirms that nothing is left, by how far the setup had come. *)
Confirmed(joined) ==
  /\ joined /\ asked # "failed"
  /\ \/ noted = "no"
     \/ asked = "graceful" /\ said = "terminated"
     \/ /\ setup /\ asked = "graceful"
        /\ said = IF noted = "yes" THEN "namespace_unavailable" ELSE "internal_error"

(* The threads that read the outer's output are joined, for a while. *)
Join ==
  /\ caller = "join"
  /\ \E joined \in {OutputClosed, FALSE} :
       Over(IF Confirmed(joined) THEN "failed" ELSE "unconfirmed")
  /\ UNCHANGED <<setup, noted, asked, gate, others, counts, history>>

(* A KeyboardInterrupt: the setup is abandoned, a clean-up of the setup has *)
(* failed, or a call is given up.  While the threads are joined, what was   *)
(* found out before is forgotten; a second one escapes the clean-up.        *)
Interrupt ==
  /\ interrupts < MaxInterrupts /\ interrupts' = interrupts + 1
  /\ UNCHANGED faults
  /\ \/ caller \in {"pin", "ready", "release", "write", "note", "leave"} /\ Abandon
     \/ /\ caller \in {"term", "ack", "kill", "join"} /\ setup /\ Over("unconfirmed")
        /\ UNCHANGED <<setup, noted, asked, gate, others, history>>
     \/ caller \in {"watch", "term", "ack", "kill"} /\ ~setup /\ interrupts = 0 /\ GiveUp
     \/ /\ ~setup /\ cut' = TRUE
        /\ \/ /\ caller = "join" /\ interrupts = 0
              /\ \E joined \in {OutputClosed, FALSE} :
                   Over(IF joined THEN "failed" ELSE "unconfirmed")
           \/ caller \in {"term", "ack", "kill", "join"} /\ interrupts > 0 /\ Over("failed")
        /\ UNCHANGED <<setup, noted, asked, gate, others, faulted, astray>>

-------------------------------------------------------------------------------
(***************************************************************************)
(* The outer supervisor                                                    *)
(***************************************************************************)

Say(what) == outer' = "say" /\ answer' = what

ArmTermination ==
  /\ outer = "boot" /\ outer' = "ready"
  /\ UNCHANGED <<callerVars, gate, ready, term, answer, said, status, heard, eof,
                 pid1Vars, memberVars, counts, history>>

SignalReady ==
  /\ outer = "ready" /\ outer' = "gate" /\ ready' = TRUE
  /\ UNCHANGED <<callerVars, gate, term, answer, said, status, heard, eof,
                 pid1Vars, memberVars, counts, history>>

(* Mutant: the end of the gate is read again and again. *)
AwaitGateForever ==
  /\ outer = "gate" /\ gate = "released" /\ outer' = "enter"
  /\ UNCHANGED <<callerVars, gate, ready, term, answer, said, status, heard, eof,
                 pid1Vars, memberVars, counts, history>>

(* Mutant: whatever ends the wait releases the gate. *)
AwaitAnyGate ==
  /\ outer = "gate" /\ gate # "shut" /\ outer' = "enter"
  /\ UNCHANGED <<callerVars, gate, ready, term, answer, said, status, heard, eof,
                 pid1Vars, memberVars, counts, history>>

(* The read of the gate is resumed after a signal. *)
AwaitGate ==
  /\ outer = "gate"
  /\ \/ gate = "released" /\ outer' = "enter" /\ UNCHANGED answer
     \/ gate = "closed" /\ Say("internal_error")
  /\ UNCHANGED <<callerVars, gate, ready, term, said, status, heard, eof,
                 pid1Vars, memberVars, counts, history>>

(* Namespaces and pipes are made and PID 1 is forked, or there is none. *)
EnterNamespace ==
  /\ outer = "enter"
  /\ \/ outer' = "top" /\ pid1' = "arm" /\ UNCHANGED answer
     \/ Say("namespace_unavailable") /\ UNCHANGED pid1
     \/ Say("internal_error") /\ UNCHANGED pid1
  /\ UNCHANGED <<callerVars, gate, ready, term, said, status, heard, eof,
                 exit, verdict, sent, known, memberVars, counts, history>>

(* What the outer answers once PID 1 is gone; it kills it first if need be. *)
EndPid1(wanted) ==
  /\ answer' = wanted
  /\ IF status = "none"
     THEN outer' = "reap" /\ KillPid1
     ELSE outer' = "say" /\ UNCHANGED <<pid1, exit, astray>>

(* Mutant: PID 1 is killed although it may be collected already. *)
TopAlwaysKills ==
  /\ outer = "top"
  /\ IF term THEN answer' = "terminated" /\ outer' = "reap" /\ KillPid1
             ELSE outer' = "look" /\ UNCHANGED <<answer, pid1, exit, astray>>
  /\ UNCHANGED <<callerVars, gate, ready, term, said, status, heard, eof,
                 verdict, sent, known, memberVars, counts, faulted, cut>>

Top ==
  /\ outer = "top"
  /\ IF term THEN EndPid1("terminated")
             ELSE outer' = "look" /\ UNCHANGED <<answer, pid1, exit, astray>>
  /\ UNCHANGED <<callerVars, gate, ready, term, said, status, heard, eof,
                 verdict, sent, known, memberVars, counts, faulted, cut>>

(* PID 1 is collected if it can be. *)
Look ==
  /\ outer = "look" /\ outer' = "judge"
  /\ \/ status = "none" /\ pid1 = "zombie" /\ status' = exit /\ pid1' = "gone"
     \/ ~(status = "none" /\ pid1 = "zombie") /\ UNCHANGED <<status, pid1>>
  /\ UNCHANGED <<callerVars, gate, ready, term, answer, said, heard, eof,
                 exit, verdict, sent, known, memberVars, counts, history>>

(* With its status and the end of its pipe the result is known, unless it is *)
(* not whole or PID 1 did not exit well.                                     *)
Judge ==
  /\ outer = "judge"
  /\ IF status # "none" /\ eof
     THEN Say(IF status = "zero" /\ heard \in Results THEN heard ELSE "internal_error")
     ELSE outer' = "select" /\ UNCHANGED answer
  /\ UNCHANGED <<callerVars, gate, ready, term, said, status, heard, eof,
                 pid1Vars, memberVars, counts, history>>

OuterOverdue ==
  /\ outer = "judge" /\ ~(status # "none" /\ eof)
  /\ EndPid1("internal_error")
  /\ UNCHANGED <<callerVars, gate, ready, term, said, status, heard, eof,
                 verdict, sent, known, memberVars, counts, faulted, cut>>

(* All there is in the result pipe is read. *)
Select ==
  /\ outer = "select" /\ outer' = "top"
  /\ heard' = sent /\ eof' = ~Pid1Runs
  /\ UNCHANGED <<callerVars, gate, ready, term, answer, said, status,
                 pid1Vars, memberVars, counts, history>>

(* The killed PID 1 is collected, or it takes too long. *)
Reap ==
  /\ outer = "reap"
  /\ \/ pid1 = "zombie" /\ pid1' = "gone" /\ outer' = "say" /\ UNCHANGED answer
     \/ pid1 = "gone" /\ outer' = "say" /\ UNCHANGED <<answer, pid1>>
     \/ pid1 \notin {"zombie", "gone"} /\ Say("cleanup_failed") /\ UNCHANGED pid1
  /\ UNCHANGED <<callerVars, gate, ready, term, said, status, heard, eof,
                 exit, verdict, sent, known, memberVars, counts, history>>

Write ==
  /\ outer = "say" /\ outer' = "ended" /\ said' = answer
  /\ UNCHANGED <<callerVars, gate, ready, term, answer, status, heard, eof,
                 pid1Vars, memberVars, counts, history>>

-------------------------------------------------------------------------------
(***************************************************************************)
(* PID 1 and the members of its namespace                                  *)
(***************************************************************************)

Conclude(what) == pid1' = "report" /\ verdict' = what

(* The kernel is told to kill PID 1 with the outer; it may be too late. *)
Arm ==
  /\ pid1 = "arm"
  /\ \/ OuterEnded /\ Pid1Ends("other") /\ UNCHANGED verdict
     \/ ~OuterEnded /\ pid1' = "launch" /\ UNCHANGED <<exit, verdict>>
     \/ Conclude("internal_error") /\ UNCHANGED exit
  /\ UNCHANGED <<callerVars, gate, ready, outerVars, sent, known,
                 memberVars, counts, history>>

LaunchTarget ==
  /\ pid1 = "launch"
  /\ \/ /\ member' = [member EXCEPT !["target"] = "running"]
        /\ pid1' = "poll" /\ UNCHANGED verdict
     \/ Conclude("launch_failed") /\ UNCHANGED member
  /\ UNCHANGED <<callerVars, gate, ready, outerVars, exit, sent, known,
                 pipe, wrote, taken, counts, history>>

(* Mutant: with the return code the result is complete. *)
PollCompletes ==
  /\ pid1 = "poll" /\ known = "none"
  /\ \/ /\ member["target"] = "ended" /\ Conclude("completed") /\ known' = "own"
        /\ member' = [member EXCEPT !["target"] = "reaped"]
     \/ /\ member["target"] = "running" /\ pid1' = "adopt"
        /\ UNCHANGED <<known, member, verdict>>
  /\ UNCHANGED <<callerVars, gate, ready, outerVars, exit, sent,
                 pipe, wrote, taken, counts, history>>

(* A target that somebody else has collected passes for one that returned 0. *)
Poll ==
  /\ pid1 = "poll" /\ known = "none"
  /\ \/ /\ member["target"] = "ended" /\ pid1' = "read" /\ known' = "own"
        /\ member' = [member EXCEPT !["target"] = "reaped"]
     \/ member["target"] = "reaped" /\ pid1' = "read" /\ known' = "assumed" /\ UNCHANGED member
     \/ member["target"] = "running" /\ pid1' = "adopt" /\ UNCHANGED <<known, member>>
  /\ UNCHANGED <<callerVars, gate, ready, outerVars, exit, verdict, sent,
                 pipe, wrote, taken, counts, history>>

(* Orphans are collected, up to the target: its status is not theirs to take. *)
Adopt ==
  /\ pid1 = "adopt"
  /\ \/ /\ member["stray"] = "ended" /\ UNCHANGED <<pid1, verdict>>
        /\ member' = [member EXCEPT !["stray"] = "reaped"]
     \/ /\ member["stray"] # "ended" \/ member["target"] = "ended"
        /\ pid1' = "read" /\ UNCHANGED <<member, verdict>>
     \/ Conclude("internal_error") /\ UNCHANGED member
  /\ UNCHANGED <<callerVars, gate, ready, outerVars, exit, sent, known,
                 pipe, wrote, taken, counts, history>>

(* The target has run for too long, although it may just have ended. *)
Overrun ==
  /\ pid1 = "adopt"
  /\ member["stray"] # "ended" \/ member["target"] = "ended"
  /\ Conclude("timeout")
  /\ UNCHANGED <<callerVars, gate, ready, outerVars, exit, sent, known,
                 memberVars, counts, history>>

Captured == taken["target"] + taken["stray"]

(* Mutant: whatever is there is taken. *)
ReadAll ==
  /\ pid1 = "read" /\ pid1' = "poll" /\ pipe' = "empty"
  /\ taken' = [m \in Members |-> IF m = pipe THEN taken[m] + 1 ELSE taken[m]]
  /\ UNCHANGED <<callerVars, gate, ready, outerVars, exit, verdict, sent, known,
                 member, wrote, counts, history>>

(* What the pipe holds is taken, unless the outer is gone. *)
Read ==
  /\ pid1 = "read"
  /\ IF OuterEnded
     THEN Pid1Ends("other") /\ UNCHANGED <<verdict, pipe, taken>>
     ELSE /\ UNCHANGED exit
          /\ \/ /\ pipe # "empty" /\ pipe' = "empty"
                /\ taken' = [taken EXCEPT ![pipe] = @ + 1]
                /\ \/ Captured < CaptureLimit /\ pid1' = "poll" /\ UNCHANGED verdict
                   \/ Captured >= CaptureLimit /\ Conclude("capture_limit")
             \/ /\ pipe = "empty" /\ pid1' = "poll"
                /\ UNCHANGED <<verdict, pipe, taken>>
             \/ Conclude("capture_failed") /\ UNCHANGED <<pipe, taken>>
  /\ UNCHANGED <<callerVars, gate, ready, outerVars, sent, known,
                 member, wrote, counts, history>>

(* With the return code, the pipe is read for a while longer, ended or not. *)
Drain ==
  /\ pid1 = "poll" /\ known # "none"
  /\ pid1' = "read" /\ UNCHANGED verdict
  /\ UNCHANGED <<callerVars, gate, ready, outerVars, exit, sent, known,
                 memberVars, counts, history>>

Drained ==
  /\ pid1 = "poll" /\ known # "none"
  /\ Conclude("completed")
  /\ UNCHANGED <<callerVars, gate, ready, outerVars, exit, sent, known,
                 memberVars, counts, history>>

(* The result is more than one write. *)
Report ==
  /\ pid1 = "report"
  /\ \/ sent = "nothing" /\ sent' = "part" /\ UNCHANGED <<pid1, exit>>
     \/ sent = "part" /\ sent' = verdict /\ UNCHANGED <<pid1, exit>>
     \/ sent \in Results /\ Pid1Ends("zero") /\ UNCHANGED sent
  /\ UNCHANGED <<callerVars, gate, ready, outerVars, verdict, known,
                 memberVars, counts, history>>

(* The kernel: PID 1 dies with the outer, and the namespace with PID 1. *)
DeathSignal ==
  /\ OuterEnded /\ Pid1Runs /\ pid1 # "arm"
  /\ Pid1Ends("other")
  /\ UNCHANGED <<callerVars, gate, ready, outerVars, verdict, sent, known,
                 memberVars, counts, history>>

DestroyNamespace ==
  /\ pid1 = "closing" /\ pid1' = "zombie"
  /\ member' = [m \in Members |-> IF Alive(m) THEN "killed" ELSE member[m]]
  /\ UNCHANGED <<callerVars, gate, ready, outerVars, exit, verdict, sent, known,
                 pipe, wrote, taken, counts, history>>

MemberExits(m) ==
  /\ Alive(m) /\ member' = [member EXCEPT ![m] = "ended"]
  /\ UNCHANGED <<callerVars, gate, ready, outerVars, pid1Vars, pipe, wrote, taken,
                 counts, history>>

MemberWrites(m) ==
  /\ Alive(m) /\ pipe = "empty" /\ Pid1Runs
  /\ wrote[m] < MaxChunks /\ wrote' = [wrote EXCEPT ![m] = @ + 1]
  /\ pipe' = m
  /\ UNCHANGED <<callerVars, gate, ready, outerVars, pid1Vars, member, taken, counts, history>>

TargetForks ==
  /\ Alive("target") /\ member["stray"] = "none"
  /\ member' = [member EXCEPT !["stray"] = "running"]
  /\ UNCHANGED <<callerVars, gate, ready, outerVars, pid1Vars, pipe, wrote, taken,
                 counts, history>>

-------------------------------------------------------------------------------
(***************************************************************************)
(* Faults                                                                  *)
(***************************************************************************)

Fault == faults < MaxFaults /\ faults' = faults + 1 /\ UNCHANGED interrupts

CallerDies ==
  /\ Fault /\ caller # "over" /\ caller # "dead" /\ caller' = "dead"
  /\ gate' = IF gate = "shut" THEN "closed" ELSE gate
  /\ UNCHANGED <<setup, noted, asked, outcome, others, history>>

OuterDies ==
  /\ Fault /\ ~OuterEnded /\ KillOuter /\ faulted' = TRUE
  /\ UNCHANGED <<callerVars, gate, cut, astray>>

(* Somebody else asks the outer to end. *)
OuterAsked ==
  /\ Fault /\ ~OuterEnded /\ outer # "boot" /\ term' = TRUE
  /\ UNCHANGED <<callerVars, gate, ready, outer, answer, said, status, heard, eof,
                 pid1Vars, memberVars, history>>

(* An OSError ends the collection, and PID 1 is left to the outer's death. *)
CollectorFails ==
  /\ Fault /\ outer = "select" /\ Say("internal_error") /\ faulted' = TRUE
  /\ UNCHANGED <<callerVars, gate, ready, term, said, status, heard, eof,
                 pid1Vars, memberVars, cut, astray>>

-------------------------------------------------------------------------------
CallerStep ==
  \/ Pin \/ AwaitReady \/ TryRelease \/ Release \/ NoteRelease \/ LeaveSetup
  \/ Decode \/ Overdue \/ AskToEnd \/ AwaitEnd \/ ForceEnd \/ Join

OuterStep ==
  \/ ArmTermination \/ SignalReady \/ AwaitGate \/ EnterNamespace
  \/ Top \/ Look \/ Judge \/ OuterOverdue \/ Select \/ Reap \/ Write

Pid1Step ==
  \/ Arm \/ LaunchTarget \/ Poll \/ Adopt \/ Overrun \/ Read \/ Drain \/ Drained \/ Report

Kernel == DeathSignal \/ DestroyNamespace

MemberStep == TargetForks \/ \E m \in Members : MemberExits(m) \/ MemberWrites(m)

Next ==
  \/ CallerStep \/ Interrupt \/ OuterStep \/ Pid1Step \/ Kernel \/ MemberStep
  \/ CallerDies \/ OuterDies \/ OuterAsked \/ CollectorFails

Spec == Init /\ [][Next]_vars

(* A process that runs goes on, the kernel does what it was asked to, and a *)
(* deadline that is looked at again and again passes.                       *)
Fairness ==
  /\ WF_vars(CallerStep) /\ WF_vars(OuterStep) /\ WF_vars(Pid1Step) /\ WF_vars(Kernel)
  /\ SF_vars(OuterOverdue) /\ SF_vars(Overrun) /\ SF_vars(Drained)

FairSpec == Spec /\ Fairness

-------------------------------------------------------------------------------
(***************************************************************************)
(* Properties                                                              *)
(***************************************************************************)

(* Every variable has its type. *)
TypeOK ==
  /\ caller \in {"pin", "ready", "release", "write", "note", "leave", "watch", "term",
                 "ack", "kill", "join", "over", "dead"}
  /\ setup \in BOOLEAN /\ noted \in {"no", "tried", "yes"}
  /\ asked \in {"none", "graceful", "forced", "failed"}
  /\ outcome \in {"none", "completed", "error", "broken", "failed", "unconfirmed"}
  /\ gate \in {"shut", "released", "closed"} /\ ready \in BOOLEAN
  /\ outer \in {"boot", "ready", "gate", "enter", "top", "look", "judge", "select",
                "reap", "say", "ended", "killed"}
  /\ term \in BOOLEAN /\ answer \in Texts \ {"part"} /\ said \in Texts
  /\ status \in {"none", "zero", "other"} /\ heard \in Texts /\ eof \in BOOLEAN
  /\ pid1 \in {"none", "arm", "launch", "poll", "adopt", "read", "report", "closing",
               "zombie", "gone"}
  /\ exit \in {"none", "zero", "other"} /\ verdict \in Texts \ {"part"} /\ sent \in Texts
  /\ known \in {"none", "own", "assumed"}
  /\ member \in [Members -> {"none", "running", "ended", "reaped", "killed"}]
  /\ pipe \in Members \cup {"empty"}
  /\ wrote \in [Members -> Nat] /\ taken \in [Members -> Nat]
  /\ Captured <= CaptureLimit + 1
  /\ faults \in Nat /\ interrupts \in Nat
  /\ faulted \in BOOLEAN /\ cut \in BOOLEAN /\ astray \in BOOLEAN

NothingRuns ==
  /\ OuterEnded /\ pid1 \in {"none", "zombie", "gone"}
  /\ \A m \in Members : ~Alive(m)

(* When the call returns or raises anything but a failed containment, nothing *)
(* it started is left.  The exceptions are an outer that others killed or     *)
(* whose collection failed, and an interrupt while the threads are joined.    *)
Contained ==
  caller = "over" /\ outcome # "unconfirmed" /\ ~faulted /\ ~cut => NothingRuns

(* A call that returns has the return code of the target, and all that the *)
(* target printed.                                                         *)
TrueAnswer ==
  outcome = "completed" => known = "own" /\ taken["target"] = wrote["target"]

(* No signal goes to the number of a process that was collected before. *)
SignalsItsOwn == ~astray

(* The target starts only if the caller meant to release the gate: never for *)
(* a call that was abandoned before.                                         *)
StartsOnlyReleased == member["target"] # "none" => noted # "no" /\ gate = "released"

(* Whatever is killed, interrupted or late, in the end nothing is left. *)
EverythingEnds == <>[](caller \in {"over", "dead"} /\ NothingRuns)
===============================================================================
