----------------------------- MODULE TeacherCache -----------------------------
(***************************************************************************)
(* One entry of the disk cache of teacher/cache.py, and the processes that *)
(* generate through it.  CachedTeacher.generate reads the entry, asks the  *)
(* teacher on a miss and writes what it got; nothing locks the directory.  *)
(* A write goes to a temporary file that is renamed over the entry, a read *)
(* is a stat, an open, an fstat and a read with an fstat after it, and the *)
(* directory may change between any two of these calls.                    *)
(*                                                                         *)
(* Abstractions.  A file is the position of its creation in files; inode   *)
(* numbers are not reused.  Its stat token is that number while the file   *)
(* has its name, and changes (link count and ctime) when a rename takes    *)
(* the name away.  A response is what it decodes to; all responses for one *)
(* key come from one request.  The cache directory exists.                 *)
(***************************************************************************)
EXTENDS Naturals, Sequences, FiniteSets

CONSTANTS
  None,          \* no bytes: the entry does not exist
  Procs,         \* the processes that share the cache directory
  Responses,     \* responses the teacher may give to the request
  ReadAttempts,  \* _READ_RACE_ATTEMPTS
  MaxCalls,      \* bound: generate calls in a behaviour
  MaxFaults      \* bound: failing system calls, kills and power losses

(* What a file may hold besides a response of this teacher: the response of *)
(* another model, something that does not decode, and what a power loss     *)
(* leaves of a file that was not synced.                                    *)
Damaged == {"foreign", "undecodable", "torn"}

ASSUME CacheAssumption ==
  /\ ReadAttempts \in Nat \ {0}
  /\ MaxCalls \in Nat /\ MaxFaults \in Nat
  /\ Responses \cap Damaged = {}
  /\ None \notin Responses \cup Damaged

VARIABLES
  files,      \* every file ever created: its bytes, and whether it is synced
  entry,      \* the file under the entry's name, 0 when there is none
  durable,    \* the files a power loss may leave under the entry's name
  temps,      \* the files under temporary names
  run,        \* run[p]: the generate call process p is in
  result,     \* result[p]: how the last call of p ended
  began,      \* how many calls were started
  faults,     \* how many faults occurred
  held,       \* history: held[p]: the entry existed when the call of p began
  excused,    \* history: excused[p]: something happened that may fail the call
  published,  \* history: the bytes that ever stood under the entry's name
  litter      \* history: temporary files whose process was killed

fileVars == <<files, entry, durable, temps>>
runVars  == <<run, result>>
countVars == <<began, faults>>
historyVars == <<held, excused, published, litter>>
vars == <<fileVars, runVars, countVars, historyVars>>

Bytes(file) == IF file = 0 THEN None ELSE files[file].bytes

(* A call reads the entry for one of four reasons, and goes on there. *)
Reasons == {"looked", "prepared", "observed", "committed"}

Places ==
  Reasons \cup {"idle", "stat", "open", "fstat", "read", "fill", "check", "replace",
                "sync"}

(* What a process remembers of its call: the file it looked at and the one   *)
(* it opened, the file it replaces, what it writes and where.                *)
Call ==
  [at: Places, why: Reasons, tries: 0..ReadAttempts - 1,
   seen: 0..Len(files), got: 0..Len(files), previous: 0..Len(files),
   raw: Responses \cup {None}, temp: 0..Len(files)]

Result == [kind: {"none", "hit", "fresh", "failed"}, bytes: Responses \cup {None}]

Idle ==
  [at |-> "idle", why |-> "looked", tries |-> 0, seen |-> 0, got |-> 0,
   previous |-> 0, raw |-> None, temp |-> 0]

-------------------------------------------------------------------------------
(***************************************************************************)
(* How a call begins and ends                                              *)
(***************************************************************************)

Init ==
  /\ \E bytes \in Responses \cup Damaged \cup {None} :
       /\ files = IF bytes = None THEN << >> ELSE <<[bytes |-> bytes, synced |-> TRUE]>>
       /\ published = {bytes} \ {None}
  /\ entry = Len(files)
  /\ durable = {entry} /\ temps = {}
  /\ run = [p \in Procs |-> Idle]
  /\ result = [p \in Procs |-> [kind |-> "none", bytes |-> None]]
  /\ began = 0 /\ faults = 0
  /\ held = [p \in Procs |-> FALSE] /\ excused = [p \in Procs |-> FALSE]
  /\ litter = {}

Generate(p) ==
  /\ run[p].at = "idle"
  /\ began < MaxCalls /\ began' = began + 1
  /\ run' = [run EXCEPT ![p] = [Idle EXCEPT !.at = "stat"]]
  /\ result' = [result EXCEPT ![p] = [kind |-> "none", bytes |-> None]]
  /\ held' = [held EXCEPT ![p] = entry # 0]
  /\ excused' = [excused EXCEPT ![p] = FALSE]
  /\ UNCHANGED <<fileVars, faults, published, litter>>

(* The call is over; a temporary file it still names is removed. *)
Return(p, kind, bytes) ==
  /\ run' = [run EXCEPT ![p] = Idle]
  /\ result' = [result EXCEPT ![p] = [kind |-> kind, bytes |-> bytes]]
  /\ temps' = temps \ {run[p].temp}

Fail(p) == Return(p, "failed", None)

Move(p, place) == run' = [run EXCEPT ![p].at = place] /\ UNCHANGED <<result, temps>>

(* Start reading the entry; go on at reason when it is read. *)
ReadFor(p, reason) ==
  run' = [run EXCEPT ![p].at = "stat", ![p].why = reason, ![p].tries = 0]

-------------------------------------------------------------------------------
(***************************************************************************)
(* Reading an entry                                                        *)
(***************************************************************************)

(* Mutant: one attempt too many. *)
RetryOnceMore(p) ==
  IF run[p].tries = ReadAttempts THEN Fail(p)
  ELSE /\ run' = [run EXCEPT ![p].at = "stat", ![p].tries = @ + 1]
       /\ UNCHANGED <<result, temps>>

(* The entry is gone or is another file than the one looked at: read again, *)
(* a bounded number of times.                                               *)
Retry(p) ==
  IF run[p].tries + 1 = ReadAttempts THEN Fail(p)
  ELSE /\ run' = [run EXCEPT ![p].at = "stat", ![p].tries = @ + 1]
       /\ UNCHANGED <<result, temps>>

StatEntry(p) ==
  /\ run[p].at = "stat"
  /\ run' = [run EXCEPT ![p].seen = entry, ![p].got = 0,
                        ![p].at = IF entry = 0 THEN run[p].why ELSE "open"]
  /\ UNCHANGED <<fileVars, result, countVars, historyVars>>

OpenEntry(p) ==
  /\ run[p].at = "open"
  /\ IF entry = 0 THEN Retry(p)
     ELSE /\ run' = [run EXCEPT ![p].got = entry, ![p].at = "fstat"]
          /\ UNCHANGED <<result, temps>>
  /\ UNCHANGED <<files, entry, durable, countVars, historyVars>>

(* A file without a name fails the link count test before anything else. *)
CheckOpened(p) ==
  /\ run[p].at = "fstat"
  /\ IF run[p].got # entry THEN Fail(p)
     ELSE IF run[p].got # run[p].seen THEN Retry(p)
     ELSE Move(p, "read")
  /\ UNCHANGED <<files, entry, durable, countVars, historyVars>>

(* The bytes count only when the token is the same after reading them. *)
ReadOpened(p) ==
  /\ run[p].at = "read"
  /\ IF run[p].got # entry THEN Fail(p) ELSE Move(p, run[p].why)
  /\ UNCHANGED <<files, entry, durable, countVars, historyVars>>

-------------------------------------------------------------------------------
(***************************************************************************)
(* Looking up, and asking the teacher                                      *)
(***************************************************************************)

(* Mutant: an entry that cannot be used is treated as missing. *)
AskOverDamagedEntry(p) ==
  /\ run[p].at = "looked" /\ run[p].got # 0
  /\ IF Bytes(run[p].got) \in Damaged
     THEN run' = [run EXCEPT ![p].got = 0] /\ UNCHANGED <<result, temps>>
     ELSE Return(p, "hit", Bytes(run[p].got))
  /\ UNCHANGED <<files, entry, durable, countVars, historyVars>>

(* A damaged entry is an error, never a miss. *)
Found(p) ==
  /\ run[p].at = "looked" /\ run[p].got # 0
  /\ IF Bytes(run[p].got) \in Damaged
     THEN Fail(p) /\ excused' = [excused EXCEPT ![p] = TRUE]
     ELSE Return(p, "hit", Bytes(run[p].got)) /\ UNCHANGED excused
  /\ UNCHANGED <<files, entry, durable, countVars, held, published, litter>>

Missed(p) == run[p].at = "looked" /\ run[p].got = 0

(* The teacher answers, or the call fails or answers for another model. *)
CallTeacher(p) ==
  /\ Missed(p)
  /\ \/ \E response \in Responses :
          /\ run' = [run EXCEPT ![p] = [Idle EXCEPT !.at = "stat", !.why = "prepared",
                                                    !.raw = response]]
          /\ UNCHANGED <<result, temps, excused>>
     \/ Fail(p) /\ excused' = [excused EXCEPT ![p] = TRUE]
  /\ UNCHANGED <<files, entry, durable, countVars, held, published, litter>>

-------------------------------------------------------------------------------
(***************************************************************************)
(* Writing an entry                                                        *)
(***************************************************************************)

(* The previous entry has been read; the temporary file comes after it. *)
CreateTemporary(p) ==
  /\ run[p].at = "prepared"
  /\ files' = Append(files, [bytes |-> "torn", synced |-> FALSE])
  /\ temps' = temps \cup {Len(files) + 1}
  /\ run' = [run EXCEPT ![p].previous = run[p].got, ![p].temp = Len(files) + 1,
                        ![p].at = "fill"]
  /\ UNCHANGED <<entry, durable, result, countVars, historyVars>>

(* Mutant: the bytes are flushed but not synced. *)
FillUnsynced(p) ==
  /\ run[p].at = "fill"
  /\ files' = [files EXCEPT ![run[p].temp] = [bytes |-> run[p].raw, synced |-> FALSE]]
  /\ run' = [run EXCEPT ![p].at = "check"]
  /\ UNCHANGED <<entry, durable, temps, result, countVars, historyVars>>

(* Write, flush, fsync, and read the temporary file back. *)
FillTemporary(p) ==
  /\ run[p].at = "fill"
  /\ files' = [files EXCEPT ![run[p].temp] = [bytes |-> run[p].raw, synced |-> TRUE]]
  /\ run' = [run EXCEPT ![p].at = "check"]
  /\ UNCHANGED <<entry, durable, temps, result, countVars, historyVars>>

CheckDestination(p) ==
  /\ run[p].at = "check"
  /\ IF entry # run[p].previous THEN Fail(p) ELSE Move(p, "replace")
  /\ UNCHANGED <<files, entry, durable, countVars, historyVars>>

(* The temporary file takes the entry's name; whoever else is in a call may *)
(* find the entry changed under it.                                         *)
Rename(p) ==
  /\ entry' = run[p].temp
  /\ durable' = durable \cup {run[p].temp}
  /\ temps' = temps \ {run[p].temp}
  /\ published' = published \cup {Bytes(run[p].temp)}
  /\ excused' = [q \in Procs |-> IF q = p THEN excused[p] ELSE TRUE]

Replace(p) ==
  /\ run[p].at = "replace"
  /\ Rename(p)
  /\ run' = [run EXCEPT ![p].at = "stat", ![p].why = "committed", ![p].tries = 0,
                        ![p].temp = 0]
  /\ UNCHANGED <<files, result, countVars, held, litter>>

(* os.replace raises, before or after it took effect. *)
ReplaceFails(p) ==
  /\ run[p].at = "replace"
  /\ faults < MaxFaults /\ faults' = faults + 1
  /\ \/ Rename(p)
     \/ /\ excused' = [excused EXCEPT ![p] = TRUE]
        /\ UNCHANGED <<entry, durable, temps, published>>
  /\ ReadFor(p, "observed")
  /\ UNCHANGED <<files, result, began, held, litter>>

(* Mutant: every error of the rename is taken at its word. *)
ObservedError(p) ==
  /\ run[p].at = "observed"
  /\ Fail(p)
  /\ UNCHANGED <<files, entry, durable, countVars, historyVars>>

(* Mutant: the error is swallowed. *)
ObservedIgnored(p) ==
  /\ run[p].at = "observed"
  /\ Move(p, "sync")
  /\ UNCHANGED <<files, entry, durable, countVars, historyVars>>

(* Mutant: the temporary name is forgotten, not removed. *)
ObservedForgets(p) ==
  /\ run[p].at = "observed"
  /\ IF Bytes(run[p].got) = run[p].raw
     THEN /\ run' = [run EXCEPT ![p].at = "stat", ![p].why = "committed",
                                ![p].tries = 0, ![p].temp = 0]
          /\ UNCHANGED <<result, temps>>
     ELSE Fail(p)
  /\ UNCHANGED <<files, entry, durable, countVars, historyVars>>

(* After such an error the entry decides: it holds the bytes, or the write  *)
(* failed (as the old entry shows) or its outcome is ambiguous.             *)
Observed(p) ==
  /\ run[p].at = "observed"
  /\ IF Bytes(run[p].got) = run[p].raw
     THEN /\ temps' = temps \ {run[p].temp}
          /\ run' = [run EXCEPT ![p].at = "stat", ![p].why = "committed",
                                ![p].tries = 0, ![p].temp = 0]
          /\ UNCHANGED result
     ELSE Fail(p)
  /\ UNCHANGED <<files, entry, durable, countVars, historyVars>>

(* The write is verified by one more read of the entry. *)
Committed(p) ==
  /\ run[p].at = "committed"
  /\ IF Bytes(run[p].got) = run[p].raw THEN Move(p, "sync") ELSE Fail(p)
  /\ UNCHANGED <<files, entry, durable, countVars, historyVars>>

(* An error of the directory's fsync is ignored. *)
SyncDirectory(p) ==
  /\ run[p].at = "sync"
  /\ durable' \in {durable, {entry}}
  /\ Return(p, "fresh", run[p].raw)
  /\ UNCHANGED <<files, entry, countVars, historyVars>>

-------------------------------------------------------------------------------
(***************************************************************************)
(* Faults                                                                  *)
(***************************************************************************)

(* A system call of the write fails: no space, an I/O error. *)
WriteError(p) ==
  /\ run[p].at \in {"prepared", "fill"}
  /\ faults < MaxFaults /\ faults' = faults + 1
  /\ Fail(p)
  /\ excused' = [excused EXCEPT ![p] = TRUE]
  /\ UNCHANGED <<files, entry, durable, began, held, published, litter>>

Kill(p) ==
  /\ run[p].at # "idle"
  /\ faults < MaxFaults /\ faults' = faults + 1
  /\ run' = [run EXCEPT ![p] = Idle]
  /\ litter' = litter \cup ({run[p].temp} \cap temps)
  /\ UNCHANGED <<fileVars, result, began, held, excused, published>>

(* Every process is gone.  The entry's name is bound to one of the files it *)
(* may be bound to, and of a file that was not synced nothing is certain.   *)
PowerLoss ==
  /\ faults < MaxFaults /\ faults' = faults + 1
  /\ entry' \in durable /\ durable' = {entry'}
  /\ files' = [i \in DOMAIN files |-> IF files[i].synced THEN files[i]
                                      ELSE [bytes |-> "torn", synced |-> TRUE]]
  /\ run' = [p \in Procs |-> Idle]
  /\ litter' = temps
  /\ UNCHANGED <<temps, result, began, held, excused, published>>

-------------------------------------------------------------------------------
Step(p) ==
  \/ Generate(p)
  \/ StatEntry(p) \/ OpenEntry(p) \/ CheckOpened(p) \/ ReadOpened(p)
  \/ Found(p) \/ CallTeacher(p)
  \/ CreateTemporary(p) \/ FillTemporary(p) \/ CheckDestination(p)
  \/ Replace(p) \/ ReplaceFails(p) \/ Observed(p) \/ Committed(p) \/ SyncDirectory(p)

Next == PowerLoss \/ \E p \in Procs : Step(p) \/ WriteError(p) \/ Kill(p)

Spec == Init /\ [][Next]_vars

-------------------------------------------------------------------------------
(***************************************************************************)
(* Properties                                                              *)
(***************************************************************************)

(* Every variable has its type. *)
TypeOK ==
  /\ files \in Seq([bytes: Responses \cup Damaged, synced: BOOLEAN])
  /\ entry \in 0..Len(files)
  /\ durable \subseteq 0..Len(files)
  /\ temps \subseteq 1..Len(files) /\ litter \subseteq temps
  /\ run \in [Procs -> Call] /\ result \in [Procs -> Result]
  /\ began \in Nat /\ faults \in Nat
  /\ held \in [Procs -> BOOLEAN] /\ excused \in [Procs -> BOOLEAN]
  /\ published \subseteq Responses \cup Damaged

(* An entry is never seen in part: whatever is killed, and whatever a power  *)
(* loss leaves, the entry is missing or holds what some rename put there.    *)
EntryWhole == entry # 0 => Bytes(entry) \in published

(* The teacher is asked only when there was nothing to find: a call that     *)
(* began while an entry existed, sound or damaged, never reaches the teacher *)
(* and never writes, however often the entry is replaced meanwhile.          *)
NeverAsksOverEntry ==
  \A p \in Procs : held[p] => ~Missed(p) /\ run[p].raw = None /\ run[p].temp = 0

(* What a call returns, hit or fresh, has stood under the entry's name: a    *)
(* write whose bytes never got there is an error.                            *)
ReturnedWasEntry ==
  \A p \in Procs : result[p].kind \in {"hit", "fresh"} => result[p].bytes \in published

(* A call fails only for a reason: a damaged entry, the teacher, a system    *)
(* call that did not take effect, or another process that replaced the entry *)
(* while the call was under way.  An error after the rename is no reason.    *)
FailureExplained ==
  \A p \in Procs : result[p].kind = "failed" => excused[p]

(* Only a killed process leaves a temporary file behind. *)
NoResidue == temps \subseteq litter \cup {run[p].temp : p \in Procs}
===============================================================================
