-------------------------- MODULE TeacherCacheProofs --------------------------
(***************************************************************************)
(* Every safety property of TeacherCache, for any number of processes,     *)
(* responses, calls and faults.                                            *)
(***************************************************************************)
EXTENDS TeacherCache, TLAPS, SequenceTheorems

-------------------------------------------------------------------------------
(***************************************************************************)
(* The inductive invariant                                                 *)
(***************************************************************************)

Writing == {"fill", "check", "replace"}

(* A call stands where its reason says, and owns a temporary file only from  *)
(* its creation to its rename or removal.                                    *)
InPhase(r) ==
  /\ r.at \in Reasons => r.at = r.why
  /\ r.at = "idle" => r = Idle
  /\ r.at \in Writing => r.temp # 0 /\ r.why = "prepared"
  /\ r.at = "sync" => r.why = "committed"
  /\ r.temp # 0 => r.at \in Writing \/ r.why = "observed"
  /\ IF r.why = "looked" THEN r.raw = None ELSE r.raw \in Responses

Phases == \A p \in Procs : InPhase(run[p])

(* A temporary file has one owner.  While it is being written nobody has     *)
(* opened it, and it cannot become the entry by a power loss.                *)
Owned ==
  \A p \in Procs : run[p].temp # 0 =>
    /\ run[p].temp \notin litter
    /\ \A q \in Procs \ {p} : run[q].temp # run[p].temp

Hidden ==
  \A p \in Procs : run[p].at \in Writing =>
    /\ run[p].temp \in temps \ durable
    /\ \A q \in Procs : run[p].temp \notin {run[q].got, run[q].previous}

Filled ==
  \A p \in Procs : run[p].at \in {"check", "replace"} =>
    files[run[p].temp] = [bytes |-> run[p].raw, synced |-> TRUE]

(* What may stand under the entry's name was put there whole and synced.     *)
Whole ==
  /\ entry \in durable
  /\ \A i \in durable \ {0} : files[i].synced /\ files[i].bytes \in published

(* What a call has opened was the entry.                                     *)
OpenedEntry(r) ==
  /\ r.got # 0 => files[r.got].bytes \in published
  /\ r.at \in {"fstat", "read"} => r.got # 0
  /\ r.at = "sync" => r.raw \in published

Opened == \A p \in Procs : OpenedEntry(run[p])

(* A call that began over an entry only reads, and finds one.                *)
OverEntry(r) ==
  r.at # "idle" => entry # 0 /\ r.why = "looked" /\ (r.at = "looked" => r.got # 0)

Holding == \A p \in Procs : held[p] => OverEntry(run[p])

(* A call that nothing has disturbed sees the entry as it is.                *)
SeesEntry(r) ==
  /\ r.at \in {"open", "fstat", "read"} => r.seen = entry /\ entry # 0
  /\ r.at \in {"fstat", "read"} \cup Reasons => r.got = entry
  /\ r.at \in Writing => r.previous = entry
  /\ r.at # "idle" /\ r.why \in {"observed", "committed"} => Bytes(entry) = r.raw

Undisturbed == \A p \in Procs : excused[p] \/ SeesEntry(run[p])

Shape == TypeOK /\ Phases /\ Owned /\ Hidden /\ Filled
Meaning == Whole /\ Opened /\ Holding /\ Undisturbed
Promises == ReturnedWasEntry /\ FailureExplained /\ NoResidue

IInv == Shape /\ Meaning /\ Promises

-------------------------------------------------------------------------------
(***************************************************************************)
(* How a call moves and ends                                               *)
(***************************************************************************)

(* A call that moves on by itself keeps the invariant when its new state     *)
(* does: it may have opened the entry, and it keeps or removes the temporary *)
(* file it had.                                                              *)
LEMMA Moved ==
  ASSUME IInv, NEW p \in Procs, NEW r \in Call,
         run' = [run EXCEPT ![p] = r],
         UNCHANGED <<files, entry, durable, result, began, held, published, litter>>,
         InPhase(r), OpenedEntry(r), held[p] => OverEntry(r), excused'[p] \/ SeesEntry(r),
         excused' \in [Procs -> BOOLEAN], \A q \in Procs : excused[q] => excused'[q],
         faults' \in Nat,
         r.got \in {0, entry, run[p].got}, r.previous \in {0, run[p].previous, run[p].got},
         \/ r.temp = run[p].temp /\ temps' = temps
         \/ r.temp = 0 /\ temps' = temps \ {run[p].temp},
         r.at \in Writing => run[p].at \in Writing /\ r.temp = run[p].temp,
         r.at \in {"check", "replace"} =>
           run[p].at \in {"check", "replace"} /\ r.raw = run[p].raw
  PROVE  IInv'
<1> USE DEF IInv, Shape, Meaning, Promises
<1>1. run[p] \in Call /\ run'[p] = r /\ \A q \in Procs \ {p} : run'[q] = run[q]
  BY DEF TypeOK
<1>2. TypeOK'
  <2>1. run' \in [Procs -> Call'] /\ result' \in [Procs -> Result']
    BY DEF TypeOK, Call, Result
  <2>2. litter' \subseteq temps'
    BY DEF TypeOK, Owned
  <2>3. temps' \subseteq 1..Len(files')
    BY DEF TypeOK
  <2> QED
    BY <2>1, <2>2, <2>3 DEF TypeOK
<1>3. Phases'
  BY <1>1 DEF Phases, InPhase, Idle
<1>4. Owned'
  BY <1>1 DEF Owned
<1>5. Hidden'
  <2>1. 0 \notin temps /\ entry \in durable
    BY DEF TypeOK, Whole
  <2>2. SUFFICES ASSUME NEW o \in Procs, run'[o].at \in Writing
                 PROVE  /\ run'[o].temp \in temps' \ durable'
                        /\ \A q \in Procs : run'[o].temp \notin {run'[q].got, run'[q].previous}
    BY DEF Hidden
  <2>3. run[o].at \in Writing /\ run'[o].temp = run[o].temp
    BY <1>1, <2>2
  <2>4. run[o].temp \in temps \ durable /\ run[o].temp # 0
    BY <2>1, <2>3 DEF Hidden
  <2>5. run[o].temp \in temps'
    <3>1. CASE o = p
      BY <1>1, <2>2, <2>4, <3>1
    <3>2. CASE o # p
      BY <2>4, <3>2 DEF Owned
    <3> QED
      BY <3>1, <3>2
  <2>6. \A q \in Procs : run[o].temp \notin {run[q].got, run[q].previous}
    BY <2>3 DEF Hidden
  <2> QED
    BY <1>1, <2>1, <2>3, <2>4, <2>5, <2>6
<1>6. Filled'
  BY <1>1 DEF Filled, Writing
<1>7. Whole'
  BY DEF Whole
<1>8. Opened'
  BY <1>1 DEF Opened, OpenedEntry
<1>9. Holding'
  BY <1>1 DEF Holding, OverEntry
<1>10. Undisturbed'
  BY <1>1 DEF Undisturbed, SeesEntry, Bytes
<1>11. ReturnedWasEntry' /\ FailureExplained'
  BY DEF ReturnedWasEntry, FailureExplained
<1>12. NoResidue'
  BY <1>1 DEF NoResidue
<1> QED
  BY <1>2, <1>3, <1>4, <1>5, <1>6, <1>7, <1>8, <1>9, <1>10, <1>11, <1>12

(* A call that ends removes the temporary file it still owns, and answers    *)
(* for what it returns.                                                      *)
LEMMA Ended ==
  ASSUME IInv, NEW p \in Procs, NEW kind, NEW bytes,
         [kind |-> kind, bytes |-> bytes] \in Result,
         Return(p, kind, bytes),
         kind \in {"hit", "fresh"} => bytes \in published,
         kind = "failed" => excused'[p],
         excused' \in [Procs -> BOOLEAN], \A q \in Procs : excused[q] => excused'[q],
         durable' \subseteq durable, entry \in durable',
         faults' \in Nat,
         UNCHANGED <<files, entry, began, held, published, litter>>
  PROVE  IInv'
<1> USE DEF IInv, Shape, Meaning, Promises, Return
<1>1. run'[p] = Idle /\ \A q \in Procs \ {p} : run'[q] = run[q]
  BY DEF TypeOK
<1>2. /\ Idle.at = "idle" /\ Idle.why = "looked" /\ Idle.temp = 0 /\ Idle.got = 0
      /\ Idle.previous = 0 /\ Idle.raw = None
  BY DEF Idle
<1>3. Len(files) \in Nat /\ Idle \in Call
  BY CacheAssumption DEF TypeOK, Idle, Call, Places, Reasons
<1>4. TypeOK'
  <2>1. run' \in [Procs -> Call'] /\ result' \in [Procs -> Result']
    BY <1>3 DEF TypeOK, Call, Result
  <2>2. litter' \subseteq temps'
    BY DEF TypeOK, Owned
  <2> QED
    BY <2>1, <2>2 DEF TypeOK
<1>5. Phases'
  BY <1>1, <1>2 DEF Phases, InPhase, Writing, Reasons, Idle
<1>6. Owned'
  BY <1>1, <1>2 DEF Owned
<1>7. Hidden'
  <2>1. SUFFICES ASSUME NEW o \in Procs, run'[o].at \in Writing
                 PROVE  /\ run'[o].temp \in temps' \ durable'
                        /\ \A q \in Procs : run'[o].temp \notin {run'[q].got, run'[q].previous}
    BY DEF Hidden
  <2>2. o # p /\ run'[o] = run[o]
    BY <1>1, <1>2, <2>1 DEF Writing
  <2>3. run[o].temp # 0 /\ run[o].temp # run[p].temp
    BY <2>1, <2>2 DEF Phases, InPhase, Owned
  <2>4. run[o].temp \in temps \ durable
    BY <2>1, <2>2 DEF Hidden
  <2>5. \A q \in Procs : run[o].temp \notin {run'[q].got, run'[q].previous}
    BY <1>1, <1>2, <2>1, <2>2, <2>3 DEF Hidden
  <2> QED
    BY <2>2, <2>3, <2>4, <2>5
<1>8. Filled'
  BY <1>1, <1>2 DEF Filled
<1>9. Whole'
  BY DEF Whole
<1>10. Opened'
  BY <1>1, <1>2 DEF Opened, OpenedEntry
<1>11. Holding'
  BY <1>1, <1>2 DEF Holding, OverEntry
<1>12. Undisturbed'
  BY <1>1, <1>2 DEF Undisturbed, SeesEntry, Bytes, Writing, Reasons
<1>13. ReturnedWasEntry' /\ FailureExplained'
  BY DEF ReturnedWasEntry, FailureExplained, TypeOK
<1>14. NoResidue'
  BY <1>1 DEF NoResidue
<1> QED
  BY <1>4, <1>5, <1>6, <1>7, <1>8, <1>9, <1>10, <1>11, <1>12, <1>13, <1>14

(* A call begins with nothing of its own, and notes whether it could find    *)
(* the entry.                                                                *)
LEMMA Started ==
  ASSUME IInv, NEW p \in Procs, Generate(p)
  PROVE  IInv'
<1> USE DEF IInv, Shape, Meaning, Promises, Generate, fileVars
<1> DEFINE r == [Idle EXCEPT !.at = "stat"]
<1>1. /\ run'[p] = r /\ \A q \in Procs \ {p} : run'[q] = run[q]
      /\ held'[p] = (entry # 0) /\ \A q \in Procs \ {p} : held'[q] = held[q]
      /\ excused'[p] = FALSE /\ \A q \in Procs \ {p} : excused'[q] = excused[q]
      /\ result'[p].kind = "none" /\ \A q \in Procs \ {p} : result'[q] = result[q]
  BY DEF TypeOK
<1>2. /\ r.at = "stat" /\ r.why = "looked" /\ r.temp = 0 /\ r.got = 0
      /\ r.previous = 0 /\ r.raw = None /\ run[p].temp = 0
  BY DEF Idle, Phases, InPhase
<1>3. r \in Call /\ Len(files) \in Nat
  <2>1. Idle \in Call /\ Len(files) \in Nat
    BY CacheAssumption DEF TypeOK, Idle, Call, Places, Reasons
  <2> QED
    BY <2>1 DEF Call, Places
<1>4. TypeOK'
  <2>1. run' \in [Procs -> Call'] /\ result' \in [Procs -> Result']
    <3>1. [kind |-> "none", bytes |-> None] \in Result
      BY DEF Result
    <3>2. Call' = Call /\ Result' = Result
      BY DEF Call, Result
    <3>3. /\ run' = [run EXCEPT ![p] = r]
          /\ result' = [result EXCEPT ![p] = [kind |-> "none", bytes |-> None]]
      BY DEF Generate
    <3> HIDE DEF r, Generate
    <3> QED
      BY <1>3, <3>1, <3>2, <3>3 DEF TypeOK
  <2>2. held' \in [Procs -> BOOLEAN] /\ excused' \in [Procs -> BOOLEAN] /\ began' \in Nat
    BY DEF TypeOK
  <2> QED
    BY <2>1, <2>2 DEF TypeOK
<1>5. Phases'
  BY <1>1, <1>2 DEF Phases, InPhase, Writing, Reasons
<1>6. Owned'
  BY <1>1, <1>2 DEF Owned
<1>7. 0 \notin temps
  BY DEF TypeOK
<1>8. Hidden'
  BY <1>1, <1>2, <1>7 DEF Hidden, Writing
<1>9. Filled'
  BY <1>1, <1>2 DEF Filled
<1>10. Whole'
  BY DEF Whole
<1>11. Opened'
  BY <1>1, <1>2 DEF Opened, OpenedEntry
<1>12. Holding'
  BY <1>1, <1>2 DEF Holding, OverEntry
<1>13. Undisturbed'
  BY <1>1, <1>2 DEF Undisturbed, SeesEntry, Bytes, Writing, Reasons
<1>14. ReturnedWasEntry' /\ FailureExplained'
  BY <1>1 DEF ReturnedWasEntry, FailureExplained
<1>15. NoResidue'
  BY <1>1, <1>2, <1>7 DEF NoResidue
<1> QED
  BY <1>4, <1>5, <1>6, <1>8, <1>9, <1>10, <1>11, <1>12, <1>13, <1>14, <1>15

-------------------------------------------------------------------------------
(***************************************************************************)
(* Reading                                                                 *)
(***************************************************************************)

(* What a step may use of its call. *)
LEMMA OfCall ==
  ASSUME IInv, NEW p \in Procs
  PROVE  /\ run[p] \in Call /\ InPhase(run[p]) /\ OpenedEntry(run[p])
         /\ held[p] => OverEntry(run[p])
         /\ excused[p] \/ SeesEntry(run[p])
         /\ Len(files) \in Nat /\ entry \in 0..Len(files) /\ entry \in durable
         /\ entry # 0 => files[entry].bytes \in published
         /\ None \notin Responses
         /\ faults \in Nat /\ excused \in [Procs -> BOOLEAN]
         /\ 0 \in 0..Len(files) /\ 0 \in 0..ReadAttempts - 1 /\ Idle \in Call
<1> USE CacheAssumption DEF IInv, Shape, Meaning
<1>1. Len(files) \in Nat /\ 0 \in 0..Len(files) /\ 0 \in 0..ReadAttempts - 1
  BY DEF TypeOK
<1>2. Idle \in Call
  BY <1>1 DEF Idle, Call, Places, Reasons
<1> QED
  BY <1>1, <1>2 DEF Phases, Opened, Holding, Undisturbed, TypeOK, Whole

(* StatEntry notes the entry as it is. *)
LEMMA Stat ==
  ASSUME IInv, NEW p \in Procs, StatEntry(p)
  PROVE  IInv'
<1> DEFINE r == [run[p] EXCEPT !.seen = entry, !.got = 0,
                               !.at = IF entry = 0 THEN run[p].why ELSE "open"]
<1>1. run' = [run EXCEPT ![p] = r]
  BY DEF StatEntry, IInv, Shape, TypeOK
<1>2. r \in Call /\ InPhase(r) /\ OpenedEntry(r)
  <2>1. r \in Call
    <3>1. (IF entry = 0 THEN run[p].why ELSE "open") \in Places
      BY OfCall DEF Call, Places
    <3>2. run[p] \in Call /\ entry \in 0..Len(files) /\ 0 \in 0..Len(files)
      BY OfCall
    <3> QED
      BY <3>1, <3>2 DEF Call
  <2>2. /\ r.at = (IF entry = 0 THEN run[p].why ELSE "open") /\ r.why = run[p].why
        /\ r.got = 0 /\ r.temp = run[p].temp /\ r.raw = run[p].raw
    BY OfCall DEF Call
  <2>3. r.at \notin Writing /\ r.at \notin {"idle", "sync", "fstat", "read"}
    BY <2>2, OfCall DEF Call, Reasons, Writing
  <2>4. run[p].temp # 0 => run[p].why = "observed"
    BY OfCall DEF StatEntry, InPhase, Writing
  <2> HIDE DEF r
  <2>5. InPhase(r)
    BY <2>2, <2>3, <2>4, OfCall DEF InPhase, Reasons
  <2>6. OpenedEntry(r)
    BY <2>2, <2>3 DEF OpenedEntry
  <2> QED
    BY <2>1, <2>5, <2>6
<1>3. held[p] => OverEntry(r)
  BY OfCall DEF StatEntry, OverEntry, Call
<1>4. excused[p] \/ SeesEntry(r)
  BY OfCall DEF StatEntry, SeesEntry, Call, Writing, Reasons
<1>5. r.got = 0 /\ r.previous = run[p].previous /\ r.temp = run[p].temp /\ r.at \notin Writing
  BY OfCall DEF Call, Writing, Reasons
<1> HIDE DEF r
<1> QED
  BY <1>1, <1>2, <1>3, <1>4, <1>5, OfCall, Moved DEF StatEntry, Writing, fileVars, countVars, historyVars

(* A retry starts the read again, or ends the call with a failure for which  *)
(* a rename by another process is the reason.                                *)
LEMMA Retried ==
  ASSUME IInv, NEW p \in Procs, run[p].at \in {"open", "fstat"}, Retry(p), excused[p],
         UNCHANGED <<files, entry, durable, countVars, historyVars>>
  PROVE  IInv'
<1>1. CASE run[p].tries + 1 = ReadAttempts
  <2>1. Return(p, "failed", None)
    BY <1>1 DEF Retry, Fail
  <2>2. [kind |-> "failed", bytes |-> None] \in Result
    BY DEF Result
  <2> QED
    BY <2>1, <2>2, OfCall, Ended DEF countVars, historyVars
<1>2. CASE run[p].tries + 1 # ReadAttempts
  <2> DEFINE r == [run[p] EXCEPT !.at = "stat", !.tries = @ + 1]
  <2>1. run' = [run EXCEPT ![p] = r] /\ UNCHANGED <<result, temps>>
    BY <1>2 DEF Retry, IInv, Shape, TypeOK
  <2>2. r \in Call
    <3>1. run[p].tries + 1 \in 0..ReadAttempts - 1
      <4>1. run[p].tries \in 0..ReadAttempts - 1 /\ ReadAttempts \in Nat \ {0}
        BY OfCall, CacheAssumption DEF Call
      <4> QED
        BY <1>2, <4>1
    <3> QED
      BY <3>1, OfCall DEF Call, Places
  <2>3. InPhase(r) /\ OpenedEntry(r)
    BY OfCall DEF Call, InPhase, OpenedEntry, Reasons, Writing
  <2>4. held[p] => OverEntry(r)
    BY OfCall DEF OverEntry, Call
  <2>5. /\ r.got = run[p].got /\ r.previous = run[p].previous /\ r.temp = run[p].temp
        /\ r.at \notin Writing
    BY OfCall DEF Call, Writing
  <2> HIDE DEF r
  <2> QED
    BY <2>1, <2>2, <2>3, <2>4, <2>5, OfCall, Moved DEF Writing, countVars, historyVars
<1> QED
  BY <1>1, <1>2

(* A move to another place of the call, with nothing else changed. *)
LEMMA Placed ==
  ASSUME IInv, NEW p \in Procs, NEW place \in Places, Move(p, place),
         UNCHANGED <<files, entry, durable, countVars, historyVars>>,
         InPhase([run[p] EXCEPT !.at = place]),
         OpenedEntry([run[p] EXCEPT !.at = place]),
         held[p] => OverEntry([run[p] EXCEPT !.at = place]),
         excused[p] \/ SeesEntry([run[p] EXCEPT !.at = place]),
         place \in Writing => run[p].at \in Writing,
         place \in {"check", "replace"} => run[p].at \in {"check", "replace"}
  PROVE  IInv'
<1> DEFINE r == [run[p] EXCEPT !.at = place]
<1>1. run' = [run EXCEPT ![p] = r] /\ UNCHANGED <<result, temps>>
  BY DEF Move, IInv, Shape, TypeOK
<1>2. r \in Call /\ r.got = run[p].got /\ r.previous = run[p].previous
      /\ r.temp = run[p].temp /\ r.raw = run[p].raw /\ r.at = place
  BY OfCall DEF Call
<1> HIDE DEF r
<1>3. InPhase(r) /\ OpenedEntry(r) /\ (held[p] => OverEntry(r)) /\ (excused[p] \/ SeesEntry(r))
  BY DEF r
<1> QED
  BY <1>1, <1>2, <1>3, OfCall, Moved DEF countVars, historyVars

(* A call may fail when something excuses it. *)
LEMMA Failed ==
  ASSUME IInv, NEW p \in Procs, Fail(p), excused'[p],
         excused' \in [Procs -> BOOLEAN], \A q \in Procs : excused[q] => excused'[q],
         faults' \in Nat,
         UNCHANGED <<files, entry, durable, began, held, published, litter>>
  PROVE  IInv'
<1>1. Return(p, "failed", None) /\ [kind |-> "failed", bytes |-> None] \in Result
  BY DEF Fail, Result
<1> QED
  BY <1>1, OfCall, Ended

(* OpenEntry holds the entry as it is, or finds it gone. *)
LEMMA Open ==
  ASSUME IInv, NEW p \in Procs, OpenEntry(p)
  PROVE  IInv'
<1>1. CASE entry = 0
  BY <1>1, OfCall, Retried DEF OpenEntry, SeesEntry
<1>2. CASE entry # 0
  <2> DEFINE r == [run[p] EXCEPT !.got = entry, !.at = "fstat"]
  <2>1. run' = [run EXCEPT ![p] = r] /\ UNCHANGED <<result, temps>>
    BY <1>2 DEF OpenEntry, IInv, Shape, TypeOK
  <2>2. r \in Call /\ InPhase(r) /\ OpenedEntry(r)
    BY <1>2, OfCall DEF OpenEntry, Call, InPhase, OpenedEntry, Places, Reasons, Writing
  <2>3. held[p] => OverEntry(r)
    BY OfCall DEF OpenEntry, OverEntry, Call
  <2>4. excused[p] \/ SeesEntry(r)
    BY <1>2, OfCall DEF OpenEntry, SeesEntry, Call, Writing, Reasons
  <2>5. /\ r.got = entry /\ r.previous = run[p].previous /\ r.temp = run[p].temp
        /\ r.at \notin Writing
    BY OfCall DEF Call, Writing
  <2> HIDE DEF r
  <2> QED
    BY <2>1, <2>2, <2>3, <2>4, <2>5, OfCall, Moved DEF OpenEntry, Writing, countVars, historyVars
<1> QED
  BY <1>1, <1>2

(* CheckOpened goes on only with the file that was looked at. *)
LEMMA Fstat ==
  ASSUME IInv, NEW p \in Procs, CheckOpened(p)
  PROVE  IInv'
<1> USE OfCall DEF CheckOpened
<1>1. CASE run[p].got # entry
  <2>1. excused[p]
    BY <1>1 DEF SeesEntry
  <2> QED
    BY <1>1, <2>1, Failed DEF countVars, historyVars
<1>2. CASE run[p].got = entry /\ run[p].got # run[p].seen
  <2>1. excused[p]
    BY <1>2 DEF SeesEntry
  <2> QED
    BY <1>2, <2>1, Retried
<1>3. CASE run[p].got = entry /\ run[p].got = run[p].seen
  <2> DEFINE r == [run[p] EXCEPT !.at = "read"]
  <2>1. InPhase(r) /\ OpenedEntry(r)
    BY DEF Call, InPhase, OpenedEntry, Reasons, Writing
  <2>2. held[p] => OverEntry(r)
    BY DEF OverEntry, Call
  <2>3. excused[p] \/ SeesEntry(r)
    BY <1>3 DEF SeesEntry, Call, Writing, Reasons
  <2> QED
    BY <1>3, <2>1, <2>2, <2>3, Placed DEF Writing, Places
<1> QED
  BY <1>1, <1>2, <1>3

(* ReadOpened goes on only with a file that still is the entry. *)
LEMMA Read ==
  ASSUME IInv, NEW p \in Procs, ReadOpened(p)
  PROVE  IInv'
<1> USE OfCall DEF ReadOpened
<1>1. CASE run[p].got # entry
  <2>1. excused[p]
    BY <1>1 DEF SeesEntry
  <2> QED
    BY <1>1, <2>1, Failed DEF countVars, historyVars
<1>2. CASE run[p].got = entry
  <2> DEFINE r == [run[p] EXCEPT !.at = run[p].why]
  <2>1. InPhase(r) /\ OpenedEntry(r)
    BY DEF Call, InPhase, OpenedEntry, Reasons, Writing
  <2>2. held[p] => OverEntry(r)
    BY DEF OverEntry, Call, OpenedEntry
  <2>3. excused[p] \/ SeesEntry(r)
    BY <1>2 DEF SeesEntry, Call, Writing, Reasons
  <2>4. run[p].why \in Places /\ run[p].why \notin Writing
    BY DEF Call, Places, Writing, Reasons
  <2> QED
    BY <1>2, <2>1, <2>2, <2>3, <2>4, Placed DEF Writing
<1> QED
  BY <1>1, <1>2

-------------------------------------------------------------------------------
(***************************************************************************)
(* Looking up, asking, writing                                             *)
(***************************************************************************)

(* A found entry is returned as it is, or is damaged. *)
LEMMA Find ==
  ASSUME IInv, NEW p \in Procs, Found(p)
  PROVE  IInv'
<1> USE OfCall DEF Found
<1>1. CASE Bytes(run[p].got) \in Damaged
  <2>1. excused' = [excused EXCEPT ![p] = TRUE]
    BY <1>1
  <2>2. /\ excused'[p] /\ excused' \in [Procs -> BOOLEAN]
        /\ \A q \in Procs : excused[q] => excused'[q]
    BY <2>1
  <2> QED
    BY <1>1, <2>2, Failed DEF countVars
<1>2. CASE Bytes(run[p].got) \notin Damaged
  <2>1. Bytes(run[p].got) \in published /\ published \subseteq Responses \cup Damaged
    BY DEF OpenedEntry, Bytes, IInv, Shape, TypeOK
  <2>2. [kind |-> "hit", bytes |-> Bytes(run[p].got)] \in Result
    BY <1>2, <2>1 DEF Result
  <2> QED
    BY <1>2, <2>1, <2>2, Ended DEF countVars
<1> QED
  BY <1>1, <1>2

(* The teacher is asked only by a call that began without an entry. *)
LEMMA Ask ==
  ASSUME IInv, NEW p \in Procs, CallTeacher(p)
  PROVE  IInv'
<1> USE OfCall DEF CallTeacher, Missed
<1>1. ~held[p] /\ run[p].temp = 0
  BY DEF OverEntry, InPhase, Writing, Reasons
<1>2. ASSUME NEW response \in Responses,
             run' = [run EXCEPT ![p] = [Idle EXCEPT !.at = "stat", !.why = "prepared",
                                                    !.raw = response]],
             UNCHANGED <<result, temps, excused>>
      PROVE  IInv'
  <2> DEFINE r == [Idle EXCEPT !.at = "stat", !.why = "prepared", !.raw = response]
  <2>1. /\ r.at = "stat" /\ r.why = "prepared" /\ r.tries = 0 /\ r.seen = 0 /\ r.got = 0
        /\ r.previous = 0 /\ r.raw = response /\ r.temp = 0
    BY DEF Idle
  <2>2. r \in Call
    BY DEF Call, Places, Reasons
  <2> HIDE DEF r
  <2>3. InPhase(r) /\ OpenedEntry(r) /\ SeesEntry(r)
    BY <2>1 DEF InPhase, OpenedEntry, SeesEntry, Writing, Reasons
  <2>4. run' = [run EXCEPT ![p] = r]
    BY <1>2 DEF r
  <2> QED
    BY <1>1, <1>2, <2>1, <2>2, <2>3, <2>4, Moved DEF Writing, countVars
<1>3. ASSUME Fail(p), excused' = [excused EXCEPT ![p] = TRUE]
      PROVE  IInv'
  <2>1. /\ excused'[p] /\ excused' \in [Procs -> BOOLEAN]
        /\ \A q \in Procs : excused[q] => excused'[q]
    BY <1>3
  <2> QED
    BY <1>3, <2>1, Failed DEF countVars
<1> QED
  BY <1>2, <1>3

(* CheckDestination fails only a call that another has disturbed. *)
LEMMA CheckEntry ==
  ASSUME IInv, NEW p \in Procs, CheckDestination(p)
  PROVE  IInv'
<1> USE OfCall DEF CheckDestination
<1>1. CASE entry # run[p].previous
  <2>1. excused[p]
    BY <1>1 DEF SeesEntry, Writing
  <2> QED
    BY <1>1, <2>1, Failed DEF countVars, historyVars
<1>2. CASE entry = run[p].previous
  <2> DEFINE r == [run[p] EXCEPT !.at = "replace"]
  <2>1. InPhase(r) /\ OpenedEntry(r)
    BY DEF Call, InPhase, OpenedEntry, Reasons, Writing
  <2>2. held[p] => OverEntry(r)
    BY DEF OverEntry, Call
  <2>3. excused[p] \/ SeesEntry(r)
    BY <1>2 DEF SeesEntry, Call, Writing, Reasons
  <2> QED
    BY <1>2, <2>1, <2>2, <2>3, Placed DEF Writing, Places
<1> QED
  BY <1>1, <1>2

(* After an error of the rename the entry decides. *)
LEMMA Observe ==
  ASSUME IInv, NEW p \in Procs, Observed(p)
  PROVE  IInv'
<1> USE OfCall DEF Observed
<1>1. CASE Bytes(run[p].got) = run[p].raw
  <2> DEFINE r == [run[p] EXCEPT !.at = "stat", !.why = "committed", !.tries = 0, !.temp = 0]
  <2>1. run' = [run EXCEPT ![p] = r]
    BY <1>1 DEF IInv, Shape, TypeOK
  <2>2. r \in Call
    BY DEF Call, Places, Reasons
  <2>3. run[p].why = "observed"
    BY DEF InPhase, Reasons
  <2>4. InPhase(r) /\ OpenedEntry(r)
    BY <2>3 DEF Call, InPhase, OpenedEntry, Reasons, Writing
  <2>5. held[p] => OverEntry(r)
    BY <2>3 DEF OverEntry, Call
  <2>6. excused[p] \/ SeesEntry(r)
    BY <2>3 DEF SeesEntry, Call, Writing, Reasons
  <2>7. r.got = run[p].got /\ r.previous = run[p].previous /\ r.temp = 0 /\ r.at = "stat"
    BY DEF Call
  <2> HIDE DEF r
  <2> QED
    BY <1>1, <2>1, <2>2, <2>4, <2>5, <2>6, <2>7, Moved DEF Writing, countVars, historyVars
<1>2. CASE Bytes(run[p].got) # run[p].raw
  <2>1. excused[p]
    BY <1>2 DEF SeesEntry, InPhase, Reasons
  <2> QED
    BY <1>2, <2>1, Failed DEF countVars, historyVars
<1> QED
  BY <1>1, <1>2

(* The read after the rename shows the new bytes, or another process has     *)
(* replaced them.                                                            *)
LEMMA Commit ==
  ASSUME IInv, NEW p \in Procs, Committed(p)
  PROVE  IInv'
<1> USE OfCall DEF Committed
<1>1. CASE Bytes(run[p].got) = run[p].raw
  <2> DEFINE r == [run[p] EXCEPT !.at = "sync"]
  <2>1. run[p].why = "committed" /\ run[p].raw \in Responses
    BY DEF InPhase, Reasons
  <2>2. run[p].raw \in published
    BY <1>1, <2>1 DEF Bytes, OpenedEntry
  <2>3. InPhase(r) /\ OpenedEntry(r)
    BY <2>1, <2>2 DEF Call, InPhase, OpenedEntry, Reasons, Writing
  <2>4. held[p] => OverEntry(r)
    BY <2>1 DEF OverEntry, Call
  <2>5. excused[p] \/ SeesEntry(r)
    BY DEF SeesEntry, Call, Writing, Reasons
  <2> QED
    BY <1>1, <2>3, <2>4, <2>5, Placed DEF Writing, Places
<1>2. CASE Bytes(run[p].got) # run[p].raw
  <2>1. excused[p]
    BY <1>2 DEF SeesEntry, InPhase, Reasons
  <2> QED
    BY <1>2, <2>1, Failed DEF countVars, historyVars
<1> QED
  BY <1>1, <1>2

(* What SyncDirectory returns stood under the name of the entry. *)
LEMMA Sync ==
  ASSUME IInv, NEW p \in Procs, SyncDirectory(p)
  PROVE  IInv'
<1> USE OfCall DEF SyncDirectory
<1>1. run[p].raw \in published /\ run[p].raw \in Responses
  BY DEF OpenedEntry, InPhase
<1>2. [kind |-> "fresh", bytes |-> run[p].raw] \in Result
  BY <1>1 DEF Result
<1>3. durable' \subseteq durable /\ entry \in durable'
  OBVIOUS
<1> QED
  BY <1>1, <1>2, <1>3, Ended DEF countVars, historyVars

(* A failing system call excuses the call. *)
LEMMA FailToWrite ==
  ASSUME IInv, NEW p \in Procs, WriteError(p)
  PROVE  IInv'
<1>1. /\ excused'[p] /\ excused' \in [Procs -> BOOLEAN]
      /\ \A q \in Procs : excused[q] => excused'[q]
  BY OfCall DEF WriteError
<1> QED
  BY <1>1, OfCall, Failed DEF WriteError

(* A new file is nobody else's, and nothing refers to it. *)
LEMMA Create ==
  ASSUME IInv, NEW p \in Procs, CreateTemporary(p)
  PROVE  IInv'
<1> USE DEF IInv, Shape, Meaning, Promises, CreateTemporary, countVars, historyVars
<1> DEFINE new == Len(files) + 1
           file == [bytes |-> "torn", synced |-> FALSE]
           r == [run[p] EXCEPT !.previous = run[p].got, !.temp = new, !.at = "fill"]
<1>1. run' = [run EXCEPT ![p] = r] /\ files' = Append(files, file) /\ temps' = temps \cup {new}
  BY DEF TypeOK
<1>2. /\ Len(files) \in Nat /\ Len(files') = new /\ new \notin 0..Len(files)
      /\ \A i \in 1..Len(files) : files'[i] = files[i]
  BY OfCall, <1>1 DEF TypeOK
<1>3. /\ r.at = "fill" /\ r.why = "prepared" /\ r.got = run[p].got /\ r.temp = new
      /\ r.previous = run[p].got /\ r.raw = run[p].raw
      /\ run[p].at = "prepared" /\ run[p].why = "prepared" /\ run[p].temp = 0
  BY OfCall DEF Call, InPhase, Reasons, Writing
<1>4. /\ \A q \in Procs : run[q].got \in 0..Len(files) /\ run[q].previous \in 0..Len(files)
                         /\ run[q].temp \in 0..Len(files)
      /\ temps \subseteq 1..Len(files) /\ durable \subseteq 0..Len(files)
      /\ entry \in 0..Len(files) /\ litter \subseteq 1..Len(files)
  BY DEF TypeOK, Call
<1>5. r \in Call'
  <2>1. 0..Len(files) \subseteq 0..Len(files') /\ new \in 0..Len(files')
    BY <1>2
  <2> HIDE DEF new
  <2> QED
    BY <2>1, OfCall DEF Call, Places
<1>0. /\ new # 0 /\ new \notin temps /\ new \notin durable /\ new \notin litter /\ entry # new
      /\ \A q \in Procs : run[q].got # new /\ run[q].previous # new /\ run[q].temp # new
      /\ 0 \notin temps
  BY <1>2, <1>4
<1>19. /\ \A i \in durable \ {0} : files'[i] = files[i]
       /\ \A i \in temps : files'[i] = files[i]
       /\ \A q \in Procs : run[q].got # 0 => files'[run[q].got] = files[run[q].got]
       /\ entry # 0 => files'[entry] = files[entry]
  <2>1. \A i \in 0..Len(files) : i # 0 => i \in 1..Len(files)
    BY <1>2
  <2> QED
    BY <1>2, <1>4, <2>1
<1>20. UNCHANGED <<entry, durable, result, began, faults, held, excused, published, litter>>
  OBVIOUS
<1> HIDE DEF r, new, file, CreateTemporary
<1>6. run'[p] = r /\ \A q \in Procs \ {p} : run'[q] = run[q]
  BY <1>20, <1>1 DEF TypeOK
<1>7. TypeOK'
  <2>1. 0..Len(files) \subseteq 0..Len(files') /\ 1..Len(files) \subseteq 1..Len(files')
        /\ new \in 1..Len(files')
    BY <1>2 DEF new
  <2>2. Call \subseteq Call'
    BY <2>1 DEF Call
  <2>3. run' \in [Procs -> Call']
    BY <1>20, <1>1, <1>5, <2>2 DEF TypeOK
  <2>4. files' \in Seq([bytes: Responses \cup Damaged, synced: BOOLEAN])
    BY <1>20, <1>1 DEF TypeOK, file, Damaged
  <2>5. entry' \in 0..Len(files') /\ durable' \subseteq 0..Len(files')
        /\ temps' \subseteq 1..Len(files') /\ litter' \subseteq temps'
    BY <1>20, <1>1, <2>1 DEF TypeOK
  <2> QED
    BY <1>20, <2>3, <2>4, <2>5 DEF TypeOK, Result
<1>8. Phases'
  <2>1. InPhase(r)
    BY <1>0, <1>3, OfCall DEF InPhase, Writing, Reasons
  <2> QED
    BY <1>6, <2>1 DEF Phases
<1>9. Owned'
  BY <1>20, <1>0, <1>3, <1>6 DEF Owned
<1>10. Hidden'
  <2>1. SUFFICES ASSUME NEW o \in Procs, run'[o].at \in Writing
                 PROVE  /\ run'[o].temp \in temps' \ durable'
                        /\ \A q \in Procs : run'[o].temp \notin {run'[q].got, run'[q].previous}
    BY DEF Hidden
  <2>2. CASE o = p
    BY <1>0, <1>1, <1>3, <1>6, <1>20, <2>2
  <2>3. CASE o # p
    BY <1>20, <1>0, <1>1, <1>3, <1>6, <2>1, <2>3 DEF Hidden
  <2> QED
    BY <2>2, <2>3
<1>11. Filled'
  BY <1>20, <1>3, <1>6, <1>19 DEF Filled, Hidden, Writing
<1>12. Whole'
  BY <1>20, <1>19 DEF Whole
<1>14. Opened'
  BY <1>20, <1>3, <1>6, <1>19 DEF Opened, OpenedEntry
<1>15. Holding'
  BY <1>20, <1>3, <1>6, OfCall DEF Holding, OverEntry
<1>16. Undisturbed'
  <2>1. Bytes(entry)' = Bytes(entry)
    BY <1>20, <1>19 DEF Bytes
  <2> QED
    BY <1>20, <1>3, <1>6, <2>1, OfCall DEF Undisturbed, SeesEntry, Writing, Reasons
<1>17. ReturnedWasEntry' /\ FailureExplained'
  BY <1>20 DEF ReturnedWasEntry, FailureExplained
<1>18. NoResidue'
  BY <1>20, <1>0, <1>1, <1>3, <1>6 DEF NoResidue
<1> QED
  BY <1>7, <1>8, <1>9, <1>10, <1>11, <1>12, <1>14, <1>15, <1>16, <1>17, <1>18

(* Only the writer of a file sees it filled. *)
LEMMA Fill ==
  ASSUME IInv, NEW p \in Procs, FillTemporary(p)
  PROVE  IInv'
<1> USE DEF IInv, Shape, Meaning, Promises, FillTemporary, countVars, historyVars
<1> DEFINE own == run[p].temp
           file == [bytes |-> run[p].raw, synced |-> TRUE]
           r == [run[p] EXCEPT !.at = "check"]
<1>1. run' = [run EXCEPT ![p] = r] /\ files' = [files EXCEPT ![own] = file]
  BY DEF TypeOK
<1>2. /\ own \in temps /\ own \notin durable /\ own \in 1..Len(files)
      /\ \A q \in Procs : own # run[q].got
      /\ \A q \in Procs \ {p} : own # run[q].temp
  BY DEF Hidden, Writing, TypeOK, Owned, Phases, InPhase
<1>3. /\ Len(files') = Len(files) /\ files'[own] = file
      /\ \A i \in 1..Len(files) : i # own => files'[i] = files[i]
  BY <1>1, <1>2 DEF TypeOK
<1>4. /\ r.at = "check" /\ r.why = run[p].why /\ r.got = run[p].got /\ r.temp = own
      /\ r.previous = run[p].previous /\ r.raw = run[p].raw /\ r \in Call
  BY OfCall DEF Call, Places
<1>5. file \in [bytes: Responses \cup Damaged, synced: BOOLEAN]
  BY OfCall DEF InPhase, Writing
<1>6. \A q \in Procs : run[q].got \in 0..Len(files) /\ run[q].temp \in 0..Len(files)
  BY DEF TypeOK, Call
<1> HIDE DEF r, file, own
<1>7. run'[p] = r /\ \A q \in Procs \ {p} : run'[q] = run[q]
  BY <1>1 DEF TypeOK
<1>8. TypeOK'
  <2>1. files' \in Seq([bytes: Responses \cup Damaged, synced: BOOLEAN])
    <3>1. files \in Seq([bytes: Responses \cup Damaged, synced: BOOLEAN]) /\ own \in 1..Len(files)
      BY <1>2 DEF TypeOK
    <3> QED
      <4> DEFINE S == [bytes: Responses \cup Damaged, synced: BOOLEAN]
      <4>1. file \in S /\ files \in Seq(S)
        BY <1>5, <3>1
      <4> HIDE DEF S
      <4>2. [files EXCEPT ![own] = file] \in Seq(S)
        BY <3>1, <4>1, ExceptSeq
      <4> QED
        BY <1>1, <4>2 DEF S
  <2>2. Call' = Call
    BY <1>3 DEF Call
  <2>3. run' \in [Procs -> Call']
    BY <1>1, <1>4, <2>2 DEF TypeOK
  <2> QED
    BY <1>3, <2>1, <2>3 DEF TypeOK, Result
<1>9. Phases'
  BY <1>4, <1>7, OfCall DEF Phases, InPhase, Writing, Reasons, own
<1>10. Owned'
  BY <1>4, <1>7 DEF Owned, own
<1>11. Hidden'
  BY <1>4, <1>7 DEF Hidden, Writing, own
<1>12. Filled'
  <2>1. SUFFICES ASSUME NEW o \in Procs, run'[o].at \in {"check", "replace"}
                 PROVE  files'[run'[o].temp] = [bytes |-> run'[o].raw, synced |-> TRUE]
    BY DEF Filled
  <2>2. CASE o = p
    BY <1>3, <1>4, <1>7, <2>2 DEF file
  <2>3. CASE o # p
    <3>1. run'[o] = run[o] /\ run[o].temp # own /\ run[o].temp \in 1..Len(files)
      BY <1>2, <1>7, <2>1, <2>3 DEF Hidden, Writing, TypeOK
    <3> QED
      BY <1>3, <2>1, <3>1 DEF Filled
  <2> QED
    BY <2>2, <2>3
<1>13. Whole'
  <2>1. \A i \in durable \ {0} : i \in 1..Len(files) /\ i # own
    BY <1>2 DEF TypeOK
  <2> QED
    BY <1>3, <2>1 DEF Whole
<1>14. Opened'
  <2>1. \A q \in Procs : run[q].got # 0 => files'[run[q].got] = files[run[q].got]
    <3>1. \A i \in 0..Len(files) : i # 0 => i \in 1..Len(files)
      BY OfCall
    <3> QED
      BY <1>2, <1>3, <1>6, <3>1
  <2> QED
    BY <1>4, <1>7, <2>1 DEF Opened, OpenedEntry
<1>15. Holding'
  BY <1>4, <1>7, OfCall DEF Holding, OverEntry
<1>16. Undisturbed'
  <2>1. Bytes(entry)' = Bytes(entry)
    BY <1>2, <1>3 DEF Bytes, Whole, TypeOK
  <2> QED
    BY <1>4, <1>7, <2>1, OfCall DEF Undisturbed, SeesEntry, Writing, Reasons
<1>17. ReturnedWasEntry' /\ FailureExplained'
  BY DEF ReturnedWasEntry, FailureExplained
<1>18. NoResidue'
  BY <1>4, <1>7 DEF NoResidue, own
<1> QED
  BY <1>8, <1>9, <1>10, <1>11, <1>12, <1>13, <1>14, <1>15, <1>16, <1>17, <1>18

(* The rename: whatever other calls saw of the entry may be out of date, and *)
(* so they are excused; the renaming call reads the entry again.             *)
LEMMA Renamed ==
  ASSUME IInv, NEW p \in Procs, NEW r \in Call,
         run[p].at = "replace", Rename(p), run' = [run EXCEPT ![p] = r],
         r.at = "stat", r.got = run[p].got, r.previous = run[p].previous, r.raw = run[p].raw,
         \/ r.why = "committed" /\ r.temp = 0
         \/ r.why = "observed" /\ r.temp = run[p].temp,
         faults' \in Nat,
         UNCHANGED <<files, result, began, held, litter>>
  PROVE  IInv'
<1> USE DEF IInv, Shape, Meaning, Promises
<1> DEFINE own == run[p].temp
<1>1. run'[p] = r /\ \A q \in Procs \ {p} : run'[q] = run[q]
  BY DEF TypeOK
<1>2. /\ entry' = own /\ durable' = durable \cup {own} /\ temps' = temps \ {own}
      /\ published' = published \cup {Bytes(own)}
      /\ excused' = [q \in Procs |-> IF q = p THEN excused[p] ELSE TRUE]
  BY DEF Rename
<1>3. /\ own \in temps /\ own # 0 /\ own \in 1..Len(files) /\ own \notin litter
      /\ files[own] = [bytes |-> run[p].raw, synced |-> TRUE] /\ Bytes(own) = run[p].raw
      /\ \A q \in Procs \ {p} : run[q].temp # own
      /\ run[p].why = "prepared" /\ run[p].raw \in Responses
  <2>1. own \in temps /\ temps \subseteq 1..Len(files)
    BY DEF Hidden, Writing, TypeOK
  <2>2. own # 0 /\ own \in 1..Len(files)
    BY <2>1, OfCall
  <2>3. own \notin litter /\ \A q \in Procs \ {p} : run[q].temp # own
    BY <2>2 DEF Owned
  <2>4. files[own] = [bytes |-> run[p].raw, synced |-> TRUE]
    BY DEF Filled
  <2>5. run[p].why = "prepared" /\ run[p].raw \in Responses
    BY OfCall DEF InPhase, Writing
  <2> QED
    BY <2>1, <2>2, <2>3, <2>4, <2>5 DEF Bytes
<1>4. ~held[p]
  BY <1>3, OfCall DEF OverEntry
<1> HIDE DEF own
<1>5. TypeOK'
  <2>1. excused' \in [Procs -> BOOLEAN]
    BY <1>2 DEF TypeOK
  <2>2. run' \in [Procs -> Call'] /\ result' \in [Procs -> Result']
    BY DEF TypeOK, Call, Result
  <2>3. temps' \subseteq 1..Len(files') /\ litter' \subseteq temps'
    BY <1>2, <1>3 DEF TypeOK
  <2>4. entry' \in 0..Len(files') /\ durable' \subseteq 0..Len(files')
    BY <1>2, <1>3 DEF TypeOK
  <2>5. published' \subseteq Responses \cup Damaged
    BY <1>2, <1>3 DEF TypeOK
  <2> QED
    BY <2>1, <2>2, <2>3, <2>4, <2>5 DEF TypeOK
<1>6. Phases'
  BY <1>1, <1>3 DEF Phases, InPhase, Writing, Reasons
<1>7. Owned'
  BY <1>1, <1>3 DEF Owned, own
<1>8. Hidden'
  <2>1. SUFFICES ASSUME NEW o \in Procs, run'[o].at \in Writing
                 PROVE  /\ run'[o].temp \in temps' \ durable'
                        /\ \A q \in Procs : run'[o].temp \notin {run'[q].got, run'[q].previous}
    BY DEF Hidden
  <2>2. o # p /\ run'[o] = run[o]
    BY <1>1, <2>1 DEF Writing
  <2> QED
    BY <1>1, <1>2, <1>3, <2>1, <2>2 DEF Hidden
<1>9. Filled'
  BY <1>1 DEF Filled
<1>10. Whole'
  BY <1>2, <1>3 DEF Whole
<1>11. Opened'
  BY <1>1, <1>2 DEF Opened, OpenedEntry
<1>12. Holding'
  BY <1>1, <1>2, <1>3, <1>4 DEF Holding, OverEntry
<1>13. Undisturbed'
  <2>1. \A q \in Procs \ {p} : excused'[q]
    BY <1>2
  <2>2. Bytes(entry)' = run[p].raw
    BY <1>2, <1>3 DEF Bytes
  <2> QED
    BY <1>1, <2>1, <2>2 DEF Undisturbed, SeesEntry, Writing, Reasons
<1>14. ReturnedWasEntry' /\ FailureExplained'
  BY <1>2 DEF ReturnedWasEntry, FailureExplained
<1>15. NoResidue'
  BY <1>1, <1>2 DEF NoResidue, own
<1> QED
  BY <1>5, <1>6, <1>7, <1>8, <1>9, <1>10, <1>11, <1>12, <1>13, <1>14, <1>15

(* Replace is a rename after which the call reads the entry again. *)
LEMMA Rewrite ==
  ASSUME IInv, NEW p \in Procs, Replace(p)
  PROVE  IInv'
<1> DEFINE r == [run[p] EXCEPT !.at = "stat", !.why = "committed", !.tries = 0, !.temp = 0]
<1>1. run' = [run EXCEPT ![p] = r]
  BY DEF Replace, IInv, Shape, TypeOK
<1>2. r \in Call
  BY OfCall DEF Call, Places, Reasons
<1>3. /\ r.at = "stat" /\ r.why = "committed" /\ r.temp = 0 /\ r.got = run[p].got
      /\ r.previous = run[p].previous /\ r.raw = run[p].raw
  BY OfCall DEF Call
<1> HIDE DEF r
<1> QED
  BY <1>1, <1>2, <1>3, OfCall, Renamed DEF Replace, countVars

(* ReplaceFails is a rename or none, and the call reads the entry to find    *)
(* out.                                                                      *)
LEMMA RewriteFails ==
  ASSUME IInv, NEW p \in Procs, ReplaceFails(p)
  PROVE  IInv'
<1> DEFINE r == [run[p] EXCEPT !.at = "stat", !.why = "observed", !.tries = 0]
<1>1. run' = [run EXCEPT ![p] = r]
  BY DEF ReplaceFails, ReadFor, IInv, Shape, TypeOK
<1>2. r \in Call
  BY OfCall DEF Call, Places, Reasons
<1>3. /\ r.at = "stat" /\ r.why = "observed" /\ r.temp = run[p].temp /\ r.got = run[p].got
      /\ r.previous = run[p].previous /\ r.raw = run[p].raw
  BY OfCall DEF Call
<1> HIDE DEF r
<1>0. /\ run[p].at = "replace" /\ faults' \in Nat
      /\ UNCHANGED <<files, result, began, held, litter>>
  BY OfCall DEF ReplaceFails
<1>4. CASE Rename(p)
  BY <1>0, <1>1, <1>2, <1>3, <1>4, Renamed
<1>5. ASSUME excused' = [excused EXCEPT ![p] = TRUE],
             UNCHANGED <<entry, durable, temps, published>>
      PROVE  IInv'
  <2>1. /\ excused'[p] /\ excused' \in [Procs -> BOOLEAN]
        /\ \A q \in Procs : excused[q] => excused'[q]
    BY <1>5, OfCall
  <2>2. run[p].at = "replace" /\ run[p].why = "prepared" /\ run[p].raw \in Responses /\ ~held[p]
    BY <1>0, OfCall DEF InPhase, Writing, OverEntry
  <2>3. InPhase(r) /\ OpenedEntry(r)
    BY <1>3, <2>2, OfCall DEF InPhase, OpenedEntry, Reasons, Writing
  <2>4. r.at \notin Writing /\ r.at \notin {"check", "replace"}
    BY <1>3 DEF Writing
  <2> QED
    BY <1>0, <1>1, <1>2, <1>3, <1>5, <2>1, <2>2, <2>3, <2>4, Moved
<1> QED
  BY <1>4, <1>5 DEF ReplaceFails

-------------------------------------------------------------------------------
(***************************************************************************)
(* Faults                                                                  *)
(***************************************************************************)

(* A killed call forgets its temporary file, which becomes litter. *)
LEMMA Killed ==
  ASSUME IInv, NEW p \in Procs, Kill(p)
  PROVE  IInv'
<1> USE DEF IInv, Shape, Meaning, Promises, Kill, fileVars
<1>1. run'[p] = Idle /\ \A q \in Procs \ {p} : run'[q] = run[q]
  BY DEF TypeOK
<1>2. /\ Idle.at = "idle" /\ Idle.why = "looked" /\ Idle.temp = 0 /\ Idle.got = 0
      /\ Idle.previous = 0 /\ Idle.raw = None
  BY DEF Idle
<1>3. 0 \notin temps
  BY DEF TypeOK
<1>4. TypeOK'
  <2>1. run' \in [Procs -> Call'] /\ result' \in [Procs -> Result']
    BY OfCall DEF TypeOK, Call, Result
  <2>2. litter \subseteq temps /\ temps' = temps
    BY DEF TypeOK
  <2>3. litter' \subseteq temps'
    BY <2>2
  <2>4. faults' \in Nat
    BY OfCall
  <2> QED
    BY <2>1, <2>2, <2>3, <2>4 DEF TypeOK
<1>5. Phases'
  BY <1>1, <1>2 DEF Phases, InPhase, Writing, Reasons
<1>6. Owned'
  BY <1>1, <1>2 DEF Owned
<1>7. Hidden'
  BY <1>1, <1>2, <1>3 DEF Hidden, Writing
<1>8. Filled'
  BY <1>1, <1>2 DEF Filled
<1>9. Whole'
  BY DEF Whole
<1>10. Opened'
  BY <1>1, <1>2 DEF Opened, OpenedEntry
<1>11. Holding'
  BY <1>1, <1>2 DEF Holding, OverEntry
<1>12. Undisturbed'
  BY <1>1, <1>2 DEF Undisturbed, SeesEntry, Bytes, Writing, Reasons
<1>13. ReturnedWasEntry' /\ FailureExplained'
  BY DEF ReturnedWasEntry, FailureExplained
<1>14. NoResidue'
  BY <1>1 DEF NoResidue
<1> QED
  BY <1>4, <1>5, <1>6, <1>7, <1>8, <1>9, <1>10, <1>11, <1>12, <1>13, <1>14

(* After a power loss nobody is in a call, and every file is as durable as   *)
(* it will be; the files the entry may be bound to are unharmed.             *)
LEMMA PowerLost ==
  ASSUME IInv, PowerLoss
  PROVE  IInv'
<1> USE DEF IInv, Shape, Meaning, Promises, PowerLoss
<1> DEFINE S == [bytes: Responses \cup Damaged, synced: BOOLEAN]
           after(i) == IF files[i].synced THEN files[i] ELSE [bytes |-> "torn", synced |-> TRUE]
<1>1. /\ Idle.at = "idle" /\ Idle.why = "looked" /\ Idle.temp = 0 /\ Idle.got = 0
      /\ Idle.previous = 0 /\ Idle.raw = None
  BY DEF Idle
<1>2. \A p \in Procs : run'[p] = Idle
  OBVIOUS
<1>3. files \in Seq(S) /\ Len(files) \in Nat /\ DOMAIN files = 1..Len(files)
  BY DEF TypeOK
<1>4. \A i \in 1..Len(files) : after(i) \in S
  <2> SUFFICES ASSUME NEW i \in 1..Len(files) PROVE after(i) \in S
    OBVIOUS
  <2>1. files[i] \in S
    <3> HIDE DEF S
    <3> QED
      BY <1>3, ElementOfSeq
  <2>2. [bytes |-> "torn", synced |-> TRUE] \in S
    BY DEF Damaged
  <2> QED
    BY <2>1, <2>2
<1>5. files' = [i \in 1..Len(files) |-> after(i)]
  BY <1>3
<1> HIDE DEF S, after
<1>6. files' \in Seq(S) /\ Len(files') = Len(files)
  <2>1. files' \in Seq(S)
    <3>1. files' \in [1..Len(files) -> S]
      BY <1>4, <1>5
    <3> QED
      BY <1>3, <3>1, SeqDef
  <2> QED
    BY <1>3, <1>5, <2>1, LenProperties
<1>7. \A i \in durable \ {0} : files'[i] = files[i] /\ files[i].synced
  <2>1. \A i \in durable \ {0} : i \in 1..Len(files) /\ files[i].synced
    BY DEF TypeOK, Whole
  <2> QED
    BY <1>5, <2>1 DEF after
<1>8. entry' \in durable /\ durable' = {entry'} /\ temps' = temps /\ litter' = temps
  OBVIOUS
<1>9. TypeOK'
  <2>1. Idle \in Call'
    <3>1. 0 \in 0..Len(files') /\ 0 \in 0..ReadAttempts - 1
      BY <1>3, <1>6, CacheAssumption
    <3> QED
      BY <3>1 DEF Idle, Call, Places, Reasons
  <2>2. run' \in [Procs -> Call'] /\ result' \in [Procs -> Result']
    BY <2>1 DEF TypeOK, Result
  <2>3. entry' \in 0..Len(files') /\ durable' \subseteq 0..Len(files')
    BY <1>6, <1>8 DEF TypeOK
  <2>4. faults' \in Nat
    BY DEF TypeOK
  <2> QED
    BY <1>6, <1>8, <2>2, <2>3, <2>4 DEF TypeOK, S
<1>10. Phases' /\ Owned' /\ Hidden' /\ Filled'
  BY <1>1, <1>2 DEF Phases, InPhase, Owned, Hidden, Filled, Writing, Reasons
<1>11. Whole'
  BY <1>7, <1>8 DEF Whole
<1>12. Opened' /\ Holding' /\ Undisturbed'
  BY <1>1, <1>2 DEF Opened, OpenedEntry, Holding, OverEntry, Undisturbed, SeesEntry, Writing, Reasons
<1>13. ReturnedWasEntry' /\ FailureExplained'
  BY DEF ReturnedWasEntry, FailureExplained
<1>14. NoResidue'
  BY <1>8 DEF NoResidue
<1> QED
  BY <1>9, <1>10, <1>11, <1>12, <1>13, <1>14

-------------------------------------------------------------------------------
(***************************************************************************)
(* The specification                                                       *)
(***************************************************************************)

(* An entry of an earlier run, if there is one, is whole and durable. *)
LEMMA Start ==
  ASSUME Init
  PROVE  IInv
<1>1. PICK bytes \in Responses \cup Damaged \cup {None} :
        /\ files = IF bytes = None THEN << >> ELSE <<[bytes |-> bytes, synced |-> TRUE]>>
        /\ published = {bytes} \ {None}
  BY DEF Init
<1>2. /\ Idle.at = "idle" /\ Idle.why = "looked" /\ Idle.temp = 0 /\ Idle.got = 0
      /\ Idle.previous = 0 /\ Idle.raw = None
  BY DEF Idle
<1>3. \A p \in Procs : run[p] = Idle
  BY DEF Init
<1>4. /\ files \in Seq([bytes: Responses \cup Damaged, synced: BOOLEAN])
      /\ entry = Len(files) /\ Len(files) \in Nat
      /\ entry # 0 => entry = 1 /\ files[1].synced /\ files[1].bytes \in published
  <2>1. CASE bytes = None
    BY <1>1, <2>1 DEF Init
  <2>2. CASE bytes # None
    <3> DEFINE first == [bytes |-> bytes, synced |-> TRUE]
               S == [bytes: Responses \cup Damaged, synced: BOOLEAN]
    <3>1. files = <<first>> /\ bytes \in published
      BY <1>1, <2>2
    <3>2. first \in S /\ first.synced /\ first.bytes = bytes
      BY <2>2
    <3> HIDE DEF first, S
    <3>3. files \in Seq(S) /\ Len(files) = 1 /\ files[1] = first
      BY <3>1, <3>2
    <3>4. entry = 1
      BY <3>3 DEF Init
    <3> QED
      BY <3>1, <3>2, <3>3, <3>4 DEF S
  <2> QED
    BY <2>1, <2>2
<1>5. durable = {entry} /\ temps = {} /\ litter = {}
  BY DEF Init
<1>6. TypeOK
  <2>1. 0 \in 0..Len(files) /\ 0 \in 0..ReadAttempts - 1 /\ entry \in 0..Len(files)
    BY <1>4, CacheAssumption
  <2>2. Idle \in Call
    BY <2>1 DEF Idle, Call, Places, Reasons
  <2>3. run \in [Procs -> Call]
    BY <2>2 DEF Init
  <2>4. result \in [Procs -> Result]
    BY DEF Init, Result
  <2>5. published \subseteq Responses \cup Damaged
    BY <1>1
  <2>6. held \in [Procs -> BOOLEAN] /\ excused \in [Procs -> BOOLEAN] /\ began \in Nat /\ faults \in Nat
    BY DEF Init
  <2> QED
    BY <1>4, <1>5, <2>1, <2>3, <2>4, <2>5, <2>6 DEF TypeOK
<1>7. Phases /\ Owned /\ Hidden /\ Filled
  BY <1>2, <1>3 DEF Phases, InPhase, Owned, Hidden, Filled, Writing, Reasons
<1>8. Whole
  BY <1>4, <1>5 DEF Whole
<1>9. Opened /\ Holding /\ Undisturbed
  BY <1>2, <1>3 DEF Opened, OpenedEntry, Holding, OverEntry, Undisturbed, SeesEntry, Writing, Reasons
<1>10. ReturnedWasEntry /\ FailureExplained
  BY DEF Init, ReturnedWasEntry, FailureExplained
<1>11. NoResidue
  BY <1>5 DEF NoResidue
<1> QED
  BY <1>6, <1>7, <1>8, <1>9, <1>10, <1>11 DEF IInv, Shape, Meaning, Promises

(* A stuttering step keeps the invariant. *)
LEMMA Stutter ==
  ASSUME IInv, UNCHANGED vars
  PROVE  IInv'
BY DEF vars, fileVars, runVars, countVars, historyVars, IInv, Shape, Meaning, Promises, TypeOK,
       Call, Result, Phases, InPhase, Owned, Hidden, Filled, Whole, Opened, OpenedEntry, Holding,
       OverEntry, Undisturbed, SeesEntry, Bytes, ReturnedWasEntry, FailureExplained, NoResidue

(* The inductive invariant holds of every behaviour of the cache. *)
THEOREM Inductive == Spec => []IInv
<1>1. IInv /\ [Next]_vars => IInv'
  <2>1. SUFFICES ASSUME IInv, [Next]_vars PROVE IInv'
    OBVIOUS
  <2>2. CASE PowerLoss
    BY <2>1, <2>2, PowerLost
  <2>3. ASSUME NEW p \in Procs, Step(p) PROVE IInv'
    BY <2>1, <2>3, Started, Stat, Open, Fstat, Read, Find, Ask, Create, Fill, CheckEntry,
       Rewrite, RewriteFails, Observe, Commit, Sync DEF Step
  <2>4. ASSUME NEW p \in Procs, WriteError(p) \/ Kill(p) PROVE IInv'
    BY <2>1, <2>4, FailToWrite, Killed
  <2>5. CASE UNCHANGED vars
    BY <2>1, <2>5, Stutter
  <2> QED
    BY <2>1, <2>2, <2>3, <2>4, <2>5 DEF Next
<1> QED
  BY <1>1, Start, PTL DEF Spec

(* Every variable keeps its type; no read is tried more often than the bound *)
(* of _read_entry_at.                                                        *)
THEOREM TypeCorrect == Spec => []TypeOK
<1>1. IInv => TypeOK
  BY DEF IInv, Shape
<1> QED
  BY <1>1, Inductive, PTL

(* No crash and no power loss leaves part of a write under the entry's name. *)
THEOREM EntryAlwaysWhole == Spec => []EntryWhole
<1>1. IInv => EntryWhole
  BY DEF IInv, Meaning, Whole, EntryWhole, Bytes
<1> QED
  BY <1>1, Inductive, PTL

(* An entry that can be found keeps every later call from the teacher.       *)
THEOREM EntryIsNeverPaidAgain == Spec => []NeverAsksOverEntry
<1>1. IInv => NeverAsksOverEntry
  <2> SUFFICES ASSUME IInv, NEW p \in Procs, held[p]
               PROVE  ~Missed(p) /\ run[p].raw = None /\ run[p].temp = 0
    BY DEF NeverAsksOverEntry
  <2>1. InPhase(run[p]) /\ OverEntry(run[p])
    BY OfCall
  <2>2. CASE run[p].at = "idle"
    BY <2>1, <2>2 DEF InPhase, Idle, Missed
  <2>3. CASE run[p].at # "idle"
    BY <2>1, <2>3 DEF InPhase, OverEntry, Missed
  <2> QED
    BY <2>2, <2>3
<1> QED
  BY <1>1, Inductive, PTL

(* What generate returns was the entry, at some moment, as a whole.          *)
THEOREM ReturnsEntries == Spec => []ReturnedWasEntry
<1>1. IInv => ReturnedWasEntry
  BY DEF IInv, Promises
<1> QED
  BY <1>1, Inductive, PTL

(* Without a fault and without another writer no call fails.                 *)
THEOREM FailuresAreExplained == Spec => []FailureExplained
<1>1. IInv => FailureExplained
  BY DEF IInv, Promises
<1> QED
  BY <1>1, Inductive, PTL

(* A temporary file outlives its call only when the process is killed.       *)
THEOREM NothingIsLeft == Spec => []NoResidue
<1>1. IInv => NoResidue
  BY DEF IInv, Promises
<1> QED
  BY <1>1, Inductive, PTL
===============================================================================
