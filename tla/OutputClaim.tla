------------------------------ MODULE OutputClaim ------------------------------
(***************************************************************************)
(* The output tree of incremental_training_ready.py.  A marker file names  *)
(* the paths a build owns; a build checks the tree, claims what it finds   *)
(* and what it will write, removes what it found, and writes its package.  *)
(* A failed build removes what is owned.  The batch lock admits one build  *)
(* at a time; the operator of the machine does not take it.                *)
(*                                                                         *)
(* Abstractions.  The three files of a case are one path, and the reports  *)
(* and the table but for the manifest and its sidecar another.  A file is  *)
(* the number of the build that wrote it.  A write is atomic, but a build  *)
(* that is killed may leave its temporary file.  The case list is fixed:   *)
(* the command accepts the frozen one only.                                *)
(***************************************************************************)
EXTENDS Naturals, FiniteSets

CONSTANTS
  None,        \* no file
  Operator,    \* whoever writes to the tree without taking the batch lock
  CasePaths,   \* the paths of the cases' artifacts
  Strangers,   \* paths that are no part of any package
  MaxBuilds,   \* bound: builds in a behaviour
  MaxFaults,   \* bound: failing writes and removals, and kills
  MaxMeddling  \* bound: what the operator does to the tree

(* A file is of the operator, of build n, or of a version of the program *)
(* that knew no marker.                                                  *)
Older == 0

ASSUME ClaimAssumption ==
  /\ MaxBuilds \in Nat /\ MaxFaults \in Nat /\ MaxMeddling \in Nat
  /\ {"report", "manifest", "sidecar"} \cap (CasePaths \cup Strangers) = {}
  /\ CasePaths \cap Strangers = {}
  /\ Operator \notin Nat /\ None \notin Nat /\ Operator # None

Fixed == {"report", "manifest", "sidecar"}
Paths == CasePaths \cup Fixed \cup Strangers

(* The cases of the base package are in every package. *)
Plans == {cases \cup Fixed : cases \in (SUBSET CasePaths) \ {{}}}

Directories == {"cases", "reports"}
DirectoryOf(p) == IF p \in Fixed THEN "reports" ELSE "cases"

VARIABLES
  marker,    \* the paths the marker file owns, {} without marker file
  tree,      \* tree[p]: who wrote the file at p, None without file
  dirs,      \* the directories that exist
  listed,    \* the artifacts the manifest on disk lists
  residue,   \* a temporary file of a killed build is in the tree
  at,        \* where the running build is, "idle" when none runs
  plan,      \* the paths of the package it builds
  found,     \* the ownership state its first check found
  todo,      \* the paths it has yet to remove or write
  outcome,   \* how the last build ended
  builds, faults, meddling,  \* how many of each occurred
  accepted,  \* history: the first check of the last build accepted the tree
  disturbed, \* history: since the last build began the operator acted, or its
             \* clean-up failed
  lost       \* history: a failed build removed files of an unmarked package

disk    == <<marker, tree, dirs, listed, residue>>
build   == <<at, plan, found, todo, outcome>>
counts  == <<builds, faults, meddling>>
history == <<accepted, disturbed, lost>>
vars    == <<disk, build, counts, history>>

-------------------------------------------------------------------------------
(***************************************************************************)
(* Who owns the tree                                                       *)
(***************************************************************************)

Present == {p \in Paths : tree[p] # None}

Nothing == marker = {} /\ dirs = {} /\ Present = {}

(* Without a marker a complete package is recognised by its manifest. *)
PackageOf(n) ==
  /\ dirs = Directories
  /\ {"manifest", "sidecar"} \subseteq Present
  /\ listed \cup {"manifest", "sidecar"} = Present
  /\ \A p \in Present : tree[p] = n

Legacy == marker = {} /\ PackageOf(Older)

Acceptable ==
  /\ ~residue
  /\ \/ marker # {} /\ Present \subseteq marker
     \/ Nothing
     \/ Legacy

Owned ==
  IF marker # {} THEN marker
  ELSE IF Present = {} THEN {} ELSE listed \cup {"manifest", "sidecar"}

Ownership ==
  [owned |-> Owned, observed |-> Present, directories |-> dirs, marked |-> marker # {}]

-------------------------------------------------------------------------------
(***************************************************************************)
(* A build                                                                 *)
(***************************************************************************)

Init ==
  /\ marker = {} /\ residue = FALSE
  /\ \/ tree = [p \in Paths |-> None] /\ dirs = {} /\ listed = {}
     \/ \E package \in Plans :
          /\ tree = [p \in Paths |-> IF p \in package THEN Older ELSE None]
          /\ dirs = Directories
          /\ listed = package \ {"manifest", "sidecar"}
  /\ at = "idle" /\ plan = {} /\ todo = {} /\ outcome = "none"
  /\ found = Ownership
  /\ builds = 0 /\ faults = 0 /\ meddling = 0
  /\ accepted = FALSE /\ disturbed = FALSE /\ lost = FALSE

(* The build goes on elsewhere; nothing on disk changes. *)
Goto(place) == at' = place /\ UNCHANGED <<disk, plan, outcome>>

StartBuild ==
  /\ at = "idle"
  /\ builds < MaxBuilds /\ builds' = builds + 1
  /\ at' = IF Acceptable THEN "prepare" ELSE "failed"
  /\ found' = Ownership /\ outcome' = "none"
  /\ accepted' = Acceptable /\ disturbed' = FALSE
  /\ UNCHANGED <<disk, plan, todo, faults, meddling, lost>>

(* The sources are read and every episode is compiled before anything is *)
(* written; what does not hold of the sources ends the build here.       *)
Prepare ==
  /\ at = "prepare"
  /\ \/ at' = "claim" /\ plan' \in Plans
     \/ at' = "failed" /\ UNCHANGED plan
  /\ UNCHANGED <<disk, found, todo, outcome, counts, history>>

CheckClaim ==
  /\ at = "claim"
  /\ Goto(IF Acceptable /\ Ownership = found THEN "mark" ELSE "failed")
  /\ UNCHANGED <<found, todo, counts, history>>

(* Mutant: the marker names the new package at once. *)
MarkPlanned ==
  /\ at = "mark"
  /\ marker' = plan
  /\ at' = "clear" /\ todo' = found.owned
  /\ UNCHANGED <<tree, dirs, listed, residue, plan, found, outcome, counts, history>>

(* Mutant: what is claimed is what is there by now. *)
MarkRescanned ==
  /\ at = "mark"
  /\ marker' = Present \cup plan
  /\ at' = "clear" /\ todo' = found.owned
  /\ UNCHANGED <<tree, dirs, listed, residue, plan, found, outcome, counts, history>>

(* Mutant: the marker is not written before the old package is gone. *)
MarkLater ==
  /\ at = "mark"
  /\ at' = "clear" /\ todo' = found.owned
  /\ UNCHANGED <<disk, plan, found, outcome, counts, history>>

(* The marker owns what was found and what will be written. *)
MarkAll ==
  /\ at = "mark"
  /\ marker' = found.owned \cup plan
  /\ at' = "clear" /\ todo' = found.owned
  /\ UNCHANGED <<tree, dirs, listed, residue, plan, found, outcome, counts, history>>

(* Owned paths are removed one by one, in an order that does not matter, to *)
(* make room for the package or after a failure.                            *)
RemoveOwned(p) ==
  /\ at \in {"clear", "undo"} /\ p \in todo
  /\ tree' = [tree EXCEPT ![p] = None]
  /\ todo' = todo \ {p}
  /\ lost' = (lost \/ (at = "undo" /\ marker = {}))
  /\ UNCHANGED <<marker, dirs, listed, residue, at, plan, found, outcome, counts,
                 accepted, disturbed>>

CheckCleared ==
  /\ at = "clear" /\ todo = {}
  /\ Goto(IF ~residue /\ Present = {} THEN "own" ELSE "failed")
  /\ UNCHANGED <<found, todo, counts, history>>

MarkPackage ==
  /\ at = "own"
  /\ marker' = plan
  /\ at' = "write" /\ todo' = plan
  /\ UNCHANGED <<tree, dirs, listed, residue, plan, found, outcome, counts, history>>

(* The cases come first, the manifest after all it lists, its digest last. *)
NextToWrite ==
  IF todo \cap CasePaths # {} THEN todo \cap CasePaths
  ELSE IF "report" \in todo THEN {"report"}
  ELSE IF "manifest" \in todo THEN {"manifest"} ELSE todo

WriteArtifact(p) ==
  /\ at = "write" /\ p \in NextToWrite
  /\ tree' = [tree EXCEPT ![p] = builds]
  /\ dirs' = dirs \cup {DirectoryOf(p)}
  /\ listed' = IF p = "manifest" THEN plan \ {"manifest", "sidecar"} ELSE listed
  /\ todo' = todo \ {p}
  /\ UNCHANGED <<marker, residue, at, plan, found, outcome, counts, history>>

(* Mutant: the build is over when its last file is written. *)
FinishUnchecked ==
  /\ at = "write" /\ todo = {}
  /\ at' = "idle" /\ outcome' = "success"
  /\ UNCHANGED <<disk, plan, found, todo, counts, history>>

FinishBuild ==
  /\ at = "write" /\ todo = {}
  /\ \/ Acceptable /\ Present = plan /\ at' = "idle" /\ outcome' = "success"
     \/ ~(Acceptable /\ Present = plan) /\ at' = "failed" /\ UNCHANGED outcome
  /\ UNCHANGED <<disk, plan, found, todo, counts, history>>

(* Mutant: a failed build leaves the tree as it is. *)
LeaveAll ==
  /\ at = "failed"
  /\ at' = "idle" /\ outcome' = "failed"
  /\ UNCHANGED <<disk, plan, found, todo, counts, history>>

(* Mutant: a failed build removes all there is. *)
UndoAll ==
  /\ at = "failed"
  /\ at' = "undo" /\ todo' = Present
  /\ UNCHANGED <<disk, plan, found, outcome, counts, history>>

(* A failed build checks the tree anew and removes what it owns; an error of *)
(* the clean-up is not reported.                                             *)
Undo ==
  /\ at = "failed"
  /\ \/ Acceptable /\ at' = "undo" /\ todo' = Owned /\ UNCHANGED outcome
     \/ ~Acceptable /\ at' = "idle" /\ todo' = {} /\ outcome' = "failed"
  /\ UNCHANGED <<disk, plan, found, counts, history>>

Undone ==
  /\ at = "undo" /\ todo = {}
  /\ at' = "idle" /\ outcome' = "failed"
  /\ UNCHANGED <<disk, plan, found, todo, counts, history>>

-------------------------------------------------------------------------------
(***************************************************************************)
(* Faults, and the operator                                                *)
(***************************************************************************)

(* A write or a removal raises.  What is left of a case is removed at once. *)
Error ==
  /\ at \in {"mark", "own", "write", "clear", "undo"}
  /\ faults < MaxFaults /\ faults' = faults + 1
  /\ disturbed' = (disturbed \/ at = "undo")
  /\ IF at = "undo"
     THEN at' = "idle" /\ outcome' = "failed" /\ todo' = {} /\ UNCHANGED tree
     ELSE /\ at' = "failed" /\ UNCHANGED <<outcome, todo>>
          /\ tree' \in {tree} \cup
               IF at # "write" THEN {}
               ELSE {[tree EXCEPT ![p] = None] : p \in NextToWrite \cap CasePaths}
  /\ UNCHANGED <<marker, dirs, listed, residue, plan, found, builds, meddling,
                 accepted, lost>>

Kill ==
  /\ at # "idle"
  /\ faults < MaxFaults /\ faults' = faults + 1
  /\ at' = "idle" /\ outcome' = "killed" /\ todo' = {}
  /\ residue' \in {residue, residue \/ at \in {"mark", "own", "write"}}
  /\ UNCHANGED <<marker, tree, dirs, listed, plan, found, builds, meddling, history>>

Meddle == meddling < MaxMeddling /\ meddling' = meddling + 1 /\ disturbed' = TRUE

(* A file that is in place is not overwritten by the operator: the program    *)
(* goes by names there, and would neither notice nor claim to.               *)
OperatorWrites(p) ==
  /\ Meddle
  /\ tree[p] = None /\ tree' = [tree EXCEPT ![p] = Operator]
  /\ dirs' = dirs \cup {DirectoryOf(p)}
  /\ UNCHANGED <<marker, listed, residue, build, builds, faults, accepted, lost>>

(* What the operator removes is its own file, and the directory it empties, *)
(* or a temporary file that nobody will need.                               *)
OperatorRemoves(p) ==
  /\ Meddle
  /\ tree[p] = Operator /\ tree' = [tree EXCEPT ![p] = None]
  /\ dirs' = IF \E q \in Paths \ {p} : tree[q] # None /\ DirectoryOf(q) = DirectoryOf(p)
             THEN dirs ELSE dirs \ {DirectoryOf(p)}
  /\ UNCHANGED <<marker, listed, residue, build, builds, faults, accepted, lost>>

OperatorTidies ==
  /\ Meddle
  /\ residue /\ residue' = FALSE
  /\ UNCHANGED <<marker, tree, dirs, listed, build, builds, faults, accepted, lost>>

-------------------------------------------------------------------------------
BuildStep ==
  \/ StartBuild \/ Prepare \/ CheckClaim \/ MarkAll \/ CheckCleared \/ MarkPackage
  \/ \E p \in Paths : RemoveOwned(p) \/ WriteArtifact(p)
  \/ FinishBuild \/ Undo \/ Undone

OperatorStep ==
  OperatorTidies \/ \E p \in Paths : OperatorWrites(p) \/ OperatorRemoves(p)

Next == BuildStep \/ Error \/ Kill \/ OperatorStep

Spec == Init /\ [][Next]_vars

-------------------------------------------------------------------------------
(***************************************************************************)
(* Properties                                                              *)
(***************************************************************************)

(* Every variable has its type. *)
TypeOK ==
  /\ marker \subseteq Paths \ Strangers
  /\ tree \in [Paths -> Nat \cup {Operator, None}]
  /\ dirs \subseteq Directories /\ listed \subseteq Paths \ Strangers
  /\ residue \in BOOLEAN
  /\ at \in {"idle", "prepare", "claim", "mark", "clear", "own", "write", "failed", "undo"}
  /\ plan \in Plans \cup {{}}
  /\ found \in [owned: SUBSET Paths, observed: SUBSET Paths,
                directories: SUBSET Directories, marked: BOOLEAN]
  /\ todo \subseteq Paths \ Strangers
  /\ outcome \in {"none", "success", "failed", "killed"}
  /\ builds \in Nat /\ faults \in Nat /\ meddling \in Nat
  /\ accepted \in BOOLEAN /\ disturbed \in BOOLEAN /\ lost \in BOOLEAN

(* Once there is a marker, it owns everything the program ever wrote that is *)
(* still there: of the old package, of the new one, of both half way.        *)
OwnsWhatItWrote ==
  \A p \in Paths : tree[p] \in Nat =>
    IF marker = {} THEN tree[p] = Older ELSE p \in marker

(* No build removes or replaces a file of the operator that the marker does  *)
(* not own, whenever the operator put it there.                              *)
RemovesOnlyOwned ==
  [][\A p \in Paths :
       tree[p] = Operator /\ tree'[p] # Operator /\ meddling' = meddling
       => marker # {} /\ p \in marker]_vars

(* However a build ended, the next one can claim the tree, once the files of *)
(* the operator and the temporary file of a killed write are out of the way. *)
(* The exception is an unmarked package that a failing build has removed.    *)
Reclaimable ==
  at = "idle" /\ ~residue /\ ~lost /\ (\A p \in Paths : tree[p] # Operator)
  => Acceptable

(* A package that is reported is the one of that build: complete, with no    *)
(* file of an earlier one or of the operator, and its manifest lists it.     *)
ReportedIsWhole ==
  [][outcome # "success" /\ outcome' = "success"
     => PackageOf(builds)' /\ Present' = plan' /\ marker' = plan']_vars

(* A rebuild that fails leaves no package behind, not even the previous one: *)
(* what is on disk never is what an earlier build reported.                  *)
NothingStaleAfterFailure ==
  at = "idle" /\ outcome = "failed" /\ accepted /\ ~disturbed => Present = {}
===============================================================================
