--------------------------- MODULE OutputClaimProofs ---------------------------
(***************************************************************************)
(* Every property of OutputClaim, for any number of cases, builds, faults  *)
(* and acts of the operator.                                               *)
(***************************************************************************)
EXTENDS OutputClaim, TLAPS

-------------------------------------------------------------------------------
(***************************************************************************)
(* The inductive invariant                                                 *)
(***************************************************************************)

(* The files of the program, whatever version of it. *)
Ours == {p \in Paths : tree[p] \in Nat}

(* From the claim on, what the program has in the tree is what it is about to *)
(* remove, or what it has written.                                            *)
Claiming ==
  /\ at = "claim" => plan \in Plans
  /\ at = "mark" => plan \in Plans /\ Ours \subseteq found.owned
                    /\ found.owned \subseteq Paths \ Strangers
  /\ at = "clear" => /\ plan \in Plans /\ Ours \subseteq todo
                     /\ marker = found.owned \cup plan /\ todo \subseteq found.owned
  /\ at = "own" => plan \in Plans /\ Ours = {} /\ marker # {}
  /\ at = "undo" => /\ Ours \subseteq todo
                    /\ \A p \in todo : IF marker = {} THEN tree[p] = Older
                                       ELSE p \in marker

Writing ==
  at = "write" =>
    /\ plan \in Plans /\ marker = plan /\ todo \subseteq plan
    /\ Ours = plan \ todo
    /\ \A p \in plan \ todo : tree[p] = builds /\ DirectoryOf(p) \in dirs
    /\ "manifest" \notin todo => listed = plan \ {"manifest", "sidecar"}

(* A tree without a marker is as it was found, but for what the operator did. *)
Unmarked ==
  marker = {} /\ ~lost =>
    \/ Ours = {} /\ dirs = {DirectoryOf(p) : p \in Present}
    \/ /\ Ours = listed \cup {"manifest", "sidecar"} /\ Ours \in Plans
       /\ dirs = Directories

(* A build that nothing interferes with finds the tree acceptable throughout. *)
Quiet ==
  accepted /\ ~disturbed /\ at # "idle" =>
    /\ ~residue
    /\ at # "undo" => Acceptable
    /\ at = "mark" => Present \subseteq found.owned
    /\ at \in {"clear", "undo"} => Present \subseteq todo
    /\ at = "own" => Present = {}

IInv ==
  /\ TypeOK /\ OwnsWhatItWrote
  /\ Claiming /\ Writing /\ Unmarked /\ Quiet
  /\ NothingStaleAfterFailure
-------------------------------------------------------------------------------
(***************************************************************************)
(* Names, and what an acceptable tree owns                                 *)
(***************************************************************************)

(* A package has a case and all the fixed paths, and no stranger. *)
LEMMA PlanPaths ==
  /\ Fixed \subseteq Paths \ Strangers
  /\ \A package \in Plans :
       /\ package \subseteq Paths \ Strangers /\ package # {}
       /\ Fixed \subseteq package
       /\ {DirectoryOf(p) : p \in package} = Directories
<1>1. Fixed \subseteq Paths \ Strangers /\ CasePaths \subseteq Paths \ Strangers
  BY ClaimAssumption DEF Fixed, Paths
<1>2. ASSUME NEW package \in Plans
      PROVE  /\ package \subseteq Paths \ Strangers /\ package # {}
             /\ Fixed \subseteq package
             /\ {DirectoryOf(p) : p \in package} = Directories
  <2>1. PICK cases \in (SUBSET CasePaths) \ {{}} : package = cases \cup Fixed
    BY DEF Plans
  <2>2. PICK c \in cases : TRUE
    BY <2>1
  <2>2a. c \in CasePaths /\ c \notin Fixed
    BY <2>1, <2>2, ClaimAssumption DEF Fixed
  <2>3. DirectoryOf(c) = "cases" /\ DirectoryOf("report") = "reports"
    BY <2>2a DEF DirectoryOf, Fixed
  <2>4. "report" \in package /\ c \in package
    BY <2>1, <2>2 DEF Fixed
  <2>5. \A p \in package : DirectoryOf(p) \in Directories
    BY DEF DirectoryOf, Directories
  <2> QED
    BY <1>1, <2>1, <2>3, <2>4, <2>5 DEF Directories, Fixed
<1> QED
  BY <1>1, <1>2

(* What the tree shows stays the same while the disk does. *)
LEMMA SameDisk ==
  ASSUME UNCHANGED disk
  PROVE  /\ Present' = Present /\ Ours' = Ours /\ Owned' = Owned
         /\ Acceptable' = Acceptable /\ Ownership' = Ownership
BY DEF disk, Present, Ours, Owned, Acceptable, Ownership, Nothing, Legacy, PackageOf

(* An acceptable tree has nothing beside what is owned. *)
LEMMA AcceptableOwned ==
  ASSUME TypeOK, OwnsWhatItWrote, Acceptable
  PROVE  /\ Present \subseteq Owned /\ Ours \subseteq Owned
         /\ Owned \subseteq Paths \ Strangers
         /\ \A p \in Owned : IF marker = {} THEN tree[p] = Older ELSE p \in marker
<1>1. Ours \subseteq Present
  BY ClaimAssumption DEF Ours, Present
<1>2. CASE marker # {} /\ Present \subseteq marker
  BY <1>1, <1>2 DEF Owned, TypeOK
<1>3. CASE Nothing
  BY <1>1, <1>3 DEF Nothing, Owned
<1>4. CASE Legacy
  <2>1. /\ marker = {} /\ Present = listed \cup {"manifest", "sidecar"}
        /\ \A p \in Present : tree[p] = Older
    BY <1>4 DEF Legacy, PackageOf
  <2>2. Owned = Present
    BY <2>1 DEF Owned
  <2>3. Present \subseteq Paths \ Strangers
    BY <2>1, PlanPaths DEF TypeOK, Fixed
  <2> QED
    BY <1>1, <2>1, <2>2, <2>3
<1> QED
  BY <1>2, <1>3, <1>4 DEF Acceptable

-------------------------------------------------------------------------------
(***************************************************************************)
(* Steps that leave the disk alone                                         *)
(***************************************************************************)

(* A step that leaves the disk alone keeps what is said of the disk. *)
LEMMA DiskKept ==
  ASSUME IInv, UNCHANGED disk, lost => lost'
  PROVE  /\ OwnsWhatItWrote' /\ Unmarked'
         /\ marker' \subseteq Paths \ Strangers
         /\ tree' \in [Paths -> Nat \cup {Operator, None}]
         /\ dirs' \subseteq Directories /\ listed' \subseteq Paths \ Strangers
         /\ residue' \in BOOLEAN
         /\ Present' = Present /\ Ours' = Ours /\ Acceptable' = Acceptable
         /\ tree' = tree /\ marker' = marker /\ dirs' = dirs /\ listed' = listed
         /\ residue' = residue
<1>1. /\ tree' = tree /\ marker' = marker /\ dirs' = dirs /\ listed' = listed
      /\ residue' = residue
  BY DEF disk
<1>2. Present' = Present /\ Ours' = Ours /\ Acceptable' = Acceptable
  BY SameDisk
<1>3. OwnsWhatItWrote' /\ Unmarked'
  BY <1>1, <1>2 DEF IInv, OwnsWhatItWrote, Unmarked
<1> QED
  BY <1>1, <1>2, <1>3 DEF IInv, TypeOK

(* The first check of a build notes the state it finds. *)
LEMMA Started ==
  ASSUME IInv, StartBuild
  PROVE  IInv'
<1>1. UNCHANGED <<disk, plan, todo, faults, meddling, lost>> /\ builds' = builds + 1
  BY DEF StartBuild
<1> USE DiskKept, <1>1
<1>2. found' = Ownership /\ accepted' = Acceptable /\ disturbed' = FALSE /\ outcome' = "none"
      /\ at' = IF Acceptable THEN "prepare" ELSE "failed"
  BY DEF StartBuild
<1>3. Ownership \in [owned: SUBSET Paths, observed: SUBSET Paths,
                     directories: SUBSET Directories, marked: BOOLEAN]
  <2>1. Owned \subseteq Paths
    BY PlanPaths DEF IInv, TypeOK, Owned, Fixed
  <2> QED
    BY <2>1 DEF IInv, TypeOK, Ownership, Present
<1>4. Acceptable => ~residue
  BY DEF Acceptable
<1>5. TypeOK'
  <2>1. /\ plan' = plan /\ todo' = todo /\ faults' = faults /\ meddling' = meddling
        /\ lost' = lost /\ builds' \in Nat
    BY DEF IInv, TypeOK
  <2>2. /\ at' \in {"prepare", "failed"} /\ found' \in [owned: SUBSET Paths, observed: SUBSET Paths,
                     directories: SUBSET Directories, marked: BOOLEAN]
        /\ accepted' \in BOOLEAN
    BY <1>2, <1>3 DEF Acceptable
  <2>3. /\ plan \in Plans \cup {{}} /\ todo \subseteq Paths \ Strangers
        /\ faults \in Nat /\ meddling \in Nat /\ lost \in BOOLEAN
    BY DEF IInv, TypeOK
  <2>4. disturbed' \in BOOLEAN /\ outcome' \in {"none", "success", "failed", "killed"}
    BY <1>2
  <2> QED
    BY <2>1, <2>2, <2>3, <2>4, DiskKept DEF TypeOK
<1>6. Claiming' /\ Writing'
  BY <1>2 DEF Claiming, Writing
<1>7. Quiet' /\ NothingStaleAfterFailure'
  BY <1>2, <1>4 DEF Quiet, NothingStaleAfterFailure
<1> QED
  BY <1>5, <1>6, <1>7 DEF IInv

(* A prepared build has a plan. *)
LEMMA Prepared ==
  ASSUME IInv, Prepare
  PROVE  IInv'
<1>1. /\ UNCHANGED <<disk, found, todo, outcome, counts, history>> /\ at = "prepare"
      /\ at' \in {"claim", "failed"} /\ plan' \in Plans \cup {{}}
      /\ at' = "claim" => plan' \in Plans
  BY DEF Prepare, IInv, TypeOK
<1> USE DiskKept, <1>1 DEF counts, history
<1>2. TypeOK'
  BY DEF IInv, TypeOK
<1>3. Claiming' /\ Writing' /\ Quiet' /\ NothingStaleAfterFailure'
  BY DEF IInv, Claiming, Writing, Quiet, NothingStaleAfterFailure
<1> QED
  BY <1>2, <1>3 DEF IInv

(* The second check finds what the first noted, and nothing that is not owned. *)
LEMMA Checked ==
  ASSUME IInv, CheckClaim
  PROVE  IInv'
<1>1. /\ UNCHANGED <<disk, plan, outcome, found, todo, counts, history>> /\ at = "claim"
      /\ at' = IF Acceptable /\ Ownership = found THEN "mark" ELSE "failed"
  BY DEF CheckClaim, Goto
<1> USE DiskKept, <1>1 DEF counts, history
<1>2. TypeOK'
  BY DEF IInv, TypeOK
<1>3. at' = "mark" => found.owned = Owned /\ Ours \subseteq Owned
                      /\ Owned \subseteq Paths \ Strangers /\ Present \subseteq Owned
  BY AcceptableOwned DEF IInv, Ownership
<1>4. Claiming' /\ Writing' /\ Quiet' /\ NothingStaleAfterFailure'
  BY <1>3 DEF IInv, Claiming, Writing, Quiet, NothingStaleAfterFailure
<1> QED
  BY <1>2, <1>4 DEF IInv

-------------------------------------------------------------------------------
(***************************************************************************)
(* The marker is written                                                   *)
(***************************************************************************)

(* The marker that names both packages covers the old one. *)
LEMMA MarkedAll ==
  ASSUME IInv, MarkAll
  PROVE  IInv'
<1>1. /\ UNCHANGED <<tree, dirs, listed, residue, plan, found, outcome>>
      /\ UNCHANGED <<counts, history>> /\ at = "mark" /\ at' = "clear"
      /\ marker' = found.owned \cup plan /\ todo' = found.owned
  BY DEF MarkAll
<1>2. /\ plan \in Plans /\ Ours \subseteq found.owned
      /\ found.owned \subseteq Paths \ Strangers
      /\ plan \subseteq Paths \ Strangers /\ plan # {}
  BY <1>1, PlanPaths DEF IInv, Claiming
<1>3. Ours' = Ours /\ Present' = Present /\ marker' # {}
  BY <1>1, <1>2 DEF Ours, Present
<1> USE <1>1, <1>2, <1>3 DEF counts, history
<1>4. TypeOK'
  BY DEF IInv, TypeOK
<1>5. OwnsWhatItWrote'
  BY DEF OwnsWhatItWrote, Ours
<1>6. Claiming' /\ Writing' /\ Unmarked' /\ NothingStaleAfterFailure'
  BY DEF Claiming, Writing, Unmarked, NothingStaleAfterFailure
<1>7. Quiet'
  BY DEF IInv, Quiet, Acceptable
<1> QED
  BY <1>4, <1>5, <1>6, <1>7 DEF IInv

(* The marker that names the new package replaces one of a tree that is bare. *)
LEMMA MarkedPackage ==
  ASSUME IInv, MarkPackage
  PROVE  IInv'
<1>1. /\ UNCHANGED <<tree, dirs, listed, residue, plan, found, outcome>>
      /\ UNCHANGED <<counts, history>> /\ at = "own" /\ at' = "write"
      /\ marker' = plan /\ todo' = plan
  BY DEF MarkPackage
<1>2. /\ plan \in Plans /\ Ours = {} /\ plan \subseteq Paths \ Strangers /\ plan # {}
      /\ "manifest" \in plan
  BY <1>1, PlanPaths DEF IInv, Claiming, Fixed
<1>3. Ours' = Ours /\ Present' = Present
  BY <1>1 DEF Ours, Present
<1> USE <1>1, <1>2, <1>3 DEF counts, history
<1>4. TypeOK'
  BY DEF IInv, TypeOK
<1>5. OwnsWhatItWrote'
  BY DEF OwnsWhatItWrote, Ours
<1>6. Claiming' /\ Writing' /\ Unmarked' /\ NothingStaleAfterFailure'
  BY DEF Claiming, Writing, Unmarked, NothingStaleAfterFailure
<1>7. Quiet'
  BY DEF IInv, Quiet, Acceptable
<1> QED
  BY <1>4, <1>5, <1>6, <1>7 DEF IInv

-------------------------------------------------------------------------------
(***************************************************************************)
(* Files are removed and written                                           *)
(***************************************************************************)

(* What the tree shows when the file at one path has changed. *)
LEMMA OneFile ==
  ASSUME TypeOK, NEW p \in Paths, NEW writer \in Nat \cup {Operator, None},
         tree' = [tree EXCEPT ![p] = writer]
  PROVE  /\ tree' \in [Paths -> Nat \cup {Operator, None}]
         /\ \A q \in Paths : tree'[q] = IF q = p THEN writer ELSE tree[q]
         /\ Present' = IF writer = None THEN Present \ {p} ELSE Present \cup {p}
         /\ Ours' = IF writer \in Nat THEN Ours \cup {p} ELSE Ours \ {p}
<1>1. tree \in [Paths -> Nat \cup {Operator, None}]
  BY DEF TypeOK
<1>2. /\ tree' \in [Paths -> Nat \cup {Operator, None}]
      /\ \A q \in Paths : tree'[q] = IF q = p THEN writer ELSE tree[q]
  BY <1>1
<1>3. Present' = IF writer = None THEN Present \ {p} ELSE Present \cup {p}
  BY <1>2 DEF Present
<1>4. Ours' = IF writer \in Nat THEN Ours \cup {p} ELSE Ours \ {p}
  BY <1>2 DEF Ours
<1> QED
  BY <1>2, <1>3, <1>4

(* One owned path less. *)
LEMMA Removed ==
  ASSUME IInv, NEW p \in Paths, RemoveOwned(p)
  PROVE  IInv'
<1>1. /\ UNCHANGED <<marker, dirs, listed, residue, at, plan, found, outcome>>
      /\ UNCHANGED <<counts, accepted, disturbed>>
      /\ at \in {"clear", "undo"} /\ p \in todo /\ todo' = todo \ {p}
      /\ tree' = [tree EXCEPT ![p] = None]
      /\ lost' = (lost \/ (at = "undo" /\ marker = {}))
  BY DEF RemoveOwned
<1>2. /\ tree' \in [Paths -> Nat \cup {Operator, None}]
      /\ \A q \in Paths : tree'[q] = IF q = p THEN None ELSE tree[q]
      /\ Present' = Present \ {p} /\ Ours' = Ours \ {p}
  BY <1>1, OneFile, ClaimAssumption DEF IInv
<1>3. at = "clear" => /\ plan \in Plans /\ marker = found.owned \cup plan /\ plan # {}
                      /\ todo \subseteq found.owned
  BY PlanPaths DEF IInv, Claiming
<1>4. TypeOK /\ todo \subseteq Paths
  BY DEF IInv, TypeOK
<1> USE <1>1, <1>2, <1>3 DEF counts
<1>5. TypeOK'
  BY <1>4 DEF TypeOK
<1>6. OwnsWhatItWrote'
  BY ClaimAssumption DEF IInv, OwnsWhatItWrote
<1>7. Claiming'
  BY <1>4 DEF IInv, Claiming
<1>8. Writing' /\ Unmarked' /\ NothingStaleAfterFailure'
  BY DEF Writing, Unmarked, NothingStaleAfterFailure
<1>9. Quiet'
  BY DEF IInv, Quiet, Acceptable
<1> QED
  BY <1>5, <1>6, <1>7, <1>8, <1>9 DEF IInv

(* A tree that is bare has nothing of the program. *)
LEMMA Cleared ==
  ASSUME IInv, CheckCleared
  PROVE  IInv'
<1>1. /\ UNCHANGED <<disk, plan, outcome, found, todo, counts, history>>
      /\ at = "clear" /\ todo = {}
      /\ at' = IF ~residue /\ Present = {} THEN "own" ELSE "failed"
  BY DEF CheckCleared, Goto
<1> USE DiskKept, <1>1 DEF counts, history
<1>2. TypeOK'
  BY DEF IInv, TypeOK
<1>3. plan \in Plans /\ Ours = {} /\ marker # {}
  BY PlanPaths DEF IInv, Claiming
<1>4. Claiming' /\ Writing' /\ Quiet' /\ NothingStaleAfterFailure'
  BY <1>3 DEF IInv, Claiming, Writing, Quiet, NothingStaleAfterFailure
<1> QED
  BY <1>2, <1>4 DEF IInv

(* One path of the package more. *)
LEMMA Written ==
  ASSUME IInv, NEW p \in Paths, WriteArtifact(p)
  PROVE  IInv'
<1>1. /\ UNCHANGED <<marker, residue, at, plan, found, outcome, counts, history>>
      /\ at = "write" /\ todo' = todo \ {p}
      /\ tree' = [tree EXCEPT ![p] = builds] /\ dirs' = dirs \cup {DirectoryOf(p)}
      /\ listed' = IF p = "manifest" THEN plan \ {"manifest", "sidecar"} ELSE listed
  BY DEF WriteArtifact
<1>2. p \in todo
  BY DEF WriteArtifact, NextToWrite
<1>3. /\ TypeOK /\ builds \in Nat
      /\ plan \in Plans /\ marker = plan /\ todo \subseteq plan
      /\ Ours = plan \ todo /\ plan \subseteq Paths \ Strangers /\ plan # {}
      /\ \A q \in plan \ todo : tree[q] = builds /\ DirectoryOf(q) \in dirs
      /\ "manifest" \notin todo => listed = plan \ {"manifest", "sidecar"}
  BY <1>1, PlanPaths DEF IInv, TypeOK, Writing
<1>4. /\ tree' \in [Paths -> Nat \cup {Operator, None}]
      /\ \A q \in Paths : tree'[q] = IF q = p THEN builds ELSE tree[q]
      /\ Present' = Present \cup {p} /\ Ours' = Ours \cup {p}
  BY <1>1, <1>3, OneFile, ClaimAssumption
<1> USE <1>1, <1>2, <1>3, <1>4 DEF counts, history
<1>5. TypeOK'
  <2>1. DirectoryOf(p) \in Directories
    BY DEF DirectoryOf, Directories
  <2> QED
    BY <2>1 DEF TypeOK
<1>6. OwnsWhatItWrote'
  BY DEF OwnsWhatItWrote, Ours
<1>7. Writing'
  BY DEF Writing
<1>8. Claiming' /\ Unmarked' /\ NothingStaleAfterFailure'
  BY DEF Claiming, Unmarked, NothingStaleAfterFailure
<1>9. Quiet'
  BY DEF IInv, Quiet, Acceptable, Nothing, Legacy
<1> QED
  BY <1>5, <1>6, <1>7, <1>8, <1>9 DEF IInv

-------------------------------------------------------------------------------
(***************************************************************************)
(* A build ends                                                            *)
(***************************************************************************)

(* A build is reported, or goes on to its clean-up. *)
LEMMA Finished ==
  ASSUME IInv, FinishBuild
  PROVE  IInv'
<1>1. /\ UNCHANGED <<disk, plan, found, todo, counts, history>> /\ at = "write"
      /\ \/ at' = "idle" /\ outcome' = "success"
         \/ at' = "failed" /\ UNCHANGED outcome
  BY DEF FinishBuild
<1> USE DiskKept, <1>1 DEF counts, history
<1>2. TypeOK'
  BY DEF IInv, TypeOK
<1>3. Claiming' /\ Writing' /\ Quiet' /\ NothingStaleAfterFailure'
  BY DEF IInv, Claiming, Writing, Quiet, NothingStaleAfterFailure
<1> QED
  BY <1>2, <1>3 DEF IInv

(* The clean-up has everything of the program before it. *)
LEMMA Undoing ==
  ASSUME IInv, Undo
  PROVE  IInv'
<1>1. /\ UNCHANGED <<disk, plan, found, counts, history>> /\ at = "failed"
      /\ \/ Acceptable /\ at' = "undo" /\ todo' = Owned /\ UNCHANGED outcome
         \/ ~Acceptable /\ at' = "idle" /\ todo' = {} /\ outcome' = "failed"
  BY DEF Undo
<1>2. Acceptable => /\ Present \subseteq Owned /\ Ours \subseteq Owned
                    /\ Owned \subseteq Paths \ Strangers
                    /\ \A p \in Owned : IF marker = {} THEN tree[p] = Older
                                        ELSE p \in marker
  BY AcceptableOwned DEF IInv
<1> USE DiskKept, <1>1 DEF counts, history
<1>3. TypeOK'
  BY <1>2 DEF IInv, TypeOK
<1>4. Claiming' /\ Writing' /\ Quiet' /\ NothingStaleAfterFailure'
  BY <1>2 DEF IInv, Claiming, Writing, Quiet, NothingStaleAfterFailure, Acceptable
<1> QED
  BY <1>3, <1>4 DEF IInv

(* A clean-up that nothing interfered with has left nothing. *)
LEMMA Cleaned ==
  ASSUME IInv, Undone
  PROVE  IInv'
<1>1. /\ UNCHANGED <<disk, plan, found, todo, counts, history>> /\ at = "undo"
      /\ todo = {} /\ at' = "idle" /\ outcome' = "failed"
  BY DEF Undone
<1> USE DiskKept, <1>1 DEF counts, history
<1>2. TypeOK'
  BY DEF IInv, TypeOK
<1>3. Claiming' /\ Writing' /\ Quiet' /\ NothingStaleAfterFailure'
  BY DEF IInv, Claiming, Writing, Quiet, NothingStaleAfterFailure
<1> QED
  BY <1>2, <1>3 DEF IInv

-------------------------------------------------------------------------------
(***************************************************************************)
(* Faults, and the operator                                                *)
(***************************************************************************)

(* A failing write or removal leaves to the clean-up what it has to remove. *)
LEMMA Failed ==
  ASSUME IInv, Error
  PROVE  IInv'
<1>1. /\ UNCHANGED <<marker, dirs, listed, residue, plan, found, builds, meddling>>
      /\ UNCHANGED <<accepted, lost>> /\ faults' = faults + 1
      /\ disturbed' = (disturbed \/ at = "undo")
      /\ IF at = "undo"
         THEN at' = "idle" /\ outcome' = "failed" /\ todo' = {} /\ UNCHANGED tree
         ELSE at' = "failed" /\ UNCHANGED <<outcome, todo>>
      /\ at \in {"mark", "own", "write", "clear", "undo"}
  BY DEF Error
<1>2. \/ UNCHANGED tree /\ Present' = Present /\ Ours' = Ours
      \/ \E p \in Paths : /\ at = "write" /\ tree' = [tree EXCEPT ![p] = None]
  <2>1. \/ UNCHANGED tree
        \/ \E p \in Paths : at = "write" /\ tree' = [tree EXCEPT ![p] = None]
    BY DEF Error, Paths
  <2> QED
    BY <2>1 DEF Present, Ours
<1>3. /\ tree' \in [Paths -> Nat \cup {Operator, None}]
      /\ \A q \in Paths : tree'[q] \in Nat => tree'[q] = tree[q]
      /\ Present' \subseteq Present
      /\ at # "write" => UNCHANGED tree /\ Present' = Present /\ Ours' = Ours
  <2>1. CASE UNCHANGED tree /\ Present' = Present /\ Ours' = Ours
    BY <2>1 DEF IInv, TypeOK
  <2>2. ASSUME NEW p \in Paths, at = "write", tree' = [tree EXCEPT ![p] = None]
        PROVE  <1>3!1 /\ <1>3!2 /\ <1>3!3 /\ at = "write"
    <3>1. /\ tree' \in [Paths -> Nat \cup {Operator, None}]
          /\ \A q \in Paths : tree'[q] = IF q = p THEN None ELSE tree[q]
          /\ Present' = Present \ {p}
      BY <2>2, OneFile, ClaimAssumption DEF IInv
    <3> QED
      BY <2>2, <3>1, ClaimAssumption
  <2> QED
    BY <1>2, <2>1, <2>2
<1>4. at = "write" => marker # {}
  BY PlanPaths DEF IInv, Writing
<1> USE <1>1, <1>3, <1>4
<1>5. TypeOK'
  BY DEF IInv, TypeOK
<1>6. OwnsWhatItWrote'
  BY DEF IInv, OwnsWhatItWrote
<1>7. Unmarked'
  BY DEF IInv, Unmarked
<1>8. Claiming' /\ Writing' /\ NothingStaleAfterFailure'
  BY DEF Claiming, Writing, NothingStaleAfterFailure
<1>9. Quiet'
  <2>1. CASE at = "write"
    BY <2>1 DEF IInv, Quiet, Acceptable, Nothing, Legacy
  <2>2. CASE at # "write"
    <3>1. Acceptable' = Acceptable
      BY <2>2 DEF Acceptable, Nothing, Legacy, PackageOf
    <3> QED
      BY <2>2, <3>1 DEF IInv, Quiet
  <2> QED
    BY <2>1, <2>2
<1> QED
  BY <1>5, <1>6, <1>7, <1>8, <1>9 DEF IInv

(* A killed build leaves the tree as it is, but for a temporary file. *)
LEMMA Killed ==
  ASSUME IInv, Kill
  PROVE  IInv'
<1>1. /\ UNCHANGED <<marker, tree, dirs, listed, plan, found, builds, meddling, history>>
      /\ faults' = faults + 1 /\ at' = "idle" /\ outcome' = "killed" /\ todo' = {}
      /\ residue' \in BOOLEAN
  BY DEF Kill, IInv, TypeOK
<1>2. Present' = Present /\ Ours' = Ours
  BY <1>1 DEF Present, Ours
<1> USE <1>1, <1>2 DEF history
<1>3. TypeOK'
  BY DEF IInv, TypeOK
<1>4. OwnsWhatItWrote' /\ Unmarked'
  BY DEF IInv, OwnsWhatItWrote, Unmarked
<1>5. Claiming' /\ Writing' /\ Quiet' /\ NothingStaleAfterFailure'
  BY DEF Claiming, Writing, Quiet, NothingStaleAfterFailure
<1> QED
  BY <1>3, <1>4, <1>5 DEF IInv

(* The operator adds a file where there is none. *)
LEMMA OperatorWrote ==
  ASSUME IInv, NEW p \in Paths, OperatorWrites(p)
  PROVE  IInv'
<1>1. /\ UNCHANGED <<marker, listed, residue, at, plan, found, todo, outcome>>
      /\ UNCHANGED <<builds, faults, accepted, lost>>
      /\ meddling' = meddling + 1 /\ disturbed' = TRUE
      /\ tree[p] = None /\ tree' = [tree EXCEPT ![p] = Operator]
      /\ dirs' = dirs \cup {DirectoryOf(p)}
  BY DEF OperatorWrites, Meddle, build
<1>2. /\ tree' \in [Paths -> Nat \cup {Operator, None}]
      /\ \A q \in Paths : tree'[q] = IF q = p THEN Operator ELSE tree[q]
      /\ Present' = Present \cup {p} /\ Ours' = Ours
  BY <1>1, OneFile, ClaimAssumption DEF IInv, Ours
<1>3. DirectoryOf(p) \in Directories
  BY DEF DirectoryOf, Directories
<1>4. TypeOK
  BY DEF IInv
<1> USE <1>1, <1>2, <1>3, <1>4
<1>5. TypeOK'
  BY DEF TypeOK
<1>6. OwnsWhatItWrote'
  BY ClaimAssumption DEF IInv, OwnsWhatItWrote
<1>7. Unmarked'
  <2>1. {DirectoryOf(q) : q \in Present'} = {DirectoryOf(q) : q \in Present} \cup {DirectoryOf(p)}
    OBVIOUS
  <2> QED
    BY <2>1 DEF IInv, Unmarked, TypeOK
<1>8. Claiming'
  <2>1. \A q \in todo : q \in Paths /\ (tree[q] = Older => tree'[q] = Older)
    BY ClaimAssumption DEF TypeOK, Older
  <2> QED
    BY <2>1 DEF IInv, Claiming
<1>9. Writing'
  <2>1. at = "write" => \A q \in plan \ todo : tree'[q] = builds /\ DirectoryOf(q) \in dirs'
    BY ClaimAssumption, PlanPaths DEF IInv, Writing, TypeOK
  <2> QED
    BY <2>1 DEF IInv, Writing
<1>10. Quiet' /\ NothingStaleAfterFailure'
  BY DEF Quiet, NothingStaleAfterFailure
<1> QED
  BY <1>5, <1>6, <1>7, <1>8, <1>9, <1>10 DEF IInv

(* The operator removes a file of its own. *)
LEMMA OperatorRemoved ==
  ASSUME IInv, NEW p \in Paths, OperatorRemoves(p)
  PROVE  IInv'
<1>1. /\ UNCHANGED <<marker, listed, residue, at, plan, found, todo, outcome>>
      /\ UNCHANGED <<builds, faults, accepted, lost>>
      /\ meddling' = meddling + 1 /\ disturbed' = TRUE
      /\ tree[p] = Operator /\ tree' = [tree EXCEPT ![p] = None]
      /\ dirs' = IF \E q \in Paths \ {p} : tree[q] # None /\ DirectoryOf(q) = DirectoryOf(p)
                 THEN dirs ELSE dirs \ {DirectoryOf(p)}
  BY DEF OperatorRemoves, Meddle, build
<1>2. /\ tree' \in [Paths -> Nat \cup {Operator, None}]
      /\ \A q \in Paths : tree'[q] = IF q = p THEN None ELSE tree[q]
      /\ Present' = Present \ {p} /\ Ours' = Ours
  BY <1>1, OneFile, ClaimAssumption DEF IInv, Ours
<1>3. TypeOK
  BY DEF IInv
<1>4. \A q \in Ours : DirectoryOf(q) \in dirs => DirectoryOf(q) \in dirs'
  BY <1>1, ClaimAssumption DEF Ours
<1> USE <1>1, <1>2, <1>3
<1>5. TypeOK'
  BY DEF TypeOK
<1>6. OwnsWhatItWrote'
  BY ClaimAssumption DEF IInv, OwnsWhatItWrote
<1>7. Unmarked'
  <2>1. dirs = {DirectoryOf(q) : q \in Present} => dirs' = {DirectoryOf(q) : q \in Present'}
    BY DEF Present
  <2>2. Ours \in Plans /\ dirs = Directories => dirs' = Directories
    BY <1>4, PlanPaths DEF TypeOK
  <2> QED
    BY <2>1, <2>2 DEF IInv, Unmarked
<1>8. Claiming'
  <2>1. \A q \in todo : q \in Paths /\ (tree[q] = Older => tree'[q] = Older)
    BY ClaimAssumption DEF TypeOK, Older
  <2> QED
    BY <2>1 DEF IInv, Claiming
<1>9. Writing'
  <2>1. at = "write" => \A q \in plan \ todo : tree'[q] = builds /\ DirectoryOf(q) \in dirs'
    BY <1>4, ClaimAssumption, PlanPaths DEF IInv, Writing, TypeOK
  <2> QED
    BY <2>1 DEF IInv, Writing
<1>10. Quiet' /\ NothingStaleAfterFailure'
  BY DEF Quiet, NothingStaleAfterFailure
<1> QED
  BY <1>5, <1>6, <1>7, <1>8, <1>9, <1>10 DEF IInv

(* The operator removes a temporary file. *)
LEMMA OperatorTidied ==
  ASSUME IInv, OperatorTidies
  PROVE  IInv'
<1>1. /\ UNCHANGED <<marker, tree, dirs, listed, at, plan, found, todo, outcome>>
      /\ UNCHANGED <<builds, faults, accepted, lost>>
      /\ meddling' = meddling + 1 /\ disturbed' = TRUE /\ residue' \in BOOLEAN
  BY DEF OperatorTidies, Meddle, build
<1>2. Present' = Present /\ Ours' = Ours /\ TypeOK
  BY <1>1 DEF Present, Ours, IInv
<1> USE <1>1, <1>2
<1>3. TypeOK'
  BY DEF TypeOK
<1>4. OwnsWhatItWrote' /\ Unmarked'
  BY DEF IInv, OwnsWhatItWrote, Unmarked
<1>5. Claiming' /\ Writing'
  BY DEF IInv, Claiming, Writing
<1>6. Quiet' /\ NothingStaleAfterFailure'
  BY DEF Quiet, NothingStaleAfterFailure
<1> QED
  BY <1>3, <1>4, <1>5, <1>6 DEF IInv

-------------------------------------------------------------------------------
(***************************************************************************)
(* The invariant, and what follows                                         *)
(***************************************************************************)

(* A behaviour begins with an empty tree or an unmarked package. *)
LEMMA Initially == Init => IInv
<1> SUFFICES ASSUME Init PROVE IInv
  OBVIOUS
<1>1. /\ marker = {} /\ residue = FALSE /\ at = "idle" /\ plan = {} /\ todo = {}
      /\ outcome = "none" /\ found = Ownership
      /\ builds = 0 /\ faults = 0 /\ meddling = 0
      /\ accepted = FALSE /\ disturbed = FALSE /\ lost = FALSE
  BY DEF Init
<1>2. \/ tree = [p \in Paths |-> None] /\ dirs = {} /\ listed = {}
      \/ \E package \in Plans :
           /\ tree = [p \in Paths |-> IF p \in package THEN Older ELSE None]
           /\ dirs = Directories
           /\ listed = package \ {"manifest", "sidecar"}
  BY DEF Init
<1>3. /\ tree \in [Paths -> Nat \cup {Operator, None}]
      /\ \A p \in Paths : tree[p] \in Nat => tree[p] = Older
      /\ dirs \subseteq Directories /\ listed \subseteq Paths \ Strangers
      /\ \/ Ours = {} /\ Present = {} /\ dirs = {}
         \/ /\ Ours = listed \cup {"manifest", "sidecar"} /\ Ours \in Plans
            /\ dirs = Directories
  <2>1. CASE tree = [p \in Paths |-> None] /\ dirs = {} /\ listed = {}
    BY <2>1, ClaimAssumption DEF Ours, Present
  <2>2. ASSUME NEW package \in Plans,
               tree = [p \in Paths |-> IF p \in package THEN Older ELSE None],
               dirs = Directories, listed = package \ {"manifest", "sidecar"}
        PROVE  <1>3
    <3>1. package \subseteq Paths \ Strangers /\ Fixed \subseteq package
      BY PlanPaths
    <3>2. Ours = package
      BY <2>2, <3>1, ClaimAssumption DEF Ours, Older
    <3>3. listed \cup {"manifest", "sidecar"} = package
      BY <2>2, <3>1 DEF Fixed
    <3>4. /\ tree \in [Paths -> Nat \cup {Operator, None}]
          /\ \A p \in Paths : tree[p] \in Nat => tree[p] = Older
      BY <2>2, ClaimAssumption DEF Older
    <3> QED
      BY <2>2, <3>1, <3>2, <3>3, <3>4
  <2> QED
    BY <1>2, <2>1, <2>2
<1>4. found \in [owned: SUBSET Paths, observed: SUBSET Paths,
                 directories: SUBSET Directories, marked: BOOLEAN]
  <2>1. Owned \subseteq Paths
    BY <1>1, <1>3, PlanPaths DEF Owned, Fixed
  <2> QED
    BY <1>1, <1>3, <2>1 DEF Ownership, Present
<1>5. TypeOK
  BY <1>1, <1>3, <1>4 DEF TypeOK
<1>6. OwnsWhatItWrote /\ Unmarked
  BY <1>1, <1>3 DEF OwnsWhatItWrote, Unmarked
<1>7. Claiming /\ Writing /\ Quiet /\ NothingStaleAfterFailure
  BY <1>1 DEF Claiming, Writing, Quiet, NothingStaleAfterFailure
<1> QED
  BY <1>5, <1>6, <1>7 DEF IInv

(* Every step of a build, of a fault or of the operator keeps the invariant. *)
LEMMA Inductive == IInv /\ [Next]_vars => IInv'
<1> SUFFICES ASSUME IInv, [Next]_vars PROVE IInv'
  OBVIOUS
<1>1. CASE BuildStep
  BY <1>1, Started, Prepared, Checked, MarkedAll, MarkedPackage, Removed, Cleared,
     Written, Finished, Undoing, Cleaned DEF BuildStep
<1>2. CASE OperatorStep
  BY <1>2, OperatorWrote, OperatorRemoved, OperatorTidied DEF OperatorStep
<1>3. CASE UNCHANGED vars
  <2>1. UNCHANGED <<marker, tree, dirs, listed, residue, at, plan, found, todo, outcome>>
    BY <1>3 DEF vars, disk, build
  <2>2. UNCHANGED <<builds, faults, meddling, accepted, disturbed, lost>>
    BY <1>3 DEF vars, counts, history
  <2>3. UNCHANGED disk
    BY <2>1 DEF disk
  <2> QED
    BY <2>1, <2>2, <2>3, DiskKept
       DEF IInv, TypeOK, Claiming, Writing, Quiet, NothingStaleAfterFailure
<1> QED
  BY <1>1, <1>2, <1>3, Failed, Killed DEF Next

(* The invariant holds throughout. *)
THEOREM Invariant == Spec => []IInv
<1> QED
  BY Initially, Inductive, PTL DEF Spec

(* Every variable keeps its type. *)
THEOREM TypeCorrect == Spec => []TypeOK
<1>1. IInv => TypeOK
  BY DEF IInv
<1> QED
  BY <1>1, Invariant, PTL

(* The marker owns everything the program wrote that is still there, whatever *)
(* a kill, an error or the operator did between two steps of a build.         *)
THEOREM OwnershipIsComplete == Spec => []OwnsWhatItWrote
<1>1. IInv => OwnsWhatItWrote
  BY DEF IInv
<1> QED
  BY <1>1, Invariant, PTL

(* A failed rebuild leaves no package, unless something interfered with it. *)
THEOREM FailureLeavesNothing == Spec => []NothingStaleAfterFailure
<1>1. IInv => NothingStaleAfterFailure
  BY DEF IInv
<1> QED
  BY <1>1, Invariant, PTL

(* The next build can claim what an earlier one left, however that one ended. *)
THEOREM AlwaysReclaimable == Spec => []Reclaimable
<1>1. IInv => Reclaimable
  <2> SUFFICES ASSUME IInv, ~residue, ~lost, \A p \in Paths : tree[p] # Operator
               PROVE  Acceptable
    BY DEF Reclaimable
  <2>1. Present = Ours
    BY ClaimAssumption DEF IInv, TypeOK, Present, Ours
  <2>2. CASE marker # {}
    <3>1. Present \subseteq marker
      BY <2>1, <2>2 DEF IInv, OwnsWhatItWrote, Ours
    <3> QED
      BY <2>2, <3>1 DEF Acceptable
  <2>3. CASE marker = {} /\ Ours = {} /\ dirs = {DirectoryOf(p) : p \in Present}
    BY <2>1, <2>3 DEF Acceptable, Nothing
  <2>4. CASE marker = {} /\ Ours = listed \cup {"manifest", "sidecar"} /\ dirs = Directories
    <3>1. \A p \in Present : tree[p] = Older
      BY <2>1, <2>4 DEF IInv, OwnsWhatItWrote, Ours
    <3> QED
      BY <2>1, <2>4, <3>1 DEF Acceptable, Legacy, PackageOf
  <2> QED
    BY <2>2, <2>3, <2>4 DEF IInv, Unmarked
<1> QED
  BY <1>1, Invariant, PTL

(* A step of the program touches a file of the operator only if the marker *)
(* owns its path.                                                          *)
LEMMA TouchesOwnedOnly ==
  ASSUME IInv, Next, NEW p \in Paths, tree[p] = Operator, tree'[p] # Operator,
         meddling' = meddling
  PROVE  marker # {} /\ p \in marker
<1>1. TypeOK /\ meddling \in Nat
  BY DEF IInv, TypeOK
<1>2. tree' # tree /\ ~OperatorStep
  BY <1>1 DEF OperatorStep, OperatorWrites, OperatorRemoves, OperatorTidies, Meddle
<1>3. CASE \E q \in Paths : RemoveOwned(q)
  <2>1. PICK q \in Paths : RemoveOwned(q)
    BY <1>3
  <2>2. tree' = [tree EXCEPT ![q] = None] /\ at \in {"clear", "undo"} /\ q \in todo
    BY <2>1 DEF RemoveOwned
  <2>3. q = p
    BY <1>1, <2>2 DEF TypeOK
  <2>4. CASE at = "clear"
    BY <2>2, <2>3, <2>4, PlanPaths DEF IInv, Claiming
  <2>5. CASE at = "undo"
    BY <2>2, <2>3, <2>5, ClaimAssumption DEF IInv, Claiming, Older
  <2> QED
    BY <2>2, <2>4, <2>5
<1>4. CASE \E q \in Paths : WriteArtifact(q)
  <2>1. PICK q \in Paths : WriteArtifact(q)
    BY <1>4
  <2>2. tree' = [tree EXCEPT ![q] = builds] /\ at = "write" /\ q \in todo
    BY <2>1 DEF WriteArtifact, NextToWrite
  <2>3. q = p
    BY <1>1, <2>2 DEF TypeOK
  <2> QED
    BY <2>2, <2>3, PlanPaths DEF IInv, Writing
<1>5. CASE Error
  <2>1. at = "write"
    BY <1>2, <1>5 DEF Error
  <2>2. PICK q \in NextToWrite \cap CasePaths : tree' = [tree EXCEPT ![q] = None]
    BY <1>2, <1>5, <2>1 DEF Error
  <2>3. q \in todo
    BY <2>2 DEF NextToWrite
  <2>4. q = p
    BY <1>1, <2>2 DEF TypeOK
  <2> QED
    BY <2>1, <2>3, <2>4, PlanPaths DEF IInv, Writing
<1>6. UNCHANGED tree \/ <1>3!1 \/ <1>4!1 \/ Error
  BY <1>2 DEF Next, BuildStep, StartBuild, Prepare, CheckClaim, MarkAll, CheckCleared,
              MarkPackage, FinishBuild, Undo, Undone, Kill, Goto, disk
<1> QED
  BY <1>2, <1>3, <1>4, <1>5, <1>6

(* No file of the operator goes that the marker does not own. *)
THEOREM OthersAreSafe == Spec => RemovesOnlyOwned
<1>1. IInv /\ [Next]_vars =>
        [\A p \in Paths : tree[p] = Operator /\ tree'[p] # Operator /\ meddling' = meddling
                          => marker # {} /\ p \in marker]_vars
  BY TouchesOwnedOnly
<1> QED
  BY <1>1, Invariant, PTL DEF Spec, RemovesOnlyOwned

(* A package that is reported is whole, and of the build that reports it. *)
LEMMA SuccessIsWhole ==
  ASSUME IInv, Next, outcome # "success", outcome' = "success"
  PROVE  PackageOf(builds)' /\ Present' = plan' /\ marker' = plan'
<1>1. FinishBuild
  BY DEF Next, BuildStep, OperatorStep, StartBuild, Prepare, CheckClaim, MarkAll,
         CheckCleared, MarkPackage, RemoveOwned, WriteArtifact, Undo, Undone, Error, Kill,
         OperatorWrites, OperatorRemoves, OperatorTidies, Goto, build
<1>2. /\ UNCHANGED <<disk, plan, counts>> /\ at = "write" /\ todo = {} /\ Present = plan
  BY <1>1 DEF FinishBuild
<1>3. /\ plan \in Plans /\ marker = plan /\ listed = plan \ {"manifest", "sidecar"}
      /\ \A p \in plan : tree[p] = builds /\ DirectoryOf(p) \in dirs
      /\ dirs \subseteq Directories
  BY <1>2 DEF IInv, Writing, TypeOK
<1>4. Fixed \subseteq plan /\ {DirectoryOf(p) : p \in plan} = Directories
  BY <1>3, PlanPaths
<1>5. dirs = Directories
  BY <1>3, <1>4
<1>6. PackageOf(builds)
  BY <1>2, <1>3, <1>4, <1>5 DEF PackageOf, Fixed
<1>7. /\ UNCHANGED <<marker, tree, dirs, listed, plan, builds>> /\ Present' = Present
  BY <1>2, SameDisk DEF disk, counts
<1> QED
  BY <1>2, <1>3, <1>6, <1>7 DEF PackageOf

(* Whatever happened before and during a build, what it reports is whole. *)
THEOREM ReportIsWhole == Spec => ReportedIsWhole
<1>1. IInv /\ [Next]_vars =>
        [outcome # "success" /\ outcome' = "success"
         => PackageOf(builds)' /\ Present' = plan' /\ marker' = plan']_vars
  BY SuccessIsWhole
<1> QED
  BY <1>1, Invariant, PTL DEF Spec, ReportedIsWhole
===============================================================================
