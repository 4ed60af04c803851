------------------------- MODULE VersionStoreProofs -------------------------
(***************************************************************************)
(* What holds of VersionStore for any sessions, programs, names, limits    *)
(* and bounds: its types; that git jobs that overlap cost no other         *)
(* rotation leaves no more snapshots than it may; and that the newest      *)
(* snapshot of a program is left in place.                                 *)
(***************************************************************************)
EXTENDS VersionStore, FiniteSetTheorems, TLAPS

-----------------------------------------------------------------------------
(* Sequences                                                               *)

\* What an overlay leaves is a content, whatever it was laid over.
LEMMA OverlayType ==
    ASSUME NEW new \in Content, NEW old \in Content
    PROVE  Overlay(new, old) \in Content
<1>1. SubSeq(old, Len(new) + 1, Len(old)) \in Content
  BY DEF Content
<1> QED BY <1>1 DEF Overlay, Content

\* The beginning of a content is a content.
LEMMA PrefixType ==
    ASSUME NEW content \in Content, NEW n \in Nat, n < Len(content)
    PROVE  SubSeq(content, 1, n) \in Content
BY DEF Content

-----------------------------------------------------------------------------
(* Types                                                                   *)

LEMMA TypeInit == Init => TypeOK
<1> SUFFICES ASSUME Init PROVE TypeOK
  OBVIOUS
<1>1. Absent \in Content
  BY DEF Absent, Content
<1>2. << >> \in Content
  BY DEF Content
<1>3. strategy \in {"git", "snapshots"}
  BY VersionAssumption DEF Init
<1>4. NoTree \in Tree /\ <<NoTree>> \in Seq(Tree) /\ <<NoTree>> # <<>>
  BY <1>1 DEF NoTree, Tree
<1>5. << >> \in Seq(Tree)
  OBVIOUS
<1>6. /\ index \in Tree /\ log \in Seq(Tree) /\ log # <<>>
      /\ entries \in [Sessions -> Tree] /\ base \in [Sessions -> Seq(Tree)]
      /\ blob \in [Sessions -> Content]
  BY <1>2, <1>4, <1>5 DEF Init
<1> QED BY <1>1, <1>2, <1>3, <1>6 DEF Init, TypeOK, EmptyFun, PCs, SnapName

\* The steps of a session's git job.
GitJob(s) ==
    \/ GitAdd(s) \/ GitAddReads(s) \/ GitAddWrites(s)
    \/ GitCommitTree(s) \/ GitCommitParent(s) \/ GitCommit(s) \/ GitFails(s)

\* Every action of a session but the submission of a write.
Act(s) ==
    \/ \E n \in 0..Len(data[s]) : WriteFails(s, n)
    \/ OpenFile(s) \/ OpenFails(s) \/ WriteData(s) \/ StartVersion(s)
    \/ GitJob(s)
    \/ StampSnapshot(s) \/ OpenSnapshot(s) \/ FillSnapshot(s)
    \/ SnapshotFails(s) \/ ListSnapshots(s) \/ StatSnapshots(s)
    \/ UnlinkSnapshot(s) \/ RotationFails(s) \/ RotationEnds(s)
    \/ Dropped(s)

\* A request's blocks are a content.
LEMMA SubmitType ==
    ASSUME TypeOK, NEW s \in Sessions, NEW f \in Files, NEW len \in Lengths,
           Submit(s, f, len)
    PROVE  TypeOK'
<1>1. [i \in 1..len |-> writes + 1] \in Content
  BY VersionAssumption DEF TypeOK, Content
<1>2. /\ pc' \in [Sessions -> PCs]
      /\ target' \in [Sessions -> Files \cup {NoFile}]
      /\ \A r \in Sessions : pc'[r] # "idle" => target'[r] \in Files
      /\ data' \in [Sessions -> Content]
  BY <1>1 DEF TypeOK, Submit, Goto, PCs
<1>3. /\ overlapped' \subseteq Files
      /\ writes' \in Nat
  BY DEF TypeOK, Submit
<1> QED
  BY <1>2, <1>3 DEF TypeOK, Submit, fsVars, gitVars, repoVars, snapVars

\* A session that finishes is left without a target, data or anything in hand.
LEMMA FinishType ==
    ASSUME TypeOK, NEW s \in Sessions, Finish(s)
    PROVE  /\ pc' \in [Sessions -> PCs]
           /\ target' \in [Sessions -> Files \cup {NoFile}]
           /\ \A r \in Sessions : pc'[r] # "idle" => target'[r] \in Files
           /\ data' \in [Sessions -> Content]
           /\ blob' \in [Sessions -> Content]
           /\ entries' \in [Sessions -> Tree]
           /\ base' \in [Sessions -> Seq(Tree)]
           /\ stamp' \in [Sessions -> Nat]
           /\ seen' \in [Sessions -> SUBSET SnapName]
           /\ DOMAIN todo' = Sessions
           /\ \A r \in Sessions :
                 /\ DOMAIN todo'[r] \subseteq SnapName
                 /\ \A x \in DOMAIN todo'[r] : todo'[r][x] \in Nat
<1>1. << >> \in Content
  BY DEF Content
<1>2. NoTree \in Tree /\ << >> \in Seq(Tree)
  BY DEF NoTree, Tree, Absent, Content
<1> QED BY <1>1, <1>2 DEF TypeOK, Finish, Goto, PCs, EmptyFun

\* The jobs that write a file.
LEMMA WriteType ==
    ASSUME TypeOK, NEW s \in Sessions,
           \/ OpenFile(s) \/ OpenFails(s) \/ WriteData(s)
           \/ \E n \in 0..Len(data[s]) : WriteFails(s, n)
    PROVE  TypeOK'
<1>1. CASE OpenFile(s)
  <2>1. << >> \in Content
    BY DEF Content
  <2> QED
    BY <1>1, <2>1 DEF TypeOK, OpenFile, SetFile, Goto, PCs, gitVars,
                      repoVars, snapVars,
                      envVars
<1>2. CASE OpenFails(s)
  BY <1>2, FinishType DEF TypeOK, OpenFails, fsVars, gitVars, repoVars,
                          envVars
<1>3. CASE WriteData(s)
  <2>1. Overlay(data[s], file[target[s]]) \in Content
    BY <1>3, OverlayType DEF TypeOK, WriteData
  <2> QED
    BY <1>3, <2>1 DEF TypeOK, WriteData, SetFile, Goto, PCs, gitVars,
                      repoVars,
                      snapVars, envVars
<1>4. ASSUME NEW n \in 0..Len(data[s]), WriteFails(s, n)
      PROVE  TypeOK'
  <2>1. SubSeq(data[s], 1, n) \in Content
    BY <1>4, PrefixType DEF TypeOK, WriteFails
  <2>2. Overlay(SubSeq(data[s], 1, n), file[target[s]]) \in Content
    BY <1>4, <2>1, OverlayType DEF TypeOK, WriteFails
  <2>3. target[s] \in Files
    BY <1>4 DEF TypeOK, WriteFails
  <2>4. /\ file' \in [Files -> Content] /\ mtime' \in [Files -> Nat]
        /\ ticks' \in Nat /\ unversioned' \subseteq Files
    BY <1>4, <2>2, <2>3 DEF TypeOK, WriteFails, SetFile
  <2>5. Finish(s)
    BY <1>4 DEF WriteFails
  <2> QED
    BY <1>4, <2>4, <2>5, FinishType DEF TypeOK, WriteFails, repoVars, envVars
<1> QED BY <1>1, <1>2, <1>3, <1>4

\* The git job.
LEMMA GitType ==
    ASSUME TypeOK, NEW s \in Sessions, GitJob(s)
    PROVE  TypeOK'
<1> USE DEF Goto
<1>0. target[s] \in Files
  BY DEF TypeOK, GitJob, GitAdd, GitAddReads, GitAddWrites, GitCommitTree,
         GitCommitParent, GitCommit, GitFails, InGit, Committing
<1>1. CASE GitAdd(s)
  <2>1. raced' \subseteq Files
    BY <1>1 DEF TypeOK, GitAdd, InGit, Committing
  <2>2. blob' \in [Sessions -> Content]
    BY <1>0, <1>1 DEF TypeOK, GitAdd
  <2> QED BY <1>1, <2>1, <2>2 DEF TypeOK, GitAdd, PCs, fsVars, snapVars,
                                  envVars
<1>2. CASE GitAddReads(s) \/ GitCommitTree(s)
  <2>1. entries' \in [Sessions -> Tree]
    BY <1>2 DEF TypeOK, GitAddReads, GitCommitTree
  <2> QED
    BY <1>2, <2>1 DEF TypeOK, GitAddReads, GitCommitTree, PCs, fsVars,
                      repoVars, snapVars, envVars
<1>3. CASE GitAddWrites(s)
  <2>1. index' \in Tree
    BY <1>0, <1>3 DEF TypeOK, GitAddWrites, Tree
  <2> QED
    BY <1>3, <2>1 DEF TypeOK, GitAddWrites, PCs, fsVars, snapVars, envVars
<1>4. CASE GitCommitParent(s)
  <2>1. base' \in [Sessions -> Seq(Tree)]
    BY <1>4 DEF TypeOK, GitCommitParent
  <2> QED
    BY <1>4, <2>1 DEF TypeOK, GitCommitParent, PCs, fsVars, repoVars,
                      snapVars,
                      envVars
<1>5. CASE GitCommit(s)
  <2>1. /\ base[s] \in Seq(Tree) /\ entries[s] \in Tree
        /\ entries[s][target[s]] \in Content
    BY <1>0 DEF TypeOK, Tree
  <2>2. log' \in Seq(Tree) /\ log' # <<>>
    BY <1>5, <2>1 DEF GitCommit
  <2>3. made' \subseteq Files \X Content
    BY <1>0, <1>5, <2>1 DEF TypeOK, GitCommit
  <2> QED
    BY <1>5, <2>2, <2>3, FinishType DEF TypeOK, GitCommit, fsVars, envVars
<1>6. CASE GitFails(s)
  BY <1>0, <1>6, FinishType DEF TypeOK, GitFails, fsVars, envVars
<1> QED BY <1>1, <1>2, <1>3, <1>4, <1>5, <1>6 DEF GitJob

\* The versioning jobs up to the rotation, and what drops them.
LEMMA VersionType ==
    ASSUME TypeOK, NEW s \in Sessions,
           \/ StartVersion(s) \/ StampSnapshot(s) \/ OpenSnapshot(s)
           \/ FillSnapshot(s) \/ SnapshotFails(s) \/ Dropped(s)
    PROVE  TypeOK'
<1>1. CASE StartVersion(s)
  BY <1>1 DEF TypeOK, StartVersion, Goto, PCs, fsVars, gitVars, repoVars,
              snapVars,
              envVars
<1>5. CASE StampSnapshot(s)
  BY <1>5 DEF TypeOK, StampSnapshot, Goto, PCs, fsVars, gitVars, repoVars,
              envVars
<1>6. ASSUME NEW snapshot \in Snapshot, pc[s] # "idle",
             snaps' = SnapsWith(Mine(s), snapshot)
      PROVE  /\ DOMAIN snaps' \subseteq SnapName
             /\ \A x \in DOMAIN snaps' : snaps'[x] \in Snapshot
  <2>1. Mine(s) \in SnapName
    BY <1>6, VersionAssumption DEF TypeOK, Mine, SnapName
  <2> QED BY <1>6, <2>1 DEF TypeOK, SnapsWith
<1>7. CASE OpenSnapshot(s)
  <2>1. [content |-> <<>>, mtime |-> ticks + 1] \in Snapshot
    BY <1>7 DEF TypeOK, OpenSnapshot, Snapshot, Content
  <2>2. /\ DOMAIN snaps' \subseteq SnapName
        /\ \A x \in DOMAIN snaps' : snaps'[x] \in Snapshot
    BY <1>6, <1>7, <2>1 DEF OpenSnapshot
  <2> QED
    BY <1>7, <2>2 DEF TypeOK, OpenSnapshot, Goto, PCs, gitVars, repoVars,
                      envVars
<1>8. CASE FillSnapshot(s)
  <2>1. [content |-> file[target[s]], mtime |-> mtime[target[s]]] \in Snapshot
    BY <1>8 DEF TypeOK, FillSnapshot, Snapshot
  <2>2. /\ DOMAIN snaps' \subseteq SnapName
        /\ \A x \in DOMAIN snaps' : snaps'[x] \in Snapshot
    BY <1>6, <1>8, <2>1 DEF FillSnapshot
  <2> QED
    BY <1>8, <2>2 DEF TypeOK, FillSnapshot, Goto, PCs, fsVars, gitVars,
                      repoVars,
                      envVars
<1>9. CASE SnapshotFails(s)
  <2>1. BaseName[target[s]] \in Names /\ target[s] \in Files
    BY <1>9, VersionAssumption DEF TypeOK, SnapshotFails
  <2> QED
    BY <1>9, <2>1, FinishType DEF TypeOK, SnapshotFails, fsVars, gitVars,
                                  repoVars,
                                  envVars
<1>10. CASE Dropped(s)
  BY <1>10, FinishType DEF TypeOK, Dropped, fsVars, gitVars, repoVars, envVars
<1> QED
  BY <1>1, <1>5, <1>7, <1>8, <1>9, <1>10

\* The rotation.
LEMMA RotationType ==
    ASSUME TypeOK, NEW s \in Sessions,
           \/ ListSnapshots(s) \/ StatSnapshots(s) \/ UnlinkSnapshot(s)
           \/ RotationFails(s) \/ RotationEnds(s)
    PROVE  TypeOK'
<1>1. CASE ListSnapshots(s)
  <2>1. seen' \in [Sessions -> SUBSET SnapName]
    BY <1>1 DEF TypeOK, ListSnapshots
  <2> QED
    BY <1>1, <2>1 DEF TypeOK, ListSnapshots, Goto, PCs, fsVars, gitVars,
                      repoVars,
                      envVars
<1>2. CASE StatSnapshots(s)
  <2>1. PICK kept \in SUBSET seen[s] :
           todo' = [todo EXCEPT ![s] =
                       [x \in seen[s] \ kept |-> snaps[x].mtime]]
    BY <1>2 DEF StatSnapshots
  <2>2. \A x \in seen[s] \ kept : snaps[x].mtime \in Nat
    BY <1>2 DEF TypeOK, StatSnapshots, Snapshot
  <2>3. /\ DOMAIN todo' = Sessions
        /\ \A r \in Sessions :
              /\ DOMAIN todo'[r] \subseteq SnapName
              /\ \A x \in DOMAIN todo'[r] : todo'[r][x] \in Nat
    BY <2>1, <2>2 DEF TypeOK
  <2> QED
    BY <1>2, <2>3 DEF TypeOK, StatSnapshots, Goto, PCs, fsVars, gitVars,
                      repoVars,
                      envVars
<1>3. CASE UnlinkSnapshot(s)
  <2>1. PICK x \in DOMAIN todo[s] :
           /\ snaps' = Without(snaps, {x})
           /\ todo' = [todo EXCEPT ![s] = Without(@, {x})]
    BY <1>3 DEF UnlinkSnapshot
  <2>2. /\ DOMAIN snaps' \subseteq SnapName
        /\ \A y \in DOMAIN snaps' : snaps'[y] \in Snapshot
    BY <2>1 DEF TypeOK, Without
  <2>3. /\ DOMAIN todo' = Sessions
        /\ \A r \in Sessions :
              /\ DOMAIN todo'[r] \subseteq SnapName
              /\ \A y \in DOMAIN todo'[r] : todo'[r][y] \in Nat
    BY <2>1 DEF TypeOK, Without
  <2> QED
    BY <1>3, <2>2, <2>3 DEF TypeOK, UnlinkSnapshot, fsVars, gitVars,
                            repoVars, envVars
<1>4. CASE RotationFails(s)
  <2>1. BaseName[target[s]] \in Names
    BY <1>4, VersionAssumption DEF TypeOK, RotationFails
  <2> QED
    BY <1>4, <2>1, FinishType DEF TypeOK, RotationFails, fsVars, gitVars,
                                  repoVars,
                                  envVars
<1>5. CASE RotationEnds(s)
  BY <1>5, FinishType DEF TypeOK, RotationEnds, fsVars, gitVars, repoVars,
                          envVars
<1> QED BY <1>1, <1>2, <1>3, <1>4, <1>5

\* The process ends, or time passes.
LEMMA ProcessType ==
    ASSUME TypeOK, Teardown \/ Crash \/ Tick \/ UNCHANGED vars
    PROVE  TypeOK'
<1>1. CASE Teardown
  BY <1>1 DEF TypeOK, Teardown, fsVars, gitVars, repoVars, snapVars
<1>2. CASE Crash
  <2>1. /\ << >> \in Content /\ NoTree \in Tree /\ << >> \in Seq(Tree)
    BY DEF Content, NoTree, Tree, Absent
  <2>2. unversioned' \subseteq Files
    BY <1>2 DEF TypeOK, Crash, Unrecorded
  <2>4. /\ blob' \in [Sessions -> Content]
        /\ entries' \in [Sessions -> Tree]
        /\ base' \in [Sessions -> Seq(Tree)]
    BY <1>2, <2>1 DEF Crash
  <2>3. aborted' \subseteq Names
    BY <1>2, VersionAssumption DEF TypeOK, Crash, Rotating
  <2> QED
    BY <1>2, <2>1, <2>2, <2>3, <2>4 DEF TypeOK, Crash, PCs, EmptyFun, fsVars
<1>3. CASE Tick
  BY <1>3 DEF TypeOK, Tick, fsVars, gitVars, repoVars, snapVars
<1>4. CASE UNCHANGED vars
  BY <1>4 DEF TypeOK, vars, fsVars, gitVars, repoVars, snapVars, envVars
<1> QED BY <1>1, <1>2, <1>3, <1>4

\* What a step is: a request, a session's action, the process, or nothing.
LEMMA StepCases ==
    ASSUME [Next]_vars
    PROVE  \/ \E s \in Sessions, f \in Files, len \in Lengths :
                 Submit(s, f, len)
           \/ \E s \in Sessions : Act(s)
           \/ Teardown \/ Crash \/ Tick \/ UNCHANGED vars
BY DEF Next, Act, GitJob, AtRest

LEMMA TypeNext == TypeOK /\ [Next]_vars => TypeOK'
<1> SUFFICES ASSUME TypeOK, [Next]_vars PROVE TypeOK'
  OBVIOUS
<1> QED
  BY StepCases, SubmitType, WriteType, GitType, VersionType, RotationType,
     ProcessType DEF Act

\* The variables keep their types, whatever sessions, programs and bounds.
THEOREM StoreTypeCorrect == Spec => []TypeOK
BY TypeInit, TypeNext, PTL DEF Spec

-----------------------------------------------------------------------------
(* Git                                                                     *)

\* A session is still writing or adding f.
Writing(f) ==
    \E s \in Sessions :
       target[s] = f /\ pc[s] \in {"write", "written", "add"}

\* A session is adding f, or at any point of its git job.
Adding(f) == \E s \in Sessions : target[s] = f /\ pc[s] \in {"load", "update"}
Jobbing(f) == \E s \in Sessions : target[s] = f /\ pc[s] \in InGit

\* A job whose program is not marked overlaps no other one.
LoneJobs ==
    \A s \in Sessions : pc[s] \in InGit /\ target[s] \notin raced =>
        \A r \in Sessions : pc[r] \in InGit => r = s

\* What such a job has stored is what the program still holds.
BlobsCurrent ==
    \A s \in Sessions :
       /\ pc[s] \in {"load", "update"}
       /\ target[s] \notin raced \cup unversioned
       => blob[s] = file[target[s]] \/ Writing(target[s])

\* What a job has read of the index is, but for marked programs, still so.
EntriesCurrent ==
    \A s \in Sessions : pc[s] \in {"update", "parent", "commit"} =>
        \A f \in Files \ raced : entries[s][f] = index[f]

\* The index has what no session is still to add, HEAD what no job is still to
\* commit.
Added(f) == index[f] = file[f] \/ Writing(f) \/ Adding(f)
Committed(f) == HEAD[f] = index[f] \/ Writing(f) \/ Jobbing(f) \/ uncommitted

\* What lone jobs have committed is in the log, and in what was read of it.
MadeKept ==
    /\ made \subseteq Versions(log)
    /\ \A s \in Sessions : pc[s] = "commit" =>
          base[s] # <<>> /\ made \subseteq Versions(base[s])

GitInv ==
    /\ LoneJobs
    /\ BlobsCurrent
    /\ EntriesCurrent
    /\ \A f \in Files \ (unversioned \cup raced) : Added(f) /\ Committed(f)
    /\ MadeKept

\* What the other sessions are doing and have read of git is not changed by a
\* session's step.
LEMMA OthersKeep ==
    ASSUME TypeOK, NEW s \in Sessions,
           \/ Act(s)
           \/ \E f \in Files, len \in Lengths : Submit(s, f, len)
    PROVE  /\ strategy' = strategy
           /\ \A r \in Sessions \ {s} :
                 /\ pc'[r] = pc[r] /\ target'[r] = target[r]
                 /\ blob'[r] = blob[r] /\ entries'[r] = entries[r]
                 /\ base'[r] = base[r]
<1> USE DEF Goto, Finish, TypeOK
<1>1. CASE \E f \in Files, len \in Lengths : Submit(s, f, len)
  BY <1>1 DEF Submit, gitVars
<1>2. CASE \/ \E n \in 0..Len(data[s]) : WriteFails(s, n)
           \/ OpenFile(s) \/ OpenFails(s) \/ WriteData(s) \/ StartVersion(s)
  BY <1>2 DEF WriteFails, OpenFile, OpenFails, WriteData, StartVersion,
              envVars, gitVars
<1>3. CASE \/ GitAdd(s) \/ GitAddReads(s) \/ GitAddWrites(s)
           \/ GitCommitTree(s) \/ GitCommitParent(s)
  BY <1>3 DEF GitAdd, GitAddReads, GitAddWrites, GitCommitTree,
              GitCommitParent, envVars
<1>4. CASE GitCommit(s) \/ GitFails(s) \/ Dropped(s)
  BY <1>4 DEF GitCommit, GitFails, Dropped, envVars
<1>5. CASE \/ StampSnapshot(s) \/ OpenSnapshot(s) \/ FillSnapshot(s)
           \/ SnapshotFails(s)
  BY <1>5 DEF StampSnapshot, OpenSnapshot, FillSnapshot, SnapshotFails,
              envVars, gitVars
<1>6. CASE \/ ListSnapshots(s) \/ StatSnapshots(s) \/ UnlinkSnapshot(s)
           \/ RotationFails(s) \/ RotationEnds(s)
  BY <1>6 DEF ListSnapshots, StatSnapshots, UnlinkSnapshot, RotationFails,
              RotationEnds, envVars, gitVars
<1> QED BY <1>1, <1>2, <1>3, <1>4, <1>5, <1>6 DEF Act, GitJob

\* What a step of a git job leaves alone, and where it is before and after.
LEMMA GitJobFrame ==
    ASSUME TypeOK, NEW s \in Sessions, GitJob(s)
    PROVE  /\ UNCHANGED <<file, mtime, ticks, strategy, snaps, aborted,
                          overlapped>>
           /\ unversioned \subseteq unversioned'
           /\ unversioned' \subseteq unversioned \cup {target[s]}
           /\ pc[s] \in {"add"} \cup InGit
           /\ \/ pc'[s] = "idle" /\ target'[s] = NoFile
              \/ pc'[s] \in InGit /\ target'[s] = target[s]
           /\ \A r \in Sessions \ {s} :
                 /\ pc'[r] = pc[r] /\ target'[r] = target[r]
                 /\ stamp'[r] = stamp[r]
                 /\ seen'[r] = seen[r] /\ todo'[r] = todo[r]
<1> USE DEF Goto, Finish, TypeOK, InGit, Committing, fsVars, envVars
<1>1. CASE \/ GitAdd(s) \/ GitAddReads(s) \/ GitAddWrites(s)
           \/ GitCommitTree(s) \/ GitCommitParent(s)
  BY <1>1 DEF GitAdd, GitAddReads, GitAddWrites, GitCommitTree,
              GitCommitParent, snapVars
<1>2. CASE GitCommit(s) \/ GitFails(s)
  BY <1>2 DEF GitCommit, GitFails
<1> QED BY <1>1, <1>2 DEF GitJob

\* A step of a session outside its git job, that changes nothing of git, and
\* no file but one that is being written then or is left unversioned.
LEMMA GitQuiet ==
    ASSUME TypeOK, GitInv, NEW s \in Sessions,
           UNCHANGED <<index, log, uncommitted, raced, made>>,
           \A r \in Sessions \ {s} :
              /\ pc'[r] = pc[r] /\ target'[r] = target[r]
              /\ blob'[r] = blob[r] /\ entries'[r] = entries[r]
              /\ base'[r] = base[r],
           pc[s] \notin InGit, pc'[s] \notin InGit,
           \A f \in Files \ unversioned' :
              \/ Writing(f)'
              \/ /\ f \notin unversioned /\ file'[f] = file[f]
                 /\ ~ Writing(f)
    PROVE  GitInv'
<1>1. \A r \in Sessions : pc[r] \in InGit \/ pc'[r] \in InGit => r # s
  OBVIOUS
<1>2. LoneJobs'
  BY <1>1 DEF GitInv, LoneJobs
<1>3. BlobsCurrent'
  <2> SUFFICES ASSUME NEW r \in Sessions, pc'[r] \in {"load", "update"},
                      target'[r] \notin raced' \cup unversioned',
                      ~ Writing(target[r])'
               PROVE  blob'[r] = file'[target'[r]]
    BY DEF BlobsCurrent
  <2>1. /\ r # s /\ pc[r] = pc'[r] /\ target'[r] = target[r]
        /\ target[r] \in Files /\ blob'[r] = blob[r]
    BY <1>1 DEF InGit, TypeOK
  <2>3. ~ \E q \in Sessions :
             target'[q] = target[r] /\ pc'[q] \in {"write", "written", "add"}
    BY <2>1 DEF Writing
  <2>4. \A f : ~ (\E q \in Sessions : /\ target'[q] = f
                                      /\ pc'[q] \in {"write", "written", "add"})
               => ~ Writing(f)'
    BY DEF Writing
  <2>2. /\ target[r] \notin unversioned /\ ~ Writing(target[r])
        /\ file'[target[r]] = file[target[r]]
    BY <2>1, <2>3, <2>4
  <2> QED BY <2>1, <2>2 DEF GitInv, BlobsCurrent
<1>4. EntriesCurrent'
  BY <1>1 DEF GitInv, EntriesCurrent, InGit, Committing
<1>5. ASSUME NEW f \in Files \ (unversioned' \cup raced')
      PROVE  Added(f)' /\ Committed(f)'
  <2>1. CASE Writing(f)'
    BY <2>1 DEF Added, Committed
  <2>2. CASE ~ Writing(f)'
    <3>1. /\ f \notin unversioned \cup raced /\ file'[f] = file[f]
          /\ ~ Writing(f)
      BY <1>5, <2>2
    <3>2. Added(f) /\ Committed(f)
      BY <3>1 DEF GitInv
    <3>3. (Adding(f) => Adding(f)') /\ (Jobbing(f) => Jobbing(f)')
      BY <1>1 DEF Adding, Jobbing, InGit
    <3>4. HEAD' = HEAD
      BY DEF HEAD
    <3> QED BY <3>1, <3>2, <3>3, <3>4 DEF Added, Committed
  <2> QED BY <2>1, <2>2
<1>6. MadeKept'
  BY <1>1 DEF GitInv, MadeKept, InGit, Committing, Versions
<1> QED BY <1>2, <1>3, <1>4, <1>5, <1>6 DEF GitInv

\* The write job and what it hands over to, and being dropped.
LEMMA GitWrite ==
    ASSUME TypeOK, NEW s \in Sessions, strategy = "git", GitInv,
           \/ OpenFile(s) \/ WriteData(s) \/ StartVersion(s) \/ Dropped(s)
           \/ \E n \in 0..Len(data[s]) : WriteFails(s, n)
    PROVE  GitInv'
<1>0. \A r \in Sessions \ {s} :
         /\ pc'[r] = pc[r] /\ target'[r] = target[r]
         /\ blob'[r] = blob[r] /\ entries'[r] = entries[r]
         /\ base'[r] = base[r]
  BY OthersKeep DEF Act
<1>1. UNCHANGED <<index, log, uncommitted, raced, made>>
  BY DEF OpenFile, WriteData, StartVersion, Dropped, WriteFails, gitVars,
         repoVars
<1>2. pc[s] \notin InGit /\ pc'[s] \notin InGit
  BY DEF TypeOK, OpenFile, WriteData, StartVersion, Dropped, WriteFails, Goto,
         Finish, InGit, Committing
<1>3. ASSUME NEW f \in Files \ unversioned'
      PROVE  \/ Writing(f)'
             \/ /\ f \notin unversioned /\ file'[f] = file[f]
                /\ ~ Writing(f)
  <2>1. CASE f = target[s] /\ pc[s] # "open"
    <3>1. pc'[s] \in {"write", "written", "add"} /\ target'[s] = target[s]
      BY <1>3, <2>1 DEF TypeOK, OpenFile, WriteData, StartVersion, Dropped,
                        WriteFails, Goto
    <3> QED BY <2>1, <3>1 DEF Writing
  <2>2. CASE f = target[s] /\ pc[s] = "open"
    <3>1. CASE OpenFile(s)
      BY <2>2, <3>1 DEF TypeOK, OpenFile, Goto, Writing
    <3>2. CASE Dropped(s)
      <4>1. UNCHANGED <<file, unversioned>>
        BY <2>2, <3>2 DEF Dropped, fsVars
      <4>2. Writing(f) => Writing(f)'
        BY <1>0, <2>2 DEF Writing
      <4> QED BY <1>3, <4>1, <4>2
    <3> QED BY <2>2, <3>1, <3>2 DEF WriteData, StartVersion, WriteFails
  <2>3. CASE f # target[s]
    <3>1. f \notin unversioned /\ file'[f] = file[f]
      BY <1>3, <2>3 DEF TypeOK, OpenFile, WriteData, StartVersion, Dropped,
                        WriteFails, SetFile, fsVars
    <3>2. Writing(f) => Writing(f)'
      BY <1>0, <2>3 DEF Writing
    <3> QED BY <3>1, <3>2
  <2> QED BY <2>1, <2>2, <2>3
<1> QED BY <1>0, <1>1, <1>2, <1>3, GitQuiet

\* Everything a session does that is not for git.
LEMMA GitOther ==
    ASSUME TypeOK, NEW s \in Sessions, GitInv,
           \/ \E f \in Files, len \in Lengths : Submit(s, f, len)
           \/ OpenFails(s)
           \/ StampSnapshot(s) \/ OpenSnapshot(s) \/ FillSnapshot(s)
           \/ SnapshotFails(s) \/ ListSnapshots(s) \/ StatSnapshots(s)
           \/ UnlinkSnapshot(s) \/ RotationFails(s) \/ RotationEnds(s)
    PROVE  GitInv'
<1>0. \A r \in Sessions \ {s} :
         /\ pc'[r] = pc[r] /\ target'[r] = target[r]
         /\ blob'[r] = blob[r] /\ entries'[r] = entries[r]
         /\ base'[r] = base[r]
  BY OthersKeep DEF Act
<1>1. /\ pc[s] \notin {"write", "written", "add"} \cup InGit
      /\ file' = file /\ UNCHANGED <<index, log, uncommitted, raced, made>>
      /\ unversioned \subseteq unversioned'
  BY DEF Submit, OpenFails, StampSnapshot, OpenSnapshot, FillSnapshot,
         SnapshotFails, ListSnapshots, StatSnapshots, UnlinkSnapshot,
         RotationFails, RotationEnds, fsVars, gitVars, repoVars, InGit,
         Committing
<1>2. pc'[s] \notin InGit
  BY DEF TypeOK, Submit, OpenFails, StampSnapshot, OpenSnapshot, FillSnapshot,
         SnapshotFails, ListSnapshots, StatSnapshots, UnlinkSnapshot,
         RotationFails, RotationEnds, Goto, Finish, InGit, Committing
<1>3. \A f : Writing(f) => Writing(f)'
  BY <1>0, <1>1 DEF Writing
<1> QED BY <1>0, <1>1, <1>2, <1>3, GitQuiet

\* A job begins: it marks what it overlaps, or clears its program's mark.
LEMMA GitAddKeeps ==
    ASSUME TypeOK, NEW s \in Sessions, GitInv, GitAdd(s)
    PROVE  GitInv'
<1> DEFINE others == {r \in Sessions \ {s} : pc[r] \in InGit}
<1>0. /\ \A r \in Sessions \ {s} :
            /\ pc'[r] = pc[r] /\ target'[r] = target[r]
            /\ blob'[r] = blob[r] /\ entries'[r] = entries[r]
            /\ base'[r] = base[r]
      /\ target' = target /\ target[s] \in Files
      /\ pc[s] = "add" /\ pc'[s] = "load" /\ blob'[s] = file[target[s]]
      /\ UNCHANGED <<file, index, log, uncommitted, made, unversioned>>
      /\ entries' = entries /\ base' = base
  BY DEF TypeOK, GitAdd, Goto, fsVars
<1>1. raced' = IF others = {} THEN raced \ {target[s]}
               ELSE raced \cup {target[r] : r \in others \cup {s}}
  BY DEF GitAdd
<1>2. \A r \in Sessions : pc'[r] \in InGit <=> r \in others \cup {s}
  BY <1>0 DEF InGit
<1>3. \A f \in Files \ raced' :
         (f = target[s] /\ others = {}) \/ f \notin raced
  BY <1>1
<1>4. \A r \in others : target[r] \in raced' /\ target[s] \in raced'
  BY <1>1
<1> HIDE DEF others
<1>5. LoneJobs'
  BY <1>0, <1>2, <1>4 DEF LoneJobs
<1>6. BlobsCurrent'
  <2> SUFFICES ASSUME NEW r \in Sessions, pc'[r] \in {"load", "update"},
                      target[r] \notin raced' \cup unversioned
               PROVE  blob'[r] = file[target[r]]
    BY <1>0 DEF BlobsCurrent
  <2>1. r = s
    BY <1>2, <1>4 DEF InGit
  <2> QED BY <1>0, <2>1
<1>7. EntriesCurrent'
  <2> SUFFICES ASSUME NEW r \in Sessions,
                      pc'[r] \in {"update", "parent", "commit"},
                      NEW f \in Files \ raced'
               PROVE  entries[r][f] = index[f]
    BY <1>0 DEF EntriesCurrent
  <2>1. r # s /\ pc[r] = pc'[r] /\ others # {}
    BY <1>0, <1>2 DEF InGit, Committing
  <2>2. f \notin raced
    BY <1>3, <2>1
  <2> QED BY <2>1, <2>2 DEF GitInv, EntriesCurrent
<1>8. ASSUME NEW f \in Files \ (unversioned' \cup raced')
      PROVE  Added(f)' /\ Committed(f)'
  <2>1. CASE f = target[s]
    BY <1>0, <2>1 DEF Added, Committed, Adding, Jobbing, InGit
  <2>2. CASE f # target[s]
    <3>1. f \notin unversioned \cup raced
      BY <1>0, <1>3, <1>8, <2>2
    <3>2. Added(f) /\ Committed(f)
      BY <3>1 DEF GitInv
    <3>3. /\ Writing(f) => Writing(f)'
          /\ Adding(f) => Adding(f)'
          /\ Jobbing(f) => Jobbing(f)'
      BY <1>0, <2>2 DEF Writing, Adding, Jobbing
    <3> QED BY <1>0, <3>2, <3>3 DEF Added, Committed, HEAD
  <2> QED BY <2>1, <2>2
<1>9. MadeKept'
  BY <1>0 DEF GitInv, MadeKept, Versions
<1> QED BY <1>5, <1>6, <1>7, <1>8, <1>9 DEF GitInv

\* Add and commit read the index or HEAD.
LEMMA GitReadsKeep ==
    ASSUME TypeOK, NEW s \in Sessions, GitInv,
           GitAddReads(s) \/ GitCommitTree(s) \/ GitCommitParent(s)
    PROVE  GitInv'
<1>0. /\ \A r \in Sessions \ {s} :
            pc'[r] = pc[r] /\ entries'[r] = entries[r] /\ base'[r] = base[r]
      /\ target' = target /\ blob' = blob
      /\ UNCHANGED <<file, index, log, uncommitted, raced, made, unversioned>>
  BY DEF TypeOK, GitAddReads, GitCommitTree, GitCommitParent, Goto, fsVars,
         repoVars
<1>1. \/ pc[s] = "load" /\ pc'[s] = "update" /\ entries'[s] = index
      \/ pc[s] = "tree" /\ pc'[s] = "parent" /\ entries'[s] = index
      \/ /\ pc[s] = "parent" /\ pc'[s] = "commit"
         /\ entries' = entries /\ base'[s] = log
  BY DEF TypeOK, GitAddReads, GitCommitTree, GitCommitParent, Goto
<1>2. \A r \in Sessions :
         /\ pc'[r] \in InGit <=> pc[r] \in InGit
         /\ pc'[r] \in {"load", "update"} <=> pc[r] \in {"load", "update"}
         /\ pc'[r] \in {"write", "written", "add"} <=>
               pc[r] \in {"write", "written", "add"}
  BY <1>0, <1>1 DEF InGit, Committing
<1>3. \A f : /\ Writing(f)' <=> Writing(f)
             /\ Adding(f)' <=> Adding(f)
             /\ Jobbing(f)' <=> Jobbing(f)
  BY <1>0, <1>2 DEF Writing, Adding, Jobbing
<1>4. LoneJobs'
  BY <1>0, <1>2 DEF GitInv, LoneJobs
<1>5. BlobsCurrent'
  BY <1>0, <1>2, <1>3 DEF GitInv, BlobsCurrent
<1>6. EntriesCurrent'
  BY <1>0, <1>1 DEF GitInv, EntriesCurrent
<1>7. \A f \in Files \ (unversioned' \cup raced') : Added(f)' /\ Committed(f)'
  BY <1>0, <1>3 DEF GitInv, Added, Committed, HEAD
<1>8. MadeKept'
  <2>1. \A r \in Sessions : pc'[r] = "commit" =>
           \/ pc[r] = "commit" /\ base'[r] = base[r]
           \/ base'[r] = log
    BY <1>0, <1>1
  <2>2. /\ Versions(log)' = Versions(log)
        /\ \A r \in Sessions : Versions(base[r])' = Versions(base'[r])
    BY <1>0 DEF Versions
  <2> QED BY <1>0, <2>1, <2>2 DEF GitInv, MadeKept, TypeOK
<1> QED BY <1>4, <1>5, <1>6, <1>7, <1>8 DEF GitInv

\* Add replaces the index: no program but those of overlapping jobs loses by
\* what was added since it read it.
LEMMA GitAddWritesKeeps ==
    ASSUME TypeOK, NEW s \in Sessions, GitInv, GitAddWrites(s)
    PROVE  GitInv'
<1>0. /\ \A r \in Sessions \ {s} : pc'[r] = pc[r]
      /\ target' = target /\ blob' = blob /\ entries' = entries /\ base' = base
      /\ UNCHANGED <<file, log, uncommitted, raced, made, unversioned>>
      /\ pc[s] = "update" /\ pc'[s] = "tree" /\ target[s] \in Files
      /\ index'[target[s]] = blob[s]
      /\ \A f \in Files \ {target[s]} : index'[f] = entries[s][f]
  BY DEF TypeOK, Tree, GitAddWrites, Goto, fsVars
<1>1. \A f \in Files \ (raced \cup {target[s]}) : index'[f] = index[f]
  BY <1>0 DEF GitInv, EntriesCurrent
<1>2. \A r \in Sessions : /\ pc'[r] \in InGit <=> pc[r] \in InGit
                          /\ pc'[r] \in {"load", "update"} <=>
                                r # s /\ pc[r] \in {"load", "update"}
                          /\ pc'[r] \in {"write", "written", "add"} <=>
                                pc[r] \in {"write", "written", "add"}
  BY <1>0 DEF InGit, Committing
<1>3. \A f : /\ Writing(f)' <=> Writing(f)
             /\ Jobbing(f)' <=> Jobbing(f)
             /\ f # target[s] /\ Adding(f) => Adding(f)'
  BY <1>0, <1>2 DEF Writing, Adding, Jobbing
<1>4. LoneJobs'
  BY <1>0, <1>2 DEF GitInv, LoneJobs
<1>5. BlobsCurrent'
  BY <1>0, <1>2, <1>3 DEF GitInv, BlobsCurrent
<1>6. EntriesCurrent'
  <2> SUFFICES ASSUME NEW r \in Sessions,
                      pc'[r] \in {"update", "parent", "commit"},
                      NEW f \in Files \ raced
               PROVE  entries[r][f] = index'[f]
    BY <1>0 DEF EntriesCurrent
  <2>1. r # s /\ pc[r] = pc'[r]
    BY <1>0
  <2>2. f # target[s]
    BY <1>0, <2>1 DEF GitInv, LoneJobs, InGit, Committing
  <2> QED BY <1>1, <2>1, <2>2 DEF GitInv, EntriesCurrent
<1>7. ASSUME NEW f \in Files \ (unversioned' \cup raced')
      PROVE  Added(f)' /\ Committed(f)'
  <2>1. CASE f = target[s]
    <3>1. blob[s] = file[f] \/ Writing(f)
      BY <1>0, <1>7, <2>1 DEF GitInv, BlobsCurrent
    <3>2. Jobbing(f)'
      BY <1>0, <2>1 DEF Jobbing, InGit, Committing
    <3> QED BY <1>0, <1>3, <2>1, <3>1, <3>2 DEF Added, Committed
  <2>2. CASE f # target[s]
    <3>1. index'[f] = index[f] /\ f \notin unversioned \cup raced
      BY <1>0, <1>1, <1>7, <2>2
    <3>2. Added(f) /\ Committed(f)
      BY <3>1 DEF GitInv
    <3> QED BY <1>0, <1>3, <2>2, <3>1, <3>2 DEF Added, Committed, HEAD
  <2> QED BY <2>1, <2>2
<1>8. MadeKept'
  BY <1>0 DEF GitInv, MadeKept, Versions
<1> QED BY <1>4, <1>5, <1>6, <1>7, <1>8 DEF GitInv

\* The last tree and the versions of a log that has been added to.
LEMMA VersionsGrow ==
    ASSUME NEW l \in Seq(Tree), NEW t \in Tree
    PROVE  /\ Versions(l) \subseteq Versions(Append(l, t))
           /\ \A f \in Files : <<f, t[f]>> \in Versions(Append(l, t))
           /\ Append(l, t)[Len(Append(l, t))] = t
<1>1. /\ Len(Append(l, t)) = Len(l) + 1
      /\ DOMAIN Append(l, t) = 1..(Len(l) + 1) /\ DOMAIN l = 1..Len(l)
      /\ Append(l, t)[Len(l) + 1] = t
      /\ \A i \in 1..Len(l) : Append(l, t)[i] = l[i]
      /\ Len(l) \in Nat
  OBVIOUS
<1>2. Len(l) + 1 \in DOMAIN Append(l, t) /\ DOMAIN l \subseteq DOMAIN Append(l, t)
  BY <1>1
<1> QED BY <1>1, <1>2 DEF Versions

\* Commit sets HEAD: to a tree that is the index, but for marked programs, on a
\* log that has every version a lone job has committed.
LEMMA GitCommitKeeps ==
    ASSUME TypeOK, NEW s \in Sessions, GitInv, GitCommit(s)
    PROVE  GitInv'
<1>0. /\ \A r \in Sessions \ {s} :
            /\ pc'[r] = pc[r] /\ target'[r] = target[r]
            /\ blob'[r] = blob[r] /\ entries'[r] = entries[r]
            /\ base'[r] = base[r]
      /\ UNCHANGED <<file, index, raced, unversioned>>
      /\ pc[s] = "commit" /\ pc'[s] = "idle" /\ target[s] \in Files
      /\ log' = Append(base[s], entries[s])
      /\ base[s] \in Seq(Tree) /\ entries[s] \in Tree
  BY DEF TypeOK, GitCommit, Finish, Goto, fsVars
<1>1. \A r \in Sessions : /\ pc'[r] \in InGit <=> r # s /\ pc[r] \in InGit
                          /\ pc'[r] \in {"write", "written", "add"} <=>
                                pc[r] \in {"write", "written", "add"}
                          /\ pc'[r] \in {"load", "update"} <=>
                                pc[r] \in {"load", "update"}
  BY <1>0 DEF InGit, Committing
<1>2. \A f : /\ Writing(f)' <=> Writing(f)
             /\ Adding(f)' <=> Adding(f)
  BY <1>0 DEF Writing, Adding
<1>3. LoneJobs'
  BY <1>0, <1>1 DEF GitInv, LoneJobs
<1>4. BlobsCurrent'
  BY <1>0, <1>1, <1>2 DEF GitInv, BlobsCurrent
<1>5. EntriesCurrent'
  BY <1>0 DEF GitInv, EntriesCurrent
<1>6. HEAD' = entries[s]
  BY <1>0, VersionsGrow DEF HEAD
<1>7. \A f \in Files \ raced : HEAD'[f] = index'[f]
  BY <1>0, <1>6 DEF GitInv, EntriesCurrent
<1>8. \A f \in Files \ (unversioned' \cup raced') : Added(f)' /\ Committed(f)'
  BY <1>0, <1>2, <1>7 DEF GitInv, Added, Committed
<1>9. MadeKept'
  <2>1. made \subseteq Versions(base[s])
    BY <1>0 DEF GitInv, MadeKept
  <2>2. made' \subseteq Versions(log')
    BY <1>0, <2>1, VersionsGrow DEF GitCommit
  <2>3. ASSUME NEW r \in Sessions, pc'[r] = "commit"
        PROVE  base'[r] # <<>> /\ made' \subseteq Versions(base'[r])
    <3>1. r # s /\ pc[r] = "commit"
      BY <1>0, <2>3
    <3>2. target[s] \in raced
      BY <1>0, <3>1 DEF GitInv, LoneJobs, InGit, Committing
    <3> QED BY <1>0, <3>1, <3>2 DEF GitCommit, GitInv, MadeKept
  <2>4. Versions(log)' = Versions(log')
    BY DEF Versions
  <2>5. \A r \in Sessions : Versions(base[r])' = Versions(base'[r])
    BY DEF Versions
  <2> QED BY <2>2, <2>3, <2>4, <2>5 DEF MadeKept
<1> QED BY <1>3, <1>4, <1>5, <1>8, <1>9 DEF GitInv

\* A job raises: its program is left unversioned, or a commit is missing.
LEMMA GitFailsKeeps ==
    ASSUME TypeOK, NEW s \in Sessions, GitInv, GitFails(s)
    PROVE  GitInv'
<1>0. /\ \A r \in Sessions \ {s} :
            /\ pc'[r] = pc[r] /\ target'[r] = target[r]
            /\ blob'[r] = blob[r] /\ entries'[r] = entries[r]
            /\ base'[r] = base[r]
      /\ UNCHANGED <<file, index, log, raced, made>>
      /\ pc[s] \in {"add"} \cup InGit /\ pc'[s] = "idle"
      /\ unversioned \subseteq unversioned'
      /\ pc[s] \notin Committing => target[s] \in unversioned'
      /\ uncommitted' = (uncommitted \/ pc[s] \in Committing)
  BY DEF TypeOK, GitFails, Finish, Goto, fsVars
<1>1. \A r \in Sessions :
         /\ pc'[r] \in InGit <=> r # s /\ pc[r] \in InGit
         /\ r # s => pc'[r] = pc[r]
  BY <1>0 DEF InGit, Committing
<1>2. ASSUME NEW f, f \notin unversioned'
      PROVE  /\ Writing(f) => Writing(f)'
             /\ Adding(f) => Adding(f)'
             /\ Jobbing(f) => Jobbing(f)' \/ uncommitted'
  BY <1>0, <1>2 DEF Writing, Adding, Jobbing, InGit, Committing
<1>3. LoneJobs'
  BY <1>0, <1>1 DEF GitInv, LoneJobs
<1>4. BlobsCurrent'
  <2> SUFFICES ASSUME NEW r \in Sessions, pc'[r] \in {"load", "update"},
                      target'[r] \notin raced' \cup unversioned'
               PROVE  blob'[r] = file'[target'[r]] \/ Writing(target[r])'
    BY DEF BlobsCurrent
  <2>1. r # s /\ pc[r] = pc'[r] /\ target'[r] = target[r] /\ blob'[r] = blob[r]
    BY <1>0
  <2>2. Writing(target[r]) => Writing(target[r])'
    <3>1. PICK f : f = target[r] /\ f \notin unversioned'
      BY <2>1
    <3>2. Writing(f) => Writing(f)'
      BY <1>2, <3>1
    <3> QED BY <2>1, <3>1, <3>2 DEF Writing
  <2> QED BY <1>0, <2>1, <2>2 DEF GitInv, BlobsCurrent
<1>5. EntriesCurrent'
  BY <1>0 DEF GitInv, EntriesCurrent
<1>6. \A f \in Files \ (unversioned' \cup raced') : Added(f)' /\ Committed(f)'
  <2> TAKE f \in Files \ (unversioned' \cup raced')
  <2>1. Added(f) /\ Committed(f) /\ f \notin unversioned'
    BY <1>0 DEF GitInv
  <2> QED BY <1>0, <1>2, <2>1 DEF Added, Committed, HEAD
<1>7. MadeKept'
  BY <1>0 DEF GitInv, MadeKept, Versions
<1> QED BY <1>3, <1>4, <1>5, <1>6, <1>7 DEF GitInv

\* The process ends: what was not recorded is marked.
LEMMA GitProcess ==
    ASSUME TypeOK, GitInv, Teardown \/ Crash \/ Tick \/ UNCHANGED vars
    PROVE  GitInv'
<1>1. CASE Crash
  <2>0. /\ \A r \in Sessions : pc'[r] = "idle"
        /\ UNCHANGED <<file, index, log, raced, made>>
    BY <1>1 DEF Crash, fsVars
  <2>1. LoneJobs' /\ BlobsCurrent' /\ EntriesCurrent'
    BY <2>0 DEF LoneJobs, BlobsCurrent, EntriesCurrent, InGit, Committing
  <2>2. MadeKept'
    BY <2>0 DEF GitInv, MadeKept, Versions
  <2>3. ASSUME NEW f \in Files \ (unversioned' \cup raced')
        PROVE  Added(f)' /\ Committed(f)'
    <3>1. f \notin unversioned /\ ~ Writing(f) /\ ~ Adding(f)
      BY <1>1, <2>3 DEF Crash, Writing, Adding, Unrecorded
    <3>2. Jobbing(f) => uncommitted'
      BY <1>1, <3>1 DEF Crash, Jobbing, Adding, InGit
    <3>3. Added(f) /\ Committed(f) /\ (uncommitted => uncommitted')
      BY <1>1, <2>0, <2>3, <3>1 DEF GitInv, Crash
    <3> QED BY <2>0, <3>1, <3>2, <3>3 DEF Added, Committed, HEAD
  <2> QED BY <2>1, <2>2, <2>3 DEF GitInv
<1>2. CASE Teardown \/ Tick \/ UNCHANGED vars
  <2>1. UNCHANGED <<pc, target, file, index, log, blob, entries, base,
                    uncommitted, raced, made, unversioned>>
    BY <1>2 DEF Teardown, Tick, vars, fsVars, gitVars, repoVars
  <2> QED
    BY <2>1 DEF GitInv, LoneJobs, BlobsCurrent, EntriesCurrent, Added,
                Committed, MadeKept, Writing, Adding, Jobbing, HEAD, Versions
<1> QED BY <1>1, <1>2

\* The inductive invariant: types, and what the git strategy keeps.
VersionInv == TypeOK /\ (strategy = "git" => GitInv)

LEMMA VersionInit == Init => VersionInv
<1> SUFFICES ASSUME Init PROVE VersionInv
  OBVIOUS
<1>1. HEAD = index
  BY DEF Init, HEAD
<1>2. LoneJobs /\ BlobsCurrent /\ EntriesCurrent /\ MadeKept
  BY DEF Init, LoneJobs, BlobsCurrent, EntriesCurrent, MadeKept, InGit,
         Committing
<1>3. \A f \in Files : Added(f) /\ Committed(f)
  BY <1>1 DEF Init, NoTree, Added, Committed
<1> QED BY <1>2, <1>3, TypeInit DEF VersionInv, GitInv

LEMMA VersionNext == VersionInv /\ [Next]_vars => VersionInv'
<1> SUFFICES ASSUME VersionInv, [Next]_vars PROVE VersionInv'
  OBVIOUS
<1>1. TypeOK'
  BY TypeNext DEF VersionInv
<1>2. strategy' = strategy
  <2>1. CASE Teardown \/ Crash \/ Tick \/ UNCHANGED vars
    BY <2>1 DEF Teardown, Crash, Tick, vars, envVars
  <2> QED BY <2>1, StepCases, OthersKeep DEF VersionInv
<1>3. ASSUME strategy = "git" PROVE GitInv'
  <2>1. TypeOK /\ GitInv
    BY <1>3 DEF VersionInv
  <2> QED
    BY <1>3, <2>1, StepCases, GitWrite, GitOther, GitAddKeeps, GitReadsKeep,
       GitAddWritesKeeps, GitCommitKeeps, GitFailsKeeps, GitProcess
       DEF Act, GitJob
<1> QED BY <1>1, <1>2, <1>3 DEF VersionInv

\* What git's jobs have read and stored, however they overlap: only programs
\* whose jobs overlapped are out of step with what they hold.
THEOREM VersionInvariance == Spec => []VersionInv
BY VersionInit, VersionNext, PTL DEF Spec

LEMMA GitInvImplies == VersionInv => LoneVersioned
<1> SUFFICES ASSUME TypeOK, GitInv,
                    NEW f \in Files \ (unversioned \cup raced)
             PROVE  HEAD[f] = file[f] \/ AtWork(f) \/ uncommitted
  BY DEF VersionInv, LoneVersioned, GitInv, MadeKept
<1>1. Writing(f) \/ Adding(f) \/ Jobbing(f) => AtWork(f)
  BY DEF Writing, Adding, Jobbing, AtWork, InGit, Committing
<1> QED BY <1>1 DEF GitInv, Added, Committed

\* Whatever git jobs overlap, with no lock between reading and writing the
\* index and HEAD: a program whose last job overlapped none is in HEAD as it is
\* on disk, and its versions stay in the log.
THEOREM LoneVersionsKept == Spec => []LoneVersioned
BY VersionInvariance, GitInvImplies, PTL

-----------------------------------------------------------------------------
(* Snapshots and their rotation                                            *)

\* A session's step changes what no other session is doing or has in hand.
LEMMA OthersHands ==
    ASSUME TypeOK, NEW s \in Sessions,
           \/ Act(s)
           \/ \E f \in Files, len \in Lengths : Submit(s, f, len)
    PROVE  \A r \in Sessions \ {s} :
              /\ pc'[r] = pc[r] /\ target'[r] = target[r]
              /\ stamp'[r] = stamp[r]
              /\ seen'[r] = seen[r] /\ todo'[r] = todo[r]
<1> USE DEF Goto, Finish, TypeOK
<1>1. CASE \E f \in Files, len \in Lengths : Submit(s, f, len)
  BY <1>1 DEF Submit, snapVars
<1>2. CASE \/ \E n \in 0..Len(data[s]) : WriteFails(s, n)
           \/ OpenFile(s) \/ OpenFails(s) \/ WriteData(s) \/ StartVersion(s)
  BY <1>2 DEF WriteFails, OpenFile, OpenFails, WriteData, StartVersion,
              snapVars
<1>3. CASE GitJob(s) \/ Dropped(s)
  BY <1>3, GitJobFrame DEF Dropped
<1>4. CASE \/ StampSnapshot(s) \/ OpenSnapshot(s) \/ FillSnapshot(s)
           \/ SnapshotFails(s)
  BY <1>4 DEF StampSnapshot, OpenSnapshot, FillSnapshot, SnapshotFails
<1>5. CASE ListSnapshots(s) \/ RotationFails(s) \/ RotationEnds(s)
  BY <1>5 DEF ListSnapshots, RotationFails, RotationEnds
<1>6. CASE StatSnapshots(s)
  BY <1>6 DEF StatSnapshots
<1>7. CASE UnlinkSnapshot(s)
  BY <1>7 DEF UnlinkSnapshot
<1> QED BY <1>1, <1>2, <1>3, <1>4, <1>5, <1>6, <1>7 DEF Act

-----------------------------------------------------------------------------
(* Rotation                                                                *)

SnapsOf(n) == {x \in DOMAIN snaps : x[1] = n}

\* The session rotates the snapshots of n, or is about to.
Named(s, n) == pc[s] \in Rotating /\ BaseName[target[s]] = n

\* While a rotation of n is still to list, or one has listed all there is and
\* has to examine it, or will remove what is too much, there may be more
\* snapshots of n than are kept; else there are not.
Bounded(n) ==
    \/ n \in aborted
    \/ \E s \in Sessions : Named(s, n) /\ pc[s] \in {"fill", "list"}
    \/ \E s \in Sessions :
          Named(s, n) /\ pc[s] = "stat" /\ SnapsOf(n) \subseteq seen[s]
    \/ \E s \in Sessions :
          /\ Named(s, n) /\ pc[s] = "unlink"
          /\ Cardinality(SnapsOf(n) \ DOMAIN todo[s]) <= MaxSnapshots
    \/ Cardinality(SnapsOf(n)) <= MaxSnapshots

RotationInv ==
    /\ IsFiniteSet(DOMAIN snaps)
    /\ \A n \in Names : Bounded(n)

\* What is left of a few snapshots is few.
LEMMA FewerLeft ==
    ASSUME NEW S, NEW T \in SUBSET S, IsFiniteSet(S),
           Cardinality(S) <= MaxSnapshots
    PROVE  Cardinality(T) <= MaxSnapshots
<1>1. Cardinality(T) <= Cardinality(S) /\ IsFiniteSet(T)
  BY FS_Subset
<1>2. Cardinality(S) \in Nat /\ Cardinality(T) \in Nat
  BY <1>1, FS_CardinalityType
<1> QED BY <1>1, <1>2, VersionAssumption

\* The bound on n is kept by a step that adds no snapshot of n and lets those
\* that rotate n go on, removing from the directory what they strike out.
LEMMA BoundKept ==
    ASSUME TypeOK, IsFiniteSet(DOMAIN snaps), NEW n \in Names, Bounded(n),
           aborted \subseteq aborted',
           SnapsOf(n)' \subseteq SnapsOf(n),
           \A r \in Sessions : Named(r, n) =>
              /\ pc'[r] = pc[r] /\ target'[r] = target[r]
              /\ seen'[r] = seen[r]
              /\ SnapsOf(n)' \ DOMAIN todo'[r]
                    \subseteq SnapsOf(n) \ DOMAIN todo[r]
    PROVE  Bounded(n)'
<1>1. IsFiniteSet(SnapsOf(n))
  BY FS_Subset DEF SnapsOf
<1>2. \A r \in Sessions : Named(r, n) => Named(r, n)'
  BY DEF Named
<1>3. CASE n \in aborted
  BY <1>3 DEF Bounded
<1>4. CASE \E s \in Sessions : Named(s, n) /\ pc[s] \in {"fill", "list"}
  BY <1>2, <1>4 DEF Bounded
<1>5. ASSUME NEW s \in Sessions, Named(s, n), pc[s] = "stat",
             SnapsOf(n) \subseteq seen[s]
      PROVE  Bounded(n)'
  <2>1. Named(s, n)' /\ pc'[s] = "stat" /\ SnapsOf(n)' \subseteq seen'[s]
    BY <1>2, <1>5
  <2> QED BY <2>1 DEF Bounded
<1>6. ASSUME NEW s \in Sessions, Named(s, n), pc[s] = "unlink",
             Cardinality(SnapsOf(n) \ DOMAIN todo[s]) <= MaxSnapshots
      PROVE  Bounded(n)'
  <2>1. IsFiniteSet(SnapsOf(n) \ DOMAIN todo[s])
    BY <1>1, FS_Subset
  <2>2. Cardinality(SnapsOf(n)' \ DOMAIN todo'[s]) <= MaxSnapshots
    BY <1>6, <2>1, FewerLeft
  <2>3. Named(s, n)' /\ pc'[s] = "unlink"
    BY <1>2, <1>6
  <2> QED BY <2>2, <2>3 DEF Bounded
<1>7. CASE Cardinality(SnapsOf(n)) <= MaxSnapshots
  BY <1>1, <1>7, FewerLeft DEF Bounded
<1> QED BY <1>3, <1>4, <1>5, <1>6, <1>7 DEF Bounded

\* A session that does not rotate and touches no snapshot.
LEMMA RotationBystander ==
    ASSUME TypeOK, RotationInv, NEW s \in Sessions, pc[s] \notin Rotating,
           \/ Act(s) /\ ~ OpenSnapshot(s)
           \/ \E f \in Files, len \in Lengths : Submit(s, f, len)
    PROVE  RotationInv'
<1>1. snaps' = snaps /\ aborted' = aborted
  <2> USE DEF Rotating, snapVars
  <2>1. CASE \E f \in Files, len \in Lengths : Submit(s, f, len)
    BY <2>1 DEF Submit
  <2>2. CASE ~ \E f \in Files, len \in Lengths : Submit(s, f, len)
    BY <2>2, GitJobFrame
       DEF Act, WriteFails, OpenFile, OpenFails, WriteData, StartVersion,
                Dropped, StampSnapshot, FillSnapshot, SnapshotFails,
                ListSnapshots, StatSnapshots,
                UnlinkSnapshot, RotationFails, RotationEnds
  <2> QED BY <2>1, <2>2
<1>2. \A r \in Sessions \ {s} :
         /\ pc'[r] = pc[r] /\ target'[r] = target[r]
         /\ seen'[r] = seen[r] /\ todo'[r] = todo[r]
  BY OthersHands
<1>3. ASSUME NEW n \in Names PROVE Bounded(n)'
  <2>1. SnapsOf(n)' = SnapsOf(n)
    BY <1>1 DEF SnapsOf
  <2>2. \A r \in Sessions : Named(r, n) => r # s
    BY DEF Named
  <2> QED BY <1>1, <1>2, <2>1, <2>2, BoundKept DEF RotationInv
<1> QED BY <1>1, <1>3 DEF RotationInv

\* The names a session's step does not concern keep their bound.
LEMMA OtherNames ==
    ASSUME TypeOK, RotationInv, NEW s \in Sessions, Act(s),
           aborted \subseteq aborted',
           NEW n \in Names, ~ Named(s, n), SnapsOf(n)' \subseteq SnapsOf(n)
    PROVE  Bounded(n)'
<1>1. \A r \in Sessions \ {s} :
         /\ pc'[r] = pc[r] /\ target'[r] = target[r]
         /\ seen'[r] = seen[r] /\ todo'[r] = todo[r]
  BY OthersHands
<1> QED BY <1>1, BoundKept DEF RotationInv

\* Opening and filling a snapshot: the rotation that will list it is ahead.
LEMMA RotationSnapshot ==
    ASSUME TypeOK, RotationInv, NEW s \in Sessions,
           OpenSnapshot(s) \/ FillSnapshot(s) \/ SnapshotFails(s)
    PROVE  RotationInv'
<1> DEFINE own == BaseName[target[s]]
<1>0. target[s] \in Files /\ aborted \subseteq aborted' /\ Act(s)
  BY DEF TypeOK, OpenSnapshot, FillSnapshot, SnapshotFails, Act
<1>1. CASE OpenSnapshot(s)
  <2>1. DOMAIN snaps' = DOMAIN snaps \cup {Mine(s)}
    BY <1>1 DEF OpenSnapshot, SnapsWith
  <2>2. IsFiniteSet(DOMAIN snaps')
    BY <2>1, FS_AddElement DEF RotationInv
  <2>3. pc'[s] = "fill" /\ target'[s] = target[s]
    BY <1>1 DEF TypeOK, OpenSnapshot, Goto
  <2>4. ASSUME NEW n \in Names PROVE Bounded(n)'
    <3>1. CASE n = own
      BY <2>3, <3>1 DEF Bounded, Named, Rotating
    <3>2. CASE n # own
      <4>1. SnapsOf(n)' \subseteq SnapsOf(n)
        BY <2>1, <3>2 DEF SnapsOf, Mine
      <4> QED BY <1>0, <3>2, <4>1, OtherNames DEF Named
    <3> QED BY <3>1, <3>2
  <2> QED BY <2>2, <2>4 DEF RotationInv
<1>2. CASE FillSnapshot(s)
  <2>1. DOMAIN snaps' = DOMAIN snaps
    BY <1>2 DEF FillSnapshot, SnapsWith
  <2>2. pc'[s] = "list" /\ target'[s] = target[s]
    BY <1>2 DEF TypeOK, FillSnapshot, Goto
  <2>3. ASSUME NEW n \in Names PROVE Bounded(n)'
    <3>1. CASE n = own
      BY <2>2, <3>1 DEF Bounded, Named, Rotating
    <3>2. CASE n # own
      BY <1>0, <2>1, <3>2, OtherNames DEF Named, SnapsOf
    <3> QED BY <3>1, <3>2
  <2> QED BY <2>1, <2>3 DEF RotationInv
<1>3. CASE SnapshotFails(s)
  <2>1. snaps' = snaps /\ (pc[s] = "fill" => own \in aborted')
    BY <1>3 DEF SnapshotFails
  <2>2. CASE pc[s] \in {"stamp", "copy"}
    <3>1. pc[s] \notin Rotating /\ ~ OpenSnapshot(s)
      BY <1>3, <2>2 DEF Rotating, TypeOK, SnapshotFails, OpenSnapshot, Finish,
                        Goto
    <3> QED BY <1>0, <3>1, RotationBystander
  <2>3. CASE pc[s] = "fill"
    <3>1. ASSUME NEW n \in Names PROVE Bounded(n)'
      <4>1. CASE n = own
        BY <2>1, <2>3, <4>1 DEF Bounded
      <4>2. CASE n # own
        BY <1>0, <2>1, <4>2, OtherNames DEF Named, SnapsOf
      <4> QED BY <4>1, <4>2
    <3> QED BY <2>1, <3>1 DEF RotationInv
  <2> QED BY <1>3, <2>2, <2>3 DEF SnapshotFails
<1> QED BY <1>1, <1>2, <1>3

\* Listing, examining, removing, and the end of a rotation.
LEMMA RotationSteps ==
    ASSUME TypeOK, RotationInv, NEW s \in Sessions,
           \/ ListSnapshots(s) \/ StatSnapshots(s) \/ UnlinkSnapshot(s)
           \/ RotationFails(s) \/ RotationEnds(s)
    PROVE  RotationInv'
<1>a. /\ target[s] \in Files /\ BaseName[target[s]] \in Names
      /\ aborted \subseteq aborted' /\ Act(s)
  BY VersionAssumption DEF TypeOK, ListSnapshots, StatSnapshots,
     UnlinkSnapshot, RotationFails, RotationEnds, Act
<1>b. PICK own \in Names : own = BaseName[target[s]]
  BY <1>a
<1>0. target[s] \in Files /\ aborted \subseteq aborted' /\ Act(s)
  BY <1>a
<1>1. DOMAIN snaps' \subseteq DOMAIN snaps
  BY DEF ListSnapshots, StatSnapshots, UnlinkSnapshot, RotationFails,
         RotationEnds, Without
<1>2. IsFiniteSet(DOMAIN snaps')
  BY <1>1, FS_Subset DEF RotationInv
<1>3. ASSUME NEW n \in Names, n # own PROVE Bounded(n)'
  BY <1>0, <1>b, <1>1, <1>3, OtherNames DEF Named, SnapsOf
<1>4. \A r \in Sessions \ {s} :
         /\ pc'[r] = pc[r] /\ target'[r] = target[r]
         /\ seen'[r] = seen[r] /\ todo'[r] = todo[r]
  BY <1>0, OthersHands
<1>5. Bounded(own)'
  <2>1. CASE ListSnapshots(s)
    <3>1. pc'[s] = "stat" /\ target'[s] = target[s] /\ snaps' = snaps
      BY <2>1 DEF TypeOK, ListSnapshots, Goto
    <3>2. SnapsOf(own)' \subseteq seen'[s]
      BY <1>0, <1>b, <2>1, <3>1, VersionAssumption
         DEF TypeOK, ListSnapshots, SnapsOf
    <3> QED BY <1>b, <3>1, <3>2 DEF Bounded, Named, Rotating
  <2>2. CASE StatSnapshots(s)
    <3>1. /\ pc'[s] = "unlink" /\ target'[s] = target[s] /\ snaps' = snaps
          /\ pc[s] = "stat" /\ aborted' = aborted
      BY <2>2 DEF TypeOK, StatSnapshots, Goto
    <3>2. CASE SnapsOf(own) \subseteq seen[s]
      <4>1. PICK kept \in SUBSET seen[s] :
               /\ Newest(kept, seen[s], MaxSnapshots)
               /\ todo' = [todo EXCEPT ![s] =
                              [x \in seen[s] \ kept |-> snaps[x].mtime]]
        BY <2>2 DEF StatSnapshots
      <4>2. IsFiniteSet(seen[s])
        BY <2>2, FS_Subset DEF StatSnapshots, RotationInv
      <4>3. IsFiniteSet(kept) /\ Cardinality(kept) <= MaxSnapshots
        BY <4>1, <4>2, FS_Subset, FS_CardinalityType, VersionAssumption
           DEF Newest
      <4>4. DOMAIN todo'[s] = seen[s] \ kept
        BY <4>1 DEF TypeOK
      <4>5. SnapsOf(own)' \ DOMAIN todo'[s] \subseteq kept
        BY <3>1, <3>2, <4>4 DEF SnapsOf
      <4>6. Cardinality(SnapsOf(own)' \ DOMAIN todo'[s]) <= MaxSnapshots
        BY <4>3, <4>5, FewerLeft
      <4> QED BY <1>b, <3>1, <4>6 DEF Bounded, Named, Rotating
    <3>3. CASE ~ (SnapsOf(own) \subseteq seen[s])
      <4>1. Bounded(own) /\ SnapsOf(own)' = SnapsOf(own)
        BY <3>1 DEF RotationInv, SnapsOf
      <4>2. \A r \in Sessions : Named(r, own) /\ r # s => Named(r, own)'
        BY <1>4 DEF Named
      <4>3. CASE own \in aborted
        BY <3>1, <4>3 DEF Bounded
      <4>4. CASE \E r \in Sessions : Named(r, own) /\ pc[r] \in {"fill", "list"}
        BY <1>4, <3>1, <4>2, <4>4 DEF Bounded
      <4>5. ASSUME NEW r \in Sessions, Named(r, own), pc[r] = "stat",
                   SnapsOf(own) \subseteq seen[r]
            PROVE  Bounded(own)'
        <5>1. r # s
          BY <3>3, <4>5
        <5>2. /\ Named(r, own)' /\ pc'[r] = "stat"
              /\ SnapsOf(own)' \subseteq seen'[r]
          BY <1>4, <4>1, <4>2, <4>5, <5>1
        <5> QED BY <5>2 DEF Bounded
      <4>6. ASSUME NEW r \in Sessions, Named(r, own), pc[r] = "unlink",
                   Cardinality(SnapsOf(own) \ DOMAIN todo[r]) <= MaxSnapshots
            PROVE  Bounded(own)'
        <5>1. r # s
          BY <3>1, <4>6
        <5>2. /\ Named(r, own)' /\ pc'[r] = "unlink"
              /\ SnapsOf(own)' \ DOMAIN todo'[r] = SnapsOf(own) \ DOMAIN todo[r]
          BY <1>4, <4>1, <4>2, <4>6, <5>1
        <5> QED BY <4>6, <5>2 DEF Bounded
      <4>7. CASE Cardinality(SnapsOf(own)) <= MaxSnapshots
        BY <4>1, <4>7 DEF Bounded
      <4> QED BY <4>1, <4>3, <4>4, <4>5, <4>6, <4>7 DEF Bounded
    <3> QED BY <3>2, <3>3
  <2>3. CASE UnlinkSnapshot(s)
    <3>1. PICK x \in DOMAIN todo[s] :
             /\ x \in DOMAIN snaps
             /\ snaps' = Without(snaps, {x})
             /\ todo' = [todo EXCEPT ![s] = Without(@, {x})]
      BY <2>3 DEF UnlinkSnapshot
    <3>2. DOMAIN todo'[s] = DOMAIN todo[s] \ {x}
      BY <3>1 DEF TypeOK, Without
    <3>3. SnapsOf(own)' = SnapsOf(own) \ {x}
      BY <3>1 DEF SnapsOf, Without
    <3>4. pc' = pc /\ target' = target /\ seen' = seen /\ aborted' = aborted
      BY <2>3 DEF UnlinkSnapshot
    <3>5. \A r \in Sessions :
             SnapsOf(own)' \ DOMAIN todo'[r]
                \subseteq SnapsOf(own) \ DOMAIN todo[r]
      BY <1>4, <3>2, <3>3
    <3>6. Bounded(own)
      BY <1>0 DEF RotationInv
    <3>7. IsFiniteSet(DOMAIN snaps) /\ SnapsOf(own)' \subseteq SnapsOf(own)
      BY <3>3 DEF RotationInv
    <3> QED BY <1>0, <3>4, <3>5, <3>6, <3>7, BoundKept
  <2>4. CASE RotationFails(s)
    BY <1>b, <2>4 DEF RotationFails, Bounded
  <2>5. CASE RotationEnds(s)
    <3>1. DOMAIN todo[s] = {} /\ snaps' = snaps /\ pc[s] = "unlink"
          /\ aborted' = aborted
      BY <2>5 DEF RotationEnds
    <3>2. SnapsOf(own)' = SnapsOf(own)
      BY <3>1 DEF SnapsOf
    <3>3. SnapsOf(own) \ DOMAIN todo[s] = SnapsOf(own)
      BY <3>1
    <3>4. Bounded(own)
      BY <1>0 DEF RotationInv
    <3>5. \A r \in Sessions : Named(r, own) /\ r # s => Named(r, own)'
      BY <1>4 DEF Named
    <3>6. CASE \E r \in Sessions :
                  r # s /\ Named(r, own) /\ pc[r] \in {"fill", "list"}
      BY <1>4, <3>5, <3>6 DEF Bounded
    <3>7. ASSUME NEW r \in Sessions, r # s, Named(r, own), pc[r] = "stat",
                 SnapsOf(own) \subseteq seen[r]
          PROVE  Bounded(own)'
      <4>1. /\ Named(r, own)' /\ pc'[r] = "stat"
            /\ SnapsOf(own)' \subseteq seen'[r]
        BY <1>4, <3>2, <3>5, <3>7
      <4> QED BY <4>1 DEF Bounded
    <3>8. ASSUME NEW r \in Sessions, r # s, Named(r, own), pc[r] = "unlink",
                 Cardinality(SnapsOf(own) \ DOMAIN todo[r]) <= MaxSnapshots
          PROVE  Bounded(own)'
      <4>1. /\ Named(r, own)' /\ pc'[r] = "unlink"
            /\ SnapsOf(own)' \ DOMAIN todo'[r] = SnapsOf(own) \ DOMAIN todo[r]
        BY <1>4, <3>2, <3>5, <3>8
      <4> QED BY <3>8, <4>1 DEF Bounded
    <3>9. CASE own \in aborted \/ Cardinality(SnapsOf(own)) <= MaxSnapshots
      BY <3>1, <3>2, <3>9 DEF Bounded
    <3>10. pc[s] \notin {"fill", "list", "stat"}
      BY <3>1
    <3> QED BY <3>1, <3>3, <3>4, <3>6, <3>7, <3>8, <3>9, <3>10 DEF Bounded
  <2> QED BY <2>1, <2>2, <2>3, <2>4, <2>5
<1> QED BY <1>2, <1>3, <1>5 DEF RotationInv

\* A kill cuts every rotation short; the rest lets them go on.
LEMMA RotationProcess ==
    ASSUME TypeOK, RotationInv, Teardown \/ Crash \/ Tick \/ UNCHANGED vars
    PROVE  RotationInv'
<1>1. snaps' = snaps /\ aborted \subseteq aborted'
  BY DEF Teardown, Crash, Tick, vars, snapVars
<1>2. ASSUME NEW n \in Names PROVE Bounded(n)'
  <2>1. Bounded(n) /\ SnapsOf(n)' = SnapsOf(n)
    BY <1>1 DEF RotationInv, SnapsOf
  <2>2. CASE Crash
    <3>1. \A s \in Sessions : Named(s, n) => n \in aborted'
      BY <2>2 DEF Crash, Named
    <3> QED BY <1>1, <2>1, <3>1 DEF Bounded
  <2>3. CASE Teardown \/ Tick \/ UNCHANGED vars
    <3>1. pc' = pc /\ target' = target /\ seen' = seen /\ todo' = todo
      BY <2>3 DEF Teardown, Tick, vars, snapVars
    <3> QED BY <1>1, <2>1, <3>1, BoundKept DEF RotationInv
  <2> QED BY <2>2, <2>3
<1>3. DOMAIN snaps' = DOMAIN snaps
  BY <1>1
<1> QED BY <1>2, <1>3 DEF RotationInv

LEMMA RotationInit == Init => RotationInv
<1> SUFFICES ASSUME Init PROVE RotationInv
  OBVIOUS
<1>1. DOMAIN snaps = {}
  BY DEF Init, EmptyFun
<1>2. \A n \in Names : SnapsOf(n) = {}
  BY <1>1 DEF SnapsOf
<1>3. IsFiniteSet({}) /\ Cardinality({}) <= MaxSnapshots
  BY FS_EmptySet, VersionAssumption
<1>4. ASSUME NEW n \in Names PROVE Bounded(n)
  BY <1>2, <1>3 DEF Bounded
<1> QED BY <1>1, <1>3, <1>4 DEF RotationInv

LEMMA RotationNext == TypeOK /\ RotationInv /\ [Next]_vars => RotationInv'
<1> SUFFICES ASSUME TypeOK, RotationInv, [Next]_vars PROVE RotationInv'
  OBVIOUS
<1>1. ASSUME NEW s \in Sessions, Act(s) PROVE RotationInv'
  <2>1. CASE \/ OpenSnapshot(s) \/ FillSnapshot(s) \/ SnapshotFails(s)
             \/ ListSnapshots(s) \/ StatSnapshots(s) \/ UnlinkSnapshot(s)
             \/ RotationFails(s) \/ RotationEnds(s)
    BY <2>1, RotationSnapshot, RotationSteps
  <2>2. CASE ~ (\/ OpenSnapshot(s) \/ FillSnapshot(s) \/ SnapshotFails(s)
                \/ ListSnapshots(s) \/ StatSnapshots(s) \/ UnlinkSnapshot(s)
                \/ RotationFails(s) \/ RotationEnds(s))
    <3>1. pc[s] \notin Rotating
      BY <1>1, <2>2, GitJobFrame
         DEF Rotating, Act, WriteFails, OpenFile, OpenFails, WriteData,
             StartVersion, Dropped, StampSnapshot, InGit, Committing
    <3> QED BY <1>1, <2>2, <3>1, RotationBystander
  <2> QED BY <2>1, <2>2
<1>2. ASSUME NEW s \in Sessions,
             \E f \in Files, len \in Lengths : Submit(s, f, len)
      PROVE  RotationInv'
  <2>1. pc[s] \notin Rotating
    BY <1>2 DEF Submit, Rotating
  <2> QED BY <1>2, <2>1, RotationBystander
<1> QED BY <1>1, <1>2, StepCases, RotationProcess

LEMMA RotationInvariance == Spec => [](TypeOK /\ RotationInv)
BY TypeInit, TypeNext, RotationInit, RotationNext, PTL DEF Spec

LEMMA RotationInvImplies == TypeOK /\ RotationInv => RotationBound
<1> SUFFICES ASSUME TypeOK, RotationInv, NEW f \in Files,
                    BaseName[f] \notin aborted,
                    \A s \in Sessions : ~ Named(s, BaseName[f])
             PROVE  Cardinality(History(f)) <= MaxSnapshots
  BY DEF RotationBound, Named
<1>1. BaseName[f] \in Names /\ History(f) = SnapsOf(BaseName[f])
  BY VersionAssumption DEF History, SnapsOf
<1> QED BY <1>1 DEF RotationInv, Bounded

\* However the rotations of a name overlap, once none is under way and none
\* was cut short, no more than max_snapshots of it are left.
THEOREM RotationLeavesFew == Spec => []RotationBound
BY RotationInvariance, RotationInvImplies, PTL


-----------------------------------------------------------------------------
(* What sessions have in hand                                              *)

\* No mtime is later than the last change.
NotLater ==
    /\ \A f \in Files : mtime[f] <= ticks
    /\ \A x \in DOMAIN snaps : snaps[x].mtime <= ticks

\* Every snapshot is of some program.
OfPrograms == \A x \in DOMAIN snaps : \E g \in Files : x[1] = BaseName[g]

\* A rotation has in hand only what its prefix selects.
Selected ==
    \A s \in Sessions :
       /\ pc[s] = "stat" =>
             \A x \in seen[s] : x[1] \in Matches[BaseName[target[s]]]
       /\ pc[s] = "unlink" =>
             \A x \in DOMAIN todo[s] : x[1] \in Matches[BaseName[target[s]]]

\* An idle session has no program, and none uses git.
Placed ==
    \A s \in Sessions :
       /\ pc[s] = "idle" => target[s] = NoFile
       /\ strategy = "snapshots" => pc[s] \notin {"add"} \cup InGit

HandInv == NotLater /\ OfPrograms /\ Selected /\ Placed

\* A step that changes neither files nor snapshots, of a session that does
\* not go on with a rotation it has listed.
LEMMA HandQuiet ==
    ASSUME TypeOK, HandInv, NEW s \in Sessions,
           \/ StartVersion(s) \/ OpenFails(s) \/ GitJob(s)
           \/ StampSnapshot(s) \/ SnapshotFails(s)
           \/ RotationFails(s) \/ RotationEnds(s) \/ Dropped(s)
           \/ \E f \in Files, len \in Lengths : Submit(s, f, len)
    PROVE  HandInv'
<1>1. /\ snaps' = snaps /\ mtime' = mtime /\ ticks' = ticks
      /\ strategy' = strategy
  BY GitJobFrame
     DEF StartVersion, OpenFails, StampSnapshot, SnapshotFails, RotationFails,
         RotationEnds, Dropped, Submit, fsVars, snapVars, envVars
<1>2. /\ pc'[s] \notin {"stat", "unlink"}
      /\ pc'[s] = "idle" => target'[s] = NoFile
      /\ strategy = "snapshots" => pc'[s] \notin {"add"} \cup InGit
  <2>1. CASE GitJob(s)
    BY <2>1, GitJobFrame DEF HandInv, Placed, InGit, Committing
  <2>2. CASE ~ GitJob(s)
    BY <2>2
       DEF TypeOK, StartVersion, OpenFails, StampSnapshot, SnapshotFails,
           RotationFails, RotationEnds, Dropped, Submit, Goto, Finish, InGit,
           Committing
  <2> QED BY <2>1, <2>2
<1>3. \A r \in Sessions \ {s} :
         /\ pc'[r] = pc[r] /\ target'[r] = target[r]
         /\ seen'[r] = seen[r] /\ todo'[r] = todo[r]
  BY OthersHands DEF Act
<1> QED BY <1>1, <1>2, <1>3 DEF HandInv, NotLater, OfPrograms, Selected,
                                Placed

\* The steps of a session that change files, snapshots, or what it has listed.
LEMMA HandAct ==
    ASSUME TypeOK, HandInv, NEW s \in Sessions,
           \/ OpenFile(s) \/ WriteData(s)
           \/ \E n \in 0..Len(data[s]) : WriteFails(s, n)
           \/ OpenSnapshot(s) \/ FillSnapshot(s) \/ ListSnapshots(s)
           \/ StatSnapshots(s) \/ UnlinkSnapshot(s)
    PROVE  HandInv'
<1>0. target[s] \in Files
  BY DEF TypeOK, OpenFile, WriteData, WriteFails, OpenSnapshot, FillSnapshot,
         ListSnapshots, StatSnapshots, UnlinkSnapshot
<1>1. NotLater'
  <2>0. /\ \A f \in Files : mtime[f] \in Nat /\ mtime[f] <= ticks + 1
        /\ \A x \in DOMAIN snaps :
              snaps[x].mtime \in Nat /\ snaps[x].mtime <= ticks + 1
        /\ ticks + 1 <= ticks + 1
    <3>1. \A n \in Nat : n <= ticks => n <= ticks + 1
      BY DEF TypeOK
    <3>2. ticks + 1 \in Nat
      BY DEF TypeOK
    <3>3. \A x \in DOMAIN snaps : snaps[x].mtime \in Nat
      BY DEF TypeOK, Snapshot
    <3> QED BY <3>1, <3>2, <3>3 DEF TypeOK, HandInv, NotLater
  <2>1. CASE \/ OpenFile(s) \/ WriteData(s)
             \/ \E n \in 0..Len(data[s]) : WriteFails(s, n)
    <3>1. /\ snaps' = snaps /\ ticks' = ticks + 1
          /\ mtime' = [mtime EXCEPT ![target[s]] = ticks + 1]
      BY <2>1 DEF OpenFile, WriteData, WriteFails, SetFile, snapVars
    <3>2. \A f \in Files : mtime'[f] <= ticks'
      BY <2>0, <3>1 DEF TypeOK
    <3>3. \A x \in DOMAIN snaps' : snaps'[x].mtime <= ticks'
      BY <2>0, <3>1
    <3> QED BY <3>2, <3>3 DEF NotLater
  <2>2. CASE OpenSnapshot(s)
    <3>1. /\ mtime' = mtime /\ ticks' = ticks + 1
          /\ DOMAIN snaps' = DOMAIN snaps \cup {Mine(s)}
          /\ \A x \in DOMAIN snaps' :
                \/ snaps'[x].mtime = ticks + 1
                \/ x \in DOMAIN snaps /\ snaps'[x].mtime = snaps[x].mtime
      BY <2>2 DEF OpenSnapshot, SnapsWith
    <3>2. \A f \in Files : mtime'[f] <= ticks'
      BY <2>0, <3>1
    <3>3. \A x \in DOMAIN snaps' : snaps'[x].mtime <= ticks'
      BY <2>0, <3>1
    <3> QED BY <3>2, <3>3 DEF NotLater
  <2>3. CASE FillSnapshot(s)
    <3>1. /\ mtime' = mtime /\ ticks' = ticks
          /\ \A x \in DOMAIN snaps' :
                \/ snaps'[x].mtime = mtime[target[s]]
                \/ x \in DOMAIN snaps /\ snaps'[x].mtime = snaps[x].mtime
      BY <2>3 DEF FillSnapshot, SnapsWith, fsVars
    <3> QED BY <1>0, <3>1 DEF HandInv, NotLater
  <2>4. CASE ListSnapshots(s) \/ StatSnapshots(s) \/ UnlinkSnapshot(s)
    <3>1. /\ mtime' = mtime /\ ticks' = ticks
          /\ \A x \in DOMAIN snaps' :
                x \in DOMAIN snaps /\ snaps'[x] = snaps[x]
      BY <2>4 DEF ListSnapshots, StatSnapshots, UnlinkSnapshot, Without,
                  fsVars
    <3> QED BY <3>1 DEF HandInv, NotLater
  <2> QED BY <2>1, <2>2, <2>3, <2>4
<1>2. OfPrograms'
  <2>1. DOMAIN snaps' \subseteq DOMAIN snaps \cup {Mine(s)}
    BY DEF OpenFile, WriteData, WriteFails, OpenSnapshot, FillSnapshot,
           ListSnapshots, StatSnapshots, UnlinkSnapshot, snapVars, SnapsWith,
           Without
  <2>2. Mine(s)[1] = BaseName[target[s]]
    BY DEF Mine
  <2> QED BY <1>0, <2>1, <2>2 DEF HandInv, OfPrograms
<1>3. \A r \in Sessions \ {s} :
         /\ pc'[r] = pc[r] /\ target'[r] = target[r]
         /\ seen'[r] = seen[r] /\ todo'[r] = todo[r]
  BY OthersHands DEF Act
<1>4. Selected'
  <2>1. CASE \/ OpenFile(s) \/ WriteData(s)
             \/ OpenSnapshot(s) \/ FillSnapshot(s)
             \/ \E n \in 0..Len(data[s]) : WriteFails(s, n)
    <3>1. pc'[s] \notin {"stat", "unlink"}
      BY <2>1 DEF TypeOK, OpenFile, WriteData, OpenSnapshot, FillSnapshot,
                  WriteFails, Goto, Finish
    <3> QED BY <1>3, <3>1 DEF HandInv, Selected
  <2>2. CASE ListSnapshots(s)
    <3>1. /\ pc'[s] = "stat" /\ target'[s] = target[s]
          /\ \A x \in seen'[s] : x[1] \in Matches[BaseName[target[s]]]
      BY <2>2 DEF TypeOK, ListSnapshots, Goto
    <3> QED BY <1>3, <3>1 DEF HandInv, Selected
  <2>3. CASE StatSnapshots(s)
    <3>1. pc[s] = "stat" /\ pc'[s] = "unlink" /\ target'[s] = target[s]
      BY <2>3 DEF TypeOK, StatSnapshots, Goto
    <3>2. DOMAIN todo'[s] \subseteq seen[s]
      BY <2>3 DEF TypeOK, StatSnapshots
    <3> QED BY <1>3, <3>1, <3>2 DEF HandInv, Selected
  <2>4. CASE UnlinkSnapshot(s)
    <3>1. pc' = pc /\ target' = target /\ seen' = seen /\ pc[s] = "unlink"
      BY <2>4 DEF UnlinkSnapshot
    <3>2. DOMAIN todo'[s] \subseteq DOMAIN todo[s]
      BY <2>4 DEF TypeOK, UnlinkSnapshot, Without
    <3> QED BY <1>3, <3>1, <3>2 DEF HandInv, Selected
  <2> QED BY <2>1, <2>2, <2>3, <2>4
<1>5. Placed'
  <2>1. /\ strategy' = strategy
        /\ pc'[s] = "idle" => target'[s] = NoFile
        /\ pc'[s] \notin {"add"} \cup InGit
    BY DEF TypeOK, OpenFile, WriteData, WriteFails, OpenSnapshot,
           FillSnapshot,
           ListSnapshots, StatSnapshots, UnlinkSnapshot, Goto, Finish,
           envVars,
           InGit, Committing
  <2> QED BY <1>3, <2>1 DEF HandInv, Placed
<1> QED BY <1>1, <1>2, <1>4, <1>5 DEF HandInv

LEMMA HandInit == Init => HandInv
BY DEF Init, EmptyFun, HandInv, NotLater, OfPrograms, Selected, Placed, InGit,
       Committing

LEMMA HandNext == TypeOK /\ HandInv /\ [Next]_vars => HandInv'
<1> SUFFICES ASSUME TypeOK, HandInv, [Next]_vars PROVE HandInv'
  OBVIOUS
<1>1. CASE Teardown \/ Tick \/ UNCHANGED vars
  BY <1>1 DEF Teardown, Tick, vars, fsVars, snapVars, envVars, HandInv,
              NotLater, OfPrograms, Selected, Placed
<1>2. CASE Crash
  BY <1>2 DEF Crash, fsVars, HandInv, NotLater, OfPrograms, Selected, Placed,
              InGit, Committing
<1> QED BY <1>1, <1>2, StepCases, HandQuiet, HandAct DEF Act

-----------------------------------------------------------------------------
(* The newest snapshot                                                     *)

Records(x, f) == snaps[x].mtime = mtime[f] /\ snaps[x].content = file[f]

Working(s, f, l) == target[s] = f /\ pc[s] = l

OneSession(f) ==
    \A r, s \in Sessions : target[r] = f /\ target[s] = f => r = s

\* What a rotation of f examines is the snapshots there are.
Listed(f) == \A s \in Sessions : Working(s, f, "stat") => seen[s] = History(f)

\* A snapshot of f is from before its last change, or of its content, or is
\* about to be filled.
Settled(f) ==
    \A x \in History(f) :
       \/ snaps[x].mtime < mtime[f]
       \/ Records(x, f)
       \/ \E s \in Sessions : Working(s, f, "fill") /\ x = Mine(s)

\* There is a snapshot of f's content that no rotation is about to remove, if
\* f was ever written and no session is still to record it.
Recorded(f) ==
    \/ file[f] = Absent
    \/ \E s \in Sessions : target[s] = f /\ pc[s] \in Unrecorded
    \/ \E x \in History(f) :
          /\ Records(x, f)
          /\ \A s \in Sessions :
                Working(s, f, "unlink") => x \notin DOMAIN todo[s]

ProgramInv(f) ==
    /\ OneSession(f)
    /\ Listed(f)
    /\ f \notin unversioned => Settled(f) /\ Recorded(f)

SnapshotInv ==
    strategy = "snapshots" /\ MaxSnapshots # 0 =>
        \A f \in Files : f \notin overlapped /\ Alone(f) => ProgramInv(f)

\* A step that changes nothing of f, its snapshots and its session.
LEMMA ProgramKept ==
    ASSUME NEW f \in Files, ProgramInv(f),
           file'[f] = file[f], mtime'[f] = mtime[f],
           f \notin unversioned' => f \notin unversioned,
           History(f)' = History(f),
           \A x \in History(f) : snaps'[x] = snaps[x],
           \A r \in Sessions : target[r] = f <=> target'[r] = f,
           \A r \in Sessions : target[r] = f =>
              /\ pc'[r] = pc[r] /\ stamp'[r] = stamp[r]
              /\ seen'[r] = seen[r] /\ todo'[r] = todo[r]
    PROVE  ProgramInv(f)'
<1>1. \A r \in Sessions : target[r] = f => Mine(r)' = Mine(r)
  BY DEF Mine
<1>2. \A l : \A r \in Sessions : Working(r, f, l)' <=> Working(r, f, l)
  BY DEF Working
<1>3. \A x \in History(f) : Records(x, f)' <=> Records(x, f)
  BY DEF Records
<1>4. OneSession(f)'
  BY DEF ProgramInv, OneSession
<1>5. Listed(f)'
  BY <1>2 DEF ProgramInv, Listed, Working
<1>6. ASSUME f \notin unversioned' PROVE Settled(f)'
  BY <1>1, <1>2, <1>3, <1>6 DEF ProgramInv, Settled, Working
<1>7. ASSUME f \notin unversioned' PROVE Recorded(f)'
  <2>1. CASE file[f] = Absent
    BY <2>1 DEF Recorded
  <2>2. CASE \E s \in Sessions : target[s] = f /\ pc[s] \in Unrecorded
    BY <2>2 DEF Recorded
  <2>3. ASSUME NEW x \in History(f), Records(x, f),
               \A s \in Sessions :
                  Working(s, f, "unlink") => x \notin DOMAIN todo[s]
        PROVE  Recorded(f)'
    BY <1>2, <1>3, <2>3 DEF Recorded, Working
  <2> QED BY <1>7, <2>1, <2>2, <2>3 DEF ProgramInv, Recorded
<1> QED BY <1>4, <1>5, <1>6, <1>7 DEF ProgramInv

\* A session at work on another program.
LEMMA OtherProgram ==
    ASSUME TypeOK, HandInv, NEW f \in Files, Alone(f), ProgramInv(f),
           NEW s \in Sessions, target[s] # f,
           \/ Act(s)
           \/ \E g \in Files \ {f}, len \in Lengths : Submit(s, g, len)
    PROVE  ProgramInv(f)'
<1>1. \A r \in Sessions \ {s} :
         /\ pc'[r] = pc[r] /\ target'[r] = target[r] /\ stamp'[r] = stamp[r]
         /\ seen'[r] = seen[r] /\ todo'[r] = todo[r]
  BY OthersHands
<1>2. target'[s] # f
  <2>1. CASE GitJob(s)
    BY <2>1, GitJobFrame, VersionAssumption
  <2>2. CASE ~ GitJob(s)
    BY <2>2, VersionAssumption DEF TypeOK, Submit, Act, WriteFails, OpenFile,
       OpenFails, WriteData, StartVersion, Dropped, StampSnapshot,
       OpenSnapshot, FillSnapshot, SnapshotFails, ListSnapshots,
       StatSnapshots, UnlinkSnapshot, RotationFails, RotationEnds, Finish
  <2> QED BY <2>1, <2>2
<1>3. /\ file'[f] = file[f] /\ mtime'[f] = mtime[f]
      /\ f \notin unversioned' => f \notin unversioned
  BY GitJobFrame DEF TypeOK, Submit, Act, WriteFails, OpenFile, OpenFails,
     WriteData, StartVersion, Dropped, StampSnapshot, OpenSnapshot,
     FillSnapshot, SnapshotFails, ListSnapshots,
     StatSnapshots, UnlinkSnapshot, RotationFails, RotationEnds, SetFile,
     fsVars
<1>4. /\ History(f)' = History(f)
      /\ \A x \in History(f) : snaps'[x] = snaps[x]
  <2>1. CASE OpenSnapshot(s) \/ FillSnapshot(s)
    <3>1. target[s] \in Files \ {f}
      BY <2>1 DEF TypeOK, OpenSnapshot, FillSnapshot
    <3>2. BaseName[target[s]] # BaseName[f]
      BY <3>1, VersionAssumption DEF Alone
    <3>3. Mine(s)[1] # BaseName[f]
      BY <3>2 DEF Mine
    <3>4. PICK snapshot : snaps' = SnapsWith(Mine(s), snapshot)
      BY <2>1 DEF OpenSnapshot, FillSnapshot
    <3> QED BY <3>3, <3>4 DEF History, SnapsWith
  <2>2. CASE UnlinkSnapshot(s)
    <3>1. target[s] \in Files \ {f} /\ pc[s] = "unlink"
      BY <2>2 DEF TypeOK, UnlinkSnapshot
    <3>2. PICK x \in DOMAIN todo[s] : snaps' = Without(snaps, {x})
      BY <2>2 DEF UnlinkSnapshot
    <3>3. x[1] \in Matches[BaseName[target[s]]]
      BY <3>1, <3>2 DEF HandInv, Selected
    <3>4. x[1] # BaseName[f]
      BY <3>1, <3>3 DEF Alone
    <3> QED BY <3>2, <3>4 DEF History, Without
  <2>3. CASE ~ (OpenSnapshot(s) \/ FillSnapshot(s) \/ UnlinkSnapshot(s))
    <3>1. snaps' = snaps
      BY <2>3, GitJobFrame DEF Submit, Act, WriteFails, OpenFile, OpenFails,
         WriteData, StartVersion, Dropped, StampSnapshot, SnapshotFails,
         ListSnapshots, StatSnapshots, RotationFails,
         RotationEnds, snapVars
    <3> QED BY <3>1 DEF History
  <2> QED BY <2>1, <2>2, <2>3
<1>5. \A r \in Sessions : target[r] = f => r # s
  OBVIOUS
<1> QED BY <1>1, <1>2, <1>3, <1>4, <1>5, ProgramKept

\* The only session at work on f: what the invariant says of f, in its terms.
LEMMA OwnTerms ==
    ASSUME TypeOK, NEW f \in Files, ProgramInv(f), NEW s \in Sessions,
           target[s] = f, f \notin unversioned
    PROVE  /\ \A x \in History(f) :
                 \/ snaps[x].mtime < mtime[f]
                 \/ Records(x, f)
                 \/ pc[s] = "fill" /\ x = Mine(s)
           /\ \/ file[f] = Absent
              \/ pc[s] \in Unrecorded
              \/ \E x \in History(f) :
                    /\ Records(x, f)
                    /\ pc[s] = "unlink" => x \notin DOMAIN todo[s]
<1>1. \A r \in Sessions : target[r] = f => r = s
  BY DEF ProgramInv, OneSession
<1>2. \A x \in History(f) :
         \/ snaps[x].mtime < mtime[f]
         \/ Records(x, f)
         \/ pc[s] = "fill" /\ x = Mine(s)
  BY <1>1 DEF ProgramInv, Settled, Working
<1>3. \/ file[f] = Absent
      \/ pc[s] \in Unrecorded
      \/ \E x \in History(f) :
            Records(x, f) /\ (pc[s] = "unlink" => x \notin DOMAIN todo[s])
  BY <1>1 DEF ProgramInv, Recorded, Working
<1> QED BY <1>2, <1>3

\* The next state's invariant, in the terms of the only session that may be at
\* work on f then.
LEMMA OwnNext ==
    ASSUME NEW f \in Files, NEW s \in Sessions,
           \A r \in Sessions : target'[r] = f => r = s,
           Working(s, f, "stat")' => seen'[s] = History(f)',
           f \notin unversioned' =>
              /\ \A x \in History(f)' :
                    \/ snaps'[x].mtime < mtime'[f]
                    \/ Records(x, f)'
                    \/ Working(s, f, "fill")' /\ x = Mine(s)'
              /\ \/ file'[f] = Absent
                 \/ target'[s] = f /\ pc'[s] \in Unrecorded
                 \/ \E x \in History(f)' :
                       /\ Records(x, f)'
                       /\ Working(s, f, "unlink")' => x \notin DOMAIN todo'[s]
    PROVE  ProgramInv(f)'
<1>1. OneSession(f)'
  BY DEF OneSession
<1>2. Listed(f)'
  BY DEF Listed, Working
<1>3. f \notin unversioned' => Settled(f)'
  BY DEF Settled
<1>4. f \notin unversioned' => Recorded(f)'
  BY DEF Recorded, Working
<1> QED BY <1>1, <1>2, <1>3, <1>4 DEF ProgramInv

\* The session at work on f writes it, or gives up.
LEMMA OwnWrite ==
    ASSUME TypeOK, HandInv, NEW f \in Files, ProgramInv(f),
           NEW s \in Sessions, target[s] = f,
           \/ OpenFile(s) \/ WriteData(s) \/ SnapshotFails(s) \/ Dropped(s)
           \/ OpenFails(s) \/ RotationFails(s) \/ RotationEnds(s)
           \/ \E n \in 0..Len(data[s]) : WriteFails(s, n)
    PROVE  ProgramInv(f)'
<1>1. \A r \in Sessions : target'[r] = f => r = s
  BY OthersHands DEF Act, ProgramInv, OneSession
<1>2. pc'[s] \notin {"stat", "unlink", "fill"}
  BY DEF TypeOK, OpenFile, WriteData, SnapshotFails, Dropped, OpenFails,
         RotationFails, RotationEnds, WriteFails, Goto, Finish
<1>3. CASE OpenFile(s) \/ WriteData(s)
  <2>1. pc'[s] \in Unrecorded /\ target'[s] = f
    BY <1>3 DEF TypeOK, OpenFile, WriteData, Goto, Unrecorded
  <2>2. snaps' = snaps /\ mtime'[f] = ticks + 1
    BY <1>3 DEF TypeOK, OpenFile, WriteData, SetFile, snapVars
  <2>3. ASSUME NEW x \in History(f)' PROVE snaps'[x].mtime < mtime'[f]
    <3>1. snaps[x].mtime \in Nat /\ snaps[x].mtime <= ticks
      BY <2>2, <2>3 DEF History, TypeOK, Snapshot, HandInv, NotLater
    <3>2. ticks \in Nat
      BY DEF TypeOK
    <3>3. snaps[x].mtime < ticks + 1
      BY <3>1, <3>2
    <3> QED BY <2>2, <3>3
  <2> QED BY <1>1, <1>2, <2>1, <2>3, OwnNext DEF Working
<1>4. CASE f \in unversioned'
  BY <1>1, <1>2, <1>4, OwnNext DEF Working
<1>5. CASE /\ OpenFails(s) \/ RotationFails(s) \/ RotationEnds(s) \/ Dropped(s)
           /\ f \notin unversioned'
  <2>1. /\ pc[s] \notin Unrecorded /\ f \notin unversioned
        /\ snaps' = snaps /\ file' = file /\ mtime' = mtime
    BY <1>5 DEF OpenFails, RotationFails, RotationEnds, Dropped, Unrecorded,
                fsVars
  <2>2. pc[s] # "fill"
    BY <2>1 DEF Unrecorded
  <2>3. /\ History(f)' = History(f)
        /\ \A x : Records(x, f)' <=> Records(x, f)
    BY <2>1 DEF History, Records
  <2> QED BY <1>1, <1>2, <2>1, <2>2, <2>3, OwnTerms, OwnNext DEF Working
<1>6. CASE SnapshotFails(s) \/ \E n \in 0..Len(data[s]) : WriteFails(s, n)
  BY <1>4, <1>6 DEF SnapshotFails, WriteFails
<1> QED BY <1>3, <1>4, <1>5, <1>6

\* The session at work on f records its content.
LEMMA OwnSnapshot ==
    ASSUME TypeOK, HandInv, NEW f \in Files, ProgramInv(f),
           NEW s \in Sessions, target[s] = f, strategy = "snapshots",
           \/ StartVersion(s) \/ StampSnapshot(s)
           \/ OpenSnapshot(s) \/ FillSnapshot(s)
    PROVE  ProgramInv(f)'
<1>1. \A r \in Sessions : target'[r] = f => r = s
  BY OthersHands DEF Act, ProgramInv, OneSession
<1>2. /\ target'[s] = f /\ file' = file /\ mtime' = mtime
      /\ unversioned' = unversioned /\ pc'[s] \notin {"stat", "unlink"}
  BY DEF TypeOK, StartVersion, StampSnapshot, OpenSnapshot, FillSnapshot,
         Goto,
         fsVars
<1>3. CASE StartVersion(s) \/ StampSnapshot(s)
  <2>1. pc'[s] \in Unrecorded /\ pc[s] # "fill" /\ snaps' = snaps
    BY <1>3 DEF TypeOK, StartVersion, StampSnapshot, Goto, Unrecorded,
                snapVars
  <2>2. /\ History(f)' = History(f)
        /\ \A x : Records(x, f)' <=> Records(x, f)
    BY <1>2, <2>1 DEF History, Records
  <2> QED BY <1>1, <1>2, <2>1, <2>2, OwnTerms, OwnNext DEF Working
<1>4. CASE OpenSnapshot(s)
  <2>1. /\ pc[s] = "copy" /\ pc'[s] = "fill" /\ pc'[s] \in Unrecorded
        /\ stamp' = stamp
    BY <1>4 DEF TypeOK, OpenSnapshot, Goto, Unrecorded
  <2>2. Mine(s)' = Mine(s)
    BY <1>2, <2>1 DEF Mine
  <2>3. \A x \in History(f)' \ {Mine(s)} :
           x \in History(f) /\ snaps'[x] = snaps[x]
    BY <1>4 DEF OpenSnapshot, SnapsWith, History
  <2>4. \A x \in History(f)' \ {Mine(s)} : Records(x, f)' <=> Records(x, f)
    BY <1>2, <2>3 DEF Records
  <2> QED
    BY <1>1, <1>2, <2>1, <2>2, <2>3, <2>4, OwnTerms, OwnNext DEF Working
<1>5. CASE FillSnapshot(s)
  <2>1. /\ pc[s] = "fill" /\ pc'[s] = "list"
        /\ Mine(s) \in DOMAIN snaps
    BY <1>5 DEF TypeOK, FillSnapshot, Goto
  <2>2. \A x \in History(f)' \ {Mine(s)} :
           x \in History(f) /\ snaps'[x] = snaps[x]
    BY <1>5 DEF FillSnapshot, SnapsWith, History
  <2>3. \A x \in History(f)' \ {Mine(s)} : Records(x, f)' <=> Records(x, f)
    BY <1>2, <2>2 DEF Records
  <2>4. PICK own : own = Mine(s) /\ own \in History(f)' /\ Records(own, f)'
    <3>1. PICK own : own = Mine(s)
      OBVIOUS
    <3>2. own \in DOMAIN snaps' /\ own[1] = BaseName[f]
      BY <1>5, <3>1 DEF FillSnapshot, SnapsWith, Mine
    <3>3. snaps'[own] = [content |-> file[f], mtime |-> mtime[f]]
      BY <1>5, <3>1 DEF FillSnapshot, SnapsWith
    <3> QED BY <1>2, <3>1, <3>2, <3>3 DEF History, Records
  <2>5. ASSUME f \notin unversioned', NEW x \in History(f)'
        PROVE  snaps'[x].mtime < mtime'[f] \/ Records(x, f)'
    <3>1. CASE x = Mine(s)
      BY <2>4, <3>1
    <3>2. CASE x # Mine(s)
      BY <1>2, <2>2, <2>3, <2>5, <3>2, OwnTerms
    <3> QED BY <3>1, <3>2
  <2>6. \E x \in History(f)' : Records(x, f)'
    BY <2>4
  <2> QED BY <1>1, <1>2, <2>1, <2>5, <2>6, OwnNext DEF Working
<1> QED BY <1>3, <1>4, <1>5

\* The session at work on f rotates its snapshots.
LEMMA OwnRotation ==
    ASSUME TypeOK, RotationInv, HandInv, NEW f \in Files, Alone(f),
           ProgramInv(f), NEW s \in Sessions, target[s] = f, MaxSnapshots # 0,
           ListSnapshots(s) \/ StatSnapshots(s) \/ UnlinkSnapshot(s)
    PROVE  ProgramInv(f)'
<1>1. \A r \in Sessions : target'[r] = f => r = s
  BY OthersHands DEF Act, ProgramInv, OneSession
<1>2. /\ target'[s] = f /\ file' = file /\ mtime' = mtime
      /\ unversioned' = unversioned
      /\ pc'[s] # "fill" /\ pc[s] # "fill" /\ pc[s] \notin Unrecorded
  BY DEF TypeOK, ListSnapshots, StatSnapshots, UnlinkSnapshot, Goto, fsVars,
         Unrecorded
<1>3. \A x \in DOMAIN snaps' : x \in DOMAIN snaps /\ snaps'[x] = snaps[x]
  BY DEF ListSnapshots, StatSnapshots, UnlinkSnapshot, Without
<1>4. /\ History(f)' \subseteq History(f)
      /\ \A x \in History(f)' : Records(x, f)' <=> Records(x, f)
  BY <1>2, <1>3 DEF History, Records
<1>5. \A x \in History(f)' :
         f \notin unversioned =>
            snaps'[x].mtime < mtime'[f] \/ Records(x, f)'
  BY <1>2, <1>3, <1>4, OwnTerms DEF History
<1>6. CASE ListSnapshots(s)
  <2>1. pc'[s] = "stat" /\ snaps' = snaps /\ pc[s] = "list"
    BY <1>6 DEF TypeOK, ListSnapshots, Goto
  <2>2. ASSUME NEW x \in DOMAIN snaps, x[1] \in Matches[BaseName[f]]
        PROVE  x[1] = BaseName[f]
    BY <2>2 DEF HandInv, OfPrograms, Alone
  <2>3. BaseName[f] \in Matches[BaseName[f]]
    BY VersionAssumption
  <2>4. seen'[s] = {x \in DOMAIN snaps : x[1] \in Matches[BaseName[f]]}
    BY <1>6 DEF TypeOK, ListSnapshots
  <2>5. seen'[s] = History(f)'
    BY <2>1, <2>2, <2>3, <2>4 DEF History
  <2>6. History(f)' = History(f)
    BY <2>1 DEF History
  <2> QED
    BY <1>1, <1>2, <1>4, <1>5, <2>1, <2>5, <2>6, OwnTerms, OwnNext DEF Working
<1>7. CASE StatSnapshots(s)
  <2>1. /\ pc'[s] = "unlink" /\ pc[s] = "stat"
        /\ seen[s] = History(f) /\ History(f)' = History(f)
    BY <1>7 DEF TypeOK, StatSnapshots, Goto, ProgramInv, Listed, Working,
                History
  <2>2. PICK kept \in SUBSET seen[s] :
           /\ Newest(kept, seen[s], MaxSnapshots)
           /\ todo' = [todo EXCEPT ![s] =
                          [x \in seen[s] \ kept |-> snaps[x].mtime]]
    BY <1>7 DEF StatSnapshots
  <2>3. DOMAIN todo'[s] = seen[s] \ kept
    BY <2>2 DEF TypeOK
  <2>4. ASSUME f \notin unversioned, NEW x \in History(f), Records(x, f)
        PROVE  \E y \in kept : Records(y, f)
    <3>1. CASE x \in kept
      BY <2>4, <3>1
    <3>2. CASE x \notin kept
      <4>1. IsFiniteSet(seen[s])
        BY <2>1, FS_Subset DEF RotationInv, History
      <4>2. Cardinality(seen[s]) \in Nat /\ Cardinality(seen[s]) # 0
        BY <2>1, <2>4, <4>1, FS_CardinalityType, FS_EmptySet
      <4>3. Cardinality(kept) # 0
        BY <2>2, <4>2, VersionAssumption DEF Newest
      <4>4. PICK y \in kept : TRUE
        BY <4>3, FS_EmptySet
      <4>5. snaps[y].mtime >= snaps[x].mtime /\ y \in History(f)
        BY <2>1, <2>2, <2>4, <3>2, <4>4 DEF Newest
      <4>6. /\ snaps[x].mtime = mtime[f] /\ mtime[f] \in Nat
            /\ snaps[y].mtime \in Nat
        BY <2>4, <4>5 DEF Records, TypeOK, Snapshot, History
      <4>7. ~ (snaps[y].mtime < mtime[f])
        BY <4>5, <4>6
      <4> QED BY <1>2, <2>4, <4>4, <4>5, <4>7, OwnTerms
    <3> QED BY <3>1, <3>2
  <2>5. f \notin unversioned =>
           \/ file[f] = Absent
           \/ \E y \in History(f)' : Records(y, f)' /\ y \notin DOMAIN todo'[s]
    BY <1>2, <1>4, <2>1, <2>3, <2>4, OwnTerms
  <2> QED BY <1>1, <1>2, <1>5, <2>1, <2>5, OwnNext DEF Working
<1>8. CASE UnlinkSnapshot(s)
  <2>1. pc' = pc /\ pc[s] = "unlink"
    BY <1>8 DEF UnlinkSnapshot
  <2>2. PICK x \in DOMAIN todo[s] :
           /\ snaps' = Without(snaps, {x})
           /\ todo' = [todo EXCEPT ![s] = Without(@, {x})]
    BY <1>8 DEF UnlinkSnapshot
  <2>3. DOMAIN todo'[s] \subseteq DOMAIN todo[s]
    BY <2>2 DEF TypeOK, Without
  <2>4. \A y \in History(f) \ DOMAIN todo[s] : y \in History(f)'
    BY <2>2 DEF History, Without
  <2>5. f \notin unversioned =>
           \/ file[f] = Absent
           \/ \E y \in History(f)' : Records(y, f)' /\ y \notin DOMAIN todo'[s]
    BY <1>2, <1>4, <2>1, <2>3, <2>4, OwnTerms
  <2> QED BY <1>1, <1>2, <1>5, <2>1, <2>5, OwnNext DEF Working
<1> QED BY <1>6, <1>7, <1>8

\* A request for a program nobody is at work on.
LEMMA OwnSubmit ==
    ASSUME TypeOK, HandInv, NEW f \in Files, ProgramInv(f), NEW s \in Sessions,
           NEW len \in Lengths, Submit(s, f, len), f \notin overlapped'
    PROVE  ProgramInv(f)'
<1>1. \A r \in Sessions : target[r] # f
  <2>1. \A r \in Sessions : ~ (pc[r] # "idle" /\ target[r] = f)
    BY DEF Submit
  <2> QED BY <2>1, VersionAssumption DEF HandInv, Placed
<1>2. \A r \in Sessions : target'[r] = f => r = s
  BY <1>1, OthersHands
<1>3. /\ pc'[s] = "open" /\ snaps' = snaps /\ file' = file /\ mtime' = mtime
      /\ unversioned' = unversioned
  BY DEF TypeOK, Submit, Goto, fsVars, snapVars
<1>4. f \notin unversioned =>
         /\ \A x \in History(f) : snaps[x].mtime < mtime[f] \/ Records(x, f)
         /\ file[f] = Absent \/ \E x \in History(f) : Records(x, f)
  BY <1>1 DEF ProgramInv, Settled, Recorded, Working
<1>5. History(f)' = History(f) /\ \A x : Records(x, f)' <=> Records(x, f)
  BY <1>3 DEF History, Records
<1> QED BY <1>2, <1>3, <1>4, <1>5, OwnNext DEF Working

\* A kill: what had no version yet is marked, the rest is as it was.
LEMMA ProgramCrash ==
    ASSUME TypeOK, NEW f \in Files, ProgramInv(f), Crash
    PROVE  ProgramInv(f)'
<1>1. \A r \in Sessions : target'[r] # f
  BY VersionAssumption DEF Crash
<1>2. OneSession(f)' /\ Listed(f)'
  BY <1>1 DEF OneSession, Listed, Working
<1>3. ASSUME f \notin unversioned' PROVE Settled(f)' /\ Recorded(f)'
  <2>1. /\ f \notin unversioned
        /\ \A r \in Sessions : target[r] = f => pc[r] \notin Unrecorded
        /\ snaps' = snaps /\ file' = file /\ mtime' = mtime
    BY <1>3 DEF Crash, fsVars
  <2>2. \A r \in Sessions : ~ Working(r, f, "fill")
    BY <2>1 DEF Working, Unrecorded
  <2>3. History(f)' = History(f) /\ \A x : Records(x, f)' <=> Records(x, f)
    BY <2>1 DEF History, Records
  <2>4. Settled(f)'
    BY <2>1, <2>2, <2>3 DEF ProgramInv, Settled
  <2>5. file[f] = Absent \/ \E x \in History(f) : Records(x, f)
    BY <2>1 DEF ProgramInv, Recorded
  <2>6. Recorded(f)'
    BY <1>1, <2>1, <2>3, <2>5 DEF Recorded, Working
  <2> QED BY <2>4, <2>6
<1> QED BY <1>2, <1>3 DEF ProgramInv

LEMMA SnapshotInit == Init => SnapshotInv
<1> SUFFICES ASSUME Init, NEW f \in Files PROVE ProgramInv(f)
  BY DEF SnapshotInv
<1>1. \A r \in Sessions : target[r] # f
  BY VersionAssumption DEF Init
<1>2. History(f) = {} /\ file[f] = Absent
  BY DEF Init, EmptyFun, History
<1> QED
  BY <1>1, <1>2 DEF ProgramInv, OneSession, Listed, Settled, Recorded, Working

LEMMA SnapshotNext ==
    TypeOK /\ RotationInv /\ HandInv /\ SnapshotInv /\ [Next]_vars
        => SnapshotInv'
<1> SUFFICES ASSUME TypeOK, RotationInv, HandInv, SnapshotInv, [Next]_vars,
                    strategy' = "snapshots", MaxSnapshots # 0, NEW f \in Files,
                    f \notin overlapped', Alone(f)
             PROVE  ProgramInv(f)'
  BY DEF SnapshotInv, Alone
<1>1. strategy' = strategy /\ f \notin overlapped
  BY StepCases, OthersKeep, GitJobFrame DEF Act, WriteFails, OpenFile,
     OpenFails, WriteData, StartVersion, Dropped, StampSnapshot,
     OpenSnapshot, FillSnapshot, SnapshotFails, ListSnapshots, StatSnapshots,
     UnlinkSnapshot, RotationFails, RotationEnds, Submit, Teardown, Crash,
     Tick, vars, envVars
<1>2. ProgramInv(f) /\ strategy = "snapshots"
  BY <1>1 DEF SnapshotInv
<1>3. ASSUME NEW s \in Sessions, Act(s) PROVE ProgramInv(f)'
  <2>1. CASE target[s] # f
    BY <1>2, <1>3, <2>1, OtherProgram
  <2>2. CASE target[s] = f
    <3>1. ~ GitJob(s)
      BY <1>2, GitJobFrame DEF HandInv, Placed
    <3> QED
      BY <1>2, <1>3, <2>2, <3>1, OwnWrite, OwnSnapshot, OwnRotation DEF Act
  <2> QED BY <2>1, <2>2
<1>4. ASSUME NEW s \in Sessions, NEW g \in Files, NEW len \in Lengths,
             Submit(s, g, len)
      PROVE  ProgramInv(f)'
  <2>1. target[s] # f
    BY <1>4, VersionAssumption DEF Submit, HandInv, Placed
  <2> QED BY <1>2, <1>4, <2>1, OtherProgram, OwnSubmit
<1>5. CASE Crash
  BY <1>2, <1>5, ProgramCrash
<1>6. CASE Teardown \/ Tick \/ UNCHANGED vars
  <2>1. UNCHANGED <<file, mtime, unversioned, snaps, target, pc, stamp, seen,
                    todo>>
    BY <1>6 DEF Teardown, Tick, vars, fsVars, snapVars
  <2>2. History(f)' = History(f)
    BY <2>1 DEF History
  <2> QED BY <1>2, <2>1, <2>2, ProgramKept
<1> QED BY <1>3, <1>4, <1>5, <1>6, StepCases

LEMMA SnapshotInvImplies == SnapshotInv => SnapshotVersioned
BY DEF SnapshotInv, ProgramInv, Recorded, Records, SnapshotVersioned

\* Once a write has been recorded, a snapshot with the program's content stays
\* in place, through rotations, crashes and failures of later steps, as long
\* as no two sessions work on the program at once, no other program shares its
\* snapshots and max_snapshots leaves any.
THEOREM SnapshotSurvives == Spec => []SnapshotVersioned
<1>1. Init => TypeOK /\ RotationInv /\ HandInv /\ SnapshotInv
  BY TypeInit, RotationInit, HandInit, SnapshotInit
<1>2. TypeOK /\ RotationInv /\ HandInv /\ SnapshotInv /\ [Next]_vars
      => (TypeOK /\ RotationInv /\ HandInv /\ SnapshotInv)'
  BY TypeNext, RotationNext, HandNext, SnapshotNext
<1> QED BY <1>1, <1>2, SnapshotInvImplies, PTL DEF Spec
=============================================================================
