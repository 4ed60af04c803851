---------------------------- MODULE VersionStore ----------------------------
(***************************************************************************)
(* Writes of NC programs and their versions: the job of handle_write_file  *)
(* (handlers.py) and the job of VersionManager.on_file_written that        *)
(* follows it (storage/versioning.py), for the sessions that may run them  *)
(* at once on the same share.  No lock is taken anywhere.                  *)
(*                                                                         *)
(* A thread's action is one access to the file system: truncating a file,  *)
(* writing it, reading or replacing git's index, reading or setting HEAD,  *)
(* opening a snapshot, filling it, listing, examining and removing them.   *)
(* A content is the sequence of its blocks, each named by the number of    *)
(* the write it comes from, so that overlapping writes leave a mixture.    *)
(***************************************************************************)
EXTENDS Naturals, Sequences, FiniteSets

CONSTANTS
    Sessions,       \* sessions that write programs
    Files,          \* the programs, by resolved path
    NoFile,         \* no program
    Names,          \* file names without their directory
    BaseName,       \* file_path.name
    Matches,        \* Matches[n]: the names m such that a snapshot m.<second>
                    \* starts with the prefix "n." that rotation selects by
    MaxSnapshots,   \* config.versioning.max_snapshots
    Strategies,     \* config.versioning.strategy may be any of these
    Lengths,        \* the blocks a program may have
    MaxWrites,      \* bound: write requests
    MaxTime,        \* bound: the clock's seconds
    MaxEnds         \* bound: kills and shutdowns of the process

ASSUME VersionAssumption ==
    /\ NoFile \notin Files
    /\ IsFiniteSet(Sessions)
    /\ BaseName \in [Files -> Names]
    /\ Matches \in [Names -> SUBSET Names]
    /\ \A n \in Names : n \in Matches[n]
    /\ MaxSnapshots \in Nat
    /\ Strategies \subseteq {"git", "snapshots"}
    /\ Lengths \subseteq Nat
    /\ MaxWrites \in Nat
    /\ MaxTime \in Nat
    /\ MaxEnds \in Nat

VARIABLES
    strategy,     \* config.versioning.strategy
    app,          \* up, or down once asyncio.run has cancelled the tasks
    pc,           \* how far each session's write has come
    target,       \* the file it writes
    data,         \* the content it writes
    file,         \* content of each file
    mtime,        \* when it was last changed
    index,        \* git: content each file has in the index
    log,          \* git: the trees of HEAD and its ancestors, HEAD last
    blob,         \* git: the content a session's add has stored
    entries,      \* git: the index as a session's add or commit has read it
    base,         \* git: the log a session's commit has read
    snaps,        \* <<name, second>> -> snapshot in .versions
    stamp,        \* the second a session's snapshot is named after
    seen,         \* the snapshots a session's rotation has listed
    todo,         \* those it will remove, with the mtime it found
    now,          \* int(time.time())
    ticks,        \* changes of files so far: mtimes, finer than seconds
    writes,       \* write requests so far
    ends,         \* kills and shutdowns so far
    unversioned,  \* history: files whose last write ended without a version
    uncommitted,  \* history: the last commit attempted did not happen
    raced,        \* history: files whose last git job overlapped another one
    made,         \* history: versions committed by jobs that overlapped none
    overlapped,   \* history: files two sessions have worked on at once
    aborted       \* history: names one rotation of which did not complete

fsVars == <<file, mtime, ticks>>
repoVars == <<index, log, uncommitted, raced, made>>
gitVars == <<repoVars, blob, entries, base>>
snapVars == <<snaps, stamp, seen, todo, aborted>>
envVars == <<strategy, app, now, writes, ends>>
vars == <<fsVars, gitVars, snapVars, envVars,
          pc, target, data, unversioned, overlapped>>

Absent == <<0>>

Content == Seq(Nat)

\* A tree, or git's index: a content for each file.
Tree == [Files -> Content]

NoTree == [f \in Files |-> Absent]

SnapName == Names \X Nat

Snapshot == [content : Content, mtime : Nat]

EmptyFun == [x \in {} |-> 0]

\* What a session is about to do.
\*   idle     nothing                   stamp   read the clock
\*   open     open and truncate         copy    open the snapshot
\*   write    write the data            fill    copy the content
\*   written  start the versioning job  list    list the snapshots
\*   add      store the content         stat    look at their mtimes
\*   load     read the index            unlink  remove the old ones
\*   update   replace the index         tree    read the index again
\*   parent   read HEAD                 commit  set HEAD
PCs == {"idle", "open", "write", "written", "add", "load", "update", "tree",
        "parent", "commit", "stamp", "copy", "fill", "list", "stat", "unlink"}

\* The session is between the first and the last access of its git job.
Committing == {"tree", "parent", "commit"}
InGit == {"load", "update"} \cup Committing

\* The content of the session's file is not recorded yet.
Unrecorded == {"write", "written", "add", "load", "update",
               "stamp", "copy", "fill"}

Rotating == {"fill", "list", "stat", "unlink"}

TypeOK ==
    /\ strategy \in {"git", "snapshots"}
    /\ app \in {"up", "down"}
    /\ pc \in [Sessions -> PCs]
    /\ target \in [Sessions -> Files \cup {NoFile}]
    /\ \A s \in Sessions : pc[s] # "idle" => target[s] \in Files
    /\ data \in [Sessions -> Content]
    /\ file \in [Files -> Content]
    /\ mtime \in [Files -> Nat]
    /\ index \in Tree
    /\ log \in Seq(Tree) /\ log # <<>>
    /\ blob \in [Sessions -> Content]
    /\ entries \in [Sessions -> Tree]
    /\ base \in [Sessions -> Seq(Tree)]
    /\ DOMAIN snaps \subseteq SnapName
    /\ \A x \in DOMAIN snaps : snaps[x] \in Snapshot
    /\ stamp \in [Sessions -> Nat]
    /\ seen \in [Sessions -> SUBSET SnapName]
    /\ DOMAIN todo = Sessions
    /\ \A s \in Sessions : /\ DOMAIN todo[s] \subseteq SnapName
                           /\ \A x \in DOMAIN todo[s] : todo[s][x] \in Nat
    /\ now \in Nat
    /\ ticks \in Nat
    /\ writes \in Nat
    /\ ends \in Nat
    /\ unversioned \subseteq Files
    /\ uncommitted \in BOOLEAN
    /\ raced \subseteq Files
    /\ made \subseteq Files \X Content
    /\ overlapped \subseteq Files
    /\ aborted \subseteq Names

Init ==
    /\ strategy \in Strategies
    /\ app = "up"
    /\ pc = [s \in Sessions |-> "idle"]
    /\ target = [s \in Sessions |-> NoFile]
    /\ data = [s \in Sessions |-> <<>>]
    /\ file = [f \in Files |-> Absent]
    /\ mtime = [f \in Files |-> 0]
    /\ index = NoTree
    /\ log = <<NoTree>>
    /\ blob = [s \in Sessions |-> <<>>]
    /\ entries = [s \in Sessions |-> NoTree]
    /\ base = [s \in Sessions |-> <<>>]
    /\ snaps = EmptyFun
    /\ stamp = [s \in Sessions |-> 0]
    /\ seen = [s \in Sessions |-> {}]
    /\ todo = [s \in Sessions |-> EmptyFun]
    /\ now = 0
    /\ ticks = 0
    /\ writes = 0
    /\ ends = 0
    /\ unversioned = {}
    /\ uncommitted = FALSE
    /\ raced = {}
    /\ made = {}
    /\ overlapped = {}
    /\ aborted = {}

-----------------------------------------------------------------------------
(* Helpers                                                                 *)

Goto(s, l) == pc' = [pc EXCEPT ![s] = l]

\* Block i of the write is left where the file has none of the new ones.
Overlay(new, old) == new \o SubSeq(old, Len(new) + 1, Len(old))

SetFile(f, content) ==
    /\ file' = [file EXCEPT ![f] = content]
    /\ mtime' = [mtime EXCEPT ![f] = ticks + 1]
    /\ ticks' = ticks + 1

\* The session forgets what it was doing.
Finish(s) ==
    /\ Goto(s, "idle")
    /\ target' = [target EXCEPT ![s] = NoFile]
    /\ data' = [data EXCEPT ![s] = <<>>]
    /\ blob' = [blob EXCEPT ![s] = <<>>]
    /\ entries' = [entries EXCEPT ![s] = NoTree]
    /\ base' = [base EXCEPT ![s] = <<>>]
    /\ stamp' = [stamp EXCEPT ![s] = 0]
    /\ seen' = [seen EXCEPT ![s] = {}]
    /\ todo' = [todo EXCEPT ![s] = EmptyFun]

Without(fun, xs) == [x \in DOMAIN fun \ xs |-> fun[x]]

Mine(s) == <<BaseName[target[s]], stamp[s]>>

SnapsWith(x, snapshot) ==
    [y \in DOMAIN snaps \cup {x} |-> IF y = x THEN snapshot ELSE snaps[y]]

-----------------------------------------------------------------------------
(* handle_write_file: the write job                                        *)

\* Mutant: the session works on under its previous target.
SubmitKeepsTarget(s, f, len) ==
    /\ pc[s] = "idle"
    /\ app = "up"
    /\ writes < MaxWrites
    /\ writes' = writes + 1
    /\ data' = [data EXCEPT ![s] = [i \in 1..len |-> writes + 1]]
    /\ Goto(s, "open")
    /\ UNCHANGED <<fsVars, gitVars, snapVars, strategy, app, now, ends, target,
                   unversioned, overlapped>>

\* A write request with len blocks for f passes the checks of the handler.
Submit(s, f, len) ==
    /\ pc[s] = "idle"
    /\ app = "up"
    /\ writes < MaxWrites
    /\ writes' = writes + 1
    /\ target' = [target EXCEPT ![s] = f]
    /\ data' = [data EXCEPT ![s] = [i \in 1..len |-> writes + 1]]
    /\ overlapped' = IF \E r \in Sessions : pc[r] # "idle" /\ target[r] = f
                     THEN overlapped \cup {f} ELSE overlapped
    /\ Goto(s, "open")
    /\ UNCHANGED <<fsVars, gitVars, snapVars, strategy, app, now, ends,
                   unversioned>>

\* write_bytes opens the file, which truncates it.
OpenFile(s) ==
    /\ pc[s] = "open"
    /\ SetFile(target[s], <<>>)
    /\ unversioned' = unversioned \ {target[s]}
    /\ Goto(s, "write")
    /\ UNCHANGED <<gitVars, snapVars, envVars, target, data, overlapped>>

\* mkdir or open raises OSError: nothing is written.
OpenFails(s) ==
    /\ pc[s] = "open"
    /\ Finish(s)
    /\ UNCHANGED <<fsVars, repoVars, snaps, aborted, envVars, unversioned,
                   overlapped>>

\* The data are written, from the file's beginning.
WriteData(s) ==
    /\ pc[s] = "write"
    /\ SetFile(target[s], Overlay(data[s], file[target[s]]))
    /\ Goto(s, "written")
    /\ UNCHANGED <<gitVars, snapVars, envVars, target, data, unversioned,
                   overlapped>>

\* The write raises OSError after n blocks: no version is asked for.
WriteFails(s, n) ==
    /\ pc[s] = "write"
    /\ n < Len(data[s])
    /\ SetFile(target[s],
               Overlay(SubSeq(data[s], 1, n), file[target[s]]))
    /\ unversioned' = unversioned \cup {target[s]}
    /\ Finish(s)
    /\ UNCHANGED <<repoVars, snaps, aborted, envVars, overlapped>>

\* The task goes on and submits the versioning job.
StartVersion(s) ==
    /\ pc[s] = "written"
    /\ app = "up"
    /\ Goto(s, IF strategy = "git" THEN "add" ELSE "stamp")
    /\ UNCHANGED <<fsVars, gitVars, snapVars, envVars, target, data,
                   unversioned, overlapped>>

-----------------------------------------------------------------------------
(* _git_commit_sync.  Add and commit are GitPython's: each works on an     *)
(* index of its own, read when it is needed.  Replacing the index takes    *)
(* index.lock; nothing else does, and what was read is not looked at again *)
(* before it is replaced.                                                  *)

\* repo.index.add stores the content the file has now.
GitAdd(s) ==
    /\ pc[s] = "add"
    /\ blob' = [blob EXCEPT ![s] = file[target[s]]]
    /\ raced' =
         LET others == {r \in Sessions \ {s} : pc[r] \in InGit}
         IN  IF others = {} THEN raced \ {target[s]}
             ELSE raced \cup {target[r] : r \in others \cup {s}}
    /\ Goto(s, "load")
    /\ UNCHANGED <<fsVars, index, log, uncommitted, made, entries, base,
                   snapVars, envVars, target, data, unversioned, overlapped>>

\* It reads the index,
GitAddReads(s) ==
    /\ pc[s] = "load"
    /\ entries' = [entries EXCEPT ![s] = index]
    /\ Goto(s, "update")
    /\ UNCHANGED <<fsVars, repoVars, blob, base, snapVars, envVars, target,
                   data, unversioned, overlapped>>

\* and replaces it by what it read with the new content in it.
GitAddWrites(s) ==
    /\ pc[s] = "update"
    /\ index' = [entries[s] EXCEPT ![target[s]] = blob[s]]
    /\ Goto(s, "tree")
    /\ UNCHANGED <<fsVars, log, uncommitted, raced, made, blob, entries, base,
                   snapVars, envVars, target, data, unversioned, overlapped>>

\* repo.index.commit reads the index, to write it as a tree,
GitCommitTree(s) ==
    /\ pc[s] = "tree"
    /\ entries' = [entries EXCEPT ![s] = index]
    /\ Goto(s, "parent")
    /\ UNCHANGED <<fsVars, repoVars, blob, base, snapVars, envVars, target,
                   data, unversioned, overlapped>>

\* then HEAD, for the parent,
GitCommitParent(s) ==
    /\ pc[s] = "parent"
    /\ base' = [base EXCEPT ![s] = log]
    /\ Goto(s, "commit")
    /\ UNCHANGED <<fsVars, repoVars, blob, entries, snapVars, envVars, target,
                   data, unversioned, overlapped>>

\* Mutant: only the file the commit's message names is committed.
GitCommitOwnFile(s) ==
    /\ pc[s] = "commit"
    /\ log' = Append(base[s], [base[s][Len(base[s])] EXCEPT
                                  ![target[s]] = entries[s][target[s]]])
    /\ made' = IF target[s] \in raced THEN made
               ELSE made \cup {<<target[s], entries[s][target[s]]>>}
    /\ uncommitted' = FALSE
    /\ Finish(s)
    /\ UNCHANGED <<fsVars, index, raced, snaps, aborted, envVars, unversioned,
                   overlapped>>

\* and sets HEAD to the commit: the tree, whoever added to it, on that parent,
\* whatever HEAD is now.
GitCommit(s) ==
    /\ pc[s] = "commit"
    /\ log' = Append(base[s], entries[s])
    /\ made' = IF target[s] \in raced THEN made
               ELSE made \cup {<<target[s], entries[s][target[s]]>>}
    /\ uncommitted' = FALSE
    /\ Finish(s)
    /\ UNCHANGED <<fsVars, index, raced, snaps, aborted, envVars, unversioned,
                   overlapped>>

\* Either raises, at any point, for instance because another thread holds
\* index.lock, a kill has left it behind, the file is gone, or init_share
\* found no git.  Logged and forgotten.
GitFails(s) ==
    /\ pc[s] \in {"add"} \cup InGit
    /\ unversioned' = IF pc[s] \in Committing THEN unversioned
                      ELSE unversioned \cup {target[s]}
    /\ uncommitted' = (uncommitted \/ pc[s] \in Committing)
    /\ Finish(s)
    /\ UNCHANGED <<fsVars, index, log, raced, made, snaps, aborted, envVars,
                   overlapped>>

-----------------------------------------------------------------------------
(* _snapshot_sync and _rotate_snapshots                                    *)

\* The snapshot's name is taken from the clock.
StampSnapshot(s) ==
    /\ pc[s] = "stamp"
    /\ stamp' = [stamp EXCEPT ![s] = now]
    /\ Goto(s, "copy")
    /\ UNCHANGED <<fsVars, gitVars, snaps, seen, todo, aborted, envVars,
                   target, data, unversioned, overlapped>>

\* copy2 creates the snapshot, or truncates the one of that name.
OpenSnapshot(s) ==
    /\ pc[s] = "copy"
    /\ snaps' = SnapsWith(Mine(s), [content |-> <<>>, mtime |-> ticks + 1])
    /\ ticks' = ticks + 1
    /\ Goto(s, "fill")
    /\ UNCHANGED <<file, mtime, gitVars, stamp, seen, todo, aborted,
                   envVars, target, data, unversioned, overlapped>>

\* copy2 copies what the file holds now, and the file's mtime with it.
FillSnapshot(s) ==
    /\ pc[s] = "fill"
    /\ Mine(s) \in DOMAIN snaps
    /\ snaps' = SnapsWith(Mine(s), [content |-> file[target[s]],
                                    mtime |-> mtime[target[s]]])
    /\ Goto(s, "list")
    /\ UNCHANGED <<fsVars, gitVars, stamp, seen, todo, aborted, envVars,
                   target, data, unversioned, overlapped>>

\* mkdir or copy2 raises, on opening or later, or another rotation has removed
\* the snapshot meanwhile.  Logged and forgotten; nothing is rotated.
SnapshotFails(s) ==
    /\ pc[s] \in {"stamp", "copy", "fill"}
    /\ unversioned' = unversioned \cup {target[s]}
    /\ aborted' = IF pc[s] = "fill" THEN aborted \cup {BaseName[target[s]]}
                  ELSE aborted
    /\ Finish(s)
    /\ UNCHANGED <<fsVars, repoVars, snaps, envVars, overlapped>>

\* The rotation lists the snapshots with the file's prefix.
ListSnapshots(s) ==
    /\ pc[s] = "list"
    /\ seen' = [seen EXCEPT ![s] =
         {x \in DOMAIN snaps : x[1] \in Matches[BaseName[target[s]]]}]
    /\ Goto(s, "stat")
    /\ UNCHANGED <<fsVars, gitVars, snaps, stamp, todo, aborted, envVars,
                   target, data, unversioned, overlapped>>

\* kept are the newest of the snapshots in xs, n of them if there are so many.
Newest(kept, xs, n) ==
    /\ Cardinality(kept) = IF Cardinality(xs) < n THEN Cardinality(xs) ELSE n
    /\ \A x \in kept, y \in xs \ kept : snaps[x].mtime >= snaps[y].mtime

\* Mutant: sorted the other way round.
StatSnapshotsReversed(s) ==
    /\ pc[s] = "stat"
    /\ seen[s] \subseteq DOMAIN snaps
    /\ \E old \in SUBSET seen[s] :
          /\ Newest(old, seen[s],
                    IF Cardinality(seen[s]) < MaxSnapshots THEN 0
                    ELSE Cardinality(seen[s]) - MaxSnapshots)
          /\ todo' = [todo EXCEPT ![s] = [x \in old |-> snaps[x].mtime]]
    /\ Goto(s, "unlink")
    /\ UNCHANGED <<fsVars, gitVars, snaps, stamp, seen, aborted, envVars,
                   target, data, unversioned, overlapped>>

\* Mutant: one snapshot too many is kept.
StatSnapshotsOffByOne(s) ==
    /\ pc[s] = "stat"
    /\ seen[s] \subseteq DOMAIN snaps
    /\ \E kept \in SUBSET seen[s] :
          /\ Newest(kept, seen[s], MaxSnapshots + 1)
          /\ todo' = [todo EXCEPT ![s] =
                         [x \in seen[s] \ kept |-> snaps[x].mtime]]
    /\ Goto(s, "unlink")
    /\ UNCHANGED <<fsVars, gitVars, snaps, stamp, seen, aborted, envVars,
                   target, data, unversioned, overlapped>>

\* They are sorted by mtime; those beyond the limit are to be removed.
StatSnapshots(s) ==
    /\ pc[s] = "stat"
    /\ seen[s] \subseteq DOMAIN snaps
    /\ \E kept \in SUBSET seen[s] :
          /\ Newest(kept, seen[s], MaxSnapshots)
          /\ todo' = [todo EXCEPT ![s] =
                         [x \in seen[s] \ kept |-> snaps[x].mtime]]
    /\ Goto(s, "unlink")
    /\ UNCHANGED <<fsVars, gitVars, snaps, stamp, seen, aborted, envVars,
                   target, data, unversioned, overlapped>>

\* The next one, the newest of them, is removed.
UnlinkSnapshot(s) ==
    /\ pc[s] = "unlink"
    /\ \E x \in DOMAIN todo[s] :
          /\ \A y \in DOMAIN todo[s] : todo[s][x] >= todo[s][y]
          /\ x \in DOMAIN snaps
          /\ snaps' = Without(snaps, {x})
          /\ todo' = [todo EXCEPT ![s] = Without(@, {x})]
    /\ UNCHANGED <<fsVars, gitVars, stamp, seen, aborted, envVars, pc,
                   target, data, unversioned, overlapped>>

\* Listing, stat or unlink raises OSError, as the last two do when another
\* rotation has removed the snapshot: the rest of the rotation is forgotten.
RotationFails(s) ==
    /\ pc[s] \in {"list", "stat", "unlink"}
    /\ pc[s] = "unlink" => DOMAIN todo[s] # {}
    /\ aborted' = aborted \cup {BaseName[target[s]]}
    /\ Finish(s)
    /\ UNCHANGED <<fsVars, repoVars, snaps, envVars, unversioned,
                   overlapped>>

RotationEnds(s) ==
    /\ pc[s] = "unlink"
    /\ DOMAIN todo[s] = {}
    /\ Finish(s)
    /\ UNCHANGED <<fsVars, repoVars, snaps, aborted, envVars, unversioned,
                   overlapped>>

-----------------------------------------------------------------------------
(* The process                                                             *)

\* asyncio.run cancels the tasks: what runs in a thread is finished, but
\* nobody submits what was to follow, and jobs not started are cancelled.
Teardown ==
    /\ app = "up"
    /\ ends < MaxEnds
    /\ ends' = ends + 1
    /\ app' = "down"
    /\ UNCHANGED <<fsVars, gitVars, snapVars, strategy, now, writes, pc,
                   target, data, unversioned, overlapped>>

Dropped(s) ==
    /\ app = "down"
    /\ pc[s] \in {"open", "written", "add", "stamp"}
    /\ unversioned' = IF pc[s] = "open" THEN unversioned
                      ELSE unversioned \cup {target[s]}
    /\ Finish(s)
    /\ UNCHANGED <<fsVars, repoVars, snaps, aborted, envVars, overlapped>>

\* The process is killed; a new one finds the files as they are.
Crash ==
    /\ ends < MaxEnds
    /\ ends' = ends + 1
    /\ app' = "up"
    /\ pc' = [s \in Sessions |-> "idle"]
    /\ target' = [s \in Sessions |-> NoFile]
    /\ data' = [s \in Sessions |-> <<>>]
    /\ blob' = [s \in Sessions |-> <<>>]
    /\ entries' = [s \in Sessions |-> NoTree]
    /\ base' = [s \in Sessions |-> <<>>]
    /\ stamp' = [s \in Sessions |-> 0]
    /\ seen' = [s \in Sessions |-> {}]
    /\ todo' = [s \in Sessions |-> EmptyFun]
    /\ unversioned' = unversioned \cup
          {target[s] : s \in {r \in Sessions : pc[r] \in Unrecorded}}
    /\ uncommitted' =
          (uncommitted \/ \E s \in Sessions : pc[s] \in Committing)
    /\ aborted' = aborted \cup
          {BaseName[target[s]] : s \in {r \in Sessions : pc[r] \in Rotating}}
    /\ UNCHANGED <<fsVars, index, log, raced, made, snaps, strategy, now,
                   writes, overlapped>>

\* A second passes; only snapshots care.
Tick ==
    /\ strategy = "snapshots"
    /\ now < MaxTime
    /\ now' = now + 1
    /\ UNCHANGED <<fsVars, gitVars, snapVars, strategy, app, writes, ends,
                   pc, target, data, unversioned, overlapped>>

AtRest ==
    /\ \A s \in Sessions : pc[s] = "idle"
    /\ app = "down" \/ writes = MaxWrites
    /\ UNCHANGED vars

Next ==
    \/ \E s \in Sessions :
          \/ \E f \in Files, len \in Lengths : Submit(s, f, len)
          \/ \E n \in 0..Len(data[s]) : WriteFails(s, n)
          \/ OpenFile(s) \/ OpenFails(s) \/ WriteData(s) \/ StartVersion(s)
          \/ GitAdd(s) \/ GitAddReads(s) \/ GitAddWrites(s)
          \/ GitCommitTree(s) \/ GitCommitParent(s) \/ GitCommit(s)
          \/ GitFails(s)
          \/ StampSnapshot(s) \/ OpenSnapshot(s) \/ FillSnapshot(s)
          \/ SnapshotFails(s) \/ ListSnapshots(s) \/ StatSnapshots(s)
          \/ UnlinkSnapshot(s) \/ RotationFails(s) \/ RotationEnds(s)
          \/ Dropped(s)
    \/ Teardown \/ Crash \/ Tick \/ AtRest

Spec == Init /\ [][Next]_vars

-----------------------------------------------------------------------------
(* What get_history lists                                                  *)

\* The snapshots named like f: of those that start with the prefix, the
\* names in which no second follows it are skipped.
History(f) == {x \in DOMAIN snaps : x[1] = BaseName[f]}

\* The contents files have in the commits of a log.
Versions(l) == {<<f, l[i][f]>> : f \in Files, i \in DOMAIN l}

HEAD == log[Len(log)]

-----------------------------------------------------------------------------
(* Properties                                                              *)

\* A session is between writing f and the end of its git job.
AtWork(f) ==
    \E s \in Sessions :
       target[s] = f /\ pc[s] \in {"write", "written", "add"} \cup InGit

\* Git strategy: jobs that overlap cost, at most, the versions of the programs
\* they are for.  A program whose last job overlapped none is in HEAD with the
\* content it has, unless a session is at work on it, its write ended without
\* a version, or the last commit raised; and every version such a job has
\* committed stays in the log that get_history reads.
LoneVersioned ==
    strategy = "git" =>
        /\ \A f \in Files \ (unversioned \cup raced) :
              HEAD[f] = file[f] \/ AtWork(f) \/ uncommitted
        /\ made \subseteq Versions(log)

\* "Commit the file change to git": the tree a job is about to commit has the
\* content it has added, unless two sessions have worked on that program.
CommitsOwnWrite ==
    \A s \in Sessions :
        pc[s] = "commit" /\ target[s] \notin overlapped =>
            entries[s][target[s]] = blob[s]

\* No other program's snapshots are mixed with those of f.
Alone(f) ==
    \A g \in Files \ {f} : /\ BaseName[g] \notin Matches[BaseName[f]]
                           /\ BaseName[f] \notin Matches[BaseName[g]]

\* Snapshots strategy: once a write has been recorded, rotation leaves a
\* snapshot with the program's content in place, through crashes, writes
\* within one second and failures of later steps, as long as no two sessions
\* have worked on that program at once, no other shares its snapshots and
\* max_snapshots leaves any.
SnapshotVersioned ==
    strategy = "snapshots" =>
        \A f \in Files \ (unversioned \cup overlapped) :
            \/ file[f] = Absent
            \/ ~ Alone(f) \/ MaxSnapshots = 0
            \/ \E s \in Sessions : target[s] = f /\ pc[s] \in Unrecorded
            \/ \E x \in History(f) : snaps[x].content = file[f]

\* When no rotation of a name is under way and none was ever cut short, no
\* more than max_snapshots of that name are left, however rotations overlap:
\* the one that lists last sees every snapshot.
RotationBound ==
    \A f \in Files :
        \/ BaseName[f] \in aborted
        \/ \E s \in Sessions :
              pc[s] \in Rotating /\ BaseName[target[s]] = BaseName[f]
        \/ Cardinality(History(f)) <= MaxSnapshots
=============================================================================
