----------------------------- MODULE WorkingTree -----------------------------
(***************************************************************************)
(* One checkout and the commands that look at it or write in it:           *)
(* `l9-ci manifest generate` and `check`, the snapshot a pipeline derives, *)
(* and the projection of the repository-metadata observation.  Each asks   *)
(* git three times; developers and the other commands go on in between.    *)
(* The two manifest commands share one temporary file name.                *)
(* External: git, the file system, and the developers.                     *)
(***************************************************************************)
EXTENDS Naturals

CONSTANTS
    Sources,    \* paths of source files
    Versions,   \* contents of a source file
    Commands,   \* processes
    Runs,       \* per process: the commands it may run
    Denied,     \* processes for whom git may fail to recognise a repository
    MaxHead     \* bound: commits after the first

Kinds == {"generate", "check", "metadata", "snapshot"}

Writers == {"generate", "check"}

Manifest == "MANIFEST.md"
Temporary == ".MANIFEST.md.tmp"

ASSUME TreeAssumption ==
    /\ MaxHead \in Nat
    /\ Runs \in [Commands -> SUBSET Kinds]
    /\ {Manifest, Temporary} \cap Sources = {}
    /\ "developer" \notin Commands

VARIABLES
    git,        \* the root is a git repository
    untracked,  \* the jobs list untracked files (no --tracked-only)
    head,       \* the revision HEAD names
    committed,  \* per path: its content at HEAD
    tree,       \* per path: its content in the working tree
    cmd,        \* per process: the state of its command
    overlapped  \* history: two commands had the temporary file open at once,
                \* and since then no whole manifest has replaced the old one

vars == <<git, untracked, head, committed, tree, cmd, overlapped>>

Paths == Sources \cup {Manifest, Temporary}

(* Contents: none, a version of a source, the rendered list of some paths, *)
(* or what is no whole list: an empty file, or two lists over each other.  *)
Absent == <<"absent">>
Empty == <<"empty">>
Mixed == <<"mixed">>
Rendered(paths) == <<"list", paths>>

Contents(p) ==
    IF p \in Sources THEN {Absent} \cup {<<"source", v>> : v \in Versions}
    ELSE {Absent, Empty, Mixed} \cup {Rendered(S) : S \in SUBSET Paths}

-----------------------------------------------------------------------------
Existing == {p \in Paths : tree[p] # Absent}

(* git ls-files, and the "??" lines of git status.                         *)
Tracked == {p \in Paths : committed[p] # Absent}
Untracked == Existing \ Tracked

(* Mutant: a status that leaves untracked files out.                       *)
DirtyTracked == \E p \in Tracked : tree[p] # committed[p]

(* git status prints something.                                            *)
Dirty == tree # committed

(* Mutant: the manifest lists itself.                                      *)
ManifestWithItself(listing) == Rendered(listing)

(* What build_repository_manifest makes of the listed files.               *)
ManifestOf(listing) == Rendered(listing \ {Manifest})

(* The second answer: dirty, and the untracked files where they are asked. *)
(* The manifest commands use neither the revision nor the flag.            *)
Status(state, next) ==
    [state EXCEPT !.pc = next,
                  !.dirty = Dirty /\ state.kind \notin Writers,
                  !.listing = IF untracked \/ state.kind = "snapshot"
                              THEN Untracked ELSE {}]

(* The third answer completes the list; a directory that was taken for no  *)
(* repository is listed file by file.                                      *)
Listed(state) ==
    [state EXCEPT !.plain = FALSE,
                  !.listing = IF state.plain THEN Existing ELSE @ \cup Tracked]

Steps == {"idle", "head", "status", "files", "compare", "open", "write", "replace",
          "status again", "files again", "verdict"}

Exits == {"none", "SUCCESS", "GATE_FAILURE", "INVALID_ARGUMENTS",
          "passed", "failed", "error", "snapshot"}

(* disturbed is history: the repository has changed under the command, or  *)
(* a manifest command found a temporary file that it will list, or took a  *)
(* repository for a plain directory.                                       *)
Idle(exit) ==
    [pc |-> "idle", kind |-> "generate", plain |-> FALSE, revision |-> 0, dirty |-> FALSE,
     listing |-> {}, at |-> "none", exit |-> exit, disturbed |-> FALSE]

TypeOK ==
    /\ git \in BOOLEAN
    /\ untracked \in BOOLEAN
    /\ head \in 0 .. MaxHead
    /\ \A p \in Paths : committed[p] \in Contents(p) /\ tree[p] \in Contents(p)
    /\ cmd \in [Commands ->
        [pc : Steps, kind : Kinds, plain : BOOLEAN, revision : 0 .. MaxHead, dirty : BOOLEAN,
         listing : SUBSET Paths,
         at : {"none", "temporary", "manifest", "nowhere"}, exit : Exits,
         disturbed : BOOLEAN]]
    /\ overlapped \in BOOLEAN

Init ==
    /\ git \in BOOLEAN
    /\ untracked \in BOOLEAN
    /\ ~git => untracked
    /\ head = 0
    /\ committed = [p \in Paths |-> Absent]
    /\ tree = [p \in Paths |-> Absent]
    /\ cmd = [c \in Commands |-> Idle("none")]
    /\ overlapped = FALSE

(* RepositorySnapshot: the identity is the digest of what git answered.    *)
SnapshotId(state) ==
    <<IF state.plain THEN "none" ELSE state.revision,
      ~state.plain /\ state.dirty,
      Listed(state).listing>>

(* Every running command but c has been disturbed.                         *)
Disturbing(states, c) ==
    [d \in Commands |->
        IF d = c \/ states[d].pc = "idle" THEN states[d]
        ELSE [states[d] EXCEPT !.disturbed = TRUE]]

Everybody == Disturbing(cmd, "developer")

-----------------------------------------------------------------------------
Edit(p) ==
    /\ \E content \in Contents(p) \ {tree[p]} : tree' = [tree EXCEPT ![p] = content]
    /\ cmd' = Everybody
    /\ UNCHANGED <<git, untracked, head, committed, overlapped>>

(* All but the temporary file is committed.                                *)
Commit ==
    /\ git
    /\ head < MaxHead
    /\ head' = head + 1
    /\ committed' = [tree EXCEPT ![Temporary] = Absent]
    /\ committed' # committed
    /\ cmd' = Everybody
    /\ UNCHANGED <<git, untracked, tree, overlapped>>

(* Somebody starts a command; metadata is given the revision to observe.   *)
Start(c) ==
    /\ cmd[c].pc = "idle"
    /\ \E kind \in Runs[c], revision \in 0 .. MaxHead :
        /\ kind # "metadata" => revision = 0
        /\ cmd' = [cmd EXCEPT ![c] =
                    [Idle("none") EXCEPT !.pc = "head",
                                         !.kind = kind,
                                         !.revision = revision,
                                         !.disturbed = /\ kind \in Writers
                                                       /\ untracked
                                                       /\ tree[Temporary] # Absent]]
    /\ UNCHANGED <<git, untracked, head, committed, tree, overlapped>>

Reads(c, pc) ==
    /\ cmd[c].pc = pc
    /\ UNCHANGED <<git, untracked, head, committed, tree, overlapped>>

Returns(c, exit) == cmd' = [cmd EXCEPT ![c] = Idle(exit)]

(* is_git_repository says no where there is none, and for any failure of   *)
(* its `git rev-parse --is-inside-work-tree`: the files are then simply    *)
(* enumerated.  The observation insists on a repository once, and asks     *)
(* again at its second inspection.                                         *)
TakeForPlain(c) ==
    \/ /\ Reads(c, "head")
       /\ cmd[c].kind # "metadata"
       /\ git => c \in Denied
       /\ cmd' = [cmd EXCEPT ![c].pc = "files",
                             ![c].plain = TRUE,
                             ![c].disturbed = @ \/ (git /\ cmd[c].kind \in Writers)]
    \/ /\ Reads(c, "status again")
       /\ c \in Denied
       /\ cmd' = [cmd EXCEPT ![c].pc = "files again", ![c].plain = TRUE]

(* git rev-parse HEAD.  The observation insists on git and on its revision. *)
ReadHead(c) ==
    /\ Reads(c, "head")
    /\ \/ /\ git
          /\ cmd[c].kind = "metadata" => cmd[c].revision = head
          /\ cmd' = [cmd EXCEPT ![c].pc = "status",
                                ![c].revision = IF cmd[c].kind \in Writers THEN 0 ELSE head]
       \/ /\ cmd[c].kind = "metadata"
          /\ ~git \/ cmd[c].revision # head
          /\ Returns(c, "error")

(* git status --untracked-files=all, of the first and the second inspection. *)
ReadStatus(c) ==
    /\ \/ Reads(c, "status") /\ cmd' = [cmd EXCEPT ![c] = Status(@, "files")]
       \/ Reads(c, "status again") /\ cmd' = [cmd EXCEPT ![c] = Status(@, "files again")]

(* Mutant: the observation of a dirty tree goes on.                        *)
ReadFilesOfAnyTree(c) ==
    /\ Reads(c, "files")
    /\ CASE cmd[c].kind = "metadata" ->
              cmd' = [cmd EXCEPT ![c].pc = "status again", ![c].listing = {}]
         [] cmd[c].kind = "snapshot" -> Returns(c, "snapshot")
         [] OTHER -> cmd' = [cmd EXCEPT ![c] = [Listed(@) EXCEPT !.pc = "compare"]]

(* git ls-files, or every file of a directory that is no repository.  The  *)
(* observation refuses a dirty tree here, and inspects it a second time.   *)
ReadFiles(c) ==
    /\ Reads(c, "files")
    /\ CASE cmd[c].kind = "metadata" /\ cmd[c].dirty -> Returns(c, "error")
         [] cmd[c].kind = "metadata" /\ ~cmd[c].dirty ->
              cmd' = [cmd EXCEPT ![c].pc = "status again", ![c].listing = {}]
         [] cmd[c].kind = "snapshot" -> Returns(c, "snapshot")
         [] OTHER -> cmd' = [cmd EXCEPT ![c] = [Listed(@) EXCEPT !.pc = "compare"]]

ReadFilesAgain(c) ==
    /\ Reads(c, "files again")
    /\ cmd' = [cmd EXCEPT ![c] = [Listed(@) EXCEPT !.pc = "verdict"]]

(* The manifest on disk, against the one the second inspection calls for.  *)
Observe(c) ==
    /\ Reads(c, "verdict")
    /\ Returns(c, IF tree[Manifest] = ManifestOf(cmd[c].listing) THEN "passed" ELSE "failed")

(* A git command fails: the observation's first inspection raises, its     *)
(* second one is reported as a manifest that has drifted.                  *)
GitFails(c) ==
    /\ git
    /\ ~cmd[c].plain
    /\ \E pc \in {"head", "status", "files", "status again", "files again"} :
        /\ Reads(c, pc)
        /\ Returns(c, CASE pc \in {"status again", "files again"} -> "failed"
                        [] pc \notin {"status again", "files again"}
                           /\ cmd[c].kind \in Writers -> "INVALID_ARGUMENTS"
                        [] OTHER -> "error")

-----------------------------------------------------------------------------
(* write_repository_manifest.                                              *)

WroteExit(c) == IF cmd[c].kind = "check" THEN "GATE_FAILURE" ELSE "SUCCESS"

Compare(c) ==
    /\ Reads(c, "compare")
    /\ IF tree[Manifest] = ManifestOf(cmd[c].listing) THEN Returns(c, "SUCCESS")
       ELSE cmd' = [cmd EXCEPT ![c].pc = "open"]

(* Mutant: the manifest is written in place.                               *)
OpenInPlace(c) ==
    /\ cmd[c].pc = "open"
    /\ tree' = [tree EXCEPT ![Manifest] = Empty]
    /\ cmd' = Disturbing([cmd EXCEPT ![c].pc = "write", ![c].at = "manifest"], c)
    /\ UNCHANGED <<git, untracked, head, committed, overlapped>>

(* write_text opens: the file is created, or the one there is emptied.     *)
Open(c) ==
    /\ cmd[c].pc = "open"
    /\ tree' = [tree EXCEPT ![Temporary] = Empty]
    /\ cmd' = Disturbing([cmd EXCEPT ![c].pc = "write", ![c].at = "temporary"], c)
    /\ overlapped' = (overlapped \/ \E d \in Commands \ {c} : cmd[d].at # "none")
    /\ UNCHANGED <<git, untracked, head, committed>>

(* What a write from the start of a file makes of its content.             *)
Written(old, new) == IF old \in {Empty, new} THEN {new} ELSE {new, Mixed}

(* The file is the one that was opened, wherever it has been moved since.  *)
Write(c) ==
    /\ cmd[c].pc = "write"
    /\ \/ cmd[c].at = "nowhere" /\ UNCHANGED tree
       \/ \E p \in {Manifest, Temporary} :
            /\ <<p, cmd[c].at>> \in {<<Manifest, "manifest">>, <<Temporary, "temporary">>}
            /\ \E content \in Written(tree[p], ManifestOf(cmd[c].listing)) :
                  tree' = [tree EXCEPT ![p] = content]
    /\ cmd' = Disturbing([cmd EXCEPT ![c].pc = "replace"], c)
    /\ UNCHANGED <<git, untracked, head, committed, overlapped>>

(* Where a file is after the temporary has replaced the manifest.          *)
Moved(at) ==
    CASE at = "temporary" -> "manifest"
      [] at = "manifest" -> "nowhere"
      [] OTHER -> at

Replace(c) ==
    /\ cmd[c].pc = "replace"
    /\ IF tree[Temporary] = Absent
       THEN Returns(c, "INVALID_ARGUMENTS") /\ UNCHANGED <<tree, overlapped>>
       ELSE /\ tree' = [tree EXCEPT ![Manifest] = tree[Temporary], ![Temporary] = Absent]
            /\ cmd' = Disturbing([d \in Commands |->
                        IF d = c THEN Idle(WroteExit(c))
                        ELSE [cmd[d] EXCEPT !.at = Moved(@)]], c)
            /\ overlapped' = (/\ overlapped
                              /\ \/ tree[Temporary] \in {Empty, Mixed}
                                 \/ \E d \in Commands \ {c} : cmd[d].at # "none")
    /\ UNCHANGED <<git, untracked, head, committed>>

(* A full disk ends a command with an error, a kill without a word.        *)
WriteFails(c) ==
    /\ Reads(c, "write")
    /\ Returns(c, "INVALID_ARGUMENTS")

Kill(c) ==
    /\ cmd[c].pc # "idle"
    /\ Returns(c, "none")
    /\ UNCHANGED <<git, untracked, head, committed, tree, overlapped>>

Command(c) ==
    \/ TakeForPlain(c) \/ ReadHead(c) \/ ReadStatus(c) \/ ReadFiles(c) \/ ReadFilesAgain(c)
    \/ Observe(c)
    \/ GitFails(c)
    \/ Compare(c) \/ Open(c) \/ Write(c) \/ Replace(c) \/ WriteFails(c)
    \/ Kill(c)

Next ==
    \/ \E p \in Sources : Edit(p)
    \/ Commit
    \/ \E c \in Commands : Start(c) \/ Command(c)

Spec == Init /\ [][Next]_vars

-----------------------------------------------------------------------------
(* "Atomically write the canonical manifest" (manifest.py:99), with its    *)
(* limit: whoever reads the manifest, at any moment and after any command  *)
(* was killed or failed, finds none or a whole list, unless two commands   *)
(* wrote at the same time.  The machine does not crash here: without an    *)
(* fsync (manifest.py:116) a list the kernel still holds would be lost.    *)
TornOnlyByOverlap ==
    tree[Manifest] \in {Empty, Mixed} => overlapped

Undisturbed(c, exits) ==
    /\ cmd[c].pc # "idle"
    /\ cmd'[c].pc = "idle"
    /\ cmd'[c].exit \in exits
    /\ ~cmd[c].disturbed

WouldList ==
    IF git THEN Tracked \cup (IF untracked THEN Untracked ELSE {}) ELSE Existing

(* "so generation is idempotent" (manifest.py:51): after a command that    *)
(* nothing disturbed, a second one would find nothing to change, in git    *)
(* and elsewhere, whether the manifest itself is tracked or not.  Two of   *)
(* the disturbances are exceptions to the code's own claim: the temporary  *)
(* file a dead command left behind, where untracked files are listed, and  *)
(* a repository that was taken for a plain directory.                      *)
GenerationIsIdempotent ==
    [][\A c \in Commands :
        Undisturbed(c, {"SUCCESS", "GATE_FAILURE"}) =>
            (tree[Manifest] = ManifestOf(WouldList))']_vars

(* An observation that says "passed" of a revision, and that nothing       *)
(* disturbed, speaks of the commit: its manifest lists exactly its files,  *)
(* even if the second inspection enumerated a plain directory.             *)
PassedMeansReconciled ==
    [][\A c \in Commands :
        Undisturbed(c, {"passed"}) =>
            /\ git
            /\ cmd[c].revision = head
            /\ committed[Manifest] = ManifestOf(Tracked)]_vars

(* A snapshot with a revision that is not dirty, and that nothing          *)
(* disturbed, is that of its revision: its file list and every content are *)
(* the commit's.                                                           *)
CleanSnapshotIsItsRevision ==
    [][\A c \in Commands :
        Undisturbed(c, {"snapshot"}) /\ ~cmd[c].plain /\ ~cmd[c].dirty =>
            /\ SnapshotId(cmd[c]) = <<head, FALSE, Tracked>>
            /\ tree = committed]_vars
=============================================================================
