------------------------- MODULE WorkingTreeProofs -------------------------
(***************************************************************************)
(* Proofs about WorkingTree, for any number of commands, sources, contents *)
(* and commits: the manifest on disk is whole unless two commands had the  *)
(* shared temporary file open at once.                                     *)
(*                                                                         *)
(* What a reader finds is decided by the command that wrote the temporary  *)
(* file before: AloneInv follows the one that has it open, from the moment *)
(* it is emptied to its replacing the manifest.  The last section is about *)
(* what the commands conclude from git's answers.                          *)
(***************************************************************************)
EXTENDS WorkingTree, TLAPS

Places == {"none", "temporary", "manifest", "nowhere"}

State ==
    [pc : Steps, kind : Kinds, plain : BOOLEAN, revision : 0 .. MaxHead, dirty : BOOLEAN,
     listing : SUBSET Paths, at : Places, exit : Exits, disturbed : BOOLEAN]

TypeInv ==
    /\ cmd \in [Commands -> State]
    /\ head \in 0 .. MaxHead
    /\ tree = [p \in Paths |-> tree[p]]
    /\ git \in BOOLEAN /\ untracked \in BOOLEAN

Writing == {"write", "replace"}

(* Who writes has the file open, wherever that is.                         *)
WritersHold == \A c \in Commands : cmd[c].pc \in Writing => cmd[c].at # "none"

Alone ==
    /\ tree[Manifest] \notin {Empty, Mixed}
    /\ \A c, d \in Commands : cmd[c].at # "none" /\ cmd[d].at # "none" => c = d
    /\ \A c \in Commands : cmd[c].at \in {"none", "temporary"}
    /\ \A c \in Commands : cmd[c].pc = "write" => tree[Temporary] = Empty
    /\ \A c \in Commands : cmd[c].pc = "replace" => tree[Temporary] \notin {Empty, Mixed}

AloneInv == ~overlapped => Alone

IInv == TypeInv /\ WritersHold /\ AloneInv

-----------------------------------------------------------------------------
LEMMA NamesDiffer ==
    /\ Manifest # Temporary
    /\ Manifest \in Paths /\ Temporary \in Paths
    /\ \A p \in Sources : p # Manifest /\ p # Temporary
BY TreeAssumption DEF Paths, Manifest, Temporary

LEMMA ListsAreWhole ==
    ASSUME NEW listing
    PROVE  ManifestOf(listing) \notin {Empty, Mixed}
BY DEF ManifestOf, Rendered, Empty, Mixed

LEMMA IdleIsState ==
    ASSUME NEW exit \in Exits
    PROVE  /\ Idle(exit) \in State /\ Idle(exit).pc = "idle" /\ Idle(exit).at = "none"
           /\ ~Idle(exit).plain
<1>1. /\ "idle" \in Steps /\ "generate" \in Kinds /\ 0 \in 0 .. MaxHead /\ {} \in SUBSET Paths
      /\ "none" \in Places /\ FALSE \in BOOLEAN
  BY TreeAssumption DEF Steps, Kinds, Places
<1> QED
  BY <1>1 DEF Idle, State

(* Disturbed or not, a command is where it was.                            *)
LEMMA DisturbingMovesNobody ==
    ASSUME NEW states \in [Commands -> State], NEW c
    PROVE  /\ Disturbing(states, c) \in [Commands -> State]
           /\ \A d \in Commands : /\ Disturbing(states, c)[d].pc = states[d].pc
                                  /\ Disturbing(states, c)[d].at = states[d].at
<1>1. ASSUME NEW d \in Commands
      PROVE  /\ Disturbing(states, c)[d] \in State
             /\ Disturbing(states, c)[d].pc = states[d].pc
             /\ Disturbing(states, c)[d].at = states[d].at
  <2>1. states[d] \in State
    OBVIOUS
  <2>2. Disturbing(states, c)[d] = IF d = c \/ states[d].pc = "idle" THEN states[d]
                                   ELSE [states[d] EXCEPT !.disturbed = TRUE]
    BY DEF Disturbing
  <2>3. [states[d] EXCEPT !.disturbed = TRUE] \in State
        /\ [states[d] EXCEPT !.disturbed = TRUE].pc = states[d].pc
        /\ [states[d] EXCEPT !.disturbed = TRUE].at = states[d].at
    BY <2>1 DEF State
  <2> QED
    BY <2>1, <2>2, <2>3
<1>2. Disturbing(states, c) = [d \in Commands |-> Disturbing(states, c)[d]]
  BY DEF Disturbing
<1> QED
  BY <1>1, <1>2

(* A step that neither opens, writes nor replaces: the files of the        *)
(* manifest stay, and a command stays in its place or lets go.             *)
Calm ==
    \A d \in Commands :
        \/ cmd'[d].pc = cmd[d].pc /\ cmd'[d].at = cmd[d].at
        \/ cmd'[d].pc \notin Writing /\ cmd'[d].at \in {cmd[d].at, "none"}

LEMMA CalmKeeps ==
    ASSUME IInv, TypeInv', Calm, UNCHANGED overlapped,
           tree'[Manifest] = tree[Manifest], tree'[Temporary] = tree[Temporary]
    PROVE  IInv'
<1>1. WritersHold'
  BY DEF IInv, WritersHold, Calm, Writing
<1>2. ASSUME Alone PROVE Alone'
  <2>1. \A c \in Commands : cmd'[c].at # "none" => cmd[c].at = cmd'[c].at
    BY <1>2 DEF Alone, Calm
  <2>2. \A c \in Commands : cmd'[c].pc \in Writing => cmd[c].pc = cmd'[c].pc
    BY DEF Calm
  <2>3. \A c \in Commands : cmd'[c].at \in {"none", "temporary"}
    BY <1>2 DEF Alone, Calm
  <2> QED
    BY <1>2, <2>1, <2>2, <2>3 DEF Alone, Writing
<1>3. AloneInv'
  BY <1>2 DEF IInv, AloneInv
<1> QED
  BY <1>1, <1>3 DEF IInv

(* One command moves, not to write.                                        *)
LEMMA OneMoves ==
    ASSUME TypeInv, NEW c \in Commands, NEW s \in State, cmd' = [cmd EXCEPT ![c] = s],
           s.pc \notin Writing, s.at \in {cmd[c].at, "none"}
    PROVE  cmd' \in [Commands -> State] /\ Calm
BY DEF TypeInv, Calm

LEMMA Returning ==
    ASSUME IInv, NEW c \in Commands, NEW exit \in Exits, Returns(c, exit),
           UNCHANGED <<git, untracked, head, tree, overlapped>>
    PROVE  IInv'
<1>1. cmd' \in [Commands -> State] /\ Calm
  BY OneMoves, IdleIsState DEF Returns, IInv, Writing
<1> QED
  BY <1>1, CalmKeeps DEF IInv, TypeInv

-----------------------------------------------------------------------------
(* The steps that read, one by one: each leaves a state and is calm.       *)
LEMMA StatusIsState ==
    ASSUME TypeInv, NEW c \in Commands, NEW next \in Steps
    PROVE  /\ Status(cmd[c], next) \in State
           /\ Status(cmd[c], next).pc = next /\ Status(cmd[c], next).at = cmd[c].at
<1>1. cmd[c] \in State /\ Untracked \in SUBSET Paths
  BY DEF TypeInv, Untracked, Existing
<1> DEFINE dirty == Dirty /\ cmd[c].kind \notin Writers
           listing == IF untracked \/ cmd[c].kind = "snapshot" THEN Untracked ELSE {}
<1>2. dirty \in BOOLEAN /\ listing \in SUBSET Paths
  BY <1>1 DEF Dirty
<1>3. Status(cmd[c], next) = [cmd[c] EXCEPT !.pc = next, !.dirty = dirty, !.listing = listing]
  BY DEF Status
<1> HIDE DEF dirty, listing
<1> QED
  BY <1>1, <1>2, <1>3 DEF State

LEMMA ListedIsState ==
    ASSUME TypeInv, NEW s \in State
    PROVE  Listed(s) \in State /\ Listed(s).pc = s.pc /\ Listed(s).at = s.at
<1>1. Tracked \in SUBSET Paths /\ Existing \in SUBSET Paths
  BY DEF Tracked, Existing
<1> DEFINE listing == IF s.plain THEN Existing ELSE s.listing \cup Tracked
<1>2. listing \in SUBSET Paths
  BY <1>1 DEF State
<1>3. Listed(s) = [s EXCEPT !.plain = FALSE, !.listing = listing]
  BY DEF Listed
<1> HIDE DEF listing
<1> QED
  BY <1>2, <1>3 DEF State

(* A command that read goes on, elsewhere than to write.                   *)
LEMMA Reading ==
    ASSUME IInv, NEW c \in Commands, NEW s \in State, cmd' = [cmd EXCEPT ![c] = s],
           s.pc \notin Writing, s.at \in {cmd[c].at, "none"},
           UNCHANGED <<git, untracked, head, tree, overlapped>>
    PROVE  IInv'
<1>1. cmd' \in [Commands -> State] /\ Calm
  BY OneMoves DEF IInv
<1> QED
  BY <1>1, CalmKeeps DEF IInv, TypeInv

LEMMA StartKeeps ==
    ASSUME IInv, NEW c \in Commands, Start(c)
    PROVE  IInv'
<1>1. PICK kind \in Runs[c], revision \in 0 .. MaxHead :
        cmd' = [cmd EXCEPT ![c] =
                    [Idle("none") EXCEPT !.pc = "head",
                                         !.kind = kind,
                                         !.revision = revision,
                                         !.disturbed = /\ kind \in Writers
                                                       /\ untracked
                                                       /\ tree[Temporary] # Absent]]
  BY DEF Start
<1> DEFINE leftover == kind \in Writers /\ untracked /\ tree[Temporary] # Absent
           s == [Idle("none") EXCEPT !.pc = "head", !.kind = kind, !.revision = revision,
                                     !.disturbed = leftover]
<1>2. Idle("none") \in State /\ Idle("none").at = "none"
  BY IdleIsState DEF Exits
<1>3. /\ "head" \in Steps /\ kind \in Kinds /\ revision \in 0 .. MaxHead /\ leftover \in BOOLEAN
  BY TreeAssumption DEF Steps, IInv, TypeInv
<1> HIDE DEF leftover
<1>4. s \in State /\ s.pc = "head" /\ s.at = "none"
  BY <1>2, <1>3 DEF State
<1>5. cmd' = [cmd EXCEPT ![c] = s]
  BY <1>1 DEF leftover
<1> HIDE DEF s
<1> QED
  BY <1>4, <1>5, Reading DEF Start, Writing

LEMMA ReadHeadKeeps ==
    ASSUME IInv, NEW c \in Commands, ReadHead(c)
    PROVE  IInv'
<1>1. UNCHANGED <<git, untracked, head, tree, overlapped>>
  BY DEF ReadHead, Reads
<1>2. cmd[c] \in State /\ head \in 0 .. MaxHead /\ 0 \in 0 .. MaxHead
  BY TreeAssumption DEF IInv, TypeInv
<1>3. CASE \E exit \in Exits : Returns(c, exit)
  BY <1>1, <1>3, Returning
<1>4. CASE cmd' = [cmd EXCEPT ![c].pc = "status",
                              ![c].revision = IF cmd[c].kind \in Writers THEN 0 ELSE head]
  <2> DEFINE revision == IF cmd[c].kind \in Writers THEN 0 ELSE head
             s == [cmd[c] EXCEPT !.pc = "status", !.revision = revision]
  <2>1. revision \in 0 .. MaxHead
    BY <1>2
  <2>2. cmd' = [cmd EXCEPT ![c] = s]
    BY <1>4 DEF IInv, TypeInv
  <2> HIDE DEF revision
  <2>3. s \in State /\ s.pc = "status" /\ s.at = cmd[c].at
    BY <1>2, <2>1 DEF State, Steps
  <2> HIDE DEF s
  <2> QED
    BY <1>1, <2>2, <2>3, Reading DEF Writing
<1> QED
  BY <1>3, <1>4 DEF ReadHead, Exits

(* Where a command goes that takes the directory for no repository.        *)
LEMMA PlainAnswer ==
    ASSUME TypeInv, NEW c \in Commands, TakeForPlain(c)
    PROVE  \E s \in State :
              /\ cmd' = [cmd EXCEPT ![c] = s]
              /\ s.kind = cmd[c].kind /\ s.revision = cmd[c].revision
              /\ s.listing = cmd[c].listing /\ s.at = cmd[c].at /\ s.plain
              /\ cmd[c].disturbed => s.disturbed
              /\ \/ /\ cmd[c].pc = "head" /\ s.pc = "files" /\ s.kind # "metadata"
                    /\ git /\ s.kind \in Writers => s.disturbed
                 \/ cmd[c].pc = "status again" /\ s.pc = "files again"
<1>1. cmd[c] \in State
  BY DEF TypeInv
<1>2. CASE /\ cmd[c].pc = "head"
           /\ cmd[c].kind # "metadata"
           /\ cmd' = [cmd EXCEPT ![c].pc = "files",
                                 ![c].plain = TRUE,
                                 ![c].disturbed = @ \/ (git /\ cmd[c].kind \in Writers)]
  <2> DEFINE disturbed == cmd[c].disturbed \/ (git /\ cmd[c].kind \in Writers)
             s == [cmd[c] EXCEPT !.pc = "files", !.plain = TRUE, !.disturbed = disturbed]
  <2>1. disturbed \in BOOLEAN
    OBVIOUS
  <2>2. cmd' = [cmd EXCEPT ![c] = s]
    BY <1>2 DEF TypeInv
  <2>3. (cmd[c].disturbed => disturbed) /\ (git /\ cmd[c].kind \in Writers => disturbed)
    OBVIOUS
  <2> HIDE DEF disturbed
  <2>4. /\ s \in State /\ s.pc = "files" /\ s.plain /\ s.kind = cmd[c].kind
        /\ s.revision = cmd[c].revision /\ s.listing = cmd[c].listing
        /\ s.at = cmd[c].at /\ s.disturbed = disturbed
    BY <1>1, <2>1 DEF State, Steps
  <2> HIDE DEF s
  <2> QED
    BY <1>2, <2>2, <2>3, <2>4
<1>3. CASE /\ cmd[c].pc = "status again"
           /\ cmd' = [cmd EXCEPT ![c].pc = "files again", ![c].plain = TRUE]
  <2> DEFINE s == [cmd[c] EXCEPT !.pc = "files again", !.plain = TRUE]
  <2>1. cmd' = [cmd EXCEPT ![c] = s]
    BY <1>3 DEF TypeInv
  <2>2. /\ s \in State /\ s.pc = "files again" /\ s.plain /\ s.kind = cmd[c].kind
        /\ s.revision = cmd[c].revision /\ s.listing = cmd[c].listing
        /\ s.at = cmd[c].at /\ s.disturbed = cmd[c].disturbed
    BY <1>1 DEF State, Steps
  <2> HIDE DEF s
  <2> QED
    BY <1>3, <2>1, <2>2
<1> QED
  BY <1>2, <1>3 DEF TakeForPlain, Reads

LEMMA TakeForPlainKeeps ==
    ASSUME IInv, NEW c \in Commands, TakeForPlain(c)
    PROVE  IInv'
<1>1. UNCHANGED <<git, untracked, head, tree, overlapped>>
  BY DEF TakeForPlain, Reads
<1>2. PICK s \in State :
        /\ cmd' = [cmd EXCEPT ![c] = s]
        /\ s.at = cmd[c].at
        /\ s.pc \in {"files", "files again"}
  BY PlainAnswer DEF IInv
<1> QED
  BY <1>1, <1>2, Reading DEF Writing

LEMMA ReadStatusKeeps ==
    ASSUME IInv, NEW c \in Commands, ReadStatus(c)
    PROVE  IInv'
<1>1. UNCHANGED <<git, untracked, head, tree, overlapped>>
  BY DEF ReadStatus, Reads
<1>2. PICK next \in {"files", "files again"} : cmd' = [cmd EXCEPT ![c] = Status(@, next)]
  BY DEF ReadStatus
<1>3. next \in Steps /\ next \notin Writing
  BY DEF Steps, Writing
<1>4. cmd' = [cmd EXCEPT ![c] = Status(cmd[c], next)]
  BY <1>2 DEF IInv, TypeInv
<1> DEFINE s == Status(cmd[c], next)
<1>5. s \in State /\ s.pc = next /\ s.at = cmd[c].at
  BY <1>3, StatusIsState DEF IInv
<1> HIDE DEF s
<1>6. cmd' = [cmd EXCEPT ![c] = s]
  BY <1>4 DEF s
<1> QED
  BY <1>1, <1>3, <1>5, <1>6, Reading

LEMMA ReadFilesKeeps ==
    ASSUME IInv, NEW c \in Commands, ReadFiles(c) \/ ReadFilesAgain(c)
    PROVE  IInv'
<1>1. UNCHANGED <<git, untracked, head, tree, overlapped>>
  BY DEF ReadFiles, ReadFilesAgain, Reads
<1>2. cmd[c] \in State
  BY DEF IInv, TypeInv
<1>3. CASE \E exit \in Exits : Returns(c, exit)
  BY <1>1, <1>3, Returning
<1>4. CASE cmd' = [cmd EXCEPT ![c].pc = "status again", ![c].listing = {}]
  <2> DEFINE s == [cmd[c] EXCEPT !.pc = "status again", !.listing = {}]
  <2>1. s \in State /\ s.pc = "status again" /\ s.at = cmd[c].at
    BY <1>2 DEF State, Steps
  <2>2. cmd' = [cmd EXCEPT ![c] = s]
    BY <1>4 DEF IInv, TypeInv
  <2> HIDE DEF s
  <2> QED
    BY <1>1, <2>1, <2>2, Reading DEF Writing
<1>5. CASE \E next \in {"compare", "verdict"} :
             cmd' = [cmd EXCEPT ![c] = [Listed(@) EXCEPT !.pc = next]]
  <2>1. PICK next \in {"compare", "verdict"} :
             cmd' = [cmd EXCEPT ![c] = [Listed(@) EXCEPT !.pc = next]]
    BY <1>5
  <2> DEFINE s == [Listed(cmd[c]) EXCEPT !.pc = next]
  <2>2. Listed(cmd[c]) \in State /\ Listed(cmd[c]).at = cmd[c].at
    BY <1>2, ListedIsState DEF IInv
  <2>3. s \in State /\ s.pc = next /\ s.at = cmd[c].at
    BY <2>2 DEF State, Steps
  <2>4. cmd' = [cmd EXCEPT ![c] = s]
    BY <2>1 DEF IInv, TypeInv
  <2> HIDE DEF s
  <2> QED
    BY <1>1, <2>3, <2>4, Reading DEF Writing
<1>6. CASE ReadFiles(c)
  <2>1. \/ \E exit \in {"error", "snapshot"} : Returns(c, exit)
        \/ cmd' = [cmd EXCEPT ![c].pc = "status again", ![c].listing = {}]
        \/ cmd' = [cmd EXCEPT ![c] = [Listed(@) EXCEPT !.pc = "compare"]]
    BY <1>6 DEF ReadFiles
  <2> QED
    BY <2>1, <1>3, <1>4, <1>5 DEF Exits
<1>7. CASE ReadFilesAgain(c)
  BY <1>5, <1>7 DEF ReadFilesAgain
<1> QED
  BY <1>6, <1>7

LEMMA EndingsKeep ==
    ASSUME IInv, NEW c \in Commands,
           Observe(c) \/ GitFails(c) \/ WriteFails(c) \/ Kill(c)
    PROVE  IInv'
<1>1. UNCHANGED <<git, untracked, head, tree, overlapped>>
  BY DEF Observe, GitFails, WriteFails, Kill, Reads
<1>2. \E exit \in Exits : Returns(c, exit)
  BY DEF Observe, GitFails, WriteFails, Kill, Exits
<1> QED
  BY <1>1, <1>2, Returning

LEMMA CompareKeeps ==
    ASSUME IInv, NEW c \in Commands, Compare(c)
    PROVE  IInv'
<1>1. UNCHANGED <<git, untracked, head, tree, overlapped>>
  BY DEF Compare, Reads
<1>2. CASE Returns(c, "SUCCESS")
  BY <1>1, <1>2, Returning DEF Exits
<1>3. CASE cmd' = [cmd EXCEPT ![c].pc = "open"]
  <2> DEFINE s == [cmd[c] EXCEPT !.pc = "open"]
  <2>1. s \in State /\ s.pc = "open" /\ s.at = cmd[c].at
    BY DEF State, Steps, IInv, TypeInv
  <2>2. cmd' = [cmd EXCEPT ![c] = s]
    BY <1>3 DEF IInv, TypeInv
  <2> HIDE DEF s
  <2> QED
    BY <1>1, <2>1, <2>2, Reading DEF Writing
<1> QED
  BY <1>2, <1>3 DEF Compare

(* The developers do not touch the manifest or its temporary file.         *)
LEMMA DevelopersKeep ==
    ASSUME IInv, Commit \/ \E p \in Sources : Edit(p)
    PROVE  IInv'
<1>1. cmd' = Disturbing(cmd, "developer") /\ UNCHANGED <<git, untracked, overlapped>>
  BY DEF Commit, Edit, Everybody
<1>2. cmd' \in [Commands -> State] /\ Calm
  BY <1>1, DisturbingMovesNobody DEF Calm, IInv, TypeInv
<1>3. /\ tree' = [p \in Paths |-> tree'[p]]
      /\ tree'[Manifest] = tree[Manifest] /\ tree'[Temporary] = tree[Temporary]
  <2>1. CASE Commit
    BY <2>1 DEF Commit, IInv, TypeInv
  <2>2. CASE \E p \in Sources : Edit(p)
    BY <2>2, NamesDiffer DEF Edit, IInv, TypeInv, Paths
  <2> QED
    BY <2>1, <2>2
<1>4. head' \in 0 .. MaxHead
  BY TreeAssumption DEF Commit, Edit, IInv, TypeInv
<1> QED
  BY <1>1, <1>2, <1>3, <1>4, CalmKeeps DEF IInv, TypeInv

-----------------------------------------------------------------------------
(* The temporary file is emptied: by one command only, or it shows.        *)
LEMMA OpenKeeps ==
    ASSUME IInv, NEW c \in Commands, Open(c)
    PROVE  IInv'
<1> DEFINE s == [cmd[c] EXCEPT !.pc = "write", !.at = "temporary"]
           states == [cmd EXCEPT ![c] = s]
<1>1. s \in State /\ s.pc = "write" /\ s.at = "temporary"
  BY DEF State, Steps, Places, IInv, TypeInv
<1>2. [cmd EXCEPT ![c].pc = "write", ![c].at = "temporary"] = states
  BY DEF IInv, TypeInv
<1> HIDE DEF s
<1>3. /\ states \in [Commands -> State]
      /\ \A d \in Commands : states[d] = IF d = c THEN s ELSE cmd[d]
  BY <1>1 DEF IInv, TypeInv
<1>4. cmd' = Disturbing(states, c)
  BY <1>2 DEF Open
<1> HIDE DEF states
<1>5. /\ cmd' \in [Commands -> State]
      /\ cmd'[c].pc = "write" /\ cmd'[c].at = "temporary"
      /\ \A d \in Commands \ {c} : cmd'[d].pc = cmd[d].pc /\ cmd'[d].at = cmd[d].at
  BY <1>1, <1>3, <1>4, DisturbingMovesNobody
<1>6. /\ tree' = [p \in Paths |-> tree'[p]]
      /\ tree'[Temporary] = Empty /\ tree'[Manifest] = tree[Manifest]
  BY NamesDiffer DEF Open, IInv, TypeInv
<1>7. TypeInv'
  BY <1>5, <1>6 DEF Open, IInv, TypeInv
<1>8. WritersHold'
  BY <1>5 DEF IInv, WritersHold
<1>9. ASSUME ~overlapped' PROVE Alone'
  <2>1. ~overlapped /\ \A d \in Commands \ {c} : cmd[d].at = "none"
    BY <1>9 DEF Open
  <2>2. \A d \in Commands \ {c} : cmd'[d].at = "none" /\ cmd'[d].pc \notin Writing
    BY <2>1, <1>5 DEF IInv, WritersHold
  <2>3. tree'[Manifest] \notin {Empty, Mixed}
    BY <2>1, <1>6 DEF IInv, AloneInv, Alone
  <2> QED
    BY <2>2, <2>3, <1>5, <1>6 DEF Alone, Writing
<1> QED
  BY <1>7, <1>8, <1>9 DEF IInv, AloneInv

(* A lone command writes the whole list into an empty file.                *)
LEMMA WriteKeeps ==
    ASSUME IInv, NEW c \in Commands, Write(c)
    PROVE  IInv'
<1> DEFINE s == [cmd[c] EXCEPT !.pc = "replace"]
           states == [cmd EXCEPT ![c] = s]
<1>1. s \in State /\ s.pc = "replace" /\ s.at = cmd[c].at
  BY DEF State, Steps, IInv, TypeInv
<1>2. [cmd EXCEPT ![c].pc = "replace"] = states
  BY DEF IInv, TypeInv
<1> HIDE DEF s
<1>3. /\ states \in [Commands -> State]
      /\ \A d \in Commands : states[d] = IF d = c THEN s ELSE cmd[d]
  BY <1>1 DEF IInv, TypeInv
<1>4. cmd' = Disturbing(states, c)
  BY <1>2 DEF Write
<1> HIDE DEF states
<1>5. /\ cmd' \in [Commands -> State]
      /\ cmd'[c].pc = "replace"
      /\ \A d \in Commands : cmd'[d].at = cmd[d].at
      /\ \A d \in Commands \ {c} : cmd'[d].pc = cmd[d].pc
  BY <1>1, <1>3, <1>4, DisturbingMovesNobody
<1>6. tree' = [p \in Paths |-> tree'[p]]
  BY DEF Write, IInv, TypeInv
<1>7. TypeInv'
  BY <1>5, <1>6 DEF Write, IInv, TypeInv
<1>8. WritersHold'
  BY <1>5 DEF IInv, WritersHold, Write, Writing
<1>9. ASSUME ~overlapped' PROVE Alone'
  <2>1. Alone /\ cmd[c].pc = "write"
    BY <1>9 DEF Write, IInv, AloneInv
  <2>2. cmd[c].at = "temporary" /\ tree[Temporary] = Empty
    BY <2>1 DEF Alone, IInv, WritersHold, Writing
  <2>3. \A d \in Commands \ {c} : cmd[d].at = "none" /\ cmd[d].pc \notin Writing
    BY <2>1, <2>2 DEF Alone, IInv, WritersHold
  <2>4. tree' = [tree EXCEPT ![Temporary] = ManifestOf(cmd[c].listing)]
    BY <2>2 DEF Write, Written
  <2>5. /\ tree'[Manifest] = tree[Manifest]
        /\ tree'[Temporary] = ManifestOf(cmd[c].listing)
    BY <2>4, NamesDiffer DEF IInv, TypeInv
  <2>6. tree'[Temporary] \notin {Empty, Mixed}
    BY <2>5, ListsAreWhole
  <2> QED
    BY <2>1, <2>2, <2>3, <2>5, <2>6, <1>5 DEF Alone, Writing
<1> QED
  BY <1>7, <1>8, <1>9 DEF IInv, AloneInv

(* What replaces the manifest is whole, or two commands wrote it.          *)
LEMMA ReplaceKeeps ==
    ASSUME IInv, NEW c \in Commands, Replace(c)
    PROVE  IInv'
<1>1. CASE tree[Temporary] = Absent
  BY <1>1, Returning DEF Replace, Exits
<1>2. CASE tree[Temporary] # Absent
  <2> DEFINE exit == WroteExit(c)
             states == [d \in Commands |->
                        IF d = c THEN Idle(exit) ELSE [cmd[d] EXCEPT !.at = Moved(@)]]
  <2>1. Idle(exit) \in State /\ Idle(exit).pc = "idle" /\ Idle(exit).at = "none"
    BY IdleIsState DEF WroteExit, Exits
  <2>2. ASSUME NEW d \in Commands
        PROVE  /\ [cmd[d] EXCEPT !.at = Moved(@)] \in State
               /\ [cmd[d] EXCEPT !.at = Moved(@)].pc = cmd[d].pc
               /\ [cmd[d] EXCEPT !.at = Moved(@)].at = Moved(cmd[d].at)
    <3>1. cmd[d] \in State /\ Moved(cmd[d].at) \in Places
      BY DEF IInv, TypeInv, State, Moved, Places
    <3> QED
      BY <3>1 DEF State
  <2>3. /\ tree' = [tree EXCEPT ![Manifest] = tree[Temporary], ![Temporary] = Absent]
        /\ cmd' = Disturbing(states, c)
        /\ overlapped' = (/\ overlapped
                          /\ \/ tree[Temporary] \in {Empty, Mixed}
                             \/ \E d \in Commands \ {c} : cmd[d].at # "none")
    BY <1>2 DEF Replace
  <2> HIDE DEF exit
  <2>4. /\ states \in [Commands -> State]
        /\ states[c].pc = "idle" /\ states[c].at = "none"
        /\ \A d \in Commands \ {c} : /\ states[d].pc = cmd[d].pc
                                      /\ states[d].at = Moved(cmd[d].at)
    BY <2>1, <2>2
  <2> HIDE DEF states
  <2>5. /\ cmd' \in [Commands -> State]
        /\ cmd'[c].pc = "idle" /\ cmd'[c].at = "none"
        /\ \A d \in Commands \ {c} : /\ cmd'[d].pc = cmd[d].pc
                                      /\ cmd'[d].at = Moved(cmd[d].at)
    BY <2>3, <2>4, DisturbingMovesNobody
  <2>6. /\ tree' = [p \in Paths |-> tree'[p]]
        /\ tree'[Manifest] = tree[Temporary]
    BY <2>3, NamesDiffer DEF IInv, TypeInv
  <2>7. TypeInv'
    BY <2>5, <2>6 DEF Replace, IInv, TypeInv
  <2>8. WritersHold'
    <3>1. \A at : at # "none" => Moved(at) # "none"
      BY DEF Moved
    <3> QED
      BY <3>1, <2>5 DEF IInv, WritersHold, Writing
  <2>9. ASSUME ~overlapped' PROVE Alone'
    <3>1. \A d \in Commands \ {c} : cmd[d].at = "none"
      <4>1. CASE overlapped
        BY <4>1, <2>9, <2>3
      <4>2. CASE ~overlapped
        <5>1. Alone /\ cmd[c].pc = "replace"
          BY <4>2 DEF IInv, AloneInv, Replace
        <5> QED
          BY <5>1 DEF Alone, IInv, WritersHold, Writing
      <4> QED
        BY <4>1, <4>2
    <3>2. tree[Temporary] \notin {Empty, Mixed}
      <4>1. CASE overlapped
        BY <4>1, <2>9, <2>3
      <4>2. CASE ~overlapped
        BY <4>2 DEF IInv, AloneInv, Alone, Replace
      <4> QED
        BY <4>1, <4>2
    <3>3. \A d \in Commands : cmd'[d].at = "none" /\ cmd'[d].pc \notin Writing
      BY <3>1, <2>5 DEF Moved, IInv, WritersHold, Writing
    <3> QED
      BY <3>2, <3>3, <2>6 DEF Alone, Writing
  <2> QED
    BY <2>7, <2>8, <2>9 DEF IInv, AloneInv
<1> QED
  BY <1>1, <1>2

-----------------------------------------------------------------------------
LEMMA InitIInv == Init => IInv
<1> SUFFICES ASSUME Init PROVE IInv
  OBVIOUS
<1>1. cmd = [c \in Commands |-> Idle("none")]
  BY DEF Init
<1>2. /\ cmd \in [Commands -> State]
      /\ \A c \in Commands : cmd[c].pc = "idle" /\ cmd[c].at = "none"
  BY <1>1, IdleIsState DEF Exits
<1>3. tree = [p \in Paths |-> Absent]
  BY DEF Init
<1>4. tree[Manifest] \notin {Empty, Mixed}
  BY <1>3, NamesDiffer DEF Absent, Empty, Mixed
<1>5. TypeInv
  BY <1>2, <1>3, TreeAssumption DEF Init, TypeInv
<1>6. WritersHold /\ Alone
  BY <1>2, <1>4 DEF WritersHold, Alone, Writing
<1> QED
  BY <1>5, <1>6 DEF IInv, AloneInv

LEMMA StepKeeps == IInv /\ [Next]_vars => IInv'
<1> SUFFICES ASSUME IInv, [Next]_vars PROVE IInv'
  OBVIOUS
<1>1. CASE Commit \/ \E p \in Sources : Edit(p)
  BY <1>1, DevelopersKeep
<1>2. ASSUME NEW c \in Commands, Start(c) \/ Command(c) PROVE IInv'
  BY <1>2, StartKeeps, TakeForPlainKeeps, ReadHeadKeeps, ReadStatusKeeps, ReadFilesKeeps, EndingsKeep,
     CompareKeeps, OpenKeeps, WriteKeeps, ReplaceKeeps DEF Command
<1>3. CASE UNCHANGED vars
  BY <1>3 DEF vars, IInv, TypeInv, WritersHold, AloneInv, Alone
<1> QED
  BY <1>1, <1>2, <1>3 DEF Next

(* Whoever reads the manifest, after any failure, kill or full disk and    *)
(* among any number of commands, finds none or a whole list, unless two    *)
(* commands had the temporary file of write_repository_manifest open at    *)
(* once, and none has replaced the manifest alone since.                   *)
THEOREM WholeManifest == Spec => []TornOnlyByOverlap
<1>1. IInv => TornOnlyByOverlap
  BY DEF IInv, AloneInv, Alone, TornOnlyByOverlap
<1> QED
  BY <1>1, InitIInv, StepKeeps, PTL DEF Spec

-----------------------------------------------------------------------------
(***************************************************************************)
(* Proofs about WorkingTree: what a command concludes from the answers git *)
(* gave it, one after another, is true of the repository at the end, for   *)
(* every command that nothing disturbed.  SeenInv carries the answers      *)
(* along: what an undisturbed command was told is still so; KnowsInv is    *)
(* what a writer's own list and file are worth on the way to its end.      *)
(***************************************************************************)

Again == {"status again", "files again", "verdict"}

Seen(s) ==
    /\ s.kind = "metadata" /\ s.pc # "head" => git
    /\ s.kind = "metadata" /\ s.pc # "files again" => ~s.plain
    /\ s.kind \notin Writers /\ s.pc # "head" /\ ~s.plain => s.revision = head
    /\ s.pc = "files" /\ s.kind \notin Writers /\ ~s.plain => s.dirty = Dirty
    /\ s.pc = "files" /\ s.kind = "snapshot" /\ ~s.plain => s.listing = Untracked
    /\ s.pc \in Again => s.kind = "metadata" /\ s.revision = head /\ tree = committed
    /\ s.pc = "files again" /\ ~s.plain => s.listing = {}
    /\ s.pc = "verdict" => s.listing = Tracked

Heedless(s) == s.pc = "idle" \/ s.disturbed

SeenInv == \A c \in Commands : Heedless(cmd[c]) \/ Seen(cmd[c])

Repository == <<git, untracked, head, committed, tree>>

-----------------------------------------------------------------------------
(* A tree that is the commit has no untracked file.                        *)
LEMMA CleanTree ==
    ASSUME tree = committed
    PROVE  Untracked = {} /\ Existing = Tracked
BY DEF Untracked, Existing, Tracked

(* A step that changes the repository disturbs every other command.        *)
LEMMA OthersAreDisturbed ==
    ASSUME NEW states \in [Commands -> State], NEW c
    PROVE  /\ c \in Commands => Disturbing(states, c)[c] = states[c]
           /\ \A d \in Commands : d # c => Heedless(Disturbing(states, c)[d])
<1>1. ASSUME NEW d \in Commands
      PROVE  Disturbing(states, c)[d] = IF d = c \/ states[d].pc = "idle" THEN states[d]
                                        ELSE [states[d] EXCEPT !.disturbed = TRUE]
  BY DEF Disturbing
<1>2. ASSUME NEW d \in Commands PROVE [states[d] EXCEPT !.disturbed = TRUE].disturbed
  BY DEF State
<1> QED
  BY <1>1, <1>2 DEF Heedless

(* The commands that have not moved still know what they knew.             *)
LEMMA SeenByAll ==
    ASSUME SeenInv, NEW c \in Commands,
           Heedless(cmd[c])' \/ Seen(cmd[c])',
           \A d \in Commands \ {c} :
              \/ Heedless(cmd[d])'
              \/ cmd'[d] = cmd[d] /\ UNCHANGED Repository
    PROVE  SeenInv'
<1>1. ASSUME NEW d \in Commands, d # c, cmd'[d] = cmd[d], UNCHANGED Repository
      PROVE  Heedless(cmd[d])' \/ Seen(cmd[d])'
  BY <1>1 DEF SeenInv, Heedless, Seen, Repository, Dirty, Untracked, Existing, Tracked
<1> QED
  BY <1>1 DEF SeenInv

(* One command reads.                                                      *)
LEMMA OneReads ==
    ASSUME TypeInv, SeenInv, UNCHANGED Repository,
           NEW c \in Commands, NEW s \in State, cmd' = [cmd EXCEPT ![c] = s],
           Heedless(s) \/ Seen(s)
    PROVE  SeenInv'
<1>1. cmd'[c] = s /\ \A d \in Commands \ {c} : cmd'[d] = cmd[d]
  BY DEF TypeInv
<1>2. Heedless(cmd[c])' \/ Seen(cmd[c])'
  BY <1>1 DEF Heedless, Seen, Repository, Dirty, Untracked, Existing, Tracked
<1> QED
  BY <1>1, <1>2, SeenByAll

LEMMA OneReturns ==
    ASSUME TypeInv, SeenInv, UNCHANGED Repository,
           NEW c \in Commands, NEW exit \in Exits, Returns(c, exit)
    PROVE  SeenInv'
BY IdleIsState, OneReads DEF Returns, Heedless

-----------------------------------------------------------------------------
(* What each answer of git leaves the command with.                        *)
LEMMA StatusAnswer ==
    ASSUME TypeInv, NEW c \in Commands, NEW next \in Steps
    PROVE  /\ Status(cmd[c], next) \in State
           /\ Status(cmd[c], next).pc = next
           /\ Status(cmd[c], next).kind = cmd[c].kind
           /\ Status(cmd[c], next).revision = cmd[c].revision
           /\ Status(cmd[c], next).disturbed = cmd[c].disturbed
           /\ Status(cmd[c], next).plain = cmd[c].plain
           /\ Status(cmd[c], next).dirty = (Dirty /\ cmd[c].kind \notin Writers)
           /\ Status(cmd[c], next).listing =
                IF untracked \/ cmd[c].kind = "snapshot" THEN Untracked ELSE {}
<1>1. cmd[c] \in State
  BY DEF TypeInv
<1> DEFINE dirty == Dirty /\ cmd[c].kind \notin Writers
           listing == IF untracked \/ cmd[c].kind = "snapshot" THEN Untracked ELSE {}
<1>2. Status(cmd[c], next) = [cmd[c] EXCEPT !.pc = next, !.dirty = dirty, !.listing = listing]
  BY DEF Status
<1>3. Status(cmd[c], next) \in State
  BY StatusIsState
<1> HIDE DEF dirty, listing
<1>4. /\ Status(cmd[c], next).pc = next
      /\ Status(cmd[c], next).kind = cmd[c].kind
      /\ Status(cmd[c], next).revision = cmd[c].revision
      /\ Status(cmd[c], next).disturbed = cmd[c].disturbed
      /\ Status(cmd[c], next).plain = cmd[c].plain
      /\ Status(cmd[c], next).dirty = dirty
      /\ Status(cmd[c], next).listing = listing
  BY <1>1, <1>2 DEF State
<1> QED
  BY <1>3, <1>4 DEF dirty, listing

LEMMA ListedAnswer ==
    ASSUME TypeInv, NEW s \in State
    PROVE  /\ Listed(s) \in State
           /\ Listed(s).kind = s.kind
           /\ Listed(s).revision = s.revision
           /\ Listed(s).disturbed = s.disturbed
           /\ ~Listed(s).plain
           /\ ~s.plain => Listed(s).listing = s.listing \cup Tracked
           /\ s.plain => Listed(s).listing = Existing
<1> DEFINE listing == IF s.plain THEN Existing ELSE s.listing \cup Tracked
<1>1. Listed(s) = [s EXCEPT !.plain = FALSE, !.listing = listing]
  BY DEF Listed
<1>2. Listed(s) \in State
  BY ListedIsState
<1> HIDE DEF listing
<1>3. /\ Listed(s).kind = s.kind /\ Listed(s).revision = s.revision
      /\ Listed(s).disturbed = s.disturbed /\ Listed(s).listing = listing
      /\ ~Listed(s).plain
  BY <1>1 DEF State
<1> QED
  BY <1>2, <1>3 DEF listing

LEMMA StartSees ==
    ASSUME TypeInv, SeenInv, NEW c \in Commands, Start(c)
    PROVE  SeenInv'
<1>1. PICK kind \in Runs[c], revision \in 0 .. MaxHead :
        cmd' = [cmd EXCEPT ![c] =
                    [Idle("none") EXCEPT !.pc = "head",
                                         !.kind = kind,
                                         !.revision = revision,
                                         !.disturbed = /\ kind \in Writers
                                                       /\ untracked
                                                       /\ tree[Temporary] # Absent]]
  BY DEF Start
<1> DEFINE leftover == kind \in Writers /\ untracked /\ tree[Temporary] # Absent
           s == [Idle("none") EXCEPT !.pc = "head", !.kind = kind, !.revision = revision,
                                     !.disturbed = leftover]
<1>2. Idle("none") \in State /\ ~Idle("none").plain
  BY IdleIsState DEF Exits
<1>3. "head" \in Steps /\ kind \in Kinds /\ revision \in 0 .. MaxHead /\ leftover \in BOOLEAN
  BY TreeAssumption DEF Steps, TypeInv
<1> HIDE DEF leftover
<1>4. s \in State /\ s.pc = "head" /\ ~s.plain
  BY <1>2, <1>3 DEF State
<1>5. cmd' = [cmd EXCEPT ![c] = s]
  BY <1>1 DEF leftover
<1> HIDE DEF s
<1>6. Seen(s)
  BY <1>4 DEF Seen, Again
<1> QED
  BY <1>4, <1>5, <1>6, OneReads DEF Start, Repository

LEMMA ReadHeadSees ==
    ASSUME TypeInv, SeenInv, NEW c \in Commands, ReadHead(c)
    PROVE  SeenInv'
<1>1. UNCHANGED Repository /\ cmd[c].pc = "head"
  BY DEF ReadHead, Reads, Repository
<1>2. cmd[c] \in State /\ head \in 0 .. MaxHead /\ 0 \in 0 .. MaxHead
  BY TreeAssumption DEF TypeInv
<1>3. CASE Returns(c, "error")
  BY <1>1, <1>3, OneReturns DEF Exits
<1>4. CASE /\ git
           /\ cmd' = [cmd EXCEPT ![c].pc = "status",
                                 ![c].revision = IF cmd[c].kind \in Writers THEN 0 ELSE head]
  <2> DEFINE revision == IF cmd[c].kind \in Writers THEN 0 ELSE head
             s == [cmd[c] EXCEPT !.pc = "status", !.revision = revision]
  <2>1. revision \in 0 .. MaxHead
    BY <1>2
  <2>2. cmd' = [cmd EXCEPT ![c] = s]
    BY <1>4 DEF TypeInv
  <2> HIDE DEF revision
  <2>3. /\ s \in State /\ s.pc = "status" /\ s.kind = cmd[c].kind
        /\ s.revision = revision /\ s.plain = cmd[c].plain
        /\ s.disturbed = cmd[c].disturbed
    BY <1>2, <2>1 DEF State, Steps
  <2> HIDE DEF s
  <2>4. Heedless(cmd[c]) => Heedless(s)
    BY <1>1, <2>3 DEF Heedless
  <2>5. Seen(cmd[c]) => Seen(s)
    BY <1>1, <1>4, <2>3 DEF Seen, Again, revision
  <2> QED
    BY <1>1, <2>2, <2>3, <2>4, <2>5, OneReads DEF SeenInv
<1> QED
  BY <1>3, <1>4 DEF ReadHead

LEMMA TakeForPlainSees ==
    ASSUME TypeInv, SeenInv, NEW c \in Commands, TakeForPlain(c)
    PROVE  SeenInv'
<1>1. UNCHANGED Repository
  BY DEF TakeForPlain, Reads, Repository
<1>2. PICK s \in State :
        /\ cmd' = [cmd EXCEPT ![c] = s]
        /\ s.kind = cmd[c].kind /\ s.revision = cmd[c].revision /\ s.plain
        /\ cmd[c].disturbed => s.disturbed
        /\ \/ cmd[c].pc = "head" /\ s.pc = "files" /\ s.kind # "metadata"
           \/ cmd[c].pc = "status again" /\ s.pc = "files again"
  BY PlainAnswer
<1>3. Heedless(cmd[c]) => Heedless(s)
  BY <1>2 DEF Heedless
<1>4. Seen(cmd[c]) => Seen(s)
  BY <1>2 DEF Seen, Again
<1> QED
  BY <1>1, <1>2, <1>3, <1>4, OneReads DEF SeenInv

LEMMA ReadStatusSees ==
    ASSUME TypeInv, SeenInv, NEW c \in Commands, ReadStatus(c)
    PROVE  SeenInv'
<1>1. UNCHANGED Repository
  BY DEF ReadStatus, Reads, Repository
<1>2. PICK next \in {"files", "files again"} :
        /\ cmd' = [cmd EXCEPT ![c] = Status(@, next)]
        /\ <<cmd[c].pc, next>> \in {<<"status", "files">>, <<"status again", "files again">>}
  BY DEF ReadStatus, Reads
<1>0. next \in Steps
  BY DEF Steps
<1> DEFINE s == Status(cmd[c], next)
<1>3. /\ s \in State /\ s.pc = next /\ s.kind = cmd[c].kind
      /\ s.revision = cmd[c].revision /\ s.disturbed = cmd[c].disturbed
      /\ s.plain = cmd[c].plain
      /\ s.dirty = (Dirty /\ cmd[c].kind \notin Writers)
      /\ s.listing = IF untracked \/ cmd[c].kind = "snapshot" THEN Untracked ELSE {}
  BY <1>0, StatusAnswer
<1>4. cmd' = [cmd EXCEPT ![c] = s]
  BY <1>2 DEF TypeInv
<1> HIDE DEF s
<1>5. ASSUME Seen(cmd[c]), next = "files" PROVE Seen(s)
  <2>1. /\ s.pc = "files" /\ s.kind = cmd[c].kind /\ s.revision = cmd[c].revision
        /\ s.plain = cmd[c].plain
        /\ s.kind = "snapshot" => s.listing = Untracked
    BY <1>3, <1>5
  <2>2. s.kind \notin Writers => s.dirty = Dirty
    BY <1>3, Zenon DEF Dirty
  <2>3. cmd[c].pc = "status"
    BY <1>2, <1>5
  <2> QED
    BY <2>1, <2>2, <2>3, <1>5 DEF Seen, Again
<1>6. ASSUME Seen(cmd[c]), next = "files again" PROVE Seen(s)
  <2>1. cmd[c].kind = "metadata" /\ tree = committed /\ Untracked = {}
    BY <1>2, <1>6, CleanTree DEF Seen, Again
  <2> QED
    BY <2>1, <1>2, <1>3, <1>6 DEF Seen, Again
<1>7. Heedless(cmd[c]) => Heedless(s)
  BY <1>2, <1>3 DEF Heedless
<1> QED
  BY <1>1, <1>2, <1>3, <1>4, <1>5, <1>6, <1>7, OneReads DEF SeenInv

LEMMA ReadFilesSees ==
    ASSUME TypeInv, SeenInv, NEW c \in Commands, ReadFiles(c)
    PROVE  SeenInv'
<1>1. UNCHANGED Repository /\ cmd[c].pc = "files"
  BY DEF ReadFiles, Reads, Repository
<1>2. cmd[c] \in State
  BY DEF TypeInv
<1>3. CASE \E exit \in {"error", "snapshot"} : Returns(c, exit)
  BY <1>1, <1>3, OneReturns DEF Exits
<1>4. CASE /\ cmd[c].kind = "metadata" /\ ~cmd[c].dirty
           /\ cmd' = [cmd EXCEPT ![c].pc = "status again", ![c].listing = {}]
  <2> DEFINE s == [cmd[c] EXCEPT !.pc = "status again", !.listing = {}]
  <2>1. /\ s \in State /\ s.pc = "status again" /\ s.kind = cmd[c].kind
        /\ s.revision = cmd[c].revision /\ s.disturbed = cmd[c].disturbed
        /\ s.plain = cmd[c].plain
    BY <1>2 DEF State, Steps
  <2>2. cmd' = [cmd EXCEPT ![c] = s]
    BY <1>4 DEF TypeInv
  <2> HIDE DEF s
  <2>3. ASSUME Seen(cmd[c]) PROVE Seen(s)
    <3>1. git /\ ~cmd[c].plain /\ cmd[c].revision = head /\ tree = committed
      BY <1>1, <1>4, <2>3 DEF Seen, Writers, Dirty
    <3> QED
      BY <3>1, <2>1, <1>4 DEF Seen, Again
  <2>4. Heedless(cmd[c]) => Heedless(s)
    BY <1>1, <2>1 DEF Heedless
  <2> QED
    BY <1>1, <2>1, <2>2, <2>3, <2>4, OneReads DEF SeenInv
<1>5. CASE /\ cmd[c].kind \in Writers
           /\ cmd' = [cmd EXCEPT ![c] = [Listed(@) EXCEPT !.pc = "compare"]]
  <2> DEFINE s == [Listed(cmd[c]) EXCEPT !.pc = "compare"]
  <2>1. Listed(cmd[c]) \in State /\ Listed(cmd[c]).kind = cmd[c].kind
    BY <1>2, ListedAnswer
  <2>2. s \in State /\ s.pc = "compare" /\ s.kind = cmd[c].kind
    BY <2>1 DEF State, Steps
  <2>3. cmd' = [cmd EXCEPT ![c] = s]
    BY <1>5 DEF TypeInv
  <2> HIDE DEF s
  <2>4. Seen(s)
    BY <1>5, <2>2 DEF Seen, Again, Writers
  <2> QED
    BY <1>1, <2>2, <2>3, <2>4, OneReads
<1>6. cmd[c].kind \notin {"metadata", "snapshot"} => cmd[c].kind \in Writers
  BY <1>2 DEF State, Kinds, Writers
<1>7. \/ \E exit \in {"error", "snapshot"} : Returns(c, exit)
      \/ /\ cmd[c].kind = "metadata" /\ ~cmd[c].dirty
         /\ cmd' = [cmd EXCEPT ![c].pc = "status again", ![c].listing = {}]
      \/ /\ cmd[c].kind \notin {"metadata", "snapshot"}
         /\ cmd' = [cmd EXCEPT ![c] = [Listed(@) EXCEPT !.pc = "compare"]]
  BY DEF ReadFiles
<1> QED
  BY <1>3, <1>4, <1>5, <1>6, <1>7

LEMMA ReadFilesAgainSees ==
    ASSUME TypeInv, SeenInv, NEW c \in Commands, ReadFilesAgain(c)
    PROVE  SeenInv'
<1>1. UNCHANGED Repository /\ cmd[c].pc = "files again"
  BY DEF ReadFilesAgain, Reads, Repository
<1>2. cmd[c] \in State
  BY DEF TypeInv
<1> DEFINE s == [Listed(cmd[c]) EXCEPT !.pc = "verdict"]
<1>3. /\ Listed(cmd[c]) \in State /\ Listed(cmd[c]).kind = cmd[c].kind
      /\ Listed(cmd[c]).revision = cmd[c].revision
      /\ Listed(cmd[c]).disturbed = cmd[c].disturbed
      /\ ~Listed(cmd[c]).plain
      /\ ~cmd[c].plain => Listed(cmd[c]).listing = cmd[c].listing \cup Tracked
      /\ cmd[c].plain => Listed(cmd[c]).listing = Existing
  BY <1>2, ListedAnswer
<1>4. /\ s \in State /\ s.pc = "verdict" /\ s.kind = cmd[c].kind
      /\ s.revision = cmd[c].revision /\ s.disturbed = cmd[c].disturbed
      /\ ~s.plain
      /\ ~cmd[c].plain => s.listing = cmd[c].listing \cup Tracked
      /\ cmd[c].plain => s.listing = Existing
  BY <1>3 DEF State, Steps
<1>5. cmd' = [cmd EXCEPT ![c] = s]
  BY DEF ReadFilesAgain, TypeInv
<1> HIDE DEF s
<1>6. ASSUME Seen(cmd[c]) PROVE Seen(s)
  <2>1. /\ cmd[c].kind = "metadata" /\ git /\ tree = committed
        /\ cmd[c].revision = head /\ (~cmd[c].plain => cmd[c].listing = {})
    BY <1>1, <1>6 DEF Seen, Again, Writers
  <2>2. s.listing = Tracked
    BY <2>1, <1>4, CleanTree
  <2> QED
    BY <2>1, <2>2, <1>4 DEF Seen, Again
<1>7. Heedless(cmd[c]) => Heedless(s)
  BY <1>1, <1>4 DEF Heedless
<1> QED
  BY <1>1, <1>4, <1>5, <1>6, <1>7, OneReads DEF SeenInv

LEMMA EndingsSee ==
    ASSUME TypeInv, SeenInv, NEW c \in Commands,
           Observe(c) \/ GitFails(c) \/ WriteFails(c) \/ Kill(c)
    PROVE  SeenInv'
<1>1. UNCHANGED Repository
  BY DEF Observe, GitFails, WriteFails, Kill, Reads, Repository
<1>2. \E exit \in Exits : Returns(c, exit)
  BY DEF Observe, GitFails, WriteFails, Kill, Exits
<1> QED
  BY <1>1, <1>2, OneReturns

-----------------------------------------------------------------------------
(* A command that only goes on to write keeps what it knew, whatever it    *)
(* does to the tree.                                                       *)
WritingSteps == {"open", "write", "replace"}

LEMMA WritingIsSeen ==
    ASSUME TypeInv, SeenInv, NEW c \in Commands, UNCHANGED <<git, head>>,
           cmd[c].pc \in {"compare", "open", "write"},
           cmd'[c].pc \in WritingSteps, cmd'[c].kind = cmd[c].kind,
           cmd'[c].revision = cmd[c].revision, cmd'[c].disturbed = cmd[c].disturbed,
           cmd'[c].plain = cmd[c].plain
    PROVE  Heedless(cmd[c])' \/ Seen(cmd[c])'
<1>1. CASE Heedless(cmd[c])
  BY <1>1 DEF Heedless
<1>2. CASE Seen(cmd[c])
  BY <1>2 DEF Seen, Again, WritingSteps
<1> QED
  BY <1>1, <1>2 DEF SeenInv

LEMMA CompareSees ==
    ASSUME TypeInv, SeenInv, NEW c \in Commands, Compare(c)
    PROVE  SeenInv'
<1>1. UNCHANGED Repository /\ cmd[c].pc = "compare"
  BY DEF Compare, Reads, Repository
<1>2. CASE Returns(c, "SUCCESS")
  BY <1>1, <1>2, OneReturns DEF Exits
<1>3. CASE cmd' = [cmd EXCEPT ![c].pc = "open"]
  <2> DEFINE s == [cmd[c] EXCEPT !.pc = "open"]
  <2>1. /\ s.pc = "open" /\ s.kind = cmd[c].kind /\ s.plain = cmd[c].plain
        /\ s.revision = cmd[c].revision /\ s.disturbed = cmd[c].disturbed
    BY DEF State, TypeInv
  <2>2. cmd' = [cmd EXCEPT ![c] = s]
    BY <1>3 DEF TypeInv
  <2> HIDE DEF s
  <2>3. cmd'[c] = s /\ \A d \in Commands \ {c} : cmd'[d] = cmd[d]
    BY <2>2 DEF TypeInv
  <2>4. Heedless(cmd[c])' \/ Seen(cmd[c])'
    BY <2>1, <2>3, <1>1, WritingIsSeen DEF WritingSteps, Repository
  <2> QED
    BY <2>3, <2>4, <1>1, SeenByAll
<1> QED
  BY <1>2, <1>3 DEF Compare

LEMMA OpenSees ==
    ASSUME TypeInv, SeenInv, NEW c \in Commands, Open(c)
    PROVE  SeenInv'
<1> DEFINE s == [cmd[c] EXCEPT !.pc = "write", !.at = "temporary"]
           states == [cmd EXCEPT ![c] = s]
<1>1. /\ s \in State /\ s.pc = "write" /\ s.kind = cmd[c].kind
      /\ s.plain = cmd[c].plain
      /\ s.revision = cmd[c].revision /\ s.disturbed = cmd[c].disturbed
  BY DEF State, Steps, Places, TypeInv
<1>2. [cmd EXCEPT ![c].pc = "write", ![c].at = "temporary"] = states
  BY DEF TypeInv
<1> HIDE DEF s
<1>3. states \in [Commands -> State] /\ states[c] = s
  BY <1>1 DEF TypeInv
<1>4. cmd' = Disturbing(states, c)
  BY <1>2 DEF Open
<1> HIDE DEF states
<1>5. cmd'[c] = s /\ \A d \in Commands \ {c} : Heedless(cmd[d])'
  BY <1>3, <1>4, OthersAreDisturbed DEF Heedless
<1>6. Heedless(cmd[c])' \/ Seen(cmd[c])'
  BY <1>1, <1>5, WritingIsSeen DEF WritingSteps, Open
<1> QED
  BY <1>5, <1>6, SeenByAll

LEMMA WriteSees ==
    ASSUME TypeInv, SeenInv, NEW c \in Commands, Write(c)
    PROVE  SeenInv'
<1> DEFINE s == [cmd[c] EXCEPT !.pc = "replace"]
           states == [cmd EXCEPT ![c] = s]
<1>1. /\ s \in State /\ s.pc = "replace" /\ s.kind = cmd[c].kind
      /\ s.plain = cmd[c].plain
      /\ s.revision = cmd[c].revision /\ s.disturbed = cmd[c].disturbed
  BY DEF State, Steps, TypeInv
<1>2. [cmd EXCEPT ![c].pc = "replace"] = states
  BY DEF TypeInv
<1> HIDE DEF s
<1>3. states \in [Commands -> State] /\ states[c] = s
  BY <1>1 DEF TypeInv
<1>4. cmd' = Disturbing(states, c)
  BY <1>2 DEF Write
<1> HIDE DEF states
<1>5. cmd'[c] = s /\ \A d \in Commands \ {c} : Heedless(cmd[d])'
  BY <1>3, <1>4, OthersAreDisturbed DEF Heedless
<1>6. Heedless(cmd[c])' \/ Seen(cmd[c])'
  BY <1>1, <1>5, WritingIsSeen DEF WritingSteps, Write
<1> QED
  BY <1>5, <1>6, SeenByAll

(* Moving the file into place disturbs everybody else.                     *)
LEMMA ReplaceDisturbs ==
    ASSUME TypeInv, NEW c \in Commands, Replace(c), tree[Temporary] # Absent
    PROVE  /\ cmd'[c].pc = "idle" /\ cmd'[c].exit = WroteExit(c)
           /\ \A d \in Commands : Heedless(cmd[d])'
<1> DEFINE exit == WroteExit(c)
           states == [d \in Commands |->
                        IF d = c THEN Idle(exit) ELSE [cmd[d] EXCEPT !.at = Moved(@)]]
<1>1. exit \in Exits
  BY DEF WroteExit, Exits
<1>2. cmd' = Disturbing(states, c)
  BY DEF Replace
<1> HIDE DEF exit
<1>3. Idle(exit) \in State /\ Idle(exit).pc = "idle" /\ Idle(exit).exit = exit
  BY <1>1, IdleIsState DEF Idle
<1>4. ASSUME NEW d \in Commands
      PROVE  [cmd[d] EXCEPT !.at = Moved(@)] \in State
  <2>1. cmd[d] \in State /\ Moved(cmd[d].at) \in Places
    BY DEF TypeInv, State, Moved, Places
  <2> QED
    BY <2>1 DEF State
<1>5. states \in [Commands -> State] /\ states[c] = Idle(exit)
  BY <1>3, <1>4
<1> HIDE DEF states
<1>6. cmd'[c] = Idle(exit) /\ \A d \in Commands \ {c} : Heedless(cmd[d])'
  BY <1>2, <1>5, OthersAreDisturbed DEF Heedless
<1> QED
  BY <1>3, <1>6 DEF exit, Heedless

LEMMA ReplaceSees ==
    ASSUME TypeInv, SeenInv, NEW c \in Commands, Replace(c)
    PROVE  SeenInv'
<1>1. CASE tree[Temporary] = Absent
  <2>1. Returns(c, "INVALID_ARGUMENTS") /\ UNCHANGED Repository
    BY <1>1 DEF Replace, Repository
  <2> QED
    BY <2>1, OneReturns DEF Exits
<1>2. CASE tree[Temporary] # Absent
  BY <1>2, ReplaceDisturbs DEF SeenInv
<1> QED
  BY <1>1, <1>2

LEMMA DevelopersSee ==
    ASSUME TypeInv, SeenInv, Commit \/ \E p \in Sources : Edit(p)
    PROVE  SeenInv'
<1>1. cmd' = Disturbing(cmd, "developer")
  BY DEF Commit, Edit, Everybody
<1>2. \A d \in Commands : Heedless(Disturbing(cmd, "developer")[d])
  BY TreeAssumption, OthersAreDisturbed DEF TypeInv
<1> QED
  BY <1>1, <1>2 DEF SeenInv, Heedless

LEMMA StepSees == IInv /\ SeenInv /\ [Next]_vars => SeenInv'
<1> SUFFICES ASSUME TypeInv, SeenInv, [Next]_vars PROVE SeenInv'
  BY DEF IInv
<1>1. CASE Commit \/ \E p \in Sources : Edit(p)
  BY <1>1, DevelopersSee
<1>2. ASSUME NEW c \in Commands, Start(c) \/ Command(c) PROVE SeenInv'
  BY <1>2, StartSees, TakeForPlainSees, ReadHeadSees, ReadStatusSees, ReadFilesSees, ReadFilesAgainSees,
     EndingsSee, CompareSees, OpenSees, WriteSees, ReplaceSees DEF Command
<1>3. CASE UNCHANGED vars
  BY <1>3 DEF vars, SeenInv, Heedless, Seen, Dirty, Untracked, Existing, Tracked
<1> QED
  BY <1>1, <1>2, <1>3 DEF Next

LEMMA InitSees == Init => SeenInv
BY IdleIsState DEF Init, SeenInv, Heedless, Exits

(* What an undisturbed command was told is still so, in every behaviour.   *)
THEOREM InspectionInvariant == Spec => [](IInv /\ SeenInv)
BY InitIInv, StepKeeps, InitSees, StepSees, PTL DEF Spec

-----------------------------------------------------------------------------
(* What a writer knows: until it opens the temporary file its list is the  *)
(* one a second command would make, and from then on all but that file.    *)
Before == {"head", "status", "files", "compare", "open"}

Knows(s) ==
    /\ s.pc \in Before /\ s.kind \in Writers /\ untracked => tree[Temporary] = Absent
    /\ s.pc = "head" /\ s.kind \in Writers => ~s.plain
    /\ s.pc = "status" /\ s.kind \in Writers => ~s.plain /\ git
    /\ s.pc = "files" /\ s.kind \in Writers =>
          \/ s.plain /\ ~git
          \/ /\ ~s.plain /\ git
             /\ s.listing = IF untracked THEN Untracked ELSE {}
    /\ s.pc \in {"compare", "open"} => s.kind \in Writers /\ s.listing = WouldList
    /\ s.pc \in Writing =>
          /\ s.at = "temporary"
          /\ s.listing \ {Manifest} = WouldList \ {Manifest, Temporary}
    /\ s.pc = "write" => tree[Temporary] = Empty
    /\ s.pc = "replace" => tree[Temporary] = ManifestOf(s.listing)

(* The temporary file is never committed, and outside git all is listed.   *)
NotCommitted == committed[Temporary] = Absent /\ (git \/ untracked)

KnowsInv == NotCommitted /\ \A c \in Commands : Heedless(cmd[c]) \/ Knows(cmd[c])

LEMMA KnownByAll ==
    ASSUME KnowsInv, NotCommitted', NEW c \in Commands,
           Heedless(cmd[c])' \/ Knows(cmd[c])',
           \A d \in Commands \ {c} :
              \/ Heedless(cmd[d])'
              \/ cmd'[d] = cmd[d] /\ UNCHANGED Repository
    PROVE  KnowsInv'
<1>1. ASSUME NEW d \in Commands, d # c, cmd'[d] = cmd[d], UNCHANGED Repository
      PROVE  Heedless(cmd[d])' \/ Knows(cmd[d])'
  <2>1. CASE Heedless(cmd[d])
    BY <1>1, <2>1 DEF Heedless
  <2>2. CASE Knows(cmd[d])
    <3>1. WouldList' = WouldList /\ Untracked' = Untracked
      BY <1>1 DEF Repository, WouldList, Untracked, Existing, Tracked
    <3>2. /\ UNCHANGED <<git, untracked, tree>>
          /\ ManifestOf(cmd[d].listing)' = ManifestOf(cmd[d].listing)
      BY <1>1 DEF Repository, ManifestOf, Rendered
    <3> QED
      BY <1>1, <2>2, <3>1, <3>2 DEF Knows
  <2> QED
    BY <2>1, <2>2 DEF KnowsInv
<1> QED
  BY <1>1 DEF KnowsInv

LEMMA OneKnows ==
    ASSUME TypeInv, KnowsInv, UNCHANGED Repository,
           NEW c \in Commands, NEW s \in State, cmd' = [cmd EXCEPT ![c] = s],
           Heedless(s) \/ Knows(s)
    PROVE  KnowsInv'
<1>1. cmd'[c] = s /\ \A d \in Commands \ {c} : cmd'[d] = cmd[d]
  BY DEF TypeInv
<1>2. Heedless(cmd[c])' \/ Knows(cmd[c])'
  BY <1>1 DEF Heedless, Knows, Repository, WouldList, Untracked, Existing, Tracked
<1>3. NotCommitted'
  BY DEF KnowsInv, NotCommitted, Repository
<1> QED
  BY <1>1, <1>2, <1>3, KnownByAll

LEMMA OneEnds ==
    ASSUME TypeInv, KnowsInv, UNCHANGED Repository,
           NEW c \in Commands, NEW exit \in Exits, Returns(c, exit)
    PROVE  KnowsInv'
BY IdleIsState, OneKnows DEF Returns, Heedless

(* All but the two files is listed as before.                              *)
LEMMA OthersListed ==
    ASSUME UNCHANGED <<git, untracked, committed>>,
           \A p \in Paths \ {Manifest, Temporary} : tree'[p] = tree[p]
    PROVE  WouldList' \ {Manifest, Temporary} = WouldList \ {Manifest, Temporary}
BY DEF WouldList, Untracked, Existing, Tracked

(* A command that found no temporary file does not list it.                *)
LEMMA TemporaryUnlisted ==
    ASSUME NotCommitted, untracked => tree[Temporary] = Absent
    PROVE  Temporary \notin WouldList
BY DEF NotCommitted, WouldList, Untracked, Existing, Tracked

LEMMA StartKnows ==
    ASSUME TypeInv, KnowsInv, NEW c \in Commands, Start(c)
    PROVE  KnowsInv'
<1>1. PICK kind \in Runs[c], revision \in 0 .. MaxHead :
        cmd' = [cmd EXCEPT ![c] =
                    [Idle("none") EXCEPT !.pc = "head",
                                         !.kind = kind,
                                         !.revision = revision,
                                         !.disturbed = /\ kind \in Writers
                                                       /\ untracked
                                                       /\ tree[Temporary] # Absent]]
  BY DEF Start
<1> DEFINE leftover == kind \in Writers /\ untracked /\ tree[Temporary] # Absent
           s == [Idle("none") EXCEPT !.pc = "head", !.kind = kind, !.revision = revision,
                                     !.disturbed = leftover]
<1>2. Idle("none") \in State /\ ~Idle("none").plain
  BY IdleIsState DEF Exits
<1>3. "head" \in Steps /\ kind \in Kinds /\ revision \in 0 .. MaxHead /\ leftover \in BOOLEAN
  BY TreeAssumption DEF Steps, TypeInv
<1>4. kind \in Writers /\ untracked /\ ~leftover => tree[Temporary] = Absent
  OBVIOUS
<1> HIDE DEF leftover
<1>5. s \in State /\ s.pc = "head" /\ s.kind = kind /\ ~s.plain /\ s.disturbed = leftover
  BY <1>2, <1>3 DEF State
<1>6. cmd' = [cmd EXCEPT ![c] = s]
  BY <1>1 DEF leftover
<1> HIDE DEF s
<1>7. Heedless(s) \/ Knows(s)
  BY <1>4, <1>5 DEF Heedless, Knows, Writing
<1> QED
  BY <1>5, <1>6, <1>7, OneKnows DEF Start, Repository

LEMMA ReadHeadKnows ==
    ASSUME TypeInv, KnowsInv, NEW c \in Commands, ReadHead(c)
    PROVE  KnowsInv'
<1>1. UNCHANGED Repository /\ cmd[c].pc = "head"
  BY DEF ReadHead, Reads, Repository
<1>2. cmd[c] \in State /\ head \in 0 .. MaxHead /\ 0 \in 0 .. MaxHead
  BY TreeAssumption DEF TypeInv
<1>3. CASE Returns(c, "error")
  BY <1>1, <1>3, OneEnds DEF Exits
<1>4. CASE /\ git
           /\ cmd' = [cmd EXCEPT ![c].pc = "status",
                                 ![c].revision = IF cmd[c].kind \in Writers THEN 0 ELSE head]
  <2> DEFINE revision == IF cmd[c].kind \in Writers THEN 0 ELSE head
             s == [cmd[c] EXCEPT !.pc = "status", !.revision = revision]
  <2>1. revision \in 0 .. MaxHead
    BY <1>2
  <2>2. cmd' = [cmd EXCEPT ![c] = s]
    BY <1>4 DEF TypeInv
  <2> HIDE DEF revision
  <2>3. /\ s \in State /\ s.pc = "status" /\ s.kind = cmd[c].kind
        /\ s.plain = cmd[c].plain /\ s.disturbed = cmd[c].disturbed
    BY <1>2, <2>1 DEF State, Steps
  <2> HIDE DEF s
  <2>4. Heedless(s) \/ Knows(s)
    BY <1>1, <1>4, <2>3 DEF KnowsInv, Heedless, Knows, Before, Writing
  <2> QED
    BY <1>1, <2>2, <2>3, <2>4, OneKnows
<1> QED
  BY <1>3, <1>4 DEF ReadHead

(* A writer that takes a repository for a plain directory is disturbed.    *)
LEMMA TakeForPlainKnows ==
    ASSUME TypeInv, KnowsInv, NEW c \in Commands, TakeForPlain(c)
    PROVE  KnowsInv'
<1>1. UNCHANGED Repository
  BY DEF TakeForPlain, Reads, Repository
<1>2. PICK s \in State :
        /\ cmd' = [cmd EXCEPT ![c] = s]
        /\ s.kind = cmd[c].kind /\ s.plain
        /\ cmd[c].disturbed => s.disturbed
        /\ \/ /\ cmd[c].pc = "head" /\ s.pc = "files"
              /\ git /\ s.kind \in Writers => s.disturbed
           \/ cmd[c].pc = "status again" /\ s.pc = "files again"
  BY PlainAnswer
<1>3. Heedless(s) \/ Knows(s)
  BY <1>2 DEF KnowsInv, Heedless, Knows, Before, Writing
<1> QED
  BY <1>1, <1>2, <1>3, OneKnows

LEMMA ReadStatusKnows ==
    ASSUME TypeInv, KnowsInv, NEW c \in Commands, ReadStatus(c)
    PROVE  KnowsInv'
<1>1. UNCHANGED Repository
  BY DEF ReadStatus, Reads, Repository
<1>2. PICK next \in {"files", "files again"} :
        /\ cmd' = [cmd EXCEPT ![c] = Status(@, next)]
        /\ <<cmd[c].pc, next>> \in {<<"status", "files">>, <<"status again", "files again">>}
  BY DEF ReadStatus, Reads
<1>3. next \in Steps
  BY DEF Steps
<1> DEFINE s == Status(cmd[c], next)
<1>4. /\ s \in State /\ s.pc = next /\ s.kind = cmd[c].kind
      /\ s.plain = cmd[c].plain /\ s.disturbed = cmd[c].disturbed
      /\ s.listing = IF untracked \/ cmd[c].kind = "snapshot" THEN Untracked ELSE {}
  BY <1>3, StatusAnswer
<1>5. cmd' = [cmd EXCEPT ![c] = s]
  BY <1>2 DEF TypeInv
<1> HIDE DEF s
<1>6. cmd[c].pc \in {"status", "status again"} /\ (next = "files" => cmd[c].pc = "status")
  BY <1>2
<1>7. Heedless(s) \/ Knows(s)
  BY <1>4, <1>6 DEF KnowsInv, Heedless, Knows, Before, Writing, Writers
<1> QED
  BY <1>1, <1>4, <1>5, <1>7, OneKnows

LEMMA ReadFilesKnows ==
    ASSUME TypeInv, KnowsInv, NEW c \in Commands, ReadFiles(c) \/ ReadFilesAgain(c)
    PROVE  KnowsInv'
<1>1. UNCHANGED Repository /\ cmd[c].pc \in {"files", "files again"}
  BY DEF ReadFiles, ReadFilesAgain, Reads, Repository
<1>2. cmd[c] \in State
  BY DEF TypeInv
<1>3. CASE \E exit \in {"error", "snapshot"} : Returns(c, exit)
  BY <1>1, <1>3, OneEnds DEF Exits
<1>4. CASE cmd' = [cmd EXCEPT ![c].pc = "status again", ![c].listing = {}]
  <2> DEFINE s == [cmd[c] EXCEPT !.pc = "status again", !.listing = {}]
  <2>1. s \in State /\ s.pc = "status again"
    BY <1>2 DEF State, Steps
  <2>2. cmd' = [cmd EXCEPT ![c] = s]
    BY <1>4 DEF TypeInv
  <2> HIDE DEF s
  <2>3. Knows(s)
    BY <2>1 DEF Knows, Before, Writing
  <2> QED
    BY <1>1, <2>1, <2>2, <2>3, OneKnows
<1>5. ASSUME NEW next \in {"compare", "verdict"},
             cmd' = [cmd EXCEPT ![c] = [Listed(@) EXCEPT !.pc = next]],
             next = "compare" => cmd[c].pc = "files" /\ cmd[c].kind \in Writers
      PROVE  KnowsInv'
  <2> DEFINE s == [Listed(cmd[c]) EXCEPT !.pc = next]
  <2>1. /\ Listed(cmd[c]) \in State /\ Listed(cmd[c]).kind = cmd[c].kind
        /\ Listed(cmd[c]).disturbed = cmd[c].disturbed
        /\ ~cmd[c].plain => Listed(cmd[c]).listing = cmd[c].listing \cup Tracked
        /\ cmd[c].plain => Listed(cmd[c]).listing = Existing
    BY <1>2, ListedAnswer
  <2>2. /\ s \in State /\ s.pc = next /\ s.kind = cmd[c].kind
        /\ s.disturbed = cmd[c].disturbed
        /\ ~cmd[c].plain => s.listing = cmd[c].listing \cup Tracked
        /\ cmd[c].plain => s.listing = Existing
    BY <2>1 DEF State, Steps
  <2>3. cmd' = [cmd EXCEPT ![c] = s]
    BY <1>5 DEF TypeInv
  <2> HIDE DEF s
  <2>4. CASE next = "verdict"
    <3>1. Knows(s)
      BY <2>2, <2>4 DEF Knows, Before, Writing
    <3> QED
      BY <1>1, <2>2, <2>3, <3>1, OneKnows
  <2>5. CASE next = "compare"
    <3>1. ASSUME Knows(cmd[c]) PROVE Knows(s)
      <4>1. s.listing = WouldList
        BY <1>5, <2>2, <2>5, <3>1 DEF Knows, WouldList
      <4> QED
        BY <4>1, <1>5, <2>2, <2>5, <3>1 DEF Knows, Before, Writing
    <3>2. Heedless(cmd[c]) => Heedless(s)
      BY <1>1, <2>2 DEF Heedless
    <3> QED
      BY <1>1, <2>2, <2>3, <3>1, <3>2, OneKnows DEF KnowsInv
  <2> QED
    BY <2>4, <2>5
<1>6. cmd[c].kind \notin {"metadata", "snapshot"} => cmd[c].kind \in Writers
  BY <1>2 DEF State, Kinds, Writers
<1>7. \/ \E exit \in {"error", "snapshot"} : Returns(c, exit)
      \/ cmd' = [cmd EXCEPT ![c].pc = "status again", ![c].listing = {}]
      \/ /\ cmd[c].pc = "files" /\ cmd[c].kind \notin {"metadata", "snapshot"}
         /\ cmd' = [cmd EXCEPT ![c] = [Listed(@) EXCEPT !.pc = "compare"]]
      \/ cmd' = [cmd EXCEPT ![c] = [Listed(@) EXCEPT !.pc = "verdict"]]
  BY DEF ReadFiles, ReadFilesAgain, Reads
<1> QED
  BY <1>3, <1>4, <1>5, <1>6, <1>7

LEMMA EndingsKnow ==
    ASSUME TypeInv, KnowsInv, NEW c \in Commands,
           Observe(c) \/ GitFails(c) \/ WriteFails(c) \/ Kill(c)
    PROVE  KnowsInv'
<1>1. UNCHANGED Repository
  BY DEF Observe, GitFails, WriteFails, Kill, Reads, Repository
<1>2. \E exit \in Exits : Returns(c, exit)
  BY DEF Observe, GitFails, WriteFails, Kill, Exits
<1> QED
  BY <1>1, <1>2, OneEnds

LEMMA CompareKnows ==
    ASSUME TypeInv, KnowsInv, NEW c \in Commands, Compare(c)
    PROVE  KnowsInv'
<1>1. UNCHANGED Repository /\ cmd[c].pc = "compare" /\ cmd[c] \in State
  BY DEF Compare, Reads, Repository, TypeInv
<1>2. CASE Returns(c, "SUCCESS")
  BY <1>1, <1>2, OneEnds DEF Exits
<1>3. CASE cmd' = [cmd EXCEPT ![c].pc = "open"]
  <2> DEFINE s == [cmd[c] EXCEPT !.pc = "open"]
  <2>1. /\ s \in State /\ s.pc = "open" /\ s.kind = cmd[c].kind /\ s.listing = cmd[c].listing
        /\ s.disturbed = cmd[c].disturbed
    BY <1>1 DEF State, Steps
  <2>2. cmd' = [cmd EXCEPT ![c] = s]
    BY <1>3 DEF TypeInv
  <2> HIDE DEF s
  <2>3. Heedless(s) \/ Knows(s)
    BY <1>1, <2>1 DEF KnowsInv, Heedless, Knows, Before, Writing
  <2> QED
    BY <1>1, <2>1, <2>2, <2>3, OneKnows
<1> QED
  BY <1>2, <1>3 DEF Compare

LEMMA OpenKnows ==
    ASSUME TypeInv, KnowsInv, NEW c \in Commands, Open(c)
    PROVE  KnowsInv'
<1> DEFINE s == [cmd[c] EXCEPT !.pc = "write", !.at = "temporary"]
           states == [cmd EXCEPT ![c] = s]
<1>1. /\ s \in State /\ s.pc = "write" /\ s.at = "temporary" /\ s.kind = cmd[c].kind
      /\ s.listing = cmd[c].listing /\ s.disturbed = cmd[c].disturbed
  BY DEF State, Steps, Places, TypeInv
<1>2. [cmd EXCEPT ![c].pc = "write", ![c].at = "temporary"] = states
  BY DEF TypeInv
<1> HIDE DEF s
<1>3. states \in [Commands -> State] /\ states[c] = s
  BY <1>1 DEF TypeInv
<1>4. cmd' = Disturbing(states, c)
  BY <1>2 DEF Open
<1> HIDE DEF states
<1>5. cmd'[c] = s /\ \A d \in Commands \ {c} : Heedless(cmd[d])'
  BY <1>3, <1>4, OthersAreDisturbed DEF Heedless
<1>6. /\ tree'[Temporary] = Empty
      /\ \A p \in Paths \ {Manifest, Temporary} : tree'[p] = tree[p]
      /\ UNCHANGED <<git, untracked, committed>>
      /\ cmd[c].pc = "open"
  BY NamesDiffer DEF Open, TypeInv
<1>7. NotCommitted /\ NotCommitted'
  BY <1>6 DEF KnowsInv, NotCommitted
<1>8. ASSUME Knows(cmd[c]) PROVE Knows(cmd[c])'
  <2>1. /\ cmd[c].listing = WouldList
        /\ untracked => tree[Temporary] = Absent
    BY <1>6, <1>8 DEF Knows, Before
  <2>2. cmd[c].listing \ {Manifest} = WouldList' \ {Manifest, Temporary}
    <3>1. Temporary \notin WouldList
      BY <2>1, <1>7, TemporaryUnlisted
    <3>2. WouldList' \ {Manifest, Temporary} = WouldList \ {Manifest, Temporary}
      BY <1>6, OthersListed
    <3> QED
      BY <3>1, <3>2, <2>1
  <2> QED
    BY <2>2, <1>1, <1>5, <1>6 DEF Knows, Before, Writing
<1>9. Heedless(cmd[c]) => Heedless(cmd[c])'
  BY <1>1, <1>5, <1>6 DEF Heedless
<1> QED
  BY <1>5, <1>7, <1>8, <1>9, KnownByAll DEF KnowsInv

LEMMA WriteKnows ==
    ASSUME TypeInv, KnowsInv, NEW c \in Commands, Write(c)
    PROVE  KnowsInv'
<1> DEFINE s == [cmd[c] EXCEPT !.pc = "replace"]
           states == [cmd EXCEPT ![c] = s]
<1>1. /\ s \in State /\ s.pc = "replace" /\ s.at = cmd[c].at /\ s.kind = cmd[c].kind
      /\ s.listing = cmd[c].listing /\ s.disturbed = cmd[c].disturbed
  BY DEF State, Steps, TypeInv
<1>2. [cmd EXCEPT ![c].pc = "replace"] = states
  BY DEF TypeInv
<1> HIDE DEF s
<1>3. states \in [Commands -> State] /\ states[c] = s
  BY <1>1 DEF TypeInv
<1>4. cmd' = Disturbing(states, c)
  BY <1>2 DEF Write
<1> HIDE DEF states
<1>5. cmd'[c] = s /\ \A d \in Commands \ {c} : Heedless(cmd[d])'
  BY <1>3, <1>4, OthersAreDisturbed DEF Heedless
<1>6. UNCHANGED <<git, untracked, committed>> /\ cmd[c].pc = "write"
  BY DEF Write
<1>7. NotCommitted'
  BY <1>6 DEF KnowsInv, NotCommitted
<1>8. ASSUME Knows(cmd[c]) PROVE Knows(cmd[c])'
  <2>1. /\ cmd[c].at = "temporary" /\ tree[Temporary] = Empty
        /\ cmd[c].listing \ {Manifest} = WouldList \ {Manifest, Temporary}
    BY <1>6, <1>8 DEF Knows, Writing
  <2>2. \E content \in Written(tree[Temporary], ManifestOf(cmd[c].listing)) :
            tree' = [tree EXCEPT ![Temporary] = content]
    BY <2>1 DEF Write
  <2>3. tree' = [tree EXCEPT ![Temporary] = ManifestOf(cmd[c].listing)]
    BY <2>1, <2>2 DEF Written
  <2>4. /\ tree'[Temporary] = ManifestOf(cmd[c].listing)
        /\ \A p \in Paths \ {Manifest, Temporary} : tree'[p] = tree[p]
    BY <2>3, NamesDiffer DEF TypeInv
  <2>5. WouldList' \ {Manifest, Temporary} = WouldList \ {Manifest, Temporary}
    BY <1>6, <2>4, OthersListed
  <2>6. (ManifestOf(cmd[c].listing) = tree[Temporary])' 
    BY <2>4, <1>1, <1>5 DEF ManifestOf, Rendered
  <2> QED
    BY <2>1, <2>5, <2>6, <1>1, <1>5 DEF Knows, Before, Writing
<1>9. Heedless(cmd[c]) => Heedless(cmd[c])'
  BY <1>1, <1>5, <1>6 DEF Heedless
<1> QED
  BY <1>5, <1>7, <1>8, <1>9, KnownByAll DEF KnowsInv

-----------------------------------------------------------------------------
(* The steps of others end no command.                                     *)
LEMMA OthersDoNotEndIt ==
    ASSUME TypeInv, NEW c \in Commands, NEW d \in Commands, d # c,
           Start(d) \/ Command(d)
    PROVE  cmd'[c].pc = cmd[c].pc
<1>1. CASE Start(d)
  BY <1>1 DEF Start, TypeInv
<1>2. CASE TakeForPlain(d) \/ ReadHead(d) \/ ReadStatus(d)
  BY <1>2 DEF TakeForPlain, ReadHead, ReadStatus, Returns, TypeInv
<1>3. CASE ReadFiles(d)
  <2>1. \/ \E exit \in {"error", "snapshot"} : Returns(d, exit)
        \/ cmd' = [cmd EXCEPT ![d].pc = "status again", ![d].listing = {}]
        \/ cmd' = [cmd EXCEPT ![d] = [Listed(@) EXCEPT !.pc = "compare"]]
    BY <1>3 DEF ReadFiles
  <2> QED
    BY <2>1 DEF Returns, TypeInv
<1>4. CASE ReadFilesAgain(d)
  BY <1>4 DEF ReadFilesAgain, TypeInv
<1>5. CASE Observe(d) \/ GitFails(d) \/ WriteFails(d) \/ Kill(d)
  <2>1. \E exit \in Exits : Returns(d, exit)
    BY <1>5 DEF Observe, GitFails, WriteFails, Kill, Exits
  <2> QED
    BY <2>1 DEF Returns, TypeInv
<1>6. CASE Compare(d)
  BY <1>6 DEF Compare, Returns, TypeInv
<1>7. CASE Open(d) \/ Write(d)
  <2>1. PICK states \in {[cmd EXCEPT ![d].pc = "write", ![d].at = "temporary"],
                         [cmd EXCEPT ![d].pc = "replace"]} :
            cmd' = Disturbing(states, d)
    BY <1>7 DEF Open, Write
  <2>2. states \in [Commands -> State] /\ states[c] = cmd[c]
    <3>1. cmd[d] \in State
      BY DEF TypeInv
    <3>2. /\ [cmd[d] EXCEPT !.pc = "write", !.at = "temporary"] \in State
          /\ [cmd[d] EXCEPT !.pc = "replace"] \in State
      BY <3>1 DEF State, Steps, Places
    <3> QED
      BY <3>2 DEF TypeInv
  <2> QED
    BY <2>1, <2>2, DisturbingMovesNobody
<1>8. CASE Replace(d)
  <2>1. CASE tree[Temporary] = Absent
    BY <1>8, <2>1 DEF Replace, Returns, TypeInv
  <2>2. CASE tree[Temporary] # Absent
    <3> DEFINE exit == WroteExit(d)
               states == [e \in Commands |->
                          IF e = d THEN Idle(exit) ELSE [cmd[e] EXCEPT !.at = Moved(@)]]
    <3>1. Idle(exit) \in State
      BY IdleIsState DEF WroteExit, Exits
    <3>2. ASSUME NEW e \in Commands
          PROVE  /\ [cmd[e] EXCEPT !.at = Moved(@)] \in State
                 /\ [cmd[e] EXCEPT !.at = Moved(@)].pc = cmd[e].pc
      <4>1. cmd[e] \in State /\ Moved(cmd[e].at) \in Places
        BY DEF TypeInv, State, Moved, Places
      <4> QED
        BY <4>1 DEF State
    <3>3. cmd' = Disturbing(states, d)
      BY <1>8, <2>2 DEF Replace
    <3> HIDE DEF exit
    <3>4. states \in [Commands -> State] /\ states[c].pc = cmd[c].pc
      BY <3>1, <3>2
    <3> HIDE DEF states
    <3> QED
      BY <3>3, <3>4, DisturbingMovesNobody
  <2> QED
    BY <2>1, <2>2
<1> QED
  BY <1>1, <1>2, <1>3, <1>4, <1>5, <1>6, <1>7, <1>8 DEF Command

LEMMA ReplaceKnows ==
    ASSUME TypeInv, KnowsInv, NEW c \in Commands, Replace(c)
    PROVE  KnowsInv'
<1>1. CASE tree[Temporary] = Absent
  <2>1. Returns(c, "INVALID_ARGUMENTS") /\ UNCHANGED Repository
    BY <1>1 DEF Replace, Repository
  <2> QED
    BY <2>1, OneEnds DEF Exits
<1>2. CASE tree[Temporary] # Absent
  <2>1. \A d \in Commands : Heedless(cmd[d])'
    BY <1>2, ReplaceDisturbs
  <2>2. NotCommitted'
    BY DEF Replace, KnowsInv, NotCommitted
  <2> QED
    BY <2>1, <2>2 DEF KnowsInv
<1> QED
  BY <1>1, <1>2

LEMMA DevelopersKnow ==
    ASSUME TypeInv, KnowsInv, Commit \/ \E p \in Sources : Edit(p)
    PROVE  KnowsInv'
<1>1. cmd' = Disturbing(cmd, "developer")
  BY DEF Commit, Edit, Everybody
<1>2. \A d \in Commands : Heedless(Disturbing(cmd, "developer")[d])
  BY TreeAssumption, OthersAreDisturbed DEF TypeInv
<1>3. NotCommitted'
  <2>1. CASE Commit
    <3>1. git' = git /\ committed'[Temporary] = Absent
      BY <2>1, NamesDiffer DEF Commit, TypeInv
    <3> QED
      BY <2>1, <3>1 DEF Commit, NotCommitted
  <2>2. CASE \E p \in Sources : Edit(p)
    BY <2>2 DEF Edit, KnowsInv, NotCommitted
  <2> QED
    BY <2>1, <2>2
<1> QED
  BY <1>1, <1>2, <1>3 DEF KnowsInv, Heedless

LEMMA StepKnows == IInv /\ KnowsInv /\ [Next]_vars => KnowsInv'
<1> SUFFICES ASSUME TypeInv, KnowsInv, [Next]_vars PROVE KnowsInv'
  BY DEF IInv
<1>1. CASE Commit \/ \E p \in Sources : Edit(p)
  BY <1>1, DevelopersKnow
<1>2. ASSUME NEW c \in Commands, Start(c) \/ Command(c) PROVE KnowsInv'
  BY <1>2, StartKnows, TakeForPlainKnows, ReadHeadKnows, ReadStatusKnows, ReadFilesKnows, EndingsKnow,
     CompareKnows, OpenKnows, WriteKnows, ReplaceKnows DEF Command
<1>3. CASE UNCHANGED vars
  <2>1. UNCHANGED <<git, untracked, tree, cmd>> /\ WouldList' = WouldList
        /\ Untracked' = Untracked /\ NotCommitted'
    BY <1>3 DEF vars, WouldList, Untracked, Existing, Tracked, KnowsInv, NotCommitted
  <2>2. ASSUME NEW c \in Commands PROVE (Heedless(cmd[c]) \/ Knows(cmd[c]))'
    <3>1. ManifestOf(cmd[c].listing)' = ManifestOf(cmd[c].listing)
      BY <2>1 DEF ManifestOf, Rendered
    <3> QED
      BY <2>1, <3>1 DEF KnowsInv, Heedless, Knows
  <2> QED
    BY <2>1, <2>2 DEF KnowsInv
<1> QED
  BY <1>1, <1>2, <1>3 DEF Next

LEMMA InitKnows == Init => KnowsInv
<1> SUFFICES ASSUME Init PROVE KnowsInv
  OBVIOUS
<1>1. NotCommitted
  BY NamesDiffer DEF Init, NotCommitted
<1>2. \A c \in Commands : Heedless(cmd[c])
  BY IdleIsState DEF Init, Heedless, Exits
<1> QED
  BY <1>1, <1>2 DEF KnowsInv

LEMMA WriterInvariant == Spec => [](IInv /\ KnowsInv)
BY InitIInv, StepKeeps, InitKnows, StepKnows, PTL DEF Spec

(* Where a command ends with an answer: the observation says "passed", the *)
(* snapshot is taken, the writer finds its list in place or puts it there. *)
Answers == {"passed", "snapshot", "SUCCESS", "GATE_FAILURE"}

Answer(c) ==
    \/ /\ cmd[c].pc = "verdict"
       /\ cmd'[c].exit = "passed"
       /\ tree[Manifest] = ManifestOf(cmd[c].listing)
    \/ /\ cmd[c].pc = "files"
       /\ cmd[c].kind = "snapshot"
       /\ cmd'[c].exit = "snapshot"
    \/ /\ cmd[c].pc = "compare"
       /\ cmd'[c].exit = "SUCCESS"
       /\ tree[Manifest] = ManifestOf(cmd[c].listing)
       /\ UNCHANGED Repository
    \/ /\ cmd'[c].exit \in {"SUCCESS", "GATE_FAILURE"}
       /\ tree[Temporary] # Absent
       /\ Replace(c)

LEMMA AnswersCome ==
    ASSUME TypeInv, SeenInv, NEW c \in Commands, Start(c) \/ Command(c),
           cmd[c].pc # "idle", cmd'[c].pc = "idle", cmd'[c].exit \in Answers
    PROVE  Answer(c)
<1>1. ASSUME NEW exit \in Exits, Returns(c, exit) PROVE cmd'[c].exit = exit
  BY <1>1 DEF Returns, Idle, TypeInv
<1>2. cmd[c] \in State
  BY DEF TypeInv
<1>3. CASE Start(c)
  BY <1>3 DEF Start
<1>4. CASE ReadHead(c)
  <2>1. CASE Returns(c, "error")
    BY <2>1, <1>1 DEF Exits, Answers
  <2>2. CASE cmd' = [cmd EXCEPT ![c].pc = "status",
                                ![c].revision = IF cmd[c].kind \in Writers THEN 0 ELSE head]
    BY <2>2, <1>2 DEF TypeInv, State
  <2> QED
    BY <1>4, <2>1, <2>2 DEF ReadHead
<1>5. CASE ReadStatus(c)
  <2>1. PICK next \in {"files", "files again"} : cmd' = [cmd EXCEPT ![c] = Status(@, next)]
    BY <1>5 DEF ReadStatus
  <2>2. cmd'[c] = Status(cmd[c], next)
    BY <2>1 DEF TypeInv
  <2>3. next \in Steps
    BY DEF Steps
  <2>4. Status(cmd[c], next).pc = next
    BY <2>3, StatusAnswer
  <2> QED
    BY <2>2, <2>4
<1>6. CASE ReadFiles(c)
  <2>1. \/ Returns(c, "error")
        \/ cmd[c].kind = "snapshot" /\ Returns(c, "snapshot")
        \/ cmd' = [cmd EXCEPT ![c].pc = "status again", ![c].listing = {}]
        \/ cmd' = [cmd EXCEPT ![c] = [Listed(@) EXCEPT !.pc = "compare"]]
    BY <1>6 DEF ReadFiles
  <2>2. CASE Returns(c, "error")
    BY <2>2, <1>1 DEF Exits, Answers
  <2>3. CASE cmd[c].kind = "snapshot" /\ Returns(c, "snapshot")
    BY <2>3, <1>1, <1>6 DEF Exits, ReadFiles, Reads, Answer
  <2>4. CASE cmd' = [cmd EXCEPT ![c].pc = "status again", ![c].listing = {}]
    BY <2>4, <1>2 DEF TypeInv, State
  <2>5. CASE cmd' = [cmd EXCEPT ![c] = [Listed(@) EXCEPT !.pc = "compare"]]
    BY <2>5, <1>2, ListedAnswer DEF TypeInv, State
  <2> QED
    BY <2>1, <2>2, <2>3, <2>4, <2>5
<1>7. CASE ReadFilesAgain(c)
  BY <1>7, <1>2, ListedAnswer DEF ReadFilesAgain, TypeInv, State
<1>8. CASE Observe(c)
  BY <1>8, <1>1 DEF Observe, Reads, Exits, Answer, Answers
<1>9. CASE GitFails(c) \/ WriteFails(c) \/ Kill(c)
  <2>1. \E exit \in Exits \ Answers : Returns(c, exit)
    BY <1>9 DEF GitFails, WriteFails, Kill, Exits, Answers
  <2> QED
    BY <2>1, <1>1
<1>10. CASE Compare(c)
  <2>1. CASE tree[Manifest] = ManifestOf(cmd[c].listing) /\ Returns(c, "SUCCESS")
    <3>1. cmd'[c].exit = "SUCCESS"
      BY <2>1, <1>1 DEF Exits
    <3> QED
      BY <2>1, <3>1, <1>10 DEF Compare, Reads, Answer, Repository
  <2>2. CASE cmd' = [cmd EXCEPT ![c].pc = "open"]
    BY <2>2, <1>2 DEF TypeInv, State
  <2> QED
    BY <1>10, <2>1, <2>2 DEF Compare
<1>11. CASE Open(c)
  <2> DEFINE s == [cmd[c] EXCEPT !.pc = "write", !.at = "temporary"]
  <2>1. s \in State /\ s.pc = "write"
    BY <1>2 DEF State, Steps, Places
  <2>2. cmd' = Disturbing([cmd EXCEPT ![c] = s], c)
    BY <1>11 DEF Open, TypeInv
  <2> HIDE DEF s
  <2>3. [cmd EXCEPT ![c] = s] \in [Commands -> State] /\ [cmd EXCEPT ![c] = s][c] = s
    BY <2>1 DEF TypeInv
  <2>4. cmd'[c].pc = "write"
    BY <2>1, <2>2, <2>3, DisturbingMovesNobody
  <2> QED
    BY <2>4
<1>12. CASE Write(c)
  <2> DEFINE s == [cmd[c] EXCEPT !.pc = "replace"]
  <2>1. s \in State /\ s.pc = "replace"
    BY <1>2 DEF State, Steps
  <2>2. cmd' = Disturbing([cmd EXCEPT ![c] = s], c)
    BY <1>12 DEF Write, TypeInv
  <2> HIDE DEF s
  <2>3. [cmd EXCEPT ![c] = s] \in [Commands -> State] /\ [cmd EXCEPT ![c] = s][c] = s
    BY <2>1 DEF TypeInv
  <2>4. cmd'[c].pc = "replace"
    BY <2>1, <2>2, <2>3, DisturbingMovesNobody
  <2> QED
    BY <2>4
<1>13. CASE Replace(c)
  <2>1. CASE tree[Temporary] = Absent
    <3>1. Returns(c, "INVALID_ARGUMENTS")
      BY <1>13, <2>1 DEF Replace
    <3> QED
      BY <3>1, <1>1 DEF Exits, Answers
  <2>2. CASE tree[Temporary] # Absent
    BY <1>13, <2>2, ReplaceDisturbs DEF Answer, WroteExit
  <2> QED
    BY <2>1, <2>2
<1>14. CASE TakeForPlain(c)
  <2>1. PICK s \in State : cmd' = [cmd EXCEPT ![c] = s] /\ s.pc \in {"files", "files again"}
    BY <1>14, PlainAnswer
  <2> QED
    BY <2>1 DEF TypeInv
<1> QED
  BY <1>3, <1>4, <1>5, <1>6, <1>7, <1>8, <1>9, <1>10, <1>11, <1>12, <1>13, <1>14 DEF Command

LEMMA UndisturbedAnswer ==
    ASSUME TypeInv, SeenInv, [Next]_vars, NEW c \in Commands,
           Undisturbed(c, Answers)
    PROVE  Answer(c)
<1>1. ASSUME NEW d \in Commands, Start(d) \/ Command(d) PROVE d = c
  BY <1>1, OthersDoNotEndIt DEF Undisturbed
<1>2. ~(Commit \/ \E p \in Sources : Edit(p))
  BY DisturbingMovesNobody DEF Commit, Edit, Everybody, Undisturbed, TypeInv
<1>3. Start(c) \/ Command(c)
  BY <1>1, <1>2 DEF Next, Undisturbed, vars
<1> QED
  BY <1>3, AnswersCome DEF Undisturbed

(* An undisturbed observation that says "passed" of a revision speaks of   *)
(* the commit, although git was asked six times: its manifest lists        *)
(* exactly its files.                                                      *)
THEOREM PassedCorrectness == Spec => PassedMeansReconciled
<1>1. ASSUME TypeInv, SeenInv, [Next]_vars, NEW c \in Commands, Undisturbed(c, {"passed"})
      PROVE  /\ git
             /\ cmd[c].revision = head
             /\ committed[Manifest] = ManifestOf(Tracked)
  <2>1. /\ cmd[c].pc = "verdict"
        /\ tree[Manifest] = ManifestOf(cmd[c].listing)
    BY <1>1, UndisturbedAnswer DEF Undisturbed, Answers, Answer
  <2>2. Seen(cmd[c])
    BY <1>1, <2>1 DEF SeenInv, Heedless, Undisturbed
  <2> QED
    BY <2>1, <2>2 DEF Seen, Again, Writers
<1>2. IInv /\ SeenInv /\ [Next]_vars =>
        [\A c \in Commands :
            Undisturbed(c, {"passed"}) =>
                /\ git
                /\ cmd[c].revision = head
                /\ committed[Manifest] = ManifestOf(Tracked)]_vars
  BY <1>1 DEF IInv
<1> QED
  BY <1>2, InspectionInvariant, PTL DEF Spec, PassedMeansReconciled

(* An undisturbed snapshot that is not dirty is that of its revision.      *)
THEOREM SnapshotCorrectness == Spec => CleanSnapshotIsItsRevision
<1>1. ASSUME TypeInv, SeenInv, [Next]_vars, NEW c \in Commands,
             Undisturbed(c, {"snapshot"}), ~cmd[c].plain, ~cmd[c].dirty
      PROVE  SnapshotId(cmd[c]) = <<head, FALSE, Tracked>> /\ tree = committed
  <2>1. cmd[c].pc = "files" /\ cmd[c].kind = "snapshot" /\ cmd[c] \in State
    BY <1>1, UndisturbedAnswer DEF Undisturbed, Answers, Answer, TypeInv
  <2>2. Seen(cmd[c])
    BY <1>1, <2>1 DEF SeenInv, Heedless, Undisturbed
  <2>3. cmd[c].revision = head /\ tree = committed /\ cmd[c].listing = Untracked
    BY <1>1, <2>1, <2>2 DEF Seen, Writers, Dirty
  <2>4. Listed(cmd[c]).listing = Tracked
    BY <1>1, <2>1, <2>3, ListedAnswer, CleanTree
  <2>5. (~cmd[c].plain /\ cmd[c].dirty) = FALSE
    BY <1>1
  <2>6. SnapshotId(cmd[c]) =
            <<cmd[c].revision, ~cmd[c].plain /\ cmd[c].dirty, Listed(cmd[c]).listing>>
    BY <1>1 DEF SnapshotId
  <2> QED
    BY <2>3, <2>4, <2>5, <2>6
<1>2. IInv /\ SeenInv /\ [Next]_vars =>
        [\A c \in Commands :
            Undisturbed(c, {"snapshot"}) /\ ~cmd[c].plain /\ ~cmd[c].dirty =>
                /\ SnapshotId(cmd[c]) = <<head, FALSE, Tracked>>
                /\ tree = committed]_vars
  BY <1>1 DEF IInv
<1> QED
  BY <1>2, InspectionInvariant, PTL DEF Spec, CleanSnapshotIsItsRevision

-----------------------------------------------------------------------------
(* The two ways a writer ends: its list is in place, or it puts it there.  *)
LEMMA FoundInPlace ==
    ASSUME NEW c \in Commands, Knows(cmd[c]), cmd[c].pc = "compare",
           tree[Manifest] = ManifestOf(cmd[c].listing), UNCHANGED Repository
    PROVE  (tree[Manifest] = ManifestOf(WouldList))'
<1>1. cmd[c].listing = WouldList
  BY DEF Knows
<1>2. ManifestOf(WouldList)' = ManifestOf(WouldList)
  BY DEF Repository, ManifestOf, Rendered, WouldList, Untracked, Existing, Tracked
<1> QED
  BY <1>1, <1>2 DEF Repository

LEMMA PutInPlace ==
    ASSUME TypeInv, NotCommitted, NotCommitted', NEW c \in Commands, Knows(cmd[c]),
           tree[Temporary] # Absent, Replace(c)
    PROVE  (tree[Manifest] = ManifestOf(WouldList))'
<1>1. /\ tree[Temporary] = ManifestOf(cmd[c].listing)
      /\ cmd[c].listing \ {Manifest} = WouldList \ {Manifest, Temporary}
  BY DEF Replace, Knows, Writing
<1>2. /\ UNCHANGED <<git, untracked, committed>>
      /\ tree' = [tree EXCEPT ![Manifest] = tree[Temporary], ![Temporary] = Absent]
  BY DEF Replace
<1>3. /\ tree'[Manifest] = tree[Temporary]
      /\ tree'[Temporary] = Absent
      /\ \A p \in Paths \ {Manifest, Temporary} : tree'[p] = tree[p]
  BY <1>2, NamesDiffer DEF TypeInv, Paths
<1>4. WouldList' \ {Manifest, Temporary} = WouldList \ {Manifest, Temporary}
  BY <1>2, <1>3, OthersListed
<1>5. Temporary \notin WouldList'
  BY <1>3 DEF NotCommitted, WouldList, Untracked, Existing, Tracked
<1>6. WouldList' \ {Manifest} = cmd[c].listing \ {Manifest}
  BY <1>1, <1>4, <1>5
<1>7. ManifestOf(WouldList)' = ManifestOf(cmd[c].listing)
  BY <1>6 DEF ManifestOf, Rendered
<1> QED
  BY <1>1, <1>3, <1>7

(* A writer that nothing disturbed leaves the manifest a second writer     *)
(* would make.  One that will list a dead command's temporary file, or has *)
(* taken a repository for a plain directory, counts as disturbed.          *)
THEOREM IdempotenceCorrectness == Spec => GenerationIsIdempotent
<1>1. ASSUME TypeInv, SeenInv, KnowsInv, KnowsInv', [Next]_vars, NEW c \in Commands,
             Undisturbed(c, {"SUCCESS", "GATE_FAILURE"})
      PROVE  (tree[Manifest] = ManifestOf(WouldList))'
  <2>1. Answer(c) /\ cmd'[c].exit \in {"SUCCESS", "GATE_FAILURE"}
    BY <1>1, UndisturbedAnswer DEF Undisturbed, Answers
  <2>2. Knows(cmd[c]) /\ NotCommitted /\ NotCommitted'
    BY <1>1 DEF KnowsInv, Heedless, Undisturbed
  <2>3. CASE cmd[c].pc = "compare" /\ tree[Manifest] = ManifestOf(cmd[c].listing)
             /\ UNCHANGED Repository
    BY <2>2, <2>3, FoundInPlace
  <2>4. CASE tree[Temporary] # Absent /\ Replace(c)
    BY <1>1, <2>2, <2>4, PutInPlace
  <2> QED
    BY <2>1, <2>3, <2>4 DEF Answer
<1>2. (IInv /\ SeenInv) /\ (IInv /\ KnowsInv) /\ (IInv /\ KnowsInv)' /\ [Next]_vars =>
        [\A c \in Commands :
            Undisturbed(c, {"SUCCESS", "GATE_FAILURE"}) =>
                (tree[Manifest] = ManifestOf(WouldList))']_vars
  BY <1>1 DEF IInv
<1> QED
  BY <1>2, InspectionInvariant, WriterInvariant, PTL DEF Spec, GenerationIsIdempotent
=============================================================================
