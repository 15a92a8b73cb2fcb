------------------------- MODULE PullRequestProofs -------------------------
(***************************************************************************)
(* Proofs about PullRequest, for any number of commits, events and         *)
(* comments, any taxonomy and any rule modes: the bot loses no commit, and *)
(* leaves manifest and lock fresh when it has nothing to do; every head is *)
(* judged, on what is true of it; and one comment says what the gate said. *)
(*                                                                         *)
(* IdleBotLeavesFresh is not inductive: it must be known that the latest   *)
(* event the bot was told of is of the head, unless the head is fresh      *)
(* (LatestIsTip), and that only a run with a successor is cancelled.       *)
(*                                                                         *)
(* What a check says is true of its head because what a run collected is   *)
(* (Earned), and stays true while the branch grows; the head is judged, or *)
(* the last run to come is of it (JudgedOrDue).  The comments need all of  *)
(* the order between runs: only a run of the pull request writes, it is of *)
(* a head no older than any that was judged (HeadsInOrder), what it found  *)
(* is still there when it writes (WritersOK), and it has written when it   *)
(* comes to its gate (LastIsCurrent).                                      *)
(***************************************************************************)
EXTENDS PullRequest, FiniteSetTheorems, WellFoundedInduction, TLAPS

CommitType ==
    [by : {"dev", "bot"}, secret : BOOLEAN, changed : SUBSET Paths, stale : SUBSET Derived,
     touched : SUBSET Paths]

Results == {"none", "success", "rejected", "cancelled", "failure"}

BotRunType == [head : Nat, step : {"none", "generate", "push"}, cancelled : BOOLEAN]

BotType ==
    [running : BotRunType, pending : Nat, result : Results, fork : BOOLEAN, patch : Nat]

BranchOK == branch \in Seq(CommitType) /\ Len(branch) > 0

BotOK ==
    /\ bot \in BotType
    /\ bot.pending <= Tip
    /\ bot.running # NoBotRun => bot.running.head \in 1 .. Tip
    /\ bot.running = NoBotRun => bot.pending = 0
    /\ bot.running.cancelled => bot.pending > 0
    /\ bot.running.step = "none" => bot.running = NoBotRun

(* The head of the latest event the bot has yet to deal with.              *)
Latest == IF bot.pending > 0 THEN bot.pending ELSE bot.running.head

Fresh == branch[Tip].stale = {}

LatestIsTip == bot.running # NoBotRun => Latest = Tip \/ Fresh

IInv ==
    /\ BranchOK
    /\ BotOK
    /\ LatestIsTip
    /\ IdleBotLeavesFresh

-----------------------------------------------------------------------------
(* What the developer and the bot commit are commits.                      *)
LEMMA DevCommitIsCommit ==
    ASSUME NEW before \in SUBSET Paths, NEW c \in DevCommits(before)
    PROVE  c \in CommitType
<1>1. PICK made \in SUBSET Derived : c \in CommitsMaking(before, made)
  BY DEF DevCommits
<1>2. PICK p \in Paths, reverted \in BOOLEAN, secret \in BOOLEAN,
           differing \in SUBSET made, stale \in SUBSET (Derived \ made) :
        c = DevCommit(before, p, reverted, secret, made, differing, stale)
  BY <1>1 DEF CommitsMaking
<1> DEFINE edited == IF reverted /\ p \in before THEN before \ {p} ELSE before \cup {p}
           changed == Remade(edited, made, differing)
<1>3. changed \in SUBSET Paths
  BY PullRequestAssumption DEF Remade
<1>4. {p} \cup made \in SUBSET Paths /\ stale \in SUBSET Derived
  BY PullRequestAssumption
<1>5. c = [by |-> "dev", secret |-> secret, stale |-> stale, touched |-> {p} \cup made,
           changed |-> changed]
  BY <1>2 DEF DevCommit
<1> HIDE DEF changed
<1> QED
  BY <1>3, <1>4, <1>5 DEF CommitType

LEMMA BotCommitIsCommit ==
    ASSUME NEW before \in SUBSET Paths, NEW stale \in SUBSET Derived,
           NEW c \in BotCommits(before, stale)
    PROVE  c \in CommitType /\ c.stale = {} /\ c.by = "bot"
<1>1. PICK differing \in SUBSET stale :
        c = [by |-> "bot", secret |-> FALSE, stale |-> {}, touched |-> stale,
             changed |-> Remade(before, stale, differing)]
  BY DEF BotCommits
<1>2. Remade(before, stale, differing) \in SUBSET Paths /\ stale \in SUBSET Paths
  BY PullRequestAssumption DEF Remade
<1> QED
  BY <1>1, <1>2 DEF CommitType

(* An append changes the head and loses nothing.                           *)
LEMMA AppendsKeep ==
    ASSUME BranchOK, NEW c \in CommitType, branch' = Append(branch, c)
    PROVE  /\ BranchOK'
           /\ Tip' = Tip + 1
           /\ branch'[Tip'] = c
           /\ SubSeq(branch', 1, Tip) = branch
<1>1. /\ branch' \in Seq(CommitType) /\ Len(branch') = Len(branch) + 1
      /\ Len(branch) \in Nat
      /\ branch'[Len(branch')] = c
  BY DEF BranchOK
<1>2. SubSeq(branch', 1, Tip) = branch
  BY DEF BranchOK, Tip
<1> QED
  BY <1>1, <1>2 DEF BranchOK, Tip

LEMMA BotRunIsTyped ==
    ASSUME NEW h \in Nat
    PROVE  /\ BotRun(h) \in BotRunType /\ BotRun(h) # NoBotRun
           /\ BotRun(h).head = h /\ BotRun(h).step = "generate" /\ ~BotRun(h).cancelled
BY DEF BotRun, BotRunType, NoBotRun

LEMMA NoBotRunIsTyped == NoBotRun \in BotRunType /\ ~NoBotRun.cancelled
BY DEF NoBotRun, BotRunType

LEMMA InitIInv == Init => IInv
<1> SUFFICES ASSUME Init PROVE IInv
  OBVIOUS
<1>1. PICK c \in CommitType : branch = <<c>>
  BY DevCommitIsCommit DEF Init
<1>2. BranchOK /\ Tip = 1
  BY <1>1 DEF BranchOK, Tip
<1>3. PICK fork \in BOOLEAN :
        bot = [running |-> BotRun(1), pending |-> 0, result |-> "none", fork |-> fork,
               patch |-> 0]
  BY DEF Init, Bot
<1>4. bot \in BotType
  BY <1>3, BotRunIsTyped DEF BotType, Results
<1>5. bot.running = BotRun(1) /\ bot.pending = 0
  BY <1>3
<1>6. BotOK
  BY <1>2, <1>4, <1>5, BotRunIsTyped DEF BotOK
<1> QED
  BY <1>2, <1>5, <1>6, BotRunIsTyped DEF IInv, LatestIsTip, Latest, IdleBotLeavesFresh

(* An event reaches the bot: it is of the new head.                        *)
LEMMA ArrivalsKeep ==
    ASSUME IInv, BranchOK', Tip' >= Tip, BotArrive(Tip'),
           Tip' = Tip => branch' = branch
    PROVE  IInv'
<1>1. Tip \in Nat /\ Tip > 0 /\ Tip' \in Nat
  BY DEF IInv, BranchOK, Tip
<1>2. CASE bot.running = NoBotRun
  <2>1. bot' = [bot EXCEPT !.running = BotRun(Tip')]
    BY <1>2 DEF BotArrive
  <2>2. bot' \in BotType /\ bot'.running = BotRun(Tip') /\ bot'.pending = 0
    BY <1>1, <1>2, <2>1, BotRunIsTyped DEF IInv, BotOK, BotType
  <2> QED
    BY <1>1, <2>2, BotRunIsTyped
    DEF IInv, BotOK, LatestIsTip, Latest, IdleBotLeavesFresh
<1>3. CASE bot.running # NoBotRun
  <2>1. bot' = [bot EXCEPT !.running.cancelled = TRUE, !.pending = Tip']
    BY <1>3 DEF BotArrive
  <2>2. /\ bot' \in BotType /\ bot'.pending = Tip' /\ bot'.running.cancelled
        /\ bot'.running.head = bot.running.head /\ bot'.running.step = bot.running.step
    BY <1>1, <2>1 DEF IInv, BotOK, BotType, BotRunType
  <2>3. bot'.running # NoBotRun
    BY <2>2, NoBotRunIsTyped
  <2> QED
    BY <1>1, <1>3, <2>2, <2>3
    DEF IInv, BotOK, LatestIsTip, Latest, IdleBotLeavesFresh
<1> QED
  BY <1>2, <1>3

(* A run of the bot ends: the head is fresh, or a later run is of it, or   *)
(* there is none and its patch was exported or a step failed.              *)
LEMMA EndsKeep ==
    ASSUME IInv, NEW result \in Results, NEW patch \in Nat, BranchOK', Tip' >= Tip,
           bot.running # NoBotRun, bot' = [BotEnded(result) EXCEPT !.patch = patch],
           \/ Fresh'
           \/ Tip' = Tip /\ bot.pending = Tip
           \/ bot.pending = 0 /\ (result = "failure" \/ (bot.fork /\ patch = Tip'))
    PROVE  IInv'
<1>1. Tip \in Nat /\ Tip > 0 /\ Tip' \in Nat
  BY DEF IInv, BranchOK, Tip
<1> DEFINE next == IF bot.pending = 0 THEN NoBotRun ELSE BotRun(bot.pending)
<1>2. bot.pending \in 0 .. Tip /\ next \in BotRunType
  BY <1>1, BotRunIsTyped, NoBotRunIsTyped DEF IInv, BotOK, BotType
<1>3. /\ bot' \in BotType /\ bot'.running = next /\ bot'.pending = 0
      /\ bot'.result = result /\ bot'.fork = bot.fork /\ bot'.patch = patch
  BY <1>2 DEF IInv, BotOK, BotType, BotEnded
<1>4. CASE bot.pending = 0
  <2>1. bot'.running = NoBotRun
    BY <1>3, <1>4
  <2> QED
    BY <1>1, <1>3, <1>4, <2>1, NoBotRunIsTyped
    DEF IInv, BotOK, LatestIsTip, Fresh, IdleBotLeavesFresh
<1>5. CASE bot.pending # 0
  <2>1. bot'.running = BotRun(bot.pending)
    BY <1>3, <1>5
  <2>2. Latest' = bot.pending
    BY <1>2, <1>3, <2>1, BotRunIsTyped DEF Latest
  <2> QED
    BY <1>1, <1>2, <1>3, <1>5, <2>1, <2>2, BotRunIsTyped
    DEF IInv, BotOK, LatestIsTip, Fresh, IdleBotLeavesFresh
<1> QED
  BY <1>4, <1>5

(* Without a patch of its own, it leaves the last one.                     *)
LEMMA PlainEnd ==
    ASSUME IInv, NEW result \in Results, BotEnds(result)
    PROVE  /\ bot.patch \in Nat /\ bot' = [BotEnded(result) EXCEPT !.patch = bot.patch]
           /\ bot'.fork = bot.fork /\ bot'.patch = bot.patch
BY DEF IInv, BotOK, BotType, BotEnds, BotEnded

(* Nothing the invariant is about changes.                                 *)
LEMMA OthersKeep ==
    ASSUME IInv, UNCHANGED <<branch, bot>>
    PROVE  IInv'
BY DEF IInv, BranchOK, BotOK, Tip, LatestIsTip, Latest, Fresh, IdleBotLeavesFresh

LEMMA TipIsCommit ==
    ASSUME BranchOK
    PROVE  branch[Tip].changed \in SUBSET Paths /\ branch[Tip].stale \in SUBSET Derived
<1>1. branch \in Seq(CommitType) /\ Tip \in 1 .. Len(branch)
  BY DEF BranchOK, Tip
<1>2. branch[Tip] \in CommitType
  BY <1>1
<1> QED
  BY <1>2 DEF CommitType

LEMMA DevPushAppends ==
    ASSUME IInv, DevPush
    PROVE  \E c \in CommitType : branch' = Append(branch, c)
<1>1. PICK c \in DevCommits(branch[Tip].changed) : branch' = Append(branch, c)
  BY DEF DevPush
<1> QED
  BY <1>1, TipIsCommit, DevCommitIsCommit DEF IInv

LEMMA BotPushAppends ==
    ASSUME BranchOK, BotPush, bot.running.head = Tip
    PROVE  \E c \in CommitType : branch' = Append(branch, c) /\ c.stale = {} /\ c.by = "bot"
<1>1. PICK c \in BotCommits(branch[Tip].changed, branch[Tip].stale) :
        branch' = Append(branch, c)
  BY DEF BotPush
<1>2. c \in CommitType /\ c.stale = {} /\ c.by = "bot"
  BY TipIsCommit, BotCommitIsCommit
<1> QED
  BY <1>1, <1>2

LEMMA FreshStays ==
    ASSUME UNCHANGED branch
    PROVE  Fresh' = Fresh
BY DEF Fresh, Tip

LEMMA BotGenerateKeeps ==
    ASSUME IInv, BotGenerate
    PROVE  IInv'
<1>1. UNCHANGED branch /\ bot.running # NoBotRun
  BY DEF BotGenerate, NoBotRun
<1>2. BranchOK' /\ Tip' = Tip /\ Tip \in Nat
  BY <1>1 DEF IInv, BranchOK, Tip
<1>3. CASE branch[bot.running.head].stale = {}
  <2>1. BotEnds("success")
    BY <1>3 DEF BotGenerate
  <2>2. Fresh \/ bot.pending = Tip
    BY <1>1, <1>3 DEF IInv, LatestIsTip, Latest, Fresh
  <2>3. "success" \in Results
    BY DEF Results
  <2> QED
    BY <1>1, <1>2, <2>1, <2>2, <2>3, EndsKeep, PlainEnd, FreshStays
<1>4. CASE branch[bot.running.head].stale # {}
  <2>1. bot' = [bot EXCEPT !.running.step = "push"]
    BY <1>4 DEF BotGenerate
  <2>2. /\ bot' \in BotType /\ bot'.running.head = bot.running.head
        /\ bot'.running.step = "push" /\ bot'.running.cancelled = bot.running.cancelled
        /\ bot'.pending = bot.pending /\ bot'.fork = bot.fork /\ bot'.patch = bot.patch
    BY <2>1 DEF IInv, BotOK, BotType, BotRunType
  <2>3. bot'.running # NoBotRun
    BY <2>2 DEF NoBotRun
  <2> QED
    BY <1>1, <1>2, <2>2, <2>3, FreshStays
    DEF IInv, BotOK, LatestIsTip, Latest, IdleBotLeavesFresh
<1> QED
  BY <1>3, <1>4

LEMMA BotPushKeeps ==
    ASSUME IInv, BotPush
    PROVE  IInv'
<1>1. bot.running # NoBotRun
  BY DEF BotPush, NoBotRun
<1>2. CASE bot.running.head = Tip
  <2>1. PICK c \in CommitType : branch' = Append(branch, c) /\ c.stale = {}
    BY <1>2, BotPushAppends DEF IInv
  <2>2. BranchOK' /\ Tip' >= Tip /\ Fresh'
    BY <2>1, AppendsKeep DEF IInv, BranchOK, Tip, Fresh
  <2>3. BotEnds("success") /\ "success" \in Results
    BY <1>2 DEF BotPush, Results
  <2> QED
    BY <1>1, <2>2, <2>3, EndsKeep, PlainEnd
<1>3. CASE bot.running.head # Tip
  <2>1. UNCHANGED branch /\ BotEnds("rejected") /\ "rejected" \in Results
    BY <1>3 DEF BotPush, Results
  <2>2. BranchOK' /\ Tip' = Tip /\ Tip \in Nat
    BY <2>1 DEF IInv, BranchOK, Tip
  <2>3. Fresh \/ bot.pending = Tip
    BY <1>1, <1>3 DEF IInv, LatestIsTip, Latest
  <2> QED
    BY <1>1, <2>1, <2>2, <2>3, EndsKeep, PlainEnd, FreshStays
<1> QED
  BY <1>2, <1>3

(* The patch is of the head, or the head is fresh, or a later run is of it. *)
LEMMA BotExportKeeps ==
    ASSUME IInv, BotExport
    PROVE  IInv'
<1>1. UNCHANGED branch /\ bot.running # NoBotRun /\ bot.fork
  BY DEF BotExport, NoBotRun
<1>2. BranchOK' /\ Tip' = Tip /\ Tip \in Nat
  BY <1>1 DEF IInv, BranchOK, Tip
<1>3. /\ bot' = [BotEnded("success") EXCEPT !.patch = bot.running.head]
      /\ bot.running.head \in Nat /\ "success" \in Results
  BY DEF BotExport, IInv, BotOK, BotType, BotRunType, Results
<1>4. bot.pending \in Nat /\ (Fresh \/ Latest = Tip)
  BY <1>1 DEF IInv, BotOK, BotType, LatestIsTip
<1>5. \/ Fresh'
      \/ bot.pending = Tip
      \/ bot.pending = 0 /\ bot.running.head = Tip'
  BY <1>1, <1>2, <1>4, FreshStays DEF Latest
<1> QED
  BY <1>1, <1>2, <1>3, <1>5, EndsKeep

LEMMA BotStopsKeeps ==
    ASSUME IInv, BotStops
    PROVE  IInv'
<1>1. UNCHANGED branch /\ bot.running # NoBotRun
  BY DEF BotStops
<1>2. BranchOK' /\ Tip' = Tip /\ Tip \in Nat
  BY <1>1 DEF IInv, BranchOK, Tip
<1>3. bot.pending > 0 => Fresh' \/ bot.pending = Tip
  BY <1>1, FreshStays DEF IInv, LatestIsTip, Latest
<1>4. bot.pending \in Nat /\ {"cancelled", "failure"} \subseteq Results
  BY DEF IInv, BotOK, BotType, Results
<1>5. CASE bot.running.cancelled /\ BotEnds("cancelled")
  <2>1. bot.pending > 0
    BY <1>5 DEF IInv, BotOK
  <2> QED
    BY <1>1, <1>2, <1>3, <1>4, <1>5, <2>1, EndsKeep, PlainEnd
<1>6. CASE BotEnds("failure")
  BY <1>1, <1>2, <1>3, <1>4, <1>6, EndsKeep, PlainEnd
<1> QED
  BY <1>5, <1>6 DEF BotStops

(* Every step keeps the invariant, and the branch or all that is in it.    *)
LEMMA StepKeeps ==
    ASSUME IInv, [Next]_vars
    PROVE  /\ IInv'
           /\ \/ UNCHANGED branch
              \/ \E c \in CommitType : branch' = Append(branch, c)
<1>1. CASE DevPush
  <2>1. PICK c \in CommitType : branch' = Append(branch, c)
    BY <1>1, DevPushAppends
  <2>2. BranchOK' /\ Tip' = Tip + 1 /\ Tip \in Nat
    BY <2>1, AppendsKeep DEF IInv, BranchOK, Tip
  <2>3. BotArrive(Tip')
    BY <1>1, <2>2 DEF DevPush, BotArrive
  <2> QED
    BY <2>1, <2>2, <2>3, ArrivalsKeep
<1>2. CASE Reopen
  <2>1. UNCHANGED branch
    BY <1>2 DEF Reopen
  <2>2. BranchOK' /\ Tip' = Tip /\ Tip \in Nat
    BY <2>1 DEF IInv, BranchOK, Tip
  <2>3. BotArrive(Tip')
    BY <1>2, <2>2 DEF Reopen, BotArrive
  <2> QED
    BY <2>1, <2>2, <2>3, ArrivalsKeep
<1>3. CASE Label \/ Dispatch \/ OtherComment
  BY <1>3, OthersKeep DEF Label, Dispatch, OtherComment
<1>4. CASE BotGenerate
  BY <1>4, BotGenerateKeeps DEF BotGenerate
<1>5. CASE BotPush
  <2>1. UNCHANGED branch \/ \E c \in CommitType : branch' = Append(branch, c)
    BY <1>5, BotPushAppends DEF BotPush, IInv
  <2> QED
    BY <1>5, <2>1, BotPushKeeps
<1>6. CASE BotExport \/ BotStops
  BY <1>6, BotExportKeeps, BotStopsKeeps DEF BotExport, BotStops
<1>7. CASE \E g \in Groups : Jobs(g) \/ List(g) \/ Send(g) \/ Gate(g) \/ JobFails(g)
  <2>1. UNCHANGED <<branch, bot>>
    BY <1>7 DEF Jobs, List, Send, Gate, JobFails
  <2> QED
    BY <2>1, OthersKeep
<1>8. CASE UNCHANGED vars
  BY <1>8, OthersKeep DEF vars
<1> QED
  BY <1>1, <1>2, <1>3, <1>4, <1>5, <1>6, <1>7, <1>8 DEF Next

-----------------------------------------------------------------------------
(* When the reconciling workflow has nothing to do and no step of its last *)
(* run failed, manifest and lock agree with the head, or on a fork the     *)
(* patch that makes them agree was exported for it: whatever was pushed    *)
(* while it ran, and whichever of its runs were cancelled, replaced or     *)
(* rejected (l9-manifest-reconcile.yml).                                    *)
THEOREM FreshnessCorrectness == Spec => []IdleBotLeavesFresh
<1>1. Init => IInv
  BY InitIInv
<1>2. IInv /\ [Next]_vars => IInv'
  BY StepKeeps
<1>3. IInv => IdleBotLeavesFresh
  BY DEF IInv
<1> QED
  BY <1>1, <1>2, <1>3, PTL DEF Spec

(* Whoever pushes, every commit that was in the pull request stays where   *)
(* it was (the push of l9-manifest-reconcile.yml is not forced).            *)
THEOREM NoCommitLostCorrectness == Spec => NoCommitLost
<1> DEFINE Kept == Len(branch') >= Len(branch) /\ SubSeq(branch', 1, Tip) = branch
<1>1. Init => IInv
  BY InitIInv
<1>2. IInv /\ [Next]_vars => IInv'
  BY StepKeeps
<1>3. IInv /\ [Next]_vars => [Kept]_vars
  <2> SUFFICES ASSUME IInv, [Next]_vars PROVE Kept
    OBVIOUS
  <2>1. CASE UNCHANGED branch
    BY <2>1 DEF IInv, BranchOK, Tip
  <2>2. CASE \E c \in CommitType : branch' = Append(branch, c)
    <3>1. PICK c \in CommitType : branch' = Append(branch, c)
      BY <2>2
    <3> QED
      BY <3>1, AppendsKeep DEF IInv, BranchOK, Tip
  <2> QED
    BY <2>1, <2>2, StepKeeps
<1> QED
  BY <1>1, <1>2, <1>3, PTL DEF Spec, NoCommitLost

-----------------------------------------------------------------------------
(* The runs of the self CI and the checks they leave.  What the jobs of a  *)
(* run found out (its context) is true of its head, and stays true.        *)
JobResults == {"none", "success", "failure", "cancelled", "skipped"}

ContextType ==
    [classify : JobResults, secret_scan : JobResults, pr_class : Classes,
     diff_unknown : BOOLEAN, secret_findings : Nat, scanned : SUBSET Nat]

RunType ==
    [head : Nat, step : Steps, cancelled : BOOLEAN, numbered : BOOLEAN,
     ctx : ContextType, existing : Nat]

CheckType ==
    [result : {"none", "PASS", "FAIL", "error"}, by : {"none"} \cup Groups,
     ctx : ContextType]

(* True of head h among the commits, as group g looked at it.              *)
Earned(commits, g, h, ctx) ==
    /\ ctx.scanned \subseteq 1 .. h
    /\ \A k \in ctx.scanned : commits[k].secret => ctx.secret_findings > 0
    /\ g = "pr" =>
        /\ ctx.classify = "success" /\ ~ctx.diff_unknown =>
             \A p \in commits[h].changed : Tags[p] # {}
        /\ ctx.classify = "success" /\ ctx.pr_class = "docs_only" =>
             \A p \in commits[h].changed : Tags[p] = {"docs_only"}

RunsOK ==
    /\ running \in [Groups -> RunType] /\ pending \in [Groups -> RunType]
    /\ \A g \in Groups :
        /\ running[g].step = "none" => running[g] = NoRun
        /\ running[g] = NoRun => pending[g] = NoRun
        /\ running[g] # NoRun => running[g].head \in 1 .. Tip
        /\ running[g].step \in {"list", "send", "gate", "failed"} =>
             Earned(branch, g, running[g].head, running[g].ctx)
        /\ pending[g] # NoRun => pending[g].step = "jobs" /\ pending[g].head \in 1 .. Tip

ChecksOK ==
    /\ Tip <= MaxCommits
    /\ check \in [1 .. MaxCommits -> CheckType]
    /\ \A h \in 1 .. MaxCommits :
        check[h] # NoCheck =>
            /\ h <= Tip
            /\ check[h].by \in Groups
            /\ check[h].result \in {Verdict(file, check[h].ctx).result, "error"}
            /\ Earned(branch, check[h].by, h, check[h].ctx)

CommentType == [marker : BOOLEAN, of : Nat, result : {"none", "PASS", "FAIL"}]

CommentsOK == comments \in Seq(CommentType)

(* The head of the latest run of the pull request.                         *)
LatestRun == IF pending["pr"] = NoRun THEN running["pr"].head ELSE pending["pr"].head

JudgedOrDue ==
    \/ branch[Tip].by = "bot"
    \/ check[Tip] # NoCheck
    \/ running["pr"] # NoRun /\ LatestRun = Tip

JudgeInv == RunsOK /\ ChecksOK /\ JudgedOrDue

-----------------------------------------------------------------------------
LEMMA LeastNatural ==
    ASSUME NEW S \in SUBSET Nat, S # {}
    PROVE  \E k \in S : \A l \in S : k <= l
<1>1. \E k \in S : \A l \in S : ~(<<l, k>> \in OpToRel(<, Nat))
  BY NatLessThanWellFounded, WFMin
<1>2. ASSUME NEW k \in S, NEW l \in S, ~(<<l, k>> \in OpToRel(<, Nat))
      PROVE  k <= l
  BY <1>2 DEF OpToRel
<1> QED
  BY <1>1, <1>2

(* What classify promises of a set of changed paths.                       *)
LEMMA ClassifyIsCautious ==
    ASSUME NEW changed \in SUBSET Paths
    PROVE  /\ Classify(changed) \in Classes
           /\ Classify(changed) # "unknown_diff" => \A p \in changed : Tags[p] # {}
           /\ Classify(changed) = "docs_only" => \A p \in changed : Tags[p] = {"docs_only"}
<1> DEFINE observed == UNION {Tags[p] : p \in changed}
           ranked == {k \in DOMAIN Priority :
                        Priority[k] \in observed /\ Priority[k] # "docs_only"}
           unclassified == changed = {} \/ \E p \in changed : Tags[p] = {}
<1>1. CASE unclassified
  <2>1. Classify(changed) = "unknown_diff"
    BY <1>1 DEF Classify
  <2> QED
    BY <2>1 DEF Classes
<1>2. CASE ~unclassified /\ observed = {"docs_only"}
  <2>1. Classify(changed) = "docs_only"
    BY <1>2 DEF Classify
  <2>2. "docs_only" \in Classes
    BY TaxonomyAssumption DEF Classes
  <2>3. \A p \in changed : Tags[p] = {"docs_only"}
    BY <1>2
  <2> QED
    BY <2>1, <2>2, <2>3
<1>3. CASE ~unclassified /\ observed # {"docs_only"}
  <2> DEFINE first == CHOOSE k \in ranked : \A l \in ranked : k <= l
  <2>1. Classify(changed) = Priority[first]
    BY <1>3 DEF Classify
  <2>2. PICK c \in observed : c # "docs_only"
    BY <1>3
  <2>3. PICK k \in DOMAIN Priority : Priority[k] = c
    BY <2>2, TaxonomyAssumption DEF Paths
  <2>4. k \in ranked /\ ranked \in SUBSET Nat
    BY <2>2, <2>3, TaxonomyAssumption
  <2> HIDE DEF ranked
  <2>5. first \in ranked
    BY <2>4, LeastNatural
  <2>6. first \in DOMAIN Priority /\ Priority[first] # "docs_only"
    BY <2>5 DEF ranked
  <2> QED
    BY <1>3, <2>1, <2>6 DEF Classes
<1> QED
  BY <1>1, <1>2, <1>3

LEMMA CommitIsTyped ==
    ASSUME BranchOK, NEW h \in 1 .. Tip
    PROVE  branch[h] \in CommitType
BY DEF BranchOK, Tip

LEMMA NoRunIsTyped == NoRun \in RunType /\ NoRun.step = "none" /\ NoContext \in ContextType
BY DEF NoRun, RunType, NoContext, ContextType, JobResults, Classes, Steps

LEMMA NewRunIsTyped ==
    ASSUME NEW h \in Nat, NEW numbered \in BOOLEAN
    PROVE  /\ Run(h, numbered) \in RunType
           /\ Run(h, numbered).step = "jobs"
           /\ Run(h, numbered).head = h
           /\ Run(h, numbered).numbered = numbered
           /\ Run(h, numbered) # NoRun
BY NoRunIsTyped DEF Run, NoRun, RunType, Steps

(* Counting secrets finds the one there is.                                *)
LEMMA SecretsAreCounted ==
    ASSUME NEW S, IsFiniteSet(S)
    PROVE  /\ Cardinality({k \in S : branch[k].secret}) \in Nat
           /\ \A k \in S : branch[k].secret =>
                Cardinality({l \in S : branch[l].secret}) > 0
<1> DEFINE found == {k \in S : branch[k].secret}
<1>1. IsFiniteSet(found)
  BY FS_Subset
<1>2. Cardinality(found) \in Nat /\ (Cardinality(found) = 0 <=> found = {})
  BY <1>1, FS_CardinalityType, FS_EmptySet
<1>3. ASSUME NEW k \in S, branch[k].secret PROVE found # {}
  BY <1>3
<1> HIDE DEF found
<1>4. ASSUME NEW k \in S, branch[k].secret PROVE Cardinality(found) > 0
  BY <1>2, <1>3, <1>4
<1> QED
  BY <1>2, <1>4 DEF found

(* Whatever the jobs of a run end with, it is true of the run's head.      *)
LEMMA ContextsAreEarned ==
    ASSUME BranchOK, NEW g \in Groups, NEW r \in RunType, r.head \in 1 .. Tip,
           NEW ctx \in Contexts(g, r)
    PROVE  ctx \in ContextType /\ Earned(branch, g, r.head, ctx)
<1> PICK c \in Classified(g, r) : ctx \in
        {[classify |-> c.result, pr_class |-> c.pr_class,
          diff_unknown |-> c.pr_class = "unknown_diff",
          secret_scan |-> s.result, secret_findings |-> s.findings,
          scanned |-> s.scanned] : s \in Scanned(g, r, c)}
  BY DEF Contexts
<1>1. PICK s \in Scanned(g, r, c) :
        ctx = [classify |-> c.result, pr_class |-> c.pr_class,
               diff_unknown |-> c.pr_class = "unknown_diff",
               secret_scan |-> s.result, secret_findings |-> s.findings,
               scanned |-> s.scanned]
  OBVIOUS
<1>2. Tip \in Nat /\ r.head \in Nat
  BY DEF BranchOK, Tip
<1>3. \A changed \in Changed(g, r.head) :
        /\ changed \in SUBSET Paths
        /\ g = "pr" => branch[r.head].changed \subseteq changed
  BY CommitIsTyped DEF Changed, CommitType
<1>4. /\ c.result \in JobResults /\ c.pr_class \in Classes
      /\ g = "pr" /\ c.result = "success" /\ c.pr_class # "unknown_diff" =>
           \A p \in branch[r.head].changed : Tags[p] # {}
      /\ g = "pr" /\ c.result = "success" /\ c.pr_class = "docs_only" =>
           \A p \in branch[r.head].changed : Tags[p] = {"docs_only"}
  <2>1. ASSUME NEW changed \in Changed(g, r.head),
               c.result = "success", c.pr_class = Classify(changed)
        PROVE  /\ c.result \in JobResults /\ c.pr_class \in Classes
               /\ g = "pr" /\ c.pr_class # "unknown_diff" =>
                    \A p \in branch[r.head].changed : Tags[p] # {}
               /\ g = "pr" /\ c.pr_class = "docs_only" =>
                    \A p \in branch[r.head].changed : Tags[p] = {"docs_only"}
    BY <2>1, <1>3, ClassifyIsCautious DEF JobResults
  <2>2. CASE c.result = "success" /\ c.pr_class = "unknown_diff"
    BY <2>2 DEF JobResults, Classes
  <2>3. CASE c.result \in {"failure", "cancelled"} /\ c.pr_class = "none"
    BY <2>3 DEF JobResults, Classes
  <2> QED
    BY <2>1, <2>2, <2>3 DEF Classified
<1>5. /\ s.result \in JobResults
      /\ s.scanned \in {{}, 1 .. r.head, {r.head}}
      /\ g = "pr" => s.scanned \in {{}, 1 .. r.head}
      /\ s.findings = Cardinality({k \in s.scanned : branch[k].secret})
  <2>1. \E result \in {"skipped", "success", "failure", "cancelled"},
           scanned \in {{}, IF g = "pr" THEN 1 .. r.head ELSE {r.head}} :
            s = [result |-> result, scanned |-> scanned,
                 findings |-> Cardinality({k \in scanned : branch[k].secret})]
    BY DEF Scanned
  <2> QED
    BY <2>1 DEF JobResults
<1>6. IsFiniteSet(s.scanned)
  <2>1. IsFiniteSet({}) /\ IsFiniteSet({r.head})
    BY FS_EmptySet, FS_Singleton
  <2>2. 1 \in Int /\ r.head \in Int
    BY <1>2
  <2>3. IsFiniteSet(1 .. r.head)
    BY <2>2, FS_Interval
  <2> QED
    BY <1>5, <2>1, <2>3
<1>7. /\ s.findings \in Nat
      /\ \A k \in s.scanned : branch[k].secret => s.findings > 0
  BY <1>5, <1>6, SecretsAreCounted
<1>8. s.scanned \subseteq 1 .. r.head
  BY <1>2, <1>5
<1>9. ctx \in ContextType
  BY <1>1, <1>2, <1>4, <1>5, <1>7, <1>8 DEF ContextType
<1> QED
  BY <1>1, <1>4, <1>5, <1>7, <1>8, <1>9 DEF Earned

(* A commit after the others changes nothing about the earlier heads.      *)
LEMMA EarnedStays ==
    ASSUME NEW before, NEW after, NEW n \in Nat, \A k \in 1 .. n : after[k] = before[k],
           NEW g, NEW h \in 1 .. n, NEW ctx, Earned(before, g, h, ctx)
    PROVE  Earned(after, g, h, ctx)
BY DEF Earned

(* The branch is as it was, up to where it ended.                          *)
Grows ==
    /\ BranchOK'
    /\ Tip' \in Nat /\ Tip' >= Tip
    /\ \A k \in 1 .. Tip : branch'[k] = branch[k]
    /\ Tip' <= MaxCommits

LEMMA AppendsGrow ==
    ASSUME BranchOK, NEW c \in CommitType, branch' = Append(branch, c), Tip < MaxCommits
    PROVE  Grows /\ Tip' = Tip + 1 /\ branch'[Tip'] = c
<1>1. BranchOK' /\ Tip' = Tip + 1 /\ branch'[Tip'] = c
  BY AppendsKeep
<1>2. branch \in Seq(CommitType) /\ Tip = Len(branch) /\ Tip \in Nat
  BY DEF BranchOK, Tip
<1>3. ASSUME NEW k \in 1 .. Tip PROVE branch'[k] = branch[k]
  BY <1>2
<1> QED
  BY <1>1, <1>2, <1>3, PullRequestAssumption DEF Grows

LEMMA UnchangedGrows ==
    ASSUME BranchOK, ChecksOK, UNCHANGED branch
    PROVE  Grows /\ Tip' = Tip
BY DEF BranchOK, ChecksOK, Grows, Tip

LEMMA ChecksStay ==
    ASSUME BranchOK, ChecksOK, Grows, UNCHANGED <<check, file>>
    PROVE  ChecksOK'
<1>1. Tip \in Nat /\ Tip' \in Nat /\ Tip <= Tip' /\ Tip' <= MaxCommits
  BY DEF BranchOK, Tip, Grows
<1>2. ASSUME NEW h \in 1 .. MaxCommits, check[h] # NoCheck
      PROVE  h <= Tip' /\ Earned(branch', check[h].by, h, check[h].ctx)
  <2>1. h \in 1 .. Tip /\ Earned(branch, check[h].by, h, check[h].ctx)
    BY <1>1, <1>2 DEF ChecksOK
  <2> QED
    BY <1>1, <2>1, EarnedStays DEF Grows
<1> QED
  BY <1>1, <1>2 DEF ChecksOK

(* A new run arrives in a group that was in order.                         *)
LEMMA ArriveKeeps ==
    ASSUME BranchOK, JudgeInv, Grows, NEW g \in Groups, NEW numbered \in BOOLEAN,
           Arrive(g, Run(Tip', numbered)), UNCHANGED <<check, file>>,
           g # "pr" => Tip' = Tip /\ branch' = branch
    PROVE  JudgeInv'
<1> DEFINE r == Run(Tip', numbered)
<1>1. Tip \in Nat /\ Tip > 0 /\ Tip' \in Nat /\ Tip' > 0 /\ Tip <= Tip'
  BY DEF BranchOK, Tip, Grows
<1>2. r \in RunType /\ r.step = "jobs" /\ r.head = Tip' /\ r # NoRun
  BY <1>1, NewRunIsTyped
<1>3. Arrive(g, r)
  OBVIOUS
<1> HIDE DEF r
<1>4. running \in [Groups -> RunType] /\ pending \in [Groups -> RunType]
  BY DEF JudgeInv, RunsOK
<1>5. ASSUME NEW d \in Groups, running[d].step \in {"list", "send", "gate", "failed"}
      PROVE  Earned(branch', d, running[d].head, running[d].ctx)
  <2>1. running[d] # NoRun
    BY <1>5, NoRunIsTyped
  <2>2. running[d].head \in 1 .. Tip /\ Earned(branch, d, running[d].head, running[d].ctx)
    BY <1>5, <2>1 DEF JudgeInv, RunsOK
  <2> QED
    BY <1>1, <2>2, EarnedStays DEF Grows
<1>6. CASE running[g] = NoRun
  <2>1. running' = [running EXCEPT ![g] = r] /\ pending' = pending
    BY <1>3, <1>6 DEF Arrive
  <2>2. pending[g] = NoRun
    BY <1>6 DEF JudgeInv, RunsOK
  <2>3. RunsOK'
    BY <1>1, <1>2, <1>4, <1>5, <2>1, <2>2 DEF JudgeInv, RunsOK
  <2>4. JudgedOrDue'
    <3>1. CASE g = "pr"
      BY <1>2, <1>4, <2>1, <2>2, <3>1 DEF JudgedOrDue, LatestRun
    <3>2. CASE g # "pr"
      BY <1>4, <2>1, <3>2 DEF JudgeInv, JudgedOrDue, LatestRun, Groups
    <3> QED
      BY <3>1, <3>2
  <2> QED
    BY <2>3, <2>4, ChecksStay DEF JudgeInv
<1>7. CASE running[g] # NoRun
  <2>1. /\ running' = [running EXCEPT ![g].cancelled = TRUE]
        /\ pending' = [pending EXCEPT ![g] = r]
    BY <1>3, <1>7 DEF Arrive
  <2>2. /\ running'[g] \in RunType /\ running'[g].step = running[g].step
        /\ running'[g].head = running[g].head /\ running'[g].ctx = running[g].ctx
        /\ running'[g].cancelled
        /\ \A d \in Groups \ {g} : running'[d] = running[d] /\ pending'[d] = pending[d]
        /\ pending'[g] = r
    BY <1>4, <2>1 DEF RunType
  <2>3. running[g].step # "none" /\ ~NoRun.cancelled
    BY <1>7 DEF JudgeInv, RunsOK, NoRun
  <2>4. running' \in [Groups -> RunType] /\ pending' \in [Groups -> RunType]
    BY <1>2, <1>4, <2>1, <2>2
  <2>5. RunsOK'
    BY <1>1, <1>2, <1>5, <1>7, <2>2, <2>3, <2>4 DEF JudgeInv, RunsOK
  <2>6. JudgedOrDue'
    <3>1. CASE g = "pr"
      BY <1>2, <2>2, <2>3, <3>1 DEF JudgedOrDue, LatestRun
    <3>2. CASE g # "pr"
      BY <2>2, <3>2 DEF JudgeInv, JudgedOrDue, LatestRun, Groups
    <3> QED
      BY <3>1, <3>2
  <2> QED
    BY <2>5, <2>6, ChecksStay DEF JudgeInv
<1> QED
  BY <1>6, <1>7

(* The bot adds a commit, or nothing that matters here changes.            *)
LEMMA RunsUnchangedKeep ==
    ASSUME BranchOK, JudgeInv, Grows, UNCHANGED <<running, pending, check, file>>,
           branch' = branch \/ branch'[Tip'].by = "bot"
    PROVE  JudgeInv'
<1>1. Tip \in Nat /\ Tip' \in Nat /\ Tip <= Tip'
  BY DEF BranchOK, Tip, Grows
<1>2. ASSUME NEW d \in Groups, running[d].step \in {"list", "send", "gate", "failed"}
      PROVE  Earned(branch', d, running[d].head, running[d].ctx)
  <2>1. running[d] # NoRun
    BY <1>2, NoRunIsTyped
  <2>2. running[d].head \in 1 .. Tip /\ Earned(branch, d, running[d].head, running[d].ctx)
    BY <1>2, <2>1 DEF JudgeInv, RunsOK
  <2> QED
    BY <1>1, <2>2, EarnedStays DEF Grows
<1>3. RunsOK'
  BY <1>1, <1>2 DEF JudgeInv, RunsOK
<1>4. JudgedOrDue'
  BY DEF JudgeInv, JudgedOrDue, LatestRun, Tip
<1> QED
  BY <1>3, <1>4, ChecksStay DEF JudgeInv

(* A run goes on with what its jobs found out.                             *)
LEMMA RunGoesOn ==
    ASSUME BranchOK, JudgeInv, UNCHANGED <<branch, pending, check, file>>,
           NEW g \in Groups, NEW r \in RunType, running' = [running EXCEPT ![g] = r],
           running[g] # NoRun, r.head = running[g].head, r.step \in {"list", "send", "gate", "failed"},
           Earned(branch, g, r.head, r.ctx)
    PROVE  JudgeInv'
<1>1. Grows /\ Tip' = Tip
  BY UnchangedGrows DEF JudgeInv
<1>2. running \in [Groups -> RunType] /\ r # NoRun
  BY NoRunIsTyped DEF JudgeInv, RunsOK
<1>3. running'[g] = r /\ \A d \in Groups \ {g} : running'[d] = running[d]
  BY <1>2
<1>4. RunsOK'
  BY <1>1, <1>2, <1>3 DEF JudgeInv, RunsOK
<1>5. JudgedOrDue'
  BY <1>1, <1>2, <1>3 DEF JudgeInv, JudgedOrDue, LatestRun, Groups
<1> QED
  BY <1>1, <1>4, <1>5, ChecksStay DEF JudgeInv

LEMMA JobsKeep ==
    ASSUME BranchOK, JudgeInv, NEW g \in Groups, Jobs(g)
    PROVE  JudgeInv'
<1>1. PICK ctx \in Contexts(g, running[g]) :
        running' = [running EXCEPT ![g].ctx = ctx,
                                   ![g].step = IF running[g].numbered THEN "list" ELSE "gate"]
  BY DEF Jobs
<1>2. running \in [Groups -> RunType] /\ running[g].step = "jobs"
  BY DEF Jobs, JudgeInv, RunsOK
<1>3. running[g] # NoRun /\ running[g].head \in 1 .. Tip
  BY <1>2, NoRunIsTyped DEF JudgeInv, RunsOK
<1>4. ctx \in ContextType /\ Earned(branch, g, running[g].head, ctx)
  BY <1>2, <1>3, ContextsAreEarned
<1> DEFINE next == IF running[g].numbered THEN "list" ELSE "gate"
           r == [running[g] EXCEPT !.ctx = ctx, !.step = next]
<1>5. running' = [running EXCEPT ![g] = r]
  BY <1>1, <1>2
<1>6. /\ r \in RunType /\ r.head = running[g].head /\ r.ctx = ctx
      /\ r.step \in {"list", "send", "gate", "failed"}
  <2>1. next \in {"list", "gate"}
    OBVIOUS
  <2> HIDE DEF next
  <2> QED
    BY <1>2, <1>4, <2>1 DEF RunType, Steps, After
<1>7. UNCHANGED <<branch, pending, check, file>>
  BY DEF Jobs
<1> HIDE DEF r
<1> QED
  BY <1>3, <1>4, <1>5, <1>6, <1>7, RunGoesOn

LEMMA CommentingKeeps ==
    ASSUME BranchOK, JudgeInv, CommentsOK, NEW g \in Groups, List(g) \/ Send(g)
    PROVE  JudgeInv'
<1>1. running \in [Groups -> RunType] /\ running[g].step \in {"list", "send"}
  BY DEF List, Send, JudgeInv, RunsOK
<1>2. /\ running[g] # NoRun
      /\ Earned(branch, g, running[g].head, running[g].ctx)
  BY <1>1, NoRunIsTyped DEF JudgeInv, RunsOK
<1>3. UNCHANGED <<branch, pending, check, file>>
  BY DEF List, Send
<1>4. ASSUME NEW next \in After, running' = [running EXCEPT ![g].step = next]
      PROVE  JudgeInv'
  <2> DEFINE r == [running[g] EXCEPT !.step = next]
  <2>1. running' = [running EXCEPT ![g] = r]
    BY <1>1, <1>4
  <2>2. /\ r \in RunType /\ r.head = running[g].head /\ r.ctx = running[g].ctx
        /\ r.step = next /\ next \in {"list", "send", "gate", "failed"}
    BY <1>1 DEF RunType, Steps, After
  <2> HIDE DEF r
  <2> QED
    BY <1>2, <1>3, <2>1, <2>2, RunGoesOn
<1>5. CASE running' = [running EXCEPT ![g].existing = Existing, ![g].step = "send"]
  <2> DEFINE r == [running[g] EXCEPT !.existing = Existing, !.step = "send"]
  <2>1. running' = [running EXCEPT ![g] = r]
    BY <1>1, <1>5
  <2>2. Existing \in Nat
    <3> DEFINE onPage == {k \in DOMAIN comments : k <= PageSize /\ comments[k].marker}
    <3>1. onPage \in SUBSET Nat
      BY DEF CommentsOK
    <3> QED
      BY <3>1, LeastNatural DEF Existing
  <2>3. r \in RunType /\ r.head = running[g].head /\ r.step = "send" /\ r.ctx = running[g].ctx
    BY <1>1, <2>2 DEF RunType, Steps
  <2> HIDE DEF r
  <2> QED
    BY <1>2, <1>3, <2>1, <2>3, RunGoesOn
<1> QED
  BY <1>4, <1>5 DEF List, Send

(* A run ends, with the verdict of the gate or without one.                *)
LEMMA GateEnds ==
    ASSUME RunsOK, NEW g \in Groups, Gate(g) \/ JobFails(g)
    PROVE  /\ running[g].step \in After /\ running[g] # NoRun
           /\ Ends(g) /\ UNCHANGED <<branch, comments, dispatched, sent, file>>
           /\ \E result \in {Verdict(file, running[g].ctx).result, "error"} :
                check' = [check EXCEPT ![running[g].head] =
                            [result |-> result, by |-> g, ctx |-> running[g].ctx]]
<1>1. /\ running[g].step \in After
      /\ Ends(g) /\ UNCHANGED <<branch, comments, dispatched, sent, file>>
  BY DEF Gate, JobFails, After
<1>2. running[g] # NoRun
  BY <1>1, NoRunIsTyped DEF After
<1>3. CASE Gate(g)
  BY <1>1, <1>2, <1>3 DEF Gate, Evaluated, Checked
<1>4. CASE JobFails(g)
  BY <1>1, <1>2, <1>4 DEF JobFails, Checked
<1> QED
  BY <1>3, <1>4

LEMMA GateKeeps ==
    ASSUME BranchOK, JudgeInv, NEW g \in Groups, Gate(g) \/ JobFails(g)
    PROVE  JudgeInv'
<1>1. /\ running \in [Groups -> RunType] /\ pending \in [Groups -> RunType]
      /\ running[g].step \in {"list", "send", "gate", "failed"}
      /\ running[g] # NoRun
  BY GateEnds DEF JudgeInv, RunsOK, After
<1>2. /\ running[g].head \in 1 .. Tip
      /\ Earned(branch, g, running[g].head, running[g].ctx)
  BY <1>1 DEF JudgeInv, RunsOK
<1>3. /\ running' = [running EXCEPT ![g] = pending[g]]
      /\ pending' = [pending EXCEPT ![g] = NoRun]
      /\ UNCHANGED <<branch, file>>
  BY GateEnds DEF JudgeInv, Ends
<1>4. Grows /\ Tip' = Tip /\ Tip \in Nat /\ Tip <= MaxCommits
  BY UnchangedGrows, <1>3 DEF JudgeInv, ChecksOK, BranchOK, Tip
<1> PICK result \in {Verdict(file, running[g].ctx).result, "error"} :
        check' = [check EXCEPT ![running[g].head] =
                    [result |-> result, by |-> g, ctx |-> running[g].ctx]]
  BY GateEnds DEF JudgeInv
<1> DEFINE h == running[g].head
           c == [result |-> result, by |-> g, ctx |-> running[g].ctx]
<1>5. check' = [check EXCEPT ![h] = c] /\ check \in [1 .. MaxCommits -> CheckType]
  BY DEF JudgeInv, ChecksOK
<1>6. c \in CheckType /\ c # NoCheck
  <2>1. result \in {"PASS", "FAIL", "error"}
    BY DEF Verdict
  <2> QED
    BY <1>1, <2>1 DEF CheckType, RunType, NoCheck, Groups
<1>7. h \in 1 .. MaxCommits
  BY <1>2, <1>4, PullRequestAssumption
<1>8. ChecksOK'
  <2>1. /\ c.by = g /\ c.ctx = running[g].ctx
        /\ c.result \in {Verdict(file, running[g].ctx).result, "error"}
    OBVIOUS
  <2> HIDE DEF c, h
  <2>2. check'[h] = c /\ \A k \in 1 .. MaxCommits \ {h} : check'[k] = check[k]
    BY <1>5, <1>7
  <2>3. check' \in [1 .. MaxCommits -> CheckType]
    BY <1>5, <1>6
  <2>4. Earned(branch, c.by, h, c.ctx) /\ h <= Tip
    BY <1>2, <1>4, <2>1 DEF h
  <2> QED
    BY <1>3, <1>4, <2>1, <2>2, <2>3, <2>4 DEF JudgeInv, ChecksOK
<1>9. RunsOK'
  BY <1>1, <1>3, <1>4, NoRunIsTyped DEF JudgeInv, RunsOK
<1>10. JudgedOrDue'
  <2> HIDE DEF c
  <2>1. \A k \in 1 .. MaxCommits : check[k] # NoCheck => check'[k] # NoCheck
    BY <1>5, <1>6
  <2>2. Tip \in 1 .. MaxCommits
    BY <1>2, <1>4, PullRequestAssumption
  <2>3. h = Tip => check'[Tip] # NoCheck
    BY <1>5, <1>6, <1>7
  <2>4. CASE g = "pr"
    BY <1>1, <1>2, <1>3, <1>4, <2>1, <2>2, <2>3, <2>4 DEF JudgeInv, JudgedOrDue, LatestRun
  <2>5. CASE g # "pr"
    BY <1>1, <1>3, <1>4, <2>1, <2>2, <2>5 DEF JudgeInv, JudgedOrDue, LatestRun, Groups
  <2> QED
    BY <2>4, <2>5
<1> QED
  BY <1>8, <1>9, <1>10 DEF JudgeInv

(* A comment is added, or one is replaced.                                 *)
LEMMA CommentIsTyped ==
    ASSUME NEW r \in RunType
    PROVE  Comment(r) \in CommentType
BY DEF Comment, Summary, CommentType, RunType

LEMMA StepKeepsComments ==
    ASSUME RunsOK, CommentsOK, [Next]_vars
    PROVE  CommentsOK'
<1>1. CASE UNCHANGED comments
  BY <1>1 DEF CommentsOK
<1>2. CASE OtherComment
  BY <1>2 DEF OtherComment, CommentsOK, CommentType
<1>3. ASSUME NEW g \in Groups, Send(g), ~UNCHANGED comments
      PROVE  CommentsOK'
  <2>1. PICK r \in RunType :
            comments' = IF r.existing = 0 THEN Append(comments, Comment(r))
                        ELSE [comments EXCEPT ![r.existing] = Comment(r)]
    BY <1>3 DEF Send, RunsOK
  <2>2. Comment(r) \in CommentType
    BY CommentIsTyped
  <2>3. CASE r.existing = 0
    BY <2>1, <2>2, <2>3 DEF CommentsOK
  <2>4. CASE r.existing # 0
    <3>1. comments' = [comments EXCEPT ![r.existing] = Comment(r)]
      BY <2>1, <2>4
    <3>2. /\ comments \in [1 .. Len(comments) -> CommentType]
          /\ Len(comments) \in Nat
      BY DEF CommentsOK
    <3>3. comments' \in [1 .. Len(comments) -> CommentType]
      BY <2>2, <3>1, <3>2
    <3> QED
      BY <3>2, <3>3 DEF CommentsOK
  <2> QED
    BY <2>3, <2>4
<1>4. CASE ~UNCHANGED comments
  <2>1. OtherComment \/ \E g \in Groups : Send(g)
    BY <1>4 DEF Next, vars, DevPush, Reopen, Label, Dispatch, BotGenerate, BotPush, BotExport,
                BotStops, Jobs, List, Gate, JobFails
  <2> QED
    BY <1>2, <1>3, <1>4, <2>1
<1> QED
  BY <1>1, <1>4

LEMMA InitJudges == Init => JudgeInv /\ CommentsOK
<1> SUFFICES ASSUME Init PROVE JudgeInv /\ CommentsOK
  OBVIOUS
<1>1. PICK c \in CommitType : branch = <<c>>
  BY DevCommitIsCommit DEF Init
<1>2. Tip = 1
  BY <1>1 DEF Tip
<1>3. /\ running = [g \in Groups |-> IF g = "pr" THEN Run(1, TRUE) ELSE NoRun]
      /\ pending = [g \in Groups |-> NoRun]
      /\ check = [h \in 1 .. MaxCommits |-> NoCheck]
  BY DEF Init
<1>4. /\ Run(1, TRUE) \in RunType /\ Run(1, TRUE).step = "jobs"
      /\ Run(1, TRUE).head = 1 /\ Run(1, TRUE) # NoRun
  BY NewRunIsTyped
<1>5. RunsOK
  <2>1. \A g \in Groups :
            /\ running[g] = IF g = "pr" THEN Run(1, TRUE) ELSE NoRun
            /\ pending[g] = NoRun
    BY <1>3
  <2>2. running \in [Groups -> RunType] /\ pending \in [Groups -> RunType]
    BY <1>3, <1>4, NoRunIsTyped
  <2>3. ASSUME NEW g \in Groups, running[g] # NoRun
        PROVE  running[g].step = "jobs" /\ running[g].head \in 1 .. Tip
    <3>1. running[g] = Run(1, TRUE)
      BY <2>1, <2>3
    <3>2. 1 \in 1 .. Tip
      BY <1>2
    <3> QED
      BY <1>4, <3>1, <3>2
  <2>4. ASSUME NEW g \in Groups, running[g].step = "none"
        PROVE  running[g] = NoRun
    BY <1>4, <2>1, <2>4
  <2>5. \A g \in Groups : running[g].step \notin {"list", "send", "gate", "failed"}
    BY <2>3, NoRunIsTyped
  <2> QED
    BY <2>1, <2>2, <2>3, <2>4, <2>5 DEF RunsOK
<1>6. NoCheck \in CheckType
  BY NoRunIsTyped DEF NoCheck, CheckType
<1>7. ChecksOK
  BY <1>2, <1>3, <1>6, PullRequestAssumption DEF ChecksOK
<1>8. JudgedOrDue
  BY <1>2, <1>3, <1>4 DEF JudgedOrDue, LatestRun, Groups
<1>9. CommentsOK
  BY DEF Init, CommentsOK
<1> QED
  BY <1>5, <1>7, <1>8, <1>9 DEF JudgeInv

LEMMA StepJudges ==
    ASSUME IInv, JudgeInv, CommentsOK, [Next]_vars
    PROVE  JudgeInv'
<1>1. BranchOK /\ ChecksOK
  BY DEF IInv, JudgeInv
<1>2. CASE DevPush
  <2>1. PICK c \in CommitType : branch' = Append(branch, c)
    BY <1>2, DevPushAppends
  <2>2. Grows /\ Tip' = Tip + 1
    BY <1>1, <1>2, <2>1, AppendsGrow DEF DevPush
  <2>3. Arrive("pr", Run(Tip', TRUE)) /\ UNCHANGED <<check, file>>
    BY <1>2, <2>2 DEF DevPush
  <2>4. "pr" \in Groups /\ TRUE \in BOOLEAN
    BY DEF Groups
  <2> QED
    BY <1>1, <2>2, <2>3, <2>4, ArriveKeeps
<1>3. CASE Reopen \/ Label
  <2>1. UNCHANGED <<branch, check, file>>
    BY <1>3 DEF Reopen, Label
  <2>2. Grows /\ Tip' = Tip
    BY <1>1, <2>1, UnchangedGrows
  <2>3. Arrive("pr", Run(Tip', TRUE))
    BY <1>3, <2>2 DEF Reopen, Label
  <2> QED
    BY <1>1, <2>1, <2>2, <2>3, ArriveKeeps DEF Groups
<1>4. CASE Dispatch
  <2>1. UNCHANGED <<branch, check, file>>
    BY <1>4 DEF Dispatch
  <2>2. Grows /\ Tip' = Tip
    BY <1>1, <2>1, UnchangedGrows
  <2>3. PICK numbered \in BOOLEAN : Arrive("dispatch", Run(Tip', numbered))
    BY <1>4, <2>2 DEF Dispatch
  <2> QED
    BY <1>1, <2>1, <2>2, <2>3, ArriveKeeps DEF Groups
<1>5. CASE BotPush /\ bot.running.head = Tip
  <2>1. PICK c \in CommitType : branch' = Append(branch, c) /\ c.by = "bot"
    BY <1>1, <1>5, BotPushAppends
  <2>2. Grows /\ branch'[Tip'].by = "bot"
    BY <1>1, <1>5, <2>1, AppendsGrow DEF BotPush
  <2>3. UNCHANGED <<running, pending, check, file>>
    BY <1>5 DEF BotPush
  <2> QED
    BY <1>1, <2>2, <2>3, RunsUnchangedKeep
<1>6. CASE OtherComment \/ BotGenerate \/ BotExport \/ BotStops
            \/ (BotPush /\ bot.running.head # Tip) \/ UNCHANGED vars
  <2>1. UNCHANGED <<branch, running, pending, check, file>>
    BY <1>6 DEF OtherComment, BotGenerate, BotExport, BotStops, BotPush, vars
  <2>2. Grows
    BY <1>1, <2>1, UnchangedGrows
  <2> QED
    BY <1>1, <2>1, <2>2, RunsUnchangedKeep
<1>7. ASSUME NEW g \in Groups, Jobs(g) \/ List(g) \/ Send(g) \/ Gate(g) \/ JobFails(g)
      PROVE  JudgeInv'
  BY <1>1, <1>7, JobsKeep, CommentingKeeps, GateKeeps
<1> QED
  BY <1>2, <1>3, <1>4, <1>5, <1>6, <1>7 DEF Next

LEMMA JudgeInvariant == Spec => [](IInv /\ JudgeInv /\ CommentsOK)
<1>1. Init => IInv /\ JudgeInv /\ CommentsOK
  BY InitIInv, InitJudges
<1>2. (IInv /\ JudgeInv /\ CommentsOK) /\ [Next]_vars => (IInv /\ JudgeInv /\ CommentsOK)'
  BY StepKeeps, StepJudges, StepKeepsComments DEF JudgeInv
<1> QED
  BY <1>1, <1>2, PTL DEF Spec

(* Every head gets its check, whichever runs were cancelled, replaced or   *)
(* failed: except one the bot pushed, as that starts no run                *)
(* (l9-self-ci.yml, its concurrency group).                                 *)
THEOREM EveryHeadIsJudged == Spec => []HeadIsJudged
<1>1. JudgeInv => HeadIsJudged
  BY DEF JudgeInv, JudgedOrDue, HeadIsJudged
<1> QED
  BY <1>1, JudgeInvariant, PTL

(* While the secret rule blocks, a head that passes has no secret in any   *)
(* commit gitleaks reported on, and its scanning job did not fail          *)
(* (evaluate_ci_gate.py).                                                   *)
THEOREM ScanCorrectness == Spec => []ScannedSecretsBlock
<1>1. ASSUME BranchOK, JudgeInv PROVE ScannedSecretsBlock
  <2> SUFFICES ASSUME NEW h \in 1 .. Tip, check[h].result = "PASS",
                      ModeFor(file, "SECRET-LEAK-NEW") = "blocking"
               PROVE  /\ check[h].ctx.secret_scan # "failure"
                      /\ \A k \in check[h].ctx.scanned : ~branch[k].secret
    BY DEF ScannedSecretsBlock
  <2>1. h \in 1 .. MaxCommits /\ check[h] # NoCheck
    BY <1>1, PullRequestAssumption DEF JudgeInv, ChecksOK, NoCheck, BranchOK, Tip
  <2>2. /\ Verdict(file, check[h].ctx).result = "PASS"
        /\ Earned(branch, check[h].by, h, check[h].ctx)
    BY <1>1, <2>1 DEF JudgeInv, ChecksOK
  <2>3. "SECRET-LEAK-NEW" \notin Triggered(check[h].ctx)
    BY <2>2 DEF Verdict
  <2>4. /\ check[h].ctx.secret_scan \notin FailResults
        /\ ~(check[h].ctx.secret_findings > 0)
    BY <2>3 DEF Triggered, Rules
  <2> QED
    BY <2>2, <2>4 DEF Earned, FailResults
<1> QED
  BY <1>1, JudgeInvariant, PTL DEF IInv

(* While the rule for unknown differences blocks, a head that passes has   *)
(* no unclassified path, and one called docs_only only documentation       *)
(* (classify_pr.py).                                                        *)
THEOREM ClassCorrectness == Spec => []ClassIsEarned
<1>1. ASSUME BranchOK, JudgeInv PROVE ClassIsEarned
  <2> SUFFICES ASSUME NEW h \in 1 .. Tip, check[h].by = "pr", check[h].ctx.classify = "success"
               PROVE  /\ (check[h].result = "PASS" /\ ModeFor(file, "UNKNOWN-DIFF") = "blocking")
                           => \A p \in branch[h].changed : Tags[p] # {}
                      /\ check[h].ctx.pr_class = "docs_only" =>
                           \A p \in branch[h].changed : Tags[p] = {"docs_only"}
    BY DEF ClassIsEarned
  <2>1. h \in 1 .. MaxCommits /\ check[h] # NoCheck
    BY <1>1, PullRequestAssumption DEF JudgeInv, ChecksOK, NoCheck, BranchOK, Tip
  <2>2. /\ check[h].result \in {Verdict(file, check[h].ctx).result, "error"}
        /\ Earned(branch, "pr", h, check[h].ctx)
    BY <1>1, <2>1 DEF JudgeInv, ChecksOK
  <2>3. (check[h].result = "PASS" /\ ModeFor(file, "UNKNOWN-DIFF") = "blocking")
          => ~check[h].ctx.diff_unknown
    <3> SUFFICES ASSUME check[h].result = "PASS", ModeFor(file, "UNKNOWN-DIFF") = "blocking"
                 PROVE  ~check[h].ctx.diff_unknown
      OBVIOUS
    <3>1. "UNKNOWN-DIFF" \notin Triggered(check[h].ctx)
      BY <2>2 DEF Verdict
    <3> QED
      BY <3>1 DEF Triggered, Rules
  <2> QED
    BY <2>2, <2>3 DEF Earned
<1> QED
  BY <1>1, JudgeInvariant, PTL DEF IInv

(* The verdict of the gate disagrees with the comment only where a rule's  *)
(* mode makes it (render_ci_summary.py and evaluate_ci_gate.py), also if   *)
(* the runs of some heads fail before their gate.                          *)
THEOREM AgreementCorrectness == Spec => []SummaryAgreesWithGate
<1>1. ASSUME BranchOK, JudgeInv PROVE SummaryAgreesWithGate
  <2> SUFFICES ASSUME NEW h \in 1 .. Tip
               PROVE  /\ check[h].result = "PASS" /\ Summary(check[h].ctx) = "FAIL" =>
                           ModeFor(file, "SECRET-LEAK-NEW") # "blocking"
                      /\ check[h].result = "FAIL" /\ Summary(check[h].ctx) = "PASS" =>
                           /\ check[h].ctx.diff_unknown
                           /\ ModeFor(file, "UNKNOWN-DIFF") = "blocking"
    BY DEF SummaryAgreesWithGate
  <2> DEFINE c == check[h].ctx
             Blocks == {r \in Triggered(c) : ModeFor(file, r) = "blocking"}
  <2>1. h \in 1 .. MaxCommits
    BY <1>1, PullRequestAssumption DEF JudgeInv, ChecksOK, BranchOK, Tip
  <2>2. check[h].result \in {"PASS", "FAIL"} =>
          check[h].result = IF Blocks # {} THEN "FAIL" ELSE "PASS"
    <3>1. check[h].result \in {"PASS", "FAIL"} =>
            check[h].result = Verdict(file, c).result
      BY <1>1, <2>1 DEF JudgeInv, ChecksOK, NoCheck
    <3> QED
      BY <3>1 DEF Verdict
  <2>3. Summary(c) = IF "SECRET-LEAK-NEW" \in Triggered(c) THEN "FAIL" ELSE "PASS"
    BY DEF Summary, Triggered, Rules
  <2>4. ASSUME check[h].result = "PASS", Summary(c) = "FAIL"
        PROVE  ModeFor(file, "SECRET-LEAK-NEW") # "blocking"
    BY <2>2, <2>3, <2>4
  <2>5. ASSUME check[h].result = "FAIL", Summary(c) = "PASS"
        PROVE  c.diff_unknown /\ ModeFor(file, "UNKNOWN-DIFF") = "blocking"
    <3>1. Blocks # {} /\ "SECRET-LEAK-NEW" \notin Triggered(c)
      BY <2>2, <2>3, <2>5
    <3>2. "UNKNOWN-DIFF" \in Blocks
      BY <3>1 DEF Triggered, Rules
    <3> QED
      BY <3>2 DEF Triggered
  <2> QED
    BY <2>4, <2>5
<1> QED
  BY <1>1, JudgeInvariant, PTL DEF IInv

-----------------------------------------------------------------------------
(* The comments, while no run that writes one was dispatched by hand: the  *)
(* runs of the pull request are then the only writers, one at a time.      *)
OneOnPage == \A k, l \in Markers : k <= PageSize => l = k

(* What a run found before it writes.                                      *)
Found(existing) ==
    \/ existing = 0 /\ \A k \in Markers : k > PageSize
    \/ existing \in Markers /\ existing <= PageSize

WritersOK ==
    /\ \A r \in {running["dispatch"], pending["dispatch"]} :
        ~r.numbered /\ r.step \notin {"list", "send"}
    /\ \A r \in {running["pr"], pending["pr"]} : r.step = "jobs" => r.numbered
    /\ running["pr"].step = "send" => Found(running["pr"].existing)

(* Runs of the pull request are of later and later heads.                  *)
HeadsInOrder ==
    /\ running["pr"] # NoRun =>
        /\ \A h \in 1 .. Tip : check[h].by = "pr" => h <= running["pr"].head
        /\ pending["pr"] # NoRun => running["pr"].head <= pending["pr"].head

Says(k, h, ctx) ==
    /\ \A l \in Markers : l <= k
    /\ comments[k].of = h
    /\ comments[k].result = Summary(ctx)

(* The last comment is of the run that ends, or of the last that ended.    *)
LastIsCurrent ==
    sent =>
        /\ running["pr"].step \in After =>
             \E k \in Markers : Says(k, running["pr"].head, running["pr"].ctx)
        /\ running["pr"] = NoRun =>
             \E k \in Markers :
                /\ \A l \in Markers : l <= k
                /\ \A h \in 1 .. Tip : check[h].by = "pr" => h <= comments[k].of
                /\ check[comments[k].of].by = "pr" =>
                     comments[k].result = Summary(check[comments[k].of].ctx)
                /\ comments[k].of \in 1 .. Tip

CommentInv ==
    ~dispatched => OneOnPage /\ WritersOK /\ HeadsInOrder /\ LastIsCurrent

(* The comments a step leaves alone, and what other steps do around them.  *)
CommentsStay == Markers' = Markers /\ \A k \in Markers : comments'[k] = comments[k]

LEMMA UnchangedCommentsStay ==
    ASSUME UNCHANGED comments
    PROVE  CommentsStay
BY DEF CommentsStay, Markers

LEMMA OtherCommentsStay ==
    ASSUME CommentsOK, OtherComment
    PROVE  CommentsStay
<1>1. PICK c : comments' = Append(comments, c) /\ c.marker = FALSE
  BY DEF OtherComment
<1>2. /\ DOMAIN comments = 1 .. Len(comments) /\ Len(comments) \in Nat
      /\ DOMAIN comments' = 1 .. Len(comments) + 1
      /\ \A k \in 1 .. Len(comments) : comments'[k] = comments[k]
      /\ comments'[Len(comments) + 1] = c
  BY <1>1 DEF CommentsOK
<1> QED
  BY <1>1, <1>2 DEF CommentsStay, Markers

(* No head beyond the branch has been checked.                             *)
LEMMA CheckedHeads ==
    ASSUME BranchOK, ChecksOK, Grows, NEW h \in 1 .. Tip', check[h].by = "pr"
    PROVE  h \in 1 .. Tip
<1>1. h \in 1 .. MaxCommits
  BY PullRequestAssumption DEF Grows
<1>2. check[h] # NoCheck
  BY DEF NoCheck
<1> QED
  BY <1>1, <1>2 DEF ChecksOK

(* The branch grows and a run may arrive: nothing is written.              *)
LEMMA ArrivalsInOrder ==
    ASSUME BranchOK, JudgeInv, CommentInv, Grows, NEW g \in Groups, NEW numbered \in BOOLEAN,
           Arrive(g, Run(Tip', numbered)), numbered <=> g = "pr",
           UNCHANGED <<comments, dispatched, sent, check>>
    PROVE  CommentInv'
<1> SUFFICES ASSUME ~dispatched PROVE (OneOnPage /\ WritersOK /\ HeadsInOrder /\ LastIsCurrent)'
  BY DEF CommentInv
<1> DEFINE r == Run(Tip', numbered)
<1>1. Tip \in Nat /\ Tip' \in Nat /\ Tip <= Tip'
  BY DEF BranchOK, Tip, Grows
<1>2. r \in RunType /\ r.step = "jobs" /\ r.head = Tip' /\ r # NoRun /\ r.numbered = numbered
  BY <1>1, NewRunIsTyped
<1>3. Arrive(g, r)
  OBVIOUS
<1> HIDE DEF r
<1>4. running \in [Groups -> RunType] /\ pending \in [Groups -> RunType]
  BY DEF JudgeInv, RunsOK
<1>5. OneOnPage /\ WritersOK /\ HeadsInOrder /\ LastIsCurrent
  BY DEF CommentInv
<1>6. Markers' = Markers
  BY DEF Markers
<1>7. \A d \in Groups \ {g} : running'[d] = running[d] /\ pending'[d] = pending[d]
  BY <1>3, <1>4 DEF Arrive
<1>8. \/ /\ running[g] = NoRun /\ pending[g] = NoRun
         /\ running'[g] = r /\ pending'[g] = NoRun
      \/ /\ running[g] # NoRun /\ running'[g] # NoRun
         /\ running'[g].step = running[g].step /\ running'[g].head = running[g].head
         /\ running'[g].numbered = running[g].numbered /\ running'[g].ctx = running[g].ctx
         /\ running'[g].existing = running[g].existing
         /\ pending'[g] = r
  <2>1. CASE running[g] = NoRun
    BY <1>3, <1>4, <2>1 DEF Arrive, JudgeInv, RunsOK
  <2>2. CASE running[g] # NoRun
    <3>1. running[g].step # "none"
      BY <2>2 DEF JudgeInv, RunsOK
    <3>2. /\ running' = [running EXCEPT ![g].cancelled = TRUE]
          /\ pending' = [pending EXCEPT ![g] = r]
      BY <1>3, <2>2 DEF Arrive
    <3>3. /\ running'[g].step = running[g].step /\ running'[g].head = running[g].head
          /\ running'[g].numbered = running[g].numbered /\ running'[g].ctx = running[g].ctx
          /\ running'[g].existing = running[g].existing
      BY <1>4, <3>2 DEF RunType
    <3> QED
      BY <1>4, <2>2, <3>1, <3>2, <3>3, NoRunIsTyped
  <2> QED
    BY <2>1, <2>2
<1>9. OneOnPage'
  BY <1>5, <1>6 DEF OneOnPage
<1>10. WritersOK'
  BY <1>2, <1>5, <1>6, <1>7, <1>8, NoRunIsTyped DEF WritersOK, Found, Groups
<1>11. \A h \in 1 .. Tip' : check'[h].by = "pr" => h \in 1 .. Tip /\ check[h].by = "pr"
  BY CheckedHeads DEF JudgeInv
<1>12. HeadsInOrder'
  <2>1. running["pr"] # NoRun => running["pr"].head \in 1 .. Tip
    BY DEF JudgeInv, RunsOK, Groups
  <2>2. CASE g = "pr"
    BY <1>1, <1>2, <1>5, <1>8, <1>11, <2>1, <2>2 DEF HeadsInOrder
  <2>3. CASE g # "pr"
    BY <1>5, <1>7, <1>11, <2>3 DEF HeadsInOrder, Groups
  <2> QED
    BY <2>2, <2>3
<1>13. LastIsCurrent'
  <2>1. running'["pr"] # NoRun \/ running'["pr"] = running["pr"]
    BY <1>2, <1>7, <1>8 DEF Groups
  <2>2. running'["pr"].step \in After =>
            /\ running["pr"].step \in After
            /\ running'["pr"].head = running["pr"].head
            /\ running'["pr"].ctx = running["pr"].ctx
    BY <1>2, <1>7, <1>8 DEF Groups, After
  <2>3. CASE running'["pr"].step \in After
    BY <1>5, <1>6, <2>2, <2>3, NoRunIsTyped DEF LastIsCurrent, Says, After
  <2>4. CASE running'["pr"].step \notin After
    BY <1>1, <1>5, <1>6, <1>11, <2>1, <2>4 DEF LastIsCurrent
  <2> QED
    BY <2>3, <2>4
<1> QED
  BY <1>9, <1>10, <1>12, <1>13

LEMMA RunsUnchangedInOrder ==
    ASSUME BranchOK, JudgeInv, CommentInv, Grows, CommentsStay,
           UNCHANGED <<running, pending, dispatched, sent, check>>
    PROVE  CommentInv'
<1> SUFFICES ASSUME ~dispatched PROVE (OneOnPage /\ WritersOK /\ HeadsInOrder /\ LastIsCurrent)'
  BY DEF CommentInv
<1>1. Tip \in Nat /\ Tip' \in Nat /\ Tip <= Tip'
  BY DEF BranchOK, Tip, Grows
<1>2. OneOnPage /\ WritersOK /\ HeadsInOrder /\ LastIsCurrent
  BY DEF CommentInv
<1>3. \A h \in 1 .. Tip' : check'[h].by = "pr" => h \in 1 .. Tip /\ check[h].by = "pr"
  BY CheckedHeads DEF JudgeInv
<1>4. OneOnPage' /\ WritersOK'
  BY <1>2 DEF OneOnPage, WritersOK, Found, CommentsStay
<1>5. HeadsInOrder'
  BY <1>2, <1>3 DEF HeadsInOrder
<1>6. LastIsCurrent'
  BY <1>1, <1>2, <1>3 DEF LastIsCurrent, Says, CommentsStay
<1> QED
  BY <1>4, <1>5, <1>6

(* The jobs end: only a run that was dispatched goes straight to its gate. *)
LEMMA JobsInOrder ==
    ASSUME BranchOK, JudgeInv, CommentInv, NEW g \in Groups, Jobs(g)
    PROVE  CommentInv'
<1> SUFFICES ASSUME ~dispatched' PROVE (OneOnPage /\ WritersOK /\ HeadsInOrder /\ LastIsCurrent)'
  BY DEF CommentInv
<1>1. /\ running[g].step = "jobs"
      /\ UNCHANGED <<branch, pending, comments, dispatched, sent, check>>
  BY DEF Jobs
<1>2. OneOnPage /\ WritersOK /\ HeadsInOrder /\ LastIsCurrent
  BY <1>1 DEF CommentInv
<1>3. Markers' = Markers /\ Tip' = Tip
  BY <1>1 DEF Markers, Tip
<1>4. running \in [Groups -> RunType] /\ running[g] # NoRun
  BY <1>1, NoRunIsTyped DEF JudgeInv, RunsOK
<1>5. /\ \A d \in Groups \ {g} : running'[d] = running[d]
      /\ running'[g].head = running[g].head /\ running'[g].numbered = running[g].numbered
      /\ running'[g].step = IF running[g].numbered THEN "list" ELSE "gate"
  BY <1>4 DEF Jobs, RunType
<1>6. running'[g] # NoRun
  BY <1>5, NoRunIsTyped
<1>7. CASE g = "pr"
  <2>1. running'["pr"].step = "list"
    BY <1>1, <1>2, <1>5, <1>7 DEF WritersOK
  <2>2. running'["dispatch"] = running["dispatch"]
    BY <1>5, <1>7 DEF Groups
  <2>3. OneOnPage' /\ WritersOK'
    BY <1>1, <1>2, <1>3, <2>1, <2>2 DEF OneOnPage, WritersOK
  <2>4. HeadsInOrder' /\ LastIsCurrent'
    BY <1>1, <1>2, <1>3, <1>4, <1>5, <1>6, <1>7, <2>1 DEF HeadsInOrder, LastIsCurrent, After
  <2> QED
    BY <2>3, <2>4
<1>8. CASE g = "dispatch"
  <2>1. running'["pr"] = running["pr"]
    BY <1>5, <1>8 DEF Groups
  <2>2. running'["dispatch"].step = "gate" /\ ~running'["dispatch"].numbered
    BY <1>2, <1>5, <1>8 DEF WritersOK
  <2>3. OneOnPage' /\ WritersOK'
    BY <1>1, <1>2, <1>3, <2>1, <2>2 DEF OneOnPage, WritersOK, Found
  <2>4. HeadsInOrder' /\ LastIsCurrent'
    BY <1>1, <1>2, <1>3, <2>1 DEF HeadsInOrder, LastIsCurrent, Says
  <2> QED
    BY <2>3, <2>4
<1> QED
  BY <1>7, <1>8 DEF Groups

(* What is found on the first page is the one marker there is on it.       *)
LEMMA ExistingIsFound ==
    ASSUME CommentsOK, OneOnPage
    PROVE  Found(Existing)
<1> DEFINE onPage == {k \in DOMAIN comments : k <= PageSize /\ comments[k].marker}
<1>1. onPage = {k \in Markers : k <= PageSize} /\ onPage \in SUBSET Nat
  BY DEF CommentsOK, Markers
<1>2. CASE onPage = {}
  <2>1. Existing = 0
    BY <1>2 DEF Existing
  <2>2. \A k \in Markers : k \in Nat /\ ~(k <= PageSize)
    BY <1>1, <1>2 DEF Markers, CommentsOK
  <2> QED
    BY <2>1, <2>2, PullRequestAssumption DEF Found
<1>3. CASE onPage # {}
  <2>1. Existing = CHOOSE k \in onPage : \A l \in onPage : k <= l
    BY <1>3 DEF Existing
  <2> HIDE DEF onPage
  <2>2. Existing \in onPage
    BY <1>1, <1>3, <2>1, LeastNatural
  <2> QED
    BY <1>1, <2>2 DEF Found
<1> QED
  BY <1>2, <1>3

LEMMA ListInOrder ==
    ASSUME BranchOK, JudgeInv, CommentsOK, CommentInv, NEW g \in Groups, List(g)
    PROVE  CommentInv'
<1> SUFFICES ASSUME ~dispatched' PROVE (OneOnPage /\ WritersOK /\ HeadsInOrder /\ LastIsCurrent)'
  BY DEF CommentInv
<1>1. /\ running[g].step = "list"
      /\ UNCHANGED <<branch, pending, comments, dispatched, check>>
  BY DEF List
<1>2. OneOnPage /\ WritersOK /\ HeadsInOrder /\ LastIsCurrent
  BY <1>1 DEF CommentInv
<1>3. g = "pr"
  BY <1>1, <1>2 DEF WritersOK, Groups
<1>4. Markers' = Markers /\ Tip' = Tip
  BY <1>1 DEF Markers, Tip
<1>5. running \in [Groups -> RunType] /\ running["pr"] # NoRun
  BY <1>1, <1>3, NoRunIsTyped DEF JudgeInv, RunsOK
<1>6. /\ running'["dispatch"] = running["dispatch"]
      /\ running'["pr"].head = running["pr"].head
      /\ \/ running'["pr"].step = "send" /\ running'["pr"].existing = Existing
         \/ running'["pr"].step \in After /\ ~sent'
  <2>1. CASE running' = [running EXCEPT !["pr"].existing = Existing, !["pr"].step = "send"]
    <3>1. running["pr"] \in RunType /\ "pr" \in DOMAIN running /\ "dispatch" \in DOMAIN running
      BY <1>5 DEF Groups
    <3>2. /\ running'["dispatch"] = running["dispatch"]
          /\ running'["pr"] = [running["pr"] EXCEPT !.existing = Existing, !.step = "send"]
      BY <2>1, <3>1
    <3> QED
      BY <3>1, <3>2 DEF RunType
  <2>2. ASSUME NEW next \in After, running' = [running EXCEPT !["pr"].step = next], ~sent'
        PROVE  /\ running'["dispatch"] = running["dispatch"]
               /\ running'["pr"].head = running["pr"].head
               /\ running'["pr"].step \in After
    BY <1>5, <2>2 DEF RunType, Groups
  <2> QED
    BY <1>3, <2>1, <2>2 DEF List
<1>7. running'["pr"] # NoRun
  BY <1>6, NoRunIsTyped DEF After
<1>8. OneOnPage' /\ (Found(Existing) => WritersOK')
  BY <1>1, <1>2, <1>4, <1>6 DEF OneOnPage, WritersOK, Found, After
<1>9. HeadsInOrder'
  BY <1>1, <1>2, <1>4, <1>5, <1>6, <1>7 DEF HeadsInOrder
<1>10. LastIsCurrent'
  <2>1. running'["pr"].step \in After => ~sent'
    BY <1>6 DEF After
  <2> QED
    BY <1>7, <2>1 DEF LastIsCurrent
<1> QED
  BY <1>2, <1>8, <1>9, <1>10, ExistingIsFound

(* A marker on the first page is replaced; without one, the comment comes  *)
(* after all others, on the first page only if it is the only marker.      *)
LEMMA SendWrites ==
    ASSUME CommentsOK, OneOnPage, NEW r \in RunType, Found(r.existing),
           comments' = IF r.existing = 0 THEN Append(comments, Comment(r))
                       ELSE [comments EXCEPT ![r.existing] = Comment(r)]
    PROVE  /\ OneOnPage'
           /\ \E k \in Markers' : Says(k, r.head, r.ctx)'
<1> DEFINE c == Comment(r)
<1>1. c.marker /\ c.of = r.head /\ c.result = Summary(r.ctx)
  BY DEF Comment
<1> PICK n \in Nat : n = Len(comments)
  BY DEF CommentsOK
<1>2. /\ DOMAIN comments = 1 .. n
      /\ Markers \subseteq 1 .. n /\ PageSize \in Nat
  BY PullRequestAssumption DEF CommentsOK, Markers
<1>3. CASE r.existing = 0
  <2>1. comments' = Append(comments, c)
    BY <1>3
  <2> HIDE DEF c
  <2>2. /\ DOMAIN comments' = 1 .. n + 1 /\ comments'[n + 1] = c
        /\ \A k \in 1 .. n : comments'[k] = comments[k]
    BY <2>1 DEF CommentsOK
  <2>3. Markers' = Markers \cup {n + 1}
    <3>1. c.marker
      BY <1>1
    <3> QED
      BY <1>2, <2>2, <3>1 DEF Markers
  <2>4. \A k \in Markers : k > PageSize
    BY <1>2, <1>3 DEF Found
  <2>5. \A k \in Markers' : k <= n + 1
    BY <1>2, <2>3
  <2>6. n + 1 <= PageSize => Markers = {}
    BY <1>2, <2>4
  <2>7. OneOnPage'
    BY <1>2, <2>3, <2>4, <2>6 DEF OneOnPage
  <2>8. Says(n + 1, r.head, r.ctx)'
    BY <1>1, <2>2, <2>5 DEF Says
  <2> QED
    BY <2>3, <2>7, <2>8
<1>4. CASE r.existing # 0
  <2>1. comments' = [comments EXCEPT ![r.existing] = c]
    BY <1>4
  <2>2. r.existing \in Markers /\ r.existing <= PageSize
    BY <1>4 DEF Found
  <2>3. Markers = {r.existing}
    BY <2>2 DEF OneOnPage
  <2> HIDE DEF c
  <2>4. Markers' = {r.existing}
    BY <1>1, <1>2, <2>1, <2>2, <2>3 DEF Markers
  <2>5. comments'[r.existing] = c
    BY <1>2, <2>1, <2>2
  <2>6. Says(r.existing, r.head, r.ctx)'
    <3>1. \A l \in Markers' : l <= r.existing
      <4>1. r.existing \in Nat
        BY DEF RunType
      <4>2. r.existing <= r.existing
        BY <4>1
      <4> QED
        BY <2>4, <4>2
    <3>2. c.of = r.head /\ c.result = Summary(r.ctx)
      BY <1>1
    <3> QED
      BY <2>5, <3>1, <3>2 DEF Says
  <2> QED
    BY <2>4, <2>6 DEF OneOnPage
<1> QED
  BY <1>3, <1>4

LEMMA SendInOrder ==
    ASSUME BranchOK, JudgeInv, CommentsOK, CommentInv, NEW g \in Groups, Send(g)
    PROVE  CommentInv'
<1> SUFFICES ASSUME ~dispatched' PROVE (OneOnPage /\ WritersOK /\ HeadsInOrder /\ LastIsCurrent)'
  BY DEF CommentInv
<1>1. /\ running[g].step = "send"
      /\ UNCHANGED <<branch, pending, dispatched, check>>
      /\ \E next \in After : running' = [running EXCEPT ![g].step = next]
  BY DEF Send
<1>2. OneOnPage /\ WritersOK /\ HeadsInOrder /\ LastIsCurrent
  BY <1>1 DEF CommentInv
<1>3. g = "pr" /\ Found(running["pr"].existing)
  BY <1>1, <1>2 DEF WritersOK, Groups
<1>4. running \in [Groups -> RunType] /\ running["pr"] \in RunType /\ running["pr"] # NoRun
  BY <1>1, <1>3, NoRunIsTyped DEF JudgeInv, RunsOK, Groups
<1>5. /\ running'["dispatch"] = running["dispatch"]
      /\ running'["pr"].head = running["pr"].head
      /\ running'["pr"].ctx = running["pr"].ctx
      /\ running'["pr"].step \in After
  BY <1>1, <1>3, <1>4 DEF RunType, Groups
<1>6. running'["pr"] # NoRun /\ Tip' = Tip
  BY <1>1, <1>5, NoRunIsTyped DEF Tip, After
<1>7. WritersOK' /\ HeadsInOrder'
  BY <1>1, <1>2, <1>4, <1>5, <1>6 DEF WritersOK, HeadsInOrder, After
<1>8. CASE UNCHANGED comments /\ ~sent'
  <2>1. OneOnPage'
    BY <1>2, <1>8 DEF OneOnPage, Markers
  <2> QED
    BY <1>7, <1>8, <2>1 DEF LastIsCurrent
<1>9. CASE comments' = IF running["pr"].existing = 0
                       THEN Append(comments, Comment(running["pr"]))
                       ELSE [comments EXCEPT ![running["pr"].existing] = Comment(running["pr"])]
  <2> DEFINE h == running["pr"].head
             ctx == running["pr"].ctx
  <2>1. OneOnPage' /\ \E k \in Markers' : Says(k, h, ctx)'
    <3>1. PICK r \in RunType : r = running["pr"]
      BY <1>4
    <3>2. comments' = IF r.existing = 0 THEN Append(comments, Comment(r))
                      ELSE [comments EXCEPT ![r.existing] = Comment(r)]
      BY <1>9, <3>1
    <3>3. OneOnPage' /\ \E k \in Markers' : Says(k, r.head, r.ctx)'
      BY <1>2, <1>3, <3>1, <3>2, SendWrites
    <3> QED
      BY <3>1, <3>3, <1>5 DEF Says
  <2>2. LastIsCurrent'
    BY <1>5, <1>6, <2>1 DEF LastIsCurrent, Says
  <2> QED
    BY <1>7, <2>1, <2>2
<1> QED
  BY <1>3, <1>8, <1>9 DEF Send

(* A run ends with its check, and the pending one, if any, begins.         *)
LEMMA GateInOrder ==
    ASSUME BranchOK, JudgeInv, CommentInv, NEW g \in Groups, Gate(g) \/ JobFails(g)
    PROVE  CommentInv'
<1> SUFFICES ASSUME ~dispatched' PROVE (OneOnPage /\ WritersOK /\ HeadsInOrder /\ LastIsCurrent)'
  BY DEF CommentInv
<1>1. /\ running[g].step \in After /\ running[g] # NoRun
      /\ running' = [running EXCEPT ![g] = pending[g]]
      /\ pending' = [pending EXCEPT ![g] = NoRun]
      /\ UNCHANGED <<branch, comments, dispatched, sent>>
  BY GateEnds DEF JudgeInv, Ends
<1>2. OneOnPage /\ WritersOK /\ HeadsInOrder /\ LastIsCurrent
  BY <1>1 DEF CommentInv
<1>3. Markers' = Markers /\ Tip' = Tip /\ Tip \in Nat
  BY <1>1 DEF Markers, Tip, BranchOK
<1>4. /\ running \in [Groups -> RunType] /\ pending \in [Groups -> RunType]
      /\ running[g] # NoRun /\ running[g].head \in 1 .. Tip
  BY <1>1 DEF JudgeInv, RunsOK
<1>5. /\ running'[g] = pending[g] /\ pending'[g] = NoRun
      /\ \A d \in Groups \ {g} : running'[d] = running[d] /\ pending'[d] = pending[d]
  BY <1>1, <1>4
<1>6. pending[g] # NoRun => pending[g].step = "jobs" /\ pending[g].head \in 1 .. Tip
  BY DEF JudgeInv, RunsOK
<1> DEFINE h == running[g].head
<1>7. /\ check'[h].by = g /\ check'[h].ctx = running[g].ctx
      /\ \A k \in 1 .. Tip : k # h => check'[k] = check[k]
  <2>1. h \in 1 .. MaxCommits /\ 1 .. Tip \subseteq 1 .. MaxCommits
    BY <1>3, <1>4, PullRequestAssumption DEF JudgeInv, ChecksOK
  <2> PICK result : check' = [check EXCEPT ![h] = [result |-> result, by |-> g,
                                                  ctx |-> running[g].ctx]]
    BY GateEnds DEF JudgeInv
  <2> DEFINE c == [result |-> result, by |-> g, ctx |-> running[g].ctx]
  <2>2. check' = [check EXCEPT ![h] = c] /\ c.by = g /\ c.ctx = running[g].ctx
    OBVIOUS
  <2> HIDE DEF c, h
  <2> QED
    BY <2>1, <2>2 DEF JudgeInv, ChecksOK
<1> HIDE DEF h
<1>8. OneOnPage'
  BY <1>2, <1>3 DEF OneOnPage
<1>9. CASE g = "pr"
  <2>1. running'["dispatch"] = running["dispatch"] /\ pending'["dispatch"] = pending["dispatch"]
    BY <1>5, <1>9 DEF Groups
  <2>2. WritersOK'
    BY <1>2, <1>5, <1>6, <1>9, <2>1, NoRunIsTyped DEF WritersOK
  <2>3. \A k \in 1 .. Tip : check'[k].by = "pr" => k <= h
    BY <1>2, <1>3, <1>4, <1>7, <1>9 DEF HeadsInOrder, h
  <2>4. HeadsInOrder'
    BY <1>2, <1>3, <1>4, <1>5, <1>6, <1>9, <2>3 DEF HeadsInOrder, h
  <2>5. LastIsCurrent'
    <3>1. running'["pr"].step \notin After
      BY <1>5, <1>6, <1>9, NoRunIsTyped DEF After
    <3> SUFFICES ASSUME sent
                 PROVE  \E k \in Markers :
                            /\ \A l \in Markers : l <= k
                            /\ \A i \in 1 .. Tip : check'[i].by = "pr" => i <= comments[k].of
                            /\ check'[comments[k].of].by = "pr" =>
                                 comments[k].result = Summary(check'[comments[k].of].ctx)
                            /\ comments[k].of \in 1 .. Tip
      BY <1>1, <1>3, <3>1 DEF LastIsCurrent
    <3>2. PICK k \in Markers : Says(k, h, running[g].ctx)
      BY <1>1, <1>2, <1>9 DEF LastIsCurrent, h
    <3> QED
      BY <1>4, <1>7, <2>3, <3>2 DEF Says, h
  <2> QED
    BY <1>8, <2>2, <2>4, <2>5
<1>10. CASE g = "dispatch"
  <2>1. running'["pr"] = running["pr"] /\ pending'["pr"] = pending["pr"]
    BY <1>5, <1>10 DEF Groups
  <2>2. WritersOK'
    <3>1. /\ running'["dispatch"] = pending["dispatch"] /\ pending'["dispatch"] = NoRun
          /\ ~NoRun.numbered /\ NoRun.step = "none"
      BY <1>5, <1>10, NoRunIsTyped DEF NoRun
    <3>2. \A r \in {running["dispatch"], pending["dispatch"]}' :
             ~r.numbered /\ r.step \notin {"list", "send"}
      BY <1>2, <3>1 DEF WritersOK
    <3> QED
      BY <1>1, <1>2, <1>3, <2>1, <3>2 DEF WritersOK, Found
  <2>3. \A k \in 1 .. Tip : check'[k].by = "pr" => check'[k] = check[k]
    BY <1>7, <1>10
  <2>4. HeadsInOrder'
    BY <1>2, <1>3, <2>1, <2>3 DEF HeadsInOrder
  <2>5. LastIsCurrent'
    <3>1. CASE running["pr"].step \in After
      BY <1>1, <1>2, <1>3, <2>1, <3>1, NoRunIsTyped DEF LastIsCurrent, Says, After
    <3>2. CASE running["pr"].step \notin After
      BY <1>1, <1>2, <1>3, <2>1, <2>3, <3>2 DEF LastIsCurrent
    <3> QED
      BY <3>1, <3>2
  <2> QED
    BY <1>8, <2>2, <2>4, <2>5
<1> QED
  BY <1>9, <1>10 DEF Groups

LEMMA InitComments == Init => CommentInv
<1> SUFFICES ASSUME Init PROVE OneOnPage /\ WritersOK /\ HeadsInOrder /\ LastIsCurrent
  BY DEF CommentInv
<1>1. /\ running["pr"] = Run(1, TRUE) /\ running["dispatch"] = NoRun
      /\ pending["pr"] = NoRun /\ pending["dispatch"] = NoRun
  BY DEF Init, Groups
<1>2. comments = <<>> /\ ~sent /\ \A h \in 1 .. Tip : check[h].by # "pr"
  <2>1. \A h \in 1 .. MaxCommits : check[h].by = "none"
    BY DEF Init, NoCheck
  <2>2. Tip = 1
    BY DEF Init, Tip
  <2> QED
    BY <2>1, <2>2, PullRequestAssumption DEF Init
<1>3. /\ running["pr"].step = "jobs" /\ running["pr"].numbered
      /\ NoRun.step = "none" /\ ~NoRun.numbered
  BY <1>1 DEF Run, NoRun
<1>4. OneOnPage
  BY <1>2 DEF OneOnPage, Markers
<1>5. WritersOK
  BY <1>1, <1>3 DEF WritersOK
<1>6. HeadsInOrder /\ LastIsCurrent
  BY <1>1, <1>2 DEF HeadsInOrder, LastIsCurrent
<1> QED
  BY <1>4, <1>5, <1>6

LEMMA StepComments ==
    ASSUME IInv, JudgeInv, CommentsOK, CommentInv, [Next]_vars
    PROVE  CommentInv'
<1>1. BranchOK /\ ChecksOK
  BY DEF IInv, JudgeInv
<1>2. CASE DevPush
  <2>1. PICK c \in CommitType : branch' = Append(branch, c)
    BY <1>2, DevPushAppends
  <2>2. Grows /\ Tip' = Tip + 1
    BY <1>1, <1>2, <2>1, AppendsGrow DEF DevPush
  <2>3. /\ Arrive("pr", Run(Tip', TRUE))
        /\ UNCHANGED <<comments, dispatched, sent, check>>
    BY <1>2, <2>2 DEF DevPush
  <2> QED
    BY <1>1, <2>2, <2>3, ArrivalsInOrder DEF Groups
<1>3. CASE Reopen \/ Label
  <2>1. UNCHANGED <<branch, check, comments, dispatched, sent>>
    BY <1>3 DEF Reopen, Label
  <2>2. Grows /\ Tip' = Tip
    BY <1>1, <2>1, UnchangedGrows
  <2>3. Arrive("pr", Run(Tip', TRUE))
    BY <1>3, <2>2 DEF Reopen, Label
  <2> QED
    BY <1>1, <2>1, <2>2, <2>3, ArrivalsInOrder DEF Groups
<1>4. CASE Dispatch
  <2>1. UNCHANGED <<branch, check, comments, sent>>
    BY <1>4 DEF Dispatch
  <2>2. Grows /\ Tip' = Tip
    BY <1>1, <2>1, UnchangedGrows
  <2>3. PICK numbered \in BOOLEAN : /\ Arrive("dispatch", Run(Tip', numbered))
                                    /\ dispatched' = (dispatched \/ numbered)
    BY <1>4, <2>2 DEF Dispatch
  <2>4. CASE numbered
    <3>1. dispatched'
      BY <2>3, <2>4, Zenon
    <3> QED
      BY <3>1 DEF CommentInv
  <2>5. CASE dispatched
    BY <2>3, <2>5 DEF CommentInv
  <2>6. CASE ~numbered /\ ~dispatched
    <3>1. numbered = FALSE /\ dispatched' = FALSE /\ dispatched = FALSE
      BY <1>1, <2>3, <2>6 DEF IInv, BranchOK
    <3> QED
      BY <1>1, <2>1, <2>2, <2>3, <3>1, ArrivalsInOrder DEF Groups
  <2> QED
    BY <2>4, <2>5, <2>6
<1>5. CASE BotPush /\ bot.running.head = Tip
  <2>1. PICK c \in CommitType : branch' = Append(branch, c)
    BY <1>1, <1>5, BotPushAppends
  <2>2. Grows
    BY <1>1, <1>5, <2>1, AppendsGrow DEF BotPush
  <2>3. UNCHANGED <<running, pending, comments, dispatched, sent, check>>
    BY <1>5 DEF BotPush
  <2> QED
    BY <1>1, <2>2, <2>3, UnchangedCommentsStay, RunsUnchangedInOrder
<1>6. CASE BotGenerate \/ BotExport \/ BotStops
            \/ (BotPush /\ bot.running.head # Tip) \/ UNCHANGED vars
  <2>1. UNCHANGED <<branch, running, pending, comments, dispatched, sent, check>>
    BY <1>6 DEF BotGenerate, BotExport, BotStops, BotPush, vars
  <2>2. Grows
    BY <1>1, <2>1, UnchangedGrows
  <2> QED
    BY <1>1, <2>1, <2>2, UnchangedCommentsStay, RunsUnchangedInOrder
<1>7. CASE OtherComment
  <2>1. UNCHANGED <<branch, running, pending, dispatched, sent, check>>
    BY <1>7 DEF OtherComment
  <2>2. Grows
    BY <1>1, <2>1, UnchangedGrows
  <2> QED
    BY <1>1, <1>7, <2>1, <2>2, OtherCommentsStay, RunsUnchangedInOrder
<1>8. ASSUME NEW g \in Groups, Jobs(g) \/ List(g) \/ Send(g) \/ Gate(g) \/ JobFails(g)
      PROVE  CommentInv'
  BY <1>1, <1>8, JobsInOrder, ListInOrder, SendInOrder, GateInOrder
<1> QED
  BY <1>2, <1>3, <1>4, <1>5, <1>6, <1>7, <1>8 DEF Next

(* "creates one only when the marker is absent"                            *)
(* (update_marker_comment.py:5): there is one marker comment, unless the   *)
(* first came after a full page of others or a run dispatched by hand      *)
(* wrote too, and the last is of the latest run, if that could send it.    *)
THEOREM CommentCorrectness == Spec => []OneCurrentComment
<1>1. Init => IInv /\ JudgeInv /\ CommentsOK /\ CommentInv
  BY InitIInv, InitJudges, InitComments
<1>2. /\ IInv /\ JudgeInv /\ CommentsOK /\ CommentInv
      /\ [Next]_vars
      => (IInv /\ JudgeInv /\ CommentsOK /\ CommentInv)'
  BY StepKeeps, StepJudges, StepKeepsComments, StepComments DEF JudgeInv
<1>3. ASSUME CommentsOK, CommentInv PROVE OneCurrentComment
  <2>1. ASSUME Cardinality(Markers) > 1, ~dispatched, NEW k \in Markers
        PROVE  k > PageSize
    <3>1. k \in Nat /\ PageSize \in Nat
      BY <1>3, PullRequestAssumption DEF CommentsOK, Markers
    <3>2. SUFFICES ASSUME k <= PageSize PROVE FALSE
      BY <3>1
    <3>3. Markers = {k}
      BY <1>3, <2>1, <3>2 DEF CommentInv, OneOnPage
    <3> QED
      BY <2>1, <3>3, FS_Singleton
  <2>2. ASSUME running["pr"] = NoRun, ~dispatched, sent
        PROVE  \E k \in Markers :
                /\ \A l \in Markers : l <= k
                /\ \A h \in 1 .. Tip : check[h].by = "pr" => h <= comments[k].of
                /\ check[comments[k].of].by = "pr" =>
                     comments[k].result = Summary(check[comments[k].of].ctx)
    BY <1>3, <2>2 DEF CommentInv, LastIsCurrent
  <2> QED
    BY <2>1, <2>2 DEF OneCurrentComment
<1> QED
  BY <1>1, <1>2, <1>3, PTL DEF Spec
=============================================================================
