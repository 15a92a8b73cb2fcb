----------------------------- MODULE PullRequest -----------------------------
(***************************************************************************)
(* One pull request, from this repository or from a fork, between those     *)
(* who act on it: the developer, the bot that reconciles MANIFEST.md and    *)
(* uv.lock, and the runs of the self CI.  Each workflow has a concurrency   *)
(* group with one running and one pending run, a new one replaces the       *)
(* pending and cancels the running run, which may still do some of its      *)
(* work.  A run dispatched by hand is in another group (the bot's commits   *)
(* nothing).  External: GitHub (the groups, the comments' pages; a push    *)
(* with the workflow's token starts no run; a job with `if: always()` also *)
(* runs in a cancelled run), gitleaks, and the developer.                   *)
(***************************************************************************)
EXTENDS SelfCIRules

CONSTANTS
    Derived,       \* the paths the bot maintains
    RuleFiles,     \* contents the rule-modes file may have
    MaxCommits, MaxEvents, MaxComments,    \* bounds
    PageSize       \* comments on the first page: 100 in the code

ASSUME PullRequestAssumption ==
    /\ Derived \subseteq Paths
    /\ MaxCommits \in Nat \ {0}
    /\ PageSize \in Nat

Groups == {"pr", "dispatch"}

VARIABLES
    branch,      \* the commits of the pull request
    events,      \* events other than pushes, so far
    bot,         \* the reconciling workflow: its running run and the pending one
    running,     \* per group, the running run of the self CI
    pending,     \* per group, the pending one
    comments,    \* of the pull request
    dispatched,  \* some run that writes a comment was dispatched by hand
    sent,        \* the latest run of the "pr" group could write its comment
    check,       \* the latest check of every head
    file         \* the rule-modes file

vars == <<branch, events, bot, running, pending, comments, dispatched, sent, check, file>>

Tip == Len(branch)

(* "scanned" is the commits gitleaks reported on, for the properties.      *)
NoContext == [classify |-> "none", secret_scan |-> "none", pr_class |-> "none",
              diff_unknown |-> FALSE, secret_findings |-> 0, scanned |-> {}]
NoRun    == [head |-> 0, step |-> "none", cancelled |-> FALSE, numbered |-> FALSE,
             ctx |-> NoContext, existing |-> 0]
NoCheck  == [result |-> "none", by |-> "none", ctx |-> NoContext]
NoBotRun == [head |-> 0, step |-> "none", cancelled |-> FALSE]

Run(head, numbered) == [NoRun EXCEPT !.head = head, !.step = "jobs", !.numbered = numbered]
BotRun(head) == [head |-> head, step |-> "generate", cancelled |-> FALSE]

\* "patch" is the head the run exported a patch for.
Bot(fork) ==
    [running |-> BotRun(1), pending |-> 0, result |-> "none", fork |-> fork, patch |-> 0]

-----------------------------------------------------------------------------
(* A commit: the paths it touches, those that differ from the base after   *)
(* it, whether it adds a secret, and which derived files disagree with the *)
(* rest.  A derived file that is made anew agrees, and may or may not      *)
(* differ from the base; one that is not may still agree.                  *)
Remade(paths, made, differing) == (paths \ made) \cup differing

DevCommit(before, p, reverted, secret, made, differing, stale) ==
    LET edited == IF reverted /\ p \in before THEN before \ {p} ELSE before \cup {p}
    IN  [by |-> "dev", secret |-> secret, stale |-> stale, touched |-> {p} \cup made,
         changed |-> Remade(edited, made, differing)]

CommitsMaking(before, made) ==
    {DevCommit(before, p, reverted, secret, made, differing, stale) :
        p \in Paths, reverted, secret \in BOOLEAN,
        differing \in SUBSET made, stale \in SUBSET (Derived \ made)}

DevCommits(before) == UNION {CommitsMaking(before, made) : made \in SUBSET Derived}

BotCommits(before, stale) ==
    {[by |-> "bot", secret |-> FALSE, stale |-> {}, touched |-> stale,
      changed |-> Remade(before, stale, differing)] : differing \in SUBSET stale}

-----------------------------------------------------------------------------
(* What the jobs of a run may end with.  A run of a pull request looks at  *)
(* base..head, one dispatched by hand has no range and looks at the last   *)
(* commit; a difference that is empty, or that git does not give, is taken *)
(* for the whole repository.                                               *)
Changed(g, head) ==
    LET changed == IF g = "pr" THEN branch[head].changed ELSE branch[head].touched
    IN  {IF changed = {} THEN Paths ELSE changed, Paths}

Classified(g, r) ==
    {[result |-> "success", pr_class |-> c] :
        c \in {Classify(changed) : changed \in Changed(g, r.head)} \cup {"unknown_diff"}}
        \cup {[result |-> e, pr_class |-> "none"] :
                e \in {"failure"} \cup (IF r.cancelled THEN {"cancelled"} ELSE {})}

(* The scanning job succeeds whatever gitleaks finds, also if it left no   *)
(* report, and is skipped when the classifier did not succeed.             *)
Scanned(g, r, classified) ==
    LET range == IF g = "pr" THEN 1 .. r.head ELSE {r.head}
        Scan(result, scanned) ==
            [result |-> result, scanned |-> scanned,
             findings |-> Cardinality({k \in scanned : branch[k].secret})]
    IN  IF classified.result # "success" THEN {Scan("skipped", {})}
        ELSE {Scan("success", range), Scan("success", {}), Scan("failure", {})}
               \cup (IF r.cancelled THEN {Scan("cancelled", {})} ELSE {})

Contexts(g, r) ==
    UNION {{[classify |-> c.result, pr_class |-> c.pr_class,
             diff_unknown |-> c.pr_class = "unknown_diff",
             secret_scan |-> s.result, secret_findings |-> s.findings,
             scanned |-> s.scanned] : s \in Scanned(g, r, c)} : c \in Classified(g, r)}

Comment(r) == [marker |-> TRUE, of |-> r.head, result |-> Summary(r.ctx)]

(* Were only the latest comment looked at.                                 *)
ExistingIfLatest ==
    LET n == Len(comments)
    IN  IF n > 0 /\ comments[n].marker THEN n ELSE 0

(* The first comment with the marker, of those on the first page.          *)
Existing ==
    LET onPage == {k \in DOMAIN comments : k <= PageSize /\ comments[k].marker}
    IN  IF onPage = {} THEN 0 ELSE CHOOSE k \in onPage : \A l \in onPage : k <= l

-----------------------------------------------------------------------------
Init ==
    /\ \E c \in DevCommits({}) : branch = <<c>>
    /\ events = 0
    /\ bot \in {Bot(fork) : fork \in BOOLEAN}
    /\ running = [g \in Groups |-> IF g = "pr" THEN Run(1, TRUE) ELSE NoRun]
    /\ pending = [g \in Groups |-> NoRun]
    /\ comments = <<>>
    /\ dispatched = FALSE
    /\ sent = FALSE
    /\ check = [h \in 1 .. MaxCommits |-> NoCheck]
    /\ file \in RuleFiles

(* A run arrives in its group, and one of the bot in the bot's.            *)
Arrive(g, r) ==
    IF running[g] = NoRun
    THEN running' = [running EXCEPT ![g] = r] /\ UNCHANGED pending
    ELSE /\ running' = [running EXCEPT ![g].cancelled = TRUE]
         /\ pending' = [pending EXCEPT ![g] = r]

(* Were the bot's events dropped while it runs.                            *)
BotArriveIfIdle(head) ==
    bot' = IF bot.running = NoBotRun
           THEN [bot EXCEPT !.running = BotRun(head)] ELSE bot

BotArrive(head) ==
    bot' = IF bot.running = NoBotRun
           THEN [bot EXCEPT !.running = BotRun(head)]
           ELSE [bot EXCEPT !.running.cancelled = TRUE, !.pending = head]

DevPush ==
    /\ Tip < MaxCommits
    /\ \E c \in DevCommits(branch[Tip].changed) : branch' = Append(branch, c)
    /\ Arrive("pr", Run(Tip + 1, TRUE))
    /\ BotArrive(Tip + 1)
    /\ UNCHANGED <<events, comments, dispatched, sent, check, file>>

(* Reopened, or ready for review.                                          *)
Reopen ==
    /\ events < MaxEvents
    /\ events' = events + 1
    /\ Arrive("pr", Run(Tip, TRUE))
    /\ BotArrive(Tip)
    /\ UNCHANGED <<branch, comments, dispatched, sent, check, file>>

(* Labels start only the self CI.                                          *)
Label ==
    /\ events < MaxEvents
    /\ events' = events + 1
    /\ Arrive("pr", Run(Tip, TRUE))
    /\ UNCHANGED <<branch, bot, comments, dispatched, sent, check, file>>

(* On the branch, if that is of this repository, with or without the number *)
(* of the pull request.                                                    *)
Dispatch ==
    /\ ~bot.fork
    /\ events < MaxEvents
    /\ events' = events + 1
    /\ \E numbered \in BOOLEAN :
        /\ Arrive("dispatch", Run(Tip, numbered))
        /\ dispatched' = (dispatched \/ numbered)
    /\ UNCHANGED <<branch, bot, comments, sent, check, file>>

OtherComment ==
    /\ Cardinality({k \in DOMAIN comments : ~comments[k].marker}) < MaxComments
    /\ comments' = Append(comments, [marker |-> FALSE, of |-> 0, result |-> "none"])
    /\ UNCHANGED <<branch, events, bot, running, pending, dispatched, sent, check, file>>

-----------------------------------------------------------------------------
BotEnded(result) ==
    [bot EXCEPT !.running = IF bot.pending = 0 THEN NoBotRun ELSE BotRun(bot.pending),
                !.pending = 0,
                !.result = result]

BotEnds(result) == bot' = BotEnded(result)

(* It checks out the head of its event, makes both files anew, and goes on *)
(* if that makes a difference in either.                                   *)
BotGenerate ==
    /\ bot.running.step = "generate"
    /\ IF branch[bot.running.head].stale = {} THEN BotEnds("success")
       ELSE bot' = [bot EXCEPT !.running.step = "push"]
    /\ UNCHANGED <<branch, events, running, pending, comments, dispatched, sent, check, file>>

(* Were the push forced.                                                   *)
BotPushForced ==
    /\ bot.running.step = "push"
    /\ ~bot.fork
    /\ Tip < MaxCommits
    /\ LET known == SubSeq(branch, 1, bot.running.head)
           head == branch[bot.running.head]
       IN  \E c \in BotCommits(head.changed, head.stale) : branch' = Append(known, c)
    /\ BotEnds("success")
    /\ UNCHANGED <<events, running, pending, comments, dispatched, sent, check, file>>

(* It commits both files to the branch it checked out.  The push is not    *)
(* forced: it is rejected if the branch moved.                             *)
BotPush ==
    /\ bot.running.step = "push"
    /\ ~bot.fork
    /\ IF bot.running.head = Tip
       THEN /\ Tip < MaxCommits
            /\ \E c \in BotCommits(branch[Tip].changed, branch[Tip].stale) :
                 branch' = Append(branch, c)
            /\ BotEnds("success")
       ELSE UNCHANGED branch /\ BotEnds("rejected")
    /\ UNCHANGED <<events, running, pending, comments, dispatched, sent, check, file>>

(* It may not push to a fork, and exports what it made as a patch.         *)
BotExport ==
    /\ bot.running.step = "push"
    /\ bot.fork
    /\ bot' = [BotEnded("success") EXCEPT !.patch = bot.running.head]
    /\ UNCHANGED <<branch, events, running, pending, comments, dispatched, sent, check, file>>

(* It is cancelled, or one of its steps fails.                             *)
BotStops ==
    /\ bot.running # NoBotRun
    /\ \/ bot.running.cancelled /\ BotEnds("cancelled")
       \/ BotEnds("failure")
    /\ UNCHANGED <<branch, events, running, pending, comments, dispatched, sent, check, file>>

-----------------------------------------------------------------------------
Jobs(g) ==
    /\ running[g].step = "jobs"
    /\ \E ctx \in Contexts(g, running[g]) :
        running' = [running EXCEPT ![g].ctx = ctx,
                                   ![g].step = IF running[g].numbered THEN "list" ELSE "gate"]
    /\ UNCHANGED <<branch, events, bot, pending, comments, dispatched, sent, check, file>>

(* What the gate's job does after a step: when the step fails, the others  *)
(* are skipped, and the gate with them.                                    *)
After == {"gate", "failed"}

(* The comments are listed, or cannot be: the step goes on if GitHub or    *)
(* the network refuses, and fails if the answer is late or is not JSON.    *)
(* So it does if the context or the summary could not be made before.      *)
List(g) ==
    /\ running[g].step = "list"
    /\ \/ /\ running' = [running EXCEPT ![g].existing = Existing, ![g].step = "send"]
          /\ UNCHANGED sent
       \/ \E next \in After :
            /\ running' = [running EXCEPT ![g].step = next]
            /\ sent' = (g # "pr" /\ sent)
    /\ UNCHANGED <<branch, events, bot, pending, comments, dispatched, check, file>>

(* The one that was found is changed, or a new one is created, if GitHub   *)
(* takes it; and the step may fail as above also after it was taken.       *)
Send(g) ==
    /\ running[g].step = "send"
    /\ LET r == running[g]
       IN  \/ /\ comments' = IF r.existing = 0 THEN Append(comments, Comment(r))
                             ELSE [comments EXCEPT ![r.existing] = Comment(r)]
              /\ sent' = (g = "pr" \/ sent)
           \/ /\ UNCHANGED comments
              /\ sent' = (g # "pr" /\ sent)
    /\ \E next \in After : running' = [running EXCEPT ![g].step = next]
    /\ UNCHANGED <<branch, events, bot, pending, dispatched, check, file>>

Ends(g) ==
    /\ running' = [running EXCEPT ![g] = pending[g]]
    /\ pending' = [pending EXCEPT ![g] = NoRun]

Checked(g, result) ==
    [check EXCEPT ![running[g].head] = [result |-> result, by |-> g, ctx |-> running[g].ctx]]

Evaluated(g) == Checked(g, Verdict(file, running[g].ctx).result)

(* Were the gate's job skipped with the jobs it needs.                     *)
GateIfAllSucceed(g) ==
    /\ running[g].step = "gate"
    /\ check' = IF {running[g].ctx.classify, running[g].ctx.secret_scan} = {"success"}
                THEN Evaluated(g) ELSE check
    /\ Ends(g)
    /\ UNCHANGED <<branch, events, bot, comments, dispatched, sent, file>>

(* The gate's job runs whatever became of the others, and its last step    *)
(* evaluates the gate.                                                     *)
Gate(g) ==
    /\ running[g].step = "gate"
    /\ check' = Evaluated(g)
    /\ Ends(g)
    /\ UNCHANGED <<branch, events, bot, comments, dispatched, sent, file>>

(* A step of the gate's job failed, or one that is left before the gate    *)
(* does (the context, the summary or the payload): the check is failed,    *)
(* without a verdict.                                                      *)
JobFails(g) ==
    /\ running[g].step \in After
    /\ check' = Checked(g, "error")
    /\ Ends(g)
    /\ UNCHANGED <<branch, events, bot, comments, dispatched, sent, file>>

Next ==
    \/ DevPush \/ Reopen \/ Label \/ Dispatch \/ OtherComment
    \/ BotGenerate \/ BotPush \/ BotExport \/ BotStops
    \/ \E g \in Groups : Jobs(g) \/ List(g) \/ Send(g) \/ Gate(g) \/ JobFails(g)

Spec == Init /\ [][Next]_vars

-----------------------------------------------------------------------------
Steps == {"none", "jobs", "list", "send"} \cup After

Classes == {Priority[k] : k \in DOMAIN Priority} \cup {"unknown_diff", "none"}

(* The type invariant, with the groups of the concurrency.                 *)
TypeOK ==
    /\ Tip \in 1 .. MaxCommits
    /\ events \in 0 .. MaxEvents
    /\ \A g \in Groups :
        /\ running[g].head \in 0 .. Tip /\ running[g].step \in Steps
        /\ running[g].ctx.pr_class \in Classes
        /\ running[g].existing \in 0 .. Len(comments)
        /\ pending[g].step \in {"none", "jobs"}
        /\ pending[g] # NoRun => running[g].cancelled
    /\ bot.pending \in 0 .. Tip
    /\ bot.pending > 0 => bot.running.cancelled
    /\ bot.patch \in 0 .. Tip
    /\ \A h \in 1 .. MaxCommits : check[h].result \in {"none", "PASS", "FAIL", "error"}
    /\ {sent, dispatched} \subseteq BOOLEAN

(* The reconciling workflow pushes without force: whenever it pushes what  *)
(* it made of an older head, nobody's commit is lost.                      *)
NoCommitLost ==
    [][Len(branch') >= Len(branch) /\ SubSeq(branch', 1, Tip) = branch]_vars

(* "reconciles two deterministic repository-derived artifacts"             *)
(* (l9-manifest-reconcile.yml:8): when the bot has nothing to do and none  *)
(* of the steps of its last run failed, manifest and lock agree with the   *)
(* head, or on a fork the patch that makes them agree was exported for it: *)
(* whatever was pushed while it ran, was cancelled, or was rejected.       *)
IdleBotLeavesFresh ==
    bot.running = NoBotRun /\ bot.result # "failure" =>
        branch[Tip].stale = {} \/ (bot.fork /\ bot.patch = Tip)

Markers == {k \in DOMAIN comments : comments[k].marker}

(* "creates one only when the marker is absent"                            *)
(* (update_marker_comment.py:5): there is one marker comment, unless the   *)
(* first came after a full page of others, or a run dispatched by hand     *)
(* wrote too; and the last is of the latest run of the pull request, if    *)
(* that could send it.                                                     *)
OneCurrentComment ==
    LET OfPR(h) == check[h].by = "pr"
    IN  /\ Cardinality(Markers) > 1 => dispatched \/ \A k \in Markers : k > PageSize
        /\ running["pr"] = NoRun /\ ~dispatched /\ sent =>
             \E k \in Markers :
                /\ \A l \in Markers : l <= k
                /\ \A h \in 1 .. Tip : OfPR(h) => h <= comments[k].of
                /\ OfPR(comments[k].of) =>
                     comments[k].result = Summary(check[comments[k].of].ctx)

(* Every head gets its check, if only a failed one, also if runs were      *)
(* cancelled or replaced or their jobs failed: except one the bot pushed,  *)
(* as that starts no run.                                                  *)
HeadIsJudged ==
    running["pr"] = NoRun => check[Tip] # NoCheck \/ branch[Tip].by = "bot"

(* "a newly-introduced secret in the PR commit range"                      *)
(* (evaluate_ci_gate.py:7): while its rule blocks, a head that passes has  *)
(* no secret in any commit that gitleaks reported on, and the scanning job *)
(* did not fail.  It may have left no report, and so reported on nothing.  *)
ScannedSecretsBlock ==
    \A h \in 1 .. Tip :
        check[h].result = "PASS" /\ ModeFor(file, "SECRET-LEAK-NEW") = "blocking" =>
            /\ check[h].ctx.secret_scan # "failure"
            /\ \A k \in check[h].ctx.scanned : ~branch[k].secret

(* "fails closed on unknown diffs" (l9-self-ci.yml:128): while UNKNOWN-DIFF *)
(* blocks, a head that passes has no unclassified path in its difference,  *)
(* unless the classifier did not end or the run was dispatched by hand.    *)
(* And a head called docs_only changes nothing but documentation.          *)
ClassIsEarned ==
    \A h \in 1 .. Tip :
        check[h].by = "pr" /\ check[h].ctx.classify = "success" =>
            /\ check[h].result = "PASS" /\ ModeFor(file, "UNKNOWN-DIFF") = "blocking" =>
                 \A p \in branch[h].changed : Tags[p] # {}
            /\ check[h].ctx.pr_class = "docs_only" =>
                 \A p \in branch[h].changed : Tags[p] = {"docs_only"}

(* The comment and the gate decide separately.  The gate passes against a  *)
(* comment that says FAIL only if the mode of the secret rule does not     *)
(* block, and fails against one that says PASS only if an unknown          *)
(* difference does.  A check that failed before the gate ("error") has no  *)
(* verdict, and stands against either comment (CommentNeverBreaksCI).      *)
SummaryAgreesWithGate ==
    \A h \in 1 .. Tip :
        LET c == check[h]
        IN  /\ c.result = "PASS" /\ Summary(c.ctx) = "FAIL" =>
                 ModeFor(file, "SECRET-LEAK-NEW") # "blocking"
            /\ c.result = "FAIL" /\ Summary(c.ctx) = "PASS" =>
                 c.ctx.diff_unknown /\ ModeFor(file, "UNKNOWN-DIFF") = "blocking"

(* "Fails soft: a comment problem must never break CI"                     *)
(* (update_marker_comment.py:15): whatever becomes of a comment that is    *)
(* being sent, the job goes on to the gate.                                *)
CommentNeverBreaksCI ==
    [][\A g \in Groups : running[g].step = "send" => running'[g].step # "failed"]_vars
=============================================================================
