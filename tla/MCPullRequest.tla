---------------------------- MODULE MCPullRequest ----------------------------
(* The paths and the rule-modes files of the TLC instance.                  *)
EXTENDS PullRequest, Functions

MCTags == [readme |-> {"docs_only"}, code |-> {"app_code"}, odd |-> {},
           policy |-> {"docs_only", "compliance"}, manifest |-> {"docs_only"},
           lock |-> {"dependency_python"}]

MCPriority == <<"security", "compliance", "ci_workflow", "dependency_python", "app_code",
                "docs_only">>

File(default, rules) == [readable |-> TRUE, default |-> default, rules |-> rules]

Only(rule, mode) == [r \in {rule} |-> mode]

SecretsBlock == File("blocking", Only("UNKNOWN-DIFF", "shadow"))
UnknownBlocks == File("disabled", Only("UNKNOWN-DIFF", "blocking"))

MCRuleFiles ==
    {File("advisory", [r \in Rules |-> "advisory"]),
     SecretsBlock,
     File("strict", Only("SECRET-LEAK-NEW", "blocking")),
     UnknownBlocks,
     [File("blocking", [r \in Rules |-> "blocking"]) EXCEPT !.readable = FALSE]}

Whole(ctx) ==
    ctx = NoContext \/ ctx.scanned # {} \/ "cancelled" \in {ctx.classify, ctx.secret_scan}

(* What happens with the bot while the developer forgets the derived files *)
(* or not; or with the comments; or what the jobs of one run after another *)
(* end with, under any rules: the rest is of little variety.               *)
Uncommented == comments = <<>> /\ running["pr"].step # "send"
BotWaits == bot.result = "none" /\ bot.running.step = "generate"

OneRule == file = SecretsBlock

EveryContext ==
    {running[g].ctx : g \in Groups} \cup {check[h].ctx : h \in DOMAIN check}

DerivedAside(c) == c.stale = {} /\ c.touched \cap Derived = {}

BotStory ==
    /\ OneRule /\ Uncommented /\ running["dispatch"] = NoRun
    /\ \A ctx \in EveryContext :
        ctx = NoContext \/ (ctx.classify = "cancelled" /\ events = 0)
    /\ \A h \in DOMAIN check : check[h].result # "error"
    /\ \A c \in Range(branch) :
        /\ ~c.secret /\ c.changed \subseteq {"code"} \cup Derived
        /\ c.changed \cap Derived = Derived \ c.stale
        /\ c.by = "dev" => c.stale = Derived \ c.touched

CommentStory ==
    /\ OneRule /\ BotWaits
    /\ events = 0 \/ Len(branch) <= 2
    /\ \A ctx \in EveryContext : Whole(ctx) /\ ctx.pr_class \in {"none", "app_code"}
    /\ \A c \in Range(branch) :
        DerivedAside(c) /\ ~c.secret /\ c.changed \subseteq {"code"}

JobStory ==
    /\ BotWaits /\ Uncommented /\ events = 0
    /\ \A c \in Range(branch) : DerivedAside(c)
    /\ Len(branch) <= 2
    /\ Len(branch) = 2 => /\ check[1].ctx.classify \in {"none", "failure"}
                          /\ file \in {SecretsBlock, UnknownBlocks}
                          /\ \A c \in Range(branch) : "policy" \notin c.changed

OneStory == BotStory \/ CommentStory \/ JobStory
=============================================================================
