----------------------------- MODULE SelfCIRules -----------------------------
(***************************************************************************)
(* What the scripts of the self CI decide: the class of a pull request, the *)
(* mode of a rule, the verdict of the gate and the result of the summary.   *)
(* A path is a model value with the classes the taxonomy tags it with.      *)
(***************************************************************************)
EXTENDS Integers, Sequences, FiniteSets

CONSTANTS
    Tags,       \* the classes of every path of the repository
    Priority    \* the classes, in the policy's order

Paths == DOMAIN Tags
Rules == {"SECRET-LEAK-NEW", "UNKNOWN-DIFF"}
RuleModes == {"blocking", "advisory", "shadow", "disabled"}
FailResults == {"failure", "timed_out", "action_required"}

ASSUME TaxonomyAssumption ==
    /\ Priority \in Seq(STRING)
    /\ \A p \in Paths : Tags[p] \subseteq {Priority[k] : k \in DOMAIN Priority}
    /\ "docs_only" \in {Priority[k] : k \in DOMAIN Priority}

-----------------------------------------------------------------------------
(* Were the priority looked at before the unclassified paths.              *)
ClassifyKnownFirst(changed) ==
    LET known == {p \in changed : Tags[p] # {}}
    IN  IF known = {} THEN "unknown_diff"
        ELSE Priority[CHOOSE k \in DOMAIN Priority :
                        /\ \E p \in known : Priority[k] \in Tags[p]
                        /\ \A l \in 1 .. k - 1 :
                             \A p \in known : Priority[l] \notin Tags[p]]

(* classify: one unclassified path makes the whole diff unknown; otherwise *)
(* the first class of the priority that occurs.                            *)
Classify(changed) ==
    LET observed == UNION {Tags[p] : p \in changed}
        ranked == {k \in DOMAIN Priority :
                     Priority[k] \in observed /\ Priority[k] # "docs_only"}
    IN  IF changed = {} \/ (\E p \in changed : Tags[p] = {}) THEN "unknown_diff"
        ELSE IF observed = {"docs_only"} THEN "docs_only"
        ELSE Priority[CHOOSE k \in ranked : \A l \in ranked : k <= l]

(* The mode a rules file gives a rule: what is not a mode is as if absent. *)
ModeFor(file, rule) ==
    LET default == IF file.readable /\ file.default \in RuleModes
                   THEN file.default ELSE "advisory"
    IN  IF file.readable /\ rule \in DOMAIN file.rules /\ file.rules[rule] \in RuleModes
        THEN file.rules[rule] ELSE default

(* Were only the result of the scanning job looked at.                     *)
TriggeredByJob(ctx) ==
    {r \in Rules :
        \/ r = "SECRET-LEAK-NEW" /\ ctx.secret_scan \in FailResults
        \/ r = "UNKNOWN-DIFF" /\ ctx.diff_unknown}

(* The context of a run: what its jobs ended with, and put out.            *)
Triggered(ctx) ==
    {r \in Rules :
        \/ r = "SECRET-LEAK-NEW" /\ (ctx.secret_scan \in FailResults \/ ctx.secret_findings > 0)
        \/ r = "UNKNOWN-DIFF" /\ ctx.diff_unknown}

Verdict(file, ctx) ==
    LET Routed(m) == {r \in Triggered(ctx) : ModeFor(file, r) = m}
    IN  [result |-> IF Routed("blocking") # {} THEN "FAIL" ELSE "PASS",
         blocking |-> Routed("blocking"),
         shadow |-> Routed("shadow"),
         advisory |-> Routed("advisory")
             \cup (IF ctx.classify \in FailResults THEN {"classify"} ELSE {})]

(* Were the result of the scanning job forgotten.                          *)
SummaryOfFindings(ctx) == IF ctx.secret_findings > 0 THEN "FAIL" ELSE "PASS"

(* What the comment says: whatever the modes are.                          *)
Summary(ctx) ==
    IF ctx.secret_findings > 0 \/ ctx.secret_scan \in FailResults THEN "FAIL" ELSE "PASS"
=============================================================================
