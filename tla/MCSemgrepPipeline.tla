------------------------- MODULE MCSemgrepPipeline -------------------------
(* TLC instances of SemgrepPipeline: the requests and report contents.     *)
EXTENDS SemgrepPipeline, TLC

(* m1 is of an identified rule that the policy lists, m2 of a rule without *)
(* canonical identity, m3 of an identified rule that the policy omits.     *)
CONSTANTS m1, m2, m3

JobSymmetry == Permutations(Jobs)

MCModes == m1 :> "blocking" @@ m2 :> "unresolved" @@ m3 :> "unresolved"

Regular(errors, scanned, matches) ==
    [body |-> "regular", errors |-> errors, scanned |-> scanned, matches |-> matches]

Irregular(body) ==
    [body |-> body, errors |-> "none", scanned |-> TRUE, matches |-> <<m1>>]

ManyContents ==
    {Irregular(b) : b \in {"unparsable", "misshapen", "unmappable", "unredacted"}}
    \cup {Regular("none", TRUE, ms) : ms \in {<<>>, <<m1>>, <<m2>>, <<m3>>, <<m1, m1>>, <<m1, m2, m3>>}}
    \cup {Regular("warn", TRUE, <<>>), Regular("fatal", TRUE, <<>>),
          Regular("none", FALSE, <<>>)}

FewContents ==
    {Irregular("misshapen"), Regular("none", TRUE, <<>>), Regular("fatal", TRUE, <<m1>>)}

(* Every request that gives a report a chance to be read.                  *)
AllRequests == RequestType

(* The requests of `semgrep run` in the repository root with a policy.     *)
RunRequests == {r \in RequestType : r.execute /\ r.policy /\ r.atRoot}

(* The requests of `semgrep normalize`.                                    *)
ImportRequests == {r \in RequestType : ~r.execute}

MixedRequests == {r \in RequestType : r.required /\ r.strict = r.policy}
=============================================================================
