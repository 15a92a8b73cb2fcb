---------------------------- MODULE MCGovernedNode ----------------------------
(* The constitutions and policies of the TLC instance.                      *)
EXTENDS GovernedNode

Action(mutation, approval, replay, provenance) ==
    [mutation_class |-> mutation, approval_mode |-> approval, replay_safe |-> replay,
     required_provenance |-> provenance, required_dependencies |-> {}]

Human == Action("propose_only", "human", "yes", {"hash"})

Doc(version, actions, dependencies) ==
    [version |-> version, actions_mapped |-> TRUE, actions |-> actions,
     dependencies |-> dependencies]

Database(required, degraded) == [db |-> [required |-> required, degraded |-> degraded]]

Nothing == [x \in {} |-> 0]

Writes(action) == Doc("1", [write |-> action], Database(TRUE, {"read_only"}))

MCConstitutions ==
    {Writes(Human),
     Writes(Action("external_mutation", "human", "yes", {"hash"})),
     Writes(Action("propose_only", "absent", "yes", {"hash"})),
     Writes(Action("propose_only", "autonomous", "yes", {})),
     Writes(Action("propose_only", "null", "no", {"hash"})),
     Writes(Action("magic", "human", "yes", {"hash"})),
     Doc("1", Nothing, Nothing),
     Doc("1", [write |-> Human], Database(FALSE, {"read_only"})),
     Doc("2", [write |-> Human], Nothing),
     Doc(NoField, [write |-> Human], Database(TRUE, {"read_only"})),
     [Writes(Human) EXCEPT !.actions_mapped = FALSE]}

MCPolicies ==
    {[complete |-> complete,
      transitions |-> [disabled |-> {"shadow"}, shadow |-> {"advisory", "disabled"},
                       advisory |-> {"blocking", "shadow"}, blocking |-> {"advisory"}],
      minimum_observation_runs |-> 2, minimum_observation_days |-> 1,
      maximum_contract_failures |-> 0, approval_required |-> TRUE] : complete \in BOOLEAN}

(* Sequences of amendments, of deployments and attestations, and of        *)
(* promotions: with a little of the others, not all of each at once.       *)
OneStory ==
    LET undecided == window = EmptyWindow /\ ~approved
        atFirst == mode = "shadow" /\ clock = 0 /\ undecided
        unevaluated == /\ runtime = Running(origin, "shadow")
                       /\ attestation = AttestationOf(runtime, TRUE, {})
                       /\ verdict.status = "none"
        oneNode == origin = Writes(Human)
    IN  \/ atFirst /\ unevaluated
        \/ atFirst /\ amendments <= 1 /\ oneNode
        \/ amendments = 0 /\ unevaluated /\ oneNode
        \/ amendments = 0 /\ undecided /\ attestation.whole /\ oneNode
=============================================================================
