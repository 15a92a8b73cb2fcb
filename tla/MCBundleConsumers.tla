-------------------------- MODULE MCBundleConsumers --------------------------
(* The documents of the TLC instance.                                       *)
EXTENDS BundleConsumers

CONSTANTS r1, r2

Bundle(revision, leak, failures, findings, classes) ==
    [form |-> "bundle", revision |-> revision, leak |-> leak,
     providers |-> <<[provider_id |-> "semgrep", required |-> TRUE]>>,
     coverage |-> <<[provider_id |-> "semgrep",
                     status |-> IF failures = <<>> THEN "complete" ELSE "failed"]>>,
     failures |-> failures, findings |-> findings, classes |-> classes]

Finding(id, severity, canonical) ==
    [finding_id |-> id, intact |-> TRUE, severity |-> severity, canonical |-> canonical]

Class(id, mode) == [finding_id |-> id, mode |-> mode]

Failure(required) == [provider_id |-> "semgrep", required |-> required, fatal |-> TRUE]

Clean(revision) == Bundle(revision, "none", <<>>, <<>>, <<>>)

NoBundle(form) == [Clean("none") EXCEPT !.form = form]

MCUses == [c \in Commands |-> Kinds]

MCDocuments ==
    {NoBundle(form) : form \in {"missing", "unreadable", "garbage", "misshapen"}} \cup
    {Clean(r1), Clean(r2), Clean("none"),
     [Clean(r1) EXCEPT !.coverage = <<>>],
     Bundle(r1, "elsewhere", <<>>, <<>>, <<>>),
     Bundle(r1, "finding", <<>>, <<Finding("f", "low", TRUE)>>, <<Class("f", "shadow")>>),
     Bundle(r1, "none", <<Failure(TRUE)>>, <<>>, <<>>),
     Bundle(r1, "none", <<Failure(FALSE)>>, <<Finding("f", "high", TRUE)>>,
            <<Class("f", "advisory")>>),
     Bundle(r1, "none", <<>>, <<Finding("f", "high", TRUE), Finding("g", "medium", FALSE)>>,
            <<Class("g", "advisory"), Class("f", "blocking")>>),
     Bundle(r1, "none", <<>>, <<Finding("f", "informational", TRUE)>>, <<Class("f", "unresolved")>>),
     Bundle(r1, "none", <<>>, <<Finding("f", "unknown", TRUE)>>, <<>>)}
=============================================================================
