------------------------- MODULE MCBaselineComparison -------------------------
(* Inputs of the comparator for TLC: well-formed ledgers of up to two      *)
(* entries that vary in all that is compared, and ledgers whose entries    *)
(* vary in what loading looks at, their ids and their flaws.               *)
EXTENDS BaselineComparison

CONSTANTS MaxObserved, RawFlaws

Fingerprints == {<<"x", 1>>, <<"x", 2>>, <<"y", 1>>}

AsRaw(id, flaws, kind, identity, fingerprint, expires) ==
    [id |-> id, flaws |-> flaws,
     entry |-> [id |-> id, kind |-> kind, identity |-> identity,
                fingerprint |-> fingerprint, expires |-> expires]]

(* One ledger holds entries of one kind. *)
Wellformed(id, kind) ==
    {AsRaw(id, {}, kind, identity, fingerprint, expires) :
        identity \in {"x", "y"}, fingerprint \in Fingerprints, expires \in {0, 1}}

AnyForm ==
    {AsRaw(id, flaws, "test-quarantine", "x", fingerprint, 1) :
        id \in {1, 2}, flaws \in RawFlaws, fingerprint \in {<<"x", 1>>, <<"x", 2>>}}

Pairs(S, T) == {<<s>> : s \in S} \cup {<<s, t>> : s \in S, t \in T}

RawLists ==
    {<<>>} \cup Pairs(AnyForm, AnyForm)
    \cup UNION {Pairs(Wellformed(1, kind), Wellformed(2, kind)) :
                kind \in {"test-quarantine", "baseline"}}

MCDocuments ==
    [supported : {TRUE}, listed : {TRUE}, raws : RawLists]
    \cup [supported : {TRUE, FALSE}, listed : {TRUE, FALSE}, raws : {<<>>}]

MCObservedLists ==
    UNION {[1 .. n -> {[identity |-> f[1], fingerprint |-> f] : f \in Fingerprints}] :
            n \in 0 .. MaxObserved}

MCPassingSets == SUBSET {"x", "y"}
=============================================================================
