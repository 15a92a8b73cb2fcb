--------------------------- MODULE BaselineProofs ---------------------------
(***************************************************************************)
(* Proofs about the comparator of the baseline ratchet, for ledgers and    *)
(* lists of findings of any length.  Every set that compare builds goes    *)
(* through the index of the first entry of a fingerprint; in a ledger      *)
(* without repeated ids and fingerprints the index is the ledger           *)
(* (IndexIsLedger), and the verdict becomes a statement about the two      *)
(* lists that does not mention the order (CoveredAndNeeded).                       *)
(*                                                                         *)
(* The last two sections use that statement (PassMeans) for the ratchets,  *)
(* whose jobs compare what an earlier step left on the machine.  The three *)
(* specifications are independent of one another: each theorem names its   *)
(* own.                                                                    *)
(***************************************************************************)
EXTENDS BaselineComparison, QuarantineRatchet, EnvelopeRatchet, FiniteSetTheorems,
        SequenceTheorems, TLAPS

(* A document and a list of findings as they are read.                     *)
IsDocument(d) ==
    /\ d = [supported |-> d.supported, listed |-> d.listed, raws |-> d.raws]
    /\ d.supported \in BOOLEAN /\ d.listed \in BOOLEAN
    /\ d.raws \in Seq(Range(d.raws))
    /\ \A i \in DOMAIN d.raws :
        /\ d.raws[i].flaws \subseteq Flaws
        /\ d.raws[i].entry.id = d.raws[i].id
        /\ d.raws[i].entry.expires \in Nat

IsList(o) == o \in Seq(Range(o))

(* The verdict, without the index and without the order.                   *)
Sound(d) ==
    /\ d.supported /\ d.listed
    /\ \A i \in DOMAIN d.raws : d.raws[i].flaws = {}
    /\ \A i, j \in DOMAIN d.raws : i # j => d.raws[i].id # d.raws[j].id

Distinct(d) ==
    \A i, j \in DOMAIN d.raws :
        i # j => d.raws[i].entry.fingerprint # d.raws[j].entry.fingerprint

Covered(o, d, t) ==
    \A k \in DOMAIN o :
        /\ \A l \in DOMAIN o : o[l].fingerprint = o[k].fingerprint => l = k
        /\ \E i \in DOMAIN d.raws :
             /\ d.raws[i].entry.fingerprint = o[k].fingerprint
             /\ t <= d.raws[i].entry.expires

Needed(o, d) ==
    \A i \in DOMAIN d.raws : \E k \in DOMAIN o :
        \/ o[k].fingerprint = d.raws[i].entry.fingerprint
        \/ o[k].identity = d.raws[i].entry.identity

CoveredAndNeeded(o, d, t) == Sound(d) /\ Distinct(d) /\ Covered(o, d, t) /\ Needed(o, d)

-----------------------------------------------------------------------------
LEMMA ListsAreFinite ==
    ASSUME NEW o, IsList(o)
    PROVE  /\ Len(o) \in Nat /\ DOMAIN o = 1 .. Len(o)
           /\ IsFiniteSet(DOMAIN o)
<1>1. Len(o) \in Nat /\ DOMAIN o = 1 .. Len(o)
  BY DEF IsList
<1>2. \A n \in Nat : IsFiniteSet(1 .. n)
  BY FS_Interval
<1> QED
  BY <1>1, <1>2

(* A set with one known element has one element iff it has no other.       *)
LEMMA OneMeansNoOther ==
    ASSUME NEW S, IsFiniteSet(S), NEW x \in S
    PROVE  /\ Cardinality(S) = 1 <=> \A y \in S : y = x
           /\ Cardinality(S) > 1 <=> \E y \in S : y # x
<1>1. Cardinality(S) \in Nat /\ Cardinality(S) # 0
  BY FS_CardinalityType, FS_EmptySet
<1>2. Cardinality(S) = 1 <=> \E y : S = {y}
  BY FS_Singleton
<1>3. (\E y : S = {y}) <=> \A y \in S : y = x
  OBVIOUS
<1> QED
  BY <1>1, <1>2, <1>3

(* load_ledger finds nothing wrong exactly with a sound document, and      *)
(* then keeps every entry.                                                 *)
LEMMA LoadingIsSound ==
    ASSUME NEW d, IsDocument(d)
    PROVE  /\ LoadedLedger(d).violations = {} <=> Sound(d)
           /\ Sound(d) => LoadedLedger(d).entries = [i \in DOMAIN d.raws |-> d.raws[i].entry]
<1>1. /\ LoadedLedger(d).violations
           = DocumentViolations(d) \cup EntryViolations(RawEntries(d))
      /\ LoadedLedger(d).entries = LoadedEntries(RawEntries(d))
  BY DEF LoadedLedger
<1>2. DocumentViolations(d) = {} <=> d.supported /\ d.listed
  BY DEF DocumentViolations
<1>3. d.listed => RawEntries(d) = d.raws
  BY DEF RawEntries
<1>4. DOMAIN d.raws \subseteq Nat
  BY DEF IsDocument
<1>5. EntryViolations(d.raws) = {}
        <=> /\ \A i \in DOMAIN d.raws : d.raws[i].flaws = {}
            /\ KeptPositions(d.raws) = DOMAIN d.raws
  <2>1. KeptPositions(d.raws) \subseteq DOMAIN d.raws
    BY DEF KeptPositions
  <2> QED
    BY <2>1 DEF EntryViolations
<1>6. ASSUME \A i \in DOMAIN d.raws : d.raws[i].flaws = {}
      PROVE  KeptPositions(d.raws) = DOMAIN d.raws
               <=> \A i, j \in DOMAIN d.raws : i # j => d.raws[i].id # d.raws[j].id
  <2>1. \A i \in DOMAIN d.raws : 1 .. i - 1 = {j \in DOMAIN d.raws : j < i}
    BY DEF IsDocument
  <2>2. KeptPositions(d.raws) = {i \in DOMAIN d.raws :
            \A j \in DOMAIN d.raws : j < i => d.raws[j].id # d.raws[i].id}
    BY <1>6, <2>1 DEF KeptPositions
  <2>3. \A i, j \in DOMAIN d.raws : i # j => i < j \/ j < i
    BY <1>4
  <2> QED
    BY <1>4, <2>2, <2>3
<1>7. KeptPositions(d.raws) = DOMAIN d.raws
        => LoadedEntries(d.raws) = [i \in DOMAIN d.raws |-> d.raws[i].entry]
  BY DEF LoadedEntries
<1>8. LoadedLedger(d).violations = {} <=> Sound(d)
  BY <1>1, <1>2, <1>3, <1>5, <1>6 DEF Sound
<1> QED
  BY <1>1, <1>3, <1>6, <1>7, <1>8 DEF Sound

-----------------------------------------------------------------------------
(* A loaded ledger: its entries at the positions that are left.            *)
IsLedger(e) == DOMAIN e \subseteq Nat /\ \A i \in DOMAIN e : e[i].expires \in Nat

Unrepeated(e) ==
    \A i, j \in DOMAIN e : i # j => e[i].fingerprint # e[j].fingerprint

(* Without repeated fingerprints the index is the whole ledger.            *)
LEMMA IndexIsLedger ==
    ASSUME NEW e, IsLedger(e)
    PROVE  /\ DuplicateRows(e) = {} <=> Unrepeated(e)
           /\ Unrepeated(e) => Indexed(e) = DOMAIN e
<1>1. DuplicateRows(e) = {} <=> Indexed(e) = DOMAIN e
  BY DEF DuplicateRows, Indexed
<1>2. \A i, j \in DOMAIN e : i # j => i < j \/ j < i
  BY DEF IsLedger
<1>3. \A i, j \in DOMAIN e : i < j => i # j
  BY DEF IsLedger
<1>4. Indexed(e) = DOMAIN e <=> Unrepeated(e)
  BY <1>2, <1>3 DEF Indexed, Unrepeated
<1> QED
  BY <1>1, <1>4

(* Who has an entry of this fingerprint, or of this identity.              *)
Having(e, fingerprint) == {i \in DOMAIN e : e[i].fingerprint = fingerprint}

Called(e, identity) == {i \in DOMAIN e : e[i].identity = identity}

Unledgered(o, e) == {k \in DOMAIN o : Having(e, o[k].fingerprint) = {}}

Seen(o, e, i) ==
    \E k \in DOMAIN o : o[k].fingerprint = e[i].fingerprint \/ o[k].identity = e[i].identity

Repeated(o, e) ==
    {i \in DOMAIN e : \E k, l \in DOMAIN o :
        /\ k # l
        /\ o[k].fingerprint = e[i].fingerprint
        /\ o[l].fingerprint = e[i].fingerprint}

Overdue(o, e, t) ==
    {k \in DOMAIN o : \E i \in Having(e, o[k].fingerprint) : t > e[i].expires}

(* The sets of compare, over such a ledger.                                *)
LEMMA ComparisonMeans ==
    ASSUME NEW o, NEW e, IsFiniteSet(DOMAIN o), IsLedger(e), Unrepeated(e), NEW t \in Nat
    PROVE  /\ DuplicateRows(e) = {}
           /\ IncreasedRows(o, e) =
                {Violation("increased-finding", <<"entry", i>>) : i \in Repeated(o, e)}
           /\ ExpiredObservations(o, e, t) = Overdue(o, e, t)
           /\ Changed(o, e) = {k \in Unledgered(o, e) : Called(e, o[k].identity) # {}}
           /\ New(o, e) = {k \in Unledgered(o, e) : Called(e, o[k].identity) = {}}
           /\ Resolved(o, e) = {i \in DOMAIN e : ~Seen(o, e, i)}
<1>1. DuplicateRows(e) = {} /\ Indexed(e) = DOMAIN e
  BY IndexIsLedger
<1>2. /\ \A f : Matches(e, f) = Having(e, f)
      /\ \A n : SameIdentity(e, n) = Called(e, n)
  BY <1>1 DEF Matches, SameIdentity, Having, Called
<1>3. ASSUME NEW f
      PROVE  Cardinality(Occurrences(o, f)) > 1
               <=> \E k, l \in DOMAIN o : k # l /\ o[k].fingerprint = f /\ o[l].fingerprint = f
  <2>1. IsFiniteSet(Occurrences(o, f))
    <3>1. Occurrences(o, f) \in SUBSET (DOMAIN o)
      BY DEF Occurrences
    <3> QED
      BY <3>1, FS_Subset
  <2>2. CASE Occurrences(o, f) = {}
    <3>1. Cardinality(Occurrences(o, f)) = 0
      BY <2>2, FS_EmptySet
    <3> QED
      BY <2>2, <3>1 DEF Occurrences
  <2>3. CASE Occurrences(o, f) # {}
    <3>1. PICK k : k \in Occurrences(o, f)
      BY <2>3
    <3>2. Cardinality(Occurrences(o, f)) > 1 <=> \E l \in Occurrences(o, f) : l # k
      BY <2>1, <3>1, OneMeansNoOther
    <3> QED
      BY <3>1, <3>2 DEF Occurrences
  <2> QED
    BY <2>2, <2>3
<1>4. IncreasedRows(o, e) =
        {Violation("increased-finding", <<"entry", i>>) : i \in Repeated(o, e)}
  <2>1. {j \in Indexed(e) : Cardinality(Occurrences(o, e[j].fingerprint)) > 1}
          = Repeated(o, e)
    BY <1>1, <1>3 DEF Repeated
  <2> QED
    BY <2>1, Zenon DEF IncreasedRows
<1>5. ExpiredObservations(o, e, t) = Overdue(o, e, t)
  BY <1>2 DEF ExpiredObservations, Overdue, IsExpired
<1>6. /\ Changed(o, e) = {k \in Unledgered(o, e) : Called(e, o[k].identity) # {}}
      /\ New(o, e) = {k \in Unledgered(o, e) : Called(e, o[k].identity) = {}}
  BY <1>2 DEF Changed, New, Unledgered
<1>7. Resolved(o, e) = {i \in DOMAIN e : ~Seen(o, e, i)}
  BY <1>1 DEF Resolved, Seen
<1> QED
  BY <1>1, <1>4, <1>5, <1>6, <1>7

(* The rows are empty exactly when each kind of row is.                    *)
LEMMA NoRowsMeans ==
    ASSUME NEW o, NEW e, NEW t, NEW p
    PROVE  ComparisonRows(o, e, t, p, TRUE) = {}
             <=> /\ DuplicateRows(e) = {} /\ IncreasedRows(o, e) = {}
                 /\ ExpiredObservations(o, e, t) = {} /\ Changed(o, e) = {} /\ New(o, e) = {}
                 /\ Resolved(o, e) = {}
<1>1. LeftoverRows(o, e, p, TRUE) = {} <=> Resolved(o, e) = {}
  BY DEF LeftoverRows
<1> QED
  BY <1>1 DEF ComparisonRows

(* What the verdict means.                                                 *)
LEMMA PassMeans ==
    ASSUME NEW d, NEW o, NEW p, IsDocument(d), IsFiniteSet(DOMAIN o), NEW t \in Nat
    PROVE  Judge(o, d, t, p).passed <=> CoveredAndNeeded(o, d, t)
<1> DEFINE e == LoadedLedger(d).entries
           rows == ComparisonRows(o, e, t, p, TRUE)
<1>1. Judge(o, d, t, p).passed <=> rows = {} /\ LoadedLedger(d).violations = {}
  BY DEF Judge, Merged, Compare
<1>2. CASE ~Sound(d)
  BY <1>1, <1>2, LoadingIsSound DEF CoveredAndNeeded
<1>3. CASE Sound(d)
  <2>1. DOMAIN e = DOMAIN d.raws /\ \A i \in DOMAIN d.raws : e[i] = d.raws[i].entry
    BY <1>3, LoadingIsSound
  <2> HIDE DEF e, rows
  <2>2. IsLedger(e)
    BY <2>1 DEF IsLedger, IsDocument
  <2>3. Unrepeated(e) <=> Distinct(d)
    BY <2>1 DEF Unrepeated, Distinct
  <2>4. CASE ~Distinct(d)
    <3>1. rows # {}
      BY <2>2, <2>3, <2>4, IndexIsLedger, NoRowsMeans DEF rows
    <3> QED
      BY <1>1, <2>4, <3>1 DEF CoveredAndNeeded
  <2>5. CASE Distinct(d)
    <3>8. /\ DuplicateRows(e) = {}
          /\ IncreasedRows(o, e) =
               {Violation("increased-finding", <<"entry", i>>) : i \in Repeated(o, e)}
      BY <2>2, <2>3, <2>5, ComparisonMeans, Zenon
    <3>9. /\ Changed(o, e) = {k \in Unledgered(o, e) : Called(e, o[k].identity) # {}}
          /\ New(o, e) = {k \in Unledgered(o, e) : Called(e, o[k].identity) = {}}
      BY <2>2, <2>3, <2>5, ComparisonMeans
    <3>1. rows = {}
            <=> /\ Repeated(o, e) = {}
                /\ ExpiredObservations(o, e, t) = {}
                /\ Changed(o, e) = {} /\ New(o, e) = {} /\ Resolved(o, e) = {}
      <4>1. IncreasedRows(o, e) = {} <=> Repeated(o, e) = {}
        BY <3>8
      <4> QED
        BY <3>8, <4>1, NoRowsMeans DEF rows
    <3>2. Resolved(o, e) = {} <=> Needed(o, d)
      <4>1. Resolved(o, e) = {i \in DOMAIN e : ~Seen(o, e, i)}
        BY <2>2, <2>3, <2>5, ComparisonMeans
      <4> QED
        BY <2>1, <4>1 DEF Seen, Needed
    <3>3. Changed(o, e) = {} /\ New(o, e) = {}
            <=> \A k \in DOMAIN o : \E i \in DOMAIN d.raws :
                   d.raws[i].entry.fingerprint = o[k].fingerprint
      <4>2. Changed(o, e) = {} /\ New(o, e) = {}
              <=> \A k \in DOMAIN o : Having(e, o[k].fingerprint) # {}
        BY <3>9 DEF Unledgered
      <4> QED
        BY <2>1, <4>2 DEF Having
    <3>4. ExpiredObservations(o, e, t) = {}
            <=> \A k \in DOMAIN o : \A i \in DOMAIN d.raws :
                   d.raws[i].entry.fingerprint = o[k].fingerprint
                     => t <= d.raws[i].entry.expires
      <4>1. ExpiredObservations(o, e, t) = Overdue(o, e, t)
        BY <2>2, <2>3, <2>5, ComparisonMeans
      <4>2. \A i \in DOMAIN e : t > e[i].expires <=> ~(t <= e[i].expires)
        BY <2>2 DEF IsLedger
      <4>3. ExpiredObservations(o, e, t) = {}
              <=> \A k \in DOMAIN o : \A i \in Having(e, o[k].fingerprint) :
                     ~(t > e[i].expires)
        BY <4>1 DEF Overdue
      <4>4. ASSUME NEW k \in DOMAIN o
            PROVE  (\A i \in Having(e, o[k].fingerprint) : ~(t > e[i].expires))
                     <=> \A i \in DOMAIN d.raws :
                           d.raws[i].entry.fingerprint = o[k].fingerprint
                             => t <= d.raws[i].entry.expires
        BY <2>1, <4>2 DEF Having
      <4> QED
        BY <4>3, <4>4
    <3>5. \A i, j \in DOMAIN d.raws :
             d.raws[i].entry.fingerprint = d.raws[j].entry.fingerprint => i = j
      BY <2>5 DEF Distinct
    <3>6. Repeated(o, e) = {} <=> \A i \in DOMAIN d.raws : \A k, l \in DOMAIN o :
             /\ o[k].fingerprint = d.raws[i].entry.fingerprint
             /\ o[l].fingerprint = d.raws[i].entry.fingerprint
             => k = l
      BY <2>1 DEF Repeated
    <3>7. rows = {} <=> Covered(o, d, t) /\ Needed(o, d)
      <4>1. ASSUME rows = {}
            PROVE  Covered(o, d, t) /\ Needed(o, d)
        <5>1. Needed(o, d)
          BY <3>1, <3>2, <4>1
        <5>2. ASSUME NEW k \in DOMAIN o
              PROVE  /\ \A l \in DOMAIN o : o[l].fingerprint = o[k].fingerprint => l = k
                     /\ \E i \in DOMAIN d.raws :
                          /\ d.raws[i].entry.fingerprint = o[k].fingerprint
                          /\ t <= d.raws[i].entry.expires
          <6>1. PICK i \in DOMAIN d.raws : d.raws[i].entry.fingerprint = o[k].fingerprint
            BY <3>1, <3>3, <4>1
          <6> QED
            BY <3>1, <3>4, <3>6, <4>1, <6>1
        <5> QED
          BY <5>1, <5>2 DEF Covered
      <4>2. ASSUME Covered(o, d, t), Needed(o, d)
            PROVE  rows = {}
        <5>1. Changed(o, e) = {} /\ New(o, e) = {} /\ Repeated(o, e) = {} /\ Resolved(o, e) = {}
          BY <3>2, <3>3, <3>6, <4>2 DEF Covered
        <5>2. ExpiredObservations(o, e, t) = {}
          BY <3>4, <3>5, <4>2 DEF Covered
        <5> QED
          BY <3>1, <5>1, <5>2
      <4> QED
        BY <4>1, <4>2
    <3> QED
      BY <1>1, <1>3, <2>5, <3>7, LoadingIsSound DEF CoveredAndNeeded
  <2> QED
    BY <2>4, <2>5
<1> QED
  BY <1>2, <1>3

-----------------------------------------------------------------------------
(* t has the elements of s, in another order.                              *)
Permutes(s, t) ==
    \E f \in [DOMAIN t -> DOMAIN s] :
        /\ \A i \in DOMAIN t : t[i] = s[f[i]]
        /\ \A i, j \in DOMAIN t : f[i] = f[j] => i = j
        /\ \A k \in DOMAIN s : \E i \in DOMAIN t : f[i] = k

LEMMA ReverseMeans ==
    ASSUME NEW s, IsList(s)
    PROVE  IsList(Reverse(s)) /\ Permutes(s, Reverse(s)) /\ Permutes(Reverse(s), s)
<1> DEFINE n == Len(s)
           r == Reverse(s)
           f == [i \in 1 .. n |-> (n - i) + 1]
<1>1. n \in Nat /\ DOMAIN s = 1 .. n
  BY ListsAreFinite
<1>2. r = [i \in 1 .. n |-> s[(n - i) + 1]] /\ DOMAIN r = 1 .. n
  BY DEF Reverse
<1> HIDE DEF r, n
<1>3. f \in [1 .. n -> 1 .. n] /\ \A i \in 1 .. n : f[f[i]] = i
  BY <1>1
<1>4. \A i \in 1 .. n : r[i] = s[f[i]]
  BY <1>1, <1>2
<1> HIDE DEF f
<1>5. \A i \in 1 .. n : s[i] = r[f[i]]
  BY <1>3, <1>4
<1>6. /\ \A i, j \in 1 .. n : f[i] = f[j] => i = j
      /\ \A k \in 1 .. n : f[k] \in 1 .. n /\ f[f[k]] = k
  BY <1>3
<1>7. Permutes(s, r) /\ Permutes(r, s)
  <2>1. ASSUME NEW a, NEW b, DOMAIN a = 1 .. n, DOMAIN b = 1 .. n,
               \A i \in 1 .. n : b[i] = a[f[i]]
        PROVE  Permutes(a, b)
    <3>1. \A i, j \in DOMAIN b : f[i] = f[j] => i = j
      BY <1>6, <2>1
    <3>2. \A k \in DOMAIN a : \E i \in DOMAIN b : f[i] = k
      BY <1>6, <2>1
    <3>3. f \in [DOMAIN b -> DOMAIN a]
      BY <1>3, <2>1
    <3>4. \A i \in DOMAIN b : b[i] = a[f[i]]
      BY <2>1
    <3> QED
      BY <3>1, <3>2, <3>3, <3>4, Zenon DEF Permutes
  <2>2. DOMAIN s = 1 .. n /\ DOMAIN r = 1 .. n
    BY <1>1, <1>2
  <2>3. Permutes(s, r)
    BY <1>4, <2>1, <2>2, Zenon
  <2>4. Permutes(r, s)
    BY <1>5, <2>1, <2>2, Zenon
  <2> QED
    BY <2>3, <2>4
<1>8. r \in Seq(Range(r))
  <2>1. \A i \in 1 .. n : r[i] \in Range(r)
    BY <1>2 DEF Range
  <2> QED
    BY <1>1, <1>2, <2>1
<1> QED
  BY <1>7, <1>8 DEF r, IsList

(* One-to-one is a matter of the elements, not of their order.             *)
LEMMA PermutedIsCovered ==
    ASSUME NEW o, NEW q, NEW d, NEW c, NEW t, Permutes(o, q), Permutes(d.raws, c.raws),
           c.supported = d.supported, c.listed = d.listed, CoveredAndNeeded(o, d, t)
    PROVE  CoveredAndNeeded(q, c, t)
<1>1. PICK f \in [DOMAIN q -> DOMAIN o] :
        /\ \A k \in DOMAIN q : q[k] = o[f[k]]
        /\ \A k, l \in DOMAIN q : f[k] = f[l] => k = l
        /\ \A k \in DOMAIN o : \E l \in DOMAIN q : f[l] = k
  BY DEF Permutes
<1>2. PICK g \in [DOMAIN c.raws -> DOMAIN d.raws] :
        /\ \A i \in DOMAIN c.raws : c.raws[i] = d.raws[g[i]]
        /\ \A i, j \in DOMAIN c.raws : g[i] = g[j] => i = j
        /\ \A i \in DOMAIN d.raws : \E j \in DOMAIN c.raws : g[j] = i
  BY DEF Permutes
<1>3. Sound(c) /\ Distinct(c)
  BY <1>2 DEF CoveredAndNeeded, Sound, Distinct
<1>4. Covered(q, c, t)
  <2> SUFFICES ASSUME NEW k \in DOMAIN q
               PROVE  /\ \A l \in DOMAIN q : q[l].fingerprint = q[k].fingerprint => l = k
                      /\ \E i \in DOMAIN c.raws :
                           /\ c.raws[i].entry.fingerprint = q[k].fingerprint
                           /\ t <= c.raws[i].entry.expires
    BY DEF Covered
  <2>1. /\ \A l \in DOMAIN o : o[l].fingerprint = o[f[k]].fingerprint => l = f[k]
        /\ \E i \in DOMAIN d.raws :
             /\ d.raws[i].entry.fingerprint = o[f[k]].fingerprint
             /\ t <= d.raws[i].entry.expires
    BY DEF CoveredAndNeeded, Covered
  <2>2. PICK i \in DOMAIN d.raws :
             /\ d.raws[i].entry.fingerprint = o[f[k]].fingerprint
             /\ t <= d.raws[i].entry.expires
    BY <2>1
  <2>3. PICK j \in DOMAIN c.raws : g[j] = i
    BY <1>2
  <2> QED
    BY <1>1, <1>2, <2>1, <2>2, <2>3
<1>5. Needed(q, c)
  <2> SUFFICES ASSUME NEW i \in DOMAIN c.raws
               PROVE  \E k \in DOMAIN q :
                        \/ q[k].fingerprint = c.raws[i].entry.fingerprint
                        \/ q[k].identity = c.raws[i].entry.identity
    BY DEF Needed
  <2>1. PICK l \in DOMAIN o :
           \/ o[l].fingerprint = d.raws[g[i]].entry.fingerprint
           \/ o[l].identity = d.raws[g[i]].entry.identity
    BY DEF CoveredAndNeeded, Needed
  <2>2. PICK k \in DOMAIN q : f[k] = l
    BY <1>1
  <2> QED
    BY <1>1, <1>2, <2>1, <2>2
<1> QED
  BY <1>3, <1>4, <1>5 DEF CoveredAndNeeded

-----------------------------------------------------------------------------
(* Without the entries nothing has, every other entry is found as before.  *)
LEMMA RemovalMeans ==
    ASSUME NEW o, NEW e, IsFiniteSet(DOMAIN o), IsLedger(e), Unrepeated(e), NEW t \in Nat, NEW p,
           \A i, j \in DOMAIN e : i # j => e[i].id # e[j].id,
           NEW w, DOMAIN w = {j \in DOMAIN e : Seen(o, e, j)},
           \A i \in DOMAIN w : w[i] = e[i]
    PROVE  /\ Resolved(o, w) = {}
           /\ ComparisonRows(o, w, t, p, TRUE) =
                {v \in ComparisonRows(o, e, t, p, TRUE) :
                    v.kind \notin {"stale-entry", "resolved-not-removed"}}
<1> DEFINE Firsts(x) ==
             {Violation("increased-finding", <<"entry", i>>) : i \in Repeated(o, x)}
             \cup {Violation("expired-exception", <<"finding", k>>) :
                     k \in ExpiredObservations(o, x, t)}
             \cup {Violation("changed-signature", <<"finding", k>>) : k \in Changed(o, x)}
             \cup {Violation("new-finding", <<"finding", k>>) : k \in New(o, x)}
<1>1. /\ DOMAIN w = {j \in DOMAIN e : Seen(o, e, j)}
      /\ \A i \in DOMAIN w : w[i] = e[i]
  OBVIOUS
<1>2. IsLedger(w) /\ Unrepeated(w)
  BY <1>1 DEF IsLedger, Unrepeated
<1>3. \A k \in DOMAIN o : /\ Having(w, o[k].fingerprint) = Having(e, o[k].fingerprint)
                          /\ Called(w, o[k].identity) = Called(e, o[k].identity)
  BY <1>1 DEF Having, Called, Seen
<1>4. /\ Repeated(o, w) = Repeated(o, e)
      /\ Unledgered(o, w) = Unledgered(o, e)
  BY <1>1, <1>3 DEF Repeated, Unledgered, Seen
<1>5. Changed(o, w) = Changed(o, e) /\ New(o, w) = New(o, e)
  <2>1. /\ Changed(o, e) = {k \in Unledgered(o, e) : Called(e, o[k].identity) # {}}
        /\ New(o, e) = {k \in Unledgered(o, e) : Called(e, o[k].identity) = {}}
    BY ComparisonMeans
  <2>2. /\ Changed(o, w) = {k \in Unledgered(o, w) : Called(w, o[k].identity) # {}}
        /\ New(o, w) = {k \in Unledgered(o, w) : Called(w, o[k].identity) = {}}
    BY <1>2, ComparisonMeans
  <2> QED
    BY <1>3, <1>4, <2>1, <2>2 DEF Unledgered
<1>6. ExpiredObservations(o, w, t) = ExpiredObservations(o, e, t)
  <2>1. /\ ExpiredObservations(o, e, t) = Overdue(o, e, t)
        /\ ExpiredObservations(o, w, t) = Overdue(o, w, t)
    BY <1>2, ComparisonMeans
  <2>2. \A k \in DOMAIN o : \A i \in Having(w, o[k].fingerprint) : w[i] = e[i]
    BY <1>1 DEF Having
  <2> QED
    BY <1>3, <2>1, <2>2 DEF Overdue
<1>7. Resolved(o, w) = {}
  <2>1. Resolved(o, w) = {i \in DOMAIN w : ~Seen(o, w, i)}
    BY <1>2, ComparisonMeans
  <2> QED
    BY <1>1, <2>1 DEF Seen
<1>8. /\ ComparisonRows(o, e, t, p, TRUE) = Firsts(e) \cup LeftoverRows(o, e, p, TRUE)
      /\ ComparisonRows(o, w, t, p, TRUE) = Firsts(w) \cup LeftoverRows(o, w, p, TRUE)
  <2> SUFFICES ASSUME NEW x, IsLedger(x), Unrepeated(x)
               PROVE  ComparisonRows(o, x, t, p, TRUE)
                        = Firsts(x) \cup LeftoverRows(o, x, p, TRUE)
    BY <1>2
  <2>1. /\ DuplicateRows(x) = {}
        /\ IncreasedRows(o, x) =
             {Violation("increased-finding", <<"entry", i>>) : i \in Repeated(o, x)}
    BY ComparisonMeans
  <2> QED
    BY <2>1 DEF ComparisonRows
<1>9. Firsts(w) = Firsts(e)
  BY <1>4, <1>5, <1>6, Zenon
<1>10. \A v \in Firsts(e) : v.kind \notin {"stale-entry", "resolved-not-removed"}
  BY DEF Violation
<1>11. \A v \in LeftoverRows(o, e, p, TRUE) : v.kind \in {"stale-entry", "resolved-not-removed"}
  BY DEF LeftoverRows, LeftoverKind, Violation
<1>12. LeftoverRows(o, w, p, TRUE) = {}
  BY <1>7 DEF LeftoverRows
<1> HIDE DEF Firsts
<1> QED
  BY <1>7, <1>8, <1>9, <1>10, <1>11, <1>12

-----------------------------------------------------------------------------
Inputs ==
    /\ doc \in Documents /\ observed \in ObservedLists
    /\ Compared => result = Judge(observed, doc, Today, passing)

LEMMA InputsHold == Spec => []Inputs
<1>1. Init => Inputs
  BY DEF Init, Inputs, Compared
<1>2. Inputs /\ [CompareOnce]_vars => Inputs'
  BY DEF Inputs, CompareOnce, vars, Compared
<1> QED
  BY <1>1, <1>2, PTL DEF Spec

LEMMA InputsAreRead ==
    ASSUME Inputs
    PROVE  IsDocument(doc) /\ IsList(observed) /\ Today \in Nat
BY ComparisonAssumption DEF Inputs, IsDocument, IsList

(* The gate passes exactly when the ledger is sound and its entries and    *)
(* the findings belong together one to one, or by identity (compare).      *)
THEOREM PassCorrectness == Spec => []PassIsCovered
<1>1. Inputs => PassIsCovered
  <2> SUFFICES ASSUME Inputs, Compared
               PROVE  PassIsCovered
    BY DEF PassIsCovered
  <2>1. result.passed <=> CoveredAndNeeded(observed, doc, Today)
    BY InputsAreRead, ListsAreFinite, PassMeans DEF Inputs
  <2>2. \A k \in DOMAIN observed :
          OneOf({l \in DOMAIN observed : observed[l].fingerprint = observed[k].fingerprint})
            <=> \A l \in DOMAIN observed :
                  observed[l].fingerprint = observed[k].fingerprint => l = k
    <3> SUFFICES ASSUME NEW k \in DOMAIN observed
                 PROVE  OneOf({l \in DOMAIN observed :
                                 observed[l].fingerprint = observed[k].fingerprint})
                          <=> \A l \in DOMAIN observed :
                                observed[l].fingerprint = observed[k].fingerprint => l = k
      OBVIOUS
    <3> DEFINE S == {l \in DOMAIN observed :
                       observed[l].fingerprint = observed[k].fingerprint}
    <3>1. IsFiniteSet(S)
      BY InputsAreRead, ListsAreFinite, FS_Subset
    <3>2. k \in S
      OBVIOUS
    <3>3. Cardinality(S) = 1 <=> \A l \in S : l = k
      <4> HIDE DEF S
      <4> QED
        BY <3>1, <3>2, OneMeansNoOther
    <3> QED
      BY <3>3 DEF OneOf
  <2>3. CoveredAndNeeded(observed, doc, Today) <=>
          /\ doc.supported /\ doc.listed
          /\ \A i \in DOMAIN doc.raws :
               /\ doc.raws[i].flaws = {}
               /\ \A j \in DOMAIN doc.raws \ {i} :
                    /\ doc.raws[i].id # doc.raws[j].id
                    /\ doc.raws[i].entry.fingerprint # doc.raws[j].entry.fingerprint
          /\ \A k \in DOMAIN observed :
               /\ OneOf({l \in DOMAIN observed :
                           observed[l].fingerprint = observed[k].fingerprint})
               /\ \E i \in DOMAIN doc.raws :
                    /\ doc.raws[i].entry.fingerprint = observed[k].fingerprint
                    /\ Today <= doc.raws[i].entry.expires
          /\ \A i \in DOMAIN doc.raws : \E k \in DOMAIN observed :
               \/ observed[k].fingerprint = doc.raws[i].entry.fingerprint
               \/ observed[k].identity = doc.raws[i].entry.identity
    BY <2>2 DEF CoveredAndNeeded, Sound, Distinct, Covered, Needed
  <2> QED
    BY <2>1, <2>3 DEF PassIsCovered
<1> QED
  BY <1>1, InputsHold, PTL

(* Neither order decides the verdict (entry_by_fingerprint keeps the first *)
(* entry, load_entries_strict the first id).                               *)
THEOREM OrderCorrectness == Spec => []OrderIsIrrelevant
<1>1. Inputs => OrderIsIrrelevant
  <2> SUFFICES ASSUME Inputs, Compared
               PROVE  result.passed =
                        Judge(Reverse(observed), [doc EXCEPT !.raws = Reverse(@)],
                              Today, passing).passed
    BY DEF OrderIsIrrelevant
  <2> DEFINE c == [supported |-> doc.supported, listed |-> doc.listed,
                   raws |-> Reverse(doc.raws)]
             q == Reverse(observed)
  <2>1. IsDocument(doc) /\ IsList(observed) /\ IsList(doc.raws) /\ Today \in Nat
    BY InputsAreRead DEF IsDocument, IsList
  <2>2. [doc EXCEPT !.raws = Reverse(@)] = c
    BY <2>1 DEF IsDocument
  <2>3. /\ IsList(q) /\ Permutes(observed, q) /\ Permutes(q, observed)
        /\ IsList(c.raws) /\ Permutes(doc.raws, c.raws) /\ Permutes(c.raws, doc.raws)
    BY <2>1, ReverseMeans
  <2>4. /\ c = [supported |-> c.supported, listed |-> c.listed, raws |-> c.raws]
        /\ c.supported = doc.supported /\ c.listed = doc.listed
    OBVIOUS
  <2> HIDE DEF c, q
  <2>5. IsDocument(c)
    <3>1. PICK g \in [DOMAIN c.raws -> DOMAIN doc.raws] :
             \A i \in DOMAIN c.raws : c.raws[i] = doc.raws[g[i]]
      BY <2>3 DEF Permutes
    <3> QED
      BY <2>1, <2>3, <2>4, <3>1 DEF IsDocument, IsList
  <2>6. CoveredAndNeeded(observed, doc, Today) <=> CoveredAndNeeded(q, c, Today)
    BY <2>3, <2>4, PermutedIsCovered
  <2>7. /\ Judge(observed, doc, Today, passing).passed <=> CoveredAndNeeded(observed, doc, Today)
        /\ Judge(q, c, Today, passing).passed <=> CoveredAndNeeded(q, c, Today)
    BY <2>1, <2>3, <2>5, ListsAreFinite, PassMeans
  <2>8. \A a, b, z : Judge(a, b, Today, z).passed \in BOOLEAN
    BY DEF Judge, Merged, Compare
  <2>9. Judge(observed, doc, Today, passing).passed = Judge(q, c, Today, passing).passed
    BY <2>6, <2>7, <2>8, Zenon
  <2> QED
    BY <2>2, <2>9 DEF Inputs, q
<1> QED
  BY <1>1, InputsHold, PTL

(* Removing what suggested_removals names is safe (compare, removals).     *)
THEOREM RemovalCorrectness == Spec => []RemovalsAreSafe
<1>1. Inputs => RemovalsAreSafe
  <2> SUFFICES ASSUME Inputs, Compared, LedgerIsSound, DuplicateRows(Entries) = {}
               PROVE  LET again == Compare(observed, WithoutResolved, Today, passing, TRUE)
                      IN  /\ again.resolved = {}
                          /\ again.violations =
                               {v \in result.violations :
                                  v.kind \notin {"stale-entry", "resolved-not-removed"}}
    BY DEF RemovalsAreSafe
  <2> DEFINE e == Entries
             kept == {j \in DOMAIN e : Seen(observed, e, j)}
  <2>1. IsDocument(doc) /\ IsList(observed) /\ Today \in Nat
    BY InputsAreRead
  <2>2. Sound(doc) /\ e = [i \in DOMAIN doc.raws |-> doc.raws[i].entry]
    BY <2>1, LoadingIsSound DEF LedgerIsSound, Entries
  <2>3. /\ IsLedger(e)
        /\ \A i, j \in DOMAIN e : i # j => e[i].id # e[j].id
    BY <2>1, <2>2 DEF IsLedger, IsDocument, Sound
  <2> HIDE DEF e
  <2>4. Unrepeated(e)
    BY <2>3, IndexIsLedger DEF e
  <2>5. /\ result.violations = ComparisonRows(observed, e, Today, passing, TRUE)
        /\ result.resolved = {e[i].id : i \in Resolved(observed, e)}
    <3> DEFINE c == Compare(observed, e, Today, passing, TRUE)
               l == LoadedLedger(doc)
    <3>1. l.violations = {} /\ l.entries = e
      BY DEF LedgerIsSound, e, Entries
    <3>2. result = Merged(c, l)
      BY <3>1 DEF Inputs, Judge
    <3>3. /\ c.violations = ComparisonRows(observed, e, Today, passing, TRUE)
          /\ c.resolved = {e[i].id : i \in Resolved(observed, e)}
      BY DEF Compare
    <3>4. /\ Merged(c, l).violations = c.violations \cup l.violations
          /\ Merged(c, l).resolved = c.resolved
      BY DEF Merged, Compare
    <3> HIDE DEF c, l
    <3> QED
      BY <3>1, <3>2, <3>3, <3>4
  <2>6. Resolved(observed, e) = DOMAIN e \ kept
    BY <2>1, <2>3, <2>4, ListsAreFinite, ComparisonMeans
  <2>7. {j \in DOMAIN e : e[j].id \notin result.resolved} = kept
    BY <2>3, <2>5, <2>6
  <2>8. WithoutResolved = [i \in kept |-> e[i]]
    BY <2>7 DEF WithoutResolved, e
  <2> DEFINE w == WithoutResolved
  <2>9. /\ Resolved(observed, w) = {}
        /\ ComparisonRows(observed, w, Today, passing, TRUE) =
             {v \in ComparisonRows(observed, e, Today, passing, TRUE) :
                v.kind \notin {"stale-entry", "resolved-not-removed"}}
    BY <2>1, <2>3, <2>4, <2>8, ListsAreFinite, RemovalMeans
  <2>10. LET again == Compare(observed, w, Today, passing, TRUE)
         IN  /\ again.resolved = {w[i].id : i \in Resolved(observed, w)}
             /\ again.violations = ComparisonRows(observed, w, Today, passing, TRUE)
    BY DEF Compare
  <2> QED
    BY <2>5, <2>9, <2>10
<1> QED
  BY <1>1, InputsHold, PTL
-----------------------------------------------------------------------------
(***************************************************************************)
(* The migration debt over time.  A scan may have failed, or be an earlier *)
(* job's: the invariant says only what every findings document there is    *)
(* looks like, and that the ledger is finite.                              *)
(***************************************************************************)
LEMMA SetToSeqMeans ==
    ASSUME NEW S, IsFiniteSet(S)
    PROVE  /\ Cardinality(S) \in Nat
           /\ SetToSeq(S) \in [1 .. Cardinality(S) -> S]
           /\ \A i, j \in 1 .. Cardinality(S) : SetToSeq(S)[i] = SetToSeq(S)[j] => i = j
           /\ \A x \in S : \E i \in 1 .. Cardinality(S) : SetToSeq(S)[i] = x
<1> DEFINE D == 1 .. Cardinality(S)
           s == SetToSeq(S)
<1>1. Cardinality(S) \in Nat /\ ExistsBijection(D, S)
  BY FS_CardinalityType
<1>2. \E f \in [D -> S] : IsInjective(f)
  BY <1>1 DEF ExistsBijection, Bijection, Injection
<1>3. s \in [D -> S] /\ IsInjective(s)
  BY <1>2 DEF SetToSeq
<1>4. IsFiniteSet(D) /\ Cardinality(D) = Cardinality(S)
  BY <1>1, FS_Interval
<1>5. s \in Injection(D, S)
  BY <1>3 DEF Injection
<1> HIDE DEF s, D
<1>6. s \in Surjection(D, S)
  BY <1>4, <1>5, FS_Injection
<1> QED
  BY <1>1, <1>3, <1>6 DEF s, D, IsInjective, Surjection

Scanned(f) ==
    /\ DOMAIN f \subseteq Keys
    /\ f = [key \in DOMAIN f |->
              [rule        |-> PacketEnvelopeRule,
               identity    |-> <<key[1], <<key[2], key[3]>>>>,
               fingerprint |-> key]]

EnvelopeInv ==
    /\ code \in [Paths -> File]
    /\ IsFiniteSet(debtLedger)
    /\ debtLedger \subseteq Keys
    /\ Scanned(document.findings)

LEMMA KeysAreFinite == IsFiniteSet(Keys)
<1> DEFINE U == Usages \cup {Unparseable}
           S == Paths \X U
           f == [x \in S |-> <<x[1], x[2].kind, x[2].context>>]
<1>1. IsFiniteSet(U)
  BY EnvelopeAssumption, FS_AddElement
<1>2. IsFiniteSet(S)
  <2> HIDE DEF U
  <2> QED
    BY <1>1, EnvelopeAssumption, FS_Product
<1>3. f \in Surjection(S, Keys)
  <2>1. f \in [S -> Keys]
    BY DEF Keys
  <2>2. ASSUME NEW key \in Keys
        PROVE  \E x \in S : f[x] = key
    <3>1. PICK p \in Paths, u \in U : key = <<p, u.kind, u.context>>
      BY DEF Keys
    <3>2. <<p, u>> \in S /\ f[<<p, u>>] = key
      BY <3>1
    <3> QED
      BY <3>2
  <2> HIDE DEF f, S
  <2> QED
    BY <2>1, <2>2 DEF Surjection
<1> HIDE DEF S, f
<1> QED
  BY <1>2, <1>3, FS_Surjection

(* What scan_file makes of a file.                                         *)
LEMMA ScannedMeans ==
    ASSUME NEW f
    PROVE  /\ f.form = "unreadable" => ScannedUsages(f) = {}
           /\ f.form = "text" => ScannedUsages(f) = UsagesMet(f)
           /\ f.form = "unparseable" =>
                ScannedUsages(f) = IF UsagesMet(f) = {} THEN {} ELSE {Unparseable}
  BY DEF ScannedUsages

(* The findings of the present code.                                       *)
FileOf(p) == [path |-> p, form |-> code[p].form, usages |-> code[p].usages]

LEMMA FindingsMean ==
    ASSUME code \in [Paths -> File]
    PROVE  /\ Scanned(EnvelopeFindings(Files, Declared))
           /\ \A key : key \in DOMAIN EnvelopeFindings(Files, Declared)
                <=> \E p \in Paths : \E u \in ScannedUsages(FileOf(p)) :
                      IsDebt(p, u) /\ key = <<p, u.kind, u.context>>
<1> DEFINE Found(file) ==
             {<<file.path, u.kind, u.context>> :
                u \in {v \in ScannedUsages(file) :
                         ~(file.path \in Declared /\ v.kind \in DeclarationKinds)}}
           keys == UNION {Found(file) : file \in Files}
           findings == [key \in keys |->
                          [rule        |-> PacketEnvelopeRule,
                           identity    |-> <<key[1], <<key[2], key[3]>>>>,
                           fingerprint |-> key]]
<1>1. EnvelopeFindings(Files, Declared) = findings
  BY DEF EnvelopeFindings
<1>2. Files = {FileOf(p) : p \in Paths}
  BY DEF Files, FileOf
<1>3. \A p \in Paths : FileOf(p).path = p
  BY DEF FileOf
<1>4. \A key : key \in keys <=>
        \E p \in Paths : \E u \in ScannedUsages(FileOf(p)) :
          IsDebt(p, u) /\ key = <<p, u.kind, u.context>>
  BY <1>2, <1>3 DEF IsDebt
<1>5. \A p \in Paths : ScannedUsages(FileOf(p)) \subseteq Usages \cup {Unparseable}
  <2> SUFFICES ASSUME NEW p \in Paths
               PROVE  ScannedUsages(FileOf(p)) \subseteq Usages \cup {Unparseable}
    OBVIOUS
  <2>1. code[p] \in File /\ FileOf(p).form = code[p].form /\ FileOf(p).usages = code[p].usages
    BY DEF FileOf
  <2>2. UsagesMet(FileOf(p)) \subseteq Usages
    BY <2>1 DEF UsagesMet, File
  <2>3. FileOf(p).form \in {"unreadable", "text", "unparseable"}
    BY <2>1, EnvelopeAssumption DEF File
  <2> QED
    BY <2>2, <2>3, ScannedMeans
<1>6. keys \subseteq Keys
  BY <1>4, <1>5 DEF Keys
<1> HIDE DEF keys
<1> QED
  BY <1>1, <1>4, <1>6 DEF Scanned

LEMMA EnvelopeInvHolds == EnvelopeSpec => []EnvelopeInv
<1>1. EnvelopeInit => EnvelopeInv
  <2> SUFFICES ASSUME EnvelopeInit PROVE EnvelopeInv
    OBVIOUS
  <2>1. code \in [Paths -> File]
    <3>1. Clean \in File
      BY EnvelopeAssumption DEF Clean, File
    <3> QED
      BY <3>1 DEF EnvelopeInit
  <2>2. IsFiniteSet(debtLedger) /\ debtLedger \subseteq Keys
    BY FS_EmptySet DEF EnvelopeInit
  <2>3. Scanned(document.findings)
    BY DEF EnvelopeInit, NoDocument, Scanned
  <2> QED
    BY <2>1, <2>2, <2>3 DEF EnvelopeInv
<1>2. EnvelopeInv /\ [EnvelopeNext]_envelopeVars => EnvelopeInv'
  <2> SUFFICES ASSUME EnvelopeInv, [EnvelopeNext]_envelopeVars PROVE EnvelopeInv'
    OBVIOUS
  <2>1. ASSUME NEW p \in Paths, NEW u \in Usages, ChangeUsage(p, u)
        PROVE  EnvelopeInv'
    <3>1. code' \in [Paths -> File]
      BY <2>1 DEF ChangeUsage, EnvelopeInv, File
    <3> QED
      BY <2>1, <3>1 DEF ChangeUsage, EnvelopeInv, Scanned
  <2>2. ASSUME NEW p \in Paths, ChangeForm(p)
        PROVE  EnvelopeInv'
    <3>1. code' \in [Paths -> File]
      BY <2>2 DEF ChangeForm, EnvelopeInv, File
    <3> QED
      BY <2>2, <3>1 DEF ChangeForm, EnvelopeInv, Scanned
  <2>3. ASSUME NEW key \in Keys, EditDebtLedger(key)
        PROVE  EnvelopeInv'
    <3>1. debtLedger' \subseteq Keys /\ IsFiniteSet(debtLedger')
      <4>1. debtLedger' \subseteq Keys
        BY <2>3 DEF EditDebtLedger, EnvelopeInv
      <4> QED
        BY <4>1, KeysAreFinite, FS_Subset
    <3> QED
      BY <2>3, <3>1 DEF EditDebtLedger, EnvelopeInv, Scanned
  <2>4. ASSUME document' \in {document, NoDocument}, UNCHANGED <<code, debtLedger>>
        PROVE  EnvelopeInv'
    <3>1. Scanned(NoDocument.findings)
      BY DEF NoDocument, Scanned
    <3> QED
      BY <2>4, <3>1 DEF EnvelopeInv, Scanned
  <2>5. ASSUME Scan
        PROVE  EnvelopeInv'
    <3>1. document'.findings = EnvelopeFindings(Files, Declared) \/ document' = document
          \/ document'.findings = <<>>
      BY <2>5 DEF Scan
    <3>2. Scanned(EnvelopeFindings(Files, Declared))
      BY FindingsMean DEF EnvelopeInv
    <3>3. Scanned(<<>>)
      BY DEF Scanned
    <3>4. Scanned(document'.findings)
      BY <3>1, <3>2, <3>3 DEF EnvelopeInv
    <3> QED
      BY <2>5, <3>4 DEF Scan, EnvelopeInv, Scanned
  <2>6. CASE UNCHANGED envelopeVars
    BY <2>4, <2>6 DEF envelopeVars
  <2>7. ASSUME CheckoutTree \/ CompareScan
        PROVE  EnvelopeInv'
    BY <2>4, <2>7 DEF CheckoutTree, CompareScan
  <2> QED
    BY <2>1, <2>2, <2>3, <2>5, <2>6, <2>7 DEF EnvelopeNext
<1> QED
  BY <1>1, <1>2, PTL DEF EnvelopeSpec

(* The ledger's document is one of as many entries as there are keys.      *)
LEMMA DebtDocumentMeans ==
    ASSUME EnvelopeInv
    PROVE  /\ IsDocument(DebtDocument)
           /\ \A i \in DOMAIN DebtDocument.raws :
                /\ DebtDocument.raws[i].entry.fingerprint \in debtLedger
                /\ DebtDocument.raws[i].entry.identity =
                     <<PacketEnvelopeRule, DebtDocument.raws[i].entry.fingerprint[1]>>
           /\ \A key \in debtLedger : \E i \in DOMAIN DebtDocument.raws :
                DebtDocument.raws[i].entry.fingerprint = key
<1> DEFINE s == SetToSeq(debtLedger)
           n == Cardinality(debtLedger)
           raws == [i \in DOMAIN s |->
                      [id    |-> i,
                       flaws |-> {},
                       entry |-> [id          |-> i,
                                  kind        |-> "baseline",
                                  identity    |-> <<PacketEnvelopeRule, s[i][1]>>,
                                  fingerprint |-> s[i],
                                  expires     |-> 0]]]
<1>1. /\ n \in Nat /\ s \in [1 .. n -> debtLedger]
      /\ \A key \in debtLedger : \E i \in 1 .. n : s[i] = key
  BY SetToSeqMeans DEF EnvelopeInv
<1>2. DebtDocument = [supported |-> TRUE, listed |-> TRUE, raws |-> raws]
  BY DEF DebtDocument
<1> HIDE DEF s, n
<1>3. /\ DOMAIN raws = 1 .. n
      /\ \A i \in 1 .. n : /\ raws[i].id = i /\ raws[i].flaws = {}
                           /\ raws[i].entry.id = i /\ raws[i].entry.expires = 0
                           /\ raws[i].entry.identity = <<PacketEnvelopeRule, s[i][1]>>
                           /\ raws[i].entry.fingerprint = s[i]
  BY <1>1
<1> HIDE DEF raws
<1>4. raws \in Seq(Range(raws))
  <2>1. raws \in [1 .. n -> Range(raws)]
    BY <1>3 DEF raws, Range
  <2> QED
    BY <1>1, <2>1
<1>5. IsDocument(DebtDocument)
  BY <1>2, <1>3, <1>4 DEF IsDocument
<1>6. DebtDocument.raws = raws
  BY <1>2
<1>7. \A i \in 1 .. n : s[i] \in debtLedger
  BY <1>1
<1>8. \A i \in DOMAIN raws :
        /\ raws[i].entry.fingerprint \in debtLedger
        /\ raws[i].entry.identity = <<PacketEnvelopeRule, raws[i].entry.fingerprint[1]>>
  <2> SUFFICES ASSUME NEW i \in 1 .. n
               PROVE  /\ raws[i].entry.fingerprint \in debtLedger
                      /\ raws[i].entry.identity =
                           <<PacketEnvelopeRule, raws[i].entry.fingerprint[1]>>
    BY <1>3
  <2>1. raws[i].entry.fingerprint = s[i]
    BY <1>3
  <2>2. raws[i].entry.identity = <<PacketEnvelopeRule, s[i][1]>>
    BY <1>3
  <2> QED
    BY <1>7, <2>1, <2>2
<1>9. \A key \in debtLedger : \E i \in DOMAIN raws : raws[i].entry.fingerprint = key
  BY <1>1, <1>3
<1> QED
  BY <1>5, <1>6, <1>8, <1>9, Zenon

(* A pass of compare-scan rests on a whole findings document with exactly  *)
(* the ledgered fingerprints, and if that is its own scan's, no readable   *)
(* debt is unledgered and no entry outlives its debt (compare-scan and     *)
(* scan_repository).                                                       *)
THEOREM DebtCorrectness == EnvelopeSpec => PassIsLedgered
<1> DEFINE OwnMeans ==
             OwnDocument =>
               /\ \A d \in DebtOf(code) : LedgerCovers(d[1], d[2])
               /\ \A key \in debtLedger : \E p \in Paths, u \in Usages :
                     key[1] = p /\ code[p].form # "unreadable" /\ code[p].usages[u] > 0
<1>1. ASSUME EnvelopeInv, document.form = "json",
             Judge(document.findings, DebtDocument, 0, {}).passed
      PROVE  DOMAIN document.findings = debtLedger
  <2> DEFINE f == document.findings
             d == DebtDocument
  <2>1. /\ DOMAIN f \subseteq Keys
        /\ \A key \in DOMAIN f : /\ f[key].fingerprint = key
                                 /\ f[key].identity = <<key[1], <<key[2], key[3]>>>>
    BY <1>1 DEF EnvelopeInv, Scanned
  <2>2. IsFiniteSet(DOMAIN f)
    BY <2>1, KeysAreFinite, FS_Subset
  <2>3. CoveredAndNeeded(f, d, 0)
    BY <1>1, <2>2, DebtDocumentMeans, PassMeans
  <2>4. ASSUME NEW key \in DOMAIN f
        PROVE  key \in debtLedger
    BY <1>1, <2>1, <2>3, DebtDocumentMeans DEF CoveredAndNeeded, Covered
  <2>5. ASSUME NEW key \in debtLedger
        PROVE  key \in DOMAIN f
    <3>1. PICK i \in DOMAIN d.raws : d.raws[i].entry.fingerprint = key
      BY <1>1, DebtDocumentMeans
    <3>2. PICK k \in DOMAIN f : \/ f[k].fingerprint = d.raws[i].entry.fingerprint
                                \/ f[k].identity = d.raws[i].entry.identity
      BY <2>3 DEF CoveredAndNeeded, Needed
    <3>3. k[1] \in Paths
      BY <2>1 DEF Keys
    <3>4. f[k].identity # d.raws[i].entry.identity
      BY <1>1, <2>1, <3>3, DebtDocumentMeans, EnvelopeAssumption
    <3> QED
      BY <2>1, <3>1, <3>2, <3>4
  <2> QED
    BY <2>4, <2>5
<1>2. ASSUME EnvelopeInv, DOMAIN document.findings = debtLedger
      PROVE  OwnMeans
  <2> SUFFICES ASSUME OwnDocument PROVE OwnMeans
    OBVIOUS
  <2>1. \A key : key \in debtLedger
          <=> \E p \in Paths : \E u \in ScannedUsages(FileOf(p)) :
                IsDebt(p, u) /\ key = <<p, u.kind, u.context>>
    BY <1>2, FindingsMean DEF OwnDocument, EnvelopeInv
  <2>2. \A p \in Paths :
          /\ code[p].form \in {"unreadable", "text", "unparseable"}
          /\ FileOf(p).form = code[p].form
          /\ UsagesMet(FileOf(p)) = {u \in Usages : code[p].usages[u] > 0}
    BY <1>2, EnvelopeAssumption DEF EnvelopeInv, File, FileOf, UsagesMet
  <2>3. ASSUME NEW d \in DebtOf(code)
        PROVE  LedgerCovers(d[1], d[2])
    <3>1. /\ d[1] \in Paths /\ d[2] \in UsagesMet(FileOf(d[1]))
          /\ code[d[1]].form # "unreadable" /\ IsDebt(d[1], d[2])
      BY <2>2 DEF DebtOf
    <3>2. CASE code[d[1]].form = "text"
      <4>1. d[2] \in ScannedUsages(FileOf(d[1]))
        BY <2>2, <3>1, <3>2, ScannedMeans
      <4> QED
        BY <2>1, <3>1, <3>2, <4>1 DEF LedgerCovers
    <3>3. CASE code[d[1]].form = "unparseable"
      <4>1. Unparseable \in ScannedUsages(FileOf(d[1]))
        BY <2>2, <3>1, <3>3, ScannedMeans
      <4>2. IsDebt(d[1], Unparseable)
        BY DEF IsDebt, Unparseable, DeclarationKinds
      <4> QED
        BY <2>1, <3>1, <3>3, <4>1, <4>2 DEF LedgerCovers
    <3> QED
      BY <2>2, <3>1, <3>2, <3>3
  <2>4. ASSUME NEW key \in debtLedger
        PROVE  \E p \in Paths, u \in Usages :
                 key[1] = p /\ code[p].form # "unreadable" /\ code[p].usages[u] > 0
    <3>1. PICK p \in Paths : \E u \in ScannedUsages(FileOf(p)) :
            IsDebt(p, u) /\ key = <<p, u.kind, u.context>>
      BY <2>1
    <3>2. key[1] = p /\ ScannedUsages(FileOf(p)) # {}
      BY <3>1
    <3>3. code[p].form # "unreadable" /\ UsagesMet(FileOf(p)) # {}
      BY <2>2, <3>2, ScannedMeans
    <3> QED
      BY <2>2, <3>2, <3>3
  <2> QED
    BY <2>3, <2>4
<1>3. EnvelopeInv /\ [EnvelopeNext]_envelopeVars
        => [PassingScan =>
              /\ document.form = "json"
              /\ DOMAIN document.findings = debtLedger
              /\ OwnMeans]_envelopeVars
  <2> SUFFICES ASSUME EnvelopeInv, EnvelopeNext, PassingScan
               PROVE  /\ document.form = "json"
                      /\ DOMAIN document.findings = debtLedger
                      /\ OwnMeans
    OBVIOUS
  <2>1. CompareScan
    BY DEF EnvelopeNext, PassingScan, ChangeUsage, ChangeForm, EditDebtLedger, CheckoutTree, Scan
  <2>2. /\ document.form = "json"
        /\ Judge(document.findings, DebtDocument, 0, {}).passed
    BY <2>1 DEF CompareScan, CompareScanExit, PassingScan
  <2> QED
    BY <1>1, <1>2, <2>2
<1> QED
  BY <1>3, EnvelopeInvHolds, PTL DEF EnvelopeSpec, PassIsLedgered
-----------------------------------------------------------------------------
(***************************************************************************)
(* The quarantine over time.  What a log holds may be a part of a run or   *)
(* another run's; the invariant says what every log there is looks like,   *)
(* and that the last accepted failures are the ledger until it is edited.  *)
(***************************************************************************)
IsLog(lines) ==
    /\ lines \in Seq(Range(lines))
    /\ \A record \in Range(lines) :
         record.outcome = "failed" => record.type \in {"CollectReport", "TestReport"}

IsEntry(e) ==
    /\ e = [node |-> e.node, signature |-> e.signature, expires |-> e.expires]
    /\ e.expires \in Nat

LedgerInv ==
    /\ IsFiniteSet(ledger)
    /\ \A e \in ledger : IsEntry(e)

QuarantineInv ==
    /\ tests \in [Tests -> Outcomes]
    /\ day \in Nat
    /\ LedgerInv
    /\ IsLog(log.lines)

(* The parser and a reader of the log see the same failures.               *)
LEMMA FailuresMean ==
    ASSUME NEW lines, IsLog(lines)
    PROVE  /\ FailuresIn(lines) =
                {<<lines[i].node, lines[i].signature>> : i \in JudgedAt(lines)}
           /\ IsFiniteSet(JudgedAt(lines))
<1>1. Len(lines) \in Nat /\ DOMAIN lines = 1 .. Len(lines)
  BY DEF IsLog
<1>2. FailedAt(lines) = {j \in DOMAIN lines : lines[j].outcome = "failed"}
  <2>1. \A j \in DOMAIN lines : lines[j] \in Range(lines)
    BY DEF Range
  <2> QED
    BY <2>1 DEF FailedAt, IsLog
<1>3. JudgedAt(lines) =
        {j \in DOMAIN lines :
            /\ lines[j].outcome = "failed"
            /\ \A k \in j + 1 .. Len(lines) :
                  lines[k].outcome = "failed" => lines[k].node # lines[j].node}
  BY <1>1, <1>2 DEF JudgedAt
<1>4. IsFiniteSet(JudgedAt(lines))
  <2>1. JudgedAt(lines) \in SUBSET (1 .. Len(lines))
    BY <1>1, <1>3
  <2>2. IsFiniteSet(1 .. Len(lines))
    BY <1>1, FS_Interval
  <2> QED
    BY <2>1, <2>2, FS_Subset
<1> QED
  BY <1>3, <1>4, Zenon DEF FailuresIn

LEMMA PartOfALog ==
    ASSUME NEW lines, IsLog(lines), NEW n \in 0 .. Len(lines)
    PROVE  IsLog(SubSeq(lines, 1, n))
<1> DEFINE part == SubSeq(lines, 1, n)
<1>1. Len(lines) \in Nat /\ DOMAIN lines = 1 .. Len(lines)
  BY DEF IsLog
<1>2. /\ DOMAIN part = 1 .. n
      /\ \A i \in 1 .. n : part[i] = lines[i]
  BY <1>1 DEF IsLog
<1>3. part = [i \in 1 .. n |-> part[i]]
  BY <1>1 DEF IsLog
<1> HIDE DEF part
<1>4. \A i \in 1 .. n : part[i] \in Range(part)
  BY <1>2 DEF Range
<1>5. part \in Seq(Range(part))
  BY <1>1, <1>3, <1>4
<1>6. Range(part) \subseteq Range(lines)
  BY <1>1, <1>2 DEF Range
<1> QED
  BY <1>5, <1>6 DEF IsLog, part

LEMMA QuarantineInvHolds == QuarantineSpec => []QuarantineInv
<1>1. QuarantineInit => QuarantineInv
  <2> SUFFICES ASSUME QuarantineInit PROVE QuarantineInv
    OBVIOUS
  <2>1. LedgerInv
    BY FS_EmptySet DEF QuarantineInit, LedgerInv
  <2>2. IsLog(log.lines)
    BY DEF QuarantineInit, NoLog, IsLog, Range
  <2> QED
    BY <2>1, <2>2 DEF QuarantineInit, QuarantineInv
<1>2. QuarantineInv /\ [QuarantineNext]_quarantineVars => QuarantineInv'
  <2> SUFFICES ASSUME QuarantineInv, [QuarantineNext]_quarantineVars
               PROVE  QuarantineInv'
    OBVIOUS
  <2>1. tests' \in [Tests -> Outcomes]
    BY DEF QuarantineInv, QuarantineNext, quarantineVars, ChangeTest, EditLedger, BreakLedger,
           NewDay, Checkout, RunPytest, CompareTests
  <2>2. day' \in Nat
    BY DEF QuarantineInv, QuarantineNext, quarantineVars, ChangeTest, EditLedger, BreakLedger,
           NewDay, Checkout, RunPytest, CompareTests
  <2>3. LedgerInv'
    <3>1. CASE EditLedger
      <4>1. day + Grace \in Nat
        BY QuarantineAssumption DEF QuarantineInv
      <4>2. ASSUME NEW n \in Nodes, NEW s \in Signatures,
                   ledger' = ledger \cup
                               {[node |-> n, signature |-> s, expires |-> day + Grace]}
            PROVE  LedgerInv'
        <5> DEFINE x == [node |-> n, signature |-> s, expires |-> day + Grace]
        <5>1. IsEntry(x) /\ x.node = n
          BY <4>1 DEF IsEntry
        <5>2. ledger' = ledger \cup {x}
          BY <4>2
        <5> HIDE DEF x
        <5>3. IsFiniteSet(ledger')
          BY <5>2, FS_AddElement DEF QuarantineInv, LedgerInv
        <5>4. \A e \in ledger' : IsEntry(e)
          BY <5>1, <5>2 DEF QuarantineInv, LedgerInv
        <5> QED
          BY <5>3, <5>4 DEF LedgerInv, IsEntry
      <4>3. ASSUME NEW e \in ledger, ledger' = ledger \ {e}
            PROVE  LedgerInv'
        <5>1. IsFiniteSet(ledger')
          BY <4>3, FS_RemoveElement DEF QuarantineInv, LedgerInv
        <5>2. \A f \in ledger' : IsEntry(f)
          BY <4>3 DEF QuarantineInv, LedgerInv
        <5> QED
          BY <5>1, <5>2 DEF LedgerInv, IsEntry
      <4>4. ASSUME NEW e \in ledger,
                   ledger' = (ledger \ {e}) \cup {[e EXCEPT !.expires = day + Grace]}
            PROVE  LedgerInv'
        <5> DEFINE x == [node |-> e.node, signature |-> e.signature, expires |-> day + Grace]
        <5>1. [e EXCEPT !.expires = day + Grace] = x
          BY DEF QuarantineInv, LedgerInv, IsEntry
        <5>2. IsEntry(x) /\ x.node = e.node
          BY <4>1 DEF IsEntry
        <5>3. ledger' = (ledger \ {e}) \cup {x}
          BY <4>4, <5>1
        <5> HIDE DEF x
        <5>4. IsFiniteSet(ledger')
          <6>1. IsFiniteSet(ledger \ {e})
            BY FS_RemoveElement DEF QuarantineInv, LedgerInv
          <6> QED
            BY <5>3, <6>1, FS_AddElement
        <5>5. \A f \in ledger' : IsEntry(f)
          BY <5>2, <5>3 DEF QuarantineInv, LedgerInv
        <5> QED
          BY <5>4, <5>5 DEF LedgerInv, IsEntry
      <4> QED
        BY <3>1, <4>2, <4>3, <4>4 DEF EditLedger
    <3>2. CASE ledger' = ledger
      BY <3>2 DEF QuarantineInv, LedgerInv, IsEntry
    <3> QED
      BY <3>1, <3>2 DEF QuarantineNext, quarantineVars, ChangeTest, BreakLedger,
                        NewDay, Checkout, RunPytest, CompareTests
  <2>4. IsLog(log.lines)'
    <3>1. \A suite \in [Tests -> Outcomes] : IsLog(LogOf(suite))
      BY LogAssumption DEF IsLog
    <3>2. IsLog(NoLog.lines)
      BY DEF NoLog, IsLog, Range
    <3>3. CASE RunPytest
      <4>1. IsLog(WholeLog)
        BY <3>1 DEF WholeLog, QuarantineInv
      <4>2. \/ log'.lines = WholeLog
            \/ log' = log
            \/ \E earlier \in [Tests -> Outcomes] : log'.lines = LogOf(earlier)
            \/ \E n \in 0 .. Len(WholeLog) : log'.lines = SubSeq(WholeLog, 1, n)
        BY <3>3 DEF RunPytest
      <4>3. IsLog(log'.lines)
        BY <3>1, <4>1, <4>2, PartOfALog DEF QuarantineInv
      <4> QED
        BY <4>3 DEF IsLog
    <3>4. CASE log' \in {log, NoLog}
      BY <3>2, <3>4 DEF QuarantineInv, IsLog
    <3> QED
      BY <3>3, <3>4 DEF QuarantineNext, quarantineVars, ChangeTest, EditLedger, BreakLedger,
                        NewDay, Checkout, CompareTests
  <2> QED
    BY <2>1, <2>2, <2>3, <2>4 DEF QuarantineInv
<1> QED
  BY <1>1, <1>2, PTL DEF QuarantineSpec

LEMMA LedgerDocumentMeans ==
    ASSUME LedgerInv
    PROVE  /\ IsDocument(LedgerDocument)
           /\ \A i \in DOMAIN LedgerDocument.raws : \E e \in ledger :
                /\ LedgerDocument.raws[i].entry.identity = e.node
                /\ LedgerDocument.raws[i].entry.fingerprint = <<e.node, e.signature>>
                /\ LedgerDocument.raws[i].entry.expires = e.expires
           /\ \A e \in ledger : \E i \in DOMAIN LedgerDocument.raws :
                /\ LedgerDocument.raws[i].entry.identity = e.node
                /\ LedgerDocument.raws[i].entry.fingerprint = <<e.node, e.signature>>
           /\ Sound(LedgerDocument) /\ ledgerForm = "flawed" => ledger = {}
<1> DEFINE s == SetToSeq(ledger)
           n == Cardinality(ledger)
           flaws(i) == IF ledgerForm = "flawed" /\ i = 1 THEN {"owner"} ELSE {}
           raws == [i \in DOMAIN s |->
                      [id    |-> i,
                       flaws |-> flaws(i),
                       entry |-> [id          |-> i,
                                  kind        |-> "test-quarantine",
                                  identity    |-> s[i].node,
                                  fingerprint |-> <<s[i].node, s[i].signature>>,
                                  expires     |-> s[i].expires]]]
<1>1. /\ n \in Nat /\ s \in [1 .. n -> ledger]
      /\ \A e \in ledger : \E i \in 1 .. n : s[i] = e
  BY SetToSeqMeans DEF LedgerInv
<1>2. LedgerDocument = [supported |-> TRUE, listed |-> TRUE, raws |-> raws]
  BY DEF LedgerDocument
<1>3. \A i : flaws(i) \subseteq Flaws
  BY DEF Flaws
<1>4. flaws(1) = {} => ledgerForm # "flawed"
  OBVIOUS
<1> HIDE DEF s, n, flaws
<1>5. /\ DOMAIN raws = 1 .. n
      /\ \A i \in 1 .. n : /\ raws[i].id = i /\ raws[i].flaws = flaws(i)
                           /\ raws[i].entry.id = i
                           /\ raws[i].entry.identity = s[i].node
                           /\ raws[i].entry.fingerprint = <<s[i].node, s[i].signature>>
                           /\ raws[i].entry.expires = s[i].expires
  BY <1>1
<1> HIDE DEF raws
<1>6. raws \in Seq(Range(raws))
  <2>1. raws \in [1 .. n -> Range(raws)]
    BY <1>5 DEF raws, Range
  <2> QED
    BY <1>1, <2>1
<1>7. \A i \in 1 .. n : s[i] \in ledger /\ s[i].expires \in Nat
  BY <1>1 DEF LedgerInv, IsEntry
<1>8. /\ LedgerDocument.raws = raws
      /\ LedgerDocument.supported = TRUE /\ LedgerDocument.listed = TRUE
  BY <1>2
<1>9. IsDocument(LedgerDocument)
  BY <1>2, <1>3, <1>5, <1>6, <1>7 DEF IsDocument
<1>10. \A i \in DOMAIN raws : \E e \in ledger :
         /\ raws[i].entry.identity = e.node
         /\ raws[i].entry.fingerprint = <<e.node, e.signature>>
         /\ raws[i].entry.expires = e.expires
  BY <1>5, <1>7
<1>11. \A e \in ledger : \E i \in DOMAIN raws :
         /\ raws[i].entry.identity = e.node
         /\ raws[i].entry.fingerprint = <<e.node, e.signature>>
  BY <1>1, <1>5
<1>12. Sound(LedgerDocument) /\ ledgerForm = "flawed" => ledger = {}
  <2> SUFFICES ASSUME Sound(LedgerDocument), ledgerForm = "flawed", ledger # {}
               PROVE  FALSE
    OBVIOUS
  <2>1. 1 \in 1 .. n
    BY <1>1
  <2>2. raws[1].flaws = {}
    BY <1>5, <1>8, <2>1 DEF Sound
  <2> QED
    BY <1>4, <1>5, <2>1, <2>2
<1> QED
  BY <1>8, <1>9, <1>10, <1>11, <1>12, Zenon

(* What a pass of compare-tests says of the log and the ledger.            *)
LEMMA JudgementMeans ==
    ASSUME QuarantineInv, Judgement.passed
    PROVE  /\ FailuresIn(log.lines) \subseteq LedgeredToday
           /\ NodesWith(FailuresIn(log.lines)) = NodesWith(Ledgered)
           /\ ledgerForm = "flawed" => ledger = {}
<1> DEFINE lines == log.lines
           f == TestFindings(lines)
           d == LedgerDocument
<1>1. IsLog(lines) /\ day \in Nat /\ LedgerInv
  BY DEF QuarantineInv
<1>2. /\ DOMAIN f = JudgedAt(lines)
      /\ \A k \in DOMAIN f : /\ f[k].identity = lines[k].node
                             /\ f[k].fingerprint = <<lines[k].node, lines[k].signature>>
  BY DEF TestFindings, TestFinding
<1>3. \E p : Judge(f, d, day, p).passed
  BY DEF Judgement, ParsedLog
<1> HIDE DEF f, d
<1>4. IsDocument(d)
  BY <1>1, LedgerDocumentMeans DEF d
<1>5. CoveredAndNeeded(f, d, day)
  BY <1>1, <1>2, <1>3, <1>4, FailuresMean, PassMeans
<1>6. \A k \in DOMAIN f : \E e \in ledger :
        f[k].fingerprint = <<e.node, e.signature>> /\ day <= e.expires
  BY <1>1, <1>5, LedgerDocumentMeans DEF CoveredAndNeeded, Covered, d
<1>7. ASSUME NEW e \in ledger PROVE \E k \in DOMAIN f : lines[k].node = e.node
  <2>1. PICK i \in DOMAIN d.raws : /\ d.raws[i].entry.identity = e.node
                                   /\ d.raws[i].entry.fingerprint = <<e.node, e.signature>>
    BY <1>1, LedgerDocumentMeans DEF d
  <2>2. PICK k \in DOMAIN f : \/ f[k].fingerprint = <<e.node, e.signature>>
                              \/ f[k].identity = e.node
    BY <1>5, <2>1 DEF CoveredAndNeeded, Needed
  <2> QED
    BY <1>2, <2>2
<1>8. FailuresIn(lines) = {<<lines[k].node, lines[k].signature>> : k \in DOMAIN f}
  BY <1>1, <1>2, FailuresMean
<1>9. FailuresIn(lines) \subseteq LedgeredToday
  BY <1>2, <1>6, <1>8 DEF LedgeredToday
<1>10. ASSUME NEW n
       PROVE  n \in NodesWith(FailuresIn(lines)) <=> \E k \in DOMAIN f : n = lines[k].node
  <2>1. ASSUME n \in NodesWith(FailuresIn(lines))
        PROVE  \E k \in DOMAIN f : n = lines[k].node
    <3>1. PICK x \in FailuresIn(lines) : n = x[1]
      BY <2>1, Zenon DEF NodesWith
    <3>2. PICK k \in DOMAIN f : x = <<lines[k].node, lines[k].signature>>
      BY <1>8, <3>1, Zenon
    <3> QED
      BY <3>1, <3>2
  <2>2. ASSUME NEW k \in DOMAIN f, n = lines[k].node
        PROVE  n \in NodesWith(FailuresIn(lines))
    <3>1. <<lines[k].node, lines[k].signature>> \in FailuresIn(lines)
      BY <1>8, Zenon
    <3>2. n = <<lines[k].node, lines[k].signature>>[1]
      BY <2>2
    <3> QED
      BY <3>1, <3>2, Zenon DEF NodesWith
  <2> QED
    BY <2>1, <2>2, Zenon
<1>11. ASSUME NEW n
       PROVE  n \in NodesWith(Ledgered) <=> \E e \in ledger : n = e.node
  <2>1. ASSUME n \in NodesWith(Ledgered)
        PROVE  \E e \in ledger : n = e.node
    <3>1. PICK x \in Ledgered : n = x[1]
      BY <2>1, Zenon DEF NodesWith
    <3>2. PICK e \in ledger : x = <<e.node, e.signature>>
      BY <3>1, Zenon DEF Ledgered
    <3> QED
      BY <3>1, <3>2
  <2>2. ASSUME NEW e \in ledger, n = e.node
        PROVE  n \in NodesWith(Ledgered)
    <3>1. <<e.node, e.signature>> \in Ledgered
      BY Zenon DEF Ledgered
    <3>2. n = <<e.node, e.signature>>[1]
      BY <2>2
    <3> QED
      BY <3>1, <3>2, Zenon DEF NodesWith
  <2> QED
    BY <2>1, <2>2, Zenon
<1>12. \A k \in DOMAIN f : \E e \in ledger : lines[k].node = e.node
  BY <1>2, <1>6
<1>13. NodesWith(FailuresIn(lines)) = NodesWith(Ledgered)
  <2>1. ASSUME NEW n
        PROVE  n \in NodesWith(FailuresIn(lines)) <=> n \in NodesWith(Ledgered)
    BY <1>7, <1>10, <1>11, <1>12
  <2> QED
    BY <2>1, <1>8 DEF NodesWith, Ledgered
<1>14. ledgerForm = "flawed" => ledger = {}
  BY <1>1, <1>5, LedgerDocumentMeans DEF CoveredAndNeeded, d
<1> QED
  BY <1>9, <1>13, <1>14

PassedAsLogged ==
    /\ log.form = "lines"
    /\ FailuresIn(log.lines) \subseteq LedgeredToday
    /\ NodesWith(FailuresIn(log.lines)) = NodesWith(Ledgered)
    /\ ledgerForm # "unreadable"
    /\ ledgerForm = "flawed" => ledger = {}

LEMMA PassingRunMeans ==
    ASSUME QuarantineInv, QuarantineNext, PassingRun
    PROVE  CompareTests /\ PassedAsLogged
<1>1. CompareTests
  BY DEF QuarantineNext, PassingRun, ChangeTest, EditLedger, BreakLedger, NewDay, Checkout,
         RunPytest
<1>2. /\ log.form = "lines" /\ ledgerForm # "unreadable"
      /\ Judgement.passed
  BY <1>1 DEF CompareTests, CompareTestsExit, PassingRun
<1> QED
  BY <1>1, <1>2, JudgementMeans DEF PassedAsLogged

(* A pass of compare-tests rests on whole lines in which the last failed   *)
(* phase of every test is ledgered, unexpired and owned, and in which      *)
(* every ledgered test fails, whatever happened to pytest and however many *)
(* entries a test has (compare-tests, parse_report_log and compare).       *)
THEOREM LogCorrectness == QuarantineSpec => PassIsWhatTheLogSays
<1>1. QuarantineInv /\ [QuarantineNext]_quarantineVars
        => [PassingRun => PassedAsLogged]_quarantineVars
  BY PassingRunMeans
<1>2. QuarantineSpec => [][PassingRun => PassedAsLogged]_quarantineVars
  BY <1>1, QuarantineInvHolds, PTL DEF QuarantineSpec
<1> QED
  BY <1>2 DEF PassIsWhatTheLogSays, PassedAsLogged

(* The tests whose failures were accepted are those of the ledger, until   *)
(* somebody edits it.                                                      *)
AcceptedInv == ~edited => NodesWith(accepted) = NodesWith(Ledgered)

LEMMA AcceptedInvHolds == QuarantineSpec => []AcceptedInv
<1>1. QuarantineInit => AcceptedInv
  BY DEF QuarantineInit, AcceptedInv
<1>2. AcceptedInv /\ QuarantineInv /\ [QuarantineNext]_quarantineVars => AcceptedInv'
  <2> SUFFICES ASSUME AcceptedInv, QuarantineInv, [QuarantineNext]_quarantineVars
               PROVE  AcceptedInv'
    OBVIOUS
  <2>1. CASE CompareTests
    <3>1. NodesWith(Ledgered)' = NodesWith(Ledgered)
      BY <2>1 DEF CompareTests, Ledgered, NodesWith
    <3>2. CASE exit' = "SUCCESS" /\ log.lines = WholeLog
      <4>1. PassingRun
        BY <2>1, <3>2 DEF CompareTests, PassingRun
      <4>2. NodesWith(FailuresIn(WholeLog)) = NodesWith(Ledgered)
        BY <2>1, <3>2, <4>1, PassingRunMeans DEF PassedAsLogged, QuarantineNext
      <4>3. accepted' = FailuresIn(WholeLog)
        BY <2>1, <3>2 DEF CompareTests
      <4>4. NodesWith(accepted)' = NodesWith(FailuresIn(WholeLog))
        BY <4>3 DEF NodesWith
      <4> QED
        BY <3>1, <4>2, <4>4 DEF AcceptedInv
    <3>3. CASE ~(exit' = "SUCCESS" /\ log.lines = WholeLog)
      <4>1. UNCHANGED <<accepted, edited>>
        BY <2>1, <3>3 DEF CompareTests
      <4>2. NodesWith(accepted)' = NodesWith(accepted)
        BY <4>1 DEF NodesWith
      <4> QED
        BY <3>1, <4>1, <4>2 DEF AcceptedInv
    <3> QED
      BY <3>2, <3>3
  <2>2. CASE edited'
    BY <2>2 DEF AcceptedInv
  <2>3. CASE UNCHANGED <<ledger, accepted, edited>>
    BY <2>3 DEF AcceptedInv, Ledgered, NodesWith
  <2> QED
    BY <2>1, <2>2, <2>3 DEF QuarantineNext, quarantineVars, ChangeTest, EditLedger, BreakLedger,
                            NewDay, Checkout, RunPytest
<1> QED
  BY <1>1, <1>2, QuarantineInvHolds, PTL DEF QuarantineSpec

(* The ratchet: between two full runs that pass, with no edit of the       *)
(* ledger, no test joins the accepted failures or leaves them, and what is *)
(* accepted is ledgered (compare-tests).                                   *)
THEOREM RatchetCorrectness == QuarantineSpec => DebtMovesOnlyByEdits
<1>1. AcceptedInv /\ QuarantineInv /\ [QuarantineNext]_quarantineVars
        => [PassingRun /\ FullRun /\ ~edited =>
              /\ NodesWith(accepted') = NodesWith(accepted)
              /\ accepted' \subseteq Ledgered]_quarantineVars
  <2> SUFFICES ASSUME AcceptedInv, QuarantineInv, QuarantineNext, PassingRun, FullRun, ~edited
               PROVE  /\ NodesWith(accepted') = NodesWith(accepted)
                      /\ accepted' \subseteq Ledgered
    OBVIOUS
  <2>1. /\ CompareTests
        /\ FailuresIn(log.lines) \subseteq LedgeredToday
        /\ NodesWith(FailuresIn(log.lines)) = NodesWith(Ledgered)
    BY PassingRunMeans DEF PassedAsLogged
  <2>2. log.lines = WholeLog
    BY DEF FullRun
  <2>3. accepted' = FailuresIn(log.lines)
    BY <2>1, <2>2 DEF CompareTests, PassingRun
  <2>4. LedgeredToday \subseteq Ledgered
    BY DEF LedgeredToday, Ledgered
  <2> QED
    BY <2>1, <2>3, <2>4 DEF AcceptedInv
<1> QED
  BY <1>1, QuarantineInvHolds, AcceptedInvHolds, PTL DEF QuarantineSpec, DebtMovesOnlyByEdits
=============================================================================
