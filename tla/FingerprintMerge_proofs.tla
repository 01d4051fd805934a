------------------------- MODULE FingerprintMerge_proofs -------------------------
(***************************************************************************)
(* Fingerprint::merge() keeps the templates of an enrollment within the    *)
(* file format and similar to each other, and write() followed by read()   *)
(* loses nothing, for any number of templates and any similarities.        *)
(***************************************************************************)
EXTENDS FingerprintMerge, WellFoundedInduction, TLAPS

\* Less-than on the similarities, shifted to the natural numbers.
Less == {p \in Nat \X Nat : p[1] < p[2]}

LEMMA LessWellFounded == IsWellFoundedOn(Less, Nat)
<1>1. Less = OpToRel(<, Nat)
  BY DEF Less, OpToRel
<1> QED
  BY <1>1, NatLessThanWellFounded

\* A set of integers that is not empty and bounded below has a minimum.
LEMMA MinOf ==
    ASSUME NEW S, NEW low \in Int, \A x \in S : x \in Int /\ low <= x, S # {}
    PROVE  Min(S) \in S /\ \A y \in S : Min(S) <= y
<1> DEFINE T == {x - low : x \in S}
<1>1. T \subseteq Nat /\ T # {}
  OBVIOUS
<1>2. PICK m \in T : \A n \in T : ~(<<n, m>> \in Less)
  BY <1>1, LessWellFounded, WFMin
<1>3. PICK x \in S : m = x - low
  OBVIOUS
<1>4. ASSUME NEW y \in S PROVE x <= y
  <2>1. y - low \in T /\ ~(y - low < m)
    BY <1>1, <1>2 DEF Less
  <2> QED
    BY <1>3, <2>1
<1> QED
  BY <1>4 DEF Min

\* min_sim() is at most the similarity to each template, and a percentage.
LEMMA MinSim ==
    ASSUME NEW scan \in Scan
    PROVE  /\ min_sim(scan) \in -100..100
           /\ \A i \in DOMAIN scan.sims : scan.sims[i] \in Int /\ min_sim(scan) <= scan.sims[i]
<1> DEFINE S == Range(scan.sims) \cup {100}
<1>1. scan.sims \in Seq(Score)
  BY DEF Scan
<1>2. \A i \in DOMAIN scan.sims : scan.sims[i] \in -100..100
  <2>1. \A i \in DOMAIN scan.sims : scan.sims[i] \in Score
    BY <1>1
  <2> QED
    BY <2>1, MergeAssumption
<1>3. \A x \in S : x \in -100..100
  BY <1>2 DEF Range
<1>4. /\ -100 \in Int /\ S # {}
      /\ \A x \in S : x \in Int /\ -100 <= x
  BY <1>3
<1> HIDE DEF S
<1>5. Min(S) \in S /\ \A y \in S : Min(S) <= y
  BY <1>4, MinOf
<1>6. min_sim(scan) = Min(S)
  BY DEF min_sim, S
<1>7. \A i \in DOMAIN scan.sims : scan.sims[i] \in S
  BY DEF S, Range
<1> QED
  BY <1>3, <1>5, <1>6, <1>7

-------------------------------------------------------------------------------
\* A scan that merge() is shown scores against every template taken before.
LEMMA ScansType ==
    ASSUME TypeOK, NEW scan \in Scans
    PROVE  scan \in Scan /\ DOMAIN scan.sims = 1..count
<1>1. count \in Nat /\ scan \in [valid : BOOLEAN, sims : [1..count -> Score]]
  BY DEF TypeOK, Scans, count
<1>2. [1..count -> Score] \subseteq Seq(Score)
  BY <1>1
<1> QED
  BY <1>1, <1>2 DEF Scan

LEMMA MergeStep ==
    ASSUME TypeOK, PairwiseGate, [Next]_vars
    PROVE  TypeOK' /\ PairwiseGate'
<1>0. /\ _templates \in Seq(Scan) /\ count = Len(_templates) /\ count \in Nat
      /\ count <= MAX_TEMPLATES /\ _enroll_min_similarity \in -100..100
      /\ MAX_TEMPLATES \in Nat \ {0} /\ Gate \in Int
  BY MergeAssumption DEF TypeOK, count, Gate
<1>1. ASSUME UNCHANGED vars PROVE TypeOK' /\ PairwiseGate'
  BY <1>1 DEF TypeOK, PairwiseGate, vars, count
<1>2. ASSUME NEW scan \in Scan, Take(scan), count < MAX_TEMPLATES, _enroll_min_similarity' \in -100..100,
             \A i \in DOMAIN scan.sims : scan.sims[i] >= Gate
      PROVE  TypeOK' /\ PairwiseGate'
  <2>1. _templates' = Append(_templates, scan)
    BY <1>2 DEF Take
  <2>2. TypeOK'
    BY <1>0, <1>2, <2>1 DEF TypeOK, count
  <2>3. ASSUME NEW j \in DOMAIN _templates', NEW i \in DOMAIN _templates'[j].sims
        PROVE  _templates'[j].sims[i] >= Gate
    <3>1. CASE j = Len(_templates) + 1
      BY <1>0, <1>2, <2>1, <2>3, <3>1
    <3>2. CASE j # Len(_templates) + 1
      <4>1. j \in DOMAIN _templates /\ _templates'[j] = _templates[j]
        BY <1>0, <2>1, <3>2
      <4> QED
        BY <2>3, <4>1 DEF PairwiseGate
    <3> QED
      BY <3>1, <3>2
  <2> QED
    BY <2>2, <2>3 DEF PairwiseGate
<1>3. ASSUME NEW scan \in Scans, merge(scan) PROVE TypeOK' /\ PairwiseGate'
  <2>1. scan \in Scan /\ DOMAIN scan.sims = 1..count
    BY <1>3, ScansType
  <2>2. /\ min_sim(scan) \in -100..100
        /\ \A i \in DOMAIN scan.sims : scan.sims[i] \in Int /\ min_sim(scan) <= scan.sims[i]
    BY <2>1, MinSim
  <2>3. CASE count = 0
    BY <1>0, <1>2, <1>3, <2>1, <2>3 DEF merge
  <2>4. CASE count # 0 /\ (Full \/ ~scan.valid \/ min_sim(scan) < Gate)
    BY <1>1, <1>3, <2>4 DEF merge, Refuse
  <2>5. CASE count # 0 /\ ~(Full \/ ~scan.valid \/ min_sim(scan) < Gate)
    <3>1. Take(scan) /\ _enroll_min_similarity' = min_sim(scan) /\ count < MAX_TEMPLATES
      BY <1>0, <1>3, <2>5 DEF merge, Full
    <3>2. ASSUME NEW i \in DOMAIN scan.sims PROVE scan.sims[i] >= Gate
      <4> DEFINE m == min_sim(scan)
                 s == scan.sims[i]
      <4>1. ~(m < Gate) /\ m \in -100..100 /\ s \in Int /\ m <= s
        BY <2>2, <2>5
      <4> HIDE DEF m, s
      <4>2. s >= Gate
        BY <4>1 DEF Gate
      <4> QED
        BY <4>2 DEF s
    <3> QED
      BY <1>2, <2>1, <2>2, <3>1, <3>2
  <2> QED
    BY <2>3, <2>4, <2>5
<1> QED
  BY <1>1, <1>3 DEF Next

LEMMA MergeInvariant == Spec => [](TypeOK /\ PairwiseGate)
<1>1. Init => TypeOK /\ PairwiseGate
  BY MergeAssumption DEF Init, TypeOK, PairwiseGate, count
<1>2. TypeOK /\ PairwiseGate /\ [Next]_vars => (TypeOK /\ PairwiseGate)'
  BY MergeStep
<1> QED
  BY <1>1, <1>2, PTL DEF Spec

\* An enrollment keeps at most MAX_TEMPLATES templates, and the similarity it
\* reports is a percentage, whatever scans merge() is shown.
THEOREM MergeTypeCorrect == Spec => []TypeOK
BY MergeInvariant, PTL

\* merge() compares a scan with every template taken before it, so that any two
\* templates of an enrollment pass the gate in whatever order they came.
THEOREM AlwaysPairwiseGate == Spec => []PairwiseGate
BY MergeInvariant, PTL

-------------------------------------------------------------------------------
\* read() takes as many templates as the file counts, the single one of an old
\* file when there is none.
LEMMA ReadWritten ==
    ASSUME NEW S, NEW templates \in Seq(S), NEW least
    PROVE  /\ read(write(templates, least)) = [templates |-> templates, least |-> least]
           /\ read([write(templates, least) EXCEPT !.count = 0, !.tpl = <<>>]).templates = First(templates)
<1> DEFINE node == write(templates, least)
           old  == [node EXCEPT !.count = 0, !.tpl = <<>>]
<1>1. /\ node.count = Len(templates) /\ node.enroll_min_sim = least
      /\ node.print = First(templates) /\ node.tpl = templates
  BY DEF write
<1>2. old.count = 0 /\ old.tpl = <<>> /\ old.print = First(templates)
  BY DEF write
<1>3. ASSUME NEW n \in Nat PROVE Min({n, n}) = n
  BY DEF Min
<1>4. SubSeq(templates, 1, Min({node.count, Len(node.tpl)})) = templates
  BY <1>1, <1>3
<1>5. SubSeq(old.tpl, 1, Min({old.count, Len(old.tpl)})) = <<>>
  BY <1>2, <1>3
<1>6. templates = <<>> => First(templates) = templates
  BY DEF First
<1> HIDE DEF node, old
<1>7. read(node) = [templates |-> templates, least |-> least]
  BY <1>1, <1>4, <1>6 DEF read
<1>8. read(old).templates = First(templates)
  BY <1>2, <1>5 DEF read
<1> QED
  BY <1>7, <1>8 DEF node, old

\* write() and read() agree on what a file holds: an enrollment survives a
\* restart with all its templates, and an old file keeps its one.
THEOREM AlwaysRoundTrip == Spec => []RoundTrip
<1>1. TypeOK => RoundTrip
  BY ReadWritten DEF TypeOK, RoundTrip
<1> QED
  BY <1>1, MergeTypeCorrect, PTL

================================================================================
