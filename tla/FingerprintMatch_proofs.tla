------------------------ MODULE FingerprintMatch_proofs ------------------------
(***************************************************************************)
(* Fingerprint::match() is complete up to the number of templates it       *)
(* tries, for any number of templates, any scores and any threshold.       *)
(***************************************************************************)
EXTENDS FingerprintMatch, FiniteSetTheorems, TLAPS

\* The templates tried so far scored best, and none of them was confirmed.
MatchInv ==
    /\ _codes \subseteq Template /\ tried \subseteq _codes
    /\ score \in [Template -> Score]
    /\ \A t \in tried : \A other \in _codes \ tried : score[t] >= score[other]
    /\ result # "yes" => \A t \in tried : ~Good(t)
    /\ MatchComplete

LEMMA MatchInit == Init => MatchInv
BY DEF Init, MatchInv, MatchComplete

LEMMA TryStep ==
    ASSUME MatchInv, NEW t \in Template, Try(t)
    PROVE  MatchInv'
<1> USE DEF MatchInv
<1>1. /\ t \in _codes \ tried /\ tried' = tried \cup {t} /\ valid /\ result = "none"
      /\ UNCHANGED <<_codes, valid, score, outcome>> /\ Best(t)
      /\ result' = IF Confirmed(t) THEN "yes" ELSE "none"
  BY DEF Try, Open
<1>2. \A a \in _codes : score[a] \in Int
  <2>1. \A s \in Score : s \in Int
    BY MatchAssumption
  <2> QED
    BY <2>1
<1>3. \A a \in tried' : \A other \in _codes' \ tried' : score'[a] >= score'[other]
  BY <1>1, <1>2 DEF Best
<1>4. \A a : Good(a)' <=> Good(a)
  BY <1>1 DEF Good
<1>5. Confirmed(t) <=> Good(t)
  BY <1>1 DEF Confirmed, Good
<1>6. MatchComplete'
  BY <1>1 DEF MatchComplete
<1>7. result' # "yes" => \A a \in tried' : ~Good(a)'
  BY <1>1, <1>4, <1>5
<1> QED
  BY <1>1, <1>3, <1>6, <1>7

\* Three tried templates are three that score at least as well as any other.
LEMMA RejectAllStep ==
    ASSUME MatchInv, RejectAll
    PROVE  MatchInv'
<1> USE DEF MatchInv
<1>1. /\ result = "none" /\ result' = "no"
      /\ UNCHANGED <<_codes, valid, score, outcome, tried>>
      /\ tried = _codes \/ Cardinality(tried) = Tries
  BY DEF RejectAll, Open, Return
<1>2. \A a : Good(a)' <=> Good(a)
  BY <1>1 DEF Good
<1>3. ASSUME NEW t \in Template, Good(t)
      PROVE  Cardinality({other \in _codes \ {t} : score[other] >= score[t]}) >= Tries
  <2> DEFINE better == {other \in _codes \ {t} : score[other] >= score[t]}
  <2>1. t \in _codes \ tried /\ Cardinality(tried) = Tries
    BY <1>1, <1>3 DEF Good
  <2>2. tried \subseteq better
    BY <2>1
  <2>3. IsFiniteSet(better)
    BY MatchAssumption, FS_Subset
  <2>4. /\ Cardinality(tried) <= Cardinality(better)
        /\ Cardinality(better) \in Nat
    BY <2>2, <2>3, FS_Subset, FS_CardinalityType
  <2> QED
    BY <2>1, <2>4 DEF Tries
<1>4. MatchComplete'
  BY <1>1, <1>2, <1>3 DEF MatchComplete
<1> QED
  BY <1>1, <1>2, <1>4

LEMMA RejectStep ==
    ASSUME MatchInv, Reject
    PROVE  MatchInv'
<1> USE DEF MatchInv
<1>1. /\ result = "none" /\ result' = "no" /\ ~Open
      /\ UNCHANGED <<_codes, valid, score, outcome, tried>>
  BY DEF Reject, Return
<1>2. \A a : Good(a)' <=> Good(a)
  BY <1>1 DEF Good
<1>3. \A t : ~Good(t)
  BY <1>1 DEF Open, Good
<1> QED
  BY <1>1, <1>2, <1>3 DEF MatchComplete

LEMMA MatchInvariant == Spec => []MatchInv
<1>1. MatchInv /\ [Next]_vars => MatchInv'
  <2>1. ASSUME MatchInv, UNCHANGED vars PROVE MatchInv'
    BY <2>1 DEF MatchInv, MatchComplete, Good, vars
  <2> QED
    BY <2>1, TryStep, RejectAllStep, RejectStep DEF Next
<1> QED
  BY <1>1, MatchInit, PTL DEF Spec

\* A template that agrees is overlooked only if three others score as well.
THEOREM AlwaysComplete == Spec => []MatchComplete
<1>1. MatchInv => MatchComplete
  BY DEF MatchInv
<1> QED
  BY <1>1, MatchInvariant, PTL
================================================================================
