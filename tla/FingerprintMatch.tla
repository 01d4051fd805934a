--------------------------- MODULE FingerprintMatch ----------------------------
(***************************************************************************)
(* Fingerprint::match(): a sample is scored against every template, and    *)
(* the three best are tried for alignment and structural similarity.  A    *)
(* sample is what match() sees of it: one score and one alignment outcome  *)
(* per template.                                                           *)
(***************************************************************************)
EXTENDS Integers, FiniteSets

CONSTANTS Template,     \* the templates of a print
          Score,        \* FingerCode similarities, in percent
          min_score     \* the option min-score, in percent

ASSUME MatchAssumption ==
    IsFiniteSet(Template) /\ Score \subseteq -100..100 /\ min_score \in 10..100

Tries == 3    \* templates tried for alignment

Outcome == {"no_align", "dissimilar", "similar"}    \* similar: SSIM at least 0.8

VARIABLES _codes,      \* the templates whose codes were extracted
          valid,       \* the sample has a FingerCode
          score, outcome,
          tried,       \* templates already tried
          result       \* "none" until match() returns

vars == <<_codes, valid, score, outcome, tried, result>>

Init == /\ _codes \in SUBSET Template /\ valid \in BOOLEAN
        /\ score \in [Template -> Score] /\ outcome \in [Template -> Outcome]
        /\ tried = {} /\ result = "none"

Return(r) == result' = r /\ UNCHANGED <<_codes, valid, score, outcome, tried>>

\* The loop over the ranks goes on.
Open == result = "none" /\ _codes # {} /\ valid /\ \E t \in _codes : score[t] >= min_score

\* Nothing to compare, or no score that is high enough.
Reject == result = "none" /\ ~Open /\ Return("no")

\* Mutant of Best: the worst templates are tried.
Best_Ascending(t) == \A other \in _codes \ tried : score[t] <= score[other]

\* One with the best score of those not tried; std::sort leaves the order of
\* equal scores open.
Best(t) == \A other \in _codes \ tried : score[t] >= score[other]

Confirmed(t) == outcome[t] = "similar" /\ score[t] >= min_score

Try(t) ==
    /\ Open /\ t \in _codes \ tried /\ Cardinality(tried) < Tries
    /\ Best(t)
    /\ tried' = tried \cup {t}
    /\ result' = IF Confirmed(t) THEN "yes" ELSE "none"
    /\ UNCHANGED <<_codes, valid, score, outcome>>

RejectAll == /\ Open /\ (tried = _codes \/ Cardinality(tried) = Tries)
             /\ Return("no")

Next == Reject \/ RejectAll \/ \E t \in Template : Try(t)
Spec == Init /\ [][Next]_vars

-------------------------------------------------------------------------------
\* A template that agrees with the sample in code and structure.
Good(t) == t \in _codes /\ valid /\ outcome[t] = "similar" /\ score[t] >= min_score

\* Such a template is overlooked only if three others score at least as well.
MatchComplete ==
    result = "no" =>
        \A t \in Template : Good(t) =>
            Cardinality({other \in _codes \ {t} : score[other] >= score[t]}) >= Tries

\* README.md:130, "Acceptance threshold: > 0.90".
AcceptedAbove90 == result = "yes" => \E t \in tried : Confirmed(t) /\ score[t] > 90
================================================================================
