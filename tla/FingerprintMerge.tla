--------------------------- MODULE FingerprintMerge ----------------------------
(***************************************************************************)
(* The templates of one enrollment: Fingerprint::merge() takes a scan or   *)
(* refuses it, write() and read() carry the result through the file.  A    *)
(* scan is what merge() sees of it: whether its FingerCode is valid and    *)
(* how similar it is, in percent, to each template taken before.           *)
(***************************************************************************)
EXTENDS Integers, SequencesExt

CONSTANTS MAX_TEMPLATES,
          Score    \* the similarities that occur, in percent

ASSUME MergeAssumption == MAX_TEMPLATES \in Nat \ {0} /\ Score \subseteq -100..100 /\ 0 \in Score

Gate == -20    \* below it a scan is refused

VARIABLES _templates,              \* the scans taken
          _enroll_min_similarity

vars == <<_templates, _enroll_min_similarity>>

Scan == [valid : BOOLEAN, sims : Seq(Score)]

count == Len(_templates)

\* A code that is not valid is (nearly) zero, and so is its product with any other.
Scans == {s \in [valid : BOOLEAN, sims : [1..count -> Score]] :
            \A i \in 1..count : (~s.valid \/ ~_templates[i].valid) => s.sims[i] = 0}

\* Mutant of min_sim: a scan is compared with the latest template only.
min_sim_Latest(scan) == scan.sims[count]

\* The least similarity of a scan to the templates.
min_sim(scan) == Min(Range(scan.sims) \cup {100})

Take(scan) == _templates' = Append(_templates, scan)

\* merge() returns false and changes nothing.
Refuse == UNCHANGED vars

\* Mutant of Full: one scan too many is taken.
Full_Late == count > MAX_TEMPLATES

Full == count >= MAX_TEMPLATES

merge(scan) ==
    IF count = 0 THEN Take(scan) /\ UNCHANGED _enroll_min_similarity
    ELSE IF Full \/ ~scan.valid \/ min_sim(scan) < Gate THEN Refuse
    ELSE Take(scan) /\ _enroll_min_similarity' = min_sim(scan)

Init == _templates = <<>> /\ _enroll_min_similarity = 0
Next == \E scan \in Scans : merge(scan)
Spec == Init /\ [][Next]_vars

-------------------------------------------------------------------------------
\* The file.  A missing field reads as its default.

First(templates) == IF templates = <<>> THEN <<>> ELSE <<Head(templates)>>

\* Mutant of write: the last template is left out.
write_Short(templates, least) ==
    [count |-> Len(templates), enroll_min_sim |-> least,
     print |-> First(templates), tpl |-> SubSeq(templates, 1, Len(templates) - 1)]

write(templates, least) ==
    [count |-> Len(templates), enroll_min_sim |-> least,
     print |-> First(templates), tpl |-> templates]

\* read(): the templates, or the single one of a file of the old format.
read(node) ==
    LET tpls == SubSeq(node.tpl, 1, Min({node.count, Len(node.tpl)}))
    IN  [templates |-> IF tpls = <<>> THEN node.print ELSE tpls, least |-> node.enroll_min_sim]

-------------------------------------------------------------------------------
\* An enrollment never grows past the templates that the file format numbers.
TypeOK == /\ _templates \in Seq(Scan) /\ count <= MAX_TEMPLATES
          /\ _enroll_min_similarity \in -100..100

\* Any two templates of an enrollment are at least as similar as the gate asks,
\* in whichever order the scans came.
PairwiseGate ==
    \A j \in DOMAIN _templates : \A i \in DOMAIN _templates[j].sims : _templates[j].sims[i] >= Gate

\* What read() makes of what write() wrote is what was enrolled, and a file of
\* the old format, without a count, gives its one template.
RoundTrip ==
    LET node == write(_templates, _enroll_min_similarity) IN
    /\ read(node) = [templates |-> _templates, least |-> _enroll_min_similarity]
    /\ read([node EXCEPT !.count = 0, !.tpl = <<>>]).templates = First(_templates)

\* fingerprint.hpp:36, "Min pairwise similarity among enrolled templates".
EnrollMinPairwise ==
    count > 1 =>
        \A j \in DOMAIN _templates : \A i \in DOMAIN _templates[j].sims :
            _enroll_min_similarity <= _templates[j].sims[i]
================================================================================
