------------------------------ MODULE Scoring ------------------------------
(***************************************************************************)
(* How violations become scores, scores averages and averages grades:      *)
(* services/scoring.py.  The code computes with floats; here a score is a  *)
(* whole number of small parts, of which a point of the 0-100 scale has    *)
(* Point, so that the means taken below are exact.                         *)
(***************************************************************************)
EXTENDS Integers, Sequences, FiniteSets, FiniteSetsExt

Point == 120

Full == 100 * Point

Severities == {"critical", "high", "medium", "low", "info"}

Categories == {"energy", "reliability", "security", "performance", "maintainability"}

\* What one violation costs, before the weight of its rule.
SeverityPenalty == [critical |-> 20 * Point, high |-> 10 * Point, medium |-> 5 * Point,
                    low |-> 2 * Point, info |-> Point \div 2]

GradeLadder == <<"F", "D", "C", "B", "A", "A+", "A++", "A+++">>

\* The least number of points of each grade.
Threshold == <<0, 40, 55, 70, 85, 90, 95, 98>>

AtLeast(x, y) == IF x >= y THEN x ELSE y

\* The penalty of a set of violations, whose severities and weights are given.
ComputePenalty(viols, severity, weight) ==
    MapThenSumSet(LAMBDA v : SeverityPenalty[severity[v]] * weight[v], viols)

\* The mean of the groups' scores, less what the target as a whole costs.
\* groups is a partition: a job's violations, or a file's, the clean ones too.
ComputeScore(target, groups, severity, weight) ==
    LET Cost(viols) == ComputePenalty(viols, severity, weight)
        names == DOMAIN groups
        mean == IF names = {} THEN Full
                ELSE MapThenSumSet(LAMBDA g : AtLeast(0, Full - Cost(groups[g])), names)
                         \div Cardinality(names)
    IN AtLeast(0, mean - Cost(target))

\* The highest rung whose threshold the score reaches.
Rung(score) ==
    CHOOSE i \in 1 .. 8 : /\ score >= Threshold[i] * Point
                          /\ i < 8 => score < Threshold[i + 1] * Point

ScoreToGrade(score) == GradeLadder[Rung(score)]

\* round(x, 1): to a tenth of a point.
Rounded(score) ==
    LET tenth == Point \div 10 IN ((score + tenth \div 2) \div tenth) * tenth

\* Per category, five times the score: the repository's average, moved by how
\* far the category's penalty lies from the mean penalty of all five.
ComputeCategoryScore(average, penalty, c) ==
    LET total == penalty["energy"] + penalty["reliability"] + penalty["security"]
                 + penalty["performance"] + penalty["maintainability"]
    IN 5 * average - (5 * penalty[c] - total)

Clamped(score) == IF score > Full THEN Full ELSE AtLeast(0, score)
=============================================================================
