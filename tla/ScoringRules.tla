---------------------------- MODULE ScoringRules ----------------------------
(***************************************************************************)
(* Scoring rules (result-service/src/scoring.service.ts): which rules may  *)
(* be created, how one is approved for a period, and how the four skill    *)
(* scores of a candidate become an overall score.                          *)
(*                                                                         *)
(* Scores, bounds and increments are in thousandths, as the database       *)
(* stores them (numeric(8,3)).                                             *)
(***************************************************************************)
EXTENDS Integers, Sequences, SequencesExt, FiniteSets

CONSTANTS
    Forms,      \* rules that may be created: the fields of CreateScoringRuleDto
    Horizon     \* bound: last day of the clock

\* A rule without an end.
Forever == Horizon + 1

\* No standard: the band maps to a label only.
NoStandard == 0

ASSUME FormsAssumption ==
    /\ Horizon \in Nat
    /\ \A f \in Forms :
          /\ {f.minimum, f.maximum, f.increment} \subseteq Int
          /\ f.decimals \in 0 .. 3
          /\ f.from \in 0 .. Horizon /\ f.to \in 0 .. Forever
          /\ f.bands # <<>>
          /\ \A i \in DOMAIN f.bands :
                f.bands[i].min \in Int /\ f.bands[i].max \in Int /\ f.bands[i].standard \in 0 .. 10

VARIABLES
    ruleStatus,     \* scoring_rules.status of each form, "NONE" before it is created
    approving,      \* approvals that found no other rule in their period
    now             \* the clock, in days

ruleVars == <<ruleStatus, approving, now>>

RulesTypeOK ==
    /\ ruleStatus \in [Forms -> {"NONE", "DRAFT", "APPROVED"}]
    /\ approving \subseteq Forms
    /\ now \in 0 .. Horizon

RulesInit ==
    /\ ruleStatus = [f \in Forms |-> "NONE"]
    /\ approving = {}
    /\ now = 0

-----------------------------------------------------------------------------
(* validateRule.                                                           *)

OnGrid(value, f) == (value - f.minimum) % f.increment = 0

ByMin(f) == SortSeq(f.bands, LAMBDA b, c : b.min < c.min)

\* The next band starts one increment above the previous one.
NoGap(previous, band, f) == band.min - previous.max = f.increment

\* Standards are given to all bands or to none, and then cover the whole range.
StandardsComplete(f) ==
    LET bands == ByMin(f)
        mapped == {i \in DOMAIN bands : bands[i].standard # NoStandard}
    IN  mapped # {} =>
            /\ mapped = DOMAIN bands
            /\ bands[1].min = f.minimum /\ bands[Len(bands)].max = f.maximum
            /\ \A i \in DOMAIN bands :
                  /\ OnGrid(bands[i].min, f) /\ OnGrid(bands[i].max, f)
                  /\ i > 1 => NoGap(bands[i - 1], bands[i], f)

BandsInRange(f) ==
    LET bands == ByMin(f) IN
    \A i \in DOMAIN bands :
        /\ f.minimum <= bands[i].min /\ bands[i].min <= bands[i].max /\ bands[i].max <= f.maximum
        /\ i > 1 => bands[i].min > bands[i - 1].max

ValidRule(f) ==
    /\ f.minimum < f.maximum /\ f.increment > 0
    /\ f.from < f.to
    /\ StandardsComplete(f)
    /\ BandsInRange(f)

-----------------------------------------------------------------------------
(* calculate.                                                              *)

UsesStandards(f) == \A i \in DOMAIN f.bands : f.bands[i].standard # NoStandard

Covers(band, value) == band.min <= value /\ value <= band.max

\* The first band that holds the value, 0 if there is none.
BandOf(value, f) == SelectInSeq(f.bands, LAMBDA b : Covers(b, value))

\* A score the rule allows for a skill.
Permitted(value, f) == f.minimum <= value /\ value <= f.maximum /\ OnGrid(value, f)

\* What a skill contributes to the mean.
Contribution(value, f) ==
    IF UsesStandards(f) THEN 1000 * f.bands[BandOf(value, f)].standard ELSE value

\* The mean of four values, rounded to the rule's decimals.  Scores move in steps of an
\* eighth or more, whose means binary fractions hold exactly: toFixed rounds halves up.
MeanOf(sum, f) ==
    LET unit == 10 ^ (3 - f.decimals) IN unit * ((sum + 2 * unit) \div (4 * unit))

Overall(scores, f) ==
    MeanOf(FoldSeq(LAMBDA value, sum : Contribution(value, f) + sum, 0, scores), f)

\* calculate returns: every score is permitted and mapped.
Calculable(scores, f) ==
    /\ \A i \in DOMAIN scores : Permitted(scores[i], f)
    /\ IF UsesStandards(f) THEN \A i \in DOMAIN scores : BandOf(scores[i], f) # 0
                           ELSE BandOf(Overall(scores, f), f) # 0

-----------------------------------------------------------------------------
(* Rules are created and approved; time passes.                            *)

CreateRule(f) ==
    /\ ValidRule(f)
    /\ ruleStatus[f] = "NONE"
    /\ ruleStatus' = [ruleStatus EXCEPT ![f] = "DRAFT"]
    /\ UNCHANGED <<approving, now>>

Overlap(f, g) == f.from < g.to /\ g.from < f.to

ApprovedIn(f) == {g \in Forms : ruleStatus[g] = "APPROVED" /\ Overlap(f, g)}

\* approveRule reads the draft and looks for an approved rule in its period ...
CheckApproval(f) ==
    /\ ruleStatus[f] = "DRAFT"
    /\ ApprovedIn(f) = {}
    /\ approving' = approving \cup {f}
    /\ UNCHANGED <<ruleStatus, now>>

\* Mutated form of Approve: without the exclusion constraint.
ApproveUnconstrained(f) ==
    /\ f \in approving
    /\ approving' = approving \ {f}
    /\ ruleStatus' = [ruleStatus EXCEPT ![f] = "APPROVED"]
    /\ UNCHANGED now

\* ... and saves it later, when the exclusion constraint ex_approved_scoring_rule_period
\* may refuse it.
Approve(f) ==
    /\ f \in approving
    /\ approving' = approving \ {f}
    /\ ruleStatus' = IF ApprovedIn(f) \ {f} = {}
                     THEN [ruleStatus EXCEPT ![f] = "APPROVED"]
                     ELSE ruleStatus
    /\ UNCHANGED now

Tick == now < Horizon /\ now' = now + 1 /\ UNCHANGED <<ruleStatus, approving>>

RulesStep == (\E f \in Forms : CreateRule(f) \/ CheckApproval(f) \/ Approve(f)) \/ Tick

\* The approved rule in force, the latest if there are several.
InForce(f) == ruleStatus[f] = "APPROVED" /\ f.from <= now /\ now < f.to
ActiveRule == {f \in Forms : InForce(f) /\ \A g \in Forms : InForce(g) => g.from <= f.from}

-----------------------------------------------------------------------------
(* Properties.                                                             *)

\* However approvals overlap, no instant has two approved rules: the rule a submission is
\* scored with does not depend on which one the database happens to return first.
ApprovedRulesAreDisjoint ==
    \A f, g \in Forms :
        f # g /\ ruleStatus[f] = "APPROVED" /\ ruleStatus[g] = "APPROVED" => ~Overlap(f, g)
=============================================================================
