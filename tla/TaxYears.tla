------------------------------ MODULE TaxYears ------------------------------
(****************************************************************************)
(* Capital losses over tax years (core/tax/reports): every year nets its    *)
(* disposals by the rules of the jurisdiction, uses losses carried from     *)
(* earlier years and carries what is left; losses on section 1256 contracts *)
(* are carried back first. Amounts are whole units of money; the rates that *)
(* turn a taxable amount into tax are left out.                             *)
(****************************************************************************)
EXTENDS Integers, Sequences, FiniteSetsExt

CONSTANTS TaxCodes,       \* jurisdictions under study
          TaxResults,     \* gains and losses of one disposal
          AssetKinds,     \* classes a German disposal may have
          DeductibleCap,  \* US: losses set against other income in a year
          Exemption,      \* GB annual exempt amount, DE allowance
          CarryYears,     \* FR: CARRY_FORWARD_YEARS
          CarrybackYears, \* US section 1256: CARRYBACK_YEARS
          MaxTaxYear

ASSUME TaxAssumption == /\ TaxCodes \subseteq {"US", "GB", "DE", "FR"}
                        /\ AssetKinds \subseteq {"equity", "other"} /\ TaxResults \subseteq Int
                        /\ {DeductibleCap, Exemption, CarryYears, CarrybackYears} \subseteq Nat

VARIABLES txCode, txYear,
          txCarry,   \* losses carried into the next year, by bucket (FR: by year)
          txSum,     \* losses made, relieved and expired over all years
          txTaxed,   \* what a year just closed left to be taxed
          txFutures  \* per year: section 1256 gain not yet absorbed by a carryback

txVars == <<txCode, txYear, txCarry, txSum, txTaxed, txFutures>>

SumOf(f) == MapThenSumSet(LAMBDA b : f[b], DOMAIN f)
Smaller(a, b) == IF a < b THEN a ELSE b
AtLeastZero(n) == IF n > 0 THEN n ELSE 0

\* A disposal: proceeds minus cost, the days it was held, its class.
Disposals == [gain : TaxResults, held : {365, 366}, kind : AssetKinds]
\* _holding_term: long after more than _LONG_TERM_DAYS.
HoldingTerm(d) == IF d.held > 365 THEN "long" ELSE "short"
\* The buckets a jurisdiction keeps apart.
BucketsOf(code) == CASE code = "US" -> {"short", "long"}
                     [] code = "DE" -> {"equity", "other"}
                     [] OTHER -> {"all"}
PotOf(code, d) == CASE code = "US" -> HoldingTerm(d)
                       [] code = "DE" -> d.kind
                       [] OTHER -> "all"
\* Net result of the year's disposals per bucket (summarize_schedule_d and the
\* first halves of summarize_cgt, summarize_kest and summarize_pfu).
NetByBucket(code, ds) ==
    [b \in BucketsOf(code) |->
        SumOf([i \in DOMAIN ds |-> IF PotOf(code, ds[i]) = b THEN ds[i].gain ELSE 0])]

\* What an application of carried losses leaves: the amount taxed, the allowance
\* used, the deduction from other income, the expired losses, the new carryover.
Applied(taxed, allowance, deducted, expired, carry) ==
    [taxed |-> taxed, allowance |-> allowance, deducted |-> deducted, expired |-> expired, carry |-> carry]

\* apply_carryover: one net of both terms; of the deduction short-term losses
\* take first; a loss reduced by the other term's gain stays with its own term.
MutApplyCarryover(net, prior) ==
    LET leg == [b \in {"short", "long"} |-> net[b] - prior[b]]
        combined == SumOf(leg)
        deducted == Smaller(-combined, DeductibleCap)
    IN IF combined >= 0 THEN Applied(combined, 0, 0, 0, [b \in {"short", "long"} |-> 0])
       ELSE Applied(0, 0, deducted, 0,
                    [short |-> AtLeastZero(-leg["short"] - deducted), long |-> AtLeastZero(-leg["long"])])
ApplyCarryover(net, prior) ==
    LET leg == [b \in {"short", "long"} |-> net[b] - prior[b]]
        loss == [b \in {"short", "long"} |-> AtLeastZero(-leg[b])]
        combined == SumOf(leg)
        deducted == Smaller(-combined, DeductibleCap)
        short == AtLeastZero(loss["short"] - deducted)
        long == AtLeastZero(loss["long"] - (deducted - (loss["short"] - short)))
    IN IF combined >= 0 THEN Applied(combined, 0, 0, 0, [b \in {"short", "long"} |-> 0])
       ELSE Applied(0, 0, deducted, 0,
                    IF SumOf(loss) = -combined THEN [short |-> short, long |-> long]
                    ELSE [b \in {"short", "long"} |-> IF leg[b] < 0 THEN -combined - deducted ELSE 0])

\* The year's net as a gain or a loss, and what an exempt amount takes of the gain
\* (summarize_cgt; summarize_pfu knows no exemption).
SummarizeCgt(net) ==
    LET gain == AtLeastZero(net)
        exempt == Smaller(gain, Exemption)
    IN [loss |-> AtLeastZero(-net), exempt |-> exempt, taxable |-> gain - exempt]
SummarizePfu(net) == [gain |-> AtLeastZero(net), loss |-> AtLeastZero(-net)]
\* summarize_kest: equity counts when positive, the other pot with its sign; the
\* allowance comes off what is left.
SummarizeKest(pot) ==
    LET base == AtLeastZero(AtLeastZero(pot["equity"]) + pot["other"])
        allowance == Smaller(base, Exemption)
    IN [exempt |-> allowance, taxable |-> base - allowance]

\* apply_cgt_carryover: the exempt amount first, carried losses after it.
ApplyCgtCarryover(net, prior) ==
    LET sum == SummarizeCgt(net["all"])
        used == Smaller(prior["all"], sum.taxable)
    IN Applied(sum.taxable - used, sum.exempt, 0, 0, [all |-> prior["all"] - used + sum.loss])

\* apply_kest_carryover: each pot is reduced by its own carried loss, the summary is
\* made of what is left, and a pot that is negative is carried whole.
ApplyKestCarryover(net, prior) ==
    LET pot == [b \in {"equity", "other"} |-> net[b] - prior[b]]
        sum == SummarizeKest(pot)
    IN Applied(sum.taxable, sum.exempt, 0, 0, [b \in {"equity", "other"} |-> AtLeastZero(-pot[b])])

\* apply_pfu_carryover: vintages of CarryYears or more are dropped, a gain uses the
\* rest oldest first, a loss becomes the vintage of its year. Empty vintages go.
FreshVintages(vintages) == [y \in {x \in DOMAIN vintages : vintages[x] > 0} |-> vintages[y]]
ApplyPfuCarryover(net, prior, year) ==
    LET fresh == {y \in DOMAIN prior : year - y < CarryYears}
        sum == SummarizePfu(net["all"])
        older(y) == MapThenSumSet(LAMBDA x : prior[x], {x \in fresh : x < y})
        used == [y \in fresh |-> Smaller(prior[y], AtLeastZero(sum.gain - older(y)))]
        kept == [y \in fresh \cup {year} |-> IF y = year THEN sum.loss ELSE prior[y] - used[y]]
    IN Applied(sum.gain - SumOf(used), 0, 0,
               MapThenSumSet(LAMBDA y : prior[y], DOMAIN prior \ fresh), FreshVintages(kept))

\* carryover_for_jurisdiction.
CarryoverFor(code, ds, prior, year) ==
    LET net == NetByBucket(code, ds)
    IN CASE code = "US" -> ApplyCarryover(net, prior)
         [] code = "GB" -> ApplyCgtCarryover(net, prior)
         [] code = "DE" -> ApplyKestCarryover(net, prior)
         [] code = "FR" -> ApplyPfuCarryover(net, prior, year)

\* apply_section_1256_carryback: the last years given absorb, the oldest first.
MutCarryback(loss, gains) ==
    [y \in DOMAIN gains |-> IF y > Len(gains) - CarrybackYears THEN Smaller(gains[y], loss) ELSE 0]
Carryback(loss, gains) ==
    LET eligible == {y \in DOMAIN gains : y > Len(gains) - CarrybackYears}
        older(y) == MapThenSumSet(LAMBDA x : gains[x], {x \in eligible : x < y})
    IN [y \in DOMAIN gains |-> IF y \in eligible THEN Smaller(gains[y], AtLeastZero(loss - older(y))) ELSE 0]

TaxInit ==
    /\ txCode \in TaxCodes /\ txYear = 1 /\ txTaxed = 0 /\ txFutures = <<>>
    /\ txCarry = IF txCode = "FR" THEN <<>> ELSE [b \in BucketsOf(txCode) |-> 0]
    /\ txSum = [made |-> 0, relieved |-> 0, expired |-> 0]

\* One tax year. A loss relieves what it keeps from being taxed, and what is
\* deducted from other income.
CloseYear(ds) ==
    LET a == CarryoverFor(txCode, ds, txCarry, txYear)
        net == NetByBucket(txCode, ds)
        gains == SumOf([b \in DOMAIN net |-> AtLeastZero(net[b])])
        losses == SumOf([b \in DOMAIN net |-> AtLeastZero(-net[b])])
    IN /\ txYear <= MaxTaxYear /\ txYear' = txYear + 1
       /\ txCarry' = a.carry /\ txTaxed' = a.taxed
       /\ txSum' = [made |-> txSum.made + losses,
                    relieved |-> txSum.relieved + gains - a.taxed - a.allowance + a.deducted,
                    expired |-> txSum.expired + a.expired]
       /\ UNCHANGED <<txCode, txFutures>>

\* A year of section 1256 contracts (summarize_form6781). A loss is absorbed by the
\* gains of earlier years as far as they go; the rest joins the carried losses, 40
\* to 60 by term, the short part rounded and the long part the difference.
CloseFutures(net) ==
    LET absorbed == Carryback(AtLeastZero(-net), txFutures)
        forward == AtLeastZero(-net) - SumOf(absorbed)
        short == (2 * forward + 2) \div 5
    IN /\ txCode = "US" /\ Len(txFutures) < MaxTaxYear
       /\ txFutures' = Append([y \in DOMAIN txFutures |-> txFutures[y] - absorbed[y]], AtLeastZero(net))
       /\ txCarry' = [short |-> txCarry["short"] + short, long |-> txCarry["long"] + forward - short]
       /\ txSum' = [txSum EXCEPT !.made = @ + AtLeastZero(-net), !.relieved = @ + SumOf(absorbed)]
       /\ txTaxed' = 0 /\ UNCHANGED <<txCode, txYear>>

TaxNext ==
    \/ \E n \in 0..2 : \E ds \in [1..n -> Disposals] : CloseYear(ds)
    \/ \E net \in TaxResults : CloseFutures(net)

----------------------------------------
\* Over any number of years a loss gives relief once: what was lost is carried,
\* relieved or expired, to the last unit, and nothing is carried in the negative.
\* A year's gain is taxed only when no loss is left, and a carryback never takes
\* more from a year than it gained.
LossesUsedOnce ==
    /\ txSum.made = txSum.relieved + txSum.expired + SumOf(txCarry)
    /\ \A b \in DOMAIN txCarry : txCarry[b] >= 0
    /\ txTaxed > 0 => SumOf(txCarry) = 0
    /\ \A y \in DOMAIN txFutures : txFutures[y] >= 0

\* "Whatever remains as a *loss* on either bucket carries forward": a loss that
\* offset a gain does not remain. The balance of LossesUsedOnce, to be checked with
\* both pots of apply_kest_carryover.
PotsUsedOnce == txSum.made = txSum.relieved + txSum.expired + SumOf(txCarry)

----------------------------------------
(* German capital gains alone: a small instance of its own. *)

MCTaxResults == {-5, 3}

TaxSpec == TaxInit /\ [][TaxNext]_txVars
=============================================================================
