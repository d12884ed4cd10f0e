---------------------------- MODULE Calculation ----------------------------
(***************************************************************************)
(* The planning arithmetic of internal/calculation: CPF contributions,     *)
(* household income, housing affordability and the grant estimate.         *)
(* Amounts are cents and rates basis points, both int64 in the code: the   *)
(* largest product, an amount times a rate, stays far below 2^63 for every *)
(* amount below nine trillion dollars, so the model uses the integers.     *)
(***************************************************************************)
EXTENDS Integers, FiniteSets, FiniteSetsExt

Larger(a, b) == IF a > b THEN a ELSE b
Smaller(a, b) == IF a < b THEN a ELSE b

\* Go's integer division truncates towards zero.
Quo(a, b) == IF a >= 0 THEN a \div b ELSE -((-a) \div b)

\* cents * bps / 10000 for cents >= 0, with the quotient taken apart so that
\* no intermediate value is much larger than the amounts.
centsByBps(cents, bps) ==
    (cents \div 10000) * bps + Quo((cents % 10000) * bps, 10000)

floorToDollar(cents) == (cents \div 100) * 100

roundToNearestDollar(cents) ==
    (cents \div 100) * 100 + IF cents % 100 >= 50 THEN 100 ELSE 0

-----------------------------------------------------------------------------
(* CPF of an ordinary wage.                                                *)

OrdinaryWageCeiling == 800000

NoCPF == [wage |-> 0, employee |-> 0, employer |-> 0, total |-> 0,
          oa |-> 0, sa |-> 0, ma |-> 0]

cpfRateForAge(age) ==
    CASE age <= 55 -> [employer |-> 1700, employee |-> 2000]
      [] age \in 56..60 -> [employer |-> 1600, employee |-> 1800]
      [] age \in 61..65 -> [employer |-> 1250, employee |-> 1250]
      [] age \in 66..70 -> [employer |-> 900, employee |-> 750]
      [] age > 70 -> [employer |-> 750, employee |-> 500]

\* Basis points of the ordinary and special accounts; MediSave has the rest.
allocationForAge(age) ==
    CASE age <= 35 -> [oa |-> 6216, sa |-> 1621]
      [] age \in 36..45 -> [oa |-> 5677, sa |-> 1892]
      [] age \in 46..50 -> [oa |-> 5136, sa |-> 2162]
      [] age > 50 -> [oa |-> 4054, sa |-> 3108]

estimateCPFAllocation(age, total) ==
    LET oa == centsByBps(total, allocationForAge(age).oa)
        sa == centsByBps(total, allocationForAge(age).sa) IN
    [oa |-> oa, sa |-> sa, ma |-> total - oa - sa]

\* Fault: the phase-in is taken of the whole wage.
employeeShare_WholeWage(rate, wage) ==
    CASE wage <= 50000 -> 0
      [] 50000 < wage /\ wage <= 75000 -> centsByBps(wage, 1500)
      [] wage > 75000 -> centsByBps(wage, rate.employee)

\* The employee's part, before it is floored: none up to $500, phased in up
\* to $750.
employeeShare(rate, wage) ==
    CASE wage <= 50000 -> 0
      [] 50000 < wage /\ wage <= 75000 -> centsByBps(wage - 50000, 1500)
      [] wage > 75000 -> centsByBps(wage, rate.employee)

totalShare(rate, wage) ==
    IF wage <= 75000 THEN centsByBps(wage, rate.employer) + employeeShare(rate, wage)
                     ELSE centsByBps(wage, rate.employee + rate.employer)

CalculateCPFContribution(age, monthlyWage, status) ==
    IF status # "full_time_employee" \/ monthlyWage <= 5000 THEN NoCPF
    ELSE LET rate == cpfRateForAge(age)
             wage == Smaller(monthlyWage, OrdinaryWageCeiling)
             employee == floorToDollar(employeeShare(rate, wage))
             total == roundToNearestDollar(totalShare(rate, wage))
             accounts == estimateCPFAllocation(age, total) IN
         [wage |-> wage, employee |-> employee,
          employer |-> Larger(total - employee, 0), total |-> total,
          oa |-> accounts.oa, sa |-> accounts.sa, ma |-> accounts.ma]

-----------------------------------------------------------------------------
(* Income of a person and of a household.  A person is a record with age,  *)
(* status, gross, expected, cash, oa, sa, ma and expenses; a household is  *)
(* a function from persons to profiles: its order does not matter.         *)

\* The int64 fields of a person and, below, of a housing option.
PersonAmounts == {"age", "gross", "expected", "cash", "oa", "sa", "ma", "expenses"}

HasAmounts(record, fields) == \A field \in fields : record[field] \in Int

currentIncomeFor(person) == Larger(person.gross, 0)

projectedIncomeFor(person) ==
    IF person.expected > 0 THEN person.expected ELSE currentIncomeFor(person)

mayNeedDeferredAssessment(status) ==
    status \in {"student", "full_time_nsf", "future_employee"}

CalculateIncomeBreakdown(person) ==
    LET current == currentIncomeFor(person)
        cpf == CalculateCPFContribution(person.age, current, person.status)
        takeHome == current - cpf.employee IN
    [current |-> current, projected |-> projectedIncomeFor(person),
     employee |-> cpf.employee, employer |-> cpf.employer, takeHome |-> takeHome,
     expenses |-> person.expenses, surplus |-> takeHome - person.expenses]

Total(amounts) == MapThenSumSet(LAMBDA p : amounts[p], DOMAIN amounts)

SumOver(household, f(_)) == Total([p \in DOMAIN household |-> f(household[p])])

CalculateHouseholdIncomeSummary(household) ==
    LET income(f(_)) == SumOver(household, LAMBDA p : f(CalculateIncomeBreakdown(p))) IN
    [current |-> income(LAMBDA b : b.current),
     projected |-> income(LAMBDA b : b.projected),
     takeHome |-> income(LAMBDA b : b.takeHome),
     employee |-> income(LAMBDA b : b.employee),
     employer |-> income(LAMBDA b : b.employer),
     expenses |-> income(LAMBDA b : b.expenses),
     surplus |-> income(LAMBDA b : b.surplus),
     oa |-> SumOver(household, LAMBDA p : p.oa),
     sa |-> SumOver(household, LAMBDA p : p.sa),
     ma |-> SumOver(household, LAMBDA p : p.ma),
     deferred |-> \E p \in DOMAIN household : mayNeedDeferredAssessment(household[p].status)]

-----------------------------------------------------------------------------
(* Housing types, loans and the grant.                                     *)

HomeAmounts == {"price", "grant", "loanAmount", "rate", "tenure", "dpBps", "legal",
                "stampDuty", "maintenance"}

HousingType == {"bto", "resale_hdb", "executive_condo", "private_condo", "landed", "other"}
LoanType == {"hdb", "bank", "cash"}        \* or "unset", the empty string

IsNonHDBHousingType(type) == type \in {"executive_condo", "private_condo", "landed", "other"}
isHousingGrantEligibleType(type) == type \in {"bto", "resale_hdb"}
MaxLoanTenureMonthsForHousingType(type) ==
    12 * IF type \in {"bto", "resale_hdb"} THEN 30 ELSE 35

\* No HDB loan and no grant for other homes, no loan longer than the type's.
validateHousingOption(o) ==
    /\ IsNonHDBHousingType(o.type) => o.loanType # "hdb" /\ o.grant <= 0
    /\ o.loanType # "cash" /\ o.tenure > 0 => o.tenure <= MaxLoanTenureMonthsForHousingType(o.type)

\* Fault: a client's grant makes an option with a key date a deferred one.
IsDeferredHousingOption_AnyGrant(o) ==
    /\ o.loanType # "cash" /\ o.type = "bto"
    /\ \/ o.loanAmount = 0 /\ o.dpBps = 2500
       \/ /\ o.keyDate = "set"
          /\ \/ o.loanAmount = 0 /\ o.grant > 0 /\ o.loanType \in {"hdb", "bank"}
             \/ o.overrides > 0

\* keyDate is "none", "zero" (0001-01-01, which the code takes for no date) or
\* "set"; overrides is the number of income overrides kept.
IsDeferredHousingOption(o) ==
    LET planned == o.keyDate = "set" IN
    /\ o.loanType # "cash"
    /\ ~IsNonHDBHousingType(o.type)
    /\ o.type = "bto"
    /\ \/ o.loanAmount = 0 /\ o.dpBps = 2500
       \/ planned /\ o.loanAmount = 0 /\ o.grant = 0 /\ o.loanType \in {"unset", "bank", "hdb"}
       \/ /\ planned /\ o.loanType = "bank" /\ o.loanAmount = 0
          /\ o.tenure \in {300, MaxLoanTenureMonthsForHousingType(o.type)}
       \/ planned /\ o.overrides > 0

\* The chart of monthly household income against grant, both in cents.
GrantBrackets ==
    << <<150000, 12000000>>, <<200000, 11000000>>, <<250000, 10500000>>,
       <<300000, 9500000>>, <<350000, 9000000>>, <<400000, 8000000>>,
       <<450000, 7000000>>, <<500000, 6500000>>, <<550000, 5500000>>,
       <<600000, 5000000>>, <<650000, 4000000>>, <<700000, 3000000>>,
       <<750000, 2500000>>, <<800000, 2000000>>, <<850000, 1000000>>,
       <<900000, 500000>> >>

\* The first bracket whose limit the income does not exceed.
bracketGrant(income) ==
    LET fits == {i \in DOMAIN GrantBrackets : income <= GrantBrackets[i][1]} IN
    IF fits = {} THEN 0
    ELSE GrantBrackets[CHOOSE i \in fits : \A j \in fits : i <= j][2]

EstimateHousingGrantAmountFromGrossMonthlyIncome(type, gross) ==
    [grant |-> IF isHousingGrantEligibleType(type) THEN bracketGrant(Larger(gross, 0)) ELSE 0,
     income |-> Larger(gross, 0), eligible |-> isHousingGrantEligibleType(type)]

EstimateHousingGrantAmount(type, household) ==
    IF DOMAIN household = {}
    THEN [grant |-> 0, income |-> 0, eligible |-> isHousingGrantEligibleType(type)]
    ELSE EstimateHousingGrantAmountFromGrossMonthlyIncome(type,
            CalculateHouseholdIncomeSummary(household).current)

-----------------------------------------------------------------------------
(* Affordability of an option for a household's assets, a record with      *)
(* cash, oa, takeHome and expenses.                                        *)

AssetAmounts == {"cash", "oa", "takeHome", "expenses"}

\* Fault: the first instalment is not capped by the downpayment.
initialDownpaymentCents_Uncapped(o, required) ==
    IF required <= 0 THEN 0
    ELSE IF o.loanType = "cash" THEN required
    ELSE centsByBps(Larger(o.price, 0), IF IsDeferredHousingOption(o) THEN 250 ELSE 500)

initialDownpaymentCents(o, required) ==
    LET initial == centsByBps(Larger(o.price, 0), IF IsDeferredHousingOption(o) THEN 250 ELSE 500) IN
    CASE required <= 0 -> 0
      [] required > 0 /\ (o.loanType = "cash" \/ initial <= 0) -> required
      [] required > 0 /\ o.loanType # "cash" /\ initial > 0 -> Smaller(initial, required)

\* The instalment of an annuity is a float64 formula.  It lies between the
\* larger of the even repayment and the first month's interest, and their sum
\* (two more for rounding); the model takes the two ends of that interval.
monthlyPayment(principal, rateBps, months) ==
    IF principal <= 0 \/ months <= 0 THEN {0}
    ELSE IF rateBps <= 0 THEN {principal \div months}
    ELSE LET even == principal \div months
             interest == centsByBps(principal, rateBps) \div 12 IN
         {Larger(even, interest), even + interest + 2}

\* cost * 10000 / takeHome for takeHome > 0, by long division.
ratioInBps(cost, takeHome) ==
    LET hundredths == (cost % takeHome) * 100 IN
    (cost \div takeHome) * 10000 + (hundredths \div takeHome) * 100
        + ((hundredths % takeHome) * 100) \div takeHome

affordabilityRating(cost, takeHome, surplus) ==
    IF takeHome <= 0 \/ surplus < 0 THEN "not_recommended"
    ELSE LET ratio == ratioInBps(cost, takeHome) IN
         CASE ratio <= 2500 -> "comfortable"
           [] 2500 < ratio /\ ratio <= 3500 -> "manageable"
           [] 3500 < ratio /\ ratio <= 4500 -> "tight"
           [] 4500 < ratio /\ ratio <= 5500 -> "risky"
           [] ratio > 5500 -> "not_recommended"

\* The loan asked for, or what the downpayment leaves of the net price.
estimatedLoan(o, net, downpayment) ==
    IF o.loanAmount > 0 THEN o.loanAmount ELSE Larger(net - downpayment, 0)

\* One result for each instalment the loan may have.
CalculateHousingAffordability(o, assets) ==
    LET net == Larger(o.price - o.grant, 0)
        downpayment == centsByBps(net, o.dpBps)
        initial == initialDownpaymentCents(o, downpayment)
        upfront == downpayment + o.legal + o.stampDuty
        loan == estimatedLoan(o, net, downpayment)
        cpfUsed == Smaller(assets.oa, downpayment)
        topUp == Larger(upfront - cpfUsed, 0) IN
    {LET cost == mortgage + o.maintenance
         surplus == assets.takeHome - assets.expenses - cost IN
     [net |-> net, downpayment |-> downpayment, initial |-> initial,
      final |-> Larger(downpayment - initial, 0), upfront |-> upfront,
      loan |-> loan, mortgage |-> mortgage, cpfUsed |-> cpfUsed, topUp |-> topUp,
      remainingCash |-> assets.cash - topUp, remainingOA |-> assets.oa - cpfUsed,
      cost |-> cost, surplus |-> surplus,
      rating |-> affordabilityRating(cost, assets.takeHome, surplus)] :
        mortgage \in monthlyPayment(loan, o.rate, o.tenure)}
=============================================================================
