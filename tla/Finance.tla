------------------------------ MODULE Finance ------------------------------
(***************************************************************************)
(* The calculators a client calls with all of their input in the request   *)
(* (internal/server/finance.go, CalculateHousingAffordability of           *)
(* internal/server/housing.go).  They read and write no table: the state   *)
(* is the call being answered.  The properties are about the calculations  *)
(* over the edges of all bands.                                            *)
(***************************************************************************)
EXTENDS Calculation

CONSTANTS
    Ages, Wages, Statuses,      \* CalculateCPFContribution
    People,                     \* PersonProfile messages, parsed
    Members,                    \* names of the members of a household
    Options, Assets             \* CalculateHousingAffordability

ASSUME FinanceAssumption ==
    /\ Ages \subseteq Int /\ Wages \subseteq Int
    /\ \A person \in People : HasAmounts(person, PersonAmounts)
    /\ IsFiniteSet(Members)
    /\ \A o \in Options : HasAmounts(o, HomeAmounts)
    /\ \A assets \in Assets : HasAmounts(assets, AssetAmounts)

VARIABLE call       \* the request answered last, with its reply

NoCall == [kind |-> "none"]

\* Each of the three dates is empty, a date, or fails to parse; the third
\* refuses the message.
personFromProto(person) == \A i \in 1..3 : person.dates[i] # "bad"

Refused == call' = [kind |-> "refused"]

CPFContribution(age, wage, status) ==
    call' = [kind |-> "cpf", age |-> age, wage |-> wage, status |-> status,
             reply |-> CalculateCPFContribution(age, wage, status)]

IncomeBreakdown(person) ==
    IF ~personFromProto(person) THEN Refused
    ELSE call' = [kind |-> "income", person |-> person, reply |-> CalculateIncomeBreakdown(person)]

\* One bad profile refuses the whole household.
HouseholdIncomeSummary(household) ==
    IF \E p \in DOMAIN household : ~personFromProto(household[p]) THEN Refused
    ELSE call' = [kind |-> "household", household |-> household,
                  reply |-> CalculateHouseholdIncomeSummary(household)]

HousingAffordability(o, assets) ==
    IF ~validateHousingOption(o) THEN Refused
    ELSE \E a \in CalculateHousingAffordability(o, assets) :
            call' = [kind |-> "affordability", option |-> o, assets |-> assets, reply |-> a]

Calculate ==
    \/ \E age \in Ages, wage \in Wages, status \in Statuses : CPFContribution(age, wage, status)
    \/ \E person \in People : IncomeBreakdown(person)
    \/ \E names \in SUBSET Members : \E household \in [names -> People] :
            HouseholdIncomeSummary(household)
    \/ \E o \in Options, assets \in Assets : HousingAffordability(o, assets)

CalculatorInit == call = NoCall

\* The reply has been sent.
Answered == call # NoCall /\ call' = NoCall

CalculatorNext == (call = NoCall /\ Calculate) \/ Answered

CalculatorSpec == CalculatorInit /\ [][CalculatorNext]_call

-----------------------------------------------------------------------------
(* Properties.                                                             *)

CPFBalances(wage, c) ==
    /\ c.employee + c.employer = c.total
    /\ c.oa + c.sa + c.ma = c.total
    /\ \A amount \in {c.employee, c.employer, c.oa, c.sa, c.ma} : amount >= 0
    /\ c.employee <= wage \/ c = NoCPF

IncomeBalances(i) == i.current = i.employee + i.expenses + i.surplus

HouseholdBalances(household, h) ==
    /\ IncomeBalances(h)
    /\ h.surplus = SumOver(household, LAMBDA p : CalculateIncomeBreakdown(p).surplus)
    /\ DOMAIN household = {} => h.current = 0 /\ ~h.deferred

AffordabilityBalances(o, assets, a) ==
    /\ a.initial + a.final = Larger(a.downpayment, 0)
    /\ a.initial >= 0 /\ a.final >= 0
    /\ a.cpfUsed + a.topUp >= a.upfront
    /\ o.legal + o.stampDuty >= 0 => a.cpfUsed + a.topUp = a.upfront
    /\ a.remainingOA >= 0
    /\ a.remainingCash + a.remainingOA + a.cpfUsed + a.topUp = assets.cash + assets.oa
    /\ o.loanAmount <= 0 => o.grant + a.loan + a.downpayment >= o.price

\* cpf.go:22-57, income.go:52-71, housing.go:34-69: flooring, rounding and
\* splitting lose no cent and make no part negative, at the edges of every
\* band and for amounts of either sign too: the CPF parts add up to the total, a
\* household's gross income is CPF, expenses and surplus, the instalments make up
\* the downpayment, CPF and cash cover the upfront cost (exactly, unless the fees
\* are negative) and nothing else, CPF is not overdrawn, and unless the client chose
\* the loan, grant, loan and downpayment pay the price.
NoCentLost ==
    /\ call.kind = "cpf" => CPFBalances(call.wage, call.reply)
    /\ call.kind = "income" => IncomeBalances(call.reply)
    /\ call.kind = "household" => HouseholdBalances(call.household, call.reply)
    /\ call.kind = "affordability" =>
         AffordabilityBalances(call.option, call.assets, call.reply)

CPFRisesWithWage(age, wage, status, c) ==
    \A w \in Wages :
        LET other == CalculateCPFContribution(age, w, status) IN
        /\ w <= wage => other.employee <= c.employee /\ other.total <= c.total
        /\ w >= OrdinaryWageCeiling /\ wage >= OrdinaryWageCeiling => other = c

CPFFallsWithAge(age, wage, status, c) ==
    \A a \in Ages : a <= age =>
        LET younger == CalculateCPFContribution(a, wage, status) IN
        c.employee <= younger.employee /\ c.oa <= younger.oa

Rank == [comfortable |-> 1, manageable |-> 2, tight |-> 3, risky |-> 4, not_recommended |-> 5]

RatingFollowsMoney(assets, a) ==
    /\ a.surplus < 0 => a.rating = "not_recommended"
    /\ \A richer \in Assets :
          /\ richer.takeHome >= assets.takeHome
          /\ richer.expenses <= assets.expenses
          => Rank[affordabilityRating(a.cost, richer.takeHome,
                    richer.takeHome - richer.expenses - a.cost)] <= Rank[a.rating]

\* Incomes on and beside the edges of the chart, and the one of a household.
GrantFallsWithIncome(current) ==
    LET edges == UNION {{GrantBrackets[i][1] - 1, GrantBrackets[i][1], GrantBrackets[i][1] + 1} :
                          i \in DOMAIN GrantBrackets} IN
    \A type \in HousingType, low, high \in edges \cup {-1, 0, current} : low <= high =>
        EstimateHousingGrantAmountFromGrossMonthlyIncome(type, high).grant
          <= EstimateHousingGrantAmountFromGrossMonthlyIncome(type, low).grant

\* cpf.go:28-89, housing.go:106-124, housing_grant.go:30-71: no band is out of
\* line with its neighbours.  A higher wage never means a lower contribution and
\* past the ceiling nothing changes; an older employee never pays more; more
\* income never means a larger grant; and a household left with less than
\* nothing is advised against, one with more money never rated worse.
BandsAreMonotone ==
    /\ call.kind = "cpf" =>
         /\ CPFRisesWithWage(call.age, call.wage, call.status, call.reply)
         /\ CPFFallsWithAge(call.age, call.wage, call.status, call.reply)
    /\ call.kind = "household" => GrantFallsWithIncome(call.reply.current)
    /\ call.kind = "affordability" => RatingFollowsMoney(call.assets, call.reply)
=============================================================================
