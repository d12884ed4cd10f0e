--------------------------- MODULE PlanningProofs ---------------------------
(***************************************************************************)
(* What saving an option does to its grant and to its being deferred, that *)
(* a dashboard is about one household, and what the calculators of Finance *)
(* promise, for every set of forms, households, amounts and handlers.      *)
(*                                                                         *)
(* The arithmetic is reasoned about through what it rounds: a share is its *)
(* product rounded down (BpsRoundsDown), a ratio its quotient rounded down *)
(* (RatioRoundsDown).  A total over a household is a sum of Sums.          *)
(***************************************************************************)
EXTENDS Planning, Finance, Sums, TLAPS

\* A form, whatever its grant has been replaced by.
Consistent(f) == IsHome(f) /\ (IsDeferredHousingOption(f) => f.grant = 0)

\* The tables and the handlers between estimate and statement.
PInv ==
    /\ options = [o \in Homes |-> options[o]]
    /\ \A o \in Homes : options[o] # NoRow => Consistent(options[o])
    /\ reqs = [r \in Reqs |-> reqs[r]]
    /\ \A r \in Reqs :
          /\ reqs[r].pc = "estimate" => IsHome(reqs[r].form) /\ reqs[r].home \in Homes
          /\ reqs[r].pc = "write" => Consistent(reqs[r].form) /\ reqs[r].home \in Homes

\* Replacing the grant keeps every other field.
LEMMA GrantedFields ==
    ASSUME NEW f, IsHome(f), NEW household
    PROVE  /\ IsHome(granted(f, household))
           /\ \A x \in HomeFields \ {"grant"} : granted(f, household)[x] = f[x]
           /\ IsNonHDBHousingType(f.type) \/ IsDeferredHousingOption(f)
                => granted(f, household).grant = 0
BY DEF granted, IsHome, HomeFields

\* A deferred option is saved deferred.
LEMMA DeferralKept ==
    ASSUME NEW f, IsHome(f), NEW household, IsDeferredHousingOption(f)
    PROVE  IsDeferredHousingOption(granted(f, household))
<1> DEFINE g == granted(f, household)
<1>1. /\ g.grant = 0
      /\ g.type = f.type /\ g.loanType = f.loanType /\ g.loanAmount = f.loanAmount
      /\ g.dpBps = f.dpBps /\ g.keyDate = f.keyDate /\ g.tenure = f.tenure
      /\ g.overrides = f.overrides
  BY GrantedFields DEF HomeFields
<1> HIDE DEF g
<1>2. IsDeferredHousingOption(g)
  BY <1>1, SMT DEF IsDeferredHousingOption, IsNonHDBHousingType,
                   MaxLoanTenureMonthsForHousingType
<1>3. QED  BY <1>2 DEF g

\* What is saved is deferred only without a grant: the clauses that look at
\* other fields had been true of the form, and the last one asks for none.
LEMMA GrantedConsistent ==
    ASSUME NEW f, IsHome(f), NEW household
    PROVE  Consistent(granted(f, household))
<1> DEFINE g == granted(f, household)
<1>1. /\ g.type = f.type /\ g.loanType = f.loanType /\ g.loanAmount = f.loanAmount
      /\ g.dpBps = f.dpBps /\ g.keyDate = f.keyDate /\ g.tenure = f.tenure
      /\ g.overrides = f.overrides
      /\ IsHome(g)
  BY GrantedFields DEF HomeFields
<1>2. IsDeferredHousingOption(f) => g.grant = 0
  BY GrantedFields
<1> HIDE DEF g
<1>3. IsDeferredHousingOption(g) /\ ~IsDeferredHousingOption(f) => g.grant = 0
  BY <1>1, SMT DEF IsDeferredHousingOption, IsNonHDBHousingType,
                   MaxLoanTenureMonthsForHousingType
<1>4. Consistent(g)
  BY <1>1, <1>2, <1>3 DEF Consistent
<1>5. QED  BY <1>4 DEF g

\* Marking a handler as disturbed changes neither its step nor its form.
LEMMA DisturbedKeeps ==
    ASSUME PInv, NEW r \in Reqs
    PROVE  /\ Disturbed[r].pc = reqs[r].pc
           /\ reqs[r].pc \in {"estimate", "write"} =>
                Disturbed[r].form = reqs[r].form /\ Disturbed[r].home = reqs[r].home
BY DEF Disturbed, InFlight, PInv

-----------------------------------------------------------------------------
\* Init and every step keep PInv.
LEMMA PlanningInit == Init => PInv
BY DEF Init, PInv, Idle

\* Every step keeps the tables and the handlers consistent.
LEMMA PlanningStep == PInv /\ [Next]_vars => PInv'
<1> SUFFICES ASSUME PInv, [Next]_vars PROVE PInv'  OBVIOUS
\* Steps that touch no option and at most mark handlers as disturbed.
<1>1. ASSUME reqs' = Disturbed, UNCHANGED options  PROVE PInv'
  <2>1. reqs' = [r \in Reqs |-> reqs'[r]]
    BY <1>1 DEF Disturbed
  <2>2. \A r \in Reqs : reqs'[r].pc = reqs[r].pc
    BY <1>1, DisturbedKeeps
  <2>3. \A r \in Reqs : reqs'[r].pc \in {"estimate", "write"} =>
            reqs'[r].form = reqs[r].form /\ reqs'[r].home = reqs[r].home
    BY <1>1, DisturbedKeeps, <2>2
  <2>4. QED  BY <1>1, <2>1, <2>2, <2>3 DEF PInv
\* Steps of one handler that leave the table alone.
<1>2. ASSUME NEW r \in Reqs, NEW h, reqs' = [reqs EXCEPT ![r] = h], UNCHANGED options,
             h.pc = "estimate" => IsHome(h.form) /\ h.home \in Homes,
             h.pc = "write" => Consistent(h.form) /\ h.home \in Homes
      PROVE  PInv'
  <2>1. reqs' = [q \in Reqs |-> reqs'[q]]
    BY <1>2 DEF PInv
  <2>2. \A q \in Reqs : reqs'[q] = IF q = r THEN h ELSE reqs[q]
    BY <1>2 DEF PInv
  <2>3. QED  BY <1>2, <2>1, <2>2 DEF PInv
\* Steps that write one option, and disturb or end handlers.
<1>3. ASSUME NEW o \in Homes, NEW v, options' = [options EXCEPT ![o] = v],
             v # NoRow => Consistent(v), reqs' = [q \in Reqs |-> reqs'[q]],
             \A q \in Reqs : \/ reqs'[q] = Idle
                             \/ reqs'[q] = Disturbed[q]
      PROVE  PInv'
  <2>1. options' = [p \in Homes |-> options'[p]]
    BY <1>3 DEF PInv
  <2>2. \A p \in Homes : options'[p] # NoRow => Consistent(options'[p])
    BY <1>3 DEF PInv
  <2>3. ASSUME NEW q \in Reqs
        PROVE  /\ reqs'[q].pc = "estimate" => IsHome(reqs'[q].form) /\ reqs'[q].home \in Homes
               /\ reqs'[q].pc = "write" => Consistent(reqs'[q].form) /\ reqs'[q].home \in Homes
    <3>1. CASE reqs'[q] = Idle  BY <3>1 DEF Idle
    <3>2. CASE reqs'[q] = Disturbed[q]
      BY <3>2, DisturbedKeeps DEF PInv
    <3>3. QED  BY <1>3, <3>1, <3>2
  <2>4. QED  BY <1>3, <2>1, <2>2, <2>3 DEF PInv
<1>4. ASSUME NEW p \in Persons, NEW f \in PersonForms, SavePerson(p, f)  PROVE PInv'
  BY <1>4, <1>1 DEF SavePerson
<1>5. ASSUME NEW p \in Persons, DeletePerson(p)  PROVE PInv'
  BY <1>5, <1>1 DEF DeletePerson
<1>6. ASSUME NEW o \in Homes, NEW v \in BOOLEAN, SetVisible(o, v)  PROVE PInv'
  <2> DEFINE n == [options[o] EXCEPT !.visible = v]
  <2>1. IsHome(options[o]) /\ Consistent(options[o])
    BY <1>6 DEF SetVisible, PInv, Consistent
  <2>2. IsHome(n) /\ \A x \in HomeFields \ {"visible"} : n[x] = options[o][x]
    BY <2>1 DEF IsHome, HomeFields
  <2>3. /\ n.grant = options[o].grant
        /\ n.type = options[o].type /\ n.loanType = options[o].loanType
        /\ n.loanAmount = options[o].loanAmount /\ n.dpBps = options[o].dpBps
        /\ n.keyDate = options[o].keyDate /\ n.tenure = options[o].tenure
        /\ n.overrides = options[o].overrides
    BY <2>2 DEF HomeFields
  <2>4. options' = [options EXCEPT ![o] = n]
    BY <1>6 DEF SetVisible, PInv
  <2>5. reqs' = Disturbed /\ reqs' = [q \in Reqs |-> reqs'[q]]
    BY <1>6 DEF SetVisible, Disturbed
  <2> HIDE DEF n
  <2>6. IsDeferredHousingOption(n) => IsDeferredHousingOption(options[o])
    BY <2>3, SMT DEF IsDeferredHousingOption, IsNonHDBHousingType,
                     MaxLoanTenureMonthsForHousingType
  <2>7. Consistent(n)
    BY <2>1, <2>2, <2>3, <2>6 DEF Consistent
  <2>8. QED  BY <2>4, <2>5, <2>7, <1>3
<1>7. ASSUME NEW o \in Homes, DeleteHome(o)  PROVE PInv'
  <2>1. reqs' = Disturbed /\ reqs' = [q \in Reqs |-> reqs'[q]]
    BY <1>7 DEF DeleteHome, Disturbed
  <2>2. QED  BY <1>7, <2>1, <1>3 DEF DeleteHome
<1>8. ASSUME NEW r \in Reqs, NEW o \in Homes, NEW f \in HomeForms, BeginSave(r, o, f)  PROVE PInv'
  BY <1>8, <1>2, PlanningAssumption DEF BeginSave
<1>9. ASSUME NEW r \in Reqs, applyGrantEstimate(r)  PROVE PInv'
  <2>1. IsHome(reqs[r].form) /\ reqs[r].home \in Homes
    BY <1>9 DEF applyGrantEstimate, PInv
  <2>2. Consistent(granted(reqs[r].form, Household))
    BY <2>1, GrantedConsistent
  <2>3. QED  BY <1>9, <2>1, <2>2, <1>2 DEF applyGrantEstimate
<1>10. ASSUME NEW r \in Reqs, WriteOption(r)  PROVE PInv'
  <2>1. Consistent(reqs[r].form) /\ reqs[r].home \in Homes
    BY <1>10 DEF WriteOption, PInv
  <2>2. reqs' = [q \in Reqs |-> reqs'[q]] /\ \A q \in Reqs : reqs'[q] \in {Idle, Disturbed[q]}
    BY <1>10 DEF WriteOption, Disturbed
  <2>3. QED  BY <1>10, <2>1, <2>2, <1>3 DEF WriteOption
<1>11. ASSUME NEW r \in Reqs, NEW t \in HousingType, EstimateHousingGrant(r, t)  PROVE PInv'
  BY <1>11, <1>2 DEF EstimateHousingGrant
<1>12. ASSUME NEW r \in Reqs, BeginDashboard(r)  PROVE PInv'
  BY <1>12, <1>2 DEF BeginDashboard
<1>13. ASSUME NEW r \in Reqs, ReadPeople(r)  PROVE PInv'
  BY <1>13, <1>2 DEF ReadPeople
<1>14. ASSUME NEW r \in Reqs, ReadOptions(r)  PROVE PInv'
  BY <1>14, <1>2 DEF ReadOptions
<1>15. ASSUME NEW r \in Reqs, Finish(r)  PROVE PInv'
  BY <1>15, <1>2 DEF Finish, Idle
<1>16. CASE UNCHANGED vars  BY <1>16 DEF vars, PInv
<1>17. QED
  BY <1>4, <1>5, <1>6, <1>7, <1>8, <1>9, <1>10, <1>11, <1>12, <1>13, <1>14, <1>15, <1>16
     DEF Next

\* housing.go:402-421 (server): in every reachable state the rows, and the
\* forms whose grant has been replaced, are deferred only without a grant.
THEOREM PlanningInvariant == Spec => []PInv
BY PlanningInit, PlanningStep, PTL DEF Spec

\* housing.go:402-421 (server): an option read back as deferred has no grant.
THEOREM DeferredOptionsHaveNoGrant == Spec => []DeferredHasNoGrant
<1>1. PInv => DeferredHasNoGrant
  BY DEF PInv, Consistent, DeferredHasNoGrant
<1>2. QED  BY <1>1, PlanningInvariant, PTL

\* housing_grant.go:73-97: replacing the grant keeps a deferred option deferred.
THEOREM DeferralSurvivesSaving == Spec => SavingKeepsDeferral
<1> DEFINE Kept == \A r \in Reqs : reqs[r].pc = "estimate" /\ reqs'[r].pc = "write" =>
          (IsDeferredHousingOption(reqs[r].form) => IsDeferredHousingOption(reqs'[r].form))
<1>1. PInv /\ [Next]_vars => [Kept]_vars
  <2> SUFFICES ASSUME PInv, Next, NEW q \in Reqs,
                      reqs[q].pc = "estimate", reqs'[q].pc = "write",
                      IsDeferredHousingOption(reqs[q].form)
               PROVE  IsDeferredHousingOption(reqs'[q].form)
    OBVIOUS
  <2>1. IsHome(reqs[q].form)
    BY DEF PInv
  <2>2. ASSUME NEW r \in Reqs, NEW h, reqs' = [reqs EXCEPT ![r] = h], h.pc # "write"  PROVE FALSE
    BY <2>2 DEF PInv
  <2>3. ASSUME reqs' = Disturbed  PROVE FALSE
    BY <2>3, DisturbedKeeps
  <2>4. ASSUME NEW p \in Persons, NEW f \in PersonForms, SavePerson(p, f)  PROVE FALSE
    BY <2>4, <2>3 DEF SavePerson
  <2>5. ASSUME NEW p \in Persons, DeletePerson(p)  PROVE FALSE
    BY <2>5, <2>3 DEF DeletePerson
  <2>6. ASSUME NEW o \in Homes, NEW v \in BOOLEAN, SetVisible(o, v)  PROVE FALSE
    BY <2>6, <2>3 DEF SetVisible
  <2>7. ASSUME NEW o \in Homes, DeleteHome(o)  PROVE FALSE
    BY <2>7, <2>3 DEF DeleteHome
  <2>8. ASSUME NEW r \in Reqs, NEW o \in Homes, NEW f \in HomeForms, BeginSave(r, o, f)  PROVE FALSE
    BY <2>8, <2>2 DEF BeginSave
  <2>9. ASSUME NEW r \in Reqs, applyGrantEstimate(r)
        PROVE  IsDeferredHousingOption(reqs'[q].form)
    <3>1. r = q
      BY <2>9 DEF applyGrantEstimate, PInv
    <3>2. reqs'[q].form = granted(reqs[q].form, Household)
      BY <2>9, <3>1 DEF applyGrantEstimate, PInv
    <3>3. QED  BY <2>1, <3>2, DeferralKept
  <2>10. ASSUME NEW r \in Reqs, WriteOption(r)  PROVE FALSE
    <3>1. reqs'[q] = IF q = r THEN Idle ELSE Disturbed[q]
      BY <2>10 DEF WriteOption, Disturbed
    <3>2. QED  BY <3>1, DisturbedKeeps DEF Idle
  <2>11. ASSUME NEW r \in Reqs, NEW t \in HousingType, EstimateHousingGrant(r, t)  PROVE FALSE
    BY <2>11, <2>2 DEF EstimateHousingGrant
  <2>12. ASSUME NEW r \in Reqs, BeginDashboard(r)  PROVE FALSE
    BY <2>12, <2>2 DEF BeginDashboard
  <2>13. ASSUME NEW r \in Reqs, ReadPeople(r)  PROVE FALSE
    BY <2>13, <2>2 DEF ReadPeople
  <2>14. ASSUME NEW r \in Reqs, ReadOptions(r)  PROVE FALSE
    BY <2>14, <2>2 DEF ReadOptions
  <2>15. ASSUME NEW r \in Reqs, Finish(r)  PROVE FALSE
    BY <2>15, <2>2 DEF Finish, Idle
  <2>16. QED
    BY <2>4, <2>5, <2>6, <2>7, <2>8, <2>9, <2>10, <2>11, <2>12, <2>13, <2>14, <2>15 DEF Next
<1>2. QED  BY <1>1, PlanningInvariant, PTL DEF Spec, SavingKeepsDeferral

-----------------------------------------------------------------------------
(* Saving again what was stored.                                           *)

\* The grant of a form is the one the system estimates for a household.
Settled(f, household) == granted(f, household) = f

\* EchoChangesNothing of the table, and the same of forms about to be written.
EInv ==
    /\ basis = [o \in Homes |-> basis[o]]
    /\ \A o \in Homes : options[o] # NoRow => Settled(options[o], basis[o])
    /\ \A r \in Reqs : reqs[r].pc = "write" => Settled(reqs[r].form, reqs[r].basis)

\* A form is settled when its grant is.
LEMMA SettledByGrant ==
    ASSUME NEW f, IsHome(f), NEW household, granted(f, household).grant = f.grant
    PROVE  Settled(f, household)
<1> DEFINE g == granted(f, household)
<1>1. IsHome(g) /\ \A x \in HomeFields \ {"grant"} : g[x] = f[x]
  BY GrantedFields
<1>2. g.grant = f.grant
  OBVIOUS
<1>3. \A x \in HomeFields : g[x] = f[x]
  BY <1>1, <1>2
<1> HIDE DEF g
<1>4. g = f
  BY <1>1, <1>3 DEF IsHome
<1>5. QED  BY <1>4 DEF g, Settled

\* The estimate of an estimate is the estimate: without a grant an option may
\* count as deferred that did not before, but then it has none.
LEMMA GrantedSettled ==
    ASSUME NEW f, IsHome(f), NEW household
    PROVE  Settled(granted(f, household), household)
<1> DEFINE g == granted(f, household)
<1>1. IsHome(g) /\ g.type = f.type
  BY GrantedFields DEF HomeFields
<1>2. CASE IsNonHDBHousingType(f.type) \/ IsDeferredHousingOption(f)
  <2>1. g.grant = 0
    BY <1>2, GrantedFields
  <2>2. IsNonHDBHousingType(g.type) \/ IsDeferredHousingOption(g)
    BY <1>1, <1>2, DeferralKept
  <2>3. granted(g, household).grant = 0
    BY <1>1, <2>2, GrantedFields
  <2>4. QED  BY <1>1, <2>1, <2>3, SettledByGrant
<1>3. CASE ~(IsNonHDBHousingType(f.type) \/ IsDeferredHousingOption(f))
  <2>1. g.grant = EstimateHousingGrantAmount(f.type, household).grant
    BY <1>3 DEF granted, IsHome, HomeFields
  <2>2. CASE IsDeferredHousingOption(g)
    <3>1. g.grant = 0
      BY <2>2, GrantedConsistent DEF Consistent
    <3>2. granted(g, household).grant = 0
      BY <1>1, <2>2, GrantedFields
    <3>3. QED  BY <1>1, <3>1, <3>2, SettledByGrant
  <2>3. CASE ~IsDeferredHousingOption(g)
    <3>1. ~IsNonHDBHousingType(g.type)
      BY <1>1, <1>3
    <3>2. granted(g, household).grant = EstimateHousingGrantAmount(g.type, household).grant
      <4> HIDE DEF g
      <4>1. QED  BY <1>1, <2>3, <3>1 DEF granted, IsHome, HomeFields
    <3>3. QED  BY <1>1, <2>1, <3>2, SettledByGrant
  <2>4. QED  BY <2>2, <2>3
<1>4. QED  BY <1>2, <1>3

\* Whether an option is shown plays no part in its grant.
LEMMA VisibleSettled ==
    ASSUME NEW f, IsHome(f), NEW household, Settled(f, household), NEW v
    PROVE  Settled([f EXCEPT !.visible = v], household)
<1> DEFINE n == [f EXCEPT !.visible = v]
<1>1. IsHome(n) /\ \A x \in HomeFields \ {"visible"} : n[x] = f[x]
  BY DEF IsHome, HomeFields
<1>2. /\ n.grant = f.grant
      /\ n.type = f.type /\ n.loanType = f.loanType /\ n.loanAmount = f.loanAmount
      /\ n.dpBps = f.dpBps /\ n.keyDate = f.keyDate /\ n.tenure = f.tenure
      /\ n.overrides = f.overrides
  BY <1>1 DEF HomeFields
<1> HIDE DEF n
<1>3. IsDeferredHousingOption(n) <=> IsDeferredHousingOption(f)
  BY <1>2, SMT DEF IsDeferredHousingOption, IsNonHDBHousingType,
                   MaxLoanTenureMonthsForHousingType
<1>4. \A g : IsHome(g) => granted(g, household).grant =
          IF IsNonHDBHousingType(g.type) \/ IsDeferredHousingOption(g) THEN 0
          ELSE EstimateHousingGrantAmount(g.type, household).grant
  BY DEF granted, IsHome, HomeFields
<1>5. granted(f, household).grant = f.grant
  BY DEF Settled
<1>6. granted(n, household).grant = granted(f, household).grant
  BY <1>1, <1>2, <1>3, <1>4
<1>7. granted(n, household).grant = n.grant
  BY <1>2, <1>5, <1>6
<1>8. Settled(n, household)
  BY <1>1, <1>7, SettledByGrant
<1>9. QED  BY <1>8 DEF n

\* Marking handlers as disturbed keeps what their writes are based on.
LEMMA DisturbedKeepsBasis ==
    ASSUME PInv, NEW r \in Reqs
    PROVE  reqs[r].pc = "write" => Disturbed[r].basis = reqs[r].basis
BY DEF Disturbed, InFlight, PInv

\* Nothing has been written at first.
LEMMA EchoInit == Init => EInv
BY DEF Init, EInv, Idle

\* Every step keeps the options settled.
LEMMA EchoStep == PInv /\ EInv /\ [Next]_vars => EInv'
<1> SUFFICES ASSUME PInv, EInv, [Next]_vars PROVE EInv'  OBVIOUS
<1>1. ASSUME reqs' = Disturbed, UNCHANGED <<options, basis>>  PROVE EInv'
  <2>1. ASSUME NEW r \in Reqs, reqs'[r].pc = "write"
        PROVE  Settled(reqs'[r].form, reqs'[r].basis)
    BY <1>1, <2>1, DisturbedKeeps, DisturbedKeepsBasis DEF EInv
  <2>2. QED  BY <1>1, <2>1 DEF EInv
<1>2. ASSUME NEW r \in Reqs, NEW h, reqs' = [reqs EXCEPT ![r] = h], UNCHANGED <<options, basis>>,
             h.pc = "write" => Settled(h.form, h.basis)
      PROVE  EInv'
  <2>1. \A q \in Reqs : reqs'[q] = IF q = r THEN h ELSE reqs[q]
    BY <1>2 DEF PInv
  <2>2. QED  BY <1>2, <2>1 DEF EInv
<1>3. ASSUME NEW o \in Homes, NEW v, NEW b, options' = [options EXCEPT ![o] = v],
             basis' = [basis EXCEPT ![o] = b], v # NoRow => Settled(v, b),
             \A q \in Reqs : reqs'[q] = Idle \/ reqs'[q] = Disturbed[q]
      PROVE  EInv'
  <2>1. basis' = [p \in Homes |-> basis'[p]]
    BY <1>3 DEF EInv
  <2>2. \A p \in Homes : options'[p] # NoRow => Settled(options'[p], basis'[p])
    BY <1>3 DEF PInv, EInv
  <2>3. ASSUME NEW q \in Reqs, reqs'[q].pc = "write"
        PROVE  Settled(reqs'[q].form, reqs'[q].basis)
    <3>1. reqs'[q] = Disturbed[q]
      BY <1>3, <2>3 DEF Idle
    <3>2. QED  BY <2>3, <3>1, DisturbedKeeps, DisturbedKeepsBasis DEF EInv
  <2>4. QED  BY <2>1, <2>2, <2>3 DEF EInv
<1>4. ASSUME NEW p \in Persons, NEW f \in PersonForms, SavePerson(p, f)  PROVE EInv'
  BY <1>4, <1>1 DEF SavePerson
<1>5. ASSUME NEW p \in Persons, DeletePerson(p)  PROVE EInv'
  BY <1>5, <1>1 DEF DeletePerson
<1>6. ASSUME NEW o \in Homes, NEW v \in BOOLEAN, SetVisible(o, v)  PROVE EInv'
  <2> DEFINE n == [options[o] EXCEPT !.visible = v]
  <2>1. IsHome(options[o]) /\ Settled(options[o], basis[o])
    BY <1>6 DEF SetVisible, PInv, EInv, Consistent
  <2>2. Settled(n, basis[o])
    BY <2>1, VisibleSettled
  <2>3. options' = [options EXCEPT ![o] = n]
    BY <1>6 DEF SetVisible, PInv
  <2>4. basis' = [basis EXCEPT ![o] = basis[o]]
    BY <1>6 DEF SetVisible, EInv
  <2> HIDE DEF n
  <2>5. \A q \in Reqs : reqs'[q] = Disturbed[q]
    BY <1>6 DEF SetVisible
  <2>6. QED  BY <2>2, <2>3, <2>4, <2>5, <1>3
<1>7. ASSUME NEW o \in Homes, DeleteHome(o)  PROVE EInv'
  <2>1. \A q \in Reqs : reqs'[q] = Disturbed[q]
    BY <1>7 DEF DeleteHome
  <2>2. QED  BY <1>7, <2>1, <1>3 DEF DeleteHome
<1>8. ASSUME NEW r \in Reqs, NEW o \in Homes, NEW f \in HomeForms, BeginSave(r, o, f)  PROVE EInv'
  BY <1>8, <1>2 DEF BeginSave
<1>9. ASSUME NEW r \in Reqs, applyGrantEstimate(r)  PROVE EInv'
  <2>1. IsHome(reqs[r].form)
    BY <1>9 DEF applyGrantEstimate, PInv
  <2>2. Settled(granted(reqs[r].form, Household), Household)
    BY <2>1, GrantedSettled
  <2>3. QED  BY <1>9, <2>2, <1>2 DEF applyGrantEstimate
<1>10. ASSUME NEW r \in Reqs, WriteOption(r)  PROVE EInv'
  <2>1. Settled(reqs[r].form, reqs[r].basis) /\ reqs[r].home \in Homes
    BY <1>10 DEF WriteOption, PInv, EInv
  <2>2. \A q \in Reqs : reqs'[q] \in {Idle, Disturbed[q]}
    BY <1>10 DEF WriteOption, Disturbed
  <2>3. QED  BY <1>10, <2>1, <2>2, <1>3 DEF WriteOption
<1>11. ASSUME NEW r \in Reqs, NEW t \in HousingType, EstimateHousingGrant(r, t)  PROVE EInv'
  BY <1>11, <1>2 DEF EstimateHousingGrant
<1>12. ASSUME NEW r \in Reqs, BeginDashboard(r)  PROVE EInv'
  BY <1>12, <1>2 DEF BeginDashboard
<1>13. ASSUME NEW r \in Reqs, ReadPeople(r)  PROVE EInv'
  BY <1>13, <1>2 DEF ReadPeople
<1>14. ASSUME NEW r \in Reqs, ReadOptions(r)  PROVE EInv'
  BY <1>14, <1>2 DEF ReadOptions
<1>15. ASSUME NEW r \in Reqs, Finish(r)  PROVE EInv'
  BY <1>15, <1>2 DEF Finish, Idle
<1>16. CASE UNCHANGED vars  BY <1>16 DEF vars, EInv
<1>17. QED
  BY <1>4, <1>5, <1>6, <1>7, <1>8, <1>9, <1>10, <1>11, <1>12, <1>13, <1>14, <1>15, <1>16
     DEF Next

\* housing.go:402-421 (server): saving what was read, for the household its
\* grant was estimated from, stores the same, whatever forms clients sent and
\* however saves, estimates and changes of visibility interleave.
THEOREM EchoIsStable == Spec => []EchoChangesNothing
<1>1. EInv => EchoChangesNothing
  BY DEF EInv, Settled, EchoChangesNothing
<1>2. Spec => []EInv
  BY EchoInit, EchoStep, PlanningInvariant, PTL DEF Spec
<1>3. QED  BY <1>1, <1>2, PTL

-----------------------------------------------------------------------------
(* Totals over a household.                                                *)

\* The total of integers is the sum that Sums describes.
LEMMA TotalSums ==
    ASSUME NEW S, IsFiniteSet(S), NEW v, DOMAIN v = S
    PROVE  \E g : Total(v) = g[S] /\ Sums(g, S, v, Pick(S))
<1> DEFINE a == CHOOSE g : g = [s \in SUBSET S |->
                  IF s = {} THEN 0 ELSE v[Choice(s)] + g[s \ {Choice(s)}]]
<1>1. Total(v) = a[S]
  BY DEF Total, MapThenSumSet, MapThenFoldSet, Choice
<1>2. Picks(Pick(S), S)
  BY PickPicks
<1>3. ASSUME NEW s \in SUBSET S, s # {}
      PROVE  Pick(S)[s] = Choice(s) /\ Choice(s) \in S
  BY <1>2, <1>3 DEF Pick, Picks
<1>4. PICK g : Sums(g, S, v, Pick(S))
  BY <1>2, SumsExist
<1>5. g = [s \in SUBSET S |-> IF s = {} THEN 0 ELSE v[Choice(s)] + g[s \ {Choice(s)}]]
  BY <1>3, <1>4 DEF Sums
<1>6. a = [s \in SUBSET S |-> IF s = {} THEN 0 ELSE v[Choice(s)] + a[s \ {Choice(s)}]]
  BY <1>5, Zenon
<1> HIDE DEF a
<1>7. Sums(a, S, v, Pick(S))
  BY <1>3, <1>6 DEF Sums
<1> QED BY <1>1, <1>7

\* A total of integers is an integer, and nothing adds up to zero.
LEMMA TotalIsInt ==
    ASSUME NEW S, IsFiniteSet(S), NEW v \in [S -> Int]
    PROVE  Total(v) \in Int /\ (S = {} => Total(v) = 0)
<1>1. PICK g : Total(v) = g[S] /\ Sums(g, S, v, Pick(S))
  BY TotalSums
<1>2. Total(v) \in Int
  <2>1. Picks(Pick(S), S)
    BY PickPicks
  <2> DEFINE one == 1
  <2>2. one \in Int /\ \A x \in S : v[x] <= one * v[x]
    OBVIOUS
  <2> HIDE DEF one
  <2>3. g[S] \in Int
    BY <1>1, <2>1, <2>2, SumsCompare
  <2> QED BY <1>1, <2>3
<1>3. S = {} => g[S] = 0
  BY <1>1 DEF Sums
<1> QED BY <1>1, <1>2, <1>3

\* Totals add up.
LEMMA TotalAdds ==
    ASSUME NEW S, IsFiniteSet(S), NEW u \in [S -> Int], NEW v \in [S -> Int], NEW w \in [S -> Int],
           \A x \in S : w[x] = u[x] + v[x]
    PROVE  Total(w) = Total(u) + Total(v)
<1>1. Picks(Pick(S), S)
  BY PickPicks
<1>2. PICK f : Total(u) = f[S] /\ Sums(f, S, u, Pick(S))
  BY TotalSums
<1>3. PICK g : Total(v) = g[S] /\ Sums(g, S, v, Pick(S))
  BY TotalSums
<1>4. PICK h : Total(w) = h[S] /\ Sums(h, S, w, Pick(S))
  BY TotalSums
<1>5. h[S] = f[S] + g[S]
  BY <1>1, <1>2, <1>3, <1>4, SumsAdd
<1> QED BY <1>2, <1>3, <1>4, <1>5

-----------------------------------------------------------------------------
(* The calculations on integers.                                           *)

\* Shares of integers are integers.
LEMMA BpsIsInt ==
    ASSUME NEW c \in Int, NEW b \in Int
    PROVE  centsByBps(c, b) \in Int
<1>1. c \div 10000 \in Int /\ c % 10000 \in Int
  OBVIOUS
<1> DEFINE q == c \div 10000
           m == c % 10000
<1> HIDE DEF q, m
<1>2. q * b \in Int /\ m * b \in Int
  BY <1>1 DEF q, m
<1> DEFINE x == m * b
<1>3. centsByBps(c, b) = q * b + Quo(x, 10000)
  BY DEF centsByBps, q, m
<1> HIDE DEF x
<1>4. Quo(x, 10000) \in Int
  BY <1>2 DEF Quo, x
<1> QED BY <1>2, <1>3, <1>4

\* The CPF contribution consists of integers, whatever age and wage.
LEMMA CPFIsInt ==
    ASSUME NEW age \in Int, NEW wage \in Int, NEW status
    PROVE  LET c == CalculateCPFContribution(age, wage, status) IN
           c.employee \in Int /\ c.employer \in Int
<1> DEFINE c == CalculateCPFContribution(age, wage, status)
<1>1. CASE status # "full_time_employee" \/ wage <= 5000
  <2>1. c = NoCPF
    BY <1>1 DEF CalculateCPFContribution
  <2> QED BY <2>1 DEF NoCPF
<1>2. CASE ~(status # "full_time_employee" \/ wage <= 5000)
  <2> DEFINE rate == cpfRateForAge(age)
             w == Smaller(wage, OrdinaryWageCeiling)
             employee == floorToDollar(employeeShare(rate, w))
             total == roundToNearestDollar(totalShare(rate, w))
  <2>1. c.employee = employee /\ c.employer = Larger(total - employee, 0)
    BY <1>2 DEF CalculateCPFContribution
  <2>2. w \in Int
    BY DEF Smaller, OrdinaryWageCeiling
  <2>3. rate.employer \in Int /\ rate.employee \in Int
    BY DEF cpfRateForAge
  <2> HIDE DEF w, rate
  <2>4. employeeShare(rate, w) \in Int
    <3>1. w <= 50000 \/ (50000 < w /\ w <= 75000) \/ w > 75000
      BY <2>2
    <3>2. w - 50000 \in Int
      BY <2>2
    <3>3. centsByBps(w - 50000, 1500) \in Int
      BY <3>2, BpsIsInt
    <3>4. centsByBps(w, rate.employee) \in Int
      BY <2>2, <2>3, BpsIsInt
    <3> QED BY <2>2, <3>1, <3>3, <3>4 DEF employeeShare
  <2>5. totalShare(rate, w) \in Int
    <3>1. rate.employee + rate.employer \in Int
      BY <2>3
    <3>2. centsByBps(w, rate.employer) \in Int /\ centsByBps(w, rate.employee + rate.employer) \in Int
      BY <2>2, <2>3, <3>1, BpsIsInt, Zenon
    <3> QED BY <2>4, <3>2 DEF totalShare
  <2>6. employee \in Int
    BY <2>4 DEF floorToDollar
  <2>7. total \in Int
    BY <2>5 DEF roundToNearestDollar
  <2> HIDE DEF c, employee, total
  <2>8. c.employee \in Int /\ c.employer \in Int
    BY <2>1, <2>6, <2>7 DEF Larger
  <2> QED BY <2>8 DEF c
<1> QED BY <1>1, <1>2

\* Incomes are integers and lose no cent.
LEMMA BreakdownAddsUp ==
    ASSUME NEW p, HasAmounts(p, PersonAmounts)
    PROVE  LET b == CalculateIncomeBreakdown(p) IN
           /\ b.current \in Int /\ b.projected \in Int /\ b.employee \in Int /\ b.employer \in Int
           /\ b.takeHome \in Int /\ b.expenses \in Int /\ b.surplus \in Int
           /\ b.current = b.employee + b.takeHome
           /\ b.takeHome = b.expenses + b.surplus
           /\ b.current = Larger(p.gross, 0)
<1> DEFINE current == currentIncomeFor(p)
           cpf == CalculateCPFContribution(p.age, current, p.status)
           b == CalculateIncomeBreakdown(p)
<1>1. p.age \in Int /\ p.gross \in Int /\ p.expected \in Int /\ p.expenses \in Int
  BY DEF HasAmounts, PersonAmounts
<1>2. current \in Int /\ projectedIncomeFor(p) \in Int /\ current = Larger(p.gross, 0)
  BY <1>1 DEF currentIncomeFor, projectedIncomeFor, Larger
<1>3. /\ b.current = current /\ b.projected = projectedIncomeFor(p) /\ b.employee = cpf.employee
      /\ b.employer = cpf.employer /\ b.takeHome = current - cpf.employee
      /\ b.expenses = p.expenses /\ b.surplus = (current - cpf.employee) - p.expenses
  BY DEF CalculateIncomeBreakdown
<1> HIDE DEF current
<1>4. cpf.employee \in Int /\ cpf.employer \in Int
  BY <1>1, <1>2, CPFIsInt
<1> HIDE DEF cpf, b
<1>5. /\ b.current \in Int /\ b.projected \in Int /\ b.employee \in Int /\ b.employer \in Int
      /\ b.takeHome \in Int /\ b.expenses \in Int /\ b.surplus \in Int
      /\ b.current = b.employee + b.takeHome
      /\ b.takeHome = b.expenses + b.surplus
      /\ b.current = Larger(p.gross, 0)
  BY <1>1, <1>2, <1>3, <1>4
<1> QED BY <1>5 DEF b

\* A household with the amounts of its members.
IsHousehold(h) ==
    IsFiniteSet(DOMAIN h) /\ \A p \in DOMAIN h : HasAmounts(h[p], PersonAmounts)

\* The totals of a household lose no cent.
LEMMA HouseholdAddsUp ==
    ASSUME NEW h, IsHousehold(h)
    PROVE  LET s == CalculateHouseholdIncomeSummary(h) IN
           /\ s.current \in Int /\ s.takeHome \in Int /\ s.employee \in Int
           /\ s.expenses \in Int /\ s.surplus \in Int /\ s.oa \in Int
           /\ s.current = s.employee + s.takeHome
           /\ s.takeHome = s.expenses + s.surplus
           /\ DOMAIN h = {} => s.current = 0
<1> DEFINE S == DOMAIN h
           s == CalculateHouseholdIncomeSummary(h)
           b(p) == CalculateIncomeBreakdown(h[p])
           current == [p \in S |-> b(p).current]
           takeHome == [p \in S |-> b(p).takeHome]
           employee == [p \in S |-> b(p).employee]
           expenses == [p \in S |-> b(p).expenses]
           surplus == [p \in S |-> b(p).surplus]
           oa == [p \in S |-> h[p].oa]
<1>1. /\ s.current = Total(current) /\ s.takeHome = Total(takeHome)
      /\ s.employee = Total(employee) /\ s.expenses = Total(expenses)
      /\ s.surplus = Total(surplus) /\ s.oa = Total(oa)
  BY DEF CalculateHouseholdIncomeSummary, SumOver
<1>2. ASSUME NEW p \in S
      PROVE  /\ b(p).current \in Int /\ b(p).employee \in Int /\ b(p).takeHome \in Int
             /\ b(p).expenses \in Int /\ b(p).surplus \in Int /\ h[p].oa \in Int
             /\ b(p).current = b(p).employee + b(p).takeHome
             /\ b(p).takeHome = b(p).expenses + b(p).surplus
  <2>1. HasAmounts(h[p], PersonAmounts)
    BY DEF IsHousehold
  <2>2. h[p].oa \in Int
    BY <2>1 DEF HasAmounts, PersonAmounts
  <2> HIDE DEF S
  <2> QED BY <2>1, <2>2, BreakdownAddsUp
<1>3. IsFiniteSet(S)
  BY DEF IsHousehold
<1> HIDE DEF S, s, b
<1>4. /\ current \in [S -> Int] /\ takeHome \in [S -> Int] /\ employee \in [S -> Int]
      /\ expenses \in [S -> Int] /\ surplus \in [S -> Int] /\ oa \in [S -> Int]
  <2>1. \A p \in S : h[p].oa \in Int
    BY <1>2
  <2> QED BY <1>2, <2>1
<1>5. /\ \A p \in S : current[p] = employee[p] + takeHome[p]
      /\ \A p \in S : takeHome[p] = expenses[p] + surplus[p]
  BY <1>2
<1> HIDE DEF current, takeHome, employee, expenses, surplus, oa
<1>6. /\ Total(current) \in Int /\ Total(takeHome) \in Int /\ Total(employee) \in Int
      /\ Total(expenses) \in Int /\ Total(surplus) \in Int /\ Total(oa) \in Int
      /\ S = {} => Total(current) = 0
  BY <1>3, <1>4, TotalIsInt
<1>7. Total(current) = Total(employee) + Total(takeHome)
  BY <1>3, <1>4, <1>5, TotalAdds
<1>8. Total(takeHome) = Total(expenses) + Total(surplus)
  BY <1>3, <1>4, <1>5, TotalAdds
<1>9. /\ s.current \in Int /\ s.takeHome \in Int /\ s.employee \in Int
      /\ s.expenses \in Int /\ s.surplus \in Int /\ s.oa \in Int
      /\ s.current = s.employee + s.takeHome
      /\ s.takeHome = s.expenses + s.surplus
      /\ S = {} => s.current = 0
  BY <1>1, <1>6, <1>7, <1>8
<1> QED BY <1>9 DEF s, S

\* The money a dashboard rates options against is the household's.
LEMMA AssetsOfHousehold ==
    ASSUME NEW h, IsHousehold(h)
    PROVE  LET s == CalculateHouseholdIncomeSummary(h) IN
           /\ assetsOf(h).oa = s.oa /\ assetsOf(h).takeHome = s.takeHome
           /\ assetsOf(h).expenses = s.expenses
           /\ assetsOf(h).cash = Total([p \in DOMAIN h |-> h[p].cash])
           /\ HasAmounts(assetsOf(h), AssetAmounts)
<1> DEFINE s == CalculateHouseholdIncomeSummary(h)
           cash == [p \in DOMAIN h |-> h[p].cash]
           a == assetsOf(h)
<1>1. /\ a.oa = s.oa /\ a.takeHome = s.takeHome /\ a.expenses = s.expenses
      /\ a.cash = Total(cash)
  BY DEF assetsOf, SumOver
<1>2. IsFiniteSet(DOMAIN h) /\ cash \in [DOMAIN h -> Int]
  BY DEF IsHousehold, HasAmounts, PersonAmounts
<1> HIDE DEF cash, s, a
<1>3. Total(cash) \in Int
  BY <1>2, TotalIsInt
<1>4. s.oa \in Int /\ s.takeHome \in Int /\ s.expenses \in Int
  BY HouseholdAddsUp DEF s
<1>5. HasAmounts(a, AssetAmounts)
  BY <1>1, <1>3, <1>4 DEF HasAmounts, AssetAmounts
<1> QED BY <1>1, <1>5 DEF s, a, cash

\* Instalments are integers.
LEMMA PaymentIsInt ==
    ASSUME NEW principal \in Int, NEW rate \in Int, NEW months \in Int
    PROVE  monthlyPayment(principal, rate, months) \subseteq Int
<1>1. CASE principal <= 0 \/ months <= 0
  BY <1>1 DEF monthlyPayment
<1>2. CASE ~(principal <= 0 \/ months <= 0)
  <2> DEFINE even == principal \div months
             interest == centsByBps(principal, rate) \div 12
  <2>1. even \in Int
    BY <1>2
  <2>2. interest \in Int
    BY BpsIsInt
  <2> HIDE DEF even, interest
  <2>3. Larger(even, interest) \in Int /\ even + interest + 2 \in Int
    BY <2>1, <2>2 DEF Larger
  <2>4. monthlyPayment(principal, rate, months) \subseteq {even, Larger(even, interest), even + interest + 2}
    BY <1>2 DEF monthlyPayment, even, interest
  <2> QED BY <2>1, <2>3, <2>4
<1> QED BY <1>1, <1>2

\* A line of the dashboard splits the household's money without loss.
LEMMA LineAddsUp ==
    ASSUME NEW o, HasAmounts(o, HomeAmounts), NEW assets, HasAmounts(assets, AssetAmounts),
           NEW a \in CalculateHousingAffordability(o, assets)
    PROVE  /\ a.net = Larger(o.price - o.grant, 0)
           /\ a.cpfUsed + a.remainingOA = assets.oa
           /\ a.topUp + a.remainingCash = assets.cash
           /\ a.cost + a.surplus + assets.expenses = assets.takeHome
           /\ a.surplus < 0 => a.rating = "not_recommended"
           /\ a.rating = affordabilityRating(a.cost, assets.takeHome, a.surplus)
           /\ a.surplus = assets.takeHome - assets.expenses - a.cost
           /\ a.cost \in Int /\ a.surplus \in Int
<1> DEFINE net == Larger(o.price - o.grant, 0)
           downpayment == centsByBps(net, o.dpBps)
           upfront == downpayment + o.legal + o.stampDuty
           loan == estimatedLoan(o, net, downpayment)
           cpfUsed == Smaller(assets.oa, downpayment)
           topUp == Larger(upfront - cpfUsed, 0)
<1>1. PICK mortgage \in monthlyPayment(loan, o.rate, o.tenure) :
        LET cost == mortgage + o.maintenance
            surplus == assets.takeHome - assets.expenses - cost IN
        /\ a.net = net /\ a.cpfUsed = cpfUsed /\ a.topUp = topUp
        /\ a.remainingCash = assets.cash - topUp /\ a.remainingOA = assets.oa - cpfUsed
        /\ a.cost = cost /\ a.surplus = surplus
        /\ a.rating = affordabilityRating(cost, assets.takeHome, surplus)
  BY DEF CalculateHousingAffordability
<1>2. /\ o.price \in Int /\ o.grant \in Int /\ o.dpBps \in Int /\ o.legal \in Int
      /\ o.stampDuty \in Int /\ o.loanAmount \in Int /\ o.rate \in Int /\ o.tenure \in Int
      /\ o.maintenance \in Int
  BY DEF HasAmounts, HomeAmounts
<1>3. /\ assets.cash \in Int /\ assets.oa \in Int /\ assets.takeHome \in Int /\ assets.expenses \in Int
  BY DEF HasAmounts, AssetAmounts
<1>4. net \in Int
  BY <1>2 DEF Larger
<1>5. downpayment \in Int
  <2> HIDE DEF net
  <2>1. net \in Int
    BY <1>4
  <2> QED BY <1>2, <2>1, BpsIsInt
<1> HIDE DEF net, downpayment
<1>6. loan \in Int /\ cpfUsed \in Int /\ upfront \in Int
  BY <1>2, <1>3, <1>4, <1>5 DEF estimatedLoan, Larger, Smaller
<1> HIDE DEF loan, cpfUsed, upfront
<1>7. topUp \in Int
  BY <1>6 DEF Larger
<1> HIDE DEF topUp
<1>8. mortgage \in Int
  BY <1>2, <1>6, PaymentIsInt
<1>9. a.cost \in Int /\ a.surplus \in Int /\ a.surplus = assets.takeHome - assets.expenses - a.cost
  BY <1>1, <1>2, <1>3, <1>8
<1>10. /\ a.rating = affordabilityRating(a.cost, assets.takeHome, a.surplus)
       /\ a.surplus < 0 => a.rating = "not_recommended"
  BY <1>1 DEF affordabilityRating
<1>11. /\ a.cpfUsed + a.remainingOA = assets.oa
       /\ a.topUp + a.remainingCash = assets.cash
  BY <1>1, <1>3, <1>6, <1>7
<1>12. a.cost + a.surplus + assets.expenses = assets.takeHome
  BY <1>3, <1>9
<1>13. a.net = Larger(o.price - o.grant, 0)
  BY <1>1 DEF net
<1> QED BY <1>9, <1>10, <1>11, <1>12, <1>13

\* The chart of grants.
LEMMA Chart ==
    /\ DOMAIN GrantBrackets = 1 .. 16
    /\ \A i \in 1 .. 16 : GrantBrackets[i][1] \in Int /\ GrantBrackets[i][2] \in Int
BY DEF GrantBrackets

\* An income within the chart has a first bracket.
LEMMA FirstBracket ==
    ASSUME NEW income \in Int, NEW i \in DOMAIN GrantBrackets, income <= GrantBrackets[i][1]
    PROVE  \E k \in 1 .. 16 :
              /\ income <= GrantBrackets[k][1]
              /\ \A j \in 1 .. 16 : income <= GrantBrackets[j][1] => k <= j
              /\ bracketGrant(income) = GrantBrackets[k][2]
<1> DEFINE fits == {j \in DOMAIN GrantBrackets : income <= GrantBrackets[j][1]}
           First == CHOOSE j \in fits : \A l \in fits : j <= l
<1>1. fits \subseteq Nat /\ fits # {}
  BY Chart
<1> HIDE DEF fits
<1> DEFINE Less == OpToRel(<, Nat)
<1>2. IsWellFoundedOn(Less, Nat)
  BY NatLessThanWellFounded, Zenon
<1>3. \E k \in fits : \A j \in fits : k <= j
  <2>1. \A j, k \in Nat : j < k => <<j, k>> \in Less
    BY DEF OpToRel
  <2> HIDE DEF Less
  <2>2. PICK k \in fits : \A j \in fits : ~(<<j, k>> \in Less)
    BY <1>1, <1>2, WFMin
  <2>3. ASSUME NEW j \in fits PROVE k <= j
    <3>1. j \in Nat /\ k \in Nat /\ ~(<<j, k>> \in Less)
      BY <1>1, <2>2
    <3>2. ~(j < k)
      BY <2>1, <3>1
    <3> QED BY <3>1, <3>2
  <2> QED BY <2>3
<1>4. First \in fits /\ \A j \in fits : First <= j
  BY <1>3
<1>5. bracketGrant(income) = GrantBrackets[First][2]
  BY <1>1 DEF bracketGrant, fits
<1> HIDE DEF First
<1>6. /\ First \in 1 .. 16 /\ income <= GrantBrackets[First][1]
      /\ \A j \in 1 .. 16 : income <= GrantBrackets[j][1] => First <= j
  BY <1>4, Chart DEF fits
<1> QED BY <1>5, <1>6

\* The estimate of a grant is an integer.
LEMMA GrantIsInt ==
    ASSUME NEW type, NEW h, IsHousehold(h)
    PROVE  EstimateHousingGrantAmount(type, h).grant \in Int
<1> DEFINE income == CalculateHouseholdIncomeSummary(h).current
           gross == Larger(income, 0)
<1>1. income \in Int
  BY HouseholdAddsUp
<1> HIDE DEF income
<1>2. gross \in Int
  BY <1>1 DEF Larger
<1>3. bracketGrant(gross) \in Int
  <2> HIDE DEF gross
  <2>1. CASE \E i \in DOMAIN GrantBrackets : gross <= GrantBrackets[i][1]
    <3>1. \E k \in 1 .. 16 : bracketGrant(gross) = GrantBrackets[k][2]
      BY <1>2, <2>1, FirstBracket
    <3> QED BY <3>1, Chart
  <2>2. CASE ~ \E i \in DOMAIN GrantBrackets : gross <= GrantBrackets[i][1]
    BY <2>2 DEF bracketGrant
  <2> QED BY <2>1, <2>2
<1>4. EstimateHousingGrantAmount(type, h).grant \in {0, bracketGrant(gross)}
  BY DEF EstimateHousingGrantAmount, EstimateHousingGrantAmountFromGrossMonthlyIncome, income
<1> QED BY <1>3, <1>4

-----------------------------------------------------------------------------
(* The dashboard.                                                          *)

\* The columns are what the forms were, no income is negative, and a handler
\* that nobody has disturbed holds the people of now.
DInv ==
    /\ people = [p \in Persons |-> people[p]]
    /\ \A p \in Persons : people[p] # NoRow =>
          HasAmounts(people[p], PersonAmounts) /\ people[p].gross >= 0
    /\ \A o \in Homes : options[o] # NoRow => HasAmounts(options[o], HomeAmounts)
    /\ \A r \in Reqs :
          /\ reqs[r].pc \in {"estimate", "write"} => HasAmounts(reqs[r].form, HomeAmounts)
          /\ reqs[r].pc = "options" =>
                /\ "quiet" \in DOMAIN reqs[r]
                /\ IsHousehold(reqs[r].household)
                /\ reqs[r].quiet => reqs[r].household = Household

\* The people of the tables are a household.
LEMMA HouseholdIsOne ==
    ASSUME DInv
    PROVE  IsHousehold(Household)
<1>1. DOMAIN Household = {q \in Persons : people[q] # NoRow}
  BY DEF Household
<1>2. IsFiniteSet(DOMAIN Household)
  BY <1>1, FS_Subset, PlanningAssumption
<1>3. ASSUME NEW p \in DOMAIN Household
      PROVE  HasAmounts(Household[p], PersonAmounts)
  BY <1>3 DEF Household, DInv
<1> QED BY <1>2, <1>3 DEF IsHousehold

\* What is saved of a person has amounts, and no negative income.
LEMMA NormalizedAmounts ==
    ASSUME NEW f \in PersonForms, validPerson(f)
    PROVE  HasAmounts(normalizedPerson(f), PersonAmounts) /\ normalizedPerson(f).gross >= 0
<1> DEFINE n == normalizedPerson(f)
<1>1. IsPerson(f) /\ HasAmounts(f, PersonAmounts)
  BY PlanningAssumption
<1>2. n.gross = f.gross /\ \A field \in PersonAmounts : n[field] \in {f[field], 0}
  <2>1. f = [field \in PersonFields |-> f[field]]
    BY <1>1 DEF IsPerson
  <2>2. f.status \in {"full_time_employee", "student", "full_time_nsf"}
    BY DEF validPerson
  <2>3. CASE f.status = "full_time_employee"
    BY <2>1, <2>3 DEF normalizedPerson, PersonFields, PersonAmounts
  <2>4. CASE f.status = "student"
    BY <2>1, <2>4 DEF normalizedPerson, PersonFields, PersonAmounts
  <2>5. CASE f.status = "full_time_nsf"
    BY <2>1, <2>5 DEF normalizedPerson, PersonFields, PersonAmounts
  <2> QED BY <2>2, <2>3, <2>4, <2>5
<1>3. f.gross >= 0
  BY DEF validPerson
<1> HIDE DEF n
<1>4. HasAmounts(n, PersonAmounts)
  BY <1>1, <1>2 DEF HasAmounts
<1> QED BY <1>2, <1>3, <1>4 DEF n

\* A grant leaves the other amounts alone.
LEMMA GrantedAmounts ==
    ASSUME NEW f, IsHome(f), HasAmounts(f, HomeAmounts), NEW h, IsHousehold(h)
    PROVE  HasAmounts(granted(f, h), HomeAmounts)
<1> DEFINE g == granted(f, h)
<1>1. \A x \in HomeFields \ {"grant"} : g[x] = f[x]
  BY GrantedFields
<1>2. g.grant \in Int
  <2>1. g.grant \in {0, EstimateHousingGrantAmount(f.type, h).grant}
    BY DEF granted, IsHome, HomeFields
  <2> QED BY <2>1, GrantIsInt
<1> HIDE DEF g
<1>3. HomeAmounts \subseteq HomeFields
  BY DEF HomeAmounts, HomeFields
<1>4. HasAmounts(g, HomeAmounts)
  BY <1>1, <1>2, <1>3 DEF HasAmounts
<1> QED BY <1>4 DEF g

\* A disturbed handler keeps the household it has read, and knows it.
LEMMA DisturbedHousehold ==
    ASSUME PInv, DInv, NEW r \in Reqs, reqs[r].pc = "options"
    PROVE  /\ Disturbed[r].pc = "options" /\ ~Disturbed[r].quiet
           /\ "quiet" \in DOMAIN Disturbed[r]
           /\ Disturbed[r].household = reqs[r].household
<1>1. Disturbed[r] = [reqs[r] EXCEPT !.quiet = FALSE]
  BY DEF Disturbed, InFlight
<1>2. "quiet" \in DOMAIN reqs[r]
  BY DEF DInv
<1> QED BY <1>1, <1>2

\* There is no household at first.
LEMMA DashboardInit == Init => DInv
BY DEF Init, DInv, Idle

\* Every step keeps the household amounts and the homes of a dashboard being
\* read.
LEMMA DashboardStep == PInv /\ DInv /\ [Next]_vars => DInv'
<1> SUFFICES ASSUME PInv, DInv, [Next]_vars PROVE DInv'  OBVIOUS
<1> DEFINE Held(q) ==
      /\ q.pc \in {"estimate", "write"} => HasAmounts(q.form, HomeAmounts)
      /\ q.pc = "options" =>
            "quiet" \in DOMAIN q /\ IsHousehold(q.household) /\ (q.quiet => q.household = Household')
           PeopleOK == /\ people' = [p \in Persons |-> people'[p]]
                       /\ \A p \in Persons : people'[p] # NoRow =>
                             HasAmounts(people'[p], PersonAmounts) /\ people'[p].gross >= 0
           OptionsOK == \A o \in Homes : options'[o] # NoRow => HasAmounts(options'[o], HomeAmounts)
<1>0. ASSUME PeopleOK, OptionsOK, \A r \in Reqs : Held(reqs'[r])  PROVE DInv'
  BY <1>0 DEF DInv, HasAmounts, IsHousehold
<1>1. UNCHANGED people => PeopleOK /\ Household' = Household
  BY DEF DInv, Household
<1>2. UNCHANGED options => OptionsOK
  BY DEF DInv
<1>3. ASSUME NEW r \in Reqs  PROVE Held(Disturbed[r]) /\ Held(Idle)
  <2>1. Held(Idle)
    BY DEF Idle
  <2>2. CASE reqs[r].pc = "options"
    <3>1. /\ Disturbed[r].pc = "options" /\ ~Disturbed[r].quiet
          /\ "quiet" \in DOMAIN Disturbed[r]
          /\ Disturbed[r].household = reqs[r].household
      BY <2>2, DisturbedHousehold
    <3>2. IsHousehold(reqs[r].household)
      BY <2>2 DEF DInv
    <3> QED BY <2>1, <3>1, <3>2
  <2>3. CASE reqs[r].pc # "options"
    <3>1. Disturbed[r].pc = reqs[r].pc
      BY DisturbedKeeps
    <3>2. reqs[r].pc \in {"estimate", "write"} =>
             Disturbed[r].form = reqs[r].form /\ HasAmounts(reqs[r].form, HomeAmounts)
      BY DisturbedKeeps DEF DInv
    <3> QED BY <2>1, <2>3, <3>1, <3>2
  <2> QED BY <2>2, <2>3
\* Steps of one handler.
<1>4. ASSUME NEW r \in Reqs, NEW n, reqs' = [reqs EXCEPT ![r] = n], UNCHANGED <<people, options>>, Held(n)
      PROVE  DInv'
  <2>1. \A q \in Reqs : reqs'[q] = IF q = r THEN n ELSE reqs[q]
    BY <1>4 DEF PInv
  <2>2. Household' = Household /\ PeopleOK /\ OptionsOK
    BY <1>1, <1>2, <1>4
  <2>3. \A q \in Reqs : Held(reqs[q])
    BY <2>2 DEF DInv
  <2>4. \A q \in Reqs : Held(reqs'[q])
    BY <1>4, <2>1, <2>3
  <2> HIDE DEF PeopleOK, OptionsOK, Held
  <2> QED BY <1>0, <2>2, <2>4
<1>5. ASSUME NEW p \in Persons, NEW f \in PersonForms, SavePerson(p, f)  PROVE DInv'
  <2>1. people' = [people EXCEPT ![p] = normalizedPerson(f)] /\ UNCHANGED options /\ reqs' = Disturbed
    BY <1>5 DEF SavePerson
  <2>2. HasAmounts(normalizedPerson(f), PersonAmounts) /\ normalizedPerson(f).gross >= 0
    BY <1>5, NormalizedAmounts DEF SavePerson
  <2>3. PeopleOK
    BY <2>1, <2>2 DEF DInv
  <2>4. OptionsOK
    BY <1>2, <2>1
  <2>5. \A r \in Reqs : Held(reqs'[r])
    BY <1>3, <2>1
  <2> HIDE DEF PeopleOK, OptionsOK, Held
  <2> QED BY <1>0, <2>3, <2>4, <2>5
<1>6. ASSUME NEW p \in Persons, DeletePerson(p)  PROVE DInv'
  <2>1. people' = [people EXCEPT ![p] = NoRow] /\ UNCHANGED options /\ reqs' = Disturbed
    BY <1>6 DEF DeletePerson
  <2>3. PeopleOK
    BY <2>1 DEF DInv
  <2>4. OptionsOK
    BY <1>2, <2>1
  <2>5. \A r \in Reqs : Held(reqs'[r])
    BY <1>3, <2>1
  <2> HIDE DEF PeopleOK, OptionsOK, Held
  <2> QED BY <1>0, <2>3, <2>4, <2>5
\* Steps that write one option.
<1>7. ASSUME NEW o \in Homes, NEW v, options' = [options EXCEPT ![o] = v], UNCHANGED people,
             v # NoRow => HasAmounts(v, HomeAmounts),
             \A r \in Reqs : reqs'[r] \in {Idle, Disturbed[r]}
      PROVE  DInv'
  <2>1. PeopleOK
    BY <1>1, <1>7
  <2>2. OptionsOK
    BY <1>7 DEF DInv, PInv
  <2>3. \A r \in Reqs : Held(reqs'[r])
    BY <1>3, <1>7
  <2> HIDE DEF PeopleOK, OptionsOK, Held
  <2> QED BY <1>0, <2>1, <2>2, <2>3
<1>8. ASSUME NEW o \in Homes, NEW v \in BOOLEAN, SetVisible(o, v)  PROVE DInv'
  <2> DEFINE n == [options[o] EXCEPT !.visible = v]
  <2>1. IsHome(options[o]) /\ HasAmounts(options[o], HomeAmounts)
    BY <1>8 DEF SetVisible, PInv, DInv, Consistent
  <2>2. HasAmounts(n, HomeAmounts)
    <3>1. \A x \in HomeAmounts : n[x] = options[o][x]
      BY <2>1 DEF IsHome, HomeFields, HomeAmounts
    <3> QED BY <2>1, <3>1 DEF HasAmounts
  <2>3. options' = [options EXCEPT ![o] = n] /\ reqs' = Disturbed /\ UNCHANGED people
    BY <1>8 DEF SetVisible, PInv
  <2> HIDE DEF n
  <2> QED BY <1>7, <2>2, <2>3
<1>9. ASSUME NEW o \in Homes, DeleteHome(o)  PROVE DInv'
  BY <1>7, <1>9 DEF DeleteHome
<1>10. ASSUME NEW r \in Reqs, NEW o \in Homes, NEW f \in HomeForms, BeginSave(r, o, f)  PROVE DInv'
  BY <1>4, <1>10, PlanningAssumption DEF BeginSave
<1>11. ASSUME NEW r \in Reqs, applyGrantEstimate(r)  PROVE DInv'
  <2>1. IsHome(reqs[r].form) /\ HasAmounts(reqs[r].form, HomeAmounts)
    BY <1>11 DEF applyGrantEstimate, PInv, DInv
  <2>2. HasAmounts(granted(reqs[r].form, Household), HomeAmounts)
    BY <2>1, HouseholdIsOne, GrantedAmounts
  <2> QED BY <1>4, <1>11, <2>2 DEF applyGrantEstimate
<1>12. ASSUME NEW r \in Reqs, WriteOption(r)  PROVE DInv'
  <2>1. HasAmounts(reqs[r].form, HomeAmounts) /\ reqs[r].home \in Homes
    BY <1>12 DEF WriteOption, PInv, DInv
  <2>2. \A q \in Reqs : reqs'[q] \in {Idle, Disturbed[q]}
    BY <1>12 DEF WriteOption, Disturbed
  <2>3. options' = [options EXCEPT ![reqs[r].home] = reqs[r].form] /\ UNCHANGED people
    BY <1>12 DEF WriteOption
  <2> QED BY <1>7, <2>1, <2>2, <2>3
<1>13. ASSUME NEW r \in Reqs, NEW t \in HousingType, EstimateHousingGrant(r, t)  PROVE DInv'
  BY <1>4, <1>13 DEF EstimateHousingGrant
<1>14. ASSUME NEW r \in Reqs, BeginDashboard(r)  PROVE DInv'
  BY <1>4, <1>14 DEF BeginDashboard
<1>15. ASSUME NEW r \in Reqs, ReadPeople(r)  PROVE DInv'
  <2> DEFINE n == [pc |-> "options", household |-> Household, quiet |-> reqs[r].quiet]
  <2>1. reqs' = [reqs EXCEPT ![r] = n] /\ UNCHANGED <<people, options>>
    BY <1>15 DEF ReadPeople
  <2>2. Household' = Household
    BY <1>1, <2>1
  <2>3. Held(n)
    BY <2>2, HouseholdIsOne
  <2> HIDE DEF n
  <2> QED BY <1>4, <2>1, <2>3
<1>16. ASSUME NEW r \in Reqs, ReadOptions(r)  PROVE DInv'
  BY <1>4, <1>16 DEF ReadOptions
<1>17. ASSUME NEW r \in Reqs, Finish(r)  PROVE DInv'
  BY <1>4, <1>17 DEF Finish, Idle
<1>18. CASE UNCHANGED vars
  BY <1>18 DEF vars, DInv, Household, HasAmounts, IsHousehold
<1> HIDE DEF Held, PeopleOK, OptionsOK
<1> QED
  BY <1>5, <1>6, <1>8, <1>9, <1>10, <1>11, <1>12, <1>13, <1>14, <1>15, <1>16, <1>17, <1>18
     DEF Next

\* Only ReadOptions(q) answers the dashboard of q.
LEMMA OnlyReadOptionsAnswers ==
    ASSUME PInv, DInv, Next, NEW q \in Reqs, reqs[q].pc = "options", reqs'[q].pc = "done"
    PROVE  ReadOptions(q)
<1>1. ASSUME NEW r \in Reqs, NEW h, reqs' = [reqs EXCEPT ![r] = h], h.pc # "done" \/ r # q  PROVE FALSE
  BY <1>1 DEF PInv
<1>2. ASSUME reqs' = Disturbed  PROVE FALSE
  BY <1>2, DisturbedKeeps
<1>3. ASSUME NEW p \in Persons, NEW f \in PersonForms, SavePerson(p, f)  PROVE FALSE
  BY <1>2, <1>3 DEF SavePerson
<1>4. ASSUME NEW p \in Persons, DeletePerson(p)  PROVE FALSE
  BY <1>2, <1>4 DEF DeletePerson
<1>5. ASSUME NEW o \in Homes, NEW v \in BOOLEAN, SetVisible(o, v) \/ DeleteHome(o)  PROVE FALSE
  BY <1>2, <1>5 DEF SetVisible, DeleteHome
<1>6. ASSUME NEW r \in Reqs, NEW o \in Homes, NEW f \in HomeForms, BeginSave(r, o, f)  PROVE FALSE
  BY <1>1, <1>6 DEF BeginSave
<1>7. ASSUME NEW r \in Reqs, applyGrantEstimate(r)  PROVE FALSE
  BY <1>1, <1>7 DEF applyGrantEstimate
<1>8. ASSUME NEW r \in Reqs, WriteOption(r)  PROVE FALSE
  <2>1. reqs'[q] = IF q = r THEN Idle ELSE Disturbed[q]
    BY <1>8 DEF WriteOption, Disturbed
  <2> QED BY <2>1, DisturbedKeeps DEF Idle
<1>9. ASSUME NEW r \in Reqs, NEW t \in HousingType, EstimateHousingGrant(r, t)  PROVE FALSE
  <2>1. reqs[r] = Idle /\ r # q
    BY <1>9 DEF EstimateHousingGrant, Idle
  <2>2. \E h : reqs' = [reqs EXCEPT ![r] = h]
    BY <1>9, Zenon DEF EstimateHousingGrant
  <2> QED BY <1>1, <2>1, <2>2
<1>10. ASSUME NEW r \in Reqs, BeginDashboard(r)  PROVE FALSE
  BY <1>1, <1>10 DEF BeginDashboard
<1>11. ASSUME NEW r \in Reqs, ReadPeople(r)  PROVE FALSE
  BY <1>1, <1>11 DEF ReadPeople
<1>12. ASSUME NEW r \in Reqs, Finish(r)  PROVE FALSE
  BY <1>1, <1>12 DEF Finish, Idle
<1>13. ASSUME NEW r \in Reqs, ReadOptions(r)  PROVE ReadOptions(q)
  <2>1. \E h : reqs' = [reqs EXCEPT ![r] = h]
    BY <1>13, Zenon DEF ReadOptions
  <2> QED BY <1>1, <1>13, <2>1
<1> QED
  BY <1>3, <1>4, <1>5, <1>6, <1>7, <1>8, <1>9, <1>10, <1>11, <1>12, <1>13 DEF Next

\* The dashboard ReadOptions answers with.
LEMMA DashboardReply ==
    ASSUME PInv, DInv, NEW q \in Reqs, ReadOptions(q)
    PROVE  LinesAgree(reqs'[q].reply) /\ (reqs[q].quiet => ShowsTables(reqs'[q].reply))
<1> DEFINE h == reqs[q].household
           shown == [o \in Listed |-> options[o]]
           results == [o \in Listed |-> CalculateHousingAffordability(options[o], assetsOf(h))]
           Reply(lines) == BuildHouseholdDashboard(h, shown, lines)
           Done(lines) == [pc |-> "done", kind |-> "dashboard", household |-> h, reply |-> Reply(lines)]
<1>1. PICK lines : /\ \A o \in Listed : lines[o] \in results[o]
                   /\ reqs' = [reqs EXCEPT ![q] = Done(lines)]
  BY Zenon DEF ReadOptions
<1> DEFINE d == Reply(lines)
           income == CalculateHouseholdIncomeSummary(h)
<1>2. reqs'[q].reply = d
  <2>1. Done(lines).reply = d
    OBVIOUS
  <2> HIDE DEF Done, d
  <2> QED BY <1>1, <2>1 DEF PInv
<1>3. IsHousehold(h) /\ (reqs[q].quiet => h = Household)
  BY DEF ReadOptions, DInv
<1>4. /\ d.income = income /\ d.cash = assetsOf(h).cash
      /\ DOMAIN d.lines = {o \in Listed : options[o].visible}
      /\ \A o \in DOMAIN d.lines : d.lines[o] = lines[o]
  <2>1. DOMAIN shown = Listed /\ \A o \in Listed : shown[o] = options[o]
    OBVIOUS
  <2> HIDE DEF shown, h
  <2>2. /\ d.income = income /\ d.cash = assetsOf(h).cash
        /\ d.lines = [o \in {x \in DOMAIN shown : shown[x].visible} |-> lines[o]]
    BY DEF BuildHouseholdDashboard
  <2> HIDE DEF d
  <2> QED BY <2>1, <2>2
<1>5. /\ assetsOf(h).oa = income.oa /\ assetsOf(h).takeHome = income.takeHome
      /\ assetsOf(h).expenses = income.expenses
      /\ assetsOf(h).cash = Total([p \in DOMAIN h |-> h[p].cash])
      /\ HasAmounts(assetsOf(h), AssetAmounts)
  BY <1>3, AssetsOfHousehold
<1> HIDE DEF d, h, income
<1>6. ASSUME NEW o \in DOMAIN d.lines
      PROVE  /\ d.lines[o].net = Larger(options[o].price - options[o].grant, 0)
             /\ d.lines[o].cpfUsed + d.lines[o].remainingOA = d.income.oa
             /\ d.lines[o].topUp + d.lines[o].remainingCash = d.cash
             /\ d.lines[o].cost + d.lines[o].surplus + d.income.expenses = d.income.takeHome
             /\ d.lines[o].surplus < 0 => d.lines[o].rating = "not_recommended"
  <2>1. o \in Listed /\ d.lines[o] = lines[o]
    BY <1>4
  <2>2. HasAmounts(options[o], HomeAmounts)
    BY <2>1 DEF Listed, DInv
  <2>3. lines[o] \in CalculateHousingAffordability(options[o], assetsOf(h))
    BY <1>1, <2>1
  <2>4. /\ lines[o].net = Larger(options[o].price - options[o].grant, 0)
        /\ lines[o].cpfUsed + lines[o].remainingOA = assetsOf(h).oa
        /\ lines[o].topUp + lines[o].remainingCash = assetsOf(h).cash
        /\ lines[o].cost + lines[o].surplus + assetsOf(h).expenses = assetsOf(h).takeHome
        /\ lines[o].surplus < 0 => lines[o].rating = "not_recommended"
    BY <1>5, <2>2, <2>3, LineAddsUp
  <2> QED BY <1>4, <1>5, <2>1, <2>4
<1>7. LinesAgree(d)
  BY <1>6 DEF LinesAgree
<1>8. ASSUME reqs[q].quiet  PROVE ShowsTables(d)
  <2>1. h = Household
    BY <1>3, <1>8
  <2> DEFINE gross == [p \in DOMAIN Household |-> Household[p].gross]
             cash == [p \in DOMAIN Household |-> Household[p].cash]
             current == [p \in DOMAIN Household |-> CalculateIncomeBreakdown(Household[p]).current]
  <2>2. d.income.current = Total(current)
    <3>1. CalculateHouseholdIncomeSummary(h).current =
              Total([p \in DOMAIN h |-> CalculateIncomeBreakdown(h[p]).current])
      BY DEF CalculateHouseholdIncomeSummary, SumOver
    <3> QED BY <1>4, <2>1, <3>1 DEF income
  <2>3. current = gross
    <3>1. ASSUME NEW p \in DOMAIN Household
          PROVE  CalculateIncomeBreakdown(Household[p]).current = Household[p].gross
      <4>1. p \in Persons /\ people[p] # NoRow /\ Household[p] = people[p]
        BY <3>1 DEF Household
      <4>2. HasAmounts(people[p], PersonAmounts) /\ people[p].gross >= 0
        BY <4>1 DEF DInv
      <4>3. people[p].gross \in Int
        BY <4>2 DEF HasAmounts, PersonAmounts
      <4>4. CalculateIncomeBreakdown(people[p]).current = Larger(people[p].gross, 0)
        BY <4>2, BreakdownAddsUp
      <4>5. Larger(people[p].gross, 0) = people[p].gross
        BY <4>2, <4>3 DEF Larger
      <4> QED BY <4>1, <4>4, <4>5
    <3> QED BY <3>1
  <2>4. d.cash = Total(cash)
    BY <1>4, <1>5, <2>1
  <2>5. SumOver(Household, LAMBDA p : p.gross) = Total(gross)
        /\ SumOver(Household, LAMBDA p : p.cash) = Total(cash)
    BY DEF SumOver
  <2>6. DOMAIN d.lines = {o \in Homes : options[o] # NoRow /\ options[o].visible}
    BY <1>4 DEF Listed
  <2> HIDE DEF gross, cash, current
  <2>7. d.income.current = Total(gross)
    BY <2>2, <2>3
  <2> QED BY <1>6, <2>4, <2>6, <2>7 DEF ShowsTables, SumOver, gross, cash
<1> QED BY <1>2, <1>7, <1>8

\* dashboard.go:32-66 (server): all lines of a dashboard are about the
\* household whose totals it shows, and undisturbed it shows the tables.
THEOREM DashboardsAreSound == Spec => DashboardSound
<1> DEFINE Sound == \A r \in Reqs : reqs[r].pc = "options" /\ reqs'[r].pc = "done" =>
          LinesAgree(reqs'[r].reply) /\ (reqs[r].quiet => ShowsTables(reqs'[r].reply))
<1>1. PInv /\ DInv /\ [Next]_vars => [Sound]_vars
  BY OnlyReadOptionsAnswers, DashboardReply
<1>2. Spec => [](PInv /\ DInv)
  BY PlanningInit, PlanningStep, DashboardInit, DashboardStep, PTL DEF Spec
<1> HIDE DEF Sound
<1>3. Spec => [][Sound]_vars
  BY <1>1, <1>2, PTL DEF Spec
<1> QED BY <1>3 DEF Sound, DashboardSound

-----------------------------------------------------------------------------
(* The calculators.                                                        *)

\* Products of natural numbers grow with their factors.
LEMMA ProductsGrow ==
    ASSUME NEW a \in Nat, NEW b \in Nat, NEW c \in Nat, a <= b
    PROVE  c * a \in Nat /\ c * b \in Nat /\ c * a <= c * b /\ c * a = a * c
<1> DEFINE d == b - a
<1>1. d \in Nat /\ b = a + d
  OBVIOUS
<1> HIDE DEF d
<1>2. c * d \in Nat /\ c * a \in Nat
  BY <1>1
<1>3. c * (a + d) = c * a + c * d
  BY <1>1
<1>4. c * a = a * c
  OBVIOUS
<1> QED BY <1>1, <1>2, <1>3, <1>4

\* A share is the product, rounded down.
LEMMA BpsRoundsDown ==
    ASSUME NEW c \in Nat, NEW b \in Nat
    PROVE  /\ centsByBps(c, b) \in Nat
           /\ 10000 * centsByBps(c, b) <= c * b
           /\ c * b < 10000 * centsByBps(c, b) + 10000
<1> DEFINE q == c \div 10000
           m == c % 10000
           qb == q * b
           mb == m * b
           r == mb \div 10000
<1>1. q \in Nat /\ m \in Nat /\ c = (10000 * q) + m
  OBVIOUS
<1> HIDE DEF q, m
<1>2. qb \in Nat /\ mb \in Nat
  BY <1>1
<1>3. c * b = 10000 * qb + mb
  <2>1. (10000 * q + m) * b = (10000 * q) * b + m * b
    BY <1>1
  <2>2. (10000 * q) * b = 10000 * (q * b)
    BY <1>1
  <2> QED BY <1>1, <2>1, <2>2
<1>4. centsByBps(c, b) = qb + r
  <2>1. centsByBps(c, b) = q * b + Quo(m * b, 10000)
    BY DEF centsByBps, q, m
  <2>2. mb >= 0
    BY <1>2
  <2>3. Quo(m * b, 10000) = r
    BY <2>2 DEF Quo
  <2> QED BY <2>1, <2>3
<1> HIDE DEF qb, mb
<1>5. r \in Nat /\ 10000 * r <= mb /\ mb < 10000 * r + 10000
  BY <1>2
<1> HIDE DEF r
<1> QED BY <1>2, <1>3, <1>4, <1>5

\* Shares of natural numbers are natural.
LEMMA BpsIsNat ==
    ASSUME NEW c \in Nat, NEW b \in Nat
    PROVE  centsByBps(c, b) \in Nat
BY BpsRoundsDown

\* Larger amounts and rates have larger shares.
LEMMA BpsGrows ==
    ASSUME NEW c \in Nat, NEW d \in Nat, NEW a \in Nat, NEW b \in Nat, c <= d, a <= b
    PROVE  centsByBps(c, a) <= centsByBps(d, b)
<1>1. c * a <= d * b /\ c * a \in Nat /\ d * b \in Nat
  <2>1. c * a <= c * b /\ c * a \in Nat /\ c * b \in Nat
    BY ProductsGrow
  <2>2. b * c <= b * d /\ b * c = c * b /\ b * d \in Nat
    BY ProductsGrow
  <2>3. b * d = d * b
    OBVIOUS
  <2> QED BY <2>1, <2>2, <2>3
<1> DEFINE x == centsByBps(c, a)
           y == centsByBps(d, b)
           u == c * a
           v == d * b
<1>2. x \in Nat /\ y \in Nat /\ 10000 * x <= u /\ v < 10000 * y + 10000
  <2>1. x \in Nat /\ 10000 * x <= u
    BY BpsRoundsDown
  <2>2. y \in Nat /\ v < 10000 * y + 10000
    BY BpsRoundsDown
  <2> QED BY <2>1, <2>2
<1>3. u <= v /\ u \in Nat /\ v \in Nat
  BY <1>1
<1> HIDE DEF x, y, u, v
<1>4. x <= y
  BY <1>2, <1>3
<1> QED BY <1>4 DEF x, y

\* Shares at two rates fit into the share at their sum, and into the amount.
LEMMA BpsSplits ==
    ASSUME NEW c \in Nat, NEW a \in Nat, NEW b \in Nat
    PROVE  /\ centsByBps(c, a) + centsByBps(c, b) <= centsByBps(c, a + b)
           /\ a + b <= 10000 => centsByBps(c, a) + centsByBps(c, b) <= c
<1> DEFINE x == centsByBps(c, a)
           y == centsByBps(c, b)
           z == centsByBps(c, a + b)
           u == c * a
           v == c * b
           w == c * (a + b)
<1>1. /\ x \in Nat /\ y \in Nat /\ 10000 * x <= u /\ 10000 * y <= v
      /\ z \in Nat /\ w < 10000 * z + 10000
  <2>1. x \in Nat /\ 10000 * x <= u
    BY BpsRoundsDown
  <2>2. y \in Nat /\ 10000 * y <= v
    BY BpsRoundsDown
  <2>3. z \in Nat /\ w < 10000 * z + 10000
    <3> DEFINE e == a + b
    <3>1. e \in Nat
      OBVIOUS
    <3> HIDE DEF e
    <3>2. centsByBps(c, e) \in Nat /\ c * e < 10000 * centsByBps(c, e) + 10000
      BY <3>1, BpsRoundsDown
    <3> QED BY <3>2 DEF e
  <2> HIDE DEF x, y, z, u, v, w
  <2> QED BY <2>1, <2>2, <2>3
<1>2. w = u + v
  OBVIOUS
<1>3. a + b <= 10000 => w <= 10000 * c
  <2>1. ASSUME a + b <= 10000 PROVE c * (a + b) <= c * 10000
    BY <2>1, ProductsGrow
  <2> QED BY <2>1
<1>4. u \in Nat /\ v \in Nat
  OBVIOUS
<1> HIDE DEF x, y, z, u, v, w
<1>5. /\ x + y <= z
      /\ a + b <= 10000 => x + y <= c
  BY <1>1, <1>2, <1>3, <1>4
<1> QED BY <1>5 DEF x, y, z

\* No share exceeds the amount.
LEMMA BpsFits ==
    ASSUME NEW c \in Nat, NEW a \in Nat, a <= 10000
    PROVE  centsByBps(c, a) <= c
<1> DEFINE x == centsByBps(c, a)
           u == c * a
<1>1. x \in Nat /\ 10000 * x <= u
  BY BpsRoundsDown
<1>2. u <= c * 10000 /\ u \in Nat
  BY ProductsGrow
<1> HIDE DEF x, u
<1>3. x <= c
  BY <1>1, <1>2
<1> QED BY <1>3 DEF x

\* Rounding to dollars.
LEMMA DollarsGrow ==
    ASSUME NEW x \in Nat, NEW y \in Nat, x <= y
    PROVE  /\ floorToDollar(x) \in Nat /\ roundToNearestDollar(x) \in Nat
           /\ floorToDollar(x) <= x /\ floorToDollar(x) <= roundToNearestDollar(x)
           /\ floorToDollar(x) <= floorToDollar(y)
           /\ roundToNearestDollar(x) <= roundToNearestDollar(y)
BY DEF floorToDollar, roundToNearestDollar

\* What the rates of all ages have in common.
IsRate(r) == /\ r.employee \in Nat /\ r.employer \in Nat
             /\ 500 <= r.employee /\ r.employee + r.employer <= 10000

\* Rates, and the part of the ordinary account, fall with age.
LEMMA RatesFall ==
    ASSUME NEW a \in Int, NEW b \in Int, a <= b
    PROVE  /\ IsRate(cpfRateForAge(a))
           /\ cpfRateForAge(b).employee <= cpfRateForAge(a).employee
           /\ cpfRateForAge(b).employer <= cpfRateForAge(a).employer
BY DEF IsRate, cpfRateForAge

\* The accounts share at most the total, and the ordinary account less with
\* age.
LEMMA AllocationFalls ==
    ASSUME NEW a \in Int, NEW b \in Int, a <= b
    PROVE  /\ allocationForAge(a).oa \in Nat /\ allocationForAge(a).sa \in Nat
           /\ allocationForAge(a).oa + allocationForAge(a).sa <= 10000
           /\ allocationForAge(b).oa <= allocationForAge(a).oa
BY DEF allocationForAge

\* The employee's share is part of the total, and of the wage.
LEMMA SharesFit ==
    ASSUME NEW rate, IsRate(rate), NEW w \in Nat
    PROVE  /\ employeeShare(rate, w) \in Nat /\ totalShare(rate, w) \in Nat
           /\ employeeShare(rate, w) <= totalShare(rate, w)
           /\ employeeShare(rate, w) <= w
<1> DEFINE e == rate.employee
           r == rate.employer
           x == centsByBps(w, e)
           y == centsByBps(w, r)
           z == centsByBps(w, e + r)
           k == w - 50000
           t == centsByBps(k, 1500)
<1>1. e \in Nat /\ r \in Nat /\ e <= 10000
  BY DEF IsRate
<1>2. x \in Nat /\ y \in Nat /\ z \in Nat /\ x + y <= z /\ x <= w
  <2>1. e + r \in Nat
    BY <1>1
  <2> HIDE DEF e, r
  <2>2. x \in Nat /\ y \in Nat /\ z \in Nat
    <3>1. x \in Nat
      BY <1>1, BpsIsNat
    <3>2. y \in Nat
      BY <1>1, BpsIsNat
    <3>3. z \in Nat
      BY <2>1, BpsIsNat
    <3> QED BY <3>1, <3>2, <3>3
  <2>3. x + y <= z
    BY <1>1, BpsSplits
  <2>4. x <= w
    BY <1>1, BpsFits
  <2> QED BY <2>2, <2>3, <2>4
<1>3. w > 50000 => t \in Nat /\ t <= w
  <2>1. w > 50000 => k \in Nat /\ k <= w
    OBVIOUS
  <2> HIDE DEF k
  <2>2. ASSUME w > 50000 PROVE t \in Nat /\ t <= k
    <3>1. t \in Nat
      <4> DEFINE b == 1500
      <4>1. k \in Nat /\ b \in Nat
        BY <2>1, <2>2
      <4> HIDE DEF b
      <4>2. centsByBps(k, b) \in Nat
        BY <4>1, BpsIsNat
      <4> QED BY <4>2 DEF b
    <3>2. t <= k
      <4> DEFINE b == 1500
      <4>1. k \in Nat /\ b \in Nat /\ b <= 10000
        BY <2>1, <2>2
      <4> HIDE DEF b
      <4>2. centsByBps(k, b) <= k
        BY <4>1, BpsFits
      <4> QED BY <4>2 DEF b
    <3> QED BY <3>1, <3>2
  <2> QED BY <2>1, <2>2
<1>4. /\ employeeShare(rate, w) = IF w <= 50000 THEN 0 ELSE IF w <= 75000 THEN t ELSE x
      /\ totalShare(rate, w) = IF w <= 75000 THEN y + employeeShare(rate, w) ELSE z
  BY DEF employeeShare, totalShare
<1> HIDE DEF e, r, x, y, z, k, t
<1> QED BY <1>2, <1>3, <1>4

\* Shares grow with the wage, over the phase-in and past it.
LEMMA SharesGrow ==
    ASSUME NEW rate, IsRate(rate), NEW w \in Nat, NEW v \in Nat, w <= v
    PROVE  /\ employeeShare(rate, w) <= employeeShare(rate, v)
           /\ totalShare(rate, w) <= totalShare(rate, v)
<1> DEFINE e == rate.employee
           r == rate.employer
           x(a) == centsByBps(a, e)
           y(a) == centsByBps(a, r)
           z(a) == centsByBps(a, e + r)
           t(a) == centsByBps(a - 50000, 1500)
<1>1. e \in Nat /\ r \in Nat /\ 500 <= e
  BY DEF IsRate
<1>2. ASSUME NEW a \in {w, v}
      PROVE  /\ employeeShare(rate, a) = IF a <= 50000 THEN 0 ELSE IF a <= 75000 THEN t(a) ELSE x(a)
             /\ totalShare(rate, a) = IF a <= 75000 THEN y(a) + employeeShare(rate, a) ELSE z(a)
             /\ employeeShare(rate, a) \in Nat
  <2>1. a \in Nat
    OBVIOUS
  <2>2. employeeShare(rate, a) \in Nat
    BY <2>1, SharesFit
  <2>3. /\ employeeShare(rate, a) = IF a <= 50000 THEN 0 ELSE IF a <= 75000 THEN t(a) ELSE x(a)
        /\ totalShare(rate, a) = IF a <= 75000 THEN y(a) + employeeShare(rate, a) ELSE z(a)
    BY <2>1 DEF employeeShare, totalShare
  <2> QED BY <2>2, <2>3
<1>3. /\ x(w) \in Nat /\ x(v) \in Nat /\ y(w) \in Nat /\ y(v) \in Nat /\ z(w) \in Nat /\ z(v) \in Nat
      /\ x(w) <= x(v) /\ y(w) <= y(v) /\ z(w) <= z(v) /\ x(v) + y(v) <= z(v)
  <2>1. e + r \in Nat
    BY <1>1
  <2> HIDE DEF e, r
  <2>2. x(w) <= x(v)
    BY <1>1, BpsGrows
  <2>3. y(w) <= y(v)
    BY <1>1, BpsGrows
  <2>4. z(w) <= z(v)
    BY <2>1, BpsGrows
  <2>5. x(w) \in Nat /\ x(v) \in Nat /\ y(w) \in Nat /\ y(v) \in Nat
    BY <1>1, BpsIsNat
  <2>6. z(w) \in Nat /\ z(v) \in Nat
    BY <2>1, BpsIsNat
  <2>7. x(v) + y(v) <= z(v)
    BY <1>1, BpsSplits
  <2> HIDE DEF x, y, z
  <2> QED BY <2>2, <2>3, <2>4, <2>5, <2>6, <2>7
<1>4. /\ 50000 < w /\ v <= 75000 => t(w) <= t(v)
      /\ 50000 < w /\ w <= 75000 => t(w) \in Nat /\ t(w) <= 3750
      /\ v > 75000 => x(v) >= 3750
  <2>1. ASSUME 50000 < w, v <= 75000 PROVE t(w) <= t(v)
    <3> DEFINE a == w - 50000
               b == v - 50000
    <3>1. a \in Nat /\ b \in Nat /\ a <= b
      BY <2>1
    <3> HIDE DEF a, b
    <3>2. centsByBps(a, 1500) <= centsByBps(b, 1500)
      BY <3>1, BpsGrows
    <3> QED BY <3>2 DEF a, b
  <2>2. ASSUME 50000 < w, w <= 75000 PROVE t(w) \in Nat /\ t(w) <= 3750
    <3> DEFINE a == w - 50000
               s == centsByBps(a, 1500)
    <3>1. a \in Nat /\ a <= 25000
      BY <2>2
    <3> HIDE DEF a
    <3>2. s \in Nat /\ 10000 * s <= a * 1500
      BY <3>1, BpsRoundsDown
    <3> HIDE DEF s
    <3>3. s <= 3750
      BY <3>1, <3>2
    <3> QED BY <3>2, <3>3 DEF a, s
  <2>3. ASSUME v > 75000 PROVE x(v) >= 3750
    <3> DEFINE s == centsByBps(v, 500)
    <3>1. s \in Nat /\ v * 500 < 10000 * s + 10000
      BY BpsRoundsDown
    <3>2. s <= x(v)
      <4> HIDE DEF e
      <4> QED BY <1>1, BpsGrows
    <3> HIDE DEF s
    <3>3. s >= 3750
      BY <2>3, <3>1
    <3> HIDE DEF x
    <3> QED BY <1>3, <3>1, <3>2, <3>3
  <2> QED BY <2>1, <2>2, <2>3
<1> HIDE DEF x, y, z, t
<1>5. employeeShare(rate, w) <= employeeShare(rate, v)
  BY <1>2, <1>3, <1>4
<1>6. totalShare(rate, w) <= totalShare(rate, v)
  BY <1>2, <1>3, <1>4, <1>5
<1> QED BY <1>5, <1>6

\* Shares grow with the rates.
LEMMA SharesGrowWithRate ==
    ASSUME NEW p, IsRate(p), NEW q, IsRate(q), p.employee <= q.employee, p.employer <= q.employer,
           NEW w \in Nat
    PROVE  /\ employeeShare(p, w) <= employeeShare(q, w)
           /\ totalShare(p, w) <= totalShare(q, w)
<1>1. /\ p.employee \in Nat /\ q.employee \in Nat /\ p.employer \in Nat /\ q.employer \in Nat
      /\ p.employee + p.employer \in Nat /\ q.employee + q.employer \in Nat
      /\ p.employee + p.employer <= q.employee + q.employer
  BY DEF IsRate
<1> DEFINE x(r) == centsByBps(w, r.employee)
           y(r) == centsByBps(w, r.employer)
           z(r) == centsByBps(w, r.employee + r.employer)
           t == centsByBps(w - 50000, 1500)
<1>2. x(p) <= x(q)
  BY <1>1, BpsGrows
<1>3. y(p) <= y(q) /\ y(p) \in Nat /\ y(q) \in Nat
  <2>1. y(p) <= y(q)
    BY <1>1, BpsGrows
  <2>2. y(p) \in Nat /\ y(q) \in Nat
    BY <1>1, BpsIsNat, Zenon
  <2> QED BY <2>1, <2>2
<1>4. z(p) <= z(q)
  <2> DEFINE m == p.employee + p.employer
             n == q.employee + q.employer
  <2>1. m \in Nat /\ n \in Nat /\ m <= n
    BY <1>1
  <2> HIDE DEF m, n
  <2>2. centsByBps(w, m) <= centsByBps(w, n)
    BY <2>1, BpsGrows
  <2> QED BY <2>2 DEF m, n
<1>5. employeeShare(p, w) \in Nat /\ employeeShare(q, w) \in Nat
  BY SharesFit
<1>6. \A r \in {p, q} :
      /\ employeeShare(r, w) = IF w <= 50000 THEN 0 ELSE IF w <= 75000 THEN t ELSE x(r)
      /\ totalShare(r, w) = IF w <= 75000 THEN y(r) + employeeShare(r, w) ELSE z(r)
  BY DEF employeeShare, totalShare
<1> HIDE DEF x, y, z, t
<1>7. employeeShare(p, w) <= employeeShare(q, w)
  BY <1>2, <1>5, <1>6
<1> QED BY <1>3, <1>4, <1>5, <1>6, <1>7

\* The CPF contribution of an employee above the threshold.
Contribution(age, wage) ==
    LET rate == cpfRateForAge(age)
        w == Smaller(wage, OrdinaryWageCeiling) IN
    [employee |-> floorToDollar(employeeShare(rate, w)),
     total |-> roundToNearestDollar(totalShare(rate, w))]

\* The parts of a contribution add up, none is negative, and the employee's
\* part is within the wage.
LEMMA ContributionBalances ==
    ASSUME NEW age \in Int, NEW wage \in Nat
    PROVE  LET c == Contribution(age, wage)
               accounts == estimateCPFAllocation(age, c.total) IN
           /\ c.employee \in Nat /\ c.total \in Nat
           /\ c.employee <= c.total /\ c.employee <= wage
           /\ accounts.oa \in Nat /\ accounts.sa \in Nat /\ accounts.ma \in Nat
           /\ accounts.oa + accounts.sa + accounts.ma = c.total
<1> DEFINE rate == cpfRateForAge(age)
           w == Smaller(wage, OrdinaryWageCeiling)
           es == employeeShare(rate, w)
           ts == totalShare(rate, w)
           employee == floorToDollar(es)
           total == roundToNearestDollar(ts)
           accounts == estimateCPFAllocation(age, total)
<1>1. w \in Nat /\ w <= wage
  BY DEF Smaller, OrdinaryWageCeiling
<1>2. IsRate(rate)
  BY RatesFall
<1> HIDE DEF w, rate
<1>3. es \in Nat /\ ts \in Nat /\ es <= ts /\ es <= w
  BY <1>1, <1>2, SharesFit
<1> HIDE DEF es, ts
<1>4. employee \in Nat /\ employee <= es /\ employee <= roundToNearestDollar(es)
      /\ roundToNearestDollar(es) <= total
  BY <1>3, DollarsGrow
<1>5. total \in Nat /\ roundToNearestDollar(es) \in Nat
  BY <1>3, DollarsGrow
<1> HIDE DEF employee, total
<1>6. employee <= total /\ employee <= wage
  BY <1>1, <1>3, <1>4, <1>5
<1>7. /\ accounts.oa \in Nat /\ accounts.sa \in Nat /\ accounts.ma \in Nat
      /\ accounts.oa + accounts.sa + accounts.ma = total
  <2> DEFINE a == allocationForAge(age).oa
             b == allocationForAge(age).sa
             x == centsByBps(total, a)
             y == centsByBps(total, b)
  <2>1. a \in Nat /\ b \in Nat /\ a + b <= 10000
    BY AllocationFalls
  <2>2. accounts.oa = x /\ accounts.sa = y /\ accounts.ma = total - x - y
    BY DEF estimateCPFAllocation
  <2> HIDE DEF a, b
  <2>3. x \in Nat
    <3>1. total \in Nat /\ a \in Nat
      BY <1>5, <2>1
    <3> QED BY ONLY <3>1, BpsIsNat
  <2>4. y \in Nat
    <3>1. total \in Nat /\ b \in Nat
      BY <1>5, <2>1
    <3> QED BY ONLY <3>1, BpsIsNat
  <2>5. x + y <= total
    BY <1>5, <2>1, BpsSplits
  <2> HIDE DEF x, y
  <2> QED BY <1>5, <2>2, <2>3, <2>4, <2>5
<1>8. Contribution(age, wage).employee = employee /\ Contribution(age, wage).total = total
  BY DEF Contribution, employee, total, es, ts, w, rate
<1> HIDE DEF accounts
<1>9. /\ employee \in Nat /\ total \in Nat /\ employee <= total /\ employee <= wage
      /\ accounts.oa \in Nat /\ accounts.sa \in Nat /\ accounts.ma \in Nat
      /\ accounts.oa + accounts.sa + accounts.ma = total
  BY <1>4, <1>5, <1>6, <1>7
<1> QED BY <1>8, <1>9, Zenon DEF accounts

\* A contribution rises with the wage and falls with age, and so does the part
\* of the ordinary account.
LEMMA ContributionIsMonotone ==
    ASSUME NEW a \in Int, NEW b \in Int, a <= b, NEW w \in Nat, NEW v \in Nat, w <= v
    PROVE  /\ Contribution(b, w).employee <= Contribution(a, v).employee
           /\ Contribution(b, w).total <= Contribution(a, v).total
           /\ estimateCPFAllocation(b, Contribution(b, w).total).oa
                <= estimateCPFAllocation(a, Contribution(a, v).total).oa
<1> DEFINE r == cpfRateForAge(a)
           s == cpfRateForAge(b)
           x == Smaller(w, OrdinaryWageCeiling)
           y == Smaller(v, OrdinaryWageCeiling)
           e1 == employeeShare(s, x)
           e2 == employeeShare(s, y)
           e3 == employeeShare(r, y)
           t1 == totalShare(s, x)
           t2 == totalShare(s, y)
           t3 == totalShare(r, y)
<1>1. x \in Nat /\ y \in Nat /\ x <= y
  BY DEF Smaller, OrdinaryWageCeiling
<1>2. IsRate(r) /\ IsRate(s)
  BY RatesFall
<1>3. s.employee <= r.employee /\ s.employer <= r.employer
  BY RatesFall
<1> HIDE DEF r, s, x, y
<1>4. e1 \in Nat /\ e3 \in Nat /\ t1 \in Nat /\ t3 \in Nat /\ e2 \in Nat /\ t2 \in Nat
  BY <1>1, <1>2, SharesFit
<1>5. e1 <= e2 /\ t1 <= t2
  BY <1>1, <1>2, SharesGrow
<1>6. e2 <= e3 /\ t2 <= t3
  BY <1>1, <1>2, <1>3, SharesGrowWithRate
<1> HIDE DEF e1, e2, e3, t1, t2, t3
<1>7. e1 <= e3 /\ t1 <= t3
  BY <1>4, <1>5, <1>6
<1> DEFINE m == roundToNearestDollar(t1)
           n == roundToNearestDollar(t3)
<1>8. floorToDollar(e1) <= floorToDollar(e3)
  BY <1>4, <1>7, DollarsGrow
<1>9. m <= n /\ m \in Nat
  BY <1>4, <1>7, DollarsGrow
<1>10. n \in Nat
  BY <1>4, DollarsGrow
<1>11. /\ Contribution(b, w).employee = floorToDollar(e1) /\ Contribution(b, w).total = m
       /\ Contribution(a, v).employee = floorToDollar(e3) /\ Contribution(a, v).total = n
  BY DEF Contribution, e1, e3, t1, t3, x, y, r, s
<1> HIDE DEF m, n
<1>12. estimateCPFAllocation(b, m).oa <= estimateCPFAllocation(a, n).oa
  <2> DEFINE p == allocationForAge(b).oa
             q == allocationForAge(a).oa
  <2>1. p \in Nat
    BY AllocationFalls
  <2>2. q \in Nat /\ p <= q
    BY AllocationFalls
  <2>3. /\ estimateCPFAllocation(b, m).oa = centsByBps(m, p)
        /\ estimateCPFAllocation(a, n).oa = centsByBps(n, q)
    BY DEF estimateCPFAllocation
  <2> HIDE DEF p, q
  <2>4. centsByBps(m, p) <= centsByBps(n, q)
    BY <1>9, <1>10, <2>1, <2>2, BpsGrows
  <2> QED BY <2>3, <2>4
<1> QED BY <1>8, <1>9, <1>11, <1>12

\* What CalculateCPFContribution replies.
LEMMA CPFReply ==
    ASSUME NEW age \in Int, NEW wage \in Int, NEW status
    PROVE  LET c == CalculateCPFContribution(age, wage, status)
               d == Contribution(age, wage)
               accounts == estimateCPFAllocation(age, d.total) IN
           IF status # "full_time_employee" \/ wage <= 5000 THEN c = NoCPF
           ELSE /\ wage \in Nat
                /\ c.employee = d.employee /\ c.total = d.total
                /\ c.employer = Larger(d.total - d.employee, 0)
                /\ c.oa = accounts.oa /\ c.sa = accounts.sa /\ c.ma = accounts.ma
BY DEF CalculateCPFContribution, Contribution

\* The CPF calculator loses no cent.
LEMMA CPFIsBalanced ==
    ASSUME NEW age \in Int, NEW wage \in Int, NEW status
    PROVE  CPFBalances(wage, CalculateCPFContribution(age, wage, status))
<1> DEFINE c == CalculateCPFContribution(age, wage, status)
           d == Contribution(age, wage)
           accounts == estimateCPFAllocation(age, d.total)
<1>1. CASE status # "full_time_employee" \/ wage <= 5000
  <2>1. c = NoCPF
    BY <1>1, CPFReply
  <2> QED BY <2>1 DEF CPFBalances, NoCPF
<1>2. CASE ~(status # "full_time_employee" \/ wage <= 5000)
  <2>1. /\ wage \in Nat /\ c.employee = d.employee /\ c.total = d.total
        /\ c.employer = Larger(d.total - d.employee, 0)
        /\ c.oa = accounts.oa /\ c.sa = accounts.sa /\ c.ma = accounts.ma
    BY <1>2, CPFReply
  <2>2. /\ d.employee \in Nat /\ d.total \in Nat
        /\ d.employee <= d.total /\ d.employee <= wage
        /\ accounts.oa \in Nat /\ accounts.sa \in Nat /\ accounts.ma \in Nat
        /\ accounts.oa + accounts.sa + accounts.ma = d.total
    BY <2>1, ContributionBalances
  <2> HIDE DEF c, d, accounts
  <2>3. CPFBalances(wage, c)
    BY <2>1, <2>2 DEF CPFBalances, Larger
  <2> QED BY <2>3 DEF c
<1> QED BY <1>1, <1>2

\* A higher wage never means a lower contribution, and past the ceiling
\* nothing changes.
LEMMA CPFRises ==
    ASSUME NEW age \in Int, NEW w \in Int, NEW v \in Int, NEW status
    PROVE  LET c == CalculateCPFContribution(age, w, status)
               d == CalculateCPFContribution(age, v, status) IN
           /\ w <= v => c.employee <= d.employee /\ c.total <= d.total
           /\ w >= OrdinaryWageCeiling /\ v >= OrdinaryWageCeiling => c = d
<1> DEFINE c == CalculateCPFContribution(age, w, status)
           d == CalculateCPFContribution(age, v, status)
<1>1. ASSUME w <= v PROVE c.employee <= d.employee /\ c.total <= d.total
  <2>1. CASE status # "full_time_employee" \/ w <= 5000
    <3>1. c.employee = 0 /\ c.total = 0
      BY <2>1, CPFReply DEF NoCPF
    <3>2. CPFBalances(v, d)
      BY CPFIsBalanced
    <3>3. d.employee >= 0 /\ d.employer >= 0 /\ d.total = d.employee + d.employer
      BY <3>2 DEF CPFBalances
    <3>4. d.employee \in Int /\ d.employer \in Int
      BY CPFIsInt
    <3> HIDE DEF c, d
    <3> QED BY <3>1, <3>3, <3>4
  <2>2. CASE ~(status # "full_time_employee" \/ w <= 5000)
    <3>1. ~(status # "full_time_employee" \/ v <= 5000)
      BY <1>1, <2>2
    <3>2. w \in Nat /\ v \in Nat
      BY <2>2, <3>1
    <3>3. c.employee = Contribution(age, w).employee /\ c.total = Contribution(age, w).total
      BY <2>2, CPFReply
    <3>4. d.employee = Contribution(age, v).employee /\ d.total = Contribution(age, v).total
      BY <3>1, CPFReply
    <3>5. age <= age
      OBVIOUS
    <3>6. /\ Contribution(age, w).employee <= Contribution(age, v).employee
          /\ Contribution(age, w).total <= Contribution(age, v).total
      BY <1>1, <3>2, <3>5, ContributionIsMonotone
    <3> QED BY <3>3, <3>4, <3>6
  <2> QED BY <2>1, <2>2
<1>2. ASSUME w >= OrdinaryWageCeiling, v >= OrdinaryWageCeiling PROVE c = d
  <2>1. Smaller(w, OrdinaryWageCeiling) = Smaller(v, OrdinaryWageCeiling) /\ ~(w <= 5000) /\ ~(v <= 5000)
    BY <1>2 DEF Smaller, OrdinaryWageCeiling
  <2> QED BY <2>1 DEF CalculateCPFContribution
<1> QED BY <1>1, <1>2

\* An older employee never pays more, nor into the ordinary account.
LEMMA CPFFalls ==
    ASSUME NEW a \in Int, NEW b \in Int, a <= b, NEW w \in Int, NEW status
    PROVE  LET c == CalculateCPFContribution(b, w, status)
               d == CalculateCPFContribution(a, w, status) IN
           c.employee <= d.employee /\ c.oa <= d.oa
<1> DEFINE c == CalculateCPFContribution(b, w, status)
           d == CalculateCPFContribution(a, w, status)
<1>1. CASE status # "full_time_employee" \/ w <= 5000
  <2>1. c = NoCPF /\ d = NoCPF
    BY <1>1, CPFReply
  <2> QED BY <2>1 DEF NoCPF
<1>2. CASE ~(status # "full_time_employee" \/ w <= 5000)
  <2>1. /\ w \in Nat /\ c.employee = Contribution(b, w).employee
        /\ c.oa = estimateCPFAllocation(b, Contribution(b, w).total).oa
    BY <1>2, CPFReply
  <2>2. /\ d.employee = Contribution(a, w).employee
        /\ d.oa = estimateCPFAllocation(a, Contribution(a, w).total).oa
    BY <1>2, CPFReply
  <2>3. w <= w
    OBVIOUS
  <2> QED BY <2>1, <2>2, <2>3, ContributionIsMonotone
<1> QED BY <1>1, <1>2

\* The grants of the chart fall from bracket to bracket.
LEMMA ChartFalls ==
    \A i, j \in 1 .. 16 : i <= j =>
        GrantBrackets[j][2] <= GrantBrackets[i][2] /\ GrantBrackets[i][2] >= 0
BY DEF GrantBrackets

\* More income never means a larger grant.
LEMMA GrantFalls ==
    ASSUME NEW low \in Int, NEW high \in Int, low <= high
    PROVE  bracketGrant(high) <= bracketGrant(low)
<1> DEFINE Fits(n) == \E i \in DOMAIN GrantBrackets : n <= GrantBrackets[i][1]
<1>1. ASSUME NEW n \in Int, ~Fits(n)  PROVE bracketGrant(n) = 0
  BY <1>1 DEF bracketGrant
<1>2. CASE Fits(high)
  <2>1. PICK h \in 1 .. 16 : /\ high <= GrantBrackets[h][1]
                            /\ bracketGrant(high) = GrantBrackets[h][2]
    BY <1>2, FirstBracket
  <2>2. low <= GrantBrackets[h][1] /\ h \in DOMAIN GrantBrackets
    BY <2>1, Chart
  <2>3. PICK l \in 1 .. 16 : /\ \A j \in 1 .. 16 : low <= GrantBrackets[j][1] => l <= j
                            /\ bracketGrant(low) = GrantBrackets[l][2]
    BY <2>2, FirstBracket
  <2>4. l <= h
    BY <2>2, <2>3
  <2> QED BY <2>1, <2>3, <2>4, ChartFalls
<1>3. CASE ~Fits(high) /\ Fits(low)
  <2>1. PICK l \in 1 .. 16 : bracketGrant(low) = GrantBrackets[l][2]
    BY <1>3, FirstBracket
  <2>2. bracketGrant(low) >= 0
    BY <2>1, ChartFalls
  <2>3. bracketGrant(high) = 0
    BY <1>1, <1>3
  <2> QED BY <2>2, <2>3
<1>4. CASE ~Fits(high) /\ ~Fits(low)
  <2>1. bracketGrant(high) = 0 /\ bracketGrant(low) = 0
    BY <1>1, <1>4
  <2> QED BY <2>1
<1> QED BY <1>2, <1>3, <1>4

\* Division with remainder.
LEMMA Divides ==
    ASSUME NEW c \in Int, NEW t \in Nat, t > 0
    PROVE  /\ c \div t \in Int /\ c % t \in Nat /\ c % t < t
           /\ c = (c \div t) * t + (c % t)
<1> DEFINE q == c \div t
           m == c % t
           p == q * t
<1>1. q \in Int /\ m \in Nat /\ m < t
  OBVIOUS
<1>2. ASSUME NEW x, x = q, NEW y, y = m, NEW z \in Int, z = x * t  PROVE c = z + y
  BY <1>2
<1>3. p \in Int
  BY <1>1
<1>4. c = p + m
  BY <1>2, <1>3, Zenon
<1> QED BY <1>1, <1>4, Zenon

\* The long division gives the ratio, rounded down.
LEMMA RatioRoundsDown ==
    ASSUME NEW c \in Int, NEW t \in Nat, t > 0
    PROVE  LET x == ratioInBps(c, t) IN
           x \in Int /\ x * t <= 10000 * c /\ 10000 * c < (x + 1) * t
<1> DEFINE q == c \div t
           m == c % t
           h == m * 100
           r == h \div t
           n == h % t
           k == n * 100
           s == k \div t
           u == k % t
           x == ratioInBps(c, t)
<1>1. q \in Int /\ m \in Nat /\ c = q * t + m
  BY Divides
<1>2. x = q * 10000 + r * 100 + s
  BY DEF ratioInBps
<1> HIDE DEF q, m, x
<1>3. h \in Int
  BY <1>1
<1> HIDE DEF h
<1>4. r \in Int /\ n \in Nat /\ h = r * t + n
  BY <1>3, Divides
<1> HIDE DEF r, n
<1>5. k \in Int
  BY <1>4
<1> HIDE DEF k
<1>6. s \in Int /\ u \in Nat /\ u < t /\ k = s * t + u
  BY <1>5, Divides
<1> HIDE DEF s, u
<1>7. x \in Int
  BY <1>1, <1>2, <1>4, <1>6
<1> DEFINE A == q * t
           B == r * t
           C == s * t
           X == x * t
<1>8. A \in Int /\ B \in Int /\ C \in Int /\ X \in Int
  BY <1>1, <1>4, <1>6, <1>7
<1>9. X = 10000 * A + 100 * B + C
  <2>1. (q * 10000) * t = 10000 * (q * t)
    BY <1>1
  <2>2. (r * 100) * t = 100 * (r * t)
    BY <1>4
  <2> DEFINE f == q * 10000
             g == r * 100
  <2>3. f \in Int /\ g \in Int
    BY <1>1, <1>4
  <2> HIDE DEF f, g
  <2>4. (f + g + s) * t = f * t + g * t + s * t
    BY <1>6, <2>3
  <2> QED BY <1>2, <2>1, <2>2, <2>4 DEF f, g
<1>10. (x + 1) * t = X + t
  BY <1>7
<1> HIDE DEF A, B, C, X
<1>11. c = A + m /\ h = B + n /\ k = C + u
  BY <1>1, <1>4, <1>6 DEF A, B, C
<1>12. h = m * 100 /\ k = n * 100
  BY DEF h, k
<1>13. 10000 * c = X + u
  BY <1>1, <1>4, <1>6, <1>8, <1>9, <1>11, <1>12
<1>14. x \in Int /\ X <= 10000 * c /\ 10000 * c < (x + 1) * t
  BY <1>6, <1>7, <1>8, <1>10, <1>13
<1> QED BY <1>14 DEF x, X

\* The ratio of a cost falls as the income rises; that of no cost is in the
\* first band.
LEMMA RatioFalls ==
    ASSUME NEW c \in Int, NEW t \in Nat, NEW v \in Nat, 0 < t, t <= v
    PROVE  \/ ratioInBps(c, v) <= ratioInBps(c, t)
           \/ ratioInBps(c, v) <= 0
<1> DEFINE x == ratioInBps(c, t)
           y == ratioInBps(c, v)
           z == x + 1
<1>1. x \in Int /\ 10000 * c < (x + 1) * t
  BY RatioRoundsDown
<1>2. y \in Int /\ y * v <= 10000 * c
  BY RatioRoundsDown
<1> HIDE DEF x, y
<1>3. SUFFICES ASSUME y > x, y > 0  PROVE FALSE
  <2>1. y <= x \/ y <= 0
    BY <1>1, <1>2, <1>3
  <2> QED BY <2>1 DEF x, y
<1>4. z \in Int /\ z <= y /\ y \in Nat
  BY <1>1, <1>2, <1>3
<1>5. 10000 * c < z * t
  BY <1>1
<1> HIDE DEF z
<1>6. CASE z <= 0
  <2>1. z * t <= 0 /\ z * t \in Int
    BY <1>4, <1>6
  <2>2. y * v >= 0 /\ y * v \in Int
    BY <1>4
  <2> QED BY <1>2, <1>5, <2>1, <2>2
<1>7. CASE z > 0
  <2>1. z \in Nat
    BY <1>4, <1>7
  <2>2. z * t <= z * v /\ z * t \in Nat /\ z * v \in Nat
    BY <2>1, ProductsGrow
  <2>3. v * z <= v * y /\ v * z = z * v /\ v * y \in Nat
    BY <1>4, <2>1, ProductsGrow
  <2>4. v * y = y * v
    BY <1>4
  <2> QED BY <1>2, <1>5, <2>2, <2>3, <2>4
<1> QED BY <1>4, <1>6, <1>7

\* A household with more money is never rated worse.
LEMMA RatingImproves ==
    ASSUME NEW c \in Int, NEW t \in Int, NEW s \in Int, NEW v \in Int, NEW r \in Int,
           t <= v, s <= r
    PROVE  Rank[affordabilityRating(c, v, r)] <= Rank[affordabilityRating(c, t, s)]
<1> DEFINE x == ratioInBps(c, t)
           y == ratioInBps(c, v)
<1>1. ASSUME NEW n, NEW m
      PROVE  affordabilityRating(c, n, m)
               \in {"comfortable", "manageable", "tight", "risky", "not_recommended"}
             \/ ~(ratioInBps(c, n) \in Int)
  BY DEF affordabilityRating
<1>2. CASE t <= 0 \/ s < 0
  <2>1. affordabilityRating(c, t, s) = "not_recommended"
    BY <1>2 DEF affordabilityRating
  <2>2. affordabilityRating(c, v, r)
          \in {"comfortable", "manageable", "tight", "risky", "not_recommended"}
    <3>1. CASE v <= 0
      BY <3>1 DEF affordabilityRating
    <3>2. CASE ~(v <= 0)
      <4>1. v \in Nat /\ v > 0
        BY <3>2
      <4>2. y \in Int
        BY <4>1, RatioRoundsDown
      <4> QED BY <1>1, <4>2
    <3> QED BY <3>1, <3>2
  <2> QED BY <2>1, <2>2 DEF Rank
<1>3. CASE ~(t <= 0 \/ s < 0)
  <2>1. t \in Nat /\ v \in Nat /\ t > 0 /\ v > 0 /\ ~(v <= 0 \/ r < 0)
    BY <1>3
  <2>2. x \in Int
    BY <2>1, RatioRoundsDown
  <2>3. y \in Int
    BY <2>1, RatioRoundsDown
  <2>4. y <= x \/ y <= 0
    BY <2>1, RatioFalls
  <2> DEFINE band(n) == IF n <= 2500 THEN "comfortable" ELSE
                        IF n <= 3500 THEN "manageable" ELSE
                        IF n <= 4500 THEN "tight" ELSE
                        IF n <= 5500 THEN "risky" ELSE "not_recommended"
  <2>5. affordabilityRating(c, t, s) = band(x)
    BY <1>3, <2>2 DEF affordabilityRating
  <2>6. affordabilityRating(c, v, r) = band(y)
    BY <2>1, <2>3 DEF affordabilityRating
  <2> HIDE DEF x, y
  <2>7. Rank[band(y)] <= Rank[band(x)]
    BY <2>2, <2>3, <2>4 DEF Rank
  <2> HIDE DEF band
  <2> QED BY <2>5, <2>6, <2>7
<1> QED BY <1>2, <1>3

\* An affordability reply splits its amounts without loss.
LEMMA AffordabilityIsBalanced ==
    ASSUME NEW o, HasAmounts(o, HomeAmounts), NEW assets, HasAmounts(assets, AssetAmounts),
           NEW a \in CalculateHousingAffordability(o, assets)
    PROVE  AffordabilityBalances(o, assets, a)
<1> DEFINE net == Larger(o.price - o.grant, 0)
           downpayment == centsByBps(net, o.dpBps)
           initial == initialDownpaymentCents(o, downpayment)
           upfront == downpayment + o.legal + o.stampDuty
           loan == estimatedLoan(o, net, downpayment)
           cpfUsed == Smaller(assets.oa, downpayment)
           topUp == Larger(upfront - cpfUsed, 0)
<1>1. /\ a.downpayment = downpayment /\ a.initial = initial
      /\ a.final = Larger(downpayment - initial, 0) /\ a.upfront = upfront /\ a.loan = loan
      /\ a.cpfUsed = cpfUsed /\ a.topUp = topUp
      /\ a.remainingCash = assets.cash - topUp /\ a.remainingOA = assets.oa - cpfUsed
  BY DEF CalculateHousingAffordability
<1>2. /\ o.price \in Int /\ o.grant \in Int /\ o.dpBps \in Int /\ o.legal \in Int
      /\ o.stampDuty \in Int /\ o.loanAmount \in Int
  BY DEF HasAmounts, HomeAmounts
<1>3. assets.cash \in Int /\ assets.oa \in Int
  BY DEF HasAmounts, AssetAmounts
<1>4. net \in Nat /\ net >= o.price - o.grant
  BY <1>2 DEF Larger
<1>5. downpayment \in Int
  <2> HIDE DEF net
  <2>1. net \in Int
    BY <1>4
  <2> QED BY <1>2, <2>1, BpsIsInt
<1>6. initial \in Nat /\ initial <= Larger(downpayment, 0)
  <2> DEFINE bps == IF IsDeferredHousingOption(o) THEN 250 ELSE 500
             price == Larger(o.price, 0)
             share == centsByBps(price, bps)
  <2>1. price \in Nat /\ bps \in Nat
    BY <1>2 DEF Larger
  <2> HIDE DEF downpayment
  <2>2. initial = IF downpayment <= 0 THEN 0
                  ELSE IF o.loanType = "cash" \/ share <= 0 THEN downpayment
                  ELSE Smaller(share, downpayment)
    <3>1. share \in Int
      <4> HIDE DEF price, bps
      <4> QED BY <2>1, BpsIsInt
    <3> QED BY <1>5, <3>1 DEF initialDownpaymentCents
  <2> HIDE DEF price, bps
  <2>3. share \in Nat
    BY <2>1, BpsIsNat
  <2> HIDE DEF share, initial
  <2> QED BY <1>5, <2>2, <2>3 DEF Smaller, Larger
<1> HIDE DEF net, downpayment, initial
<1>7. upfront \in Int /\ (o.legal + o.stampDuty >= 0 => upfront >= downpayment)
  BY <1>2, <1>5
<1>8. cpfUsed \in Int /\ cpfUsed <= assets.oa /\ cpfUsed <= downpayment
  BY <1>3, <1>5 DEF Smaller
<1>9. o.loanAmount <= 0 => loan \in Int /\ loan + downpayment >= net
  BY <1>2, <1>4, <1>5 DEF estimatedLoan, Larger
<1> HIDE DEF upfront, cpfUsed, loan
<1>10. /\ topUp \in Int /\ topUp >= upfront - cpfUsed
       /\ o.legal + o.stampDuty >= 0 => topUp = upfront - cpfUsed
  BY <1>5, <1>7, <1>8 DEF Larger
<1>11. initial + Larger(downpayment - initial, 0) = Larger(downpayment, 0)
  BY <1>5, <1>6 DEF Larger
<1> HIDE DEF topUp
<1>12. /\ a.initial + a.final = Larger(a.downpayment, 0)
       /\ a.initial >= 0 /\ a.final >= 0
  BY <1>1, <1>5, <1>6, <1>11 DEF Larger
<1>13. /\ a.cpfUsed + a.topUp >= a.upfront /\ a.remainingOA >= 0
       /\ o.legal + o.stampDuty >= 0 => a.cpfUsed + a.topUp = a.upfront
       /\ a.remainingCash + a.remainingOA + a.cpfUsed + a.topUp = assets.cash + assets.oa
  BY <1>1, <1>3, <1>7, <1>8, <1>10
<1>14. o.loanAmount <= 0 => o.grant + a.loan + a.downpayment >= o.price
  BY <1>1, <1>2, <1>4, <1>5, <1>9
<1> QED BY <1>12, <1>13, <1>14 DEF AffordabilityBalances

\* A household's totals balance, and an empty one has nothing to assess.
LEMMA HouseholdIsBalanced ==
    ASSUME NEW h, IsHousehold(h)
    PROVE  HouseholdBalances(h, CalculateHouseholdIncomeSummary(h))
<1> DEFINE s == CalculateHouseholdIncomeSummary(h)
<1>1. /\ s.current \in Int /\ s.takeHome \in Int /\ s.employee \in Int
      /\ s.expenses \in Int /\ s.surplus \in Int
      /\ s.current = s.employee + s.takeHome
      /\ s.takeHome = s.expenses + s.surplus
      /\ DOMAIN h = {} => s.current = 0
  BY HouseholdAddsUp
<1>2. s.surplus = SumOver(h, LAMBDA p : CalculateIncomeBreakdown(p).surplus)
  BY DEF CalculateHouseholdIncomeSummary, SumOver
<1>3. DOMAIN h = {} => ~s.deferred
  BY DEF CalculateHouseholdIncomeSummary
<1>4. IncomeBalances(s)
  <2> HIDE DEF s
  <2> QED BY <1>1 DEF IncomeBalances
<1> QED BY <1>1, <1>2, <1>3, <1>4, Zenon DEF HouseholdBalances

\* The call being answered, with what the calculation replies to it.
CallInv ==
    /\ call.kind = "cpf" =>
         /\ call.age \in Ages /\ call.wage \in Wages
         /\ call.reply = CalculateCPFContribution(call.age, call.wage, call.status)
    /\ call.kind = "income" =>
         call.person \in People /\ call.reply = CalculateIncomeBreakdown(call.person)
    /\ call.kind = "household" =>
         /\ IsHousehold(call.household)
         /\ call.reply = CalculateHouseholdIncomeSummary(call.household)
    /\ call.kind = "affordability" =>
         /\ call.option \in Options /\ call.assets \in Assets
         /\ call.reply \in CalculateHousingAffordability(call.option, call.assets)

\* Every handler replies with its calculation.
LEMMA CallStep == CallInv /\ [CalculatorNext]_call => CallInv'
<1> SUFFICES ASSUME CallInv, [CalculatorNext]_call  PROVE CallInv'
  OBVIOUS
<1>1. CASE UNCHANGED call
  BY <1>1 DEF CallInv
<1>2. CASE Answered
  <2>1. call'.kind = "none"
    BY <1>2 DEF Answered, NoCall
  <2> QED BY <2>1 DEF CallInv
<1>3. ASSUME Refused  PROVE CallInv'
  <2>1. call'.kind = "refused"
    BY <1>3 DEF Refused
  <2> QED BY <2>1 DEF CallInv
<1>4. ASSUME NEW age \in Ages, NEW wage \in Wages, NEW status \in Statuses,
             CPFContribution(age, wage, status)
      PROVE  CallInv'
  <2>1. /\ call'.kind = "cpf" /\ call'.age = age /\ call'.wage = wage /\ call'.status = status
        /\ call'.reply = CalculateCPFContribution(age, wage, status)
    BY <1>4 DEF CPFContribution
  <2> QED BY <2>1 DEF CallInv
<1>5. ASSUME NEW person \in People, IncomeBreakdown(person)  PROVE CallInv'
  <2>1. CASE Refused
    BY <1>3, <2>1
  <2>2. CASE ~Refused
    <3>1. /\ call'.kind = "income" /\ call'.person = person
          /\ call'.reply = CalculateIncomeBreakdown(person)
      BY <1>5, <2>2 DEF IncomeBreakdown
    <3> QED BY <3>1 DEF CallInv
  <2> QED BY <2>1, <2>2
<1>6. ASSUME NEW names \in SUBSET Members, NEW household \in [names -> People],
             HouseholdIncomeSummary(household)
      PROVE  CallInv'
  <2>1. CASE Refused
    BY <1>3, <2>1
  <2>2. CASE ~Refused
    <3>1. /\ call'.kind = "household" /\ call'.household = household
          /\ call'.reply = CalculateHouseholdIncomeSummary(household)
      BY <1>6, <2>2 DEF HouseholdIncomeSummary
    <3>2. IsFiniteSet(names)
      BY FinanceAssumption, FS_Subset
    <3>3. IsHousehold(household)
      BY <3>2, FinanceAssumption DEF IsHousehold
    <3> QED BY <3>1, <3>3 DEF CallInv
  <2> QED BY <2>1, <2>2
<1>7. ASSUME NEW o \in Options, NEW assets \in Assets, HousingAffordability(o, assets)
      PROVE  CallInv'
  <2>1. CASE Refused
    BY <1>3, <2>1
  <2>2. CASE ~Refused
    <3>1. PICK a \in CalculateHousingAffordability(o, assets) :
            call' = [kind |-> "affordability", option |-> o, assets |-> assets, reply |-> a]
      BY <1>7, <2>2 DEF HousingAffordability
    <3>2. /\ call'.kind = "affordability" /\ call'.option = o /\ call'.assets = assets
          /\ call'.reply \in CalculateHousingAffordability(o, assets)
      BY <3>1
    <3> QED BY <3>2 DEF CallInv
  <2> QED BY <2>1, <2>2
<1> QED BY <1>1, <1>2, <1>4, <1>5, <1>6, <1>7 DEF CalculatorNext, Calculate

\* What a calculator replies is what its calculation gives for the request.
LEMMA CallsAreAnswered == CalculatorSpec => []CallInv
<1>1. CalculatorInit => CallInv
  <2>1. CalculatorInit => call.kind = "none"
    BY DEF CalculatorInit, NoCall
  <2> QED BY <2>1 DEF CallInv
<1> QED BY <1>1, CallStep, PTL DEF CalculatorSpec

\* cpf.go:22-57, income.go:52-71, housing.go:34-69: whatever the amounts, of
\* whichever sign, the calculators lose no cent.
THEOREM NoCentIsLost == CalculatorSpec => []NoCentLost
<1>1. CallInv => NoCentLost
  <2> SUFFICES ASSUME CallInv PROVE NoCentLost
    OBVIOUS
  <2>1. ASSUME call.kind = "cpf"  PROVE CPFBalances(call.wage, call.reply)
    <3>1. /\ call.age \in Int /\ call.wage \in Int
          /\ call.reply = CalculateCPFContribution(call.age, call.wage, call.status)
      BY <2>1, FinanceAssumption DEF CallInv
    <3> QED BY <3>1, CPFIsBalanced
  <2>2. ASSUME call.kind = "income"  PROVE IncomeBalances(call.reply)
    <3> DEFINE b == CalculateIncomeBreakdown(call.person)
    <3>1. HasAmounts(call.person, PersonAmounts) /\ call.reply = b
      BY <2>2, FinanceAssumption DEF CallInv
    <3>2. /\ b.current \in Int /\ b.employee \in Int /\ b.takeHome \in Int
          /\ b.expenses \in Int /\ b.surplus \in Int
          /\ b.current = b.employee + b.takeHome /\ b.takeHome = b.expenses + b.surplus
      BY <3>1, BreakdownAddsUp
    <3> HIDE DEF b
    <3> QED BY <3>1, <3>2 DEF IncomeBalances
  <2>3. ASSUME call.kind = "household"  PROVE HouseholdBalances(call.household, call.reply)
    BY <2>3, HouseholdIsBalanced DEF CallInv
  <2>4. ASSUME call.kind = "affordability"
        PROVE  AffordabilityBalances(call.option, call.assets, call.reply)
    <3>1. /\ HasAmounts(call.option, HomeAmounts) /\ HasAmounts(call.assets, AssetAmounts)
          /\ call.reply \in CalculateHousingAffordability(call.option, call.assets)
      BY <2>4, FinanceAssumption DEF CallInv
    <3> QED BY <3>1, AffordabilityIsBalanced
  <2> QED BY <2>1, <2>2, <2>3, <2>4 DEF NoCentLost
<1> QED BY <1>1, CallsAreAnswered, PTL

\* cpf.go:28-89, housing.go:106-124, housing_grant.go:30-71: no band is out of
\* line with its neighbours, for every wage, age and income, not only on the
\* edges.
THEOREM BandsAreInLine == CalculatorSpec => []BandsAreMonotone
<1>1. CallInv => BandsAreMonotone
  <2> SUFFICES ASSUME CallInv PROVE BandsAreMonotone
    OBVIOUS
  <2>1. ASSUME call.kind = "cpf"
        PROVE  /\ CPFRisesWithWage(call.age, call.wage, call.status, call.reply)
               /\ CPFFallsWithAge(call.age, call.wage, call.status, call.reply)
    <3>1. /\ call.age \in Int /\ call.wage \in Int
          /\ call.reply = CalculateCPFContribution(call.age, call.wage, call.status)
          /\ Ages \subseteq Int /\ Wages \subseteq Int
      BY <2>1, FinanceAssumption DEF CallInv
    <3>2. CPFRisesWithWage(call.age, call.wage, call.status, call.reply)
      BY <3>1, CPFRises DEF CPFRisesWithWage
    <3>3. CPFFallsWithAge(call.age, call.wage, call.status, call.reply)
      BY <3>1, CPFFalls DEF CPFFallsWithAge
    <3> QED BY <3>2, <3>3
  <2>2. ASSUME call.kind = "household"  PROVE GrantFallsWithIncome(call.reply.current)
    <3> DEFINE current == call.reply.current
               edges == UNION {{GrantBrackets[i][1] - 1, GrantBrackets[i][1], GrantBrackets[i][1] + 1} :
                                 i \in DOMAIN GrantBrackets}
    <3>1. current \in Int
      BY <2>2, HouseholdAddsUp DEF CallInv
    <3>2. edges \subseteq Int
      BY Chart
    <3> HIDE DEF edges, current
    <3>3. ASSUME NEW type \in HousingType, NEW low \in edges \cup {-1, 0, current},
                 NEW high \in edges \cup {-1, 0, current}, low <= high
          PROVE  EstimateHousingGrantAmountFromGrossMonthlyIncome(type, high).grant
                   <= EstimateHousingGrantAmountFromGrossMonthlyIncome(type, low).grant
      <4>1. low \in Int /\ high \in Int
        BY <3>1, <3>2
      <4> DEFINE l == Larger(low, 0)
                 h == Larger(high, 0)
      <4>2. l \in Int /\ h \in Int /\ l <= h
        BY <3>3, <4>1 DEF Larger
      <4> HIDE DEF l, h
      <4>3. bracketGrant(h) <= bracketGrant(l)
        BY <4>2, GrantFalls
      <4>4. /\ EstimateHousingGrantAmountFromGrossMonthlyIncome(type, high).grant
                 = IF isHousingGrantEligibleType(type) THEN bracketGrant(h) ELSE 0
            /\ EstimateHousingGrantAmountFromGrossMonthlyIncome(type, low).grant
                 = IF isHousingGrantEligibleType(type) THEN bracketGrant(l) ELSE 0
        BY DEF EstimateHousingGrantAmountFromGrossMonthlyIncome, l, h
      <4> QED BY <4>3, <4>4
    <3> QED BY <3>3, Zenon DEF GrantFallsWithIncome, edges, current
  <2>3. ASSUME call.kind = "affordability"  PROVE RatingFollowsMoney(call.assets, call.reply)
    <3> DEFINE a == call.reply
               assets == call.assets
    <3>1. /\ HasAmounts(call.option, HomeAmounts) /\ HasAmounts(assets, AssetAmounts)
          /\ a \in CalculateHousingAffordability(call.option, assets)
      BY <2>3, FinanceAssumption DEF CallInv
    <3> HIDE DEF a, assets
    <3>2. /\ a.surplus < 0 => a.rating = "not_recommended"
          /\ a.rating = affordabilityRating(a.cost, assets.takeHome, a.surplus)
          /\ a.surplus = assets.takeHome - assets.expenses - a.cost
          /\ a.cost \in Int /\ a.surplus \in Int
      BY <3>1, LineAddsUp
    <3>3. assets.takeHome \in Int /\ assets.expenses \in Int
      BY <3>1 DEF HasAmounts, AssetAmounts
    <3>4. ASSUME NEW richer \in Assets, richer.takeHome >= assets.takeHome,
                 richer.expenses <= assets.expenses
          PROVE  Rank[affordabilityRating(a.cost, richer.takeHome,
                        richer.takeHome - richer.expenses - a.cost)] <= Rank[a.rating]
      <4> DEFINE r == richer.takeHome - richer.expenses - a.cost
      <4>1. richer.takeHome \in Int /\ richer.expenses \in Int
        BY FinanceAssumption DEF HasAmounts, AssetAmounts
      <4>2. r \in Int /\ a.surplus <= r /\ assets.takeHome <= richer.takeHome
        BY <3>2, <3>3, <3>4, <4>1
      <4> HIDE DEF r
      <4>3. Rank[affordabilityRating(a.cost, richer.takeHome, r)]
              <= Rank[affordabilityRating(a.cost, assets.takeHome, a.surplus)]
        BY <3>2, <3>3, <4>1, <4>2, RatingImproves
      <4> QED BY <3>2, <4>3 DEF r
    <3>5. RatingFollowsMoney(assets, a)
      BY <3>2, <3>4 DEF RatingFollowsMoney
    <3> QED BY <3>5 DEF a, assets
  <2> QED BY <2>1, <2>2, <2>3 DEF BandsAreMonotone
<1> QED BY <1>1, CallsAreAnswered, PTL

=============================================================================
