SPECIFICATION MCSpec
CONSTANTS
    Persons = {p1, p2}
    Homes = {h1}
    PersonForms <- MCPersonForms
    HomeForms <- MCHomeForms
    Reqs = {r1}
    NoRow = NoRow
    m1 = m1
    m2 = m2
    Ages <- MCAges
    Wages <- MCWages
    Statuses <- MCStatuses
    People <- MCPeople
    Members = {m1, m2}
    Options <- MCOptions
    Assets <- MCAssets
INVARIANTS
    NoCentLost
    BandsAreMonotone
    DeferredHasNoGrant
    EchoChangesNothing
PROPERTY
    DashboardSound
