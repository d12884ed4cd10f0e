SPECIFICATION EvaluationSpec
CONSTANTS
    f1 = f1
    Families = {f1}
    Criteria = {c1, c2}
    Homes = {h1, h2}
    HomeFamily <- MCHomeFamily
    Answers <- MCAnswers
    NoAnswer = NoAnswer
    WeightForms <- MCWeights
    NoWeight = NoWeight
    NoRating = NoRating
    Reqs = {r1}
    None = None
INVARIANT
    SummaryIsSound
PROPERTY
    UntouchedAnswersShown
SYMMETRY Interchangeable
