SPECIFICATION Spec
CONSTANTS
    a1 = a1  a2 = a2  r1 = r1  r2 = r2  c1 = c1  c2 = c2
    Askers = {a1, a2}
    Requests = {r1, r2}
    Calls = {c1, c2}
    Safe = {}
    Keyed = {c2}
    MaxAsks = 3
SYMMETRY Symmetry
INVARIANT TypeOK
INVARIANT EffectsHappenOnce
INVARIANT TranscriptAgreesWithRows
INVARIANT NoStepTwice
INVARIANT AnswersFollowTheirRequest
PROPERTY LosersAreOvertaken
CHECK_DEADLOCK FALSE
