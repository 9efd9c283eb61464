SPECIFICATION Spec
CONSTANTS
    Calls = {p1, p2}
    Lengths = {1}
    MaxWriters = 1
    MaxResumes = 0
    LastTick = 1
INVARIANT
    AnswersWhenStill
