\* Two servers judge the edges of a graph.
SPECIFICATION CalibrationSpec
CONSTANTS
    g1 = g1
    g2 = g2
    Agent = {g1, g2}
    AtRoot = {g1}
    s1 = s1
    s2 = s2
    Store = {s1, s2}
    Home <- MC_Home
    Claim <- MC_Claim
    Held <- MC_Held
    ClaimLabel <- MC_ClaimLabel
    Sensitive = {11}
    Vocabulary = {"owns", "targets"}
    GoldSeed <- MC_GoldSeed
    NoLabel = NoLabel
    Unweighted = Unweighted
    Weights = {Unweighted, 30, 80}
    Ruling <- MC_Ruling
    Guess <- MC_Guess
    DEFAULT_THRESHOLD = 55
    MIN_EXAMPLES_PER_TYPE = 2
    MIN_HAND_LABELED_PER_TYPE = 10
    MIN_HAND_LABELED_TOTAL = 50
    GROUNDING_EXAMPLES = 5
    MaxTurns = 4
INVARIANT SuggestionsAreAnswered
CHECK_DEADLOCK FALSE
