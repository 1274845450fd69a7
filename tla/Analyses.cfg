SPECIFICATION AnalysesSpec
CONSTANTS
    x1 = x1
    x2 = x2
    p1 = p1
    p2 = p2
    Target <- MC_Target
    Table = {"data", "items"}
    CsvTable = "data"
    Spelling = {"data", "Data", "items"}
    FoldCase <- MC_FoldCase
    Layout <- MC_Layout
    RowCount <- MC_RowCount
    Limits = {0, 3, 500}
    NoTable = NoTable
    NoTarget = NoTarget
    QUERY_ROW_CAP = 200
    PREVIEW_ROW_CAP = 50
    EXPLORE_ROWS = 5
    PROFILE_SAMPLE_ROW_LIMIT = 50
    PROFILE_SAMPLE_COLUMN_LIMIT = 1
    MaxDrifts = 1
    MaxChanges = 2
    MaxWrites = 2
    Item = {1, 2, 3, 4}
    Link <- MC_Link
    Group <- MC_Group
    Question <- MC_Question
    Search <- MC_Search
    Wish <- MC_Wish
    Kinship <- MC_Kinship
    Sparse = {2}
    Sections <- MC_Sections
    MAX_ANCHORS = 2
    DEPTH_MAX = 2
    ROUTE_MEMBER_LIMIT = 25
    MAX_PAYLOAD = 12
    SENTINEL = 2
    MIN_SHARED_TOKENS = 2
    Verdict = {"none", "confirmed", "invalidated"}
    Standing = {"proposed", "archived"}
    MaxDeleted = 1
    Edge = {1, 2, 3}
    Label = {1, 2}
    EdgeBytes <- MC_EdgeBytes
    Quality <- MC_Quality
    NoWeight = NoWeight
    Filter <- MC_Filter
    PageSize = {0, 1, 4}
    Entry = {1, 2, 3}
    DEFAULT_EDGE_SNAPSHOT_LIMIT = 2
    MAX_EDGE_SNAPSHOT_LIMIT = 3
    LARGE_GRAPH_EDGE_THRESHOLD = 2
    MAX_SNAPSHOT_PAYLOAD_BYTES = 5
    DEFAULT_LIST_LIMIT = 2
    MAX_LIST_LIMIT = 3
    MaxEdits = 1
    Writer = {p1, p2}
    Thing = {1, 2, 3, 4, 5}
    Draft <- MC_Draft
    Lineage <- MC_Lineage
    StartNodes <- MC_StartNodes
    Window <- MC_Window
    TypeWeight <- MC_TypeWeight
    Hollow = {5}
    Keep = Keep
    NoThing = NoThing
    KPI_DOSSIER_NODE_BUDGET = 4
    TOP_N = 2
    MaxDays = 1
    MaxCalls = 3
    g1 = g1
    g2 = g2
    Agent = {g1, g2}
    AtRoot = {g1}
    s1 = s1
    s2 = s2
    Store = {s1, s2}
    Home <- MC_Home
    Claim <- MC_Claim
    Held <- MC_Held
    ClaimLabel <- MC_ClaimLabel
    Sensitive = {11}
    Vocabulary = {"owns", "targets"}
    GoldSeed <- MC_GoldSeed
    NoLabel = NoLabel
    Unweighted = Unweighted
    Weights = {Unweighted, 30}
    Ruling <- MC_Ruling
    Guess <- MC_Guess
    DEFAULT_THRESHOLD = 55
    MIN_EXAMPLES_PER_TYPE = 2
    MIN_HAND_LABELED_PER_TYPE = 10
    MIN_HAND_LABELED_TOTAL = 50
    GROUNDING_EXAMPLES = 5
    MaxTurns = 4
    f1 = f1
    t1 = t1
    t2 = t2
    Card = {1, 2}
    Wording = {t1, t2}
    Embedder = {p1, p2}
    Filler = {f1}
    NoCard = NoCard
    NoVector = NoVector
    MaxWordings = 3
    MaxSlips = 1
SYMMETRY Writers
INVARIANTS
    ExplorationIsTruthful
    RetrievalIsFaithful
    PagesAreWhole
    DossierIsSound
    CalibrationIsSound
    VectorsAreExplained
CHECK_DEADLOCK FALSE
