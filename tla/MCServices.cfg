SPECIFICATION ServicesSpec
CONSTANTS
    Short = 2
    Long = 4
    Year = 5
    MinCloses = 6
    Histories <- MCHistories
    Atm = 32
    Width = 8
    Points = 9
    Entries <- MCEntries
    SharePrices <- MCSharePrices
    Spots <- MCSpots
    Outcomes <- MCOutcomes
    Tapes <- MCTapes
    Start = 2
    End = 6
    Dtes = {0, 2, 3}
    VolLookback = 2
    Capital = 1000
    Costs = {0, 3}
    TimeValue <- MCTimeValue
    e1 = e1
    e2 = e2
    s1 = s1
    s2 = s2
    m1 = m1
    m2 = m2
    m3 = m3
    Earlier = Earlier
    None = None
    Requests = {r1, r2}
    Connections = {c1, c2}
    Identities <- MCIdentities
    MaxFaults = 1
    Jobs = {j1}
    Readers = {r1, r2}
    DefaultDays = 1
    MaxDay = 2
    DayHours = 2
    MaxHour = 3
    Runs = {j1}
    Lookback = 2
    MaxAge = 2
    MaxTime = 5
    Limit = 2
    Wire <- MCWire
    Editions <- MCEditions
    Reindexes = {j1, j2}
    Limits = {1, 2}
INVARIANTS
    AnalysisMatchesPayoff
    ChancesMatchPayoff
    TagsHonest
    RankingFits
    EquityAddsUp
    NoLookAhead
    OneTenantPerIdentity
    TenantsIsolated
    CompletionsKept
    AnswersFit
    ChainFits
    
    AcademyFits
PROPERTY
    RequestsEnd
CHECK_DEADLOCK FALSE
