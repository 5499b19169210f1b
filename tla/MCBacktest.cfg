SPECIFICATION FairSpec
CONSTANTS
    w1 = w1
    None = None
    Workers <- OneWorker
    Verifies = 2
    Supposed = {1}
    Limit = 1
    Recent = 1
    MaxVersions = 2
    MaxTurns = 1
INVARIANT EachTornIsAClash
PROPERTIES OnlyUsersChangeVerdicts EveryVersionJudged TallySettles
