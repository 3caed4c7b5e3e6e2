SPECIFICATION FairSpec
CONSTANTS
 QueueSize = 1
 UrgentSize = 1
 HaltAttempts = 3
 RetryCap = 3
 Alerts <- MCAlerts
 Symbols = {a, b}
 Refresh = 2
 MaxAge = 3
 Timeout = 2
 MaxConcurrent = 1
 MaxRequests = 2
 RetrainEvery = 3
 Window = 4
 Votes <- MCVotes
 Callers = {c, d}
 Reach <- MCReach
 TTL = 1
 Cooldown = 2
 MaxRetries = 1
 Intervals = 2
 Horizon = 3
 Feeds <- MCFeeds
 Capacity = 2
 MaxFill = 3
 Rates = {0, 1}
 MaxTime = 5
 MaxChanges = 2
 Prices <- MCPrices
 Scenes <- MCScenes
 MaxScenes = 4
 Venues <- MCVenues
 Day = 8
 Hours = 40
 MetaTTL = 4
 Learners = {"resolver", "pass"}
 Meets <- MCMeets
 MaxEdits = 2
INVARIANTS OperatorIsTold LearnedIsRight PricesHold
PROPERTIES QueuedHaltIsTried ExpiredIsAskedAgain SubscribedGetsTicks
CHECK_DEADLOCK FALSE
