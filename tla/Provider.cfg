CONSTANTS
  Clients = {"a", "b"}
  Limit = 1
  Hour = 3
  MaxRetries = 2
  MaxWait = 2
  ThrottlePct = 80

  \* Six requests are what a quota probe and a walk of two leagues need.
  OurSports = {"basketball", "soccer"}
  Leagues = {"nba", "epl"}
  ListedSlugs = {"nba", "nba-playoffs", "epl"}
  SportOf <- MCSportOf
  LeagueOf <- MCLeagueOf
  Base <- MCBase
  ListOrder <- MCListOrder
  Seasons <- MCSeasons
  Requests = 6
  ThrottleAt = 80
  Walkers = {"worker"}
  WalkFaults = {"operator"}

  Bases = {"a", "b", "c"}
  Phases = {"playoffs"}
  NoPhase = "none"
  Sports = {"x", "y"}
  Ids = {"A", "B", "A1", "C1"}
  Derive <- MCDerive
  Mangle <- MCMangle
  Shipped <- MCShipped
  ShippedSport <- MCShippedSport
  Listings <- MCListings

  \* One slot of the worker, two writers: with two slots, see WebhookLostWakeup.
  Rows = {"r1", "r2"}
  Writers = {"w1", "w2"}
  Workers = {"k"}
  Operators = {}
  BatchSize = 2
  MaxAttempts = 2
  Faults = {}
  None = None
SPECIFICATION ProviderSpec
CHECK_DEADLOCK FALSE
INVARIANTS OneLeaguePerSlug WakeupCovered
PROPERTIES ExchangeSpec TogglesStick EveryLeagueWalked IdsStick EveryRowAttempted
