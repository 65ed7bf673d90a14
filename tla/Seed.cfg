CONSTANTS
  OurSports = {"basketball", "soccer"}
  Leagues = {"nba", "epl"}
  ListedSlugs = {"nba", "nba-playoffs", "epl"}
  SportOf <- MCSportOf
  LeagueOf <- MCLeagueOf
  Base <- MCBase
  ListOrder <- MCListOrder
  Seasons <- MCSeasons
  Requests = 6
  ThrottleAt = 80
  Walkers = {"worker"}
  WalkFaults = {"operator"}
  None = None
SPECIFICATION WalkSpec
CHECK_DEADLOCK FALSE
PROPERTY NewLeaguesComeOn
