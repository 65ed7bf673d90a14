CONSTANTS
  None = None
  \* SettlementPasses
  Markets <- MCMarkets
  Scores <- MCScores
  MaxRounds = 2
  \* TeamDirectory
  Names = {"C", "D", "N"}
  ProviderKeys = {"k", "m"}
  Feeds <- MCFeeds
  Registries <- MCRegistries
  Overlap = FALSE
  \* MarketWriter
  Payloads <- MCPayloads
  Forms = {"short", "padded"}
  Writers = {"v", "w"}
  MaxWrites = 2
  \* BetLedger
  Bettors = {"u"}
  Bets = {"b"}
  Types = {"home", "draw", "other"}
  Codes = {1, 3, None}
  Bodies <- MCBodies
  Sessions = {TRUE, FALSE}
  \* ReenqueueBatch
  Events = {"e1", "e2"}
  Deliveries = {"d1", "d2", "d3"}
  EventOf <- MCEventOf
  \* TenantKeys
  Users = {"u", "service"}
  Keys = {1, 2, 3, 4}
  Callers = {"c1", "c2"}
  Tiers = {"PRO"}
  UserStatuses = {"active"}
  Service = "service"
  \* PriceBoard
  Books = {"x", "y"}
  Rows <- MCRows
  Model <- MCModel
  Whole = 24
  Threshold = 2
  \* LeagueTables
  Teams = {1, 2, 3, 4}
  Games = {1, 2, 3, 4, 5}
  Home <- MCHome
  Away <- MCAway
  Kickoff <- MCKickoff
  Results <- MCResults
  Expected <- MCExpected
  K = 10
SPECIFICATION ComponentsSpec
CHECK_DEADLOCK FALSE
INVARIANTS Definitive SidesFitTogether SourcesAgree
INVARIANTS OneRowPerTeam RegistryRerun
INVARIANTS StatementsAccepted HistoryEndsWithPrice WholeMarkets
INVARIANTS SummaryAddsUp TablesAgree HistoryAgrees
INVARIANTS CleanReportIsTrue RotationRevokes PricePagesAgree
PROPERTIES NeverDowngraded LogoArrives
