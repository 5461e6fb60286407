CONSTANTS
  Unlimited = Unlimited
  NoTtl = NoTtl
  Others = TRUE
  StreamCap = 7
  Configs <- MCConfigs
SPECIFICATION MCSpec
INVARIANTS
  NothingForgotten Converges NothingLeftBehind AnswersAreOwn LengthsExact
  EndpointsAgree
PROPERTIES
  ImplementsStream DeadlineStops EvictionSafe EvictionPays IdleForTtl
  ServerReturns
