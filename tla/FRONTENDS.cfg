\* The wizards with every fault and restart; the commands with failed calls and a
\* crash; the scripts, interrupted anywhere; names or a payment request of two
\* users; the send page in one tab with every trouble, and in two tabs without.
SPECIFICATION Frontends
CONSTANTS
  None = None
  Kinds = {"DCA", "GRID", "MM"}
  Offered = {"nonkyc", "nestex"}
  Symbols = {"BNB", "USDT"}
  Quotes = {1, 2}
  Minimum <- Minima
  OwnMinimum <- OwnMinima
  DefaultMinimum = 1
  MmMinimum <- MinimaOfMm
  Disabled = {"dextrade"}
  FundsChecked = {"nonkyc"}
  Modes = {"BNB", "USDT"}
  ModeMarket <- ModeConfig
  Items = {"m", "v", "d", "g", "h"}
  Strategy <- AllStrategies
  ExchangeOf <- AllExchanges
  Menu <- BothExchanges
  MaxUnread = 2
  MaxFaults = 1
  MaxCrashes = 1
  Versions = {"good", "bad"}
  Faulty = {"bad"}
  Units = {"wallet", "pepew"}
  Main = "wallet"
  SmokeSet = TRUE
  EnvFiles = {"etc", "shared"}
  Seconds = 2
  Users = {"u", "v"}
  Usernames = {}
  Addresses = {"a", "b"}
  Bills = {"q"}
  Ttl = 0
  MaxTime = 1
  Nobody = None
  NoName = None
  NoAddress = None
  Tabs = {"l", "r"}
  Jobs = {1, 2}
  Coins = {1, 2}
  Deposits <- Equal
  Forms <- FeeDeducted
  Dust = 0
  MaxInputs = 2
  Retries = 0
  Troubles = {}
INVARIANTS
  SavedIsSound
  StopIsHeard
  LastWordWins
  CompleteIsTrue
  OneDefault
  OneSendPerTab
PROPERTIES
  SecretsStayPrivate
  DoubleTapIsHarmless
  RollbackUndoes
  ClaimsAreFinal
  AvoidsSpent
