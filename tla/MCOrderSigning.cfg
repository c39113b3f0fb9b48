\* Two wallets, one of which owns the Predict account; up to two builders.
CONSTANTS
  w1 = w1
  w2 = w2
  p1 = p1
  Wallets = {w1, w2}
  Accounts = {p1}
  Nobody = Nobody
  Chains = {56, 97}
  Markets = {"ctf", "negRisk"}
  Builders <- SomeBuilders
  Inputs <- SomeInputs
  Params <- SomeParams
  Decimals = 2
  TicksPerSecond = 2
  MarketLife = 2
  FarFuture = 99
  MaxClock = 2
  MaxBuilders = 2
  NoOrder = NoOrder
  NoTypedData = NoTypedData
  NoSignedOrder = NoSignedOrder
  NoParams = NoParams
  NoSalt = NoSalt
  NoExponent = NoExponent
  FloatBits = 14
  Unit = 100
  MinQuantity = 1
  PriceDigits = 1
  QuantityDigits = 2
SPECIFICATION Spec
INVARIANTS
  TypeOK
  SignatureStands
  Cancellable
  MakerSigns
  NotBornExpired
  SessionOfTheMaker
  PaysAtMostAsWritten
