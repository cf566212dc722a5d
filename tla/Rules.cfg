SPECIFICATION Spec
CONSTANTS
  Models <- MCModels
  Attachments <- MCAttachments
  Texts = {9}
  Balances = {0, 20, 400}
  Wishes = {NoWish, 2}
  NoWish = NoWish
  Unit = 10
  MarginNum = 23
  MarginDen = 20
  MinCharge = 1
  DefaultMax = 6
  MaxOutput = 8
  DefaultThinking = 3
  MaxThinking = 4
  MinAnswer = 3
  MaxAttachments = 2
  MaxBytes = 40
  MaxPages = 3
  PictureTokens = 3
  PageTokens = 2
  PdfTokens = 3
  BytesPerToken = 8
  MaxQueries = 2
  QueryPrice = 3
  IMAGE_SIZES <- MCSizes
  DefaultSize = 2
  LegacyImageTokens = 12
  DayLength = 2
  Starts <- Spring
  TIERS <- MCTiers
  Tiles = {10, 20}
  TokuPerUsd = 100
  MaxQuantity = 2
  Bundle = "com.tokumai.app"
  OtherBundle = "com.example.other"
  AllowSandbox = FALSE
  Period = 5
  MaxCharges = 3
  MaxDay = 10
  People = {p1, p2}
  Kinds <- MCKinds
  ENOUGH = 2
  COVER_KEEP = 3
  REMEMBER = 2
  InParallel = FALSE
  CoverLasts = 4
  MaxRequests = 4
INVARIANTS ChargeInBounds MonthsTile WorthWhatWasPaid StandsAmongEnough
CHECK_DEADLOCK FALSE
