SPECIFICATION DataSpec
CONSTANTS
  K = 3
  Width = 2
  Lanes = {l1, l2}
  MaxSources = 2
  Orphans = FALSE
  Letters = {"LF", "CR", ":", "e", "d", "i"}
  MaxLine = 2
  MaxEvent = 3
  MaxChunk = 3
  MaxStream = 7
  CHUNK_SIZE = 2
  TAG_SIZE = 1
  COMMITMENT_LENGTH = 1
  MAX_COUNTER = 2
  MaxPlain = 7
  MaxPiece = 4
  MaxFaults = 1
  Keys = {a, b}
  Unsound = {b}
  Ephemerals = {e1, e2}
  LowOrder = LowOrder
  c1 = c1
  c2 = c2
  c3 = c3
  ZeroCek = ZeroCek
  n1 = n1
  n2 = n2
  h1 = h1
  h2 = h2
  NoClaim = NoClaim
  NoHashes <- NoClaim
  Ceks <- MCCeks
  Nonces <- MCNonces
  Hashes <- MCHashes
  MacClass <- MCMacClass
  Drawn <- MCDrawn
  SlotBytes <- MCSlotBytes
  OverheadBytes = 1
  PwNonces <- MCNonces
  PwHashes <- MCHashes
  NoPwHashes <- NoClaim
  PwMaxChanges = 1
  Decomposition <- MCDecomposition
  Ccc <- MCCcc
  Composition <- MCComposition
  Assigned <- MCAssigned
  Passphrases <- MCPassphrases
  Params <- MCParams
  Salts <- MCSalts
  Transactions <- MCTransactions
  MAX_DECODED_ENVELOPE_BYTES = 8
  MaxRecipients = 2
  MaxChanges = 1
  WhiteSpace = {32, 12288}
  MAX_PASSPHRASE_INPUT_BYTES = 8
  PARAM_MAX = 4
  ARGON2_M_MIN = 2
  ARGON2_T_MIN = 1
  ARGON2_P_MIN = 1
  SALT_MIN_BYTES = 2
  SALT_MAX_BYTES = 3
  MAX_TREE_SIZE = 8
  TRANSPORT_CHUNK_MAX_BYTES = 2
  SignKeys = {"k1", "k2"}
  Bodies = {"b1", "b2"}
  SigNetworks = {"mainnet", "preprod"}
  MaxSteps = 1
  ExtensionKeys = {"x-a"}
  Supported = {"x-a"}
  MAX_SLOTS = 3
  MAX_ENVELOPE_BYTES = 2400
  UINT32_MAX = 40
  MaxEdits = 2
INVARIANTS
  SlicesReadTheirRanges FramesSurviveCutting CiphertextsOpenAsSealed
  EnvelopesOpenForTheirRecipients HeadersAreBound
  PassphrasesOpenTheirOwn SpellingsAgree
  MerkleProofsAreSound CarriedRecordsAreWhole ClockIsTheCalendar
  SignaturesSpeakForTheirRecords AcceptedRecordsOpen
  ProducedRecordsValidate QuoteCoversRecord
CHECK_DEADLOCK FALSE
