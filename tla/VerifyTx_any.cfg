SPECIFICATION FairSpec
CONSTANTS
  Hosts <- TheHosts
  Under <- TheSubdomains
  Koios <- TheKoios
  Blockfrost <- TheBlockfrost
  ArGateways <- TheArGateways
  Records <- TheRecords
  Inputs <- TheInputs
  HonestHosts <- TheHonest
  Threshold = 2
  MaxHops = 3
  MaxHeight = 3
INVARIANTS
  IInv ProvidersCannotCondemn ValidMeansChecked
  OneHonestProviderIsEnough OneHonestGatewayIsEnough
  RefusalIsReported
PROPERTY Reports
CHECK_DEADLOCK FALSE
