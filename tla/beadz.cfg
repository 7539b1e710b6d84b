SPECIFICATION WatchSpec
CONSTANTS
  Contract = contract
  NoOne = noone
  Treasury = treasury
  FirstKeeper = chief
  Users = {treasury, chief}
  AIRDROP_BEADS = 1
  GENESIS_BEADS = 3
  UNIT = 2
  DRIP_INTERVAL = 2
  DRIP_CAP = 2
  WINDOW = 2
  MAX_EXTENSION = 2
  GENESIS_TIME = 4
  Recounts = {2}
  MaxNow = 10
  MaxDeadline = 9
INVARIANTS TypeOK DripNeverOutrunsClock ViewAgreesWithGate NetDrawBounded LedgerBalanced BurstBounded
PROPERTIES ClaimTakesOneBead FaucetIsTokenBucket SupplyRatchet RenewalOnlyWidens FrozenIsFinal
CHECK_DEADLOCK FALSE
