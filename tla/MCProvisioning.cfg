SPECIFICATION FairSpec
CONSTANTS
  Files <- MCFiles
  Config = "config"
  Shards <- MCShards
  Changed <- MCChanged
  Created <- MCCreated
  Marker = "qwen3_dflash2"
  ShimTarget = "topk_topp_sampler"
  MaxTries = 3
  MaxStarts = 3
INVARIANTS
  ProvisionTypeOK
  FirstAttemptIsHonest
  MarkerVouchesForShim
PROPERTIES
  CachedRestartIsReadOnly
  ProvisioningEnds
CHECK_DEADLOCK FALSE
