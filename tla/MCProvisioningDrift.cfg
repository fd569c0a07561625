SPECIFICATION Spec
CONSTANTS
  Files <- MCFiles
  Config = "config"
  Shards <- MCShards
  Changed <- MCChanged
  Created <- MCCreated
  Marker = "qwen3_dflash2"
  ShimTarget = "topk_topp_sampler"
  MaxTries = 3
  MaxStarts = 2
INVARIANTS
  DriftedImageIsRefused
CHECK_DEADLOCK FALSE
