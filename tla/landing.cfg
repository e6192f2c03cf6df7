SPECIFICATION FairSpec
CONSTANTS MaxHead = 2
          MaxUpdates = 2
          CiTimeout = 1
          Settle = 1
          MaxCrashes = 1
          MaxActs = 2
          Configs <- MCConfigs
INVARIANTS SettledMerge UpdateBudget
PROPERTIES KeepsPromise Decides
CHECK_DEADLOCK FALSE
