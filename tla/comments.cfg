SPECIFICATION Spec
CONSTANTS
  n1 = n1  n2 = n2
  Notes = {n1, n2}
  Ledgers <- MCLedgers
  Files = 3  Retries = 1  Reopens = 1  Reloops = 2
  Configs <- MCConfigs
INVARIANTS CodeKept ReviewBlocks TwoDeadCalls
