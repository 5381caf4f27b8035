SPECIFICATION TmpSpec
CONSTANTS
 TmpName = {"f","d"}
 Blocks = 6
 BlockSize = 2
 Records = 4
 TmpByte = {1}
 TmpLengths = {1,3}
 TmpMaxCalls = 7
INVARIANTS TmpIdsUnique
CHECK_DEADLOCK FALSE
