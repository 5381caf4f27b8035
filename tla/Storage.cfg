SPECIFICATION Spec
CONSTANTS
 FileName = {"f","F","g","a long name"}
 DosName <- MCDosName
 Refused = "refused"
 LastCluster = 5
 Straddling = {3}
 RootSectors = 1
 Entries = 2
 SectorSize = 3
 Byte = {0,1,2}
 Lengths = {1,4}
 Garbage = {0,63}
 Modulus = 64
 MaxCalls = 6
 MaxCrashes = 1
 TmpName = {"f","d"}
 Blocks = 6
 BlockSize = 2
 Records = 4
 TmpByte = {1,2}
 TmpLengths = {1,3}
 TmpMaxCalls = 6
 Caller = {"p","q"}
 Lba = {0,1,2}
 SectorsPerTrack = 1
 SeekTries = 2
 TransferTries = 2
 Written = {7}
 FilesOf <- MCFilesOf
 FloppyDevice = "a"
 Registered = {"a","t"}
 VfsMaxCalls = 3
 RegionSize = 4
 Typed = {"x"}
 Filed = {"a", "b", "c", "d", "e", "f", "g"}
 Texts <- MCTexts
 MaxKeys = 6
INVARIANTS
 StorageTypeOK FatChains FatLeaks FatReadsBack TmpBlocksOwned TmpFilesKept
 FloppyDelivers FdsKept TextKept
PROPERTY FloppyReturns
CHECK_DEADLOCK FALSE
