SPECIFICATION Spec
CONSTANTS
  MAX_FD = 6
  script = script
  File <- MCFile
  FileSize <- MCFileSize
  Missing = Missing
  NULL = NULL
  ReadCount <- MCReadCount
  Dup2New <- MCDup2New
  Unheld <- MCUnheld
INVARIANTS TypeOK SlotAccounting OffsetWithinFile FreeSlotsClean
PROPERTY AbstractSpec
