SPECIFICATION Spec
CONSTANTS
  i1 = i1
  r1 = r1
  r2 = r2
  blank = blank
  garbled = garbled
  Blank = blank
  Garbled = garbled
  None = None
  NoKey = NoKey
  NoRow = NoRow
  Free = Free
  Down = Down
  NoStatus = ""
  Active = "ACTIVE"
  Ids <- OneId
  Requests <- TwoRequests
  Columns <- NameAndEmail
  Optional <- JustEmail
  Sanitised <- NameAndEmail
  Texts <- SomeTexts
  Typed <- TypedTexts
  Valid <- ValidTexts
  Clean <- Bluemonday
  Folded <- TrimmedLower
  Statuses <- TwoStatuses
  Secrets <- SomeSecrets
  Length <- SecretLength
  Head <- SecretHead
  IndexKeys <- TwoIndexKeys
SYMMETRY Symmetry
INVARIANTS TypeOK FoundAsShown ReadableWhileSameKey LastWriteStored DeletedOnce
