SPECIFICATION Spec
CONSTANTS
  Freed = Freed
  Users <- AccountUsers
  Emails <- TwoEmails
  Perms <- AccountPerms
  Actors <- AccountActors
  Changes <- AccountChanges
  Requests <- TwoRequests
  MaxTokens = 1
  Ops <- AccountOps
  InitRows <- SmallTable
INVARIANTS TempFlagMatchesPassword SerialUnlessStale
PROPERTIES ImplementsRules
