SPECIFICATION Spec
CONSTANTS
  Freed = Freed
  Users <- AdminUsers
  Emails <- TwoEmails
  Perms <- AdminPerms
  Actors <- AdminActors
  Changes <- AdminChanges
  Requests <- TwoRequests
  MaxTokens = 0
  Ops <- AdminOps
  InitRows <- SmallTable
INVARIANTS TypeOK SuperAdminsAreAppointed SerialUnlessStale
PROPERTIES ImplementsRules
