SPECIFICATION Spec
CONSTANTS
  Freed = Freed
  Users <- AdminUsers
  Emails <- TwoEmails
  Perms <- AdminPerms
  Actors <- AdminActors
  Changes <- RoleAndEmail
  Requests <- OneRequest
  MaxTokens = 0
  Ops <- JustUpdate
  InitRows <- SmallTable
PROPERTIES MixedUpdatesStored
