SPECIFICATION Spec
CONSTANTS
  Users <- TwoUsers
  Roles <- ThreeRoles
  Perms <- TwoPerms
  RolePerms <- DirectorsRead
  InitRole <- OneBoss
  Moves <- BossDemoted
  Switchable <- JustRead
  Slots <- OneSlot
  Readers <- OneRequest
  Writers <- OneRequest
INVARIANTS TypeOK Rooted CalculatedFairly
PROPERTIES TakenAwayInTheEnd
