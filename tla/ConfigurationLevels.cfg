\* Two commands in a guild that has one level and may have two.
SPECIFICATION Spec
CONSTANTS
  vr = vr  lr = lr  kr = kr  n1 = n1  n2 = n2
  c1 = c1  c2 = c2  c3 = c3
  Users = {"u"}
  Roles = {vr, lr, kr, n1, n2}
  OldRoles = {vr, lr, kr}
  NoRole = NoRole
  Domains = {"school"}
  NoDomain = NoDomain
  Names = {"a", "b", "c"}
  Ids = {1, 2, 3, 4}
  Commands = {c1, c2}
  MaxClasses = 2
  MaxLevels = 2
  InitialGuild <- MCGuild
  InitialLevels <- MCLevels
  InitialClasses <- MCClasses
  InitialGroups <- MCGroups
  InitialMembers <- MCMembers
  InitialVerified <- MCVerified
  InitialGroupOf = {}
  InitialLastId <- MCLastId
  Deletable = {kr}
INVARIANTS
  LevelsWithinLimit
\* When every command has ended, the bot waits for the next one.
CHECK_DEADLOCK FALSE
