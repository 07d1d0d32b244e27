\* Two logins of one member race each other, a logout and admins who delete roles.
SPECIFICATION FairSpec
CONSTANTS
  u1 = u1  u2 = u2
  vr = vr  lr1 = lr1  lr2 = lr2  kr1 = kr1  kr2 = kr2  gr = gr
  Users = {u1}
  Roles = {vr, lr1, lr2, kr1, kr2}
  NoRole = NoRole
  Domains = {"school", "other"}
  NoDomain = NoDomain
  Names = {"a", "b"}
  Ids = {1, 2}
  Logins = {"s1", "s2"}
  LoginOf <- LoginOf1
  Logouts = {"o1"}
  LogoutOf <- LogoutOf1
  Presses = {}
  PressOf <- PressOf1
  MenuGroups = {}
  InitialGuild <- MCGuild
  InitialLevels <- MCLevels
  InitialClasses <- MCClasses
  InitialGroups = {}
  InitialMembers <- MCMembers
  Deletable = {vr, lr1, kr1}
INVARIANTS
  TypeOK
  OnlyProvenUsers
  VerifiedMembersWereGranted
  RolesWithoutRowAreExcused
  LinkedOnceAtATime
PROPERTIES
  ImplementsAccountLink
  ForgetsOnlyDeletedRoles
  HandlersEnd
\* When every handler has ended, the bot waits for the next press.
CHECK_DEADLOCK FALSE
