\* A member with two logouts and two choices in the groups menu in flight,
\* beside a user the bot has no row for.
SPECIFICATION Spec
CONSTANTS
  u1 = u1  u2 = u2
  vr = vr  lr1 = lr1  lr2 = lr2  kr1 = kr1  kr2 = kr2  gr = gr
  Users = {u1, u2}
  Roles = {vr, lr1, lr2, kr1, kr2, gr}
  NoRole = NoRole
  Domains = {"school", "other"}
  NoDomain = NoDomain
  Names = {"a", "b"}
  Ids = {1, 2}
  Logins = {"s1", "s2"}
  LoginOf <- LoginOf2
  Logouts = {"o1", "o2"}
  LogoutOf <- LogoutOf1
  Presses = {"g1", "g2"}
  PressOf <- PressOf1
  MenuGroups = {1, 2}
  InitialGuild <- MCGuild
  InitialLevels <- MCLevels
  InitialClasses <- MCClasses
  InitialGroups <- MCGroups
  InitialMembers <- MCMembers
  Deletable = {}
INVARIANTS
  RolesWithoutRowAreExcused
  PressesAddUp
\* When every handler has ended, the bot waits for the next press.
CHECK_DEADLOCK FALSE
