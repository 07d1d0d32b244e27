\* One login of a guild with two levels.
SPECIFICATION Spec
CONSTANTS
  u1 = u1  u2 = u2
  vr = vr  lr1 = lr1  lr2 = lr2  kr1 = kr1  kr2 = kr2  gr = gr
  Users = {u1}
  Roles = {vr, lr1, lr2, kr1, kr2}
  NoRole = NoRole
  Domains = {"school", "other"}
  NoDomain = NoDomain
  Names = {"a", "b"}
  Ids = {1, 2}
  Logins = {"s1"}
  LoginOf <- LoginOf1
  Logouts = {}
  LogoutOf <- LogoutOf1
  Presses = {}
  PressOf <- PressOf1
  MenuGroups = {}
  InitialGuild <- MCGuild
  InitialLevels <- MCLevels
  InitialClasses <- MCClasses
  InitialGroups = {}
  InitialMembers <- MCMembers
  Deletable = {}
INVARIANTS
  ClassIsOfChosenLevel
\* When every handler has ended, the bot waits for the next press.
CHECK_DEADLOCK FALSE
