\* A guild over its life: one user who joins, leaves, logs in and out, three
\* tasks for events and refresh commands, one message.
SPECIFICATION Spec
CONSTANTS
  u1 = u1  b1 = b1
  vr = vr  wr = wr  lr = lr  kr = kr
  s1 = s1  s2 = s2
  t1 = t1  t2 = t2  t3 = t3
  Users = {u1, b1}
  Bots = {b1}
  UserOrder <- MCOrder
  PageSize = 1
  Movers = {u1}
  Roles = {vr, wr, lr, kr}
  NoRole = NoRole
  VerifiedRoles = {wr}
  Deletable = {vr}
  MaxStarted = 3
  Domains = {"school"}
  NoDomain = NoDomain
  Names = {"a"}
  Ids = {1, 2, 3}
  Logins = {s1, s2}
  LoginOf <- MCLoginOf
  Logouts = {"o1"}
  LogoutOf <- MCLogoutOf
  Tasks = {t1, t2, t3}
  Posts = {"p1"}
  InitialGuild <- MCGuild
  InitialLevels <- MCLevels
  InitialClasses <- MCClasses
  InitialGroups = {}
  InitialMembers <- MCMembers
SYMMETRY Alike
INVARIANTS
  TypeOK
  PresentUsersAreKnown
  KnownUsersArePresent
  RefreshLoadsEverybody
  VerifiedMembersKeepRoles
PROPERTIES
  ConfigurationIsKept
  OfferedLoginsAreSetUp
  ImplementsAccountLink
\* When every task of the instance was used, the bot waits.
CHECK_DEADLOCK FALSE
