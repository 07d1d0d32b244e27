-------------------------------- MODULE MCBot --------------------------------
(***************************************************************************)
(* An instance of Bot for TLC: a guild with one level and one class, a     *)
(* user who comes and goes, and a bot that is listed before him.           *)
(***************************************************************************)
EXTENDS Bot, TLC

CONSTANTS u1, b1,                     \* a user and a bot
          vr, wr, lr, kr,             \* roles: verified, level, class
          s1, s2,                     \* logins
          t1, t2, t3                  \* tasks

MCGuild   == [role |-> vr, domain |-> "school"]
MCLevels  == {[id |-> 1, name |-> "a", role |-> lr]}
MCClasses == {[id |-> 1, name |-> "a", level |-> 1, role |-> kr]}
MCMembers == {[id |-> 1, user |-> u1]}
MCOrder   == <<b1, u1>>
MCLoginOf == [s \in Logins |-> u1]
MCLogoutOf == [o \in Logouts |-> u1]

\* Tasks are alike, and so are the logins, all of one user.
Alike == Permutations(Tasks) \cup Permutations(Logins)
=============================================================================
