----------------------------- MODULE MCAccounts -----------------------------
(***************************************************************************)
(* Instances of Accounts for TLC: a guild with two levels of one class     *)
(* each.  The ids of levels and classes overlap, as those of two           *)
(* AUTO_INCREMENT columns do.                                              *)
(***************************************************************************)
EXTENDS Accounts

CONSTANTS u1, u2,                     \* users
          vr, lr1, lr2, kr1, kr2, gr  \* roles: verified, levels, classes, group

MCGuild   == [role |-> vr, domain |-> "school"]
MCLevels  == {[id |-> 1, name |-> "a", role |-> lr1], [id |-> 2, name |-> "b", role |-> lr2]}
MCClasses == {[id |-> 1, name |-> "a", level |-> 1, role |-> kr1], [id |-> 2, name |-> "b", level |-> 2, role |-> kr2]}
MCGroups  == {[id |-> 1, name |-> "a", role |-> gr]}
MCMembers == {[id |-> 1, user |-> u1]}

LoginOf1 == [s \in Logins |-> u1]
LoginOf2 == [s \in Logins |-> IF s = "s1" THEN u1 ELSE u2]
LogoutOf1 == [o \in Logouts |-> u1]
PressOf1 == [g \in Presses |-> u1]
=============================================================================
