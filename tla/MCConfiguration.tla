--------------------------- MODULE MCConfiguration ---------------------------
(***************************************************************************)
(* Instances of Configuration for TLC: a guild with a level, a class that  *)
(* a member is in, and a group that he is in; one role serves for both the *)
(* level and the group.                                                    *)
(***************************************************************************)
EXTENDS Configuration, TLC

CONSTANTS vr, lr, kr, n1, n2,         \* roles, the last two still to be made
          c1, c2, c3                  \* commands

MCGuild    == [role |-> vr, domain |-> "school"]
MCLevels   == {[id |-> 1, name |-> "a", role |-> lr]}
MCClasses  == {[id |-> 1, name |-> "a", level |-> 1, role |-> kr]}
MCGroups   == {[id |-> 1, name |-> "a", role |-> lr]}
MCMembers  == {[id |-> 1, user |-> "u"]}
MCVerified == {[member |-> 1, mail |-> "school", class |-> 1]}
MCLastId   == [t \in Tables |-> 1]

\* Commands are alike, and so are the roles still to be made.
Alike == Permutations({c1, c2, c3}) \cup Permutations({n1, n2})
=============================================================================
