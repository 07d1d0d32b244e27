------------------------------ MODULE Database ------------------------------
(***************************************************************************)
(* The tables of one guild (src/migrations), whose rows name Discord users *)
(* and roles, and the statements the handlers send                         *)
(* (src/src/database/query.rs).  There are no transactions: every          *)
(* statement commits on its own.  A statement that breaks a key is         *)
(* refused, and the handler returns the error; all foreign keys are        *)
(* ON DELETE RESTRICT.  XP counters, emoji and personal names are left     *)
(* out, and a mail address is its domain, all that is ever compared.       *)
(***************************************************************************)
EXTENDS Naturals, Discord

CONSTANTS Domains,
          Names,                \* of levels, classes and groups
          Ids,                  \* the ids of the rows
          NoRole, NoDomain,     \* NULL
          InitialGuild, InitialLevels, InitialClasses, InitialGroups, InitialMembers

ASSUME NullAssumption == NoRole \notin Roles /\ NoDomain \notin Domains

\* A 0 is the id of no row.
ASSUME IdAssumption == Ids \subseteq Nat \ {0}

NoId == 0

VARIABLES
  guild,      \* the guild's verified role and mail domain
  levels, classes, groups,
  members,    \* the Discord members the bot knows
  verified,   \* verified_members
  groupOf     \* groups_of_verified_members

dbVars == <<guild, levels, classes, groups, members, verified, groupOf>>

Guild    == [role : Roles \cup {NoRole}, domain : Domains \cup {NoDomain}]
Level    == [id : Ids, name : Names, role : Roles]
Class    == [id : Ids, name : Names, level : Ids, role : Roles]
Group    == [id : Ids, name : Names, role : Roles]
Member   == [id : Ids, user : Users]
Verified == [member : Ids, mail : Domains, class : Ids]
GroupOf  == [member : Ids, group : Ids]

IdsOf(table) == {row.id : row \in table}

\* Neither an id nor a name nor a role occurs twice in a table of a guild.
UniqueRows(table) ==
  \A a, b \in table : a.id = b.id \/ a.name = b.name \/ a.role = b.role => a = b

UniqueMembers(table) == \A a, b \in table : a.id = b.id \/ a.user = b.user => a = b

\* The tables as the handlers find them.
ASSUME InitialAssumption ==
  /\ InitialGuild \in Guild
  /\ InitialLevels \subseteq Level /\ UniqueRows(InitialLevels)
  /\ InitialClasses \subseteq Class /\ UniqueRows(InitialClasses)
  /\ InitialGroups \subseteq Group /\ UniqueRows(InitialGroups)
  /\ InitialMembers \subseteq Member /\ UniqueMembers(InitialMembers)
  /\ \A c \in InitialClasses : c.level \in IdsOf(InitialLevels)

\* The column types of the migrations.
DatabaseTypeOK ==
  /\ guild \in Guild
  /\ levels \subseteq Level /\ classes \subseteq Class /\ groups \subseteq Group
  /\ members \subseteq Member
  /\ verified \subseteq Verified
  /\ groupOf \subseteq GroupOf

\* The keys of the migrations.
KeysOK ==
  /\ UniqueRows(levels) /\ UniqueRows(classes) /\ UniqueRows(groups)
  /\ UniqueMembers(members)
  /\ \A a, b \in verified : a.member = b.member => a = b
  /\ \A c \in classes : c.level \in IdsOf(levels)
  /\ \A v \in verified : v.member \in IdsOf(members) /\ v.class \in IdsOf(classes)
  /\ \A g \in groupOf : /\ \E v \in verified : v.member = g.member
                        /\ g.group \in IdsOf(groups)

-----------------------------------------------------------------------------
(* Queries. *)

\* Member::with_ids
MemberIds(u) == {m.id : m \in {m \in members : m.user = u}}

\* VerifiedMember::with_ids, an inner join with members
VerifiedIds(u) == {i \in MemberIds(u) : \E v \in verified : v.member = i}

\* Class::all_from_level
ClassesOf(l) == {c \in classes : c.level = l}

-----------------------------------------------------------------------------
(* Statements, as what they write and when they are refused. *)

CanInsertVerified(row) == /\ \A v \in verified : v.member # row.member
                          /\ row.member \in IdsOf(members)
                          /\ row.class \in IdsOf(classes)

InsertVerified(row) ==
  /\ verified' = verified \cup {row}
  /\ UNCHANGED <<guild, levels, classes, groups, members, groupOf>>

CanDeleteVerified(i) == \A g \in groupOf : g.member # i

DeleteVerified(i) ==
  /\ verified' = {v \in verified : v.member # i}
  /\ UNCHANGED <<guild, levels, classes, groups, members, groupOf>>

CanInsertGroupOf(row) == /\ row \notin groupOf
                         /\ \E v \in verified : v.member = row.member
                         /\ row.group \in IdsOf(groups)

InsertGroupOf(row) ==
  /\ groupOf' = groupOf \cup {row}
  /\ UNCHANGED <<guild, levels, classes, groups, members, verified>>

DeleteGroupOf(row) ==
  /\ groupOf' = groupOf \ {row}
  /\ UNCHANGED <<guild, levels, classes, groups, members, verified>>

SetMailDomain(d) ==
  /\ guild' = [guild EXCEPT !.domain = d]
  /\ UNCHANGED <<levels, classes, groups, members, verified, groupOf>>

\* What a new row of the guild has configured, and what is left without a row.
NoGuild == [role |-> NoRole, domain |-> NoDomain]

SetGuild(row) ==
  /\ guild' = row
  /\ UNCHANGED <<levels, classes, groups, members, verified, groupOf>>

CanDeleteGuild == levels = {} /\ classes = {} /\ groups = {} /\ members = {}

InsertMember(row) ==
  /\ members' = members \cup {row}
  /\ UNCHANGED <<guild, levels, classes, groups, verified, groupOf>>

CanDeleteMemberAlways(u) == TRUE   \* faulty: no foreign key on member_id

CanDeleteMember(u) == VerifiedIds(u) = {}

DeleteMember(u) ==
  /\ members' = {m \in members : m.user # u}
  /\ UNCHANGED <<guild, levels, classes, groups, verified, groupOf>>

SetVerifiedRole(r) ==
  /\ guild' = [guild EXCEPT !.role = r]
  /\ UNCHANGED <<levels, classes, groups, members, verified, groupOf>>

CanDeleteLevel(i) == \A c \in classes : c.level # i

DeleteLevel(i) ==
  /\ levels' = {l \in levels : l.id # i}
  /\ UNCHANGED <<guild, classes, groups, members, verified, groupOf>>

CanDeleteClassAlways(i) == TRUE   \* faulty: no foreign key on class_id

CanDeleteClass(i) == \A v \in verified : v.class # i

DeleteClass(i) ==
  /\ classes' = {c \in classes : c.id # i}
  /\ UNCHANGED <<guild, levels, groups, members, verified, groupOf>>

CanDeleteGroup(i) == \A g \in groupOf : g.group # i

DeleteGroup(i) ==
  /\ groups' = {g \in groups : g.id # i}
  /\ UNCHANGED <<guild, levels, classes, members, verified, groupOf>>

\* Whether the keys of a table admit one more row.
Fits(table, row) ==
  \A r \in table : r.id # row.id /\ r.name # row.name /\ r.role # row.role

InsertLevel(row) ==
  /\ levels' = levels \cup {row}
  /\ UNCHANGED <<guild, classes, groups, members, verified, groupOf>>

InsertClass(row) ==
  /\ classes' = classes \cup {row}
  /\ UNCHANGED <<guild, levels, groups, members, verified, groupOf>>

InsertGroup(row) ==
  /\ groups' = groups \cup {row}
  /\ UNCHANGED <<guild, levels, classes, members, verified, groupOf>>
=============================================================================
