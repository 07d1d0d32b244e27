--------------------------- MODULE Database_proofs ---------------------------
(***************************************************************************)
(* What the statements of module Database keep: the columns' types and the *)
(* keys.  The handlers' proofs cite these lemmas and never open a table.   *)
(***************************************************************************)
EXTENDS Database, TLAPS

TablesOK == DatabaseTypeOK /\ KeysOK

LEMMA Frame ==
  ASSUME TablesOK, UNCHANGED dbVars
  PROVE  TablesOK'
BY DEF TablesOK, DatabaseTypeOK, KeysOK, UniqueRows, UniqueMembers, IdsOf, dbVars

LEMMA DiscordFrame ==
  ASSUME DiscordTypeOK, UNCHANGED discordVars
  PROVE  DiscordTypeOK'
BY DEF DiscordTypeOK, discordVars

LEMMA InsertVerifiedKeeps ==
  ASSUME TablesOK, NEW row, row.mail \in Domains,
         row = [member |-> row.member, mail |-> row.mail, class |-> row.class],
         CanInsertVerified(row), InsertVerified(row)
  PROVE  TablesOK'
<1> USE DEF TablesOK, DatabaseTypeOK, CanInsertVerified, InsertVerified
<1>1. row \in Verified
  BY DEF IdsOf, Member, Class, Verified
<1>2. DatabaseTypeOK'
  BY <1>1
<1>3. KeysOK'
  BY <1>1 DEF KeysOK, IdsOf, UniqueRows, UniqueMembers, Verified
<1> QED BY <1>2, <1>3

LEMMA DeleteVerifiedKeeps ==
  ASSUME TablesOK, NEW i, CanDeleteVerified(i), DeleteVerified(i)
  PROVE  TablesOK'
BY DEF TablesOK, DatabaseTypeOK, KeysOK, IdsOf, UniqueRows, UniqueMembers, CanDeleteVerified, DeleteVerified

LEMMA InsertGroupOfKeeps ==
  ASSUME TablesOK, NEW row, row = [member |-> row.member, group |-> row.group],
         CanInsertGroupOf(row), InsertGroupOf(row)
  PROVE  TablesOK'
<1> USE DEF TablesOK, DatabaseTypeOK, CanInsertGroupOf, InsertGroupOf
<1>1. row \in GroupOf
  BY DEF IdsOf, Group, Verified, GroupOf
<1>2. DatabaseTypeOK'
  BY <1>1
<1>3. KeysOK'
  BY <1>1 DEF KeysOK, IdsOf, UniqueRows, UniqueMembers
<1> QED BY <1>2, <1>3

LEMMA DeleteGroupOfKeeps ==
  ASSUME TablesOK, NEW row, DeleteGroupOf(row)
  PROVE  TablesOK'
BY DEF TablesOK, DatabaseTypeOK, KeysOK, IdsOf, UniqueRows, UniqueMembers, DeleteGroupOf

LEMMA SetVerifiedRoleKeeps ==
  ASSUME TablesOK, NEW r \in Roles \cup {NoRole}, SetVerifiedRole(r)
  PROVE  TablesOK'
BY DEF TablesOK, DatabaseTypeOK, KeysOK, IdsOf, UniqueRows, UniqueMembers, SetVerifiedRole, Guild

LEMMA SetMailDomainKeeps ==
  ASSUME TablesOK, NEW d \in Domains \cup {NoDomain}, SetMailDomain(d)
  PROVE  TablesOK'
BY DEF TablesOK, DatabaseTypeOK, KeysOK, IdsOf, UniqueRows, UniqueMembers, SetMailDomain, Guild

LEMMA SetGuildKeeps ==
  ASSUME TablesOK, NEW row \in Guild, SetGuild(row)
  PROVE  TablesOK'
BY DEF TablesOK, DatabaseTypeOK, KeysOK, IdsOf, UniqueRows, UniqueMembers, SetGuild

LEMMA InsertMemberKeeps ==
  ASSUME TablesOK, NEW row \in Member, InsertMember(row),
         \A m \in members : m.id # row.id /\ m.user # row.user
  PROVE  TablesOK'
<1> USE DEF TablesOK, InsertMember
<1>1. DatabaseTypeOK'
  BY DEF DatabaseTypeOK
<1>2. UniqueMembers(members)'
  BY DEF KeysOK, UniqueMembers
<1>3. IdsOf(members) \subseteq IdsOf(members)'
  BY DEF IdsOf
<1>4. KeysOK'
  BY <1>2, <1>3 DEF KeysOK
<1> QED BY <1>1, <1>4

\* The row of a verified member is never deleted.
LEMMA DeleteMemberKeeps ==
  ASSUME TablesOK, NEW u, CanDeleteMember(u), DeleteMember(u)
  PROVE  TablesOK'
<1> USE DEF TablesOK, DeleteMember
<1>1. DatabaseTypeOK'
  BY DEF DatabaseTypeOK
<1>2. \A v \in verified : v.member \in IdsOf(members)'
  <2> SUFFICES ASSUME NEW v \in verified PROVE \E m \in members' : m.id = v.member
    BY DEF IdsOf
  <2>1. PICK m \in members : m.id = v.member
    BY DEF KeysOK, IdsOf
  <2>2. m.user = u => v.member \in VerifiedIds(u)
    BY <2>1 DEF VerifiedIds, MemberIds
  <2>3. m \in members'
    BY <2>2 DEF CanDeleteMember
  <2> QED BY <2>1, <2>3
<1>3. UniqueMembers(members)'
  BY DEF KeysOK, UniqueMembers
<1>4. KeysOK'
  BY <1>2, <1>3 DEF KeysOK, IdsOf
<1> QED BY <1>1, <1>4

LEMMA DeleteLevelKeeps ==
  ASSUME TablesOK, NEW i, CanDeleteLevel(i), DeleteLevel(i)
  PROVE  TablesOK'
<1> USE DEF TablesOK, CanDeleteLevel, DeleteLevel
<1>1. DatabaseTypeOK'
  BY DEF DatabaseTypeOK
<1>2. \A c \in classes : c.level \in IdsOf(levels)'
  BY DEF KeysOK, IdsOf
<1>3. KeysOK'
  BY <1>2 DEF KeysOK, IdsOf, UniqueRows, UniqueMembers
<1> QED BY <1>1, <1>3

LEMMA DeleteClassKeeps ==
  ASSUME TablesOK, NEW i, CanDeleteClass(i), DeleteClass(i)
  PROVE  TablesOK'
<1> USE DEF TablesOK, CanDeleteClass, DeleteClass
<1>1. DatabaseTypeOK'
  BY DEF DatabaseTypeOK
<1>2. \A v \in verified : v.class \in IdsOf(classes)'
  BY DEF KeysOK, IdsOf
<1>3. KeysOK'
  BY <1>2 DEF KeysOK, IdsOf, UniqueRows, UniqueMembers
<1> QED BY <1>1, <1>3

LEMMA DeleteGroupKeeps ==
  ASSUME TablesOK, NEW i, CanDeleteGroup(i), DeleteGroup(i)
  PROVE  TablesOK'
<1> USE DEF TablesOK, CanDeleteGroup, DeleteGroup
<1>1. DatabaseTypeOK'
  BY DEF DatabaseTypeOK
<1>2. \A g \in groupOf : g.group \in IdsOf(groups)'
  BY DEF KeysOK, IdsOf
<1>3. KeysOK'
  BY <1>2 DEF KeysOK, IdsOf, UniqueRows, UniqueMembers
<1> QED BY <1>1, <1>3

\* A row that fits keeps the ids, names and roles of its table unique.
LEMMA FitsKeeps ==
  ASSUME NEW table, UniqueRows(table), NEW row, Fits(table, row)
  PROVE  UniqueRows(table \cup {row})
BY DEF UniqueRows, Fits

LEMMA InsertLevelKeeps ==
  ASSUME TablesOK, NEW row \in Level, Fits(levels, row), InsertLevel(row)
  PROVE  TablesOK'
<1> USE DEF TablesOK, InsertLevel
<1>1. DatabaseTypeOK'
  BY DEF DatabaseTypeOK
<1>2. UniqueRows(levels)'
  BY FitsKeeps DEF KeysOK
<1>3. IdsOf(levels) \subseteq IdsOf(levels)'
  BY DEF IdsOf
<1>4. KeysOK'
  BY <1>2, <1>3 DEF KeysOK
<1> QED BY <1>1, <1>4

LEMMA InsertClassKeeps ==
  ASSUME TablesOK, NEW row \in Class, Fits(classes, row), row.level \in IdsOf(levels),
         InsertClass(row)
  PROVE  TablesOK'
<1> USE DEF TablesOK, InsertClass
<1>1. DatabaseTypeOK'
  BY DEF DatabaseTypeOK
<1>2. UniqueRows(classes)'
  BY FitsKeeps DEF KeysOK
<1>3. IdsOf(classes) \subseteq IdsOf(classes)'
  BY DEF IdsOf
<1>4. KeysOK'
  BY <1>2, <1>3 DEF KeysOK
<1> QED BY <1>1, <1>4

LEMMA InsertGroupKeeps ==
  ASSUME TablesOK, NEW row \in Group, Fits(groups, row), InsertGroup(row)
  PROVE  TablesOK'
<1> USE DEF TablesOK, InsertGroup
<1>1. DatabaseTypeOK'
  BY DEF DatabaseTypeOK
<1>2. UniqueRows(groups)'
  BY FitsKeeps DEF KeysOK
<1>3. IdsOf(groups) \subseteq IdsOf(groups)'
  BY DEF IdsOf
<1>4. KeysOK'
  BY <1>2, <1>3 DEF KeysOK
<1> QED BY <1>1, <1>4
=============================================================================
