------------------------ MODULE Configuration_proofs ------------------------
(***************************************************************************)
(* What module Configuration promises for any number of commands, rows and *)
(* roles.                                                                  *)
(***************************************************************************)
EXTENDS Configuration, Database_proofs

-----------------------------------------------------------------------------
(* The inductive invariant.  Its parts on a command are predicates on the   *)
(* command's record, so that a step is judged by the record it writes.      *)

ShapeOf(k) ==
  /\ k.role \in seenRoles \cup {NoRole}
  /\ k.at \in CommandSteps \ {"idle"} => k.table \in Tables /\ k.name \in Names
  /\ k.at \in {"count", "createRole", "insert"} /\ k.table = "classes" => k.level \in Ids
  /\ k.at \in {"insert", "deleteRole", "deleteRow", "removed"} => k.role # NoRole

\* A removal knows the row of its id as long as there is one, and ids are not
\* reused: what is inserted later has a larger one.
TargetOf(k) ==
  k.at \in {"deleteRole", "deleteRow", "removed"} =>
    /\ k.table \in Tables
    /\ k.id \in Nat /\ k.id =< lastId[k.table]
    /\ \A row \in Table(k.table) : row.id = k.id =>
         k.at # "removed" /\ row.name = k.name /\ row.role = k.role

DroppedOf(k) == k.at = "deleteRow" /\ ~k.refused => k.role \notin guildRoles

CommandsOK == \A c \in Commands : /\ ShapeOf(command[c])
                                  /\ TargetOf(command[c])
                                  /\ DroppedOf(command[c])

\* A role that is gone was deleted by hand or by a removal.
GoneHasCause ==
  \A r \in seenRoles : \/ r \in guildRoles \cup byHand
                       \/ \E c \in Commands : /\ command[c].role = r
                                              /\ command[c].at \in {"deleteRow", "removed"}

GuildRoleSeen == guild.role \in seenRoles \cup {NoRole}

IInv == /\ TypeOK /\ CommandsOK /\ GoneHasCause /\ GuildRoleSeen
        /\ MadeRolesAreConfigured

-----------------------------------------------------------------------------
(* Tables by name.                                                          *)

LEMMA TableIs == /\ Table("levels") = levels
                 /\ Table("classes") = classes
                 /\ Table("groups") = groups
BY DEF Table

LEMMA TableIsNext == /\ Table("levels")' = levels'
                     /\ Table("classes")' = classes'
                     /\ Table("groups")' = groups'
BY DEF Table

LEMMA TableFrame ==
  ASSUME UNCHANGED dbVars, NEW t \in Tables
  PROVE  Table(t)' = Table(t)
BY TableIs, TableIsNext DEF Tables, dbVars

LEMMA RowTypes ==
  ASSUME TypeOK, NEW t \in Tables, NEW row \in Table(t)
  PROVE  /\ row.id \in Ids /\ row.id \in Nat /\ row.name \in Names /\ row.role \in Roles
         /\ row.role \in seenRoles /\ row.id =< lastId[t]
<1>1. row.role \in seenRoles /\ row.id =< lastId[t]
  BY DEF TypeOK, CatalogTypeOK
<1>2. row.id \in Ids /\ row.name \in Names /\ row.role \in Roles
  <2>1. CASE t = "levels"
    BY <2>1, TableIs DEF TypeOK, DatabaseTypeOK, Level
  <2>2. CASE t = "classes"
    BY <2>2, TableIs DEF TypeOK, DatabaseTypeOK, Class
  <2>3. CASE t = "groups"
    BY <2>3, TableIs DEF TypeOK, DatabaseTypeOK, Group
  <2> QED BY <2>1, <2>2, <2>3 DEF Tables
<1> QED BY <1>1, <1>2, IdAssumption

LEMMA InsertedTable ==
  ASSUME NEW c \in Commands, NEW i, NEW t \in Tables, command[c].table = t, InsertNewRow(c, i)
  PROVE  /\ \A u \in Tables \ {t} : Table(u)' = Table(u)
         /\ \E new : /\ new.id = i /\ new.name = command[c].name /\ new.role = command[c].role
                     /\ Table(t)' = Table(t) \cup {new}
<1>1. CASE t = "levels"
  <2>1. InsertLevel([id |-> i, name |-> command[c].name, role |-> command[c].role])
    BY <1>1 DEF InsertNewRow
  <2> QED BY <1>1, <2>1, TableIs, TableIsNext DEF Tables, InsertLevel
<1>2. CASE t = "classes"
  <2>1. InsertClass([id |-> i, name |-> command[c].name, level |-> command[c].level,
                     role |-> command[c].role])
    BY <1>2 DEF InsertNewRow
  <2> QED BY <1>2, <2>1, TableIs, TableIsNext DEF Tables, InsertClass
<1>3. CASE t = "groups"
  <2>1. InsertGroup([id |-> i, name |-> command[c].name, role |-> command[c].role])
    BY <1>3 DEF InsertNewRow
  <2> QED BY <1>3, <2>1, TableIs, TableIsNext DEF Tables, InsertGroup
<1> QED BY <1>1, <1>2, <1>3 DEF Tables

LEMMA DeletedTable ==
  ASSUME NEW c \in Commands, NEW t \in Tables, command[c].table = t, DeleteNamedRow(c)
  PROVE  /\ \A u \in Tables \ {t} : Table(u)' = Table(u)
         /\ Table(t)' = {row \in Table(t) : row.id # command[c].id}
<1>1. CASE t = "levels"
  BY <1>1, TableIs, TableIsNext DEF DeleteNamedRow, Tables, DeleteLevel
<1>2. CASE t = "classes"
  BY <1>2, TableIs, TableIsNext DEF DeleteNamedRow, Tables, DeleteClass
<1>3. CASE t = "groups"
  BY <1>3, TableIs, TableIsNext DEF DeleteNamedRow, Tables, DeleteGroup
<1> QED BY <1>1, <1>2, <1>3 DEF Tables

-----------------------------------------------------------------------------
(* Steps that move one command and nothing else.                            *)

Quiet == UNCHANGED <<dbVars, discordVars, lastId, seenRoles, byHand>>

\* What the other conjuncts remember of a command.
Keeps(old, k) ==
  old.at \in {"insert", "deleteRow", "removed"} =>
    k.at = old.at /\ k.role = old.role /\ (old.refused => k.refused)

Moves(c, k) == /\ command' = [command EXCEPT ![c] = k]
               /\ k \in CommandState
               /\ Keeps(command[c], k)
               /\ ShapeOf(k) /\ TargetOf(k) /\ DroppedOf(k)

LEMMA QuietMoveKeeps ==
  ASSUME IInv, Quiet, NEW c \in Commands, NEW k, Moves(c, k)
  PROVE  IInv'
<1> USE DEF IInv, Quiet, Moves
<1>1. \A t \in Tables : Table(t)' = Table(t)
  BY TableFrame
<1>2. \A d \in Commands : command'[d] = IF d = c THEN k ELSE command[d]
  BY DEF TypeOK, CatalogTypeOK
<1>3. TypeOK'
  <2>1. TablesOK' /\ DiscordTypeOK'
    BY Frame, DiscordFrame DEF TypeOK, TablesOK
  <2>2. CatalogTypeOK'
    BY <1>1 DEF TypeOK, CatalogTypeOK, discordVars
  <2> QED BY <2>1, <2>2 DEF TypeOK, TablesOK
<1>4. CommandsOK'
  <2> SUFFICES ASSUME NEW d \in Commands
               PROVE  ShapeOf(command[d])' /\ TargetOf(command[d])' /\ DroppedOf(command[d])'
    BY DEF CommandsOK
  <2>1. ShapeOf(command'[d]) /\ TargetOf(command'[d]) /\ DroppedOf(command'[d])
    BY <1>2 DEF CommandsOK
  <2>2. ShapeOf(command[d])' /\ DroppedOf(command[d])'
    BY <2>1 DEF ShapeOf, DroppedOf, discordVars
  <2>3. TargetOf(command[d])'
    BY <1>1, <2>1 DEF TargetOf
  <2> QED BY <2>2, <2>3
<1>5. GoneHasCause' /\ GuildRoleSeen'
  BY <1>2 DEF GoneHasCause, GuildRoleSeen, Keeps, discordVars, dbVars
<1>6. MadeRolesAreConfigured'
  <2> SUFFICES ASSUME NEW r \in guildRoles \ OldRoles
               PROVE  \/ \E t \in Tables : r \in RolesOf(Table(t)')
                      \/ \E d \in Commands : /\ command'[d].role = r
                                             /\ \/ command'[d].at = "insert"
                                                \/ command'[d].at = "removed" /\ command'[d].refused
    BY DEF MadeRolesAreConfigured, discordVars, RolesOf
  <2>1. CASE \E t \in Tables : r \in RolesOf(Table(t))
    BY <1>1, <2>1
  <2>2. CASE \E d \in Commands : /\ command[d].role = r
                                 /\ \/ command[d].at = "insert"
                                    \/ command[d].at = "removed" /\ command[d].refused
    BY <1>2, <2>2 DEF Keeps
  <2> QED BY <2>1, <2>2 DEF MadeRolesAreConfigured
<1> QED BY <1>3, <1>4, <1>5, <1>6

LEMMA FailureMoves ==
  ASSUME IInv, NEW c \in Commands, CommandFails(c)
  PROVE  Moves(c, [command[c] EXCEPT !.failed = TRUE])
<1> DEFINE k == [command[c] EXCEPT !.failed = TRUE]
<1>1. command[c] \in CommandState
  BY DEF IInv, TypeOK, CatalogTypeOK
<1>2. k \in CommandState
  BY <1>1 DEF CommandState
<1>3. /\ k.at = command[c].at /\ k.role = command[c].role /\ k.refused = command[c].refused
      /\ k.table = command[c].table /\ k.name = command[c].name /\ k.id = command[c].id
      /\ k.level = command[c].level
  BY <1>1 DEF CommandState
<1>4. ShapeOf(k) /\ TargetOf(k) /\ DroppedOf(k)
  <2>1. ShapeOf(command[c]) /\ TargetOf(command[c]) /\ DroppedOf(command[c])
    BY DEF IInv, CommandsOK
  <2>2. ShapeOf(k) /\ DroppedOf(k)
    BY <1>3, <2>1 DEF ShapeOf, DroppedOf
  <2>3. TargetOf(k)
    BY <1>3, <2>1 DEF TargetOf
  <2> QED BY <2>2, <2>3
<1>5. command' = [command EXCEPT ![c] = k]
  BY <1>1 DEF CommandFails, IInv, TypeOK, CatalogTypeOK
<1> QED BY <1>2, <1>3, <1>4, <1>5 DEF Moves, Keeps

\* A step that moves the command to a place where it holds no target and no
\* promise about a role.
LEMMA EarlyMoves ==
  ASSUME IInv, NEW c \in Commands, NEW k \in CommandState,
         command' = [command EXCEPT ![c] = k],
         command[c].at \in {"idle", "count"}, ShapeOf(k),
         k.at \notin {"deleteRole", "deleteRow", "removed"}
  PROVE  Moves(c, k)
BY DEF Moves, Keeps, TargetOf, DroppedOf

LEMMA AddMoves ==
  ASSUME IInv, NEW c \in Commands, Add(c) \/ AddClass(c) \/ CountClasses(c)
  PROVE  \E k : Moves(c, k)
<1> USE DEF CommandAt
<1>1. command[c] \in CommandState /\ guildRoles \subseteq seenRoles /\ seenRoles \subseteq Roles
  BY DEF IInv, TypeOK, CatalogTypeOK
<1>2. CASE Add(c)
  <2>1. PICK t \in {"levels", "groups"}, name \in Names, role \in guildRoles \cup {NoRole} :
          command' = [command EXCEPT ![c].at = AfterChecks(role), ![c].table = t,
                                     ![c].name = name, ![c].role = role]
    BY <1>2 DEF Add
  <2> DEFINE k == [command[c] EXCEPT !.at = AfterChecks(role), !.table = t,
                                     !.name = name, !.role = role]
  <2>2. k \in CommandState
    BY <1>1 DEF CommandState, CommandSteps, Tables, AfterChecks
  <2>3. k.at = AfterChecks(role) /\ k.table = t /\ k.name = name /\ k.role = role
    BY <1>1 DEF CommandState
  <2>4. ShapeOf(k) /\ k.at \in {"createRole", "insert"}
    BY <1>1, <2>3 DEF ShapeOf, Tables, AfterChecks
  <2>5. command' = [command EXCEPT ![c] = k]
    BY <2>1 DEF IInv, TypeOK, CatalogTypeOK
  <2> QED BY <1>2, <2>2, <2>4, <2>5, EarlyMoves DEF Add
<1>3. CASE AddClass(c)
  <2>1. CASE CommandGoto(c, "noSuchLevel")
    <3> DEFINE k == [command[c] EXCEPT !.at = "noSuchLevel"]
    <3>1. k \in CommandState
      BY <1>1 DEF CommandState, CommandEnds
    <3>2. ShapeOf(k) /\ k.at = "noSuchLevel"
      BY <1>1 DEF CommandState, ShapeOf, CommandSteps, IInv, CommandsOK
    <3>3. command' = [command EXCEPT ![c] = k]
      BY <2>1 DEF CommandGoto, IInv, TypeOK, CatalogTypeOK
    <3> QED BY <1>3, <3>1, <3>2, <3>3, EarlyMoves DEF AddClass
  <2>2. ASSUME NEW name \in Names, NEW role \in guildRoles \cup {NoRole}, NEW l \in levels,
               command' = [command EXCEPT ![c].at = "count", ![c].table = "classes",
                                          ![c].name = name, ![c].level = l.id, ![c].role = role]
        PROVE  \E k : Moves(c, k)
    <3> DEFINE k == [command[c] EXCEPT !.at = "count", !.table = "classes",
                                       !.name = name, !.level = l.id, !.role = role]
    <3>1. l.id \in Ids
      BY DEF IInv, TypeOK, DatabaseTypeOK, Level
    <3>2. k \in CommandState
      BY <1>1, <3>1 DEF CommandState, CommandSteps, Tables
    <3>3. ShapeOf(k) /\ k.at = "count"
      BY <1>1, <3>1 DEF CommandState, ShapeOf, Tables
    <3>4. command' = [command EXCEPT ![c] = k]
      BY <2>2 DEF IInv, TypeOK, CatalogTypeOK
    <3> QED BY <1>3, <3>2, <3>3, <3>4, EarlyMoves DEF AddClass
  <2> QED BY <1>3, <2>1, <2>2 DEF AddClass
<1>4. CASE CountClasses(c)
  <2>1. PICK step \in {"tooMany", AfterChecks(command[c].role)} : CommandGoto(c, step)
    BY <1>4 DEF CountClasses
  <2> DEFINE k == [command[c] EXCEPT !.at = step]
  <2>2. k \in CommandState
    BY <1>1 DEF CommandState, CommandEnds, CommandSteps, AfterChecks
  <2>3. /\ k.at = step /\ k.table = command[c].table /\ k.name = command[c].name
        /\ k.level = command[c].level /\ k.role = command[c].role
    BY <1>1 DEF CommandState
  <2>4. ShapeOf(command[c])
    BY DEF IInv, CommandsOK
  <2>5. ShapeOf(k)
    BY <1>4, <2>3, <2>4 DEF CountClasses, ShapeOf, CommandSteps, AfterChecks
  <2>6. k.at \notin {"deleteRole", "deleteRow", "removed"}
    BY <2>3 DEF AfterChecks
  <2>7. command' = [command EXCEPT ![c] = k]
    BY <2>1 DEF CommandGoto, IInv, TypeOK, CatalogTypeOK
  <2> QED BY <1>4, <2>2, <2>5, <2>6, <2>7, EarlyMoves DEF CountClasses
<1> QED BY <1>2, <1>3, <1>4

LEMMA RemoveMoves ==
  ASSUME IInv, NEW c \in Commands, Remove(c)
  PROVE  \E k : Moves(c, k)
<1> USE DEF CommandAt
<1>1. command[c] \in CommandState
  BY DEF IInv, TypeOK, CatalogTypeOK
<1>2. CASE CommandGoto(c, "notFound")
  <2> DEFINE k == [command[c] EXCEPT !.at = "notFound"]
  <2>1. k \in CommandState
    BY <1>1 DEF CommandState, CommandEnds
  <2>2. ShapeOf(k) /\ k.at = "notFound"
    BY <1>1 DEF CommandState, ShapeOf, CommandSteps, IInv, CommandsOK
  <2>3. command' = [command EXCEPT ![c] = k]
    BY <1>2 DEF CommandGoto, IInv, TypeOK, CatalogTypeOK
  <2> QED BY <2>1, <2>2, <2>3, EarlyMoves DEF Remove
<1>3. ASSUME NEW t \in Tables, NEW row \in Table(t),
             command' = [command EXCEPT ![c].at = "deleteRole", ![c].table = t,
                                        ![c].name = row.name, ![c].id = row.id,
                                        ![c].role = row.role]
      PROVE  \E k : Moves(c, k)
  <2> DEFINE k == [command[c] EXCEPT !.at = "deleteRole", !.table = t, !.name = row.name,
                                     !.id = row.id, !.role = row.role]
  <2>1. /\ row.id \in Ids /\ row.id \in Nat /\ row.name \in Names /\ row.role \in Roles
        /\ row.role \in seenRoles /\ row.id =< lastId[t]
    BY RowTypes DEF IInv
  <2>2. k \in CommandState
    BY <1>1, <2>1 DEF CommandState, CommandSteps
  <2>3. /\ k.at = "deleteRole" /\ k.table = t /\ k.name = row.name
        /\ k.id = row.id /\ k.role = row.role
    BY <1>1 DEF CommandState
  <2>4. ShapeOf(k)
    BY <2>1, <2>3, NullAssumption DEF ShapeOf
  <2>5. UniqueRows(Table(t))
    BY TableIs DEF IInv, TypeOK, KeysOK, Tables
  <2>6. TargetOf(k)
    BY <2>1, <2>3, <2>5 DEF TargetOf, UniqueRows
  <2>7. command' = [command EXCEPT ![c] = k]
    BY <1>3 DEF IInv, TypeOK, CatalogTypeOK
  <2> QED BY <2>2, <2>3, <2>4, <2>6, <2>7 DEF Remove, Moves, Keeps, DroppedOf
<1> QED BY <1>2, <1>3 DEF Remove

-----------------------------------------------------------------------------
(* Steps that change the roles of the guild.                                *)

\* The move RemoveRole makes, whatever Discord answered.
LEMMA RoleMoves ==
  ASSUME IInv, NEW c \in Commands, CommandAt(c, "deleteRole"),
         NEW k \in CommandState, k.at = "deleteRow",
         k.role = command[c].role, k.table = command[c].table,
         k.name = command[c].name, k.id = command[c].id
  PROVE  Keeps(command[c], k) /\ ShapeOf(k) /\ TargetOf(k)
<1>1. ShapeOf(command[c]) /\ TargetOf(command[c])
  BY DEF IInv, CommandsOK
<1>2. ShapeOf(k)
  BY <1>1 DEF ShapeOf, CommandSteps, CommandAt
<1>3. TargetOf(k)
  BY <1>1 DEF TargetOf, CommandAt
<1> QED BY <1>2, <1>3 DEF Keeps, CommandAt

\* Deleting a role is safe for everything but that some command, or somebody,
\* must answer for it.
LEMMA DeleteRoleKeeps ==
  ASSUME IInv, NEW r, DeleteRole(r), UNCHANGED <<dbVars, lastId, seenRoles>>,
         \/ UNCHANGED command /\ byHand' = byHand \cup {r} /\ r \in Roles
         \/ /\ UNCHANGED byHand
            /\ \E c \in Commands : /\ CommandAt(c, "deleteRole") /\ command[c].role = r
                                   /\ command' = [command EXCEPT ![c].at = "deleteRow"]
  PROVE  IInv'
<1> USE DEF IInv
<1>1. \A t \in Tables : Table(t)' = Table(t)
  BY TableFrame
<1>2. guildRoles' = guildRoles \ {r} /\ DiscordTypeOK'
  BY DEF DeleteRole, TypeOK, DiscordTypeOK
<1>3. ASSUME NEW d \in Commands
      PROVE  \/ command'[d] = command[d]
             \/ /\ command[d].at = "deleteRole"
                /\ command'[d] \in CommandState /\ Keeps(command[d], command'[d])
                /\ ShapeOf(command'[d]) /\ TargetOf(command'[d])
                /\ command'[d].at = "deleteRow" /\ command'[d].role = r
  <2>1. CASE UNCHANGED command
    BY <2>1
  <2>2. CASE \E c \in Commands : /\ CommandAt(c, "deleteRole") /\ command[c].role = r
                                 /\ command' = [command EXCEPT ![c].at = "deleteRow"]
    <3>1. PICK c \in Commands : /\ CommandAt(c, "deleteRole") /\ command[c].role = r
                                /\ command' = [command EXCEPT ![c].at = "deleteRow"]
      BY <2>2
    <3>2. CASE d # c
      BY <3>1, <3>2 DEF TypeOK, CatalogTypeOK
    <3>3. CASE d = c
      <4>1. command[c] \in CommandState
        BY DEF TypeOK, CatalogTypeOK
      <4>2. command'[c] = [command[c] EXCEPT !.at = "deleteRow"]
        BY <3>1 DEF TypeOK, CatalogTypeOK
      <4>3. /\ command'[c] \in CommandState /\ command'[c].at = "deleteRow"
            /\ command'[c].role = command[c].role /\ command'[c].table = command[c].table
            /\ command'[c].name = command[c].name /\ command'[c].id = command[c].id
        BY <4>1, <4>2 DEF CommandState, CommandSteps
      <4>4. Keeps(command[c], command'[c]) /\ ShapeOf(command'[c]) /\ TargetOf(command'[c])
        BY <3>1, <4>3, RoleMoves
      <4> QED BY <3>1, <3>3, <4>3, <4>4 DEF CommandAt
    <3> QED BY <3>2, <3>3
  <2> QED BY <2>1, <2>2
<1>4. TypeOK'
  <2>1. TablesOK'
    BY Frame DEF TypeOK, TablesOK
  <2>2. command' \in [Commands -> CommandState]
    <3>1. \A d \in Commands : command'[d] \in CommandState
      BY <1>3 DEF TypeOK, CatalogTypeOK
    <3> QED BY <3>1 DEF TypeOK, CatalogTypeOK
  <2>3. CatalogTypeOK'
    BY <1>1, <1>2, <2>2 DEF TypeOK, CatalogTypeOK
  <2>4. byHand' \subseteq Roles
    BY DEF TypeOK
  <2> QED BY <1>2, <2>1, <2>3, <2>4 DEF TypeOK, TablesOK
<1>5. CommandsOK'
  <2> SUFFICES ASSUME NEW d \in Commands
               PROVE  ShapeOf(command[d])' /\ TargetOf(command[d])' /\ DroppedOf(command[d])'
    BY DEF CommandsOK
  <2>1. ShapeOf(command'[d]) /\ TargetOf(command'[d])
    BY <1>3 DEF CommandsOK
  <2>2. ShapeOf(command[d])'
    BY <2>1 DEF ShapeOf
  <2>3. TargetOf(command[d])'
    BY <1>1, <2>1 DEF TargetOf
  <2>4. DroppedOf(command[d])'
    BY <1>2, <1>3 DEF DroppedOf, CommandsOK
  <2> QED BY <2>2, <2>3, <2>4
<1>6. GoneHasCause'
  <2> SUFFICES ASSUME NEW q \in seenRoles
               PROVE  \/ q \in guildRoles' \cup byHand'
                      \/ \E d \in Commands : /\ command'[d].role = q
                                             /\ command'[d].at \in {"deleteRow", "removed"}
    BY DEF GoneHasCause
  <2>1. CASE q = r /\ r \notin byHand'
    <3>1. PICK c \in Commands : /\ CommandAt(c, "deleteRole") /\ command[c].role = r
                                /\ command' = [command EXCEPT ![c].at = "deleteRow"]
      BY <2>1
    <3>2. command'[c].at = "deleteRow"
      BY <3>1 DEF TypeOK, CatalogTypeOK, CommandState
    <3> QED BY <1>3, <2>1, <3>1, <3>2 DEF CommandAt
  <2>2. CASE q # r /\ q \in guildRoles \cup byHand
    BY <1>2, <2>2
  <2>3. CASE \E d \in Commands : /\ command[d].role = q
                                 /\ command[d].at \in {"deleteRow", "removed"}
    BY <1>3, <2>3 DEF Keeps
  <2> QED BY <2>1, <2>2, <2>3 DEF GoneHasCause
<1>7. GuildRoleSeen'
  BY DEF GuildRoleSeen, dbVars
<1>8. MadeRolesAreConfigured'
  <2> SUFFICES ASSUME NEW q \in guildRoles \ OldRoles
               PROVE  \/ \E t \in Tables : q \in RolesOf(Table(t)')
                      \/ \E d \in Commands : /\ command'[d].role = q
                                             /\ \/ command'[d].at = "insert"
                                                \/ command'[d].at = "removed" /\ command'[d].refused
    BY <1>2 DEF MadeRolesAreConfigured, RolesOf
  <2>1. CASE \E t \in Tables : q \in RolesOf(Table(t))
    BY <1>1, <2>1
  <2>2. CASE \E d \in Commands : /\ command[d].role = q
                                 /\ \/ command[d].at = "insert"
                                    \/ command[d].at = "removed" /\ command[d].refused
    BY <1>3, <2>2 DEF Keeps
  <2> QED BY <2>1, <2>2 DEF MadeRolesAreConfigured
<1> QED BY <1>4, <1>5, <1>6, <1>7, <1>8

LEMMA MakeRoleKeeps ==
  ASSUME IInv, NEW c \in Commands, MakeRole(c), UNCHANGED byHand
  PROVE  IInv'
<1> USE DEF IInv
<1>1. PICK r \in Roles \ seenRoles :
        /\ guildRoles' = guildRoles \cup {r} /\ roles' = roles
        /\ seenRoles' = seenRoles \cup {r}
        /\ command' = [command EXCEPT ![c].at = "insert", ![c].role = r]
  BY DEF MakeRole, CreateRole
<1>2. /\ \A t \in Tables : Table(t)' = Table(t)
      /\ UNCHANGED <<dbVars, lastId>> /\ CommandAt(c, "createRole")
  BY TableFrame DEF MakeRole
<1> DEFINE k == [command[c] EXCEPT !.at = "insert", !.role = r]
<1>3. command[c] \in CommandState /\ command' = [command EXCEPT ![c] = k]
  BY <1>1 DEF TypeOK, CatalogTypeOK
<1>4. /\ k.at = "insert" /\ k.role = r /\ k.table = command[c].table /\ k.name = command[c].name
      /\ k.level = command[c].level
  BY <1>3 DEF CommandState
<1>5. \A d \in Commands : command'[d] = IF d = c THEN k ELSE command[d]
  BY <1>3 DEF TypeOK, CatalogTypeOK
<1>k. k \in CommandState
  BY <1>3 DEF CommandState, CommandSteps
<1> HIDE DEF k
<1>6. TypeOK'
  <2>1. TablesOK' /\ DiscordTypeOK'
    BY <1>1, <1>2, Frame DEF TypeOK, TablesOK, DiscordTypeOK
  <2>2. k \in CommandState
    BY <1>k
  <2>3. CatalogTypeOK'
    BY <1>1, <1>2, <1>3, <2>2 DEF TypeOK, CatalogTypeOK
  <2> QED BY <2>1, <2>3 DEF TypeOK, TablesOK
<1>7. CommandsOK'
  <2> SUFFICES ASSUME NEW d \in Commands
               PROVE  ShapeOf(command[d])' /\ TargetOf(command[d])' /\ DroppedOf(command[d])'
    BY DEF CommandsOK
  <2>1. ShapeOf(command[d]) /\ TargetOf(command[d]) /\ DroppedOf(command[d])
    BY DEF CommandsOK
  <2>2. CASE d = c
    <3>1. command'[d] = k /\ command[c].at = "createRole"
      BY <1>2, <1>5, <2>2 DEF CommandAt
    <3>2. ShapeOf(command[d])'
      BY <1>1, <1>4, <2>1, <2>2, <3>1, NullAssumption DEF ShapeOf, CommandSteps
    <3>3. TargetOf(command[d])' /\ DroppedOf(command[d])'
      BY <1>4, <3>1 DEF TargetOf, DroppedOf
    <3> QED BY <3>2, <3>3
  <2>3. CASE d # c
    <3>1. command'[d] = command[d]
      BY <1>5, <2>3
    <3>2. seenRoles \subseteq seenRoles'
      BY <1>1
    <3>5. ShapeOf(command[d])'
      BY <2>1, <3>1, <3>2 DEF ShapeOf
    <3>3. TargetOf(command[d])'
      BY <1>2, <2>1, <3>1 DEF TargetOf
    <3>4. DroppedOf(command[d])'
      BY <1>1, <2>1, <3>1, NullAssumption DEF DroppedOf, ShapeOf
    <3> QED BY <3>3, <3>4, <3>5
  <2> QED BY <2>2, <2>3
<1>8. GuildRoleSeen'
  BY <1>1, <1>2 DEF GuildRoleSeen, dbVars
<1>9. GoneHasCause'
  <2> SUFFICES ASSUME NEW q \in seenRoles'
               PROVE  \/ q \in guildRoles' \cup byHand
                      \/ \E d \in Commands : /\ command'[d].role = q
                                             /\ command'[d].at \in {"deleteRow", "removed"}
    BY DEF GoneHasCause
  <2>1. CASE q = r
    BY <1>1, <2>1
  <2>2. CASE q \in guildRoles \cup byHand
    BY <1>1, <2>2
  <2>3. CASE \E d \in Commands : /\ command[d].role = q
                                 /\ command[d].at \in {"deleteRow", "removed"}
    BY <1>2, <1>5, <2>3 DEF CommandAt
  <2> QED BY <1>1, <2>1, <2>2, <2>3 DEF GoneHasCause
<1>10. MadeRolesAreConfigured'
  <2> SUFFICES ASSUME NEW q \in guildRoles' \ OldRoles
               PROVE  \/ \E t \in Tables : q \in RolesOf(Table(t)')
                      \/ \E d \in Commands : /\ command'[d].role = q
                                             /\ \/ command'[d].at = "insert"
                                                \/ command'[d].at = "removed" /\ command'[d].refused
    BY DEF MadeRolesAreConfigured, RolesOf
  <2>1. CASE q = r
    BY <1>4, <1>5, <2>1
  <2>2. CASE \E t \in Tables : q \in RolesOf(Table(t))
    BY <1>2, <2>2
  <2>3. CASE \E d \in Commands : /\ command[d].role = q
                                 /\ \/ command[d].at = "insert"
                                    \/ command[d].at = "removed" /\ command[d].refused
    BY <1>2, <1>5, <2>3 DEF CommandAt
  <2> QED BY <1>1, <2>1, <2>2, <2>3 DEF MadeRolesAreConfigured
<1> QED BY <1>6, <1>7, <1>8, <1>9, <1>10

-----------------------------------------------------------------------------
(* Steps that change a table.                                               *)

LEMMA InsertKeepsTables ==
  ASSUME IInv, NEW c \in Commands, NEW i \in Ids, CommandAt(c, "insert"),
         CanInsertRow(c, i), InsertNewRow(c, i)
  PROVE  TablesOK'
<1> DEFINE row == [id |-> i, name |-> command[c].name, role |-> command[c].role]
<1>1. TablesOK
  BY DEF IInv, TypeOK, TablesOK
<1>2. command[c].name \in Names /\ command[c].role \in Roles /\ command[c].table \in Tables
  BY DEF IInv, CommandsOK, ShapeOf, CommandAt, CommandSteps, TypeOK, CatalogTypeOK
<1>3. Fits(Table(command[c].table), row)
  BY DEF CanInsertRow
<1>4. CASE command[c].table = "levels"
  <2>1. InsertLevel(row)
    BY <1>4 DEF InsertNewRow
  <2>2. row \in Level
    BY <1>2 DEF Level
  <2> QED BY <1>1, <1>3, <1>4, <2>1, <2>2, TableIs, InsertLevelKeeps
<1>5. CASE command[c].table = "classes"
  <2> DEFINE new == [id |-> i, name |-> command[c].name, level |-> command[c].level,
                     role |-> command[c].role]
  <2>1. InsertClass(new)
    BY <1>5 DEF InsertNewRow
  <2>2. command[c].level \in Ids /\ command[c].level \in IdsOf(levels)
    BY <1>5 DEF CanInsertRow, IInv, CommandsOK, ShapeOf, CommandAt
  <2>3. new \in Class
    BY <1>2, <2>2 DEF Class
  <2>4. Fits(classes, new)
    BY <1>3, <1>5, TableIs DEF Fits
  <2>5. new.level \in IdsOf(levels)
    BY <2>2
  <2> HIDE DEF new
  <2> QED BY <1>1, <2>1, <2>3, <2>4, <2>5, InsertClassKeeps
<1>6. CASE command[c].table = "groups"
  <2>1. InsertGroup(row)
    BY <1>6 DEF InsertNewRow
  <2>2. row \in Group
    BY <1>2 DEF Group
  <2> QED BY <1>1, <1>3, <1>6, <2>1, <2>2, TableIs, InsertGroupKeeps
<1> QED BY <1>2, <1>4, <1>5, <1>6 DEF Tables

LEMMA DeleteKeepsTables ==
  ASSUME IInv, NEW c \in Commands, command[c].table \in Tables, CanDeleteRow(c), DeleteNamedRow(c)
  PROVE  TablesOK'
<1>1. TablesOK
  BY DEF IInv, TypeOK, TablesOK
<1>2. CASE command[c].table = "levels"
  BY <1>1, <1>2, DeleteLevelKeeps DEF CanDeleteRow, DeleteNamedRow
<1>3. CASE command[c].table = "classes"
  BY <1>1, <1>3, DeleteClassKeeps DEF CanDeleteRow, DeleteNamedRow
<1>4. CASE command[c].table = "groups"
  BY <1>1, <1>4, DeleteGroupKeeps DEF CanDeleteRow, DeleteNamedRow
<1> QED BY <1>2, <1>3, <1>4 DEF Tables

\* The move of a command that ends well.
LEMMA EndMoves ==
  ASSUME IInv, NEW c \in Commands, NEW step \in {"added", "removed"}, CommandGoto(c, step)
  PROVE  /\ command' \in [Commands -> CommandState]
         /\ \A d \in Commands : d # c => command'[d] = command[d]
         /\ command'[c].at = step /\ command'[c].role = command[c].role
         /\ command'[c].table = command[c].table /\ command'[c].name = command[c].name
         /\ command'[c].id = command[c].id /\ command'[c].level = command[c].level
         /\ command'[c].refused = command[c].refused
<1>1. command \in [Commands -> CommandState]
  BY DEF IInv, TypeOK, CatalogTypeOK
<1>2. command'[c] = [command[c] EXCEPT !.at = step]
  BY <1>1 DEF CommandGoto
<1>3. command'[c] \in CommandState
  BY <1>1, <1>2 DEF CommandState, CommandEnds
<1>4. \A d \in Commands : d # c => command'[d] = command[d]
  BY <1>1 DEF CommandGoto
<1>5. command' \in [Commands -> CommandState]
  BY <1>1, <1>3, <1>4 DEF CommandGoto
<1> QED BY <1>1, <1>2, <1>4, <1>5 DEF CommandState

LEMMA InsertKeeps ==
  ASSUME IInv, NEW c \in Commands, NEW t \in Tables, command[c].table = t,
         NEW i \in Ids, i = NextId(t),
         CommandAt(c, "insert"), CanInsertRow(c, i), InsertNewRow(c, i),
         lastId' = [lastId EXCEPT ![t] = i],
         CommandGoto(c, "added"), UNCHANGED <<discordVars, seenRoles, byHand>>
  PROVE  IInv'
<1>1. /\ command[c].role \in seenRoles /\ command[c].name \in Names
      /\ command[c].role \in Roles
  BY DEF IInv, CommandsOK, ShapeOf, CommandAt, CommandSteps, TypeOK, CatalogTypeOK
<1>2. /\ \A u \in Tables \ {t} : Table(u)' = Table(u)
      /\ \E new : /\ new.id = i /\ new.name = command[c].name /\ new.role = command[c].role
                  /\ Table(t)' = Table(t) \cup {new}
  BY InsertedTable
<1>3. PICK new : /\ new.id = i /\ new.role = command[c].role
                 /\ \A u \in Tables : Table(u)' = IF u = t THEN Table(u) \cup {new} ELSE Table(u)
  BY <1>2
<1>4. /\ lastId \in [Tables -> Nat] /\ i = lastId[t] + 1
      /\ \A u \in Tables : lastId'[u] = IF u = t THEN i ELSE lastId[u]
      /\ lastId' \in [Tables -> Nat]
  BY <1>1, IdAssumption DEF IInv, TypeOK, CatalogTypeOK, NextId
<1>5. /\ command' \in [Commands -> CommandState]
      /\ \A d \in Commands : d # c => command'[d] = command[d]
      /\ command'[c].at = "added" /\ command'[c].role = command[c].role
  BY EndMoves
<1>6. UNCHANGED <<guildRoles, guild>>
  BY DEF discordVars, InsertNewRow, InsertLevel, InsertClass, InsertGroup
<1>7. TypeOK'
  <2>1. TablesOK' /\ DiscordTypeOK'
    BY InsertKeepsTables, DiscordFrame DEF IInv, TypeOK
  <2>2. ASSUME NEW u \in Tables, NEW row \in Table(u)'
        PROVE  row.id =< lastId'[u] /\ row.role \in seenRoles
    <3>1. CASE row \in Table(u)
      BY <1>4, <3>1, RowTypes DEF IInv
    <3>2. CASE u = t /\ row = new
      BY <1>1, <1>3, <1>4, <3>2
    <3> QED BY <1>3, <2>2, <3>1, <3>2
  <2>3. CatalogTypeOK'
    BY <1>4, <1>5, <1>6, <2>2 DEF IInv, TypeOK, CatalogTypeOK
  <2> QED BY <2>1, <2>3 DEF IInv, TypeOK, TablesOK
<1>8. CommandsOK'
  <2> SUFFICES ASSUME NEW d \in Commands
               PROVE  ShapeOf(command[d])' /\ TargetOf(command[d])' /\ DroppedOf(command[d])'
    BY DEF CommandsOK
  <2>1. CASE d = c
    BY <1>1, <1>5, <2>1 DEF ShapeOf, TargetOf, DroppedOf, CommandSteps
  <2>2. CASE d # c
    <3>1. /\ command'[d] = command[d]
          /\ ShapeOf(command[d]) /\ TargetOf(command[d]) /\ DroppedOf(command[d])
      BY <1>5, <2>2 DEF IInv, CommandsOK
    <3>2. ShapeOf(command[d])' /\ DroppedOf(command[d])'
      BY <1>6, <3>1 DEF ShapeOf, DroppedOf
    <3>3. TargetOf(command[d])'
      <4> SUFFICES ASSUME command[d].at \in {"deleteRole", "deleteRow", "removed"}
                   PROVE  /\ command[d].table \in Tables
                          /\ command[d].id \in Nat /\ command[d].id =< lastId'[command[d].table]
                          /\ \A row \in (Table(command[d].table))' : row.id = command[d].id =>
                               command[d].at # "removed" /\ row.name = command[d].name
                               /\ row.role = command[d].role
        BY <3>1 DEF TargetOf
      <4>1. /\ command[d].table \in Tables
            /\ command[d].id \in Nat /\ command[d].id =< lastId[command[d].table]
            /\ \A row \in Table(command[d].table) : row.id = command[d].id =>
                 command[d].at # "removed" /\ row.name = command[d].name
                 /\ row.role = command[d].role
        BY <3>1 DEF TargetOf
      <4>2. (Table(command[d].table))' = IF command[d].table = t
                                         THEN Table(command[d].table) \cup {new}
                                         ELSE Table(command[d].table)
        BY <1>3, <3>1, <4>1
      <4> QED BY <1>3, <1>4, <4>1, <4>2
    <3> QED BY <3>2, <3>3
  <2> QED BY <2>1, <2>2
<1>9. GoneHasCause'
  BY <1>5, <1>6 DEF IInv, GoneHasCause, CommandAt
<1>10. GuildRoleSeen'
  BY <1>6 DEF IInv, GuildRoleSeen
<1>11. MadeRolesAreConfigured'
  <2> SUFFICES ASSUME NEW q \in guildRoles \ OldRoles
               PROVE  \/ \E u \in Tables : q \in RolesOf(Table(u)')
                      \/ \E d \in Commands : /\ command'[d].role = q
                                             /\ \/ command'[d].at = "insert"
                                                \/ command'[d].at = "removed" /\ command'[d].refused
    BY <1>6 DEF MadeRolesAreConfigured, RolesOf
  <2>1. CASE q = command[c].role
    <3>1. new \in Table(t)' /\ new.role = q
      BY <1>1, <1>3, <2>1
    <3> QED BY <1>1, <3>1 DEF RolesOf
  <2>2. CASE \E u \in Tables : q \in RolesOf(Table(u))
    BY <1>3, <2>2 DEF RolesOf
  <2>3. CASE \E d \in Commands : /\ command[d].role = q /\ d # c
                                 /\ \/ command[d].at = "insert"
                                    \/ command[d].at = "removed" /\ command[d].refused
    BY <1>5, <2>3
  <2> QED BY <2>1, <2>2, <2>3 DEF IInv, MadeRolesAreConfigured
<1> QED BY <1>7, <1>8, <1>9, <1>10, <1>11 DEF IInv

LEMMA RemoveRowKeeps ==
  ASSUME IInv, NEW c \in Commands, NEW t \in Tables, command[c].table = t,
         CommandAt(c, "deleteRow"), CanDeleteRow(c), DeleteNamedRow(c),
         CommandGoto(c, "removed"), UNCHANGED <<discordVars, lastId, seenRoles, byHand>>
  PROVE  IInv'
<1>1. /\ \A u \in Tables \ {t} : Table(u)' = Table(u)
      /\ Table(t)' = {row \in Table(t) : row.id # command[c].id}
  BY DeletedTable
<1>2. \A u \in Tables : \A row \in Table(u)' : row \in Table(u)
  BY <1>1
<1>3. /\ command' \in [Commands -> CommandState]
      /\ \A d \in Commands : d # c => command'[d] = command[d]
      /\ command'[c].at = "removed" /\ command'[c].role = command[c].role
      /\ command'[c].table = command[c].table /\ command'[c].id = command[c].id
      /\ command'[c].refused = command[c].refused
  BY EndMoves
<1>4. UNCHANGED <<guildRoles, guild>>
  BY DEF discordVars, DeleteNamedRow, DeleteLevel, DeleteClass, DeleteGroup
<1>5. command[c].at = "deleteRow"
  BY DEF CommandAt
<1>6. ShapeOf(command[c]) /\ TargetOf(command[c]) /\ DroppedOf(command[c])
  BY DEF IInv, CommandsOK
<1>7. TypeOK'
  <2>1. TablesOK' /\ DiscordTypeOK'
    BY DeleteKeepsTables, DiscordFrame DEF IInv, TypeOK
  <2>2. CatalogTypeOK'
    BY <1>2, <1>3, <1>4 DEF IInv, TypeOK, CatalogTypeOK
  <2> QED BY <2>1, <2>2 DEF IInv, TypeOK, TablesOK
<1>8. CommandsOK'
  <2> SUFFICES ASSUME NEW d \in Commands
               PROVE  ShapeOf(command[d])' /\ TargetOf(command[d])' /\ DroppedOf(command[d])'
    BY DEF CommandsOK
  <2>1. CASE d = c
    <3>1. ShapeOf(command[d])' /\ DroppedOf(command[d])'
      BY <1>3, <1>5, <1>6, <2>1 DEF ShapeOf, DroppedOf, CommandSteps
    <3>2. (Table(command[d].table))' = Table(t)'
      BY <1>3, <2>1
    <3>3. /\ command'[d].table = t /\ command[c].id \in Nat /\ command[c].id =< lastId[t]
          /\ command'[d].id = command[c].id
      BY <1>3, <1>5, <1>6, <2>1 DEF TargetOf
    <3>4. \A row \in (Table(command[d].table))' : row.id # command'[d].id
      BY <1>1, <3>2, <3>3
    <3>5. TargetOf(command[d])'
      BY <3>3, <3>4 DEF TargetOf
    <3> QED BY <3>1, <3>5
  <2>2. CASE d # c
    <3>1. /\ command'[d] = command[d]
          /\ ShapeOf(command[d]) /\ TargetOf(command[d]) /\ DroppedOf(command[d])
      BY <1>3, <2>2 DEF IInv, CommandsOK
    <3>2. ShapeOf(command[d])' /\ DroppedOf(command[d])'
      BY <1>4, <3>1 DEF ShapeOf, DroppedOf
    <3>3. TargetOf(command[d])'
      <4>1. command[d].table \in Tables =>
              \A row \in (Table(command[d].table))' : row \in Table(command[d].table)
        BY <1>2, <3>1
      <4> QED BY <3>1, <4>1 DEF TargetOf
    <3> QED BY <3>2, <3>3
  <2> QED BY <2>1, <2>2
<1>9. GoneHasCause'
  <2> SUFFICES ASSUME NEW q \in seenRoles
               PROVE  \/ q \in guildRoles \cup byHand
                      \/ \E d \in Commands : /\ command'[d].role = q
                                             /\ command'[d].at \in {"deleteRow", "removed"}
    BY <1>4 DEF GoneHasCause
  <2> QED BY <1>3 DEF IInv, GoneHasCause
<1>10. GuildRoleSeen'
  BY <1>4 DEF IInv, GuildRoleSeen
<1>11. MadeRolesAreConfigured'
  <2> SUFFICES ASSUME NEW q \in guildRoles \ OldRoles
               PROVE  \/ \E u \in Tables : q \in RolesOf(Table(u)')
                      \/ \E d \in Commands : /\ command'[d].role = q
                                             /\ \/ command'[d].at = "insert"
                                                \/ command'[d].at = "removed" /\ command'[d].refused
    BY <1>4 DEF MadeRolesAreConfigured, RolesOf
  <2>1. CASE q = command[c].role
    BY <1>3, <1>5, <1>6, <2>1 DEF DroppedOf
  <2>2. CASE /\ q # command[c].role
             /\ \E u \in Tables : q \in RolesOf(Table(u))
    <3>1. PICK u \in Tables : \E row \in Table(u) : row.role = q
      BY <2>2 DEF RolesOf
    <3>2. PICK row \in Table(u) : row.role = q
      BY <3>1
    <3>3. CASE u = t
      <4>1. row.id # command[c].id
        BY <1>5, <1>6, <2>2, <3>2, <3>3 DEF TargetOf
      <4>2. row \in Table(u)'
        BY <1>1, <3>2, <3>3, <4>1
      <4> QED BY <3>2, <4>2 DEF RolesOf
    <3>4. CASE u # t
      BY <1>1, <3>2, <3>4 DEF RolesOf
    <3> QED BY <3>3, <3>4
  <2>3. CASE \E d \in Commands : /\ command[d].role = q
                                 /\ \/ command[d].at = "insert"
                                    \/ command[d].at = "removed" /\ command[d].refused
    BY <1>3, <1>5, <2>3
  <2> QED BY <2>1, <2>2, <2>3 DEF IInv, MadeRolesAreConfigured
<1> QED BY <1>7, <1>8, <1>9, <1>10, <1>11 DEF IInv

LEMMA SetupRoleKeeps ==
  ASSUME IInv, SetupRole
  PROVE  IInv'
<1> USE DEF IInv
<1>1. PICK r \in seenRoles : SetVerifiedRole(r)
  BY DEF SetupRole
<1>2. UNCHANGED <<discordVars, catalogVars, byHand, levels, classes, groups>>
  BY <1>1 DEF SetupRole, SetVerifiedRole
<1>3. UNCHANGED <<guildRoles, command, lastId, seenRoles>>
  BY <1>2 DEF discordVars, catalogVars
<1>4. \A t \in Tables : Table(t)' = Table(t)
  BY <1>2, TableIs, TableIsNext DEF Tables
<1>5. TypeOK'
  <2>1. TablesOK'
    BY <1>1, SetVerifiedRoleKeeps DEF TypeOK, TablesOK, CatalogTypeOK
  <2>2. DiscordTypeOK'
    BY <1>2, DiscordFrame DEF TypeOK
  <2>3. CatalogTypeOK'
    BY <1>3, <1>4 DEF TypeOK, CatalogTypeOK
  <2> QED BY <1>2, <2>1, <2>2, <2>3 DEF TypeOK, TablesOK
<1>6. CommandsOK'
  <2> SUFFICES ASSUME NEW d \in Commands
               PROVE  ShapeOf(command[d])' /\ TargetOf(command[d])' /\ DroppedOf(command[d])'
    BY DEF CommandsOK
  <2>1. ShapeOf(command[d]) /\ TargetOf(command[d]) /\ DroppedOf(command[d])
    BY DEF CommandsOK
  <2>2. ShapeOf(command[d])' /\ DroppedOf(command[d])'
    BY <1>3, <2>1 DEF ShapeOf, DroppedOf
  <2>3. TargetOf(command[d])'
    BY <1>3, <1>4, <2>1 DEF TargetOf
  <2> QED BY <2>2, <2>3
<1>7. GoneHasCause'
  BY <1>2, <1>3 DEF GoneHasCause
<1>8. GuildRoleSeen'
  BY <1>1, <1>3 DEF GuildRoleSeen, SetVerifiedRole, TypeOK, DatabaseTypeOK, Guild
<1>9. MadeRolesAreConfigured'
  BY <1>3, <1>4 DEF MadeRolesAreConfigured, RolesOf
<1> QED BY <1>5, <1>6, <1>7, <1>8, <1>9

-----------------------------------------------------------------------------
(* The invariant holds.                                                     *)

LEMMA InitIInv == Init => IInv
<1> SUFFICES ASSUME Init PROVE IInv
  OBVIOUS
<1> USE DEF Init, CommandInit
<1>1. \A t \in Tables : Table(t) = InitialTable(t)
  BY DEF Table, InitialTable
<1>2. DatabaseTypeOK /\ DiscordTypeOK
  BY InitialAssumption, ConfigurationAssumption DEF DatabaseTypeOK, DiscordTypeOK
<1>3. KeysOK
  BY InitialAssumption, ConfigurationAssumption DEF KeysOK
<1>4. \A c \in Commands : command[c] \in CommandState /\ command[c].at = "idle"
                          /\ command[c].role = NoRole
  BY DEF CommandState, CommandSteps
<1>5. CatalogTypeOK
  <2>1. command \in [Commands -> CommandState]
    BY <1>4
  <2>2. \A t \in Tables : \A row \in Table(t) : row.id =< lastId[t] /\ row.role \in seenRoles
    BY <1>1, CatalogAssumption, ConfigurationAssumption DEF IdsOf, RolesOf
  <2> QED BY <2>1, <2>2, CatalogAssumption, ConfigurationAssumption DEF CatalogTypeOK
<1>6. CommandsOK
  BY <1>4 DEF CommandsOK, ShapeOf, TargetOf, DroppedOf, CommandSteps
<1>7. GoneHasCause /\ GuildRoleSeen /\ MadeRolesAreConfigured
  BY ConfigurationAssumption DEF GoneHasCause, GuildRoleSeen, MadeRolesAreConfigured
<1> QED BY <1>2, <1>3, <1>5, <1>6, <1>7 DEF IInv, TypeOK

\* What a command does: it moves, makes or deletes a role, or writes a row.
LEMMA CommandKeeps ==
  ASSUME IInv, NEW c \in Commands, CommandNext(c), UNCHANGED byHand
  PROVE  IInv'
<1>0. command[c] \in CommandState
  BY DEF IInv, TypeOK, CatalogTypeOK
<1>1. CASE Add(c) \/ AddClass(c) \/ CountClasses(c)
  <2>1. Quiet
    BY <1>1 DEF Quiet, Add, AddClass, CountClasses
  <2> QED BY <1>1, <2>1, AddMoves, QuietMoveKeeps
<1>2. CASE Remove(c)
  <2>1. Quiet
    BY <1>2 DEF Quiet, Remove
  <2> QED BY <1>2, <2>1, RemoveMoves, QuietMoveKeeps
<1>3. CASE MakeRole(c)
  BY <1>3, MakeRoleKeeps
<1>4. ASSUME CommandFails(c), Quiet
      PROVE  IInv'
  BY <1>4, FailureMoves, QuietMoveKeeps
<1>5. CASE Insert(c)
  <2>1. CommandAt(c, "insert") /\ command[c].table \in Tables
    BY <1>5 DEF Insert, CommandAt, IInv, CommandsOK, ShapeOf, CommandSteps
  <2>2. PICK t \in Tables : command[c].table = t
    BY <2>1
  <2>3. CASE CommandFails(c) /\ UNCHANGED <<dbVars, lastId, discordVars, seenRoles>>
    BY <1>4, <2>3 DEF Quiet
  <2>4. CASE /\ NextId(t) \in Ids /\ CanInsertRow(c, NextId(t)) /\ InsertNewRow(c, NextId(t))
             /\ lastId' = [lastId EXCEPT ![t] = NextId(t)] /\ CommandGoto(c, "added")
             /\ UNCHANGED <<discordVars, seenRoles>>
    <3>1. PICK i \in Ids : i = NextId(t)
      BY <2>4
    <3>2. CanInsertRow(c, i) /\ InsertNewRow(c, i) /\ lastId' = [lastId EXCEPT ![t] = i]
      BY <2>4, <3>1
    <3> QED BY <2>1, <2>2, <2>4, <3>1, <3>2, InsertKeeps
  <2> QED BY <1>5, <2>2, <2>3, <2>4 DEF Insert
<1>6. CASE RemoveRole(c)
  <2>1. CommandAt(c, "deleteRole") /\ UNCHANGED <<dbVars, lastId, seenRoles>>
    BY <1>6 DEF RemoveRole
  <2>2. CASE DeleteRole(command[c].role) /\ CommandGoto(c, "deleteRow")
    BY <2>1, <2>2, DeleteRoleKeeps DEF CommandGoto
  <2>3. CASE /\ command' = [command EXCEPT ![c].at = "deleteRow", ![c].refused = TRUE]
             /\ UNCHANGED discordVars
    <3> DEFINE k == [command[c] EXCEPT !.at = "deleteRow", !.refused = TRUE]
    <3>1. k \in CommandState
      BY <1>0 DEF CommandState, CommandSteps
    <3>2. /\ k.at = "deleteRow" /\ k.refused /\ k.role = command[c].role
          /\ k.table = command[c].table /\ k.name = command[c].name /\ k.id = command[c].id
      BY <1>0 DEF CommandState
    <3>3. command' = [command EXCEPT ![c] = k]
      BY <2>3 DEF IInv, TypeOK, CatalogTypeOK
    <3> HIDE DEF k
    <3>4. Keeps(command[c], k) /\ ShapeOf(k) /\ TargetOf(k)
      BY <2>1, <3>1, <3>2, RoleMoves
    <3>5. Moves(c, k)
      BY <3>1, <3>2, <3>3, <3>4 DEF Moves, DroppedOf
    <3> QED BY <2>1, <2>3, <3>5, QuietMoveKeeps DEF Quiet
  <2> QED BY <1>6, <2>2, <2>3 DEF RemoveRole
<1>7. CASE RemoveRow(c)
  <2>1. CommandAt(c, "deleteRow") /\ command[c].table \in Tables
        /\ UNCHANGED <<discordVars, lastId, seenRoles>>
    BY <1>7 DEF RemoveRow, CommandAt, IInv, CommandsOK, TargetOf
  <2>2. PICK t \in Tables : command[c].table = t
    BY <2>1
  <2>3. CASE UNCHANGED dbVars /\ CommandFails(c)
    BY <1>4, <2>1, <2>3 DEF Quiet
  <2>4. CASE CanDeleteRow(c) /\ DeleteNamedRow(c) /\ CommandGoto(c, "removed")
    BY <2>1, <2>2, <2>4, RemoveRowKeeps
  <2> QED BY <1>7, <2>3, <2>4 DEF RemoveRow
<1>8. CASE CommandFail(c)
  BY <1>4, <1>8 DEF CommandFail, Quiet
<1> QED BY <1>1, <1>2, <1>3, <1>5, <1>6, <1>7, <1>8 DEF CommandNext, CommandBot

LEMMA Inductive == IInv /\ [Next]_vars => IInv'
<1> SUFFICES ASSUME IInv, [Next]_vars PROVE IInv'
  OBVIOUS
<1>1. CASE \E c \in Commands : CommandNext(c) /\ UNCHANGED byHand
  BY <1>1, CommandKeeps
<1>2. CASE SetupRole
  BY <1>2, SetupRoleKeeps
<1>3. ASSUME NEW r \in Roles, AdminDeletesRole(r)
      PROVE  IInv'
  BY <1>3, DeleteRoleKeeps DEF AdminDeletesRole, catalogVars
<1>4. CASE UNCHANGED vars
  <2>1. UNCHANGED <<dbVars, discordVars, command, lastId, seenRoles, byHand>>
    BY <1>4 DEF vars, catalogVars
  <2>2. /\ \A t \in Tables : Table(t)' = Table(t)
        /\ UNCHANGED <<guildRoles, guild>>
    BY <2>1, TableFrame DEF discordVars, dbVars
  <2>3. TypeOK'
    BY <2>1, <2>2, Frame, DiscordFrame DEF IInv, TypeOK, TablesOK, CatalogTypeOK
  <2>4. CommandsOK'
    <3> SUFFICES ASSUME NEW d \in Commands
                 PROVE  ShapeOf(command[d])' /\ TargetOf(command[d])' /\ DroppedOf(command[d])'
      BY DEF CommandsOK
    <3>1. ShapeOf(command[d]) /\ TargetOf(command[d]) /\ DroppedOf(command[d])
      BY DEF IInv, CommandsOK
    <3>2. ShapeOf(command[d])' /\ DroppedOf(command[d])'
      BY <2>1, <2>2, <3>1 DEF ShapeOf, DroppedOf
    <3>3. TargetOf(command[d])'
      BY <2>1, <2>2, <3>1 DEF TargetOf
    <3> QED BY <3>2, <3>3
  <2>5. GoneHasCause' /\ GuildRoleSeen'
    BY <2>1, <2>2 DEF IInv, GoneHasCause, GuildRoleSeen
  <2>6. MadeRolesAreConfigured'
    BY <2>1, <2>2 DEF IInv, MadeRolesAreConfigured, RolesOf
  <2> QED BY <2>3, <2>4, <2>5, <2>6 DEF IInv
<1> QED BY <1>1, <1>2, <1>3, <1>4 DEF Next

LEMMA Invariance == Spec => []IInv
<1> QED BY InitIInv, Inductive, PTL DEF Spec

\* Every row keeps its keys, and every handler its shape, whatever the
\* commands do to each other (levels.rs, classes.rs, groups.rs).
THEOREM TypeCorrect == Spec => []TypeOK
<1>1. IInv => TypeOK
  BY DEF IInv
<1> QED BY <1>1, Invariance, PTL

\* A role the bot made is configured, or its row is to come or was refused, or
\* Discord would not delete it (levels.rs:42-72, 116-131, and the like).
THEOREM MadeRolesHaveCause == Spec => []MadeRolesAreConfigured
<1>1. IInv => MadeRolesAreConfigured
  BY DEF IInv
<1> QED BY <1>1, Invariance, PTL

\* A configured role exists, or was deleted by hand, or a removal of it has
\* stopped half-way, or it was configured twice (levels.rs:116-131).
THEOREM ConfiguredRolesHaveCause == Spec => []ConfiguredRolesExist
<1>1. IInv => ConfiguredRolesExist
  <2> SUFFICES ASSUME IInv PROVE ConfiguredRolesExist
    OBVIOUS
  <2>1. ASSUME NEW t \in Tables, NEW row \in Table(t), row.role \notin guildRoles \cup byHand
        PROVE  HalfRemoved(row.role) \/ RemovedElsewhere(row.role, t, row.id)
    <3>1. PICK c \in Commands : /\ command[c].role = row.role
                                /\ command[c].at \in {"deleteRow", "removed"}
      BY <2>1, RowTypes DEF IInv, GoneHasCause
    <3>2. TargetOf(command[c])
      BY DEF IInv, CommandsOK
    <3>3. CASE command[c].at = "deleteRow"
      BY <3>1, <3>3 DEF HalfRemoved
    <3>4. CASE command[c].at = "removed"
      <4>1. ~(command[c].table = t /\ command[c].id = row.id)
        BY <3>2, <3>4 DEF TargetOf
      <4> QED BY <3>1, <3>4, <4>1 DEF RemovedElsewhere
    <3> QED BY <3>1, <3>3, <3>4
  <2>2. ASSUME guild.role \notin guildRoles \cup byHand \cup {NoRole}
        PROVE  HalfRemoved(guild.role) \/ RemovedElsewhere(guild.role, "guilds", NoId)
    <3>1. PICK c \in Commands : /\ command[c].role = guild.role
                                /\ command[c].at \in {"deleteRow", "removed"}
      BY <2>2 DEF IInv, GoneHasCause, GuildRoleSeen
    <3>2. TargetOf(command[c])
      BY DEF IInv, CommandsOK
    <3>3. command[c].table # "guilds"
      BY <3>1, <3>2 DEF TargetOf, Tables
    <3> QED BY <3>1, <3>3 DEF HalfRemoved, RemovedElsewhere
  <2> QED BY <2>1, <2>2 DEF ConfiguredRolesExist
<1> QED BY <1>1, Invariance, PTL

\* Ids are not reused, so the row a command deletes by id is still the one it
\* found by name (query.rs:155-161, levels.rs:106-131).
THEOREM RemovesOnlyWhatWasNamed == Spec => RemovesWhatWasNamed
<1> DEFINE Named == \A t \in Tables : \A row \in Table(t) \ Table(t)' :
                      \E c \in Commands :
                        /\ command[c].at = "deleteRow" /\ command'[c].at = "removed"
                        /\ command[c].table = t /\ command[c].name = row.name
<1>1. IInv /\ [Next]_vars => [Named]_vars
  <2> SUFFICES ASSUME IInv, Next, NEW t \in Tables, NEW row \in Table(t), row \notin Table(t)'
               PROVE  \E c \in Commands :
                        /\ command[c].at = "deleteRow" /\ command'[c].at = "removed"
                        /\ command[c].table = t /\ command[c].name = row.name
    OBVIOUS
  <2>1. Table(t)' # Table(t)
    OBVIOUS
  <2>2. ~UNCHANGED dbVars
    BY <2>1, TableFrame
  <2>3. PICK c \in Commands : Insert(c) \/ RemoveRow(c)
    <3>1. ~SetupRole
      BY <2>1, TableIs, TableIsNext DEF SetupRole, SetVerifiedRole, Tables
    <3> QED BY <2>2, <3>1 DEF Next, AdminDeletesRole, CommandNext, CommandBot, Add, AddClass,
                              CountClasses, MakeRole, Remove, RemoveRole, CommandFail
  <2>4. ~Insert(c)
    <3> SUFFICES ASSUME Insert(c) PROVE FALSE
      OBVIOUS
    <3>1. InsertNewRow(c, NextId(command[c].table)) /\ command[c].table \in Tables
      BY <2>2 DEF Insert, CommandAt, IInv, CommandsOK, ShapeOf, CommandSteps
    <3>2. PICK u \in Tables : command[c].table = u
      BY <3>1
    <3>3. PICK i : InsertNewRow(c, i)
      BY <3>1
    <3>4. Table(t) \subseteq Table(t)'
      BY <3>2, <3>3, InsertedTable
    <3> QED BY <3>4
  <2>5. /\ CommandAt(c, "deleteRow") /\ DeleteNamedRow(c) /\ CommandGoto(c, "removed")
    BY <2>2, <2>3, <2>4 DEF RemoveRow
  <2>6. command[c].at = "deleteRow" /\ TargetOf(command[c])
    BY <2>5 DEF CommandAt, IInv, CommandsOK
  <2>7. PICK u \in Tables : command[c].table = u
    BY <2>6 DEF TargetOf
  <2>8. u = t /\ row.id = command[c].id
    BY <2>5, <2>7, DeletedTable
  <2>9. command'[c].at = "removed"
    BY <2>5, EndMoves
  <2> QED BY <2>6, <2>7, <2>8, <2>9 DEF TargetOf
<1> QED BY <1>1, Invariance, PTL DEF Spec, RemovesWhatWasNamed
=============================================================================
