------------------------------- MODULE Catalog -------------------------------
(***************************************************************************)
(* The commands that keep a guild's levels, classes and groups             *)
(* (src/src/commands/levels.rs, classes.rs, groups.rs): `add` makes a role *)
(* on Discord, unless it is given one, and then a row; `remove` deletes    *)
(* the role and then the row.  The three files are one handler, up to the  *)
(* table and to what classes_add does first.  The `list` commands only     *)
(* read.                                                                   *)
(***************************************************************************)
EXTENDS Database, FiniteSets

CONSTANTS Commands,               \* the commands admins give
          MaxClasses,             \* MAX_CLASSES_PER_LEVEL
          InitialLastId           \* the AUTO_INCREMENT counters as the run finds them

Tables == {"levels", "classes", "groups"}

InitialTable(t) ==
  [levels |-> InitialLevels, classes |-> InitialClasses, groups |-> InitialGroups][t]

ASSUME CatalogAssumption ==
  /\ MaxClasses \in Nat
  /\ InitialLastId \in [Tables -> Nat]
  /\ \A t \in Tables : \A i \in IdsOf(InitialTable(t)) : i =< InitialLastId[t]

VARIABLES
  command,     \* command[c]: the handler of command c
  lastId,      \* lastId[t]: the AUTO_INCREMENT counter of table t
  seenRoles    \* every role the guild ever had; Discord does not reuse ids

catalogVars == <<command, lastId, seenRoles>>

Table(t) == [levels |-> levels, classes |-> classes, groups |-> groups][t]

CommandEnds == {"noSuchLevel", "tooMany", "notFound", "added", "removed"}

CommandSteps == {"idle", "count", "createRole", "insert", "deleteRole", "deleteRow"}

CommandState ==
  [at : CommandSteps \cup CommandEnds, failed : BOOLEAN,
   table : Tables \cup {"none"}, name : Names \cup {"none"},
   id : Ids \cup {NoId},             \* of the row to remove
   refused : BOOLEAN,                \* delete_role answered with an HTTP error
   level : Ids \cup {NoId},          \* level_id
   role : Roles \cup {NoRole}]

\* A row's id was counted, and a role it names exists or has existed.
CatalogTypeOK ==
  /\ command \in [Commands -> CommandState]
  /\ lastId \in [Tables -> Nat]
  /\ seenRoles \subseteq Roles /\ guildRoles \subseteq seenRoles
  /\ \A t \in Tables : \A row \in Table(t) : row.id =< lastId[t] /\ row.role \in seenRoles

CommandInit ==
  /\ command = [c \in Commands |->
       [at |-> "idle", failed |-> FALSE, table |-> "none", name |-> "none", id |-> NoId,
        refused |-> FALSE, level |-> NoId, role |-> NoRole]]
  /\ lastId = InitialLastId
  /\ seenRoles = guildRoles

CommandAt(c, step) == command[c].at = step /\ ~command[c].failed

CommandFails(c) == command' = [command EXCEPT ![c].failed = TRUE]

CommandGoto(c, step) == command' = [command EXCEPT ![c].at = step]

-----------------------------------------------------------------------------
(* levels_add, classes_add, groups_add *)

AfterChecks(role) == IF role = NoRole THEN "createRole" ELSE "insert"

\* A group's emoji that does not parse ends the command here; nothing shows it.
Add(c) ==
  /\ CommandAt(c, "idle")
  /\ \E t \in {"levels", "groups"}, name \in Names, role \in guildRoles \cup {NoRole} :
       command' = [command EXCEPT ![c].at = AfterChecks(role), ![c].table = t,
                                  ![c].name = name, ![c].role = role]
  /\ UNCHANGED <<dbVars, discordVars, lastId, seenRoles>>

AddClass(c) ==
  /\ CommandAt(c, "idle")
  /\ \E name, level \in Names, role \in guildRoles \cup {NoRole} :
       LET found == {l \in levels : l.name = level} IN
       \/ /\ found = {}
          /\ CommandGoto(c, "noSuchLevel")
       \/ \E l \in found :
            command' = [command EXCEPT ![c].at = "count", ![c].table = "classes",
                                       ![c].name = name, ![c].level = l.id, ![c].role = role]
  /\ UNCHANGED <<dbVars, discordVars, lastId, seenRoles>>

CountClasses(c) ==
  /\ CommandAt(c, "count")
  /\ CommandGoto(c, IF Cardinality(ClassesOf(command[c].level)) >= MaxClasses
                    THEN "tooMany" ELSE AfterChecks(command[c].role))
  /\ UNCHANGED <<dbVars, discordVars, lastId, seenRoles>>

MakeRole(c) ==
  /\ CommandAt(c, "createRole")
  /\ \E r \in Roles \ seenRoles :
       /\ CreateRole(r)
       /\ seenRoles' = seenRoles \cup {r}
       /\ command' = [command EXCEPT ![c].at = "insert", ![c].role = r]
  /\ UNCHANGED <<dbVars, lastId>>

NextIdReused(t) ==   \* faulty: MAX(id) + 1 instead of AUTO_INCREMENT
  1 + CHOOSE i \in IdsOf(Table(t)) \cup {0} : \A j \in IdsOf(Table(t)) : j =< i

NextId(t) == lastId[t] + 1

\* The keys of the table, and level_id REFERENCES levels.
CanInsertRow(c, i) ==
  /\ Fits(Table(command[c].table), [id |-> i, name |-> command[c].name, role |-> command[c].role])
  /\ command[c].table = "classes" => command[c].level \in IdsOf(levels)

InsertNewRow(c, i) ==
  LET row == [id |-> i, name |-> command[c].name, role |-> command[c].role] IN
  \/ command[c].table = "levels" /\ InsertLevel(row)
  \/ /\ command[c].table = "classes"
     /\ InsertClass([id |-> i, name |-> row.name, level |-> command[c].level, role |-> row.role])
  \/ command[c].table = "groups" /\ InsertGroup(row)

\* A refused row leaves the role behind.
Insert(c) ==
  LET i == NextId(command[c].table) IN
  /\ CommandAt(c, "insert")
  /\ i \in Ids                  \* bound
  /\ \/ /\ CanInsertRow(c, i)
        /\ InsertNewRow(c, i)
        /\ lastId' = [lastId EXCEPT ![command[c].table] = i]
        /\ CommandGoto(c, "added")
     \/ /\ ~CanInsertRow(c, i)
        /\ CommandFails(c)
        /\ UNCHANGED <<dbVars, lastId>>
  /\ UNCHANGED <<discordVars, seenRoles>>

-----------------------------------------------------------------------------
(* levels_remove, classes_remove, groups_remove *)

RemoveWithoutRole(c) ==   \* faulty: only the row is removed
  /\ CommandAt(c, "idle")
  /\ \E t \in Tables : \E row \in Table(t) :
       command' = [command EXCEPT ![c].at = "deleteRow", ![c].table = t, ![c].name = row.name,
                                  ![c].id = row.id, ![c].role = row.role]
  /\ UNCHANGED <<dbVars, discordVars, lastId, seenRoles>>

Remove(c) ==
  /\ CommandAt(c, "idle")
  /\ \E t \in Tables, name \in Names :
       LET found == {row \in Table(t) : row.name = name} IN
       \/ /\ found = {}
          /\ CommandGoto(c, "notFound")
       \/ \E row \in found :
            command' = [command EXCEPT ![c].at = "deleteRole", ![c].table = t, ![c].name = name,
                                       ![c].id = row.id, ![c].role = row.role]
  /\ UNCHANGED <<dbVars, discordVars, lastId, seenRoles>>

\* Discord deletes the role, or answers with an HTTP error: the role does not
\* exist any more, or the bot may not delete it.  The handler goes on.
RemoveRole(c) ==
  /\ CommandAt(c, "deleteRole")
  /\ \/ /\ DeleteRole(command[c].role)
        /\ CommandGoto(c, "deleteRow")
     \/ /\ command' = [command EXCEPT ![c].at = "deleteRow", ![c].refused = TRUE]
        /\ UNCHANGED discordVars
  /\ UNCHANGED <<dbVars, lastId, seenRoles>>

CanDeleteRow(c) ==
  CASE command[c].table = "levels"  -> CanDeleteLevel(command[c].id)
    [] command[c].table = "classes" -> CanDeleteClass(command[c].id)
    [] command[c].table = "groups"  -> CanDeleteGroup(command[c].id)

DeleteNamedRow(c) ==
  \/ command[c].table = "levels" /\ DeleteLevel(command[c].id)
  \/ command[c].table = "classes" /\ DeleteClass(command[c].id)
  \/ command[c].table = "groups" /\ DeleteGroup(command[c].id)

RemoveRowQuietly(c) ==   \* faulty: a refused deletion is not reported
  /\ CommandAt(c, "deleteRow")
  /\ IF CanDeleteRow(c) THEN DeleteNamedRow(c) ELSE UNCHANGED dbVars
  /\ CommandGoto(c, "removed")
  /\ UNCHANGED <<discordVars, lastId, seenRoles>>

RemoveRow(c) ==
  /\ CommandAt(c, "deleteRow")
  /\ IF CanDeleteRow(c)
     THEN DeleteNamedRow(c) /\ CommandGoto(c, "removed")
     ELSE UNCHANGED dbVars /\ CommandFails(c)
  /\ UNCHANGED <<discordVars, lastId, seenRoles>>

\* Any query or call may fail, and `?` returns.
CommandFail(c) == /\ command[c].at \in CommandSteps \ {"idle"}
                  /\ ~command[c].failed
                  /\ CommandFails(c)
                  /\ UNCHANGED <<dbVars, discordVars, lastId, seenRoles>>

-----------------------------------------------------------------------------
CommandBot(c) == \/ CountClasses(c) \/ MakeRole(c) \/ Insert(c)
                 \/ RemoveRole(c) \/ RemoveRow(c)

CommandNext(c) == Add(c) \/ AddClass(c) \/ Remove(c) \/ CommandBot(c) \/ CommandFail(c)
=============================================================================
