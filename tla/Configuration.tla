---------------------------- MODULE Configuration ----------------------------
(***************************************************************************)
(* Admins who configure one guild at the same time: the commands of module *)
(* Catalog, the setup commands (src/src/commands/setup/mod.rs), and roles  *)
(* deleted by hand in Discord.  Members of the guild hold roles and rows   *)
(* already; modules Login and Logout say how they came by them.            *)
(***************************************************************************)
EXTENDS Catalog

CONSTANTS OldRoles,                         \* the roles before the first command
          Deletable,                        \* bound: the roles admins may delete
          InitialVerified, InitialGroupOf,
          MaxLevels                         \* MAX_LEVELS_PER_GUILD

RolesOf(t) == {row.role : row \in t}

ASSUME ConfigurationAssumption ==
  /\ OldRoles \subseteq Roles
  /\ \A t \in Tables : RolesOf(InitialTable(t)) \subseteq OldRoles
  /\ InitialGuild.role \in OldRoles \cup {NoRole}
  /\ InitialVerified \subseteq Verified /\ InitialGroupOf \subseteq GroupOf
  /\ \A a, b \in InitialVerified : a.member = b.member => a = b
  /\ \A v \in InitialVerified : /\ v.member \in IdsOf(InitialMembers)
                                /\ v.class \in IdsOf(InitialClasses)
  /\ \A g \in InitialGroupOf : /\ \E v \in InitialVerified : v.member = g.member
                               /\ g.group \in IdsOf(InitialGroups)

VARIABLE byHand    \* the roles admins deleted in Discord

vars == <<dbVars, discordVars, catalogVars, byHand>>

Init ==
  /\ guild = InitialGuild
  /\ levels = InitialLevels /\ classes = InitialClasses /\ groups = InitialGroups
  /\ members = InitialMembers
  /\ verified = InitialVerified /\ groupOf = InitialGroupOf
  /\ guildRoles = OldRoles
  /\ roles \in [Users -> {OldRoles}]
  /\ CommandInit
  /\ byHand = {}

\* setup_role: one statement.  The role was there when the admin chose it.  A
\* role with administrator permissions is refused, and nothing shows it.
SetupRole ==
  /\ \E r \in seenRoles : SetVerifiedRole(r)
  /\ UNCHANGED <<discordVars, catalogVars, byHand>>

AdminDeletesRole(r) ==
  /\ r \in Deletable
  /\ DeleteRole(r)
  /\ byHand' = byHand \cup {r}
  /\ UNCHANGED <<dbVars, catalogVars>>

Next ==
  \/ \E c \in Commands : CommandNext(c) /\ UNCHANGED byHand
  \/ SetupRole
  \/ \E r \in Roles : AdminDeletesRole(r)

Spec == Init /\ [][Next]_vars

-----------------------------------------------------------------------------
(* Correctness. *)

\* Ranges, and the keys the database enforces.
TypeOK == /\ DatabaseTypeOK /\ KeysOK /\ DiscordTypeOK /\ CatalogTypeOK
          /\ byHand \subseteq Roles

\* A command is between deleting a role and deleting its row, or never got
\* there: it failed, or the row is still referred to.
HalfRemoved(r) == \E c \in Commands : command[c].at = "deleteRow" /\ command[c].role = r

\* A command has removed a row of this role, other than the given one.
RemovedElsewhere(r, t, id) ==
  \E c \in Commands : /\ command[c].at = "removed" /\ command[c].role = r
                      /\ ~(command[c].table = t /\ command[c].id = id)

\* The configuration names roles that exist.  Otherwise an admin deleted the
\* role, a removal stopped half-way, or the same role was configured twice and
\* removed once.  No command that reports success leaves a row without a role.
ConfiguredRolesExist ==
  /\ \A t \in Tables : \A row \in Table(t) :
       \/ row.role \in guildRoles \cup byHand
       \/ HalfRemoved(row.role)
       \/ RemovedElsewhere(row.role, t, row.id)
  /\ \/ guild.role \in guildRoles \cup byHand \cup {NoRole}
     \/ HalfRemoved(guild.role)
     \/ RemovedElsewhere(guild.role, "guilds", NoId)

\* A role the bot made is configured.  Otherwise its row is still to come or
\* was refused, or it outlived its row because Discord would not delete it.
MadeRolesAreConfigured ==
  \A r \in guildRoles \ OldRoles :
    \/ \E t \in Tables : r \in RolesOf(Table(t))
    \/ \E c \in Commands : /\ command[c].role = r
                           /\ \/ command[c].at = "insert"
                              \/ command[c].at = "removed" /\ command[c].refused

\* A row disappears only when a command that was given its name removes it,
\* whatever was removed and added between the command's query and its deletion.
RemovesWhatWasNamed ==
  [][ \A t \in Tables : \A row \in Table(t) \ Table(t)' :
        \E c \in Commands : /\ command[c].at = "deleteRow" /\ command'[c].at = "removed"
                            /\ command[c].table = t /\ command[c].name = row.name ]_vars

-----------------------------------------------------------------------------
(* Claims of the repository that do not hold. *)

\* constants.rs, MAX_LEVELS_PER_GUILD: "Maximum number of levels that can be
\* created per guild".  But levels_add does not look; levels_list does.
LevelsWithinLimit == Cardinality(levels) =< MaxLevels

\* constants.rs, MAX_CLASSES_PER_LEVEL: "The maximum number of classes that can
\* be created per level".  But two commands may count before either inserts.
ClassesWithinLimit == \A l \in levels : Cardinality(ClassesOf(l.id)) =< MaxClasses
=============================================================================
