------------------------------- MODULE Discord -------------------------------
(***************************************************************************)
(* What the bot sees of a Discord guild: its roles and who holds them.     *)
(* This is not code of the repository; it is what add_role, remove_role    *)
(* and the guild's admins do to that state.                                *)
(***************************************************************************)
CONSTANTS Users, Roles

VARIABLES
  guildRoles,   \* the roles that exist in the guild
  roles         \* roles[u]: the roles user u holds

discordVars == <<guildRoles, roles>>

DiscordTypeOK == /\ guildRoles \subseteq Roles
                 /\ roles \in [Users -> SUBSET Roles]

\* Member::add_role of a role that exists
GrantRole(u, r) == /\ r \in guildRoles
                   /\ roles' = [roles EXCEPT ![u] = @ \cup {r}]
                   /\ UNCHANGED guildRoles

\* Member::remove_role of a role that exists, held or not
TakeRole(u, r) == /\ r \in guildRoles
                  /\ roles' = [roles EXCEPT ![u] = @ \ {r}]
                  /\ UNCHANGED guildRoles

\* A guild admin deletes a role: everybody loses it.
DeleteRole(r) == /\ r \in guildRoles
                 /\ guildRoles' = guildRoles \ {r}
                 /\ roles' = [u \in Users |-> roles[u] \ {r}]

\* A user leaves the guild, and his roles with him.
DropRoles(u) == /\ roles' = [roles EXCEPT ![u] = {}]
                /\ UNCHANGED guildRoles

\* GuildId::create_role: a role of an id nobody has seen
CreateRole(r) == /\ guildRoles' = guildRoles \cup {r}
                 /\ UNCHANGED roles
=============================================================================
