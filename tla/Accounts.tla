------------------------------ MODULE Accounts ------------------------------
(***************************************************************************)
(* Everything that links a Discord user to a school account, running       *)
(* together: logins, logouts and group choices of the same users, the      *)
(* owner's forced logout, and admins who delete roles.  Each handler is a  *)
(* task of its own (src/src/events/mod.rs), and what they share is the     *)
(* database and the roles on Discord.                                      *)
(***************************************************************************)
EXTENDS Linking, GroupMenu, FiniteSets

CONSTANT Deletable   \* bound: the roles admins may delete

VARIABLE forced    \* the users the bot's owner logged out

vars == <<dbVars, discordVars, login, logout, press, forced>>

\* The guild is configured; nobody has logged in.
Init ==
  /\ guild = InitialGuild
  /\ levels = InitialLevels /\ classes = InitialClasses /\ groups = InitialGroups
  /\ members = InitialMembers
  /\ verified = {} /\ groupOf = {}
  /\ guildRoles = Roles
  /\ roles = [u \in Users |-> {}]
  /\ LoginInit /\ LogoutInit /\ PressInit
  /\ forced = {}

\* debug_force_logout: a query and a statement.  The statement deletes the row
\* the query found or, if that is gone, nothing.  The roles stay.
ForceLogout(u) ==
  /\ \E i \in VerifiedIds(u) : CanDeleteVerified(i) /\ DeleteVerified(i)
  /\ forced' = forced \cup {u}
  /\ UNCHANGED <<discordVars, login, logout, press>>

AdminDeletesRole(r) ==
  /\ r \in Deletable
  /\ DeleteRole(r)
  /\ UNCHANGED <<dbVars, login, logout, press, forced>>

Next ==
  \/ \E s \in Logins : LoginNext(s) /\ UNCHANGED <<logout, press, forced>>
  \/ \E o \in Logouts : LogoutNext(o) /\ UNCHANGED <<login, press, forced>>
  \/ \E g \in Presses : PressNext(g) /\ UNCHANGED <<login, logout, forced>>
  \/ \E u \in Users : ForceLogout(u)
  \/ \E r \in Roles : AdminDeletesRole(r)

Spec == Init /\ [][Next]_vars

\* Each statement of a logout takes a connection of the pool, and a login holds
\* one while its user is with Google (Pool shows who waits for whom).
NobodyAway == \A s \in Logins : ~At(s, "oauth")

LogoutWithoutConnection(o) == ConfirmTimesOut(o) \/ TakeVerifiedRole(o)

LogoutWithConnection(o) == DeleteRow(o) \/ ReadVerifiedRole(o)

\* Calls of Discord and queries are answered in the end, well or badly, and
\* collectors time out.  A login has its connection from its start; a logout
\* is only sure to get one while no login's user is away.  Nobody makes a user
\* choose, confirm or authenticate.
Fairness ==
  /\ \A s \in Logins : WF_vars(LoginBot(s) /\ UNCHANGED <<logout, press, forced>>)
  /\ \A o \in Logouts :
       /\ WF_vars(LogoutWithoutConnection(o) /\ UNCHANGED <<login, press, forced>>)
       /\ WF_vars(NobodyAway /\ LogoutWithConnection(o) /\ UNCHANGED <<login, press, forced>>)

FairSpec == Spec /\ Fairness

-----------------------------------------------------------------------------
(* Correctness. *)

\* Ranges, and the keys the database enforces.
TypeOK == /\ DatabaseTypeOK /\ KeysOK /\ DiscordTypeOK
          /\ LoginTypeOK /\ LogoutTypeOK /\ PressTypeOK
          /\ forced \subseteq Users

\* Roles and rows are for authenticated users only: whoever holds a role of the
\* bot or has a row in verified_members once proved a mail of the right domain.
OnlyProvenUsers ==
  \A u \in Users : roles[u] # {} \/ VerifiedIds(u) # {} =>
    \E s \in Logins : LoginOf[s] = u /\ Proven(s)

\* Why a role that was granted is missing: it was deleted, or a logout that
\* overtook the login has taken it.
Lost(u, r) == \/ r \notin guildRoles
              \/ \E o \in Logouts : /\ LogoutOf[o] = u
                                    /\ logout[o].at = "done" /\ logout[o].role = r

\* Every row is the work of one login of that member, which proved that mail,
\* chose that class, and granted all three roles before it wrote the row
\* (apply_changes).
VerifiedMembersWereGranted ==
  \A v \in verified : \E s \in Logins :
    /\ login[s].at = "linked" /\ NewRow(s) = v /\ Proven(s)
    /\ [id |-> v.member, user |-> LoginOf[s]] \in members
    /\ \A r \in {login[s].role, login[s].levelRole, login[s].classRole} :
         r \in roles[LoginOf[s]] \/ Lost(LoginOf[s], r)

\* The reasons a user without a row may still hold a role of the bot: a login
\* that has granted it and not yet, or never, written its row; a logout that
\* has deleted the row and does not take this role; a forced logout.
ExcusedToHold(u, r) ==
  \/ \E s \in Logins : /\ LoginOf[s] = u
                       /\ login[s].at \in {"grantLevel", "forgetLevel", "grantClass",
                                           "forgetClass", "insert"}
  \/ \E o \in Logouts : /\ LogoutOf[o] = u
                        /\ \/ logout[o].at \in {"readRole", "takeRole"}
                           \/ logout[o].at = "done" /\ logout[o].role # r
  \/ u \in forced

RolesWithoutRowAreExcused ==
  \A u \in Users : \A r \in roles[u] : VerifiedIds(u) = {} => ExcusedToHold(u, r)

\* A member is linked once per logout: between two successes of his logins
\* somebody deleted his row.
Successes(u) == {s \in Logins : LoginOf[s] = u /\ login[s].at = "linked"}
Deletions(u) == {o \in Logouts : LogoutOf[o] = u /\ logout[o].at \in {"readRole", "takeRole", "done"}}

LinkedOnceAtATime ==
  \A u \in Users \ forced :
    Cardinality(Successes(u)) =< Cardinality(Deletions(u)) + 1

\* However the presses of the groups menu interleave, a member was told at
\* most once more that he was put into a group than that he was taken out.
Told(m, group, how) ==
  {g \in Presses : press[g].member = m /\ press[g].group = group /\ press[g].at = how}

PressesAddUp ==
  \A m \in Ids, group \in MenuGroups :
    Cardinality(Told(m, group, "added")) =< Cardinality(Told(m, group, "removed")) + 1

\* The bot drops what a guild configured only when the role is gone from
\* Discord (the RoleNotFound branches of apply_changes).
ForgetsOnlyDeletedRoles ==
  [][ /\ guild'.role # guild.role => guild.role \notin guildRoles
      /\ \A l \in levels \ levels' : l.role \notin guildRoles
      /\ \A k \in classes \ classes' : k.role \notin guildRoles ]_vars

\* A login whose user is back from Google always ends.  So does a logout if users
\* come back: nothing limits how long logout waits for its connections.
HandlersEnd ==
  /\ \A s \in Logins : (Running(s) /\ login[s].at # "oauth") ~>
                         (login[s].failed \/ login[s].at \in LoginEnds \cup {"oauth"})
  /\ (\A s \in Logins : []<>~At(s, "oauth"))
       => \A o \in Logouts : logout[o].at # "idle" ~>
                               (logout[o].failed \/ logout[o].at \in LogoutEnds)

-----------------------------------------------------------------------------
(* Claims of the repository that do not hold. *)

\* constants.rs, LOGOUT_OK_BUTTON_INTERACTION: "Custom ID for the ok button in
\* logout interaction".  But the row is deleted without it too.
LogoutOnlyWhenConfirmed ==
  \A o \in Logouts : logout[o].at \in {"readRole", "takeRole", "done"} => logout[o].confirmed

\* login.rs, ask_user_guild_and_levels: "Ask the user to select a level and
\* then a guild".  But a second choice of level may be taken for the class.
ClassIsOfChosenLevel ==
  \A s \in Logins : login[s].at = "linked" => login[s].class \in login[s].classes
=============================================================================
