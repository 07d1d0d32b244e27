--------------------------------- MODULE Bot ---------------------------------
(***************************************************************************)
(* One guild over its life: it is made known to the bot and configured,    *)
(* members come and go, log in and log out, and roles are deleted, with    *)
(* every handler in a task of its own.  Module Accounts looks closer at    *)
(* the members of a guild that does not change.                            *)
(***************************************************************************)
EXTENDS Linking, Setup

CONSTANTS Movers,        \* bound: the users that come and go
          VerifiedRoles, \* bound: the roles setup_role is given
          Deletable,     \* bound: the roles admins may delete
          MaxStarted     \* bound: how many handlers are started

\* setup_login_message asks for the role before it posts a message.
ASSUME BotAssumption == Posts = {} \/ InitialGuild.role # NoRole

VARIABLE interrupted     \* history: the logins whose user left after the press

vars == <<dbVars, discordVars, login, logout, membershipVars, setupVars, interrupted>>

\* The guild is configured already, or the bot has never seen it.
Init ==
  /\ \/ /\ guildKnown = TRUE /\ guild = InitialGuild
        /\ levels = InitialLevels /\ classes = InitialClasses /\ groups = InitialGroups
        /\ members = InitialMembers
        /\ SetupInit(Posts)
     \/ /\ guildKnown = FALSE /\ guild = NoGuild
        /\ levels = {} /\ classes = {} /\ groups = {}
        /\ members = {}
        /\ SetupInit({})
  /\ verified = {} /\ groupOf = {}
  /\ guildRoles = Roles
  /\ roles = [u \in Users |-> {}]
  /\ LoginInit /\ LogoutInit /\ MembershipInit(Users)
  /\ interrupted = {}

\* Presses need a message, and a user who is there to see it; a query of the
\* guild's row needs the row; and Discord changes the roles of its members only.
LoginStep(s) ==
  /\ LoginNext(s)
  /\ At(s, "idle") => posted # {} /\ LoginOf[s] \in present
  /\ At(s, "components") /\ ~guildKnown => Fails(s)
  /\ roles' # roles => LoginOf[s] \in present
  /\ UNCHANGED <<logout, membershipVars, setupVars, interrupted>>

LogoutStep(o) ==
  /\ LogoutNext(o)
  /\ LogoutAt(o, "idle") => posted # {} /\ LogoutOf[o] \in present
  /\ LogoutAt(o, "readRole") /\ ~guildKnown => LogoutFails(o)
  /\ LogoutAt(o, "takeRole") /\ LogoutOf[o] \notin present => LogoutFails(o)
  /\ UNCHANGED <<login, membershipVars, setupVars, interrupted>>

Move(u) ==
  /\ u \in Movers
  /\ \/ Joins(u) /\ UNCHANGED interrupted
     \/ /\ Leaves(u)
        /\ interrupted' = interrupted \cup {s \in Logins : LoginOf[s] = u /\ login[s].at # "idle"}
  /\ UNCHANGED <<login, logout, setupVars>>

AdminDeletesRole(r) ==
  /\ r \in Deletable
  /\ DeleteRole(r)
  /\ UNCHANGED <<dbVars, login, logout, membershipVars, setupVars, interrupted>>

Started == Cardinality({t \in Tasks : task[t].at # "idle"})
           + Cardinality({s \in Logins : login[s].at # "idle"})
           + Cardinality({o \in Logouts : logout[o].at # "idle"})

FewStarted == Started' =< MaxStarted

TaskStep(t) == TaskNext(t) /\ UNCHANGED <<login, logout, setupVars, interrupted>>

PostStep(p) == PostNext(p) /\ UNCHANGED <<login, logout, interrupted>>

SetupStep == /\ \/ \E r \in VerifiedRoles : SetupRole(r)
                \/ \E d \in Domains : SetupPattern(d)
             /\ UNCHANGED <<login, logout, interrupted>>

Next ==
  \/ \E s \in Logins : LoginStep(s) /\ FewStarted
  \/ \E o \in Logouts : LogoutStep(o) /\ FewStarted
  \/ \E u \in Users : Move(u) /\ FewStarted
  \/ \E t \in Tasks : TaskStep(t) /\ FewStarted
  \/ \E p \in Posts : PostStep(p)
  \/ SetupStep
  \/ \E r \in Roles : AdminDeletesRole(r)

Spec == Init /\ [][Next]_vars

-----------------------------------------------------------------------------
(* Correctness. *)

\* Ranges, and the keys: those of one table refer to another, and every row
\* to the guild's.
TypeOK ==
  /\ DatabaseTypeOK /\ KeysOK /\ DiscordTypeOK
  /\ LoginTypeOK /\ LogoutTypeOK /\ MembershipTypeOK /\ SetupTypeOK
  /\ levels \cup classes \cup groups \cup members # {} => guildKnown
  /\ interrupted \subseteq Logins

\* A task overtook another one: it removed the row of a user who was back, or
\* added a row for a user who had left.
Overtaken(u) == \E t \in Tasks : u \in task[t].late

\* Task t was to take one of the steps for user u, and has not, or failed to.
Unfinished(u, steps) == \E t \in Tasks : task[t].users = {u} /\ task[t].at \in steps

\* Who is in the guild has a row (GuildMemberAddition).  Otherwise the bot
\* never heard of him, his task is under way or failed, or the task of an
\* earlier leave ran after that of the join.
PresentUsersAreKnown ==
  \A u \in present : MemberIds(u) = {} =>
    \/ u \in missed
    \/ Unfinished(u, {"look", "insert"})
    \/ Overtaken(u)

\* Who has a row is in the guild (GuildMemberRemoval).  Otherwise the bot never
\* heard that he left, his removal is under way or failed, as it does for a
\* verified member, or he left while a row was being added for him.
KnownUsersArePresent ==
  \A m \in members : m.user \notin present =>
    \/ m.user \in missed
    \/ Unfinished(m.user, {"delete"})
    \/ Overtaken(m.user)

\* The refresh command loads everybody: who stayed in the guild from its first
\* page to its last has a row, page limits and bots notwithstanding, unless
\* the task of an earlier leave took the row away.
RefreshLoadsEverybody ==
  \A t \in Tasks : task[t].at = "loaded" =>
    \A u \in task[t].users \ Bots : MemberIds(u) # {} \/ Overtaken(u)

\* A verified member has the three roles of his login.  Otherwise one was
\* deleted, a logout took it, or he left the guild and lost them all: nothing
\* gives them back when he returns, and he cannot log in again.
Lost(s, r) ==
  \/ r \notin guildRoles
  \/ \E o \in Logouts : /\ LogoutOf[o] = LoginOf[s]
                        /\ logout[o].at = "done" /\ logout[o].role = r
  \/ s \in interrupted

VerifiedMembersKeepRoles ==
  \A v \in verified : \E s \in Logins :
    /\ login[s].at = "linked" /\ NewRow(s) = v
    /\ [id |-> v.member, user |-> LoginOf[s]] \in members
    /\ \A r \in {login[s].role, login[s].levelRole, login[s].classRole} :
         r \in roles[LoginOf[s]] \/ Lost(s, r)

\* What a guild has configured stays until a setup command changes it.
\* Otherwise a login found the role it had read gone, though another one may
\* have been configured since; or the guild was reported as deleted while no
\* row referred to it.
ConfigurationIsKept ==
  [][ \A key \in {"role", "domain"} :
        guild[key] \notin {guild'[key], NoGuild[key]} =>
          \/ guild'[key] # NoGuild[key]
          \/ key = "role" /\ \E s \in Logins : /\ At(s, "forgetVerified")
                                               /\ login[s].role \notin guildRoles
          \/ ~guildKnown' /\ members = {} /\ levels = {} ]_vars

\* Nobody is offered a login that was never set up (setup_login_message asks
\* for the role).  A login finds no role or domain only if the mail domain was
\* not asked for, a login forgot the role, or the guild was reported as deleted.
OfferedLoginsAreSetUp ==
  [][ \A s \in Logins : At(s, "components") /\ login'[s].at = "notSetUp" =>
        \/ guild.role # NoRole /\ guild.domain = NoDomain
        \/ \E other \in Logins : login[other].at = "forgetVerified" /\ login[other].failed
        \/ \E t \in Tasks : task[t].at = "guildDeleted" ]_vars
=============================================================================
