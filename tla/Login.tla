-------------------------------- MODULE Login --------------------------------
(***************************************************************************)
(* The login button (src/src/events/login.rs): one handler task for every  *)
(* press, from the check that the user is not verified yet to the row that *)
(* verifies him.  Each action is what the task does between two awaits: a  *)
(* query, a statement, a call to Discord or a choice of the user.          *)
(***************************************************************************)
EXTENDS Database

CONSTANTS Logins,         \* the presses of the login button
          LoginOf         \* who pressed

ASSUME LoginAssumption == LoginOf \in [Logins -> Users]

VARIABLE login            \* login[s]: the handler of press s

LoginEnds == {"alreadyVerified", "notSetUp", "noLevels", "notAuthenticated",
              "foreignDomain", "menuTimeout", "noClasses", "notRegistered", "linked"}

LoginSteps == {"idle", "components", "levels", "oauth", "levelMenu", "classes",
               "classMenu", "lookup", "levelRole", "classRole",
               "grantVerified", "forgetVerified", "grantLevel", "forgetLevel",
               "grantClass", "forgetClass", "insert"}

\* The locals of login and apply_changes; failed says it returned an error.
LoginState ==
  [at : LoginSteps \cup LoginEnds, failed : BOOLEAN,
   role : Roles \cup {NoRole},           \* verified_role
   domain : Domains \cup {NoDomain},     \* email_pattern
   mail : Domains \cup {NoDomain},       \* user_data.mail
   levels : SUBSET Ids, level : Ids \cup {NoId},
   classes : SUBSET Ids, class : Ids \cup {NoId},
   member : Ids \cup {NoId},             \* verified_member_id
   levelRole : Roles \cup {NoRole}, classRole : Roles \cup {NoRole}]

LoginTypeOK == login \in [Logins -> LoginState]

LoginInit ==
  login = [s \in Logins |->
    [at |-> "idle", failed |-> FALSE, role |-> NoRole, domain |-> NoDomain,
     mail |-> NoDomain, levels |-> {}, level |-> NoId, classes |-> {}, class |-> NoId,
     member |-> NoId, levelRole |-> NoRole, classRole |-> NoRole]]

At(s, step) == login[s].at = step /\ ~login[s].failed

Running(s) == ~login[s].failed /\ login[s].at \notin LoginEnds \cup {"idle"}

Goto(s, step) == login' = [login EXCEPT ![s].at = step]

Ends(s, how) == Goto(s, how) /\ UNCHANGED <<dbVars, discordVars>>

Fails(s) == login' = [login EXCEPT ![s].failed = TRUE]

-----------------------------------------------------------------------------
(* login, check_login_components *)

Start(s) ==
  /\ At(s, "idle")
  /\ Ends(s, IF VerifiedIds(LoginOf[s]) # {} THEN "alreadyVerified" ELSE "components")

ReadGuild(s) ==
  /\ At(s, "components")
  /\ IF guild.role = NoRole \/ guild.domain = NoDomain
     THEN Goto(s, "notSetUp")
     ELSE login' = [login EXCEPT ![s].at = "levels", ![s].role = guild.role,
                                 ![s].domain = guild.domain]
  /\ UNCHANGED <<dbVars, discordVars>>

ReadLevels(s) ==
  /\ At(s, "levels")
  /\ IF levels = {}
     THEN Goto(s, "noLevels")
     ELSE login' = [login EXCEPT ![s].at = "oauth", ![s].levels = IdsOf(levels)]
  /\ UNCHANGED <<dbVars, discordVars>>

\* The token came (module OAuth) and Google named the user's mail.
Authenticate(s) ==
  /\ At(s, "oauth")
  /\ login' = [login EXCEPT ![s].at = "levelMenu", ![s].mail = login[s].domain]
  /\ UNCHANGED <<dbVars, discordVars>>

AuthenticateAnywhere(s) ==   \* faulty: the domain is not compared
  /\ At(s, "oauth")
  /\ \E mail \in Domains :
       login' = [login EXCEPT ![s].at = "levelMenu", ![s].mail = mail]
  /\ UNCHANGED <<dbVars, discordVars>>

AuthenticateElsewhere(s) ==
  /\ At(s, "oauth")
  /\ \E mail \in Domains \ {login[s].domain} :
       login' = [login EXCEPT ![s].at = "foreignDomain", ![s].mail = mail]
  /\ UNCHANGED <<dbVars, discordVars>>

\* GoogleAuthentificationError::Timeout; other errors are a Fail.
NotAuthenticated(s) == At(s, "oauth") /\ Ends(s, "notAuthenticated")

-----------------------------------------------------------------------------
(* ask_user_guild_and_levels *)

ChooseLevel(s) ==
  /\ At(s, "levelMenu")
  /\ \E l \in login[s].levels :
       login' = [login EXCEPT ![s].at = "classes", ![s].level = l]
  /\ UNCHANGED <<dbVars, discordVars>>

ReadClasses(s) ==
  LET found == ClassesOf(login[s].level) IN
  /\ At(s, "classes")
  /\ IF found = {}
     THEN Goto(s, "noClasses")
     ELSE login' = [login EXCEPT ![s].at = "classMenu", ![s].classes = IdsOf(found)]
  /\ UNCHANGED <<dbVars, discordVars>>

\* The second collector takes any component of the message and does not look
\* at its custom_id: a late choice from the level menu is parsed as a class.
ChooseClass(s) ==
  /\ At(s, "classMenu")
  /\ \E k \in login[s].classes \cup login[s].levels :
       login' = [login EXCEPT ![s].at = "lookup", ![s].class = k]
  /\ UNCHANGED <<dbVars, discordVars>>

MenuTimesOutOnLevels(s) ==   \* faulty: no timeout on the second collector
  /\ At(s, "levelMenu")
  /\ Ends(s, "menuTimeout")

\* The collectors' 60 seconds.
MenuTimesOut(s) ==
  /\ At(s, "levelMenu") \/ At(s, "classMenu")
  /\ Ends(s, "menuTimeout")

LookUpMember(s) ==
  LET found == MemberIds(LoginOf[s]) IN
  /\ At(s, "lookup")
  /\ IF found = {}
     THEN Goto(s, "notRegistered")
     ELSE \E i \in found : login' = [login EXCEPT ![s].at = "levelRole", ![s].member = i]
  /\ UNCHANGED <<dbVars, discordVars>>

-----------------------------------------------------------------------------
(* apply_changes *)

\* `first` is an error when there is no such row.
ReadLevelRole(s) ==
  /\ At(s, "levelRole")
  /\ \/ \E l \in levels : /\ l.id = login[s].level
                          /\ login' = [login EXCEPT ![s].at = "classRole",
                                                    ![s].levelRole = l.role]
     \/ login[s].level \notin IdsOf(levels) /\ Fails(s)
  /\ UNCHANGED <<dbVars, discordVars>>

ReadClassRole(s) ==
  /\ At(s, "classRole")
  /\ \/ \E k \in classes : /\ k.id = login[s].class
                           /\ login' = [login EXCEPT ![s].at = "grantVerified",
                                                     ![s].classRole = k.role]
     \/ login[s].class \notin IdsOf(classes) /\ Fails(s)
  /\ UNCHANGED <<dbVars, discordVars>>

\* add_role either works or answers RoleNotFound; any other error is a Fail.
Grant(s, role, done, notFound) ==
  \/ GrantRole(LoginOf[s], role) /\ Goto(s, done) /\ UNCHANGED dbVars
  \/ role \notin guildRoles /\ Ends(s, notFound)

GrantVerifiedForgetful(s) ==   \* faulty: any error is taken for RoleNotFound
  /\ At(s, "grantVerified")
  /\ \/ Grant(s, login[s].role, "grantLevel", "forgetVerified")
     \/ Ends(s, "forgetVerified")

GrantVerified(s) ==
  /\ At(s, "grantVerified")
  /\ Grant(s, login[s].role, "grantLevel", "forgetVerified")

GrantLevelOnly(s) ==   \* faulty: the class role is never granted
  /\ At(s, "grantLevel")
  /\ Grant(s, login[s].levelRole, "insert", "forgetLevel")

GrantLevel(s) ==
  /\ At(s, "grantLevel")
  /\ Grant(s, login[s].levelRole, "grantClass", "forgetLevel")

GrantClass(s) ==
  /\ At(s, "grantClass")
  /\ Grant(s, login[s].classRole, "insert", "forgetClass")

\* The role is gone: so is what the guild configured with it, and the login
\* fails, whether the statement is refused or not.
ForgetVerified(s) ==
  /\ At(s, "forgetVerified")
  /\ SetVerifiedRole(NoRole)
  /\ Fails(s)
  /\ UNCHANGED discordVars

ForgetLevel(s) ==
  /\ At(s, "forgetLevel")
  /\ IF CanDeleteLevel(login[s].level) THEN DeleteLevel(login[s].level) ELSE UNCHANGED dbVars
  /\ Fails(s)
  /\ UNCHANGED discordVars

ForgetClass(s) ==
  /\ At(s, "forgetClass")
  /\ IF CanDeleteClass(login[s].class) THEN DeleteClass(login[s].class) ELSE UNCHANGED dbVars
  /\ Fails(s)
  /\ UNCHANGED discordVars

NewRow(s) == [member |-> login[s].member, mail |-> login[s].mail, class |-> login[s].class]

InsertRowAgain(s) ==   \* faulty: REPLACE instead of INSERT
  /\ At(s, "insert")
  /\ verified' = {v \in verified : v.member # login[s].member} \cup {NewRow(s)}
  /\ Goto(s, "linked")
  /\ UNCHANGED <<guild, levels, classes, groups, members, groupOf, discordVars>>

InsertRow(s) ==
  /\ At(s, "insert")
  /\ IF CanInsertVerified(NewRow(s))
     THEN InsertVerified(NewRow(s)) /\ Goto(s, "linked")
     ELSE UNCHANGED dbVars /\ Fails(s)
  /\ UNCHANGED discordVars

\* Any query or call may fail, and `?` returns.
Fail(s) == /\ Running(s)
           /\ Fails(s)
           /\ UNCHANGED <<dbVars, discordVars>>

-----------------------------------------------------------------------------
\* What the task does by itself, once Discord, Google and the database answer.
LoginBot(s) ==
  \/ ReadGuild(s) \/ ReadLevels(s) \/ ReadClasses(s) \/ MenuTimesOut(s)
  \/ LookUpMember(s) \/ ReadLevelRole(s) \/ ReadClassRole(s)
  \/ GrantVerified(s) \/ ForgetVerified(s)
  \/ GrantLevel(s) \/ ForgetLevel(s)
  \/ GrantClass(s) \/ ForgetClass(s)
  \/ InsertRow(s)

\* What takes a user.
LoginUser(s) == \/ Start(s)
                \/ Authenticate(s) \/ AuthenticateElsewhere(s) \/ NotAuthenticated(s)
                \/ ChooseLevel(s) \/ ChooseClass(s)

LoginNext(s) == LoginBot(s) \/ LoginUser(s) \/ Fail(s)
=============================================================================
