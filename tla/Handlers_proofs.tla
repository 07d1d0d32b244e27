-------------------------- MODULE Handlers_proofs --------------------------
(***************************************************************************)
(* What one step of a login or of a logout keeps and changes, whatever     *)
(* runs beside it.  The proofs about the two systems in which they run,    *)
(* Accounts and Bot, cite these lemmas.                                    *)
(***************************************************************************)
EXTENDS Login, Logout, Database_proofs

BeforeGoogle == {"idle", "components", "levels", "oauth",
                 "alreadyVerified", "notSetUp", "noLevels", "notAuthenticated"}

AfterGoogle == (LoginSteps \cup LoginEnds) \ (BeforeGoogle \cup {"foreignDomain"})

\* A login is past Google only with a proven mail, and has none before.
GoogleFirst ==
  \A s \in Logins : /\ login[s].at \in BeforeGoogle => login[s].mail = NoDomain
                    /\ login[s].at \in {"levels", "oauth"} => login[s].domain # NoDomain
                    /\ login[s].at \in AfterGoogle => /\ login[s].mail # NoDomain
                                                   /\ login[s].mail = login[s].domain

USE DEF TablesOK

-----------------------------------------------------------------------------
(* Types. *)

LEMMA LoginTypes ==
  ASSUME TablesOK, LoginTypeOK, NEW s \in Logins, LoginNext(s)
  PROVE  LoginTypeOK'
<1> USE LoginAssumption, IdAssumption DEF LoginTypeOK, At
<1> DEFINE t == login[s]
<1>0. t \in LoginState
  OBVIOUS
<1>1. ASSUME NEW step \in LoginSteps \cup LoginEnds, Goto(s, step) PROVE LoginTypeOK'
  BY <1>0, <1>1 DEF Goto, LoginState
<1>2. ASSUME Fails(s) PROVE LoginTypeOK'
  BY <1>0, <1>2 DEF Fails, LoginState
<1> USE DEF LoginSteps, LoginEnds
<1>3. CASE Start(s)
  BY <1>1, <1>3 DEF Start, Ends
<1>4. CASE ReadGuild(s)
  BY <1>0, <1>1, <1>4 DEF ReadGuild, LoginState, DatabaseTypeOK, Guild
<1>5. CASE ReadLevels(s)
  BY <1>0, <1>1, <1>5 DEF ReadLevels, LoginState, DatabaseTypeOK, Level, IdsOf
<1>6. CASE Authenticate(s) \/ AuthenticateElsewhere(s)
  BY <1>0, <1>6 DEF Authenticate, AuthenticateElsewhere, LoginState
<1>6a. CASE NotAuthenticated(s)
  BY <1>1, <1>6a DEF NotAuthenticated, Ends
<1>7. CASE ChooseLevel(s) \/ ChooseClass(s)
  BY <1>0, <1>7 DEF ChooseLevel, ChooseClass, LoginState
<1>8. CASE ReadClasses(s)
  BY <1>0, <1>1, <1>8 DEF ReadClasses, ClassesOf, LoginState, DatabaseTypeOK, Class, IdsOf
<1>9. CASE MenuTimesOut(s)
  BY <1>1, <1>9 DEF MenuTimesOut, Ends
<1>10. CASE LookUpMember(s)
  BY <1>0, <1>1, <1>10 DEF LookUpMember, MemberIds, LoginState, DatabaseTypeOK, Member
<1>11. CASE ReadLevelRole(s)
  BY <1>0, <1>2, <1>11 DEF ReadLevelRole, LoginState, DatabaseTypeOK, Level
<1>12. CASE ReadClassRole(s)
  BY <1>0, <1>2, <1>12 DEF ReadClassRole, LoginState, DatabaseTypeOK, Class
<1>13. CASE GrantVerified(s) \/ GrantLevel(s) \/ GrantClass(s)
  BY <1>1, <1>13 DEF GrantVerified, GrantLevel, GrantClass, Grant, Ends
<1>14. CASE ForgetVerified(s) \/ ForgetLevel(s) \/ ForgetClass(s) \/ Fail(s)
  BY <1>2, <1>14 DEF ForgetVerified, ForgetLevel, ForgetClass, Fail
<1>15. CASE InsertRow(s)
  BY <1>1, <1>2, <1>15 DEF InsertRow
<1> QED BY <1>3, <1>4, <1>5, <1>6, <1>6a, <1>7, <1>8, <1>9, <1>10, <1>11, <1>12, <1>13, <1>14, <1>15
        DEF LoginNext, LoginBot, LoginUser

LEMMA LogoutTypes ==
  ASSUME TablesOK, LogoutTypeOK, NEW o \in Logouts, LogoutNext(o)
  PROVE  LogoutTypeOK'
<1> USE LogoutAssumption DEF LogoutTypeOK, LogoutState
<1>0. logout[o] \in LogoutState
  OBVIOUS
<1>1. ASSUME NEW step \in LogoutSteps \cup LogoutEnds,
             logout' = [logout EXCEPT ![o].at = step] PROVE LogoutTypeOK'
  BY <1>0, <1>1
<1>2. ASSUME LogoutFails(o) PROVE LogoutTypeOK'
  BY <1>0, <1>2 DEF LogoutFails
<1> USE DEF LogoutSteps, LogoutEnds
<1>3. CASE AskToConfirm(o)
  <2>1. CASE VerifiedIds(LogoutOf[o]) = {}
    BY <1>1, <1>3, <2>1 DEF AskToConfirm
  <2>2. CASE VerifiedIds(LogoutOf[o]) # {}
    <3>1. PICK i \in VerifiedIds(LogoutOf[o]) :
            logout' = [logout EXCEPT ![o].at = "confirm", ![o].member = i]
      BY <1>3, <2>2 DEF AskToConfirm
    <3>2. i \in Ids
      BY DEF VerifiedIds, MemberIds, DatabaseTypeOK, Member
    <3> QED BY <1>0, <3>1, <3>2
  <2> QED BY <2>1, <2>2
<1>4. CASE Confirm(o)
  BY <1>0, <1>4 DEF Confirm
<1>5. CASE ConfirmTimesOut(o)
  BY <1>1, <1>5 DEF ConfirmTimesOut
<1>6. CASE DeleteRow(o)
  BY <1>1, <1>2, <1>6 DEF DeleteRow
<1>7. CASE ReadVerifiedRole(o)
  BY <1>0, <1>1, <1>7 DEF ReadVerifiedRole, DatabaseTypeOK, Guild
<1>8. CASE TakeVerifiedRole(o) \/ LogoutFail(o)
  BY <1>1, <1>2, <1>8 DEF TakeVerifiedRole, LogoutFail
<1> QED BY <1>3, <1>4, <1>5, <1>6, <1>7, <1>8 DEF LogoutNext, LogoutBot

LEMMA GoogleFirstStep ==
  ASSUME LoginTypeOK, GoogleFirst, NEW s \in Logins, LoginNext(s)
  PROVE  GoogleFirst'
<1> DEFINE Order(t) == /\ t.at \in BeforeGoogle => t.mail = NoDomain
                       /\ t.at \in {"levels", "oauth"} => t.domain # NoDomain
                       /\ t.at \in AfterGoogle => t.mail # NoDomain /\ t.mail = t.domain
<1>1. login \in [Logins -> LoginState] /\ Order(login[s])
  BY DEF LoginTypeOK, GoogleFirst
<1>2. SUFFICES Order(login'[s]) /\ \A x \in Logins \ {s} : login'[x] = login[x]
  BY DEF GoogleFirst
<1> USE <1>1 DEF LoginState, At, Goto, Fails, Ends, BeforeGoogle, AfterGoogle, LoginSteps, LoginEnds
<1>3. CASE Start(s)
  BY <1>3 DEF Start
<1>4. CASE ReadGuild(s) \/ ReadLevels(s)
  BY <1>4 DEF ReadGuild, ReadLevels
<1>5. CASE Authenticate(s) \/ AuthenticateElsewhere(s)
  <2>1. CASE Authenticate(s)
    BY <2>1 DEF Authenticate
  <2>2. CASE AuthenticateElsewhere(s)
    <3>1. PICK mail \in Domains :
            login' = [login EXCEPT ![s].at = "foreignDomain", ![s].mail = mail]
      BY <2>2 DEF AuthenticateElsewhere
    <3> QED BY <3>1
  <2> QED BY <1>5, <2>1, <2>2
<1>6. CASE NotAuthenticated(s)
  BY <1>6 DEF NotAuthenticated
<1>7. CASE ChooseLevel(s) \/ ChooseClass(s) \/ MenuTimesOut(s)
  BY <1>7 DEF ChooseLevel, ChooseClass, MenuTimesOut
<1>8. CASE ReadClasses(s) \/ LookUpMember(s)
  BY <1>8 DEF ReadClasses, LookUpMember
<1>9. CASE ReadLevelRole(s) \/ ReadClassRole(s)
  BY <1>9 DEF ReadLevelRole, ReadClassRole
<1>10. CASE GrantVerified(s) \/ GrantLevel(s) \/ GrantClass(s)
  BY <1>10 DEF GrantVerified, GrantLevel, GrantClass, Grant
<1>11. CASE ForgetVerified(s) \/ ForgetLevel(s) \/ ForgetClass(s) \/ InsertRow(s) \/ Fail(s)
  BY <1>11 DEF ForgetVerified, ForgetLevel, ForgetClass, InsertRow, Fail
<1> QED BY <1>3, <1>4, <1>5, <1>6, <1>7, <1>8, <1>9, <1>10, <1>11 DEF LoginNext, LoginBot, LoginUser

LEMMA LoginOnDiscord ==
  ASSUME DiscordTypeOK, NEW s \in Logins, LoginNext(s)
  PROVE  DiscordTypeOK'
BY LoginAssumption DEF DiscordTypeOK, LoginNext, LoginBot, LoginUser, Fail, Start, ReadGuild,
   ReadLevels, Authenticate, AuthenticateElsewhere, NotAuthenticated, ChooseLevel, ReadClasses,
   ChooseClass, MenuTimesOut, LookUpMember, ReadLevelRole, ReadClassRole, GrantVerified,
   GrantLevel, GrantClass, Grant, GrantRole, ForgetVerified, ForgetLevel, ForgetClass,
   InsertRow, Ends, discordVars

LEMMA LogoutOnDiscord ==
  ASSUME DiscordTypeOK, NEW o \in Logouts, LogoutNext(o)
  PROVE  DiscordTypeOK'
BY LogoutAssumption DEF DiscordTypeOK, LogoutNext, LogoutBot, AskToConfirm, Confirm,
   ConfirmTimesOut, DeleteRow, ReadVerifiedRole, TakeVerifiedRole, TakeRole, LogoutFail,
   discordVars

LEMMA LoginOnTables ==
  ASSUME TablesOK, LoginTypeOK, GoogleFirst, NEW s \in Logins, LoginNext(s)
  PROVE  TablesOK'
<1>1. CASE InsertRow(s)
  <2>1. CASE CanInsertVerified(NewRow(s)) /\ InsertVerified(NewRow(s))
    <3>1. login[s].at = "insert"
      BY <1>1 DEF InsertRow, At
    <3>2. NewRow(s).mail \in Domains
      BY <3>1 DEF LoginTypeOK, LoginState, GoogleFirst, AfterGoogle, BeforeGoogle,
                  LoginSteps, NewRow
    <3> QED BY <2>1, <3>2, InsertVerifiedKeeps DEF NewRow
  <2> QED BY <1>1, <2>1, Frame DEF InsertRow
<1>2. CASE ForgetVerified(s)
  BY <1>2, SetVerifiedRoleKeeps DEF ForgetVerified
<1>3. CASE ForgetLevel(s)
  BY <1>3, DeleteLevelKeeps, Frame DEF ForgetLevel
<1>4. CASE ForgetClass(s)
  BY <1>4, DeleteClassKeeps, Frame DEF ForgetClass
<1>5. CASE UNCHANGED dbVars
  BY <1>5, Frame
<1> QED
  BY <1>1, <1>2, <1>3, <1>4, <1>5 DEF LoginNext, LoginBot, LoginUser, Fail, Start, ReadGuild,
     ReadLevels, Authenticate, AuthenticateElsewhere, NotAuthenticated, ChooseLevel,
     ReadClasses, ChooseClass, MenuTimesOut, LookUpMember, ReadLevelRole, ReadClassRole,
     GrantVerified, GrantLevel, GrantClass, Grant, Ends

LEMMA LogoutOnTables ==
  ASSUME TablesOK, NEW o \in Logouts, LogoutNext(o)
  PROVE  TablesOK'
<1>1. CASE DeleteRow(o)
  BY <1>1, DeleteVerifiedKeeps, Frame DEF DeleteRow
<1> QED
  BY <1>1, Frame DEF LogoutNext, LogoutBot, AskToConfirm, Confirm, ConfirmTimesOut,
     ReadVerifiedRole, TakeVerifiedRole, LogoutFail

-----------------------------------------------------------------------------
(* What a step of a handler may do to the rows and roles of the users.  The *)
(* safety proofs below use these two effects and no action.                 *)

G1 == {"grantLevel", "forgetLevel", "grantClass", "forgetClass", "insert", "linked"}
G2 == {"grantClass", "forgetClass", "insert", "linked"}
G3 == {"insert", "linked"}

\* The roles a login must have granted by now.
Due(t) == (IF t.at \in G1 THEN {t.role} ELSE {})
          \cup (IF t.at \in G2 THEN {t.levelRole} ELSE {})
          \cup (IF t.at \in G3 THEN {t.classRole} ELSE {})

LoginQuiet(s) ==
  /\ UNCHANGED <<verified, roles, guildRoles>>
  /\ login[s].at # "linked" /\ login'[s].at # "linked"
  /\ login[s].at \in G1 <=> login'[s].at \in G1
  /\ Due(login'[s]) = Due(login[s])

LoginGrants(s, r) ==
  /\ UNCHANGED <<verified, guildRoles>>
  /\ roles' = [roles EXCEPT ![LoginOf[s]] = @ \cup {r}]
  /\ login[s].at \in AfterGoogle \ {"linked"}
  /\ login'[s].at \in G1 \ {"linked"}
  /\ Due(login'[s]) = Due(login[s]) \cup {r}

LoginInserts(s) ==
  /\ UNCHANGED <<roles, guildRoles>>
  /\ verified' = verified \cup {NewRow(s)}
  /\ login[s].member \in IdsOf(members)
  /\ \A v \in verified : v.member # login[s].member
  /\ login[s].at = "insert"
  /\ login'[s] = [login[s] EXCEPT !.at = "linked"]

LoginEffect(s) ==
  /\ UNCHANGED members
  /\ \A x \in Logins \ {s} : login'[x] = login[x]
  /\ LoginQuiet(s) \/ (\E r \in Roles : LoginGrants(s, r)) \/ LoginInserts(s)

LEMMA AfterGrantIsAfterGoogle == G1 \cup {"grantVerified"} \subseteq AfterGoogle
BY DEF G1, AfterGoogle, BeforeGoogle, LoginSteps, LoginEnds

LEMMA LoginHasEffect ==
  ASSUME DiscordTypeOK, LoginTypeOK, NEW s \in Logins, LoginNext(s)
  PROVE  LoginEffect(s)
<1>1. login \in [Logins -> LoginState] /\ guildRoles \subseteq Roles
  BY DEF LoginTypeOK, DiscordTypeOK
<1> USE <1>1 DEF At, Goto, Ends, Fails, LoginState, dbVars, discordVars, LoginEffect
<1> DEFINE Quietly == /\ UNCHANGED <<members, verified, roles, guildRoles>>
                      /\ \A x \in Logins \ {s} : login'[x] = login[x]
<1>2. ASSUME Quietly, login[s].at \notin G1, login'[s].at \notin G1
      PROVE  LoginEffect(s)
  BY <1>2 DEF LoginQuiet, Due, G1, G2, G3
<1>3. ASSUME Quietly, Fails(s), login[s].at # "linked"
      PROVE  LoginEffect(s)
  BY <1>3 DEF LoginQuiet, Due, G1
<1> USE DEF G1
<1>4. CASE Start(s) \/ ReadGuild(s) \/ ReadLevels(s)
  BY <1>2, <1>4 DEF Start, ReadGuild, ReadLevels
<1>5. CASE Authenticate(s) \/ NotAuthenticated(s)
  BY <1>2, <1>5 DEF Authenticate, NotAuthenticated
<1>5a. CASE AuthenticateElsewhere(s)
  <2>1. PICK mail \in Domains :
          login' = [login EXCEPT ![s].at = "foreignDomain", ![s].mail = mail]
    BY <1>5a DEF AuthenticateElsewhere
  <2> QED BY <1>2, <1>5a, <2>1 DEF AuthenticateElsewhere
<1>6. CASE ChooseLevel(s) \/ ChooseClass(s)
  BY <1>2, <1>6 DEF ChooseLevel, ChooseClass
<1>7. CASE ReadClasses(s) \/ MenuTimesOut(s)
  BY <1>2, <1>7 DEF ReadClasses, MenuTimesOut
<1>8. CASE LookUpMember(s)
  BY <1>2, <1>8 DEF LookUpMember
<1>9. CASE ReadLevelRole(s) \/ ReadClassRole(s)
  BY <1>2, <1>9 DEF ReadLevelRole, ReadClassRole
<1>10. CASE GrantVerified(s)
  <2>1. login[s].at = "grantVerified"
    BY <1>10 DEF GrantVerified
  <2>2. CASE GrantRole(LoginOf[s], login[s].role) /\ Goto(s, "grantLevel") /\ UNCHANGED dbVars
    <3>1. LoginGrants(s, login[s].role)
      BY <2>1, <2>2, AfterGrantIsAfterGoogle DEF LoginGrants, GrantRole, Due, G2, G3
    <3> QED BY <2>2, <3>1 DEF GrantRole
  <2>3. CASE Ends(s, "forgetVerified")
    BY <2>1, <2>3 DEF LoginQuiet, Due, G2, G3
  <2> QED BY <1>10, <2>2, <2>3 DEF GrantVerified, Grant
<1>11. CASE GrantLevel(s)
  <2>1. login[s].at = "grantLevel"
    BY <1>11 DEF GrantLevel
  <2>2. CASE GrantRole(LoginOf[s], login[s].levelRole) /\ Goto(s, "grantClass") /\ UNCHANGED dbVars
    <3>1. LoginGrants(s, login[s].levelRole)
      BY <2>1, <2>2, AfterGrantIsAfterGoogle DEF LoginGrants, GrantRole, Due, G2, G3
    <3> QED BY <2>2, <3>1 DEF GrantRole
  <2>3. CASE Ends(s, "forgetLevel")
    BY <2>1, <2>3 DEF LoginQuiet, Due, G2, G3
  <2> QED BY <1>11, <2>2, <2>3 DEF GrantLevel, Grant
<1>12. CASE GrantClass(s)
  <2>1. login[s].at = "grantClass"
    BY <1>12 DEF GrantClass
  <2>2. CASE GrantRole(LoginOf[s], login[s].classRole) /\ Goto(s, "insert") /\ UNCHANGED dbVars
    <3>1. LoginGrants(s, login[s].classRole)
      BY <2>1, <2>2, AfterGrantIsAfterGoogle DEF LoginGrants, GrantRole, Due, G2, G3
    <3> QED BY <2>2, <3>1 DEF GrantRole
  <2>3. CASE Ends(s, "forgetClass")
    BY <2>1, <2>3 DEF LoginQuiet, Due, G2, G3
  <2> QED BY <1>12, <2>2, <2>3 DEF GrantClass, Grant
<1>13. CASE ForgetVerified(s) \/ ForgetLevel(s) \/ ForgetClass(s)
  BY <1>3, <1>13 DEF ForgetVerified, ForgetLevel, ForgetClass, SetVerifiedRole, DeleteLevel, DeleteClass
<1>14. CASE Fail(s)
  BY <1>3, <1>14 DEF Fail, Running, LoginEnds
<1>15. CASE InsertRow(s)
  BY <1>3, <1>15 DEF InsertRow, LoginInserts, InsertVerified, CanInsertVerified, NewRow
<1> QED BY <1>4, <1>5, <1>5a, <1>6, <1>7, <1>8, <1>9, <1>10, <1>11, <1>12, <1>13, <1>14, <1>15
        DEF LoginNext, LoginBot, LoginUser

LogoutQuiet(o) ==
  /\ UNCHANGED <<verified, roles, guildRoles>>
  /\ logout[o].at # "done"
  /\ logout'[o].at = "done" => logout'[o].role = NoRole
  /\ logout[o].at \in {"readRole", "takeRole"} <=> logout'[o].at \in {"readRole", "takeRole", "done"}

LogoutDeletes(o) ==
  /\ UNCHANGED <<roles, guildRoles>>
  /\ logout[o].at = "delete" /\ logout'[o].at = "readRole"
  /\ verified' = {v \in verified : v.member # logout[o].member}

LogoutTakes(o) ==
  /\ UNCHANGED <<verified, guildRoles>>
  /\ logout[o].at = "takeRole"
  /\ logout'[o] = [logout[o] EXCEPT !.at = "done"]
  /\ roles' = [roles EXCEPT ![LogoutOf[o]] = @ \ {logout[o].role}]

LogoutEffect(o) ==
  /\ UNCHANGED members
  /\ \A x \in Logouts \ {o} : logout'[x] = logout[x]
  /\ LogoutQuiet(o) \/ LogoutDeletes(o) \/ LogoutTakes(o)

LEMMA LogoutHasEffect ==
  ASSUME LogoutTypeOK, NEW o \in Logouts, LogoutNext(o)
  PROVE  LogoutEffect(o)
<1>1. logout \in [Logouts -> LogoutState]
  BY DEF LogoutTypeOK
<1> USE <1>1 DEF LogoutAt, LogoutFails, LogoutState, dbVars, discordVars, LogoutEffect
<1>2. CASE AskToConfirm(o) \/ Confirm(o) \/ ConfirmTimesOut(o)
  BY <1>2 DEF AskToConfirm, Confirm, ConfirmTimesOut, LogoutQuiet
<1>3. CASE DeleteRow(o)
  BY <1>3 DEF DeleteRow, DeleteVerified, LogoutDeletes, LogoutQuiet
<1>4. CASE ReadVerifiedRole(o)
  BY <1>4 DEF ReadVerifiedRole, LogoutQuiet
<1>5. CASE TakeVerifiedRole(o)
  BY <1>5 DEF TakeVerifiedRole, TakeRole, LogoutTakes, LogoutQuiet
<1>6. CASE LogoutFail(o)
  BY <1>6 DEF LogoutFail, LogoutEnds, LogoutQuiet
<1> QED BY <1>2, <1>3, <1>4, <1>5, <1>6 DEF LogoutNext, LogoutBot

-----------------------------------------------------------------------------
(* Whose row a handler is about. *)

LEMMA LoginReadsMember ==
  ASSUME LoginTypeOK, NEW s \in Logins, LoginNext(s)
  PROVE  login'[s].member \in {login[s].member} \cup MemberIds(LoginOf[s])
<1>1. login \in [Logins -> LoginState]
  BY DEF LoginTypeOK
<1> USE <1>1 DEF LoginState, At, Goto, Ends, Fails
<1>2. CASE LookUpMember(s)
  BY <1>2 DEF LookUpMember
<1>3. CASE Start(s) \/ ReadGuild(s) \/ ReadLevels(s) \/ ReadClasses(s)
  BY <1>3 DEF Start, ReadGuild, ReadLevels, ReadClasses
<1>4. CASE Authenticate(s) \/ NotAuthenticated(s)
  BY <1>4 DEF Authenticate, NotAuthenticated
<1>5. CASE AuthenticateElsewhere(s)
  BY <1>5 DEF AuthenticateElsewhere
<1>6. CASE ChooseLevel(s) \/ ChooseClass(s) \/ MenuTimesOut(s)
  BY <1>6 DEF ChooseLevel, ChooseClass, MenuTimesOut
<1>7. CASE ReadLevelRole(s) \/ ReadClassRole(s)
  BY <1>7 DEF ReadLevelRole, ReadClassRole
<1>8. CASE GrantVerified(s) \/ GrantLevel(s) \/ GrantClass(s)
  BY <1>8 DEF GrantVerified, GrantLevel, GrantClass, Grant
<1>9. CASE ForgetVerified(s) \/ ForgetLevel(s) \/ ForgetClass(s) \/ InsertRow(s) \/ Fail(s)
  BY <1>9 DEF ForgetVerified, ForgetLevel, ForgetClass, InsertRow, Fail
<1> QED BY <1>2, <1>3, <1>4, <1>5, <1>6, <1>7, <1>8, <1>9 DEF LoginNext, LoginBot, LoginUser

LEMMA LogoutReadsMember ==
  ASSUME LogoutTypeOK, NEW o \in Logouts, LogoutNext(o)
  PROVE  logout'[o].member \in {logout[o].member} \cup MemberIds(LogoutOf[o])
<1>1. logout \in [Logouts -> LogoutState]
  BY DEF LogoutTypeOK
<1> USE <1>1 DEF LogoutState, LogoutAt, LogoutFails
<1>2. CASE AskToConfirm(o)
  BY <1>2 DEF AskToConfirm, VerifiedIds
<1>3. CASE Confirm(o) \/ ConfirmTimesOut(o) \/ DeleteRow(o)
  BY <1>3 DEF Confirm, ConfirmTimesOut, DeleteRow
<1>4. CASE ReadVerifiedRole(o) \/ TakeVerifiedRole(o) \/ LogoutFail(o)
  BY <1>4 DEF ReadVerifiedRole, TakeVerifiedRole, LogoutFail
<1> QED BY <1>2, <1>3, <1>4 DEF LogoutNext, LogoutBot

-----------------------------------------------------------------------------
(* The guild's configuration: a login makes it smaller, a logout leaves it. *)

LEMMA LoginOnConfiguration ==
  ASSUME NEW s \in Logins, LoginNext(s)
  PROVE  /\ groups' = groups /\ levels' \subseteq levels /\ classes' \subseteq classes
         /\ guildRoles' = guildRoles
         /\ \/ guild' = guild
            \/ ForgetVerified(s) /\ guild' = [guild EXCEPT !.role = NoRole]
<1> USE DEF dbVars, discordVars, Ends
<1>1. CASE LoginUser(s) \/ Fail(s)
  BY <1>1 DEF LoginUser, Start, Authenticate, AuthenticateElsewhere, NotAuthenticated,
              ChooseLevel, ChooseClass, Fail
<1>2. CASE ForgetVerified(s) \/ ForgetLevel(s) \/ ForgetClass(s)
  BY <1>2 DEF ForgetVerified, ForgetLevel, ForgetClass, SetVerifiedRole, DeleteLevel, DeleteClass
<1>3. CASE LoginBot(s) /\ ~(ForgetVerified(s) \/ ForgetLevel(s) \/ ForgetClass(s))
  BY <1>3 DEF LoginBot, ReadGuild, ReadLevels, ReadClasses, MenuTimesOut, LookUpMember,
       ReadLevelRole, ReadClassRole, GrantVerified, GrantLevel, GrantClass, Grant, GrantRole,
       InsertRow, InsertVerified
<1> QED BY <1>1, <1>2, <1>3 DEF LoginNext

LEMMA LogoutOnConfiguration ==
  ASSUME NEW o \in Logouts, LogoutNext(o)
  PROVE  UNCHANGED <<guild, groups, levels, classes, guildRoles>>
BY DEF LogoutNext, LogoutBot, AskToConfirm, Confirm, ConfirmTimesOut, DeleteRow,
   ReadVerifiedRole, TakeVerifiedRole, LogoutFail, DeleteVerified, TakeRole, dbVars, discordVars
=============================================================================
