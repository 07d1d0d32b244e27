-------------------------- MODULE Accounts_proofs --------------------------
(***************************************************************************)
(* What module Accounts promises for any number of users, roles, handlers  *)
(* and rows.                                                               *)
(***************************************************************************)
EXTENDS Accounts, Linking_proofs, FiniteSetTheorems

StageTypeOK == LoginTypeOK /\ LogoutTypeOK /\ PressTypeOK

USE DEF TablesOK

LEMMA TypeOKParts == TypeOK <=> TablesOK /\ DiscordTypeOK /\ StageTypeOK /\ forced \subseteq Users
BY DEF TypeOK, StageTypeOK

-----------------------------------------------------------------------------
LEMMA PressTypes ==
  ASSUME TypeOK, NEW g \in Presses, PressNext(g)
  PROVE  PressTypeOK'
<1> USE PressAssumption DEF TypeOK, PressTypeOK, PressState
<1>0. press[g] \in PressState
  OBVIOUS
<1>1. ASSUME NEW step \in PressEnds, press' = [press EXCEPT ![g].at = step]
      PROVE  PressTypeOK'
  BY <1>0, <1>1
<1>2. ASSUME PressFails(g) PROVE PressTypeOK'
  BY <1>0, <1>2 DEF PressFails
<1>4. CASE Look(g)
  <2>1. ASSUME NEW i \in VerifiedIds(PressOf[g]), NEW group \in MenuGroups,
               NEW step \in {"insert", "delete"},
               press' = [press EXCEPT ![g].at = step, ![g].member = i, ![g].group = group]
        PROVE  PressTypeOK'
    <3>1. i \in Ids /\ group \in Ids
      BY DEF VerifiedIds, MemberIds, DatabaseTypeOK, Member
    <3> QED BY <1>0, <2>1, <3>1
  <2>2. CASE VerifiedIds(PressOf[g]) = {}
    BY <1>1, <1>4, <2>2 DEF Look, PressEnds
  <2>3. CASE PressFails(g)
    BY <1>2, <2>3
  <2>4. CASE VerifiedIds(PressOf[g]) # {} /\ ~PressFails(g)
    <3>1. PICK i \in VerifiedIds(PressOf[g]), group \in MenuGroups, step \in {"insert", "delete"} :
            press' = [press EXCEPT ![g].at = step, ![g].member = i, ![g].group = group]
      BY <1>4, <2>4 DEF Look
    <3> QED BY <2>1, <3>1
  <2> QED BY <2>2, <2>3, <2>4
<1>5. CASE Remove(g) \/ Add(g) \/ PressFail(g)
  BY <1>1, <1>2, <1>5 DEF Remove, Add, PressFail, PressEnds
<1> QED BY <1>4, <1>5 DEF PressNext

-----------------------------------------------------------------------------
-----------------------------------------------------------------------------
LEMMA DiscordTypes ==
  ASSUME TypeOK, Next
  PROVE  DiscordTypeOK'
<1> USE DEF TypeOK, DiscordTypeOK
<1>1. ASSUME NEW s \in Logins, LoginNext(s) PROVE DiscordTypeOK'
  BY <1>1, LoginOnDiscord
<1>2. ASSUME NEW o \in Logouts, LogoutNext(o) PROVE DiscordTypeOK'
  BY <1>2, LogoutOnDiscord
<1>3. ASSUME NEW g \in Presses, PressNext(g) PROVE DiscordTypeOK'
  BY <1>3 DEF PressNext, Look, Remove, Add, PressFail, discordVars
<1>4. ASSUME NEW u \in Users, ForceLogout(u) PROVE DiscordTypeOK'
  BY <1>4 DEF ForceLogout, discordVars
<1>5. ASSUME NEW r \in Roles, AdminDeletesRole(r) PROVE DiscordTypeOK'
  BY <1>5 DEF AdminDeletesRole, DeleteRole
<1> QED BY <1>1, <1>2, <1>3, <1>4, <1>5 DEF Next

LEMMA TablesStep ==
  ASSUME TypeOK, GoogleFirst, Next
  PROVE  TablesOK'
<1> USE Frame, TypeOKParts
<1>1. ASSUME NEW s \in Logins, LoginNext(s) PROVE TablesOK'
  BY <1>1, LoginOnTables DEF StageTypeOK
<1>2. ASSUME NEW o \in Logouts, LogoutNext(o) PROVE TablesOK'
  BY <1>2, LogoutOnTables DEF StageTypeOK
<1>3. ASSUME NEW g \in Presses, PressNext(g) PROVE TablesOK'
  <2>1. CASE Remove(g)
    BY <2>1, DeleteGroupOfKeeps DEF Remove
  <2>2. CASE Add(g)
    BY <2>2, InsertGroupOfKeeps DEF Add, Row
  <2> QED BY <1>3, <2>1, <2>2 DEF PressNext, Look, PressFail
<1>4. ASSUME NEW u \in Users, ForceLogout(u) PROVE TablesOK'
  BY <1>4, DeleteVerifiedKeeps DEF ForceLogout
<1>5. ASSUME NEW r \in Roles, AdminDeletesRole(r) PROVE TablesOK'
  BY <1>5 DEF AdminDeletesRole
<1> QED BY <1>1, <1>2, <1>3, <1>4, <1>5 DEF Next

LEMMA TypeStep ==
  ASSUME TypeOK, GoogleFirst, [Next]_vars
  PROVE  TypeOK' /\ GoogleFirst'
<1>1. CASE UNCHANGED vars
  <2>1. TablesOK' /\ DiscordTypeOK'
    BY <1>1, Frame, DiscordFrame, TypeOKParts DEF vars
  <2>2. StageTypeOK' /\ (forced \subseteq Users)' /\ GoogleFirst'
    BY <1>1 DEF vars, TypeOK, StageTypeOK, LoginTypeOK, LogoutTypeOK, PressTypeOK, GoogleFirst, Proven
  <2> QED BY <2>1, <2>2 DEF TypeOK, StageTypeOK
<1>2. CASE Next
  <2>1. TablesOK' /\ DiscordTypeOK'
    BY <1>2, TablesStep, DiscordTypes
  <2>2. forced' \subseteq Users
    BY <1>2 DEF Next, ForceLogout, AdminDeletesRole, TypeOK
  <2>3. LoginTypeOK' /\ GoogleFirst'
    <3>1. CASE UNCHANGED login
      BY <3>1 DEF TypeOK, LoginTypeOK, GoogleFirst, Proven
    <3> QED BY <1>2, <3>1, LoginTypes, GoogleFirstStep DEF TypeOK, Next, ForceLogout, AdminDeletesRole
  <2>4. LogoutTypeOK'
    <3>1. CASE UNCHANGED logout
      BY <3>1 DEF TypeOK, LogoutTypeOK
    <3> QED BY <1>2, <3>1, LogoutTypes DEF TypeOK, Next, ForceLogout, AdminDeletesRole
  <2>5. PressTypeOK'
    <3>1. CASE UNCHANGED press
      BY <3>1 DEF TypeOK, PressTypeOK
    <3> QED BY <1>2, <3>1, PressTypes DEF Next, ForceLogout, AdminDeletesRole
  <2> QED BY <2>1, <2>2, <2>3, <2>4, <2>5 DEF TypeOK
<1> QED BY <1>1, <1>2

LEMMA TypeInit == Init => TypeOK /\ GoogleFirst
<1> SUFFICES ASSUME Init PROVE TypeOK /\ GoogleFirst
  OBVIOUS
<1> USE InitialAssumption, IdAssumption DEF Init
<1>1. TablesOK
  BY DEF DatabaseTypeOK, KeysOK, UniqueRows, UniqueMembers, IdsOf
<1>2. DiscordTypeOK
  BY DEF DiscordTypeOK
<1>3. LoginTypeOK
  BY DEF LoginInit, LoginTypeOK, LoginState, LoginSteps
<1>4. LogoutTypeOK /\ PressTypeOK
  BY DEF LogoutInit, PressInit, LogoutTypeOK, LogoutState, LogoutSteps, PressTypeOK, PressState
<1>5. GoogleFirst
  BY DEF LoginInit, GoogleFirst, BeforeGoogle, AfterGoogle
<1> QED BY <1>1, <1>2, <1>3, <1>4, <1>5 DEF TypeOK

\* Types and keys: no interleaving of the handlers makes the bot send a
\* statement that would break a key and is not refused, nor grant or store
\* something of another kind.
THEOREM TypeCorrect == Spec => [](TypeOK /\ GoogleFirst)
BY TypeInit, TypeStep, PTL DEF Spec

-----------------------------------------------------------------------------
(* The inductive invariant. *)

\* A handler holds the row id of its own user's membership.
LoginMember == \A s \in Logins : login[s].member # NoId =>
                 [id |-> login[s].member, user |-> LoginOf[s]] \in members
LogoutMember == \A o \in Logouts : logout[o].member # NoId =>
                  [id |-> logout[o].member, user |-> LogoutOf[o]] \in members

\* A login holds every role it has granted, but for those that were lost since.
Held(u, r) == r \in roles[u] \/ Lost(u, r)
Granted == \A s \in Logins : \A r \in Due(login[s]) : Held(LoginOf[s], r)

RowsHaveLogin == \A v \in verified : \E s \in Logins : login[s].at = "linked" /\ NewRow(s) = v

RolesHaveLogin == \A u \in Users : roles[u] # {} =>
                    \E s \in Logins : LoginOf[s] = u /\ login[s].at \in G1

IInv == /\ TypeOK /\ GoogleFirst
        /\ LoginMember /\ LogoutMember
        /\ Granted /\ RowsHaveLogin /\ RolesHaveLogin
        /\ RolesWithoutRowAreExcused

-----------------------------------------------------------------------------
LEMMA LoginMemberStep ==
  ASSUME TypeOK, LoginMember, NEW s \in Logins, LoginNext(s), LoginEffect(s)
  PROVE  LoginMember'
<1>1. login'[s].member \in {login[s].member} \cup MemberIds(LoginOf[s])
  BY LoginReadsMember DEF TypeOK
<1>2. \A i \in MemberIds(LoginOf[s]) : [id |-> i, user |-> LoginOf[s]] \in members
  BY DEF MemberIds, TypeOK, DatabaseTypeOK, Member
<1> QED BY <1>1, <1>2 DEF LoginMember, LoginEffect

LEMMA LogoutMemberStep ==
  ASSUME TypeOK, LogoutMember, NEW o \in Logouts, LogoutNext(o), LogoutEffect(o)
  PROVE  LogoutMember'
<1>1. logout'[o].member \in {logout[o].member} \cup MemberIds(LogoutOf[o])
  BY LogoutReadsMember DEF TypeOK
<1>2. \A i \in MemberIds(LogoutOf[o]) : [id |-> i, user |-> LogoutOf[o]] \in members
  BY DEF MemberIds, TypeOK, DatabaseTypeOK, Member
<1> QED BY <1>1, <1>2 DEF LogoutMember, LogoutEffect

LEMMA LoginKeeps ==
  ASSUME IInv, NEW s \in Logins, LoginNext(s), UNCHANGED <<logout, press, forced>>
  PROVE  /\ LoginMember' /\ LogoutMember'
         /\ Granted' /\ RowsHaveLogin' /\ RolesHaveLogin' /\ RolesWithoutRowAreExcused'
<1>1. LoginEffect(s) /\ TypeOK /\ login[s].at \in LoginSteps \cup LoginEnds
  BY LoginHasEffect DEF IInv, TypeOK, LoginTypeOK, LoginState
<1>2. members' = members /\ \A x \in Logins \ {s} : login'[x] = login[x]
  BY <1>1 DEF LoginEffect
<1>3. LoginMember' /\ LogoutMember'
  BY <1>1, <1>2, LoginMemberStep DEF IInv, LogoutMember
<1>4. \A u \in Users, r \in Roles : Lost(u, r)' <=> Lost(u, r)
  BY <1>1 DEF LoginEffect, LoginQuiet, LoginGrants, LoginInserts, Lost
<1>5. CASE LoginQuiet(s)
  <2> USE <1>2, <1>5 DEF LoginQuiet
  <2>1. Granted'
    BY DEF IInv, Granted, Held, Lost
  <2>2. RowsHaveLogin'
    BY DEF IInv, RowsHaveLogin, NewRow
  <2>3. RolesHaveLogin'
    BY DEF IInv, RolesHaveLogin
  <2>4. RolesWithoutRowAreExcused'
    BY DEF IInv, RolesWithoutRowAreExcused, ExcusedToHold, VerifiedIds, MemberIds, G1
  <2> QED BY <1>3, <2>1, <2>2, <2>3, <2>4
<1>6. ASSUME NEW r \in Roles, LoginGrants(s, r)
      PROVE  Granted' /\ RowsHaveLogin' /\ RolesHaveLogin' /\ RolesWithoutRowAreExcused'
  <2> USE <1>2, <1>6, LoginAssumption DEF LoginGrants
  <2>0. roles \in [Users -> SUBSET Roles]
    BY DEF IInv, TypeOK, DiscordTypeOK
  <2>1. Granted'
    BY <2>0 DEF IInv, Granted, Held, Lost
  <2>2. RowsHaveLogin'
    BY DEF IInv, RowsHaveLogin, NewRow
  <2>3. RolesHaveLogin'
    BY <2>0 DEF IInv, RolesHaveLogin
  <2>4. RolesWithoutRowAreExcused'
    BY <2>0 DEF IInv, RolesWithoutRowAreExcused, ExcusedToHold, VerifiedIds, MemberIds, G1
  <2> QED BY <2>1, <2>2, <2>3, <2>4
<1>7. CASE LoginInserts(s)
  <2> USE <1>2, <1>7, LoginAssumption DEF LoginInserts
  <2>0. login[s] \in LoginState /\ NewRow(s)' = NewRow(s)
    BY DEF IInv, TypeOK, LoginTypeOK, LoginState, NewRow
  <2>1. Granted'
    BY <2>0 DEF IInv, Granted, Held, Lost, Due, G1, G2, G3, LoginState
  <2>2. RowsHaveLogin'
    <3>1. \A x \in Logins : login[x].at = "linked" => x # s /\ login'[x].at = "linked" /\ NewRow(x)' = NewRow(x)
      BY DEF NewRow
    <3>2. login'[s].at = "linked"
      BY <2>0 DEF LoginState
    <3>3. verified' = verified \cup {NewRow(s)} /\ RowsHaveLogin
      BY DEF IInv
    <3> HIDE <1>7
    <3> QED BY <2>0, <3>1, <3>2, <3>3 DEF RowsHaveLogin
  <2>3. RolesHaveLogin'
    BY <2>0 DEF IInv, RolesHaveLogin, LoginState, G1
  <2>4. RolesWithoutRowAreExcused'
    <3>1. login[s].member # NoId
      BY IdAssumption DEF IInv, TypeOK, DatabaseTypeOK, Member, IdsOf, NoId
    <3>2. login[s].member \in VerifiedIds(LoginOf[s])'
      <4>1. [id |-> login[s].member, user |-> LoginOf[s]] \in members'
        BY <3>1 DEF IInv, LoginMember
      <4>1a. login[s].member \in MemberIds(LoginOf[s])'
        BY <4>1 DEF MemberIds
      <4>2. NewRow(s) \in verified' /\ NewRow(s).member = login[s].member
        BY DEF NewRow
      <4> QED BY <4>1a, <4>2 DEF VerifiedIds
    <3>3. \A u \in Users : VerifiedIds(u) \subseteq VerifiedIds(u)'
      BY DEF VerifiedIds, MemberIds
    <3> QED BY <3>2, <3>3 DEF IInv, RolesWithoutRowAreExcused, ExcusedToHold
  <2> QED BY <1>3, <2>1, <2>2, <2>3, <2>4
<1> QED BY <1>1, <1>3, <1>5, <1>6, <1>7 DEF LoginEffect

\* Deleting the rows of one member id can only unverify that member.
LEMMA OthersStayVerified ==
  ASSUME TypeOK, NEW i, NEW u \in Users, NEW w \in Users, w # u,
         i # NoId => [id |-> i, user |-> u] \in members,
         members' = members, verified' = {v \in verified : v.member # i}
  PROVE  VerifiedIds(w)' = VerifiedIds(w)
<1>1. i \notin MemberIds(w)
  <2>1. CASE i = NoId
    BY <2>1, IdAssumption DEF MemberIds, TypeOK, DatabaseTypeOK, Member, NoId
  <2>2. CASE i # NoId
    BY <2>2 DEF MemberIds, TypeOK, KeysOK, UniqueRows, UniqueMembers, DatabaseTypeOK, Member
  <2> QED BY <2>1, <2>2
<1>2. MemberIds(w)' = MemberIds(w)
  BY DEF MemberIds
<1> QED BY <1>1, <1>2 DEF VerifiedIds

LEMMA LogoutKeeps ==
  ASSUME IInv, NEW o \in Logouts, LogoutNext(o), UNCHANGED <<login, press, forced>>
  PROVE  /\ LoginMember' /\ LogoutMember'
         /\ Granted' /\ RowsHaveLogin' /\ RolesHaveLogin' /\ RolesWithoutRowAreExcused'
<1>1. LogoutEffect(o) /\ TypeOK
  BY LogoutHasEffect DEF IInv, TypeOK
<1>2. members' = members /\ \A x \in Logouts \ {o} : logout'[x] = logout[x]
  BY <1>1 DEF LogoutEffect
<1>3. LoginMember' /\ LogoutMember'
  BY <1>1, <1>2, LogoutMemberStep DEF IInv, LoginMember
<1>4. roles \in [Users -> SUBSET Roles] /\ NoRole \notin Roles /\ logout[o] \in LogoutState
  BY NullAssumption DEF IInv, TypeOK, DiscordTypeOK, LogoutTypeOK
<1>5. CASE LogoutQuiet(o)
  <2> USE <1>2, <1>5 DEF LogoutQuiet
  <2>1. \A u \in Users, r \in Roles : Held(u, r) => Held(u, r)'
    BY DEF Held, Lost
  <2>2. Granted'
    BY <2>1, LoginAssumption, <1>1 DEF IInv, Granted, Held, Lost
  <2>3. RowsHaveLogin' /\ RolesHaveLogin'
    BY DEF IInv, RowsHaveLogin, NewRow, RolesHaveLogin
  <2>4. \A u \in Users, r \in Roles : ExcusedToHold(u, r) => ExcusedToHold(u, r)'
    BY <1>4 DEF ExcusedToHold
  <2>5. RolesWithoutRowAreExcused'
    BY <1>4, <2>4 DEF IInv, RolesWithoutRowAreExcused, VerifiedIds, MemberIds
  <2> QED BY <1>3, <2>2, <2>3, <2>5
<1>6. CASE LogoutDeletes(o)
  <2> USE <1>2, <1>6 DEF LogoutDeletes
  <2>1. Granted'
    BY DEF IInv, Granted, Held, Lost
  <2>2. RowsHaveLogin' /\ RolesHaveLogin'
    BY DEF IInv, RowsHaveLogin, NewRow, RolesHaveLogin
  <2>3. RolesWithoutRowAreExcused'
    <3> SUFFICES ASSUME NEW u \in Users, NEW r \in roles[u], VerifiedIds(u)' = {}
                 PROVE  ExcusedToHold(u, r)'
      BY DEF RolesWithoutRowAreExcused
    <3>1. CASE u = LogoutOf[o]
      BY <3>1 DEF ExcusedToHold
    <3>2. CASE u # LogoutOf[o]
      <4>1. VerifiedIds(u) = {}
        BY <3>2, OthersStayVerified, LogoutAssumption DEF IInv, LogoutMember
      <4>2. ExcusedToHold(u, r)
        BY <4>1 DEF IInv, RolesWithoutRowAreExcused
      <4> QED BY <3>2, <4>2 DEF ExcusedToHold
    <3> QED BY <3>1, <3>2
  <2> QED BY <1>3, <2>1, <2>2, <2>3
<1>7. CASE LogoutTakes(o)
  <2> USE <1>2, <1>7, LogoutAssumption DEF LogoutTakes
  <2>0. logout'[o].at = "done" /\ logout'[o].role = logout[o].role
    BY <1>4 DEF LogoutState
  <2>1. \A u \in Users : /\ roles'[u] \subseteq roles[u]
                         /\ u # LogoutOf[o] => roles'[u] = roles[u]
                         /\ roles[u] \ roles'[u] \subseteq {logout[o].role}
    BY <1>4
  <2>2. \A u \in Users, r \in Roles : Held(u, r) => Held(u, r)'
    <3> SUFFICES ASSUME NEW u \in Users, NEW r \in Roles, Held(u, r) PROVE Held(u, r)'
      OBVIOUS
    <3>1. CASE r \in roles'[u] \/ r \notin guildRoles
      BY <3>1 DEF Held, Lost
    <3>2. CASE r \in roles[u] /\ r \notin roles'[u]
      BY <2>0, <2>1, <3>2 DEF Held, Lost
    <3>3. CASE \E x \in Logouts : /\ LogoutOf[x] = u
                                  /\ logout[x].at = "done" /\ logout[x].role = r
      BY <3>3 DEF Held, Lost
    <3> QED BY <3>1, <3>2, <3>3 DEF Held, Lost
  <2>3. Granted'
    <3> SUFFICES ASSUME NEW s \in Logins, NEW r \in Due(login[s])
                 PROVE  Held(LoginOf[s], r)'
      BY DEF Granted
    <3>1. Held(LoginOf[s], r)
      BY DEF IInv, Granted
    <3>2. CASE r \in Roles
      BY <2>2, <3>1, <3>2, LoginAssumption
    <3>3. CASE r \notin Roles
      BY <3>3 DEF IInv, TypeOK, DiscordTypeOK, Held, Lost
    <3> QED BY <3>2, <3>3
  <2>4. RowsHaveLogin' /\ RolesHaveLogin'
    BY <2>1 DEF IInv, RowsHaveLogin, NewRow, RolesHaveLogin
  <2>5. RolesWithoutRowAreExcused'
    <3> SUFFICES ASSUME NEW u \in Users, NEW r \in roles'[u], VerifiedIds(u) = {}
                 PROVE  ExcusedToHold(u, r)'
      BY DEF RolesWithoutRowAreExcused, VerifiedIds, MemberIds
    <3>1. CASE u = LogoutOf[o]
      BY <1>4, <2>0, <3>1 DEF ExcusedToHold
    <3>2. CASE u # LogoutOf[o]
      BY <2>1, <3>2 DEF IInv, RolesWithoutRowAreExcused, ExcusedToHold
    <3> QED BY <3>1, <3>2
  <2> QED BY <1>3, <2>3, <2>4, <2>5
<1> QED BY <1>1, <1>5, <1>6, <1>7 DEF LogoutEffect

LEMMA OthersKeep ==
  ASSUME IInv,
         \/ \E g \in Presses : PressNext(g) /\ UNCHANGED <<login, logout, forced>>
         \/ \E u \in Users : ForceLogout(u)
         \/ \E r \in Roles : AdminDeletesRole(r)
         \/ UNCHANGED vars
  PROVE  /\ LoginMember' /\ LogoutMember'
         /\ Granted' /\ RowsHaveLogin' /\ RolesHaveLogin' /\ RolesWithoutRowAreExcused'
<1>0. roles \in [Users -> SUBSET Roles]
  BY DEF IInv, TypeOK, DiscordTypeOK
<1>1. CASE UNCHANGED <<login, logout, forced, members, verified, roles, guildRoles>>
  <2> USE <1>1 DEF IInv
  <2>1. LoginMember' /\ LogoutMember' /\ Granted'
    BY DEF LoginMember, LogoutMember, Granted, Held, Lost
  <2>2. RowsHaveLogin' /\ RolesHaveLogin' /\ RolesWithoutRowAreExcused'
    BY DEF RowsHaveLogin, NewRow, RolesHaveLogin, RolesWithoutRowAreExcused, ExcusedToHold,
           VerifiedIds, MemberIds
  <2> QED BY <2>1, <2>2
<1>2. ASSUME NEW g \in Presses, PressNext(g), UNCHANGED <<login, logout, forced>>
      PROVE  UNCHANGED <<login, logout, forced, members, verified, roles, guildRoles>>
  BY <1>2 DEF PressNext, Look, Remove, Add, PressFail, InsertGroupOf, DeleteGroupOf, dbVars, discordVars
<1>3. ASSUME NEW u \in Users, ForceLogout(u)
      PROVE  /\ LoginMember' /\ LogoutMember'
             /\ Granted' /\ RowsHaveLogin' /\ RolesHaveLogin' /\ RolesWithoutRowAreExcused'
  <2>1. PICK i \in VerifiedIds(u) : DeleteVerified(i)
    BY <1>3 DEF ForceLogout
  <2> USE <1>3, <2>1 DEF ForceLogout, DeleteVerified, discordVars, IInv
  <2>2. LoginMember' /\ LogoutMember' /\ Granted'
    BY DEF LoginMember, LogoutMember, Granted, Held, Lost
  <2>3. RowsHaveLogin' /\ RolesHaveLogin'
    BY DEF RowsHaveLogin, NewRow, RolesHaveLogin
  <2>4. [id |-> i, user |-> u] \in members
    BY DEF VerifiedIds, MemberIds, TypeOK, DatabaseTypeOK, Member
  <2>5. RolesWithoutRowAreExcused'
    <3> SUFFICES ASSUME NEW w \in Users, NEW r \in roles[w], VerifiedIds(w)' = {}
                 PROVE  ExcusedToHold(w, r)'
      BY DEF RolesWithoutRowAreExcused
    <3>1. CASE w = u
      BY <3>1 DEF ExcusedToHold
    <3>2. CASE w # u
      <4>1. VerifiedIds(w) = {}
        BY <2>4, <3>2, OthersStayVerified
      <4> QED BY <4>1 DEF RolesWithoutRowAreExcused, ExcusedToHold
    <3> QED BY <3>1, <3>2
  <2> QED BY <2>2, <2>3, <2>5
<1>4. ASSUME NEW r \in Roles, AdminDeletesRole(r)
      PROVE  /\ LoginMember' /\ LogoutMember'
             /\ Granted' /\ RowsHaveLogin' /\ RolesHaveLogin' /\ RolesWithoutRowAreExcused'
  <2> USE <1>0, <1>4 DEF AdminDeletesRole, DeleteRole, dbVars, IInv
  <2>1. \A u \in Users : roles'[u] = roles[u] \ {r}
    OBVIOUS
  <2>2. LoginMember' /\ LogoutMember' /\ RowsHaveLogin'
    BY DEF LoginMember, LogoutMember, RowsHaveLogin, NewRow
  <2>3. Granted'
    BY <2>1, LoginAssumption DEF Granted, Held, Lost
  <2>4. RolesHaveLogin' /\ RolesWithoutRowAreExcused'
    BY <2>1 DEF RolesHaveLogin, RolesWithoutRowAreExcused, ExcusedToHold, VerifiedIds, MemberIds
  <2> QED BY <2>2, <2>3, <2>4
<1>5. CASE UNCHANGED vars
  BY <1>1, <1>5 DEF vars, dbVars, discordVars
<1> QED BY <1>1, <1>2, <1>3, <1>4, <1>5

LEMMA Inductive == Spec => []IInv
<1>1. Init => IInv
  <2> SUFFICES ASSUME Init PROVE IInv
    OBVIOUS
  <2>1. LoginMember /\ LogoutMember
    BY DEF Init, LoginInit, LogoutInit, LoginMember, LogoutMember
  <2>2. Granted
    BY DEF Init, LoginInit, Granted, Due, G1, G2, G3
  <2>3. RowsHaveLogin /\ RolesHaveLogin /\ RolesWithoutRowAreExcused
    BY DEF Init, RowsHaveLogin, RolesHaveLogin, RolesWithoutRowAreExcused
  <2> QED BY <2>1, <2>2, <2>3, TypeInit DEF IInv
<1>2. IInv /\ [Next]_vars => IInv'
  <2> SUFFICES ASSUME IInv, [Next]_vars PROVE IInv'
    OBVIOUS
  <2>1. TypeOK' /\ GoogleFirst'
    BY TypeStep DEF IInv
  <2>2. /\ LoginMember' /\ LogoutMember'
        /\ Granted' /\ RowsHaveLogin' /\ RolesHaveLogin' /\ RolesWithoutRowAreExcused'
    BY LoginKeeps, LogoutKeeps, OthersKeep DEF Next
  <2> QED BY <2>1, <2>2 DEF IInv
<1> QED BY <1>1, <1>2, PTL DEF Spec

-----------------------------------------------------------------------------
LEMMA GrantedIsProven ==
  ASSUME IInv, NEW s \in Logins, login[s].at \in G1
  PROVE  Proven(s)
BY AfterGrantIsAfterGoogle DEF IInv, GoogleFirst, Proven

\* A row was written by a linked login of the member it names.
LEMMA RowIsOfItsLogin ==
  ASSUME IInv, NEW v \in verified
  PROVE  \E s \in Logins : /\ login[s].at = "linked" /\ NewRow(s) = v
                           /\ [id |-> v.member, user |-> LoginOf[s]] \in members
<1>1. PICK s \in Logins : login[s].at = "linked" /\ NewRow(s) = v
  BY DEF IInv, RowsHaveLogin
<1>2. v.member = login[s].member
  BY <1>1 DEF NewRow
<1>3. v.member # NoId
  BY IdAssumption DEF IInv, TypeOK, DatabaseTypeOK, Verified, NoId
<1> QED BY <1>1, <1>2, <1>3 DEF IInv, LoginMember

\* Nobody holds a role of the bot or a row without having authenticated with
\* a mail of the guild's domain (login, apply_changes).
THEOREM OnlyProvenUsersHold == Spec => []OnlyProvenUsers
<1>1. IInv => OnlyProvenUsers
  <2> SUFFICES ASSUME IInv, NEW u \in Users, roles[u] # {} \/ VerifiedIds(u) # {}
               PROVE  \E s \in Logins : LoginOf[s] = u /\ Proven(s)
    BY DEF OnlyProvenUsers
  <2>1. CASE roles[u] # {}
    BY <2>1, GrantedIsProven DEF IInv, RolesHaveLogin
  <2>2. CASE VerifiedIds(u) # {}
    <3>1. PICK v \in verified : [id |-> v.member, user |-> u] \in members
      BY <2>2 DEF VerifiedIds, MemberIds, IInv, TypeOK, DatabaseTypeOK, Member
    <3>2. PICK s \in Logins : /\ login[s].at = "linked"
                              /\ [id |-> v.member, user |-> LoginOf[s]] \in members
      BY RowIsOfItsLogin
    <3>3. LoginOf[s] = u
      BY <3>1, <3>2 DEF IInv, TypeOK, KeysOK, UniqueRows, UniqueMembers
    <3> QED BY <3>2, <3>3, GrantedIsProven DEF G1
  <2> QED BY <2>1, <2>2
<1> QED BY <1>1, Inductive, PTL

\* A row is the last thing one complete login wrote (apply_changes).
THEOREM RowsComeAfterRoles == Spec => []VerifiedMembersWereGranted
<1>1. IInv => VerifiedMembersWereGranted
  <2> SUFFICES ASSUME IInv, NEW v \in verified
               PROVE  \E s \in Logins :
                        /\ login[s].at = "linked" /\ NewRow(s) = v /\ Proven(s)
                        /\ [id |-> v.member, user |-> LoginOf[s]] \in members
                        /\ \A r \in {login[s].role, login[s].levelRole, login[s].classRole} :
                             r \in roles[LoginOf[s]] \/ Lost(LoginOf[s], r)
    BY DEF VerifiedMembersWereGranted
  <2>1. PICK s \in Logins : /\ login[s].at = "linked" /\ NewRow(s) = v
                            /\ [id |-> v.member, user |-> LoginOf[s]] \in members
    BY RowIsOfItsLogin
  <2>2. Proven(s)
    BY <2>1, GrantedIsProven DEF G1
  <2>3. Due(login[s]) = {login[s].role, login[s].levelRole, login[s].classRole}
    BY <2>1 DEF Due, G1, G2, G3
  <2> QED BY <2>1, <2>2, <2>3 DEF IInv, Granted, Held
<1> QED BY <1>1, Inductive, PTL

\* Access without a row always has one of the named causes (logout,
\* debug_force_logout, a login that stopped half-way).
THEOREM RolesWithoutRowHaveCause == Spec => []RolesWithoutRowAreExcused
BY Inductive, PTL DEF IInv

-----------------------------------------------------------------------------
(* What a login forgets on the guild's behalf. *)

\* Where a login has read the guild's role, its level's, and its class's.
RoleRead  == (LoginSteps \cup LoginEnds) \ {"idle", "components", "alreadyVerified", "notSetUp"}
LevelRead == {"classRole", "grantVerified", "forgetVerified", "grantLevel", "forgetLevel",
              "grantClass", "forgetClass", "insert", "linked"}
ClassRead == LevelRead \ {"classRole"}

\* What a login has read of a row still holds while there is such a row, and
\* it is about to forget only a role that is gone.
ReadingHolds(t) ==
  /\ t.at \in RoleRead => guild.role \in {t.role, NoRole}
  /\ t.at \in LevelRead => \A l \in levels : l.id = t.level => l.role = t.levelRole
  /\ t.at \in ClassRead => \A k \in classes : k.id = t.class => k.role = t.classRole
  /\ t.at = "forgetVerified" => t.role \notin guildRoles
  /\ t.at = "forgetLevel" => t.levelRole \notin guildRoles
  /\ t.at = "forgetClass" => t.classRole \notin guildRoles

ReadingsHold == \A s \in Logins : ReadingHolds(login[s])

\* The guild's configuration only ever shrinks: the admins' commands are not
\* in Accounts.
Shrinks == /\ guild'.role \in {guild.role, NoRole}
           /\ levels' \subseteq levels /\ classes' \subseteq classes
           /\ guildRoles' \subseteq guildRoles

LEMMA LoginReads ==
  ASSUME TypeOK, ReadingsHold, NEW s \in Logins, LoginNext(s)
  PROVE  Shrinks /\ ReadingsHold'
<1>1. /\ login \in [Logins -> LoginState] /\ ReadingHolds(login[s])
      /\ guild \in Guild /\ UniqueRows(levels) /\ UniqueRows(classes)
  BY DEF TypeOK, LoginTypeOK, ReadingsHold, DatabaseTypeOK, KeysOK
<1>2. SUFFICES /\ Shrinks /\ \A x \in Logins \ {s} : login'[x] = login[x]
               /\ ReadingHolds(login[s])'
  BY DEF ReadingsHold, ReadingHolds, Shrinks
<1> USE <1>1 DEF At, Goto, Ends, Fails, LoginState, Guild, dbVars, discordVars, Shrinks, ReadingHolds,
                 RoleRead, LevelRead, ClassRead, LoginSteps, LoginEnds
<1>3. CASE Start(s) \/ ReadGuild(s) \/ ReadLevels(s)
  BY <1>3 DEF Start, ReadGuild, ReadLevels
<1>4. CASE Authenticate(s) \/ NotAuthenticated(s)
  BY <1>4 DEF Authenticate, NotAuthenticated
<1>5. CASE AuthenticateElsewhere(s)
  <2>1. PICK mail \in Domains :
          login' = [login EXCEPT ![s].at = "foreignDomain", ![s].mail = mail]
    BY <1>5 DEF AuthenticateElsewhere
  <2> QED BY <1>5, <2>1 DEF AuthenticateElsewhere
<1>6. CASE ChooseLevel(s) \/ ChooseClass(s) \/ MenuTimesOut(s)
  BY <1>6 DEF ChooseLevel, ChooseClass, MenuTimesOut
<1>7. CASE ReadClasses(s) \/ LookUpMember(s)
  BY <1>7 DEF ReadClasses, LookUpMember
<1>8. CASE ReadLevelRole(s)
  BY <1>8 DEF ReadLevelRole, UniqueRows
<1>9. CASE ReadClassRole(s)
  BY <1>9 DEF ReadClassRole, UniqueRows
<1>10. CASE GrantVerified(s)
  BY <1>10 DEF GrantVerified, Grant, GrantRole
<1>11. CASE GrantLevel(s)
  BY <1>11 DEF GrantLevel, Grant, GrantRole
<1>12. CASE GrantClass(s)
  BY <1>12 DEF GrantClass, Grant, GrantRole
<1>13. CASE ForgetVerified(s)
  BY <1>13 DEF ForgetVerified, SetVerifiedRole
<1>14. CASE ForgetLevel(s)
  BY <1>14 DEF ForgetLevel, DeleteLevel
<1>15. CASE ForgetClass(s)
  BY <1>15 DEF ForgetClass, DeleteClass
<1>16. CASE InsertRow(s) \/ Fail(s)
  BY <1>16 DEF InsertRow, InsertVerified, Fail
<1> QED BY <1>3, <1>4, <1>5, <1>6, <1>7, <1>8, <1>9, <1>10, <1>11, <1>12, <1>13, <1>14, <1>15, <1>16
        DEF LoginNext, LoginBot, LoginUser

LEMMA OthersRead ==
  ASSUME ReadingsHold, [Next]_vars, ~\E s \in Logins : LoginNext(s)
  PROVE  Shrinks /\ UNCHANGED <<guild, levels, classes, login>> /\ ReadingsHold'
<1> USE DEF dbVars, discordVars
<1>1. CASE \E o \in Logouts : LogoutNext(o) /\ UNCHANGED <<login, press, forced>>
  BY <1>1 DEF LogoutNext, LogoutBot, AskToConfirm, Confirm, ConfirmTimesOut, DeleteRow,
     ReadVerifiedRole, TakeVerifiedRole, LogoutFail, DeleteVerified, TakeRole,
     Shrinks, ReadingsHold, ReadingHolds
<1>2. CASE \E g \in Presses : PressNext(g) /\ UNCHANGED <<login, logout, forced>>
  BY <1>2 DEF PressNext, Look, Remove, Add, PressFail, InsertGroupOf, DeleteGroupOf,
     Shrinks, ReadingsHold, ReadingHolds
<1>3. CASE \E u \in Users : ForceLogout(u)
  BY <1>3 DEF ForceLogout, DeleteVerified, Shrinks, ReadingsHold, ReadingHolds
<1>4. CASE \E r \in Roles : AdminDeletesRole(r)
  BY <1>4 DEF AdminDeletesRole, DeleteRole, Shrinks, ReadingsHold, ReadingHolds
<1>5. CASE UNCHANGED vars
  BY <1>5 DEF vars, Shrinks, ReadingsHold, ReadingHolds
<1> QED BY <1>1, <1>2, <1>3, <1>4, <1>5 DEF Next

\* A login clears the guild's role, or deletes a level or a class, only when
\* the role it named is gone from Discord (apply_changes).
THEOREM ForgetsOnlyWhatIsGone == Spec => ForgetsOnlyDeletedRoles
<1> DEFINE Step == /\ guild'.role # guild.role => guild.role \notin guildRoles
                   /\ \A l \in levels \ levels' : l.role \notin guildRoles
                   /\ \A k \in classes \ classes' : k.role \notin guildRoles
<1>1. Init => ReadingsHold
  BY DEF Init, LoginInit, ReadingsHold, ReadingHolds, RoleRead, LevelRead, ClassRead
<1>2. TypeOK /\ ReadingsHold /\ [Next]_vars => ReadingsHold'
  BY LoginReads, OthersRead DEF Next
<1>3. TypeOK /\ ReadingsHold /\ [Next]_vars => [Step]_vars
  <2> SUFFICES ASSUME TypeOK, ReadingsHold, [Next]_vars PROVE Step
    OBVIOUS
  <2>1. ASSUME NEW s \in Logins, LoginNext(s) PROVE Step
    <3>1. /\ ReadingHolds(login[s]) /\ NoRole \notin guildRoles
      BY NullAssumption DEF ReadingsHold, TypeOK, DiscordTypeOK
    <3>2. CASE UNCHANGED <<guild, levels, classes>>
      BY <3>2
    <3> USE <3>1 DEF ReadingHolds, At, RoleRead, LevelRead, ClassRead, LoginSteps, LoginEnds
    <3>3. CASE ForgetVerified(s)
      BY <3>3 DEF ForgetVerified, SetVerifiedRole
    <3>4. CASE ForgetLevel(s)
      BY <3>4 DEF ForgetLevel, DeleteLevel, dbVars
    <3>5. CASE ForgetClass(s)
      BY <3>5 DEF ForgetClass, DeleteClass, dbVars
    <3>6. \/ UNCHANGED <<guild, levels, classes>>
          \/ ForgetVerified(s) \/ ForgetLevel(s) \/ ForgetClass(s)
      <4> USE DEF dbVars, Ends
      <4>1. CASE LoginUser(s) \/ Fail(s)
        BY <4>1 DEF LoginUser, Start, Authenticate, AuthenticateElsewhere, NotAuthenticated,
                    ChooseLevel, ChooseClass, Fail
      <4>2. CASE LoginBot(s)
        BY <4>2 DEF LoginBot, ReadGuild, ReadLevels, ReadClasses, MenuTimesOut, LookUpMember,
             ReadLevelRole, ReadClassRole, GrantVerified, GrantLevel, GrantClass, Grant,
             InsertRow, InsertVerified
      <4> QED BY <2>1, <4>1, <4>2 DEF LoginNext
    <3> QED BY <3>2, <3>3, <3>4, <3>5, <3>6
  <2>2. CASE ~\E s \in Logins : LoginNext(s)
    BY <2>2, OthersRead
  <2> QED BY <2>1, <2>2
<1>4. Spec => []TypeOK
  BY TypeCorrect, PTL
<1> QED BY <1>1, <1>2, <1>3, <1>4, PTL DEF Spec, ForgetsOnlyDeletedRoles

-----------------------------------------------------------------------------
(* How often things happen: a member's logins succeed, and his choices put *)
(* him into a group, at most once more often than that was undone, for any *)
(* number of handlers at a time.                                           *)

One(condition) == IF condition THEN 1 ELSE 0

\* What happened more than it was undone is there now.
AtMostOneMore(done, undone, present) ==
  /\ IsFiniteSet(done) /\ IsFiniteSet(undone)
  /\ Cardinality(done) =< Cardinality(undone) + One(present)

LEMMA NothingDone == \A b \in BOOLEAN : AtMostOneMore({}, {}, b)
BY FS_EmptySet DEF AtMostOneMore, One

\* It was not there, and is done once more.
LEMMA DoneOnceMore ==
  ASSUME NEW done, NEW undone, NEW x, AtMostOneMore(done, undone, FALSE)
  PROVE  AtMostOneMore(done \cup {x}, undone, TRUE)
<1> USE DEF AtMostOneMore, One
<1>1. Cardinality(done) \in Nat /\ Cardinality(undone) \in Nat
  BY FS_CardinalityType
<1>2. /\ IsFiniteSet(done \cup {x})
      /\ \/ Cardinality(done \cup {x}) = Cardinality(done)
         \/ Cardinality(done \cup {x}) = Cardinality(done) + 1
  BY FS_AddElement
<1> QED BY <1>1, <1>2

\* It is undone once more, and may be gone.
LEMMA UndoneOnceMore ==
  ASSUME NEW done, NEW undone, NEW x, x \notin undone,
         NEW b \in BOOLEAN, NEW c \in BOOLEAN, AtMostOneMore(done, undone, b)
  PROVE  AtMostOneMore(done, undone \cup {x}, c)
<1> USE DEF AtMostOneMore, One
<1>1. Cardinality(done) \in Nat /\ Cardinality(undone) \in Nat
  BY FS_CardinalityType
<1>2. /\ IsFiniteSet(undone \cup {x})
      /\ Cardinality(undone \cup {x}) = Cardinality(undone) + 1
  BY FS_AddElement
<1> QED BY <1>1, <1>2

LEMMA StillThere ==
  ASSUME NEW done, NEW undone, NEW b \in BOOLEAN, NEW c \in BOOLEAN, b => c,
         AtMostOneMore(done, undone, b)
  PROVE  AtMostOneMore(done, undone, c)
BY FS_CardinalityType DEF AtMostOneMore, One

LEMMA AtMostOne ==
  ASSUME NEW done, NEW undone, NEW b \in BOOLEAN, AtMostOneMore(done, undone, b)
  PROVE  Cardinality(done) =< Cardinality(undone) + 1
BY FS_CardinalityType DEF AtMostOneMore, One

-----------------------------------------------------------------------------
(* Links: done by logins, undone by logouts, there while the row is. *)

Linked(u) == VerifiedIds(u) # {}

LinksCount == \A u \in Users \ forced : AtMostOneMore(Successes(u), Deletions(u), Linked(u))

Deleting == {"readRole", "takeRole", "done"}

LEMMA LoginCounts ==
  ASSUME IInv, LinksCount, NEW s \in Logins, LoginNext(s),
         UNCHANGED <<logout, press, forced>>
  PROVE  LinksCount'
<1> SUFFICES ASSUME NEW u \in Users \ forced
             PROVE  AtMostOneMore(Successes(u), Deletions(u), Linked(u))'
  BY DEF LinksCount
<1>1. /\ LoginEffect(s) /\ members' = members
      /\ \A x \in Logins \ {s} : login'[x] = login[x]
  BY LoginHasEffect DEF IInv, TypeOK, LoginEffect
<1>2. Deletions(u)' = Deletions(u) /\ MemberIds(u)' = MemberIds(u)
  BY <1>1 DEF Deletions, MemberIds
<1>3. AtMostOneMore(Successes(u), Deletions(u), Linked(u))
  BY DEF LinksCount
<1>4. CASE LoginQuiet(s) \/ \E r \in Roles : LoginGrants(s, r)
  <2>1. Successes(u)' = Successes(u)
    BY <1>1, <1>4 DEF Successes, LoginQuiet, LoginGrants
  <2>2. Linked(u)' = Linked(u)
    BY <1>2, <1>4 DEF Linked, VerifiedIds, LoginQuiet, LoginGrants
  <2> QED BY <1>2, <1>3, <2>1, <2>2
<1>5. CASE LoginInserts(s)
  <2>1. \A v \in verified : v \in verified'
    BY <1>5 DEF LoginInserts
  <2>2. CASE LoginOf[s] # u
    <3>1. Successes(u)' = Successes(u)
      BY <1>1, <2>2 DEF Successes
    <3>2. Linked(u) => Linked(u)'
      BY <1>2, <2>1 DEF Linked, VerifiedIds
    <3> QED BY <1>2, <1>3, <3>1, <3>2, StillThere DEF Linked
  <2>3. CASE LoginOf[s] = u
    <3>1. login[s] \in LoginState /\ login[s].at = "insert" /\ login'[s].at = "linked"
      BY <1>5 DEF LoginInserts, IInv, TypeOK, LoginTypeOK, LoginState
    <3>2. Successes(u)' = Successes(u) \cup {s}
      BY <1>1, <2>3, <3>1 DEF Successes
    <3>3. MemberIds(u) = {login[s].member}
      <4>1. login[s].member # NoId
        BY <1>5, IdAssumption DEF LoginInserts, IInv, TypeOK, DatabaseTypeOK, Member, IdsOf, NoId
      <4>2. [id |-> login[s].member, user |-> u] \in members
        BY <2>3, <4>1 DEF IInv, LoginMember
      <4> QED BY <4>2 DEF MemberIds, IInv, TypeOK, KeysOK, UniqueMembers
    <3>4. Linked(u) = FALSE
      BY <1>5, <3>3 DEF LoginInserts, Linked, VerifiedIds
    <3>5. Linked(u)' = TRUE
      BY <1>2, <1>5, <3>3 DEF LoginInserts, Linked, VerifiedIds, NewRow
    <3>6. AtMostOneMore(Successes(u) \cup {s}, Deletions(u), TRUE)
      BY <1>3, <3>4, DoneOnceMore
    <3> QED BY <1>2, <3>2, <3>5, <3>6
  <2> QED BY <2>2, <2>3
<1> QED BY <1>1, <1>4, <1>5 DEF LoginEffect

LEMMA LogoutCounts ==
  ASSUME IInv, LinksCount, NEW o \in Logouts, LogoutNext(o),
         UNCHANGED <<login, press, forced>>
  PROVE  LinksCount'
<1> SUFFICES ASSUME NEW u \in Users \ forced
             PROVE  AtMostOneMore(Successes(u), Deletions(u), Linked(u))'
  BY DEF LinksCount
<1>1. /\ LogoutEffect(o) /\ members' = members
      /\ \A x \in Logouts \ {o} : logout'[x] = logout[x]
  BY LogoutHasEffect DEF IInv, TypeOK, LogoutEffect
<1>2. Successes(u)' = Successes(u) /\ MemberIds(u)' = MemberIds(u)
  BY <1>1 DEF Successes, MemberIds
<1>3. AtMostOneMore(Successes(u), Deletions(u), Linked(u))
  BY DEF LinksCount
<1>4. CASE LogoutQuiet(o) \/ LogoutTakes(o)
  <2>1. logout[o] \in LogoutState
    BY DEF IInv, TypeOK, LogoutTypeOK
  <2>2. logout'[o].at \in Deleting <=> logout[o].at \in Deleting
    BY <1>4, <2>1 DEF LogoutQuiet, LogoutTakes, LogoutState, Deleting
  <2>3. Deletions(u)' = Deletions(u)
    BY <1>1, <2>2 DEF Deletions, Deleting
  <2>4. Linked(u)' = Linked(u)
    BY <1>2, <1>4 DEF Linked, VerifiedIds, LogoutQuiet, LogoutTakes
  <2> QED BY <1>2, <1>3, <2>3, <2>4
<1>5. CASE LogoutDeletes(o)
  <2>1. CASE LogoutOf[o] # u
    <3>1. Deletions(u)' = Deletions(u)
      BY <1>1, <2>1 DEF Deletions
    <3>2. Linked(u)' = Linked(u)
      BY <1>1, <1>5, <2>1, OthersStayVerified, LogoutAssumption
         DEF LogoutDeletes, IInv, LogoutMember, Linked
    <3> QED BY <1>2, <1>3, <3>1, <3>2
  <2>2. CASE LogoutOf[o] = u
    <3>1. o \notin Deletions(u) /\ Deletions(u)' = Deletions(u) \cup {o}
      BY <1>1, <1>5, <2>2 DEF LogoutDeletes, Deletions
    <3>2. AtMostOneMore(Successes(u), Deletions(u) \cup {o}, Linked(u)')
      BY <1>3, <3>1, UndoneOnceMore DEF Linked
    <3> QED BY <1>2, <3>1, <3>2
  <2> QED BY <2>1, <2>2
<1> QED BY <1>1, <1>4, <1>5 DEF LogoutEffect

LEMMA OthersCount ==
  ASSUME IInv, LinksCount, UNCHANGED <<login, logout, members>>,
         \/ UNCHANGED <<forced, verified>>
         \/ \E u \in Users : ForceLogout(u)
  PROVE  LinksCount'
<1> SUFFICES ASSUME NEW u \in Users \ forced, u \notin forced'
             PROVE  AtMostOneMore(Successes(u), Deletions(u), Linked(u))'
  BY DEF LinksCount, ForceLogout
<1>1. Successes(u)' = Successes(u) /\ Deletions(u)' = Deletions(u)
  BY DEF Successes, Deletions
<1>2. Linked(u)' = Linked(u)
  <2>1. CASE UNCHANGED verified
    BY <2>1 DEF Linked, VerifiedIds, MemberIds
  <2>2. CASE \E w \in Users : ForceLogout(w)
    <3>1. PICK w \in Users : ForceLogout(w)
      BY <2>2
    <3>2. PICK i \in VerifiedIds(w) : DeleteVerified(i)
      BY <3>1 DEF ForceLogout
    <3>3. w # u /\ [id |-> i, user |-> w] \in members
      BY <3>1, <3>2 DEF ForceLogout, VerifiedIds, MemberIds, IInv, TypeOK, DatabaseTypeOK, Member
    <3> QED BY <3>2, <3>3, OthersStayVerified DEF IInv, DeleteVerified, Linked
  <2> QED BY <2>1, <2>2
<1> QED BY <1>1, <1>2 DEF LinksCount

\* Two logins of a member succeed only if somebody deleted his row in between,
\* however many of them run at once (login.rs:37, insert of apply_changes).
THEOREM LinkedOnce == Spec => []LinkedOnceAtATime
<1>1. Init => LinksCount
  <2> SUFFICES ASSUME Init, NEW u \in Users
               PROVE  AtMostOneMore(Successes(u), Deletions(u), Linked(u))
    BY DEF LinksCount
  <2>1. Successes(u) = {} /\ Deletions(u) = {}
    BY DEF Init, LoginInit, LogoutInit, Successes, Deletions
  <2> QED BY <2>1, NothingDone DEF Linked
<1>2. IInv /\ LinksCount /\ [Next]_vars => LinksCount'
  <2> SUFFICES ASSUME IInv, LinksCount, [Next]_vars PROVE LinksCount'
    OBVIOUS
  <2>1. CASE \E s \in Logins : LoginNext(s) /\ UNCHANGED <<logout, press, forced>>
    BY <2>1, LoginCounts
  <2>2. CASE \E o \in Logouts : LogoutNext(o) /\ UNCHANGED <<login, press, forced>>
    BY <2>2, LogoutCounts
  <2>3. CASE \E g \in Presses : PressNext(g) /\ UNCHANGED <<login, logout, forced>>
    BY <2>3, OthersCount DEF PressNext, Look, Remove, Add, PressFail, InsertGroupOf, DeleteGroupOf, dbVars
  <2>4. CASE \E u \in Users : ForceLogout(u)
    BY <2>4, OthersCount DEF ForceLogout, DeleteVerified
  <2>5. CASE (\E r \in Roles : AdminDeletesRole(r)) \/ UNCHANGED vars
    BY <2>5, OthersCount DEF AdminDeletesRole, vars, dbVars
  <2> QED BY <2>1, <2>2, <2>3, <2>4, <2>5 DEF Next
<1>3. LinksCount => LinkedOnceAtATime
  BY AtMostOne DEF LinksCount, LinkedOnceAtATime, Linked
<1> QED BY <1>1, <1>2, <1>3, Inductive, PTL DEF Spec

-----------------------------------------------------------------------------
(* Groups: done and undone by presses, there while the row is. *)

InGroup(m, group) == [member |-> m, group |-> group] \in groupOf

PressesCount == \A m \in Ids, group \in MenuGroups :
                  AtMostOneMore(Told(m, group, "added"), Told(m, group, "removed"), InGroup(m, group))

LEMMA PressCounts ==
  ASSUME PressTypeOK, PressesCount, NEW g \in Presses, PressNext(g)
  PROVE  PressesCount'
<1> SUFFICES ASSUME NEW m \in Ids, NEW group \in MenuGroups
             PROVE  AtMostOneMore(Told(m, group, "added"), Told(m, group, "removed"), InGroup(m, group))'
  BY DEF PressesCount
<1>1. AtMostOneMore(Told(m, group, "added"), Told(m, group, "removed"), InGroup(m, group))
  BY DEF PressesCount
<1>2. press \in [Presses -> PressState]
  BY DEF PressTypeOK
<1> USE DEF PressAt, PressFails, PressState, dbVars, discordVars
<1>3. ASSUME groupOf' = groupOf,
             \A x \in Presses \ {g} : press'[x] = press[x],
             press[g].at \notin {"added", "removed"}, press'[g].at \notin {"added", "removed"}
      PROVE  AtMostOneMore(Told(m, group, "added"), Told(m, group, "removed"), InGroup(m, group))'
  <2>1. /\ Told(m, group, "added")' = Told(m, group, "added")
        /\ Told(m, group, "removed")' = Told(m, group, "removed")
    BY <1>3 DEF Told
  <2> QED BY <1>1, <1>3, <2>1 DEF InGroup
<1>4. CASE Look(g) \/ PressFail(g)
  BY <1>2, <1>3, <1>4 DEF Look, PressFail
<1> DEFINE ours == press[g].member = m /\ press[g].group = group
<1>5. CASE Add(g)
  <2>1. CASE ~CanInsertGroupOf(Row(g))
    BY <1>2, <1>3, <1>5, <2>1 DEF Add
  <2>2. CASE CanInsertGroupOf(Row(g))
    <3>1. /\ groupOf' = groupOf \cup {Row(g)} /\ Row(g) \notin groupOf
          /\ \A x \in Presses \ {g} : press'[x] = press[x]
          /\ press[g].at = "insert" /\ press'[g] = [press[g] EXCEPT !.at = "added"]
      BY <1>2, <1>5, <2>2 DEF Add, InsertGroupOf, CanInsertGroupOf
    <3>2. Told(m, group, "removed")' = Told(m, group, "removed")
      BY <1>2, <3>1 DEF Told
    <3>3. CASE ours
      <4>1. Told(m, group, "added")' = Told(m, group, "added") \cup {g}
        BY <1>2, <3>1, <3>3 DEF Told
      <4>2. InGroup(m, group) = FALSE /\ InGroup(m, group)' = TRUE
        BY <3>1, <3>3 DEF InGroup, Row
      <4>3. AtMostOneMore(Told(m, group, "added") \cup {g}, Told(m, group, "removed"), TRUE)
        BY <1>1, <4>2, DoneOnceMore
      <4> QED BY <3>2, <4>1, <4>2, <4>3
    <3>4. CASE ~ours
      <4>1. Told(m, group, "added")' = Told(m, group, "added")
        BY <1>2, <3>1, <3>4 DEF Told
      <4>2. InGroup(m, group)' = InGroup(m, group)
        BY <3>1, <3>4 DEF InGroup, Row
      <4> QED BY <1>1, <3>2, <4>1, <4>2
    <3> QED BY <3>3, <3>4
  <2> QED BY <2>1, <2>2
<1>6. CASE Remove(g)
  <2>1. /\ groupOf' = groupOf \ {Row(g)}
        /\ \A x \in Presses \ {g} : press'[x] = press[x]
        /\ press[g].at = "delete" /\ press'[g] = [press[g] EXCEPT !.at = "removed"]
    BY <1>2, <1>6 DEF Remove, DeleteGroupOf
  <2>2. Told(m, group, "added")' = Told(m, group, "added")
    BY <1>2, <2>1 DEF Told
  <2>3. CASE ours
    <3>1. g \notin Told(m, group, "removed")
      BY <2>1 DEF Told
    <3>2. Told(m, group, "removed")' = Told(m, group, "removed") \cup {g}
      BY <1>2, <2>1, <2>3 DEF Told
    <3>3. AtMostOneMore(Told(m, group, "added"), Told(m, group, "removed") \cup {g},
                        InGroup(m, group)')
      <4>1. InGroup(m, group) \in BOOLEAN /\ InGroup(m, group)' \in BOOLEAN
        BY DEF InGroup
      <4> QED BY <1>1, <3>1, <4>1, UndoneOnceMore
    <3> QED BY <2>2, <3>2, <3>3
  <2>4. CASE ~ours
    <3>1. Told(m, group, "removed")' = Told(m, group, "removed")
      BY <1>2, <2>1, <2>4 DEF Told
    <3>2. InGroup(m, group)' = InGroup(m, group)
      BY <2>1, <2>4 DEF InGroup, Row
    <3> QED BY <1>1, <2>2, <3>1, <3>2
  <2> QED BY <2>3, <2>4
<1> QED BY <1>4, <1>5, <1>6 DEF PressNext

\* However the choices of a member interleave, he is told once more at most
\* that he was put into a group than that he was taken out (groups.rs).
THEOREM PressesBalance == Spec => []PressesAddUp
<1>1. Init => PressesCount
  <2> SUFFICES ASSUME Init, NEW m \in Ids, NEW group \in MenuGroups
               PROVE  AtMostOneMore(Told(m, group, "added"), Told(m, group, "removed"), InGroup(m, group))
    BY DEF PressesCount
  <2>1. Told(m, group, "added") = {} /\ Told(m, group, "removed") = {}
    BY DEF Init, PressInit, Told
  <2>2. InGroup(m, group) \in BOOLEAN
    BY DEF InGroup
  <2> QED BY <2>1, <2>2, NothingDone
<1>2. TypeOK /\ PressesCount /\ [Next]_vars => PressesCount'
  <2> SUFFICES ASSUME TypeOK, PressesCount, [Next]_vars PROVE PressesCount'
    OBVIOUS
  <2>1. CASE \E g \in Presses : PressNext(g)
    BY <2>1, PressCounts DEF TypeOK
  <2>2. CASE UNCHANGED <<press, groupOf>>
    <3>1. \A m, group, how : Told(m, group, how)' = Told(m, group, how)
      BY <2>2 DEF Told
    <3> QED BY <2>2, <3>1 DEF PressesCount, InGroup
  <2>3. ASSUME NEW s \in Logins, LoginNext(s), UNCHANGED press
        PROVE  UNCHANGED <<press, groupOf>>
    <3> USE <2>3 DEF dbVars, Ends
    <3>1. CASE LoginUser(s) \/ Fail(s)
      BY <3>1 DEF LoginUser, Start, Authenticate, AuthenticateElsewhere, NotAuthenticated,
                  ChooseLevel, ChooseClass, Fail
    <3>2. CASE LoginBot(s)
      BY <3>2 DEF LoginBot, ReadGuild, ReadLevels, ReadClasses, MenuTimesOut, LookUpMember,
           ReadLevelRole, ReadClassRole, GrantVerified, GrantLevel, GrantClass, Grant,
           ForgetVerified, ForgetLevel, ForgetClass, SetVerifiedRole, DeleteLevel, DeleteClass,
           InsertRow, InsertVerified
    <3> QED BY <3>1, <3>2 DEF LoginNext
  <2>4. ASSUME NEW o \in Logouts, LogoutNext(o), UNCHANGED press
        PROVE  UNCHANGED <<press, groupOf>>
    BY <2>4 DEF LogoutNext, LogoutBot, AskToConfirm, Confirm, ConfirmTimesOut, DeleteRow,
       ReadVerifiedRole, TakeVerifiedRole, LogoutFail, DeleteVerified, dbVars
  <2>5. ASSUME (\E u \in Users : ForceLogout(u)) \/ (\E r \in Roles : AdminDeletesRole(r))
               \/ UNCHANGED vars
        PROVE  UNCHANGED <<press, groupOf>>
    BY <2>5 DEF ForceLogout, DeleteVerified, AdminDeletesRole, vars, dbVars
  <2> QED BY <2>1, <2>2, <2>3, <2>4, <2>5 DEF Next
<1>3. PressesCount => PressesAddUp
  <2>1. \A m, group : InGroup(m, group) \in BOOLEAN
    BY DEF InGroup
  <2> QED BY <2>1, AtMostOne DEF PressesCount, PressesAddUp
<1>4. Spec => []TypeOK
  BY TypeCorrect, PTL
<1> QED BY <1>1, <1>2, <1>3, <1>4, PTL DEF Spec

-----------------------------------------------------------------------------
(* The refinement of AccountLink. *)

LEMMA HandlersRowsAreTheirs ==
  ASSUME IInv
  PROVE  /\ \A s \in Logins : IsOf(login[s].member, LoginOf[s])
         /\ \A o \in Logouts : IsOf(logout[o].member, LogoutOf[o])
<1>1. /\ UniqueMembers(members)
      /\ \A m \in members : m.id # NoId
  BY IdAssumption DEF IInv, TypeOK, DatabaseTypeOK, KeysOK, Member, NoId
<1>2. ASSUME NEW i, NEW u, i # NoId => [id |-> i, user |-> u] \in members
      PROVE  IsOf(i, u)
  BY <1>1, <1>2 DEF IsOf, UniqueMembers
<1> QED BY <1>2 DEF IInv, LoginMember, LogoutMember

\* Whatever logins, logouts, group choices, the owner and the admins do at once,
\* a user and his school account are linked as AccountLink has it: after a
\* proof, once at a time, and for good until somebody takes the link away.
THEOREM RefinesAccountLink == Spec => ImplementsAccountLink
<1>1. Init => Account!Init
  BY DEF Init, LoginInit, Links, Proofs, Proven, Account!Init
<1>2. IInv /\ IInv' /\ [Next]_vars => [Account!Next]_(Account!vars)
  <2> SUFFICES ASSUME IInv, IInv', [Next]_vars PROVE [Account!Next]_(Account!vars)
    OBVIOUS
  <2>0. /\ TypeOK /\ TablesOK /\ TablesOK' /\ DiscordTypeOK /\ LoginTypeOK /\ LogoutTypeOK
        /\ GoogleFirst
    BY DEF IInv, TypeOK
  <2>1. ASSUME NEW s \in Logins, LoginNext(s) PROVE [Account!Next]_(Account!vars)
    BY <2>0, <2>1, LoginImplements, HandlersRowsAreTheirs DEF Account!Next
  <2>2. ASSUME NEW o \in Logouts, LogoutNext(o), UNCHANGED login
        PROVE  [Account!Next]_(Account!vars)
    BY <2>0, <2>2, LogoutImplements, HandlersRowsAreTheirs DEF Account!Next
  <2>3. CASE UNCHANGED <<login, members, verified, roles>>
    BY <2>3, StayingImplements
  <2>4. CASE \E g \in Presses : PressNext(g) /\ UNCHANGED <<login, logout, forced>>
    <3>1. UNCHANGED <<login, members, verified, roles>>
      BY <2>4 DEF PressNext, Look, Remove, Add, PressFail, InsertGroupOf, DeleteGroupOf,
                  dbVars, discordVars
    <3> QED BY <2>3, <3>1
  <2>5. ASSUME NEW u \in Users, ForceLogout(u) PROVE [Account!Next]_(Account!vars)
    <3>1. PICK i \in VerifiedIds(u) : DeleteVerified(i) /\ UNCHANGED <<login, roles>>
      BY <2>5 DEF ForceLogout, discordVars
    <3>2. IsOf(i, u)
      BY <2>0 DEF VerifiedIds, MemberIds, IsOf, KeysOK, UniqueMembers
    <3>3. Account!BreakLink(u) \/ UNCHANGED Account!vars
      BY <2>0, <3>1, <3>2, BreakingImplements DEF DeleteVerified
    <3> QED BY <3>3 DEF Account!Next
  <2>6. ASSUME NEW r \in Roles, AdminDeletesRole(r) PROVE [Account!Next]_(Account!vars)
    BY <2>6, RoleDeletionImplements DEF AdminDeletesRole, dbVars, Account!Next
  <2>7. CASE UNCHANGED vars
    BY <2>3, <2>7 DEF vars, dbVars, discordVars
  <2> QED BY <2>1, <2>2, <2>4, <2>5, <2>6, <2>7 DEF Next
<1> QED BY <1>1, <1>2, Inductive, PTL DEF Spec, ImplementsAccountLink, Account!Spec
=============================================================================
