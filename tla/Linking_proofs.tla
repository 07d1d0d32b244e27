--------------------------- MODULE Linking_proofs ---------------------------
(***************************************************************************)
(* Each step of a login or a logout is one of AccountLink: it proves a     *)
(* mail, gives or takes a role, makes or breaks a link, or does none of    *)
(* these.  Accounts and Bot implement AccountLink for this reason.         *)
(***************************************************************************)
EXTENDS Linking, Handlers_proofs

USE DEF TablesOK

-----------------------------------------------------------------------------
(* Links, as what two tables say.                                          *)

LinkOf(u, v) == [user |-> u, mail |-> v.mail, class |-> v.class]

LinksIn(M, V) ==
  {l \in [user : Users, mail : Domains, class : Ids] :
     \E v \in V : /\ v.mail = l.mail /\ v.class = l.class
                  /\ [id |-> v.member, user |-> l.user] \in M}

LEMMA LinksAreRead == /\ Links = LinksIn(members, verified)
                      /\ Links' = LinksIn(members', verified')
BY DEF Links, LinksIn

\* Each member has one id, so a new row links its user and nobody else, and
\* he had no link if no row had his id.
LEMMA InsertingLinks ==
  ASSUME NEW M, UniqueMembers(M),
         NEW V, NEW row \in Verified, \A v \in V : v.member # row.member,
         NEW u \in Users, [id |-> row.member, user |-> u] \in M
  PROVE  /\ \A l \in LinksIn(M, V) : l.user # u
         /\ LinkOf(u, row) \in [user : Users, mail : Domains, class : Ids]
         /\ LinksIn(M, V \cup {row}) = LinksIn(M, V) \cup {LinkOf(u, row)}
<1>1. \A i, w : [id |-> i, user |-> w] \in M => (i = row.member <=> w = u)
  BY DEF UniqueMembers
<1>2. \A l \in LinksIn(M, V) : l.user # u
  BY <1>1 DEF LinksIn
<1>3. /\ LinkOf(u, row) \in [user : Users, mail : Domains, class : Ids]
      /\ LinkOf(u, row) \in LinksIn(M, V \cup {row})
  BY DEF LinksIn, LinkOf, Verified
<1>4. \A l \in LinksIn(M, V \cup {row}) : l \in LinksIn(M, V) \/ l = LinkOf(u, row)
  BY <1>1 DEF LinksIn, LinkOf
<1>5. LinksIn(M, V) \subseteq LinksIn(M, V \cup {row})
  BY DEF LinksIn
<1> QED BY <1>2, <1>3, <1>4, <1>5

LEMMA DeletingUnlinks ==
  ASSUME NEW M, UniqueMembers(M), NEW V, NEW i, NEW u, [id |-> i, user |-> u] \in M
  PROVE  LinksIn(M, {v \in V : v.member # i}) = {l \in LinksIn(M, V) : l.user # u}
<1>1. \A j, w : [id |-> j, user |-> w] \in M => (j = i <=> w = u)
  BY DEF UniqueMembers
<1> QED BY <1>1 DEF LinksIn

-----------------------------------------------------------------------------
(* Proofs come from Google alone.                                          *)

NewProof(s) == \E d \in Domains : Proofs' = Proofs \cup {<<LoginOf[s], d>>}

\* A login that goes on without Google keeps what it has proved.
LEMMA SameProofs ==
  ASSUME NEW s \in Logins, \A x \in Logins \ {s} : login'[x] = login[x],
         Proven(s) <=> Proven(s)', login'[s].mail = login[s].mail
  PROVE  Proofs' = Proofs
BY DEF Proofs, Proven

LEMMA ProofsStep ==
  ASSUME DiscordTypeOK, LoginTypeOK, GoogleFirst, NEW s \in Logins, LoginNext(s)
  PROVE  \/ Proofs' = Proofs
         \/ NewProof(s) /\ login[s].at = "oauth"
<1>1. login \in [Logins -> LoginState]
  BY DEF LoginTypeOK
<1> USE <1>1 DEF At, Goto, Ends, Fails, LoginState
<1> DEFINE Keeps == login'[s].mail = login[s].mail /\ login'[s].domain = login[s].domain
<1>2. \A x \in Logins \ {s} : login'[x] = login[x]
  BY LoginHasEffect DEF LoginEffect
<1>3. ASSUME Keeps PROVE Proofs' = Proofs
  BY <1>2, <1>3, SameProofs DEF Proven
<1>4. CASE ReadGuild(s)
  <2>1. login[s].mail = NoDomain /\ login'[s].mail = NoDomain
    BY <1>4 DEF ReadGuild, GoogleFirst, BeforeGoogle
  <2> QED BY <1>2, <2>1, SameProofs DEF Proven
<1>5. CASE Authenticate(s)
  <2>1. /\ login[s].mail = NoDomain /\ login[s].domain \in Domains
        /\ login'[s].mail = login[s].domain /\ login'[s].domain = login[s].domain
    BY <1>5 DEF Authenticate, GoogleFirst, BeforeGoogle
  <2>2. Proven(s)' /\ ~Proven(s)
    BY <2>1, NullAssumption DEF Proven
  <2>3. Proofs' = Proofs \cup {<<LoginOf[s], login[s].domain>>}
    BY <1>2, <2>1, <2>2 DEF Proofs, Proven
  <2> QED BY <1>5, <2>1, <2>3 DEF Authenticate, NewProof
<1>6. CASE AuthenticateElsewhere(s)
  <2>1. PICK mail \in Domains \ {login[s].domain} :
          login' = [login EXCEPT ![s].at = "foreignDomain", ![s].mail = mail]
    BY <1>6 DEF AuthenticateElsewhere
  <2>2. ~Proven(s) /\ ~Proven(s)'
    BY <1>6, <2>1 DEF AuthenticateElsewhere, GoogleFirst, BeforeGoogle, Proven
  <2> QED BY <1>2, <2>2 DEF Proofs, Proven
<1>7. CASE Start(s) \/ ReadLevels(s) \/ NotAuthenticated(s)
  BY <1>3, <1>7 DEF Start, ReadLevels, NotAuthenticated
<1>8. CASE ChooseLevel(s) \/ ReadClasses(s) \/ ChooseClass(s) \/ MenuTimesOut(s)
  BY <1>3, <1>8 DEF ChooseLevel, ReadClasses, ChooseClass, MenuTimesOut
<1>9. CASE LookUpMember(s) \/ ReadLevelRole(s) \/ ReadClassRole(s)
  BY <1>3, <1>9 DEF LookUpMember, ReadLevelRole, ReadClassRole
<1>10. CASE GrantVerified(s) \/ GrantLevel(s) \/ GrantClass(s)
  BY <1>3, <1>10 DEF GrantVerified, GrantLevel, GrantClass, Grant
<1>11. CASE ForgetVerified(s) \/ ForgetLevel(s) \/ ForgetClass(s) \/ InsertRow(s) \/ Fail(s)
  BY <1>3, <1>11 DEF ForgetVerified, ForgetLevel, ForgetClass, InsertRow, Fail
<1> QED BY <1>4, <1>5, <1>6, <1>7, <1>8, <1>9, <1>10, <1>11 DEF LoginNext, LoginBot, LoginUser

-----------------------------------------------------------------------------
(* Each step, as one of AccountLink. *)

\* The row of id i is user u's, if there is one.
IsOf(i, u) == \A m \in members : m.id = i => m.user = u

LEMMA ProvenIsRecorded ==
  ASSUME LoginTypeOK, NEW s \in Logins, Proven(s)
  PROVE  login[s].mail \in Domains /\ <<LoginOf[s], login[s].mail>> \in Proofs
BY DEF LoginTypeOK, LoginState, Proofs, Proven

LEMMA LoginImplements ==
  ASSUME TablesOK, TablesOK', DiscordTypeOK, LoginTypeOK, GoogleFirst,
         NEW s \in Logins, LoginNext(s), IsOf(login[s].member, LoginOf[s])
  PROVE  \/ \E u \in Users : Account!Prove(u) \/ Account!Give(u) \/ Account!MakeLink(u)
         \/ UNCHANGED Account!vars
<1>1. LoginEffect(s) /\ members' = members /\ LoginOf[s] \in Users
  BY LoginHasEffect, LoginAssumption DEF LoginEffect
<1>2. CASE LoginQuiet(s)
  <2>1. UNCHANGED <<Links, roles>>
    BY <1>1, <1>2, LinksAreRead DEF LoginQuiet
  <2>2. CASE Proofs' = Proofs
    BY <2>1, <2>2 DEF Account!vars
  <2>3. CASE NewProof(s)
    BY <1>1, <2>1, <2>3 DEF NewProof, Account!Prove
  <2> QED BY <2>2, <2>3, ProofsStep
<1>3. ASSUME NEW r \in Roles, LoginGrants(s, r)
      PROVE  Account!Give(LoginOf[s])
  <2>1. Proven(s)
    BY <1>3 DEF LoginGrants, GoogleFirst, Proven
  <2>2. Proofs' = Proofs
    BY <1>3, ProofsStep DEF LoginGrants, AfterGoogle, BeforeGoogle
  <2> QED BY <1>1, <1>3, <2>1, <2>2, LinksAreRead, ProvenIsRecorded
          DEF LoginGrants, Account!Give
<1>4. CASE LoginInserts(s)
  <2> USE <1>1, <1>4 DEF LoginInserts
  <2>1. /\ login[s].at \in AfterGoogle
        /\ login[s] \in LoginState /\ login'[s].mail = login[s].mail
        /\ login'[s].domain = login[s].domain
    BY AfterGrantIsAfterGoogle DEF LoginTypeOK, LoginState, G1
  <2>2. Proven(s) /\ Proofs' = Proofs
    BY <2>1, ProofsStep DEF GoogleFirst, AfterGoogle, BeforeGoogle, Proven
  <2>3. /\ NewRow(s) \in Verified /\ UniqueMembers(members)
        /\ \A v \in verified : v.member # NewRow(s).member
        /\ [id |-> NewRow(s).member, user |-> LoginOf[s]] \in members
    <3>1. NewRow(s) \in Verified /\ UniqueMembers(members)
      BY DEF DatabaseTypeOK, KeysOK
    <3>2. PICK m \in members : m.id = login[s].member
      BY DEF IdsOf
    <3>3. m = [id |-> login[s].member, user |-> LoginOf[s]]
      BY <3>2 DEF IsOf, DatabaseTypeOK, Member
    <3> QED BY <3>1, <3>3 DEF NewRow
  <2>4. /\ \A l \in Links : l.user # LoginOf[s]
        /\ LinkOf(LoginOf[s], NewRow(s)) \in [user : Users, mail : Domains, class : Ids]
        /\ Links' = Links \cup {LinkOf(LoginOf[s], NewRow(s))}
    BY <2>3, InsertingLinks, LinksAreRead
  <2>5. Account!MakeLink(LoginOf[s])
    <3>1. <<LoginOf[s], LinkOf(LoginOf[s], NewRow(s)).mail>> \in Proofs
      BY <2>2, ProvenIsRecorded DEF LinkOf, NewRow
    <3> QED BY <2>2, <2>4, <3>1 DEF Account!MakeLink, Account!Link, LinkOf
  <2> QED BY <2>5
<1> QED BY <1>1, <1>2, <1>3, <1>4 DEF LoginEffect

\* The deletion of a row of verified_members, of whoever holds that id.
LEMMA BreakingImplements ==
  ASSUME TablesOK, NEW i, NEW u \in Users, IsOf(i, u),
         UNCHANGED <<login, members, roles>>,
         verified' = {v \in verified : v.member # i}
  PROVE  Account!BreakLink(u) \/ UNCHANGED Account!vars
<1>1. Proofs' = Proofs
  BY DEF Proofs, Proven
<1>2. CASE i \in IdsOf(members)
  <2>1. PICK m \in members : m.id = i
    BY <1>2 DEF IdsOf
  <2>2. [id |-> i, user |-> u] \in members
    BY <2>1 DEF IsOf, DatabaseTypeOK, Member
  <2>3. Links' = {l \in Links : l.user # u}
    BY <2>2, DeletingUnlinks, LinksAreRead DEF KeysOK
  <2> QED BY <1>1, <2>3 DEF Account!BreakLink
<1>3. CASE i \notin IdsOf(members)
  <2>1. verified' = verified
    BY <1>3 DEF KeysOK
  <2> QED BY <1>1, <2>1, LinksAreRead DEF Account!vars
<1> QED BY <1>2, <1>3

LEMMA LogoutImplements ==
  ASSUME TablesOK, DiscordTypeOK, LogoutTypeOK,
         NEW o \in Logouts, LogoutNext(o), UNCHANGED login,
         IsOf(logout[o].member, LogoutOf[o])
  PROVE  \/ \E u \in Users : Account!BreakLink(u)
         \/ Account!Take
         \/ UNCHANGED Account!vars
<1>1. LogoutEffect(o) /\ members' = members /\ LogoutOf[o] \in Users
  BY LogoutHasEffect, LogoutAssumption DEF LogoutEffect
<1>2. Proofs' = Proofs
  BY DEF Proofs, Proven
<1>3. CASE LogoutQuiet(o)
  BY <1>1, <1>2, <1>3, LinksAreRead DEF LogoutQuiet, Account!vars
<1>4. CASE LogoutDeletes(o)
  BY <1>1, <1>4, BreakingImplements DEF LogoutDeletes
<1>5. CASE LogoutTakes(o)
  <2> DEFINE r == logout[o].role
  <2>1. /\ Links' = Links /\ roles \in [Users -> SUBSET Roles]
        /\ roles' = [roles EXCEPT ![LogoutOf[o]] = @ \ {r}]
    BY <1>1, <1>5, LinksAreRead DEF LogoutTakes, DiscordTypeOK
  <2>2. CASE r \in Roles
    <3>1. roles' = [u \in Users |-> IF u \in {LogoutOf[o]} THEN roles[u] \ {r} ELSE roles[u]]
      BY <2>1
    <3>2. {LogoutOf[o]} \in SUBSET Users
      BY <1>1
    <3> QED BY <1>2, <2>1, <2>2, <3>1, <3>2 DEF Account!Take
  <2>3. CASE r \notin Roles
    <3>1. roles' = roles
      BY <1>1, <2>1, <2>3
    <3> QED BY <1>2, <2>1, <3>1 DEF Account!vars
  <2> QED BY <2>2, <2>3
<1> QED BY <1>1, <1>3, <1>4, <1>5 DEF LogoutEffect

\* What leaves the rows, the roles and the logins alone changes nothing here;
\* the deletion of a role takes it from everybody.
LEMMA StayingImplements ==
  ASSUME UNCHANGED <<login, members, verified, roles>>
  PROVE  UNCHANGED Account!vars
BY LinksAreRead DEF Proofs, Proven, Account!vars

LEMMA RoleDeletionImplements ==
  ASSUME NEW r \in Roles, DeleteRole(r), UNCHANGED <<login, members, verified>>
  PROVE  Account!Take
<1>1. roles' = [u \in Users |-> IF u \in Users THEN roles[u] \ {r} ELSE roles[u]]
  BY DEF DeleteRole
<1> QED BY <1>1, LinksAreRead DEF Account!Take, Proofs, Proven
=============================================================================
