------------------------------ MODULE Linking ------------------------------
(***************************************************************************)
(* Who is linked to a school account, as the rows of two tables, the       *)
(* logins that came back from Google and the roles on Discord say.  The    *)
(* systems in which logins and logouts run, Accounts and Bot, implement    *)
(* AccountLink with it.                                                    *)
(***************************************************************************)
EXTENDS Login, Logout

\* The user came back from Google with a mail of the domain the guild wants.
Proven(s) == login[s].mail # NoDomain /\ login[s].mail = login[s].domain

Proofs == {<<LoginOf[s], login[s].mail>> : s \in {s \in Logins : Proven(s)}}

Links == {l \in [user : Users, mail : Domains, class : Ids] :
            \E v \in verified : /\ v.mail = l.mail /\ v.class = l.class
                                /\ [id |-> v.member, user |-> l.user] \in members}

Account == INSTANCE AccountLink WITH Classes <- Ids, proofs <- Proofs,
                                     links <- Links, held <- roles

\* Logins, logouts and whatever runs beside them keep the promise of
\* AccountLink (login.rs, logout.rs): a link comes after a proof of that mail,
\* one at a time, and stays as it is until it is broken.
ImplementsAccountLink == Account!Spec
=============================================================================
