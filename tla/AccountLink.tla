----------------------------- MODULE AccountLink -----------------------------
(***************************************************************************)
(* What the bot promises about Discord users and school accounts: a user   *)
(* is given roles, and a link to a class, only once he has proved a mail   *)
(* of the school; he has one link at a time, which says what he proved and *)
(* never changes; and he is linked again only after the link was taken     *)
(* away.  How logins, logouts and the owner bring this about with rows,    *)
(* roles and stale reads is in modules Accounts and Bot.                   *)
(***************************************************************************)
CONSTANTS Users, Roles, Domains, Classes

VARIABLES
  proofs,   \* who proved a mail of which domain
  links,    \* who is linked, with which mail and class
  held      \* held[u]: the roles of user u

vars == <<proofs, links, held>>

Link == [user : Users, mail : Domains, class : Classes]

Init == /\ proofs = {}
        /\ links = {}
        /\ held = [u \in Users |-> {}]

Prove(u) == /\ \E d \in Domains : proofs' = proofs \cup {<<u, d>>}
            /\ UNCHANGED <<links, held>>

\* One more role, of the school's own choice.
Give(u) == /\ \E d \in Domains : <<u, d>> \in proofs
           /\ \E r \in Roles : held' = [held EXCEPT ![u] = @ \cup {r}]
           /\ UNCHANGED <<proofs, links>>

MakeLink(u) ==
  /\ \A l \in links : l.user # u
  /\ \E l \in Link : /\ l.user = u /\ <<u, l.mail>> \in proofs
                     /\ links' = links \cup {l}
  /\ UNCHANGED <<proofs, held>>

BreakLink(u) == /\ links' = {l \in links : l.user # u}
                /\ UNCHANGED <<proofs, held>>

\* He leaves the school's guild, and keeps his link.
TakeAll(u) == /\ held' = [held EXCEPT ![u] = {}]
              /\ UNCHANGED <<proofs, links>>

\* A logout takes a role from one user, an admin's deletion from everybody.
Take == /\ \E r \in Roles, from \in SUBSET Users :
             held' = [u \in Users |-> IF u \in from THEN held[u] \ {r} ELSE held[u]]
        /\ UNCHANGED <<proofs, links>>

Next == \/ \E u \in Users : Prove(u) \/ Give(u) \/ MakeLink(u) \/ BreakLink(u) \/ TakeAll(u)
        \/ Take

Spec == Init /\ [][Next]_vars
=============================================================================
