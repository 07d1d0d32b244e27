-------------------------------- MODULE Setup --------------------------------
(***************************************************************************)
(* The setup commands (src/src/commands/setup/).  Two of them are one      *)
(* statement; the other two read what they need, post a message, and store *)
(* its id.  Users press the buttons of every message ever posted; nobody   *)
(* reads the ids, and their columns are left out.                          *)
(***************************************************************************)
EXTENDS Membership

CONSTANTS Posts      \* the commands that post a message, and their messages

VARIABLES post,       \* post[p]: the handler of command p
          posted      \* the login messages in the channels

setupVars == <<post, posted>>

PostEnds == {"noRole", "noGroups", "done"}

PostState == [at : {"idle", "post", "store"} \cup PostEnds, failed : BOOLEAN,
              kind : {"none", "login", "groups"}]

SetupTypeOK == /\ post \in [Posts -> PostState]
               /\ posted \subseteq Posts

\* The messages posted before are done with.
SetupInit(old) ==
  /\ posted = old
  /\ post = [p \in Posts |-> IF p \in old THEN [at |-> "done", failed |-> FALSE, kind |-> "login"]
                             ELSE [at |-> "idle", failed |-> FALSE, kind |-> "none"]]

PostAt(p, step) == post[p].at = step /\ ~post[p].failed

Becomes(p, step, kind) == post' = [post EXCEPT ![p].at = step, ![p].kind = kind]

PostFails(p) == post' = [post EXCEPT ![p].failed = TRUE]

\* An UPDATE of a row that is not there changes nothing.
\* A role with administrator permissions is refused, and nothing shows it.
SetupRole(r) ==
  /\ r \in guildRoles
  /\ IF guildKnown THEN SetVerifiedRole(r) ELSE UNCHANGED dbVars
  /\ UNCHANGED <<discordVars, membershipVars, setupVars>>

SetupPattern(d) ==
  /\ IF guildKnown THEN SetMailDomain(d) ELSE UNCHANGED dbVars
  /\ UNCHANGED <<discordVars, membershipVars, setupVars>>

ReadRoleUnchecked(p) ==   \* faulty: the role is not asked for
  /\ PostAt(p, "idle")
  /\ Becomes(p, "post", "login")
  /\ UNCHANGED <<dbVars, discordVars, membershipVars, posted>>

\* setup_login_message; without a row the query is an error
ReadRole(p) ==
  /\ PostAt(p, "idle")
  /\ IF guildKnown
     THEN Becomes(p, IF guild.role = NoRole THEN "noRole" ELSE "post", "login")
     ELSE PostFails(p)
  /\ UNCHANGED <<dbVars, discordVars, membershipVars, posted>>

\* setup_groups_message
ReadGroups(p) ==
  /\ PostAt(p, "idle")
  /\ Becomes(p, IF groups = {} THEN "noGroups" ELSE "post", "groups")
  /\ UNCHANGED <<dbVars, discordVars, membershipVars, posted>>

SendMessage(p) ==
  /\ PostAt(p, "post")
  /\ Becomes(p, "store", post[p].kind)
  /\ posted' = IF post[p].kind = "login" THEN posted \cup {p} ELSE posted
  /\ UNCHANGED <<dbVars, discordVars, membershipVars>>

StoreMessage(p) ==
  /\ PostAt(p, "store")
  /\ Becomes(p, "done", post[p].kind)
  /\ UNCHANGED <<dbVars, discordVars, membershipVars, posted>>

PostFail(p) == /\ PostAt(p, "post") \/ PostAt(p, "store")
               /\ PostFails(p)
               /\ UNCHANGED <<dbVars, discordVars, membershipVars, posted>>

-----------------------------------------------------------------------------
PostNext(p) == \/ ReadRole(p) \/ ReadGroups(p) \/ SendMessage(p) \/ StoreMessage(p)
               \/ PostFail(p)
=============================================================================
