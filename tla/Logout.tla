------------------------------- MODULE Logout -------------------------------
(***************************************************************************)
(* The logout button (src/src/events/logout.rs): one handler task for      *)
(* every press.  It remembers whose row it will delete, asks for a         *)
(* confirmation, deletes the row and then takes the verified role away.    *)
(***************************************************************************)
EXTENDS Database

CONSTANTS Logouts,        \* the presses of the logout button
          LogoutOf        \* who pressed

ASSUME LogoutAssumption == LogoutOf \in [Logouts -> Users]

VARIABLE logout           \* logout[o]: the handler of press o

LogoutEnds == {"notVerified", "done"}

LogoutSteps == {"idle", "confirm", "delete", "readRole", "takeRole"}

LogoutState ==
  [at : LogoutSteps \cup LogoutEnds, failed : BOOLEAN,
   confirmed : BOOLEAN,              \* the ok button was pressed
   member : Ids \cup {NoId},         \* member_id
   role : Roles \cup {NoRole}]       \* role_id

LogoutTypeOK == logout \in [Logouts -> LogoutState]

LogoutInit == logout = [o \in Logouts |-> [at |-> "idle", failed |-> FALSE, confirmed |-> FALSE,
                                           member |-> NoId, role |-> NoRole]]

LogoutAt(o, step) == logout[o].at = step /\ ~logout[o].failed

LogoutFails(o) == logout' = [logout EXCEPT ![o].failed = TRUE]

AskToConfirm(o) ==
  LET found == VerifiedIds(LogoutOf[o]) IN
  /\ LogoutAt(o, "idle")
  /\ IF found = {}
     THEN logout' = [logout EXCEPT ![o].at = "notVerified"]
     ELSE \E i \in found : logout' = [logout EXCEPT ![o].at = "confirm", ![o].member = i]
  /\ UNCHANGED <<dbVars, discordVars>>

Confirm(o) ==
  /\ LogoutAt(o, "confirm")
  /\ logout' = [logout EXCEPT ![o].at = "delete", ![o].confirmed = TRUE]
  /\ UNCHANGED <<dbVars, discordVars>>

\* The collector's 60 seconds: the user is told, and the handler goes on.
ConfirmTimesOut(o) ==
  /\ LogoutAt(o, "confirm")
  /\ logout' = [logout EXCEPT ![o].at = "delete"]
  /\ UNCHANGED <<dbVars, discordVars>>

\* Refused as long as the member is in a group.
DeleteRow(o) ==
  /\ LogoutAt(o, "delete")
  /\ IF CanDeleteVerified(logout[o].member)
     THEN /\ DeleteVerified(logout[o].member)
          /\ logout' = [logout EXCEPT ![o].at = "readRole"]
     ELSE UNCHANGED dbVars /\ LogoutFails(o)
  /\ UNCHANGED discordVars

ReadVerifiedRole(o) ==
  /\ LogoutAt(o, "readRole")
  /\ IF guild.role = NoRole
     THEN logout' = [logout EXCEPT ![o].at = "done", ![o].role = NoRole]
     ELSE logout' = [logout EXCEPT ![o].at = "takeRole", ![o].role = guild.role]
  /\ UNCHANGED <<dbVars, discordVars>>

TakeVerifiedRoleNot(o) ==   \* faulty: the role is never taken away
  /\ LogoutAt(o, "takeRole")
  /\ logout' = [logout EXCEPT ![o].at = "done"]
  /\ UNCHANGED <<dbVars, discordVars>>

TakeVerifiedRole(o) ==
  /\ LogoutAt(o, "takeRole")
  /\ \/ /\ TakeRole(LogoutOf[o], logout[o].role)
        /\ logout' = [logout EXCEPT ![o].at = "done"]
     \/ /\ logout[o].role \notin guildRoles
        /\ LogoutFails(o)
        /\ UNCHANGED discordVars
  /\ UNCHANGED dbVars

LogoutFail(o) == /\ ~logout[o].failed
                 /\ logout[o].at \notin LogoutEnds \cup {"idle"}
                 /\ LogoutFails(o)
                 /\ UNCHANGED <<dbVars, discordVars>>

-----------------------------------------------------------------------------
LogoutBot(o) == ConfirmTimesOut(o) \/ DeleteRow(o) \/ ReadVerifiedRole(o) \/ TakeVerifiedRole(o)

LogoutNext(o) == AskToConfirm(o) \/ Confirm(o) \/ LogoutBot(o) \/ LogoutFail(o)
=============================================================================
