------------------------------ MODULE GroupMenu ------------------------------
(***************************************************************************)
(* The groups menu (src/src/events/groups.rs): one handler task for every  *)
(* choice of a group.  It looks whether the member is in the group, then   *)
(* takes him out or puts him in.                                           *)
(***************************************************************************)
EXTENDS Database

CONSTANTS Presses,        \* the choices made in the menu
          PressOf,        \* who chose
          MenuGroups      \* the groups the message was made with

ASSUME PressAssumption == PressOf \in [Presses -> Users] /\ MenuGroups \subseteq Ids

VARIABLE press            \* press[g]: the handler of choice g

PressEnds == {"notVerified", "added", "removed"}

PressState == [at : {"idle", "insert", "delete"} \cup PressEnds, failed : BOOLEAN,
               member : Ids \cup {NoId}, group : Ids \cup {NoId}]

PressTypeOK == press \in [Presses -> PressState]

PressInit == press = [g \in Presses |-> [at |-> "idle", failed |-> FALSE,
                                         member |-> NoId, group |-> NoId]]

PressAt(g, step) == press[g].at = step /\ ~press[g].failed

PressFails(g) == press' = [press EXCEPT ![g].failed = TRUE]

Row(g) == [member |-> press[g].member, group |-> press[g].group]

\* Three queries: the member's row, the group's (an error if it is gone) and
\* the membership.  Were one of the first two rows deleted before the third
\* query, the insert would be refused, for groupOf references both.
Look(g) ==
  /\ PressAt(g, "idle")
  /\ \/ /\ VerifiedIds(PressOf[g]) = {}
        /\ press' = [press EXCEPT ![g].at = "notVerified"]
     \/ \E i \in VerifiedIds(PressOf[g]), group \in MenuGroups, step \in {"insert", "delete"} :
          /\ group \in IdsOf(groups)
          /\ step = "delete" <=> [member |-> i, group |-> group] \in groupOf
          /\ press' = [press EXCEPT ![g].at = step, ![g].member = i, ![g].group = group]
     \/ /\ VerifiedIds(PressOf[g]) # {}
        /\ MenuGroups \ IdsOf(groups) # {}
        /\ PressFails(g)
  /\ UNCHANGED <<dbVars, discordVars>>

Remove(g) ==
  /\ PressAt(g, "delete")
  /\ DeleteGroupOf(Row(g))
  /\ press' = [press EXCEPT ![g].at = "removed"]
  /\ UNCHANGED discordVars

AddAnyway(g) ==   \* faulty: INSERT IGNORE
  /\ PressAt(g, "insert")
  /\ InsertGroupOf(Row(g))
  /\ press' = [press EXCEPT ![g].at = "added"]
  /\ UNCHANGED discordVars

Add(g) ==
  /\ PressAt(g, "insert")
  /\ IF CanInsertGroupOf(Row(g))
     THEN InsertGroupOf(Row(g)) /\ press' = [press EXCEPT ![g].at = "added"]
     ELSE UNCHANGED dbVars /\ PressFails(g)
  /\ UNCHANGED discordVars

PressFail(g) == /\ PressAt(g, "insert") \/ PressAt(g, "delete")
                /\ PressFails(g)
                /\ UNCHANGED <<dbVars, discordVars>>

PressNext(g) == Look(g) \/ Remove(g) \/ Add(g) \/ PressFail(g)
=============================================================================
