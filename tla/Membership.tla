----------------------------- MODULE Membership -----------------------------
(***************************************************************************)
(* Who is in the guild, and what the bot knows of it: the gateway's events *)
(* on members and guilds (src/src/events/mod.rs) and the owner's refresh   *)
(* commands (src/src/commands/helpers/refresh.rs).  Events arrive in       *)
(* order, but each is handled in a task of its own, so that they overtake  *)
(* each other; an event that falls into a time without connection never    *)
(* arrives.                                                                *)
(***************************************************************************)
EXTENDS Database, Sequences, FiniteSetsExt

CONSTANTS Tasks,        \* the tasks for events and refresh commands
          UserOrder,    \* the users by their ids
          Bots,         \* the users that are bots
          PageSize      \* how many members Discord lists at once: 1000

ASSUME MembershipAssumption ==
  /\ UserOrder \in Seq(Users)
  /\ \A u \in Users : \E n \in 1 .. Len(UserOrder) : UserOrder[n] = u
  /\ Bots \subseteq Users
  /\ PageSize \in Nat \ {0}
  /\ IsFiniteSet(InitialMembers)

VARIABLES
  guildKnown,   \* the guild has a row; without one, guild is NoGuild
  lastMember,   \* the AUTO_INCREMENT counter of members
  present,      \* the users in the guild, as Discord has it
  task,         \* task[t]: what task t does
  missed        \* history: the users whose last move was never reported

membershipVars == <<guildKnown, lastMember, present, task, missed>>

TaskEnds == {"known", "added", "removed", "loaded",
             "guildKnown", "guildAdded", "guildDeleted"}

TaskSteps == {"idle", "look", "insert", "delete", "fetch", "load",
              "lookGuild", "insertGuild", "deleteGuild"}

Positions == 1 .. Len(UserOrder)   \* of the users in the order of their ids

NoPage == [members |-> {}, last |-> 0, short |-> FALSE]

TaskState ==
  [at : TaskSteps \cup TaskEnds, failed : BOOLEAN,
   \* whom the task is about; of one that loads all members, a history: who
   \* has been in the guild since it began
   users : SUBSET Users,
   page : [members : SUBSET Positions,    \* still to be inserted
           last : Positions \cup {0},     \* last_member_id
           short : BOOLEAN],              \* len < 1000
   \* history: whom it added though he had left, or removed though he was back
   late : SUBSET Users]

MembershipTypeOK ==
  /\ guildKnown \in BOOLEAN /\ (~guildKnown => guild = NoGuild)
  /\ lastMember \in Nat /\ \A m \in members : m.id =< lastMember
  /\ present \subseteq Users /\ missed \subseteq Users
  /\ task \in [Tasks -> TaskState]

\* Of those who are already there, the bot knows who has a row.
MembershipInit(here) ==
  /\ lastMember = Max(IdsOf(members) \cup {NoId})
  /\ present = here /\ missed = here \ {m.user : m \in members}
  /\ task = [t \in Tasks |-> [at |-> "idle", failed |-> FALSE, users |-> {},
                              page |-> NoPage, late |-> {}]]

TaskAt(t, step) == task[t].at = step /\ ~task[t].failed

TaskGoto(t, step) == task' = [task EXCEPT ![t].at = step]

TaskFails(t) == task' = [task EXCEPT ![t].failed = TRUE]

Dispatch(t, step, users) ==
  TaskAt(t, "idle") /\ task' = [task EXCEPT ![t].at = step, ![t].users = users]

TheUser(t) == CHOOSE u \in task[t].users : TRUE

-----------------------------------------------------------------------------
(* Discord, and whoever starts a task. *)

\* The gateway reports to one task, or the event never arrives.
Reported(u, step) ==
  \/ \E t \in Tasks : Dispatch(t, step, {u}) /\ missed' = missed \ {u}
  \/ missed' = missed \cup {u} /\ UNCHANGED task

Joins(u) ==
  /\ u \notin present
  /\ present' = present \cup {u}
  /\ Reported(u, "look")
  /\ UNCHANGED <<dbVars, discordVars, guildKnown, lastMember>>

\* history: for a task that loads all members, who leaves is one less to
\* account for
WithoutLeaver(u) ==
  [t \in Tasks |-> IF task[t].at \in {"fetch", "load", "loaded"}
                   THEN [task[t] EXCEPT !.users = @ \ {u}] ELSE task[t]]

Leaves(u) ==
  /\ u \in present
  /\ present' = present \ {u}
  /\ DropRoles(u)
  /\ \/ \E t \in Tasks :
          /\ TaskAt(t, "idle")
          /\ task' = [WithoutLeaver(u) EXCEPT ![t].at = "delete", ![t].users = {u}]
          /\ missed' = missed \ {u}
     \/ missed' = missed \cup {u} /\ task' = WithoutLeaver(u)
  /\ UNCHANGED <<dbVars, guildKnown, lastMember>>

\* GuildCreate comes whenever the bot connects, GuildDelete also when the
\* guild is unavailable for a while.
GuildEvent(t) ==
  /\ \E step \in {"lookGuild", "deleteGuild"} : Dispatch(t, step, {})
  /\ UNCHANGED <<dbVars, discordVars, guildKnown, lastMember, present, missed>>

\* debug_refresh_member of a member, debug_refresh_members
Refresh(t) ==
  /\ \/ \E u \in present : Dispatch(t, "look", {u})
     \/ Dispatch(t, "fetch", present)
  /\ UNCHANGED <<dbVars, discordVars, guildKnown, lastMember, present, missed>>

-----------------------------------------------------------------------------
(* GuildMemberAddition and debug_refresh_member; GuildMemberRemoval *)

LookStrictly(t) ==   \* faulty: a query that fails is taken for a row
  /\ TaskAt(t, "look")
  /\ \/ TaskGoto(t, "known")
     \/ MemberIds(TheUser(t)) = {} /\ TaskGoto(t, "insert")
  /\ UNCHANGED <<dbVars, discordVars, guildKnown, lastMember, present, missed>>

\* The else branch is for every error, not only for "no such row".
Look(t) ==
  /\ TaskAt(t, "look")
  /\ \/ MemberIds(TheUser(t)) # {} /\ TaskGoto(t, "known")
     \/ TaskGoto(t, "insert")
  /\ UNCHANGED <<dbVars, discordVars, guildKnown, lastMember, present, missed>>

NewMemberFits(u) == MemberIds(u) = {} /\ guildKnown

AddMemberReusingIds(u) ==   \* faulty: the next id is that after the last row
  LET i == Max(IdsOf(members) \cup {NoId}) + 1 IN
  i \in Ids /\ InsertMember([id |-> i, user |-> u]) /\ lastMember' = i

\* AUTO_INCREMENT; Ids is a bound.
AddMember(u) == /\ lastMember + 1 \in Ids
                /\ InsertMember([id |-> lastMember + 1, user |-> u])
                /\ lastMember' = lastMember + 1

InsertUser(t) ==
  LET u == TheUser(t) IN
  /\ TaskAt(t, "insert")
  /\ IF NewMemberFits(u)
     THEN /\ AddMember(u)
          /\ task' = [task EXCEPT ![t].at = "added", ![t].late = {u} \ present]
     ELSE TaskFails(t) /\ UNCHANGED <<dbVars, lastMember>>
  /\ UNCHANGED <<discordVars, guildKnown, present, missed>>

RemoveUserQuietly(t) ==   \* faulty: a refused deletion is not reported
  LET u == TheUser(t) IN
  /\ TaskAt(t, "delete")
  /\ IF CanDeleteMember(u) THEN DeleteMember(u) ELSE UNCHANGED dbVars
  /\ task' = [task EXCEPT ![t].at = "removed", ![t].late = {u} \cap present]
  /\ UNCHANGED <<discordVars, guildKnown, lastMember, present, missed>>

RemoveUser(t) ==
  LET u == TheUser(t) IN
  /\ TaskAt(t, "delete")
  /\ IF CanDeleteMember(u)
     THEN /\ DeleteMember(u)
          /\ task' = [task EXCEPT ![t].at = "removed", ![t].late = {u} \cap present]
     ELSE TaskFails(t) /\ UNCHANGED dbVars
  /\ UNCHANGED <<discordVars, guildKnown, lastMember, present, missed>>

-----------------------------------------------------------------------------
(* debug_refresh_members *)

\* Where the members are that Discord lists after a given one: all of them,
\* and as many as it lists at once.
Listed(last) == {n \in Positions : n > last /\ UserOrder[n] \in present}

PageAfter(last) ==
  {n \in Listed(last) : Cardinality({k \in Listed(last) : k < n}) < PageSize}

NoBots(positions) == {n \in positions : UserOrder[n] \notin Bots}

\* Where the loop stands when these members are still to be inserted.
AfterMember(rest, short) ==
  IF rest # {} THEN "load" ELSE IF short THEN "loaded" ELSE "fetch"

FetchHumans(t) ==   \* faulty: bots do not count for the length of the page
  LET listed == PageAfter(task[t].page.last)
      humans == NoBots(listed)
      short  == Cardinality(humans) < PageSize
      last   == IF listed = {} THEN task[t].page.last ELSE Max(listed) IN
  /\ TaskAt(t, "fetch")
  /\ task' = [task EXCEPT ![t].at = AfterMember(humans, short),
                          ![t].page = [members |-> humans, last |-> last, short |-> short]]
  /\ UNCHANGED <<dbVars, discordVars, guildKnown, lastMember, present, missed>>

FetchPage(t) ==
  LET listed == PageAfter(task[t].page.last)
      humans == NoBots(listed)
      short  == Cardinality(listed) < PageSize
      last   == IF listed = {} THEN task[t].page.last ELSE Max(listed) IN
  /\ TaskAt(t, "fetch")
  /\ task' = [task EXCEPT ![t].at = AfterMember(humans, short),
                          ![t].page = [members |-> humans, last |-> last, short |-> short]]
  /\ UNCHANGED <<dbVars, discordVars, guildKnown, lastMember, present, missed>>

NextMember(t, added) ==
  LET page == task[t].page
      rest == page.members \ {Min(page.members)} IN
  task' = [task EXCEPT ![t].at = AfterMember(rest, page.short),
                       ![t].page.members = rest,
                       ![t].late = @ \cup (added \ present)]

\* A unique violation is passed over; any other error ends the command.
LoadMember(t) ==
  LET u == UserOrder[Min(task[t].page.members)] IN
  /\ TaskAt(t, "load")
  /\ \/ NewMemberFits(u) /\ AddMember(u) /\ NextMember(t, {u})
     \/ MemberIds(u) # {} /\ NextMember(t, {}) /\ UNCHANGED <<dbVars, lastMember>>
     \/ MemberIds(u) = {} /\ ~guildKnown /\ TaskFails(t) /\ UNCHANGED <<dbVars, lastMember>>
  /\ UNCHANGED <<discordVars, guildKnown, present, missed>>

-----------------------------------------------------------------------------
(* GuildCreate, GuildDelete *)

\* Again the else branch is for every error.
LookForGuild(t) ==
  /\ TaskAt(t, "lookGuild")
  /\ \/ guildKnown /\ TaskGoto(t, "guildKnown")
     \/ TaskGoto(t, "insertGuild")
  /\ UNCHANGED <<dbVars, discordVars, guildKnown, lastMember, present, missed>>

ReplaceGuild(t) ==   \* faulty: REPLACE instead of INSERT
  /\ TaskAt(t, "insertGuild")
  /\ guildKnown' = TRUE /\ SetGuild(NoGuild) /\ TaskGoto(t, "guildAdded")
  /\ UNCHANGED <<discordVars, lastMember, present, missed>>

AddGuild(t) ==
  /\ TaskAt(t, "insertGuild")
  /\ IF guildKnown
     THEN TaskFails(t) /\ UNCHANGED <<dbVars, guildKnown>>
     ELSE guildKnown' = TRUE /\ SetGuild(NoGuild) /\ TaskGoto(t, "guildAdded")
  /\ UNCHANGED <<discordVars, lastMember, present, missed>>

\* Refused as long as anything refers to the guild.
DeleteGuild(t) ==
  /\ TaskAt(t, "deleteGuild")
  /\ IF CanDeleteGuild
     THEN guildKnown' = FALSE /\ SetGuild(NoGuild) /\ TaskGoto(t, "guildDeleted")
     ELSE TaskFails(t) /\ UNCHANGED <<dbVars, guildKnown>>
  /\ UNCHANGED <<discordVars, lastMember, present, missed>>

\* Any query or call may fail, and `?` returns; a restart kills the task.
TaskFail(t) == /\ task[t].at \in TaskSteps \ {"idle"} /\ ~task[t].failed
               /\ TaskFails(t)
               /\ UNCHANGED <<dbVars, discordVars, guildKnown, lastMember, present, missed>>

-----------------------------------------------------------------------------
TaskNext(t) == \/ GuildEvent(t) \/ Refresh(t)
               \/ Look(t) \/ InsertUser(t) \/ RemoveUser(t)
               \/ FetchPage(t) \/ LoadMember(t)
               \/ LookForGuild(t) \/ AddGuild(t) \/ DeleteGuild(t)
               \/ TaskFail(t)
=============================================================================
