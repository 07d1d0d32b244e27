----------------------------- MODULE Bot_proofs -----------------------------
(***************************************************************************)
(* What module Bot promises for any number of users, roles, rows, handlers *)
(* and tasks, and any length of the pages in which Discord lists members.  *)
(***************************************************************************)
EXTENDS Bot, Linking_proofs, FiniteSetTheorems, WellFoundedInduction

-----------------------------------------------------------------------------
(* Least and greatest numbers. *)

LEMMA HasMin ==
  ASSUME NEW S \in SUBSET Nat, S # {}
  PROVE  Min(S) \in S /\ \A n \in S : Min(S) =< n
<1>1. PICK x \in S : \A y \in S : <<y, x>> \notin OpToRel(<, Nat)
  BY NatLessThanWellFounded, WFMin
<1>2. \A y \in S : <<y, x>> \in Nat \X Nat
  OBVIOUS
<1>3. \A y \in S : ~(y < x)
  BY <1>1, <1>2 DEF OpToRel
<1>4. \A y \in S : x =< y
  BY <1>3
<1> QED BY <1>4 DEF Min

\* Otherwise a least subset without a greatest number would have a lesser one.
LEMMA HasMax ==
  ASSUME NEW S \in SUBSET Nat, IsFiniteSet(S), S # {}
  PROVE  Max(S) \in S /\ \A n \in S : n =< Max(S)
<1> DEFINE Greatest(T, m) == m \in T /\ \A n \in T : n =< m
           Without == {T \in SUBSET S : T # {} /\ ~\E m \in T : Greatest(T, m)}
<1>1. Without \subseteq FiniteSubsetsOf(S)
  BY FS_Subset DEF FiniteSubsetsOf
<1>2. Without = {}
  <2>1. SUFFICES ASSUME Without # {} PROVE FALSE
    OBVIOUS
  <2>2. PICK T \in Without : \A U \in Without : <<U, T>> \notin StrictSubsetOrdering(S)
    BY <1>1, <2>1, FS_StrictSubsetOrderingWellFounded, WFMin
  <2>3. PICK x \in T : TRUE
    OBVIOUS
  <2> DEFINE U == T \ {x}
  <2>4. <<U, T>> \in StrictSubsetOrdering(S)
    BY <2>3 DEF StrictSubsetOrdering
  <2>5. U \in SUBSET S /\ U \notin Without
    BY <2>2, <2>4
  <2>6. CASE U = {}
    <3>1. T = {x}
      BY <2>3, <2>6
    <3> QED BY <2>3, <3>1
  <2>7. CASE U # {}
    <3>1. PICK m \in U : \A n \in U : n =< m
      BY <2>5, <2>7
    <3>2. CASE x =< m
      BY <3>1, <3>2
    <3>3. CASE ~(x =< m)
      BY <3>1, <3>3
    <3> QED BY <3>2, <3>3
  <2> QED BY <2>6, <2>7
<1>3. \E m \in S : \A n \in S : n =< m
  BY <1>2
<1>4. PICK m \in S : \A n \in S : n =< m
  BY <1>3
<1> QED BY <1>4 DEF Max

-----------------------------------------------------------------------------
(* What a task does in a step: the proofs below use these effects only.    *)

Singles == {"look", "insert", "delete"}
Loading == {"fetch", "load", "loaded"}

\* What its step says of the other locals of a task.
Shape(k) ==
  /\ k.at \in Singles => \E u \in Users : k.users = {u}
  /\ k.at \in Singles \cup {"idle"} => k.late = {}
  /\ k.at = "idle" => k.page = NoPage
  /\ k.at = "fetch" => k.page.members = {} /\ ~k.page.short
  /\ k.at = "load" => k.page.members # {}
  /\ k.at = "loaded" => k.page.members = {} /\ k.page.short

Shapes == \A t \in Tasks : Shape(task[t])

NoRowChanges == UNCHANGED <<members, lastMember>>

GuildStays == UNCHANGED <<guild, guildKnown>>

TaskStarts(t) ==
  /\ task[t].at = "idle" /\ NoRowChanges /\ GuildStays
  /\ \E step \in TaskSteps, users \in SUBSET Users :
       /\ task'[t] = [task[t] EXCEPT !.at = step, !.users = users]
       /\ \/ step = "look" /\ \E u \in present : users = {u}
          \/ step = "fetch" /\ users = present
          \/ step \in {"lookGuild", "deleteGuild"}

TaskFailsHere(t) ==
  /\ task[t].at # "idle" /\ NoRowChanges /\ GuildStays
  /\ task'[t] = [task[t] EXCEPT !.failed = TRUE]

TaskLooks(t) ==
  /\ task[t].at = "look" /\ NoRowChanges /\ GuildStays
  /\ \E step \in {"known", "insert"} :
       /\ step = "known" => MemberIds(TheUser(t)) # {}
       /\ task'[t] = [task[t] EXCEPT !.at = step]

GuildAppears == guildKnown = FALSE /\ guildKnown' = TRUE /\ guild' = NoGuild

GuildGoes(t) == /\ CanDeleteGuild /\ guildKnown' = FALSE /\ guild' = NoGuild
                /\ task'[t].at = "guildDeleted"

TaskOnGuild(t) ==
  /\ task[t].at \in {"lookGuild", "insertGuild", "deleteGuild"} /\ NoRowChanges
  /\ GuildStays \/ GuildAppears \/ GuildGoes(t)
  /\ \E step \in {"insertGuild", "guildKnown", "guildAdded", "guildDeleted"} :
       task'[t] = [task[t] EXCEPT !.at = step]

TaskAdds(t) ==
  /\ task[t].at = "insert" /\ GuildStays
  /\ NewMemberFits(TheUser(t)) /\ AddMember(TheUser(t))
  /\ task'[t] = [task[t] EXCEPT !.at = "added", !.late = {TheUser(t)} \ present]

TaskRemoves(t) ==
  /\ task[t].at = "delete" /\ GuildStays /\ lastMember' = lastMember
  /\ CanDeleteMember(TheUser(t)) /\ DeleteMember(TheUser(t))
  /\ task'[t] = [task[t] EXCEPT !.at = "removed", !.late = {TheUser(t)} \cap present]

LastAfter(t) == LET listed == PageAfter(task[t].page.last) IN
                IF listed = {} THEN task[t].page.last ELSE Max(listed)

TaskFetches(t) ==
  LET listed == PageAfter(task[t].page.last)
      short  == Cardinality(listed) < PageSize IN
  /\ task[t].at = "fetch" /\ NoRowChanges /\ GuildStays
  /\ task'[t] = [task[t] EXCEPT
       !.at = AfterMember(NoBots(listed), short),
       !.page = [members |-> NoBots(listed), last |-> LastAfter(t), short |-> short]]

\* added says whether the first of the page got a row, or had one.
TaskLoads(t) ==
  LET n    == Min(task[t].page.members)
      rest == task[t].page.members \ {n} IN
  /\ task[t].at = "load" /\ GuildStays
  /\ \E added \in {{}, {UserOrder[n]}} :
       /\ \/ /\ added = {UserOrder[n]}
             /\ NewMemberFits(UserOrder[n]) /\ AddMember(UserOrder[n])
          \/ added = {} /\ MemberIds(UserOrder[n]) # {} /\ NoRowChanges
       /\ task'[t] = [task[t] EXCEPT !.at = AfterMember(rest, task[t].page.short),
                                     !.page = [task[t].page EXCEPT !.members = rest],
                                     !.late = task[t].late \cup (added \ present)]

TaskEffect(t) ==
  /\ UNCHANGED <<present, missed, discordVars, levels, classes, groups, verified, groupOf>>
  /\ task' = [x \in Tasks |-> IF x = t THEN task'[t] ELSE task[x]]
  /\ \/ TaskStarts(t) \/ TaskFailsHere(t) \/ TaskLooks(t) \/ TaskOnGuild(t)
     \/ TaskAdds(t) \/ TaskRemoves(t) \/ TaskFetches(t) \/ TaskLoads(t)

LEMMA TaskHasEffect ==
  ASSUME MembershipTypeOK, NEW t \in Tasks, TaskNext(t)
  PROVE  TaskEffect(t)
<1>1. task \in [Tasks -> TaskState] /\ present \subseteq Users
  BY DEF MembershipTypeOK
<1>2. task[t] \in TaskState
  BY <1>1
<1> USE <1>1, <1>2 DEF TaskAt, TaskGoto, TaskFails, TaskEffect, NoRowChanges, GuildStays,
                  TaskSteps, dbVars, discordVars
<1> DEFINE Others == task' = [x \in Tasks |-> IF x = t THEN task'[t] ELSE task[x]]
<1>3. ASSUME TaskFails(t), task[t].at # "idle", NoRowChanges, GuildStays,
             UNCHANGED <<present, missed, discordVars, levels, classes, groups, verified, groupOf>>
      PROVE  TaskEffect(t)
  BY <1>3 DEF TaskFailsHere
<1>4. ASSUME NEW step, TaskGoto(t, step)
      PROVE  Others /\ task'[t] = [task[t] EXCEPT !.at = step]
  BY <1>4
<1>5. CASE GuildEvent(t) \/ Refresh(t)
  <2>1. PICK step \in {"look", "fetch", "lookGuild", "deleteGuild"}, users \in SUBSET Users :
          /\ Dispatch(t, step, users)
          /\ \/ step = "look" /\ \E u \in present : users = {u}
             \/ step = "fetch" /\ users = present
             \/ step \in {"lookGuild", "deleteGuild"}
    <3>1. CASE GuildEvent(t)
      BY <3>1 DEF GuildEvent
    <3>2. ASSUME NEW u \in present, Dispatch(t, "look", {u}) PROVE {u} \in SUBSET Users
      OBVIOUS
    <3>3. CASE Refresh(t)
      BY <3>2, <3>3 DEF Refresh
    <3> QED BY <1>5, <3>1, <3>3
  <2>2. Others /\ task'[t] = [task[t] EXCEPT !.at = step, !.users = users]
    BY <2>1 DEF Dispatch
  <2>3. TaskStarts(t)
    BY <1>5, <2>1, <2>2 DEF Dispatch, GuildEvent, Refresh, TaskStarts
  <2> QED BY <1>5, <2>2, <2>3 DEF GuildEvent, Refresh
<1>6. CASE Look(t)
  BY <1>4, <1>6 DEF Look, TaskLooks
<1>7. CASE InsertUser(t)
  <2>1. CASE NewMemberFits(TheUser(t))
    <3>1. Others /\ task'[t] = [task[t] EXCEPT !.at = "added", !.late = {TheUser(t)} \ present]
      BY <1>7, <2>1 DEF InsertUser
    <3> QED BY <1>7, <2>1, <3>1 DEF InsertUser, TaskAdds, AddMember, InsertMember
  <2> QED BY <1>3, <1>7, <2>1 DEF InsertUser
<1>8. CASE RemoveUser(t)
  <2>1. CASE CanDeleteMember(TheUser(t))
    <3>1. Others /\ task'[t] = [task[t] EXCEPT !.at = "removed", !.late = {TheUser(t)} \cap present]
      BY <1>8, <2>1 DEF RemoveUser
    <3> QED BY <1>8, <2>1, <3>1 DEF RemoveUser, TaskRemoves, DeleteMember
  <2> QED BY <1>3, <1>8, <2>1 DEF RemoveUser
<1>9. CASE FetchPage(t)
  <2>1. Others /\ TaskFetches(t)
    BY <1>9 DEF FetchPage, TaskFetches, LastAfter
  <2> QED BY <1>9, <2>1 DEF FetchPage
<1>10. CASE LoadMember(t)
  <2> DEFINE n == Min(task[t].page.members)
             rest == task[t].page.members \ {n}
  <2>1. ASSUME NEW added, NextMember(t, added)
        PROVE  /\ Others
               /\ task'[t] = [task[t] EXCEPT !.at = AfterMember(rest, task[t].page.short),
                                             !.page = [task[t].page EXCEPT !.members = rest],
                                             !.late = task[t].late \cup (added \ present)]
    BY <2>1 DEF NextMember, TaskState
  <2> USE DEF LoadMember
  <2>2. CASE NewMemberFits(UserOrder[n]) /\ AddMember(UserOrder[n]) /\ NextMember(t, {UserOrder[n]})
    <3> DEFINE added == {UserOrder[n]}
    <3>1. /\ Others
          /\ task'[t] = [task[t] EXCEPT !.at = AfterMember(rest, task[t].page.short),
                                        !.page = [task[t].page EXCEPT !.members = rest],
                                        !.late = task[t].late \cup (added \ present)]
      BY <2>1, <2>2
    <3>2. task[t].at = "load" /\ GuildStays
      BY <1>10, <2>2 DEF AddMember, InsertMember
    <3> HIDE DEF added
    <3>3. /\ added = {UserOrder[n]}
          /\ NewMemberFits(UserOrder[n]) /\ AddMember(UserOrder[n])
      BY <2>2 DEF added
    <3>4. TaskLoads(t)
      BY <3>1, <3>2, <3>3, Zenon DEF TaskLoads
    <3> QED BY <1>10, <2>2, <3>1, <3>4 DEF AddMember, InsertMember
  <2>3. CASE MemberIds(UserOrder[n]) # {} /\ NextMember(t, {}) /\ UNCHANGED <<dbVars, lastMember>>
    <3>1. TaskLoads(t)
      BY <1>10, <2>1, <2>3 DEF TaskLoads
    <3> QED BY <1>10, <2>1, <2>3, <3>1
  <2> QED BY <1>3, <1>10, <2>2, <2>3
<1>11. CASE LookForGuild(t)
  BY <1>4, <1>11 DEF LookForGuild, TaskOnGuild
<1>12. CASE AddGuild(t)
  BY <1>3, <1>4, <1>12 DEF AddGuild, TaskOnGuild, GuildAppears, SetGuild, MembershipTypeOK
<1>13. CASE DeleteGuild(t)
  <2>1. CASE CanDeleteGuild
    <3>1. Others /\ task'[t] = [task[t] EXCEPT !.at = "guildDeleted"]
      BY <1>4, <1>13, <2>1 DEF DeleteGuild
    <3>2. task'[t].at = "guildDeleted"
      BY <3>1 DEF TaskState
    <3> QED BY <1>13, <2>1, <3>1, <3>2 DEF DeleteGuild, TaskOnGuild, GuildGoes, SetGuild
  <2> QED BY <1>3, <1>13, <2>1 DEF DeleteGuild
<1>14. CASE TaskFail(t)
  BY <1>3, <1>14 DEF TaskFail
<1> QED BY <1>5, <1>6, <1>7, <1>8, <1>9, <1>10, <1>11, <1>12, <1>13, <1>14 DEF TaskNext

-----------------------------------------------------------------------------
(* The pages of the members. *)

LEMMA PositionsAreFinite ==
  /\ Positions \in SUBSET Nat /\ IsFiniteSet(Positions)
  /\ \A n \in Positions : UserOrder[n] \in Users
<1>1. Len(UserOrder) \in Nat /\ \A n \in 1 .. Len(UserOrder) : UserOrder[n] \in Users
  BY MembershipAssumption
<1>2. IsFiniteSet(1 .. Len(UserOrder))
  BY <1>1, FS_Interval
<1> QED BY <1>1, <1>2 DEF Positions

\* A page is the beginning of what is left; a short one is all of it.
LEMMA PageFacts ==
  ASSUME NEW last
  PROVE  /\ PageAfter(last) \subseteq Listed(last)
         /\ IsFiniteSet(PageAfter(last))
         /\ \A m \in PageAfter(last), n \in Listed(last) \ PageAfter(last) : m < n
         /\ Cardinality(PageAfter(last)) < PageSize => PageAfter(last) = Listed(last)
         /\ PageAfter(last) = {} => Cardinality(PageAfter(last)) < PageSize
<1> DEFINE L == Listed(last)
           P == PageAfter(last)
           Below(n) == {k \in L : k < n}
<1>1. L \in SUBSET Nat /\ IsFiniteSet(L)
  <2>1. L \in SUBSET Positions
    BY DEF Listed
  <2> QED BY <2>1, PositionsAreFinite, FS_Subset
<1>2. P = {n \in L : Cardinality(Below(n)) < PageSize} /\ PageSize \in Nat \ {0}
  BY MembershipAssumption DEF PageAfter
<1> HIDE DEF L, P
<1>2a. \A n \in L : n \in Nat /\ Below(n) \in SUBSET L
  BY <1>1
<1>2b. \A n \in L, k \in L : k \in Below(n) <=> k < n
  OBVIOUS
<1> HIDE DEF Below
<1>3. P \subseteq L /\ IsFiniteSet(P) /\ Cardinality(P) \in Nat
  <2>1. P \in SUBSET L
    BY <1>2
  <2> QED BY <1>1, <2>1, FS_Subset, FS_CardinalityType
<1>4. ASSUME NEW n \in L
      PROVE  IsFiniteSet(Below(n)) /\ Cardinality(Below(n)) \in Nat
  BY <1>1, <1>2a, FS_Subset, FS_CardinalityType
<1>5. ASSUME NEW m \in P, NEW n \in L \ P PROVE m < n
  <2>1. SUFFICES ASSUME ~(m < n) PROVE FALSE
    OBVIOUS
  <2>2. Below(n) \in SUBSET Below(m)
    <3>1. m \in L /\ n \in L /\ n =< m
      BY <1>2a, <1>3, <2>1
    <3>2. \A k \in Below(n) : k \in L /\ k < n
      BY <1>2a, <1>2b, <3>1
    <3>3. \A k \in Below(n) : k < m
      BY <1>2a, <3>1, <3>2
    <3> QED BY <1>2b, <3>1, <3>2, <3>3
  <2>3. Cardinality(Below(n)) =< Cardinality(Below(m))
    BY <1>3, <1>4, <2>2, FS_Subset
  <2> QED BY <1>2, <1>3, <1>4, <2>3
<1>6. ASSUME Cardinality(P) < PageSize PROVE P = L
  <2>1. SUFFICES ASSUME L \ P # {} PROVE FALSE
    BY <1>3
  <2> DEFINE n == Min(L \ P)
  <2>2. n \in L \ P /\ \A k \in L \ P : n =< k
    BY <1>1, <2>1, HasMin
  <2> HIDE DEF n
  <2>3. Below(n) \in SUBSET P
    <3>1. \A k \in Below(n) : k \in L /\ k < n
      BY <1>2a, <1>2b, <2>2
    <3>2. \A k \in L : k < n => ~(n =< k)
      BY <1>2a, <2>2
    <3> QED BY <2>2, <3>1, <3>2
  <2>4. Cardinality(Below(n)) =< Cardinality(P)
    BY <1>3, <2>3, FS_Subset
  <2> QED BY <1>2, <1>3, <1>4, <1>6, <2>2, <2>4
<1>7. P = {} => Cardinality(P) < PageSize
  <2>1. Cardinality({}) = 0 /\ 0 < PageSize
    BY <1>2, FS_EmptySet
  <2> QED BY <2>1
<1> QED BY <1>3, <1>5, <1>6, <1>7 DEF L, P

LEMMA LastFacts ==
  ASSUME NEW t \in Tasks, task[t] \in TaskState
  PROVE  /\ LastAfter(t) \in Positions \cup {0}
         /\ \A n \in PageAfter(task[t].page.last) : n =< LastAfter(t)
         /\ PageAfter(task[t].page.last) # {} =>
              LastAfter(t) \in PageAfter(task[t].page.last)
<1> DEFINE P == PageAfter(task[t].page.last)
<1>1. P \in SUBSET Positions /\ IsFiniteSet(P)
  BY PageFacts DEF Listed
<1>2. task[t].page.last \in Positions \cup {0}
  BY DEF TaskState
<1>3. CASE P = {}
  BY <1>2, <1>3 DEF LastAfter
<1>4. CASE P # {}
  BY <1>1, <1>4, PositionsAreFinite, HasMax DEF LastAfter
<1> QED BY <1>3, <1>4

-----------------------------------------------------------------------------
(* Types. *)

LEMMA TheUserIs ==
  ASSUME Shapes, NEW t \in Tasks, task[t].at \in Singles
  PROVE  TheUser(t) \in Users /\ task[t].users = {TheUser(t)} /\ task[t].late = {}
BY DEF Shapes, Shape, TheUser

LEMMA FirstOfPage ==
  ASSUME MembershipTypeOK, Shapes, NEW t \in Tasks, task[t].at = "load"
  PROVE  /\ Min(task[t].page.members) \in task[t].page.members
         /\ task[t].page.members \in SUBSET Positions
         /\ UserOrder[Min(task[t].page.members)] \in Users
<1>1. task[t].page.members \in SUBSET Positions /\ task[t].page.members # {}
  BY DEF MembershipTypeOK, TaskState, Shapes, Shape
<1> QED BY <1>1, PositionsAreFinite, HasMin

LEMMA TaskTypes ==
  ASSUME MembershipTypeOK, Shapes, NEW t \in Tasks, TaskEffect(t)
  PROVE  task' \in [Tasks -> TaskState] /\ Shapes'
<1>1. task \in [Tasks -> TaskState] /\ present \in SUBSET Users
  BY DEF MembershipTypeOK
<1>2. task[t] \in TaskState /\ Shape(task[t])
  BY <1>1 DEF Shapes
<1>3. SUFFICES task'[t] \in TaskState /\ Shape(task'[t])
  <2>1. task' = [x \in Tasks |-> IF x = t THEN task'[t] ELSE task[x]]
    BY Zenon DEF TaskEffect
  <2>2. task' \in [Tasks -> TaskState]
    BY <1>1, <1>3, <2>1
  <2>3. Shapes'
    BY <1>3, <2>1 DEF Shapes
  <2> QED BY <2>2, <2>3
<1>3a. NoPage \in [members : SUBSET Positions, last : Positions \cup {0}, short : BOOLEAN]
  BY DEF NoPage
<1> USE <1>1, <1>2 DEF TaskState, TaskSteps, TaskEnds, Singles, Shape
<1>4. CASE TaskStarts(t)
  <2>1. PICK step \in TaskSteps, users \in SUBSET Users :
          /\ task'[t] = [task[t] EXCEPT !.at = step, !.users = users]
          /\ \/ step = "look" /\ \E u \in present : users = {u}
             \/ step \in {"fetch", "lookGuild", "deleteGuild"}
    BY <1>4 DEF TaskStarts
  <2>2. task'[t] \in TaskState
    BY <2>1
  <2>3. task[t].at = "idle" /\ task[t].late = {} /\ task[t].page = NoPage
    BY <1>4 DEF TaskStarts
  <2>4. /\ task'[t].at = step /\ task'[t].users = users
        /\ task'[t].late = {} /\ task'[t].page = NoPage
    BY <2>1, <2>3
  <2>5. Shape(task'[t])
    BY <2>1, <2>4 DEF NoPage
  <2> QED BY <2>2, <2>5
<1>5. CASE TaskFailsHere(t) \/ TaskLooks(t) \/ TaskOnGuild(t)
  BY <1>5 DEF TaskFailsHere, TaskLooks, TaskOnGuild
<1>6. CASE TaskAdds(t) \/ TaskRemoves(t)
  <2>1. TheUser(t) \in Users
    BY <1>6, TheUserIs DEF TaskAdds, TaskRemoves
  <2>2. PICK late \in SUBSET Users, end \in {"added", "removed"} :
          task'[t] = [task[t] EXCEPT !.at = end, !.late = late]
    BY <1>6, <2>1 DEF TaskAdds, TaskRemoves
  <2> QED BY <2>2
<1>7. CASE TaskFetches(t)
  <2> DEFINE listed == PageAfter(task[t].page.last)
  <2>1. NoBots(listed) \in SUBSET Positions
    BY PageFacts DEF NoBots, Listed
  <2>2. LastAfter(t) \in Positions \cup {0}
    BY LastFacts
  <2> DEFINE short == Cardinality(listed) < PageSize
             page  == [members |-> NoBots(listed), last |-> LastAfter(t), short |-> short]
             step  == AfterMember(NoBots(listed), short)
  <2>3. page \in [members : SUBSET Positions, last : Positions \cup {0}, short : BOOLEAN]
    BY <2>1, <2>2
  <2>4. /\ step \in {"load", "loaded", "fetch"}
        /\ step = "fetch" => page.members = {} /\ ~page.short
        /\ step = "load" => page.members # {}
        /\ step = "loaded" => page.members = {} /\ page.short
    BY DEF AfterMember
  <2>5. task'[t] = [task[t] EXCEPT !.at = step, !.page = page]
    BY <1>7 DEF TaskFetches
  <2> HIDE DEF step, page
  <2>6. task'[t].at = step /\ task'[t].page = page /\ task'[t] \in TaskState
    BY <2>3, <2>4, <2>5
  <2> QED BY <2>4, <2>6
<1>8. CASE TaskLoads(t)
  <2> DEFINE n == Min(task[t].page.members)
             rest == task[t].page.members \ {n}
  <2>1. rest \in SUBSET Positions /\ UserOrder[n] \in Users
    BY <1>8, FirstOfPage DEF TaskLoads
  <2> DEFINE page == [task[t].page EXCEPT !.members = rest]
             step == AfterMember(rest, task[t].page.short)
  <2>2. page \in [members : SUBSET Positions, last : Positions \cup {0}, short : BOOLEAN]
    BY <2>1
  <2>3. page.members = rest /\ page.short = task[t].page.short
    BY <2>1
  <2>4. /\ step \in {"load", "loaded", "fetch"}
        /\ step = "fetch" => page.members = {} /\ ~page.short
        /\ step = "load" => page.members # {}
        /\ step = "loaded" => page.members = {} /\ page.short
    BY <2>3 DEF AfterMember
  <2>5. PICK added \in {{}, {UserOrder[n]}} :
          task'[t] = [task[t] EXCEPT !.at = step, !.page = page,
                                     !.late = task[t].late \cup (added \ present)]
    BY <1>8 DEF TaskLoads
  <2> HIDE DEF step, page
  <2>5a. PICK late \in SUBSET Users :
           task'[t] = [task[t] EXCEPT !.at = step, !.page = page, !.late = late]
    <3>1. task[t].late \cup (added \ present) \in SUBSET Users
      BY <2>1
    <3> QED BY <2>5, <3>1
  <2>6. task'[t].at = step /\ task'[t].page = page /\ task'[t] \in TaskState
    BY <2>2, <2>4, <2>5a
  <2> QED BY <2>4, <2>6
<1> QED BY <1>4, <1>5, <1>6, <1>7, <1>8 DEF TaskEffect

Types == TypeOK /\ GoogleFirst /\ Shapes

RowsNeedGuild == levels \cup classes \cup groups \cup members # {} => guildKnown

GuildOK == guildKnown \in BOOLEAN /\ (~guildKnown => guild = NoGuild) /\ RowsNeedGuild

\* One conjunct per component.
LEMMA TypesParts ==
  Types <=> /\ TablesOK /\ DiscordTypeOK
            /\ LoginTypeOK /\ GoogleFirst /\ LogoutTypeOK
            /\ GuildOK
            /\ lastMember \in Nat /\ \A m \in members : m.id =< lastMember
            /\ present \subseteq Users /\ missed \subseteq Users
            /\ task \in [Tasks -> TaskState] /\ Shapes
            /\ SetupTypeOK /\ interrupted \subseteq Logins
BY DEF Types, TypeOK, TablesOK, MembershipTypeOK, GuildOK, RowsNeedGuild

LEMMA TypesPartsNext ==
  (Types <=> /\ TablesOK /\ DiscordTypeOK
             /\ LoginTypeOK /\ GoogleFirst /\ LogoutTypeOK
             /\ GuildOK
             /\ lastMember \in Nat /\ \A m \in members : m.id =< lastMember
             /\ present \subseteq Users /\ missed \subseteq Users
             /\ task \in [Tasks -> TaskState] /\ Shapes
             /\ SetupTypeOK /\ interrupted \subseteq Logins)'
BY TypesParts, PTL

LEMMA LoginStepTypes ==
  ASSUME Types, NEW s \in Logins, LoginStep(s)
  PROVE  Types'
<1>1. LoginNext(s) /\ UNCHANGED <<logout, membershipVars, setupVars, interrupted>>
  BY DEF LoginStep
<1>2. members' = members
  BY <1>1, LoginHasEffect, TypesParts DEF LoginEffect
<1>3. TablesOK' /\ DiscordTypeOK' /\ LoginTypeOK' /\ GoogleFirst'
  BY <1>1, LoginOnTables, LoginOnDiscord, LoginTypes, GoogleFirstStep, TypesParts
<1>4. GuildOK'
  <2>1. guildKnown' = guildKnown /\ GuildOK
    BY <1>1, TypesParts DEF membershipVars
  <2>2. guild = NoGuild => [guild EXCEPT !.role = NoRole] = NoGuild
    BY DEF NoGuild
  <2> QED BY <1>1, <1>2, <2>1, <2>2, LoginOnConfiguration DEF GuildOK, RowsNeedGuild, NoGuild
<1>5. /\ LogoutTypeOK' /\ SetupTypeOK' /\ Shapes'
      /\ UNCHANGED <<lastMember, present, missed, task, interrupted>>
  BY <1>1, TypesParts DEF membershipVars, setupVars, LogoutTypeOK, SetupTypeOK, Shapes
<1> QED BY <1>2, <1>3, <1>4, <1>5, TypesParts, TypesPartsNext

LEMMA LogoutStepTypes ==
  ASSUME Types, NEW o \in Logouts, LogoutStep(o)
  PROVE  Types'
<1>1. LogoutNext(o) /\ UNCHANGED <<login, membershipVars, setupVars, interrupted>>
  BY DEF LogoutStep
<1>2. members' = members
  BY <1>1, LogoutHasEffect, TypesParts DEF LogoutEffect
<1>3. TablesOK' /\ DiscordTypeOK' /\ LogoutTypeOK'
  BY <1>1, LogoutOnTables, LogoutOnDiscord, LogoutTypes, TypesParts
<1>4. GuildOK'
  BY <1>1, <1>2, LogoutOnConfiguration, TypesParts DEF GuildOK, RowsNeedGuild, membershipVars
<1>5. /\ LoginTypeOK' /\ GoogleFirst' /\ SetupTypeOK' /\ Shapes'
      /\ UNCHANGED <<lastMember, present, missed, task, interrupted>>
  BY <1>1, TypesParts DEF membershipVars, setupVars, LoginTypeOK, GoogleFirst, SetupTypeOK, Shapes
<1> QED BY <1>2, <1>3, <1>4, <1>5, TypesParts, TypesPartsNext

LEMMA AddMemberKeeps ==
  ASSUME Types, NEW u \in Users, NewMemberFits(u), AddMember(u)
  PROVE  TablesOK' /\ lastMember' \in Nat /\ \A m \in members' : m.id =< lastMember'
<1> DEFINE row == [id |-> lastMember + 1, user |-> u]
<1>1. /\ lastMember \in Nat /\ \A m \in members : m.id \in Nat /\ m.id =< lastMember
      /\ TablesOK
  BY TypesParts, IdAssumption DEF TablesOK, DatabaseTypeOK, Member
<1>2. row \in Member /\ InsertMember(row) /\ lastMember' = lastMember + 1
  BY DEF AddMember, Member
<1>3. \A m \in members : m.id # row.id /\ m.user # row.user
  BY <1>1 DEF NewMemberFits, MemberIds
<1>4. TablesOK'
  BY <1>1, <1>2, <1>3, InsertMemberKeeps
<1>5. members' = members \cup {row} /\ row.id = lastMember + 1
  BY <1>2 DEF InsertMember
<1> HIDE DEF row
<1> QED BY <1>1, <1>2, <1>4, <1>5

LEMMA TaskStepTypes ==
  ASSUME Types, NEW t \in Tasks, TaskStep(t)
  PROVE  Types'
<1>1. TaskEffect(t) /\ UNCHANGED <<login, logout, setupVars, interrupted>>
  BY TaskHasEffect DEF TaskStep, Types, TypeOK
<1>2. task' \in [Tasks -> TaskState] /\ Shapes'
  BY <1>1, TaskTypes DEF Types, TypeOK
<1>3. UNCHANGED <<present, missed, discordVars, levels, classes, groups, verified, groupOf>>
  BY <1>1 DEF TaskEffect
<1>4. /\ LoginTypeOK' /\ GoogleFirst' /\ LogoutTypeOK' /\ SetupTypeOK' /\ DiscordTypeOK'
      /\ UNCHANGED <<present, missed, interrupted>>
  BY <1>1, <1>3, TypesParts, DiscordFrame
     DEF setupVars, LoginTypeOK, GoogleFirst, LogoutTypeOK, SetupTypeOK
<1>5. SUFFICES /\ TablesOK' /\ GuildOK'
               /\ lastMember' \in Nat /\ \A m \in members' : m.id =< lastMember'
  BY <1>2, <1>4, TypesParts, TypesPartsNext
<1>6. /\ TablesOK /\ GuildOK
      /\ lastMember \in Nat /\ \A m \in members : m.id =< lastMember
  BY TypesParts
<1>7. CASE NoRowChanges /\ GuildStays
  BY <1>3, <1>6, <1>7, Frame DEF NoRowChanges, GuildStays, GuildOK, RowsNeedGuild, dbVars
<1>8. CASE NoRowChanges /\ (GuildAppears \/ GuildGoes(t))
  <2>1. SetGuild(NoGuild)
    BY <1>3, <1>8 DEF SetGuild, NoRowChanges, GuildAppears, GuildGoes
  <2>2. TablesOK'
    BY <1>6, <2>1, SetGuildKeeps DEF NoGuild, Guild
  <2>3. GuildOK'
    BY <1>3, <1>6, <1>8 DEF NoRowChanges, GuildAppears, GuildGoes, GuildOK, RowsNeedGuild, CanDeleteGuild
  <2> QED BY <1>6, <1>8, <2>2, <2>3 DEF NoRowChanges
<1>9. ASSUME NEW u \in Users, NewMemberFits(u), AddMember(u), GuildStays
      PROVE  /\ TablesOK' /\ GuildOK'
             /\ lastMember' \in Nat /\ \A m \in members' : m.id =< lastMember'
  BY <1>6, <1>9, AddMemberKeeps DEF GuildOK, RowsNeedGuild, NewMemberFits, GuildStays
<1>10. CASE TaskRemoves(t)
  <2>1. /\ CanDeleteMember(TheUser(t)) /\ DeleteMember(TheUser(t))
        /\ GuildStays /\ lastMember' = lastMember
    BY <1>10 DEF TaskRemoves
  <2>2. TablesOK'
    BY <1>6, <2>1, DeleteMemberKeeps
  <2>3. members' \subseteq members
    BY <2>1 DEF DeleteMember
  <2> QED BY <1>3, <1>6, <2>1, <2>2, <2>3 DEF GuildOK, RowsNeedGuild, GuildStays
<1>11. CASE TaskAdds(t)
  BY <1>9, <1>11, TheUserIs DEF TaskAdds, Types, Singles
<1>12. CASE TaskLoads(t)
  <2>1. UserOrder[Min(task[t].page.members)] \in Users
    BY <1>12, FirstOfPage DEF TaskLoads, Types, TypeOK
  <2> QED BY <1>7, <1>9, <1>12, <2>1 DEF TaskLoads
<1> QED BY <1>1, <1>7, <1>8, <1>10, <1>11, <1>12
        DEF TaskEffect, TaskStarts, TaskFailsHere, TaskLooks, TaskOnGuild, TaskFetches

-----------------------------------------------------------------------------
(* What a move does to the tasks. *)

TaskTold(x, u) ==
  /\ task[x].at = "idle"
  /\ task'[x] = [task[x] EXCEPT !.at = IF u \in present THEN "delete" ELSE "look",
                                !.users = {u}]

TaskStays(x, u) ==
  task'[x] = [task[x] EXCEPT !.users = IF u \in present /\ task[x].at \in Loading
                                       THEN task[x].users \ {u} ELSE task[x].users]

MoveEffect(u) ==
  /\ UNCHANGED <<dbVars, guildKnown, lastMember, guildRoles>>
  /\ task' = [x \in Tasks |-> task'[x]]
  /\ \A x \in Tasks : TaskTold(x, u) \/ TaskStays(x, u)
  /\ missed \ {u} \subseteq missed' /\ missed' \subseteq missed \cup {u}
  /\ u \notin missed' => \E x \in Tasks : TaskTold(x, u)
  /\ \/ u \notin present /\ present' = present \cup {u} /\ roles' = roles
     \/ u \in present /\ present' = present \ {u} /\ DropRoles(u)

LEMMA MoveHasEffect ==
  ASSUME MembershipTypeOK, NEW u \in Users, Joins(u) \/ Leaves(u)
  PROVE  MoveEffect(u)
<1>1. task \in [Tasks -> TaskState]
  BY DEF MembershipTypeOK
<1>2. ASSUME NEW x \in Tasks, task'[x] = task[x], u \notin present \/ task[x].at \notin Loading
      PROVE  TaskStays(x, u)
  BY <1>1, <1>2 DEF TaskStays, TaskState
<1>3. CASE Joins(u)
  <2>1. /\ u \notin present /\ present' = present \cup {u} /\ Reported(u, "look")
        /\ UNCHANGED <<dbVars, discordVars, guildKnown, lastMember>>
    BY <1>3 DEF Joins
  <2>2. CASE task' = task /\ missed' = missed \cup {u}
    BY <1>1, <1>2, <2>1, <2>2 DEF MoveEffect, discordVars
  <2>3. ASSUME NEW t \in Tasks, Dispatch(t, "look", {u}), missed' = missed \ {u}
        PROVE  MoveEffect(u)
    <3>1. TaskTold(t, u)
      BY <1>1, <2>1, <2>3 DEF Dispatch, TaskAt, TaskTold
    <3>2. \A x \in Tasks \ {t} : TaskStays(x, u)
      BY <1>1, <1>2, <2>1, <2>3 DEF Dispatch
    <3>3. task' = [x \in Tasks |-> task'[x]]
      BY <1>1, <2>3 DEF Dispatch
    <3> QED BY <2>1, <2>3, <3>1, <3>2, <3>3 DEF MoveEffect, discordVars
  <2> QED BY <2>1, <2>2, <2>3 DEF Reported
<1>4. CASE Leaves(u)
  <2> DEFINE before == WithoutLeaver(u)
  <2>1. /\ u \in present /\ present' = present \ {u} /\ DropRoles(u)
        /\ UNCHANGED <<dbVars, guildRoles, guildKnown, lastMember>>
    BY <1>4 DEF Leaves, DropRoles
  <2>2. /\ before = [x \in Tasks |-> before[x]]
        /\ \A x \in Tasks : before[x] = [task[x] EXCEPT
             !.users = IF task[x].at \in Loading THEN task[x].users \ {u} ELSE task[x].users]
    BY <1>1 DEF WithoutLeaver, Loading, TaskState
  <2>3. CASE task' = before /\ missed' = missed \cup {u}
    BY <2>1, <2>2, <2>3 DEF MoveEffect, TaskStays
  <2>4. ASSUME NEW t \in Tasks, TaskAt(t, "idle"), missed' = missed \ {u},
               task' = [before EXCEPT ![t].at = "delete", ![t].users = {u}]
        PROVE  MoveEffect(u)
    <3>1. before[t] = task[t]
      BY <1>1, <2>4 DEF WithoutLeaver, TaskAt
    <3>2. TaskTold(t, u)
      BY <1>1, <2>1, <2>2, <2>4, <3>1 DEF TaskAt, TaskTold
    <3>3. \A x \in Tasks \ {t} : TaskStays(x, u)
      BY <2>1, <2>2, <2>4 DEF TaskStays
    <3>4. task' = [x \in Tasks |-> task'[x]]
      BY <2>2, <2>4
    <3> QED BY <2>1, <2>4, <3>2, <3>3, <3>4 DEF MoveEffect
  <2> QED BY <1>4, <2>3, <2>4 DEF Leaves
<1> QED BY <1>3, <1>4

LEMMA MoveStepTypes ==
  ASSUME Types, NEW u \in Users, Move(u)
  PROVE  Types'
<1>1. MoveEffect(u) /\ UNCHANGED <<login, logout, setupVars>>
  BY MoveHasEffect DEF Move, Types, TypeOK
<1>2. task \in [Tasks -> TaskState] /\ Shapes /\ present \subseteq Users /\ missed \subseteq Users
      /\ TablesOK /\ DiscordTypeOK /\ lastMember \in Nat
  BY TypesParts
<1>3. ASSUME NEW x \in Tasks PROVE task'[x] \in TaskState /\ Shape(task'[x])
  <2>1. task[x] \in TaskState /\ Shape(task[x])
    BY <1>2 DEF Shapes
  <2>2. CASE TaskTold(x, u)
    <3>1. PICK step \in {"delete", "look"} :
            task'[x] = [task[x] EXCEPT !.at = step, !.users = {u}]
      BY <2>2 DEF TaskTold
    <3>2. task[x].at = "idle" /\ task[x].late = {}
      BY <2>1, <2>2 DEF TaskTold, Shape
    <3>3. task'[x] \in TaskState
      BY <2>1, <3>1 DEF TaskState, TaskSteps
    <3>4. task'[x].at = step /\ task'[x].users = {u} /\ task'[x].late = {}
      BY <2>1, <3>1, <3>2 DEF TaskState
    <3> QED BY <3>3, <3>4 DEF Shape, Singles
  <2>3. CASE TaskStays(x, u)
    BY <2>1, <2>3 DEF TaskStays, TaskState, Shape, Singles, Loading
  <2> QED BY <1>1, <2>2, <2>3 DEF MoveEffect
<1>4. task' \in [Tasks -> TaskState] /\ Shapes'
  BY <1>1, <1>3 DEF MoveEffect, Shapes
<1>5. present' \subseteq Users /\ missed' \subseteq Users /\ DiscordTypeOK'
  BY <1>1, <1>2 DEF MoveEffect, DiscordTypeOK, DropRoles
<1>6. TablesOK' /\ UNCHANGED <<members, lastMember>>
  BY <1>1, <1>2, Frame DEF MoveEffect, dbVars
<1>7. GuildOK'
  BY <1>1, TypesParts DEF MoveEffect, GuildOK, RowsNeedGuild, dbVars
<1>8. interrupted' \subseteq Logins
  BY TypesParts DEF Move
<1>9. LoginTypeOK' /\ GoogleFirst' /\ LogoutTypeOK' /\ SetupTypeOK'
  BY <1>1, TypesParts DEF setupVars, LoginTypeOK, GoogleFirst, LogoutTypeOK, SetupTypeOK
<1> QED BY <1>4, <1>5, <1>6, <1>7, <1>8, <1>9, TypesParts, TypesPartsNext

LEMMA PostStepTypes ==
  ASSUME Types, NEW p \in Posts, PostStep(p)
  PROVE  Types'
<1>1. PostNext(p) /\ UNCHANGED <<login, logout, interrupted>>
      /\ UNCHANGED <<dbVars, discordVars, membershipVars>>
  BY DEF PostStep, PostNext, ReadRole, ReadGroups, SendMessage, StoreMessage, PostFail
<1>2. SetupTypeOK'
  <2>1. post \in [Posts -> PostState] /\ posted \subseteq Posts /\ post[p] \in PostState
    BY TypesParts DEF SetupTypeOK
  <2> USE DEF SetupTypeOK, PostState, PostEnds, Becomes, PostFails
  <2>2. CASE ReadRole(p)
    <3>1. CASE ~guildKnown
      BY <2>1, <2>2, <3>1 DEF ReadRole
    <3>2. CASE guildKnown
      <4>1. PICK step \in {"noRole", "post"} :
              post' = [post EXCEPT ![p].at = step, ![p].kind = "login"]
        BY <2>2, <3>2 DEF ReadRole
      <4> QED BY <2>1, <2>2, <4>1 DEF ReadRole
    <3> QED BY <3>1, <3>2
  <2>3. CASE ReadGroups(p)
    BY <2>1, <2>3 DEF ReadGroups
  <2>4. CASE SendMessage(p) \/ StoreMessage(p)
    BY <2>1, <2>4 DEF SendMessage, StoreMessage
  <2>5. CASE PostFail(p)
    BY <2>1, <2>5 DEF PostFail
  <2> QED BY <1>1, <2>2, <2>3, <2>4, <2>5 DEF PostNext
<1>3. TablesOK' /\ DiscordTypeOK' /\ GuildOK' /\ UNCHANGED members
  BY <1>1, TypesParts, Frame, DiscordFrame DEF GuildOK, RowsNeedGuild, dbVars, membershipVars
<1>4. LoginTypeOK' /\ GoogleFirst' /\ LogoutTypeOK' /\ Shapes'
      /\ UNCHANGED <<lastMember, present, missed, task, interrupted>>
  BY <1>1, TypesParts DEF membershipVars, LoginTypeOK, GoogleFirst, LogoutTypeOK, Shapes
<1> QED BY <1>2, <1>3, <1>4, TypesParts, TypesPartsNext

LEMMA SetupStepTypes ==
  ASSUME Types, SetupStep
  PROVE  Types'
<1>1. UNCHANGED <<login, logout, interrupted, discordVars, membershipVars, setupVars>>
  BY DEF SetupStep, SetupRole, SetupPattern
<1>2. TablesOK /\ DiscordTypeOK /\ GuildOK
  BY TypesParts
<1>3. TablesOK' /\ UNCHANGED <<members, levels, classes, groups>> /\ (~guildKnown => guild' = guild)
  <2>1. CASE UNCHANGED dbVars
    BY <1>2, <2>1, Frame DEF dbVars
  <2>2. ASSUME NEW r \in guildRoles, guildKnown, SetVerifiedRole(r)
        PROVE  TablesOK' /\ UNCHANGED <<members, levels, classes, groups>>
    BY <1>2, <2>2, SetVerifiedRoleKeeps DEF DiscordTypeOK, SetVerifiedRole
  <2>3. ASSUME NEW d \in Domains, guildKnown, SetMailDomain(d)
        PROVE  TablesOK' /\ UNCHANGED <<members, levels, classes, groups>>
    BY <1>2, <2>3, SetMailDomainKeeps DEF SetMailDomain
  <2> QED BY <2>1, <2>2, <2>3 DEF SetupStep, SetupRole, SetupPattern
<1>4. GuildOK' /\ DiscordTypeOK'
  BY <1>1, <1>2, <1>3, DiscordFrame DEF GuildOK, RowsNeedGuild, membershipVars
<1>5. LoginTypeOK' /\ GoogleFirst' /\ LogoutTypeOK' /\ Shapes' /\ SetupTypeOK'
      /\ UNCHANGED <<lastMember, present, missed, task, interrupted>>
  BY <1>1, TypesParts
     DEF membershipVars, setupVars, LoginTypeOK, GoogleFirst, LogoutTypeOK, Shapes, SetupTypeOK
<1> QED BY <1>3, <1>4, <1>5, TypesParts, TypesPartsNext

LEMMA AdminStepTypes ==
  ASSUME Types, NEW r \in Roles, AdminDeletesRole(r)
  PROVE  Types'
<1>1. UNCHANGED <<dbVars, login, logout, membershipVars, setupVars, interrupted>> /\ DeleteRole(r)
  BY DEF AdminDeletesRole
<1>2. TablesOK' /\ DiscordTypeOK' /\ GuildOK' /\ UNCHANGED members
  BY <1>1, TypesParts, Frame
     DEF DiscordTypeOK, DeleteRole, GuildOK, RowsNeedGuild, dbVars, membershipVars
<1>3. LoginTypeOK' /\ GoogleFirst' /\ LogoutTypeOK' /\ Shapes' /\ SetupTypeOK'
      /\ UNCHANGED <<lastMember, present, missed, task, interrupted>>
  BY <1>1, TypesParts
     DEF membershipVars, setupVars, LoginTypeOK, GoogleFirst, LogoutTypeOK, Shapes, SetupTypeOK
<1> QED BY <1>2, <1>3, TypesParts, TypesPartsNext

LEMMA StutterTypes ==
  ASSUME Types, UNCHANGED vars
  PROVE  Types'
<1>1. UNCHANGED <<dbVars, discordVars, login, logout, membershipVars, setupVars, interrupted>>
  BY DEF vars
<1>2. TablesOK' /\ DiscordTypeOK' /\ GuildOK' /\ UNCHANGED members
  BY <1>1, TypesParts, Frame, DiscordFrame DEF GuildOK, RowsNeedGuild, dbVars, membershipVars
<1>3. LoginTypeOK' /\ GoogleFirst' /\ LogoutTypeOK' /\ Shapes' /\ SetupTypeOK'
      /\ UNCHANGED <<lastMember, present, missed, task, interrupted>>
  BY <1>1, TypesParts
     DEF membershipVars, setupVars, LoginTypeOK, GoogleFirst, LogoutTypeOK, Shapes, SetupTypeOK
<1> QED BY <1>2, <1>3, TypesParts, TypesPartsNext

LEMMA TypesStep == Types /\ [Next]_vars => Types'
BY LoginStepTypes, LogoutStepTypes, MoveStepTypes, TaskStepTypes, PostStepTypes,
   SetupStepTypes, AdminStepTypes, StutterTypes DEF Next

LEMMA InitialIds ==
  ASSUME NEW table \in {InitialMembers, {}}, NEW last, last = Max(IdsOf(table) \cup {NoId})
  PROVE  last \in Nat /\ \A m \in table : m.id =< last
<1> DEFINE S == IdsOf(table) \cup {NoId}
           f == [m \in table |-> m.id]
<1>1. table \subseteq Member /\ IsFiniteSet(table)
  BY InitialAssumption, MembershipAssumption, FS_EmptySet
<1>2. f \in Surjection(table, IdsOf(table))
  <2>1. f \in [table -> IdsOf(table)]
    BY DEF IdsOf
  <2>2. \A i \in IdsOf(table) : \E m \in table : f[m] = i
    BY DEF IdsOf
  <2> QED BY <2>1, <2>2 DEF Surjection
<1>3. IsFiniteSet(IdsOf(table))
  BY <1>1, <1>2, FS_Surjection
<1>4. S \in SUBSET Nat
  <2>1. \A m \in table : m.id \in Nat
    BY <1>1, IdAssumption DEF Member
  <2>2. IdsOf(table) \subseteq Nat
    BY <2>1 DEF IdsOf
  <2> QED BY <2>2 DEF NoId
<1>5. IsFiniteSet(S) /\ S # {}
  BY <1>3, FS_AddElement
<1> HIDE DEF f
<1>6. Max(S) \in S /\ \A n \in S : n =< Max(S)
  BY <1>4, <1>5, HasMax
<1>7. \A m \in table : m.id \in S
  BY DEF IdsOf
<1> QED BY <1>4, <1>6, <1>7

LEMMA TypesInit == Init => Types
<1> SUFFICES ASSUME Init PROVE Types
  OBVIOUS
<1>1. TablesOK
  <2>1. verified = {} /\ groupOf = {}
    BY DEF Init
  <2>2. CASE /\ guild = InitialGuild /\ levels = InitialLevels /\ classes = InitialClasses
             /\ groups = InitialGroups /\ members = InitialMembers
    <3>1. DatabaseTypeOK
      BY <2>1, <2>2, InitialAssumption DEF DatabaseTypeOK
    <3>2. KeysOK
      BY <2>1, <2>2, InitialAssumption DEF KeysOK
    <3> QED BY <3>1, <3>2 DEF TablesOK
  <2>3. CASE guild = NoGuild /\ levels = {} /\ classes = {} /\ groups = {} /\ members = {}
    <3>1. DatabaseTypeOK
      BY <2>1, <2>3 DEF DatabaseTypeOK, Guild, NoGuild
    <3>2. KeysOK
      BY <2>1, <2>3 DEF KeysOK, UniqueRows, UniqueMembers
    <3> QED BY <3>1, <3>2 DEF TablesOK
  <2> QED BY <2>2, <2>3 DEF Init
<1>2. DiscordTypeOK
  BY DEF Init, DiscordTypeOK
<1>3. LoginTypeOK /\ GoogleFirst
  BY DEF Init, LoginInit, LoginTypeOK, LoginState, LoginSteps, GoogleFirst, BeforeGoogle, AfterGoogle
<1>4. LogoutTypeOK
  BY DEF Init, LogoutInit, LogoutTypeOK, LogoutState, LogoutSteps
<1>5. GuildOK
  BY DEF Init, GuildOK, RowsNeedGuild
<1>6. lastMember \in Nat /\ \A m \in members : m.id =< lastMember
  <2>1. members \in {InitialMembers, {}} /\ lastMember = Max(IdsOf(members) \cup {NoId})
    BY DEF Init, MembershipInit
  <2> QED BY <2>1, InitialIds
<1>7. present = Users /\ missed \subseteq Users /\ interrupted = {}
  BY DEF Init, MembershipInit
<1>8. task \in [Tasks -> TaskState] /\ Shapes
  <2>1. task = [t \in Tasks |-> [at |-> "idle", failed |-> FALSE, users |-> {},
                                 page |-> NoPage, late |-> {}]]
    BY DEF Init, MembershipInit
  <2>2. NoPage \in [members : SUBSET Positions, last : Positions \cup {0}, short : BOOLEAN]
    BY DEF NoPage
  <2> QED BY <2>1, <2>2 DEF TaskState, TaskSteps, Shapes, Shape, Singles
<1>9. SetupTypeOK
  <2>1. PICK old \in SUBSET Posts : SetupInit(old)
    BY DEF Init
  <2>2. [at |-> "done", failed |-> FALSE, kind |-> "login"] \in PostState
        /\ [at |-> "idle", failed |-> FALSE, kind |-> "none"] \in PostState
    BY DEF PostState, PostEnds
  <2> QED BY <2>1, <2>2 DEF SetupInit, SetupTypeOK
<1> QED BY <1>1, <1>2, <1>3, <1>4, <1>5, <1>6, <1>7, <1>8, <1>9, TypesParts

\* Every row and local has its type, and the keys hold: no statement of the
\* tasks, handlers and commands that run side by side leaves a row without the
\* row it refers to, and no id is given out twice.
THEOREM TypeCorrect == Spec => []TypeOK
<1>1. Types => TypeOK
  BY DEF Types
<1> QED BY <1>1, TypesInit, TypesStep, PTL DEF Spec

-----------------------------------------------------------------------------
(* Who is in the guild, and who has a row. *)

\* The other steps do not touch what these invariants are about.
MembershipStays == UNCHANGED <<members, lastMember, present, missed, task>>

LEMMA EveryStep ==
  ASSUME Types, [Next]_vars
  PROVE  \/ \E t \in Tasks : TaskStep(t) /\ TaskEffect(t)
         \/ \E u \in Users : Move(u) /\ MoveEffect(u)
         \/ MembershipStays
<1> USE DEF MembershipStays, membershipVars
<1>1. ASSUME NEW s \in Logins, LoginStep(s) PROVE MembershipStays
  BY <1>1, LoginHasEffect, TypesParts DEF LoginStep, LoginEffect
<1>2. ASSUME NEW o \in Logouts, LogoutStep(o) PROVE MembershipStays
  BY <1>2, LogoutHasEffect, TypesParts DEF LogoutStep, LogoutEffect
<1>3. ASSUME NEW p \in Posts, PostStep(p) PROVE MembershipStays
  BY <1>3 DEF PostStep, PostNext, ReadRole, ReadGroups, SendMessage, StoreMessage, PostFail, dbVars
<1>4. ASSUME SetupStep PROVE MembershipStays
  BY <1>4 DEF SetupStep, SetupRole, SetupPattern, SetVerifiedRole, SetMailDomain, dbVars
<1>5. ASSUME NEW r \in Roles, AdminDeletesRole(r) PROVE MembershipStays
  BY <1>5 DEF AdminDeletesRole, dbVars
<1>6. ASSUME UNCHANGED vars PROVE MembershipStays
  BY <1>6 DEF vars, dbVars
<1>7. ASSUME NEW t \in Tasks, TaskStep(t) PROVE TaskEffect(t)
  BY <1>7, TaskHasEffect DEF TaskStep, Types, TypeOK
<1>8. ASSUME NEW u \in Users, Move(u) PROVE MoveEffect(u)
  BY <1>8, MoveHasEffect DEF Move, Types, TypeOK
<1> QED BY <1>1, <1>2, <1>3, <1>4, <1>5, <1>6, <1>7, <1>8 DEF Next

LEMMA NoRow ==
  ASSUME NEW u
  PROVE  /\ MemberIds(u) = {} <=> \A m \in members : m.user # u
         /\ (MemberIds(u) = {} <=> \A m \in members : m.user # u)'
BY DEF MemberIds

\* What a task did too late is never forgotten.
LEMMA LateGrows ==
  ASSUME Types, NEW t \in Tasks, TaskEffect(t)
  PROVE  /\ task[t].late \subseteq task'[t].late
         /\ \A x \in Tasks \ {t} : task'[x] = task[x]
         /\ \A u : Overtaken(u) => Overtaken(u)'
<1>1. task[t] \in TaskState
  BY TypesParts
<1>2. \A x \in Tasks \ {t} : task'[x] = task[x]
  BY DEF TaskEffect
<1>3. task[t].late \subseteq task'[t].late
  <2> USE <1>1 DEF TaskState
  <2>1. CASE TaskStarts(t)
    BY <2>1 DEF TaskStarts
  <2>2. CASE TaskFailsHere(t) \/ TaskLooks(t) \/ TaskOnGuild(t)
    BY <2>2 DEF TaskFailsHere, TaskLooks, TaskOnGuild
  <2>3. CASE TaskAdds(t) \/ TaskRemoves(t)
    BY <2>3, TheUserIs DEF TaskAdds, TaskRemoves, Singles, Types
  <2>4. CASE TaskFetches(t)
    BY <2>4 DEF TaskFetches
  <2>5. CASE TaskLoads(t)
    <3> DEFINE n == Min(task[t].page.members)
               rest == task[t].page.members \ {n}
               step == AfterMember(rest, task[t].page.short)
               page == [task[t].page EXCEPT !.members = rest]
    <3>1. PICK added \in {{}, {UserOrder[n]}} :
            task'[t] = [task[t] EXCEPT !.at = step, !.page = page,
                                       !.late = task[t].late \cup (added \ present)]
      BY <2>5 DEF TaskLoads
    <3> QED BY <3>1
  <2> QED BY <2>1, <2>2, <2>3, <2>4, <2>5 DEF TaskEffect
<1> QED BY <1>2, <1>3 DEF Overtaken

LEMMA MoveKeepsTasks ==
  ASSUME Types, NEW u \in Users, MoveEffect(u)
  PROVE  /\ \A x \in Tasks : task'[x].late = task[x].late
         /\ \A x \in Tasks : task[x].at \notin Loading \cup {"idle"} => task'[x] = task[x]
         /\ \A w : Overtaken(w) => Overtaken(w)'
         /\ \A w \in Users, steps \in SUBSET Singles : Unfinished(w, steps) => Unfinished(w, steps)'
<1>1. ASSUME NEW x \in Tasks
      PROVE  /\ task'[x].late = task[x].late
             /\ task[x].at \notin Loading \cup {"idle"} => task'[x] = task[x]
  <2>1. task[x] \in TaskState
    BY TypesParts
  <2>2. CASE TaskTold(x, u)
    <3>1. PICK at : task[x].at = "idle" /\ task'[x] = [task[x] EXCEPT !.at = at, !.users = {u}]
      BY <2>2 DEF TaskTold
    <3> QED BY <2>1, <3>1 DEF TaskState
  <2>3. CASE TaskStays(x, u)
    <3>1. PICK users : /\ task'[x] = [task[x] EXCEPT !.users = users]
                       /\ task[x].at \notin Loading => users = task[x].users
      BY <2>3 DEF TaskStays
    <3> QED BY <2>1, <3>1 DEF TaskState
  <2> QED BY <2>2, <2>3 DEF MoveEffect
<1>2. \A x \in Tasks : task[x].at \in Singles => task'[x] = task[x]
  BY <1>1 DEF Singles, Loading
<1> QED BY <1>1, <1>2 DEF Overtaken, Unfinished

LEMMA ToldIsUnfinished ==
  ASSUME Types, NEW u \in Users, MoveEffect(u), u \notin missed'
  PROVE  /\ u \in present => Unfinished(u, {"delete"})'
         /\ u \notin present => Unfinished(u, {"look", "insert"})'
<1>1. PICK x \in Tasks : TaskTold(x, u)
  BY DEF MoveEffect
<1>2. task[x] \in TaskState
  BY TypesParts
<1>3. task'[x].users = {u} /\ task'[x].at = IF u \in present THEN "delete" ELSE "look"
  BY <1>1, <1>2 DEF TaskTold, TaskState
<1> QED BY <1>3 DEF Unfinished

LEMMA MoveOnUsers ==
  ASSUME Types, NEW w \in Users, MoveEffect(w), NEW u \in Users
  PROVE  /\ members' = members
         /\ u # w => (u \in present' <=> u \in present) /\ (u \in missed' <=> u \in missed)
         /\ u = w => (u \in present' <=> u \notin present)
BY DEF MoveEffect, dbVars

\* An unfinished step of a task is done, or remains.
LEMMA StaysUnfinished ==
  ASSUME Types, NEW t \in Tasks, TaskEffect(t), NEW u \in Users
  PROVE  /\ Unfinished(u, {"delete"}) =>
              \/ Unfinished(u, {"delete"})' \/ \A m \in members' : m.user # u
         /\ Unfinished(u, {"look", "insert"}) =>
              \/ Unfinished(u, {"look", "insert"})' \/ \E m \in members' : m.user = u
<1>1. task[t] \in TaskState /\ Shape(task[t])
  BY TypesParts DEF Shapes
<1>2. \A x \in Tasks \ {t} : task'[x] = task[x]
  BY LateGrows
<1>3. SUFFICES ASSUME task[t].users = {u}
               PROVE  /\ task[t].at = "delete" =>
                           \/ task'[t].users = {u} /\ task'[t].at = "delete"
                           \/ \A m \in members' : m.user # u
                      /\ task[t].at \in {"look", "insert"} =>
                           \/ task'[t].users = {u} /\ task'[t].at \in {"look", "insert"}
                           \/ \E m \in members' : m.user = u
  BY <1>2 DEF Unfinished
<1>4. TheUser(t) = u
  BY <1>3 DEF TheUser
<1> USE <1>1, <1>3, <1>4 DEF TaskState
<1>5. CASE TaskFailsHere(t)
  BY <1>5 DEF TaskFailsHere
<1>6. CASE TaskLooks(t)
  BY <1>6, NoRow DEF TaskLooks, NoRowChanges
<1>7. CASE TaskAdds(t)
  <2>1. members' = members \cup {[id |-> lastMember + 1, user |-> u]}
    BY <1>7 DEF TaskAdds, AddMember, InsertMember
  <2>2. [id |-> lastMember + 1, user |-> u].user = u
    OBVIOUS
  <2> QED BY <1>7, <2>1, <2>2 DEF TaskAdds
<1>8. CASE TaskRemoves(t)
  BY <1>8 DEF TaskRemoves, DeleteMember
<1> QED BY <1>5, <1>6, <1>7, <1>8
        DEF TaskEffect, TaskStarts, TaskOnGuild, TaskFetches, TaskLoads

\* Rows come and go with a trace: whose row comes or goes at the wrong time
\* was overtaken.
LEMMA RowsOfOthersStay ==
  ASSUME Types, NEW t \in Tasks, TaskEffect(t), NEW u \in Users
  PROVE  /\ \A m \in members' : m.user = u =>
              \/ m \in members \/ u \in present \/ Overtaken(u)'
         /\ \A m \in members : m.user = u =>
              \/ m \in members' \/ u \notin present \/ Overtaken(u)'
<1>1. task[t] \in TaskState
  BY TypesParts
<1>2. CASE members' = members
  BY <1>2
<1>3. CASE TaskAdds(t)
  <2>1. members' = members \cup {[id |-> lastMember + 1, user |-> TheUser(t)]}
    BY <1>3 DEF TaskAdds, AddMember, InsertMember
  <2>2. task'[t].late = {TheUser(t)} \ present
    BY <1>1, <1>3 DEF TaskAdds, TaskState
  <2> QED BY <2>1, <2>2 DEF Overtaken
<1>4. CASE TaskRemoves(t)
  <2>1. members' = {m \in members : m.user # TheUser(t)}
    BY <1>4 DEF TaskRemoves, DeleteMember
  <2>2. task'[t].late = {TheUser(t)} \cap present
    BY <1>1, <1>4 DEF TaskRemoves, TaskState
  <2> QED BY <2>1, <2>2 DEF Overtaken
<1>5. CASE TaskLoads(t)
  <2> DEFINE w == UserOrder[Min(task[t].page.members)]
  <2>1. CASE members' = members
    BY <2>1
  <2>2. CASE members' # members
    <3>1. /\ members' = members \cup {[id |-> lastMember + 1, user |-> w]}
          /\ {w} \ present \subseteq task'[t].late
      <4>1. PICK added \in {{}, {w}} :
              /\ added = {w} /\ AddMember(w)
              /\ task'[t].late = task[t].late \cup (added \ present)
        BY <1>1, <1>5, <2>2 DEF TaskLoads, NoRowChanges, TaskState
      <4> QED BY <4>1 DEF AddMember, InsertMember
    <3> HIDE DEF w
    <3> QED BY <3>1 DEF Overtaken
  <2> QED BY <2>1, <2>2
<1> QED BY <1>2, <1>3, <1>4, <1>5 DEF TaskEffect, TaskStarts, TaskFailsHere, TaskLooks,
        TaskOnGuild, TaskFetches, NoRowChanges

LEMMA PresentStep ==
  Types /\ PresentUsersAreKnown /\ [Next]_vars => PresentUsersAreKnown'
<1> SUFFICES ASSUME Types, PresentUsersAreKnown, [Next]_vars, NEW u \in present',
                    \A m \in members' : m.user # u
             PROVE  \/ u \in missed'
                    \/ Unfinished(u, {"look", "insert"})'
                    \/ Overtaken(u)'
  BY NoRow DEF PresentUsersAreKnown
<1>1. u \in present /\ (\A m \in members : m.user # u) =>
        u \in missed \/ Unfinished(u, {"look", "insert"}) \/ Overtaken(u)
  BY NoRow DEF PresentUsersAreKnown
<1>2. u \in Users
  BY TypesStep, TypesPartsNext
<1>3. CASE MembershipStays
  BY <1>1, <1>3 DEF MembershipStays, Unfinished, Overtaken
<1>4. ASSUME NEW t \in Tasks, TaskEffect(t)
      PROVE  u \in missed' \/ Unfinished(u, {"look", "insert"})' \/ Overtaken(u)'
  <2>1. present' = present /\ missed' = missed
    BY <1>4 DEF TaskEffect
  <2> QED BY <1>1, <1>2, <1>4, <2>1, RowsOfOthersStay, StaysUnfinished, LateGrows
<1>5. ASSUME NEW w \in Users, MoveEffect(w)
      PROVE  u \in missed' \/ Unfinished(u, {"look", "insert"})' \/ Overtaken(u)'
  <2>1. CASE u = w
    BY <1>2, <1>5, <2>1, MoveOnUsers, ToldIsUnfinished
  <2>2. CASE u # w
    <3>1. u \in present /\ (u \in missed' <=> u \in missed) /\ members' = members
      BY <1>2, <1>5, <2>2, MoveOnUsers
    <3>2. {"look", "insert"} \in SUBSET Singles
      BY DEF Singles
    <3> QED BY <1>1, <1>2, <1>5, <3>1, <3>2, MoveKeepsTasks
  <2> QED BY <2>1, <2>2
<1> QED BY <1>3, <1>4, <1>5, EveryStep

LEMMA KnownStep ==
  Types /\ KnownUsersArePresent /\ [Next]_vars => KnownUsersArePresent'
<1> SUFFICES ASSUME Types, KnownUsersArePresent, [Next]_vars,
                    NEW m \in members', m.user \notin present'
             PROVE  \/ m.user \in missed'
                    \/ Unfinished(m.user, {"delete"})'
                    \/ Overtaken(m.user)'
  BY DEF KnownUsersArePresent
<1> DEFINE u == m.user
<1>1. m \in members /\ u \notin present =>
        u \in missed \/ Unfinished(u, {"delete"}) \/ Overtaken(u)
  BY DEF KnownUsersArePresent
<1>2. u \in Users
  BY TypesStep, TypesPartsNext DEF TablesOK, DatabaseTypeOK, Member
<1> HIDE DEF u
<1>3. CASE MembershipStays
  BY <1>1, <1>3 DEF MembershipStays, Unfinished, Overtaken, u
<1>4. ASSUME NEW t \in Tasks, TaskEffect(t)
      PROVE  u \in missed' \/ Unfinished(u, {"delete"})' \/ Overtaken(u)'
  <2>1. present' = present /\ missed' = missed
    BY <1>4 DEF TaskEffect
  <2> QED BY <1>1, <1>2, <1>4, <2>1, RowsOfOthersStay, StaysUnfinished, LateGrows DEF u
<1>5. ASSUME NEW w \in Users, MoveEffect(w)
      PROVE  u \in missed' \/ Unfinished(u, {"delete"})' \/ Overtaken(u)'
  <2>1. CASE u = w
    BY <1>2, <1>5, <2>1, MoveOnUsers, ToldIsUnfinished DEF u
  <2>2. CASE u # w
    <3>1. u \notin present /\ (u \in missed' <=> u \in missed) /\ members' = members
      BY <1>2, <1>5, <2>2, MoveOnUsers DEF u
    <3>2. {"delete"} \in SUBSET Singles
      BY DEF Singles
    <3> QED BY <1>1, <1>2, <1>5, <3>1, <3>2, MoveKeepsTasks
  <2> QED BY <2>1, <2>2
<1> QED BY <1>3, <1>4, <1>5, EveryStep DEF u

\* Who is in the guild has a row, or the reason why not is at hand.
THEOREM PresentAreKnown == Spec => []PresentUsersAreKnown
<1>1. Init => PresentUsersAreKnown
  <2> SUFFICES ASSUME Init, NEW u \in present, MemberIds(u) = {} PROVE u \in missed
    BY DEF PresentUsersAreKnown
  <2> QED BY NoRow DEF Init, MembershipInit
<1> QED BY <1>1, TypesInit, TypesStep, PresentStep, PTL DEF Spec

\* Who has a row is in the guild, or the reason why not is at hand.
THEOREM KnownArePresent == Spec => []KnownUsersArePresent
<1>1. Init => KnownUsersArePresent
  <2> SUFFICES ASSUME Init PROVE \A m \in members : m.user \in present
    BY DEF KnownUsersArePresent
  <2>1. members \subseteq Member /\ present = Users
    BY TypesInit, TypesParts DEF TablesOK, DatabaseTypeOK, Init, MembershipInit
  <2> QED BY <2>1 DEF Member
<1> QED BY <1>1, TypesInit, TypesStep, KnownStep, PTL DEF Spec

-----------------------------------------------------------------------------
(* The refresh command. *)

Covered == {u \in Users : MemberIds(u) # {} \/ Overtaken(u)}

\* Everybody the command has to load is in the page, after it, or done with.
Accounted(k, here, covered) ==
  k.at \in Loading =>
    /\ k.users \subseteq here
    /\ \A n \in Positions : UserOrder[n] \in k.users \ Bots =>
         n \in k.page.members \/ (n > k.page.last /\ ~k.page.short) \/ UserOrder[n] \in covered

EverybodyAccounted == \A t \in Tasks : Accounted(task[t], present, Covered)

LEMMA CoveredStays ==
  ASSUME Types, NEW t \in Tasks, TaskEffect(t), NEW u \in present \cap Covered
  PROVE  u \in Covered'
<1>1. u \in Users
  BY TypesParts
<1>2. CASE Overtaken(u)
  BY <1>2, LateGrows DEF Covered
<1>3. CASE MemberIds(u) # {}
  BY <1>1, <1>3, RowsOfOthersStay, NoRow DEF Covered
<1> QED BY <1>2, <1>3 DEF Covered

LEMMA FetchAccounts ==
  ASSUME Types, EverybodyAccounted, NEW t \in Tasks, TaskEffect(t), TaskFetches(t)
  PROVE  Accounted(task'[t], present', Covered')
<1> DEFINE k == task[t]
           P == PageAfter(k.page.last)
           L == Listed(k.page.last)
           short == Cardinality(P) < PageSize
<1>1. /\ k \in TaskState /\ k.at = "fetch" /\ k.page.members = {} /\ ~k.page.short
      /\ present' = present
  BY TypesParts DEF Shapes, Shape, TaskFetches, TaskEffect
<1>2. /\ k.users \subseteq present
      /\ \A n \in Positions : UserOrder[n] \in k.users \ Bots =>
           n > k.page.last \/ UserOrder[n] \in Covered
  BY <1>1 DEF EverybodyAccounted, Accounted, Loading
<1>3. /\ task'[t].users = k.users
      /\ task'[t].page = [members |-> NoBots(P), last |-> LastAfter(t), short |-> short]
  BY <1>1 DEF TaskFetches, TaskState
<1> HIDE DEF P, L, short, k
<1>4. ASSUME NEW n \in Positions, UserOrder[n] \in k.users \ Bots, UserOrder[n] \notin Covered'
      PROVE  n \in NoBots(P) \/ (n > LastAfter(t) /\ ~short)
  <2>1. UserOrder[n] \notin Covered
    BY <1>2, <1>4, CoveredStays
  <2>2. n \in L
    BY <1>2, <1>4, <2>1 DEF L, Listed
  <2>3. CASE n \in P
    BY <1>4, <2>3 DEF NoBots
  <2>4. CASE n \in L \ P
    <3>1. ~short /\ P # {}
      BY <2>4, PageFacts DEF P, L, short
    <3>2. LastAfter(t) \in P
      BY <1>1, <3>1, LastFacts DEF P, k
    <3>3. LastAfter(t) < n
      BY <2>4, <3>2, PageFacts DEF P, L
    <3>4. n \in Nat /\ LastAfter(t) \in Nat
      <4>1. LastAfter(t) \in Positions \cup {0}
        BY <1>1, LastFacts DEF k
      <4>2. \A x \in Positions : x \in Nat
        BY PositionsAreFinite
      <4>3. LastAfter(t) \in Positions \/ LastAfter(t) = 0
        BY <4>1
      <4> QED BY <4>2, <4>3
    <3> QED BY <3>1, <3>3, <3>4
  <2> QED BY <2>2, <2>3, <2>4
<1> QED BY <1>1, <1>2, <1>3, <1>4 DEF Accounted, k

LEMMA LoadAccounts ==
  ASSUME Types, EverybodyAccounted, NEW t \in Tasks, TaskEffect(t), TaskLoads(t)
  PROVE  Accounted(task'[t], present', Covered')
<1> DEFINE k == task[t]
           first == Min(k.page.members)
           rest == k.page.members \ {first}
           step == AfterMember(rest, k.page.short)
           page == [k.page EXCEPT !.members = rest]
<1>1. k \in TaskState /\ k.at = "load" /\ present' = present
  BY TypesParts DEF TaskLoads, TaskEffect
<1>2. /\ k.users \subseteq present
      /\ \A n \in Positions : UserOrder[n] \in k.users \ Bots =>
           n \in k.page.members \/ (n > k.page.last /\ ~k.page.short) \/ UserOrder[n] \in Covered
  BY <1>1 DEF EverybodyAccounted, Accounted, Loading
<1>3. PICK added \in {{}, {UserOrder[first]}} :
        /\ \/ AddMember(UserOrder[first])
           \/ MemberIds(UserOrder[first]) # {} /\ NoRowChanges
        /\ task'[t] = [k EXCEPT !.at = step, !.page = page,
                                !.late = k.late \cup (added \ present)]
  BY DEF TaskLoads
<1>4. task'[t].users = k.users /\ task'[t].page = page
  BY <1>1, <1>3 DEF TaskState
<1>5. page.members = rest /\ page.last = k.page.last /\ page.short = k.page.short
  BY <1>1 DEF TaskState
<1>6. UserOrder[first] \in Covered'
  <2>0. UserOrder[first] \in Users
    BY <1>1, FirstOfPage DEF Types, TypeOK
  <2>1. CASE AddMember(UserOrder[first])
    <3>1. members' = members \cup {[id |-> lastMember + 1, user |-> UserOrder[first]]}
      BY <2>1 DEF AddMember, InsertMember
    <3>2. [id |-> lastMember + 1, user |-> UserOrder[first]].user = UserOrder[first]
      OBVIOUS
    <3> QED BY <2>0, <3>1, <3>2, NoRow DEF Covered
  <2>2. CASE MemberIds(UserOrder[first]) # {} /\ NoRowChanges
    BY <2>0, <2>2, NoRow DEF Covered, NoRowChanges
  <2> QED BY <1>3, <2>1, <2>2
<1> HIDE DEF k, page, step
<1>7. ASSUME NEW n \in Positions, UserOrder[n] \in k.users \ Bots, UserOrder[n] \notin Covered'
      PROVE  n \in rest \/ (n > page.last /\ ~page.short)
  <2>1. UserOrder[n] \notin Covered
    BY <1>2, <1>7, CoveredStays
  <2>2. n # first
    BY <1>6, <1>7
  <2> QED BY <1>2, <1>5, <1>7, <2>1, <2>2
<1> QED BY <1>1, <1>2, <1>4, <1>5, <1>7 DEF Accounted

LEMMA AccountedStep ==
  Types /\ EverybodyAccounted /\ [Next]_vars => EverybodyAccounted'
<1> SUFFICES ASSUME Types, EverybodyAccounted, [Next]_vars
             PROVE  EverybodyAccounted'
  OBVIOUS
<1>1. CASE MembershipStays
  BY <1>1 DEF MembershipStays, EverybodyAccounted, Accounted, Covered, Overtaken, MemberIds
<1>2. ASSUME NEW t \in Tasks, TaskEffect(t)
      PROVE  EverybodyAccounted'
  <2>1. present' = present /\ \A x \in Tasks \ {t} : task'[x] = task[x]
    BY <1>2, LateGrows DEF TaskEffect
  <2>2. ASSUME NEW k, Accounted(k, present, Covered) PROVE Accounted(k, present', Covered')
    <3> SUFFICES ASSUME k.at \in Loading
                 PROVE  /\ k.users \subseteq present
                        /\ \A n \in Positions : UserOrder[n] \in k.users \ Bots =>
                             \/ n \in k.page.members \/ (n > k.page.last /\ ~k.page.short)
                             \/ UserOrder[n] \in Covered'
      BY <2>1 DEF Accounted
    <3> QED BY <1>2, <2>2, CoveredStays DEF Accounted
  <2>3. Accounted(task'[t], present', Covered')
    <3>1. task[t] \in TaskState /\ Shape(task[t]) /\ Accounted(task[t], present, Covered)
      BY TypesParts DEF Shapes, EverybodyAccounted
    <3>2. CASE TaskStarts(t)
      <4>1. PICK step \in TaskSteps, users \in SUBSET Users :
              /\ task'[t] = [task[t] EXCEPT !.at = step, !.users = users]
              /\ \/ step \in {"look", "lookGuild", "deleteGuild"}
                 \/ step = "fetch" /\ users = present
        BY <3>2 DEF TaskStarts
      <4>2. task[t].page = NoPage
        BY <3>1, <3>2 DEF TaskStarts, Shape
      <4>3. task'[t].at = step /\ task'[t].users = users /\ task'[t].page = NoPage
        BY <3>1, <4>1, <4>2 DEF TaskState
      <4>4. \A n \in Positions : n > 0
        BY MembershipAssumption DEF Positions
      <4> QED BY <2>1, <4>1, <4>3, <4>4 DEF Accounted, Loading, NoPage
    <3>3. CASE TaskFailsHere(t)
      <4>1. Accounted(task[t], present', Covered')
        BY <2>2, <3>1
      <4>2. /\ task'[t].at = task[t].at /\ task'[t].users = task[t].users
            /\ task'[t].page = task[t].page
        BY <3>1, <3>3 DEF TaskFailsHere, TaskState
      <4> QED BY <2>1, <4>1, <4>2 DEF Accounted
    <3>4. CASE TaskLooks(t) \/ TaskOnGuild(t)
      BY <3>1, <3>4 DEF TaskLooks, TaskOnGuild, TaskState, Accounted, Loading
    <3>5. CASE TaskAdds(t) \/ TaskRemoves(t)
      <4>1. task'[t].at \in {"added", "removed"}
        BY <3>1, <3>5 DEF TaskAdds, TaskRemoves, TaskState
      <4> QED BY <4>1 DEF Accounted, Loading
    <3> QED BY <1>2, <3>2, <3>3, <3>4, <3>5, FetchAccounts, LoadAccounts DEF TaskEffect
  <2> QED BY <2>1, <2>2, <2>3 DEF EverybodyAccounted
<1>3. ASSUME NEW u \in Users, MoveEffect(u)
      PROVE  EverybodyAccounted'
  <2> SUFFICES ASSUME NEW x \in Tasks, task'[x].at \in Loading
               PROVE  Accounted(task'[x], present', Covered')
    BY DEF EverybodyAccounted, Accounted
  <2>1. task[x] \in TaskState /\ Accounted(task[x], present, Covered)
    BY TypesParts DEF EverybodyAccounted
  <2>2. TaskStays(x, u)
    <3>1. ~TaskTold(x, u)
      BY <2>1 DEF TaskTold, TaskState, Loading
    <3> QED BY <1>3, <3>1 DEF MoveEffect
  <2> DEFINE users == IF u \in present /\ task[x].at \in Loading
                      THEN task[x].users \ {u} ELSE task[x].users
  <2>3. /\ task'[x].at = task[x].at /\ task'[x].page = task[x].page
        /\ task'[x].users = users
    BY <2>1, <2>2 DEF TaskStays, TaskState
  <2>4. users \subseteq task[x].users /\ users \subseteq present'
    BY <1>3, <2>1, <2>3 DEF Accounted, MoveEffect
  <2>5. Covered \subseteq Covered'
    <3>1. members' = members
      BY <1>3 DEF MoveEffect, dbVars
    <3> QED BY <1>3, <3>1, NoRow, MoveKeepsTasks DEF Covered
  <2> QED BY <2>1, <2>3, <2>4, <2>5 DEF Accounted
<1> QED BY <1>1, <1>2, <1>3, EveryStep

\* When the refresh command ends, everybody has a row who was in the guild all
\* the while, is no bot, and was not overtaken: the limit on the length of a
\* page skips nobody, whatever happens between two pages.
THEOREM RefreshIsComplete == Spec => []RefreshLoadsEverybody
<1>1. Init => EverybodyAccounted
  BY DEF Init, MembershipInit, EverybodyAccounted, Accounted, Loading
<1>2. Types /\ EverybodyAccounted => RefreshLoadsEverybody
  <2> SUFFICES ASSUME Types, EverybodyAccounted, NEW t \in Tasks, task[t].at = "loaded",
                      NEW u \in task[t].users \ Bots
               PROVE  MemberIds(u) # {} \/ Overtaken(u)
    BY DEF RefreshLoadsEverybody
  <2>1. task[t] \in TaskState /\ task[t].page.members = {} /\ task[t].page.short
    BY TypesParts DEF Shapes, Shape
  <2>2. PICK n \in Positions : UserOrder[n] = u
    BY <2>1, MembershipAssumption DEF TaskState, Positions
  <2> QED BY <2>1, <2>2 DEF EverybodyAccounted, Accounted, Loading, Covered
<1> QED BY <1>1, <1>2, TypesInit, TypesStep, AccountedStep, PTL DEF Spec

-----------------------------------------------------------------------------
(* The roles of the verified members. *)

\* The row a login has looked up is its user's, if it is still there.
MembersAreOurs ==
  \A s \in Logins : login[s].member # NoId =>
    /\ login[s].member =< lastMember
    /\ IsOf(login[s].member, LoginOf[s])

\* What a login has granted so far is there, or lost.
GrantedRolesHeld ==
  \A s \in Logins : \A r \in Due(login[s]) : r \in roles[LoginOf[s]] \/ Lost(s, r)

\* Who is verified has logged in.
LinkedRows == \A v \in verified : \E s \in Logins : login[s].at = "linked" /\ NewRow(s) = v

HandlersStay == UNCHANGED <<verified, login, logout, roles, guildRoles, interrupted>>

LEMMA EveryHandlerStep ==
  ASSUME Types, [Next]_vars
  PROVE  \/ \E s \in Logins : LoginStep(s) /\ LoginEffect(s)
         \/ \E o \in Logouts : LogoutStep(o) /\ LogoutEffect(o)
         \/ \E u \in Users : Move(u) /\ MoveEffect(u)
         \/ \E r \in Roles : AdminDeletesRole(r)
         \/ HandlersStay
<1> USE DEF HandlersStay, dbVars, discordVars
<1>1. ASSUME NEW s \in Logins, LoginStep(s) PROVE LoginEffect(s)
  BY <1>1, LoginHasEffect, TypesParts DEF LoginStep
<1>2. ASSUME NEW o \in Logouts, LogoutStep(o) PROVE LogoutEffect(o)
  BY <1>2, LogoutHasEffect, TypesParts DEF LogoutStep
<1>3. ASSUME NEW p \in Posts, PostStep(p) PROVE HandlersStay
  BY <1>3 DEF PostStep, PostNext, ReadRole, ReadGroups, SendMessage, StoreMessage, PostFail
<1>4. ASSUME SetupStep PROVE HandlersStay
  BY <1>4 DEF SetupStep, SetupRole, SetupPattern, SetVerifiedRole, SetMailDomain
<1>5. ASSUME NEW t \in Tasks, TaskStep(t) PROVE HandlersStay
  BY <1>5, TaskHasEffect DEF TaskStep, Types, TypeOK, TaskEffect
<1>6. ASSUME UNCHANGED vars PROVE HandlersStay
  BY <1>6 DEF vars
<1>7. ASSUME NEW u \in Users, Move(u) PROVE MoveEffect(u)
  BY <1>7, MoveHasEffect DEF Move, Types, TypeOK
<1> QED BY <1>1, <1>2, <1>3, <1>4, <1>5, <1>6, <1>7 DEF Next

\* A row's id is greater than those of all rows before it.
LEMMA NewIds ==
  ASSUME Types, [Next]_vars
  PROVE  /\ lastMember' \in Nat /\ lastMember =< lastMember'
         /\ \A m \in members' : m \in members \/ m.id > lastMember
<1>1. lastMember \in Nat
  BY TypesParts
<1>2. ASSUME NEW u, AddMember(u)
      PROVE  /\ lastMember' \in Nat /\ lastMember =< lastMember'
             /\ \A m \in members' : m \in members \/ m.id > lastMember
  <2>1. members' = members \cup {[id |-> lastMember + 1, user |-> u]} /\ lastMember' = lastMember + 1
    BY <1>2 DEF AddMember, InsertMember
  <2>2. [id |-> lastMember + 1, user |-> u].id = lastMember + 1
    OBVIOUS
  <2> QED BY <1>1, <2>1, <2>2
<1>3. CASE UNCHANGED <<members, lastMember>>
  BY <1>1, <1>3
<1>4. ASSUME NEW t \in Tasks, TaskEffect(t)
      PROVE  /\ lastMember' \in Nat /\ lastMember =< lastMember'
             /\ \A m \in members' : m \in members \/ m.id > lastMember
  <2>1. CASE TaskRemoves(t)
    BY <1>1, <2>1 DEF TaskRemoves, DeleteMember
  <2>2. CASE TaskAdds(t)
    BY <1>2, <2>2 DEF TaskAdds
  <2>3. CASE TaskLoads(t)
    BY <1>2, <1>3, <2>3 DEF TaskLoads, NoRowChanges
  <2> QED BY <1>3, <1>4, <2>1, <2>2, <2>3 DEF TaskEffect, TaskStarts, TaskFailsHere, TaskLooks,
           TaskOnGuild, TaskFetches, NoRowChanges
<1>5. ASSUME NEW u \in Users, MoveEffect(u) PROVE UNCHANGED <<members, lastMember>>
  BY <1>5 DEF MoveEffect, dbVars
<1> QED BY <1>3, <1>4, <1>5, EveryStep DEF MembershipStays

\* A row that a handler has looked up stays its user's as long as it is there:
\* the ids of deleted rows are not given out again.
LEMMA RowsStayTheirs ==
  ASSUME Types, [Next]_vars, NEW i \in Ids, i =< lastMember, NEW u, IsOf(i, u)
  PROVE  i =< lastMember' /\ IsOf(i, u)'
<1>1. lastMember \in Nat /\ i \in Nat
  BY TypesParts, IdAssumption
<1>2. \A m \in members' : m.id = i => m \in members
  BY <1>1, NewIds
<1> QED BY <1>1, <1>2, NewIds DEF IsOf

LEMMA RowsJustRead ==
  ASSUME Types, NEW u, NEW i \in MemberIds(u)
  PROVE  i =< lastMember /\ IsOf(i, u)
BY TypesParts DEF MemberIds, IsOf, TablesOK, KeysOK, UniqueMembers

LEMMA MembersAreOursStep ==
  Types /\ MembersAreOurs /\ [Next]_vars => MembersAreOurs'
<1> SUFFICES ASSUME Types, MembersAreOurs, [Next]_vars, NEW s \in Logins,
                    login'[s].member # NoId
             PROVE  /\ login'[s].member =< lastMember'
                    /\ \A m \in members' : m.id = login'[s].member => m.user = LoginOf[s]
  BY DEF MembersAreOurs, IsOf
<1>1. login[s].member \in Ids \cup {NoId}
  BY TypesParts DEF LoginTypeOK, LoginState
<1>2. CASE login'[s].member = login[s].member
  BY <1>1, <1>2, RowsStayTheirs DEF MembersAreOurs, IsOf
<1>3. CASE login'[s].member # login[s].member
  <2>1. LoginStep(s) /\ LoginEffect(s)
    <3>1. \A x \in Logins : LoginStep(x) /\ LoginEffect(x) /\ x # s => login'[s] = login[s]
      BY DEF LoginEffect
    <3> QED BY <1>3, <3>1, EveryHandlerStep
            DEF LogoutStep, Move, AdminDeletesRole, HandlersStay
  <2>2. login'[s].member \in MemberIds(LoginOf[s])
    BY <1>3, <2>1, LoginReadsMember, TypesParts DEF LoginStep
  <2>3. members' = members /\ lastMember' = lastMember
    BY <2>1 DEF LoginEffect, LoginStep, membershipVars
  <2> QED BY <2>2, <2>3, RowsJustRead DEF IsOf
<1> QED BY <1>2, <1>3

LEMMA GrantedRolesStep ==
  Types /\ GrantedRolesHeld /\ [Next]_vars => GrantedRolesHeld'
<1> SUFFICES ASSUME Types, GrantedRolesHeld, [Next]_vars, NEW s \in Logins,
                    NEW r \in Due(login'[s])
             PROVE  r \in roles'[LoginOf[s]] \/ Lost(s, r)'
  BY DEF GrantedRolesHeld
<1>1. r \in Due(login[s]) => r \in roles[LoginOf[s]] \/ Lost(s, r)
  BY DEF GrantedRolesHeld
<1>2. /\ roles \in [Users -> SUBSET Roles] /\ LoginOf[s] \in Users /\ login[s] \in LoginState
      /\ logout \in [Logouts -> LogoutState]
  BY TypesParts, LoginAssumption DEF DiscordTypeOK, LoginTypeOK, LogoutTypeOK
<1>3. ASSUME NEW x \in Logins, LoginStep(x), LoginEffect(x)
      PROVE  r \in roles'[LoginOf[s]] \/ Lost(s, r)'
  <2>1. UNCHANGED <<logout, interrupted>> /\ guildRoles' = guildRoles
    BY <1>3 DEF LoginStep, LoginEffect, LoginQuiet, LoginGrants, LoginInserts
  <2>2. Lost(s, r) => Lost(s, r)'
    BY <2>1 DEF Lost
  <2>3. s # x => login'[s] = login[s]
    BY <1>3 DEF LoginEffect
  <2>4. CASE LoginQuiet(x)
    BY <1>1, <2>2, <2>3, <2>4 DEF LoginQuiet
  <2>5. CASE \E g \in Roles : LoginGrants(x, g)
    BY <1>1, <1>2, <2>2, <2>3, <2>5, LoginAssumption DEF LoginGrants
  <2>6. CASE LoginInserts(x)
    <3>1. s = x => Due(login'[s]) = Due(login[s])
      BY <1>2, <2>6 DEF LoginInserts, Due, G1, G2, G3, LoginState
    <3> QED BY <1>1, <2>2, <2>3, <2>6, <3>1 DEF LoginInserts
  <2> QED BY <1>3, <2>4, <2>5, <2>6 DEF LoginEffect
<1>4. ASSUME NEW o \in Logouts, LogoutStep(o), LogoutEffect(o)
      PROVE  r \in roles'[LoginOf[s]] \/ Lost(s, r)'
  <2>1. UNCHANGED <<login, interrupted>> /\ guildRoles' = guildRoles /\ logout[o].at # "done"
    BY <1>4 DEF LogoutStep, LogoutEffect, LogoutQuiet, LogoutDeletes, LogoutTakes
  <2>2. Lost(s, r) => Lost(s, r)'
    BY <1>4, <2>1 DEF Lost, LogoutEffect
  <2>3. CASE LogoutQuiet(o) \/ LogoutDeletes(o)
    BY <1>1, <2>1, <2>2, <2>3 DEF LogoutQuiet, LogoutDeletes
  <2>4. CASE LogoutTakes(o)
    <3>1. roles' = [roles EXCEPT ![LogoutOf[o]] = @ \ {logout[o].role}]
      BY <2>4 DEF LogoutTakes
    <3>2. logout'[o].at = "done" /\ logout'[o].role = logout[o].role
      BY <1>2, <2>4 DEF LogoutTakes, LogoutState
    <3>3. LogoutOf[o] = LoginOf[s] /\ r = logout[o].role => Lost(s, r)'
      BY <3>2 DEF Lost
    <3> QED BY <1>1, <1>2, <2>1, <2>2, <3>1, <3>3
  <2> QED BY <1>4, <2>3, <2>4 DEF LogoutEffect
<1>5. ASSUME NEW u \in Users, Move(u), MoveEffect(u)
      PROVE  r \in roles'[LoginOf[s]] \/ Lost(s, r)'
  <2>1. UNCHANGED <<login, logout>> /\ guildRoles' = guildRoles
    BY <1>5 DEF Move, MoveEffect
  <2>2. CASE interrupted' = interrupted /\ roles' = roles
    BY <1>1, <2>1, <2>2 DEF Lost
  <2>3. CASE /\ interrupted' = interrupted \cup {x \in Logins : LoginOf[x] = u /\ login[x].at # "idle"}
             /\ DropRoles(u)
    <3>1. Lost(s, r) => Lost(s, r)'
      BY <2>1, <2>3 DEF Lost
    <3>2. login[s].at # "idle"
      BY <2>1 DEF Due, G1, G2, G3
    <3>3. LoginOf[s] = u => Lost(s, r)'
      BY <2>3, <3>2 DEF Lost
    <3> QED BY <1>1, <1>2, <2>1, <2>3, <3>1, <3>3 DEF DropRoles
  <2> QED BY <1>5, <2>2, <2>3 DEF Move, Joins, Leaves, discordVars
<1>6. ASSUME NEW g \in Roles, AdminDeletesRole(g)
      PROVE  r \in roles'[LoginOf[s]] \/ Lost(s, r)'
  <2>1. /\ UNCHANGED <<login, logout, interrupted>>
        /\ guildRoles' = guildRoles \ {g} /\ roles' = [u \in Users |-> roles[u] \ {g}]
    BY <1>6 DEF AdminDeletesRole, DeleteRole
  <2> QED BY <1>1, <1>2, <2>1 DEF Lost
<1>7. CASE HandlersStay
  BY <1>1, <1>7 DEF HandlersStay, Lost
<1> QED BY <1>3, <1>4, <1>5, <1>6, <1>7, EveryHandlerStep

LEMMA LinkedRowsStep ==
  Types /\ LinkedRows /\ [Next]_vars => LinkedRows'
<1> SUFFICES ASSUME Types, LinkedRows, [Next]_vars, NEW v \in verified'
             PROVE  \E s \in Logins : login'[s].at = "linked" /\ NewRow(s)' = v
  BY DEF LinkedRows
<1>1. ASSUME v \in verified, login' = login
      PROVE  \E s \in Logins : login'[s].at = "linked" /\ NewRow(s)' = v
  BY <1>1 DEF LinkedRows, NewRow
<1>2. ASSUME NEW x \in Logins, LoginEffect(x)
      PROVE  \E s \in Logins : login'[s].at = "linked" /\ NewRow(s)' = v
  <2>1. CASE v \in verified
    <3>1. PICK s \in Logins : login[s].at = "linked" /\ NewRow(s) = v
      BY <2>1 DEF LinkedRows
    <3>2. login'[s] = login[s]
      BY <1>2, <3>1 DEF LoginEffect, LoginQuiet, LoginGrants, LoginInserts
    <3> QED BY <3>1, <3>2 DEF NewRow
  <2>2. CASE v \notin verified
    <3>1. LoginInserts(x) /\ v = NewRow(x)
      BY <1>2, <2>2 DEF LoginEffect, LoginQuiet, LoginGrants, LoginInserts
    <3>2. login[x] \in LoginState
      BY TypesParts DEF LoginTypeOK
    <3>3. login'[x].at = "linked" /\ NewRow(x)' = NewRow(x)
      BY <3>1, <3>2 DEF LoginInserts, NewRow, LoginState
    <3> QED BY <3>1, <3>3
  <2> QED BY <2>1, <2>2
<1>3. ASSUME NEW o \in Logouts, LogoutStep(o), LogoutEffect(o)
      PROVE  v \in verified /\ login' = login
  BY <1>3 DEF LogoutStep, LogoutEffect, LogoutQuiet, LogoutDeletes, LogoutTakes
<1>4. ASSUME NEW u \in Users, Move(u), MoveEffect(u)
      PROVE  v \in verified /\ login' = login
  BY <1>4 DEF Move, MoveEffect, dbVars
<1>5. ASSUME NEW g \in Roles, AdminDeletesRole(g)
      PROVE  v \in verified /\ login' = login
  BY <1>5 DEF AdminDeletesRole, dbVars
<1>6. CASE HandlersStay
  BY <1>1, <1>6 DEF HandlersStay
<1> QED BY <1>1, <1>2, <1>3, <1>4, <1>5, <1>6, EveryHandlerStep

\* Whoever is verified came through a login of his own, and holds its three
\* roles unless an admin deleted one, a logout took it, or he left the guild
\* after the press.
THEOREM RolesAreKept == Spec => []VerifiedMembersKeepRoles
<1> DEFINE Inv == MembersAreOurs /\ GrantedRolesHeld /\ LinkedRows
<1>1. Init => Inv
  BY DEF Init, LoginInit, MembersAreOurs, GrantedRolesHeld, LinkedRows, Due, G1, G2, G3
<1>2. Types /\ Inv /\ [Next]_vars => Inv'
  BY MembersAreOursStep, GrantedRolesStep, LinkedRowsStep
<1>3. Types /\ Inv => VerifiedMembersKeepRoles
  <2> SUFFICES ASSUME Types, Inv, NEW v \in verified
               PROVE  \E s \in Logins :
                        /\ login[s].at = "linked" /\ NewRow(s) = v
                        /\ [id |-> v.member, user |-> LoginOf[s]] \in members
                        /\ \A r \in {login[s].role, login[s].levelRole, login[s].classRole} :
                             r \in roles[LoginOf[s]] \/ Lost(s, r)
    BY DEF VerifiedMembersKeepRoles
  <2>1. PICK s \in Logins : login[s].at = "linked" /\ NewRow(s) = v
    BY DEF LinkedRows
  <2>2. PICK m \in members : m.id = v.member
    BY TypesParts DEF TablesOK, KeysOK, IdsOf
  <2>3. v.member = login[s].member
    BY <2>1 DEF NewRow
  <2>4. m \in Member
    BY TypesParts DEF TablesOK, DatabaseTypeOK
  <2>5. m.id # NoId
    BY <2>4, IdAssumption DEF Member, NoId
  <2>6. m.user = LoginOf[s]
    BY <2>2, <2>3, <2>5 DEF MembersAreOurs, IsOf
  <2>7. m = [id |-> v.member, user |-> LoginOf[s]]
    BY <2>2, <2>4, <2>6 DEF Member
  <2>8. Due(login[s]) = {login[s].role, login[s].levelRole, login[s].classRole}
    BY <2>1 DEF Due, G1, G2, G3
  <2> QED BY <2>1, <2>7, <2>8 DEF GrantedRolesHeld
<1> QED BY <1>1, <1>2, <1>3, TypesInit, TypesStep, PTL DEF Spec

-----------------------------------------------------------------------------
(* The configuration of the guild. *)

\* add_role answered that the role is gone; nobody makes it again.
RolesGone == \A s \in Logins : login[s].at = "forgetVerified" => login[s].role \notin guildRoles

LEMMA LoginForgets ==
  ASSUME LoginTypeOK, NEW s \in Logins, LoginNext(s), login'[s].at = "forgetVerified"
  PROVE  /\ login'[s].role = login[s].role
         /\ login[s].at = "forgetVerified" \/ login[s].role \notin guildRoles
<1>1. login \in [Logins -> LoginState]
  BY DEF LoginTypeOK
<1> USE <1>1 DEF LoginState, At, Goto, Ends, Fails
<1>2. CASE Start(s) \/ ReadGuild(s) \/ ReadLevels(s) \/ ReadClasses(s)
  BY <1>2 DEF Start, ReadGuild, ReadLevels, ReadClasses
<1>3. CASE Authenticate(s) \/ NotAuthenticated(s)
  BY <1>3 DEF Authenticate, NotAuthenticated
<1>4. CASE AuthenticateElsewhere(s)
  <2>1. PICK mail \in Domains :
          login' = [login EXCEPT ![s].at = "foreignDomain", ![s].mail = mail]
    BY <1>4 DEF AuthenticateElsewhere
  <2> QED BY <2>1
<1>5. CASE ChooseLevel(s) \/ ChooseClass(s) \/ MenuTimesOut(s)
  BY <1>5 DEF ChooseLevel, ChooseClass, MenuTimesOut
<1>6. CASE LookUpMember(s) \/ ReadLevelRole(s) \/ ReadClassRole(s)
  BY <1>6 DEF LookUpMember, ReadLevelRole, ReadClassRole
<1>7. CASE GrantVerified(s) \/ GrantLevel(s) \/ GrantClass(s)
  BY <1>7 DEF GrantVerified, GrantLevel, GrantClass, Grant
<1>8. CASE ForgetVerified(s) \/ ForgetLevel(s) \/ ForgetClass(s) \/ InsertRow(s) \/ Fail(s)
  BY <1>8 DEF ForgetVerified, ForgetLevel, ForgetClass, InsertRow, Fail
<1> QED BY <1>2, <1>3, <1>4, <1>5, <1>6, <1>7, <1>8 DEF LoginNext, LoginBot, LoginUser

LEMMA RolesGoneStep ==
  Types /\ RolesGone /\ [Next]_vars => RolesGone'
<1> SUFFICES ASSUME Types, RolesGone, [Next]_vars, NEW s \in Logins,
                    login'[s].at = "forgetVerified"
             PROVE  login'[s].role \notin guildRoles'
  BY DEF RolesGone
<1>1. login[s].at = "forgetVerified" => login[s].role \notin guildRoles
  BY DEF RolesGone
<1>2. guildRoles' \subseteq guildRoles
  BY EveryHandlerStep DEF LoginEffect, LoginQuiet, LoginGrants, LoginInserts, LogoutEffect,
     LogoutQuiet, LogoutDeletes, LogoutTakes, MoveEffect, AdminDeletesRole, DeleteRole, HandlersStay
<1>3. CASE login'[s] = login[s]
  BY <1>1, <1>2, <1>3
<1>4. CASE login'[s] # login[s]
  <2>1. LoginNext(s)
    BY <1>4, EveryHandlerStep
       DEF LoginEffect, LoginStep, LogoutStep, Move, AdminDeletesRole, HandlersStay
  <2> QED BY <1>1, <1>2, <2>1, LoginForgets, TypesParts
<1> QED BY <1>3, <1>4

\* Four kinds of steps change what the guild has configured.
LEMMA EveryChange ==
  ASSUME Types, [Next]_vars
  PROVE  \/ guild' = guild
         \/ \E s \in Logins : /\ LoginStep(s) /\ ForgetVerified(s)
                              /\ guild' = [guild EXCEPT !.role = NoRole]
         \/ \E t \in Tasks : TaskEffect(t) /\ GuildGoes(t)
         \/ \E r \in guildRoles : guild' = [guild EXCEPT !.role = r]
         \/ \E d \in Domains : guild' = [guild EXCEPT !.domain = d]
<1>1. ASSUME NEW s \in Logins, LoginStep(s)
      PROVE  \/ guild' = guild
             \/ ForgetVerified(s) /\ guild' = [guild EXCEPT !.role = NoRole]
  BY <1>1, LoginOnConfiguration DEF LoginStep
<1>2. ASSUME NEW o \in Logouts, LogoutStep(o) PROVE guild' = guild
  BY <1>2, LogoutOnConfiguration DEF LogoutStep
<1>3. ASSUME NEW t \in Tasks, TaskStep(t)
      PROVE  TaskEffect(t) /\ (guild' = guild \/ GuildGoes(t))
  <2>1. TaskEffect(t)
    BY <1>3, TaskHasEffect DEF TaskStep, Types, TypeOK
  <2>2. GuildAppears => guild' = guild
    BY TypesParts DEF GuildAppears, GuildOK
  <2> QED BY <2>1, <2>2 DEF TaskEffect, TaskStarts, TaskFailsHere, TaskLooks, TaskOnGuild,
             TaskAdds, TaskRemoves, TaskFetches, TaskLoads, GuildStays
<1>4. ASSUME NEW u \in Users, Move(u) PROVE guild' = guild
  BY <1>4, MoveHasEffect DEF Move, Types, TypeOK, MoveEffect, dbVars
<1>5. ASSUME NEW p \in Posts, PostStep(p) PROVE guild' = guild
  BY <1>5 DEF PostStep, PostNext, ReadRole, ReadGroups, SendMessage, StoreMessage, PostFail, dbVars
<1>6. ASSUME SetupStep
      PROVE  \/ guild' = guild
             \/ \E r \in guildRoles : guild' = [guild EXCEPT !.role = r]
             \/ \E d \in Domains : guild' = [guild EXCEPT !.domain = d]
  BY <1>6 DEF SetupStep, SetupRole, SetupPattern, SetVerifiedRole, SetMailDomain, dbVars
<1>7. ASSUME NEW r \in Roles, AdminDeletesRole(r) PROVE guild' = guild
  BY <1>7 DEF AdminDeletesRole, dbVars
<1>8. ASSUME UNCHANGED vars PROVE guild' = guild
  BY <1>8 DEF vars, dbVars
<1> QED BY <1>1, <1>2, <1>3, <1>4, <1>5, <1>6, <1>7, <1>8 DEF Next

ConfigurationStep ==
  \A key \in {"role", "domain"} :
    guild[key] \notin {guild'[key], NoGuild[key]} =>
      \/ guild'[key] # NoGuild[key]
      \/ key = "role" /\ \E s \in Logins : /\ At(s, "forgetVerified")
                                           /\ login[s].role \notin guildRoles
      \/ ~guildKnown' /\ members = {} /\ levels = {}

\* Only a setup command, a login that found the role gone, or the deletion of
\* an empty guild takes away what the guild has configured.
THEOREM ConfigurationStays == Spec => ConfigurationIsKept
<1>1. Init => RolesGone
  BY DEF Init, LoginInit, RolesGone
<1>2. Types /\ RolesGone /\ [Next]_vars => ConfigurationStep
  <2> SUFFICES ASSUME Types, RolesGone, [Next]_vars PROVE ConfigurationStep
    OBVIOUS
  <2>1. guild \in Guild /\ guildRoles \subseteq Roles
    BY TypesParts DEF TablesOK, DatabaseTypeOK, DiscordTypeOK
  <2> USE <2>1 DEF ConfigurationStep, NoGuild, Guild
  <2>2. CASE guild' = guild
    BY <2>2
  <2>3. ASSUME NEW s \in Logins, ForgetVerified(s), guild' = [guild EXCEPT !.role = NoRole]
        PROVE  ConfigurationStep
    <3>1. At(s, "forgetVerified") /\ login[s].role \notin guildRoles
      BY <2>3 DEF ForgetVerified, RolesGone, At
    <3>2. guild'["domain"] = guild["domain"]
      BY <2>3
    <3> QED BY <3>1, <3>2
  <2>4. ASSUME NEW t \in Tasks, GuildGoes(t) PROVE ConfigurationStep
    BY <2>4 DEF GuildGoes, CanDeleteGuild
  <2>5. ASSUME NEW r \in guildRoles, guild' = [guild EXCEPT !.role = r] PROVE ConfigurationStep
    <3>1. guild'["domain"] = guild["domain"] /\ guild'["role"] = r /\ r # NoRole
      BY <2>5, NullAssumption
    <3> QED BY <3>1
  <2>6. ASSUME NEW d \in Domains, guild' = [guild EXCEPT !.domain = d] PROVE ConfigurationStep
    <3>1. guild'["role"] = guild["role"] /\ guild'["domain"] = d /\ d # NoDomain
      BY <2>6, NullAssumption
    <3> QED BY <3>1
  <2> QED BY <2>2, <2>3, <2>4, <2>5, <2>6, EveryChange
<1>3. Types /\ RolesGone /\ [Next]_vars => [ConfigurationStep]_vars
  BY <1>2
<1> QED BY <1>1, <1>3, TypesInit, TypesStep, RolesGoneStep, PTL
        DEF Spec, ConfigurationIsKept, ConfigurationStep

-----------------------------------------------------------------------------
(* The offer of a login. *)

Forgotten == \E s \in Logins : login[s].at = "forgetVerified" /\ login[s].failed

GuildDeleted == \E t \in Tasks : task[t].at = "guildDeleted"

\* A login message is in a channel, or about to be posted.
Offered == posted # {} \/ \E p \in Posts : post[p].at = "post" /\ post[p].kind = "login"

OfferNeedsRole == Offered => guild.role # NoRole \/ Forgotten \/ GuildDeleted

PressNeedsMessage == \A s \in Logins : login[s].at # "idle" => posted # {}

LEMMA LoginRuns ==
  ASSUME NEW s \in Logins, LoginNext(s)
  PROVE  ~login[s].failed
BY DEF LoginNext, LoginBot, LoginUser, Fail, Running, At, Start, ReadGuild, ReadLevels,
   Authenticate, AuthenticateElsewhere, NotAuthenticated, ChooseLevel, ReadClasses,
   ChooseClass, MenuTimesOut, LookUpMember, ReadLevelRole, ReadClassRole, GrantVerified,
   ForgetVerified, GrantLevel, ForgetLevel, GrantClass, ForgetClass, InsertRow

LEMMA NotSetUpIsRead ==
  ASSUME LoginTypeOK, NEW s \in Logins, LoginNext(s), At(s, "components"),
         login'[s].at = "notSetUp"
  PROVE  guild.role = NoRole \/ guild.domain = NoDomain
<1>1. login \in [Logins -> LoginState]
  BY DEF LoginTypeOK
<1>2. ReadGuild(s) \/ Fail(s)
  BY DEF LoginNext, LoginBot, LoginUser, At, Start, ReadLevels, Authenticate,
     AuthenticateElsewhere, NotAuthenticated, ChooseLevel, ReadClasses, ChooseClass,
     MenuTimesOut, LookUpMember, ReadLevelRole, ReadClassRole, GrantVerified, ForgetVerified,
     GrantLevel, ForgetLevel, GrantClass, ForgetClass, InsertRow
<1>3. ~Fail(s)
  BY <1>1 DEF Fail, Fails, At, LoginState
<1> QED BY <1>1, <1>2, <1>3 DEF ReadGuild, LoginState

\* Messages are only posted, and by those who found the role.
LEMMA OffersGrow ==
  ASSUME Types, [Next]_vars
  PROVE  /\ posted \subseteq posted'
         /\ Offered' => Offered \/ (guild.role # NoRole /\ guild' = guild)
<1>1. CASE UNCHANGED setupVars
  BY <1>1 DEF setupVars, Offered
<1>2. ASSUME NEW p \in Posts, PostStep(p)
      PROVE  /\ posted \subseteq posted'
             /\ Offered' => Offered \/ (guild.role # NoRole /\ guild' = guild)
  <2>1. post \in [Posts -> PostState]
    BY TypesParts DEF SetupTypeOK
  <2> USE <2>1 DEF PostState, PostAt, Becomes, PostFails, Offered
  <2>2. CASE ReadRole(p)
    <3>1. posted' = posted /\ guild' = guild
      BY <2>2 DEF ReadRole, dbVars
    <3>2. CASE guildKnown /\ guild.role # NoRole
      BY <3>1, <3>2
    <3>3. CASE guildKnown /\ guild.role = NoRole
      <4>1. post' = [post EXCEPT ![p].at = "noRole", ![p].kind = "login"]
        BY <2>2, <3>3 DEF ReadRole
      <4> QED BY <3>1, <4>1
    <3>4. CASE ~guildKnown
      BY <2>2, <3>1, <3>4 DEF ReadRole
    <3> QED BY <3>2, <3>3, <3>4
  <2>3. CASE ReadGroups(p)
    <3>1. PICK step : post' = [post EXCEPT ![p].at = step, ![p].kind = "groups"]
      BY <2>3 DEF ReadGroups
    <3> QED BY <2>3, <3>1 DEF ReadGroups
  <2>4. CASE SendMessage(p)
    <3>1. post' = [post EXCEPT ![p].at = "store", ![p].kind = post[p].kind]
      BY <2>4 DEF SendMessage
    <3>2. posted' = IF post[p].kind = "login" THEN posted \cup {p} ELSE posted
      BY <2>4 DEF SendMessage
    <3> QED BY <2>4, <3>1, <3>2 DEF SendMessage
  <2>5. CASE StoreMessage(p)
    BY <2>5 DEF StoreMessage
  <2>6. CASE PostFail(p)
    BY <2>6 DEF PostFail
  <2> QED BY <1>2, <2>2, <2>3, <2>4, <2>5, <2>6 DEF PostStep, PostNext
<1> QED BY <1>1, <1>2 DEF Next, LoginStep, LogoutStep, Move, TaskStep, SetupStep, SetupRole,
           SetupPattern, AdminDeletesRole, vars

\* A login that forgot the role has ended, and so has a task that deleted the
\* guild.
LEMMA EndsStay ==
  ASSUME Types, [Next]_vars
  PROVE  /\ Forgotten => Forgotten'
         /\ GuildDeleted => GuildDeleted'
<1>1. ASSUME NEW s \in Logins, login[s].failed PROVE login'[s] = login[s]
  BY <1>1, EveryHandlerStep, LoginRuns
     DEF LoginStep, LoginEffect, LogoutStep, Move, AdminDeletesRole, HandlersStay
<1>2. ASSUME NEW x \in Tasks, task[x].at = "guildDeleted" PROVE task'[x].at = "guildDeleted"
  <2>1. task[x] \in TaskState
    BY TypesParts
  <2>2. ASSUME NEW t \in Tasks, TaskEffect(t) PROVE task'[x].at = "guildDeleted"
    <3>1. CASE x = t
      BY <1>2, <2>1, <2>2, <3>1 DEF TaskEffect, TaskStarts, TaskFailsHere, TaskLooks, TaskOnGuild,
         TaskAdds, TaskRemoves, TaskFetches, TaskLoads, TaskState
    <3>2. CASE x # t
      BY <1>2, <2>2, <3>2, LateGrows
    <3> QED BY <3>1, <3>2
  <2>3. ASSUME NEW u \in Users, MoveEffect(u) PROVE task'[x].at = "guildDeleted"
    BY <1>2, <2>3, MoveKeepsTasks DEF Loading
  <2> QED BY <1>2, <2>2, <2>3, EveryStep DEF MembershipStays
<1> QED BY <1>1, <1>2 DEF Forgotten, GuildDeleted

LEMMA OfferStep ==
  Types /\ OfferNeedsRole /\ [Next]_vars => OfferNeedsRole'
<1> SUFFICES ASSUME Types, OfferNeedsRole, [Next]_vars, Offered'
             PROVE  guild'.role # NoRole \/ Forgotten' \/ GuildDeleted'
  BY DEF OfferNeedsRole
<1>1. guild.role # NoRole \/ Forgotten' \/ GuildDeleted'
  BY OffersGrow, EndsStay DEF OfferNeedsRole
<1>2. guild \in Guild /\ guildRoles \subseteq Roles /\ login \in [Logins -> LoginState]
  BY TypesParts DEF TablesOK, DatabaseTypeOK, DiscordTypeOK, LoginTypeOK
<1>3. ASSUME NEW s \in Logins, ForgetVerified(s) PROVE Forgotten'
  BY <1>2, <1>3 DEF ForgetVerified, Fails, At, Forgotten, LoginState
<1>4. ASSUME NEW t \in Tasks, GuildGoes(t) PROVE GuildDeleted'
  BY <1>4 DEF GuildGoes, GuildDeleted
<1>5. ASSUME NEW r \in guildRoles, guild' = [guild EXCEPT !.role = r] PROVE guild'.role # NoRole
  BY <1>2, <1>5, NullAssumption DEF Guild
<1>6. ASSUME NEW d \in Domains, guild' = [guild EXCEPT !.domain = d]
      PROVE  guild'.role = guild.role
  BY <1>2, <1>6 DEF Guild
<1> QED BY <1>1, <1>3, <1>4, <1>5, <1>6, EveryChange

LEMMA PressStep ==
  Types /\ PressNeedsMessage /\ [Next]_vars => PressNeedsMessage'
<1> SUFFICES ASSUME Types, PressNeedsMessage, [Next]_vars, NEW s \in Logins,
                    login'[s].at # "idle"
             PROVE  posted' # {}
  BY DEF PressNeedsMessage
<1>1. SUFFICES posted # {}
  BY OffersGrow
<1>2. CASE login[s].at # "idle"
  BY <1>2 DEF PressNeedsMessage
<1>3. CASE login[s].at = "idle"
  <2>1. LoginStep(s)
    BY <1>3, EveryHandlerStep
       DEF LoginEffect, LoginStep, LogoutStep, Move, AdminDeletesRole, HandlersStay
  <2> QED BY <1>3, <2>1, LoginRuns DEF LoginStep, At
<1> QED BY <1>2, <1>3

OfferStepOK ==
  \A s \in Logins : At(s, "components") /\ login'[s].at = "notSetUp" =>
    \/ guild.role # NoRole /\ guild.domain = NoDomain
    \/ \E other \in Logins : login[other].at = "forgetVerified" /\ login[other].failed
    \/ \E t \in Tasks : task[t].at = "guildDeleted"

\* Who presses a login button finds the verified role configured, unless a
\* login forgot it or the guild was deleted: the message was posted by a
\* command that had asked for the role.
THEOREM OffersAreSetUp == Spec => OfferedLoginsAreSetUp
<1>1. Init => OfferNeedsRole /\ PressNeedsMessage
  <2> SUFFICES ASSUME Init PROVE OfferNeedsRole /\ PressNeedsMessage
    OBVIOUS
  <2>1. PressNeedsMessage
    BY DEF Init, LoginInit, PressNeedsMessage
  <2>2. PICK old \in {Posts, {}} : SetupInit(old) /\ (old = Posts => guild = InitialGuild \/ old = {})
    BY DEF Init
  <2>3. Offered => Posts # {} /\ guild = InitialGuild
    BY <2>2 DEF Offered, SetupInit
  <2> QED BY <2>1, <2>3, BotAssumption DEF OfferNeedsRole
<1>2. Types /\ OfferNeedsRole /\ PressNeedsMessage /\ [Next]_vars => OfferStepOK
  <2> SUFFICES ASSUME Types, OfferNeedsRole, PressNeedsMessage, [Next]_vars, NEW s \in Logins,
                      At(s, "components"), login'[s].at = "notSetUp"
               PROVE  \/ guild.role # NoRole /\ guild.domain = NoDomain
                      \/ Forgotten \/ GuildDeleted
    BY DEF OfferStepOK, Forgotten, GuildDeleted
  <2>1. LoginNext(s)
    BY EveryHandlerStep
       DEF LoginEffect, LoginStep, LogoutStep, Move, AdminDeletesRole, HandlersStay, At
  <2>2. guild.role = NoRole \/ guild.domain = NoDomain
    BY <2>1, NotSetUpIsRead, TypesParts
  <2>3. Offered
    BY DEF PressNeedsMessage, At, Offered
  <2> QED BY <2>2, <2>3 DEF OfferNeedsRole
<1>3. Types /\ OfferNeedsRole /\ PressNeedsMessage /\ [Next]_vars => [OfferStepOK]_vars
  BY <1>2
<1> QED BY <1>1, <1>3, TypesInit, TypesStep, OfferStep, PressStep, PTL
        DEF Spec, OfferedLoginsAreSetUp, OfferStepOK

-----------------------------------------------------------------------------
(* The refinement of AccountLink. *)

\* What MembersAreOurs is for logins.
LogoutsAreOurs ==
  \A o \in Logouts : logout[o].member # NoId =>
    /\ logout[o].member =< lastMember
    /\ IsOf(logout[o].member, LogoutOf[o])

LEMMA LogoutsAreOursStep ==
  Types /\ LogoutsAreOurs /\ [Next]_vars => LogoutsAreOurs'
<1> SUFFICES ASSUME Types, LogoutsAreOurs, [Next]_vars, NEW o \in Logouts,
                    logout'[o].member # NoId
             PROVE  /\ logout'[o].member =< lastMember'
                    /\ \A m \in members' : m.id = logout'[o].member => m.user = LogoutOf[o]
  BY DEF LogoutsAreOurs, IsOf
<1>1. logout[o].member \in Ids \cup {NoId}
  BY TypesParts DEF LogoutTypeOK, LogoutState
<1>2. CASE logout'[o].member = logout[o].member
  BY <1>1, <1>2, RowsStayTheirs DEF LogoutsAreOurs, IsOf
<1>3. CASE logout'[o].member # logout[o].member
  <2>1. LogoutStep(o) /\ LogoutEffect(o)
    <3>1. \A x \in Logouts : LogoutStep(x) /\ LogoutEffect(x) /\ x # o => logout'[o] = logout[o]
      BY DEF LogoutEffect
    <3> QED BY <1>3, <3>1, EveryHandlerStep
            DEF LoginStep, Move, AdminDeletesRole, HandlersStay
  <2>2. logout'[o].member \in MemberIds(LogoutOf[o])
    BY <1>3, <2>1, LogoutReadsMember, TypesParts DEF LogoutStep
  <2>3. members' = members /\ lastMember' = lastMember
    BY <2>1 DEF LogoutEffect, LogoutStep, membershipVars
  <2> QED BY <2>2, <2>3, RowsJustRead DEF IsOf
<1> QED BY <1>2, <1>3

LEMMA OursAreTheirs ==
  ASSUME Types, MembersAreOurs, LogoutsAreOurs
  PROVE  /\ \A s \in Logins : IsOf(login[s].member, LoginOf[s])
         /\ \A o \in Logouts : IsOf(logout[o].member, LogoutOf[o])
<1>1. \A m \in members : m.id # NoId
  BY TypesParts, IdAssumption DEF TablesOK, DatabaseTypeOK, Member, NoId
<1> QED BY <1>1 DEF MembersAreOurs, LogoutsAreOurs, IsOf

\* A row that comes is of a member nobody has linked, since its id is new; one
\* that goes is of a member without a link, since the key refuses the others.
LEMMA MembershipImplements ==
  ASSUME Types, [Next]_vars, NEW t \in Tasks, TaskStep(t), TaskEffect(t)
  PROVE  UNCHANGED Account!vars
<1>1. UNCHANGED <<login, verified, roles>>
  BY DEF TaskStep, TaskEffect, dbVars, discordVars
<1>2. ASSUME NEW u, AddMember(u) PROVE Links' = Links
  <2>1. members' = members \cup {[id |-> lastMember + 1, user |-> u]}
    BY <1>2 DEF AddMember, InsertMember
  <2>2. \A v \in verified : v.member =< lastMember /\ v.member \in Nat
    BY TypesParts, IdAssumption DEF TablesOK, DatabaseTypeOK, KeysOK, IdsOf, Member
  <2>3. \A v \in verified : v.member # lastMember + 1
    BY <2>2, TypesParts
  <2>4. \A v \in verified, u2 \in Users :
          [id |-> v.member, user |-> u2] \in members' <=> [id |-> v.member, user |-> u2] \in members
    BY <2>1, <2>3
  <2> QED BY <1>1, <2>4, LinksAreRead DEF LinksIn
<1>3. ASSUME NEW u, CanDeleteMember(u), DeleteMember(u) PROVE Links' = Links
  <2>1. \A v \in verified, m \in members : m.id = v.member => m.user # u
    BY <1>3 DEF CanDeleteMember, VerifiedIds, MemberIds
  <2> QED BY <1>1, <1>3, <2>1, LinksAreRead DEF DeleteMember, LinksIn
<1>4. ASSUME members' = members PROVE Links' = Links
  BY <1>1, <1>4, LinksAreRead
<1>5. Links' = Links
  BY <1>2, <1>3, <1>4 DEF TaskEffect, TaskStarts, TaskFailsHere, TaskLooks, TaskOnGuild,
     TaskAdds, TaskRemoves, TaskFetches, TaskLoads, NoRowChanges
<1> QED BY <1>1, <1>5 DEF Proofs, Proven, Account!vars

LEMMA MoveImplements ==
  ASSUME Types, NEW u \in Users, Move(u)
  PROVE  Account!TakeAll(u) \/ UNCHANGED Account!vars
<1>1. UNCHANGED <<login, members, verified>>
  BY DEF Move, Joins, Leaves, dbVars
<1>2. roles' = roles \/ roles' = [roles EXCEPT ![u] = {}]
  BY DEF Move, Joins, Leaves, DropRoles, discordVars
<1>3. Proofs' = Proofs /\ Links' = Links
  BY <1>1, LinksAreRead DEF Proofs, Proven
<1> QED BY <1>2, <1>3 DEF Account!TakeAll, Account!vars

\* A user and his school account are linked as AccountLink has it also while
\* members come and go, their rows are added and removed late or twice, and the
\* guild is configured anew.
THEOREM RefinesAccountLink == Spec => ImplementsAccountLink
<1> DEFINE Inv == MembersAreOurs /\ LogoutsAreOurs
<1>1. Init => Inv
  BY DEF Init, LoginInit, LogoutInit, MembersAreOurs, LogoutsAreOurs
<1>2. Types /\ Inv /\ [Next]_vars => Inv'
  BY MembersAreOursStep, LogoutsAreOursStep
<1>3. Init => Account!Init
  BY DEF Init, LoginInit, Links, Proofs, Proven, Account!Init
<1>4. Types /\ Types' /\ Inv /\ [Next]_vars => [Account!Next]_(Account!vars)
  <2> SUFFICES ASSUME Types, Types', Inv, [Next]_vars PROVE [Account!Next]_(Account!vars)
    OBVIOUS
  <2>0. /\ TablesOK /\ TablesOK' /\ DiscordTypeOK /\ LoginTypeOK /\ LogoutTypeOK
        /\ GoogleFirst
    BY TypesParts, TypesPartsNext DEF Types, TypeOK
  <2>1. ASSUME NEW s \in Logins, LoginStep(s) PROVE [Account!Next]_(Account!vars)
    BY <2>0, <2>1, LoginImplements, OursAreTheirs DEF LoginStep, Account!Next
  <2>2. ASSUME NEW o \in Logouts, LogoutStep(o) PROVE [Account!Next]_(Account!vars)
    BY <2>0, <2>2, LogoutImplements, OursAreTheirs DEF LogoutStep, Account!Next
  <2>3. ASSUME NEW u \in Users, Move(u) PROVE [Account!Next]_(Account!vars)
    BY <2>3, MoveImplements DEF Account!Next
  <2>4. ASSUME NEW r \in Roles, AdminDeletesRole(r) PROVE [Account!Next]_(Account!vars)
    BY <2>4, RoleDeletionImplements DEF AdminDeletesRole, dbVars, Account!Next
  <2>5. CASE HandlersStay /\ members' = members
    BY <2>5, StayingImplements DEF HandlersStay
  <2>6. ASSUME NEW t \in Tasks, TaskStep(t), TaskEffect(t) PROVE [Account!Next]_(Account!vars)
    BY <2>6, MembershipImplements
  <2> QED BY <2>1, <2>2, <2>3, <2>4, <2>5, <2>6, EveryHandlerStep, EveryStep DEF MembershipStays
<1> QED BY <1>1, <1>2, <1>3, <1>4, TypesInit, TypesStep, PTL DEF Spec, ImplementsAccountLink, Account!Spec
=============================================================================
