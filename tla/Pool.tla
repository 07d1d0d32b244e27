--------------------------------- MODULE Pool --------------------------------
(***************************************************************************)
(* The connection pool that all handlers share (Data::database), and how   *)
(* each handler uses it.  Pool::get of deadpool waits on a fair semaphore, *)
(* without a timeout since none is configured; a connection goes back when *)
(* its guard is dropped, at the end of the handler if it is a variable, of *)
(* the statement if it is a temporary.                                     *)
(***************************************************************************)
EXTENDS Naturals, SequencesExt

CONSTANTS Handlers,    \* tasks; each runs one handler after the other
          PoolSize

ASSUME PoolAssumption == PoolSize \in Nat \ {0}

VARIABLES
  rest,      \* rest[h]: the steps handler h still has to take
  held,      \* held[h]: how many connections h holds
  permits,   \* the semaphore
  queue      \* the handlers that wait for a permit

vars == <<rest, held, permits, queue>>

-----------------------------------------------------------------------------
(* The handlers, as what they do from their first connection to their last.*)
(* "work" is any number of queries, calls of Discord, and menus, which     *)
(* wait for at most a minute; "google" waits for the user to come back,    *)
(* and nothing else ends it.                                               *)

\* A variable: groups, classes add and remove, the messages of the setup, force,
\* refresh, additions and creations.  Or one temporary: the setup of role and
\* pattern, levels and groups add, removals.
OneConnection == <<"get", "work", "put">>

\* Reading, which no other module has: one statement, or two.
Information == OneConnection

List == OneConnection

Autocomplete == OneConnection

Login == <<"get", "work", "google", "work", "put">>

\* levels and groups remove: delete_role between two temporaries.
RemoveRow == OneConnection \o <<"work">> \o OneConnection

LogoutInAVariable ==   \* faulty: the first connection is kept in a variable
  <<"get", "work", "work">> \o OneConnection \o OneConnection \o <<"put">>

\* Three temporaries; the user is asked after the first.
Logout == OneConnection \o <<"work">> \o OneConnection \o OneConnection

Scripts == {OneConnection, Information, List, Autocomplete, Login, RemoveRow, Logout}

-----------------------------------------------------------------------------
Init == /\ rest = [h \in Handlers |-> <<>>]
        /\ held = [h \in Handlers |-> 0]
        /\ permits = PoolSize
        /\ queue = <<>>

Waiting(h) == h \in ToSet(queue)

At(h, step) == rest[h] # <<>> /\ Head(rest[h]) = step /\ ~Waiting(h)

AtGoogle(h) == At(h, "google")

Start(h) == /\ rest[h] = <<>>
            /\ \E script \in Scripts : rest' = [rest EXCEPT ![h] = script]
            /\ UNCHANGED <<held, permits, queue>>

EnqueueFirst(h) == queue' = <<h>> \o queue   \* faulty: the last comes first

Enqueue(h) == queue' = Append(queue, h)

Get(h) ==
  /\ At(h, "get")
  /\ IF permits > 0
     THEN /\ permits' = permits - 1
          /\ held' = [held EXCEPT ![h] = @ + 1]
          /\ rest' = [rest EXCEPT ![h] = Tail(@)]
          /\ UNCHANGED queue
     ELSE Enqueue(h) /\ UNCHANGED <<rest, held, permits>>

Work(h) == /\ At(h, "work")
           /\ rest' = [rest EXCEPT ![h] = Tail(@)]
           /\ UNCHANGED <<held, permits, queue>>

ComeBack(h) == /\ AtGoogle(h)
               /\ rest' = [rest EXCEPT ![h] = Tail(@)]
               /\ UNCHANGED <<held, permits, queue>>

\* h goes on with steps, and n connections go back: to those who wait longest.
Release(h, n, steps) ==
  LET served == Min({n, Len(queue)})
      next   == ToSet(SubSeq(queue, 1, served)) IN
  /\ rest' = [g \in Handlers |-> IF g = h THEN steps
                               ELSE IF g \in next THEN Tail(rest[g]) ELSE rest[g]]
  /\ held' = [g \in Handlers |-> IF g = h THEN held[g] - n
                               ELSE IF g \in next THEN held[g] + 1 ELSE held[g]]
  /\ permits' = permits + n - served
  /\ queue' = SubSeq(queue, served + 1, Len(queue))

Put(h) == At(h, "put") /\ Release(h, 1, Tail(rest[h]))

LeaveHolding(h) ==   \* faulty: the guard is not dropped
  /\ At(h, "work")
  /\ rest' = [rest EXCEPT ![h] = <<>>]
  /\ UNCHANGED <<held, permits, queue>>

\* A query or a call fails (an autocompletion panics then), or the handler
\* returns early: its guard is dropped.
Leave(h) == At(h, "work") /\ Release(h, held[h], <<>>)

-----------------------------------------------------------------------------
Proceed(h) == Get(h) \/ Work(h) \/ Put(h)

Next == \E h \in Handlers : Start(h) \/ Proceed(h) \/ ComeBack(h) \/ Leave(h)

\* Queries and calls answer and menus time out; users may never come back.
Spec == Init /\ [][Next]_vars /\ \A h \in Handlers : WF_vars(Proceed(h))

-----------------------------------------------------------------------------
(* Correctness. *)

\* No connection is lost or made, however handlers end, and none lies idle
\* while somebody waits for one.
TypeOK ==
  /\ rest \in [Handlers -> Seq({"get", "work", "google", "put"})]
  /\ held \in [Handlers -> 0 .. 1]
  /\ queue \in Seq(Handlers) /\ IsInjective(queue)
  /\ permits = PoolSize - Cardinality({h \in Handlers : held[h] = 1})
  /\ queue # <<>> => permits = 0
  /\ \A h \in Handlers : /\ Waiting(h) => rest[h] # <<>> /\ Head(rest[h]) = "get"
                         /\ rest[h] = <<>> => held[h] = 0

\* Nobody who waits for a connection holds one, on which others may wait: no
\* handler takes a second while its first is in a variable.
WaitersHoldNothing == \A h \in Handlers : Waiting(h) => held[h] = 0

\* The handlers never wait for each other: whoever waits for a connection is
\* served, unless there is a moment at which all are held by logins whose users
\* are with Google (login.rs:36, :96).
OnlyLoginsBlock ==
  \A h \in Handlers :
    Waiting(h) ~> \/ ~Waiting(h)
                  \/ \A g \in Handlers : held[g] > 0 => AtGoogle(g)

\* If users come back, everybody is served, however many handlers come after.
WaitersAreServed ==
  (\A h \in Handlers : []<>~AtGoogle(h))
     => \A h \in Handlers : Waiting(h) ~> ~Waiting(h)
=============================================================================
