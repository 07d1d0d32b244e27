------------------------------- MODULE OAuth -------------------------------
(***************************************************************************)
(* The hand-over of a Google token from the web server to a waiting login  *)
(* (src/src/auth.rs, src/src/server/handler.rs).                           *)
(*                                                                         *)
(* A login calls process_oauth2: it draws a random `state`, queues the     *)
(* sending half of a oneshot channel under it, replies to the user with    *)
(* the link, and polls the AuthProcess future that holds the receiving     *)
(* half.  The browser comes back on /oauth2 with a state and a code; the   *)
(* handler takes the sender out of the queue, exchanges the code and sends *)
(* the token.  Nothing of this survives a restart of the bot.              *)
(*                                                                         *)
(* A request stands for its random state, its channel and the login that   *)
(* made it; a callback stands for one GET /oauth2.                         *)
(***************************************************************************)
EXTENDS Naturals

CONSTANTS Requests, Callbacks,
          Timeout,       \* AUTHENTICATION_TIMEOUT, in ticks
          MaxTime,       \* bound on the clock
          MaxRestarts    \* bound on the restarts of the bot

ASSUME TimeAssumption == Timeout \in Nat /\ MaxTime \in Nat
ASSUME RestartsAssumption == MaxRestarts \in Nat

VARIABLES
  pending,    \* GoogleAuthentification::pending, the states queued
  channel,    \* channel[r]: the oneshot channel of r
  login,      \* login[r]: where the login that made r is
  deadline,   \* deadline[r]: AuthProcess::wait_until
  http,       \* http[c]: the stage of callback c, and the state in its URL
  now,        \* Instant::now()
  restarts    \* how often the bot was restarted

vars == <<pending, channel, login, deadline, http, now, restarts>>

\* "token" is a sent value, "closed" a channel whose sender was dropped.
Channels == {"none", "open", "token", "closed"}

\* "replying" sends the link; "lost" was killed by a restart.
Logins == {"new", "replying", "waiting",
           "token", "timeout", "error", "aborted", "lost"}

\* The last six are pages the browser ends up with.
Stages == {"new", "exchanging",
           "welcome", "notQueued", "failed", "receiverGone", "lost"}

TypeOK ==
  /\ pending \subseteq Requests
  /\ channel \in [Requests -> Channels]
  /\ login \in [Requests -> Logins]
  /\ deadline \in [Requests -> Nat]
  /\ http \in [Callbacks -> [stage : Stages, state : Requests]]
  /\ now \in Nat
  /\ restarts \in Nat

\* A browser may bring any state: a fresh one, an old one, the same one twice.
Init ==
  /\ pending = {}
  /\ channel = [r \in Requests |-> "none"]
  /\ login = [r \in Requests |-> "new"]
  /\ deadline = [r \in Requests |-> 0]
  /\ http \in [Callbacks -> [stage : {"new"}, state : Requests]]
  /\ now = 0
  /\ restarts = 0

\* The receiving half lives as long as the login's AuthProcess future.
ReceiverAlive(r) == login[r] \in {"replying", "waiting"}

ExchangingFor(c, r) == http[c].stage = "exchanging" /\ http[c].state = r

-----------------------------------------------------------------------------
(* The login's side. *)

ProcessOAuth2Unqueued(r) ==   \* faulty: the state is never queued
  /\ login[r] = "new"
  /\ login' = [login EXCEPT ![r] = "replying"]
  /\ channel' = [channel EXCEPT ![r] = "open"]
  /\ deadline' = [deadline EXCEPT ![r] = now + Timeout]
  /\ UNCHANGED <<pending, http, now, restarts>>

ProcessOAuth2(r) ==
  /\ login[r] = "new"
  /\ login' = [login EXCEPT ![r] = "replying"]
  /\ channel' = [channel EXCEPT ![r] = "open"]
  /\ pending' = pending \cup {r}
  /\ deadline' = [deadline EXCEPT ![r] = now + Timeout]
  /\ UNCHANGED <<http, now, restarts>>

\* The reply with the link fails: `?` drops the future, but not the entry in
\* the queue.
ReplyFails(r) ==
  /\ login[r] = "replying"
  /\ login' = [login EXCEPT ![r] = "aborted"]
  /\ UNCHANGED <<pending, channel, deadline, http, now, restarts>>

\* AuthProcess::poll looks at the clock before it looks at the channel.
Received == [none |-> "waiting", open |-> "waiting",
             token |-> "token", closed |-> "error"]

PollResultRaw(r) ==   \* faulty: a pending channel ends the poll
  IF now > deadline[r] THEN "timeout" ELSE channel[r]

PollResult(r) == IF now > deadline[r] THEN "timeout" ELSE Received[channel[r]]

\* The first poll, once the link was sent.
AwaitToken(r) ==
  /\ login[r] = "replying"
  /\ login' = [login EXCEPT ![r] = PollResult(r)]
  /\ UNCHANGED <<pending, channel, deadline, http, now, restarts>>

\* A later poll.  The channel wakes the task when it gets a value or closes;
\* the runtime is free to poll the future at other moments too.
PollAgain(r) ==
  /\ login[r] = "waiting"
  /\ PollResult(r) # "waiting"
  /\ login' = [login EXCEPT ![r] = PollResult(r)]
  /\ UNCHANGED <<pending, channel, deadline, http, now, restarts>>

\* A poll the channel asked for: the waker is registered with it alone.
Wake(r) == channel[r] # "open" /\ PollAgain(r)

-----------------------------------------------------------------------------
(* The web server's side: handle_oauth2. *)

HandleOauth2Peek(c) ==   \* faulty: get instead of remove
  LET s == http[c].state IN
  /\ http[c].stage = "new"
  /\ http' = [http EXCEPT ![c].stage = IF s \in pending THEN "exchanging" ELSE "notQueued"]
  /\ UNCHANGED <<pending, channel, login, deadline, now, restarts>>

HandleOauth2(c) ==
  LET s == http[c].state IN
  /\ http[c].stage = "new"
  /\ \/ /\ s \in pending
        /\ pending' = pending \ {s}
        /\ http' = [http EXCEPT ![c].stage = "exchanging"]
     \/ /\ s \notin pending
        /\ http' = [http EXCEPT ![c].stage = "notQueued"]
        /\ UNCHANGED pending
  /\ UNCHANGED <<channel, login, deadline, now, restarts>>

ExchangeFailsSilently(c) ==   \* faulty: the sender outlives the handler
  /\ http[c].stage = "exchanging"
  /\ http' = [http EXCEPT ![c].stage = "failed"]
  /\ UNCHANGED <<pending, channel, login, deadline, now, restarts>>

\* No HTTP client, or Google refuses the code: `?` drops the sender.
ExchangeFails(c) ==
  /\ http[c].stage = "exchanging"
  /\ http' = [http EXCEPT ![c].stage = "failed"]
  /\ channel' = [channel EXCEPT ![http[c].state] = "closed"]
  /\ UNCHANGED <<pending, login, deadline, now, restarts>>

ExchangeSucceedsAnyway(c) ==   \* faulty: the result of send is ignored
  LET s == http[c].state IN
  /\ http[c].stage = "exchanging"
  /\ channel' = [channel EXCEPT ![s] = IF ReceiverAlive(s) THEN "token" ELSE "closed"]
  /\ http' = [http EXCEPT ![c].stage = "welcome"]
  /\ UNCHANGED <<pending, login, deadline, now, restarts>>

ExchangeSucceeds(c) ==
  LET s == http[c].state IN
  /\ http[c].stage = "exchanging"
  /\ \/ /\ ReceiverAlive(s)
        /\ channel' = [channel EXCEPT ![s] = "token"]
        /\ http' = [http EXCEPT ![c].stage = "welcome"]
     \/ /\ ~ReceiverAlive(s)
        /\ channel' = [channel EXCEPT ![s] = "closed"]
        /\ http' = [http EXCEPT ![c].stage = "receiverGone"]
  /\ UNCHANGED <<pending, login, deadline, now, restarts>>

-----------------------------------------------------------------------------
(* The process and its clock. *)

\* The queue is in memory (Arc::default()), as are the tasks at both ends.
Restart ==
  /\ restarts < MaxRestarts
  /\ restarts' = restarts + 1
  /\ pending' = {}
  /\ channel' = [r \in Requests |-> IF channel[r] = "open" THEN "closed" ELSE channel[r]]
  /\ login' = [r \in Requests |-> IF ReceiverAlive(r) THEN "lost" ELSE login[r]]
  /\ http' = [c \in Callbacks |-> IF http[c].stage = "exchanging"
                                  THEN [http[c] EXCEPT !.stage = "lost"] ELSE http[c]]
  /\ UNCHANGED <<deadline, now>>

Tick == /\ now < MaxTime
        /\ now' = now + 1
        /\ UNCHANGED <<pending, channel, login, deadline, http, restarts>>

Next == \/ \E r \in Requests : \/ ProcessOAuth2(r) \/ ReplyFails(r)
                               \/ AwaitToken(r) \/ PollAgain(r)
        \/ \E c \in Callbacks : \/ HandleOauth2(c)
                                \/ ExchangeFails(c) \/ ExchangeSucceeds(c)
        \/ Restart
        \/ Tick

Spec == Init /\ [][Next]_vars

\* tokio runs a task that was woken, Discord and Google answer, time passes.
\* Nobody promises that a user follows the link, nor that a login whose
\* channel is silent is polled again.
Fairness == /\ \A r \in Requests : WF_vars(ReplyFails(r) \/ AwaitToken(r)) /\ WF_vars(Wake(r))
            /\ \A c \in Callbacks : WF_vars(ExchangeFails(c) \/ ExchangeSucceeds(c))
            /\ WF_vars(Tick)

FairSpec == Spec /\ Fairness

-----------------------------------------------------------------------------
(* Correctness. *)

\* The sender of an open channel is in exactly one place: the queue, or the
\* callback that took it out.  A login that polls an open channel can
\* therefore still be answered, and by one callback only.
SenderHeldOnce ==
  \A r \in Requests : channel[r] = "open" =>
    /\ r \in pending <=> \A c \in Callbacks : ~ExchangingFor(c, r)
    /\ \A c, d \in Callbacks : ExchangingFor(c, r) /\ ExchangingFor(d, r) => c = d

Page(r, stage) == \E c \in Callbacks : http[c].stage = stage /\ http[c].state = r

\* Login and browser are told the same: a login has a token only if a page of
\* its own state welcomed the user, it errs only if the exchange of its own
\* state failed (a forged, repeated or stale callback disturbs nobody), and no
\* page welcomes a user whose token found no receiver.
AnswerMatchesPage ==
  \A r \in Requests :
    /\ login[r] = "token" => Page(r, "welcome")
    /\ login[r] = "error" => Page(r, "failed")
    /\ Page(r, "welcome") => channel[r] = "token"

\* Once its state was redeemed, a login does not wait for ever: whatever
\* becomes of the exchange, the channel wakes it (rx of AuthProcess).
RedeemedLoginEnds ==
  \A r \in Requests : (login[r] = "waiting" /\ r \notin pending) ~> ~ReceiverAlive(r)

\* The queue, channels and callbacks implement the one-shot token request.
Outcome(l) == CASE l = "new"                   -> "unasked"
                [] l \in {"replying", "waiting"} -> "asked"
                [] l \in {"aborted", "lost"}     -> "gone"
                [] l \in {"token", "timeout", "error"} -> l

Request == INSTANCE TokenRequest WITH outcome <- [r \in Requests |-> Outcome(login[r])],
                                      redeemable <- pending

ImplementsTokenRequest == Request!Spec

-----------------------------------------------------------------------------
(* Claims of the repository that do not hold. *)

\* auth.rs, on wait_until: "Abort the future if we passed the delay".  But
\* nothing polls the future when the delay passes.
AbandonedLoginAborts ==
  \A r \in Requests : (login[r] = "waiting" /\ now > deadline[r]) ~> ~ReceiverAlive(r)

\* auth.html.tera: "You are logged in!".  But nothing polls a login that waits
\* when its deadline passes, and if its user follows the link only then, the
\* poll that his token asks for looks at the clock first and returns Timeout.
WelcomedLoginNeverTimesOut ==
  \A r \in Requests :
    [](login[r] = "waiting" /\ now > deadline[r] /\ r \in pending
         => [](Page(r, "welcome") => login[r] # "timeout"))
=============================================================================
