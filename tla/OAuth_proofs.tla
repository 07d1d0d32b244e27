---------------------------- MODULE OAuth_proofs ----------------------------
(***************************************************************************)
(* What module OAuth promises for any number of logins and callbacks, any  *)
(* timeout and any number of restarts.  Every proof follows the actions of *)
(* OAuth: the login's side, the web server's side, the process.            *)
(***************************************************************************)
EXTENDS OAuth, TLAPS

\* A channel exists from the moment its login asked.
ChannelOfLogin == \A r \in Requests : login[r] = "new" <=> channel[r] = "none"

\* What is queued or being exchanged is the sender of an open channel.
HeldIsOpen == /\ \A r \in pending : channel[r] = "open"
              /\ \A c \in Callbacks : http[c].stage = "exchanging" =>
                   channel[http[c].state] = "open"

\* A settled channel that a login still listens to was settled by a callback
\* of its own state.
SettledByCallback ==
  \A r \in Requests : /\ channel[r] = "token" => Page(r, "welcome")
                      /\ channel[r] = "closed" /\ ReceiverAlive(r) => Page(r, "failed")

IInv == /\ TypeOK
        /\ ChannelOfLogin
        /\ HeldIsOpen
        /\ SenderHeldOnce
        /\ SettledByCallback
        /\ AnswerMatchesPage

USE DEF Channels, Logins, Stages

-----------------------------------------------------------------------------
LEMMA PollResultType ==
  ASSUME NEW r \in Requests, channel[r] \in Channels
  PROVE  /\ PollResult(r) \in {"timeout", "waiting", "token", "error"}
         /\ PollResult(r) = "token" => channel[r] = "token"
         /\ PollResult(r) = "error" => channel[r] = "closed"
BY DEF PollResult, Received

\* Type correctness: every variable keeps its range (all of OAuth).
THEOREM TypeCorrect == Spec => []TypeOK
<1>1. Init => TypeOK
  BY DEF Init, TypeOK
<1>2. TypeOK /\ [Next]_vars => TypeOK'
  <2> SUFFICES ASSUME TypeOK, [Next]_vars PROVE TypeOK'
    OBVIOUS
  <2> USE DEF TypeOK
  <2>1. ASSUME NEW r \in Requests, ProcessOAuth2(r) PROVE TypeOK'
    BY <2>1, TimeAssumption DEF ProcessOAuth2
  <2>2. ASSUME NEW r \in Requests, ReplyFails(r) PROVE TypeOK'
    BY <2>2 DEF ReplyFails
  <2>3. ASSUME NEW r \in Requests, AwaitToken(r) \/ PollAgain(r) PROVE TypeOK'
    BY <2>3, PollResultType DEF AwaitToken, PollAgain
  <2>4. ASSUME NEW c \in Callbacks, HandleOauth2(c) PROVE TypeOK'
    BY <2>4 DEF HandleOauth2
  <2>5. ASSUME NEW c \in Callbacks, ExchangeFails(c) \/ ExchangeSucceeds(c) PROVE TypeOK'
    BY <2>5 DEF ExchangeFails, ExchangeSucceeds
  <2>6. CASE Restart
    BY <2>6 DEF Restart
  <2>7. CASE Tick
    BY <2>7 DEF Tick
  <2>8. CASE UNCHANGED vars
    BY <2>8 DEF vars
  <2> QED BY <2>1, <2>2, <2>3, <2>4, <2>5, <2>6, <2>7, <2>8 DEF Next
<1> QED BY <1>1, <1>2, PTL DEF Spec

-----------------------------------------------------------------------------
\* The inductive step, one lemma for each side of the protocol.

LEMMA LoginSidePreserves ==
  ASSUME IInv, TypeOK', NEW r \in Requests,
         ProcessOAuth2(r) \/ ReplyFails(r) \/ AwaitToken(r) \/ PollAgain(r)
  PROVE  IInv'
<1> USE DEF IInv, TypeOK
<1>1. CASE ProcessOAuth2(r)
  <2> USE <1>1 DEF ProcessOAuth2
  <2>1. channel[r] = "none" /\ r \notin pending
    BY DEF ChannelOfLogin, HeldIsOpen
  <2>2. ChannelOfLogin' /\ HeldIsOpen'
    BY <2>1 DEF ChannelOfLogin, HeldIsOpen
  <2>3. SenderHeldOnce'
    BY <2>1 DEF SenderHeldOnce, ExchangingFor, HeldIsOpen
  <2>4. SettledByCallback' /\ AnswerMatchesPage'
    BY <2>1 DEF SettledByCallback, AnswerMatchesPage, Page, ReceiverAlive
  <2> QED BY <2>2, <2>3, <2>4
<1>2. CASE ReplyFails(r)
  BY <1>2 DEF ReplyFails, ChannelOfLogin, HeldIsOpen, SenderHeldOnce, ExchangingFor,
              SettledByCallback, AnswerMatchesPage, Page, ReceiverAlive
<1>3. CASE AwaitToken(r) \/ PollAgain(r)
  <2> USE <1>3 DEF AwaitToken, PollAgain
  <2>1. /\ ReceiverAlive(r)
        /\ login' = [login EXCEPT ![r] = PollResult(r)]
        /\ UNCHANGED <<pending, channel, http>>
    BY DEF ReceiverAlive
  <2>2. ChannelOfLogin' /\ HeldIsOpen' /\ SenderHeldOnce'
    BY <2>1, PollResultType DEF ReceiverAlive, ChannelOfLogin, HeldIsOpen, SenderHeldOnce, ExchangingFor
  <2>3. SettledByCallback'
    BY <2>1 DEF SettledByCallback, Page, ReceiverAlive
  <2>4. AnswerMatchesPage'
    BY <2>1, PollResultType DEF SettledByCallback, AnswerMatchesPage, Page
  <2> QED BY <2>2, <2>3, <2>4
<1> QED BY <1>1, <1>2, <1>3

LEMMA ServerSidePreserves ==
  ASSUME IInv, TypeOK', NEW c \in Callbacks,
         HandleOauth2(c) \/ ExchangeFails(c) \/ ExchangeSucceeds(c)
  PROVE  IInv'
<1> USE DEF IInv, TypeOK
<1> DEFINE s == http[c].state
<1>0. s \in Requests
  OBVIOUS
\* A page once shown stays, for a page is not a stage a handler leaves.
<1>1. ASSUME NEW r \in Requests, NEW p \in {"welcome", "failed"}, Page(r, p)
      PROVE  Page(r, p)'
  BY <1>1 DEF Page, HandleOauth2, ExchangeFails, ExchangeSucceeds
<1>2. CASE HandleOauth2(c)
  <2> USE <1>2 DEF HandleOauth2
  <2>1. ChannelOfLogin' /\ HeldIsOpen'
    BY <1>0 DEF ChannelOfLogin, HeldIsOpen
  <2>2. SenderHeldOnce'
    BY <1>0 DEF SenderHeldOnce, ExchangingFor, HeldIsOpen
  <2>3. \A r \in Requests : Page(r, "welcome")' => Page(r, "welcome")
    BY DEF Page
  <2>4. SettledByCallback' /\ AnswerMatchesPage'
    BY <1>1, <2>3 DEF SettledByCallback, AnswerMatchesPage, ReceiverAlive
  <2> QED BY <2>1, <2>2, <2>4
<1>3. CASE ExchangeFails(c) \/ ExchangeSucceeds(c)
  <2> USE <1>3 DEF ExchangeFails, ExchangeSucceeds
  <2>1. /\ channel[s] = "open" /\ channel'[s] # "open" /\ channel'[s] # "none"
        /\ \A r \in Requests \ {s} : channel'[r] = channel[r]
        /\ UNCHANGED <<pending, login>>
    BY <1>0 DEF HeldIsOpen
  <2>2. s \notin pending /\ \A d \in Callbacks \ {c} : ~ExchangingFor(d, s)
    BY <1>0, <2>1 DEF SenderHeldOnce, ExchangingFor
  <2>3. \A d \in Callbacks, r \in Requests :
           ExchangingFor(d, r)' <=> ExchangingFor(d, r) /\ d # c
    BY DEF ExchangingFor
  <2>4. ChannelOfLogin' /\ HeldIsOpen'
    BY <1>0, <2>1, <2>2, <2>3 DEF ChannelOfLogin, HeldIsOpen, ExchangingFor
  <2>5. SenderHeldOnce'
    <3> SUFFICES ASSUME NEW r \in Requests, channel'[r] = "open"
                 PROVE  /\ r \in pending <=> \A d \in Callbacks : ~ExchangingFor(d, r)'
                        /\ \A d, e \in Callbacks :
                             ExchangingFor(d, r)' /\ ExchangingFor(e, r)' => d = e
      BY <2>1 DEF SenderHeldOnce
    <3>1. r # s /\ channel[r] = "open" /\ ~ExchangingFor(c, r)
      BY <2>1 DEF ExchangingFor
    <3> QED BY <2>3, <3>1 DEF SenderHeldOnce
  <2>6. SettledByCallback'
    <3>1. ASSUME NEW r \in Requests, channel'[r] = "token" PROVE Page(r, "welcome")'
      BY <1>0, <1>1, <2>1, <3>1 DEF SettledByCallback, Page
    <3>2. ASSUME NEW r \in Requests, channel'[r] = "closed", ReceiverAlive(r)
          PROVE Page(r, "failed")'
      BY <1>0, <1>1, <2>1, <3>2 DEF SettledByCallback, Page
    <3> QED BY <2>1, <3>1, <3>2 DEF SettledByCallback, ReceiverAlive
  <2>7. AnswerMatchesPage'
    <3>1. ASSUME NEW r \in Requests, Page(r, "welcome")' PROVE channel'[r] = "token"
      BY <1>0, <2>1, <3>1 DEF AnswerMatchesPage, Page
    <3> QED BY <1>1, <2>1, <3>1 DEF AnswerMatchesPage
  <2> QED BY <2>4, <2>5, <2>6, <2>7
<1> QED BY <1>2, <1>3

LEMMA ProcessPreserves ==
  ASSUME IInv, TypeOK', Restart \/ Tick \/ UNCHANGED vars
  PROVE  IInv'
<1> USE DEF IInv, TypeOK
<1>1. CASE Restart
  <2> USE <1>1 DEF Restart
  <2>1. \A r \in Requests : channel'[r] # "open" /\ ~ReceiverAlive(r)'
    BY DEF ReceiverAlive
  <2>2. \A c \in Callbacks :
          /\ http'[c].stage # "exchanging"
          /\ http'[c].state = http[c].state
          /\ \A p \in {"welcome", "failed"} : http'[c].stage = p <=> http[c].stage = p
    OBVIOUS
  <2>3. \A r \in Requests, p \in {"welcome", "failed"} : Page(r, p)' <=> Page(r, p)
    BY <2>2 DEF Page
  <2>4. ChannelOfLogin' /\ HeldIsOpen' /\ SenderHeldOnce'
    BY <2>1, <2>2 DEF ChannelOfLogin, HeldIsOpen, SenderHeldOnce, ReceiverAlive
  <2>5. SettledByCallback' /\ AnswerMatchesPage'
    BY <2>1, <2>3 DEF SettledByCallback, AnswerMatchesPage
  <2> QED BY <2>4, <2>5
<1>2. CASE Tick \/ UNCHANGED vars
  BY <1>2 DEF Tick, vars, ChannelOfLogin, HeldIsOpen, SenderHeldOnce, ExchangingFor,
              SettledByCallback, AnswerMatchesPage, Page, ReceiverAlive
<1> QED BY <1>1, <1>2

\* The inductive invariant of the hand-over.
LEMMA Inductive == Spec => []IInv
<1>1. Init => IInv
  BY DEF Init, IInv, TypeOK, ChannelOfLogin, HeldIsOpen, SenderHeldOnce, ExchangingFor,
         SettledByCallback, AnswerMatchesPage, Page, ReceiverAlive
<1>2. IInv /\ TypeOK' /\ [Next]_vars => IInv'
  BY LoginSidePreserves, ServerSidePreserves, ProcessPreserves DEF Next
<1> QED BY <1>1, <1>2, TypeCorrect, PTL DEF Spec

\* The sender of an open channel is in exactly one place, the queue or one
\* callback (pending.insert, pending.remove, tx.send or its drop).
THEOREM SenderIsHeldOnce == Spec => []SenderHeldOnce
BY Inductive, PTL DEF IInv

\* A login's result and the page its user saw agree (tx.send, poll).
THEOREM AnswersMatchPages == Spec => []AnswerMatchesPage
BY Inductive, PTL DEF IInv

-----------------------------------------------------------------------------
\* Every step of the protocol is a step of the one-shot token request or
\* leaves it unchanged: process_oauth2 asks, handle_oauth2 redeems, a poll
\* answers or leaves, a restart is a crash.
THEOREM RefinesTokenRequest == Spec => ImplementsTokenRequest
<1>1. Init => Request!Init
  BY DEF Init, Request!Init, Outcome
<1>2. IInv /\ [Next]_vars => [Request!Next]_(Request!vars)
  <2> SUFFICES ASSUME IInv, [Next]_vars PROVE [Request!Next]_(Request!vars)
    OBVIOUS
  <2> USE DEF IInv, TypeOK, Request!Next, Request!vars, Outcome
  <2>1. ASSUME NEW r \in Requests, ProcessOAuth2(r) PROVE Request!Ask(r)
    BY <2>1 DEF ProcessOAuth2, Request!Ask
  <2>2. ASSUME NEW r \in Requests, ReplyFails(r) PROVE Request!Leave(r)
    BY <2>2 DEF ReplyFails, Request!Leave
  <2>3. ASSUME NEW r \in Requests, AwaitToken(r) \/ PollAgain(r)
        PROVE  Request!Answer(r) \/ Request!Leave(r) \/ UNCHANGED Request!vars
    <3>1. /\ login[r] \in {"replying", "waiting"}
          /\ login' = [login EXCEPT ![r] = PollResult(r)]
          /\ UNCHANGED pending
      BY <2>3 DEF AwaitToken, PollAgain
    <3>2. CASE PollResult(r) = "timeout"
      BY <3>1, <3>2 DEF Request!Leave
    <3>3. CASE PollResult(r) \in {"token", "error"}
      <4>1. r \notin pending
        BY <3>3, PollResultType DEF HeldIsOpen
      <4> QED BY <3>1, <3>3, <4>1 DEF Request!Answer
    <3>4. CASE PollResult(r) = "waiting"
      BY <3>1, <3>4
    <3> QED BY <3>2, <3>3, <3>4, PollResultType
  <2>4. ASSUME NEW c \in Callbacks, HandleOauth2(c)
        PROVE  \/ \E r \in Requests : Request!Redeem(r)
               \/ UNCHANGED Request!vars
    BY <2>4 DEF HandleOauth2, Request!Redeem
  <2>5. ASSUME NEW c \in Callbacks, ExchangeFails(c) \/ ExchangeSucceeds(c)
        PROVE  UNCHANGED Request!vars
    BY <2>5 DEF ExchangeFails, ExchangeSucceeds
  <2>6. CASE Restart
    BY <2>6 DEF Restart, Request!Crash, ReceiverAlive
  <2>7. CASE Tick \/ UNCHANGED vars
    BY <2>7 DEF Tick, vars
  <2> QED BY <2>1, <2>2, <2>3, <2>4, <2>5, <2>6, <2>7 DEF Next
<1> QED BY <1>1, <1>2, Inductive, PTL DEF Spec, ImplementsTokenRequest, Request!Spec
=============================================================================
