# A verification development for discord-smp-link

discord-smp-link is a Discord bot that links the members of a school's Discord
guild to their Google accounts of the school. A member presses the login
button, proves a mail address of the guild's domain with Google, chooses his
level and class, and gets three roles and a row in the database. Admins
configure the levels, classes and groups, and the roles that go with them.

This directory holds TLA+ modules for the parts of the bot whose correctness
depends on the order of things: the hand-over of a Google token between the web
server and a waiting login, the handlers that link and unlink accounts, the
commands that change a guild's configuration, the events and commands that keep
track of who is in the guild, and the connection pool they all share. TLC
checks them on small instances; TLAPS proves every one of their safety
properties for any number of users, handlers, rows, roles and connections. What
must eventually happen is checked by TLC alone.

Paths below are relative to the repository; `tlc -config X.cfg M` and
`tlapm M_proofs.tla`, run in this directory, repeat every check.

## 1. Inventory

| Part | Source | State | Operations | Model |
|---|---|---|---|---|
| OAuth hand-over | `src/auth.rs`, `src/server/handler.rs` | `pending`: random state -> sending half of a oneshot channel; one `AuthProcess` future with a deadline per login | `process_oauth2`, `AuthProcess::poll`, GET `/oauth2` | `OAuth`, `TokenRequest` |
| Login button | `src/events/login.rs` | the locals of one task per press | read the configuration, authenticate, two select menus, three role grants, one insert | `Login` |
| Logout button | `src/events/logout.rs` | the locals of one task per press | look up, confirm, delete, take a role | `Logout` |
| Groups menu | `src/events/groups.rs` | the locals of one task per choice | look up, insert or delete | `GroupMenu` |
| Level, class and group commands | `src/commands/{levels,classes,groups}.rs` | the locals of one task per command | add, remove (list only reads) | `Catalog` |
| Setup commands | `src/commands/setup/` | the locals of one task per command; the messages in the channels | role, pattern, two messages | `Setup`; `setup_role` also in `Configuration` |
| Forced logout | `src/commands/helpers/force.rs` | none | delete a row | `Accounts` |
| Gateway events, refresh | `src/events/mod.rs`, `src/commands/helpers/refresh.rs` | the locals of one task per event or command | members and guilds come and go; load one member, load all | `Membership` |
| Database | `src/database/`, `migrations/` | seven tables, their keys | the statements of `query.rs` and of the handlers | `Database` |
| Discord guild | external | roles, who holds them, who is there | grant, take, create, delete, join, leave | `Discord`, `Membership` |
| Connection pool | `src/states.rs` | permits and waiters | get, drop, and where each handler does | `Pool` |
| Information | `src/commands/information.rs` | none | reads | `Pool`, as a user of a connection |
| Replies | `src/polyfill.rs` | a flag per interaction | `send`, `shout` | not modelled |
| Translations, web pages, registration, start-up, deployment | `src/translation.rs`, `src/server/mod.rs`, ... | none after start-up | | not modelled |

**How they interact.** serenity runs each gateway event and each interaction in
a tokio task of its own, and the web server is another task of the same process
(`src/main.rs`). Tasks share three things: the map of pending states (in
memory, gone after a restart), the database, and the roles on Discord. No lock
is held across an await, there are no transactions, and every statement commits
on its own; all foreign keys are `ON DELETE RESTRICT`. Every `?` may end a
handler after any prefix of its effects, and nothing undoes that prefix. So
each handler is a sequence of atomic steps, and any other task may run
between two of them.

**What is hard.**
- The login looks up its user minutes before it writes his row; logins,
  logouts and forced logouts of the same user may run in between.
- Roles and rows are two stores that change one after the other, in handlers
  that may stop between the two. Which roles without a row, or rows without a
  role, may then be found?
- A token can arrive as its deadline passes, find no receiver, be requested
  twice, or belong to a run of the bot that has ended.
- Menus and confirmations time out or are answered late.
- Commands look up an id, wait for Discord, and then delete by that id.
- Counting and inserting are two statements.
- Members come and go while logins run. Each event has a task of its own, so the
  removal of a leave may run after the addition of the next join; events that
  fall into a lost connection never come.
- The refresh command pages through the members and inserts them one by one
  while they come and go.
- A pooled connection is held across calls of Discord, menus, and the visit to
  Google; no wait for one has a timeout.

**What makes the parts correct.**
- OAuth: a login is answered at most once and by a callback of its own state;
  page and login agree; a redeemed login does not wait for ever.
- Accounts: roles and rows are for proven users only; a row comes after its
  three roles; a role without a row has a cause; a member has one row.
- Configuration: the rows name roles that exist, the roles the bot made are
  named by rows, or else some command was refused or stopped half-way; a
  command removes the row that was named.
- Membership: whoever is in the guild has a row, and the reverse, or an event was
  lost, is under way, failed or was overtaken; a refresh misses nobody.
- Setup: a configuration stays until it is changed; nobody is offered a login
  that was never set up.
- The whole: a verified member keeps his three roles, or something took them.
- Pool: no connection is lost; handlers never wait for each other; who waits is
  served in turn, as long as users come back from Google.

## 2. Modules and how they correspond to the code

```
TokenRequest <--refined by-- OAuth
AccountLink <--refined by-- Accounts, Bot      (the mapping is in Linking)
Discord <- Database <- Login, Logout <- Linking
                    <- GroupMenu, Linking       <- Accounts      <- MCAccounts
                    <- Catalog                  <- Configuration <- MCConfiguration
                    <- Membership <- Setup
                       Setup, Linking           <- Bot           <- MCBot
Pool
Database_proofs <- Handlers_proofs <- Linking_proofs <- Accounts_proofs
                                                     <- Bot_proofs
                <- Configuration_proofs
OAuth_proofs, Pool_proofs
```

**OAuth.** A *request* stands for a random state, its channel and the login
that drew it (two draws of `CsrfToken::new_random` are taken to differ); a *callback* for one
GET of `/oauth2`, with any state in its URL: fresh, stale, repeated or never
queued. `pending` is the map of `GoogleAuthentification`, `channel[r]` the
oneshot channel, `login[r]` and `http[c]` are the places of the two tasks.
`HandleOauth2` removes the sender from the map; `ExchangeSucceeds` and
`ExchangeFails` are the two outcomes of the exchange of the code, each with
what becomes of the sender. `PollResult` looks at the clock before it looks at
the channel, as `poll` does. `Restart` empties the map, drops both halves of
every channel and kills the tasks.

**TokenRequest** is what a login may rely on: asked once, redeemable once,
answered only after it was redeemed, possibly never answered. `OAuth`
implements it under the mapping `Outcome`.

**Database** has one set of rows per table of one guild, the keys of the
migrations, and each statement as a pair: when it is refused, and what it
writes. A mail address is its domain, which is all that is compared; names are
compared only for equality; XP counters, emoji, personal names and the ids of
the two posted messages are left out. `Discord` is what the bot can see and do
to a guild's roles.

**Login, Logout, GroupMenu** have one record per press, whose `at` field is the
await the task has reached and whose other fields are its locals. One action is
what the task does up to its next await: one query, statement, Discord call or
choice of the user. A refused statement, an error and a `Fail` set `failed`:
the handler returned early and never moves again, and `at` says where. Groups
are the exception: `Look` takes the three queries of `groups.rs` as one step.
If a row that the first two found is gone by the third, the insert is refused
either way.

**Accounts** composes the three with the owner's forced logout and admins who
delete roles. **Catalog** has one record per command; `Add` (levels and
groups), `AddClass`, and `Remove` (all three tables) differ where the files do:
`classes_add` looks up the level and counts first. Ids come from counters that
never go back. **Configuration** composes commands with `setup_role` and roles
deleted by hand, in a guild that has rows and verified members already.

**AccountLink** is what the bot promises about a user and his school account,
without rows or handlers: he proves a mail, is given roles only then, has one
link at a time that never changes, and may lose roles at any time. **Linking**
says how it is seen in the program: a link is read off the rows of two tables
(`Links`), the proofs off the logins that came back from Google (`Proofs`).
`Accounts` and `Bot` both implement it under that mapping.

**Membership** has one record per event or refresh command. `Look` and
`InsertUser` are `GuildMemberAddition` and `debug_refresh_member`, which do the
same; `RemoveUser` is `GuildMemberRemoval`; `FetchPage` and `LoadMember` are the
two loops of `debug_refresh_members`, with `page.last` as `last_member_id` and
`page.short` as the test that ends it (a page is the set of its members'
positions in the order of user ids, by which Discord lists them); `LookForGuild`, `AddGuild` and
`DeleteGuild` are the guild's events. The `if let Ok(_) ... else` of the two
look-ups takes any error for "no such row", so their second disjunct has no
guard. A user's move and the start of the task for it are one step (`Joins`,
`Leaves`); nothing orders tasks once they are started.

**Setup** has one record per message command, since those read, post and store
in three steps; `SetupRole` and `SetupPattern` are one `UPDATE` each, which does
nothing in a guild without a row. `posted` holds the login messages anybody can
still press. **Bot** composes the handlers of logins and logouts with
Membership and Setup: a press needs a message and a user who sees it, a query
of the guild's row needs the row, and Discord refuses to change the roles of
somebody who is not there. The levels and classes of Bot do not change but by
the `RoleNotFound` branches; their commands are in Configuration.

**Pool** looks at nothing but connections. A handler is the sequence of its
steps from its first `get` to its last drop (`Scripts`), read off where each
file binds the connection to a variable and where it is a temporary of one
statement; `Leave` is every early return, error and panic, which drop what the
handler holds. `Release` hands the connection to the longest waiter, as the
fair semaphore below the pool does. The temporary of a `let ... else` is
dropped before its else block runs.

**Faulty variants.** A definition marked "faulty" in its comment is not part of
any specification. It is the definition below it as a plausible mistake would
have it, kept to show that the properties are able to fail.

## 3. What the runs check

Each passing run explores its whole state space.

| Run (cfg) | Instance | Shows |
|---|---|---|
| `OAuth.cfg` | 2 logins, 3 browsers, deadline after 1 tick of 2, 1 restart | `SenderHeldOnce`, `AnswerMatchesPage`, `RedeemedLoginEnds`, and that `TokenRequest` is implemented |
| `OAuthDeadline.cfg` | 1 login, no callback needed | **fails**: `AbandonedLoginAborts` |
| `OAuthPage.cfg` | 1 login, a callback after the deadline | **fails**: `WelcomedLoginNeverTimesOut` |
| `Accounts.cfg` | 1 member, 2 logins, 1 logout, forced logouts, 3 roles that may be deleted, 2 levels with a class each | the properties of linked accounts, that `AccountLink` is implemented, and `HandlersEnd`: logins past Google end, and logouts do if users come back from Google |
| `AccountsGroups.cfg` | 2 users (one without a row), 2 logins, 2 logouts, 2 choices of a group | `PressesAddUp`, `RolesWithoutRowAreExcused` |
| `AccountsConfirm.cfg` | 1 login, 1 logout | **fails**: `LogoutOnlyWhenConfirmed` |
| `AccountsMenus.cfg` | 1 login, 2 levels | **fails**: `ClassIsOfChosenLevel` |
| `Configuration.cfg` | 3 commands, 3 old roles, 2 new ones, 1 role deleted by hand, ids up to 4 | `ConfiguredRolesExist`, `MadeRolesAreConfigured`, `RemovesWhatWasNamed` |
| `ConfigurationLevels.cfg` | 2 commands, limit of 2 | **fails**: `LevelsWithinLimit` |
| `ConfigurationClasses.cfg` | 2 commands, limit of 2 | **fails**: `ClassesWithinLimit` |
| `Bot.cfg` | 1 user who comes and goes, 1 bot, pages of 1 member, 3 events or refresh commands, 2 logins, 1 logout, 1 message; at most 3 handlers started in all | `PresentUsersAreKnown`, `KnownUsersArePresent`, `RefreshLoadsEverybody`, `VerifiedMembersKeepRoles`, `ConfigurationIsKept`, `OfferedLoginsAreSetUp`, and that `AccountLink` is implemented |
| `Pool.cfg` | 4 handlers for ever, 2 connections | `WaitersHoldNothing`, `OnlyLoginsBlock`, `WaitersAreServed` |

**Why the bounds are enough.** The races are between two handlers of the same
user or the same row, and a third to disturb them: two logins and a logout; a
removal, an addition of the same name and a second removal. Three browsers are
one more than the logins, so that some state is brought twice or was never
queued. One tick before and one after the deadline tell all that the clock is
used for. Two levels with ids that overlap those of the classes are what the
menu mistake needs. Ids up to 4 let every one of three commands insert after
the first row. `Deletable` bounds which roles admins delete; in `Accounts.cfg`
it has one role of each of the three kinds a login grants. The symmetry used
in `Configuration.cfg` permutes commands and roles still to be made; no
definition distinguishes them, and the run has no liveness property.

In `Bot.cfg`, three started handlers (`MaxStarted`) are a removal, an addition
and a refresh of the same user, or a login with a leave and a removal in its
middle, or two logins and a logout. `Movers`, `VerifiedRoles` and `Deletable`
keep the number of steps that are no handler's small. With pages of one member
and a bot listed first, a refresh meets a page of bots only, a page that is full
and last, and an empty page. Every exception the properties of Bot name was
needed by some behaviour of this instance, but for one: that a login finds no
role because the guild was reported as deleted (`OfferedLoginsAreSetUp`) takes
the removal of the last member, the guild's deletion, its return and a press,
one handler more than are started. Tasks are symmetric, and so are the two
logins, which are of one user.

In `Pool.cfg`, two connections let one be held by a login that is away while the
other goes round, and four handlers let two wait for it, so that one can
overtake the other; with three nobody can. Handlers start anew for ever, so the
run is not about the first rounds only.

**The properties that fail** state what a comment, a constant's documentation
or a message to the user claims, and TLC's counterexample is what the code
does instead:
- `AuthProcess::poll` registers its waker with the channel alone, so that a
  login whose user never follows the link waits until the bot restarts,
  although the code says it aborts after the delay.
- Nor does anything poll a login that waits when its deadline passes. If its
  user follows the link only then, the page says "You are logged in!", and the
  poll that the token asks for looks at the clock first and says the opposite. This
  and the point above are temporal properties, refuted under `FairSpec`.
- When the confirmation of a logout times out, the handler tells the user so
  and then deletes his row: the `else` branch has no `return`.
- The collector of the class menu does not look at the custom id, so a second
  choice in the level menu is parsed as a class.
- `levels_add` and `groups_add` never look at the limits; the check sits in
  `levels_list` and `groups_list`.
- `classes_add` counts before it creates a role and inserts afterwards, so two
  of them pass the limit together.

**Fairness.** `OAuth`: a task that was woken is polled, Discord answers the
reply, Google answers the exchange, time passes. A waiting login is *not* taken
to be polled at any other moment, for nothing in the code asks for it.
`Accounts`: calls of Discord and queries are answered in the end, well or badly,
and collectors time out after their 60 seconds. Users are never made to act. A
login has its connection from its start (`login.rs:36`), but a logout takes one
for each of its two statements (`logout.rs:71`, `:76`), with no limit to the
wait: it is taken to get them only while no login's user is with Google
(`NobodyAway`). `HandlersEnd` therefore promises the end of a logout only if
users keep coming back, the premise of `WaitersAreServed` too; without it TLC
shows a logout that waits for ever beside a login that is away.
`Configuration` and `Bot` have only safety properties and no fairness. Deadlock
is not checked in these, for the bot rightly stops when every press, event or
command of the instance has been handled. `Pool`: queries and calls answer and
menus time out, so each handler proceeds, and a guard is dropped when its time
has come; that users come back from Google is *not* assumed. `WaitersAreServed`
states it as its premise, for without it the pool may be used up for ever; `OnlyLoginsBlock`
says that this is the only way. `Pool.cfg` checks deadlock.

**Assumptions the models share.** A Discord call or statement that reports
failure has had no effect; a role's id is never used again; AUTO_INCREMENT
counters do not go back; admins who rename, recreate or hand out roles by hand
are left out, since the bot neither sees it nor reacts to it. In `Bot`, events of
the gateway arrive in order but are handled in any; a lost one is never made up
for. The pool's semaphore is fair, as tokio documents.

**What the code does that a reader may not expect**, and the properties name as
exceptions rather than hide:
- A login that read the old verified role finds it deleted and sets the guild's
  role to NULL, although an admin has configured a new one meanwhile
  (`login.rs:364-371`; `ConfigurationIsKept`).
- A verified member who leaves keeps his row, for the key refuses to delete it.
  When he comes back he has no roles, and cannot log in again without logging
  out first (`KnownUsersArePresent`, `VerifiedMembersKeepRoles`).
- A user who leaves and comes back at once may end up without a row, when the
  removal runs last (`PresentUsersAreKnown`).
- A guild that is reported as deleted while no row refers to it loses its
  configuration, and its login message stays in the channel
  (`ConfigurationIsKept`, `OfferedLoginsAreSetUp`).
- A login holds its connection until its user is back (`login.rs:36`). As
  nothing wakes a login whose user stays away, such logins use up the pool.

## 4. What is proved

All theorems hold for any values of the constants that satisfy the named
assumptions: NULL is neither a role nor a domain (`NullAssumption`), a row's id
is a positive number (`IdAssumption`), the initial rows respect the keys
(`InitialAssumption`), every handler has a user (`LoginAssumption`,
`LogoutAssumption`, ...), `UserOrder` lists every user once and the guild's initial
rows are finitely many (`MembershipAssumption`), and a login message is in the
channel at the start only if the role was configured, which is when one can be
posted (`BotAssumption`). TLC evaluates them in the runs.

**Shared lemmas.** `Database_proofs` shows, statement by statement, that what a
statement does when its keys admit it keeps the column types and the keys; no
later proof opens a table. `Handlers_proofs` sums up what one step of a login
or a logout does, whatever runs beside it: a step of a login is quiet, grants
one role, or inserts its row (`LoginEffect`), and likewise for logouts
(`LogoutEffect`); it also states that whoever is past Google has proved his mail
(`GoogleFirst`), whose row a handler looks up, and what a login may do to the
configuration. Both systems in which the handlers run cite these lemmas, and
case analysis is on three effects rather than on twenty actions.

**OAuth_proofs**: `TypeCorrect`, `SenderIsHeldOnce`, `AnswersMatchPages`,
`RefinesTokenRequest`. The properties are not inductive by themselves. `IInv`
adds: the channel of a state that is queued, or being exchanged, is open
(`HeldIsOpen`); the channel follows the login (`ChannelOfLogin`); and a channel
that has a token, or closed under a login that still listens, was settled by a
callback of that state (`SettledByCallback`). The refinement takes `IInv` as its invariant:
a poll that ends with a token or an error maps to `Answer`, which needs that
the state is no longer redeemable.

**Accounts_proofs**: `TypeCorrect`, `OnlyProvenUsersHold`, `RowsComeAfterRoles`,
`RolesWithoutRowHaveCause`, `ForgetsOnlyWhatIsGone`, `LinkedOnce`,
`PressesBalance`, `RefinesAccountLink`. `IInv` adds to the types and `GoogleFirst`
that a handler's member id is that of its user, that a login has what it
granted unless somebody took it (`Granted`), and that every row and role has its
login (`RowsHaveLogin`, `RolesHaveLogin`).
- `ForgetsOnlyWhatIsGone` needs that what a login has read is still what is
  stored, or was forgotten by another login (`ReadingsHold`): in Accounts nobody
  configures anything anew, and a role that is gone stays gone.
- `LinkedOnce` and `PressesBalance` count. Both follow from one idea
  (`AtMostOneMore`): what was done, less what was undone, is at most one, and at
  most zero unless the row is there. A success is only added when there was
  no row, a deletion always removes it.

**Linking_proofs** maps each effect of a login or a logout to one action of
AccountLink, for `RefinesAccountLink` of both systems. The links are a join of two
tables, so two lemmas say what one insert and one delete do to the join
(`InsertingLinks`, `DeletingUnlinks`); both rest on the keys of `members`. What a
system has to show is that the row a handler has looked up is its user's, or
gone (`IsOf`). In Accounts no row of `members` ever goes.

**Bot_proofs**: `TypeCorrect`, `PresentAreKnown`, `KnownArePresent`,
`RefreshIsComplete`, `RolesAreKept`, `ConfigurationStays`, `OffersAreSetUp`,
`RefinesAccountLink`. Events and refresh commands are summed up as the handlers
are (`TaskEffect`, `MoveEffect`), on top of what a task at each of its steps looks
like (`Shapes`: an event is for one user, a loader has none but its page).
- `PresentAreKnown` and `KnownArePresent` are inductive with the types: their
  exceptions say all there is to say.
- `RefreshIsComplete` needs the invariant of the paging loop
  (`EverybodyAccounted`): everybody who has stayed since the first page is
  covered already, is on the page in hand, or is listed after its last member. That
  no page skips anybody (`PageFacts`: who is not on a full page comes after all who
  are) and that a short page is the last hold for any page size, with bots on the
  pages or not.
- `RolesAreKept` needs that the row a login has looked up is its user's if it is
  still there (`MembersAreOurs`). Here rows do go, so this rests on AUTO_INCREMENT:
  every id, in a table or in a handler, is at most `lastMember`. It also needs
  `GrantedRolesHeld` and `LinkedRows`.
- `ConfigurationStays` needs that a login at the branch that forgets the role has
  read a role that is gone (`RolesGone`).
- `OffersAreSetUp` needs that there is a message, or one about to be posted, only
  while the role is set, was forgotten, or the guild was deleted
  (`OfferNeedsRole`), and a press only when there is a message (`PressNeedsMessage`).
- `RefinesAccountLink` needs `MembersAreOurs` and the same of logouts. Steps of
  events leave the links alone: a row that comes has an id no link can name, and
  the key refuses to remove the row of a linked member.

**Configuration_proofs**: `TypeCorrect`, `ConfiguredRolesHaveCause`,
`MadeRolesHaveCause`, `RemovesOnlyWhatWasNamed`. What is to be remembered of a
command is stated on its record alone: its shape (`ShapeOf`); that the row it
will remove, while there is one of that id, still has the name and role it was
found with (`TargetOf`: ids are not reused, since all rows are at or below the
counter); and that its role is gone unless Discord refused (`DroppedOf`). A
step that only moves one command is then judged by the record it writes
(`QuietMoveKeeps`). `GoneHasCause` says that any role that is gone was deleted
by hand or by a command that is past `delete_role`. `RemovesWhatWasNamed` is a
property of steps and follows from `TargetOf`.

**Pool_proofs**: `TypeCorrect`, `WaitWithEmptyHands`. What remains of a script
determines what its handler holds (`Balanced`: each get is followed by its drop,
before the next get), so permits, holders and those in the queue add up to the
size of the pool, and nobody in the queue holds anything.

**Only model-checked.** `RedeemedLoginEnds`, `HandlersEnd`, `OnlyLoginsBlock` and
`WaitersAreServed`: liveness under fairness is beyond the prover. Every other
property of a passing run is stated by a theorem.

## 5. The plan

The safety properties that the runs check are proved. What is left:
1. What is stated of Accounts and not of Bot yet: the causes of roles without a
   row, in a guild whose members come and go. (That only proven users hold roles
   or rows is part of `AccountLink`, which Bot implements.)
2. An abstract specification of the membership table (a row follows the user's
   last event that was handled), refined by Membership.
3. The safety half of `OnlyLoginsBlock`: in a state in which nobody can move, all
   connections are held by logins that are away.

## 6. Not modelled

- **Replies** (`src/polyfill.rs`). `send` and `shout` answer an interaction or
  follow up on it, by a flag that one task sets and reads; nothing contends for
  it, and what is sent changes no state of the bot. A reply that fails is a
  failure of its handler, which every module has at every await.
  (`MessageComponentReplyHandle::message` fetches the first response also for a
  handle of a follow-up; no handler calls it on one.)
- **Translations** (`src/translation.rs`). Loaded once, then only read: by locale,
  else by the fallback locale, else the key itself. The bot
  does not start without the fallback locale, so a lookup fails no handler.
- **Command registration and the error hooks** (`src/main.rs`,
  `src/commands/mod.rs`, `src/commands/helpers/`) declare commands and print.
- **Configuration of the process** (`src/states.rs`, `src/constants.rs`): read
  once before anything runs; a missing value ends the process.
- **Web pages, logging, start-up and deployment** keep no state another part
  reads, or run once before everything else. The one page with an effect, GET
  `/oauth2`, is in `OAuth`.
- **Within modelled parts**: personal names, emoji, XP counters and the ids of
  posted messages; a second guild, whose rows no handler of the first touches.
