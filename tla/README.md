# HaloChat API: TLA+ models, checks and proofs

HaloChat is the backend of a chat platform: a NestJS process in front of
MongoDB, Redis (which also holds the BullMQ queue), Socket.IO, Cloudinary and
Cloudflare R2. One Node process serves everything, but every handler is an
`async` function: between two of its `await`s any other handler, timer callback,
cron pass or queue worker may run, and the data they share lives in stores that
only offer single commands, a few transactions and keys with a time to live. The
models are about what can go wrong there.

Paths below are relative to `src/src/` unless they start with another directory.

## 1. Inventory

### Components, their state and operations

| Component | State | Operations that change it | Talks to |
|---|---|---|---|
| starting a call (`modules/realtime/realtime-call.service.ts`, `startCall`) | Redis `call:start:lock:<user>`, TTL 5 s; the call documents | take two locks, look for an active call, create, push, release in `finally` | calls, push subscriptions, relationships |
| life of a call (`realtime-call.service.ts`, `modules/calls`) | status of the call document; Redis heartbeat key; ring timers and `client.data.activeCallId` in memory | accept, reject, end, heartbeat, signal, disconnect, ring timeout, cron every minute | messages (the summary), gateway |
| cleanup jobs (`modules/cleanup-jobs`) | job documents (status, retryCount, lockedUntil); BullMQ entries | create, process (worker or administrator), complete, fail, retry, ignore, unlock | media, sessions, redis |
| messages (`modules/messages`) | message documents with reactions | create (with a file), edit, soft delete, react, pin | media, conversations, gateway |
| media (`modules/media`) | media documents; files in Cloudinary and R2 | upload, soft delete, delete with cleanup, nightly orphan job | cleanup jobs |
| conversations (`modules/conversations`) | members, administrator, last message, pin, receipts, hidden history | create, accept, add and remove members, change administrator, disband, hide, mark as read, block and delete | messages, relationships |
| sessions and tokens (`auth`, `modules/session`) | session documents (hash, isRevoked), `tokenVersion` of the user | login, refresh, logout, logout everywhere, change or reset password, remove device | cleanup jobs, gateway, users |
| accounts, one-time codes and login lockout (`modules/users`, `auth/auth.service.ts`) | user documents; Redis codes, counters and blocks | register, activate, reset, change address and phone, disable, enable; store and verify a code; count a failure, block | mail, sessions |
| avatars and evidence (`modules/users`, `conversation-media.service.ts`, `report-cleanup.service.ts`) | reference to a picture in the user, the group and the report; media documents; files | upload, delete, report, reset by a penalty, nightly sweep | media, reports, cleanup jobs |
| relationships (`modules/relationships`) | one document per ordered pair | request, accept, reject, unfriend, block, unblock | conversations, messages |
| realtime gateway (`modules/realtime`, `modules/presence`) | sockets and rooms; Redis presence (120 s) and typing (4 s) keys | connect, disconnect, heartbeat, typing, mark read, events of sessions and bans | redis, conversations, sessions |
| reports and penalties (`modules/reports`) | reports, strikes, `banUntil`, `muteUntil` | report, resolve, appeal, ban, mute, lift, clean up | users, sessions, media, audit log |
| notifications, push subscriptions, statistics, audit log | one collection each | insert, upsert, `$inc` | |
| WebRTC configuration, mail, utilities, web client | configuration | | |

### How they interact, and what is hard

* **Handlers that interleave.** Nothing is shared in memory but ring timers and
  socket data; everything else is read from a store, decided upon, and written
  after one or more awaits. Where the write repeats the condition in its filter
  (`{ _id, status: 'CALLING' }`, `{ _id, isRevoked: false }`) the decision is
  still valid; where it does not (receipts, reactions, pins, `save()` of a
  document read before) it may be old.
* **Locks with a TTL.** `startCall` and the cleanup jobs exclude each other with a
  lock that expires while its holder may still run.
* **Failure.** A rejected command leaves the steps before it done. Some are undone
  in a `catch`, some become a cleanup job, some are only logged.
* **Restarts.** Ring timers, `finally` blocks and transactions in progress are
  gone; documents, keys and queue entries stay.
* **Background work.** The ring timer, the cron of the calls, the BullMQ worker,
  the unlock cron and the nightly orphan job all act on what a request may be
  working on.

### What makes each part correct

* Starting a call: a person is in at most one active call while the locks last, what
  goes wrong when they do not begins with a lock that expired, and locks go away.
* A call: its status only goes forward, all who are told something are told what
  the database says, it has at most one summary, and it ends.
* Cleanup jobs: done means the side effect happened, given up means all tries
  were made, settled means for good; the tries of a job are a loop while its locks
  last; every job settles.
* Messages and files: deleted is final, a file is served exactly as its message is, but
  for images that the nightly job withdraws, and no file is left over.
* Sessions: what was revoked stays revoked; what a request was to revoke is
  revoked or will be; nothing else is.
* Relationships: a block stays until who made it undoes it, and nothing passes it;
  one relationship per requester (two for a pair are possible).
* Groups: the administrator is a member, the limit holds, and nothing stays of who or
  what was removed, unless two requests race; what a race may leave is named.
* Realtime: no command of an ended session acts, and its sockets are closed, or it is
  named why not; whoever has left is shown offline and not typing in the end, unless a
  handler fails or a start is told too late.
* Accounts: a used, replaced or expired code does nothing, but that a code for a new
  address works until it is deleted; nothing happens to a
  disabled account; too many wrong passwords block the login.
* Avatars and evidence: the picture in use is there, a report keeps its picture, and
  no file is left over, apart from named races.
* Penalties: each report and each appeal is decided once; a penalty in force is lifted
  or outlasted, never shortened; no two reports count as the same strike.

`PROJECT.json` lists the hazards that matter most at their lines, with the properties
that cover them. The code has these besides: some are of the same kind as one listed
there and covered by the same property, in others the code does what the hazard says
and promises nothing else, and a few are outside of the models.

| Line | Hazard | Where it is covered, or why it is not |
|---|---|---|
| modules/realtime/realtime-call.service.ts:769 | The cron judges an accepted call by a heartbeat that its acceptCall has not written yet: a call that was accepted while the cron ran is ended. | CallLifecycle has the interleaving and its properties hold with it, as both people are told that the call was accepted or ended; that the cron should spare such a call is said by a comment (realtime-call.service.ts:718) only |
| modules/realtime/realtime-call.service.ts:809 | No disconnect arrives, or the socket is not bound to the call any more: only the missing heartbeat can end the call. | covered by CallsEnd |
| modules/realtime/realtime-call.service.ts:237 | A heartbeat is written after the call ended and its key was deleted. | covered by CallsEnd |
| modules/realtime/realtime-call.service.ts:733 | The cron closes a call without emitting an event: the people of a call whose timer was lost are not told it is over. | the code does not tell them: NobodyIsLeftRinging excludes the calls the cron closed |
| modules/cleanup-jobs/cleanup-job-command.service.ts:52 | A restart between the creation of the document and queue.add, or a failing add, leaves a PENDING job no entry points to; unlockStuckJobs unlocks documents but queues nothing. | the code does so: JobsSettle leaves failures and restarts out |
| modules/cleanup-jobs/processor/cleanup-jobs.processor.ts:29 | Only the worker queues the next try: whoever else fails a job must not take the worker's entry away. | covered by JobsSettle |
| modules/cleanup-jobs/cleanup-jobs.service.ts:71 | The count of tries, the length of the delay list and maxRetries must agree at the last try: one too many indexes past the list, one too few gives up early. | covered by FailedAfterAllTries |
| modules/conversations/conversation-state.service.ts:327 | markAsRead writes a receipt it compared with an older state of the conversation: a message the member sends, or marks, in between is forgotten. | the code does set the receipt back, which docs/app-flow.md:584 rules out; the README quotes it, and Messages has the interleaving (MarkAsRead, SetReceipt) |
| modules/messages/message-command.service.ts:232 | A command fails after the transaction has been committed and the catch undoes the upload of a message that stays. | the code does delete the file of such a message; a finding quotes the doc that rules it out, and MessagesKeepTheirFile in Messages with Messages_rollback.cfg shows it |
| modules/messages/message-reaction.service.ts:72 | hasReacted is computed from the message read before the awaits of line 61, and the $push of line 80 does not filter on the user: two reactions of one user at once are both added, and from then on change together. | the code does add both, and nothing in the repository promises one reaction per user; Messages has the interleaving and counts the reactions |
| modules/messages/message-command.service.ts:222 | The members told of the restored conversation were read before the upload and the transaction: whoever hides the conversation in between gets it back and is not told. | the model has who hid the conversation and when a message restores it, but not the list of the members told |
| modules/messages/message-command.service.ts:338 | shouldClearPin is read before the transaction: a message pinned meanwhile stays pinned although it is deleted, and a pin that was moved meanwhile is removed. | the code does leave such pins, and no doc promises otherwise; Messages has the interleaving |
| modules/messages/message-command.service.ts:170 | A restart between the upload and the commit leaves a file nothing refers to: no job is made and the orphan job looks for documents without files only. | the code loses such files: NoFileIsLeftOver is stated short of a restart |
| modules/session/session.service.ts:245 | The revocation of the other sessions fails and is made up by a job, which revokes every session. | covered by EveryRevocationHappens |
| modules/session/session.service.ts:299 | The creation of the cleanup job fails too and is only logged: the sessions stay alive although the request reported success. | the code loses such revocations: EveryRevocationHappens is stated short of them |
| modules/users/user-password.service.ts:57 | A restart after the new password is saved and before the other sessions are revoked leaves them alive; no job is made. | the code loses such a revocation: EveryRevocationHappens speaks of requests that returned |
| auth/auth.service.ts:532 | refreshToken does not look at the result of rotateSession: a session revoked since line 485 yields a pair of tokens that is refused at its first use. | covered by RevokedForGood |
| modules/cleanup-jobs/cleanup-job-dispatcher.service.ts:208 | The job that revokes every session runs after a later login and revokes that session too. | the code does end such sessions, and nothing in the repository promises otherwise |
| auth/auth.service.ts:615 | tokenVersion is read, incremented in memory and saved: two requests at once use the same number, and an old one can set it back to a number whose tokens were refused. | the sessions of those tokens are revoked all the same (EveryRevocationHappens); a property of the version alone would need MaxVersion above 2, out of reach together with the other operations |
| redis/redis.service.ts:290 | The pipeline that removes the flags reports its errors in its results, which the caller does not look at: no cleanup job is made, and the flags of the disbanded group stay. | UnflagAll of Groups has both outcomes; the code promises nothing for it |
| modules/realtime/realtime-event-bridge.service.ts:299 | The sockets of a disabled account are closed after a read of its conversations: an error of that read is logged, and they stay open until they send a command. | DisabledFails of Realtime, in late |
| modules/realtime/realtime-chat-command.service.ts:217 | Typing is counted after it was set: of two tabs that start at once each counts two, and the others are never told. | the code does stay silent; NobodyStaysTyping is the other direction |
| modules/users/user-code.service.ts:47 | del removes whatever code the key has by then: one that was stored since the comparison is lost. | the code does so (DelCode allows it); the user asks for another |
| modules/users/user-code.service.ts:55 | The cooldown is read before the code is saved: two requests at once send two mails, and the first code is dead at once. | the code does so (ReSendCodeActive allows it) |
| modules/relationships/relationship-request.service.ts:153 | Two people send each other a request at once: the unique index is on the ordered pair, so both documents are created and nobody is asked to accept. | the code does create both; the Inv of Relationships has one relationship per requester |
| modules/relationships/relationship-request.service.ts:82 | The request is accepted and the creation of the conversation or of its first message fails: friends without a conversation, and accepting again finds no request. | the code does so; Relationships has the steps and their failures, and its properties are about blocks |
| modules/conversations/conversation-command.service.ts:122 | Two requests find no direct conversation of two people and each creates one; no index forbids it. | the code does create both, and nothing in the repository promises otherwise; Relationships has the two steps |
| modules/conversations/conversation-command.service.ts:301 | acceptConversation saves a document read before: what another request changed meanwhile decides whether the save fails or overwrites. | direct conversations are in Relationships, without the strangers' requests to write |
| modules/conversations/conversation-member.service.ts:151 | Two requests add the same member: the member is added once, the entry of the hidden history twice. | Groups has the two additions; the hidden history of a group is left out |
| modules/reports/report-appeal.service.ts:142 | The appeal is saved after the upload of its evidence without asking for the status it read: a report that was dismissed meanwhile is open again, and a second appeal overwrites the first. | the code does reopen such reports, and nothing in the repository promises otherwise; Penalties has the interleaving and counts each appeal as a case of its own |
| modules/reports/reports.service.ts:510 | A successful appeal lifts the ban of the user, also when it is the ban of a later report. | the code does lift it, and nothing in the repository promises otherwise; PenaltiesAreNotReduced allows for it |
| modules/reports/reports.service.ts:122 | The limit of reports per day is counted before the insert: requests at once exceed it. | the code does exceed it; the limit is a guard Penalties leaves out |
| modules/reports/report-admin-action.service.ts:127 | After an error the hidden report is deleted when its status says it was not resolved; the status is read in one command and the report deleted in another. | the code can delete a report that another administrator resolved in between, its strike with it, and the penalty stays; Penalties has both steps (Undo, DeleteHidden) |
| modules/calls/call.service.ts:344 | One summary that fails ends the nightly reconciliation: the batches after it are not looked at that night. | CallsEnd has the job come back after it failed; its batches and the two days it looks back are left out |
| modules/push-subscriptions/push-subscriptions.service.ts:90 | Two registrations of one device with different endpoints: each deactivates what it sees and both stay active. | push subscriptions are not modelled |
| modules/stats/stats-write.service.ts:137 | A day on which the provider's API failed is stored with a monthly total of 0: the next day counts the whole month as its own. | the statistics are not modelled |

## 2. Modules

| Module | Models |
|---|---|
| `CallStart`, `MCCallStart`, `CallProofs` | `startCall` and its Redis locks |
| `CallLifecycle`, `MCCallLifecycle`, `CallProofs` | a call from its creation to its summary |
| `RetriedJobs` | what the cleanup jobs promise: a loop of tries; implemented by `CleanupJobs` |
| `CleanupJobs`, `MCCleanupJobs`, `CleanupJobsProofs` | the documents, the queue, the worker and administrators |
| `Messages`, `MCMessages`, `MessagesProofs` | one conversation: messages, files, reactions, pin, receipts |
| `Sessions`, `MCSessions`, `SessionsProofs` | the sessions and the token version of one account |
| `Penalties`, `MCPenalties`, `PenaltiesProofs` | the reports about one person and the penalties that follow |
| `Relationships`, `MCRelationships`, `RelationshipsProofs` | two people: requests, friends, blocks, their direct conversations |
| `Groups`, `MCGroups`, `GroupsProofs` | a group: members, administrator, disbanding, and what is left behind |
| `Realtime`, `MCRealtime`, `RealtimeProofs` | the sockets of one person and the sessions they belong to |
| `Indicators`, `MCIndicators`, `RealtimeProofs` | online and typing, as the others see them |
| `Accounts`, `MCAccounts`, `RealtimeProofs` | one account, its one-time codes and its login lockout |
| `Avatars`, `MCAvatars`, `PenaltiesProofs` | the picture of a user or a group, and the evidence a report keeps |

An `MC` module declares what its component's instance needs (the symmetry, the
functions a `.cfg` cannot write), a `Proofs` module holds the theorems. Components that
meet share one: the two halves of a call, sockets with what is shown of them and the
account behind them, and reports with the pictures they keep. As such a module extends
several specifications, one of them has the plain names (`Init`, `Next`, `Spec`, `run`,
`Inv`) and the others have names of their own (`RealtimeInit`, `callStatus`,
`typingRun`, `request`, `AvatarsInv`). `RetriedJobs` is the one abstract specification;
`CleanupJobs` instantiates it with its own variables.

The modules meet at narrow places, and each takes from the others only what it may
rely on:

* `CallStart` ends where `CallLifecycle` begins: a call of the former becomes "over" at
  any time, and the latter takes its caller and callee as constants.
* `Messages`, `Sessions`, `Groups` and `Avatars` keep only the set of open cleanup jobs
  of their own, any of which may run at any time; when and how often a job runs is
  `CleanupJobs`.
* `Relationships` has the direct conversations and the first message of an acceptance,
  as blocks gate them, and `Groups` the messages and files that a disbanding must
  find; what happens to one message after that is `Messages`.
* What a ban of `Penalties`, a new password or a disabled account of `Accounts` does to
  the tokens and sessions is one of the requests of `Sessions`; `Realtime` sees it as
  a session that is outdated or revoked, with an event or without one.
* `Realtime` lets a connection in; the presence key it then sets is in `Indicators`.
* A penalty that resets a picture, and a report that is decided, are steps of
  `Avatars` without further conditions; who may decide it is `Penalties`.

### Conventions

* **A step** is the code from one await up to and with the command it awaits next.
  An execution is a record with the stop it is at (`at`) and what it read on the
  way (`run[h]` in most modules, `request[h]` in `Avatars`, `pc`, `first`, `second`,
  `todo`, `busy` in `CallStart`). Guards that the code evaluates on data it read earlier use the
  record, not the variables.
* **A refusal** that leaves no trace (validation, permissions, rate limits) is a
  step not taken.
* **A fault** is a rejected command: it had no effect and the code goes where its
  `catch` and `finally` go. **A crash** forgets what is in memory. `MaxFaults`
  (`MaxAborts` in `Avatars`) bounds how many there are.
* **History variables** (`closedBy`, `tries`, `owner` of a job's lock, `condemned`,
  `unrecorded`, `due`, `clear`, `fresh`, `late`, `live`, `untold`, `dead`, `enabled`,
  `lifted`, `raced`, `doubtful`, `lost`, `unguarded`, `missed`, `unheard`) are read by
  properties and by each other. The one exception is `owner`, which keeps the lock of a
  job outside `SlowJobs` from expiring under its try. Those that name a race or a
  failure (`late`, `raced`, `lost`, `unguarded`, `doubtful`, `missed`, `unheard`) are set
  by the step that brings it about, so that a property can say "apart from this" and
  nothing wider.
* `\* Mutant:` operators are the definition below them with a plausible bug. They
  are used by no specification and show that a property can fail.

### CallStart (`realtime-call.service.ts:95-126, 382-456`)

`lock[u]` is the Redis key of a person. The code stores the constant `'locked'`; the
model stores the execution that set it, which no step of the code looks at: `DEL`
deletes whoever's key it is. `LockFirst` and `LockSecond` are `SET NX EX` on the sorted
keys, `SecondIsTaken` and `Undo` the failure of `lockStartCallUsers`, `FindActiveCall` the
two parallel queries for an active call in any order, `CreateCall` and the push follow,
`Release` are the two parallel `DEL`s of the `finally` block. `Expire` is the TTL: any
key may expire at any time, as nothing bounds the queries, the push and the waiting of
a busy process by 5 s. What an execution had taken from it, by the TTL or by the `DEL` of
another, is in `lost`, and `unguarded` has the active calls whose execution had lost a
key by the time it created them. A call to oneself is refused by `createCall`
(`call.service.ts:107-109`), in the model by `first[h] # second[h]`; the second `SET NX`,
on the same key, would refuse it too unless the first has expired.

### CallLifecycle (`realtime-call.service.ts`, `calls/call.service.ts`, `chat.gateway.ts:175-194`)

An execution has an operation, a stop, a call and the socket it came by. The
MongoDB updates are compare-and-set on the status; `told` is the set of events
emitted to the two people; `alive` the heartbeat key; `timer` the entry of
`callTimeoutTimers`; `bound` the call in `client.data`. `ringOver` says that the ring
timeout has elapsed since the call was created. `CronFindsStale` and
`CronFindsAccepted` are the two halves of the cron pass of every minute, and
`FindMissingMessage` is the job of every night that writes the summaries that are
missing (`call.service.ts:326-356`).

### CleanupJobs (`modules/cleanup-jobs`)

`status`, `retries` and `lock` are the document, `fresh` and `stalled` count the BullMQ
entries of a job (new ones, and those a crashed worker left), `adding` is the gap
between the creation of the document and `queue.add`. A try is `Take` or
`AdminProcesses`, lock, dispatch, then complete or fail, then `Requeue` by the processor only.
`StillLocked` is the filter of the updates that end a try: the status that was read
and *some* lock. `SlowJobs` are the jobs whose tries may take longer than the ten
minutes of a lock, so that the cron may unlock them, and others lock them, meanwhile.
For the others `TriesAreALoop` is a refinement: in `RetriedJobs` a job is under way
(`trying`) exactly while an execution owns its lock.

### Messages (`modules/messages`, `conversation-state.service.ts`, `modules/media`)

One conversation with two members. A message has a sender, perhaps a file, reactions
and a state; `media` is the document of a file, `stored` what the provider has, `jobs`
the files a cleanup job is to delete. `Images` are the files that Cloudinary keeps as
`authenticated`: `CleanupOrphanMedia` looks for them under the type `upload`, finds none,
and takes their documents although they are stored (section 4). The transaction that creates a message and the
one that deletes it are one step each: they commit or have no effect.

### Sessions (`auth/auth.service.ts`, `modules/session`, `users/user-password.service.ts`)

One account. `session[s]` is the state of a document, `hash[s]` the refresh token it
accepts, `version` the user's `tokenVersion`, `tokens` every pair of tokens handed
out. Logging out everywhere stands also for disabling the account, a ban, a change of
role and a new password by mail: they read the user, save it with the next version
and revoke everything. Two tokens made in the same second for the same session are
one string in the code and two numbers in the model.

### Penalties (`modules/reports`)

One person. `status` and `penalty` are the reports about that person, `ban` and `mute`
the day `banUntil` and `muteUntil` end, 0 if there is none; `now` counts days. The
transaction of `resolveReport` is modelled with its conflicts: `Update` takes the
snapshot (the compare-and-set on the report and, since the snapshot decides it, the
pending reports for the same reason, which are dismissed with it); `missed` collects
what others write since of the documents the transaction may write; at the commit it
is either refused (`CannotReduce`), run again (`RunAgain`) or it writes everything at
once (`CommitResolved`, `CommitUnpunished`, `CommitAppealSuccess`). MongoDB may find the
conflict earlier than at the commit; that the transaction then runs again is the same.
`ReadPerson` and `CountStrikes` read the committed state, as `findOne` and
`countDocuments` are called without the session. `CreateHidden` is a direct penalty
(`quickPenalty`, `manualBan`), whose report any administrator sees until it is
resolved or removed (`Undo`, `DeleteHidden`), and `MaxReports` bounds how many of the
reports are made at all (`Used`); `AutoBan` the ban after a burst of
refused requests, whose report is inserted by the transaction. `FileAppeal`, `Lift`,
`Overturn` and `DeleteOld` are the writes that do not ask for what was read before.
A warning that resets the profile writes the person too; the model leaves that write
out, which takes away conflicts only, so it allows more than the code.

### Relationships (`modules/relationships`, `conversation-command.service.ts:52-195`, `conversation-state.service.ts:154-298`)

`status`, `requester` and `blockedBy` are the relationship documents, at most one per
requester because of the unique index, `open` and `history` the direct conversations
and who hid them. A request asks for the two accounts and for a block where the code
does (`check`, `filter`, `isBlocked`), and writes where the code writes: with the
status in its filter (`SetAccepted`, `DeleteOne`), without (`UpdateBlocked`), or in the
transaction of `blockAndDelete` (`Commit`). `create` and `blockUser` call each other:
a request that finds the other's pending one accepts it, also when it was to block.
Messages are not kept, only whom they may reach (`Welcome`, `Send`).

### Groups (`modules/conversations`, `message-command.service.ts`, `realtime-chat-command.service.ts`)

`group`, `users` and `admin` are the conversation. Every request reads it, checks what
it read, and writes by its identifier alone (`CommitAdd`, `CommitRemove`,
`CommitAdmin`, `CommitDisband`, `CommitMessage`, `CommitRead`, `Join`). Of the traces a
membership leaves (a receipt, the flag of unseen messages, a socket in the room) those
of one person, `Watched`, are kept, and of the messages and files whether there is one:
no step looks at those of others. `fresh` tells whether the group is as a request read
it, `late` which traces were written after what they belong to had gone.

### Realtime (`chat.gateway.ts`, `realtime-auth.service.ts`, `realtime-event-bridge.service.ts`)

One person's sockets. `conn[s]` is where the handler of a connection is (it reads the
user, then the session, then joins the room), `command[s]` where a command that
arrived on it is (`validateActiveSession` reads both again). A session ends in the
database first (`revoked`, or `outdated` by a ban, a disabled account or a new token
version), with an event that closes the sockets it finds (`RevokeSession`, `EndAll`,
`FetchSockets`, `DisconnectFound`, `DisconnectSockets`) or without one
(`RevokeQuietly`, `OutdateQuietly`, kept in `untold`).

### Indicators (`chat.gateway.ts:147-169`, `realtime-chat-command.service.ts:172-311`, `realtime-event-bridge.service.ts:39-95`)

`online` is the presence key, `typing` the tabs with a typing key, `shownOnline` and
`shownTyping` what the others were told last. A typing event, or the expiry of a typing
key, is handled by one of `Typings`; the gateway does not make the events of one socket
wait for each other, so any handler may begin for any tab at any time. A handler counts
the keys after it has set or removed one (`CountOne`, `CountNone`), asks who has blocked
the person, and then tells the others if it was the first or the last (`TellOn`,
`TellOff`), whatever the keys are by then. It may be rejected at each of its awaits
(`TypingFails`), also after it has deleted its key. `UserOffline` and `TypingExpires`
handle an expiry; the keys of typing may expire at any time. `missed` and `unheard` are
set when the handler fails that was to tell the others that nothing is left, or when one
tells them of a start with no key left. What is assumed heads the module: Redis delivers
each expiry, the presence key (120 s) outlives the one query of the handler that set it,
and a count of keys is taken at one moment.

### Accounts (`modules/users`, `auth/auth.service.ts:97-158, 309-408`)

One account and, of one other, the phone number. `code` has a code of each kind, kept by
Redis until it expires; `SaveCode` replaces it, `GetCode`, `DelCode` and the writes that
follow (`SaveUser`, `CommitEmail`) are the steps in which it is used. A code is `dead`
with the write that uses it; one for a new address is deleted only after that
(`DelEmailCode`), and not at all if the deletion fails (`Spared`). `failures` and `blocked` are
the two keys of the lockout, written one after the other (`RecordLoginFailure`,
`SetBlock`, `ClearFailures`, `ClearBlock`). `IsPhoneExisted` and `SavePhone` are the
check and the write that nothing connects.

### Avatars (`users.service.ts:480-668`, `conversation-media.service.ts`, `report-cleanup.service.ts`)

`avatar` is the reference of the user or the group, `media` the documents and `stored`
the files. An upload goes to Cloudinary first; `CommitAvatar` is the transaction, which
locks the user's or group's document, and `IsMediaInReport` and `FindOld` are what is
read before and during it. `AbortAvatar`, `Rollback` and `CommitUnanswered` are its ways
to fail, the last one a commit that happened although the driver reported an error.
`SweepReports` to `DeleteSwept` is the nightly job, and `Decide` what a penalty or a dismissal
does to the picture and to the report.

## 3. Runs

All runs pass. Times are for two workers, two runs at a time.

| Run | Instance | Checks | Shows |
|---|---|---|---|
| `call_start` | 3 people, 2 pairs that share one, 2 calls, 2 executions, keys expire at any time, errors and crashes; 130 s | `OneActiveCallPerUser`, `OnlyTheRobbedRob`, `LocksGoAway` | a person is in two calls, or a key of another is deleted, only after an execution has lost a key of its own; and nobody is locked out for good |
| `calls` | 1 call, 2 sockets, 2 executions, 1 fault; 150 s | `OutcomesAgree`, `OneSummaryPerCall`, `NobodyIsLeftRinging`, `StatusIsForward`, `CallsEnd` | accept, reject, hang-up, disconnect, timer and crons race to one outcome, which is the one announced; and every call ends, with its summary |
| `cleanup_tries` | 2 jobs, one of which may outlast its lock, worker, 1 administrator, 1 retry, 1 fault; 70 s | `Inv`, `FailedAfterAllTries`, `LockProtects`, `SettledStays`, `TriesAreALoop`, `JobsSettle` | overlapping tries settle a job correctly, the lock excludes while it lasts and makes a loop of the tries, and the worker settles every job |
| `messages_requests` | 1 message of one person, an image and another file, 3 requests of 9 kinds, 2 faults; 155 s | `Inv`, `DeletedIsFinal`, `MediaFollowsMessage`, `NoFileIsLeftOver` | races on one message keep it and its file together, unless the nightly job takes the document of the image; whatever is in the storage is in the hands of a request or a job, or belongs to a message |
| `sessions_revocation` | 2 sessions, 3 tokens, 2 requests of 6 kinds, 2 faults; 100 s | `Inv`, `RevokedForGood`, `EveryRevocationHappens` | no revocation is lost or undone by a login, a refresh or a failure that is recorded |
| `penalties_cases` | 2 reports out of two for one reason and a direct or automatic ban, 2 requests of any kind, 2 days, 1 fault; 120 s | `OneDecisionPerCase`, `StrikesAddUp`, `PenaltiesAreNotReduced` | whoever decides at once, each case is decided once, each strike counts, and bans from three sources do not shorten each other |
| `relationships_pair` | 2 people, 2 relationships, 1 conversation, 2 requests of 9 kinds | `Inv`, `BlocksAreNotUndone`, `NobodyReachesThroughABlock` | nothing on its way undoes a block or passes it |
| `groups_members` | 4 people, at most 3 members, 2 requests; 80 s | `Inv`, `OnlyRacesBreakTheGroup` | what a removal and a disbanding leave behind, that what a request has checked holds while the group is as it read it, and that no request breaks the group by itself |
| `realtime_sockets` | 2 sockets, 2 sessions; 60 s | `RealtimeInv`, `NoCommandAfterTheEnd` | which sockets of an ended session stay, and that none of them acts |
| `indicators_tabs` | 2 tabs, 3 typing events or expiries at a time, each of which may fail anywhere; 130 s | `IndicatorsInv`, `NobodyStaysOnline`, `NobodyStaysTyping` | who has left is shown so in the end, unless a handler failed or a start was told too late |
| `accounts_codes` | 2 codes, 2 requests, block after 2 failures; 75 s | `Inv`, `NoDeadCode`, `NothingWhileDisabled` | dead codes and disabled accounts stay so for what begins after, but for the code of a new address that is not deleted yet |
| `avatars_reports` | 2 files, 2 reports, 2 requests, 1 fault; 80 s | `AvatarsInv`, `EvidenceIsKept`, `NoFileIsLeftOver` | a picture is there as long as it is used or reported, and goes afterwards, apart from the named races |

Each `Inv` is the inductive invariant that the theorems of section 5 prove, the types
included: a run checks it before it is proved, and shows that its parts are not false.
Where a run lists none, a theorem states the types and the run would only repeat it. Two configurations are kept to reproduce by
hand what section 4 says:
`tlc -config CallStart_slow_push.cfg MCCallStart` finds `NobodyIsInTwoCalls` violated once
a lock expires under its execution, and `tlc -config Messages_rollback.cfg MCMessages` finds
`MessagesKeepTheirFile` violated by a failure after the commit.

### Bounds, and why they are enough

Two executions are enough for each race above: what can be refuted is refuted with
one or two executions and a background step, and each mutant of a run is caught within
the same bounds; `Messages` and `Indicators` have three, as said below. One fault is a failure at any await; where a failure is made up for by
something that may fail too (`Messages`, `Sessions`) there are two.

* `CallStart` has two pairs of people, (1, 2) and (2, 3): the person they share has the
  second key of one and the first of the other, and each pair may call twice. Two calls
  are the least that can overlap. The theorems have any pairs, calls and executions.
* One call is enough for `CallLifecycle`: executions of different calls share only the
  socket binding, and which call a socket is bound to is a choice of the model anyway.
* `CleanupJobs` needs two jobs, as one could starve the other in the worker, and one of
  them slow, so that both kinds of try are there. One retry passes the first and the
  last try; the theorems have no bound.
* `Messages` has one message, as its steps write one message each, and one person: the
  requests of the other member differ only in being refused more (nobody edits or takes
  back what another sent). Three requests are a creation and two that follow it. One
  file is an image, the other is not, as the nightly job tells them apart.
* `Sessions` needs two sessions for "the others", and three tokens for a login on each
  and one refresh.
* `Penalties` needs two reports for one reason, so that each may be merged into the
  other, or one beside a direct or automatic ban. A second day lets a penalty end, or be
  outlasted, between reading and writing. The only rule bans; mutes and an
  administrator's own choice of penalty (`Overrides`) are the same steps on another
  field, and in the theorems.
* `Relationships` is about a pair, and the unique index allows it two documents.
* `Groups` needs somebody to watch, an administrator, one who may become it, and one to
  be added beyond the limit of three.
* `Realtime` and `Indicators` need two sockets, as the count and the events of one
  depend on the other; two sessions tell one that ends from all that end. Three handlers
  of typing are two that overtake each other and one more that begins or expires.
* `Accounts` needs two codes so that one replaces the other.
* `Avatars` needs two files, the old and the new, and two reports, one of which keeps
  the picture when the other goes.

Symmetry is used for what is interchangeable (executions, reports, sessions, sockets,
people) in runs without liveness only. `CHECK_DEADLOCK FALSE` stands where identifiers,
tokens or faults run out: a real system then has nothing to do.

### Fairness

* `CallStart`: weak fairness of the steps an execution in progress takes (Node resumes
  a handler when the reply comes; a command is answered or rejected) and of the TTL of a
  key whose execution is gone. That a key expires under a running execution is possible
  but never relied on.
* `CallLifecycle`: weak fairness of the steps in progress and of the ring time, and strong
  fairness of the jobs, the cron of every minute and the one of every night, finding what
  there is to do about a call: they come again for ever, but an execution of the model must be free for
  them, while Node has as many as it likes. They are one condition for a call, as it
  waits for one of them at a time: first to be closed, then for its summary. No client,
  socket, timer or disconnect is relied on.
* `CleanupJobs`: weak fairness of the worker taking an entry, of queueing, of the steps
  of a try and of BullMQ's delay. `JobsSettle` is stated for behaviours without failures
  and administrators, because they can strand a job (section 4).
* `Indicators`: weak fairness of the handlers that have begun, those of an expiry
  included. Nobody need connect, type, or let a key expire, and none need fail.
* The others: safety only, no fairness.

## 4. Where the code and its words differ

The first thirteen are in `PROJECT.json` with the quotations. Where a property of a run
would fail by one of them, it names the exception, and TLC finds it violated without.

* The start locks are to keep other calls from being created for the same user
  (`realtime-call.service.ts:105`); when an execution outlasts the 5 s, another one may
  create a call for the same person, and the `DEL` of the late `finally` (line 449) removes
  the lock of the other, and so on. `OneActiveCallPerUser` exempts the `unguarded` calls.
* Retries of the cleanup jobs are to go on until the token expires
  (`cleanup-job.constant.ts:58`); an administrator's try that fails
  (`cleanup-jobs.controller.ts:64`), while the worker's own entry finds the job locked,
  leaves it with no queue entry.
* `docs/app-flow.md:635-637` has the file deleted when the transaction fails; the `catch`
  (`message-command.service.ts:280`) also covers what follows the commit, and deletes the
  file of a message that stays.
* `docs/app-flow.md:584` says that marking as read does not move back; `markAsRead`
  compares with the conversation it read and writes without a filter
  (`conversation-state.service.ts:340`).
* The nightly job is to remove documents without a file; it asks Cloudinary for images of
  the type `upload` only (`media-orphan.cron.ts:34`), so it takes the documents of the
  images of all recent messages, which are `authenticated`. `MediaFollowsMessage` exempts
  `Images` without a document.
* `blockUser` finds no relationship and calls `create` (`relationship-block.service.ts:49`),
  which accepts a request that the other person has sent meanwhile: the block makes
  friends, and is reported as done.
* Who leaves a group keeps a receipt, as the system message of the same transaction sets
  it again (`conversation-member.service.ts:284`), although the comment at line 224 says
  that the receipt is cleaned up.
* Who connects again while the expiry of the presence key is handled stays offline to
  the others (`realtime-event-bridge.service.ts:55`).
* Who stops typing may be shown typing: a start may be told after the stop that overtook
  it (`realtime-chat-command.service.ts:230`), and a stop, or the handling of an expiry,
  that fails after the key is gone is only logged. `unheard` names both.
* The code that has changed an address is deleted after the change, and a failure of that
  is only logged (`users.service.ts:824`): it works again until it expires.
* Two requests can give one phone number to two accounts (`users.service.ts:285`).
* A report that comes while its target's picture is replaced keeps a reference to a
  deleted picture (`reports.service.ts:153`).
* Two uploads at once leave a picture that nothing deletes (`users.service.ts:512`).

Others were only read:

* `session.service.ts:231-232` says that a cleanup job tries again what
  `revokeAllByUserIdExceptSessionWithCleanup` could not do. The job it makes (line 245)
  is the one that revokes every session, the one to be spared included.
* `docs/app-flow.md:188` and `:219` say that changing or resetting the password leaves
  sessions alone, while the code revokes them.
* The comment on the unlock cron (`cleanup-jobs/cron`) says 15 minutes where the
  expression says 3.

## 5. Proofs

TLAPS checks the following for every value of the constants that the named
assumptions allow: any number of people, calls, executions, jobs, sessions, reports,
requests, sockets, tabs and failures.

| Module | Theorem | States | Assumes |
|---|---|---|---|
| `CallProofs` | `CallStartTypeCorrect` | types, and that an execution knows its people | |
| | `OneCall` | `OneActiveCallPerUser`, `KeysAreHeld` | |
| | `RobbedBefore` | `OnlyTheRobbedRob` | |
| | `TypeCorrect`, `InvHolds` | types; the inductive invariant of `CallLifecycle` | |
| | `Outcomes`, `OneSummary`, `Told`, `OnlyForward` | `OutcomesAgree`, `OneSummaryPerCall`, `NobodyIsLeftRinging`, `StatusIsForward` | |
| `CleanupJobsProofs` | `TypeCorrect`, `InvHolds` | types; `Inv`, which has `DoneMeansDone` | |
| | `GivenUpIsTried` | `FailedAfterAllTries` | |
| | `NeverReopened` | `SettledStays` | |
| | `LockIsEnough`, `EveryTryCountsOnce` | `LockProtects`, `RetriesOnlyGrow`, both about the jobs outside `SlowJobs` | |
| | `JobsAreLoops` | `TriesAreALoop`, that those jobs implement `RetriedJobs` | |
| `MessagesProofs` | `InvHolds` | the inductive invariant, with the types | |
| | `MediaFollows`, `FilesAreAccountedFor` | `MediaFollowsMessage`, `NoFileIsLeftOver` | |
| | `TakenBackForGood` | `DeletedIsFinal` | |
| `SessionsProofs` | `InvHolds` | the inductive invariant, with the types | |
| | `Revocations`, `OverForGood` | `EveryRevocationHappens`, `RevokedForGood` | |
| `PenaltiesProofs` | `InvHolds` | the inductive invariant of `Penalties`, with the types | |
| | `DecidedOnce`, `NoneMissed`, `NeverReduced` | `OneDecisionPerCase`, `StrikesAddUp`, `PenaltiesAreNotReduced` | |
| | `PicturesHold` | `AvatarsInv`, the inductive invariant of `Avatars`, with the types | |
| | `Evidence`, `NoFileIsForgotten` | `EvidenceIsKept`, `NoFileIsLeftOver` of `Avatars` | |
| `RelationshipsProofs` | `InvHolds` | the inductive invariant, with the types | |
| | `BlocksAreKept`, `NobodyReaches` | `BlocksAreNotUndone`, `NobodyReachesThroughABlock` | |
| `GroupsProofs` | `InvHolds` | the inductive invariant, with the types | |
| | `OnlyRaces` | `OnlyRacesBreakTheGroup` | |
| `RealtimeProofs` | `RealtimeHolds`, `CommandsAreLive` | `RealtimeInv`, with the types; `NoCommandAfterTheEnd` | |
| | `IndicatorsHold` | `IndicatorsInv`, with the types | |
| | `AccountsHold` | the inductive invariant of `Accounts`, with the types | |
| | `NoneUsedTwice`, `DisabledIsLeftAlone` | `NoDeadCode`, `NothingWhileDisabled` | |

No theorem assumes more than the assumptions on constants that the modules name
(`PairsAssumption` and the like), which say that model values differ, that bounds are
numbers, and that the people of a call are sorted.

*Starting a call.* `OneActiveCallPerUser` is not inductive: a state in which two
executions have both found nobody busy satisfies it. `CallStartInv` adds that the keys an
execution has set and not deleted are its own but for those it has lost (`KeysAreHeld`),
and that the answer it got, if it has lost none, is still true but for calls that
are `unguarded` (`QueriesStayTrue`), because whoever could make it false would have to
own one of the keys. That nobody is robbed but by one who was (`OnlyTheRobbedRob`) is
`KeysAreHeld` read at the `DEL`.

*Life of a call.* `OutcomesAgree` rests on what an execution may take for granted
when it wakes up (`KnowsTheStatus`): it is at a stop after its compare-and-set only
if that update won, and no later update of another operation can change what it
found. `CloserDecides` ties the operation that won to the status, and `WillBeTold`
says that the announcement is made or the execution that makes it is on its way.

*Cleanup jobs.* A try writes back the count it read, possibly under the lock of
another. `CountsAreCovered` says that as many tries were made, for the count in the
document and for every count an execution holds; so a job that fails at the end of
the list was tried as often. Under a lock that lasts, `LockProtects` is inductive by
itself: what an execution read is what the document says. The refinement needs one fact
more, that an owner has the lock (`OwnersHold`): so whoever locks a job, or sets it
aside, finds no try under way, and whoever ends a try ends the one that is.

*Sessions.* The job for all sessions returns early when it sees none with a token.
`EveryRevocationHappens` therefore needs `TokensAreStored`: a live session whose
tokens were handed out has its hash. `RequestsKnow` says that what a request has in
hand exists, which also makes the types inductive.

*Penalties.* What a transaction read is still so when it commits, because otherwise
somebody would have written a document it writes too: that is `SnapshotsHold` for the
reports and `PersonIsKnown` for the ban and mute, and gives `PenaltiesAreNotReduced`
for whoever writes the person. The strikes are the hard part, as no document stands
for their number. `RivalsMeet` says that of two resolutions for one reason one is
about to merge the other's report, or was told that it is decided: the later snapshot
sees the earlier report pending, or the earlier commit was told of. So whoever commits
second conflicts, and `StrikesAreCounted` follows: a transaction that still could
commit has counted all strikes there are. The automatic ban has no rules and is exempt.
`CasesAreDue` ties the status to the history variable `due`.

*Relationships.* That a block stays is seen step by step from the filters, once it is
known that a document has one requester and a blocked one a blocker (`OnePerRequester`,
`BlockedBySomebody`); that a request reaches the other person only past a check is
`RequestsKnow`: each stop from which it does is entered by a step that saw no block, and
`clear` stays true until the request ends.

*Realtime.* The user and the session are read one after the other, and a property of
one moment is to follow. `ChecksHold`: a command that has read the user was live then, or
its session was revoked already, and the second read finds out. `DeadSocketsAreClosed`
goes through every way a session ends and a socket joins.

*Indicators.* The two liveness properties rest on `OfflineIsComing` and `StopIsComing`:
when something wrong is shown, a handler is on its way that will put it right, or it
failed, or was overtaken. For typing this holds because a handler counts after it has
written: the one that removes the last key finds none left.

*Messages.* A file is lost in the gap between two writes, so the invariant says who
has it in between. `FilesAreOwned`: a file in the hand of a request is of no other
request; until the commit of no message and without a document, after it of the
message that was created. `IdsAreUsedOnce` gives a message its identifier for itself, so
a delete finds the document that goes with its message, which is
`MediaFollowsMessage`. `FailuresAreCounted` says that a rollback follows one failure and
the job after it a second; only a third one loses the file (`NoFileIsLeftOver`).

*Groups.* `OnlyRacesBreakTheGroup` speaks of single steps. `FreshReadsHold` says that what
a request checked when it read still holds while the members and the administrator are
those it saw, so a step that breaks the group is of a request that was overtaken. For
what is left behind, `TracesGoWithTheMember` and `NothingIsLeftOfTheGroup` name who is
about to remove it, or `late`, the history of what was written after its home had gone.

*Accounts.* `NoDeadCode` needs that a code is worth something only once:
`CodesAreSingle` says that it is of one kind and that a dead one is never given out
again and in no key, but that a used one for a new address may stay in its key;
`AcceptedAreDue` that a request past the comparison held a living code when it began, or
such a one, and that after its own delete the code is no longer there. `AskedWhenEnabled` does
the same for the disabled account. `PhoneRacesAreSeen` is what makes `PhoneIsUnique`
inductive: whoever is past the check while the number is taken was past it before.

*Avatars.* What protects a picture is what somebody read before. `UploadsAreOwn` and
`FilesAreNew`: a new file is known to one request until its document is written.
`AvatarIsSpared`: nothing that is about to be deleted is the current picture, but for a
commit whose answer got lost. `EvidenceIsSpared`, for the reports: who replaces a picture
a report refers to has decided to keep it (`KeptIsAPicture`), and no sweep has it in
its list. `SweepsAreComplete` names the reasons for which a sweep may leave a picture of
its reports out. `NoFileIsLeftOver` then follows from one lemma, `FilesArePassedOn`: a
file in hand goes to a request, a job or an owner, or is deleted.

Model-checked only: the liveness properties (`LocksGoAway`, `CallsEnd`, `JobsSettle`,
`NobodyStaysOnline`, `NobodyStaysTyping`), which are out of the prover's reach. Every
safety property of every run is a theorem, so the runs add to them only what a small
instance can show and a proof cannot: that the interesting states are reached.

## 6. What is not modelled, and what could follow

Not modelled for good: the clients of external services (pure I/O), notifications and
the audit log (one insert each), the WebRTC configuration, mail, formatting
utilities, queries and pagination, the built web client.

Of the modelled parts these are left out:

* calls: the payloads of the signalling, call tokens, `syncActiveCall`, the rate limits;
* messages: the queries, the message replied to, the list of who is told;
* sessions: expiry by the clock and the TTL index, device names and notifications;
* penalties: the deadlines of appeals, the limit of reports per day, notifications, the
  order of `resolvedAt` and the counter that leads to an automatic ban (as guards they
  only make requests impossible that the model allows);
* conversations: the name of a group, a stranger's conversation and its acceptance, the
  hidden history of a group;
* realtime: events that only tell clients of a change;
* accounts: the rest of the profile and the role;
* groups and avatars: a cleanup job that cannot be created, a restart between the steps,
  and the orphan job, which `Messages` has; the file of `Groups` is none of the images
  whose document that job takes, which a disbanding would no longer find;
* avatars: the images given as evidence.

What could follow, in this order:

1. That `Messages` and `Avatars` implement one store of files with owners.
2. A stranger's conversation and its acceptance (`acceptConversation` saves a document
   it read before) as requests of `Relationships`.
3. The daily difference of the monthly usage in the statistics as an operator, checked
   over a month of inputs, and the push subscriptions of one device.
