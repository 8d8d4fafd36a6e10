# Dehive backend: a verification development

Dehive is a chat platform of NestJS services that share one MongoDB and one
redis: servers with members and roles, text channels, direct messages, voice
channels, direct calls, presence. This directory models the parts of it whose
correctness depends on order and concurrency, model-checks them with TLC on
small instances, and proves some of their invariants with TLAPS for all
instances. `PROJECT.json` lists the components, runs, mutants, hazards, theorems
and, under `map`, the source lines each definition stands for.

## 1. Inventory

| Component (under `src/apps`) | State | Operations | What is hard | What makes it correct |
|---|---|---|---|---|
| Server membership (`user-dehive-server`) | `user_dehive_server` documents; `member_count` of a server, `server_count` of a user; the ban as `banned_by_servers`, `is_banned` and a `server_ban` document; member list cache | join, leave, kick, ban, unban, assign role, transfer, invites | each handler checks first and writes in a later transaction; `unbanMember` writes four times without one | counters equal documents; one owner; the banned are out; the records of a ban agree |
| Server structure (`server`) | server, category, channel documents | create, update, remove, move | check-then-write across documents; cascading deletes | no orphan category, channel, message or membership |
| Direct calls, gateway (`direct-calling/gateway`) | `dm_calls` documents; a map of sockets with call id and timer; pending timers | identity, startCall, acceptCall, declineCall, endCall, disconnect, 60 s timer | every handler awaits; a conversation reuses one document; timers outlive calls; several sockets per user | a call rings until answered, declined, cancelled or timed out, once |
| Direct calls, REST (`direct-calling/src`) | the same `dm_calls` | start, accept, decline, end, 30 s timer | shares the collection with the gateway and not its conventions | one call per caller; what is over stays over; ringing ends |
| Voice channels (`channel-calling`) | `channel_calls` with a count, `channel_participants`, socket records | join, leave, auto-leave, disconnect, status flags | find-or-create and count without a transaction; WebSocket and REST side by side | count equals participants; one participant per user; who is gone is out |
| Channel messages (`channel-messaging`) | messages; a page cache in redis with a lock | send, edit, delete, list by page or anchor | stale-while-revalidate, lock expiry, invalidation against fill | a page is not stale for ever; pages neither skip nor repeat |
| Direct messages (`direct-messaging`) | the same design per conversation, and the conversation list | as above | as above | as above |
| Presence (`user-status`) | status in MongoDB and in redis, sockets, following cache | identity, disconnect, list | several sockets per user, two stores, a lock never released | online iff some socket is open; the stores agree |
| Server events (`server/gateway`) | rooms per server and user | identity, join, notifications | order of events against database writes | what a room is told adds up to what is true |
| Uploads (both messaging services) | upload documents, files in IPFS or on disk, a redis lock per content | upload | the lock expires, is given up, or is deleted by another; every step may fail | one upload at a time adds a content; a document says where its file is |
| Authentication (`auth`, guards) | session cache with a TTL | check session, refresh | the session itself is an external service's | not modelled: section 6 |
| NFT gate, profile clients, search, `test-auth` | none, or an external service | requests out | remote failure | not modelled: section 6 |

The services meet only in the database and redis; inside a service, HTTP
requests, socket events and timer callbacks interleave at every `await`.
Processes are single-threaded, so the code between two awaits is one step.

## 2. Modules

| Module | Models | Notes |
|---|---|---|
| `ServerMembership` | `UserDehiveServerService`, `createServer`, `removeServer` | a request slot `req[r]` remembers what its handler has read |
| `MCServerMembership`, `MCMembershipSerial` | symmetric small instances: two requests, or one at a time | |
| `ServerRoster` | what the people of a server can rely on: decisions, each one step (abstract) | `ServerMembership` implements it one request at a time, `FollowsRoster` |
| `ServerMembershipProofs` | theorems about `ServerMembership`, its refinement of `ServerRoster` included | |
| `MemberList` | `getMembersInServer` and its redis list, with the changes that drop it and those that do not | membership is a role per person here |
| `ServerStructure` | categories and channels in `ServerService`, what is broadcast of them, restarts | |
| `ServerEvents` | rooms of `ServerEventsGateway`, `member:joined` and `member:left` | |
| `DmCalls` | the `dm_calls` collection | shared by the next two |
| `DirectCallGateway` | `DirectCallGateway`: sockets, handlers, timers, disconnect | |
| `DirectCallRest` | `DirectCallService` | |
| `DirectCallSystem` | both on one collection | composition by disjunction, each side leaving the other's variables alone |
| `CallLifecycle` | what a call promises its parties (abstract) | the gateway implements it, `FollowsLifecycle`; the REST service takes its steps, `CallsMoveOn` |
| `MCDirectCall`, `MCDirectCallSystem` | instances with named users and sockets | |
| `DirectCallProofs` | theorems about `DirectCallGateway`, its refinement of `CallLifecycle` included | |
| `DirectCallSystemProofs` | theorem about `DirectCallSystem` | extends `DirectCallProofs` |
| `ChannelCall`, `MCChannelCall` | voice channels: gateway, service, REST controller | `MCChannelCall` adds `calm`, one service call at a time |
| `ChannelCallProofs` | theorems about `ChannelCall` and `MCChannelCall` | |
| `MessageListing` | the pure part of listing: orders, slices, `is_last_page`, anchor paging, the conversation list | |
| `MessageCache` | the page cache of `redis-cache.service.ts` and a list request through it | extends `MessageListing` |
| `MessageWrites` | send, edit and delete with their invalidations, and a crash | extends `MessageCache` |
| `ChannelMessages`, `DirectMessages` | what each of the two services makes of them | extend `MessageWrites` |
| `Messaging`, `MCMessaging` | one room of either kind, its readers and writers | |
| `MessagingProofs` | theorems about `Messaging` and `MessageListing` | |
| `MessageEvents` | what `ChatGateway` and `DirectMessageGateway` broadcast | |
| `Conversations` | `createOrGetConversation` and the schema's order and index | |
| `Uploads` | `handleUpload` | |
| `UploadsProofs` | theorems about `Uploads` | |
| `PresenceGateway` | `UserStatusGateway` and the two stores of a status | |
| `FollowingStatus` | the cached page of followed users | extends `PresenceGateway` |
| `UserPresence`, `MCUserPresence` | both in one process | |
| `UserPresenceProofs` | theorems about `UserPresence` | |
| `MCApplications` | instances of the components that share nothing but ids; a behaviour is of one of them | its constants size every instance; `Tree(sc)` is the three of `ServerStructure` |
| `ApplicationsProofs` | theorems about every scene of `MCApplications` | takes those of `UploadsProofs` by `INSTANCE` |

### How actions correspond to code

* **Membership.** A handler's reads are `...Begin` (and `JoinCheck`, after the
  second await of `joinServer`); the MongoDB transaction is one `...Commit`.
  Two overlapping transactions write the same server or user document, so one
  of them aborts: `GiveUp`. `deleteOne({_id})` is a filter that may match
  nothing, the two `$inc` happen anyway; an `$inc` on a deleted server has no
  effect. `_id`s are a user, a server and an element of `ObjectIds`, so that a
  document inserted on re-joining is not the one an older request remembers.
* **Member list.** A listing that misses reads the memberships, looks up the
  profiles (a missing one leaves its member out: `short`) and stores the list;
  a change commits and drops the list in a later step, unless it is one that
  drops nothing (`AssignRole`, `RemoveServer`). `behind` is a history variable:
  a change came between the read and now.
* **Structure.** A request reads and checks (`Request`), writes (`WriteEdit`) and
  broadcasts (`Broadcast`); removals are transactions that hold what they
  delete until they commit or abort. `told` is what the broadcasts said,
  `stray` and `crossed` are the history of two requests that met.
* **Rooms.** socket.io's rooms live in the process (no redis adapter is
  configured), so leaving the old rooms and entering the new one is one step
  after the membership was read. `Refuse` stands for every failing check.
* **Gateway of direct calls.** A handler is one step per await whose result it
  uses; the write that ends a handler and the synchronous code around it are
  one step (the timer is cleared, the document updated, the record assigned).
  `conn` is the insertion order of the socket map, because
  `findSocketByUserId` returns the first match. `save()` writes only the paths
  that differ from what was read: `writes`. The conversation document is unique
  for its unordered pair of users, so the pair stands for it.
  `acceptCall`, `declineCall` and `endCall` look for a call by its conversation and status
  alone, so any identified client may answer or end any call. An identified socket may
  identify again, as any of its `Accounts`, and keeps `callId` and `callTimeout`. `startCall`
  is assumed to be of somebody else than oneself. `strayed` is a history variable that
  no action reads: the open sockets that accepted a call between others or changed their account.
* **REST calls.** `request[r]` holds the document read, and is saved in a later step, whatever came
  between. `contended` (calls held by requests that met over them, until these are answered) and
  `rushed` (callers whose starts, or the requests of whose call, met) are history. `AlarmFire` calls
  `endCall` with the call's id where a conversation is expected, which
  matches nothing. The redis entry `call:<id>` is never read and left out.
* **Voice channels.** One step per await of `joinChannel`, `leaveChannel` and
  `handleUserDisconnect`, which runs on after `handleDisconnect` has deleted the
  socket's record. `Calls` and `Channels` are disjoint because ObjectIds of
  different documents are: that is why `Drop` finds nobody.
* **Messages.** A list request is GET, SET NX, GET, the read with its profiles,
  SETEX, DEL; a write is its check, its save and its invalidation. A room's
  keys are those of its pages, and KEYS matches the lock keys too. The history
  flags `lost` and `behind` say why a lock or a page may be worthless; no action
  reads them.
* **Broadcasts.** `shown[s]` is what the client of socket `s` was last shown of
  each message; a handler re-reads, locates and tells in steps of their own.
* **Presence.** An identity event takes the full, the fast or the reuse way;
  a status is written to MongoDB and then to redis. `unsure` collects the users
  of whom two events met, one failed, or a restart forgot one, until the next
  event that runs alone.

Definitions that begin with a comment "Faulty" are the mutants: the way a
plausible bug would change the definition that follows them. No specification
uses them.

## 3. Runs

Passing:

| Run | Shows | Bounds |
|---|---|---|
| `MembershipSerial` | `CountsExact`, `OneOwner`, `BannedAreOut`, `BanListIsWitnessed`, `FollowsRoster`, `UnbanSettles`: one request at a time, the process may die inside `unbanMember` | 3 users, 2 servers: an owner, a moderator, a target, and a server to confuse with the first. The constraint `Small` allows two users while a crash has left records that disagree |
| `MembershipConcurrent` | `TypeOK`, `CountsNeverAbove` with two requests at every interleaving | 2 users, 1 server; counters not below `-MaxDrift` |
| `CallOneByOne` | the gateway implements `CallLifecycle`, liveness included; `CallingIsTimed`, `DisconnectEndsCalls` | 2 users, the caller with 2 sockets, one of which may log in as either user, and again; 2 timers; 1 document, since with one start at a time a conversation has no second one (`OneDocument`) |
| `CallOverlap` | `CallIdIsOwn`, `OneDocument` with a handler, timers and disconnects interleaved | 3 users, 2 documents, starts and accepts, also accepts by the user who is not in the call; one handler at a time, so that starts do not overlap each other |
| `Channel` | calm: `CalmCountsMatch`, `CalmNoDoubles`, `CalmMetaIsTrue`; crossed: `NeverOvercounted` | calm: 2 users, 2 channels, one service call at a time; crossed: 1 channel, a user with a socket and one on REST, two service calls interleaved |
| `Messaging` | `TypeOK`, `PagesTrue`, `OneFillsAPage` under every interleaving, TTL and one crash; `AnchorPagesCover`, `FollowingPagesCover` over every short history | 2 requests, 1 writer, 2 pages, 2 messages; histories of at most 4 messages at 3 moments (two at one moment, and on both sides of a page's edge), lists of at most 3 people |
| `MessagingLive` | `RequestsEnd`, `PagesCatchUp` | 2 requests, 1 writer, 1 page, 1 message |
| `UserPresence` | `TypeOK`, `StatusTrue`, `StoresAgree`, `OneFetches`, `WaitersAreServed` | 1 user with 2 sockets, 2 handlers and 2 calls; at most 5 events, calls, restarts and changes together |
| `Applications` | nine scenes, below | two requests in flight in each |

The scenes of `Applications`:

| Scene | Component | Property | Instance |
|---|---|---|---|
| `tree` | `ServerStructure` | `NothingAstray`, `EventsTellTheTree` | 2 servers, 2 categories, a channel moved between them |
| `names` | `ServerStructure` | the same | 1 server, a channel renamed and moved |
| `stops` | `ServerStructure` | the same | 1 category, 1 channel, names and one stop of the process |
| `rooms` | `ServerEvents` | `RoomsKnowWhoIsThere` | 2 users, 2 sockets, 2 servers |
| `chat` | `MessageEvents` | `ViewersAgree` | either gateway, 1 message edited twice, one socket, of any user, in any room |
| `files` | `Uploads` | `OneAddsAContent`, `FilesAreSomewhere` | 3 uploads of one content, either storage, with and without the unique index |
| `pairs` | `Conversations` | `OneConversation` | 3 ids in order, 2 requests |
| `members` | `MemberList` | `ListTrue` | 3 people, 1 listing, 2 changes |
| `rest` | `DirectCallRest` | `CallerHasOneCall`, `CallsMoveOn` | 3 users, 2 calls, 2 requests interleaved at every await |

A behaviour stays in its scene and leaves the other components' variables at
`None`: one run for nine, and a property of one scene says nothing about the
others. The sizes are those of `Applications.cfg`; section 4 proves the eleven properties
for every value of the constants.

Runs that find a violation, each a disagreement between the code and a line of
the repository (quoted under `findings`):

| Run | Property | What happens |
|---|---|---|
| `CallWrongTimer` | `CallingEnds` | accepting one call clears the timer of another, which rings for ever |
| `CallSystemTwoCalls` | `CallerHasOneCall` | a CALLING call is not active for REST; the run composes gateway and REST service |
| `ChannelGhost` | `GhostsLeave` | disconnect looks for the wrong id and removes nobody |

**Bounds** are constants: `Calls`, `Timers`, `Tasks`, `Requests`, `ObjectIds`,
`Places`, `Writers`, `Handlers`, `Edits`, `Events`, `Uploads` (how many of each
exist at a time or are ever created); `MaxDrift` (how far a counter may fall below
zero); `MaxMessages`, `MaxEdits`, `MaxTime`, `MaxText`, `MaxName`, `MaxChanges`,
`MaxSockets`, `MaxEvents`, `MaxCalls`, `MaxFollows`, `MaxTotal` (how much happens);
`MaxCrashes`, `MaxRestarts`, `MaxStops` (how often the process dies). They are small
because each hazard needs two actors and one object, and a third user or a second
channel where a mix-up of objects is the hazard. The runs that serialise events do so
because the properties they check fail, as section 5 lists, when events overlap;
`Crossed` and `Overlapping` lift that, and `RestCrossed`, which is `TRUE` in the scene
`rest` and `FALSE` where the REST service stands beside the gateway. `CHECK_DEADLOCK FALSE` appears
where the system may stop: every server deleted, every document of the instance
used up, or a bound reached.

**Fairness.** `FairSpec` of the direct calls obliges the process, never a client: weak
fairness for handlers in flight and disconnects, which go on when their await
resolves; strong fairness for timers, because the event loop runs a due callback
whatever events keep arriving. Without `Overlapping`, `TimerFire` is enabled only
between events, hence strong and not weak. `Messaging` has weak fairness of each
running request and of time (`Ticking`): an await ends, and redis expires a key
whose TTL has run out, whoever asks or writes. No client has to do anything.

## 4. Proofs

* `ServerMembershipProofs!TypeCorrect` (`Spec => []TypeOK`) and
  `CountsOnlyDriftDown` (`Spec => []CountsNeverAbove`). `CountsNeverAbove` is not
  inductive: a removal decrements by one, so at most one document may match its
  `_id`. `MembershipInv` adds `UniqueIn` (the unique index) and
  `NoEarlyMember` (no membership, nor a join past its checks, of a server never
  created, so that `createServer` starts from an empty server). Assumptions: the
  constants' types, and finitely many users and servers, since the invariant
  speaks of cardinalities.
* `DirectCallProofs!EndsOnlyOwnCalls` (`Spec => []CallIdIsOwn`), for any number of
  users, sockets, handlers and timers, overlapping or not, whoever accepts or ends whose
  call and as whichever account. Two invariants. `CallIdInv`: references are to documents that
  exist. `StrayInv`, of each socket outside `strayed`: the call it remembers is one of its
  user's (`Remembers`), and a handler of it works for the user it still speaks for and, if an
  accept, on a call of his (`Speaks`). They meet in `Keeps`: no step takes a document from
  its two people, not even one that reuses it, so what was one's own call stays it.
* `DirectCallSystemProofs!EndsOnlyOwnCallsBesideRest` (`SystemSpec => []CallIdIsOwn`):
  the same of the composition with the REST service. The gateway's steps keep
  both invariants as before; a REST step leaves the gateway's variables alone, and
  `StatusSaved` and `RequestsWork` show that it too keeps every document with its owners
  (`Keeps`), although it writes by an id it read earlier. `RestTyped` is what a
  request that creates a document needs. Assumptions: those of both modules.
* `UploadsProofs!OneUploadAdds` (`UploadsSpec => []OneAddsAContent`) and
  `StoredFilesExist` (`UploadsSpec => []FilesAreSomewhere`), for any number of
  uploads and contents. Both rest on `TypeInv`: the types, and that a key of redis
  names an upload that still works and knows it holds the key. For the first,
  two uploads that hold one key while neither is late are the same upload
  (`KeyGivenUp` and `KeysFree` are the two ways a key goes). The second needs
  `FileInv`: what an upload has found was added, nothing was found before the
  step that finds, and an upload that leaves the add empty-handed has its file on
  the disk or took the catch. Assumption: `None` is no upload, content or record.
  The properties are those of the scene `files`.

* `MessagingProofs!OneRequestFills` (`Spec => []OneFillsAPage`), for any number of
  requests, writers and pages of a room of either kind, keys expiring and the process
  restarting at any moment. `OneFillsAPage` alone says nothing of a key that is set
  while nobody fills, so `LockInv` adds `HoldersKeys`, that whoever holds a lock and
  has not lost it finds its key set, and `Shapes`, that a request is a record of its
  fields. Every action that clears a key (`ReleaseLock`, `LockExpires`, `DeleteKeys`,
  a `KEYS` pattern that also matches the lock) marks its holders as having lost it,
  which is what the theorem's exception rests on. Assumptions: the constants' types.
* `UserPresenceProofs!PresenceTyped` (`Spec => []TypeOK`), `OneCallFetches`
  (`Spec => []OneFetches`) and `NobodyWaitsInVain` (`Spec => []WaitersAreServed`), for
  any number of users, sockets, events and calls. `FetchInv` says that
  `prewarmInProgress` names a call exactly while one fetches, and that calls share a
  fetch only then; it holds because the second look at the cache and the entry in the
  map are one step (`FetchOnce`), with no await between. `IdentifyInv` says that
  `identifyInProgress` names a full identify of that user which still runs, although
  `finally` deletes the entry whoever set it, and that who waits is never itself
  waited for, so a failing identify takes with it those who wait for it and no other. Assumption:
  `None` is no handler, call or record of one.

What holds only while requests do not overlap is proved of the same specification, under
an assumption on its constants that says so:

* `ServerMembershipProofs`, with `OneAtATime` (one request slot): `CountsExactOneByOne`,
  `OneOwnerOneByOne`, `BannedAreOutOneByOne`, `BansWitnessedOneByOne`, `OwnerStaysOneByOne` and
  `UnbanSettlesOneByOne`, for any users, servers and bounds, with the process dying inside an
  unban. They follow from one inductive invariant, `SerialInv`, because the properties need each
  other: a counter is exact only if the removal it counts finds its document (`UniqueIn`,
  `ReadsStand`: what the handler has read still holds); the owner stays only if no membership
  outlives its server (`LiveAndOwned`); a ban is on record only if it is of a server that was
  created (`NoEarlyBan`). `ReadsStand` is what a second slot breaks.
* `ServerMembershipProofs!RequestsAreDecisions` (`Spec => FollowsRoster`), under the same
  assumption: `ServerMembership` implements `ServerRoster`, whose people are the triples of the
  membership documents, whose bans are the `banned_by_servers` lists and whose steps each check
  a role and take effect at once. `RosterInv` adds to `SerialInv` that the rights a handler
  checked of its actor are still there when it writes (`RightsStand`). A commit is then one
  decision (`BanIsDecided`, `TransferIsDecided` and so on), the middle of an unban and every
  read are not seen. It says what `OwnerStaysOneByOne` says of the owner of everybody: nobody
  loses a membership or a role but to somebody who outranks them at that moment, by their own
  leave or with the server, and no join meets a ban.
* `ChannelCallProofs!NeverAboveItsParticipants` (`Spec => []NeverOvercounted`) needs no such
  assumption. `NeverOvercounted` speaks of moments when nothing is in flight, so `VoiceInv`
  measures the lag at any moment: `Slack` is the participants, plus the leaves about to
  subtract, minus the joins about to add, minus the counts, and `NoDebt` says it is never
  negative. The lemmas on `Counted`, a sum over the calls of a channel, are there because the
  sum is a fold: each is proved by taking a smallest set for which it fails.
* `CountsMatchOneByOne`, `NoDoublesOneByOne` and `MetaTrueOneByOne` (`SceneSpec => []Calm...`), of
  `MCChannelCall`'s behaviours with `calm`. `CalmInv` adds to `VoiceInv` that one call is in
  flight, that the lag is that call's own (`Settled`), and that what it looked up is still so
  (`Trusted`). `MetaTrueOneByOne` assumes `OneSocketPerUser`: with two, leaving through one
  removes the participant while the other's record keeps the channel.
* `DirectCallProofs!OneDocumentOneByOne` (`Spec => []OneDocument`) assumes `OneHandler`: no event
  is handled while another is, or there is one handler, between whose steps timers and disconnects
  run. `DocInv` adds to `CallIdInv` that a start that found no document is still right about that.
* `CallingTimedOneByOne` (`Spec => []CallingIsTimed`) assumes `OneHandler` and that there are two
  users. `TimedInv` says of any moment that a calling document has a timer, armed or about to
  write, or a disconnect that has found it. The handlers clear whatever timer a socket holds; with
  two people that timer is of their one document (`CoupleSingle`), so a handler that clears it also
  ends the ringing. With a third user the property fails: see `CallWrongTimer` and section 5.
* `DisconnectEndsApart` (`Spec /\ []Apart => DisconnectEndsCalls`) assumes `~Overlapping`. A
  disconnect saves the one active call it found and then its record's; `EndsInv` says that between
  the two writes none is active, because its user was in one and nothing else is in flight.
  `DisconnectEndsOneByOne` is, again, the case of two users, with no assumption on the behaviour.

Refinement and the truth of what is stored:

* `DirectCallProofs!LifecycleOneByOne` (`Spec => Lifecycle!Init /\ [][Lifecycle!Next]_Phase`) is the
  safety part of `FollowsLifecycle`, for any users, sockets, timers and documents, when events do
  not overlap (`~Overlapping`). `Phase` maps each conversation to the status of its document, which
  is one by `DocInv` (`PhaseTold`). `LifeInv` says that whatever is in flight is alone and that
  the status it acts on still holds (`Meant`); each step is then a step of `CallLifecycle` or leaves
  `Phase` alone. The
  liveness half is not proved; `CallOneByOne` checks it.
* `MessagingProofs!RoomTypeCorrect` (`Spec => []TypeOK`) and `CacheTellsTheTruth`
  (`Spec => []PagesTrue`), for any number of requests and writers, keys expiring, restarts.
  `PagesTrue` excuses a page while some writer is between its save and its invalidation; of a writer
  that has listed the keys already that is too generous to be inductive, so `TruthInv` says
  `Owes`, that the page's key is among those it will delete, and that what a request is about to
  store is current unless it is marked as overtaken (`AnswersCurrent`).
* `AnchorPagesMeetAll` (`Spec => []AnchorPagesCover`), for every history, anchor and limit. The
  pages of a list hit each of its positions once (arithmetic of `p * limit`), the list holds each
  older, or newer, message once, and the anchor is between them. `InOrder` is defined by what a
  sort promises, the k-th having k - 1 before it, and not by a recursive sort, so that the prover
  can use it: for an order in which of any two one comes first, it lists each once (`InOrderSorts`).
  `HistoriesAssumption` (a history is a sequence of messages with a time) is what the proof needs of
  the constants.
* `FollowedPagesMeetAll` (`Spec => []FollowingPagesCover`), for every list of followed people and
  every limit. The comparator of the list and the order people came in are such an order
  (`PrecedesRanks`), the k-th of page p is the one at `p * limit + k` of the sorted list
  (`FollowingPageCuts`), so pages and positions are in the order of the list, each position on
  one page (`MetPositions`); the last page is the one that holds the last position
  (`FollowingLastIsLast`). `FollowingsAssumption`: a list is a sequence of a name and a time each.
* `UserPresenceProofs!StatusIsTrue` (`Spec => []StatusTrue`) and `StoresNeverContradict`
  (`Spec => []StoresAgree`), for any number of users, sockets, events and calls. `StatusInv` says of
  every user outside `unsure`: with no event under way both stores tell the truth (`Told`), and
  with one it is the only one, and which of the two stores it has still to write follows from its
  step (`Underway`); events and fetches of other users leave that alone (`OthersKept`).

The scenes of `Applications` (`ApplicationsProofs`, `Spec => ...` of `MCApplications`), for any
sets of servers, documents, users, sockets, messages, contents and requests in flight. Every lemma
is of one scene, because a behaviour stays in its own (`SceneStays`).

* `NothingLeftAstray` (`NothingAstray`). `TreeInv` adds that documents fit the kind of their
  parent and `RemovalsWhole`: what a removal holds contains what is inside it, except what was written
  there since it began. `NothingAstray` alone does not say that, and the commit needs it.
* `EventsDoTellTheTree` (`EventsTellTheTree`). The property speaks of moments with nothing to
  tell; `TellInv` of any moment. A document nobody has created yet is stored nowhere and told
  nobody, and has one creator (`Unborn`, `EditsOfBorn`, `CreatorsAlone`); what a removal holds
  is stored and inside what it removes, and two removals hold nothing in common (`RemovalsMarked`,
  `VictimsHeld`, `VictimsApart`); a request about to broadcast carries what is stored, unless
  another crossed it (`TellsSound`); and each document and server of which nothing is due and
  that nothing crossed was last told as it is (`NodeTold`, `ServerTold`).
* `RoomsKnow` (`RoomsKnowWhoIsThere`). `RoomInv`: a socket is only in rooms it tracks
  (`RoomsTracked`, hence a disconnect tells them all), one that has not identified is in none
  (`StrangersOut`), and a join in flight is of an identified socket (`JoinersKnown`).
* `ViewersDoAgree` (`ViewersAgree`). `ChatInv`: what a handler has read again is what is stored,
  for each message nobody overtook (`HandlersSound`); a client that hears the room then shows it.
* `OneConversationForTwo` (`OneConversation`). `PairInv`: stored pairs are in the order of their ids
  (`SmallerFirst`, the pre-save hook), so that the unique index on the ordered pair is
  one on the unordered pair.
* `CachedListIsTrue` (`ListTrue`). `ListInv`: a list in hand that no change overtook agrees with the
  members (`ReadersAgree`), so that what is stored does.
* `OneCallOfACaller` (`CallerHasOneCall`) and `RestFollowsLifecycle` (`CallsMoveOn`), for any number
  of requests in flight together. A request saves what it decided on an earlier read; `RestInv`
  says what of that read still holds (`StillAsRead`): a start's caller has no active call unless he
  is in `rushed`, and a call has the status it was found with unless it is in `contended` or the
  callback ended it. Two requests that hold a call, or start for a user, are on record there
  (`HoldersContend`, `StartersRush`). So each save is a step of `CallLifecycle`, instantiated by
  document (`Story`, RINGING being its calling, and only a document that does not exist yet being
  free to ring), or the late save of a contended call. `Story`'s fairness is not claimed:
  `RingingEnds` fails.
* `OneUploadOfAContent` and `FilesOfDocumentsExist` restate the theorems of `UploadsProofs` for
  the scene, and `ScenesTyped` (`TypeOK`) collects the types of all.

Their assumptions, each named in `MCApplications` and evaluated by TLC: ids of users are numbers
(`IdsAssumption`), bounds are naturals (`BoundsAssumption`), an id is of one kind (`KindsApart`:
ObjectIds of servers, categories and channels differ), and `None` is no id and no record
(`NoneAssumption`).

Only model-checked, and why. Liveness, which the prover does not do: `CallingEnds`, `RequestsEnd`,
`PagesCatchUp`, and the fairness of `FollowsLifecycle`. Every other property of a passing run is
proved.

## 5. Where properties had to give way

What the checked properties except, and what TLC finds when the exception, or the
serialisation of a run, is taken away. Line numbers are of files under `src/apps`.

Membership and structure:

* `FollowsRoster` and `OwnerNeverRemoved` with two `Requests`: a kick checks its target, a transfer
  commits, the kick removes the new owner ("Cannot kick or ban the server
  owner.", `user-dehive-server.service.ts:699`). `OneOwner`, `BannedAreOut` and
  `CountsExact` fail with two requests as well.
* `UnbanFindsABan`: an unban of someone never banned succeeds ("Ban record not
  found.", `user-dehive-server.controller.ts:241`).
* The member list is not dropped by a role change, a mute or the removal of the
  server, and a list with a missing profile is cached without that member.
* `moveChannel` and `createChannel` into a category that is being removed leave a
  channel without a category: `stray`.
* `removeChannel` deletes messages by `channel_id` where their schema says
  `channelId` (`server.service.ts:1049`): the messages stay.

Rooms and broadcasts:

* A kicked member's socket stays in the server's room; the service that kicks has a
  `ServerEventsGateway` of its own, whose rooms are not those clients are in.
* A socket that identifies as somebody else keeps its rooms; `tracked` is never
  pruned, so a disconnect tells every server ever entered; `member:joined` may come
  after the member has left.
* Two edits, or an edit and a deletion, may be told in the other order; a message
  whose author's profile is not cached is saved and never broadcast.

Direct calls:

* `TimedOutByOwnTimer` in `CallOneByOne`: the callee's disconnect ends a call and
  leaves the caller's timer armed; it ends the next call of the conversation
  early ("Set timeout for call (60 seconds)", `direct-call.gateway.ts:466`).
* `OneActiveCall` with two `Tasks` and `Overlapping`: two overlapping starts both
  succeed ("There is already an active call for this conversation", `:154`).
* `RingingEnds` of `DirectCallRest`: the 30 s callback (`direct-call.service.ts:121`)
  gives the call's id where a conversation's is expected, ends nothing, and the
  call rings for ever.
* `CallIdIsOwn` excepts `strayed` sockets. Accepting a call of two others stores it in
  `meta.callId` (`direct-call.gateway.ts:588`, `:636`), and the disconnect of who accepted ends
  it (`:264`, `:278`); a socket that identifies as another user keeps the call and the timer of
  the user before (`:343`).
* `CallingIsTimed` with three users: whoever ends a call between others has the timer of their own
  ringing call cleared (`direct-call.gateway.ts:858`); accepting one of two calls may clear
  the timer of the other (`:613`).
* `CallsMoveOn` excepts late saves of a contended call: an accept saved after a decline revives
  the call ("Call is not in ringing state", `direct-call.service.ts:182`). It holds that no such
  save comes once the requests that met are answered.
* `CallerHasOneCall` excepts `rushed` callers: two starts both check (`direct-call.service.ts:103`)
  before either saves (`:119`); a late accept revives a call whose caller has begun another.

Voice channels:

* `NoDoubles` with `Crossed`: two joins of one user leave two participants
  (`channel-call.service.ts:81`).
* `MetaIsTrue` with the user among `RestUsers`: a channel left over REST stays in
  the socket's record; the auto-leave throws on every later join
  (`channel-call.gateway.ts:360`).

Messages:

* A page read before a write and stored after it is out of date for up to an hour
  and a minute (`behind`); so is one whose invalidation failed or was cut by a crash.
* The limit is not part of a page's key: a page filled with one limit answers
  requests with another. A new message drops the first page only, although it
  shifts all of them.
* An edit deletes the lock keys of its room along with the pages, and
  `releaseLock` deletes the key of whoever holds it now: two requests fill one page.
* Equal creation times have no fixed order in the channel service's list (no
  `_id` in its sort). A channel message can be edited after it was deleted; a direct
  one only when the edit read it before.
* `conversation_update` sends the receiver's own status to the receiver; a page
  beyond the end says so with a total of 0.

Uploads:

* The lock is lost to its 10 seconds or to another's DEL, and given up after eight
  tries: two uploads then add one content. It is also released before the document
  is created, so that the next upload may not see it.
* `contentHash` is declared with `index: true` and again in a unique sparse index of
  the same name. Where the unique one exists, an upload of a known content is
  refused at its document ("duplicate key"), whatever the deduplication meant;
  where it does not, there are several documents of one content. `unique` is chosen
  at the start of a behaviour.
* Where the dedupe fails and then IPFS does, the document names no file and the
  disk has none: the exception in `FilesAreSomewhere`.

Presence:

* One of two sockets of a user closes: the user is offline while the other is open
  (`user-status.gateway.ts:188`). A restart leaves users online; the redis key lasts an hour.
* The fast way of an identify tells no one that the user is online; the reuse way
  may store the record of a socket that has closed.
* The lock of a followed users' page is never released and lasts two seconds.
* "remove status keys for users no longer present" (`user-status.service.ts:381`) reads
  the previous list after overwriting it.

## 6. Not modelled

* Wording of answers, notifications and audit logs; profile lookups beyond their
  failure; the calls' durations and end reasons; camera and microphone flags;
  pings; typing of attachments and the measures of images and videos.
* Several processes of one gateway: its socket map is per process and no redis
  adapter connects them; one process is modelled.
* MongoDB failing between two writes of a voice channel's join or leave
  (`channel-call.service.ts:112`): the two collections then disagree for ever, no
  code repairs it and no property would say more than that. The same for an error
  after `commitTransaction` in `joinServer` (`user-dehive-server.service.ts:421`),
  which answers a failure for a join that happened.
* redis failing inside `acquireLock`: it answers false, so the request waits as it
  does for a taken lock.
* Authentication: a session belongs to an external service; here it is one cache
  entry with a TTL (`auth.guard.ts:48`), rewritten by `refreshSession` of the decode guard
  (`decode-auth.guard.ts:329`). A model would be of the external service's promises.
* NFT gate, message search, the clients of the profile API, `test-auth`: requests to
  others or reads; to the handlers that use them a failing check.
* Server settings, avatars, tags, invite links, mutes: updates of one document by one
  request.

## 7. Plan

1. `updateUserStatus` of the voice channels; invites; `conversation_update`.
2. A second process beside the first, once a socket.io adapter connects them.
