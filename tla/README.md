# APS: specification and proofs

APS is a self-hosted real-time service: WebSocket channels compatible with Pusher Channels, push
notifications compatible with Pusher Beams, an HTTP API for both and webhooks, written in Go, and
a dashboard for them, written in TypeScript with React and Next.js. This directory holds TLA+
modules for the parts where steps of several goroutines, handlers or calls meet, the TLC
configurations that check them on small instances, and proofs for every instance. Line numbers
are those of this repository; `hub.go` is `internal/ws/hub.go`, `memory.go` is
`internal/pubsub/memory.go`, and `debug/page.tsx` and the like are under
`dashboard/src/app/dashboard/apps/[id]/`.

## The system

| Component | State | Operations | What is hard |
|---|---|---|---|
| **Hub**, `internal/ws/hub.go` | `clients`, `clientsByID`, `clientsByUser`, `channels`, `channelSubs`, all under `h.mu` | Register, Unregister, Subscribe, Unsubscribe, HandleClientEvent, BroadcastLocal, BroadcastCluster, TerminateSocket, TerminateUser | every operation is a sequence of critical sections, broker calls, sends and webhooks; operations of other clients run in between |
| **Client and server**, `internal/ws/client.go`, `server.go` | `channels`, `userID`, `sendCh` (256), context | ReadPump, WritePump, Close, HandleWebSocket | the context is cancelled at any moment; a full queue drops in silence |
| **In-process broker**, `internal/pubsub/memory.go` | `m.subs`, presence table, occupancies under `m.mu`; each subscription's Go channel and `closed` under `s.mu` | Publish, Subscribe, Subscription.Close, presence calls, Close | two mutexes taken in both orders; sends on channels others close |
| **Redis broker**, `internal/pubsub/redis.go` | presence hash, occupied set, Redis Pub/Sub | the same interface | asynchronous SUBSCRIBE, loss, non-atomic remove and count, entries that outlive a crashed node |
| **Webhook dispatcher**, `internal/webhook/dispatcher.go`, and its page | delivery log; the page's list, form and calls | Notify, deliver; load, create, delete | a goroutine per event, one 15 s deadline for all hooks; overlapping calls, answers computed from old renders |
| **Beams**, `internal/beams/beams.go`, and its page | devices, instances, deliveries in the store; the page's instance, receipts and forms | register, interests, delete, publish, credentials; load, send, save | whole-row write-back after a read; ignored store errors; overlapping loads |
| **HTTP API**, `internal/api/api.go` | none of its own | trigger, batch, queries, terminate, sign-in, control plane | read-modify-write of applications |
| **Live debug console**, `debug/page.tsx` | connection, channels, stream, their copies in refs and browser storage | connect, handlers of the socket, join, leave, history, test events | handlers of several sockets, effects that run later, answers in any order |
| **Session and shell**, `dashboard/layout.tsx`, `login`, `register`, `lib/api.ts` | token in a storage shared by tabs, list of apps, selection, forms | sign in, redirect, list, create, log out, navigate | answers and timers that outlive their page; a list computed from an old render |
| **Reading pages**, `[id]/page.tsx`, `history/page.tsx`, `docs/page.tsx` | statistics, copies; messages; article and category beside the URL | poll, copy; search; select, follow, back and forward | polls out of order, timers that overlap, two copies of what is shown |
| **Rate limiter**, `internal/ratelimit/ratelimit.go` | buckets | Allow | double-checked creation, refill bound |
| **Stores**, `internal/store` | all durable entities | CRUD | memory store and SQL store differ in cascades; history cap |
| **Auth and crypto**, `internal/auth`, `internal/crypto` | none | sign, verify, encrypt | pure functions |

How they interact. A WebSocket connection has two goroutines; its ReadPump calls the hub, so
the hub operations *of one client* run one after the other, and those of different clients
interleave. The hub subscribes to one broker topic per channel that has local subscribers and
a relay goroutine per subscription casts what other nodes publish, so that one event takes
several routes and passes several queues. Presence lives in the broker; the hub reads it to
answer subscribers and to decide on webhooks, which it hands to the dispatcher, as Beams does. The
API calls BroadcastCluster and the Terminate operations of its own node's hub. The dashboard calls
the API and Beams over REST with the token of its browser storage, and the console is a WebSocket
client beside that. In a browser one handler runs at a time; what interleaves is calls,
timers, socket events, effects and navigation.

What makes each component correct:

* hub: one broker subscription per channel with local subscribers; registry, client and broker
  agree; a closed connection does leave, and leaves no trace but entries of the user index under
  user_ids it gave up; a user who is present can be found; webhooks say what is the case;
* broker: no panic on a Go channel, no message to two relays of a node, no open subscription
  passed over, every call returns;
* events between nodes: at most once to each client, never to the excluded socket, in order since
  the subscriber joined, and not lost inside a node;
* webhooks: whoever wants an event is told, unless the store and those called before could use up
  the time there is, and the store is asked to record it;
* Beams: what was deleted stays so, and each upload keeps the other's half, unless calls overlapped;
* pages: what is shown is what the server has, or what was asked for last, once nothing is under
  way; flags and spinners show exactly what is under way; nothing under way outlives its use.

## The modules

| Module | What it is |
|---|---|
| `Hub` | one node: registries, the operations step by step, the presence table |
| `TopicLease` | what a node promises about its broker subscriptions, abstractly |
| `HubProofs` | proofs: types, one subscription per channel, refinement of `TopicLease`; agreement of the tables, closed connections, user index; what webhooks have announced |
| `MemoryBroker` | the in-process broker and its callers at the level of their locks |
| `MemoryBrokerProofs` | proofs: types, no panic, at most one relay, `m.subs`, whom a Publish reaches, no deadlock but one |
| `Cluster` | events between nodes over Redis: senders, casts, publishes, relays |
| `EventBus` | what the cluster promises about events, abstractly |
| `ClusterProofs` | proofs: order of events, refinement of `EventBus` |
| `DebugConsole` | the console page, its connections and what the server has of them |
| `DebugConsoleProofs` | proofs: one connection, the one shown; subscriptions on both sides; the stream |
| `Webhooks` | the webhooks page, the hooks in the store and the dispatcher |
| `WebhooksProofs` | proofs: the list, every hook accounted for |
| `Beams` | the Beams service, its callers and its page |
| `BeamsProofs` | proofs: deleted devices, credentials, the page's pushes and receipts |
| `Session` | sign-in, token, navigation and the dashboard's layout |
| `SessionProofs` | proofs: whose apps are listed, complete lists, flags |
| `Pages` | overview, history and documentation |
| `PagesProofs` | proofs: URL, article and sidebar; copy marks; the search |
| `MC...` | model values, bounds and symmetry of a module for TLC |

### Hub

`pc[c]` is where connection `c`'s ReadPump goroutine is. One action is one critical section of
`h.mu`, one broker call, one enqueued message or one webhook notification.

| Code | Actions |
|---|---|
| HandleWebSocket, Register (hub.go:65-77) | `Register` |
| ReadPump, handleEvent (client.go:141-241) | `Receive` in every command; `Drop` is the end of the connection |
| Subscribe: checks (111-142) | `RefuseSubscribe`, `SubscribePlain`, `SubscribePresence` (with 144-163, the user index) |
| Subscribe: registry (167-182) | `Join` |
| ensurePubSubSubscription (425-452) | `OpenSubscription`, `StoreSubscription` |
| Subscribe: presence (184-240) | `AddPresenceMember`, `GetPresenceMembers`, `SendSucceeded`, `CastAdded`, `SendAdded`, `NotifyAdded` |
| Subscribe: occupancy (246-253) | `ReadOccupancyAfterJoin`, `NotifyOccupied` |
| Unsubscribe (255-309) | `Leave`, `RemovePresenceMember`, `CastRemoved`, `SendRemoved`, `NotifyRemoved`, `ReadOccupancyAfterLeave`, `NotifyVacated` |
| Unregister (79-109) | `Unregister`, `UnregisterNext` (its loop runs Unsubscribe), `UnregisterDone` |
| TerminateSocket, TerminateUser (454-490) | `TerminateSocket`, `TerminateUser` look up, `CloseKicked` closes |

Abstractions: one application; `channels[k] = {}` stands for a missing map key; a signature is
valid or not by choice; a message is only what it does to the recipient's member list (`view`),
and the send queue never fills; a webhook is only the last one of its kind (`lastOcc`,
`lastMember`), at the moment `Notify` is called; the broker subscription in `channelSubs` is a
count of live ones (`brokerSubs`), so that a leak or a double is visible. User IDs are not
empty. Broker calls are atomic; their locks are `MemoryBroker`'s subject. The presence table is
the in-process broker's.

### MemoryBroker

Threads take `m.mu` (read or write, with writers that wait holding new readers back, as
`sync.RWMutex` does), each subscription's `s.mu`, and `h.mu`. *Publishers* call Publish;
*holders* open and close a topic's subscription, one after the other as `Hub` shows they do;
the *closer* is main's deferred `ps.Close()`. A section that takes one lock and blocks on
nothing inside is one action; wherever the code blocks with a lock held there is an action for
the request and one for the grant. An in-process broker has one hub, so every message a relay
takes carries its own NodeID and is skipped (`RelaySkip`); what relays do with messages of
other nodes belongs to the cluster model.

### TopicLease

A topic's lease is none, opening or open. The first holder finds it unheld and must open it in
two steps; others come and go; the opener does not leave meanwhile; the last to leave an open
lease releases it. `Hub` maps `channels` to the holders, `brokerSubs` to the live
subscriptions, the goroutines between Join and StoreSubscription to the opener.

### Cluster

A sender is a client, whose ReadPump works off its events, or a caller of the HTTP API. Its
steps: `ClientEvent` (a message read), `AcceptClientEvent` or `RefuseClientEvent` (the checks of
handleClientEvent and HandleClientEvent), or `TriggerEvent` (BroadcastCluster); then `Cast` (the
copy of the recipients under the read lock), `Enqueue` per recipient, `SenderCastDone`,
`Publish`. A relay goroutine takes from its subscription (`RelayTake`, or `RelaySkip` for the
node's own events) and does the same cast. `Join`, `Confirm` and `Leave` are a channel's
subscribers and its broker subscription: asked for, active when Redis has registered it, closed.
A closed one keeps what is in `sub.ch` for its relay; what is in go-redis's own channel may or
may not have got there, so `Leave` keeps any prefix of `inbox`. `Crash` takes a node with all its
connections; a restarted node has a new nodeID and is another node.

Abstractions: asking for the subscription and filing it is one step with the join, which
`TopicLease` justifies: whoever else joins meanwhile finds the channel there and no active
subscription, as here. go-redis's channel and `sub.ch` are one queue. `Lossy` says that send
queues and buffers may be full and a publish may fail, at any time, instead of counting their
places. An event is its sender, a number and its channel; the socket a caller excludes is a
constant of the caller, and where a client puts the channel of its events one of the client. A
trigger for several channels is one `TriggerEvent` after the other, since callers wait for
nothing in between. Socket IDs are unique. Webhooks and channel history are left out.

### EventBus

Senders send, clients are given: an event at most once, only after it was sent, never to its
sender or to the socket a caller excludes. Events may be lost, and that is what a cluster over
Redis Pub/Sub can promise. `Cluster` maps `sent` and `log` by name.

### DebugConsole

One action is one handler of the page, with the render and the effects React runs before the next
event, or one step of the server. `sock[s]`, `up[s]` and `down[s]` are a connection and what is
under way on it; the server's side is its subscriptions, the history and the publications under
way. What the page offers in a state is an operator (`ReconnectButton`, `Crosses`, `TriggerForm`)
and the guard of the actions behind it. After a WebSocket message the effect that
copies `activeChannels` into the ref and into localStorage may come later than the next message
(`ChannelsEffect`); after a click it does not.

| Code | Actions |
|---|---|
| mount, cleanup (debug/page.tsx:73-161) | `Mount`, `Leave` |
| loading the app, connectWebSocket (113-118, 163-178), the reconnect button (357) | `AppArrives`, `AppFails`, `Connect`, `Reconnect` |
| onopen, onmessage, onclose, onerror (180-241) | `Open`, `OnMessage` (`OnEstablished`, `OnSucceeded`, `OnEvent`), `OnClose`; `Drop` is the end of a connection |
| panel and forms (259-328, 341-491) | `Join`, `LeaveChannel`, `ClearLogs`, `Trigger`, `TriggerAnswered` |
| history (120-154) | `HistoryRead`, `HistoryArrives`, `HistoryFails` |
| server (client.go:174-241) | `ServerReads` |
| publishing (hub.go:355-423; handleTriggerEvent) | `Save` within `OthersPublish` or `TriggerServed`; then `CopyRecipients` and `SendEvent` per recipient, in `Broadcast` |
| history (handleGetChannelHistory) | `HistoryRead` |

A publication is saved, unless that fails (`Unsaved`), its recipients are copied, and it is sent to them one after the other, by
whoever publishes or by the relay of another node's event; other publications come between any two of
these steps, so sockets may be sent two events in the other order than they were saved in. Events
are numbered in the order in which their publications began, and `before[n]` remembers which events had
been sent to everybody by then. Only these are ever below `n` for certain, and that is what
`StreamInOrder` says, beside that nothing is listed twice. What the late history brings goes
on top of newer live events, against the comment at debug/page.tsx:63. System events are one
value, since the page tells them by prefix only. The stream is filtered with
`Without`, written without recursion so that it can be proved about; an ASSUME of `MCDebugConsole`
compares it with the library's filter. Pings, raw messages, the compact
view and the choice of a channel for the form are left out.

### Webhooks

A call of the page is a record in a slot: sent, served or refused, answered or lost. Loads, creates
and deletes overlap as the user likes (`Refresh`, `Create`, `Delete`), and a delete keeps the rows
of the render that started it (page.tsx:90). The dispatcher (dispatcher.go:40-145) is a goroutine
per notification: `Notify`, `ListHooks`, then `Skip` or `Deliver` per hook in the order the store
gives. Time is counted in units: a POST takes from none to `Timeout` of them (5 s in the code), a use of
the store any number, and together they take no more than `Deadline` (15 s), after which calls fail
at once (`Late`). An answer well below the timeout uses up what it took all the same. The store's
errors are ignored, so that `Record` may save nothing, at any time and not only past the deadline;
`held` and `refused` remember what the store took and did not save. `Boxes`, `Ticked` and `Bins`
are what the modal and the list offer. Of the two requests of a load, the one for the delivery log
is left out, since no property is about the page's copy of it. URLs and payloads are left out;
every hook is active, since nothing in the repository creates an inactive one.

### Beams

A handler that reads the store and writes later is two steps (`GetDevice`, `UpsertDevice`;
`GetInstance`, `UpdateCredentials`; `ListTargets`, `SavePushDelivery`), others are one (`Register`,
`DeleteDevice`, `TerminateUser`). A write whose error the code ignores may be lost. The unified
broadcast of the API is a push that tells no webhook (beams.go:479-503). The page loads the app and then the
deliveries (`AppArrives`, `DeliveriesArrive`), after a push or an upload again; `receipts` is the
order they were saved in, and the list has the newest `ListLimit` of them (`Newest`; 50 in the code),
read at some time after the app was. `exact` says that the last load ran beside no other.
`PublishForm`, `CredentialsForm`, `Configured` and `Rows` are the page as rendered, and guard what
can be clicked. Nothing is sent to devices by this code (beams.go:276): a
push is its count. The two platforms differ in a field only.

### Session

A call carries the account of its token (`who`), whether the page that made it is still shown
(`live`), the path and the render's list. Going to a route (`Go`, `Show`) keeps the layout within
the dashboard and mounts it anew otherwise; answers of pages that are gone still store tokens and
push routes, as React runs them. `Redirect` is the login page's timer, `OtherTab` the shared
storage, `Reload` the browser's. The tab of the login page that registers behaves as its other tab.
`LoginForm`, `RegisterForm`, `Sidebar` and `CreateForm` are what the cards, the layout and its
modal offer, and the guards of what is done there; `LayoutStays` is the router's rule for nested
layouts. A push of the router is one step: while a slow one is pending in the browser, the index
page spins on, and that is left out.
`turned` and `calm` record the two things that excuse a wrong list: the token was changed under a
mounted layout, and calls of the layout overlapped or failed.

### Pages

The three pages that only read; one is shown at a time, and its state is new when it is opened. The
overview loads the app, then statistics, and polls every 5 s without waiting (`Poll`,
`StatsAnswered`); what the server counts changes as connections and subscriptions come and go
(`StatisticsChange`), and only grows here, so that an older answer can be told from a newer one.
The API answers with zeros when the broker cannot be asked (api.go:760, 764); such an answer is
left out. `CopyButtons`, `Metrics`, `SearchButton`, `Feed`, `SidebarItems` and `SearchResults`
are what the pages show and offer. The history searches on opening and on each submit, and is
answered with the newest `HistoryLimit` messages of the channel (`Newest`; 50 in the code). The
documentation keeps the article beside
the URL: `SelectDoc` sets both, the URL by a push of the router that a back or forward may overtake
(`Push`, `Traverse`), and `Follow` is the effect on the URL. `Sections` are the items listed under
each category; those that have no article are members of `Docs` outside `Articles`.

## The runs

| Run | Instance | Shows |
|---|---|---|
| `hub_safety` | 2 clients, wildcard and one presence channel, 2 users, 2 commands each, Terminate calls | types; the tables agree between operations; gone is forgotten; present users can be kicked; an empty presence channel is not left announced as occupied |
| `hub_liveness` | 2 clients of one user, 1 presence channel, 2 commands each, Terminate calls, fairness | one broker subscription per channel; `TopicLease` is implemented; an absent user was last announced as removed; closed and kicked connections end up unregistered |
| `broker` | 2 publishers, 2 holders, 2 topics, 2 subscriptions, capacity 1, shutdown, fairness | no panic, at most one relay, `m.subs` exact, no open subscription missed; nothing but the lock cycle blocks a call |
| `cluster_safety` | 2 nodes with a client each; 2 client events, one API event that excludes a socket; one client leaves and comes back; loss, crashes | `EventBus` is implemented; order of one sender's events on one channel since the subscriber joined |
| `cluster_liveness` | 2 clients on one node, a caller on the other, the wildcard, 1 event, reopening, crashes, no loss, fairness | what a node was handed reaches its subscribers |
| `console` | 2 channels, 2 events, one of them not saved, 2 connections, 2 visits, 1 click, a stream of 2 entries, fairness of the network | joined is subscribed and subscribed is listed; one connection; nothing listed twice by one route, no live event above one that began after it had been sent to everybody; "connecting" ends |
| `webhooks` | 2 hooks, 2 events, 3 calls, 1 notification, a deadline of 2 units, a timeout of 1, fairness of the dispatcher | the list is right after a refresh of its own; each hook read is called in time unless the others and the store could use the time up, and recorded unless the store did not; a hook that stays is told |
| `beams` | 1 device, 1 user, 1 interest, both halves of the credentials, 3 calls, a list of 1 delivery | deleted devices return by overlap only; uploads keep each other; "Configured" is true; one push at a time, its receipt listed |
| `session` | 2 accounts, 2 apps, 2 calls, 2 redirects | the sidebar's apps are the account's; the selection is one of them; a list without overlap is complete; flags and messages follow the calls |
| `pages` | 2 channels of 2 messages, a search limit of 1, 2 articles and a link without one, 3 calls, 4 history entries | statistics catch up; marks fade; the feed is the last search's, up to the limit; URL, article and sidebar agree |

Runs that end in a counterexample, each for one sentence of the documentation or a comment:

| Run | Says | Does |
|---|---|---|
| `occupied_webhook` | webhooks.md:16, channel_occupied when the first client subscribes | two first subscribers both read an occupancy of 2 and nobody sends it |
| `broker_returns` | memory.go:80, a slow receiver's message is dropped | Publish waits for `s.mu` with `m.mu` held while Close waits for `m.mu` with `s.mu` held |

More disagreements and quirks follow from a few lines each and have no run:

* `channel_vacated` is sent at every unsubscribe of a channel without presence, because occupancy
  counts presence members (hub.go:303, against webhooks.md:17);
* `member_removed` is sent for each socket, also while another socket of the user stays
  (hub.go:275, against webhooks.md:23);
* the list sent with subscription_succeeded may be older than a member_removed already delivered
  (hub.go:189, against pusher-channels.md:82);
* a socket that changed its user_id stays in the earlier user's entry after it is gone (hub.go:91,
  against the comment at hub.go:469);
* the channel of a client event is looked for inside data (client.go:250), so the message shown at
  pusher-channels.md:119-127 is refused;
* a peer whose node has sent its SUBSCRIBE but is not yet registered misses a client event although
  nothing fails (redis.go:62, against pusher-channels.md:128);
* deliveries are never tried again (dispatcher.go:112, against webhooks.md:227-228), and a hook called
  past the deadline fails at once and may have no record, since that is saved under the same deadline
  and the store's error is dropped (dispatcher.go:114, against webhooks.md:229);
* terminating a user deletes its devices without `beams_device_deleted` (beams.go:361, against
  webhooks.md:30), and a unified broadcast tells of no push (beams.go:479);
* two notifications are two goroutines: occupied and vacated of a channel may arrive in the other
  order (dispatcher.go:44);
* an expired session keeps failing on every page, since only /api/auth/me clears the token and no
  page asks for it (api.ts:37); an app that cannot be loaded is a spinner for ever (page.tsx:67);
* the sidebar of the documentation lists eleven ids without an article (docs-data.tsx:53);
* the memory store's DeleteApp leaves what the SQL schema removes by cascade (memory.go:145);
* `terminate_connections` of a channel answers 200 and does nothing (api.go:372-376, against
  pusher-channels.md:258-259);
* statistics are zeros with status 200 when the broker fails (api.go:760, 764).

What the properties excuse. Some of the code's races are plainly there, and the properties about
the state they spoil are stated for all other behaviours: they show that nothing but the race does
the damage, and where a repair exists, that it works. `exact` (`Webhooks`, `Beams`) excuses lists
that overlapping or failed calls made wrong, until a load that runs alone; `raced` excuses a device that
a write-back brings up again; `spoiled` excuses credentials that overlapping uploads or a lost
write cost; `turned` and `calm` (`Session`) excuse a token changed under a mounted layout and
overlapping calls of it; `touched` and `abandoned` (`Pages`) a category the user chose and a
selection another navigation overtook. These cases are hazards of the code that no property here
rules out, because the code does not. Two things are more than that: a lost SUBSCRIBE-time event
between nodes (redis.go:62) has no property, and `SendingIsOneRequest` is safety only, so that the
button comes back is not checked.

Bounds. `MaxOps` bounds the commands of a connection, `MaxMsgs` the messages of a publisher,
`Subs` the subscriptions ever created; `AdminCalls` and `Shutdown` switch those callers on.
Two commands are what it takes to subscribe and unsubscribe, to subscribe twice, or to change
user; two clients race for first and last, and the disconnect is a leave of its own. Two
subscriptions let a topic close and reopen during a Publish, or two topics be open; a
capacity of one makes a subscription full with the second message. In `Cluster`, `MaxEvents`
bounds the events of each sender, `MaxJoins` the subscribe commands of a client and `MaxSubs` the
subscriptions a node opens for a channel: order needs two events of one sender and a subscription
that works off its rest while another is open; at most once needs every route of an event, by
the own node's cast, its own relay, an old and a new relay.

In `DebugConsole` a stream of two entries lets system events push others out, two
connections make one close late after the other was opened, and two visits bring the stored copy
and the history back. Two events are what an order takes. One click is enough for every way in which
the lists of the page and the server come apart, since the default channel, the other channel's events
and the first visit prepare it. Which events cannot be saved is a constant, and one saved and one
not are both kinds. `Webhooks` needs a third call for a load beside two deletes or a create;
two units let one hook, the store, or both use up the deadline before the next hook, and leave
the next hook its time when one answered within its timeout. In
`Beams` each property is about one device or the two halves; three calls are two that overlap and a
load beside them, or two pushes, the second of which takes the first from a list of one. `Session` has two
calls since every race here is of two answers, or of an answer and a navigation (and the index page
alone makes two, so there are never fewer); a call takes any free slot, and slots are free again
when a call ends, so behaviours are not cut. In `Pages` three calls are polls that overtake one another, two messages and a limit of
one are a search that leaves something out, and four entries of the browser's history allow to go back two and on from there. Call slots of
`Webhooks` and `Beams` are used once each, so `MaxCalls` and `MaxRequests` bound the whole run.
Clients, and in `Session` accounts and apps, are symmetric where no liveness is checked.

Deadlock is checked in the hub's runs, with `AllGone` as the legal end. The other runs turn it off,
since those systems rest when the bounded events, calls and commands are used up. The broker also
stops in the lock cycle, and what is checked instead is that nothing else stops it.

Fairness. `Advance(c)` is everything ReadPump's goroutine does without input, `CloseKicked(c)`
the rest of a Terminate call: the Go scheduler runs both when they can run, so each has weak
fairness. Commands, drops and Terminate calls are the environment's and have none. That lock and
broker calls return is an assumption of `Hub`; `broker_returns` shows when it fails and
`broker` that it fails only then. In `MemoryBroker` weak fairness per thread is enough
although mutexes are contended, because calls are bounded and a waiter is in the end alone. In
`Cluster` senders and relays are goroutines with weak fairness, Redis confirms what it was asked
for, and joins, leaves, new events and crashes have none. Liveness there is checked without loss,
which the code does not prevent. In `DebugConsole` a handshake ends one way or the other and the
browser delivers what has arrived; in `Webhooks` a dispatcher goroutine goes on, since the client's
timeout and the deadline bound its waits; `Beams` and `Session` state
none. `Pages` states none either: `StatsCatchUp` is an implication, for a page that stays open and
is answered again and again. Users, other clients and the API's callers never have any.

Mutants: next to each action that a property guards stands a *Faulty* variant, the action as a
plausible mistake would have it. They are not part of any specification; each breaks the
property it is paired with in `PROJECT.json`.

## The proofs

The proofs hold for any sets of clients, channels, users, nodes, threads, subscriptions, accounts,
hooks and devices and any bounds, under the named assumptions of the modules: the kinds of channels
are disjoint and the wildcard is a public name, `NoUser` and `NoChannel` are no user and no
channel, bounds are natural numbers, a capacity is positive, thread sets are disjoint, the session
has room for the two calls of its index page; and for the pages, users are no interests, the
quickstart is an article and every article has a category. One theorem has a hypothesis of its own, `AbsentAnnounced`.

Every invariant and refinement that a passing run checks is proved. No property worth
checking is inductive as it stands; each section names what had to be added.

**Hub.** `OneSubscriptionPerChannel` is not inductive: a state where two goroutines are opening
the same channel satisfies it and leads to two subscriptions. `IInv` adds

* `Placed`: a goroutine in an operation has a channel of the right kind, and only then;
* `LeaseInv`: who is opening a channel is subscribed to it, is the only one, finds no stored
  subscription, and finds none or one live according to how far it is; a channel with local
  subscribers and no stored subscription is being opened by somebody.

Join needs that an empty channel has nothing stored and nothing live, and Leave that a client
that leaves is not opening, since it does one thing at a time: so the last to leave finds the
subscription stored. From `IInv` follow `TypeCorrect`, `SubscriptionsBacked`, and `Refinement`:
each action is mapped to its abstract step (`JoinHolds`, `OpenAcquires`, `StoreGrants`,
`LeaveReleases`) or to a stutter.

**Members.** `MineInv` says of each client what its own goroutine has written so far at each of
its points: `Registration`, `Membership`, `Filed`. It is inductive because no step of another
client touches any of that (`OthersUndisturbed`), so only the client's own steps need an
argument (`OwnRegistration`, `OwnMembership`, `OwnFiling`). At the points between operations it
says that the tables agree: `MembershipAgrees`, `PresentKickable`. Of a connection that is gone it says
that the tables have nothing of it but entries of the user index under user_ids it gave up, and
none under its last: `GoneForgotten`.

**Announcements.** The webhooks speak late, so that what they said last may be wrong at any moment.
What is inductive is that somebody is on the way to putting it right: whoever removes the
last member of a channel left announced as occupied is between its removal and its report that
the channel is vacated (`OccupancyInv`), and whoever removes a user's last socket is between that and its
`member_removed` (`MemberInv`, with `PersonalInv`: a client works on behalf of its own user). When nobody is in an operation
the announcements are therefore true: `EmptyNotOccupied` and `AbsentAnnounced`. The second assumes
`OneUserEach`, that a client's tokens name one user: a re-subscription under
another one replaces the earlier member without a word (see below).

**Broker.** `NoPanic` follows from `SubHeld`, who has `s.mu` while sending, closing and being
removed, together with types and `Located`: `NeverPanics`. The other properties need
`DeliveryInv`, which adds

* `LockInv`: who has `m.mu`, to read and to write;
* `LeaseInv`: a topic has one holder, and an open subscription belongs to it;
* `ListInv`: `m.subs` lists nothing twice, what is left of a range loop is still listed, and of
  the closed ones only those whose closing is under way are;
* `GotInv`: while a Publish is under way, whoever got its message is the one open subscription of
  the topic, and that one is still ahead or has been served.

A channel that closes and reopens during a Publish would have two subscriptions, but not while
the Publish has `m.mu` read-locked, since removing and adding both wait: `RelayedAtMostOnce`,
`ListIsLive`, `PublishReaches`. `OnlyTheCycleBlocks` is a liveness property and stays with TLC;
its safety half is proved. `OwnersInv` says where in the code the owner of each mutex is and who is
inside `Lock`. So whoever waits for `h.mu`, `s.mu` or `m.mu` waits for somebody who goes on, or
along a chain that ends in one, or in a reader or the broker's Close that waits for the `s.mu`
of one that waits for `m.mu`, and that is `LockCycle`: `NoOtherDeadlock`. `Waits` and `GoesOn` there are read
off the guards of the actions; for the free places of `Subs`, a bound of the model, nobody waits.

**Cluster.** `EventInv` follows an event through one node. `ToCome(x, d)` is what thread `x` may
still give to client `d`: the event it is casting while `d` is among its recipients, and for a
relay what is in its queue. The invariant says:

* `OneSubscription`, `OneRelay`: a channel has one open subscription at most, and no two relays of a
  node hold the same event, since a closed subscription keeps only what came before;
* `SenderInv`, `RelayInv`, `CopyInv`: what senders and relays hold was sent, and queues are in order;
* `GivenInv`, `Fresh`: what a client was given was sent to it, and nothing is to come that it was
  given already. So an event comes once, over whichever route;
* `RestIsOld`: what a closed subscription still holds is older than every present subscriber's join;
* `InTurn`: what the open one still brings, if sent since the join, is newer than what came.

`Receding` and `Quiet` are the two kinds of step that give nothing to anybody, and most actions are
one of them (`RecedingStep`, `QuietStep`); `EnqueueKeeps` is the step that does. From `EventInv`
follow `Order`, that is `InOrderSinceJoin`, and `Implements`: an enqueued event is a step of
`EventBus`, which gives only events not given before, an event begun is its send, and all else is
a stutter.

**Console.** `SocketsFollowPage` alone is not inductive: the app that arrives connects without
asking whether there is a socket. `SocketInv` adds that while the app is being loaded the page is
disconnected (`WaitingIsDisconnected`), and disconnected means by `SocketsFollowPage` itself that no
socket is live (`DisconnectedHasNone`); so whoever connects is alone (`ConnectKeeps`), and every
other step leaves one socket or closes it (`SocketStepKeeps`). Theorem `OneConnection`.

`JoinedIsSubscribed` and `SubscribedIsListed` speak of moments when nothing is under way. `SubsInv`
says the same of the table the server *will* have when it has served what is under way
(`WillHaveJoined`, `WillHaveListed`); an open connection is still to be greeted, and will ask for all
of the ref then, or has asked already. Theorems `JoinedSubscribed`, `SubscribedListed`.

`StreamInv` is about events. What is to come over the socket that listens was sent to everybody, since
a browser has one connection and each event one recipient at most (`CastsInv`); it may be above
whatever came live and is listed or was stored, and above what comes before it (`ToComeIsNewer`),
because an event begun after it had been sent to all could not be there yet (`SendKeepsStream`). Only
one socket has anything to come (`OnlyLiveHears`, from `SocketsFollowPage`), and a test event
accepted is one that the page has not listed yet (`AcceptedIsNew`). Lists stay in order when entries are put on top, filtered (`WithoutIsPart`: what
`Without` leaves is a part of the list, in its order) or cut. Theorem `StreamOrdered`.

**Webhooks.** `ListInv`: an exact list and the store differ only while a call is under way that will
repair the difference or own up to it (`ExactOrRepaired`), and what a call that is alone has read, or
keeps of the render that started it, is still true (`AloneIsCurrent`, `AloneIsAlone`). Theorem
`OneAtATime`. `DispatchInv`: of the hooks a notification read, those it has passed were called in time or came
after the deadline, and have a record or were refused one (`PassedAccounted`); the time that is gone
went to the store or to hooks called in time, each of which had a timeout (`TimeAccounted`, with
`OneMoreCalled`); hooks that are read keep their events, since a new one has a new number
(`NotesInv`). Theorem `EveryHookAccounted`.

**Beams.** `BeamsInv` has two independent halves beside the types. For devices: whoever has a device in hand
has read one that was given out (`InHandIsKnown`), and a deletion marks it as raced, so
`UpsertDevice` can bring back only those: `DeletedStaysDeleted`. For credentials: as long as no
upload overlapped another, an upload in hand has a current copy (`CopyIsCurrent`), so writing both
halves loses none, and an upload that was answered is saved (`AnsweredIsSaved`), so the page
says "Configured" rightly: `HalvesAreKept`, `ConfiguredIsTrue`. Most actions touch neither half;
`HarmlessStep` says so once, and their proofs are that they are harmless. `PageInv` is about the
page: it is sending exactly while one push of its own is under way (`OnePush`: `SendingIsOne`), what
it reported is about a call that is over as a push (`FeedbackInv`), so nothing more is saved of it
(`ReportsAlike`), and it is among the deliveries that a load saw with no other beside it
(`LoadInv`); the list such a load brings has it therefore, unless as many came after it as a list
has places (`ListInv`): `ReportedIsListed`.

**Session.** `SessionInv` says of every call under way what it is for: a call of a page that is shown
fits the route (`CallInv`); unless the token was changed under the layout, the layout's calls have the token
of the account signed in and bring its apps (`OwnInv`); as long as they are calm there is one at a
time, and it brings every app or keeps those of its render (`CalmInv`); and there is one call for
each form that is disabled and each page that spins (`BusyInv`). Theorems `AppsAreOwn`,
`CalmIsComplete`, `BusyIsCalling`.

**Reading pages.** `UrlShowsItsArticle` is about rest; `DocsInv` adds what holds while a push
is under way: the article shown is already the pushed one unless the selection was overtaken
(`ShownWhilePushing`), and the sidebar's category is the URL's or the user's choice
(`ListedUnlessTouched`). `FollowKeeps` is the effect on the URL, used by `PushKeeps` and
`TraverseKeeps`. Theorems `UrlDecidesTheArticle` and `SidebarFollowsTheArticle`. `CopiedFades` is
inductive with the timers' type (`FadingInv`): `CopiedIsFading`. `SearchInv` adds that the button is
disabled for one search under way, which is the one last asked (`SearchUnderWay`), and that its
answer is the newest messages of at least those stored when it began (`SearchAnswered`), of which the
limit leaves out only those with enough newer ones (`NewestLeaveOutTheOldest`): `SearchIsTheLast`.

Only model-checked: the seven liveness properties (`ClosedIsForgotten`, `KickedIsForgotten`, `OnlyTheCycleBlocks`,
`RelayedInTheEnd`, `ConnectingEnds`, `HookIsToldInTheEnd`, `StatsCatchUp`), since fairness and
ENABLED are out of the prover's reach; the two counterexamples; and that `Without` is the library's
filter, which is defined by recursion.

## Not modelled

Presence in Redis, presence events between nodes, the send queue, the rate limiter, the memory
store's cascades and updates of apps and keys are planned below. Cryptography, tokens' contents, request parsing, JSON,
metrics, configuration and the deployment files have no control of interest here, and neither have
the dashboard's articles, code samples, table of links and theme. A connection whose user_id is
empty is not modelled: the hub neither unfiles it nor announces its removal (hub.go:89, 275). A
user who is replaced by a re-subscription under another user_id is never announced as removed;
`AbsentUserIsAnnouncedRemoved` is therefore checked for clients that keep to one user_id.

## Plan

1. **RedisPresence**: the presence hash and the occupied set of several nodes, command by command
   (HSET, SADD; HGET, HDEL, HLEN, SREM), with crashes; presence events between nodes and
   TerminateUser on several nodes.
2. **Client**: send queue at its limit, WritePump, ReadPump and Close.
3. **Store**, **RateLimiter**: memory store against the SQL store's cascades; bucket bound and one
   limiter per key.
4. **Proofs** for the modules above, by the same arguments; for `Cluster` and `Webhooks` what
   `NoOtherDeadlock` is for the broker: that something can always go on where a liveness property
   says that something will.
