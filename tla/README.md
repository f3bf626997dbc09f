# Cipher CLI: a TLA+ verification project

Cipher CLI (`src/`) is a messenger: a Rust library, `client-core`, that queues,
sends, fetches and assembles encrypted messages over HTTP and WebSocket relays,
and a command-line program over it.  There is no server in the repository.
Relays are external; what they do is modelled from how the client uses them and
is marked external in `PROJECT.json`.

The core of the program, and of this project, is the path of a message:

```
 send_text / send_file / send_receipt / presence             (SwarmClient)
      | queue_message                                        Conversations
      v
 MessageOutbox --flush_outbox--> post_json_failover          Outbox
      :                              | POST /store
      :                              v
      :                          relay mailboxes             (external)
      :                   /fetch + /ack |    | WebSocket push
      :                                 v    v
 (other client)              unread list   ws channel        SwarmInbox
                                 |             |
                                 +-- drain ----+
                                        | process_incoming   SwarmInbox (dedup)
                                        v                    Conversations (dispatch)
                              inbox, statuses, chunk buffer
                                        | receive_all
                                        v
                              caller (CLI recv, chat, FFI)   CliRecv
```

Every arrow runs in several tokio tasks at once: the sync daemon has a poll and
flush loop, a processing loop and a presence loop, a WebSocket task runs beside
them, and a CLI command polls, processes and flushes on its own.  They share
state behind `tokio::sync::RwLock`s.  All of it is memory only.


## 1. Inventory

Each row: the state a part keeps, its operations, and what makes it correct.
`PROJECT.json` lists the source files of each part and, under "hazards", every
place where it is hard to test, at its line.

| Part | State | Operations | Correct when | Module |
|---|---|---|---|---|
| Outbox, `transport/direct.rs` | `pending` per recipient, `delivered_count` | `queue_message`, `flush_outbox` | accepted messages are not lost, owed twice or out of order, or posted again after confirmation; capacity is kept; a message is eventually stored | `Outbox` |
| Relay failover, `network_bundle.rs` | `RelayPool::bases`, ranks | `post_json_failover`, `merge_bases`, `post_fetch_parallel` | a healthy relay is reached if there is one | `Outbox`, `SwarmInbox` |
| Receiving, `transport/direct.rs`, `websocket_signal.rs`, `swarm_client.rs` | `unread`, `incoming_rx`, `seen_ids`, `inbox` | `poll_incoming`, push and ack, `drain_unread`, `process_incoming`, `receive_all` | what a relay held is shown, and once | `SwarmInbox` |
| Conversations, `swarm_client.rs` | `message_ids`, `statuses` | `send_text`, receipt handling, `send_receipt`, `send_read_receipts` | statuses are true and never go back | `Conversations` |
| File transfer, `swarm_client.rs` | `chunk_buffer` | `send_file`, the `File` and `FileChunk` branches | a file is shown whole, once, for any order of its parts | `Conversations` |
| CLI send, `commands/send.rs` | where the command is | queue, two flushes, report, exit | what is reported is true | `CliSend` |
| CLI recv, `commands/recv.rs` | where the command is | poll, process, print, exit, `--follow` | what was acknowledged is shown | `CliRecv` |
| Presence, `swarm_client.rs` | `peer_presence`, `presence_enabled` | heartbeat, sweep, opt-out, `cipher_go_offline` | who opted out is seen offline | `Presence` |
| Relay and signal pools, `network_bundle.rs` | `bases`, `last_refresh`, `refresh_lock`; `urls`, `ranked` | `ensure_fresh`, `refresh_network`, `ordered_urls` | one refresh per expiry; what the chain lists enters the pool | `FederatedPools` |
| WebSocket loop, `websocket_signal.rs` | its URL list, index, connection | connect, rotate, reconnect | connected again after each loss | `FederatedPools` |
| Transport modes, `transport/mod.rs` and its layers | mode, state of Iroh, Nym, Tor | `start`, `set_mode`, `queue_message` | a queued message is in an outbox that is flushed | `TransportModes` |
| Bluetooth mesh, `ble_mesh.rs` | `relay_queue` | send, drain, relay | every flood ends and reaches far enough | `BleMesh` |
| Calls, `calls.rs`, `turn_proxy.rs`, `ffi.rs` | `active_calls`, `active_peer`, a lock each | dial, accept, decline, hang up | a connected call was answered, and the other side has it or is told of its end; media goes to a call | `CallSignaling` |
| Encryption, `encryption.rs` | root and chain keys, key pairs | encrypt, decrypt, ratchet step | both ends derive the same keys | `DoubleRatchet` |
| Groups, `groups.rs` | members, roles, key, epoch | create, add, remove, permissions | the members know the key, nobody else | `Groups` |
| Bots, `bots.rs` | `handlers`, `bots`, `updates` | create, route, poll | what is routed arrives | `Bots` |
| Usernames, `username_registry.rs`, `tks_rpc.rs` | `cache`, `reverse`, the chain | register, resolve, check, set local | who is told that a name is theirs gets it | `Usernames` |
| Token transfer, `commands/transfer.rs`, `tks_rpc.rs` | nonce, transaction, the chain | nonce, sign, submit, failover | nothing is paid twice | `TokenTransfer` |
| Session and identity, `session.rs`, `identity_store.rs`, `main.rs` | the two files, the clock | login, logout, init, restore, any command | no use after logout; no seed phrase lost | `CliSession` |
| CLI groups and channels, `commands/groups.rs`, `channels.rs` | one file each | load, edit, save | what was stored is kept | `CliRecords` |
| Shell, `commands/shell.rs`, `status.rs` | focus and its lock, the receiver's batch | receive, `/chat`, `/status`, `/quit` | what arrives is shown; `/quit` quits | `Shell` |
| `cipher_init`, `ffi.rs` | `STATE`, clients with daemons | init, receive | what was acknowledged reaches the application | `AppClients` |
| Wi-Fi mesh and coordinator, library channels, wallet, anti-censorship, AI helpers, formats, other commands | little or none | see section 5 | - | not modelled |


## 2. Modules

### `StoreAndForward` and `Delivery` - what is promised

Two abstract specifications.  `StoreAndForward`: an accepted message stays owed
until a relay holds it; a relay may come to hold it without the client
learning so; it is never forgotten before.  `Delivery`: what a relay
held for us is shown, each message once.  Both have fairness: what is owed is
eventually handed over, what arrived is eventually shown.

### `Outbox` - sending

| TLA+ | Code |
|---|---|
| `pending`, `delivered` | `MessageOutbox` |
| `holder` | the task inside `flush_outbox`, which keeps the outbox write lock over all its awaits |
| `taken`, `cur`, `batch`, `failed`, `stats` | its local variables |
| `posting`, `untried` | `post_json_failover` in progress, with its snapshot of the pool |
| `pool`, `store` | `RelayPool::bases`; what the relays keep (external) |
| `accepted`, `refused`, `confirmed` | history, read by properties, and by `QueueMessage` so that a message is queued once (a fresh uuid) |

`QueueMessage` is `queue_message`.  `StartFlush` is the `mem::take` and
`NextRecipient`, `BeginPost`, `PostStored`, `PostRejected`, `PostFailed`,
`PostExhausted`, `EndRecipient`, `EndFlush` are the steps between the awaits of
the flush.  The bases of one POST are tried in any order: the ranking is by
measured time, and a property that holds for any order holds for that one.  A
relay may keep a message whose POST failed (`MayKeep`).  `mark_delivered`,
`get_pending` and the peer list have no caller outside the tests and are left
out.

### `CliSend` - `cipher-cli send`

Extends `Outbox` by the command: `send_text`'s queueing and flush (result
ignored), the command's flush (result decides), the report and the exit.
Everything else in the process goes on beside it (`Others`).

### `SwarmInbox` - receiving

| TLA+ | Code |
|---|---|
| `mailbox`, `copies` | the relays' mailboxes (external), and how often each message was stored |
| `responses`, `acking`, `ackIds` | per task in `poll_incoming`: answers not yet handled, the `/ack` in progress |
| `wsQueue`, `wsAcks` | `incoming_rx`, the spawned `/ack`s |
| `unread`, `seen`, `inbox` | `MessageInbox::unread`, `seen_ids`, `SwarmClient::inbox` |
| `batch`, `handling` | per task in `process_incoming`: what it drained, what it is receipting |

Queues are bags: no property is about the order of arrival, and several relays
and two channels give none.  `Remember` prunes any `SeenPrune` ids, because a
`HashSet` iterates in arbitrary order.  Messages of the kinds that never reach
the inbox (receipts, presence, call media) are those in `Msg \ Shown`, envelopes
that do not decode are `Opaque`.

### `CliRecv` - `cipher-cli recv`

Extends `SwarmInbox` by the command's phases.  `Exit` forgets everything that
is only in memory, at the moment the code returns from `run`, while the
daemon's tasks are wherever they are.

### `Conversations` - statuses, receipts and files

Two or more clients.  `QueuePart`, `Track`, `TextFlushed` and `FileFlushed` are
`send_text` and `send_file`; `TakeText`, `TakeHeader`, `TakeChunk` and
`TakeReceipt` are the branches of `process_incoming`; `SendDelivered` and
`PushInbox` what follows them; `OpenConversation` and `SendRead` are
`send_read_receipts`.  The write lock of `conversations`, which `send_text`
holds over its flush, is the operator `Unlocked`.  Between clients an envelope is queued,
stored at some time and handled at some time, in any order: that is what
`Outbox` and `SwarmInbox` are shown to provide, so that relays do not
appear again.  (That it is handled once is `HandledOnce`, which holds while `seen_ids`
is not pruned.)

### `Presence` - heartbeats

One publisher and one watcher, in ticks of 15 s.  `ReadFlag` and `Heartbeat` are
the two halves of the heartbeat loop: `presence_enabled` is read, and acted upon after
an await.  `SetEnabled` and `BroadcastOptOut` are the two halves of
`set_presence_enabled(false)`.  `Receive` overwrites the entry with whatever arrives;
`Sweep` is the 45 s cutoff.  Notices may be lost, delayed and reordered at will.

### `FederatedPools` - relay pool, signal pool, WebSocket loop

`stage[t]` says where a task is between `ensure_fresh` and the end of
`refresh_network`: waiting for `refresh_lock`, asking the chain (`ChainAnswers`,
`ChainFails`), asking `/discovery` (`Discover`), merging and ranking the signal pool
(`MergeSignals`, `BeginRank`, `EndRank`).  `ordered_urls` of the WebSocket loop ranks
without the lock.  `WsList`, `WsEnsured`, `WsConnect`, `WsDrops` are
`connection_loop`; the list it read stays with it (`ws_urls`) while the pool
changes.  `WsEnsured` can only happen with an empty signal pool, which is the
instance of the run `ws_loop`.

### `TransportModes` - the router

`startup` is `start()` in its own task: it reads the mode once, after a refresh,
and bootstraps the layers of that mode.  `SetMode` runs beside it and
bootstraps nothing.  `BeginQueue` reads the mode, `EndQueue` hands the message to a
layer that is not Disabled.  Only the direct outbox is flushed (`Flush`).

### `BleMesh` - flooding

`relay_queue` holds hop counts of one message; `Drain` broadcasts to the
devices in range, `HandleReceived` delivers or relays with one more hop.  Nobody
remembers what it relayed.

### `CallSignaling` - calls

Two devices, each with the `active_calls` of its `CallManager` and the peer of its
`TurnProxy`.  `ffi.rs` exports `cipher_call_initiate`, `cipher_call_accept` and
`cipher_call_hangup` (and `add_ice_candidate`).  Each takes the lock of the sessions,
lets go of it, takes the lock of the proxy's peer and sends a signal: `Initiate`,
`Accept` and `Hangup` are the first half, `SetPeer` and `DropPeer` the second, and
`doing` says between which halves a thread of the application is.  Threads run
between the halves as they like.

`decline_call`, `handle_offer` and `handle_answer` have no caller under `src/` but tests.
The application is taken to hand a signal that arrived to the method made for it
(`Deliver`), to hang up what the other side ended, and to decline any call it knows
of, in whatever state: `decline_call` looks at none, does not touch the proxy and sends nothing.

### `DoubleRatchet` - keys

Keys are symbolic: a root is the sequence of the secrets that went into it, so that
two keys are equal only when both ends derived them alike.  The link keeps the
order and may lose messages.

### `Groups`, `Bots`, `Usernames`

`Groups`: `members` is a sequence, since `create_group` takes duplicates; a key
is named by the epoch that drew it; `knows` is who was a member under it.
`Bots`: one step per lock acquisition of `create_bot` and `route_message`.
`Usernames`: `register` from lock to request to lock (`LookUp`, `AskNodes`,
`CheckReverse`, `AskAgain`, `Submit`, `StoreName`) and `register_address`
(`RegisterAddress`, `Resend`), called by any threads, since no lock is held over a
call, against a chain that takes the first extrinsic and nodes that lag behind
it (`Query`).  A submission that times out may have been taken all the same.

### `TokenTransfer`, `CliSession`, `CliRecords` - commands beside commands

These are about several processes of `cipher-cli` at once, which nothing keeps apart.
`TokenTransfer`: nonce, one signature, failover over the nodes of the bundle; a
node that fails to answer may have taken the transaction.  `CliSession`: every
access to the identity file or the session file is a step; the clock ticks in
between.  `CliRecords`: load, edit, truncate, write; a process may die anywhere.

### `Shell` and `AppClients`

`Shell`: the receiver and the input loop, and tokio's fair `RwLock` over the focus:
`queue` is its line of waiters, `guards` the read guards of the receiver.
`/status` leaves a second daemon behind (`spare`), whose inbox nobody reads
(`strays`).  `AppClients`: calls of `cipher_init` whose daemons start before the steps
that may fail.

### Which module composes which

`CliSend` extends `Outbox`, `CliRecv` extends `SwarmInbox`; `Conversations` stands on
what the two promise.  The other components share no state with each other: each
manager has locks of its own, each command files of its own, and what one does
enables or disables no step of another.  A behaviour of them all is then an
interleaving of behaviours of each, and a property of one component sees only the
steps of that one.  `FrontEnds` and `Background` use this: they extend the
components, choose one in the initial state (`part`) and let it run while the others
rest.  (That a behaviour of them is one of each component is proved: `EachIsItself`,
`EachKeepsToItself`.)  `MCFrontEnds` and `MCBackground` give them their instances.

Two modules serve the others: `Optional` declares `None`, and `Vec` says what
`Vec::retain` leaves of a sequence, without recursion, so that `Groups` and
`CallSignaling` can be proved about.

The modules with proofs are `OutboxProofs` (`Outbox` and `CliSend`), `InboxProofs`
(`SwarmInbox` and `CliRecv`), `ConversationsProofs`, `ManagersProofs` (`CallSignaling`,
`Groups`, `Bots`, `AppClients`, `DoubleRatchet`), `UsernamesProofs`, `CommandsProofs`
(`CliSession`, `CliRecords`, `TokenTransfer`, `Shell`), `BackgroundProofs`, and
`FrontEndsProofs` over them.

### Granularity

A step is the code between two awaits.  Two steps are merged where nothing
another task does in between can be told apart: the pushes of one response in
`poll_incoming` (`push_received` in a loop), the draining of the two channels,
the seen check with the lock it waits for next.


## 3. Runs

| Run | Checks | Instance | States |
|---|---|---|---|
| `outbox` | `OutboxTypeOK`, `NothingLost`, `NoRetryAfterConfirm`, `KeepsOrder`, `WithinCapacity`, `ImplementsStoreAndForward` with liveness | 3 messages of one recipient, capacity 2, 2 relays, 2 flushing tasks | 0.4 million |
| `send_lost` | `SentMeansStored`: **violated** | the user's message and a receipt for another peer; 2 tasks, 2 relays | |
| `recv_lost` | `AckedIsShown`: **violated** | a text that is stored twice, a receipt, a garbled envelope; 2 relays, 2 pollers and workers, WebSocket | |
| `inbox_delivery` | `ImplementsDelivery`, with liveness | a text, a receipt and a garbled envelope; 1 relay, 1 task, WebSocket | 0.5 million |
| `seen_pruning` | `RemembersLatest`: **violated** | 2 texts, pruning at 1 | |
| `conversations` | `TypeOK`, `StatusIsTrue`, `ShownWhole`, `AllArrivedIsShown`, `NeverRegresses`, `SentIsShown` | alice sends a file of 2 chunks, bob a text; bob has 2 workers and sends read receipts; capacity 3 | 150 thousand |
| `early_receipt` | `ReceiptUpdates`: **violated** | the same | |
| `calls` | `MediaHasACall`, `ConnectedWasAnswered`, `ActiveIsShared` | 2 devices, 2 call ids, 2 threads, 2 signals on their way; devices, ids and threads are symmetric | 1.3 million |
| `front_ends` | see the next table | 12 components, one at a time | 0.9 million |
| `background` | see the next table, with liveness | 4 components, one at a time | 85 thousand |
| `ws_loop` | `PushComesBack`: **violated** | a bundle without signal URLs; 2 relays that serve both | |
| `shell_deadlock` | `QuitExits`: **violated** | 2 texts of 2 peers | |

The parts of `front_ends` and `background`:

| Part | Checks | Instance |
|---|---|---|
| calls | its types (the run `calls` checks the rest) | 2 devices, 1 call id, 2 threads |
| groups | `KeyIsTheMembers` | 2 other addresses, 2 invitations (duplicates too), 2 rotations |
| bots | `RoutedArrives` | 2 bots that take over each other's commands, 2 updates each |
| ratchet | `DecryptsUnlessGap` | 8 key pairs, 3 messages per chain, 2 in flight each way, losses |
| usernames | `ToldIsOwned` | 2 names, 1 rival, 2 threads, restarts, lagging nodes; names and threads are symmetric |
| init | `LossNeedsFailedInit` | 2 calls of `cipher_init`, 2 identities, 3 messages |
| send | `FalseReportNeedsTraffic`, `FalseAlarmNeedsTraffic` | as `send_lost`, with two recipients |
| recv | `HeldUntilExit`, `HandledOnce` | a message that is stored twice, on 2 relays; 2 pollers and workers |
| session | `LockedStaysLocked`, `OverwriteNeedsOverlap` | 2 processes, 2 identities, a session of 1 tick on a clock of 3 |
| records | `ToldIsKept` | 2 processes, 2 records, deaths at every step |
| transfer | `OnePaymentPerRun`, `PaysAfterTheMined` | 2 runs, 2 nodes that lag behind |
| shell | `ShownUnlessAway` | 2 texts of 2 peers |
| presence | `OptOutShows` | a period of 2 ticks, a cutoff of 3, 2 notices in flight |
| mesh | `FloodEnds`, `ReachesTarget` | a triangle and a line of two from it, 2 relays |
| pools | `OneRefreshPerExpiry`, `PoolKnowsChain`, `PushComesBack` | 3 relays, of which 2 answer and 1 pushes; 4 tasks |
| modes | `LeavesUnlessEarlyMode` | 2 messages, every mode at any time |

Why these bounds are enough to see the interesting cases:

- *Capacity 1 to 3* stands for 1000: queues do fill up, are refused and are put
  back while full.  The limit is compared and nothing else.
- *Two relays* are the least for which failover, an answer lost at one relay
  and stored at another, and an `/ack` that goes to the wrong relay exist.
- *Two tasks* is what the program has: the daemon, and the command.
- *Two processes, runs, calls, bots, devices, threads* are the least for an overlap.  The clock
  of `CliSession` goes past the end of a session and of a second one after it.
- *The mesh* has a cycle, so that copies come back, and a target at the very last
  hop: one hop fewer, and it is not reached.
- *The pools* have a nearer relay that does not push (r1), a boot URL that does
  not answer (r3), and a relay only the chain names (r2).
- *Three messages for one recipient* let one fail, one succeed and one be
  queued after the flush: the least for a disorder by retries.  Two recipients,
  of which a flush visits one after the other, are in the part `send`.
- *Two calls* between two devices, dialled by one or by both, are the least for an
  answer to one to meet the other.  *`MaxSignals` 2* signals on their way can
  overtake each other; a signal more waits for a place, as it may anyhow.
- *`MaxCopies` 2*: a second copy is what a duplicate is; it may be on the same
  relay (after the first was acknowledged) or on the other.
- *`MaxUnread` 1 or 2* bounds how many copies of one message wait to be
  drained; without a bound a relay whose `/ack` is lost fills the list for ever
  (in the code too: the bound there is memory).
- *`SeenCap` and `SeenPrune`* stand for 500 and 250.  In the passing runs the
  cap is not reached: the run `seen_pruning` says what happens when it is.
- *`Opener`* bounds who calls `send_read_receipts`: with both clients doing so
  the invariants were checked once, on 3.4 million states.

### Fairness

- *Daemon loops* never end and every await of theirs has a timeout, so starting a
  flush and each of its steps, polling, draining, handling and pushing are
  weakly fair.
- *Network.*  It may fail any number of times but not for ever.  `Outbox`: a
  message that is posted again and again is at some time stored and
  confirmed (strong fairness of `PostStoredMsg`).  `SwarmInbox`: a relay that is
  asked again and again at some time answers (strong fairness of `FetchFrom`).
  Nothing is assumed of `/ack` reaching a relay, nor of the WebSocket.
- *Order in `Conversations`.*  `process_incoming` drains everything and handles all of
  it in each round, but the lock it needs comes and goes: taking a part of a
  given item is strongly fair.  A call that queued its first part goes on
  (weak).  Receipts and calls of `send_read_receipts` need never happen.
- *`Presence`*: time passes, the loops go round, a call that began ends (weak);
  nothing is assumed of the network.
- *`BleMesh`*: queues are drained and what was heard is handled (weak).
- *`FederatedPools`*: the tasks' steps are weakly fair, since every request has a
  timeout and the lock is let go; that the chain answers is strongly fair.
  A connection need not ever be lost, nor do sends happen.
- *`TransportModes`*: a call that began to queue ends, the poll loop flushes (weak).
  Nothing is assumed of `start()`.
- *`Shell`* (`shell_deadlock`): the receiver and the input loop run (weak); users need
  not type.
- *Discovery* eventually finds the relays (weak fairness of `MergeBase`), as the
  refresh every 5 minutes and before a stale use does.

### What is violated, and how

Each violated property is what a document, a comment or a message of the
program says; `PROJECT.json` quotes it under "findings".

- **`SentMeansStored`.**  `send` queues its message; its first flush fails it.
  `process_incoming` queues a receipt for another peer.  The second flush
  stores the receipt and fails the message: one delivered, so `Ok`;
  "Message sent!" is printed and the process exits with the message in memory.
  `FalseReportNeedsTraffic` shows that this needs the other message.
- **`AckedIsShown`.**  `recv`'s poll returned nothing; the daemon's poll then
  fetches the message and acknowledges it; the command prints, and exits.
  The relay has deleted it, nobody has seen it.  `HeldUntilExit` shows that up
  to the exit it is not lost.
- **`RemembersLatest`.**  The id inserted last may be among the 250 that are
  removed, so that its second copy is handled and shown again.
- **`ReceiptUpdates`.**  `send_text` queues; the daemon's flush sends; the
  peer's receipt is handled; only then does `send_text` insert the status.  The
  receipt found nothing to update and comes only once: the message stays
  "queued" for ever.  For `send_file` the window is the whole upload.

- **`PushComesBack`** (run `ws_loop`).  The signal pool is empty; `connection_loop` reads
  the empty list and calls `ensure_fresh`, which fills the pool; the loop goes on with
  the list it has: `idx % 0`, and the task is gone.  In the run `background`, where
  the bundle names a URL, the property holds.
- **`QuitExits`.**  The receiver holds a read guard of the focus while it handles a
  message; `/chat` asks to write; the receiver asks for a second guard, for the
  prompt, and is queued behind the writer, which waits for the first guard.
  Both wait for ever and `/quit` is never read.

Facts that the modelling brought out, without a run of their own:

- A base that answers 200 with an error object ends `post_json_failover`: it
  is a success to the failover and a failure to `store_response_ok`.  The message
  is retried, but by the same ranking; a base that keeps answering so keeps it
  from the others.
- A file without data has a header and no chunk, and is never shown (`NotEmpty`).
- The branch of `process_incoming` for "all chunks already arrived before
  header" is never taken: the last chunk has then already removed the assembly and
  shown the file under a made-up name, without a receipt, and the late header
  stays in the buffer.  The Merkle root that `send_file` documents is never
  verified by the receiver.
- A read receipt may go out for a message that has not entered the inbox yet
  (`OpenConversation` between `TakeText` and `PushInbox`).
- `Locks` in `CliSession`: a command that had its password before a logout creates
  its session after it.  A logout that finds the session expired leaves the
  file.  A session outlives the deletion of the identity file: for up to four
  hours commands act as an identity that is no longer stored.
- Two transfers at the same time take the same nonce: both print "Transfer
  Submitted!", one pays.  A run that reports failure may have paid.
- The flush goes on after a failure: a later message to the same recipient may be
  stored first (`direct.rs:200-243`).  `KeepsOrder` is about what is still owed.
- Calls: hanging up one call takes the proxy's peer away although another call may be
  active.  `decline_call` of a call that was dialled or accepted leaves the proxy
  a peer, and the other side a call; `cipher_call_accept` leaves the proxy a peer, too,
  when its call is hung up between its two locks.  The result of sending a `Hangup` is
  dropped (`let _ =`): when the transport refuses it, the other side stays in the call.
  A `Hangup` that is answered by `cipher_call_hangup` is answered by a `Hangup`.
- Two calls of `register` that overlap can both pass the check that the address has no
  other name: the chain takes one, both return Ok (`crossed`).
- In the shell a focus drops what other peers send meanwhile, files too, though
  `shell.rs:3` says "you see ALL messages from anyone".  `/status` leaves a daemon behind
  that takes mail the shell then never shows.
- `group send` and `channel post` count the messages that were queued as sent: what
  `flush_outbox` returns is ignored, and the process ends with what is left.
- `TransportRouter::start` never gets to Tor in mode Auto, because
  `NymTransport::connect` cannot fail.
- The receiver of a ratchet session that sends before it received anything
  encrypts under a chain key of zeros, which nobody can decrypt.

### Exceptions

Some promises hold but for cases that the code does not exclude.  A property that
says `unless` names them, and shows that nothing else breaks the promise; it does
not catch the excepted case, which stays a defect to know of:

| Property | Excepted |
|---|---|
| `LossNeedsFailedInit` | a call of `cipher_init` failed after its daemon started, or has not ended |
| `OverwriteNeedsOverlap` | two commands that store an identity overlap |
| `ToldIsKept` | two commands change a file at once, or one dies while it writes |
| `ShownUnlessAway` | a peer is in focus, or `/status` left a second daemon |
| `ToldIsOwned` | another user asked for the name, or we have another name beside it |
| `LeavesUnlessEarlyMode` | the mode was set before `start()` read it |
| `MediaHasACall` | a call that was dialled or accepted was declined, or an accept overtaken by a hangup |
| `ActiveIsShared` | `decline_call` was used, or the transport refused the `Hangup` |


## 4. Proofs

Every invariant that a passing run checks, and every action property, is a
theorem: for any messages, recipients, relays, tasks, clients, processes, threads, names,
calls, bots, groups, key pairs and capacities, from the named assumptions on the
constants that the modules state beside their declarations.  Of the two
refinements the safety half is proved.  Liveness is not.

The assumptions say what the code's types say: `None` is none of the values it
stands beside, capacities are natural numbers, every message has one recipient
and every item an author and another client as its reader, a call is between
two devices.  `RatchetAssumption` asks for two key pairs, which the sender of a session
needs to exist.

### Sending: `OutboxProofs`

- **`TypeCorrect`**: `OutboxSpec => []OutboxTypeOK`.  It is inductive: beside the types
  it says which phases go together (a POST only with a batch, a batch only
  with a current recipient, nothing taken unless the lock is held).
- **`NothingIsLost`**: `NothingLost` is not inductive: `EndRecipient` replaces the queue
  of the recipient (`HashMap::insert`), which would lose what was queued there.  The
  missing fact is `Exclusive`: while a flush holds messages of a recipient, the
  outbox has none for it.  It holds because `queue_message` waits for the lock
  that the flush holds, and because each recipient is visited once.
- **`CapacityHolds`**: `WithinCapacity`.  Putting back does not look at the limit, so
  that the bound has to be on all that is owed to a recipient: the batch, the
  failed and the taken messages together (`PartsFit`), again with `Exclusive`.
- **`ConfirmedMeansStored`**: `ConfirmedIsStored`, which no run checks by itself.  Relays only gain messages
  (`StoreGrows`), and only an accepted answer confirms (`ConfirmStep`).
- **`OrderIsKept`**: `KeepsOrder`, about what is still owed.  A message passes from the queue through the
  taken ones, the batch and the failed ones back to the queue.  `Placed` says that
  it is in one of these only and where messages of its recipient may be;
  `QueuesInOrder` that each is in the order of acceptance and that what failed is
  older than what the batch still has.  The lemmas on `Before` and `InOrder` say what
  `Append`, `Tail` and concatenation do to an order.
- **`ConfirmedIsDone`**: `NoRetryAfterConfirm`.  A message is at one place, so that
  the confirmed head of the batch is owed nowhere else (`HeadIsNowhereElse`), and
  nothing comes to be owed but by `queue_message` (`OwedStep`).
- **`ImplementsPromise`**: `OutboxSpec => Promise!Spec`, the safety half of
  `ImplementsStoreAndForward`.  Each step is mapped to a step of `StoreAndForward` or to
  a stutter (`PromiseStep`), under the invariants above (`PromiseInv`).
- **`CommandKeepsThePromise`**, **`ReportIsExplained`**, **`AlarmIsExplained`**: `cipher-cli
  send` in its process is an outbox (`SendIsOutbox`), and what it reports can be wrong
  only as `FalseReportNeedsTraffic` and `FalseAlarmNeedsTraffic` say.  The strengthening
  ties the counters of the flush to what became of its messages (`FlushTells`) and
  where the command is to what was confirmed or owed then (`CommandTells`).

### Receiving: `InboxProofs`

- **`RecvTypes`**: the types, with the bound on `seen` that pruning keeps
  (`RememberBounds`).
- **`NothingReceivedIsLost`**: `RecvSpec => []HeldUntilExit`.  The relay deletes what an
  `/ack` names, and a copy is dropped because of its id: the invariant `Held` says
  that an `/ack` in progress, over HTTP or after a push, names only messages the
  process holds or has shown, and that the message of an id in `seen` is being
  handled, in the inbox, or was shown.
- **`HandlesOnce`**, **`RecvHandlesOnce`**: `HandledOnce`, so long as `seen_ids` is not
  pruned.  That is a hypothesis because it is false otherwise (`RemembersLatest` is
  violated): for the daemon that `seen` stays below `SeenCap` (500), for the command
  that there are no more messages than `SeenCap` (`NeverPruned`).  The invariant: an id
  that is not in `seen` belongs to a message nobody has handled (`Fresh`), and a
  message is with one worker, in the inbox or shown (`Once`).
- **`ImplementsDeliveryOnce`**: `InboxSpec => Deliverer!Spec` under the same hypothesis, the
  safety half of `ImplementsDelivery`.  It needs also that a message no relay was
  given is nowhere in the process (`OnlySent`).

### Clients together: `ConversationsProofs`

- **`TypeCorrect`**: `TypeOK` is not inductive alone: that a receipt is an envelope,
  addressed to somebody, needs that its sender takes part in the conversation
  (`OwnIds`), that a worker has tracked what it is about to receipt
  (`TrackedFirst`), and that `send_read_receipts` works on a copy of what was tracked
  (`ReadTracked`).  Together they are `TypeInv`.
- **`StatusesAreTrue`**: `StatusIsTrue`.  A status is set long after the event it
  reports, from an envelope that crossed two outboxes.  The strengthening is
  `ReceiptsAreTrue`: of every receipt in an outbox or on its way, its sender has
  tracked the message (`Delivered`) or had it when it sent read receipts (`Read`).
  It is kept because clients forget neither (`NothingForgotten`).
- **`StatusesNeverRegress`**: `Spec => NeverRegresses`, an action property.  It needs
  that an item which is yet to be tracked has no status (`NoneBefore`), so that the
  insertion of "queued" overwrites nothing.
- **`FilesAreShownWhole`** and **`WhatArrivedIsShown`**: `ShownWhole` and
  `AllArrivedIsShown`, from one invariant, `ShowInv`.  A part is queued, on its way or
  arrived, in one of them (`PartOnce`); an entry a worker or the inbox holds has all its
  parts arrived, and an item has one entry (`EntriesWhole`); and what arrived of an item
  without an entry is what its buffer has (`ArrivedKept`).

### Managers: `ManagersProofs` and `UsernamesProofs`

- **`KeyBelongsToMembers`**: `KeyIsTheMembers`.  A key is drawn for every change of
  the members and no key is known before it is drawn (`GroupsInv`), through any
  duplicate entries: what `retain` leaves is `RetainKeeps`, on which the calls
  rest too.
- **`MediaGoesToACall`**, **`ConnectsTheAccepted`**, **`ActiveCallsAreShared`**:
  `MediaHasACall`, `ConnectedWasAnswered`, `ActiveIsShared`.  `CallsInv` is about both
  devices, the threads between their locks, and what is on its way: a call one holds
  was dialled or offered (`HeldIsKnown`), an offer is only there for a call the other side
  has not heard of (`OfferIsFresh`), an answer only for one that was accepted
  (`AnswerIsSound`), and who accepted has a session or is announcing its end
  (`AcceptedIsShared`).  `PeerHasACall` says when the proxy's peer has a call.  One
  lemma per operation; of the calls an operation is not about, `OtherCalls`.
- **`RoutedIsDelivered`**: `RoutedArrives`.  `create_bot` holds the handlers lock to its
  end (`HeldWhileCreating`), so that nobody routes to a bot whose queue is still to
  be inserted (`NewHasNoQueue`, `FoundHasQueue`).  The bound on queued updates plays no
  part in it.
- **`LossIsExplained`**: `LossNeedsFailedInit`.  What the relay no longer holds was
  returned or is in the inbox of some client of its identity
  (`TakenIsSomewhere`); a call that returned Ok has made its client the application's
  (`StagesFit`).
- **`DecryptsWhatFollows`**: `DecryptsUnlessGap`, for any number of key pairs and
  losses.  What is on the link is an order of chains (`Line`): letters under one key
  follow each other (`Consecutive`), the first of a new key starts a chain from the
  root both sides will then have (`Opening`, `Reachable`), and the first in line is
  what the receiver awaits unless it is behind a gap (`Awaited`).  It was checked
  by TLC on 50 thousand states before it was proved.
- **`NamesAreKept`**: `ToldIsOwned`.  `register` returns Ok steps after its check, with
  other calls in between.  The strengthening says that two names which are ours, in
  the reverse map, or in a call under way are both marked as crossed (`PairsAreCrossed`);
  that the registry has a name of ours in mind, is about to, or forgot it
  (`OursIsKnown`); that another's name was asked for by them (`WantedOnes`); and that only
  `StoreName` marks a record as synced (`SyncedIsTold`).

### Commands: `CommandsProofs`

- **`SessionTypes`**, **`LogoutKeeps`**, **`SeedPhraseIsKept`**: `LockedStaysLocked`: while
  `locked` holds nobody is about to create a session (`LockedInv`).
  `OverwriteNeedsOverlap`, an action property: an `init` that asks for its password
  while there is an identity is in `overtaken` (`OvertakenInv`).
- **`PaysOnce`**, **`PaysOnTopOfTheMined`**: `OnePaymentPerRun` and `PaysAfterTheMined`.  A
  payment is in the place of the chain that its nonce names (`PaidAtNonce`), one that
  waits has the nonce of its run (`WaitsAtNonce`), and below its nonce a run knew
  the chain (`KnewBelow`).
- **`WhatWasToldIsKept`**: `ToldIsKept`.  A process that loaded after the last save holds
  what was told, or what it is to add itself (`CopyKeeps`); one that is `late` does
  not, and only its write, or a file torn by a death, sets `raced`.
- **`NothingGoesMissing`**: `ShownUnlessAway`.  Where the two loops are in their code says
  who is in the lock's queue (`QueueOfWaiters`), and what the receiver still holds
  (`HoldsWhatItShould`): a message it is at is shown before it asks for the prompt.

### In the background: `BackgroundProofs`

- **`RefreshedOnce`**: `OneRefreshPerExpiry`, for any relays, lists and answers.  A
  refresh that was counted has set `last_refresh` or is still before that, under
  the lock (`CountedIsFresh`); the others look again when they get it.
- **`EachKeepsToItself`**, **`TypesAreKept`**: a behaviour of `Background` is one of each of its
  components, and their types hold.

### The front ends together: `FrontEndsProofs`

- **`EachIsItself`**: `Spec => Components`: each step is one of a component and a stutter
  of the eleven others (`StepsOfEach`).
- **`TypesAreKept`**, **`PromisesAreKept`**, **`SeedPhraseIsKeptHere`**, **`HandlesOnceHere`**: so what
  is proved of a component above holds of the composition, each of the properties
  that the runs `front_ends` and `calls` check.

### Only model-checked

Liveness, which the prover does not reach: `SentIsShown`, `PoolKnowsChain`, `PushComesBack`,
`OptOutShows`, `FloodEnds`, `ReachesTarget`, `LeavesUnlessEarlyMode`, and the fair halves of
`ImplementsStoreAndForward` and `ImplementsDelivery`.  And the runs that expect a violation,
whose properties are false.


## 5. What is not modelled

Of everything: ciphers (taken as ideal), formats, signatures of requests, wording and logging.
A timeout is an answer that does not come, a sleep a step that may be late.

Left out of modelled parts:

- `Outbox`: `mark_delivered`, `get_pending` and the peer list, which only tests call;
  ranking by measured time (any order is allowed).
- `SwarmInbox`: call signals and media over the WebSocket, which are not acknowledged
  and not kept; `send_signal`'s outgoing queue and the pings; messages that came
  over Iroh streams (`drain_incoming`), a third source beside the two that is not
  acknowledged.
- `Conversations`: `unread_count` and `mark_read`, which nothing depends on;
  `send_webrtc_media`; the bytes of chunks.  `file_chunker.rs` is called by one
  conversion of `ffi.rs` and not by the transfer.
- `TransportModes`: what Tor, Nym and domain fronting do with a request (only tests
  get there), and `send_signal`.
- `CallSignaling`: `add_ice_candidate`, a list nobody reads; the packets; what
  `send_call_signal` notes in `conversations`, which no call looks at.
- `Usernames`: profiles, node statuses (display only), and the form of names.
- `AppClients`: every other exported function forwards to a component above.

Components without a module, and why:

- *Wi-Fi mesh and coordinator* (`mesh.rs`, `wifi.rs`): tables behind exported
  functions, without a radio; what is received is dropped by
  `cipher_mesh_push_received`.
- *Library channels* (`channels.rs`): a table of its owner's channels that nobody else's
  operation reaches; subscribing to a channel one has not created fails.
- *Wallet* (`wallet_core.rs`, `balance`, `node-info`, `network`): address derivation, signing,
  tables of chains, and single requests.  No state outlives a call but a cache
  whose entries are equal whoever inserts them.
- *Anti-censorship*: its probes are stand-ins and no other part reads the result.
- *AI helpers*: prompts and canned answers.
- *Messages, identity, errors*: formats and key derivation.
- *Other commands*: `chat` and `contacts` use the client as `recv` and `shell` do; `mode` writes a
  file that no command reads; the rest prints.


## 6. Plan

What is left:

1. Say of `recv --follow` and of the daemon under pruning what does hold: a second copy
   is shown only if its id was pruned in between.
2. A safety specification of the status of a message for its author, which
   `Conversations` refines, so that `StatusesAreTrue` and `StatusesNeverRegress` become
   one theorem.
3. A hazard without a property: an id that is tracked before its receipt is queued.

Liveness stays with TLC.
