# A TLA+ model of AgentBBS

AgentBBS is a bulletin board for humans and agents: a set of Rust crates
(`crates/agentbbs-*`) layered on the late.sh chat server (`crates/late-*`).
Every post is signed and content-addressed, nodes federate with each other, and
the web server also runs a control plane for *pods*, remote agents that report
their results into board rooms.

This directory models the parts whose correctness depends on interleaving,
failure or order and checks them with TLC on small instances. Every safety
property the passing runs check, and that both message stores implement the abstract
one, is also proved with TLAPS, for every instance. Of the liveness properties the
safety half is proved (who waits for whom, and what every step brings nearer);
that a scheduler then gets there is model-checked.
`PROJECT.json` lists components, runs, mutants, the map from definitions to
source lines, hazards, findings and theorems.

## 1. Inventory

| component | state | operations | what is hard | what makes it correct | module |
|---|---|---|---|---|---|
| pod callbacks and polls (`agentbbs-web/src/lib.rs`, `agentbbs-core/src/pod.rs`) | pod records with a revision, `PodEventGuard` (`seen`, `last`), one callback mutex per pod, budget ledger, reputation book, rooms | `api_pods_result`, `api_pods_get`, registration, `set_locked` | duplicate, late and tied deliveries; retries after a failed post; a poll waiting for the gateway while a callback lands | events reach the room once, in order and never after a terminal one; guard, ledger and reputation agree with the room; polls undo nothing; every callback is answered | `PodEvents`, `PodEventsProofs` |
| pod spawning (`agentbbs-web/src/lib.rs`) | pod list | `api_pods_spawn`, `spawn_via_gateway` | check and record are separated by a network request; lost answers; racing requests | one pod per key: violated by a race; a key on record keeps its first pod | `PodSpawn`, `PodEventsProofs` |
| message store (`agentbbs-core/src/store.rs`) | boards, personas, messages, an index of ids per board | the `Store` trait, in memory and on redb | two locks; several transactions; crashes and storage errors | both implement the atomic `Store` | `Store`, `StoreCalls`, `MemoryStore`, `RedbStore`, `StoreProofs` |
| peers and trust (`agentbbs-federation`: `federator.rs`, `peer.rs`, `webtrust.rs`) | peer book, endorsement graph | `add_peer`, ingest of a peer exchange, `endorse`, `promote_via_trust`, `broadcast` | promotion works on a copy; a broadcast's target set is copied | nothing is sent to a peer no operator trusted; a promotion has a chain | `PeerTrust`, `PeerTrustProofs` |
| replication (`federator.rs`, `envelope.rs`, `pii.rs`) | per node: the board's log and metadata; envelopes in flight | `replicate_message`, `announce_board`, `make_snapshot`, `ingest`, `make_digest`, `reconcile` | loss, reordering, replay, half-stored snapshots, forged contents | nothing of a rejected envelope is stored; old digests still hold; gossip converges | `Replication`, `ReplicationProofs` |
| BBS service (`agentbbs-core/src/service.rs`) | boards and messages through the store | `create_board`, `set_locked`, `post`, the agent's answer to a mention | every operation reads the board and writes in a later step, with no lock in between | what an acknowledged creation or lock still guarantees | `Bbs`, `BbsProofs` |
| bridges, inbound (`deliver_*` in `agentbbs-web/src/lib.rs`, `agentbbs-bridge/src/inbound.rs`) | one `SeenSet` per platform, in memory | delivery of a Slack, Teams or WhatsApp message | platforms repeat deliveries, also while the first is being handled; the id is recorded before the post; the 200 follows it and may get lost; a restart forgets the ids | stored at most once per life of the process, and stored or refused in the end | `Bbs`, `BbsProofs` |
| playbooks and approvals (`playbook.rs`, `approval.rs`, `agentbbs-web/src/lib.rs`) | the gate's decisions, the runs with their progress threads, the decision log | `api_playbook_run`, `api_run_advance`, `api_approvals_decide` | racing requests; a gate's id is a string of the posted playbook id and the step, without the run; posts that fail; a record written after the locks are released | no gate passed without an approval of its action id, a veto is final, the thread tells the run, one record per completion | `Playbook`, `PlaybookProofs` |
| admin proofs, signed replies, rate limiter, daily quota (`admin_action.rs`, `route_auth.rs`, `agentbbs-web/src/lib.rs`) | `ReplayGuard`s, `RateLimiter`, `llm_day` | `require_admin_action`, `api_agent_reply`, `api_post` | times read before a lock and used after it; expiry and purge; windows and midnight; guards that know strings and forget at a restart | how often a nonce gets through; what windows and days let through | `Intake`, `IntakeProofs` |
| blackjack table (`late-ssh/src/app/rooms/blackjack/svc.rs`) | phase, seats, two deadlines, the dealer's turn; sleeping tasks; chips in the database | sit, leave, bet, hit, stand, double, deal, next hand; four kinds of timer | a bet and a double give the table up while the database debits; timers fire meanwhile | no chip is lost or settled twice; a table with stakes is always driven on | `Blackjack`, `BlackjackProofs` |
| drafts (`draft.rs`) | draft queue | create, edit, confirm, discard | posted before marked as sent | a draft is posted once | not modelled |
| core rate limit, presence, moderation, wallet, rotation, decisions, credentials | small maps behind one mutex each | pure functions on them | – | – | not modelled |
| identity, vector memory, arena, reporting, MCP server, transports, role claims, front ends, the rest of late.sh | – | – | – | – | not modelled (section 8) |

How the parts interact: the web server, the MCP server, the bridges and the
terminal call the BBS service (`Bbs`), which verifies a message and calls the
store. A pod callback and a playbook's progress post through the same service. The federator has its own
handle on the store; it seals what leaves a node and writes what it ingests.
Handlers run on tokio's multi-threaded runtime and share an `AppState` of
separately locked parts. The blackjack table is one mutex of late.sh and talks to
the chip table of its database. Those locks are the atomicity the modules use: what
happens inside one critical section is one step, and everything else
interleaves.

## 2. Modules

* **`PodEvents`**: the pod control plane. A *worker* is one running
  `api_pods_result`; its `pc` says which critical section comes next:
  `lock` (the pod's callback mutex), `lookup` (unknown event words, the copy of
  the record), `dedupe` (first look at the guard, terminal check on the copy),
  `reserve` (second look, order check, reservation), `room` (create the board on
  first use), `post` (refused by a locked board or a store error), then either
  `rollback`, or `budget`, `reputation` and `commit`. A *poller* is one running
  `api_pods_get`: it reads the record and its revision, waits for the gateway,
  and commits by comparing the revision. Moderators lock and unlock rooms at
  any moment. Deliveries are not consumed: any event may be received again and
  again, in any order, by any worker. Costs are natural numbers; a message is the event it was
  made from; a signature is the `authentic` field.
* **`PodSpawn`**: `api_pods_spawn` from the arrival of a request to the record.
  The gateway's failure may come before or after it started a pod. `promised`
  is history: the pod first recorded for the key when the request arrived.
* **`PodEventsProofs`**: the theorems about both (section 6).
* **`Store`**: the abstract specification, every call atomic: two maps and an
  append-only log per board, idempotent on the id. `out` holds each client's
  latest answer, so that refinement is about answers as well as state.
* **`StoreCalls`**: what the two implementations share: the threads that call
  them, where each of them is in its call, its latest answer, and what it means
  that an index and a message map agree (`Agree`).
* **`MemoryStore`**: the locks `messages` (`msgWriter`) and `by_board`
  (`idxReaders`) are explicit, because `put_message` and `list_messages` hold
  one while they wait for the other. The other two maps are used in
  single-lock calls. Operations that `RedbStore` has too carry the prefix `Mem`,
  so that one proof module can be about both.
* **`RedbStore`**: tables, the one open write transaction and what it has
  staged, the per-message reads of a listing, storage errors (`Fail`) and
  `Crash`, which keeps what was committed and loses the rest.
* **`StoreProofs`**: the theorems about both stores (section 6).
* **`Iteration`**: `InOrder(K)`, the increasing enumeration of a set of
  positions. `MemoryStore`, `Replication` and `Playbook` use it for the code's
  filtered iterations, because the provers can reason about it and not about a
  `SelectSeq` with its operator argument. An assumption of `MCReplication` has
  TLC compare the two on all short sequences.
* **`PeerTrust`**: one node's peer book and web of trust. `promote_via_trust`
  is `PromoteStart` (copy roots and unknown peers, release the book),
  `PromoteReadWeb` (take the read lock of the web) and one `PromoteOne` per
  copied peer.
  `vouched` and `granted` are history variables.
* **`Replication`**: several nodes and the set `net` of all envelopes ever
  sealed. Because envelopes are never removed, and applying one is never forced,
  the network delays, reorders, repeats and loses. Each node's store is the one
  of `Store`. Metadata leaves a node through `strip_pii`: `IsSensitive` matches
  the needles against the names of the keys, given as the needles each contains.
  `posted` is a history variable.
* **`Blackjack`**: one table. An action is one critical section of the table's
  mutex, or one database statement between two. A bet is `PlaceBet` (mark the
  seat pending), `DebitBet` (the database), then `LandBet` or `RejectBet`; a
  double down has the same three parts; `Deal` and `DealFollowUp` are the two
  sections of `deal_task`. Timer tasks are sets of the ids they carry
  (`capTasks`, `actTasks`, `dealerTasks`): any of them may fire at any time and
  finds out whether it is stale as the code does. Cards are abstracted to what
  the control asks of them: two cards or more, natural or not, bust or not. A
  seat is named by the user on it, which is what every section looks up.
  `stake` is the ghost that carries the main property: the chips debited and not
  yet settled.
* **`Playbook`**: a request (`Req`) is a start or an advance. A start drives its
  run under the gate lock, records a completion, and publishes the run with its
  thread; an advance does all but the record under both locks. `DriveRun` is the
  closed form of the loop around `PlaybookRun::advance`: the first gate that
  refuses, or the end. `PostRunProgress` chooses which of its posts fail. A
  playbook is a posted definition; `PlaybookId` is the id it was posted under,
  which nothing ties to its content. Ids are sequences of the parts between
  colons, so that formatting `playbook:{id}:{step}` can run two of them together
  as the code does.
* **`Bbs`**: one board, its creators, moderators and posters (`Req`) and the
  bridge handlers (`Handler`). Every store call is a step, and so is the 200 that
  follows it (`Answer`), which the process may not live to send and the platform
  may not get; a repetition may also arrive after it. `sealed`, `owner`,
  `failed` and `gone` are ghosts that say what the properties are relative to: a
  lock acknowledged while no request held an older copy, a creator answered in
  the same way, a delivery the service refused, a delivery acknowledged as the
  duplicate of a post a restart cut off.
* **`Intake`**: handlers that read the clock, verify, and ask the guards later.
  One `used` map stands for both replay guards, which `Consume` keeps apart by
  the proof's kind and which know a *nonce*: an admin proof by its `jti`, a
  reply by its signature string, in lower case but with the white space around it
  that verification ignores (`Spelling`, `Nonce`). The limiter knows its `Key`s,
  strings likewise. `Restart` empties guards, windows and the day's counter.
  `late`, `lateDays` and `restarts` count the events the bounds are relative to.
  `accepted` holds the times at which this life's limiter let a key through.
* **`ReplicationProofs`**, **`BlackjackProofs`**, **`BbsProofs`**,
  **`PlaybookProofs`**, **`IntakeProofs`**, **`PeerTrustProofs`**: the theorems
  about them (section 6).

`MC*` modules supply constants for TLC. Definitions whose comment begins with *Fault* are seeded errors: each replaces one definition in a
mutation test that shows which property notices it. They are not used by the
specifications.

## 3. Runs

Passing runs:

| run | states | what it shows |
|---|---|---|
| `pod_events` | 93,986 | two callbacks and a poll of one pod, six events (two of them tied, one terminal, one forged, one unknown to the receiver): once, in order, nothing after a terminal result, guard, ledger and reputation agree with the room, an answered event is in the room, polls are never stale, a record whose end is in the room is final (`ToldIsFinal`), every callback is answered; the inductive invariant of the proofs holds |
| `memory_store` | 571,904 | two threads, two boards, three messages: `MemoryStore` implements `Store`, the index matches the map |
| `redb_store` | 115,736 | two threads: `RedbStore` implements `Store` across errors and crashes, its tables agree, every call returns |
| `peer_trust` | 154,304 | three peers and a ring of endorsements: egress only to peers an operator trusted, promotions have a chain of at most `MaxDepth` |
| `blackjack` | 285,065 | two players, three bets of one chip, two seats: a task finds its seat as it left it, every debited chip is on the table or on its way, a timer drives every table that holds stakes, and every stake is settled without a player's help, but for the two cases named below |
| `playbook` | 269,400 | three playbooks that share a gate's name, two of them posted under one id, three requests, two humans of whom one is an approver: gates, vetoes, thread and records as in section 1, and every completion is recorded in the end |
| `bbs` | 381,873 | three requests, two bridge handlers, one external message, two restarts: sealed boards stay quiet, founders are kept, a delivery is stored once per life of the process (and three times over the three lives: TLC reaches the bound), an acknowledged one is accounted for, and all are settled in the end |
| `intake` | 1,339,949 | two handlers, a reply whose signature comes bare or padded and an admin proof, around a midnight and a restart: how often a nonce is used, less than twice the quota of a key in any window's length, the daily cap |
| `replication` | 466,540 | two nodes, two messages, a forged post, a snapshot with a forged post and an envelope that does not open: nothing of a rejected envelope is stored, a digest lists only what its node still holds, the nodes converge |

Runs that end in a violation, each of something the repository says of itself:

| run | what the repository says | what the code does |
|---|---|---|
| `pod_resurrected` | "a terminal local pod cannot be resurrected by a later distinct event" (`agentbbs-web/src/lib.rs:2179`) | `api_pods_result` checks a copy of the status and later writes without a second look; a `Cancelled` committed by a poll in between is overwritten (what remains true is `ToldIsFinal` and, exactly, `RevivedOnlyByOldCopy`, section 6) |
| `store_deadlock` | "In-memory store. Thread-safe" (`agentbbs-core/src/store.rs:48`) | `put_message` and `list_messages` take two locks in opposite order and may block each other for ever (the only way this store can stop: `OneDeadlock`, section 6) |
| `pod_spawned_twice` | "spawn a pod (idempotent on `idempotency_key`)" (`agentbbs-web/src/lib.rs:1818`), "Optional client key to make a spawn idempotent." (`agentbbs-core/src/pod.rs:189`) | the list is unlocked between the look-up (`lib.rs:1837`) and the push (`lib.rs:1870`), with the gateway's request in between; two requests with one key both find nothing and are answered with different pods (what remains true is `LaterRequestsAgree`, section 6) |

More observations, visible in the models and not runs of their own:

* `promote_via_trust` writes back the copy it took: a peer an operator trusted
  in between becomes `Linked` and leaves the egress set
  (`agentbbs-federation/src/federator.rs:90`); `PromotionHasChain` is about who is
  promoted and does not exclude it. Nor does `EgressOnlyGranted`, which is about
  peers ever trusted, exclude a send to a peer demoted after the broadcast copied
  its targets (`federator.rs:130`).
* "Replay is safe" (`docs/adr/0007-zero-trust-federation.md:49`) is true of
  messages; an older `AnnounceBoard` that arrives again overwrites newer metadata.
* `start_round` clears both deadlines before it may refuse (`svc.rs:1800`). A
  deal refused because a bet is pending, or an auto-deal whose deadline passes
  between its two readings of the clock (`svc.rs:937`, `944`), leaves bets on a
  table without a timer until the next bet lands or somebody deals. `TableIsDriven`
  and `StakeIsSettled` except this case (`capLost`) and show that there is only
  one other: a double that is refused after the action timeout has skipped its
  seat leaves the hand to its player and the inactivity timer (`dblRefused`, which
  is set only when no timer was left).
* A bridge that is repeated to while its first attempt is unposted answers the
  repetition with a 200; if the process stops before the post, nobody delivers
  the message again (`gone` in `Bbs`). When it stops after the post and before
  the 200, or the 200 gets lost, the next life of the process stores the repetition
  a second time, with a new timestamp and therefore a new id: "a retried webhook
  delivery never double-posts" (`agentbbs-web/src/lib.rs:141`, likewise 144 and
  147) holds within one life of the process only. `BridgedOnce` allows one copy for
  each life, and TLC reaches that many.
* "Single-use signatures for signed `POST /api/agent-reply` requests"
  (`lib.rs:151`) is single use of a *string*: the nonce is the signature as sent,
  in lower case and not trimmed (`route_auth.rs:104`), while
  `SignatureBytes::from_hex` trims it (`agentbbs-core/src/identity.rs:112`), so
  that one signature has several nonces. Both replay guards are in memory
  (`lib.rs:191`): an admin proof or a reply that has not expired passes again after
  a restart. `SingleUse` states what is left, and TLC reaches both kinds of
  second use.
* "Returns false once `AGENTBBS_LLM_DAILY_MAX` (default 1000) calls have been made
  today" (`lib.rs:208`) is not exact: a request that read its day before midnight
  and takes the lock after the first request of the new day sets the counter back,
  so that the new day starts afresh once more, and a restart empties it. Each of
  them is worth one further allowance (`DailyCap`).
* "Rate-limit by the signing identity (its public key)" (`lib.rs:1480`): the limiter
  is asked with `req.author` as the client wrote it, which `AgentId::from_hex` trims
  and reads in either case, with the session token by `api_post` (1413) and with
  `to_hex()` by a reply (3313). One author has as many windows as spellings;
  `SlidingWindowBound` is about one window.
* A playbook's id is documented as the "BLAKE3 content hash of the definition"
  (`playbook.rs:99`), but it is a field of the request (`lib.rs:2463`) that
  `validate` (`playbook.rs:148`) does not recompute, and the action id is a string
  built from it (`playbook.rs:240`). A different definition posted under an approved
  id passes a gate of that name without a new approval, as the two playbooks of
  `playbook` do; an id or step that itself contains a colon can give the action id
  of another pair, which `Joined` allows too.
* Two creators of one slug are both told they created it, and a moderator's
  write-back of an earlier read undoes whatever was written in between; `sealed`
  and `owner` in `Bbs` say exactly when an answer can be relied on.
* An approval or a veto of a gate holds for every later run under that id, and
  a rate-limited reply has already burnt its nonce.
* `authoritative_pod_transition_allowed` ignores the next status, so callbacks
  do not follow `PodStatus::can_transition_to`; the doc comment of
  `api_pods_result` still says "rejecting illegal transitions".
* `strip_pii` looks for needles inside key names, and `description` contains
  `ip`: every description is redacted on egress, private or not
  (`Replication!IsSensitive`). Which keys are redacted is a fact about names, so no
  property is made of it.
* `SealedBoardStaysQuiet` and `FounderIsKept` are about the writers `Bbs` has. A
  federator on the same store would be another (`put_board` in
  `federator.rs:270`, `283`); the web server runs none.
* A digest and a delta are windows of the newest `limit` messages. With
  `Limit = 1` and two messages, `Converges` fails: a message that left the window
  before it was replicated is never offered again.

## 4. Bounds

* `pod_events`: two workers are what it takes to race one callback against
  another for a pod's mutex; a third would wait behind them for the same mutex.
  Six events give every combination of early, late, tied, terminal, repeated,
  forged and unknown. `MaxRev` bounds the polls of a pod: a poll starts only
  below it (callbacks do not look at it, and the guard bounds how many of them
  commit). Event costs are distinct powers of two, so that a wrong sum cannot be
  right by chance. One pod: that callbacks of
  different pods leave each other's ledger, outcomes and reservations alone, in
  the guard and the room they share, is shown by the theorems of section 6 and
  not by this run.
* `pod_spawned_twice`: the race needs two requests with one key; a third may
  arrive after them, and the fourth has no key.
* Stores: two threads suffice for a two-lock deadlock and for a listing beside a
  put; three messages on two boards separate "per board" from "overall". The
  limit 1 cuts a log of two.
* `peer_trust`: in a ring every node can be root, link and end; with
  `MaxDepth = 1` a chain of two is already too long. At most one promotion and
  one broadcast run at a time.
* `replication`: two messages give both orders; one sealed snapshot
  (`MaxSnapshots`), which may be applied any number of times, and `MaxRev = 1`
  revision of the metadata. Each node handles
  one snapshot and one delta at a time. `Limit = 2` is the length of the board,
  which `Converges` needs (above).
* `blackjack`: two players are what it takes for one to act, or time out, while
  the other's debit is out; three bets (`MaxBets`) give a second round, in which
  the tasks and timers of the first are stale. Two missed deals and two seats
  are the smallest values that differ from one. One chip is enough: amounts are
  copied and doubled, never compared with each other. `MaxBets` also bounds the
  timer ids.
* `playbook`: a playbook with a gate between two plain steps, one that is a gate
  of the same name only and is posted under the same id, and one like it with an
  id of its own; three requests give a start and two racing advances, or two
  starts and an advance.
* `bbs`: three requests give two creators or moderators and a poster; two
  handlers handle a delivery and its repetition at the same time. Deliveries of
  different messages touch nothing in common but the board, so one external
  message is enough; two restarts (`MaxRestarts`) make three lives, the smallest
  number in which "once per life" differs from "at most twice".
* `intake`: the clock goes from 0 to 3 (`MaxTime`) with a midnight at 2, a window
  of two ticks and a quota of two, an allowance of one call a day, one restart.
  The proofs are dated so that each of them can expire while a handler that
  verified it is still on its way. One limiter key is enough, since windows are
  disjoint, and the reply's signer shares it with the posts. `RateMax` = 2 is the
  smallest quota for which 2 · `RateMax` − 1 differs from the quota itself, and
  TLC reaches that value.

## 5. Fairness

* `PodEvents!FairSpec`: weak fairness of a worker's steps (the runtime
  schedules a ready task) and strong fairness of `Acquire` (tokio's mutex serves
  its waiters in order). Nothing is assumed of clients, moderators, pollers or
  the gateway.
* `RedbStore!FairSpec`: weak fairness of the steps of a call and strong fairness
  of `PutStage`, whose `begin_write` waits for the one writer. Crashes and
  errors may happen at any time; each of them also ends the calls it hits.
* `Blackjack!FairSpec`: spawned tasks are polled, sleeps end and the database
  answers, one way or the other. Nothing is assumed of the players, nor of their
  inactivity timers.
* `Playbook!FairSpec`: a handler that has begun runs to its end: it awaits
  nothing and the locks it takes are released. Nothing is assumed of clients and
  approvers.
* `Bbs!FairSpec`: the same for bridge handlers; and a platform repeats a
  delivery until it has its 200, which all three document. That answers may get
  lost needs no fairness: a lost one is followed by another repetition.
* `Intake` has no liveness property and no fairness.
* `MemoryStore!MemFairSpec`: strong fairness of every step, more than
  the scheduler gives; the deadlock of `store_deadlock` needs no unfairness.
* `Replication!FairSpec`: digests, reconciliations, the replication of a delta
  and the arrival of messages happen again and again. This is the obligation of
  the gossip driver, which `docs/adr/0026` leaves to operations, and of a network that
  does not lose the same message for ever. The `replicate_message` that follows
  a post has no fairness: it may be lost, also because one failed send ends a
  broadcast.

## 6. Proofs

`PodEventsProofs` proves, for all sets of pods, rooms, events, workers and
pollers that satisfy `ConstAssumption`:

| theorem | statement |
|---|---|
| `Typing` | `Spec => []TypeOK` |
| `GuardInvariant` | `Spec => []GuardInv` |
| `AtMostOnce` | `Spec => []PostedAtMostOnce` |
| `InOrder` | `Spec => []PostedInOrder` |
| `TerminalLast` | `Spec => []NothingAfterTerminal` |
| `GuardExact` | `UniqueIds` implies `Spec => []GuardMatchesBoard` |
| `PollsFresh` | `Spec => PollNeverStale` |
| `AckSound` | `UniqueIds` implies `Spec => AckedIsPosted` |
| `OneOutcome` | `Spec => []OutcomePerTerminal` |
| `LedgerAgrees` | `Spec => []LedgerMatchesBoard` |
| `ToldFinal` | `Spec => ToldIsFinal` |
| `RevivalNeedsOldCopy` | `Spec => RevivedOnlyByOldCopy` |
| `LocksComeBack` | `Spec => LockLeadsHome` |
| `KeysKeepTheirPod` | `SpawnSpec => []LaterRequestsAgree` |

`UniqueIds`, that the producer never signs two different events with one id, is
the producer's half of the contract. The guard is keyed by the id alone and is
shared by all pods, so without it an event could be answered as a duplicate of
another. The other results do not need it.

None of the three board invariants is inductive. That a post cannot repeat an
earlier id depends on what the guard holds; what the guard holds depends on which
reservations may still be rolled back; and that a rollback restores the right
order depends on the callback mutex. `GuardInv` says all of it:

* `Exclusion`: a handler past the lock holds its pod's mutex;
* `SettledIsPosted`: the ids in the guard that no handler can still roll back
  are exactly the ids on the board;
* `Reservations`: a reservation is in the guard, belongs to one handler, is its
  pod's `last`, and what it would restore is settled;
* `LastSettled`, `BoardBehindLast`: nothing on the board is newer than the pod's
  `last`, nor than what a rollback would restore;
* `PostingIsPosted`: a handler past its post has its event on the board, as its
  pod's last one;
* `TerminalRecorded`: when a terminal result is on the board the record is
  terminal, or the handler that will make it so still holds the mutex; no
  handler of that pod can get to another post. It is also why the late
  overwrite of `pod_resurrected` never lets a result follow a terminal one on
  the board: only a status that came from a poll can be overwritten;
* `PollsSeeRevisions`: a record that changed has a higher revision.

The argument comes in four layers, each proved on the ones before it:
`TInv` (types and `Exclusion`), `Core` (guard, reservations and order on the
board), `Ending` (`PostingIsPosted`, `TerminalRecorded`,
`NothingAfterTerminal`) and `PollsSeeRevisions`. In each layer, most actions
leave the layer's state alone: `Aside` says so for `Core`, `Bystander` for
`Ending`, and one lemma each covers all those steps. The actions that do disturb
the layer (`Reserve`, `Post` and `Rollback` for `Core`; `Lookup`, `Dedupe`,
`Post` and `Commit` for `Ending`) have a lemma of their own. TLC checks
`GuardInv` as an invariant in `pod_events`.

The two books a callback writes after its post have invariants beside
`GuardInv`. `OutcomesMatch`: a pod has one outcome when a terminal result is on
the board and no handler still owes it (`Owed`), none otherwise; a second cannot
come because `Ending` lets no handler of that pod post again. `LedgerExact`: the
ledger is behind the board by exactly the cost of the one handler that has
posted and not yet charged, of which the callback mutex admits one per pod
(`Alone`). `TotalCost` is a recursive function over the board; that it has a
value at all, that the value is a natural and that a post adds its own charge
are `TotalCostTotals`, `TotalCostType` and `TotalCostAppend`.

The finding of `pod_resurrected` raises the question how far it goes. `Runners`
adds to the types that a handler past its terminal check holds a copy of a live
record (`CopyWasLive`) and that a held lock belongs to a running handler of that
pod (`HeldByRunner`). It follows that a terminal record is changed only by the
commit of a callback that copied it before the end (`RevivedOnlyByOldCopy`): no
poll and no later callback does it. With `GuardInv` it follows that nothing does
once the end is in the room and its callback has returned (`ToldIsFinal`), since a
handler about to commit has its event on the board as its pod's last one.

`LockLeadsHome` is what `EveryCallbackAnswered` needs apart from scheduling: a
callback waits only for a handler of its own pod that is past the lock and so
waits for nobody, and every step of a handler, the failures included, lowers its
distance to the answer (`StepsLeft`), which gives the lock back.

`KeysKeepTheirPod` is about the specification of `PodSpawn`. `Promises` says that a request whose key was on record
when it arrived never gets as far as starting a pod, and that `find` still
returns the record it was promised; the list only grows at its end
(`FoundStays`).

The other proof modules:

| module | theorem | statement | assumes |
|---|---|---|---|
| `StoreProofs` | `TablesInOrder` | `Spec => []TablesAgree` | `StoreAssumption` |
| | `Refinement` | `Spec => ImplementsStore` | |
| | `Durable` | `Spec => NothingLost` | |
| | `WritersFinish` | `Spec => WaitsAreShort` | |
| | `IndexInOrder` | `MemSpec => []IndexMatchesMessages` | |
| | `MemoryRefinement` | `MemSpec => MemImplementsStore` | |
| | `MemoryKeeps` | `MemSpec => MemNothingLost` | |
| | `OneDeadlock` | `MemSpec => []OnlyDeadlock` | |
| | `DeadlockStays` | `MemSpec => EmbraceIsForEver` | |
| | `MemoryCallsEnd` | `MemSpec => MemCallsShrink` | |
| `ReplicationProofs` | `FailsClosed` | `Spec => []NothingFromRejected` | `ReplicationAssumption` |
| | `NothingForgotten` | `Spec => LogsOnlyGrow` | |
| | `DigestsHonest` | `Spec => []HonestDigests` | |
| | `GossipComplete` | `Spec => NothingWithheld` | |
| `BlackjackProofs` | `Typing` | `Spec => []TypeOK` | `BlackjackAssumption` |
| | `TasksSafe` | `Spec => []TasksFindTheirSeat` | |
| | `StakesSafe` | `Spec => []StakesBacked` | |
| | `AlwaysDriven` | `Spec => []TableIsDriven` | |
| | `StakesMove` | `Spec => StakesMoveWhole` | |
| | `RoundsForward` | `Spec => RoundsGoForward` | |
| `BbsProofs` | `LockHolds` | `Spec => []SealedBoardStaysQuiet` | `BbsAssumption` |
| | `FounderHolds` | `Spec => []FounderIsKept` | |
| | `DeliveredOnce` | `Spec => []BridgedOnce` | |
| `PlaybookProofs` | `GatesHold` | `Spec => []NoGateWithoutApproval` | `PlaybookAssumption` |
| | `VetoHolds` | `Spec => VetoIsFinal` | |
| | `RunsAdvance` | `Spec => RunsOnlyAdvance` | |
| | `OneRecord` | `Spec => []RecordsMatchRuns` | |
| | `QuietLog` | `Spec => []QuietLogIsExact` | |
| | `ThreadsTell` | `Spec => []ThreadTellsTheRun` | |
| `IntakeProofs` | `ProofsAreSingleUse` | `Spec => []SingleUse` | `IntakeAssumption` |
| | `DailyCapHolds` | `Spec => []DailyCap` | |
| | `NeverTwiceTheQuota` | `Spec => []SlidingWindowBound` | |
| `PeerTrustProofs` | `EgressSafe` | `Spec => []EgressOnlyGranted` | `TrustAssumption` |
| | `PromotionsEarned` | `Spec => []PromotionHasChain` | |

Each module has an inductive invariant `Inv`, one lemma or step per action that
can disturb it, and a theorem `Spec => []Inv` from which the others follow; the
properties that came later have an invariant of their own on top of it. The
assumptions say that limits are naturals, that the sets naming different things
(requests, handlers, external messages) are disjoint, and that a playbook's steps
have different ids; TLC evaluates them in the runs.

* **Stores.** `Matches(msgs, idx)`: an index lists a set of messages, each once
  and on its own board; `AddMatches`: it still does when one message is added to
  both. For redb, the committed tables match and an open transaction is the
  committed state plus the one message its writer stages, so a commit adds it to
  both tables and an error or a crash to neither. A listing has the Store's
  effect when it reads the index: `Answers`, the refinement mapping's `out`, is
  what the client will get, fetched or still to fetch, and it does not change
  while other clients put (messages are never removed). In memory the maps match
  unless somebody holds `messages` for writing, and then the index lacks exactly
  that client's message. A put takes effect at its push, or at the check when it is a replay.
  That a listing which finds all its ids is the newest window rests on
  `IntervalInOrder`. Refinement is about safety: it holds although two calls may
  block each other (`store_deadlock`).
  What is stored stays in its place and an answered put is stored (`NothingLost`,
  `MemNothingLost`), which the abstract Store does not say of its answers.
  `WaitsAreShort`: the redb writer is about to commit, so that whoever waits for
  it waits for one step, and each step of a call leaves fewer to do. For
  the in-memory store, `Readers` ties the readers of the index to the listings
  under way; then every state in which no call can go on has a put and a listing
  that wait for each other (`OnlyDeadlock`), and such a pair never gets free
  (`EmbraceIsForEver`).
* **Replication.** `Sound`: what lies in the stores, in half-applied snapshots, in
  deltas and in the group's own envelopes was posted in the group or came in a
  foreign envelope that verified as a whole. A snapshot is filtered before its
  first message is stored, so the property holds at every moment of the loop.
  What `Converges` needs apart from scheduling is that logs only grow
  (`LogsOnlyGrow`), so that an old digest still lists only what its node holds
  (`HonestDigests`); therefore `reconcile` withholds nothing of its window, and
  what is in a delta leaves it as an envelope every node accepts
  (`NothingWithheld`).
* **Blackjack.** `StakesBacked` is not inductive: whether a chip that the
  database takes lands somewhere depends on the seat its task finds. `SeatInv`
  ties a user's seat, two tasks and stake together, by phase: a bet task means
  the table is still betting and the seat is marked with exactly its amount; a
  double task means the hand is still in play, undecided and of two cards; an
  empty seat holds nothing; a settling table has no unresolved seat. It is
  stated for one user at a time, so every action needs a proof only for what it
  does to one seat; the sections that touch all of them (deal, settle, removal
  of deferred seats, the next hand) act on each seat alike. For `TableIsDriven`,
  `Driven` adds that a table in play has a playable hand, and that once the
  action timer is off every hand still played is doubling (`AllDoubling`): the
  timeout stands all the others. `StakesMoveWhole` and `RoundsGoForward` use the
  same invariant on both sides of a step: after a settlement no task of that user
  is left and the seat is resolved, so the stake is zero; and a table that
  settles holds no stake, so the next hand starts with none.
* **Bbs.** `Seal`: a sealed board is locked, everybody who may still write the
  board writes it locked, and posts about to be stored looked at the flag in an
  earlier period. `Founder`: with a founder, nobody is about to create the board
  and every copy still to be written back names the founder. `Once`: a message is
  carried to the store by at most one handler in a life of the process, and only
  while that life has not stored it; a message not marked seen was stored at most
  once per earlier life. `Accounted`: a delivery the platform has its 200 for was
  stored, refused, is being posted, or was cut off by a restart; a handler about
  to answer has its message among the seen ones. `Types` and each part
  have a lemma of their own.
* **Playbook.** `Good(w)`: a walk stands at one of its playbook's steps and every
  gate behind it was approved, under the action id made of its playbook's posted
  id and the step; it holds of published runs and of starts between
  their sections. Decisions are never withdrawn, so a good walk stays good. That
  `DriveRun`, a `CHOOSE` of the first place to stop, is well defined follows from
  the least-element lemma `LeastNat`, taken from the library's well-foundedness
  theorem; it then passes no gate that refuses, and a gate that does not
  refuse was approved and not vetoed (`UnblockedGate`), which gives the first two
  theorems. `Recording` counts: it moves one request or run at a time between
  `Owing`, `Ahead` and `Completed`, with the finiteness of the first two proved,
  not assumed, since `Req` may be infinite. When no handler is under way both are
  empty, and the log is exact (`QuietLogIsExact`). A walk starts at its run's
  cursor, so a run only advances (`RunsOnlyAdvance`). `Story` describes a thread up to
  the last step the run has counted, for a board to which other runs post in
  between.
* **Intake.** `Guarded`: a nonce the guard has forgotten has either expired, been
  used no more often than it came late, or was forgotten by a restart, which the
  bound counts. `Metered`: the day the counter stands on has used what it counts,
  later days only what late handlers and restarts cost, and earlier days one
  allowance more. Both bounds say how the delay between reading the clock and
  taking the lock, and the loss of the memory, are paid for. `Limited`: the window
  of a key stands at its last `count` acceptances, of which the first opened it,
  and whatever came `RateMax` or more before that one is older by a window. It
  follows that 2 · `RateMax` acceptances in a row span a window
  (`SlidingWindowBound`); a restart starts a new list.
* **PeerTrust.** `Egress`: the trusted peers, and any copy of them a broadcast
  works from, were made trusted by an operator. A promotion cannot add to them
  because it writes `linked`. `PromotionHasChain` needs the walk of
  `trusted_from`, a recursive function: `WithinExists` shows that there is such a
  function, `TrustedFromChained` that what it reaches after `d` steps has a chain
  of at most `d` endorsements. Endorsements are never withdrawn, so the chain
  lasts.

Facts about recursive functions, positions and counts are proved without an
induction rule, since the provers cannot instantiate one: the set of naturals for
which the fact fails would have a least element (`LeastNat`, from the library's
well-foundedness theorem), and the step to it is contradictory.

Only model-checked: liveness (`EveryCallbackAnswered`, `EveryCallReturns`,
`Converges`, `StakeIsSettled`, `DeliveryIsSettled`, `CompletionIsRecorded`), which
needs fairness and `ENABLED`; and that `InOrder` is what `SelectSeq` computes. The
safety halves of the liveness arguments are theorems: `LocksComeBack`,
`WritersFinish`, `MemoryCallsEnd`, `GossipComplete` with `NothingForgotten`,
`AlwaysDriven` with `RoundsForward`, `DeliveredOnce`, `QuietLog`. What TLC adds is
that fair scheduling turns them into progress. The formulas that occur in a
theorem and in no run (`RevivedOnlyByOldCopy`, `NothingLost`, `OnlyDeadlock` and
so on) are defined in the proof modules, next to their theorems.

## 7. Plan

In this order:

1. `Drafts`: a draft is posted before it is marked as sent.
2. The WhatsApp session window on `Intake`'s clock, and presence.
3. The other room games of late.sh that share `Blackjack`'s shape (a table
   mutex, chip debits in between, timers carrying ids).

## 8. What is not modelled, and why

* Cryptography and encodings: a signature verifies or not, and two ids are equal
  exactly when the contents are. HMAC verification of a callback is
  the `authentic` field.
* The arena branch of `api_pods_result`: it needs the status `Completed`, which
  `pod_result_from_event` never produces.
* `PeerBook::remove`, which no operation of `Federator` calls.
* Digest, hello and ack envelopes on ingest, which only emit audit events.
* redb, tokio and the pods gateway, beyond the behaviour the code relies on: one
  writer and committed reads; first-come-first-served mutexes; a gateway that may
  start a pod and lose its answer.
* `Blackjack`: stacking chips before a stake is submitted, displayed balances,
  snapshots and events. The payout statement that follows a settlement is not
  modelled either: when it fails the code logs the error and the chips stay
  unpaid, so `StakesBacked` ends where the settlement is made.
* Moderation (`can_post`), capabilities, the scan of a post's text, channel maps
  and signatures are preconditions of the requests that need them.
* Transports, the MCP server, role claims, the remaining web routes and the
  front ends are I/O or thin, stateless layers over the parts above; vector
  memory and the arena are numeric computations.
* Most of the repository's 240,000 lines are late.sh's terminal user interface,
  themes, input tables, chat state and game content (`late-ssh/src/app`). They
  are rendering, key handling and data; apart from the table services, they hold
  no protocol a state machine of reasonable size would say anything about. The
  mapped share of the whole repository is small for that reason; the models
  cover the concurrent core of the AgentBBS crates and one of the table
  services.
