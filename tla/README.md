# Verification of the ckpool generator

This directory holds TLA+ models of `src/src/generator.c` (the generator process of ckpool), their TLC model-checking configurations, and TLAPS proofs. `PROJECT.json` lists the components, runs, mutants, the map from definitions to source lines, the findings, the hazards and the theorems.

## The system

The generator runs in one of two modes.

- **Proxy mode** (`proxy_mode`, lines 1141-1222). The generator is a Stratum client of an upstream pool and serves that pool's work to the local stratifier. Startup runs connect, subscribe and authorise once; any failure there is fatal. After that, three threads share one `proxy_instance_t`:
  - **receive** (`proxy_recv`, C6) ages the notification cache (C4) and the share tracker (C5), then reads upstream lines. A line is dispatched through `parse_method`: `mining.notify` goes to `parse_notify`, `mining.set_difficulty` to `parse_diff`. Any other line goes through `parse_share`. On a stall or a read error it runs `reconnect_stratum`, which flushes C4 and then loops connect / subscribe / authorise (C1, C3) until all three succeed.
  - **send** (`proxy_send`, C7) waits on `psend_cond` and takes the head of `psends`. Under `notify_lock` it looks up the share's local job id, then writes `mining.submit` on `cs->fd`.
  - **control** (`proxy_loop`, C8) accepts the stratifier's requests. `getnotify` runs `send_notify`, which reads `current_notify`. A share submission runs `submit_share`: a new share id and record under `share_lock`, then an append to `psends` under `psend_lock`. `shutdown` ends the loop, and the threads are then cancelled.
- **Server mode** (`server_mode`, lines 1071-1139, and `gen_loop`, lines 106-187, C9) talks to bitcoind. `server_mode` probes every configured bitcoind (address, auth, connect, a test block template, the payout address), exits fatally if none passed, picks one, and serves the stratifier's requests from `gen_loop` until "shutdown". It then frees the server table. `generator()` (lines 1224-1240) tells the main process to shut down when either mode returns nonzero, and exits 1 or 0.

## Modules

| Module | What it is |
|---|---|
| `Proxy.tla` | Proxy mode: the three threads, the startup handshake, and the environment (upstream pool, TCP connection, clock). It also holds the properties and the mutant operators. |
| `MC_Proxy.tla` | The TLC instance: two upstream job ids as model values, with symmetry over them. The generator only copies and compares job ids, so the symmetry is sound. |
| `NotifyCache.tla` | The abstract notify cache (C4): what it promises, with no threads, locks or connections. |
| `ProxyProofs.tla` | TLAPS proofs of `TypeOK` and of `SubmitCarriesIssuedJob`. |
| `CacheProofs.tla` | TLAPS proof that `Proxy` refines `NotifyCache`, and of `AgeingKeepsNewestTwo`. |
| `QueueProofs.tla` | TLAPS proofs of `NoParamsNoSession`, and that `Proxy` refines `ShareQueue` and `SubscribeLadder`. |
| `SessionProofs.tla` | TLAPS proof of `ReadLoopAuthorised`. |
| `SubscribeLadder.tla` | What the three-tier subscribe fallback (C3) promises. The next subscribe uses tier 1 (the session id), tier 2 (the client tag only) or tier 3 (no parameters). A failure moves down a tier and ends resuming for good. Tier 3 is final. |
| `StratumCodec.tla` | The part of the JSON codec (C2) that decides control flow: the recursive `find_notify` and `parse_subscribe`'s checks. It is used by TLC only, because it is recursive. |
| `ShareQueue.tla` | The abstract share path (C5, C7): a FIFO of consecutive share ids whose head is written upstream or dropped. |
| `ServerMode.tla` | Server mode (C9) and `generator()`'s exit. |
| `ServerAbstract.tla` | What server mode promises: serve from a bitcoind that passed its check, give up with result 1 only when none did, exit as the result says. |
| `ServerProofs.tla` | TLAPS proofs of the server-mode invariants and of the refinement of `ServerAbstract`. |

### State (Proxy.tla) and the code it stands for

| Variable | Code |
|---|---|
| `mode` | `startup` (proxy_mode before the threads), `running`, `exited` (proxy_mode returned), `crashed` (a NULL or freed dereference in `send_notify`) |
| `rpc` | Where the receive thread is: `connect`, `sub_send`, `sub_read`, `auth_send`, `auth_read` (the steps of the startup handshake and of `reconnect_stratum`), `age`, `read` (the `proxy_recv` loop) |
| `spc`, `smsg`, `sjob` | `proxy_send`: waiting or about to write; the `stratum_msg_t` it took; the `jobid` it copied (`NoJob` if the lookup failed) |
| `notify_instances`, `notify_job`, `notify_time`, `notify_conn`, `current_notify`, `notify_id` | The notify hash table (the live ids), each id's upstream job, time and connection, `proxi->current_notify` (`NULL` = -1) and `proxi->notify_id`. A freed entry keeps its job, because a freed block may still hold it. |
| `shares`, `share_time`, `share_id`, `psends` | The share hash table, `submit_time`, `proxi->share_id`, and the `psends` list |
| `diff`, `diffed`, `notified` | `proxi->diff`, `proxi->diffed`, `proxi->notified` |
| `sessionid`, `no_sessionid`, `no_params` | The subscribe fallback state (`sessionid` is "held or not") |
| `conn`, `sock`, `toUp`, `fromUp`, `up_phase` | Which connection `cs->fd` is, whether it is open, broken or closed, the requests written, the lines buffered for reading, and the pool's view of the handshake |
| `now` | `time(NULL)` in clock units |
| `stratNotify`, `shown` | A "notify" signal the stratifier has not yet answered with getnotify; the upstream job `send_notify` showed it for each local id |
| `submits`, `unsignalled` | History: every `mining.submit` written; a notification accepted but not yet signalled |

Each operation is one action, split only where the code releases a lock or blocks:

- Receive thread: `Connect` (with `ConnectFailed`: fatal at startup, a retry in `reconnect_stratum`), `SubSend`, `SubRead`, `AuthSend`, `AuthRead`, `RecvAge`, `RecvRead`.
- Send thread: `SendTake`, `SendWrite`.
- Control thread: `GetNotify`, `SubmitShare(lid)`, `Shutdown`.
- Environment: `UpRespond`, `UpPush`, `UpDisconnect`, `Tick`.

Upstream lines are records that keep only what the control flow reads (kind, job, difficulty, `result` true or not, session id present, share id). `read_socket_line` is in libckpool, outside this repository. It is modelled from spec section 4.1 as `Readable`: a buffered line, or a failure after the timeout. The 24 × 5 s stall policy and a read error both end in the same reconnect, so they are one failure.

Where the code has undefined behaviour, the model chooses nondeterministically among the outcomes:

- **Uninitialised `ret` in `proxy_send`.** After a failed lookup, `SendWrite` may close the socket or leave it.
- **Freed `current_notify`.** `GetNotify` on a freed notification either crashes or shows the job the freed block still holds.

## Server mode (ServerMode.tla)

The state is server_mode's locals: the loop counter `i`, the pointer `si` (as a server index), each server's `alive` flag and `ret`. There are also `freed` (how many times each `server_instance_t` was freed), `updated` (the stratifier was sent "update") and generator()'s `exitcode` and `mainShutdown`.

The actions are the following.

- `Probe`: one iteration of the probe loop. Whichever of the five checks fails, the outcome is the same: the server is not alive.
- `ProbesDone`: `goto out` when none is alive.
- `Select`: one iteration of the selection loop.
- `SubmitBlock`: gen_loop's accepted submitblock.
- `GenLoopExit`: "shutdown", or a failed accept.
- `Cleanup`: one iteration of the cleanup loop.
- `Exit`: generator().

Both loops over the table are written `for (i = 0; i < n; si = servers[i], i++)`. Their first test therefore reads the `si` left by the previous loop, and the model steps them one iteration at a time to keep that.

## Runs

The proxy runs use `MC_Proxy`. The common bounds are:

- two upstream jobs and two local notify ids;
- two shares;
- two connections (one reconnect);
- at most one unread pushed line.

| Run | Checks | Result |
|---|---|---|
| `proxy_safety` (`Proxy_safety.cfg`) | `TypeOK`, `SubmitCarriesIssuedJob`, `NoParamsNoSession`, `ReadLoopAuthorised`, `QueueRefined`, `LadderRefined` | pass, 3.6 M distinct states |
| `proxy_ageing` (`Proxy_ageing.cfg`) | `AgeingKeepsNewestTwo`, `CacheRefined` | pass, 1.5 M distinct states |
| `codec` (`Codec.cfg`) | `FindNotifyIsFirst` | pass |
| `server` (`Server.cfg`) | `TypeOK`, `NoneAliveIsFatal`, `ServerRefined` | pass, 214 distinct states |
| `proxy_v_ageing` | `AgeingKeepsNewestThree` | violated: with three old notifications ageing frees the oldest, where the spec keeps three |
| `proxy_v_crash` | `GetNotifyNeverCrashes` | violated: `getnotify` before any notify dereferences NULL |
| `proxy_v_startup` | `StartupFailureExits` | violated: a failed connect at startup crashes in the cleanup instead of exiting 1 |
| `proxy_v_session` | `SubmitJobOfSession` | violated: a lookup made before a reconnect is submitted on the new connection |
| `proxy_v_signal` | `EveryNotifySignalled` | violated: a notify accepted during the reconnect's auth loop is not signalled |
| `proxy_v_drop` | `DropKeepsConnection` | violated: the uninitialised `ret` closes the socket |
| `proxy_v_shareid` | `ShareRemovedOnlyByOwnResult` | violated: a malformed notify with id null removes share 0 |
| `server_v_free` | `NoDoubleFree` | violated: with two or more bitcoinds, the cleanup loop frees the server gen_loop used twice and leaks the last one |

The `proxy_safety` properties:

- **`SubmitCarriesIssuedJob`.** Every `mining.submit` carries the upstream job that getnotify showed the stratifier for that local id. Reaching a violation takes several steps: a notify, getnotify, a share, a reconnect with its flush, a new notify, then the send thread's lookup. The mutant `FlushNotifiesResetIds` restarts `notify_id` on reconnect, and this property catches it.
- **`NoParamsNoSession`.** After the fallback ladder gives up parameters, no session id is held.
- **`ReadLoopAuthorised`.** The receive thread reaches its read loop (`age`, `read`) only on a connection the pool has authorised. `proxy_send` writes to `cs->fd` with no coordination with the reconnect, so a share can go out before the new connection's subscribe or authorize. `auth_stratum` takes the first line that is not a method as its answer, and that line may be the pool's answer to such a share. Only the test that the answer is JSON true keeps a rejected handshake out of the read loop. The mutant `AuthReadAnyResult` drops that test, and this property catches it.
- **`LadderRefined`.** The subscribe fallback implements `SubscribeLadder`. The mapping (`Proxy!Ladder`) takes the tier to be the form `subscribe_stratum` picks: 1 while a session id is held, otherwise 3 once `no_params` is set, otherwise 2. Resuming is allowed while neither `no_sessionid` nor `no_params` is set. A reply `parse_subscribe` accepts is `Succeed`. A failure below tier 3 is `Fall`. A tier-2 failure can stay at tier 2: `parse_subscribe` copies the session id before its enonce1 and nonce2len checks, so a reply that fails them leaves an id, and the fallback treats the failure as a failed resume. A failure at tier 3 gives up and stutters. The mutant `SubscribeFallbackKeepsId` frees the session id but keeps the pointer, so the retry would still resume. This property catches it.
- **`QueueRefined`.** The share path implements `ShareQueue`, so submits leave in share-id order. The mapping (`Proxy!Queue`) sends the abstract queue to the share the send thread holds (while it is between its take and its write), followed by the ids in `psends`. `sent` becomes the ids of `submits`, and `next` becomes `share_id`. Under it, `submit_share` is `Enqueue`, `proxy_send`'s write is `Send` of the head, and its drop or failed write is `Drop`. The take stutters.

`proxy_ageing` runs the clock past `NotifyAge` with three notifications, so the ageing branch that frees entries is reached. It uses one connection, since ageing and the reconnect flush touch the table through separate actions and the flush is covered by `proxy_safety`. It checks two properties:

- **`AgeingKeepsNewestTwo`**: an ageing pass never frees a notification that has fewer than two younger ones, so `current_notify` and the one before it survive. The loop at `generator.c:905` tests only the table's count and frees old entries in insertion order. Which entries survive therefore rests on ids and times rising together. The mutant `ReapedKeepsOne` stops the loop at one entry instead of two (`< 2` in place of `< 3`), and this property catches it.
- **`CacheRefined`**: `Proxy` implements `NotifyCache`.

The refinement mapping (`Proxy!Cache`) sends:

- `notify_instances` to the cache's live ids;
- `notify_job`, `notify_id` and `current_notify` to their abstract copies;
- "the receive thread is in its loop" (`rpc` in {age, read}) to `linked`.

Under that mapping, `parse_notify` is `Issue`, ageing is `Age` of the reaped set, the reconnect flush is `Flush`, and a completed handshake is `Resume`. Every other step stutters.

`codec` checks `find_notify` against a reference: the first array, in depth-first, left-to-right order, whose first item names mining.notify. It uses every JSON tree of depth 3 and width 2 over a notify string, another string and an integer. 
`server` tries every pass/fail pattern of three bitcoinds.

- **`NoneAliveIsFatal`**: with none alive, the generator exits 1 and tells the main process to shut down.
- **`ServerRefined`**: server mode implements `ServerAbstract`. The mapping sends probe and select to "probing", gen_loop to "serving" (with `si` as the server), and cleanup and done to "stopped". The probe loop is a series of `Check`s and the selection loop's break is `Serve`. The `goto out` with none alive is `GiveUp`, gen_loop's return is `Stop`, and generator() is `Exit`. The other loop iterations stutter. Because `Serve` takes only a server that passed its check, the refinement also says gen_loop is always handed an alive server, although the selection loop starts from the last one.

`proxy_v_ageing` runs the ageing constants against `AgeingKeepsNewestThree`, the rule of spec sections 3 and 4.4 and scenario 5 (an entry is reaped only when more than two younger ones exist; of ten old entries three stay). The code stops at two, and TLC shows three old entries aged to two.

The violation runs each check one property that the spec (sections 3, 4.5, 4.10, 5, 7, 8) or the code's own comments state. TLC finds the code breaking it, and the findings in `PROJECT.json` describe each counterexample.

Five further disagreements are stated as properties and each has its own cfg. TLC finds each one violated, but they are not among the listed runs:

- `CurrentNotifyValid` (`Proxy_v_current.cfg`): the reconnect flush leaves `current_notify` dangling.
- `SubmitOnAuthorisedConn` (`Proxy_v_handshake.cfg`): a submit is written during the re-handshake.
- `EveryDiffSignalled` (`Proxy_v_diff.cfg`): a difficulty change parsed inside the startup `auth_stratum` is not signalled.
- `Enonce1WholeBytes` (`Codec_v_enonce.cfg`): an enonce1 of 1 or 31 hex characters is accepted.
- `SelectsFirstAlive` (`Server_v_first.cfg`): with the first and last bitcoind alive, the last is served, while spec section 4.10 takes the first.

**Why the bounds are enough.** Each interesting case happens within them:

- Two connections give one reconnect, so a flush and a lookup can interleave.
- Two notify ids let a new notification arrive after a flush.
- Two shares make the order of the queue observable.
- One pushed line lets a notify arrive inside `auth_stratum`.
- Three servers are enough for every position of the chosen server relative to the first and the last.

Every action and every disjunct of `Next` fires in the passing runs. Each passing property has a mutant in `PROJECT.json`, and TLC finds that mutant's violation.

**No liveness is checked.** The only waits a liveness property could be about are `proxy_send`'s wait on `psend_cond` and the receive thread's reads from the pool. The condition-variable wait and its signal are not modelled (the send thread takes a share whenever one is queued), so a property that the queue drains would hold by fairness alone and show nothing of the code. The pool may never answer, and then the generator retries forever, as it does in the code.

## Proofs

Every theorem holds for every value of the constants its module's assumptions allow.

- `ConstAssumption`: `NoJob` is not an upstream job, and the bounds are naturals.
- `NServersAssumption`: at least one bitcoind.

**ProxyProofs.tla**

- **`TypeCorrect`: `Spec => []TypeOK`.** `TypeOK` is split into Boolean flags, proved with Zenon, and data grouped by component, proved with SMT. There is one lemma per action, and per helper (`Close`, `OpenConn`, `HandshakeFailed`, `SubscribeFallback`, `AddNotify`, `ApplyMethod`, `AuthDone`). `TypeStep` combines them by thread.
- **`IssuedJob`: `Spec => []SubmitCarriesIssuedJob`.** The property is not inductive. A submit is built from the share the send thread holds, which came off `psends`, which was built from `shown`, which was copied from `notify_job`. The inductive invariant `IssuedJobInv` (in `Proxy.tla`) follows the job along that path:
  - `JobsWrittenOnce`: no job is recorded at or above `notify_id`;
  - `ShownIsIssued`, `QueuedIsIssued`, `HeldIsIssued`: what was shown, what is queued, and what the send thread holds all name the job recorded for their local id.

  `JobsWrittenOnce` is what makes `parse_notify` safe: the slot it fills was empty, so nothing shown or queued could name it. This argument breaks if `notify_id` ever restarts.

**CacheProofs.tla**

- **`CacheRefinement`: `Spec => CacheRefined`.** This is proved in the usual three parts:
  - an invariant;
  - initial states map to the abstract `Init`;
  - each step maps to an abstract step or a stutter (`RefStep`, with one lemma per action that touches the cache).

  The invariant is `CacheInv`:
  - live ids lie below `notify_id`;
  - no notification time is in the future;
  - the current entry is the newest by id and by time;
  - `TimesFollowIds`: a larger id never has an earlier time.

  The hard case is ageing. `CurrentNotReaped` shows that ageing never reaps the current entry. If it did, every live entry would be at least as old as the newest one, and FiniteSetTheorems' cardinality facts turn that into `Card(live) + 2 <= Card(live)`.
- **`AgeingKeepsTwo`: `Spec => AgeingKeepsNewestTwo`.** Proved from `CacheInv`. `NewestTwoNotReaped` takes an entry with fewer than two younger ones. By `TimesFollowIds`, every old entry is older than it or is it, so the old entries at or below it are all the entries at or below it. The entries at or below it and the younger ones partition the table, so its rank among the old entries plus 1 exceeds the table's count, and the loop has stopped before it. `AgeStepIsRecvAge` shows that the only step from `age` to `read` is `RecvAge`.

**QueueProofs.tla**

- **`SessionFallback`: `Spec => []NoParamsNoSession`.** This invariant is inductive as it stands, given a lemma that the session-id copy keeps it.
- **`LadderRefinement`: `Spec => LadderRefined`.** The inductive invariant is `LadderInv`: `TypeOK`, `NoParamsNoSession`, and `HeldIdResumable` (a session id is held only while `no_sessionid` is unset). `HeldIdResumable` is needed for the fallback. With it, a failure at tier 1 starts with resuming allowed, and the id the fallback starts from was either held already or copied while resuming was allowed. Only `SubRead` touches the flags, so every other action is a stutter. The success branch is `Succeed`, and `LadderFallback` maps each branch of `SubscribeFallback` to `Fall` or to a stutter.
- **`QueueRefinement`: `Spec => QueueRefined`.** This needs no invariant beyond `TypeOK`, because each abstract guard follows from the code's own guard. The work is in three sequence lemmas about `ShareIdSeq`: it has the same length, it commutes with `Append`, and the head's id followed by the tail's ids gives the ids. With these, `SendTake` is a stutter: the head moves from `psends` into the send thread's hand and stays at the head of the abstract queue.

**SessionProofs.tla**

- **`ReadLoopAuth`: `Spec => []ReadLoopAuthorised`.** The property is not inductive. An `AuthRead` that takes a true answer moves to the read loop, so every true answer waiting in `fromUp` has to belong to an authorised connection. The pool answers a subscribe by going back to "subscribed", so a later subscribe alone could undo "authed". The inductive invariant `SessionInv` (in `Proxy.tla`) rules both out:
  - `SubscribeUnsent`: before `SubSend`, the connection is new and neither a subscribe nor its answer is in flight;
  - `SubscribeAwaited`: a subscribe in `toUp` is the connection's only one, the receive thread is waiting for its answer, and none has come yet;
  - `AcceptedMeansAuthed`: a true answer to an authorize or a share waits only on a connection the pool has authorised.

  There is one lemma per action. For the pool's `UpRespond` and `UpPush`, the proof has one case per request or push kind.

**ServerProofs.tla**

- **`ServerInvariant`: `Spec => []ServerInv`.** The inductive invariant `ServerInv` states three things:
  - while probing, `si` is the server probed last and `ret` is 1;
  - while selecting, `i < n`, and the servers still to test (`si`, then servers `i .. n-2`) include an alive one;
  - `ret` is 1 at `out:` when no server is alive.

  The second clause is what accounts for the selection loop's odd order (the last server first).
- **`ServerTypeCorrect` and `ServerFatal`.** These prove `TypeOK` and `NoneAliveIsFatal` from `ServerInvariant`.
- **`ServerRefinement`: `Spec => ServerRefined`.** There is one lemma per action, each mapping it to an abstract step or a stutter, on top of `TypeOK`. That the server served passed its check is then a guard of the abstract `Serve`, and the exit status follows from the abstract `Exit`.

**Only model-checked.** These stay with TLC:

- `FindNotifyIsFirst`: `find_notify` is recursive, and a theorem cannot reach a RECURSIVE operator. What it computes for every tree would also need induction over data. Rewriting it as a recursive function would not help either: unfolding such a definition takes the library's recursion theorem, whose operator parameter the installed provers cannot instantiate.

## Not modelled

- **The JSON codec's payload handling (C2).** `json_msg_result`, the hex and merkle decoding in `parse_notify`, and the encoding of requests move data that no property tells apart.
- **getsubscribe, getdiff and ping, and gen_loop's getbase, getbest and getlast.** They only read state and reply. The unlocked `diff` write is treated as atomic, as an aligned 8-byte store is on the 64-bit targets.
- **Multi-proxy startup.** `proxy_mode`'s loops over several proxies (lines 1190 and 1211) have the same shape as server_mode's, so the double free of `server_v_free` very likely applies there too. `Proxy` has one proxy.
- **The bitcoind RPC helpers** (`gen_gbtbase`, `validate_address`, `submit_block`). They are outside this repository, and each call is a success or a failure.
- **The compiled-out `proxy_mode`** inside `#if 0`.
- **The request-id counter `proxi->id`.**
