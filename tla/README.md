# TLA+ models of Medes: sandbox lifecycle and memory layer

This directory holds TLA+ models of Medes, the serverless platform under `src/`.
They model how a function sandbox moves between Running, Warm, Base, Dedup, Dummy
and Purge, and how workers share base pages over RDMA. Two processes take part
in the lifecycle, and they share nothing but RPCs:

* **The controller** (`src/dedup-controller`). `ServeRequests` posts one
  `Scheduler::ScheduleRequest` per trace line to a thread pool. Each request runs
  these steps:
  1. It searches `container_map_` (`GetAvailableContainer`).
  2. It claims an entry under `scheduler_mutex_`.
  3. It sends one of three RPCs to the worker: Spawn (cold start), Restart (Warm
     or Base) or Restore (Dedup).
  4. It acts on the reply.

  If no machine has memory, the request calls `EvictContainer`. The gRPC
  handlers `GetDecision`, `UpdateStatus`, `Blacklist`, `RegisterPages` and
  `GetBaseContainers` are called by the workers. They run the keep-alive policy
  and keep the entry's status and the per-environment counters (`num_warm_`,
  `num_dedup_`, `num_base_`) up to date.
* **The worker agent** (`src/dedup-service`) runs one instance per machine.
  * The `Daemon` loop scans `local_containers_`. It moves idle sandboxes to
    Dummy and posts tasks to the `workers_` pool: GetDecision, PrevOp, Pause,
    Base, Dedup, Deduplicate, GetBasePages, DeduplicateDump, Purge and
    ForceRemove.
  * Each task calls the Docker/CRIU helpers and reports the new status with
    `UpdateStatusOnController`.
  * The gRPC handlers `Spawn`, `Restart`, `Restore` and `Purge` (`dedup_server.cc`)
    serve the controller.

* **The worker's memory layer** (`memory_layer.cc`, `memory_manager.cc`) connects
  the workers to each other.
  * A base sandbox's pages are registered as a *source region* with
    `reg_src_mr`. The region's id is broadcast to every connected peer over
    the MR-messaging rings of `MRMessaging`. Each peer's `MemoryNode::poll`
    stores the region and sends the message back as an ack. The source's
    `InboundConnection::poll` counts the acks, and the last one runs
    `src_mr_ready_cb_`, which decrements `pending_mrs_cnt_`.
  * `DeduplicateDump` and `RestoreDump` read base pages from other machines
    with one-sided RDMA reads. Each read goes through `AddMemoryRequest` into
    the request ring of that machine's `MemoryNode`. The poller thread moves
    read completions to `comp_queue_`, and the dump drains them with
    `CompletePendingRequests`. The pages then go to `EncodePage` or
    `DecodePage` tasks, and the dump spins until every task has counted itself.

## Modules

| Module | Models |
|---|---|
| `SandboxLifecycle.tla` | The controller's request threads, data structures and gRPC handlers, and one worker's daemon, task pool and gRPC handlers. |
| `MC_SandboxLifecycle.tla` | The model values, and the search restriction `NoFailure` used by one violation run. |
| `MRBroadcast.tla` | `reg_src_mr` of one source worker, the message rings of both ends of each connection, the source's poller (`MemoryLayer::poll`, `InboundConnection::poll`), each peer's `MemoryNode::poll` (message part), peer crashes and `on_disconnect`. |
| `MRRegistry.tla` | The abstract registry the broadcast implements: regions are registered, published to a set of peers, learned by peers, and become ready. |
| `MC_MRBroadcast.tla` | The model values for peers and registering threads. |
| `RemoteRead.tla` | The read path: `AddMemoryRequest`, the drains, the read, task and wait phases of `DeduplicateDump` and `RestoreDump`, the request rings (`post_request`, `post_head_req`, `poll_completion`) and the read part of `MemoryNode::poll`. |
| `PatchFile.tla` | The worker's page numbering and patch-file framing, as operators: `ContainerInfo`'s `num_pages_`, `AddDumpFilePages`, `GetPageData`, `SetDedupInfo` and `SetPatch`; `ComputeMemoryHashes`' page ids; `EncodePage`'s result; `DeduplicateDump`'s patch write (STEP 4); and `RestoreDump`'s patch read and dump write. `RemoteRead` extends it. |
| `MC_RemoteRead.tla` | The model values for sandboxes (jobs) and machines. |
| `RdmaConnect.tla` | Start-up of the memory layer's client side: `start_client`, `MemoryNode::connect`, `rcltmgr_connect` with its timed spin, the client manager's listener and handlers (`src/rdma/rcltmgr.c`), and each peer's `rsrvmgr` listener with `on_connect` / `on_disconnect`. |
| `MC_RdmaConnect.tla` | The model values for peers. |

SandboxLifecycle is described first. MRBroadcast and RemoteRead have their own
sections below.

### State

Controller state:
* `cmap` and `ci` model `container_map_` and its `ContainerInfo`s. `ci` keeps a
  removed entry's last value, because a thread holding the `shared_ptr` still
  reads and writes it.
* `stats` models the environment counters.
* `dedupStarts` models `MachineInfo::num_dedup_starts_`.
* `enoughMem` models `has_enough_memory()`.
* `globalCid` models `global_cid_`.
* `hashed` is the set of bases whose chunks `RegisterPages` put into
  `hash_table_`. `base_ready_` is `hashed # {}`. Nothing removes chunks, so a
  base stays in `hashed` after it is removed from `container_map_`. After
  that, `GetBaseContainers` throws for any sandbox whose pages match the
  removed base (`BaseLookupOk`).

Request-thread state, one entry per pool thread in `Threads`:
* `pc` is the blocking point the thread is at.
* `cid`, `st` (the local `status`), `tries` and `nevict` are the thread's locals.
* `loaded` is the value read by the non-atomic `num_dedup_starts_ ± 1`.
* `posted` counts the requests taken from the trace.

Worker state:
* `wmap` and `wi` model `local_containers_` with `status`, `prev_status` and
  `checkpointed`.
* `pool` is the bag of tasks posted and not yet run.
* `halted` records which process died of an uncaught exception.

### Actions

* **One action per blocking point of `ScheduleRequest`.** `FindContainer`,
  `ClaimContainer`, `ColdStart`, `SpawnReply`, `DedupGate`,
  `IncrementDedupStarts`/`IncrementStore`, `RestoreReply`/`DecrementStore`,
  `WaitWarm`, `RestartReply`, plus `EvictClaim` and `EvictPurge` for
  `EvictContainer`. Every action applies the whole code segment up to the next
  RPC or wait. That includes the status write-back, `RemoveContainer` and the
  counter updates.
* **Eviction.** `EvictClaim` draws from `EvictionCandidates`
  (`GetEvictionCandidate`). That set is empty unless `num_warm_ > 0`, because
  otherwise `GetEvictionEnvironment` returns no environment.
* **The worker's RPC handlers** are sets of outcomes. The controller side picks
  one with `\E`. Docker/CRIU calls may succeed or fail.
* **`DaemonTick(s)`** is one pass of the daemon over sandbox `s`.
* **Pool tasks.** Each task is its own action. A task that reaches
  `local_containers_.at` for an erased id sets `halted = "worker"`. A request
  thread that reaches `GetContainerInfo` / `RemoveContainer` on a removed entry
  sets `halted = "controller"`.
* **The policies.** Each policy of controller_server.cc is an operator of the
  same name (`DedupNoneOpenwhisk`, `DedupNoneHeuristic`, `DedupHeuristic`,
  `DedupBoundaryHeuristic`, `DedupHeuristicOpenwhisk`). Each returns the set of
  results it can produce: the decision and its `num_base_` increment. The rate
  arithmetic that picks the tentative decision is abstracted away; the
  post-processing (`HeuristicPost`, plus the blacklist check of the boundary
  policy) is kept exactly. `Policies` is the dispatch of `GetDecision`, and
  `GetDecision` is the handler's effect on the controller's map and counters.

### Abstractions

* **Time.** Timers are not modelled: any timer may expire at any step. This
  includes the daemon's keep-alive (Dummy to Purge), which may expire while a
  task for the sandbox is still queued, because `UpdateStatus(kDummy)` does
  not refresh `last_modified_`.
* **Counters.** `num_warm_`, `num_dedup_` and `num_base_` are plain ints that
  request threads and gRPC handlers update without a lock. The model applies
  each `UpdateEnvStats` and each `GetDecision` handler as one step, so it
  never loses an update. No kept property is about the counters' values. They
  only steer the policy and eviction branches, which the model explores in
  the atomic order.
* **RPC failure.** `LossyRPC` adds the outcomes in which a call never reaches
  the handler, or reaches it and is answered after the client's deadline.
* **Memory pressure.** `MemoryPressure` lets each reply leave the machine
  without memory, which is what drives eviction.

## Runs

The SandboxLifecycle runs use `MC_SandboxLifecycle` with one machine and
`Policy = "Boundary"`. The configs differ in threads, sandboxes and arrivals.

| Run | Expect | Config | Property and what it shows |
|---|---|---|---|
| lifecycle | pass | 1 thread, 3 arrivals, 2 sandboxes | `TypeOK`; `DedupCheckpointed`: nothing is offered or restored as Dedup unless the worker holds a checkpoint. |
| lossy | pass | 2 threads, 3 arrivals, 1 sandbox, lossy RPCs, memory pressure | `NextAssignedHasWaiter`: `next_assigned` is only set while a request waits on the entry, across claims, worker reports, failed starts, lost and late replies and evictions. |
| controller_abort | violation | MaxTries 2 | `NoControllerAbort`: `GetContainerInfo` (scheduler.cc:65) on an entry another thread removed. |
| worker_abort | violation | 2 threads, 3 arrivals, 2 sandboxes | `NoWorkerAbort`: a stale pause task runs on a sandbox a failed dedup erased. |
| double_start | violation | 3 threads, 4 arrivals, 1 sandbox | `ExclusiveStart`: a piggy-backed waiter and a stale Warm claim both Restart one sandbox. |
| dedup_gate | violation | 3 sandboxes, 5 arrivals, `NoFailure` | `DedupStartsBounded`: the gate is check-then-act, so two restores pass it together. |
| mrbroadcast | pass | 1 thread, 1 peer, 2 slots, 2 region ids, failed sends, peer crash, `FairSpec` | `TypeOK`; `PendingDrained`: once every broadcast region is acknowledged and no thread is inside `reg_src_mr`, `pending_mrs_cnt_` is 0 again; `RegistryRefinement`: the broadcast implements `MRRegistry`; `BroadcastAcked`: every broadcast region is eventually acknowledged unless a peer it was sent to dies. |
| partial_broadcast | violation | 2 peers, failed receive posts | `ReadyMeansKnown`: a region whose ack receive could not be posted has its ack consumed by a later region's receive, and becomes ready while the other peer does not know it (memory_layer.cc:337). |
| remoteread | pass | 2 jobs, 2 pages, 1 machine, 2 request slots, failing posts, 1 restore each | `TypeOK`; `CompletionsMatchRequests`: every posted read yields exactly one completion with its own context; `ReadsLandedBeforeUse`: no dump uses its pages while one of its reads is still in the NIC, even when another job's drain took its completions. `PatchFileRoundTrip`: for the `delta_sizes` each job's `EncodePage` tasks left, and every layout of its 2 pages into up to 3 dump files, `RestoreDump` reads back each record with the length `DeduplicateDump` wrote and decodes exactly the pages written as patches. The page `GetPageData` gives `EncodePage` for page id p is the page `ComputeMemoryHashes` numbered p, and STEP 3 writes page p back to the file and index it came from. |
| drain_hang | violation | 1 job, 2 pages, 1 request slot | `CountedReadsOutstanding`: a read posted before the poller frees its slot fails and is still counted, so the drain (memory_manager.cc:48) spins for ever holding `remaining_req_mutex_`. |
| restore_hang | violation | 1 job of 1 page, 1 restore, `FairSpec` | `RestoreCompletes`: a page without a patch gets no decode task, and `RestoreDump`'s wait (memory_manager.cc:523) never ends. |
| rdma_connect | violation | 2 peers, no verbs failure, no crash | `PolledConnsSet`: a peer that is not yet listening makes `rcltmgr_connect` time out; `start_client` keeps the node with `conn_` NULL and starts the poller, which dereferences `conn_` of every node (memory_layer.cc:224). |

The findings in `PROJECT.json` describe each violation against the code.

### Mutants

Each property of a passing run has a mutant, defined just before the definition
it replaces:
* `StartResultDecFailed` decrements `num_failed` instead of incrementing it.
* `StartResultKeepNext` does not clear `next_assigned` after a failed start.
* `WUpdateNotSticky` lets `checkpointed_` follow the current status.
* `RegInsertNoLimit` drops the check that region ids are left.
* `RegFinishAlwaysCount` increments `pending_mrs_cnt_` even when no message was sent.
* `PostHeadSendAtTail` writes the message into the tail slot.
* `RegBroadcastTargetAll` sets the target to all connections rather than the sends that were posted.
* `EncodePageKeep` leaves an encode task queued after it ran.
* `PostReadAtTail` writes a read's context into the tail slot of the request ring.
* `FinalDrainSkipLast` polls one completion too few per machine.
* `EncodeResultInclusive` keeps a delta equal to `patch_threshold_`.

### Bounds and why they are enough

* **Arrivals.** Every violation needs a specific number of arrivals, and the run
  that shows it uses that number:
  * Two requests must race on the same entry after a first request created it,
    so 3 arrivals.
  * A waiter, a stale claimer and the creator need 4.
  * Two Dedup sandboxes need a base sandbox first (`num_dedup_ >= num_base_ *
    dedup_per_base_`), so 3 sandboxes, 5 arrivals and `DedupPerBase = 2`.
* **Passing runs.**
  * The lifecycle run covers both dedup paths and the worker tasks. It needs
    3 arrivals: one makes a base, one is deduplicated, and one restores it.
    One request thread is enough there: `DedupCheckpointed` is about the
    controller against the worker's daemon and pool, not request threads
    against each other.
  * The lossy run covers eviction and the waiter that `NextAssignedHasWaiter`
    needs. That waiter needs a third arrival on the sandbox being restarted.
  * With 2 threads, 3 arrivals and 2 sandboxes, `DedupCheckpointed` and
    `NextAssignedHasWaiter` both hold (20 million states, 14 minutes). That
    run is not kept because of its time. The size comes from the daemon's
    timers: they may now fire while a task for the sandbox is queued.
* **MaxQueued = 1.** At most one copy of a task per sandbox is in the pool. The
  daemon marks a sandbox Dummy before posting, so a second copy needs a second
  timer expiry within one task's run.
* **`NoFailure`** only prunes behaviours: no removal, no failure, at most one
  queued task. Any violation found under it is a behaviour of the full
  specification.

## The memory layer

### MRBroadcast

* **State.** `srv[p]` is the source's `InboundConnection` to peer `p`, and
  `cli[p]` is the peer's `MemoryNode` for the source. Both are records with the
  fields of `MRMessaging`: send and receive heads, tails, `is_complete` flags
  and message slots. They also hold the queue pair's state: posted sends, sends
  in flight, completions and posted receives.
* **Other variables.** `smr` models the `SrcMemoryRegion`s, `pending` models
  `pending_mrs_cnt_` (a negative value is the unsigned wrap), and `known[p]`
  is the peer's `src_mr_map_`.
* **Actions.** `reg_src_mr` is split at its locks into `RegCheck`,
  `RegInsert`, `RegBroadcast` (under `conns_mutex_`) and `RegFinish`.
  `PollConns` is one pass of the source's poller over all connections. It is
  atomic because it holds `conns_mutex_`, which `RegBroadcast` needs too.
  `NodePoll` is the peer's poll. `ToPeer`, `ToSource` and the two
  `SendCompleted` actions are the network. A send lands only in a posted
  receive, and completions of sends and receives come in any order.
* **Refinement.** A region is *published* once its broadcast section is over.
  The refinement mapping sends `srcMrs`, the published set, the peers each
  region was sent to (a ghost field), `known` and the set whose callback has
  run to `MRRegistry`'s variables.

### RemoteRead

* **State.** `node[m]` holds the request ring of machine `m`: `req_ctx_head`,
  `req_ctx_tail`, `is_complete`, `uctx`, posted reads and their completions.
  `comp[m]` is `comp_queue_`. `remaining`, `pendingReqs` and `lock` model
  `remaining_req_`, `pending_reqs_` and `remaining_req_mutex_`.
* **Jobs.** A job is a sandbox: one `DeduplicateDump`, then up to
  `MaxRestores` `RestoreDump`s. Its `pc` is its blocking point: reading,
  draining (one `PollCompletion` per `poll_completion` that returned a
  completion), waiting for tasks, or dumped.
* **Contexts.** The context of a read is the page id. The model extends it,
  as a ghost, with the job and the round, so that `issued` and `got` can
  tell reads apart.
* **Encoding.** `EncodePage` fails or yields a delta of 1 to 1.5 pages,
  and `delta` keeps it in the job's `delta_sizes` (`EncodeResult`) when it is
  below `patch_threshold_`. `RestoreDump` posts decode tasks for the pages
  whose recorded patch length (`PatchLengths`, `RecordLength`) is not
  `PAGE_SIZE`.
* **The poller.** It is split at the point where it releases `req_mutex`:
  `NodeCompletions` pushes the completions, and `NodeReqTail` advances the
  tail.

### PatchFile

Four loops of the worker walk the pages of a dump, and each is written
separately:
1. `ComputeMemoryHashes` numbers the pages 0, 1, ... file by file. The
   controller returns these ids in `BasePageStruct.addr`.
2. `GetPageData(p)` finds page p again by subtracting the entries of
   `num_pages_`. Entry 0 of that vector is the 0 of the constructor.
3. `DeduplicateDump`'s STEP 4 writes one record per page to
   `patch-file.img`. The record is the patch when `0 < delta_size <=
   patch_threshold_`, read as a `long unsigned int`, and the page otherwise.
4. `RestoreDump` reads one record per page, of length `patch_length`, and
   copies a record of exactly `PAGE_SIZE` bytes. It decodes any other record.
   STEP 3 then writes the pages back, file by file.

Nothing in the file marks where a record ends, so the reader must know each
record's length. The module states the loops as operators. `RemoteRead`
applies them to the `delta_sizes` of each job, in every state of the
`remoteread` run, and for every layout of the job's pages into up to three
dump files, including empty files. Page bytes and
patch bytes are abstracted: a page is its slot `<<file, index>>`, and a patch
is its length. `PageSize = 2` and `ULongModulus = 256` are scaled down.
Every comparison is between a delta of at most 1.5 pages and the threshold,
so the scaling keeps every case of the code. `ParsingDeltaSizes`, the
`delta_sizes` that parse under every layout, depends only on constants. TLC
computes it once, and each state then only looks up each job's entry.

`patch_threshold_` is a parameter. With a threshold above `PAGE_SIZE`, a
delta of exactly `PAGE_SIZE` bytes is written as a patch and restored as a
page. TLC shows this with `PatchThreshold = 3`; it is listed as a hazard.
The run uses `PATCH_THRESHOLD = PAGE_SIZE`. That is the constructor's value and the largest threshold for which the framing holds. `ReadConfig` sets 2048 unless the parameters file says otherwise (dedup_application.cc:1244), which is half a page and also safe.

### Bounds

* **MRBroadcast.** 2 slots and 2 region ids are enough to wrap the ring and to
  make a later region reuse a receive slot. The partial broadcast needs 2 peers
  and 2 regions. With 1 region id the stray ack has no receive to land in.
* **RemoteRead.** 1 request slot is enough to show the drain hang: the second
  read of a job finds the slot not yet freed. 2 jobs and 2 slots cover one
  job's drain consuming another job's reads.
  * *Larger instances.* Two machines with two jobs (3.2 million states,
    2 minutes) also pass `CompletionsMatchRequests` and `ReadsLandedBeforeUse`.
    That run is not kept because of its time.

### RdmaConnect

* **Parts.** Two threads of the worker take part: the thread in `start_client`,
  which calls `MemoryNode::connect`, and through it `rcltmgr_connect`, for each
  node in turn; and the client manager's listener. Each peer runs its own
  `rsrvmgr` listener. The RDMA connection manager is the environment. It turns
  every operation issued on a live id (`Resolved`, `Request`, `Established`)
  into the event that completes it.
* **State.** For each peer `n`:
  * `idSt[n]` is the client's `rdma_cm_id`;
  * `conn[n]` and `connected[n]` are the `rcomm_connection` and its flag;
  * `nodeConn[n]` is `MemoryNode::conn_`;
  * `cm[n]` is the CM operation in progress, or the state of the connection.

  `cq` and `sq[n]` are the event channels. `held` is the event the listener
  has acked and not yet handled. `sconn` and `inMap` are the peer's connection
  and its `conns_map_`.
* **Actions.**
  * `Connect` is `rcltmgr_connect` up to its spin.
  * `Connected` and `Timeout` are the two ways the spin ends.
  * `StartPoller` is the end of `start_client`.
  * The client listener is split at `rdma_ack_cm_event` into `Fetch` and
    `Handle`.
  * `ServerEvent` is one event of `rsrvmgr_listen`.
  * `Crash` and `Start` stop and start a peer process.
* **Failures.** `VerbsFail` lets every verbs or CM call fail. A failed call
  makes the listener give up on the connection, so the spin times out.
  `PeerCrash` lets peers die after the connection is set up. Unknown and error
  events (REJECTED, UNREACHABLE) are ignored by both listeners, so they are
  not modelled.
* **Bounds.** 2 peers, each tried once by `start_client`. With both failure
  switches on there are about 20,000 states.
* **Hazards found while modelling.** With both failure switches on, TLC also
  finds three more problems when each is checked as an invariant:
  * a handler running on an id the timeout destroyed, because the event was
    acked first;
  * a connection leaked by the timeout;
  * `conn_` left pointing at a connection a peer disconnect has freed.

  The run limit leaves no room for a run of each, so they are listed as
  hazards in `PROJECT.json`.

## Fairness

`SandboxLifecycle` has no fairness; its runs check safety only. Weak
fairness of the request threads and of the worker's steps would be justified:
the controller's pool threads run each posted request to completion, the
worker's daemon loops for ever, and its pool runs every posted task. Under
that fairness, TLC finds that a request waits for ever at scheduler.cc:252 once
the sandbox's pause fails. That liveness run was given up under the run limit,
and it is listed as a hazard.

In MRBroadcast and RemoteRead, the pollers loop for ever, the NIC performs
every posted operation, and a thread inside `reg_src_mr` or a dump keeps
running. Each of these is weakly fair.

No strong fairness is assumed. `WaitWarm` is only enabled when the status
happens to be Warm or Base, and the code polls it with no guarantee.

Passing runs use `CHECK_DEADLOCK FALSE`. A request can wait for ever in
`WaitWarm` (the hazard above), and a finished trace stops.

## Not modelled

* In the RDMA transport: `rcltmgr_disconnect`, `rcltmgr_uninit` and
  `rsrvmgr_stop`, which nothing in the product calls. The verbs context and
  QP set-up (`rcomm_build_context`) are reduced to success or failure.
  `start_server` is modelled only as the peer being up.
* `is_src_mr_ready` and `wait_src_mr`. Nothing in the product calls them.
* `reg_dst_mr` and `dereg_mr`. They are modelled as succeeding; running out
  of ids needs 2^27 registrations.
* `memory_layer_example.cc`.
* `SpawnContainers` / `SpawnSingleContainer`. The thread that would run them is
  commented out in `controller.cc:92`.
* Fingerprinting (`fingerprint.cc`). It is SHA-1 over page bytes. Its chunk offsets read up to 48 bytes past a page (fingerprint.cc:101). That is arithmetic on constants, with no state to explore.
* The page data itself: the xdelta patch bytes and the page bytes. `PatchFile` models their lengths and order only.
* A failed `open` in `ComputeMemoryHashes` (dedup_application.cc:1290). It returns an empty page list after `set_num_dump_files`, with fewer files mapped. When the failing file is not the first, a later `ClearFileData` (in `FinishDeduplicate` or a purge) calls `dump_file_data_.at` for files that were never mapped, and the exception ends the worker. There is no run for it: the project is at its run and hazard limits.
* `ContainerInfo::UpdateStatus` is declared to return a `ContainerStatus` but has no `return` statement. Its only caller (dedup_application.cc:1212) ignores the result. Flowing off its end is still undefined behaviour in C++. The model assumes that the status update takes effect and that the call returns.
* The no-pause variants (`nopause` is 0 by default).
* The memory reports, statistics and logging.
* Several machines. The protocol is per machine, apart from `RoundRobinMachine`.

Lock-free counter updates (`UpdateEnvStats`) and the controller's `GetDecision`
are single steps. Their internal races are listed as hazards that no property
covers yet.

The project is limited to twelve runs, so not every disagreement found while
modelling has a run. Each of the following is described as a hazard in
`PROJECT.json`:
* the write-back of a stale status after a failed start;
* the re-offer of a sandbox between a Restore reply and the Running update
  (`ExclusiveStart` covers its worst outcome);
* an ack that overtakes its send completion;
* the transient wrap of `pending_mrs_cnt_`;
* a remote lookup that misses a region not yet inserted;
* the endless wait for Warm (scheduler.cc:252);
* the three connection hazards of RdmaConnect;
* a purged base whose chunks stay in `hash_table_`, so later
  `GetBaseContainers` calls fail (controller_server.cc:628).
