-------------------------- MODULE SandboxLifecycle --------------------------
(***************************************************************************)
(* The life of a sandbox (container) in Medes, seen from both sides:       *)
(*   - the controller: ContainerInfo entries in container_map_, the        *)
(*     per-environment counters (EnvironmentInfo), the per-machine         *)
(*     dedup-start counter, the request threads running                   *)
(*     Scheduler::ScheduleRequest / EvictContainer, and the RPC handlers   *)
(*     GetDecision, UpdateStatus, RegisterPages and Blacklist;             *)
(*   - the worker: the local ContainerInfo of every sandbox, the daemon    *)
(*     tick of DedupApplication::Daemon, the tasks it posts to its thread  *)
(*     pool, and the RPC handlers Spawn, Restart, Restore and Purge.       *)
(* One environment is modelled.  Time is abstracted: every timer of the    *)
(* code (keep-alive, idle time, reuse period, decision window) is a        *)
(* nondeterministic choice of whether it has expired.                      *)
(***************************************************************************)
EXTENDS Integers, FiniteSets, Bags

CONSTANTS
  Threads,               \* threads of the controller's workers_ pool
  Arrivals,              \* requests ServeRequests posts (the trace's length)
  Machines,              \* worker machines (machine_map_)
  MaxSandboxes,          \* bound on the sandboxes created (global_cid_)
  MaxTries,              \* max_tries of ScheduleRequest (1000 in the code)
  MaxEvictions,          \* max_evictions of the cold path (10 in the code)
  NumFailures,           \* num_failures_ (5 in the code)
  DedupStartsPerMachine, \* dedup_starts_per_machine_ (10 in the code)
  DedupPerBase,          \* dedup_per_base_ (config, default 10)
  MaxQueued,             \* bound on copies of one task queued in workers_
  Policy,                \* the environment's Policy (data_structures.h)
  LossyRPC,              \* whether an RPC may fail or miss its deadline
  MemoryPressure         \* whether a machine may report too little memory

ASSUME MaxSandboxes \in Nat \ {0} /\ MaxTries \in Nat \ {0}
ASSUME NumFailures \in Nat \ {0} /\ DedupStartsPerMachine \in Nat \ {0}
ASSUME LossyRPC \in BOOLEAN /\ MemoryPressure \in BOOLEAN
ASSUME Policy \in {"Openwhisk", "HeuristicOpenwhisk", "None", "Heuristic", "Boundary"}

\* Ids 0 .. MaxSandboxes - 1 are explored; creating one more ends the
\* exploration of that behaviour (SandboxBound).
Sandboxes == 0 .. MaxSandboxes
NoSandbox == -1

\* enum ContainerStatus (defs.h)
Status == {"Running", "Warm", "Dedup", "Base", "Dummy", "Purge"}
\* DecisionResponse::Decision
Decisions == {"BASE", "DEDUP", "WARM", "PURGE"}

VARIABLES
  \* ---- controller ----
  cmap,        \* ids present in DataStructures::container_map_
  ci,          \* ContainerInfo objects (they outlive their map entry)
  stats,       \* EnvironmentInfo: num_warm_, num_dedup_, num_base_
  dedupStarts, \* MachineInfo::num_dedup_starts_
  enoughMem,   \* MachineInfo::has_enough_memory()
  globalCid,   \* DataStructures::global_cid_
  hashed,      \* the bases whose chunks are in hash_table_ (base_ready_ is hashed # {})
  \* ---- request threads (locals of ScheduleRequest) ----
  pc, cid, st, tries, nevict,
  loaded,      \* num_dedup_starts_ as loaded by an unsynchronised ++ or --
  posted,      \* ScheduleRequest tasks taken up by a pool thread so far
  \* ---- worker ----
  wmap,        \* ids present in DedupApplication::local_containers_
  wi,          \* worker ContainerInfo (still reachable via ContainerPointerMap)
  pool,        \* bag of tasks posted to workers_ and not yet run: <<kind, id>>
  halted       \* "no", or the process that died of an uncaught exception

ctlVars == <<cmap, ci, stats, dedupStarts, enoughMem, globalCid, hashed>>
reqVars == <<pc, cid, st, tries, nevict, loaded, posted>>
wrkVars == <<wmap, wi, pool>>
vars == <<ctlVars, reqVars, wrkVars, halted>>

MachineOf(s) == ci[s].machine

-----------------------------------------------------------------------------
(***************************************************************************)
(* Controller data structures (data_structures.h/.cc).                     *)
(***************************************************************************)

\* ContainerInfo::ContainerInfo
NewContainerInfo(m) ==
  [status |-> "Dummy", isBase |-> FALSE, isDedup |-> FALSE,
   nextAssigned |-> FALSE, blacklisted |-> FALSE, numFailed |-> 0,
   machine |-> m]

\* ContainerInfo::UpdateStatus: the is_base_/is_dedup_ flags are sticky.
UpdateStatus(c, s) ==
  [c EXCEPT !.status = s, !.isBase = @ \/ s = "Base", !.isDedup = @ \/ s = "Dedup"]

\* The statuses counted in num_warm_ by UpdateEnvStats.
WarmClass == {"Warm", "Base", "Running"}

\* DataStructures::UpdateEnvStats(c_info, prev_status, purge): newStatus is
\* the entry's status, or Dummy when purge is set.
UpdateEnvStats(sts, prev, newStatus, purge, isBase) ==
  LET moved == newStatus # prev
      dw == (IF moved /\ newStatus \in WarmClass THEN 1 ELSE 0)
              - (IF moved /\ prev \in WarmClass THEN 1 ELSE 0)
      dd == (IF moved /\ newStatus = "Dedup" THEN 1 ELSE 0)
              - (IF moved /\ prev = "Dedup" THEN 1 ELSE 0)
  IN  [sts EXCEPT !.warm = @ + dw, !.dedup = @ + dd,
                  !.base = @ - (IF purge /\ isBase THEN 1 ELSE 0)]

\* DataStructures::UpdateContainerStatus on a (possibly removed) entry.
UpdateContainerStatus(s, new) ==
  LET c == UpdateStatus(ci[s], new)
  IN  /\ ci' = [ci EXCEPT ![s] = c]
      /\ stats' = UpdateEnvStats(stats, ci[s].status, new, FALSE, c.isBase)

\* DataStructures::RemoveContainer: counters as for a purge, then erase.
RemoveContainer(s) ==
  /\ stats' = UpdateEnvStats(stats, ci[s].status, "Dummy", TRUE, ci[s].isBase)
  /\ cmap' = cmap \ {s}

\* Every set_used_memory(...) from an RPC reply: the machine's memory
\* headroom after the call is not known in advance.
SetUsedMemory(m) ==
  \E e \in IF MemoryPressure THEN BOOLEAN ELSE {TRUE} :
    enoughMem' = [enoughMem EXCEPT ![m] = e]

-----------------------------------------------------------------------------
(***************************************************************************)
(* Worker data structures (dedup-service/data_structures.h).               *)
(***************************************************************************)

\* An id the worker never added (ContainerPointerMap::at would throw).
NoWorkerInfo == [status |-> "None", prev |-> "Warm", ckpt |-> FALSE]

\* worker ContainerInfo::ContainerInfo
NewWorkerInfo == [status |-> "Running", prev |-> "Warm", ckpt |-> FALSE]

\* Mutant: checkpointed_ follows the current status instead of sticking.
WUpdateNotSticky(w, s) ==
  [w EXCEPT !.prev = IF w.status \notin {"Dummy", "Running"} THEN w.status ELSE @,
            !.status = s,
            !.ckpt = s \in {"Base", "Dedup"}]

\* worker ContainerInfo::UpdateStatus: prev_status_ remembers the last stable
\* state; checkpointed_ is set on the first Base or Dedup.
WUpdate(w, s) ==
  [w EXCEPT !.prev = IF w.status \notin {"Dummy", "Running"} THEN w.status ELSE @,
            !.status = s,
            !.ckpt = @ \/ s \in {"Base", "Dedup"}]

\* The status UpdateStatusOnController reports for a local status.
Reported(s) == IF s \in {"Base", "Dedup"} THEN s ELSE "Warm"

Task(kind, s) == SetToBag({<<kind, s>>})

\* DedupApplication::UpdateStatusOnController, after the local status has been
\* set to ls, with p the pool so far: the controller's UpdateStatus handler
\* runs; if the entry is gone it answers CANCELLED and the worker posts
\* LaunchContainerPurge.  c is the controller's entry as this step has left
\* it so far.
ReportStatus(s, c, ls, p) ==
  IF s \in cmap
  THEN LET x == UpdateStatus(c, Reported(ls))
       IN  /\ ci' = [ci EXCEPT ![s] = x]
           /\ stats' = UpdateEnvStats(stats, c.status, Reported(ls), FALSE, x.isBase)
           /\ pool' = p
  ELSE /\ pool' = p (+) Task("purge", s)
       /\ ci' = [ci EXCEPT ![s] = c]
       /\ UNCHANGED stats

\* The same when this step has not touched the controller's entry.
UpdateStatusOnController(s, ls, p) == ReportStatus(s, ci[s], ls, p)

\* DedupApplication::AddContainer: a fresh ContainerInfo in local_containers_.
AddContainer(s) ==
  wmap' = wmap \cup {s} /\ wi' = [wi EXCEPT ![s] = NewWorkerInfo]

-----------------------------------------------------------------------------
(***************************************************************************)
(* Worker RPC handlers called by the controller (dedup_server.cc).         *)
(* Each returns the set of possible outcomes [w: new local info of the     *)
(* sandbox, ok: the status the handler returns, post: tasks it posts].     *)
(* An exception in a handler (an id missing from a map) is caught by gRPC *)
(* and returned as an error status.  The Docker/CRIU calls may fail.       *)
(***************************************************************************)

Outcome(w, ok) == [w |-> w, ok |-> ok, post |-> EmptyBag]

\* DedupServerImpl::Spawn: the spawn script succeeds (AddContainer) or fails.
SpawnHandler(s) ==
  {Outcome(NewWorkerInfo, TRUE), Outcome(wi[s], FALSE)}

\* DedupServerImpl::Restart: only a Warm/Base sandbox is unpaused.
RestartHandler(s) ==
  CASE wi[s].status = "None" -> {Outcome(wi[s], FALSE)}
    [] wi[s].status \in {"Warm", "Base"} ->
         {Outcome(WUpdate(wi[s], "Running"), TRUE), Outcome(wi[s], FALSE)}
    [] OTHER -> {Outcome(wi[s], FALSE)}

\* DedupApplication::RestoreContainer: Dummy while MemoryManager::RestoreDump
\* rebuilds the pages and CRIU resumes the process, then Running; it always
\* returns 0.
RestoreContainer(w) == WUpdate(WUpdate(w, "Dummy"), "Running")

\* DedupServerImpl::Restore: only a Dedup sandbox is restored.
RestoreHandler(s) ==
  CASE wi[s].status = "None" -> {Outcome(wi[s], FALSE)}
    [] wi[s].status = "Dedup" -> {Outcome(RestoreContainer(wi[s]), TRUE)}
    [] OTHER -> {Outcome(wi[s], FALSE)}

\* DedupServerImpl::Purge -> DedupApplication::PurgeContainer: a no-op on a
\* Dummy sandbox, otherwise Dummy and LaunchContainerPurge is posted.
PurgeHandler(s, w) ==
  CASE s \notin wmap -> {Outcome(wi[s], FALSE)}
    [] w.status = "Dummy" -> {Outcome(w, TRUE)}
    [] OTHER -> {[w |-> WUpdate(w, "Dummy"), ok |-> TRUE,
                  post |-> Task("purge", s)]}

\* When RPCs are lossy a call may fail before the handler runs (NotRun), or
\* the handler may run and its reply arrive after the client's deadline:
\* the client sees an error (seen = FALSE) whatever the handler did.  w is
\* the sandbox's local info before the call.
NotRun(w) == Outcome(w, FALSE)
Sent(H, w) == IF LossyRPC THEN H \cup {NotRun(w)} ELSE H
Calls(H, w) ==
  {[h |-> o, seen |-> o.ok] : o \in H}
    \cup (IF LossyRPC THEN {[h |-> o, seen |-> FALSE] : o \in Sent(H, w)} ELSE {})

\* Apply a handler outcome on the worker.
RunHandler(s, o) == wi' = [wi EXCEPT ![s] = o.w]
-----------------------------------------------------------------------------
Init ==
  /\ cmap = {}
  /\ ci = [s \in Sandboxes |-> NewContainerInfo(CHOOSE m \in Machines : TRUE)]
  /\ stats = [warm |-> 0, dedup |-> 0, base |-> 0]
  /\ dedupStarts = [m \in Machines |-> 0]
  /\ enoughMem = [m \in Machines |-> TRUE]
  /\ globalCid = 0
  /\ hashed = {}
  /\ pc = [r \in Threads |-> "idle"]
  /\ cid = [r \in Threads |-> NoSandbox]
  /\ st = [r \in Threads |-> "Dummy"]
  /\ tries = [r \in Threads |-> 0]
  /\ nevict = [r \in Threads |-> 0]
  /\ loaded = [r \in Threads |-> 0]
  /\ posted = 0
  /\ wmap = {}
  /\ wi = [s \in Sandboxes |-> NoWorkerInfo]
  /\ pool = EmptyBag
  /\ halted = "no"

-----------------------------------------------------------------------------
(***************************************************************************)
(* Scheduler::ScheduleRequest, one step per blocking point of a request   *)
(* thread.                                                                 *)
(***************************************************************************)

\* A process that died of an uncaught exception takes no more steps.
Alive == halted = "no"

\* Request thread r is alive and at label l.
At(r, l) == Alive /\ pc[r] = l

Goto(r, l) == pc' = [pc EXCEPT ![r] = l]

\* A free pool thread takes up the next ScheduleRequest posted by
\* ServeRequests, with fresh locals (num_tries = 0, cid = -1).
StartRequest(r) ==
  /\ Alive
  /\ pc[r] \in {"idle", "done", "dropped"}
  /\ posted < Arrivals
  /\ posted' = posted + 1
  /\ Goto(r, "find")
  /\ tries' = [tries EXCEPT ![r] = 0]
  /\ cid' = [cid EXCEPT ![r] = NoSandbox]
  /\ st' = [st EXCEPT ![r] = "Dummy"]
  /\ UNCHANGED <<ctlVars, nevict, loaded, wrkVars, halted>>

\* What DataStructures::GetAvailableContainer may return: a Warm/Base entry
\* without next_assigned, or a Dedup entry; entries too recently modified or
\* inside the decision window are skipped, so the result may be -1 anyway.
Available ==
  {s \in cmap : \/ ci[s].status \in {"Warm", "Base"} /\ ~ci[s].nextAssigned
               \/ ci[s].status = "Dedup"}

\* The container search: count a try, give up past max_tries, otherwise
\* take the id GetAvailableContainer returned (-1 leads to the cold path).
FindContainer(r) ==
  /\ At(r, "find")
  /\ tries' = [tries EXCEPT ![r] = @ + 1]
  /\ IF tries[r] + 1 > MaxTries
     THEN Goto(r, "dropped") /\ UNCHANGED <<cid, nevict>>
     ELSE \/ \E s \in Available :
               cid' = [cid EXCEPT ![r] = s] /\ Goto(r, "claim") /\ UNCHANGED nevict
          \/ /\ cid' = [cid EXCEPT ![r] = NoSandbox]
             /\ nevict' = [nevict EXCEPT ![r] = 0]
             /\ Goto(r, "cold")
  /\ UNCHANGED <<ctlVars, st, loaded, posted, wrkVars, halted>>

\* GetContainerInfo(cid), which throws if the entry was removed since the
\* search, then the critical section under scheduler_mutex_.  A
\* Warm/Base/Dedup entry is claimed by moving it to Dummy; a Running one
\* is piggy-backed on (next_assigned is set if it was clear, and the
\* request proceeds even if it was already set); otherwise search again.
ClaimContainer(r) ==
  LET s == cid[r]
      status == ci[s].status
  IN  /\ At(r, "claim")
      /\ IF s \notin cmap
         THEN halted' = "controller" /\ UNCHANGED <<ci, stats, pc, st>>
         ELSE /\ st' = [st EXCEPT ![r] = status]
              /\ UNCHANGED halted
              /\ CASE status \in {"Dedup", "Warm", "Base"} ->
                         /\ UpdateContainerStatus(s, "Dummy")
                         /\ Goto(r, IF status = "Dedup" THEN "gate" ELSE "restart")
                     [] status = "Running" ->
                         /\ ci' = [ci EXCEPT ![s].nextAssigned = TRUE]
                         /\ Goto(r, "waitWarm")
                         /\ UNCHANGED stats
                     [] OTHER -> Goto(r, "find") /\ UNCHANGED <<ci, stats>>
      /\ UNCHANGED <<cmap, dedupStarts, enoughMem, globalCid, hashed,
                     cid, tries, nevict, loaded, posted, wrkVars>>

\* Cold path: DataStructures::RoundRobinMachine, then AddNewContainer; if no
\* machine has enough memory, evict (up to max_evictions), and after that
\* start the search again.
ColdStart(r) ==
  /\ At(r, "cold")
  /\ \/ \E m \in Machines :
          /\ enoughMem[m]
          /\ globalCid \in Sandboxes
          /\ cmap' = cmap \cup {globalCid}
          /\ ci' = [ci EXCEPT ![globalCid] = NewContainerInfo(m)]
          /\ globalCid' = globalCid + 1
          /\ cid' = [cid EXCEPT ![r] = globalCid]
          /\ Goto(r, "spawn")
          /\ UNCHANGED nevict
     \/ /\ \A m \in Machines : ~enoughMem[m]
        /\ Goto(r, IF nevict[r] < MaxEvictions THEN "evict" ELSE "find")
        /\ UNCHANGED <<cmap, ci, globalCid, cid, nevict>>
  /\ UNCHANGED <<stats, dedupStarts, enoughMem, hashed, st, tries, loaded, posted,
                 wrkVars, halted>>

\* The Spawn RPC (deadline 3500 ms) and its reply.  On success the entry
\* becomes Running and the request is served; on failure it is removed.
SpawnReply(r) ==
  LET s == cid[r]
      m == MachineOf(s)
  IN  /\ At(r, "spawn")
      /\ \E c \in Calls(SpawnHandler(s), wi[s]) :
           /\ IF c.h.ok
              THEN AddContainer(s)
              ELSE UNCHANGED <<wmap, wi>>
           /\ SetUsedMemory(m)
           /\ IF c.seen
              THEN UpdateContainerStatus(s, "Running") /\ Goto(r, "done")
                   /\ UNCHANGED cmap
              ELSE RemoveContainer(s) /\ Goto(r, "find") /\ UNCHANGED ci
      /\ UNCHANGED <<dedupStarts, globalCid, hashed, cid, st, tries, nevict, loaded, posted,
                     pool, halted>>
\* GetEvictionEnvironment picks the environment with the largest
\* num_warm_ / arrival rate, and "" (no environment) unless a ratio is above
\* 0: with one environment, only while num_warm_ > 0.
EvictionEnvironmentFound == stats.warm > 0

\* GetEvictionCandidate: the Warm or Dedup entries of that environment with
\* no next_assigned.  Its filters on the time since the last change are left
\* to the choice among the candidates and to the failed tries.
EvictionCandidates ==
  IF EvictionEnvironmentFound
  THEN {s \in cmap : ci[s].status \in {"Warm", "Dedup"} /\ ~ci[s].nextAssigned}
  ELSE {}

\* Scheduler::EvictContainer, first half: GetEvictionCandidate and the claim
\* under scheduler_mutex_, which checks the candidate again.  If no
\* candidate is found within its tries it returns without evicting.
EvictClaim(r) ==
  /\ At(r, "evict")
  /\ \/ \E s \in EvictionCandidates :
          /\ ci[s].status \in {"Warm", "Dedup"}
          /\ ~ci[s].nextAssigned
          /\ UpdateContainerStatus(s, "Dummy")
          /\ cid' = [cid EXCEPT ![r] = s]
          /\ Goto(r, "evictPurge")
          /\ UNCHANGED nevict
     \/ /\ nevict' = [nevict EXCEPT ![r] = @ + 1]
        /\ Goto(r, "cold")
        /\ UNCHANGED <<ci, stats, cid>>
  /\ UNCHANGED <<cmap, dedupStarts, enoughMem, globalCid, hashed, st, tries, loaded, posted,
                 wrkVars, halted>>

\* Second half: the Purge RPC (no deadline); only if it succeeds is the
\* entry removed, otherwise it stays Dummy.  GetContainerInfo(cid) throws if
\* the entry was removed since the claim.
EvictPurge(r) ==
  LET s == cid[r]
  IN  /\ At(r, "evictPurge")
      /\ nevict' = [nevict EXCEPT ![r] = @ + 1]
      /\ cid' = [cid EXCEPT ![r] = NoSandbox]
      /\ Goto(r, "cold")
      /\ IF s \notin cmap
         THEN halted' = "controller"
              /\ UNCHANGED <<cmap, stats, enoughMem, wrkVars>>
         ELSE \E c \in Calls(PurgeHandler(s, wi[s]), wi[s]) :
                /\ RunHandler(s, c.h)
                /\ pool' = pool (+) c.h.post
                /\ SetUsedMemory(MachineOf(s))
                /\ IF c.seen THEN RemoveContainer(s) ELSE UNCHANGED <<cmap, stats>>
                /\ UNCHANGED <<wmap, halted>>
  /\ UNCHANGED <<ci, dedupStarts, globalCid, hashed, st, tries, loaded, posted>>

\* The per-machine dedup gate: the thread spins until num_dedup_starts is
\* below dedup_starts_per_machine_ ...
DedupGate(r) ==
  /\ At(r, "gate")
  /\ dedupStarts[MachineOf(cid[r])] < DedupStartsPerMachine
  /\ Goto(r, "incr")
  /\ UNCHANGED <<ctlVars, cid, st, tries, nevict, loaded, posted, wrkVars, halted>>

\* ... and only then, outside any lock, calls IncrementDedupStarts, whose
\* num_dedup_starts_ + 1 on a plain int is a load and a store that other
\* request threads may interleave with.
IncrementDedupStarts(r) ==
  /\ At(r, "incr")
  /\ loaded' = [loaded EXCEPT ![r] = dedupStarts[MachineOf(cid[r])]]
  /\ Goto(r, "incrStore")
  /\ UNCHANGED <<ctlVars, cid, st, tries, nevict, posted, wrkVars, halted>>

IncrementStore(r) ==
  LET m == MachineOf(cid[r])
  IN  /\ At(r, "incrStore")
      /\ dedupStarts' = [dedupStarts EXCEPT ![m] = loaded[r] + 1]
      /\ Goto(r, "restore")
      /\ UNCHANGED <<cmap, ci, stats, enoughMem, globalCid, hashed,
                     cid, st, tries, nevict, loaded, posted, wrkVars, halted>>

\* Running path: poll c_info->status() until it is Warm or Base.  The entry
\* is not claimed: it stays Warm/Base while the Restart is sent.
WaitWarm(r) ==
  LET s == cid[r]
  IN  /\ At(r, "waitWarm")
      /\ ci[s].status \in {"Warm", "Base"}
      /\ st' = [st EXCEPT ![r] = ci[s].status]
      /\ Goto(r, "restart")
      /\ UNCHANGED <<ctlVars, cid, tries, nevict, loaded, posted, wrkVars, halted>>

\* Mutant: a failed warm start decrements num_failed instead.
StartResultDecFailed(r, seen, warm) ==
  LET s == cid[r]
      c1 == IF warm THEN [ci[s] EXCEPT !.numFailed = @ - 1] ELSE ci[s]
      c2 == UpdateStatus(c1, st[r])
  IN  IF seen
      THEN /\ ci' = [ci EXCEPT ![s] = [UpdateStatus(ci[s], "Running")
                                         EXCEPT !.nextAssigned = FALSE]]
           /\ stats' = UpdateEnvStats(stats, ci[s].status, "Running", FALSE, ci[s].isBase)
           /\ Goto(r, "done")
           /\ UNCHANGED cmap
      ELSE /\ ci' = [ci EXCEPT ![s] = [c2 EXCEPT !.nextAssigned = FALSE]]
           /\ stats' = UpdateEnvStats(stats, c1.status, st[r], FALSE, c2.isBase)
           /\ Goto(r, "find")
           /\ UNCHANGED cmap

\* Mutant: a failed start leaves next_assigned set.
StartResultKeepNext(r, seen, warm) ==
  LET s == cid[r]
      c1 == IF warm THEN [ci[s] EXCEPT !.numFailed = @ + 1] ELSE ci[s]
      purge == warm /\ c1.numFailed >= NumFailures
      sts1 == IF purge THEN UpdateEnvStats(stats, c1.status, "Dummy", TRUE, c1.isBase)
                       ELSE stats
      c2 == UpdateStatus(c1, st[r])
  IN  IF seen
      THEN /\ ci' = [ci EXCEPT ![s] = [UpdateStatus(ci[s], "Running")
                                         EXCEPT !.nextAssigned = FALSE]]
           /\ stats' = UpdateEnvStats(stats, ci[s].status, "Running", FALSE, ci[s].isBase)
           /\ Goto(r, "done")
           /\ UNCHANGED cmap
      ELSE /\ ci' = [ci EXCEPT ![s] = c2]
           /\ stats' = UpdateEnvStats(sts1, c1.status, st[r], FALSE, c2.isBase)
           /\ cmap' = IF purge THEN cmap \ {s} ELSE cmap
           /\ Goto(r, "find")

\* The end of a Restore/Restart: on success the entry becomes Running and
\* next_assigned is cleared; a failure of a warm start counts towards
\* num_failures_ and at the limit purges the sandbox (Purge RPC, result
\* ignored, then RemoveContainer); every failure then writes the claimed
\* status back into c_info, removed or not, and clears next_assigned.
StartResult(r, seen, warm) ==
  LET s == cid[r]
      c1 == IF warm THEN [ci[s] EXCEPT !.numFailed = @ + 1] ELSE ci[s]
      purge == warm /\ c1.numFailed >= NumFailures
      sts1 == IF purge THEN UpdateEnvStats(stats, c1.status, "Dummy", TRUE, c1.isBase)
                       ELSE stats
      c2 == UpdateStatus(c1, st[r])
  IN  IF seen
      THEN /\ ci' = [ci EXCEPT ![s] = [UpdateStatus(ci[s], "Running")
                                         EXCEPT !.nextAssigned = FALSE]]
           /\ stats' = UpdateEnvStats(stats, ci[s].status, "Running", FALSE, ci[s].isBase)
           /\ Goto(r, "done")
           /\ UNCHANGED cmap
      ELSE /\ ci' = [ci EXCEPT ![s] = [c2 EXCEPT !.nextAssigned = FALSE]]
           /\ stats' = UpdateEnvStats(sts1, c1.status, st[r], FALSE, c2.isBase)
           /\ cmap' = IF purge THEN cmap \ {s} ELSE cmap
           /\ Goto(r, "find")
\* The Restore RPC (deadline 5000 ms) to a claimed Dedup sandbox; after the
\* reply DecrementDedupStarts loads the machine's counter ...
RestoreReply(r) ==
  LET s == cid[r]
      m == MachineOf(s)
  IN  /\ At(r, "restore")
      /\ \E c \in Calls(RestoreHandler(s), wi[s]) :
           /\ RunHandler(s, c.h)
           /\ Goto(r, IF c.seen THEN "decrOk" ELSE "decrFailed")
      /\ SetUsedMemory(m)
      /\ loaded' = [loaded EXCEPT ![r] = dedupStarts[m]]
      /\ UNCHANGED <<cmap, ci, stats, dedupStarts, globalCid, hashed,
                     cid, st, tries, nevict, posted, wmap, pool, halted>>

\* ... stores it back minus one, and the RPC's status is acted on.
DecrementStore(r) ==
  /\ Alive /\ pc[r] \in {"decrOk", "decrFailed"}
  /\ dedupStarts' = [dedupStarts EXCEPT ![MachineOf(cid[r])] = loaded[r] - 1]
  /\ StartResult(r, pc[r] = "decrOk", FALSE)
  /\ UNCHANGED <<enoughMem, globalCid, hashed, cid, st, tries, nevict,
                 loaded, posted, wrkVars, halted>>

\* The Restart RPC (deadline 2000 ms) to a Warm/Base sandbox.  When the
\* failure count reaches num_failures_, the Purge RPC is sent to the worker
\* (its result is ignored) and RemoveContainer throws if the entry is
\* already gone.
RestartReply(r) ==
  LET s == cid[r]
      m == MachineOf(s)
      purge == ci[s].numFailed + 1 >= NumFailures
  IN  /\ At(r, "restart")
      /\ \E c \in Calls(RestartHandler(s), wi[s]) :
           IF c.seen \/ ~purge
           THEN /\ RunHandler(s, c.h)
                /\ StartResult(r, c.seen, TRUE)
                /\ UNCHANGED <<pool, halted>>
           ELSE \E p \in Sent(PurgeHandler(s, c.h.w), c.h.w) :
                  /\ wi' = [wi EXCEPT ![s] = p.w]
                  /\ pool' = pool (+) p.post
                  /\ IF s \notin cmap
                     THEN halted' = "controller" /\ UNCHANGED <<cmap, ci, stats, pc>>
                     ELSE StartResult(r, FALSE, TRUE) /\ UNCHANGED halted
      /\ SetUsedMemory(m)
      /\ UNCHANGED <<dedupStarts, globalCid, hashed, cid, st, tries, nevict, loaded, posted, wmap>>
-----------------------------------------------------------------------------
(***************************************************************************)
(* The decision policy (controller_server.cc).  The rates, start-up times  *)
(* and idle times the policies compute with are abstracted: the tentative *)
(* decision is any the policy can reach; the post-processing that follows *)
(* it is kept exactly.                                                     *)
(***************************************************************************)

\* A policy's result: the decision and the increment it made to num_base_.
Result(d, inc) == [d |-> d, inc |-> inc]

\* The post-processing shared by DedupHeuristic and DedupHeuristicOpenwhisk:
\* a base stays base; while num_dedup_ >= num_base_ * dedup_per_base_ a
\* non-dedup sandbox is made BASE and num_base_ is incremented; a dedup
\* sandbox is never sent back to WARM.
HeuristicPost(c, t) ==
  CASE c.isBase -> Result("BASE", 0)
    [] stats.dedup >= stats.base * DedupPerBase /\ ~c.isDedup -> Result("BASE", 1)
    [] c.isDedup /\ t = "WARM" -> Result("DEDUP", 0)
    [] OTHER -> Result(t, 0)

\* DedupNoneOpenwhisk: the ten-minute keep-alive has expired, always PURGE.
DedupNoneOpenwhisk(c) == {Result("PURGE", 0)}

\* DedupNoneHeuristic: PURGE when the provisioned rate exceeds the maximum
\* arrival rate, WARM otherwise; no post-processing.
DedupNoneHeuristic(c) == {Result(t, 0) : t \in {"PURGE", "WARM"}}

\* DedupHeuristic: PURGE above gamma times the maximum rate, DEDUP above the
\* moving-window rate once base_ready_ is set, WARM otherwise.
DedupHeuristic(c) ==
  {HeuristicPost(c, t) :
     t \in {"PURGE", "WARM"} \cup (IF hashed # {} THEN {"DEDUP"} ELSE {})}

\* DedupBoundaryHeuristic: the keep-alive branch (PURGE a Warm sandbox idle
\* for 600 s or a Dedup one idle for 900 s, WARM otherwise) or the latency or
\* memory optimisation (PURGE, DEDUP or WARM); then HeuristicPost, and a
\* blacklisted sandbox that fell through HeuristicPost unchanged gets WARM
\* instead of BASE or DEDUP.
DedupBoundaryHeuristic(c) ==
  LET Post(t) ==
        LET r == HeuristicPost(c, t)
        IN  IF r = Result(t, 0) /\ c.blacklisted /\ t \in {"BASE", "DEDUP"}
            THEN Result("WARM", 0) ELSE r
  IN  {Post(t) : t \in {"PURGE", "DEDUP", "WARM"}}

\* DedupHeuristicOpenwhisk returns tentative_decision uninitialised: any
\* decision may come out of HeuristicPost.
DedupHeuristicOpenwhisk(c) == {HeuristicPost(c, t) : t \in Decisions}

\* The policy dispatch of ControllerServerImpl::GetDecision.
Policies(c) ==
  CASE Policy = "Openwhisk" -> DedupNoneOpenwhisk(c)
    [] Policy = "HeuristicOpenwhisk" -> DedupHeuristicOpenwhisk(c)
    [] Policy = "None" -> DedupNoneHeuristic(c)
    [] Policy = "Heuristic" -> DedupHeuristic(c)
    [] Policy = "Boundary" -> DedupBoundaryHeuristic(c)

\* UpdateContainerStatus as a function of an entry and the counters.
SetStatus(c, sts, new) ==
  LET c1 == UpdateStatus(c, new)
  IN  [c |-> c1, sts |-> UpdateEnvStats(sts, c.status, new, FALSE, c1.isBase)]

-----------------------------------------------------------------------------
(***************************************************************************)
(* The worker daemon (DedupApplication::Daemon), one sandbox per step.     *)
(* Which timers have expired is left open.  UpdateStatus(kDummy) does not *)
(* refresh last_modified_, so the Dummy -> Purge timer may expire while a  *)
(* task for the sandbox is still queued or running.                        *)
(***************************************************************************)

DaemonTick(s) ==
  LET w == wi[s]
      Set(x) == wi' = [wi EXCEPT ![s] = WUpdate(w, x)]
  IN  /\ Alive /\ s \in wmap
      /\ CASE w.status \in {"Warm", "Base", "Dedup"} ->
                Set("Dummy") /\ pool' = pool (+) Task("decide", s)
            [] w.status = "Running" ->
                Set("Dummy") /\ pool' = pool (+) Task("prevop", s)
            [] w.status = "Purge" ->
                Set("Dummy") /\ pool' = pool (+) Task("forceRemove", s)
            [] w.status = "Dummy" ->
                Set("Purge") /\ UNCHANGED pool
      /\ UNCHANGED <<ctlVars, reqVars, wmap, halted>>
-----------------------------------------------------------------------------
(***************************************************************************)
(* Tasks run by the worker's thread pool.  A task that reaches             *)
(* local_containers_.at(id) for an id no longer there throws, and the      *)
(* exception ends the worker process.                                      *)
(***************************************************************************)

\* Task <<kind, s>> is queued and the worker process is alive to run it.
Pending(kind, s) == Alive /\ BagIn(<<kind, s>>, pool)
Done(kind, s) == pool (-) Task(kind, s)

WorkerAbort == halted' = "worker"

\* ControllerServerImpl::GetDecision for a present, non-Dummy entry, given
\* the policy's result r (whose num_base_ increment is applied first):
\* BASE, DEDUP and WARM make the entry Dummy until the worker reports back,
\* PURGE removes it.
GetDecision(s, r) ==
  LET sts0 == [stats EXCEPT !.base = @ + r.inc]
      dum == SetStatus(ci[s], sts0, "Dummy")
  IN  IF r.d = "PURGE"
      THEN [map |-> cmap \ {s}, c |-> ci[s],
            sts |-> UpdateEnvStats(sts0, ci[s].status, "Dummy", TRUE, ci[s].isBase)]
      ELSE [map |-> cmap, c |-> dum.c, sts |-> dum.sts]

\* The local status a decision asks for.
DecidedStatus == [BASE |-> "Base", WARM |-> "Warm", DEDUP |-> "Dedup"]

\* DedupApplication::GetDecision: the controller's GetDecision handler
\* (CANCELLED for a missing or Dummy entry, otherwise GetDecision), then the
\* worker acts on the decision against its prev_status: the same state is a
\* no-op reported back with UpdateStatusOnController; WARM from Dedup
\* restores in place.
GetDecisionTask(s) ==
  LET p == Done("decide", s)
      w == wi[s]
      prev == w.prev
  IN  /\ Pending("decide", s)
      /\ IF s \notin cmap \/ ci[s].status = "Dummy"
         THEN pool' = p /\ UNCHANGED <<ctlVars, wmap, wi, halted>>
         ELSE \E r \in Policies(ci[s]) :
           LET g == GetDecision(s, r)
               d == r.d
               noop == s \in wmap /\ d # "PURGE" /\ prev = DecidedStatus[d]
               back == SetStatus(g.c, g.sts, Reported(prev))
           IN  /\ cmap' = g.map
               /\ ci' = [ci EXCEPT ![s] = IF noop THEN back.c ELSE g.c]
               /\ stats' = IF noop THEN back.sts ELSE g.sts
               /\ IF s \notin wmap
                  THEN WorkerAbort /\ UNCHANGED <<wi, pool>>
                  ELSE /\ UNCHANGED halted
                       /\ CASE noop ->
                                wi' = [wi EXCEPT ![s] = WUpdate(w, prev)] /\ pool' = p
                             [] d = "BASE" -> pool' = p (+) Task("base", s) /\ UNCHANGED wi
                             [] d = "DEDUP" -> pool' = p (+) Task("dedup", s) /\ UNCHANGED wi
                             [] d = "PURGE" -> pool' = p (+) Task("purge", s) /\ UNCHANGED wi
                             [] d = "WARM" ->
                                  /\ wi' = IF prev = "Dedup"
                                           THEN [wi EXCEPT ![s] = RestoreContainer(w)]
                                           ELSE wi
                                  /\ pool' = p (+) Task("pause", s)
               /\ UNCHANGED <<dedupStarts, enoughMem, globalCid, hashed>>
      /\ UNCHANGED <<reqVars, wmap>>
\* DedupApplication::LaunchContainerPause: Warm locally, then Docker pause;
\* the controller is told only if the pause succeeded.
LaunchContainerPause(s, c, w, p) ==
  /\ wi' = [wi EXCEPT ![s] = WUpdate(w, "Warm")]
  /\ \/ ReportStatus(s, c, "Warm", p)
     \/ pool' = p /\ ci' = [ci EXCEPT ![s] = c] /\ UNCHANGED stats

\* DedupApplication::LaunchContainerBase: a checkpointed sandbox is only
\* paused (Base, reported on success); otherwise it is checkpointed under
\* dump_mutex_, paused and hashed, and RegisterBaseContainer is posted.
LaunchContainerBase(s, w, p) ==
  IF w.ckpt
  THEN \/ wi' = [wi EXCEPT ![s] = WUpdate(w, "Base")] /\ UpdateStatusOnController(s, "Base", p)
       \/ pool' = p /\ UNCHANGED <<wi, ci, stats>>
  ELSE pool' = p (+) Task("register", s) /\ UNCHANGED <<wi, ci, stats>>

\* DedupApplication::LaunchContainerPurge: remove the container and erase
\* it from local_containers_; an exception parks it in Purge.
LaunchContainerPurge(s, w, p) ==
  /\ pool' = p
  /\ \/ wmap' = wmap \ {s} /\ UNCHANGED wi
     \/ wi' = [wi EXCEPT ![s] = WUpdate(w, "Purge")] /\ UNCHANGED wmap

\* Common frame of a task: the id must still be in local_containers_.
RunTask(kind, s, Body(_, _, _)) ==
  /\ Pending(kind, s)
  /\ IF s \notin wmap
     THEN WorkerAbort /\ UNCHANGED <<wmap, wi, pool, ci, stats>>
     ELSE Body(s, wi[s], Done(kind, s)) /\ UNCHANGED halted
  /\ UNCHANGED reqVars

\* DedupApplication::LaunchContainerPrevOp: after a run, return to the
\* previous stable state (a Dedup sandbox is kept Warm).  A missing id is
\* caught by ContainerAtId.
PrevOpTask(s) ==
  LET w == wi[s]
      p == Done("prevop", s)
  IN  /\ Pending("prevop", s)
      /\ IF s \notin wmap
         THEN pool' = p /\ UNCHANGED <<wi, ci, stats>>
         ELSE CASE w.prev = "Base" -> LaunchContainerBase(s, w, p)
                [] w.prev \in {"Warm", "Dedup"} -> LaunchContainerPause(s, ci[s], w, p)
                [] OTHER -> pool' = p /\ UNCHANGED <<wi, ci, stats>>
      /\ UNCHANGED <<cmap, dedupStarts, enoughMem, globalCid, hashed,
                     reqVars, wmap, halted>>

PauseBody(s, w, p) == LaunchContainerPause(s, ci[s], w, p) /\ UNCHANGED wmap
PauseTask(s) ==
  /\ RunTask("pause", s, PauseBody)
  /\ UNCHANGED <<cmap, dedupStarts, enoughMem, globalCid, hashed>>

BaseBody(s, w, p) == LaunchContainerBase(s, w, p) /\ UNCHANGED wmap
BaseTask(s) ==
  /\ RunTask("base", s, BaseBody)
  /\ UNCHANGED <<cmap, dedupStarts, enoughMem, globalCid, hashed>>

PurgeBody(s, w, p) == LaunchContainerPurge(s, w, p) /\ UNCHANGED <<ci, stats>>
PurgeTask(s) ==
  /\ RunTask("purge", s, PurgeBody)
  /\ UNCHANGED <<cmap, dedupStarts, enoughMem, globalCid, hashed>>

\* DedupApplication::LaunchContainerForceRemove (after a Purge timeout).
ForceRemoveBody(s, w, p) ==
  wmap' = wmap \ {s} /\ pool' = p /\ UNCHANGED <<wi, ci, stats>>
ForceRemoveTask(s) ==
  /\ RunTask("forceRemove", s, ForceRemoveBody)
  /\ UNCHANGED <<cmap, dedupStarts, enoughMem, globalCid, hashed>>
\* ControllerServerImpl::RegisterPages: the chunks of every page of s go
\* into hash_table_, which sets base_ready_.
RegisterPages(s) == hashed' = hashed \cup {s}

\* DedupApplication::RegisterBaseContainer: the RegisterPages RPC (whose
\* handler AddChunkHash-es every page of s and sets base_ready_); on success the sandbox becomes Base and is
\* reported, on failure nothing more happens.
RegisterTask(s) ==
  LET p == Done("register", s)
  IN  /\ Pending("register", s)
      /\ \/ /\ RegisterPages(s)
            /\ IF s \notin wmap
               THEN WorkerAbort /\ UNCHANGED <<wi, pool, ci, stats>>
               ELSE /\ wi' = [wi EXCEPT ![s] = WUpdate(wi[s], "Base")]
                    /\ UpdateStatusOnController(s, "Base", p)
                    /\ UNCHANGED halted
         \/ pool' = p /\ UNCHANGED <<hashed, wi, ci, stats, halted>>
      /\ UNCHANGED <<cmap, dedupStarts, enoughMem, globalCid, reqVars, wmap>>

\* ControllerServerImpl::Blacklist: set_blacklisted on the entry; for an id
\* no longer in container_map_ GetContainerInfo throws and the RPC returns
\* an error.
Blacklist(s) == IF s \in cmap THEN [ci[s] EXCEPT !.blacklisted = TRUE] ELSE ci[s]

\* DedupApplication::FinishDeduplicate: drop the file data and page files,
\* set the local status to Dedup and report it to the controller.
FinishDeduplicate(s, w, p) ==
  /\ wi' = [wi EXCEPT ![s] = WUpdate(w, "Dedup")]
  /\ UpdateStatusOnController(s, "Dedup", p)

\* DedupApplication::LaunchContainerDedup(id, stop = true).  The first time
\* it posts DeduplicateContainer.  A checkpointed sandbox is stopped and
\* started in restore-paused mode under dump_mutex_: if the helper returns
\* both pids, FinishDeduplicate makes it Dedup; otherwise the controller is
\* asked to Blacklist it and it falls back to Warm (pipe write failed) or is
\* purged (bad pids).
DedupBody(s, w, p) ==
  IF ~w.ckpt
  THEN pool' = p (+) Task("deduplicate", s) /\ UNCHANGED <<wi, wmap, ci, stats>>
  ELSE \/ FinishDeduplicate(s, w, p) /\ UNCHANGED wmap
       \/ LET bl == Blacklist(s)
          IN  \/ LaunchContainerPause(s, bl, w, p) /\ UNCHANGED wmap
              \/ /\ LaunchContainerPurge(s, w, p)
                 /\ ci' = [ci EXCEPT ![s] = bl]
                 /\ UNCHANGED stats
DedupTask(s) ==
  /\ RunTask("dedup", s, DedupBody)
  /\ UNCHANGED <<cmap, dedupStarts, enoughMem, globalCid, hashed>>
\* DedupApplication::DeduplicateContainer: unpause, checkpoint under
\* dump_mutex_, hash the pages, set checkpointed_, post GetBasePages.
DeduplicateBody(s, w, p) ==
  /\ wi' = [wi EXCEPT ![s].ckpt = TRUE]
  /\ pool' = p (+) Task("getBasePages", s)
  /\ UNCHANGED <<wmap, ci, stats>>
DeduplicateTask(s) ==
  /\ RunTask("deduplicate", s, DeduplicateBody)
  /\ UNCHANGED <<cmap, dedupStarts, enoughMem, globalCid, hashed>>

\* hash_table_ only grows (AddChunkHash, no removal): FindHash over a page's
\* hashes returns chunks of any bases registered so far.
MatchedBases == SUBSET hashed

\* ControllerServerImpl::GetBaseContainers answers (rather than throwing)
\* only if GetContainerInfo finds the sandbox and every matched base.
BaseLookupOk(s, matched) == s \in cmap /\ matched \subseteq cmap

\* DedupApplication::GetBasePages: the GetBaseContainers RPC.  Its handler
\* calls GetContainerInfo on the sandbox, then on every base whose chunks
\* FindHash matches for one of its pages (which bases match depends on the
\* page data).  Nothing removes a base's chunks from hash_table_, and
\* GetContainerInfo on a removed entry throws (an error reply).  Only on an
\* ok status does the task reach local_containers_.at(id) and post
\* MemoryManager::DeduplicateDump; otherwise nothing more happens.
GetBasePagesTask(s) ==
  LET p == Done("getBasePages", s)
  IN  /\ Pending("getBasePages", s)
      /\ \E matched \in MatchedBases, delivered \in IF LossyRPC THEN BOOLEAN ELSE {TRUE} :
           CASE ~(delivered /\ BaseLookupOk(s, matched)) ->
                  pool' = p /\ UNCHANGED halted
             [] s \notin wmap -> WorkerAbort /\ UNCHANGED pool
             [] OTHER -> pool' = p (+) Task("dedupDump", s) /\ UNCHANGED halted
      /\ UNCHANGED <<ctlVars, reqVars, wmap, wi>>

\* MemoryManager::DeduplicateDump: the remote reads and patches work on the
\* ContainerInfo pointer it was given, then LaunchContainerDedup(id, false)
\* runs in the same task, now on a checkpointed sandbox.
DedupDumpTask(s) ==
  /\ RunTask("dedupDump", s, DedupBody)
  /\ UNCHANGED <<cmap, dedupStarts, enoughMem, globalCid, hashed>>

-----------------------------------------------------------------------------
\* All request threads have returned from ScheduleRequest.
RequestsFinished ==
  posted = Arrivals /\ \A r \in Threads : pc[r] \in {"idle", "done", "dropped"}

\* The trace is over and the worker holds no sandbox and no task: nothing is
\* left to do.  A process that died stays dead.
Quiescent ==
  /\ \/ halted # "no"
     \/ RequestsFinished /\ wmap = {} /\ BagToSet(pool) = {}
  /\ UNCHANGED vars

RequestStep(r) ==
  \/ StartRequest(r) \/ FindContainer(r) \/ ClaimContainer(r) \/ ColdStart(r) \/ SpawnReply(r)
  \/ EvictClaim(r) \/ EvictPurge(r) \/ DedupGate(r) \/ IncrementDedupStarts(r)
  \/ IncrementStore(r) \/ RestoreReply(r) \/ DecrementStore(r) \/ WaitWarm(r)
  \/ RestartReply(r)

WorkerStep(s) ==
  \/ DaemonTick(s) \/ GetDecisionTask(s) \/ PrevOpTask(s) \/ PauseTask(s)
  \/ BaseTask(s) \/ RegisterTask(s) \/ DedupTask(s) \/ DeduplicateTask(s)
  \/ GetBasePagesTask(s) \/ DedupDumpTask(s) \/ PurgeTask(s) \/ ForceRemoveTask(s)

Next ==
  \/ \E r \in Threads : RequestStep(r)
  \/ \E s \in Sandboxes : WorkerStep(s)
  \/ Quiescent

Spec == Init /\ [][Next]_vars

\* State constraint: at most MaxSandboxes sandboxes are ever created, and
\* the pool never holds more than MaxQueued copies of one task (the daemon's
\* timers are seconds to minutes, its tasks run in milliseconds).
SandboxBound ==
  /\ globalCid <= MaxSandboxes
  /\ \A x \in DOMAIN pool : pool[x] <= MaxQueued

-----------------------------------------------------------------------------
TypeOK ==
  /\ cmap \subseteq Sandboxes /\ wmap \subseteq Sandboxes /\ hashed \subseteq Sandboxes
  /\ \A s \in Sandboxes :
       /\ ci[s].status \in Status
       /\ ci[s].numFailed \in Nat
       /\ wi[s].status \in Status \cup {"None"}
       /\ wi[s].prev \in Status
  /\ stats \in [warm : Int, dedup : Int, base : Int]
  /\ dedupStarts \in [Machines -> Int]
  /\ pc \in [Threads -> {"idle", "find", "claim", "cold", "spawn", "evict", "evictPurge",
                          "gate", "incr", "incrStore", "restore",
                          "decrOk", "decrFailed", "waitWarm", "restart",
                          "done", "dropped"}]
  /\ halted \in {"no", "controller", "worker"}

-----------------------------------------------------------------------------
(***************************************************************************)
(* Properties.                                                             *)
(***************************************************************************)

\* The labels at which request thread r holds a claimed Dedup sandbox.
RestorePath == {"gate", "incr", "incrStore", "restore", "decrOk", "decrFailed"}

\* A sandbox is only offered, or being restored, as Dedup when the worker
\* holds a checkpoint of it: the controller's Dedup status (reported by
\* FinishDeduplicate, or written back by a failed Restore) never runs ahead
\* of checkpointed_ on the worker.
DedupCheckpointed ==
  LET offered == {s \in cmap : ci[s].status = "Dedup"}
      restoring == {cid[r] : r \in {t \in Threads : pc[t] \in RestorePath}}
  IN  \A s \in (offered \cup restoring) \cap wmap : wi[s].ckpt

\* next_assigned marks an entry some request is waiting on: whenever it is
\* set on an entry of container_map_, a request thread is polling that
\* entry or restarting it (ScheduleRequest clears it after every Restart).
NextAssignedHasWaiter ==
  \A s \in cmap :
    ci[s].nextAssigned =>
      \E r \in Threads : cid[r] = s /\ pc[r] \in {"waitWarm", "restart"}

\* No two request threads send Restart/Restore to the same sandbox at once.
ExclusiveStart ==
  \A a, b \in Threads :
    a # b /\ pc[a] \in RestorePath \cup {"restart"}
          /\ pc[b] \in RestorePath \cup {"restart"}
    => cid[a] # cid[b]

\* The per-machine gate of ScheduleRequest: at most
\* dedup_starts_per_machine_ dedup starts are in flight on a machine.
DedupStartsBounded ==
  \A m \in Machines : dedupStarts[m] <= DedupStartsPerMachine

\* The controller never dies of an exception in a request thread
\* (GetContainerInfo / RemoveContainer on an id already erased).
NoControllerAbort == halted # "controller"

\* The worker never dies of an exception in a pool task
\* (local_containers_.at on an id already erased).
NoWorkerAbort == halted # "worker"
====
