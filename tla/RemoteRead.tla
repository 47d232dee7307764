------------------------------ MODULE RemoteRead ------------------------------
(***************************************************************************)
(* The remote page reads of the worker's MemoryManager                     *)
(* (src/dedup-service/memory_manager.cc) over the request rings of the     *)
(* MemoryLayer's MemoryNodes (src/dedup-service/memory_layer.cc).          *)
(*                                                                         *)
(* A job is one sandbox's DeduplicateDump followed by its RestoreDumps.    *)
(* Each reads one base page per page of the sandbox through                *)
(* AddMemoryRequest, drains the completions with CompletePendingRequests,  *)
(* hands the pages to EncodePage or DecodePage tasks of the pool, and      *)
(* spins until the tasks have counted themselves.  Jobs run on the         *)
(* worker's pool, so several share remaining_req_, pending_reqs_ and the   *)
(* rings.  The poller thread runs MemoryNode::poll for every node.         *)
(***************************************************************************)
EXTENDS Integers, Sequences, FiniteSets, SequencesExt, PatchFile

CONSTANTS
  Jobs,          \* sandboxes whose dumps are deduplicated and restored
  MachineOrder,  \* the machines holding base pages, in node_map_ order
  NumPages,      \* pages of a sandbox, each with a base page
  ReqSlots,      \* MAX_NUM_PENDING_REQS
  MaxRestores,   \* RestoreDump calls per sandbox
  PostFail       \* whether ibv_post_send of a read may fail

Machines == ToSet(MachineOrder)
Pages == 1 .. NumPages
RSlot == 0 .. ReqSlots - 1
\* The context of a read: the page id, with (as a ghost) the job and its
\* dump round, 0 for DeduplicateDump and k for the k-th RestoreDump.
Ctx == Jobs \X (0 .. MaxRestores) \X Pages
NoCtx == <<>>
None == "none"

VARIABLES
  node,        \* per machine: req_ctx_head/tail, is_complete, uctx, the queue pair
  comp,        \* per machine: comp_queue_
  pollPc,      \* per machine: where the poller is inside MemoryNode::poll
  remaining,   \* remaining_req_
  pendingReqs, \* pending_reqs_
  lock,        \* the holder of remaining_req_mutex_
  pc, round, pg, left, base, todo, completed,
  delta,       \* per job: delta_sizes, by page
  issued, got  \* ghosts: reads posted and completions consumed, per machine

nodeVars == <<node, comp, pollPc>>
mgrVars == <<remaining, pendingReqs, lock>>
jobVars == <<pc, round, pg, left, base, delta, todo, completed>>
vars == <<nodeVars, mgrVars, jobVars, issued, got>>

(***************************************************************************)
(* MemoryNode's request ring.  sq holds the posted reads not yet done by   *)
(* the NIC, cq the slots of read completions not yet polled.               *)
(***************************************************************************)
ReqNode == [head : Nat, tail : Nat, done : [RSlot -> BOOLEAN],
            uctx : [RSlot -> Ctx \cup {NoCtx}], sq : Seq(RSlot), cq : Seq(RSlot)]

NodeInit == [head |-> 0, tail |-> 0, done |-> [s \in RSlot |-> FALSE],
             uctx |-> [s \in RSlot |-> NoCtx], sq |-> <<>>, cq |-> <<>>]

\* A post_request that writes the context into the tail slot.
PostReadAtTail(n, c) ==
  LET slot == n.head % ReqSlots
  IN  [n EXCEPT !.uctx[n.tail % ReqSlots] = c, !.done[slot] = FALSE,
                !.sq = Append(@, slot), !.head = @ + 1]

\* MemoryNode::post_request with a posted ibv_post_send (post_head_req).
PostRead(n, c) ==
  LET slot == n.head % ReqSlots
  IN  [n EXCEPT !.uctx[slot] = c, !.done[slot] = FALSE,
                !.sq = Append(@, slot), !.head = @ + 1]

\* post_head_req when ibv_post_send fails: the context is written and
\* is_complete cleared, the head stays.
PostReadFailed(n, c) ==
  LET slot == n.head % ReqSlots
  IN  [n EXCEPT !.uctx[slot] = c, !.done[slot] = FALSE]

RingFull(n) == n.head >= n.tail + ReqSlots

\* The outcomes of MemoryLayer::post_request for a read to machine m.
PostOutcomes(n) ==
  IF RingFull(n) THEN {"full"}
  ELSE {"ok"} \cup (IF PostFail THEN {"postfail"} ELSE {})

\* The req tail loop at the end of MemoryNode::poll.
RECURSIVE AdvanceReq(_)
AdvanceReq(n) ==
  IF n.done[n.tail % ReqSlots] /\ n.tail < n.head
  THEN AdvanceReq([n EXCEPT !.done[n.tail % ReqSlots] = FALSE, !.tail = @ + 1])
  ELSE n

\* The first machine, in node_map_ order, that _CompletePendingRequests
\* still has to poll for job j.
NextToPoll(j) ==
  MachineOrder[CHOOSE i \in DOMAIN MachineOrder :
                 /\ left[j][MachineOrder[i]] > 0
                 /\ \A k \in 1 .. i - 1 : left[j][MachineOrder[k]] = 0]

Init ==
  /\ node = [m \in Machines |-> NodeInit]
  /\ comp = [m \in Machines |-> <<>>]
  /\ pollPc = [m \in Machines |-> "cq"]
  /\ remaining = [m \in Machines |-> 0]
  /\ pendingReqs = 0
  /\ lock = None
  /\ pc = [j \in Jobs |-> "begin"]
  /\ round = [j \in Jobs |-> 0]
  /\ pg = [j \in Jobs |-> 1]
  /\ left = [j \in Jobs |-> [m \in Machines |-> 0]]
  /\ base \in [Jobs -> [Pages -> Machines]]
  /\ delta = [j \in Jobs |-> [p \in Pages |-> -1]]
  /\ todo = [j \in Jobs |-> {}]
  /\ completed = [j \in Jobs |-> 0]
  /\ issued = [m \in Machines |-> {}]
  /\ got = [m \in Machines |-> {}]

-----------------------------------------------------------------------------
(* The jobs.                                                               *)

\* DeduplicateDump up to its read loop: the destination buffer is mapped
\* and registered (reg_dst_mr, lookup_raw_local_mr).
BeginDedup(j) ==
  /\ pc[j] = "begin"
  /\ pc' = [pc EXCEPT ![j] = "read"]
  /\ UNCHANGED <<nodeVars, mgrVars, round, pg, left, base, delta, todo,
                 completed, issued, got>>

\* RestoreDump of a deduplicated sandbox, up to its read loop.
BeginRestore(j) ==
  /\ pc[j] = "dumped" /\ round[j] < MaxRestores
  /\ round' = [round EXCEPT ![j] = @ + 1]
  /\ pc' = [pc EXCEPT ![j] = "read"]
  /\ pg' = [pg EXCEPT ![j] = 1]
  /\ UNCHANGED <<nodeVars, mgrVars, left, base, delta, todo, completed, issued, got>>

\* AddMemoryRequest(req) of job j for a read of context c from machine m:
\* the request is counted in remaining_req_ and pending_reqs_ whatever
\* post_request returned; at MAX_NUM_PENDING_REQS the job drains every
\* pending request while it holds the mutex.
AddMemoryRequest(j, m, c) ==
  /\ lock = None
  /\ \E o \in PostOutcomes(node[m]) :
       /\ node' = [node EXCEPT ![m] = CASE o = "ok"       -> PostRead(@, c)
                                        [] o = "postfail" -> PostReadFailed(@, c)
                                        [] o = "full"     -> @]
       /\ issued' = [issued EXCEPT ![m] = IF o = "ok" THEN @ \cup {c} ELSE @]
  /\ remaining' = [remaining EXCEPT ![m] = @ + 1]
  /\ pendingReqs' = pendingReqs + 1
  /\ IF pendingReqs + 1 >= ReqSlots
     THEN /\ lock' = j
          /\ pc' = [pc EXCEPT ![j] = "drain"]
          /\ left' = [left EXCEPT ![j] = remaining']
     ELSE UNCHANGED <<lock, pc, left>>

\* One iteration of either read loop: the request for the base page of
\* page pg[j], whose machine the controller chose; a failed post only
\* counts in num_failed, which is logged.
ReadPage(j) ==
  /\ pc[j] = "read" /\ pg[j] <= NumPages
  /\ AddMemoryRequest(j, base[j][pg[j]], <<j, round[j], pg[j]>>)
  /\ pg' = [pg EXCEPT ![j] = @ + 1]
  /\ UNCHANGED <<comp, pollPc, round, base, delta, todo, completed, got>>

\* A drain loop that polls one completion too few per machine.
FinalDrainSkipLast(j) ==
  /\ pc[j] = "read" /\ pg[j] > NumPages
  /\ lock = None
  /\ lock' = j
  /\ pc' = [pc EXCEPT ![j] = "final"]
  /\ left' = [left EXCEPT ![j] = [m \in Machines |->
                 IF remaining[m] > 0 THEN remaining[m] - 1 ELSE 0]]
  /\ UNCHANGED <<nodeVars, remaining, pendingReqs, round, pg, base, delta,
                 todo, completed, issued, got>>

\* CompletePendingRequests after the loop.
FinalDrain(j) ==
  /\ pc[j] = "read" /\ pg[j] > NumPages
  /\ lock = None
  /\ lock' = j
  /\ pc' = [pc EXCEPT ![j] = "final"]
  /\ left' = [left EXCEPT ![j] = remaining]
  /\ UNCHANGED <<nodeVars, remaining, pendingReqs, round, pg, base, delta,
                 todo, completed, issued, got>>

\* One successful poll_completion of _CompletePendingRequests; while the
\* machine's comp_queue_ is empty the job spins and takes no step.
PollCompletion(j) ==
  /\ pc[j] \in {"drain", "final"}
  /\ \E m \in Machines : left[j][m] > 0
  /\ LET m == NextToPoll(j)
     IN  /\ comp[m] # <<>>
         /\ comp' = [comp EXCEPT ![m] = Tail(@)]
         /\ got' = [got EXCEPT ![m] = @ \cup {Head(comp[m])}]
         /\ left' = [left EXCEPT ![j][m] = @ - 1]
  /\ UNCHANGED <<node, pollPc, mgrVars, pc, round, pg, base, delta, todo,
                 completed, issued>>

\* DeduplicateDump posts an EncodePage task for every page it read.
EncodeTasks == Pages

\* Job j's delta_sizes as DeduplicateDump's STEP 4 reads it, by page id
\* (page p of the model is page id p - 1).
DeltaSizesOf(j) == [q \in 0 .. NumPages - 1 |-> delta[j][q + 1]]

\* RestoreDump reads each page's patch_length from dedup_map_ and posts a
\* DecodePage task only for the pages whose record is not PAGE_SIZE bytes;
\* the others are copied as they are.
DecodeTasks(j) ==
  {p \in Pages : RecordLength(PatchLengths(DeltaSizesOf(j)), p - 1) # PageSize}

\* The end of _CompletePendingRequests (remaining_req_.clear(),
\* pending_reqs_ = 0) and of the critical section; after the final drain
\* the dump posts its tasks.
DrainDone(j) ==
  /\ pc[j] \in {"drain", "final"}
  /\ \A m \in Machines : left[j][m] = 0
  /\ remaining' = [m \in Machines |-> 0]
  /\ pendingReqs' = 0
  /\ lock' = None
  /\ IF pc[j] = "drain"
     THEN pc' = [pc EXCEPT ![j] = "read"] /\ UNCHANGED <<todo, completed>>
     ELSE /\ pc' = [pc EXCEPT ![j] = "work"]
          /\ completed' = [completed EXCEPT ![j] = 0]
          /\ todo' = [todo EXCEPT ![j] = IF round[j] = 0 THEN EncodeTasks
                                         ELSE DecodeTasks(j)]
  /\ UNCHANGED <<nodeVars, round, pg, left, base, delta, issued, got>>

\* An encode task that stays queued after it ran.
EncodePageKeep(j, p) ==
  /\ round[j] = 0 /\ p \in todo[j]
  /\ completed' = [completed EXCEPT ![j] = @ + 1]
  /\ \E ok \in BOOLEAN, size \in DeltaAlloc :
       delta' = [delta EXCEPT ![j][p] = EncodeResult(ok, size)]
  /\ UNCHANGED <<nodeVars, mgrVars, pc, round, pg, left, base, todo, issued, got>>

\* EncodePage: xd3_encode_memory fails or yields a delta of up to
\* delta_alloc bytes, and delta_sizes[page_id] keeps it when it is below
\* patch_threshold_; the task counts itself.
EncodePage(j, p) ==
  /\ round[j] = 0 /\ p \in todo[j]
  /\ todo' = [todo EXCEPT ![j] = @ \ {p}]
  /\ completed' = [completed EXCEPT ![j] = @ + 1]
  /\ \E ok \in BOOLEAN, size \in DeltaAlloc :
       delta' = [delta EXCEPT ![j][p] = EncodeResult(ok, size)]
  /\ UNCHANGED <<nodeVars, mgrVars, pc, round, pg, left, base, issued, got>>

\* DecodePage: the task counts itself whatever xd3_decode_memory returns.
DecodePage(j, p) ==
  /\ round[j] > 0 /\ p \in todo[j]
  /\ todo' = [todo EXCEPT ![j] = @ \ {p}]
  /\ completed' = [completed EXCEPT ![j] = @ + 1]
  /\ UNCHANGED <<nodeVars, mgrVars, pc, round, pg, left, base, delta, issued, got>>

\* while (completed != num_dedup_pages); then dereg_mr of the destination
\* region.  num_dedup_pages is the number of base pages in both dumps
\* (basepagelist_size, GetDedupMapSize).
TasksDone(j) ==
  /\ pc[j] = "work"
  /\ completed[j] = NumPages
  /\ pc' = [pc EXCEPT ![j] = "dumped"]
  /\ UNCHANGED <<nodeVars, mgrVars, round, pg, left, base, delta, todo,
                 completed, issued, got>>

-----------------------------------------------------------------------------
(* The poller and the NIC.                                                 *)

\* The RDMA_READ branch of MemoryNode::poll's completion loop: is_complete
\* of slot wr_id is set and its uctx pushed to comp_queue_.
NodeCompletions(m) ==
  /\ pollPc[m] = "cq"
  /\ node[m].cq # <<>>
  /\ LET n == node[m]
     IN  /\ node' = [node EXCEPT ![m] = [n EXCEPT
                       !.done = [s \in RSlot |-> @[s] \/ s \in ToSet(n.cq)],
                       !.cq = <<>>]]
         /\ comp' = [comp EXCEPT ![m] = @ \o [i \in 1 .. Len(n.cq) |-> n.uctx[n.cq[i]]]]
  /\ pollPc' = [pollPc EXCEPT ![m] = "tail"]
  /\ UNCHANGED <<mgrVars, jobVars, issued, got>>

\* The req tail loop that ends MemoryNode::poll, under req_mutex.
NodeReqTail(m) ==
  /\ pollPc[m] = "tail"
  /\ node' = [node EXCEPT ![m] = AdvanceReq(@)]
  /\ pollPc' = [pollPc EXCEPT ![m] = "cq"]
  /\ UNCHANGED <<comp, mgrVars, jobVars, issued, got>>

\* The NIC performs the oldest posted read and queues its completion.
ReadDone(m) ==
  /\ node[m].sq # <<>>
  /\ node' = [node EXCEPT ![m].sq = Tail(@), ![m].cq = Append(@, Head(node[m].sq))]
  /\ UNCHANGED <<comp, pollPc, mgrVars, jobVars, issued, got>>

-----------------------------------------------------------------------------
JobStep(j) ==
  \/ BeginDedup(j) \/ BeginRestore(j) \/ ReadPage(j) \/ FinalDrain(j) \/ PollCompletion(j)
  \/ DrainDone(j) \/ TasksDone(j)
  \/ \E p \in Pages : EncodePage(j, p) \/ DecodePage(j, p)

NodeStep(m) == NodeCompletions(m) \/ NodeReqTail(m) \/ ReadDone(m)

Next == (\E j \in Jobs : JobStep(j)) \/ (\E m \in Machines : NodeStep(m))

Spec == Init /\ [][Next]_vars

\* The pool runs every job and task it was given, the poller loops for
\* ever and the NIC performs every posted read.
FairSpec == Spec /\ \A j \in Jobs : WF_vars(JobStep(j))
                 /\ \A m \in Machines : WF_vars(NodeStep(m))

-----------------------------------------------------------------------------
(* Properties.                                                             *)

TypeOK ==
  /\ node \in [Machines -> ReqNode]
  /\ comp \in [Machines -> Seq(Ctx)]
  /\ pollPc \in [Machines -> {"cq", "tail"}]
  /\ remaining \in [Machines -> Nat] /\ pendingReqs \in Nat
  /\ lock \in Jobs \cup {None}
  /\ pc \in [Jobs -> {"begin", "read", "drain", "final", "work", "dumped"}]
  /\ round \in [Jobs -> 0 .. MaxRestores]
  /\ pg \in [Jobs -> 1 .. NumPages + 1]
  /\ left \in [Jobs -> [Machines -> Nat]]
  /\ delta \in [Jobs -> [Pages -> EncodeResults]]
  /\ todo \in [Jobs -> SUBSET Pages] /\ completed \in [Jobs -> 0 .. NumPages]
  /\ issued \in [Machines -> SUBSET Ctx] /\ got \in [Machines -> SUBSET Ctx]

\* The contexts a machine still owes: of the posted reads, of the polled
\* completions and of comp_queue_, oldest first.
Owed(m) ==
  LET n == node[m]
  IN  [i \in 1 .. Len(n.sq) |-> n.uctx[n.sq[i]]]
        \o [i \in 1 .. Len(n.cq) |-> n.uctx[n.cq[i]]] \o comp[m]

\* Every posted read yields exactly one completion, with its own context:
\* a request slot is never reused while its read or its completion is
\* outstanding, whatever the interleaving of the jobs' posts, the NIC and
\* the poller's completion and tail loops.
CompletionsMatchRequests ==
  \A m \in Machines :
    /\ IsInjective(Owed(m))
    /\ ToSet(Owed(m)) \cap got[m] = {}
    /\ ToSet(Owed(m)) \cup got[m] = issued[m]

\* CompletePendingRequests is a barrier: when a job hands its pages to the
\* encode or decode tasks, none of its reads of this dump is still being
\* performed by the NIC, even when another job's drain took its
\* completions from the shared remaining_req_.
ReadsLandedBeforeUse ==
  \A j \in Jobs : pc[j] = "work" =>
    \A m \in Machines : \A i \in DOMAIN node[m].sq :
      LET c == node[m].uctx[node[m].sq[i]] IN ~(c[1] = j /\ c[2] = round[j])

\* The count _CompletePendingRequests waits for: what the drainer has left
\* to poll, or else remaining_req_.
Counted(m) == IF lock = None THEN remaining[m] ELSE left[lock][m]

\* AddMemoryRequest's count matches what will complete: the drain never
\* waits for more completions from a machine than it has reads
\* outstanding, so its spin on poll_completion ends.
CountedReadsOutstanding ==
  \A m \in Machines : Counted(m) <= Len(Owed(m))

\* The patch file parses: for the delta_sizes each job's EncodePage tasks
\* left, and for every dump layout of the sandbox's pages, RestoreDump
\* reads back each record with the length DeduplicateDump's STEP 4 wrote,
\* decodes exactly the pages written as patches, and returns every page to
\* the file and index ComputeMemoryHashes numbered it by.
DumpLayouts == {np \in Layouts : Len(HashedPages(np)) = NumPages}

\* The delta_sizes of the sandbox's pages whose patch file parses under
\* every layout.
ParsingDeltaSizes ==
  UNION {IF \A np \in DumpLayouts : PatchFileParses(np, ds) THEN {ds} ELSE {} :
           ds \in [0 .. NumPages - 1 -> EncodeResults]}

PatchFileRoundTrip == \A j \in Jobs : DeltaSizesOf(j) \in ParsingDeltaSizes

\* Every RestoreDump that has posted its decode tasks gets past its
\* while (completed != num_dedup_pages) loop.
RestoreCompletes ==
  \A j \in Jobs : (pc[j] = "work" /\ round[j] > 0) ~> pc[j] = "dumped"

=============================================================================
