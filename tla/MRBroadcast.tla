---------------------------- MODULE MRBroadcast ----------------------------
(***************************************************************************)
(* The source memory-region broadcast of the memory layer                  *)
(* (src/dedup-service/memory_layer.cc).                                    *)
(*                                                                         *)
(* One source machine registers the dump files of its base sandboxes with  *)
(* reg_src_mr and broadcasts each region id over one InboundConnection per *)
(* peer.  Each peer's MemoryNode poller stores the id in src_mr_map_ and    *)
(* sends the message back as an ack; the source's poller counts the acks   *)
(* and, when success_cnt reaches target_success_cnt, runs the callback     *)
(* that decrements pending_mrs_cnt_.  Both ends keep the MRMessaging rings *)
(* of MAX_NUM_PENDING_MRS send and receive slots, indexed by head % size   *)
(* and freed by advancing the tail over completed slots.                   *)
(*                                                                         *)
(* The RDMA queues are part of the model: a posted send is transmitted     *)
(* when the other end has a posted receive (rnr_retry_count is infinite),  *)
(* the receive completion is queued at once, and the send completion is    *)
(* queued later, when the transport acknowledgement arrives.  Send and     *)
(* receive completions of one queue pair are not ordered with each other.  *)
(***************************************************************************)
EXTENDS Integers, Sequences, FiniteSets, SequencesExt

CONSTANTS
  Peers,          \* machines with a MemoryNode connected to the source
  RegThreads,     \* worker pool threads that call reg_src_mr
  Slots,          \* MAX_NUM_PENDING_MRS
  IdMaxValue,     \* MemoryRegionIDMaxValue: ids the source hands out
  PostFailures,   \* which of ibv_post_send / ibv_post_recv may fail in send_mr
  PeerCrash       \* whether a peer process may die

ASSUME /\ Slots \in Nat \ {0}
       /\ IdMaxValue \in Nat \ {0}
       /\ PostFailures \subseteq {"sendfail", "recvfail"}
       /\ PeerCrash \in BOOLEAN

Ids == 0 .. IdMaxValue - 1
Slot == 0 .. Slots - 1
NoId == -1          \* a message slot never written (memset to 0 in init)

VARIABLES
  srv,        \* srv[p]: the source's InboundConnection for peer p
  cli,        \* cli[p]: peer p's MemoryNode for the source
  conns,      \* the peers in conns_map_
  srcMrs,     \* the ids in src_mrs_map_
  srcCnt,     \* src_mrs_cnt_
  smr,        \* smr[id]: target_success_cnt, success_cnt, callbacks run,
              \*   and (ghost) the peers send_mr succeeded for
  pending,    \* pending_mrs_cnt_ (unsigned; a negative value is a wrap)
  known,      \* known[p]: the ids in peer p's src_mr_map_
  pc,         \* pc[t]: where thread t is in reg_src_mr
  tid,        \* tid[t]: the id thread t registered
  sent,       \* sent[t]: send_success_cnt
  tgt,        \* tgt[t]: target_send_success_cnt
  ret,        \* ret[t]: reg_src_mr's last result
  crashed     \* peers whose process died

ringVars == <<srv, cli>>
srcVars == <<conns, srcMrs, srcCnt, smr, pending>>
thrVars == <<pc, tid, sent, tgt, ret>>
vars == <<ringVars, srcVars, known, thrVars, crashed>>

(***************************************************************************)
(* The MRMessaging state of one end.  sHead..rMsg are the fields of the    *)
(* code; sq (posted sends not yet transmitted), inFlight (transmitted, no  *)
(* completion yet), sCq (send completions queued), rq (posted receives)    *)
(* and rCq (receive completions queued) are the queue pair's state.        *)
(***************************************************************************)
Endpoint == [sHead : Nat, sTail : Nat, sDone : [Slot -> BOOLEAN],
             sMsg : [Slot -> Ids \cup {NoId}],
             rHead : Nat, rTail : Nat, rDone : [Slot -> BOOLEAN],
             rMsg : [Slot -> Ids \cup {NoId}],
             sq : Seq(Slot), inFlight : Seq(Slot), sCq : SUBSET Slot,
             rq : Seq(Slot), rCq : Seq(Slot)]

\* MRMessaging::init: zeroed messages and contexts, heads and tails at 0.
MRInit == [sHead |-> 0, sTail |-> 0, sDone |-> [s \in Slot |-> FALSE],
           sMsg |-> [s \in Slot |-> NoId],
           rHead |-> 0, rTail |-> 0, rDone |-> [s \in Slot |-> FALSE],
           rMsg |-> [s \in Slot |-> NoId],
           sq |-> <<>>, inFlight |-> <<>>, sCq |-> {}, rq |-> <<>>, rCq |-> <<>>]

\* MRMessaging::post_head_recv.  is_complete is cleared whether or not the
\* post succeeds; the head only moves on success.
PostHeadRecv(e) ==
  LET slot == e.rHead % Slots
  IN  [e EXCEPT !.rq = Append(@, slot), !.rDone[slot] = FALSE, !.rHead = @ + 1]

PostHeadRecvFailed(e) == [e EXCEPT !.rDone[e.rHead % Slots] = FALSE]

\* A copy of get_head_send_msg that fills the tail slot instead of the head.
PostHeadSendAtTail(e, id) ==
  LET slot == e.sHead % Slots
  IN  [e EXCEPT !.sMsg[e.sTail % Slots] = id, !.sq = Append(@, slot),
                !.sDone[slot] = FALSE, !.sHead = @ + 1]

\* get_head_send_msg filled with the message, then MRMessaging::post_head_send.
PostHeadSend(e, id) ==
  LET slot == e.sHead % Slots
  IN  [e EXCEPT !.sMsg[slot] = id, !.sq = Append(@, slot),
                !.sDone[slot] = FALSE, !.sHead = @ + 1]

PostHeadSendFailed(e, id) ==
  LET slot == e.sHead % Slots
  IN  [e EXCEPT !.sMsg[slot] = id, !.sDone[slot] = FALSE]

\* MemoryNode::connect: init, then MAX_NUM_PENDING_MRS receives posted.
NodeConnect == [MRInit EXCEPT !.rHead = Slots, !.rq = [i \in 1 .. Slots |-> i - 1]]

\* The tail loops of both poll functions: free every completed slot from the
\* tail on; the MemoryNode re-posts a receive for each freed receive slot.
RECURSIVE AdvanceSend(_)
AdvanceSend(e) ==
  IF e.sDone[e.sTail % Slots] /\ e.sTail < e.sHead
  THEN AdvanceSend([e EXCEPT !.sDone[e.sTail % Slots] = FALSE, !.sTail = @ + 1])
  ELSE e

RECURSIVE AdvanceRecv(_, _)
AdvanceRecv(e, repost) ==
  IF e.rDone[e.rTail % Slots] /\ e.rTail < e.rHead
  THEN LET e1 == [e EXCEPT !.rDone[e.rTail % Slots] = FALSE, !.rTail = @ + 1]
       IN  AdvanceRecv(IF repost THEN PostHeadRecv(e1) ELSE e1, repost)
  ELSE e

\* Draining the completion queue: every send completion sets is_complete
\* of slot wr_id, every receive completion that of its slot.
MarkCompletions(e) ==
  [e EXCEPT !.sDone = [s \in Slot |-> @[s] \/ s \in e.sCq],
            !.rDone = [s \in Slot |-> @[s] \/ s \in ToSet(e.rCq)],
            !.sCq = {}, !.rCq = <<>>]

\* The message of each receive completion, read from recv_msg[wr_id].
Received(e) == [i \in 1 .. Len(e.rCq) |-> e.rMsg[e.rCq[i]]]

\* InboundConnection::poll on one end: nothing when every posted receive
\* has been consumed (recv_ctx_head == recv_ctx_tail); otherwise drain the
\* completion queue and advance both tails.
InboundPoll(e) ==
  IF e.rHead = e.rTail THEN e
  ELSE AdvanceRecv(AdvanceSend(MarkCompletions(e)), FALSE)

InboundAcks(e) == IF e.rHead = e.rTail THEN <<>> ELSE Received(e)

\* InboundConnection::send_mr: write the message at the send head, post it,
\* then post a receive for the ack.  It returns 0 only when both posts
\* succeed; o is the outcome of the two ibv_post calls.
SendMr(e, id, o) ==
  CASE o = "ok"       -> PostHeadRecv(PostHeadSend(e, id))
    [] o = "sendfail" -> PostHeadSendFailed(e, id)
    [] o = "recvfail" -> PostHeadRecvFailed(PostHeadSend(e, id))

Outcomes == {"ok"} \cup PostFailures

\* The callback runs each time an ack makes success_cnt equal to
\* target_success_cnt; n acks counted one by one from old reach t once.
Fires(old, n, t) == old < t /\ t <= old + n

\* pending_mrs_cnt_ is std::atomic<unsigned int>: a wrapped (negative)
\* value compares as a huge one.
UnsignedAtLeast(x, k) == x < 0 \/ x >= k

-----------------------------------------------------------------------------
(* reg_src_mr, one action per critical section.                           *)

\* SrcMemoryRegion: target_success_cnt, success_cnt, the callback's runs,
\* and (a ghost) the peers its broadcast reached.
SrcRegion == [target : Nat, success : Nat, cb : Nat, to : SUBSET Peers]

Init ==
  /\ srv = [p \in Peers |-> MRInit]
  /\ cli = [p \in Peers |-> NodeConnect]
  /\ conns = Peers
  /\ srcMrs = {}
  /\ srcCnt = 0
  /\ smr = [id \in Ids |-> [target |-> 0, success |-> 0, cb |-> 0, to |-> {}]]
  /\ pending = 0
  /\ known = [p \in Peers |-> {}]
  /\ pc = [t \in RegThreads |-> "idle"]
  /\ tid = [t \in RegThreads |-> NoId]
  /\ sent = [t \in RegThreads |-> 0]
  /\ tgt = [t \in RegThreads |-> 0]
  /\ ret = [t \in RegThreads |-> "none"]
  /\ crashed = {}

\* The check of pending_mrs_cnt_ and ibv_reg_mr, which fails only where
\* send_mr's posts may fail too.
RegCheck(t) ==
  /\ pc[t] = "idle"
  /\ IF UnsignedAtLeast(pending, Slots)
     THEN ret' = [ret EXCEPT ![t] = "full"] /\ UNCHANGED pc
     ELSE \/ pc' = [pc EXCEPT ![t] = "insert"] /\ UNCHANGED ret
          \/ /\ PostFailures # {}
             /\ ret' = [ret EXCEPT ![t] = "regfail"] /\ UNCHANGED pc
  /\ UNCHANGED <<ringVars, srcVars, known, tid, sent, tgt, crashed>>

RegInsertNoLimit(t) ==
  /\ pc[t] = "insert"
  /\ srcMrs' = srcMrs \cup {srcCnt}
  /\ srcCnt' = srcCnt + 1
  /\ tid' = [tid EXCEPT ![t] = srcCnt]
  /\ pc' = [pc EXCEPT ![t] = "bcast"]
  /\ UNCHANGED <<ringVars, conns, smr, pending, known, sent, tgt, ret, crashed>>

\* The src_mrs_map_ critical section: give up when the ids are used up,
\* else take id src_mrs_cnt_ and insert the region.
RegInsert(t) ==
  /\ pc[t] = "insert"
  /\ IF srcCnt >= IdMaxValue
     THEN /\ pc' = [pc EXCEPT ![t] = "idle"]
          /\ ret' = [ret EXCEPT ![t] = "idsfail"]
          /\ UNCHANGED <<srcMrs, srcCnt, tid>>
     ELSE /\ srcMrs' = srcMrs \cup {srcCnt}
          /\ srcCnt' = srcCnt + 1
          /\ tid' = [tid EXCEPT ![t] = srcCnt]
          /\ pc' = [pc EXCEPT ![t] = "bcast"]
          /\ UNCHANGED ret
  /\ UNCHANGED <<ringVars, conns, smr, pending, known, sent, tgt, crashed>>

\* The target set to the number of connections instead of the sends.
RegBroadcastTargetAll(t) ==
  /\ pc[t] = "bcast"
  /\ \E o \in [conns -> Outcomes] :
       LET to == {p \in conns : o[p] = "ok"}
       IN  /\ srv' = [p \in Peers |-> IF p \in conns THEN SendMr(srv[p], tid[t], o[p]) ELSE srv[p]]
           /\ smr' = [smr EXCEPT ![tid[t]].target = Cardinality(conns), ![tid[t]].to = to]
           /\ sent' = [sent EXCEPT ![t] = Cardinality(to)]
  /\ tgt' = [tgt EXCEPT ![t] = Cardinality(conns)]
  /\ pc' = [pc EXCEPT ![t] = "finish"]
  /\ UNCHANGED <<cli, conns, srcMrs, srcCnt, pending, known, tid, ret, crashed>>

\* The conns_map_ critical section: send_mr to every connection, then
\* target_success_cnt = the number of sends that returned 0.
RegBroadcast(t) ==
  /\ pc[t] = "bcast"
  /\ \E o \in [conns -> Outcomes] :
       LET to == {p \in conns : o[p] = "ok"}
       IN  /\ srv' = [p \in Peers |-> IF p \in conns THEN SendMr(srv[p], tid[t], o[p]) ELSE srv[p]]
           /\ smr' = [smr EXCEPT ![tid[t]].target = Cardinality(to), ![tid[t]].to = to]
           /\ sent' = [sent EXCEPT ![t] = Cardinality(to)]
  /\ tgt' = [tgt EXCEPT ![t] = Cardinality(conns)]
  /\ pc' = [pc EXCEPT ![t] = "finish"]
  /\ UNCHANGED <<cli, conns, srcMrs, srcCnt, pending, known, tid, ret, crashed>>

RegFinishAlwaysCount(t) ==
  /\ pc[t] = "finish"
  /\ pending' = pending + 1
  /\ ret' = [ret EXCEPT ![t] = IF sent[t] < tgt[t] THEN "partial" ELSE "ok"]
  /\ pc' = [pc EXCEPT ![t] = "idle"]
  /\ UNCHANGED <<ringVars, conns, srcMrs, srcCnt, smr, known, tid, sent, tgt, crashed>>

\* After the lock: pending_mrs_cnt_++ when anything was sent, and the
\* return value, which the Register task stores as the pages' mr id (it
\* only tests for -1).
RegFinish(t) ==
  /\ pc[t] = "finish"
  /\ pending' = IF sent[t] > 0 THEN pending + 1 ELSE pending
  /\ ret' = [ret EXCEPT ![t] = IF sent[t] < tgt[t] THEN "partial" ELSE "ok"]
  /\ pc' = [pc EXCEPT ![t] = "idle"]
  /\ UNCHANGED <<ringVars, conns, srcMrs, srcCnt, smr, known, tid, sent, tgt, crashed>>

-----------------------------------------------------------------------------
(* The pollers.                                                            *)

\* One pass of MemoryLayer::poll at the source: when pending_mrs_cnt_ is not
\* 0, poll every connection under conns_mutex_.  Each ack adds one to the
\* success_cnt of the region whose pointer it carries, and the callback
\* (src_mr_ready_cb_) decrements pending_mrs_cnt_.
PollConns ==
  /\ pending # 0
  /\ \E p \in conns : srv[p].rHead # srv[p].rTail /\ (srv[p].sCq # {} \/ srv[p].rCq # <<>>)
  /\ LET acks == UNION {{<<p, i>> : i \in 1 .. Len(InboundAcks(srv[p]))} : p \in conns}
         n(id) == Cardinality({a \in acks : InboundAcks(srv[a[1]])[a[2]] = id})
         fired == {id \in Ids : Fires(smr[id].success, n(id), smr[id].target)}
     IN  /\ srv' = [p \in Peers |-> IF p \in conns THEN InboundPoll(srv[p]) ELSE srv[p]]
         /\ smr' = [id \in Ids |-> [smr[id] EXCEPT !.success = @ + n(id),
                                      !.cb = @ + (IF id \in fired THEN 1 ELSE 0)]]
         /\ pending' = pending - Cardinality(fired)
  /\ UNCHANGED <<cli, conns, srcMrs, srcCnt, known, thrVars, crashed>>

\* MemoryNode::poll at peer p, for its send and receive completions: each
\* received region is inserted into src_mr_map_ and the message is copied
\* into the send head and posted back as the ack; then both tails advance
\* and each freed receive slot is posted again.
NodePoll(p) ==
  /\ p \notin crashed
  /\ cli[p].sCq # {} \/ cli[p].rCq # <<>>
  /\ LET msgs == Received(cli[p])
         acked == FoldLeft(PostHeadSend, MarkCompletions(cli[p]), msgs)
     IN  /\ cli' = [cli EXCEPT ![p] = AdvanceRecv(AdvanceSend(acked), TRUE)]
         /\ known' = [known EXCEPT ![p] = @ \cup ToSet(msgs)]
  /\ UNCHANGED <<srv, srcVars, thrVars, crashed>>

-----------------------------------------------------------------------------
(* The network and the peers.                                              *)

\* The head send of one end lands in the head receive of the other.
Transmitted(e) == [e EXCEPT !.sq = Tail(@), !.inFlight = Append(@, Head(e.sq))]
Delivered(e, msg) == [e EXCEPT !.rq = Tail(@), !.rMsg[Head(e.rq)] = msg,
                               !.rCq = Append(@, Head(e.rq))]
SendCompleted(e) == [e EXCEPT !.inFlight = Tail(@), !.sCq = @ \cup {Head(e.inFlight)}]

ToPeer(p) ==
  /\ p \in conns \ crashed
  /\ srv[p].sq # <<>> /\ cli[p].rq # <<>>
  /\ srv' = [srv EXCEPT ![p] = Transmitted(@)]
  /\ cli' = [cli EXCEPT ![p] = Delivered(@, srv[p].sMsg[Head(srv[p].sq)])]
  /\ UNCHANGED <<srcVars, known, thrVars, crashed>>

ToSource(p) ==
  /\ p \in conns \ crashed
  /\ cli[p].sq # <<>> /\ srv[p].rq # <<>>
  /\ cli' = [cli EXCEPT ![p] = Transmitted(@)]
  /\ srv' = [srv EXCEPT ![p] = Delivered(@, cli[p].sMsg[Head(cli[p].sq)])]
  /\ UNCHANGED <<srcVars, known, thrVars, crashed>>

SourceSendCompleted(p) ==
  /\ p \in conns \ crashed
  /\ srv[p].inFlight # <<>>
  /\ srv' = [srv EXCEPT ![p] = SendCompleted(@)]
  /\ UNCHANGED <<cli, srcVars, known, thrVars, crashed>>

PeerSendCompleted(p) ==
  /\ p \in conns \ crashed
  /\ cli[p].inFlight # <<>>
  /\ cli' = [cli EXCEPT ![p] = SendCompleted(@)]
  /\ UNCHANGED <<srv, srcVars, known, thrVars, crashed>>

Crash(p) ==
  /\ PeerCrash
  /\ p \notin crashed
  /\ crashed' = crashed \cup {p}
  /\ UNCHANGED <<ringVars, srcVars, known, thrVars>>

\* MemoryLayer::on_disconnect: the connection of a dead peer is erased.
OnDisconnect(p) ==
  /\ p \in crashed \cap conns
  /\ conns' = conns \ {p}
  /\ UNCHANGED <<ringVars, srcMrs, srcCnt, smr, pending, known, thrVars, crashed>>

-----------------------------------------------------------------------------
RegStep(t) == RegInsert(t) \/ RegBroadcast(t) \/ RegFinish(t)

Next ==
  \/ \E t \in RegThreads : RegCheck(t) \/ RegStep(t)
  \/ PollConns
  \/ \E p \in Peers :
       \/ NodePoll(p) \/ ToPeer(p) \/ ToSource(p)
       \/ SourceSendCompleted(p) \/ PeerSendCompleted(p)
       \/ Crash(p) \/ OnDisconnect(p)

Spec == Init /\ [][Next]_vars

\* The pollers spin for ever, the hardware delivers and completes what is
\* posted, and a thread inside reg_src_mr returns.  Starting a registration,
\* reading a page and crashing are not forced.
Fairness ==
  /\ \A t \in RegThreads : WF_vars(RegStep(t))
  /\ WF_vars(PollConns)
  /\ \A p \in Peers : /\ WF_vars(NodePoll(p)) /\ WF_vars(ToPeer(p)) /\ WF_vars(ToSource(p))
                      /\ WF_vars(SourceSendCompleted(p)) /\ WF_vars(PeerSendCompleted(p))
                      /\ WF_vars(OnDisconnect(p))

FairSpec == Spec /\ Fairness

-----------------------------------------------------------------------------
(* Properties.                                                             *)

TypeOK ==
  /\ srv \in [Peers -> Endpoint]
  /\ cli \in [Peers -> Endpoint]
  /\ conns \subseteq Peers
  /\ srcMrs \subseteq Ids
  /\ srcCnt \in 0 .. IdMaxValue
  /\ smr \in [Ids -> SrcRegion]
  /\ pending \in Int
  /\ \A p \in Peers : known[p] \subseteq Ids \cup {NoId}
  /\ pc \in [RegThreads -> {"idle", "insert", "bcast", "finish"}]
  /\ tid \in [RegThreads -> Ids \cup {NoId}]
  /\ sent \in [RegThreads -> Nat] /\ tgt \in [RegThreads -> Nat]
  /\ crashed \subseteq Peers

\* A region is ready once its callback has run.
Ready == {id \in Ids : smr[id].cb > 0}

\* Whenever no thread is inside reg_src_mr and every broadcast region has
\* been acknowledged by all its targets, pending_mrs_cnt_ is back to 0: the
\* increment after the broadcast and the decrement in src_mr_ready_cb_
\* balance, whatever order they ran in.
PendingDrained ==
  (/\ \A t \in RegThreads : pc[t] = "idle"
   /\ \A id \in srcMrs : id \in Ready \/ smr[id].target = 0)
  => pending = 0

\* A ready region is known to every peer it was sent to.
ReadyMeansKnown ==
  \A id \in Ready : \A p \in smr[id].to : id \in known[p]

\* Every region broadcast to at least one peer is eventually acknowledged
\* (its callback runs), unless one of its peers dies.
BroadcastAcked ==
  \A id \in Ids :
    smr[id].target > 0 ~> (id \in Ready \/ smr[id].to \cap crashed # {})

\* The broadcast implements MRRegistry: a region is published once its
\* broadcast section is over, peers learn only published regions, and a
\* region becomes ready only when every peer it was sent to knows it.
Published == {id \in srcMrs : ~\E t \in RegThreads : tid[t] = id /\ pc[t] = "bcast"}

Registry == INSTANCE MRRegistry WITH
  Regions <- Ids,
  registered <- srcMrs,
  published <- Published,
  to <- [id \in Ids |-> smr[id].to],
  known <- known,
  ready <- Ready

RegistryRefinement == Registry!Spec

=============================================================================
