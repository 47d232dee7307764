----------------------------- MODULE RdmaConnect -----------------------------
(***************************************************************************)
(* Connection set-up of the RDMA transport (src/rdma) as the memory layer  *)
(* uses it at start-up.                                                    *)
(*                                                                         *)
(* One worker runs MemoryLayer::start_client: for every peer in turn,      *)
(* MemoryNode::connect calls rcltmgr_connect, which resolves the address   *)
(* and then spins for RCLTMGR_CONNECT_TIMEOUT_MS until the client          *)
(* manager's listener thread has marked the connection connected.  The     *)
(* listener takes the events of the event channel one at a time, acks each *)
(* before handling its copy, and drives the connection forward             *)
(* (rcltmgr_on_addr_resolved, _on_route_resolved, _on_connection,          *)
(* _on_disconnect).  Each peer runs rsrvmgr: its listener accepts the      *)
(* request and hands established connections to MemoryLayer::on_connect.   *)
(* The RDMA connection manager between them is the environment: it turns   *)
(* each issued operation into the event that completes it.  Failed         *)
(* operations and error events lead nowhere (the listeners ignore unknown   *)
(* events), so the client's spin ends by timeout.                          *)
(***************************************************************************)
EXTENDS Sequences, FiniteSets

CONSTANTS
  Peers,       \* the other machines of node_map_
  VerbsFail,   \* whether verbs / CM calls (create_id, build, accept ...) may fail
  PeerCrash    \* whether a peer process may die (and be started again)

ASSUME VerbsFail \in BOOLEAN /\ PeerCrash \in BOOLEAN

\* Client-side events (rdma_cm_event.event) for the connection to a peer.
Ev(e, n) == [ev |-> e, peer |-> n]

VARIABLES
  up,         \* peers whose rsrvmgr is listening
  cpc,        \* start_client: "next" peer, "spin" in rcltmgr_connect, "poll"
  todo,       \* peers start_client has not tried yet
  cur,        \* the peer rcltmgr_connect is spinning on
  idSt,       \* idSt[n]: the client's rdma_cm_id for n: "none", "live", "freed"
  conn,       \* conn[n]: its rcomm_connection: "none", "built", "freed"
  connected,  \* conn[n]->connected
  nodeConn,   \* MemoryNode::conn_ of n: "unset", "null", "set"
  cm,         \* cm[n]: the CM operation outstanding on the client's id, or
              \* the state of its connection ("est", "closed")
  cq,         \* the client manager's event channel
  held,       \* the event the client listener has acked and is handling
  sq,         \* sq[n]: peer n's rsrvmgr event channel (our connection only)
  sconn,      \* sconn[n]: peer n's rcomm_connection for us
  inMap       \* inMap[n]: that connection is in n's conns_map_

cliVars == <<cpc, todo, cur, nodeConn>>
cmVars == <<idSt, conn, connected, cm, cq, held>>
srvVars == <<up, sq, sconn, inMap>>
vars == <<cliVars, cmVars, srvVars>>

Init ==
  /\ up \in SUBSET Peers     \* peers not started within the 90 s sleep
  /\ cpc = "next"
  /\ todo = Peers
  /\ cur = CHOOSE n \in Peers : TRUE
  /\ idSt = [n \in Peers |-> "none"]
  /\ conn = [n \in Peers |-> "none"]
  /\ connected = [n \in Peers |-> FALSE]
  /\ nodeConn = [n \in Peers |-> "unset"]
  /\ cm = [n \in Peers |-> "none"]
  /\ cq = <<>>
  /\ held = <<>>
  /\ sq = [n \in Peers |-> <<>>]
  /\ sconn = [n \in Peers |-> "none"]
  /\ inMap = [n \in Peers |-> FALSE]

\* The outcomes of a call that may fail.
Results == IF VerbsFail THEN {TRUE, FALSE} ELSE {TRUE}

\* rcomm_build_connection on the id of peer n: the context (PD, CQ, channel),
\* the QP, then the connection is malloc-ed and stored in id->context.  A
\* failure undoes the context and leaves no connection.
BuildConnection(c, n, ok) == IF ok THEN [c EXCEPT ![n] = "built"] ELSE c

\* rcomm_destroy_connection: the context, the QP, the id and the connection.
DestroyConnection(c, n) == [c EXCEPT ![n] = "freed"]

-----------------------------------------------------------------------------
(* start_client and rcltmgr_connect.                                       *)

\* rcltmgr_connect up to its spin: under rcm->lock, getaddrinfo,
\* rdma_create_id and rdma_resolve_addr.  A failure returns NULL, which
\* MemoryNode::connect stores in conn_; start_client logs it and continues.
Connect(n) ==
  /\ cpc = "next" /\ n \in todo
  /\ todo' = todo \ {n}
  /\ \E ok \in Results :
       IF ok
       THEN /\ idSt' = [idSt EXCEPT ![n] = "live"]
            /\ cm' = [cm EXCEPT ![n] = "addr"]
            /\ cpc' = "spin" /\ cur' = n
            /\ UNCHANGED nodeConn
       ELSE /\ nodeConn' = [nodeConn EXCEPT ![n] = "null"]
            /\ UNCHANGED <<idSt, cm, cpc, cur>>
  /\ UNCHANGED <<conn, connected, cq, held, srvVars>>

\* The spin sees id->context set and connected: the connection is returned
\* and stored in conn_ (MemoryNode::connect's init and receive posts work on
\* it; their failure returns -1 with conn_ set).
Connected ==
  /\ cpc = "spin" /\ conn[cur] = "built" /\ connected[cur]
  /\ nodeConn' = [nodeConn EXCEPT ![cur] = "set"]
  /\ cpc' = "next"
  /\ UNCHANGED <<todo, cur, cmVars, srvVars>>

\* RCLTMGR_CONNECT_TIMEOUT_MS passes: rdma_destroy_id and return NULL.  The
\* CM drops the destroyed id's queued events and, if the peer had accepted,
\* the peer sees a disconnect.  A connection the listener built is not
\* destroyed.
Timeout ==
  /\ cpc = "spin"
  /\ idSt' = [idSt EXCEPT ![cur] = "freed"]
  /\ cm' = [cm EXCEPT ![cur] = "none"]
  /\ cq' = SelectSeq(cq, LAMBDA e : e.peer # cur)
  /\ sq' = IF sconn[cur] = "built" /\ cur \in up
           THEN [sq EXCEPT ![cur] = Append(@, "disc")] ELSE sq
  /\ nodeConn' = [nodeConn EXCEPT ![cur] = "null"]
  /\ cpc' = "next"
  /\ UNCHANGED <<todo, cur, conn, connected, held, up, sconn, inMap>>

\* Every peer has been tried: start_client starts the poller thread, which
\* calls MemoryNode::poll on every node of node_map_ for ever.
StartPoller ==
  /\ cpc = "next" /\ todo = {}
  /\ cpc' = "poll"
  /\ UNCHANGED <<todo, cur, nodeConn, cmVars, srvVars>>

-----------------------------------------------------------------------------
(* The client manager's listener (rcltmgr_listen).                         *)

\* rdma_get_cm_event, memcpy and rdma_ack_cm_event: the event is acked
\* before it is handled.
Fetch ==
  /\ held = <<>> /\ cq # <<>>
  /\ held' = <<Head(cq)>> /\ cq' = Tail(cq)
  /\ UNCHANGED <<cliVars, idSt, conn, connected, cm, srvVars>>

\* rcltmgr_on_event on the copy, then back to rdma_get_cm_event.
Handle ==
  /\ held # <<>>
  /\ LET e == Head(held)
         n == e.peer
     IN  CASE e.ev = "addr" ->
                \* rcomm_build_connection, then rdma_resolve_route
                \E built, routed \in Results :
                  /\ conn' = BuildConnection(conn, n, built)
                  /\ cm' = IF built /\ routed THEN [cm EXCEPT ![n] = "route"] ELSE cm
                  /\ UNCHANGED <<idSt, connected>>
           [] e.ev = "route" ->
                \* rdma_connect
                \E ok \in Results :
                  /\ cm' = IF ok THEN [cm EXCEPT ![n] = "connect"] ELSE cm
                  /\ UNCHANGED <<idSt, conn, connected>>
           [] e.ev = "est" ->
                /\ connected' = [connected EXCEPT ![n] = TRUE]
                /\ UNCHANGED <<idSt, conn, cm>>
           [] e.ev = "disc" ->
                \* rcomm_destroy_connection: context, qp, id and conn
                /\ conn' = DestroyConnection(conn, n)
                /\ idSt' = [idSt EXCEPT ![n] = "freed"]
                /\ UNCHANGED <<connected, cm>>
  /\ held' = <<>>
  /\ UNCHANGED <<cliVars, cq, srvVars>>

-----------------------------------------------------------------------------
(* The RDMA connection manager, and the peers' rsrvmgr.                    *)

\* Address and route resolution complete on a live id.
Resolved(n) ==
  /\ idSt[n] = "live" /\ cm[n] \in {"addr", "route"}
  /\ cq' = Append(cq, Ev(cm[n], n))
  /\ cm' = [cm EXCEPT ![n] = "none"]
  /\ UNCHANGED <<cliVars, idSt, conn, connected, held, srvVars>>

\* The connect request reaches a listening peer; otherwise the client gets
\* REJECTED, which its listener ignores.
Request(n) ==
  /\ idSt[n] = "live" /\ cm[n] = "connect"
  /\ cm' = [cm EXCEPT ![n] = "none"]
  /\ sq' = IF n \in up THEN [sq EXCEPT ![n] = Append(@, "req")] ELSE sq
  /\ UNCHANGED <<cliVars, idSt, conn, connected, cq, held, up, sconn, inMap>>

\* The accepted handshake completes: ESTABLISHED on both sides.
Established(n) ==
  /\ idSt[n] = "live" /\ cm[n] = "accept" /\ n \in up
  /\ cm' = [cm EXCEPT ![n] = "est"]
  /\ cq' = Append(cq, Ev("est", n))
  /\ sq' = [sq EXCEPT ![n] = Append(@, "est")]
  /\ UNCHANGED <<cliVars, idSt, conn, connected, held, up, sconn, inMap>>

\* rsrvmgr_listen handling one event of peer n:
\*   CONNECT_REQUEST: rcomm_build_connection (rdma_reject on failure), then
\*     rdma_accept (rcomm_destroy_connection on failure);
\*   ESTABLISHED: MemoryLayer::on_connect inserts the connection;
\*   DISCONNECTED: MemoryLayer::on_disconnect erases it, then
\*     rcomm_destroy_connection.
ServerEvent(n) ==
  /\ n \in up /\ sq[n] # <<>>
  /\ sq' = [sq EXCEPT ![n] = Tail(@)]
  /\ CASE Head(sq[n]) = "req" ->
            \E built, accepted \in Results :
              /\ sconn' = IF built /\ ~accepted
                           THEN DestroyConnection(sconn, n)
                           ELSE BuildConnection(sconn, n, built)
              /\ cm' = IF built /\ accepted THEN [cm EXCEPT ![n] = "accept"] ELSE cm
              /\ UNCHANGED inMap
       [] Head(sq[n]) = "est" ->
            inMap' = [inMap EXCEPT ![n] = TRUE] /\ UNCHANGED <<sconn, cm>>
       [] Head(sq[n]) = "disc" ->
            /\ inMap' = [inMap EXCEPT ![n] = FALSE]
            /\ sconn' = DestroyConnection(sconn, n)
            /\ UNCHANGED cm
  /\ UNCHANGED <<cliVars, idSt, conn, connected, cq, held, up>>

\* Peer n's process dies: an established connection is closed and the
\* client sees DISCONNECTED; a handshake in progress is lost (the client's
\* error event is ignored).
Crash(n) ==
  /\ PeerCrash /\ n \in up
  /\ up' = up \ {n}
  /\ cq' = IF cm[n] = "est" /\ idSt[n] = "live" THEN Append(cq, Ev("disc", n)) ELSE cq
  /\ cm' = [cm EXCEPT ![n] = CASE @ = "est" -> "closed"
                                 [] @ = "accept" -> "none"
                                 [] OTHER -> @]
  /\ UNCHANGED <<cliVars, idSt, conn, connected, held, sq, sconn, inMap>>

\* Peer n (re)starts: rsrvmgr_start with a fresh event channel and an empty
\* conns_map_.
Start(n) ==
  /\ n \notin up
  /\ up' = up \cup {n}
  /\ sq' = [sq EXCEPT ![n] = <<>>]
  /\ sconn' = [sconn EXCEPT ![n] = "none"]
  /\ inMap' = [inMap EXCEPT ![n] = FALSE]
  /\ UNCHANGED <<cliVars, cmVars>>

-----------------------------------------------------------------------------
Next ==
  \/ \E n \in Peers : Connect(n)
  \/ Connected \/ Timeout \/ StartPoller \/ Fetch \/ Handle
  \/ \E n \in Peers : Resolved(n) \/ Request(n) \/ Established(n)
                      \/ ServerEvent(n) \/ Crash(n) \/ Start(n)

Spec == Init /\ [][Next]_vars

-----------------------------------------------------------------------------
TypeOK ==
  /\ up \subseteq Peers /\ todo \subseteq Peers /\ cur \in Peers
  /\ cpc \in {"next", "spin", "poll"}
  /\ idSt \in [Peers -> {"none", "live", "freed"}]
  /\ conn \in [Peers -> {"none", "built", "freed"}]
  /\ connected \in [Peers -> BOOLEAN]
  /\ nodeConn \in [Peers -> {"unset", "null", "set"}]
  /\ cm \in [Peers -> {"none", "addr", "route", "connect", "accept", "est", "closed"}]
  /\ sconn \in [Peers -> {"none", "built", "freed"}]
  /\ inMap \in [Peers -> BOOLEAN]

\* spec.md (4.1, Failure): peer connect failures are non-fatal to the layer.
\* The poller start_client launches calls MemoryNode::poll, which
\* dereferences conn_, on every node of node_map_: it must only run over
\* nodes whose connect returned a connection.
PolledConnsSet ==
  cpc = "poll" => \A n \in Peers : nodeConn[n] = "set"

=============================================================================
