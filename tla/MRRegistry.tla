---------------------------- MODULE MRRegistry ----------------------------
(***************************************************************************)
(* What the memory layer's region broadcast promises                       *)
(* (memory_layer.h, reg_src_mr / is_src_mr_ready / lookup_raw_remote_mr):  *)
(* a source region is registered, then published to a set of peers; a     *)
(* peer can only learn a published region; and the region is ready only    *)
(* when every peer it was published to has learned it.  Ready is final.   *)
(***************************************************************************)
EXTENDS FiniteSets

CONSTANTS Regions, Peers

VARIABLES registered, published, to, known, ready

avars == <<registered, published, to, known, ready>>

Init ==
  /\ registered = {}
  /\ published = {}
  /\ to = [r \in Regions |-> {}]
  /\ known = [p \in Peers |-> {}]
  /\ ready = {}

Register(r) ==
  /\ r \notin registered
  /\ registered' = registered \cup {r}
  /\ UNCHANGED <<published, to, known, ready>>

Publish(r) ==
  /\ r \in registered \ published
  /\ published' = published \cup {r}
  /\ \E T \in SUBSET Peers : to' = [to EXCEPT ![r] = T]
  /\ UNCHANGED <<registered, known, ready>>

\* Peers learn any number of published regions in one step.
Learn ==
  /\ \A p \in Peers : known[p] \subseteq known'[p] /\ known'[p] \subseteq known[p] \cup published
  /\ known' # known
  /\ known' \in [Peers -> SUBSET Regions]
  /\ UNCHANGED <<registered, published, to, ready>>

\* Any number of regions known to all their peers become ready.
BecomeReady ==
  /\ ready \subseteq ready'
  /\ \A r \in ready' \ ready : r \in published /\ \A p \in to[r] : r \in known[p]
  /\ ready' # ready
  /\ ready' \subseteq Regions
  /\ UNCHANGED <<registered, published, to, known>>

Next == (\E r \in Regions : Register(r) \/ Publish(r)) \/ Learn \/ BecomeReady

Spec == Init /\ [][Next]_avars

=============================================================================
