------------------------ MODULE MC_SandboxLifecycle ------------------------
(***************************************************************************)
(* Model-checking instance of SandboxLifecycle: one to three request     *)
(* threads of the controller's pool, one machine, and the code's limits   *)
(* scaled down so that each of them is reached.                            *)
(***************************************************************************)
EXTENDS SandboxLifecycle

CONSTANTS r1, r2, r3, m1

OneThread == {r1}
TwoThreads == {r1, r2}
ThreeThreads == {r1, r2, r3}
MCMachines == {m1}

\* Search restriction for the dedup-gate question: behaviours in which no
\* sandbox is ever removed or purged, no start fails and no process dies.
\* It only prunes, so every violation found under it is a behaviour of the
\* full specification.
NoFailure ==
  /\ SandboxBound
  /\ cmap = 0 .. (globalCid - 1)
  /\ \A x \in BagToSet(pool) : x[1] \notin {"purge", "forceRemove"}
  /\ halted = "no"
  /\ BagCardinality(pool) <= 1
  /\ \A r \in Threads : pc[r] # "dropped"
  /\ \A s \in cmap : ci[s].numFailed = 0 /\ ~ci[s].blacklisted
  /\ \A s \in wmap : wi[s].status # "Purge"

====
