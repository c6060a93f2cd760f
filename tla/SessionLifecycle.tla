--------------------------- MODULE SessionLifecycle --------------------------
(***************************************************************************)
(* How the ALSA bluetooth plugin keeps a closed A2DP session around for    *)
(* WATCHER_TIMEOUT seconds so that a quick reopen (a track skip) can take *)
(* it back without renegotiating (ste-pcm_bluetooth.c).                    *)
(*                                                                         *)
(* bluetooth_close() links the session's bluetooth_data into the global    *)
(* list outstanding_data (under list_mutex) and starts a detached watcher *)
(* thread.  The watcher waits on data->cond under data->mut until          *)
(* kill_watcher is set or the timeout expires; on a timeout it unlinks     *)
(* the session and frees it (bluetooth_exit()).  The plugin's open         *)
(* function walks the list WITHOUT taking list_mutex                       *)
(* (bluetooth_find_outstanding_data()); on a session for the same device   *)
(* it sets kill_watcher and unlinks it, and uses it.                       *)
(*                                                                         *)
(* Openers are the application threads that open and close the PCM.  A    *)
(* list node and the watcher started with it share an id.  Every          *)
(* bluetooth_data and every node is allocated once (addresses are not      *)
(* reused); freeing one removes it from alive / nodes_alive, and a thread *)
(* positioned to touch a freed object is what the properties look for.     *)
(***************************************************************************)
EXTENDS Naturals, Sequences, FiniteSets

CONSTANTS
  Openers,   \* application threads calling the plugin's open and close
  Sessions,  \* bluetooth_data objects malloc() may return
  Devices,   \* remote devices named by the ALSA configuration
  MaxNodes,  \* bound on list nodes (= closes = watcher threads)
  MaxOpens,  \* bound on opens
  None       \* a NULL bluetooth_data pointer

ASSUME ConstAssumption ==
  /\ Openers # {} /\ Sessions # {} /\ Devices # {}
  /\ MaxNodes \in Nat /\ MaxOpens \in Nat
  /\ None \notin Sessions

Nodes == 1..MaxNodes
NoNode == 0

\* Where an opener is: not holding the PCM, walking the list at a node,
\* about to kill the watcher of a match, about to unlink it, or holding
\* the PCM open.
OpenerPCs == {"idle", "scan", "kill", "remove", "holding"}
\* Where a watcher thread is: not started, waiting on data->cond, timed
\* out before unlinking, unlinked before bluetooth_exit(), or exited.
WatcherPCs == {"none", "wait", "expired", "exiting", "done"}

VARIABLES
  outstanding_data,  \* the list: a sequence of node ids, head first
  node_data,         \* node id -> the bluetooth_data it points to
  nodes_alive,       \* nodes not yet free()d
  alive,             \* bluetooth_data objects allocated and not free()d
  used,              \* bluetooth_data objects ever allocated
  device,            \* data->alsa_config.device of each object
  kill_watcher,      \* data->kill_watcher of each object
  opc,               \* opener -> where it is
  odev,              \* opener -> the device it opens
  cursor,            \* opener -> the node bluetooth_find_outstanding_data() is at
  odata,             \* opener -> the bluetooth_data it found or holds
  wpc,               \* watcher id -> where it is
  wdata,             \* watcher id -> its bluetooth_data
  nnodes,            \* nodes allocated so far
  nopens             \* opens so far

vars == <<outstanding_data, node_data, nodes_alive, alive, used, device,
          kill_watcher, opc, odev, cursor, odata, wpc, wdata, nnodes, nopens>>
list_vars == <<outstanding_data, node_data, nodes_alive, nnodes>>
data_vars == <<alive, used, device, kill_watcher>>
opener_vars == <<opc, odev, cursor, odata, nopens>>
watcher_vars == <<wpc, wdata>>

-----------------------------------------------------------------------------
(***************************************************************************)
(* Helpers translated from the plugin.                                     *)
(***************************************************************************)

\* The node after n in the list, as elem->next reads it (NoNode at the end).
NextNode(n) ==
  LET i == CHOOSE k \in DOMAIN outstanding_data : outstanding_data[k] = n
  IN  IF i < Len(outstanding_data) THEN outstanding_data[i + 1] ELSE NoNode

\* Mutant: the node is unlinked but not free()d.
RemoveOutstandingUnlinksOnly(d) ==
  IF \E k \in DOMAIN outstanding_data : node_data[outstanding_data[k]] = d
  THEN LET k == CHOOSE k \in DOMAIN outstanding_data :
                  /\ node_data[outstanding_data[k]] = d
                  /\ \A j \in 1..(k - 1) : node_data[outstanding_data[j]] # d
       IN  /\ outstanding_data' = SubSeq(outstanding_data, 1, k - 1)
                                  \o SubSeq(outstanding_data, k + 1, Len(outstanding_data))
           /\ UNCHANGED nodes_alive
  ELSE UNCHANGED <<outstanding_data, nodes_alive>>

\* remove_outstanding_data(d), atomic under list_mutex: the first node
\* pointing to d is unlinked and free()d; nothing happens if none does.
RemoveOutstanding(d) ==
  IF \E k \in DOMAIN outstanding_data : node_data[outstanding_data[k]] = d
  THEN LET k == CHOOSE k \in DOMAIN outstanding_data :
                  /\ node_data[outstanding_data[k]] = d
                  /\ \A j \in 1..(k - 1) : node_data[outstanding_data[j]] # d
       IN  /\ outstanding_data' = SubSeq(outstanding_data, 1, k - 1)
                                  \o SubSeq(outstanding_data, k + 1, Len(outstanding_data))
           /\ nodes_alive' = nodes_alive \ {outstanding_data[k]}
  ELSE UNCHANGED <<outstanding_data, nodes_alive>>

-----------------------------------------------------------------------------
Init ==
  /\ outstanding_data = <<>>
  /\ node_data = [n \in Nodes |-> None]
  /\ nodes_alive = {}
  /\ alive = {}
  /\ used = {}
  /\ device = [d \in Sessions |-> CHOOSE v \in Devices : TRUE]
  /\ kill_watcher = [d \in Sessions |-> 0]
  /\ opc = [o \in Openers |-> "idle"]
  /\ odev = [o \in Openers |-> CHOOSE v \in Devices : TRUE]
  /\ cursor = [o \in Openers |-> NoNode]
  /\ odata = [o \in Openers |-> None]
  /\ wpc = [w \in Nodes |-> "none"]
  /\ wdata = [w \in Nodes |-> None]
  /\ nnodes = 0
  /\ nopens = 0

\* malloc() and bluetooth_init() of a new session for the opener's device:
\* the end of the open function when the list holds no match.
NewSession(o, v) ==
  \E d \in Sessions \ used :
    /\ alive' = alive \cup {d}
    /\ used' = used \cup {d}
    /\ device' = [device EXCEPT ![d] = v]
    /\ kill_watcher' = [kill_watcher EXCEPT ![d] = 0]
    /\ opc' = [opc EXCEPT ![o] = "holding"]
    /\ odata' = [odata EXCEPT ![o] = d]
    /\ cursor' = [cursor EXCEPT ![o] = NoNode]

(***************************************************************************)
(* The plugin's open function (SND_PCM_PLUGIN_DEFINE_FUNC(bluetooth)) and  *)
(* bluetooth_find_outstanding_data(), one list access per step.            *)
(***************************************************************************)
open(o) ==
  /\ opc[o] = "idle"
  /\ nopens < MaxOpens
  /\ nopens' = nopens + 1
  /\ \E v \in Devices :
       /\ odev' = [odev EXCEPT ![o] = v]
       /\ IF outstanding_data = <<>>
          THEN /\ NewSession(o, v)
               /\ UNCHANGED <<list_vars, watcher_vars>>
          ELSE /\ opc' = [opc EXCEPT ![o] = "scan"]
               /\ cursor' = [cursor EXCEPT ![o] = Head(outstanding_data)]
               /\ UNCHANGED <<list_vars, data_vars, odata, watcher_vars>>

\* The loop body: elem->data, its alsa_config, and elem->next, read with
\* no lock held.  A node free()d meanwhile still reads as it was, and its
\* next pointer as NULL.
find_step(o) ==
  /\ opc[o] = "scan"
  /\ LET n == cursor[o]
         d == node_data[n]
         nx == IF n \in nodes_alive THEN NextNode(n) ELSE NoNode
     IN  IF device[d] = odev[o]
         THEN /\ opc' = [opc EXCEPT ![o] = "kill"]
              /\ odata' = [odata EXCEPT ![o] = d]
              /\ UNCHANGED <<data_vars, cursor>>
         ELSE IF nx = NoNode
         THEN NewSession(o, odev[o])
         ELSE /\ cursor' = [cursor EXCEPT ![o] = nx]
              /\ UNCHANGED <<data_vars, opc, odata>>
  /\ UNCHANGED <<list_vars, watcher_vars, odev, nopens>>

\* bluetooth_kill_watcher() on the match: kill_watcher = 1 under data->mut.
find_kill(o) ==
  /\ opc[o] = "kill"
  /\ kill_watcher' = [kill_watcher EXCEPT ![odata[o]] = 1]
  /\ opc' = [opc EXCEPT ![o] = "remove"]
  /\ UNCHANGED <<list_vars, alive, used, device, cursor, odata, odev, nopens,
                 watcher_vars>>

\* remove_outstanding_data() on the match; the opener now uses it.
find_remove(o) ==
  /\ opc[o] = "remove"
  /\ RemoveOutstanding(odata[o])
  /\ opc' = [opc EXCEPT ![o] = "holding"]
  /\ UNCHANGED <<node_data, nnodes, data_vars, cursor, odata, odev, nopens,
                 watcher_vars>>

\* Mutant: the new node takes the id of the last one (k = nnodes).
closeReusesLastId(o) ==
  /\ opc[o] = "holding"
  /\ nnodes < MaxNodes
  /\ LET d == odata[o]
         k == nnodes
     IN  \/ /\ outstanding_data' = <<k>> \o outstanding_data
            /\ node_data' = [node_data EXCEPT ![k] = d]
            /\ nodes_alive' = nodes_alive \cup {k}
            /\ nnodes' = k + 1
            /\ wpc' = [wpc EXCEPT ![k] = "wait"]
            /\ wdata' = [wdata EXCEPT ![k] = d]
            /\ UNCHANGED alive
         \/ /\ alive' = alive \ {d}
            /\ UNCHANGED <<list_vars, watcher_vars>>
  /\ opc' = [opc EXCEPT ![o] = "idle"]
  /\ odata' = [odata EXCEPT ![o] = None]
  /\ UNCHANGED <<used, device, kill_watcher, cursor, odev, nopens>>

(***************************************************************************)
(* bluetooth_close(): the session is linked at the head of the list and a *)
(* watcher started; if the node cannot be allocated or the thread cannot  *)
(* be created, the session is unlinked and freed at once.                 *)
(***************************************************************************)
close(o) ==
  /\ opc[o] = "holding"
  /\ nnodes < MaxNodes
  /\ LET d == odata[o]
         k == nnodes + 1
     IN  \/ /\ outstanding_data' = <<k>> \o outstanding_data
            /\ node_data' = [node_data EXCEPT ![k] = d]
            /\ nodes_alive' = nodes_alive \cup {k}
            /\ nnodes' = k
            /\ wpc' = [wpc EXCEPT ![k] = "wait"]
            /\ wdata' = [wdata EXCEPT ![k] = d]
            /\ UNCHANGED alive
         \/ /\ alive' = alive \ {d}
            /\ UNCHANGED <<list_vars, watcher_vars>>
  /\ opc' = [opc EXCEPT ![o] = "idle"]
  /\ odata' = [odata EXCEPT ![o] = None]
  /\ UNCHANGED <<used, device, kill_watcher, cursor, odev, nopens>>

(***************************************************************************)
(* bluetooth_watcher().                                                    *)
(***************************************************************************)
\* Mutant: an untimed pthread_cond_wait(): the watcher only ever leaves
\* on kill_watcher.
watcherWakeUntimed(w) ==
  /\ wpc[w] = "wait"
  /\ kill_watcher[wdata[w]] = 1
  /\ kill_watcher' = [kill_watcher EXCEPT ![wdata[w]] = 0]
  /\ wpc' = [wpc EXCEPT ![w] = "done"]
  /\ UNCHANGED <<list_vars, alive, used, device, opener_vars, wdata>>

\* Under data->mut: a set kill_watcher is consumed and the thread exits;
\* otherwise pthread_cond_timedwait() times out.
watcher_wake(w) ==
  /\ wpc[w] = "wait"
  /\ IF kill_watcher[wdata[w]] = 1
     THEN /\ kill_watcher' = [kill_watcher EXCEPT ![wdata[w]] = 0]
          /\ wpc' = [wpc EXCEPT ![w] = "done"]
     ELSE /\ wpc' = [wpc EXCEPT ![w] = "expired"]
          /\ UNCHANGED kill_watcher
  /\ UNCHANGED <<list_vars, alive, used, device, opener_vars, wdata>>

\* Timer expired: remove_outstanding_data().
watcher_remove(w) ==
  /\ wpc[w] = "expired"
  /\ RemoveOutstanding(wdata[w])
  /\ wpc' = [wpc EXCEPT ![w] = "exiting"]
  /\ UNCHANGED <<node_data, nnodes, data_vars, opener_vars, wdata>>

\* Mutant: the timed-out watcher unlinks the session but never frees it.
watcherExitWithoutFree(w) ==
  /\ wpc[w] = "exiting"
  /\ wpc' = [wpc EXCEPT ![w] = "done"]
  /\ UNCHANGED <<list_vars, alive, used, device, kill_watcher, opener_vars, wdata>>

\* Then bluetooth_exit() frees the session.
watcher_exit(w) ==
  /\ wpc[w] = "exiting"
  /\ alive' = alive \ {wdata[w]}
  /\ wpc' = [wpc EXCEPT ![w] = "done"]
  /\ UNCHANGED <<list_vars, used, device, kill_watcher, opener_vars, wdata>>

Watcher(w) == watcher_wake(w) \/ watcher_remove(w) \/ watcher_exit(w)

\* The bounds on opens or closes are reached: the run may end here.
BoundReached ==
  /\ nopens = MaxOpens \/ nnodes = MaxNodes
  /\ UNCHANGED vars

Next ==
  \/ BoundReached
  \/ \E o \in Openers :
       open(o) \/ find_step(o) \/ find_kill(o) \/ find_remove(o) \/ close(o)
  \/ \E w \in Nodes : Watcher(w)

\* A started watcher is a runnable thread and its timed wait returns after
\* WATCHER_TIMEOUT: each of its steps is weakly fair.  Openers may stop.
Spec == Init /\ [][Next]_vars /\ \A w \in Nodes : WF_vars(Watcher(w))

-----------------------------------------------------------------------------
TypeOK ==
  /\ outstanding_data \in Seq(Nodes)
  /\ node_data \in [Nodes -> Sessions \cup {None}]
  /\ nodes_alive \subseteq Nodes
  /\ alive \subseteq used /\ used \subseteq Sessions
  /\ device \in [Sessions -> Devices]
  /\ kill_watcher \in [Sessions -> {0, 1}]
  /\ opc \in [Openers -> OpenerPCs]
  /\ odev \in [Openers -> Devices]
  /\ cursor \in [Openers -> Nodes \cup {NoNode}]
  /\ odata \in [Openers -> Sessions \cup {None}]
  /\ wpc \in [Nodes -> WatcherPCs]
  /\ wdata \in [Nodes -> Sessions \cup {None}]
  /\ nnodes \in 0..MaxNodes /\ nopens \in 0..MaxOpens

\* The list of outstanding sessions is sound however the opener's
\* reclaim (find_remove) and the watchers' timeouts (watcher_remove)
\* interleave: it links exactly the nodes not yet free()d, none of them
\* twice.  A node freed while still linked would be read by the next scan
\* of bluetooth_find_outstanding_data(); one unlinked and never freed leaks.
OutstandingListSound ==
  /\ {outstanding_data[i] : i \in DOMAIN outstanding_data} = nodes_alive
  /\ \A i, j \in DOMAIN outstanding_data :
       i # j => outstanding_data[i] # outstanding_data[j]

\* No thread touches freed memory: an opener walking the list stands on a
\* node and a bluetooth_data that are allocated, the session it found or
\* holds is allocated, and so is the session of every watcher that has not
\* exited (bluetooth_find_outstanding_data() against a timing-out
\* bluetooth_watcher(), and watchers against a session reused after close).
NoUseAfterFree ==
  /\ \A o \in Openers :
       /\ opc[o] = "scan" => cursor[o] \in nodes_alive /\ node_data[cursor[o]] \in alive
       /\ opc[o] \in {"kill", "remove", "holding"} => odata[o] \in alive
  /\ \A w \in Nodes : wpc[w] \in {"wait", "expired", "exiting"} => wdata[w] \in alive

\* A session is used by at most one PCM at a time, and a session in use is
\* not on the list of sessions waiting to be reclaimed.
ExclusiveOwnership ==
  \A o \in Openers :
    opc[o] = "holding" =>
      /\ \A p \in Openers \ {o} : opc[p] = "holding" => odata[p] # odata[o]
      /\ \A k \in DOMAIN outstanding_data : node_data[outstanding_data[k]] # odata[o]

\* Every watcher thread ends (bluetooth_watcher() never blocks for good).
WatcherTerminates ==
  \A w \in Nodes : wpc[w] = "wait" ~> wpc[w] = "done"

\* A closed session is not leaked: it is eventually freed, or taken back
\* by an open.
ClosedSessionReleased ==
  \A d \in Sessions :
    (d \in alive /\ \A o \in Openers : odata[o] # d)
      ~> (d \notin alive \/ \E o \in Openers : odata[o] = d)
=============================================================================
