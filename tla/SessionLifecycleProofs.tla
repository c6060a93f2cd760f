------------------------ MODULE SessionLifecycleProofs -----------------------
(***************************************************************************)
(* Proofs about the list of outstanding sessions of SessionLifecycle, for  *)
(* every value of the constants.                                           *)
(*                                                                         *)
(* TypeOK is not inductive by itself: find_step follows elem->next with    *)
(* NextNode(n), a CHOOSE over the positions of n in outstanding_data, and  *)
(* only gives a node when n is on the list.  The model reads the next      *)
(* pointer of a node only while the node is not free()d, so the fact that  *)
(* makes the step well typed is that every node not yet free()d is linked  *)
(* in the list (AliveListed): close() links the node it allocates, and     *)
(* remove_outstanding_data() unlinks the node it frees.                    *)
(***************************************************************************)
EXTENDS SessionLifecycle, SequenceTheorems, WellFoundedInduction, TLAPS

\* The nodes linked in a list.
Listed(s) == {s[i] : i \in DOMAIN s}

\* Every node that is not free()d is linked in outstanding_data.
AliveListed == nodes_alive \subseteq Listed(outstanding_data)

\* An opener walking the list stands on a node, never on the NULL that
\* ends it.
ScanAtNode == \A o \in Openers : opc[o] = "scan" => cursor[o] \in Nodes

LifeInv == TypeOK /\ AliveListed /\ ScanAtNode

-----------------------------------------------------------------------------
(***************************************************************************)
(* Lemmas about the list operations.                                       *)
(***************************************************************************)

\* A non-empty set of naturals has a least element (the first position
\* remove_outstanding_data() stops at).
LEMMA LeastNatural ==
  ASSUME NEW T, T \subseteq Nat, T # {}
  PROVE  \E k \in T : \A j \in T : ~(j < k)
<1>1. \E k \in T : \A j \in T : ~(<<j, k>> \in OpToRel(<, Nat))
  BY NatLessThanWellFounded, WFMin
<1>. QED  BY <1>1 DEF OpToRel

\* Linking node k at the head of the list (bluetooth_close()).
LEMMA PushListed ==
  ASSUME NEW S, NEW s \in Seq(S), NEW k \in S
  PROVE  /\ <<k>> \o s \in Seq(S)
         /\ Listed(<<k>> \o s) = Listed(s) \cup {k}
<1>1. <<k>> \in Seq(S)  OBVIOUS
<1>2. /\ <<k>> \o s \in Seq(S)
      /\ Len(<<k>> \o s) = 1 + Len(s)
      /\ \A i \in 1 .. 1 + Len(s) : (<<k>> \o s)[i] = IF i <= 1 THEN k ELSE s[i - 1]
  BY <1>1, ConcatProperties
<1>3. DOMAIN (<<k>> \o s) = 1 .. 1 + Len(s)
  BY <1>2
<1>4. Listed(<<k>> \o s) \subseteq Listed(s) \cup {k}
  BY <1>2, <1>3 DEF Listed
<1>5. Listed(s) \cup {k} \subseteq Listed(<<k>> \o s)
  <2>1. k = (<<k>> \o s)[1]  BY <1>2
  <2>2. ASSUME NEW i \in 1 .. Len(s) PROVE s[i] = (<<k>> \o s)[i + 1]
    BY <1>2
  <2>3. ASSUME NEW x \in Listed(s) PROVE x \in Listed(<<k>> \o s)
    <3>1. PICK i \in 1 .. Len(s) : x = s[i]  BY <2>3 DEF Listed
    <3>2. i + 1 \in DOMAIN (<<k>> \o s)  BY <1>3
    <3>. QED  BY <3>1, <3>2, <2>2 DEF Listed
  <2>4. k \in Listed(<<k>> \o s)  BY <2>1, <1>3 DEF Listed
  <2>. QED  BY <2>3, <2>4
<1>. QED  BY <1>2, <1>4, <1>5

\* Unlinking the node at position k (remove_outstanding_data()): what is
\* left is a list of nodes, and every other node linked before is still
\* linked.
LEMMA UnlinkListed ==
  ASSUME NEW S, NEW s \in Seq(S), NEW k \in 1 .. Len(s)
  PROVE  LET r == SubSeq(s, 1, k - 1) \o SubSeq(s, k + 1, Len(s))
         IN  /\ r \in Seq(S)
             /\ Listed(s) \ {s[k]} \subseteq Listed(r)
<1>. DEFINE A == SubSeq(s, 1, k - 1)
            B == SubSeq(s, k + 1, Len(s))
            r == A \o B
<1>1. /\ A \in Seq(S)
      /\ Len(A) = k - 1
      /\ \A i \in 1 .. k - 1 : A[i] = s[i]
  BY SubSeqProperties
<1>2. /\ B \in Seq(S)
      /\ Len(B) = Len(s) - k
      /\ \A i \in 1 .. Len(s) - k : B[i] = s[k + i]
  BY SubSeqProperties
<1>. HIDE DEF A, B
<1>0. /\ r \in Seq(S)
      /\ Len(r) = Len(A) + Len(B)
      /\ \A i \in 1 .. Len(A) + Len(B) : r[i] = IF i <= Len(A) THEN A[i] ELSE B[i - Len(A)]
  BY <1>1, <1>2, ConcatProperties
<1>. HIDE DEF r
<1>3. /\ r \in Seq(S)
      /\ Len(r) = Len(s) - 1
      /\ \A i \in 1 .. Len(s) - 1 : r[i] = IF i <= k - 1 THEN A[i] ELSE B[i - (k - 1)]
  BY <1>0, <1>1, <1>2
<1>4. ASSUME NEW i \in 1 .. Len(s), s[i] # s[k] PROVE s[i] \in Listed(r)
  <2>1. CASE i < k
    <3>1. i \in 1 .. Len(s) - 1  BY <2>1
    <3>2. r[i] = A[i]  BY <2>1, <3>1, <1>3
    <3>3. r[i] = s[i]  BY <2>1, <3>2, <1>1
    <3>. QED  BY <3>1, <3>3, <1>3 DEF Listed
  <2>2. CASE i > k
    <3>1. i - 1 \in 1 .. Len(s) - 1  BY <2>2
    <3>2. r[i - 1] = B[i - k]  BY <2>2, <3>1, <1>3
    <3>3. r[i - 1] = s[i]  BY <2>2, <3>2, <1>2
    <3>. QED  BY <3>1, <3>3, <1>3 DEF Listed
  <2>. QED  BY <2>1, <2>2, <1>4
<1>5. Listed(s) \ {s[k]} \subseteq Listed(r)
  BY <1>4 DEF Listed
<1>. QED  BY <1>3, <1>5 DEF r, A, B

\* What remove_outstanding_data(d) does: nothing, when no linked node
\* points to d, or unlink some position k and free the node there.
LEMMA RemoveOutstandingShape ==
  ASSUME outstanding_data \in Seq(Nodes), NEW d, RemoveOutstanding(d)
  PROVE  \/ UNCHANGED <<outstanding_data, nodes_alive>>
         \/ \E k \in 1 .. Len(outstanding_data) :
              /\ outstanding_data' = SubSeq(outstanding_data, 1, k - 1)
                                     \o SubSeq(outstanding_data, k + 1, Len(outstanding_data))
              /\ nodes_alive' = nodes_alive \ {outstanding_data[k]}
<1>. DEFINE od == outstanding_data
            Match(j) == node_data[od[j]] = d
<1>1. CASE \E j \in DOMAIN od : Match(j)
  <2>. DEFINE T == {j \in DOMAIN od : Match(j)}
              k == CHOOSE j \in DOMAIN od : Match(j) /\ \A i \in 1..(j - 1) : ~Match(i)
  <2>1. PICK m \in T : \A j \in T : ~(j < m)
    <3>1. T \subseteq Nat /\ T # {}  BY <1>1
    <3>. QED  BY <3>1, LeastNatural
  <2>2. m \in DOMAIN od /\ Match(m) /\ \A i \in 1..(m - 1) : ~Match(i)
    BY <2>1
  <2>3. k \in 1 .. Len(od)
    BY <2>2
  <2>4. /\ outstanding_data' = SubSeq(od, 1, k - 1) \o SubSeq(od, k + 1, Len(od))
        /\ nodes_alive' = nodes_alive \ {od[k]}
    BY <1>1 DEF RemoveOutstanding
  <2>. QED  BY <2>3, <2>4
<1>2. CASE ~\E j \in DOMAIN od : Match(j)
  BY <1>2 DEF RemoveOutstanding
<1>. QED  BY <1>1, <1>2

\* remove_outstanding_data(d) keeps the list a list of nodes and every
\* node it does not free linked.
LEMMA RemoveOutstandingInv ==
  ASSUME outstanding_data \in Seq(Nodes),
         nodes_alive \subseteq Nodes, AliveListed,
         NEW d, RemoveOutstanding(d)
  PROVE  /\ outstanding_data' \in Seq(Nodes)
         /\ nodes_alive' \subseteq Nodes
         /\ nodes_alive' \subseteq Listed(outstanding_data')
<1>1. CASE UNCHANGED <<outstanding_data, nodes_alive>>
  BY <1>1 DEF AliveListed
<1>2. ASSUME NEW k \in 1 .. Len(outstanding_data),
             outstanding_data' = SubSeq(outstanding_data, 1, k - 1)
                                 \o SubSeq(outstanding_data, k + 1, Len(outstanding_data)),
             nodes_alive' = nodes_alive \ {outstanding_data[k]}
      PROVE  /\ outstanding_data' \in Seq(Nodes)
             /\ nodes_alive' \subseteq Nodes
             /\ nodes_alive' \subseteq Listed(outstanding_data')
  BY <1>2, UnlinkListed DEF AliveListed
<1>. QED  BY <1>1, <1>2, RemoveOutstandingShape

\* No node is linked twice.
NoDup(s) == \A i, j \in DOMAIN s : i # j => s[i] # s[j]

\* Linking a node that is not yet linked keeps every node linked once.
LEMMA PushNoDup ==
  ASSUME NEW S, NEW s \in Seq(S), NEW k \in S, NoDup(s), k \notin Listed(s)
  PROVE  NoDup(<<k>> \o s)
<1>1. /\ Len(<<k>> \o s) = 1 + Len(s)
      /\ \A i \in 1 .. 1 + Len(s) : (<<k>> \o s)[i] = IF i <= 1 THEN k ELSE s[i - 1]
  BY ConcatProperties
<1>2. DOMAIN (<<k>> \o s) = 1 .. 1 + Len(s)
  BY <1>1, ConcatProperties
<1>3. ASSUME NEW i \in 2 .. 1 + Len(s) PROVE (<<k>> \o s)[i] # k
  BY <1>1 DEF Listed
<1>. QED  BY <1>1, <1>2, <1>3 DEF NoDup

\* Unlinking position k of a list that links every node once leaves
\* exactly the other nodes, each once.
LEMMA UnlinkExact ==
  ASSUME NEW S, NEW s \in Seq(S), NoDup(s), NEW k \in 1 .. Len(s)
  PROVE  LET r == SubSeq(s, 1, k - 1) \o SubSeq(s, k + 1, Len(s))
         IN  /\ Listed(r) = Listed(s) \ {s[k]}
             /\ NoDup(r)
<1>. DEFINE A == SubSeq(s, 1, k - 1)
            B == SubSeq(s, k + 1, Len(s))
            r == A \o B
            \* where position i of r comes from in s
            src(i) == IF i <= k - 1 THEN i ELSE i + 1
<1>1. /\ A \in Seq(S)
      /\ Len(A) = k - 1
      /\ \A i \in 1 .. k - 1 : A[i] = s[i]
  BY SubSeqProperties
<1>2. /\ B \in Seq(S)
      /\ Len(B) = Len(s) - k
      /\ \A i \in 1 .. Len(s) - k : B[i] = s[k + i]
  BY SubSeqProperties
<1>. HIDE DEF A, B
<1>0. /\ r \in Seq(S)
      /\ Len(r) = Len(A) + Len(B)
      /\ \A i \in 1 .. Len(A) + Len(B) : r[i] = IF i <= Len(A) THEN A[i] ELSE B[i - Len(A)]
  BY <1>1, <1>2, ConcatProperties
<1>. HIDE DEF r
<1>3. /\ DOMAIN r = 1 .. Len(s) - 1
      /\ \A i \in 1 .. Len(s) - 1 : src(i) \in 1 .. Len(s) /\ src(i) # k /\ r[i] = s[src(i)]
  <2>1. DOMAIN r = 1 .. Len(s) - 1  BY <1>0, <1>1, <1>2
  <2>2. ASSUME NEW i \in 1 .. Len(s) - 1 PROVE r[i] = s[src(i)]
    <3>1. CASE i <= k - 1
      <4>0. i \in 1 .. Len(A) + Len(B) /\ i <= Len(A)  BY <3>1, <1>1, <1>2
      <4>1. r[i] = A[i]  BY <4>0, <1>0
      <4>. QED  BY <3>1, <4>1, <1>1
    <3>2. CASE i > k - 1
      <4>1. r[i] = B[i - (k - 1)]  BY <3>2, <1>0, <1>1, <1>2
      <4>. QED  BY <3>2, <4>1, <1>2
    <3>. QED  BY <3>1, <3>2
  <2>. QED  BY <2>1, <2>2
<1>4. \A i, j \in 1 .. Len(s) - 1 : i # j => src(i) # src(j)
  OBVIOUS
<1>5. NoDup(r)
  BY <1>3, <1>4 DEF NoDup
<1>6. Listed(r) \subseteq Listed(s) \ {s[k]}
  BY <1>3 DEF NoDup, Listed
<1>7. Listed(s) \ {s[k]} \subseteq Listed(r)
  <2>1. ASSUME NEW i \in 1 .. Len(s), i # k PROVE s[i] \in Listed(r)
    <3>1. CASE i < k
      <4>1. i \in 1 .. Len(s) - 1 /\ src(i) = i  BY <3>1
      <4>. QED  BY <4>1, <1>3 DEF Listed
    <3>2. CASE i > k
      <4>1. i - 1 \in 1 .. Len(s) - 1 /\ src(i - 1) = i  BY <3>2
      <4>. QED  BY <4>1, <1>3 DEF Listed
    <3>. QED  BY <2>1, <3>1, <3>2
  <2>. QED  BY <2>1 DEF Listed
<1>. QED  BY <1>5, <1>6, <1>7 DEF r, A, B

\* NextNode of a linked node is a node, or NoNode at the tail.
LEMMA NextNodeType ==
  ASSUME outstanding_data \in Seq(Nodes),
         NEW n \in Listed(outstanding_data)
  PROVE  NextNode(n) \in Nodes \cup {NoNode}
<1>1. \E k \in DOMAIN outstanding_data : outstanding_data[k] = n
  BY DEF Listed
<1>. DEFINE i == CHOOSE k \in DOMAIN outstanding_data : outstanding_data[k] = n
<1>2. i \in 1..Len(outstanding_data)
  BY <1>1
<1>. QED  BY <1>2 DEF NextNode
-----------------------------------------------------------------------------
(***************************************************************************)
(* LifeInv is inductive: one lemma per operation of the plugin.           *)
(***************************************************************************)

LEMMA InitLifeInv == Init => LifeInv
BY ConstAssumption DEF Init, LifeInv, TypeOK, AliveListed, ScanAtNode,
   Listed, Nodes, NoNode, OpenerPCs, WatcherPCs

\* malloc() and bluetooth_init() of a new session: the opener holds it.
LEMMA NewSessionType ==
  ASSUME TypeOK, ScanAtNode, NEW o \in Openers, NEW v \in Devices,
         NewSession(o, v)
  PROVE  /\ alive' \subseteq used' /\ used' \subseteq Sessions
         /\ device' \in [Sessions -> Devices]
         /\ kill_watcher' \in [Sessions -> {0, 1}]
         /\ opc' \in [Openers -> OpenerPCs]
         /\ odata' \in [Openers -> Sessions \cup {None}]
         /\ cursor' \in [Openers -> Nodes \cup {NoNode}]
         /\ ScanAtNode'
BY DEF NewSession, TypeOK, ScanAtNode, OpenerPCs

\* The plugin's open function.
LEMMA OpenStep ==
  ASSUME LifeInv, NEW o \in Openers, open(o)
  PROVE  LifeInv'
<1>1. PICK v \in Devices :
        /\ odev' = [odev EXCEPT ![o] = v]
        /\ IF outstanding_data = <<>>
           THEN /\ NewSession(o, v)
                /\ UNCHANGED <<list_vars, watcher_vars>>
           ELSE /\ opc' = [opc EXCEPT ![o] = "scan"]
                /\ cursor' = [cursor EXCEPT ![o] = Head(outstanding_data)]
                /\ UNCHANGED <<list_vars, data_vars, odata, watcher_vars>>
  BY DEF open
<1>2. nopens' \in 0..MaxOpens /\ odev' \in [Openers -> Devices]
  BY <1>1, ConstAssumption DEF open, LifeInv, TypeOK
<1>3. CASE outstanding_data = <<>>
  BY <1>1, <1>2, <1>3, NewSessionType DEF LifeInv, TypeOK, AliveListed,
     list_vars, watcher_vars
<1>4. CASE outstanding_data # <<>>
  <2>1. Head(outstanding_data) \in Nodes
    BY <1>4, HeadTailProperties DEF LifeInv, TypeOK
  <2>2. ScanAtNode'
    BY <1>1, <1>4, <2>1 DEF LifeInv, TypeOK, ScanAtNode
  <2>. QED  BY <1>1, <1>2, <1>4, <2>1, <2>2 DEF LifeInv, TypeOK, AliveListed,
              list_vars, data_vars, watcher_vars, OpenerPCs
<1>. QED  BY <1>3, <1>4

\* One step of bluetooth_find_outstanding_data().
LEMMA FindStepStep ==
  ASSUME LifeInv, NEW o \in Openers, find_step(o)
  PROVE  LifeInv'
<1>. DEFINE n == cursor[o]
            d == node_data[n]
            nx == IF n \in nodes_alive THEN NextNode(n) ELSE NoNode
<1>0. opc[o] = "scan" /\ n \in Nodes
  BY DEF find_step, LifeInv, ScanAtNode
<1>1. nx \in Nodes \cup {NoNode}
  BY NextNodeType DEF LifeInv, TypeOK, AliveListed, NoNode
<1>2. UNCHANGED <<list_vars, watcher_vars, odev, nopens>>
  BY DEF find_step
<1>3. CASE device[d] = odev[o]
  <2>1. /\ opc' = [opc EXCEPT ![o] = "kill"]
        /\ odata' = [odata EXCEPT ![o] = d]
        /\ UNCHANGED <<data_vars, cursor>>
    BY <1>3 DEF find_step
  <2>2. d \in Sessions \cup {None}
    BY <1>0 DEF LifeInv, TypeOK
  <2>3. ScanAtNode'
    BY <2>1 DEF LifeInv, TypeOK, ScanAtNode, data_vars
  <2>. QED  BY <1>2, <2>1, <2>2, <2>3 DEF LifeInv, TypeOK, AliveListed, OpenerPCs,
              list_vars, data_vars, watcher_vars
<1>4. CASE device[d] # odev[o] /\ nx = NoNode
  <2>1. NewSession(o, odev[o])
    BY <1>4 DEF find_step
  <2>. QED  BY <1>2, <2>1, NewSessionType DEF LifeInv, TypeOK, AliveListed,
              list_vars, watcher_vars
<1>5. CASE device[d] # odev[o] /\ nx # NoNode
  <2>1. /\ cursor' = [cursor EXCEPT ![o] = nx]
        /\ UNCHANGED <<data_vars, opc, odata>>
    BY <1>5 DEF find_step
  <2>2. ScanAtNode'
    BY <1>1, <1>5, <2>1 DEF LifeInv, TypeOK, ScanAtNode, data_vars
  <2>. QED  BY <1>1, <1>2, <2>1, <2>2 DEF LifeInv, TypeOK, AliveListed,
              list_vars, data_vars, watcher_vars
<1>. QED  BY <1>3, <1>4, <1>5
\* bluetooth_kill_watcher() on the match.
LEMMA FindKillStep ==
  ASSUME LifeInv, NEW o \in Openers, find_kill(o)
  PROVE  LifeInv'
BY DEF find_kill, LifeInv, TypeOK, AliveListed, ScanAtNode, OpenerPCs,
   list_vars, watcher_vars

\* remove_outstanding_data() on the match, by the opener.
LEMMA FindRemoveStep ==
  ASSUME LifeInv, NEW o \in Openers, find_remove(o)
  PROVE  LifeInv'
<1>1. /\ outstanding_data' \in Seq(Nodes)
      /\ nodes_alive' \subseteq Nodes
      /\ nodes_alive' \subseteq Listed(outstanding_data')
  BY RemoveOutstandingInv DEF find_remove, LifeInv, TypeOK
<1>2. ScanAtNode'
  BY DEF find_remove, LifeInv, TypeOK, ScanAtNode
<1>. QED  BY <1>1, <1>2 DEF find_remove, LifeInv, TypeOK, AliveListed,
            OpenerPCs, data_vars, watcher_vars

\* bluetooth_close(): node nnodes + 1 is linked at the head and its
\* watcher started, or the session is freed at once.
LEMMA CloseStep ==
  ASSUME LifeInv, NEW o \in Openers, close(o)
  PROVE  LifeInv'
<1>. DEFINE d == odata[o]
            k == nnodes + 1
<1>1. k \in Nodes /\ d \in Sessions \cup {None}
  BY ConstAssumption DEF close, LifeInv, TypeOK, Nodes
<1>2. /\ opc' \in [Openers -> OpenerPCs]
      /\ odata' \in [Openers -> Sessions \cup {None}]
      /\ UNCHANGED <<used, device, kill_watcher, cursor, odev, nopens>>
      /\ ScanAtNode'
  BY DEF close, LifeInv, TypeOK, ScanAtNode, OpenerPCs
<1>3. CASE /\ outstanding_data' = <<k>> \o outstanding_data
           /\ node_data' = [node_data EXCEPT ![k] = d]
           /\ nodes_alive' = nodes_alive \cup {k}
           /\ nnodes' = k
           /\ wpc' = [wpc EXCEPT ![k] = "wait"]
           /\ wdata' = [wdata EXCEPT ![k] = d]
           /\ UNCHANGED alive
  <2>1. /\ outstanding_data' \in Seq(Nodes)
        /\ Listed(outstanding_data') = Listed(outstanding_data) \cup {k}
    BY <1>1, <1>3, PushListed DEF LifeInv, TypeOK
  <2>2. nnodes' \in 0..MaxNodes
    BY <1>1, <1>3, ConstAssumption DEF Nodes
  <2>. QED  BY <1>1, <1>2, <1>3, <2>1, <2>2 DEF LifeInv, TypeOK, AliveListed,
              WatcherPCs
<1>4. CASE /\ alive' = alive \ {d}
           /\ UNCHANGED <<list_vars, watcher_vars>>
  BY <1>2, <1>4 DEF LifeInv, TypeOK, AliveListed, list_vars, watcher_vars
<1>. QED  BY <1>3, <1>4 DEF close

\* bluetooth_watcher() under data->mut: killed, or timed out.
LEMMA WatcherWakeStep ==
  ASSUME LifeInv, NEW w \in Nodes, watcher_wake(w)
  PROVE  LifeInv'
BY DEF watcher_wake, LifeInv, TypeOK, AliveListed, ScanAtNode, WatcherPCs,
   list_vars, opener_vars

\* The timed-out watcher's remove_outstanding_data().
LEMMA WatcherRemoveStep ==
  ASSUME LifeInv, NEW w \in Nodes, watcher_remove(w)
  PROVE  LifeInv'
<1>1. /\ outstanding_data' \in Seq(Nodes)
      /\ nodes_alive' \subseteq Nodes
      /\ nodes_alive' \subseteq Listed(outstanding_data')
  BY RemoveOutstandingInv DEF watcher_remove, LifeInv, TypeOK
<1>. QED  BY <1>1 DEF watcher_remove, LifeInv, TypeOK, AliveListed,
            ScanAtNode, WatcherPCs, data_vars, opener_vars

\* bluetooth_exit() of the timed-out watcher.
LEMMA WatcherExitStep ==
  ASSUME LifeInv, NEW w \in Nodes, watcher_exit(w)
  PROVE  LifeInv'
BY DEF watcher_exit, LifeInv, TypeOK, AliveListed, ScanAtNode, WatcherPCs,
   list_vars, opener_vars

LEMMA LifeInvStep ==
  ASSUME LifeInv, [Next]_vars
  PROVE  LifeInv'
<1>1. CASE BoundReached \/ UNCHANGED vars
  BY <1>1 DEF BoundReached, vars, LifeInv, TypeOK, AliveListed, ScanAtNode, Listed
<1>2. ASSUME NEW o \in Openers,
             open(o) \/ find_step(o) \/ find_kill(o) \/ find_remove(o) \/ close(o)
      PROVE  LifeInv'
  BY <1>2, OpenStep, FindStepStep, FindKillStep, FindRemoveStep, CloseStep
<1>3. ASSUME NEW w \in Nodes, Watcher(w)
      PROVE  LifeInv'
  BY <1>3, WatcherWakeStep, WatcherRemoveStep, WatcherExitStep DEF Watcher
<1>. QED  BY <1>1, <1>2, <1>3 DEF Next

-----------------------------------------------------------------------------
\* The plugin's list bookkeeping keeps every variable in its type: in
\* particular bluetooth_find_outstanding_data() only ever follows elem->next
\* to a node or to the NULL that ends the list, and remove_outstanding_data()
\* and bluetooth_close() keep outstanding_data a list of nodes.
THEOREM TypeCorrect == Spec => []TypeOK
<1>1. Init => LifeInv  BY InitLifeInv
<1>2. LifeInv /\ [Next]_vars => LifeInv'  BY LifeInvStep
<1>3. LifeInv => TypeOK  BY DEF LifeInv
<1>. QED  BY <1>1, <1>2, <1>3, PTL DEF Spec
-----------------------------------------------------------------------------
(***************************************************************************)
(* The list links exactly the nodes not yet free()d, each once.  It is     *)
(* inductive together with LifeInv and the fact that only nodes allocated  *)
(* so far are linked: bluetooth_close() links node nnodes + 1, which is    *)
(* then not linked yet.                                                    *)
(***************************************************************************)

\* Only nodes bluetooth_close() has allocated are linked.
ListedAllocated == Listed(outstanding_data) \subseteq 1..nnodes

SoundInv == LifeInv /\ OutstandingListSound /\ ListedAllocated

LEMMA InitSoundInv == Init => SoundInv
BY InitLifeInv DEF Init, SoundInv, OutstandingListSound, ListedAllocated, Listed

\* Both callers of remove_outstanding_data() keep the list sound.
LEMMA RemoveOutstandingSound ==
  ASSUME outstanding_data \in Seq(Nodes), OutstandingListSound, ListedAllocated,
         NEW d, RemoveOutstanding(d), UNCHANGED nnodes
  PROVE  OutstandingListSound' /\ ListedAllocated'
<1>1. CASE UNCHANGED <<outstanding_data, nodes_alive>>
  BY <1>1 DEF OutstandingListSound, ListedAllocated, Listed
<1>2. ASSUME NEW k \in 1 .. Len(outstanding_data),
             outstanding_data' = SubSeq(outstanding_data, 1, k - 1)
                                 \o SubSeq(outstanding_data, k + 1, Len(outstanding_data)),
             nodes_alive' = nodes_alive \ {outstanding_data[k]}
      PROVE  OutstandingListSound' /\ ListedAllocated'
  <2>1. NoDup(outstanding_data)
    BY DEF OutstandingListSound, NoDup
  <2>2. /\ Listed(outstanding_data') = Listed(outstanding_data) \ {outstanding_data[k]}
        /\ NoDup(outstanding_data')
    BY <1>2, <2>1, UnlinkExact
  <2>3. Listed(outstanding_data) = nodes_alive
    BY DEF OutstandingListSound, Listed
  <2>4. Listed(outstanding_data') = nodes_alive'
    BY <1>2, <2>2, <2>3
  <2>5. Listed(outstanding_data') \subseteq 1..nnodes'
    BY <2>2, <2>3 DEF ListedAllocated
  <2>. QED  BY <2>2, <2>4, <2>5, Zenon DEF OutstandingListSound, ListedAllocated, NoDup, Listed
<1>. QED  BY <1>1, <1>2, RemoveOutstandingShape

\* bluetooth_close() links the new node nnodes + 1 at the head.
LEMMA CloseSound ==
  ASSUME SoundInv, NEW o \in Openers, close(o)
  PROVE  OutstandingListSound' /\ ListedAllocated'
<1>. DEFINE k == nnodes + 1
<1>1. k \in Nodes /\ k \notin Listed(outstanding_data)
  BY ConstAssumption DEF close, SoundInv, LifeInv, TypeOK, ListedAllocated, Nodes
<1>2. CASE /\ outstanding_data' = <<k>> \o outstanding_data
           /\ nodes_alive' = nodes_alive \cup {k}
           /\ nnodes' = k
  <2>1. /\ Listed(outstanding_data') = Listed(outstanding_data) \cup {k}
        /\ NoDup(outstanding_data')
    <3>1. NoDup(outstanding_data)  BY DEF SoundInv, OutstandingListSound, NoDup
    <3>. QED  BY <1>1, <1>2, <3>1, PushListed, PushNoDup DEF SoundInv, LifeInv, TypeOK
  <2>2. Listed(outstanding_data) = nodes_alive
    BY DEF SoundInv, OutstandingListSound, Listed
  <2>3. Listed(outstanding_data) \subseteq 1..nnodes
    BY DEF SoundInv, ListedAllocated
  <2>4. Listed(outstanding_data') = nodes_alive'
    BY <1>2, <2>1, <2>2
  <2>5. Listed(outstanding_data') \subseteq 1..nnodes'
    <3>1. nnodes \in Nat  BY DEF SoundInv, LifeInv, TypeOK
    <3>. QED  BY <3>1, <1>2, <2>1, <2>3
  <2>. QED  BY <2>1, <2>4, <2>5, Zenon DEF OutstandingListSound, ListedAllocated, NoDup, Listed
<1>3. CASE UNCHANGED list_vars
  BY <1>3 DEF SoundInv, OutstandingListSound, ListedAllocated, Listed, list_vars
<1>. QED  BY <1>2, <1>3 DEF close

LEMMA SoundInvStep ==
  ASSUME SoundInv, [Next]_vars
  PROVE  SoundInv'
<1>1. LifeInv'
  BY LifeInvStep DEF SoundInv
<1>. DEFINE Kept == OutstandingListSound' /\ ListedAllocated'
<1>2. ASSUME UNCHANGED list_vars PROVE Kept
  BY <1>2 DEF SoundInv, OutstandingListSound, ListedAllocated, Listed, list_vars
<1>3. ASSUME NEW o \in Openers, find_remove(o) PROVE Kept
  BY <1>3, RemoveOutstandingSound DEF find_remove, SoundInv, LifeInv, TypeOK
<1>4. ASSUME NEW w \in Nodes, watcher_remove(w) PROVE Kept
  BY <1>4, RemoveOutstandingSound DEF watcher_remove, SoundInv, LifeInv, TypeOK
<1>5. ASSUME NEW o \in Openers, close(o) PROVE Kept
  BY <1>5, CloseSound
<1>6. Kept
  <2>1. ASSUME NEW o \in Openers, open(o) \/ find_step(o) \/ find_kill(o)
        PROVE  UNCHANGED list_vars
    BY <2>1 DEF open, find_step, find_kill, NewSession
  <2>2. ASSUME NEW w \in Nodes, watcher_wake(w) \/ watcher_exit(w)
        PROVE  UNCHANGED list_vars
    BY <2>2 DEF watcher_wake, watcher_exit, list_vars
  <2>3. BoundReached \/ UNCHANGED vars => UNCHANGED list_vars
    BY DEF BoundReached, vars, list_vars
  <2>. QED  BY <1>2, <1>3, <1>4, <1>5, <2>1, <2>2, <2>3 DEF Next, Watcher
<1>. QED  BY <1>1, <1>6 DEF SoundInv

\* However the opener's reclaim and the watchers' timeouts interleave,
\* remove_outstanding_data() and bluetooth_close() keep the list of
\* outstanding sessions linking exactly the nodes not yet free()d, each
\* once: no freed node stays linked for a later scan, and none leaks.
THEOREM ListSound == Spec => []OutstandingListSound
<1>1. Init => SoundInv  BY InitSoundInv
<1>2. SoundInv /\ [Next]_vars => SoundInv'  BY SoundInvStep
<1>3. SoundInv => OutstandingListSound  BY DEF SoundInv
<1>. QED  BY <1>1, <1>2, <1>3, PTL DEF Spec
=============================================================================
