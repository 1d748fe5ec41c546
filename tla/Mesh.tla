-------------------------------- MODULE Mesh --------------------------------
(***************************************************************************)
(* The mesh: internal/mesh/gossip.go (membership), router.go (a blob goes  *)
(* to the primary of its digest), replication.go (a queue of copies to the *)
(* replicas, and the anti-entropy that pulls what is missing), over the    *)
(* hash ring of every node.                                                *)
(*                                                                         *)
(* memberlist is external.  It tells each node on its own of joins and     *)
(* leaves, rightly or wrongly; its list of members and the node's ring     *)
(* change together.  A request to another node is one step; it may fail,   *)
(* before or after the node has acted on it.                               *)
(*                                                                         *)
(* Nobody deletes blobs here, and no code calls Router or Replicator yet:  *)
(* their methods are called as their comments ask, a put before a link.    *)
(***************************************************************************)
EXTENDS HashRing, Sequences

CONSTANTS
    ReplicationFactor,
    QueueSize,   \* the capacity of Replicator.queue, 10000 in the code
    Joined,      \* the nodes that have joined each other when we begin to look
    MaxCalls,    \* bound: puts, links, replications and stops
    MaxTrouble,  \* bound: joins and leaves that memberlist reports after that,
                 \* crashes, and requests that fail although the node is there
    None

ASSUME ConstantsAssumption ==
    /\ ReplicationFactor \in Nat \ {0}
    /\ QueueSize \in Nat \ {0}
    /\ Joined \subseteq Node
    /\ {MaxCalls, MaxTrouble} \subseteq Nat
    /\ None \notin Node \cup Key

VARIABLES
    hash,     \* Cluster.hash of each node
    up,       \* the nodes that run
    blobs,    \* the blob store of each node
    links,    \* the digests that the repositories of a node name
    put,      \* the Router.PutBlob each node is working on
    queue,    \* Replicator.queue
    worker,   \* the job of the replication worker
    closed,   \* the nodes whose Replicator and AntiEntropySync were stopped
    sync,     \* the anti-entropy pass of each node
    \* history
    acked,    \* the view in which a PutBlob that succeeded chose the primary
    calls, trouble  \* what the bounds count

cluster == <<hash, up, closed>>
bounds == <<calls, trouble>>
vars == <<cluster, blobs, links, put, queue, worker, sync, acked, bounds>>

Put == [pc : {"idle", "primary", "send"}, dgst : Key \cup {None},
        primary : Node \cup {None}, view : SUBSET Node]
NoPut == [pc |-> "idle", dgst |-> None, primary |-> None, view |-> {}]

Job == [dgst : Key, targets : SUBSET Node]
NoJob == [dgst |-> None, targets |-> {}]

\* todo: digests to look at; dgst: the one being pulled, from one of sources.
Sync == [todo : SUBSET Key, dgst : Key \cup {None}, sources : SUBSET Node]
NoSync == [todo |-> {}, dgst |-> None, sources |-> {}]

TypeOK ==
    /\ \A n \in Node : ConsistentHash(hash[n])
    /\ up \subseteq Node
    /\ closed \subseteq up
    /\ blobs \in [Node -> SUBSET Key]
    /\ links \in [Node -> SUBSET Key]
    /\ put \in [Node -> Put]
    /\ \A n \in Node : queue[n] \in Seq(Job) /\ Len(queue[n]) <= QueueSize
    /\ worker \in [Node -> Job \cup {NoJob}]
    /\ sync \in [Node -> Sync]
    /\ acked \in [Key -> (SUBSET Node) \cup {None}]
    /\ calls \in 0 .. MaxCalls
    /\ trouble \in 0 .. MaxTrouble

\* NewCluster adds the node itself.
NewCluster(n) == Add(NewConsistentHash, n)

Init ==
    /\ hash = [n \in Node |-> IF n \in Joined THEN RingOf(Joined) ELSE NewCluster(n)]
    /\ up = Node
    /\ closed = {}
    /\ blobs = [n \in Node |-> {}]
    /\ links = [n \in Node |-> {}]
    /\ put = [n \in Node |-> NoPut]
    /\ queue = [n \in Node |-> <<>>]
    /\ worker = [n \in Node |-> NoJob]
    /\ sync = [n \in Node |-> NoSync]
    /\ acked = [k \in Key |-> None]
    /\ calls = 0
    /\ trouble = 0

GetPrimaryNode(n, k) == Get(hash[n], k, None)
GetReplicaNodes(n, k) == GetN(hash[n], k, ReplicationFactor)
IsLocalPrimary(n, k) == GetPrimaryNode(n, k) = n

\* GetNode finds the nodes that memberlist lists.
Known(n, m) == m \in hash[n].members

Called == calls < MaxCalls /\ calls' = calls + 1
Trouble == trouble < MaxTrouble /\ trouble' = trouble + 1

-----------------------------------------------------------------------------
(* Membership *)

NotifyJoin(n, m) ==
    /\ {n, m} \subseteq up
    /\ m \notin hash[n].members
    /\ Trouble
    /\ hash' = [hash EXCEPT ![n] = Add(@, m)]
    /\ UNCHANGED <<up, closed, blobs, links, put, queue, worker, sync, acked, calls>>

\* A node hears of its own leave too, in Leave.
NotifyLeave(n, m) ==
    /\ n \in up
    /\ m \in hash[n].members
    /\ Trouble
    /\ hash' = [hash EXCEPT ![n] = Remove(@, m)]
    /\ UNCHANGED <<up, closed, blobs, links, put, queue, worker, sync, acked, calls>>

\* What a node keeps in memory is lost.
Loses(n) ==
    /\ up' = up \ {n}
    /\ closed' = closed \ {n}
    /\ put' = [put EXCEPT ![n] = NoPut]
    /\ queue' = [queue EXCEPT ![n] = <<>>]
    /\ worker' = [worker EXCEPT ![n] = NoJob]
    /\ sync' = [sync EXCEPT ![n] = NoSync]
    /\ Trouble
    /\ UNCHANGED <<hash, blobs, links, acked>>

Crash(n) ==
    /\ n \in up
    /\ Loses(n)
    /\ UNCHANGED calls

Restart(n) ==
    /\ n \notin up
    /\ up' = up \cup {n}
    /\ hash' = [hash EXCEPT ![n] = NewCluster(n)]
    /\ UNCHANGED <<closed, blobs, links, put, queue, worker, sync, acked, bounds>>

-----------------------------------------------------------------------------
(* Requests to InternalHandler: PUT and GET /v2/_internal/blobs/<digest> *)

\* handlePut on m.  The sender hears of success, or not.
Delivered(m, k) ==
    /\ m \in up
    /\ blobs' = [blobs EXCEPT ![m] = @ \cup {k}]
    /\ UNCHANGED trouble

AnswerLost(m, k) ==
    /\ m \in up
    /\ Trouble
    /\ blobs' = [blobs EXCEPT ![m] = @ \cup {k}]

NotDelivered(m) ==
    /\ IF m \in up THEN Trouble ELSE UNCHANGED trouble
    /\ UNCHANGED blobs

-----------------------------------------------------------------------------
(* Router.PutBlob *)

Ends(n) == put' = [put EXCEPT ![n] = NoPut]
Stores(n, k) == blobs' = [blobs EXCEPT ![n] = @ \cup {k}]
Acks(k, view) == acked' = [acked EXCEPT ![k] = view]

PutBlob(n, k) ==
    /\ n \in up
    /\ put[n].pc = "idle"
    /\ \/ /\ IsLocalPrimary(n, k)
          /\ Stores(n, k)
          /\ Acks(k, hash[n].members)
          /\ UNCHANGED put
       \/ /\ ~ IsLocalPrimary(n, k)
          /\ put' = [put EXCEPT ![n] = [NoPut EXCEPT !.pc = "primary", !.dgst = k]]
          /\ UNCHANGED <<blobs, acked>>
    /\ Called
    /\ UNCHANGED <<cluster, links, queue, worker, sync, trouble>>

\* The ring is asked a second time; without a cluster the node stores the blob.
PutBlob_Primary(n) ==
    LET k == put[n].dgst IN
    /\ put[n].pc = "primary"
    /\ \/ /\ GetPrimaryNode(n, k) = None
          /\ Stores(n, k)
          /\ Acks(k, {})
          /\ Ends(n)
       \/ /\ GetPrimaryNode(n, k) # None
          /\ put' = [put EXCEPT ![n].pc = "send",
                                ![n].primary = GetPrimaryNode(n, k),
                                ![n].view = hash[n].members]
          /\ UNCHANGED <<blobs, acked>>
    /\ UNCHANGED <<cluster, links, queue, worker, sync, bounds>>

\* The primary is gone from the list: the node stores the blob itself.
PutBlob_Fallback(n) ==
    /\ put[n].pc = "send"
    /\ ~ Known(n, put[n].primary)
    /\ Stores(n, put[n].dgst)
    /\ Acks(put[n].dgst, {})
    /\ Ends(n)
    /\ UNCHANGED <<cluster, links, queue, worker, sync, bounds>>

\* As if pushBlobToNode did not look at the answer.
PutBlob_Send_Unchecked(n) ==
    LET p == put[n].primary
        k == put[n].dgst
    IN
    /\ put[n].pc = "send"
    /\ Known(n, p)
    /\ Delivered(p, k) \/ AnswerLost(p, k) \/ NotDelivered(p)
    /\ Acks(k, put[n].view)
    /\ Ends(n)
    /\ UNCHANGED <<cluster, links, queue, worker, sync, calls>>

PutBlob_Send(n) ==
    LET p == put[n].primary
        k == put[n].dgst
    IN
    /\ put[n].pc = "send"
    /\ Known(n, p)
    /\ \/ Delivered(p, k) /\ Acks(k, put[n].view)
       \/ (AnswerLost(p, k) \/ NotDelivered(p)) /\ UNCHANGED acked
    /\ Ends(n)
    /\ UNCHANGED <<cluster, links, queue, worker, sync, calls>>

\* A manifest that names an acknowledged blob is pushed to n.
LinkBlobToRepo(n, k) ==
    /\ n \in up
    /\ acked[k] # None
    /\ k \notin links[n]
    /\ links' = [links EXCEPT ![n] = @ \cup {k}]
    /\ Called
    /\ UNCHANGED <<cluster, blobs, put, queue, worker, sync, acked, trouble>>

-----------------------------------------------------------------------------
(* Router.GetBlob and HasBlob, when nothing fails on the way *)

HasBlob(n, k) ==
    LET p == GetPrimaryNode(n, k) IN
    \/ k \in blobs[n]
    \/ /\ p \notin {n, None}
       /\ p \in up
       /\ k \in blobs[p]

-----------------------------------------------------------------------------
(* Replicator *)

\* As if a full queue took the job.
Replicate_Grows(n, k) ==
    LET targets == GetReplicaNodes(n, k) \ {n} IN
    /\ n \in up \ closed
    /\ k \in blobs[n]
    /\ targets # {}
    /\ Called
    /\ queue' = [queue EXCEPT ![n] = Append(@, [dgst |-> k, targets |-> targets])]
    /\ UNCHANGED <<cluster, blobs, links, put, worker, sync, acked, trouble>>

\* A full queue drops the job; a send on a closed channel panics.
Replicate(n, k) ==
    LET targets == GetReplicaNodes(n, k) \ {n} IN
    /\ n \in up
    /\ k \in blobs[n]
    /\ targets # {}
    /\ Called
    /\ \/ /\ n \notin closed
          /\ Len(queue[n]) < QueueSize
          /\ queue' = [queue EXCEPT ![n] =
                         Append(@, [dgst |-> k, targets |-> targets])]
          /\ UNCHANGED <<cluster, blobs, links, put, worker, sync, acked, trouble>>
       \/ /\ n \in closed
          /\ Loses(n)

Worker_Take(n) ==
    /\ n \in up \ closed
    /\ worker[n] = NoJob
    /\ queue[n] # <<>>
    /\ worker' = [worker EXCEPT ![n] = Head(queue[n])]
    /\ queue' = [queue EXCEPT ![n] = Tail(@)]
    /\ UNCHANGED <<cluster, blobs, links, put, sync, acked, bounds>>

\* processJob visits its targets, whatever becomes of each of them.
Worker_Next(n, m) ==
    worker' = [worker EXCEPT ![n] =
                 IF worker[n].targets = {m} THEN NoJob
                 ELSE [worker[n] EXCEPT !.targets = @ \ {m}]]

ProcessJob(n, m) ==
    LET k == worker[n].dgst IN
    /\ m \in worker[n].targets
    /\ \/ ~ Known(n, m) /\ UNCHANGED <<blobs, trouble>>
       \/ Known(n, m) /\ (Delivered(m, k) \/ NotDelivered(m))
    /\ Worker_Next(n, m)
    /\ UNCHANGED <<cluster, links, put, queue, sync, acked, calls>>

\* Both contexts are cancelled: what is queued or under way fails.
Stop(n) ==
    /\ n \in up \ closed
    /\ closed' = closed \cup {n}
    /\ queue' = [queue EXCEPT ![n] = <<>>]
    /\ worker' = [worker EXCEPT ![n] = NoJob]
    /\ sync' = [sync EXCEPT ![n] = NoSync]
    /\ Called
    /\ UNCHANGED <<hash, up, blobs, links, put, acked, trouble>>

-----------------------------------------------------------------------------
(* AntiEntropySync *)

\* The ticker: the digests of all repositories are listed.
AntiEntropy(n) ==
    /\ n \in up \ closed
    /\ sync[n] = NoSync
    /\ links[n] # {}
    /\ sync' = [sync EXCEPT ![n].todo = links[n]]
    /\ UNCHANGED <<cluster, blobs, links, put, queue, worker, acked, bounds>>

\* As if only the primary looked after a blob.
AntiEntropy_Look_Primary(n, k) ==
    LET replicas == GetReplicaNodes(n, k)
        missing == IsLocalPrimary(n, k) /\ k \notin blobs[n] /\ replicas # {n}
    IN
    /\ sync[n].dgst = None
    /\ k \in sync[n].todo
    /\ sync' = [sync EXCEPT ![n] =
                  [todo    |-> @.todo \ {k},
                   dgst    |-> IF missing THEN k ELSE None,
                   sources |-> IF missing THEN replicas \ {n} ELSE {}]]
    /\ UNCHANGED <<cluster, blobs, links, put, queue, worker, acked, bounds>>

\* A blob that the node should have and has not is pulled from another replica.
AntiEntropy_Look(n, k) ==
    LET replicas == GetReplicaNodes(n, k)
        missing == n \in replicas /\ k \notin blobs[n] /\ replicas # {n}
    IN
    /\ sync[n].dgst = None
    /\ k \in sync[n].todo
    /\ sync' = [sync EXCEPT ![n] =
                  [todo    |-> @.todo \ {k},
                   dgst    |-> IF missing THEN k ELSE None,
                   sources |-> IF missing THEN replicas \ {n} ELSE {}]]
    /\ UNCHANGED <<cluster, blobs, links, put, queue, worker, acked, bounds>>

\* pullFromNode: one source after the other, until one sends the blob.
PullFromNode(n, m) ==
    LET k == sync[n].dgst
        done == [sync EXCEPT ![n].dgst = None, ![n].sources = {}]
    IN
    /\ m \in sync[n].sources
    /\ \/ /\ Known(n, m) /\ m \in up /\ k \in blobs[m]
          /\ Stores(n, k)
          /\ sync' = done
          /\ UNCHANGED trouble
       \/ /\ \/ ~ Known(n, m) /\ UNCHANGED <<blobs, trouble>>
             \/ m \in up /\ k \notin blobs[m] /\ UNCHANGED <<blobs, trouble>>
             \/ Known(n, m) /\ NotDelivered(m)
          /\ sync' = IF sync[n].sources = {m} THEN done
                     ELSE [sync EXCEPT ![n].sources = @ \ {m}]
    /\ UNCHANGED <<cluster, links, put, queue, worker, acked, calls>>

-----------------------------------------------------------------------------
Membership(n) ==
    \/ \E m \in Node : NotifyJoin(n, m) \/ NotifyLeave(n, m)
    \/ Crash(n)
    \/ Restart(n)

Routing(n) ==
    \/ \E k \in Key : PutBlob(n, k) \/ LinkBlobToRepo(n, k)
    \/ PutBlob_Primary(n)
    \/ PutBlob_Fallback(n)
    \/ PutBlob_Send(n)

Replication(n) ==
    \/ \E k \in Key : Replicate(n, k)
    \/ Worker_Take(n)
    \/ \E m \in Node : ProcessJob(n, m)
    \/ Stop(n)

Pulling(n) ==
    \/ AntiEntropy(n)
    \/ \E k \in Key : AntiEntropy_Look(n, k)
    \/ \E m \in Node : PullFromNode(n, m)

Next == \E n \in Node : Membership(n) \/ Routing(n) \/ Replication(n) \/ Pulling(n)

\* The ticker of anti-entropy goes on, and every request it makes ends.
Spec ==
    /\ Init
    /\ [][Next]_vars
    /\ \A n \in Node : WF_vars(Pulling(n))

-----------------------------------------------------------------------------
(* Properties *)

\* The ring of a node is a function of its members: nodes that know the same
\* members agree on the owner and the replicas of every key, whatever joins and
\* leaves each of them heard of, and in which order (Add and Remove in hash.go,
\* NotifyJoin and NotifyLeave in gossip.go).
RingAgreement ==
    \A m, n \in Node : hash[m].members = hash[n].members => hash[m] = hash[n]

\* How far a member's first place is from the key, clockwise.
Distance(m, k) == Min({(p - HashOf[k]) % RingSize : p \in Points[m]})

\* Get and GetN against their definition: the members nearest to the key,
\* clockwise, ReplicationFactor of them or all there are, the primary among them.
NearestOwn ==
    \A n \in Node, k \in Key :
        LET members == hash[n].members
            nearer(m) == {o \in members : Distance(o, k) < Distance(m, k)}
        IN  /\ GetReplicaNodes(n, k) =
                  {m \in members : Cardinality(nearer(m)) < ReplicationFactor}
            /\ members # {} => nearer(GetPrimaryNode(n, k)) = {}

\* A blob whose PutBlob succeeded is found by every running node whose view is the
\* one the primary was chosen in, as long as that primary runs: what the routing of
\* puts and that of gets promise each other (router.go PutBlob, GetBlob, HasBlob).
FoundInView ==
    \A n \in up, k \in Key :
        (/\ acked[k] \notin {None, {}}
         /\ hash[n].members = acked[k]
         /\ GetPrimaryNode(n, k) \in up) => HasBlob(n, k)

\* A replica that knows it should have a blob, and can get it.
CanHeal(n, k) ==
    /\ n \in up \ closed
    /\ k \in links[n] \ blobs[n]
    /\ n \in GetReplicaNodes(n, k)
    /\ \E m \in GetReplicaNodes(n, k) : m \in up /\ k \in blobs[m]

\* Anti-entropy repairs: no replica stays for ever without a blob that one of its
\* repositories names and another replica has, though jobs are dropped by a full
\* queue, requests fail and nodes crash (replication.go sync, pullFromNode).  This is
\* for blobs that can be pulled within the two minutes that pullFromNode allows.
ReplicasHeal == \A n \in Node, k \in Key : []<>~ CanHeal(n, k)
=============================================================================
