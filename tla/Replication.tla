----------------------------- MODULE Replication -----------------------------
(***************************************************************************)
(* internal/events/store.go, the ledger of an instance (events, clone      *)
(* history, downloads and their counter), its writers (the tracking file   *)
(* server and the goroutine of CloneRelease), and the replication of the   *)
(* ledger between instances by internal/sync/replication.go.               *)
(*                                                                         *)
(* Whatever is written gets the time of the clock as its key, and a time   *)
(* stands for what was written then.  The release records of an export are *)
(* imported by ReleasePipeline, its manifests and blobs by Sync.           *)
(*                                                                         *)
(* Badger reads and writes of the ledger succeed.  The code ignores their  *)
(* errors: loadCounter starts again at zero when it cannot read the        *)
(* counter, saveCounter and RecordDownload go on when they cannot write.   *)
(***************************************************************************)
EXTENDS Integers, FiniteSets, FiniteSetsExt

CONSTANTS
    Node,         \* the instances
    Proc,         \* goroutines of downloads and of clones
    ExportLimit,  \* how many events and how many downloads an export has
    Work,         \* bound: the instances with downloads and those with clones, pairs
    MaxTime,      \* bound: readings of the clock
    MaxCrashes,   \* bound
    None

ASSUME ConstantsAssumption ==
    /\ IsFiniteSet(Node) /\ IsFiniteSet(Proc)
    /\ ExportLimit \in Nat \ {0}
    /\ Work \subseteq {"download", "clone"} \X Node
    /\ MaxTime \in Nat
    /\ MaxCrashes \in Nat
    /\ None \notin Node \cup Proc

Time == 1 .. MaxTime

VARIABLES
    now,       \* the last reading of the clock, of which no two are the same
    events,    \* ev:<ID>
    history,   \* ch:<version> of one version; 0 if there is none
    downloads, \* dl:<key> -> a record, known by its Time
    counter,   \* dlc:global, its TotalDownloads
    mu,        \* the holder of Store.mu
    proc,      \* the goroutines
    pull,      \* syncMetadata of each instance
    \* history of the model
    made,      \* the records of each instance's own downloads
    uncounted, \* downloads that a crash kept from being counted
    crashes

ledger == <<events, history, downloads, counter>>
vars == <<now, ledger, mu, proc, pull, made, uncounted, crashes>>

Download == [key : Time, rec : Time]

Goroutine == [pc    : {"idle", "put", "count", "event", "entry"},
              node  : Node \cup {None},
              rec   : Time \cup {0},     \* of the history entry
              count : 0 .. MaxTime]      \* what loadCounter returned
Idle == [pc |-> "idle", node |-> None, rec |-> 0, count |-> 0]

Pull == [events    : SUBSET Time,
         history   : Time \cup {0},
         downloads : SUBSET Time]  \* the records
NoPull == [events |-> {}, history |-> 0, downloads |-> {}]

TypeOK ==
    /\ now \in 0 .. MaxTime
    /\ events \in [Node -> SUBSET Time]
    /\ history \in [Node -> Time \cup {0}]
    /\ \A n \in Node : downloads[n] \subseteq Download
    /\ counter \in [Node -> 0 .. MaxTime]
    /\ mu \in [Node -> Proc \cup {None}]
    /\ proc \in [Proc -> Goroutine]
    /\ pull \in [Node -> Pull]
    /\ made \in [Node -> SUBSET Time]
    /\ uncounted \in [Node -> 0 .. MaxTime]
    /\ crashes \in 0 .. MaxCrashes

Init ==
    /\ now = 0
    /\ events = [n \in Node |-> {}]
    /\ history = [n \in Node |-> 0]
    /\ downloads = [n \in Node |-> {}]
    /\ counter = [n \in Node |-> 0]
    /\ mu = [n \in Node |-> None]
    /\ proc = [p \in Proc |-> Idle]
    /\ pull = [n \in Node |-> NoPull]
    /\ made = [n \in Node |-> {}]
    /\ uncounted = [n \in Node |-> 0]
    /\ crashes = 0

ReadClock == now < MaxTime /\ now' = now + 1

Goes(p, label) == proc' = [proc EXCEPT ![p].pc = label]
Ends(p) == proc' = [proc EXCEPT ![p] = Idle]

-----------------------------------------------------------------------------
(* The writers of an instance *)

\* A GET of an artifact has been answered with 200.  ServeHTTP makes a record with the
\* time, and RecordDownload puts it under a later one ...
ServeHTTP(p, n) ==
    /\ proc[p].pc = "idle" /\ <<"download", n>> \in Work
    /\ now + 2 <= MaxTime
    /\ now' = now + 2
    /\ LET d == [key |-> now + 2, rec |-> now + 1]
       IN  /\ downloads' = [downloads EXCEPT ![n] = @ \cup {d}]
           /\ made' = [made EXCEPT ![n] = @ \cup {d.rec}]
    /\ proc' = [proc EXCEPT ![p].pc = "put", ![p].node = n]
    /\ UNCHANGED <<events, history, counter, mu, pull, uncounted, crashes>>

\* As if the counter were read before the lock is taken.
LoadCounter_Unlocked(p) ==
    LET n == proc[p].node
    IN  /\ proc[p].pc = "put"
        /\ proc' = [proc EXCEPT ![p].pc = "count", ![p].count = counter[n]]
        /\ UNCHANGED <<now, ledger, mu, pull, made, uncounted, crashes>>

\* ... takes the lock and reads the counter ...
LoadCounter(p) ==
    LET n == proc[p].node
    IN  /\ proc[p].pc = "put"
        /\ mu[n] = None
        /\ mu' = [mu EXCEPT ![n] = p]
        /\ proc' = [proc EXCEPT ![p].pc = "count", ![p].count = counter[n]]
        /\ UNCHANGED <<now, ledger, pull, made, uncounted, crashes>>

\* ... and saves it.
SaveCounter(p) ==
    LET n == proc[p].node
    IN  /\ proc[p].pc = "count"
        /\ counter' = [counter EXCEPT ![n] = proc[p].count + 1]
        /\ mu' = [mu EXCEPT ![n] = None]
        /\ Goes(p, "event")
        /\ UNCHANGED <<now, events, history, downloads, pull, made, uncounted, crashes>>

\* RecordEvent, the last step of ServeHTTP ...
RecordEvent(p) ==
    /\ proc[p].pc = "event"
    /\ ReadClock
    /\ events' = [events EXCEPT ![proc[p].node] = @ \cup {now'}]
    /\ Ends(p)
    /\ UNCHANGED <<history, downloads, counter, mu, pull, made, uncounted, crashes>>

\* ... and of the goroutine of CloneRelease, which has come to its end, well or badly,
\* and saves its history.
CloneRelease(p, n) ==
    /\ proc[p].pc = "idle" /\ <<"clone", n>> \in Work
    /\ ReadClock
    /\ events' = [events EXCEPT ![n] = @ \cup {now'}]
    /\ proc' = [proc EXCEPT ![p] = [Idle EXCEPT !.pc = "entry", !.node = n,
                                                   !.rec = now']]
    /\ UNCHANGED <<history, downloads, counter, mu, pull, made, uncounted, crashes>>

SaveCloneHistory(p) ==
    /\ proc[p].pc = "entry"
    /\ history' = [history EXCEPT ![proc[p].node] = proc[p].rec]
    /\ Ends(p)
    /\ UNCHANGED <<now, events, downloads, counter, mu, pull, made, uncounted, crashes>>

-----------------------------------------------------------------------------
(* Replication: Export of the peer, then the imports *)

\* As if the keys sorted the oldest first.
Newest_Oldest(S) == {s \in S : Cardinality({u \in S : u < s}) < ExportLimit}

\* The keys are reversed times, so that the first ExportLimit of a scan are the newest.
Newest(S) == {s \in S : Cardinality({u \in S : u > s}) < ExportLimit}

ListEvents(n) == Newest(events[n])

\* ListRecentDownloads: the records under the newest keys.
ListRecentDownloads(n) ==
    LET keys == Newest({d.key : d \in downloads[n]})
    IN  {d.rec : d \in {e \in downloads[n] : e.key \in keys}}

\* syncMetadata gets the Export of the peer m.  A request that fails is one that was
\* not made; the parts of an export are read one by one, but no import relates them.
Export(n, m) ==
    /\ n # m /\ pull[n] = NoPull
    /\ pull' = [pull EXCEPT ![n] = [events    |-> ListEvents(m),
                                   history   |-> history[m],
                                   downloads |-> ListRecentDownloads(m)]]
    /\ UNCHANGED <<now, ledger, mu, proc, made, uncounted, crashes>>

\* The imports, one key at a time, the newest first: an event under its ID ...
ImportEvent(n) ==
    /\ pull[n].events # {}
    /\ LET e == Max(pull[n].events)
       IN  /\ events' = [events EXCEPT ![n] = @ \cup {e}]
           /\ pull' = [pull EXCEPT ![n].events = @ \ {e}]
    /\ UNCHANGED <<now, history, downloads, counter, mu, proc, made, uncounted, crashes>>

\* ... the entry of the clone history over ours ...
ImportCloneHistory(n) ==
    /\ pull[n].events = {} /\ pull[n].history # 0
    /\ history' = [history EXCEPT ![n] = pull[n].history]
    /\ pull' = [pull EXCEPT ![n].history = 0]
    /\ UNCHANGED <<now, events, downloads, counter, mu, proc, made, uncounted, crashes>>

\* As if a record were imported by RecordDownload's way of making a key.
ImportKey_Now(rec) == now

\* As if the record had come without its time.
ImportKey_Zero(rec) == 0

\* The key of an imported record is the time in the record.
ImportKey(rec) == rec

\* ... and a record of a download; the counter is left alone.
ImportDownloadRecord(n) ==
    /\ pull[n].events = {} /\ pull[n].history = 0
    /\ pull[n].downloads # {}
    /\ LET r == Max(pull[n].downloads)
           same == {d \in downloads[n] : d.key = ImportKey(r)}
       IN  /\ downloads' = [downloads EXCEPT ![n] =
                                (@ \ same) \cup {[key |-> ImportKey(r), rec |-> r]}]
           /\ pull' = [pull EXCEPT ![n].downloads = @ \ {r}]
    /\ UNCHANGED <<now, events, history, counter, mu, proc, made, uncounted, crashes>>

-----------------------------------------------------------------------------
\* The goroutines of RecordDownload between the record and the counter.
Counting(n) == {p \in Proc : proc[p].node = n /\ proc[p].pc \in {"put", "count"}}

\* An instance crashes and starts again: its goroutines and its imports are gone.
Crash(n) ==
    /\ crashes < MaxCrashes
    /\ crashes' = crashes + 1
    /\ proc' = [p \in Proc |-> IF proc[p].node = n THEN Idle ELSE proc[p]]
    /\ mu' = [mu EXCEPT ![n] = None]
    /\ pull' = [pull EXCEPT ![n] = NoPull]
    /\ uncounted' = [uncounted EXCEPT ![n] = @ + Cardinality(Counting(n))]
    /\ UNCHANGED <<now, ledger, made>>

Import(n) ==
    \/ ImportEvent(n) \/ ImportCloneHistory(n) \/ ImportDownloadRecord(n)

SyncMetadata(n) ==
    \/ \E m \in Node : Export(n, m)
    \/ Import(n)

Step(p) ==
    \/ LoadCounter(p) \/ SaveCounter(p)
    \/ RecordEvent(p) \/ SaveCloneHistory(p)

Next ==
    \/ \E p \in Proc, n \in Node : ServeHTTP(p, n) \/ CloneRelease(p, n)
    \/ \E p \in Proc : Step(p)
    \/ \E n \in Node : SyncMetadata(n) \/ Crash(n)

\* Instances keep pulling from each of the others: runJob ends with SyncMetadata for a
\* source of type fastregistry, and Sync shows that its jobs run again and again.
Spec ==
    /\ Init
    /\ [][Next]_vars
    /\ \A p \in Proc : WF_vars(Step(p))
    /\ \A n \in Node : WF_vars(Import(n))
    /\ \A n, m \in Node : SF_vars(Export(n, m))

-----------------------------------------------------------------------------
(* Properties *)

\* No download is counted twice or forgotten, whatever goroutines record at once and
\* whatever is imported meanwhile, except for those a crash interrupts between the
\* record and the counter (RecordDownload and its lock, ImportDownloadRecord); as long
\* as the counter can be read and written, the errors of which the code ignores.
CountersExact ==
    \A n \in Node :
        counter[n] + Cardinality(Counting(n)) + uncounted[n] = Cardinality(made[n])

\* Records neither replace one another nor multiply as they go back and forth between
\* instances: one that comes back to where it was made is there a second time, under
\* the key of an import, and takes that key however often it comes (the keys of
\* RecordDownload and ImportDownloadRecord).
RecordsKept ==
    \A n \in Node :
        /\ made[n] \subseteq {d.rec : d \in downloads[n]}
        /\ \A d \in downloads[n] :
               Cardinality({e \in downloads[n] : e.rec = d.rec /\ e.key # d.key}) <= 1

\* Instances that keep pulling come to know each other's newest event and newest
\* download, and have a clone history if one of them has one, through crashes and lost
\* requests, although an export is cut off at its limits (Export, syncMetadata).
Spreads ==
    <>[](\A n, m \in Node :
            /\ events[n] # {} => Max(events[n]) \in events[m]
            /\ \A d \in downloads[n] :
                  (\A e \in downloads[n] : e.key <= d.key) =>
                      \E e \in downloads[m] : e.rec = d.rec
            /\ history[n] # 0 => history[m] # 0)
=============================================================================
