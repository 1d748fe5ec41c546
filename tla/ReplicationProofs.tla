-------------------------- MODULE ReplicationProofs --------------------------
(***************************************************************************)
(* TypeOK, CountersExact and RecordsKept for every number of instances,    *)
(* goroutines, downloads and crashes, and every limit of an export.        *)
(*                                                                         *)
(* The counter: who is between loadCounter and saveCounter holds the lock, *)
(* and what it has read is still the counter.  The records: the time in a  *)
(* record and the time of its key are never those of another record, so    *)
(* that an import, whose key is the time in the record, replaces nothing   *)
(* but an earlier import of the same record.                               *)
(***************************************************************************)
EXTENDS Replication, FiniteSetTheorems, WellFoundedInduction, TLAPS

Typed == TypeOK /\ downloads \in [Node -> SUBSET Download]

\* A goroutine that counts holds the lock and knows the counter.
ProcOK(p) ==
    /\ proc[p].pc = "idle" => proc[p] = Idle
    /\ proc[p].pc # "idle" => proc[p].node \in Node
    /\ proc[p].pc = "count" => /\ mu[proc[p].node] = p
                               /\ proc[p].count = counter[proc[p].node]

AllMade == UNION {made[n] : n \in Node}

\* A download takes two readings of the clock, one for the record and the next one for
\* its key, so that no record has the time of another's key.
MadeOK ==
    /\ \A n \in Node : \A r \in made[n] : r \in Time /\ r + 1 <= now
    /\ \A r, s \in AllMade : s # r + 1

\* What is recorded is under one of two keys: that of RecordDownload, where it was
\* made, and that of an import.
DownloadsOK ==
    \A n \in Node :
        /\ \A r \in made[n] : [key |-> r + 1, rec |-> r] \in downloads[n]
        /\ \A d \in downloads[n] : d.rec \in AllMade /\ d.key \in {d.rec, d.rec + 1}

PullOK == \A n \in Node : pull[n].downloads \subseteq AllMade

IInv ==
    /\ Typed
    /\ \A p \in Proc : ProcOK(p)
    /\ MadeOK /\ DownloadsOK /\ PullOK
    /\ CountersExact

-----------------------------------------------------------------------------
(* Numbers and finite sets *)

\* Every non-empty set of natural numbers has a least element.
LEMMA LeastNat ==
    ASSUME NEW T \in SUBSET Nat, T # {}
    PROVE  \E x \in T : \A y \in T : x <= y
  <1> DEFINE R == OpToRel(<, Nat)
  <1>1. IsWellFoundedOn(R, Nat)
    BY NatLessThanWellFounded
  <1>2. \A x, y \in Nat : (<<y, x>> \in R) <=> y < x
    BY DEF OpToRel
  <1> HIDE DEF R
  <1>3. PICK x \in T : \A y \in T : ~ (<<y, x>> \in R)
    BY <1>1, WFMin
  <1>4. \A y \in T : ~ (y < x)
    BY <1>2, <1>3, Zenon
  <1>5. x \in Nat
    OBVIOUS
  <1> QED
    BY <1>4, <1>5

\* The newest of the times that are left to import.
LEMMA MaxTimeOK ==
    ASSUME NEW T \in SUBSET Time, T # {}
    PROVE  Max(T) \in T
  <1> DEFINE D == {y \in 0 .. MaxTime : MaxTime - y \in T}
  <1> USE ConstantsAssumption DEF Time
  <1>1. D \in SUBSET Nat /\ \A y \in T : MaxTime - y \in D
    <2>1. \A y \in T : MaxTime - y \in 0 .. MaxTime /\ MaxTime - (MaxTime - y) = y
      OBVIOUS
    <2> QED
      BY <2>1
  <1>2. PICK x \in D : \A y \in D : x <= y
    BY <1>1, LeastNat
  <1>3. MaxTime - x \in T
    BY <1>2
  <1>4. ASSUME NEW y \in T PROVE MaxTime - x >= y
    <2>1. x <= MaxTime - y /\ x \in 0 .. MaxTime
      BY <1>1, <1>2
    <2> QED
      BY <2>1
  <1> QED
    BY <1>3, <1>4 DEF Max

\* A set without two different elements has at most one.
LEMMA AtMostOne ==
    ASSUME NEW S, \A x, y \in S : x = y
    PROVE  Cardinality(S) <= 1
  <1>1. CASE S = {}
    BY <1>1, FS_EmptySet
  <1>2. ASSUME NEW x \in S PROVE Cardinality(S) <= 1
    <2>1. S = {x}
      OBVIOUS
    <2> QED
      BY <2>1, FS_Singleton
  <1> QED
    BY <1>1, <1>2

\* The sizes that CountersExact adds up are natural numbers, and an instance has made
\* fewer downloads than the clock has been read.
LEMMA Sizes ==
    ASSUME Typed, MadeOK, NEW n \in Node
    PROVE  /\ IsFiniteSet(Counting(n)) /\ Cardinality(Counting(n)) \in Nat
           /\ IsFiniteSet(made[n]) /\ Cardinality(made[n]) \in 0 .. now
  <1>1. IsFiniteSet(Counting(n))
    <2>1. Counting(n) \in SUBSET Proc
      BY DEF Counting
    <2> QED
      BY <2>1, FS_Subset, ConstantsAssumption
  <1>2. now \in Nat /\ IsFiniteSet(1 .. now) /\ Cardinality(1 .. now) = now
    <2>1. now \in Nat
      BY DEF Typed, TypeOK
    <2> QED
      BY <2>1, FS_Interval
  <1>3. made[n] \in SUBSET (1 .. now)
    BY <1>2, ConstantsAssumption DEF MadeOK, Time
  <1>4. IsFiniteSet(made[n]) /\ Cardinality(made[n]) <= now
    BY <1>2, <1>3, FS_Subset
  <1> QED
    BY <1>1, <1>2, <1>4, FS_CardinalityType

\* The terms of CountersExact, one by one.
LEMMA Terms ==
    ASSUME IInv, NEW n \in Node
    PROVE  /\ counter[n] + Cardinality(Counting(n)) + uncounted[n] <= MaxTime
           /\ {counter[n], Cardinality(Counting(n)), uncounted[n]} \subseteq Nat
  <1>1. Cardinality(made[n]) \in 0 .. now /\ Cardinality(Counting(n)) \in Nat
    BY Sizes DEF IInv
  <1>2. now \in 0 .. MaxTime /\ counter[n] \in Nat /\ uncounted[n] \in Nat
    BY DEF IInv, Typed, TypeOK
  <1> QED
    BY <1>1, <1>2, ConstantsAssumption DEF IInv, CountersExact

-----------------------------------------------------------------------------
(* The writers of an instance *)

\* A goroutine that has nothing to do.
LEMMA IdleOK == Idle \in Goroutine /\ Idle.pc = "idle" /\ Idle.node = None
  BY ConstantsAssumption DEF Idle, Goroutine

\* A new instance has an empty ledger.
LEMMA InitIInv == Init => IInv
  <1> SUFFICES ASSUME Init PROVE IInv
    OBVIOUS
  <1>1. NoPull \in Pull
    BY DEF NoPull, Pull
  <1>2. Typed
    BY <1>1, IdleOK, ConstantsAssumption DEF Init, Typed, TypeOK
  <1>3. \A p \in Proc : ProcOK(p)
    BY IdleOK DEF Init, ProcOK
  <1>4. \A n \in Node : Counting(n) = {}
    BY IdleOK DEF Init, Counting
  <1>5. CountersExact
    BY <1>4, FS_EmptySet DEF Init, CountersExact
  <1>6. MadeOK /\ DownloadsOK /\ PullOK
    BY DEF Init, MadeOK, DownloadsOK, PullOK, AllMade, NoPull
  <1> QED
    BY <1>2, <1>3, <1>5, <1>6 DEF IInv

\* A step of one goroutine that is not about downloads, and of the clock.
LEMMA WriterStep ==
    ASSUME IInv, NEW p \in Proc, NEW q \in Goroutine,
           proc' = [proc EXCEPT ![p] = q],
           q.pc = "idle" => q = Idle, q.pc # "idle" => q.node \in Node,
           q.pc = "count" => mu'[q.node] = p /\ q.count = counter[q.node],
           q.pc \in {"put", "count"} <=> proc[p].pc \in {"put", "count"},
           q.pc \in {"put", "count"} => q.node = proc[p].node,
           now' \in 0 .. MaxTime, now' >= now,
           mu' \in [Node -> Proc \cup {None}],
           \A x \in Proc \ {p} : proc[x].pc = "count" => mu'[proc[x].node] = x,
           events' \in [Node -> SUBSET Time], history' \in [Node -> Time \cup {0}],
           UNCHANGED <<downloads, counter, pull, made, uncounted, crashes>>
    PROVE  IInv'
  <1>1. Typed /\ proc \in [Proc -> Goroutine]
    BY DEF IInv, Typed, TypeOK
  <1>2. proc' \in [Proc -> Goroutine] /\ proc'[p] = q
        /\ \A x \in Proc \ {p} : proc'[x] = proc[x]
    BY <1>1
  <1>3. Typed'
    BY <1>1, <1>2 DEF Typed, TypeOK
  <1>4. ASSUME NEW x \in Proc PROVE ProcOK(x)'
    <2>1. CASE x = p
      BY <1>2, <2>1 DEF ProcOK
    <2>2. CASE x # p
      BY <1>2, <2>2 DEF IInv, ProcOK
    <2> QED
      BY <2>1, <2>2
  <1>5. \A n \in Node : Counting(n)' = Counting(n)
    BY <1>2 DEF Counting
  <1>6. CountersExact'
    BY <1>5 DEF IInv, CountersExact
  <1>7. MadeOK' /\ DownloadsOK' /\ PullOK'
    <2>1. AllMade' = AllMade
      BY DEF AllMade
    <2>2. now \in Int /\ now' \in Int /\ \A n \in Node : \A r \in made[n] : r \in Int
      BY <1>1, ConstantsAssumption DEF Typed, TypeOK, Time
    <2> QED
      BY <2>1, <2>2 DEF IInv, MadeOK, DownloadsOK, PullOK
  <1> QED
    BY <1>3, <1>4, <1>6, <1>7 DEF IInv

\* RecordDownload takes the lock and reads the counter.
LEMMA LoadCounterIInv ==
    ASSUME IInv, NEW p \in Proc, LoadCounter(p)
    PROVE  IInv'
  <1> USE DEF ledger
  <1> DEFINE n == proc[p].node
             q == [proc[p] EXCEPT !.pc = "count", !.count = counter[n]]
  <1>1. Typed /\ proc[p] \in Goroutine /\ ProcOK(p) /\ proc[p].pc = "put" /\ mu[n] = None
    BY DEF IInv, Typed, TypeOK, LoadCounter
  <1>2. n \in Node /\ counter[n] \in 0 .. MaxTime /\ now \in 0 .. MaxTime
    BY <1>1 DEF ProcOK, Typed, TypeOK
  <1>3. q \in Goroutine /\ q.pc = "count" /\ q.node = n /\ q.count = counter[n]
    BY <1>1, <1>2 DEF Goroutine
  <1>4. proc' = [proc EXCEPT ![p] = q] /\ mu' = [mu EXCEPT ![n] = p]
    BY DEF LoadCounter
  <1>5. mu' \in [Node -> Proc \cup {None}] /\ mu'[n] = p
        /\ \A m \in Node \ {n} : mu'[m] = mu[m]
    BY <1>1, <1>2, <1>4 DEF Typed, TypeOK
  <1>6. \A x \in Proc \ {p} : proc[x].pc = "count" => mu'[proc[x].node] = x
    <2>1. \A x \in Proc : proc[x].pc = "count" =>
             proc[x].node \in Node /\ mu[proc[x].node] = x /\ x # None
      BY ConstantsAssumption DEF IInv, ProcOK
    <2> QED
      BY <1>1, <1>5, <2>1
  <1>7. /\ events' \in [Node -> SUBSET Time] /\ history' \in [Node -> Time \cup {0}]
        /\ UNCHANGED <<downloads, counter, pull, made, uncounted, crashes, now>>
    BY <1>1 DEF LoadCounter, Typed, TypeOK
  <1>8. now' \in 0 .. MaxTime /\ now' >= now
    BY <1>2, <1>7, ConstantsAssumption
  <1> HIDE DEF q, n
  <1> QED
    BY <1>1, <1>2, <1>3, <1>4, <1>5, <1>6, <1>7, <1>8, WriterStep DEF n

\* RecordEvent, and the end of the goroutine.
LEMMA RecordEventIInv ==
    ASSUME IInv, NEW p \in Proc, RecordEvent(p)
    PROVE  IInv'
  <1>1. Typed /\ ProcOK(p) /\ proc[p].pc = "event" /\ \A x \in Proc : ProcOK(x)
    BY DEF IInv, RecordEvent
  <1>2. now \in 0 .. MaxTime /\ now' \in 0 .. MaxTime /\ now' >= now /\ now' \in Time
    BY <1>1, ConstantsAssumption DEF RecordEvent, ReadClock, Typed, TypeOK, Time
  <1>3. /\ events' \in [Node -> SUBSET Time] /\ history' \in [Node -> Time \cup {0}]
        /\ mu' \in [Node -> Proc \cup {None}]
        /\ UNCHANGED <<downloads, counter, pull, made, uncounted, crashes, mu>>
    BY <1>1, <1>2 DEF RecordEvent, Typed, TypeOK, ProcOK
  <1>4. \A x \in Proc \ {p} : proc[x].pc = "count" => mu'[proc[x].node] = x
    BY <1>1, <1>3 DEF ProcOK
  <1> QED
    BY <1>1, <1>2, <1>3, <1>4, IdleOK, WriterStep DEF RecordEvent, Ends

\* A clone ends, and its goroutine records the event.
LEMMA CloneReleaseIInv ==
    ASSUME IInv, NEW p \in Proc, NEW n \in Node, CloneRelease(p, n)
    PROVE  IInv'
  <1> DEFINE q == [Idle EXCEPT !.pc = "entry", !.node = n, !.rec = now']
  <1>1. Typed /\ proc[p].pc = "idle" /\ \A x \in Proc : ProcOK(x)
    BY DEF IInv, CloneRelease
  <1>2. now \in 0 .. MaxTime /\ now' \in 0 .. MaxTime /\ now' >= now /\ now' \in Time
    BY <1>1, ConstantsAssumption DEF CloneRelease, ReadClock, Typed, TypeOK, Time
  <1>3. /\ events' \in [Node -> SUBSET Time] /\ history' \in [Node -> Time \cup {0}]
        /\ mu' \in [Node -> Proc \cup {None}]
        /\ UNCHANGED <<downloads, counter, pull, made, uncounted, crashes, mu>>
    BY <1>1, <1>2 DEF CloneRelease, Typed, TypeOK
  <1>4. q \in Goroutine /\ q.pc = "entry" /\ q.node = n
    BY <1>2, IdleOK DEF Goroutine
  <1>5. \A x \in Proc \ {p} : proc[x].pc = "count" => mu'[proc[x].node] = x
    BY <1>1, <1>3 DEF ProcOK
  <1>6. proc' = [proc EXCEPT ![p] = q]
    BY DEF CloneRelease
  <1> HIDE DEF q
  <1> QED
    BY <1>1, <1>2, <1>3, <1>4, <1>5, <1>6, WriterStep

\* The history entry of a clone.
LEMMA SaveCloneHistoryIInv ==
    ASSUME IInv, NEW p \in Proc, SaveCloneHistory(p)
    PROVE  IInv'
  <1>1. /\ Typed /\ proc[p] \in Goroutine /\ proc[p].pc = "entry"
        /\ \A x \in Proc : ProcOK(x)
    BY DEF IInv, Typed, TypeOK, SaveCloneHistory
  <1>2. now' \in 0 .. MaxTime /\ now' >= now
    BY <1>1, ConstantsAssumption DEF SaveCloneHistory, Typed, TypeOK
  <1>3. proc[p].node \in Node /\ proc[p].rec \in Time \cup {0}
    BY <1>1 DEF ProcOK, Goroutine
  <1>4. /\ events' \in [Node -> SUBSET Time] /\ history' \in [Node -> Time \cup {0}]
        /\ mu' \in [Node -> Proc \cup {None}]
        /\ UNCHANGED <<downloads, counter, pull, made, uncounted, crashes, mu>>
    BY <1>1, <1>3 DEF SaveCloneHistory, Typed, TypeOK
  <1>5. \A x \in Proc \ {p} : proc[x].pc = "count" => mu'[proc[x].node] = x
    BY <1>1, <1>4 DEF ProcOK
  <1> QED
    BY <1>1, <1>2, <1>4, <1>5, IdleOK, WriterStep DEF SaveCloneHistory, Ends

\* The counter is saved: no goroutine can have changed it, and the one that saves it
\* counts no longer.
LEMMA SaveCounterIInv ==
    ASSUME IInv, NEW p \in Proc, SaveCounter(p)
    PROVE  IInv'
  <1> DEFINE q == [proc[p] EXCEPT !.pc = "event"]
  <1>1. Typed /\ proc[p] \in Goroutine /\ ProcOK(p) /\ proc[p].pc = "count"
        /\ proc \in [Proc -> Goroutine] /\ \A x \in Proc : ProcOK(x)
    BY DEF IInv, Typed, TypeOK, SaveCounter
  <1>2. PICK n \in Node : /\ n = proc[p].node /\ mu[n] = p
                          /\ proc[p].count = counter[n] /\ counter[n] \in Nat
    BY <1>1 DEF ProcOK, Typed, TypeOK
  <1>3. q \in Goroutine /\ q.pc = "event" /\ q.node = n
    BY <1>1, <1>2 DEF Goroutine
  <1>4. proc' = [proc EXCEPT ![p] = q] /\ proc'[p] = q
        /\ \A x \in Proc \ {p} : proc'[x] = proc[x]
    BY <1>1 DEF SaveCounter, Goes
  <1>5. UNCHANGED <<now, events, history, downloads, pull, made, uncounted, crashes>>
    BY DEF SaveCounter
  <1> HIDE DEF q
  <1>6. p \in Counting(n) /\ Counting(n)' = Counting(n) \ {p}
        /\ \A m \in Node \ {n} : Counting(m)' = Counting(m)
    BY <1>1, <1>2, <1>3, <1>4 DEF Counting
  <1>7. /\ Cardinality(Counting(n)) \in Nat
        /\ Cardinality(Counting(n))' = Cardinality(Counting(n)) - 1
        /\ Cardinality(Counting(n)) >= 1
    <2>1. IsFiniteSet(Counting(n)) /\ Cardinality(Counting(n)) \in Nat
      BY <1>2, Sizes DEF IInv
    <2>2. Cardinality(Counting(n) \ {p}) = Cardinality(Counting(n)) - 1
      BY <1>6, <2>1, FS_RemoveElement
    <2>3. Cardinality(Counting(n)) # 0
      BY <1>6, <2>1, FS_EmptySet
    <2> QED
      BY <1>6, <2>1, <2>2, <2>3
  <1>8. counter[n] + 1 \in 0 .. MaxTime
    BY <1>2, <1>7, Terms, ConstantsAssumption
  <1>9. counter' \in [Node -> 0 .. MaxTime] /\ counter'[n] = counter[n] + 1
        /\ \A m \in Node \ {n} : counter'[m] = counter[m]
    BY <1>1, <1>2, <1>8 DEF SaveCounter, Typed, TypeOK
  <1>10. mu' \in [Node -> Proc \cup {None}] /\ \A m \in Node \ {n} : mu'[m] = mu[m]
    BY <1>1, <1>2 DEF SaveCounter, Typed, TypeOK
  <1>11. Typed'
    <2>1. proc' \in [Proc -> Goroutine]
      BY <1>1, <1>3, <1>4
    <2> QED
      BY <1>1, <1>5, <1>9, <1>10, <2>1 DEF Typed, TypeOK
  <1>12. ASSUME NEW x \in Proc PROVE ProcOK(x)'
    <2>1. CASE x = p
      BY <1>2, <1>3, <1>4, <2>1 DEF ProcOK
    <2>2. CASE x # p
      <3>1. proc[x].pc = "count" => proc[x].node \in Node \ {n}
        BY <1>1, <1>2, <2>2 DEF ProcOK
      <3> QED
        BY <1>1, <1>4, <1>9, <1>10, <2>2, <3>1 DEF ProcOK
    <2> QED
      BY <2>1, <2>2
  <1>13. CountersExact'
    <2>1. ASSUME NEW m \in Node
          PROVE  counter'[m] + Cardinality(Counting(m))' + uncounted'[m]
                   = Cardinality(made'[m])
      <3>1. uncounted[m] \in Nat /\ counter[m] \in Nat
        BY <1>1 DEF Typed, TypeOK
      <3>2. CASE m = n
        BY <1>2, <1>5, <1>7, <1>9, <3>1, <3>2 DEF IInv, CountersExact
      <3>3. CASE m # n
        BY <1>5, <1>6, <1>9, <3>3 DEF IInv, CountersExact
      <3> QED
        BY <3>2, <3>3
    <2> QED
      BY <2>1 DEF CountersExact
  <1>14. MadeOK' /\ DownloadsOK' /\ PullOK'
    BY <1>5 DEF IInv, MadeOK, DownloadsOK, PullOK, AllMade
  <1> QED
    BY <1>11, <1>12, <1>13, <1>14 DEF IInv

\* A download is recorded under times that no other record has or will have.
LEMMA ServeHTTPIInv ==
    ASSUME IInv, NEW p \in Proc, NEW n \in Node, ServeHTTP(p, n)
    PROVE  IInv'
  <1> DEFINE q == [proc[p] EXCEPT !.pc = "put", !.node = n]
             t == now + 1
             d == [key |-> t + 1, rec |-> t]
  <1>1. Typed /\ proc[p] \in Goroutine /\ proc[p] = Idle
        /\ proc \in [Proc -> Goroutine] /\ \A x \in Proc : ProcOK(x)
    BY DEF IInv, Typed, TypeOK, ServeHTTP, ProcOK
  <1>2. /\ now \in Nat /\ now' = t + 1 /\ now' \in 0 .. MaxTime
        /\ t \in Time /\ t + 1 \in Time /\ t \in Nat
    BY <1>1, ConstantsAssumption DEF ServeHTTP, Typed, TypeOK, Time
  <1>3. q \in Goroutine /\ q.pc = "put" /\ q.node = n
    BY <1>1 DEF Goroutine
  <1>4. proc' = [proc EXCEPT ![p] = q] /\ proc'[p] = q
        /\ \A x \in Proc \ {p} : proc'[x] = proc[x]
    BY <1>1 DEF ServeHTTP
  <1>5. UNCHANGED <<events, history, counter, mu, pull, uncounted, crashes>>
    BY DEF ServeHTTP
  <1>6. d \in Download /\ d.rec = t /\ d.key = t + 1
    BY <1>2 DEF Download
  <1>7. /\ downloads' \in [Node -> SUBSET Download]
        /\ downloads'[n] = downloads[n] \cup {d}
        /\ \A m \in Node \ {n} : downloads'[m] = downloads[m]
    <2>1. now + 2 = t + 1
      BY <1>2
    <2>2. downloads' = [downloads EXCEPT ![n] = @ \cup {d}]
      BY <2>1 DEF ServeHTTP
    <2> HIDE DEF d
    <2> QED
      BY <1>1, <1>6, <2>2 DEF Typed
  <1>8. /\ made' \in [Node -> SUBSET Time]
        /\ made'[n] = made[n] \cup {t}
        /\ \A m \in Node \ {n} : made'[m] = made[m]
    <2>1. made' = [made EXCEPT ![n] = @ \cup {t}]
      BY DEF ServeHTTP
    <2> QED
      BY <1>1, <1>2, <2>1 DEF Typed, TypeOK
  <1> HIDE DEF q, d, t
  <1>9. Typed'
    <2>1. proc' \in [Proc -> Goroutine]
      BY <1>1, <1>3, <1>4
    <2> QED
      BY <1>1, <1>2, <1>5, <1>7, <1>8, <2>1 DEF Typed, TypeOK
  <1>10. ASSUME NEW x \in Proc PROVE ProcOK(x)'
    BY <1>1, <1>3, <1>4, <1>5 DEF ProcOK
  <1>11. CountersExact'
    <2>1. p \notin Counting(n) /\ Counting(n)' = Counting(n) \cup {p}
          /\ \A m \in Node \ {n} : Counting(m)' = Counting(m)
      BY <1>1, <1>3, <1>4, IdleOK DEF Counting
    <2>2. /\ IsFiniteSet(Counting(n)) /\ Cardinality(Counting(n)) \in Nat
          /\ IsFiniteSet(made[n]) /\ Cardinality(made[n]) \in Nat
      BY <1>2, Sizes DEF IInv
    <2>3. t \notin made[n]
      BY <1>2 DEF IInv, MadeOK, Time, t
    <2>4. /\ Cardinality(Counting(n))' = Cardinality(Counting(n)) + 1
          /\ Cardinality(made'[n]) = Cardinality(made[n]) + 1
      <3>1. Cardinality(Counting(n) \cup {p}) = Cardinality(Counting(n)) + 1
        BY <2>1, <2>2, FS_AddElement
      <3>2. Cardinality(made[n] \cup {t}) = Cardinality(made[n]) + 1
        BY <2>2, <2>3, FS_AddElement
      <3> QED
        BY <1>8, <2>1, <3>1, <3>2
    <2>5. ASSUME NEW m \in Node
          PROVE  counter'[m] + Cardinality(Counting(m))' + uncounted'[m]
                   = Cardinality(made'[m])
      <3>1. uncounted[m] \in Nat /\ counter[m] \in Nat
        BY <1>1 DEF Typed, TypeOK
      <3>2. CASE m = n
        BY <1>5, <2>2, <2>4, <3>1, <3>2 DEF IInv, CountersExact
      <3>3. CASE m # n
        BY <1>5, <1>8, <2>1, <3>3 DEF IInv, CountersExact
      <3> QED
        BY <3>2, <3>3
    <2> QED
      BY <2>5 DEF CountersExact
  <1>12. AllMade' = AllMade \cup {t}
    BY <1>8 DEF AllMade
  <1>13. MadeOK'
    <2>1. \A r \in AllMade : r \in Nat /\ r + 1 <= now
      BY DEF IInv, MadeOK, AllMade, Time
    <2>2. \A r, s \in AllMade \cup {t} : s # r + 1
      BY <1>2, <2>1 DEF IInv, MadeOK, t
    <2>3. \A m \in Node : \A r \in made'[m] : r \in Time /\ r + 1 <= now'
      BY <1>2, <1>8 DEF IInv, MadeOK, t, Time
    <2> QED
      BY <1>12, <2>2, <2>3 DEF MadeOK
  <1>14. DownloadsOK'
    <2>1. d = [key |-> t + 1, rec |-> t]
      BY DEF d
    <2>2. ASSUME NEW m \in Node, NEW r \in made'[m]
          PROVE  [key |-> r + 1, rec |-> r] \in downloads'[m]
      BY <1>7, <1>8, <2>1 DEF IInv, DownloadsOK
    <2>3. ASSUME NEW m \in Node, NEW e \in downloads'[m]
          PROVE  e.rec \in AllMade' /\ e.key \in {e.rec, e.rec + 1}
      BY <1>6, <1>7, <1>12 DEF IInv, DownloadsOK
    <2> QED
      BY <2>2, <2>3 DEF DownloadsOK
  <1>15. PullOK'
    BY <1>5, <1>12 DEF IInv, PullOK
  <1> QED
    BY <1>9, <1>10, <1>11, <1>13, <1>14, <1>15 DEF IInv

-----------------------------------------------------------------------------
(* Replication *)

\* A step of syncMetadata leaves the writers, the counter and the history of the model
\* alone.
LEMMA ImportStep ==
    ASSUME IInv, Typed', DownloadsOK', PullOK',
           UNCHANGED <<now, counter, mu, proc, made, uncounted, crashes>>
    PROVE  IInv'
  <1>1. \A p \in Proc : ProcOK(p)'
    BY DEF IInv, ProcOK
  <1>2. MadeOK' /\ CountersExact'
    BY DEF IInv, MadeOK, AllMade, CountersExact, Counting
  <1> QED
    BY <1>1, <1>2 DEF IInv

\* An export has what is there, whatever its limits leave out.
LEMMA ExportIInv ==
    ASSUME IInv, NEW n \in Node, NEW m \in Node, Export(n, m)
    PROVE  IInv'
  <1> USE DEF ledger
  <1>1. Typed
    BY DEF IInv
  <1>2. ListEvents(m) \in SUBSET Time
    BY <1>1 DEF ListEvents, Newest, Typed, TypeOK
  <1>3. ListRecentDownloads(m) \in SUBSET AllMade
    BY DEF ListRecentDownloads, IInv, DownloadsOK
  <1>4. AllMade \in SUBSET Time
    BY <1>1 DEF AllMade, Typed, TypeOK
  <1> DEFINE x == [events |-> ListEvents(m), history |-> history[m],
                   downloads |-> ListRecentDownloads(m)]
  <1>5. x \in Pull /\ x.downloads \subseteq AllMade
    BY <1>1, <1>2, <1>3, <1>4 DEF Pull, Typed, TypeOK
  <1>6. pull' = [pull EXCEPT ![n] = x] /\ AllMade' = AllMade
    BY DEF Export, AllMade
  <1> HIDE DEF x
  <1>7. Typed'
    BY <1>1, <1>5, <1>6 DEF Export, Typed, TypeOK
  <1>8. DownloadsOK' /\ PullOK'
    BY <1>1, <1>5, <1>6 DEF Export, IInv, DownloadsOK, PullOK, Typed, TypeOK
  <1> QED
    BY <1>7, <1>8, ImportStep DEF Export

\* An event or the clone history is imported.
LEMMA ImportEventIInv ==
    ASSUME IInv, NEW n \in Node, ImportEvent(n) \/ ImportCloneHistory(n)
    PROVE  IInv'
  <1>1. Typed /\ pull[n] \in Pull /\ AllMade' = AllMade
    BY DEF IInv, Typed, TypeOK, ImportEvent, ImportCloneHistory, AllMade
  <1>2. Typed' /\ \A m \in Node : pull'[m].downloads = pull[m].downloads
    <2>1. CASE ImportEvent(n)
      <3>1. Max(pull[n].events) \in Time /\ pull[n].events \in SUBSET Time
        BY <1>1, <2>1, MaxTimeOK DEF ImportEvent, Pull
      <3> DEFINE x == [pull[n] EXCEPT !.events = @ \ {Max(pull[n].events)}]
      <3>2. x \in Pull /\ x.downloads = pull[n].downloads
        BY <1>1, <3>1 DEF Pull
      <3>3. pull' = [pull EXCEPT ![n] = x]
        BY <2>1 DEF ImportEvent
      <3> HIDE DEF x
      <3>4. events' \in [Node -> SUBSET Time]
        BY <1>1, <2>1, <3>1 DEF ImportEvent, Typed, TypeOK
      <3> QED
        BY <1>1, <2>1, <3>2, <3>3, <3>4 DEF ImportEvent, Typed, TypeOK
    <2>2. CASE ImportCloneHistory(n)
      <3> DEFINE x == [pull[n] EXCEPT !.history = 0]
      <3>1. x \in Pull /\ x.downloads = pull[n].downloads
        BY <1>1 DEF Pull
      <3>2. pull' = [pull EXCEPT ![n] = x]
        BY <2>2 DEF ImportCloneHistory
      <3> HIDE DEF x
      <3>3. history' \in [Node -> Time \cup {0}]
        BY <1>1, <2>2 DEF ImportCloneHistory, Typed, TypeOK, Pull
      <3> QED
        BY <1>1, <2>2, <3>1, <3>2, <3>3 DEF ImportCloneHistory, Typed, TypeOK
    <2> QED
      BY <2>1, <2>2
  <1>3. DownloadsOK' /\ PullOK'
    BY <1>1, <1>2 DEF ImportEvent, ImportCloneHistory, IInv, DownloadsOK, PullOK
  <1> QED
    BY <1>2, <1>3, ImportStep DEF ImportEvent, ImportCloneHistory

\* A record is imported.  What it replaces has the same key, which is the time in the
\* record and no key of RecordDownload: it is the same record.
LEMMA ImportDownloadRecordIInv ==
    ASSUME IInv, NEW n \in Node, ImportDownloadRecord(n)
    PROVE  IInv'
  <1> DEFINE r == Max(pull[n].downloads)
             d == [key |-> r, rec |-> r]
             x == [pull[n] EXCEPT !.downloads = @ \ {r}]
  <1>1. Typed /\ pull[n] \in Pull /\ AllMade' = AllMade /\ made' = made
    BY DEF IInv, Typed, TypeOK, ImportDownloadRecord, AllMade
  <1>2. r \in Time /\ r \in pull[n].downloads
    BY <1>1, MaxTimeOK DEF ImportDownloadRecord, Pull
  <1>3. r \in AllMade
    BY <1>2 DEF IInv, PullOK
  <1>4. pull' = [pull EXCEPT ![n] = x]
    BY DEF ImportDownloadRecord
  <1>5. downloads' = [downloads EXCEPT ![n] = {e \in @ : e.key # r} \cup {d}]
    <2>1. {e \in downloads[n] : e.key # r}
            = downloads[n] \ {e \in downloads[n] : e.key = r}
      OBVIOUS
    <2> QED
      BY <2>1 DEF ImportDownloadRecord, ImportKey
  <1> HIDE DEF r
  <1>6. x \in Pull /\ x.downloads \subseteq pull[n].downloads
    BY <1>1 DEF Pull
  <1>7. d \in Download /\ d.key = r /\ d.rec = r
    BY <1>2 DEF Download
  <1> HIDE DEF d, x
  <1>8. /\ downloads' \in [Node -> SUBSET Download]
        /\ downloads'[n] = {e \in downloads[n] : e.key # r} \cup {d}
        /\ \A m \in Node \ {n} : downloads'[m] = downloads[m]
    BY <1>1, <1>5, <1>7 DEF Typed
  <1>9. pull' \in [Node -> Pull] /\ \A m \in Node : pull'[m].downloads \subseteq pull[m].downloads
    BY <1>1, <1>4, <1>6 DEF Typed, TypeOK
  <1>10. Typed'
    BY <1>1, <1>8, <1>9 DEF ImportDownloadRecord, Typed, TypeOK
  <1>11. DownloadsOK'
    <2>1. ASSUME NEW m \in Node, NEW s \in made[m]
          PROVE  [key |-> s + 1, rec |-> s] \in downloads'[m]
      <3>1. [key |-> s + 1, rec |-> s] \in downloads[m]
        BY DEF IInv, DownloadsOK
      <3>2. s \in AllMade
        BY DEF AllMade
      <3>3. s + 1 # r
        BY <1>3, <3>2 DEF IInv, MadeOK
      <3> QED
        BY <1>8, <3>1, <3>3
    <2>2. ASSUME NEW m \in Node, NEW e \in downloads'[m]
          PROVE  e.rec \in AllMade /\ e.key \in {e.rec, e.rec + 1}
      BY <1>3, <1>7, <1>8 DEF IInv, DownloadsOK
    <2> QED
      BY <1>1, <2>1, <2>2 DEF DownloadsOK
  <1>12. PullOK'
    BY <1>1, <1>9 DEF IInv, PullOK
  <1> QED
    BY <1>10, <1>11, <1>12, ImportStep DEF ImportDownloadRecord

-----------------------------------------------------------------------------
(* Crashes *)

\* The downloads that the crash interrupts move from the ones that are being counted
\* to the uncounted ones.
LEMMA CrashIInv ==
    ASSUME IInv, NEW n \in Node, Crash(n)
    PROVE  IInv'
  <1> USE DEF ledger
  <1>1. Typed /\ proc \in [Proc -> Goroutine] /\ \A x \in Proc : ProcOK(x)
    BY DEF IInv, Typed, TypeOK
  <1>2. UNCHANGED <<now, events, history, downloads, counter, made>>
    BY DEF Crash
  <1>3. /\ proc' \in [Proc -> Goroutine]
        /\ \A x \in Proc : proc'[x] = IF proc[x].node = n THEN Idle ELSE proc[x]
    BY <1>1, IdleOK DEF Crash
  <1>4. Counting(n)' = {} /\ \A m \in Node \ {n} : Counting(m)' = Counting(m)
    BY <1>3, IdleOK, ConstantsAssumption DEF Counting
  <1>5. {counter[n], Cardinality(Counting(n)), uncounted[n]} \subseteq Nat
        /\ counter[n] + Cardinality(Counting(n)) + uncounted[n] <= MaxTime
    BY Terms
  <1>6. uncounted[n] + Cardinality(Counting(n)) \in 0 .. MaxTime
    BY <1>5, ConstantsAssumption
  <1>7. /\ uncounted' \in [Node -> 0 .. MaxTime]
        /\ uncounted'[n] = uncounted[n] + Cardinality(Counting(n))
        /\ \A m \in Node \ {n} : uncounted'[m] = uncounted[m]
    BY <1>1, <1>6 DEF Crash, Typed, TypeOK
  <1>8. mu' \in [Node -> Proc \cup {None}] /\ \A m \in Node \ {n} : mu'[m] = mu[m]
    BY <1>1 DEF Crash, Typed, TypeOK
  <1>9. NoPull \in Pull /\ NoPull.downloads = {}
    BY DEF NoPull, Pull
  <1>10. pull' \in [Node -> Pull] /\ \A m \in Node : pull'[m].downloads \subseteq pull[m].downloads
    BY <1>1, <1>9 DEF Crash, Typed, TypeOK
  <1>11. crashes' \in 0 .. MaxCrashes
    BY <1>1, ConstantsAssumption DEF Crash, Typed, TypeOK
  <1>12. Typed'
    BY <1>1, <1>2, <1>3, <1>7, <1>8, <1>10, <1>11 DEF Typed, TypeOK
  <1>13. ASSUME NEW x \in Proc PROVE ProcOK(x)'
    <2>1. CASE proc[x].node = n
      BY <1>3, <2>1, IdleOK DEF ProcOK
    <2>2. CASE proc[x].node # n
      BY <1>1, <1>2, <1>3, <1>8, <2>2 DEF ProcOK
    <2> QED
      BY <2>1, <2>2
  <1>14. CountersExact'
    <2>1. ASSUME NEW m \in Node
          PROVE  counter'[m] + Cardinality(Counting(m))' + uncounted'[m]
                   = Cardinality(made'[m])
      <3>1. CASE m = n
        <4>1. Cardinality(Counting(n))' = 0
          BY <1>4, FS_EmptySet
        <4> QED
          BY <1>2, <1>5, <1>7, <3>1, <4>1 DEF IInv, CountersExact
      <3>2. CASE m # n
        BY <1>2, <1>4, <1>7, <3>2 DEF IInv, CountersExact
      <3> QED
        BY <3>1, <3>2
    <2> QED
      BY <2>1 DEF CountersExact
  <1>15. MadeOK' /\ DownloadsOK' /\ PullOK'
    BY <1>2, <1>10 DEF IInv, MadeOK, DownloadsOK, PullOK, AllMade
  <1> QED
    BY <1>12, <1>13, <1>14, <1>15 DEF IInv

-----------------------------------------------------------------------------
(* Theorems *)

\* The invariant holds in every state.
LEMMA Invariance == Spec => []IInv
  <1>1. IInv /\ [Next]_vars => IInv'
    <2> SUFFICES ASSUME IInv, [Next]_vars PROVE IInv'
      OBVIOUS
    <2>1. CASE UNCHANGED vars
      <3> USE <2>1 DEF vars, ledger
      <3>1. Typed' /\ DownloadsOK' /\ PullOK'
        BY DEF IInv, Typed, TypeOK, DownloadsOK, PullOK, AllMade
      <3> QED
        BY <3>1, ImportStep
    <2>2. ASSUME NEW p \in Proc, Step(p) PROVE IInv'
      BY <2>2, LoadCounterIInv, SaveCounterIInv, RecordEventIInv, SaveCloneHistoryIInv
        DEF Step
    <2>3. ASSUME NEW n \in Node, SyncMetadata(n) PROVE IInv'
      BY <2>3, ExportIInv, ImportEventIInv, ImportDownloadRecordIInv
        DEF SyncMetadata, Import
    <2> QED
      BY <2>1, <2>2, <2>3, ServeHTTPIInv, CloneReleaseIInv, CrashIInv DEF Next
  <1> QED
    BY InitIInv, <1>1, PTL DEF Spec

\* No writer, export or import stores a value outside its type: a counter never
\* passes the number of readings of the clock.
THEOREM TypeCorrect == Spec => []TypeOK
  <1>1. IInv => TypeOK
    BY DEF IInv, Typed
  <1> QED
    BY <1>1, Invariance, PTL

\* The counter of an instance is the number of its downloads, less those that are
\* being counted and those that a crash interrupted: Store.mu makes the load and the
\* save of RecordDownload one, and imports leave the counter alone.
THEOREM NoMiscount == Spec => []CountersExact
  <1>1. IInv => CountersExact
    BY DEF IInv
  <1> QED
    BY <1>1, Invariance, PTL

\* No download record is lost to another, and none is there more than twice, however
\* often instances export and import them: the keys of RecordDownload and those of
\* ImportDownloadRecord do not meet.
THEOREM RecordsSafe == Spec => []RecordsKept
  <1>1. IInv => RecordsKept
    <2> SUFFICES ASSUME IInv, NEW n \in Node
                 PROVE  /\ made[n] \subseteq {d.rec : d \in downloads[n]}
                        /\ \A d \in downloads[n] :
                              Cardinality({e \in downloads[n] : e.rec = d.rec /\ e.key # d.key}) <= 1
      BY DEF RecordsKept
    <2>1. ASSUME NEW r \in made[n] PROVE \E d \in downloads[n] : d.rec = r
      <3>1. [key |-> r + 1, rec |-> r] \in downloads[n]
        BY DEF IInv, DownloadsOK
      <3> QED
        BY <3>1
    <2>2. ASSUME NEW d \in downloads[n]
          PROVE  Cardinality({e \in downloads[n] : e.rec = d.rec /\ e.key # d.key}) <= 1
      <3> DEFINE S == {e \in downloads[n] : e.rec = d.rec /\ e.key # d.key}
      <3>1. ASSUME NEW x \in S, NEW y \in S PROVE x = y
        <4>1. x \in Download /\ y \in Download /\ d \in Download
          BY DEF IInv, Typed, TypeOK
        <4>2. x.key = y.key /\ x.rec = y.rec
          BY DEF IInv, DownloadsOK
        <4> QED
          BY <4>1, <4>2 DEF Download
      <3> HIDE DEF S
      <3>2. Cardinality(S) <= 1
        BY <3>1, AtMostOne
      <3> QED
        BY <3>2 DEF S
    <2> QED
      BY <2>1, <2>2
  <1> QED
    BY <1>1, Invariance, PTL
=============================================================================
