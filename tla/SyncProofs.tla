------------------------------ MODULE SyncProofs ------------------------------
(***************************************************************************)
(* TypeOK, OneRunPerJob, TriggerNotLost and SyncedComplete for every number *)
(* of goroutines, jobs, repositories, images, failures and crashes, and    *)
(* for indexes nested to any depth.                                        *)
(*                                                                         *)
(* The scheduler: every goroutine past the check of runJob holds its job's *)
(* running flag, and a job that was asked for is not running.  The copy:   *)
(* each call of syncTag that is on the way to PutManifest has behind it    *)
(* the blobs that it has done, stored or deleted by a client since.        *)
(***************************************************************************)
EXTENDS Sync, FiniteSetTheorems, TLAPS

\* What a client deleted counts as kept, for nobody lost it.
Kept == stored \cup dropped

\* Everything a manifest's record stands for.
Parts(m) == {m} \cup LayersOf[m] \cup ({ConfigOf[m]} \ {None})

Runs == [pc      : {"idle", "start", "list", "repos", "tags", "done"},
         job     : Job \cup {None},
         expired : BOOLEAN,
         repos   : SUBSET Repo,
         repo    : Repo \cup {None},
         tags    : SUBSET Tag,
         wants   : {<<>>} \cup [Tag -> Manifest],
         calls   : Seq(Call)]

\* A call of syncTag for job j, anywhere on the stack.
CallInv(c, j, kept) ==
    /\ c.pc = "exists" /\ Type[j] # "quay" => c.dgst \in Manifest
    /\ c.pc \in {"children", "config", "layers", "put", "link"} => c.dgst \in Manifest
    /\ c.pc = "children" => c.todo \subseteq Manifest
    /\ c.pc = "layers" => /\ {ConfigOf[c.dgst]} \ {None} \subseteq kept
                          /\ c.ok => LayersOf[c.dgst] \ c.todo \subseteq kept
    /\ c.pc \in {"put", "link"} => Parts(c.dgst) \subseteq kept

\* A goroutine of runJob.
RunInv(r, kept) ==
    /\ r.pc = "idle" => r = Idle
    /\ r.pc # "idle" => r.job \in Job
    /\ r.pc = "start" => r = Starting(r.job)
    /\ r.pc = "tags" => r.repo \in Repo
    /\ r.pc # "tags" => r.calls = <<>>
    /\ \A i \in 1 .. Len(r.calls) : CallInv(r.calls[i], r.job, kept)

DataOK ==
    /\ upstream \in [Source -> [Repo -> [Tag -> Manifest]]]
    /\ stored \subseteq Digest
    /\ records \in [Repo -> SUBSET Manifest]
    /\ tags \in [Repo -> [Tag -> Manifest \cup {None}]]
    /\ links \in [Repo -> SUBSET Digest]
    /\ running \subseteq Job
    /\ stopped \in BOOLEAN
    /\ asked \subseteq Job
    /\ dropped \subseteq Digest
    /\ trouble \in 0 .. MaxTrouble

RunsOK == run \in [Proc -> Runs] /\ \A g \in Proc : RunInv(run[g], Kept)

\* The goroutine is past the check of runJob.
Active(g) == run[g].pc \notin {"idle", "start"}

ScheduleInv ==
    /\ \A g \in Proc : Active(g) => run[g].job \in running
    /\ \A g, h \in Proc : Active(g) /\ Active(h) /\ run[g].job = run[h].job => g = h
    /\ asked \cap running = {}

IInv == DataOK /\ RunsOK /\ ScheduleInv /\ TriggerNotLost /\ SyncedComplete

-----------------------------------------------------------------------------
(* Sets, sequences and goroutines *)

\* A set without two different elements has at most one.
LEMMA AtMostOne ==
    ASSUME NEW S, \A x, y \in S : x = y
    PROVE  Cardinality(S) <= 1
  <1>1. CASE S = {}
    BY <1>1, FS_EmptySet
  <1>2. ASSUME NEW x \in S PROVE Cardinality(S) <= 1
    <2>1. S = {x}
      OBVIOUS
    <2> QED
      BY <2>1, FS_Singleton
  <1> QED
    BY <1>1, <1>2

\* The bound is never passed.
LEMMA TroubleOK ==
    ASSUME trouble \in 0 .. MaxTrouble, Trouble \/ UNCHANGED trouble
    PROVE  trouble' \in 0 .. MaxTrouble
  BY ConstantsAssumption DEF Trouble

\* Goroutines before runJob.
LEMMA FreshOK ==
    ASSUME NEW kept
    PROVE  /\ Idle \in Runs /\ RunInv(Idle, kept)
           /\ \A j \in Job : Starting(j) \in Runs /\ RunInv(Starting(j), kept)
  <1>1. Idle \in Runs /\ Idle.pc = "idle" /\ Idle.calls = <<>>
    BY DEF Idle, Runs
  <1>2. RunInv(Idle, kept)
    BY <1>1 DEF RunInv
  <1>3. ASSUME NEW j \in Job PROVE Starting(j) \in Runs /\ RunInv(Starting(j), kept)
    <2>1. Starting(j) \in Runs /\ Starting(j).pc = "start" /\ Starting(j).calls = <<>>
          /\ Starting(j).job = j
      BY <1>1 DEF Starting, Runs
    <2> QED
      BY <2>1 DEF RunInv
  <1> QED
    BY <1>1, <1>2, <1>3

\* What a call relies on stays when the store lets go of nothing.
LEMMA CallKeeps ==
    ASSUME NEW c, NEW j, NEW kept, NEW more, kept \subseteq more, CallInv(c, j, kept)
    PROVE  CallInv(c, j, more)
  BY DEF CallInv

\* And so does what a goroutine relies on.
LEMMA RunKeeps ==
    ASSUME NEW r \in Runs, NEW kept, NEW more, kept \subseteq more, RunInv(r, kept)
    PROVE  RunInv(r, more)
  BY CallKeeps DEF RunInv

\* The call on top of the stack.
LEMMA TopOK ==
    ASSUME NEW r \in Runs, NEW kept, RunInv(r, kept), r.calls # <<>>
    PROVE  /\ Len(r.calls) \in 1 .. Len(r.calls)
           /\ r.calls[Len(r.calls)] \in Call
           /\ CallInv(r.calls[Len(r.calls)], r.job, kept)
           /\ r.pc = "tags" /\ r.repo \in Repo /\ r.job \in Job
  <1>1. r.calls \in Seq(Call)
    BY DEF Runs
  <1>2. Len(r.calls) \in 1 .. Len(r.calls)
    BY <1>1
  <1> QED
    BY <1>1, <1>2 DEF RunInv

\* The call on top goes on.
LEMMA BecomesOK ==
    ASSUME NEW r \in Runs, NEW kept, RunInv(r, kept), r.calls # <<>>,
           NEW c \in Call, CallInv(c, r.job, kept)
    PROVE  LET s == [r EXCEPT !.calls[Len(r.calls)] = c]
           IN  s \in Runs /\ RunInv(s, kept) /\ s.pc = r.pc /\ s.job = r.job
  <1> DEFINE cs == [r.calls EXCEPT ![Len(r.calls)] = c]
             s == [r EXCEPT !.calls = cs]
  <1>1. r.calls \in Seq(Call)
    BY DEF Runs
  <1>2. cs \in Seq(Call) /\ Len(cs) = Len(r.calls)
    BY <1>1
  <1>3. \A i \in 1 .. Len(cs) : cs[i] = c \/ cs[i] = r.calls[i]
    BY <1>1, <1>2
  <1>4. \A i \in 1 .. Len(cs) : CallInv(cs[i], r.job, kept)
    BY <1>2, <1>3 DEF RunInv
  <1> HIDE DEF cs
  <1>5. s \in Runs /\ s.pc = r.pc /\ s.job = r.job /\ s.repo = r.repo /\ s.calls = cs
    BY <1>2 DEF Runs
  <1>6. r.pc = "tags" /\ r.repo \in Repo /\ r.job \in Job
    BY TopOK
  <1>7. RunInv(s, kept)
    BY <1>4, <1>5, <1>6 DEF RunInv
  <1> QED
    BY <1>5, <1>7 DEF cs

\* The call on top returns.
LEMMA ReturnsOK ==
    ASSUME NEW r \in Runs, NEW kept, RunInv(r, kept), r.calls # <<>>
    PROVE  LET s == [r EXCEPT !.calls = SubSeq(@, 1, Len(@) - 1)]
           IN  s \in Runs /\ RunInv(s, kept) /\ s.pc = r.pc /\ s.job = r.job
  <1> DEFINE cs == SubSeq(r.calls, 1, Len(r.calls) - 1)
             s == [r EXCEPT !.calls = cs]
  <1>1. r.calls \in Seq(Call) /\ Len(r.calls) \in Nat \ {0}
    BY DEF Runs
  <1>2. cs \in Seq(Call) /\ Len(cs) = Len(r.calls) - 1
    BY <1>1
  <1>3. \A i \in 1 .. Len(cs) : i \in 1 .. Len(r.calls) /\ cs[i] = r.calls[i]
    BY <1>1, <1>2
  <1>4. \A i \in 1 .. Len(cs) : CallInv(cs[i], r.job, kept)
    BY <1>3 DEF RunInv
  <1> HIDE DEF cs
  <1>5. s \in Runs /\ s.pc = r.pc /\ s.job = r.job /\ s.repo = r.repo /\ s.calls = cs
    BY <1>2 DEF Runs
  <1>6. r.pc = "tags" /\ r.repo \in Repo /\ r.job \in Job
    BY TopOK
  <1>7. RunInv(s, kept)
    BY <1>4, <1>5, <1>6 DEF RunInv
  <1> QED
    BY <1>5, <1>7 DEF cs

\* The call on top calls another.
LEMMA AppendOK ==
    ASSUME NEW r \in Runs, NEW kept, RunInv(r, kept), r.pc = "tags",
           NEW c \in Call, CallInv(c, r.job, kept)
    PROVE  LET s == [r EXCEPT !.calls = Append(@, c)]
           IN  s \in Runs /\ RunInv(s, kept) /\ s.pc = r.pc /\ s.job = r.job
  <1> DEFINE cs == Append(r.calls, c)
             s == [r EXCEPT !.calls = cs]
  <1>1. r.calls \in Seq(Call)
    BY DEF Runs
  <1>2. cs \in Seq(Call) /\ Len(cs) = Len(r.calls) + 1
    BY <1>1
  <1>3. \A i \in 1 .. Len(cs) : cs[i] = c \/ (i \in 1 .. Len(r.calls) /\ cs[i] = r.calls[i])
    BY <1>1, <1>2
  <1>4. \A i \in 1 .. Len(cs) : CallInv(cs[i], r.job, kept)
    BY <1>3 DEF RunInv
  <1> HIDE DEF cs
  <1>5. s \in Runs /\ s.pc = r.pc /\ s.job = r.job /\ s.repo = r.repo /\ s.calls = cs
    BY <1>2 DEF Runs
  <1>6. RunInv(s, kept)
    BY <1>4, <1>5 DEF RunInv
  <1> QED
    BY <1>5, <1>6 DEF cs

-----------------------------------------------------------------------------
(* What kinds of steps there are *)

\* A step of one goroutine that stays within runJob, whatever it does to the stores:
\* the schedule stays as it is.
LEMMA ActiveStep ==
    ASSUME IInv, NEW g \in Proc, NEW r \in Runs, Set(g, r), RunInv(r, Kept'),
           Active(g), r.pc \notin {"idle", "start"}, r.job = run[g].job,
           UNCHANGED <<running, asked>>, DataOK', Kept \subseteq Kept', SyncedComplete'
    PROVE  IInv'
  <1>1. run \in [Proc -> Runs] /\ \A h \in Proc : RunInv(run[h], Kept)
    BY DEF IInv, RunsOK
  <1>2. run' \in [Proc -> Runs] /\ run'[g] = r /\ \A h \in Proc \ {g} : run'[h] = run[h]
    BY <1>1 DEF Set
  <1>3. ASSUME NEW h \in Proc PROVE RunInv(run'[h], Kept')
    BY <1>1, <1>2, RunKeeps
  <1>4. \A h \in Proc : Active(h)' = Active(h) /\ run'[h].job = run[h].job
    BY <1>2 DEF Active
  <1>5. ScheduleInv'
    BY <1>4 DEF IInv, ScheduleInv
  <1>6. TriggerNotLost'
    <2>1. ASSUME NEW j \in asked PROVE \E h \in Proc : run'[h] = Starting(j)
      <3>1. PICK h \in Proc : run[h] = Starting(j)
        BY DEF IInv, TriggerNotLost
      <3>2. run[h].pc = "start"
        BY <3>1 DEF Starting, Idle
      <3> QED
        BY <1>2, <3>1, <3>2 DEF Active
    <2> QED
      BY <2>1 DEF TriggerNotLost
  <1> QED
    BY <1>2, <1>3, <1>5, <1>6 DEF IInv, RunsOK

\* A step that no goroutine takes and that records nothing.
LEMMA QuietStep ==
    ASSUME IInv, UNCHANGED <<run, running, asked>>, DataOK', Kept \subseteq Kept',
           \A x \in Repo : records'[x] \subseteq records[x]
    PROVE  IInv'
  <1>1. RunsOK'
    BY RunKeeps DEF IInv, RunsOK
  <1>2. ScheduleInv' /\ TriggerNotLost'
    BY DEF IInv, ScheduleInv, TriggerNotLost, Active
  <1>3. SyncedComplete'
    BY DEF IInv, SyncedComplete, Kept
  <1> QED
    BY <1>1, <1>2, <1>3 DEF IInv

-----------------------------------------------------------------------------
(* The environment *)

\* Before the server runs.
LEMMA InitIInv == Init => IInv
  <1> SUFFICES ASSUME Init PROVE IInv
    OBVIOUS
  <1>1. DataOK
    <2>1. 0 \in 0 .. MaxTrouble
      BY ConstantsAssumption
    <2>2. upstream \in [Source -> [Repo -> [Tag -> Manifest]]]
      BY ConstantsAssumption DEF Init
    <2> QED
      BY <2>1, <2>2 DEF Init, DataOK
  <1>2. RunsOK
    BY FreshOK DEF Init, RunsOK
  <1>3. \A g \in Proc : ~ Active(g)
    <2>1. Idle.pc = "idle" /\ \A j \in Job : Starting(j).pc = "start"
      BY DEF Idle, Starting
    <2> QED
      BY <2>1 DEF Init, Active
  <1>4. ScheduleInv /\ TriggerNotLost /\ SyncedComplete
    BY <1>3 DEF Init, ScheduleInv, TriggerNotLost, SyncedComplete
  <1> QED
    BY <1>1, <1>2, <1>4 DEF IInv

\* A tag moves upstream.
LEMMA RetagIInv ==
    ASSUME IInv, NEW s \in Source, NEW r \in Repo, NEW t \in Tag, NEW m \in Manifest,
           Retag(s, r, t, m)
    PROVE  IInv'
  <1> USE DEF db, scheduler
  <1>1. trouble' \in 0 .. MaxTrouble
    BY TroubleOK DEF IInv, DataOK, Retag
  <1>2. DataOK'
    BY <1>1 DEF IInv, DataOK, Retag
  <1> QED
    BY <1>2, QuietStep DEF Retag, Kept

\* A client deletes a tag.
LEMMA DeleteManifestIInv ==
    ASSUME IInv, NEW r \in Repo, NEW t \in Tag, DeleteManifest(r, t)
    PROVE  IInv'
  <1> USE DEF scheduler
  <1>1. trouble' \in 0 .. MaxTrouble
    BY TroubleOK DEF IInv, DataOK, DeleteManifest
  <1>2. DataOK'
    BY <1>1 DEF IInv, DataOK, DeleteManifest
  <1>3. \A x \in Repo : records'[x] \subseteq records[x]
    BY DEF IInv, DataOK, DeleteManifest
  <1> QED
    BY <1>2, <1>3, QuietStep DEF DeleteManifest, Kept

\* A client deletes a blob.
LEMMA DeleteBlobIInv ==
    ASSUME IInv, NEW r \in Repo, NEW b \in Blob, DeleteBlob(r, b)
    PROVE  IInv'
  <1> USE DEF scheduler
  <1>1. trouble' \in 0 .. MaxTrouble
    BY TroubleOK DEF IInv, DataOK, DeleteBlob
  <1>2. DataOK'
    BY <1>1 DEF IInv, DataOK, DeleteBlob, Digest
  <1>3. Kept \subseteq Kept'
    BY DEF DeleteBlob, Kept
  <1> QED
    BY <1>2, <1>3, QuietStep DEF DeleteBlob

\* A run times out.
LEMMA ExpireIInv ==
    ASSUME IInv, NEW g \in Proc, Expire(g)
    PROVE  IInv'
  <1> USE DEF db
  <1> DEFINE r == [run[g] EXCEPT !.expired = TRUE]
  <1>1. run[g] \in Runs /\ RunInv(run[g], Kept)
    BY DEF IInv, RunsOK
  <1>2. r \in Runs /\ r.pc = run[g].pc /\ r.job = run[g].job /\ r.repo = run[g].repo
        /\ r.calls = run[g].calls
    BY <1>1 DEF Runs
  <1>3. RunInv(r, Kept')
    BY <1>1, <1>2 DEF RunInv, Expire, Kept
  <1>4. trouble' \in 0 .. MaxTrouble
    BY TroubleOK DEF IInv, DataOK, Expire
  <1>5. DataOK' /\ SyncedComplete' /\ Kept' = Kept
    BY <1>4 DEF IInv, DataOK, SyncedComplete, Expire, Kept
  <1> QED
    BY <1>2, <1>3, <1>5, ActiveStep DEF Expire, Active

\* Scheduler.Stop.
LEMMA StopIInv == ASSUME IInv, Stop PROVE IInv'
  <1> USE DEF db
  <1>1. DataOK'
    BY DEF IInv, DataOK, Stop
  <1> QED
    BY <1>1, QuietStep DEF Stop, Kept

\* The server crashes: runs and triggers are gone, what was stored is not.
LEMMA CrashIInv == ASSUME IInv, Crash PROVE IInv'
  <1> USE DEF db
  <1>1. trouble' \in 0 .. MaxTrouble
    BY TroubleOK DEF IInv, DataOK, Crash
  <1>2. DataOK' /\ SyncedComplete'
    BY <1>1 DEF IInv, DataOK, SyncedComplete, Crash
  <1>3. RunsOK'
    BY FreshOK DEF Crash, RunsOK
  <1>4. \A g \in Proc : ~ Active(g)'
    <2>1. Idle.pc = "idle" /\ \A j \in Job : Starting(j).pc = "start"
      BY DEF Idle, Starting
    <2> QED
      BY <2>1 DEF Crash, Active
  <1>5. ScheduleInv' /\ TriggerNotLost'
    BY <1>4 DEF Crash, ScheduleInv, TriggerNotLost
  <1> QED
    BY <1>2, <1>3, <1>5 DEF IInv

-----------------------------------------------------------------------------
(* The scheduler *)

\* A tick or a trigger starts a goroutine.  TriggerSync has seen that the job is not
\* running, so the goroutine will not find it running and give up.
LEMMA StartsIInv ==
    ASSUME IInv, NEW g \in Proc, NEW j \in Job, CheckJobs(j, g) \/ TriggerSync(j, g)
    PROVE  IInv'
  <1> USE DEF db
  <1>1. run \in [Proc -> Runs] /\ run[g] = Idle /\ run' = [run EXCEPT ![g] = Starting(j)]
    BY DEF CheckJobs, TriggerSync, Set, IInv, RunsOK
  <1>2. run'[g] = Starting(j) /\ \A h \in Proc \ {g} : run'[h] = run[h]
    BY <1>1
  <1>3. Idle.pc = "idle" /\ Starting(j).pc = "start" /\ \A k \in Job : Starting(k) # Idle
    BY DEF Idle, Starting
  <1>4. trouble' \in 0 .. MaxTrouble
    BY TroubleOK DEF IInv, DataOK, CheckJobs, TriggerSync
  <1>5. DataOK' /\ SyncedComplete'
    BY <1>4 DEF IInv, DataOK, SyncedComplete, CheckJobs, TriggerSync
  <1>6. RunsOK'
    <2>1. Kept' = Kept
      BY DEF CheckJobs, TriggerSync, Kept
    <2> QED
      BY <1>1, <1>2, <2>1, FreshOK DEF IInv, RunsOK
  <1>7. \A h \in Proc : Active(h)' = Active(h) /\ (Active(h) => run'[h] = run[h])
    BY <1>1, <1>2, <1>3 DEF Active
  <1>8. ScheduleInv'
    BY <1>7 DEF IInv, ScheduleInv, CheckJobs, TriggerSync
  <1>9. TriggerNotLost'
    <2>1. ASSUME NEW k \in asked' PROVE \E h \in Proc : run'[h] = Starting(k)
      <3>1. k = j \/ k \in asked
        BY DEF CheckJobs, TriggerSync
      <3>2. CASE k \in asked
        <4>1. PICK h \in Proc : run[h] = Starting(k)
          BY <3>2 DEF IInv, TriggerNotLost
        <4>2. k \in Job
          BY <3>2 DEF IInv, DataOK
        <4> QED
          BY <1>1, <1>2, <1>3, <4>1, <4>2
      <3> QED
        BY <1>2, <3>1, <3>2
    <2> QED
      BY <2>1 DEF TriggerNotLost
  <1> QED
    BY <1>5, <1>6, <1>8, <1>9 DEF IInv

\* runJob takes the job or gives up.
LEMMA RunJobIInv ==
    ASSUME IInv, NEW g \in Proc, RunJob(g)
    PROVE  IInv'
  <1> USE DEF db
  <1> DEFINE j == run[g].job
             r == [run[g] EXCEPT !.pc = "list"]
  <1>1. /\ run \in [Proc -> Runs] /\ \A h \in Proc : RunInv(run[h], Kept)
        /\ Kept' = Kept
    BY DEF IInv, RunsOK, RunJob, Kept
  <1>2. run[g] = Starting(j) /\ j \in Job /\ run[g].calls = <<>> /\ ~ Active(g)
    BY <1>1 DEF RunJob, RunInv, Active
  <1>3. DataOK' /\ SyncedComplete'
    BY <1>2 DEF IInv, DataOK, SyncedComplete, RunJob
  <1>4. \A k \in Job : Starting(k).job = k /\ Starting(k).pc = "start"
    BY DEF Starting, Idle
  <1>5. CASE j \in running
    <2>1. run' = [run EXCEPT ![g] = Idle] /\ UNCHANGED <<running, asked>>
      BY <1>5 DEF RunJob, Set
    <2>2. run'[g] = Idle /\ \A h \in Proc \ {g} : run'[h] = run[h]
      BY <1>1, <2>1
    <2>3. RunsOK'
      BY <1>1, <2>1, <2>2, FreshOK DEF RunsOK
    <2>4. ~ Active(g)' /\ \A h \in Proc \ {g} : Active(h)' = Active(h)
      BY <2>2 DEF Active, Idle
    <2>5. ScheduleInv'
      BY <2>1, <2>2, <2>4 DEF IInv, ScheduleInv
    <2>6. TriggerNotLost'
      <3>1. ASSUME NEW k \in asked PROVE \E h \in Proc : run'[h] = Starting(k)
        <4>1. PICK h \in Proc : run[h] = Starting(k)
          BY DEF IInv, TriggerNotLost
        <4>2. k # j /\ k \in Job
          BY <1>5 DEF IInv, ScheduleInv, DataOK
        <4>3. h # g
          BY <1>2, <1>4, <4>1, <4>2
        <4> QED
          BY <2>2, <4>1, <4>3
      <3> QED
        BY <2>1, <3>1 DEF TriggerNotLost
    <2> QED
      BY <1>3, <2>3, <2>5, <2>6 DEF IInv
  <1>6. CASE j \notin running
    <2>1. /\ run' = [run EXCEPT ![g] = r]
          /\ running' = running \cup {j} /\ asked' = asked \ {j}
      BY <1>6 DEF RunJob, Set
    <2>2. r \in Runs /\ r.pc = "list" /\ r.job = j /\ r.calls = <<>>
      BY <1>1, <1>2 DEF Runs
    <2>3. run'[g] = r /\ \A h \in Proc \ {g} : run'[h] = run[h]
      BY <1>1, <2>1
    <2>4. RunInv(r, Kept)
      BY <1>2, <2>2 DEF RunInv
    <2>5. RunsOK'
      BY <1>1, <2>1, <2>2, <2>3, <2>4 DEF RunsOK
    <2>6. /\ Active(g)' /\ run'[g].job = j
          /\ \A h \in Proc \ {g} : Active(h)' = Active(h) /\ run'[h].job = run[h].job
      BY <2>2, <2>3 DEF Active
    <2>7. \A h \in Proc : Active(h) => run[h].job # j
      BY <1>6 DEF IInv, ScheduleInv
    <2>8. ScheduleInv'
      BY <2>1, <2>6, <2>7 DEF IInv, ScheduleInv
    <2>9. TriggerNotLost'
      <3>1. ASSUME NEW k \in asked \ {j} PROVE \E h \in Proc : run'[h] = Starting(k)
        <4>1. PICK h \in Proc : run[h] = Starting(k)
          BY DEF IInv, TriggerNotLost
        <4>2. k \in Job
          BY DEF IInv, DataOK
        <4>3. h # g
          BY <1>2, <1>4, <4>1, <4>2
        <4> QED
          BY <2>3, <4>1, <4>3
      <3> QED
        BY <2>1, <3>1 DEF TriggerNotLost
    <2> QED
      BY <1>3, <2>5, <2>8, <2>9 DEF IInv
  <1> QED
    BY <1>5, <1>6

\* The end of a run.
LEMMA RunJob_ReturnIInv ==
    ASSUME IInv, NEW g \in Proc, RunJob_Return(g)
    PROVE  IInv'
  <1> USE DEF db
  <1>1. /\ run \in [Proc -> Runs] /\ \A h \in Proc : RunInv(run[h], Kept)
        /\ Kept' = Kept /\ Active(g)
    BY DEF IInv, RunsOK, RunJob_Return, Kept, Active
  <1>2. run'[g] = Idle /\ run' \in [Proc -> Runs] /\ \A h \in Proc \ {g} : run'[h] = run[h]
    BY <1>1, FreshOK DEF RunJob_Return, Set
  <1>3. DataOK' /\ SyncedComplete'
    BY DEF IInv, DataOK, SyncedComplete, RunJob_Return
  <1>4. RunsOK'
    BY <1>1, <1>2, FreshOK DEF RunsOK
  <1>5. ~ Active(g)' /\ \A h \in Proc \ {g} : Active(h)' = Active(h)
    BY <1>2 DEF Active, Idle
  <1>6. ScheduleInv'
    BY <1>1, <1>2, <1>5 DEF IInv, ScheduleInv, RunJob_Return
  <1>7. TriggerNotLost'
    <2>1. ASSUME NEW k \in asked PROVE \E h \in Proc : run'[h] = Starting(k)
      <3>1. PICK h \in Proc : run[h] = Starting(k)
        BY DEF IInv, TriggerNotLost
      <3>2. h # g
        BY <1>1, <3>1 DEF Active, Starting, Idle
      <3> QED
        BY <1>2, <3>1, <3>2
    <2> QED
      BY <2>1 DEF TriggerNotLost, RunJob_Return
  <1> QED
    BY <1>3, <1>4, <1>6, <1>7 DEF IInv

\* A request answers or fails: only the bound can change.
LEMMA RequestOK ==
    ASSUME trouble \in 0 .. MaxTrouble, NEW g \in Proc, Answers(g) \/ RequestFails(g)
    PROVE  trouble' \in 0 .. MaxTrouble
  BY TroubleOK DEF Answers, RequestFails

\* A step of one goroutine within runJob that leaves the stores alone.
LEMMA LocalStep ==
    ASSUME IInv, NEW g \in Proc, NEW r \in Runs, Set(g, r), RunInv(r, Kept),
           Active(g), r.pc \notin {"idle", "start"}, r.job = run[g].job,
           UNCHANGED <<upstream, stored, db, running, stopped, asked, dropped>>,
           trouble' \in 0 .. MaxTrouble
    PROVE  IInv'
  <1>1. DataOK' /\ SyncedComplete' /\ Kept' = Kept
    BY DEF IInv, DataOK, SyncedComplete, db, Kept
  <1>2. UNCHANGED <<running, asked>> /\ Kept \subseteq Kept' /\ RunInv(r, Kept')
    BY <1>1
  <1> QED
    BY <1>1, <1>2, ActiveStep

\* The repositories, and the tags of one.
LEMMA ListsIInv ==
    ASSUME IInv, NEW g \in Proc,
           \/ ListRepositories_Registry(g) \/ ListRepositories_Quay(g)
           \/ \E r \in Repo : SyncRepository(g, r)
           \/ SyncRepository_Return(g) \/ RunJob_Done(g)
    PROVE  IInv'
  <1>1. run[g] \in Runs /\ RunInv(run[g], Kept) /\ trouble \in 0 .. MaxTrouble
    BY DEF IInv, RunsOK, DataOK
  <1>2. /\ UNCHANGED <<upstream, stored, db, running, stopped, asked, dropped>>
        /\ Active(g) /\ trouble' \in 0 .. MaxTrouble
    BY <1>1, RequestOK
      DEF ListRepositories_Registry, ListRepositories_Quay, SyncRepository,
          SyncRepository_Return, RunJob_Done, Active
  <1>3. run[g].calls = <<>> /\ run[g].job \in Job
    BY <1>1
      DEF ListRepositories_Registry, ListRepositories_Quay, SyncRepository,
          SyncRepository_Return, RunJob_Done, RunInv
  <1>4. ASSUME NEW r \in Runs, Set(g, r), r.pc \in {"repos", "done"} \/
                   (r.pc = "tags" /\ r.repo \in Repo),
               r.job = run[g].job, r.calls = <<>>
        PROVE  IInv'
    <2>1. RunInv(r, Kept) /\ r.pc \notin {"idle", "start"}
      BY <1>3, <1>4 DEF RunInv
    <2> QED
      BY <1>2, <1>4, <2>1, LocalStep
  <1>5. ASSUME NEW rs \in SUBSET Repo,
               Set(g, [run[g] EXCEPT !.pc = "repos", !.repos = rs])
        PROVE  IInv'
    BY <1>1, <1>3, <1>4, <1>5 DEF Runs
  <1>6. ASSUME Set(g, [run[g] EXCEPT !.pc = "done"]) PROVE IInv'
    BY <1>1, <1>3, <1>4, <1>6 DEF Runs
  <1>7. ASSUME NEW r \in Repo, SyncRepository(g, r) PROVE IInv'
    <2> DEFINE j == run[g].job
               listed == [run[g] EXCEPT !.repos = @ \ {r}]
               s == [listed EXCEPT !.pc = "tags", !.repo = r,
                       !.tags = ListTags(j), !.wants = ManifestDigests(j, r)]
    <2>1. listed \in Runs /\ listed.pc = "repos" /\ listed.job = run[g].job
          /\ listed.calls = <<>>
      BY <1>1, <1>3, <1>7 DEF Runs, SyncRepository
    <2>2. ManifestDigests(j, r) \in {<<>>} \cup [Tag -> Manifest]
      BY <1>3, ConstantsAssumption DEF ManifestDigests, IInv, DataOK
    <2>3. ListTags(j) \in SUBSET Tag
      BY <1>3, ConstantsAssumption DEF ListTags
    <2>4. s \in Runs /\ s.pc = "tags" /\ s.repo \in Repo /\ s.job = run[g].job
          /\ s.calls = <<>>
      <3> HIDE DEF listed
      <3> QED
        BY <2>1, <2>2, <2>3 DEF Runs
    <2>5. Set(g, listed) \/ Set(g, s)
      BY <1>7 DEF SyncRepository
    <2> HIDE DEF listed, s
    <2> QED
      BY <1>4, <2>1, <2>4, <2>5
  <1>8. CASE SyncRepository_Return(g)
    <2> DEFINE s == [run[g] EXCEPT !.pc = "repos", !.repo = None, !.tags = {},
                                    !.wants = <<>>]
    <2>1. s \in Runs /\ s.pc = "repos" /\ s.job = run[g].job /\ s.calls = <<>>
      BY <1>1, <1>3 DEF Runs
    <2> QED
      BY <1>4, <1>8, <2>1 DEF SyncRepository_Return
  <1>9. CASE ListRepositories_Quay(g)
    <2>1. \A rs \in SUBSET FirstRepos : rs \in SUBSET Repo
      BY ConstantsAssumption
    <2> QED
      BY <1>5, <1>9, <2>1 DEF ListRepositories_Quay
  <1> QED
    BY <1>5, <1>6, <1>7, <1>8, <1>9 DEF ListRepositories_Registry, RunJob_Done

-----------------------------------------------------------------------------
(* syncTag *)

\* A call that begins.
LEMMA NewCallOK ==
    ASSUME NEW g, NEW ref \in Tag \cup Manifest, NEW want \in Manifest \cup {None},
           NEW kept
    PROVE  NewCall(g, ref, want) \in Call /\ CallInv(NewCall(g, ref, want), run[g].job, kept)
  BY DEF NewCall, Call, CallInv

\* The next tag of a repository.
LEMMA SyncRepository_TagIInv ==
    ASSUME IInv, NEW g \in Proc, NEW t \in Tag, SyncRepository_Tag(g, t)
    PROVE  IInv'
  <1> DEFINE want == IF run[g].wants = <<>> THEN None ELSE run[g].wants[t]
             c == NewCall(g, t, want)
             s == [run[g] EXCEPT !.tags = @ \ {t}, !.calls = <<c>>]
  <1>1. run[g] \in Runs /\ RunInv(run[g], Kept) /\ trouble \in 0 .. MaxTrouble
    BY DEF IInv, RunsOK, DataOK
  <1>2. want \in Manifest \cup {None}
    BY <1>1 DEF Runs
  <1>3. c \in Call /\ CallInv(c, run[g].job, Kept)
    BY <1>2, NewCallOK
  <1> HIDE DEF want, c
  <1>4. <<c>> \in Seq(Call) /\ Len(<<c>>) = 1 /\ \A i \in 1 .. 1 : <<c>>[i] = c
    BY <1>3
  <1>5. s \in Runs /\ s.pc = "tags" /\ s.job = run[g].job /\ s.repo = run[g].repo
        /\ s.calls = <<c>>
    BY <1>1, <1>4 DEF Runs, SyncRepository_Tag
  <1>6. RunInv(s, Kept)
    BY <1>1, <1>3, <1>4, <1>5 DEF RunInv, SyncRepository_Tag
  <1> HIDE DEF s
  <1>7. Set(g, s)
    BY DEF SyncRepository_Tag, s, c, want
  <1> QED
    BY <1>1, <1>5, <1>6, <1>7, LocalStep DEF SyncRepository_Tag, Active

\* A step of the call on top that leaves the stores alone: it goes on as c.
LEMMA CallStep ==
    ASSUME IInv, NEW g \in Proc, run[g].calls # <<>>,
           NEW c \in Call, CallInv(c, run[g].job, Kept), Becomes(g, c),
           UNCHANGED <<upstream, stored, db, running, stopped, asked, dropped>>,
           trouble' \in 0 .. MaxTrouble
    PROVE  IInv'
  <1> DEFINE s == [run[g] EXCEPT !.calls[Len(run[g].calls)] = c]
  <1>1. run[g] \in Runs /\ RunInv(run[g], Kept)
    BY DEF IInv, RunsOK
  <1>2. s \in Runs /\ RunInv(s, Kept) /\ s.pc = run[g].pc /\ s.job = run[g].job
    BY <1>1, BecomesOK
  <1>3. run[g].pc = "tags" /\ Set(g, s)
    BY <1>1, TopOK DEF Becomes
  <1> HIDE DEF s
  <1> QED
    BY <1>2, <1>3, LocalStep DEF Active

\* The call on top returns, with or without an error, and leaves the stores alone.
LEMMA ReturnStep ==
    ASSUME IInv, NEW g \in Proc, run[g].calls # <<>>, Returns(g),
           UNCHANGED <<upstream, stored, db, running, stopped, asked, dropped>>,
           trouble' \in 0 .. MaxTrouble
    PROVE  IInv'
  <1> DEFINE s == [run[g] EXCEPT !.calls = SubSeq(@, 1, Len(@) - 1)]
  <1>1. run[g] \in Runs /\ RunInv(run[g], Kept)
    BY DEF IInv, RunsOK
  <1>2. s \in Runs /\ RunInv(s, Kept) /\ s.pc = run[g].pc /\ s.job = run[g].job
    BY <1>1, ReturnsOK
  <1>3. run[g].pc = "tags" /\ Set(g, s)
    BY <1>1, TopOK DEF Returns
  <1> HIDE DEF s
  <1> QED
    BY <1>2, <1>3, LocalStep DEF Active

\* The manifest is fetched.
LEMMA FetchManifestIInv ==
    ASSUME IInv, NEW g \in Proc, FetchManifest(g)
    PROVE  IInv'
  <1> DEFINE next == IF Type[run[g].job] = "quay" THEN "config" ELSE "exists"
             c == [Top(g) EXCEPT !.pc = next, !.dgst = Fetched(g)]
  <1>1. /\ run[g] \in Runs /\ RunInv(run[g], Kept) /\ trouble \in 0 .. MaxTrouble
        /\ run[g].calls # <<>>
    BY DEF IInv, RunsOK, DataOK, FetchManifest, InCall
  <1>2. Top(g) \in Call /\ run[g].repo \in Repo
    BY <1>1, TopOK DEF Top
  <1>3. trouble' \in 0 .. MaxTrouble
    BY <1>1, RequestOK DEF FetchManifest
  <1>4. Fetched(g) \in Manifest
    <2>1. Top(g).ref \in Tag \cup Manifest
      BY <1>2 DEF Call
    <2>2. run[g].job \in Job
      BY <1>1 DEF RunInv
    <2>3. SourceOf[run[g].job] \in Source
      BY <2>2, ConstantsAssumption
    <2> QED
      BY <1>2, <2>1, <2>3 DEF Fetched, IInv, DataOK
  <1>5. c \in Call /\ CallInv(c, run[g].job, Kept)
    <2>1. c \in Call /\ c.pc = next /\ c.dgst \in Manifest
      BY <1>2, <1>4 DEF Call
    <2> QED
      BY <2>1 DEF CallInv
  <1> QED
    BY <1>1, <1>3, <1>5, CallStep, ReturnStep DEF FetchManifest

\* "Already up to date", or the call goes on.
LEMMA ExistsIInv ==
    ASSUME IInv, NEW g \in Proc, Exists(g)
    PROVE  IInv'
  <1> DEFINE fetch == [Top(g) EXCEPT !.pc = "fetch"]
             children == [Top(g) EXCEPT !.pc = "children", !.todo = ChildrenOf[Top(g).dgst]]
  <1>1. /\ run[g] \in Runs /\ RunInv(run[g], Kept) /\ trouble' \in 0 .. MaxTrouble
        /\ run[g].calls # <<>> /\ Top(g).pc = "exists"
    BY DEF IInv, RunsOK, DataOK, Exists, InCall
  <1>2. Top(g) \in Call /\ CallInv(Top(g), run[g].job, Kept)
    BY <1>1, TopOK DEF Top
  <1>3. fetch \in Call /\ CallInv(fetch, run[g].job, Kept)
    BY <1>2 DEF Call, CallInv
  <1>4. ASSUME Type[run[g].job] # "quay"
        PROVE  children \in Call /\ CallInv(children, run[g].job, Kept)
    <2>1. Top(g).dgst \in Manifest
      BY <1>1, <1>2, <1>4 DEF CallInv
    <2>2. ChildrenOf[Top(g).dgst] \in SUBSET Manifest
      BY <2>1, ConstantsAssumption
    <2>3. children \in Call /\ children.pc = "children" /\ children.dgst = Top(g).dgst
          /\ children.todo \subseteq Manifest
      BY <1>2, <2>2 DEF Call, Digest
    <2> QED
      BY <2>1, <2>3 DEF CallInv
  <1> HIDE DEF fetch, children
  <1>5. \/ Returns(g) \/ Becomes(g, fetch)
        \/ Type[run[g].job] # "quay" /\ Becomes(g, children)
    BY DEF Exists, fetch, children
  <1> QED
    BY <1>1, <1>3, <1>4, <1>5, CallStep, ReturnStep DEF Exists

\* A child of an index is called for, or all were.
LEMMA SyncTag_ChildIInv ==
    ASSUME IInv, NEW g \in Proc, SyncTag_Child(g)
    PROVE  IInv'
  <1>1. /\ run[g] \in Runs /\ RunInv(run[g], Kept) /\ trouble' \in 0 .. MaxTrouble
        /\ run[g].calls # <<>> /\ Top(g).pc = "children"
    BY DEF IInv, RunsOK, DataOK, SyncTag_Child, InCall
  <1>2. Top(g) \in Call /\ CallInv(Top(g), run[g].job, Kept) /\ run[g].pc = "tags"
    BY <1>1, TopOK DEF Top
  <1>3. CASE Becomes(g, [Top(g) EXCEPT !.pc = "config"])
    <2>1. /\ [Top(g) EXCEPT !.pc = "config"] \in Call
          /\ CallInv([Top(g) EXCEPT !.pc = "config"], run[g].job, Kept)
      BY <1>1, <1>2 DEF Call, CallInv
    <2> QED
      BY <1>1, <1>3, <2>1, CallStep DEF SyncTag_Child
  <1>4. ASSUME NEW m \in Top(g).todo,
               Set(g, [run[g] EXCEPT
                         !.calls = Append([@ EXCEPT ![Len(@)].todo = Top(g).todo \ {m}],
                                          NewCall(g, m, None))])
        PROVE  IInv'
    <2> DEFINE c == [Top(g) EXCEPT !.todo = Top(g).todo \ {m}]
               r == [run[g] EXCEPT !.calls[Len(run[g].calls)] = c]
               s == [r EXCEPT !.calls = Append(@, NewCall(g, m, None))]
    <2>1. m \in Manifest
      BY <1>1, <1>2 DEF CallInv
    <2>2. c \in Call /\ CallInv(c, run[g].job, Kept)
      BY <1>1, <1>2 DEF Call, CallInv
    <2> HIDE DEF c
    <2>3. r \in Runs /\ RunInv(r, Kept) /\ r.pc = "tags" /\ r.job = run[g].job
      BY <1>1, <1>2, <2>2, BecomesOK
    <2>4. NewCall(g, m, None) \in Call /\ CallInv(NewCall(g, m, None), run[g].job, Kept)
      BY <2>1, NewCallOK
    <2> HIDE DEF r
    <2>5. s \in Runs /\ RunInv(s, Kept) /\ s.pc = "tags" /\ s.job = run[g].job
      BY <2>3, <2>4, AppendOK
    <2>6. s = [run[g] EXCEPT
                 !.calls = Append([@ EXCEPT ![Len(@)].todo = Top(g).todo \ {m}],
                                  NewCall(g, m, None))]
      <3>1. r.calls = [run[g].calls EXCEPT ![Len(run[g].calls)].todo = Top(g).todo \ {m}]
        BY <1>1 DEF r, c, Top, Runs
      <3>2. \A x : [r EXCEPT !.calls = x] = [run[g] EXCEPT !.calls = x]
        BY <1>1 DEF r, Runs
      <3> QED
        BY <3>1, <3>2
    <2> HIDE DEF s
    <2> QED
      BY <1>1, <1>2, <1>4, <2>5, <2>6, LocalStep DEF SyncTag_Child, Active
  <1> QED
    BY <1>3, <1>4 DEF SyncTag_Child

\* A step of the call on top that leaves the records alone and may store d: the call
\* goes on as c.
LEMMA StoreStep ==
    ASSUME IInv, NEW g \in Proc, run[g].calls # <<>>,
           NEW c \in Call, CallInv(c, run[g].job, Kept'), Becomes(g, c),
           NEW d \in Digest, Stores(d),
           UNCHANGED <<upstream, db, running, stopped, asked>>,
           trouble' \in 0 .. MaxTrouble
    PROVE  IInv'
  <1> DEFINE s == [run[g] EXCEPT !.calls[Len(run[g].calls)] = c]
  <1>1. run[g] \in Runs /\ RunInv(run[g], Kept)
    BY DEF IInv, RunsOK
  <1>2. Kept \subseteq Kept'
    BY DEF Stores, Kept
  <1>3. RunInv(run[g], Kept')
    BY <1>1, <1>2, RunKeeps
  <1>4. s \in Runs /\ RunInv(s, Kept') /\ s.pc = run[g].pc /\ s.job = run[g].job
    BY <1>1, <1>3, BecomesOK
  <1>5. run[g].pc = "tags" /\ Set(g, s)
    BY <1>1, TopOK DEF Becomes
  <1>6. DataOK' /\ SyncedComplete'
    BY <1>2 DEF IInv, DataOK, SyncedComplete, Stores, db, Kept
  <1> HIDE DEF s
  <1>7. UNCHANGED <<running, asked>>
    OBVIOUS
  <1> QED
    BY <1>2, <1>4, <1>5, <1>6, <1>7, ActiveStep DEF Active

\* The config is there, is stored, or ends the call.
LEMMA SyncTag_ConfigIInv ==
    ASSUME IInv, NEW g \in Proc, SyncTag_Config(g)
    PROVE  IInv'
  <1> DEFINE b == ConfigOf[Top(g).dgst]
             c == [Top(g) EXCEPT !.pc = "layers", !.todo = LayersOf[Top(g).dgst]]
  <1>1. /\ run[g] \in Runs /\ RunInv(run[g], Kept) /\ trouble \in 0 .. MaxTrouble
        /\ run[g].calls # <<>> /\ Top(g).pc = "config"
    BY DEF IInv, RunsOK, DataOK, SyncTag_Config, InCall
  <1>2. Top(g) \in Call /\ Top(g).dgst \in Manifest
    BY <1>1, TopOK DEF Top, CallInv
  <1>3. b \in Blob \cup {None} /\ LayersOf[Top(g).dgst] \in SUBSET Blob
    BY <1>2, ConstantsAssumption
  <1>4. c \in Call /\ c.pc = "layers" /\ c.dgst = Top(g).dgst
        /\ c.todo = LayersOf[Top(g).dgst]
    BY <1>2, <1>3 DEF Call, Digest
  <1>5. \A kept : {b} \ {None} \subseteq kept => CallInv(c, run[g].job, kept)
    BY <1>2, <1>4 DEF CallInv
  <1> HIDE DEF c
  <1>6. CASE (b = None \/ b \in stored) /\ Becomes(g, c)
             /\ UNCHANGED <<stored, dropped, trouble>>
    <2>1. {b} \ {None} \subseteq Kept
      BY <1>6 DEF Kept
    <2>2. UNCHANGED <<upstream, stored, db, running, stopped, asked, dropped>>
      BY <1>6 DEF SyncTag_Config
    <2> QED
      BY <1>1, <1>4, <1>5, <1>6, <2>1, <2>2, CallStep
  <1>7. CASE b \notin stored \cup {None} /\ Answers(g) /\ Stores(b) /\ Becomes(g, c)
    <2>1. {b} \ {None} \subseteq Kept' /\ b \in Digest
      BY <1>3, <1>7 DEF Kept, Stores, Digest
    <2>2. /\ UNCHANGED <<upstream, db, running, stopped, asked>>
          /\ trouble' \in 0 .. MaxTrouble
      BY <1>1, <1>7, RequestOK DEF SyncTag_Config
    <2> QED
      BY <1>1, <1>4, <1>5, <1>7, <2>1, <2>2, StoreStep
  <1>8. CASE RequestFails(g) /\ Returns(g) /\ UNCHANGED <<stored, dropped>>
    <2>1. /\ UNCHANGED <<upstream, stored, db, running, stopped, asked, dropped>>
          /\ trouble' \in 0 .. MaxTrouble
      BY <1>1, <1>8, RequestOK DEF SyncTag_Config
    <2> QED
      BY <1>1, <1>8, <2>1, ReturnStep
  <1> QED
    BY <1>6, <1>7, <1>8 DEF SyncTag_Config, c

\* A layer is there, is stored, or fails and marks the call.
LEMMA SyncTag_LayerIInv ==
    ASSUME IInv, NEW g \in Proc, NEW b \in Blob, SyncTag_Layer(g, b)
    PROVE  IInv'
  <1> DEFINE c == [Top(g) EXCEPT !.todo = @ \ {b}]
             bad == [c EXCEPT !.ok = FALSE]
  <1>1. /\ run[g] \in Runs /\ RunInv(run[g], Kept) /\ trouble \in 0 .. MaxTrouble
        /\ run[g].calls # <<>> /\ Top(g).pc = "layers"
    BY DEF IInv, RunsOK, DataOK, SyncTag_Layer, InCall
  <1>2. Top(g) \in Call /\ CallInv(Top(g), run[g].job, Kept)
    BY <1>1, TopOK DEF Top
  <1>3. c \in Call /\ c.pc = "layers" /\ c.dgst = Top(g).dgst /\ c.ok = Top(g).ok
        /\ c.todo = Top(g).todo \ {b}
    BY <1>1, <1>2 DEF Call
  <1>4. \A kept : Kept \subseteq kept /\ b \in kept => CallInv(c, run[g].job, kept)
    BY <1>1, <1>2, <1>3 DEF CallInv
  <1>5. bad \in Call /\ CallInv(bad, run[g].job, Kept)
    BY <1>1, <1>2 DEF CallInv, Call
  <1> HIDE DEF c, bad
  <1>6. CASE b \in stored /\ Becomes(g, c) /\ UNCHANGED <<stored, dropped, trouble>>
    <2>1. CallInv(c, run[g].job, Kept)
      BY <1>4, <1>6 DEF Kept
    <2>2. UNCHANGED <<upstream, stored, db, running, stopped, asked, dropped>>
      BY <1>6 DEF SyncTag_Layer
    <2> QED
      BY <1>1, <1>3, <1>6, <2>1, <2>2, CallStep
  <1>7. CASE Answers(g) /\ Stores(b) /\ Becomes(g, c)
    <2>1. CallInv(c, run[g].job, Kept') /\ b \in Digest
      BY <1>4, <1>7 DEF Kept, Stores, Digest
    <2>2. /\ UNCHANGED <<upstream, db, running, stopped, asked>>
          /\ trouble' \in 0 .. MaxTrouble
      BY <1>1, <1>7, RequestOK DEF SyncTag_Layer
    <2> QED
      BY <1>1, <1>3, <1>7, <2>1, <2>2, StoreStep
  <1>8. CASE RequestFails(g) /\ Becomes(g, bad) /\ UNCHANGED <<stored, dropped>>
    <2>1. /\ UNCHANGED <<upstream, stored, db, running, stopped, asked, dropped>>
          /\ trouble' \in 0 .. MaxTrouble
      BY <1>1, <1>8, RequestOK DEF SyncTag_Layer
    <2> QED
      BY <1>1, <1>5, <1>8, <2>1, CallStep
  <1> QED
    BY <1>6, <1>7, <1>8 DEF SyncTag_Layer, c, bad

\* All layers are done and none failed: with the manifest, everything is there.
LEMMA SyncTag_StoreIInv ==
    ASSUME IInv, NEW g \in Proc, SyncTag_Store(g)
    PROVE  IInv'
  <1> DEFINE c == [Top(g) EXCEPT !.pc = "put"]
  <1>1. /\ run[g] \in Runs /\ RunInv(run[g], Kept) /\ trouble' \in 0 .. MaxTrouble
        /\ run[g].calls # <<>> /\ Top(g).pc = "layers" /\ Top(g).todo = {}
    BY DEF IInv, RunsOK, DataOK, SyncTag_Store, InCall
  <1>2. Top(g) \in Call /\ CallInv(Top(g), run[g].job, Kept)
    BY <1>1, TopOK DEF Top
  <1>3. CASE Top(g).ok
    <2>1. Stores(Top(g).dgst) /\ Becomes(g, c)
      BY <1>3 DEF SyncTag_Store
    <2>2. /\ Top(g).dgst \in Manifest
          /\ LayersOf[Top(g).dgst] \cup ({ConfigOf[Top(g).dgst]} \ {None}) \subseteq Kept
      BY <1>1, <1>2, <1>3 DEF CallInv
    <2>3. Parts(Top(g).dgst) \subseteq Kept'
      BY <2>1, <2>2 DEF Parts, Kept, Stores
    <2>4. c \in Call /\ c.pc = "put" /\ c.dgst = Top(g).dgst
      BY <1>2 DEF Call
    <2> HIDE DEF c
    <2>5. CallInv(c, run[g].job, Kept')
      BY <2>2, <2>3, <2>4 DEF CallInv
    <2>6. UNCHANGED <<upstream, db, running, stopped, asked>> /\ Top(g).dgst \in Digest
      BY <2>2 DEF SyncTag_Store, Digest
    <2> QED
      BY <1>1, <2>1, <2>4, <2>5, <2>6, StoreStep
  <1>4. CASE ~ Top(g).ok
    BY <1>1, <1>4, ReturnStep DEF SyncTag_Store
  <1> QED
    BY <1>3, <1>4

\* The record is written with everything it names behind it.
LEMMA PutManifestIInv ==
    ASSUME IInv, NEW g \in Proc, PutManifest(g)
    PROVE  IInv'
  <1> DEFINE c == [Top(g) EXCEPT !.pc = "link"]
             s == [run[g] EXCEPT !.calls[Len(run[g].calls)] = c]
             m == Top(g).dgst
             r == run[g].repo
  <1>1. /\ run[g] \in Runs /\ RunInv(run[g], Kept)
        /\ run[g].calls # <<>> /\ Top(g).pc = "put"
    BY DEF IInv, RunsOK, PutManifest, InCall
  <1>2. /\ Top(g) \in Call /\ CallInv(Top(g), run[g].job, Kept)
        /\ run[g].pc = "tags" /\ r \in Repo
    BY <1>1, TopOK DEF Top
  <1>3. m \in Manifest /\ Parts(m) \subseteq Kept
    BY <1>1, <1>2 DEF CallInv
  <1>4. c \in Call /\ CallInv(c, run[g].job, Kept)
    BY <1>1, <1>2 DEF Call, CallInv
  <1>5. s \in Runs /\ RunInv(s, Kept) /\ s.pc = "tags" /\ s.job = run[g].job
    <2> HIDE DEF c
    <2> QED
      BY <1>1, <1>2, <1>4, BecomesOK
  <1>6. Set(g, s)
    BY DEF PutManifest, Becomes
  <1> HIDE DEF s
  <1>7. UNCHANGED <<upstream, stored, links, running, stopped, asked, dropped, trouble>>
        /\ Kept' = Kept
    BY DEF PutManifest, Kept
  <1>8. /\ records' \in [Repo -> SUBSET Manifest]
        /\ \A x \in Repo : records'[x] \subseteq records[x] \cup {m}
        /\ r \in Repo => \A x \in Repo \ {r} : records'[x] = records[x]
    BY <1>2, <1>3 DEF PutManifest, IInv, DataOK
  <1>9. tags' \in [Repo -> [Tag -> Manifest \cup {None}]]
    BY <1>2, <1>3 DEF PutManifest, IInv, DataOK
  <1>10. DataOK'
    BY <1>7, <1>8, <1>9 DEF IInv, DataOK
  <1>11. SyncedComplete'
    BY <1>3, <1>7, <1>8 DEF IInv, SyncedComplete, Kept, Parts
  <1> QED
    BY <1>2, <1>5, <1>6, <1>7, <1>10, <1>11, ActiveStep DEF Active

\* The links, and the end of the call.
LEMMA LinkBlobsIInv ==
    ASSUME IInv, NEW g \in Proc, LinkBlobs(g)
    PROVE  IInv'
  <1> DEFINE s == [run[g] EXCEPT !.calls = SubSeq(@, 1, Len(@) - 1)]
             m == Top(g).dgst
  <1>1. /\ run[g] \in Runs /\ RunInv(run[g], Kept)
        /\ run[g].calls # <<>> /\ Top(g).pc = "link"
    BY DEF IInv, RunsOK, LinkBlobs, InCall
  <1>2. /\ CallInv(Top(g), run[g].job, Kept)
        /\ run[g].pc = "tags" /\ run[g].repo \in Repo
    BY <1>1, TopOK DEF Top
  <1>3. m \in Manifest
    BY <1>1, <1>2 DEF CallInv
  <1>4. {m} \cup LayersOf[m] \cup ({ConfigOf[m]} \ {None}) \subseteq Digest
    BY <1>3, ConstantsAssumption DEF Digest
  <1>5. s \in Runs /\ RunInv(s, Kept) /\ s.pc = "tags" /\ s.job = run[g].job
    BY <1>1, <1>2, ReturnsOK
  <1>6. Set(g, s)
    BY DEF LinkBlobs, Returns
  <1> HIDE DEF s
  <1>7. UNCHANGED <<upstream, stored, records, tags, running, stopped, asked, dropped,
                    trouble>> /\ Kept' = Kept
    BY DEF LinkBlobs, Kept
  <1>8. links' \in [Repo -> SUBSET Digest]
    BY <1>2, <1>4 DEF LinkBlobs, IInv, DataOK
  <1>9. DataOK' /\ SyncedComplete'
    BY <1>7, <1>8 DEF IInv, DataOK, SyncedComplete
  <1> QED
    BY <1>2, <1>5, <1>6, <1>7, <1>9, ActiveStep DEF Active

-----------------------------------------------------------------------------
(* Theorems *)

\* The invariant holds in every state.
LEMMA Invariance == Spec => []IInv
  <1>1. IInv /\ [Next]_vars => IInv'
    <2> SUFFICES ASSUME IInv, [Next]_vars PROVE IInv'
      OBVIOUS
    <2>1. CASE UNCHANGED vars
      <3>1. DataOK' /\ UNCHANGED <<run, running, asked, records>> /\ Kept' = Kept
        BY <2>1 DEF vars, db, scheduler, IInv, DataOK, Kept
      <3> QED
        BY <3>1, QuietStep
    <2>2. CASE Environment
      BY <2>2, RetagIInv, DeleteManifestIInv, DeleteBlobIInv, ExpireIInv, StopIInv,
         CrashIInv DEF Environment
    <2>3. ASSUME NEW g \in Proc, SyncTag(g) PROVE IInv'
      BY <2>3, FetchManifestIInv, ExistsIInv, SyncTag_ChildIInv, SyncTag_ConfigIInv,
         SyncTag_LayerIInv, SyncTag_StoreIInv, PutManifestIInv, LinkBlobsIInv DEF SyncTag
    <2>4. ASSUME NEW g \in Proc, Step(g) PROVE IInv'
      BY <2>3, <2>4, RunJobIInv, ListsIInv, SyncRepository_TagIInv, RunJob_ReturnIInv
        DEF Step
    <2> QED
      BY <2>1, <2>2, <2>4, StartsIInv DEF Next, Tick
  <1> QED
    BY InitIInv, <1>1, PTL DEF Spec

\* No step of the scheduler or of a source stores a value outside its type, however
\* deep the calls of syncTag are nested.
THEOREM TypeCorrect == Spec => []TypeOK
  <1>1. IInv => TypeOK
    <2> SUFFICES ASSUME IInv PROVE TypeOK
      OBVIOUS
    <2>1. ASSUME NEW g \in Proc PROVE RunOK(run[g])
      <3>1. run[g] \in Runs /\ run[g].calls \in Seq(Call)
        BY DEF IInv, RunsOK, Runs
      <3>2. \A i \in DOMAIN run[g].calls : run[g].calls[i] \in Call
        BY <3>1
      <3>3. DOMAIN run[g] = DOMAIN Idle
        BY <3>1 DEF Runs, Idle
      <3> QED
        BY <3>1, <3>2, <3>3 DEF RunOK, Runs
    <2> QED
      BY <2>1 DEF IInv, DataOK, TypeOK
  <1> QED
    BY <1>1, Invariance, PTL

\* A job runs once at a time, whatever the unlocked reads of checkJobs saw and
\* whoever else started it: the check of runJob and the flag it sets are one step.
THEOREM OneRun == Spec => []OneRunPerJob
  <1>1. IInv => OneRunPerJob
    <2> SUFFICES ASSUME IInv, NEW j \in Job
                 PROVE  Cardinality({g \in Proc : run[g].job = j /\ run[g].pc # "start"}) <= 1
      BY DEF OneRunPerJob
    <2>1. \A g \in Proc : run[g].job = j /\ run[g].pc # "start" => Active(g)
      <3>1. \A g \in Proc : run[g].pc = "idle" => run[g].job = None
        BY DEF IInv, RunsOK, RunInv, Idle
      <3> QED
        BY <3>1, ConstantsAssumption DEF Active
    <2> QED
      BY <2>1, AtMostOne DEF IInv, ScheduleInv
  <1> QED
    BY <1>1, Invariance, PTL

\* A trigger that TriggerSync accepted is followed by a run that begins after it, or
\* its goroutine is still on its way there: no other run can make it give up.
THEOREM TriggersKept == Spec => []TriggerNotLost
  <1>1. IInv => TriggerNotLost
    BY DEF IInv
  <1> QED
    BY <1>1, Invariance, PTL

\* Whatever fails, expires, crashes or is deleted meanwhile, syncTag writes a record
\* only when the manifest, its config and all its layers were stored, and none of them
\* goes missing but by a client's DELETE.
THEOREM CopiesComplete == Spec => []SyncedComplete
  <1>1. IInv => SyncedComplete
    BY DEF IInv
  <1> QED
    BY <1>1, Invariance, PTL
=============================================================================
