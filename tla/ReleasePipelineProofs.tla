------------------------ MODULE ReleasePipelineProofs ------------------------
(***************************************************************************)
(* TypeOK, VerifiedWasComplete and NotStuck for every number of handlers,  *)
(* components and crashes, and every set of states a peer may send.        *)
(*                                                                         *)
(* Every writer saves a copy of the record that it made earlier, so the    *)
(* copies need the invariant as much as the record does:                   *)
(*   - a copy that says verified was made of a complete release, and what  *)
(*     VerifyMirror has crossed off its list was local;                    *)
(*   - a record that says that somebody is at work was saved by a          *)
(*     goroutine that is not at its end, or by an import, unless a last    *)
(*     save failed since.                                                  *)
(***************************************************************************)
EXTENDS ReleasePipeline, TLAPS

\* Every image has been local.  LoseImage is the only step that takes one away,
\* and it writes down what it took: once true, it stays true.
Complete == Image \subseteq local \cup lost

\* The goroutines that have still to save another state.
Working == {"clone", "refs", "mirror", "cloned", "extract", "verify", "extractOnly"}

CopyOK(p) ==
    /\ job[p].rel.verified /\ ~imported /\ job[p].pc # "import" => Complete
    /\ job[p].pc = "verify" => Image \subseteq local \cup lost \cup job[p].todo
    /\ job[p].pc = "register" => job[p].rel.state = "available"

StateOK ==
    crashes = 0 /\ ~imported /\ ~unsaved /\ release.state \in Processing
    => \E p \in Proc : job[p].pc \in Working

IInv == TypeOK /\ VerifiedWasComplete /\ StateOK /\ \A p \in Proc : CopyOK(p)

-----------------------------------------------------------------------------
\* What the parts of a well-typed state are.
LEMMA Types ==
    ASSUME TypeOK, NEW p \in Proc
    PROVE  /\ job[p] \in Job
           /\ job[p].pc \in PCs
           /\ job[p].rel \in Release
           /\ job[p].todo \subseteq Image
  BY DEF TypeOK, Job

\* Another state makes a record of a record.
LEMMA OtherState ==
    ASSUME NEW r \in Release, NEW s \in ReleaseState
    PROVE  [r EXCEPT !.state = s] \in Release
  BY DEF Release

\* A record put together is a record.
LEMMA RecordType ==
    ASSUME NEW s \in ReleaseState \cup {"absent"}, NEW v \in BOOLEAN
    PROVE  [state |-> s, verified |-> v] \in Release
  BY DEF Release

\* One job changes and the jobs keep their type.
LEMMA OtherJob ==
    ASSUME TypeOK, NEW p \in Proc, NEW label \in PCs, NEW r \in Release,
           NEW todo \in SUBSET Image, NEW s \in ReleaseState
    PROVE  /\ [job EXCEPT ![p] = [pc |-> label, rel |-> r, todo |-> todo]] \in [Proc -> Job]
           /\ [job EXCEPT ![p].pc = label, ![p].todo = todo] \in [Proc -> Job]
           /\ [job EXCEPT ![p].pc = label, ![p].rel.state = s] \in [Proc -> Job]
  <1> USE DEF TypeOK
  <1>1. [pc |-> label, rel |-> r, todo |-> todo] \in Job
    BY DEF Job
  <1>2. [job[p] EXCEPT !.pc = label, !.todo = todo] \in Job
    BY Types DEF Job
  <1>3. [job[p] EXCEPT !.pc = label, !.rel.state = s] \in Job
    <2>1. [job[p].rel EXCEPT !.state = s] \in Release
      BY Types, OtherState
    <2> QED
      BY <2>1, Types DEF Job
  <1> QED
    BY <1>1, <1>2, <1>3

\* A job that has ended is a job.
LEMMA IdleType == Idle \in Job
  <1>1. NewRelease("absent") \in Release
    BY RecordType DEF NewRelease
  <1> QED
    BY <1>1 DEF Idle, Job, PCs

\* Every action keeps the variables in their types.
LEMMA TypeStep == TypeOK /\ [Next]_vars => TypeOK'
  <1> SUFFICES ASSUME TypeOK, [Next]_vars PROVE TypeOK'
    OBVIOUS
  <1> USE ConstantsAssumption
  <1>0. /\ {"available", "cloned", "ready", "failed", "cloning", "extracting"}
           \subseteq ReleaseState
        /\ PeerState \subseteq ReleaseState
        /\ release \in Release
        /\ Component \subseteq Image
        /\ ReleaseImage \in Image
        /\ {} \subseteq Image
    BY DEF ReleaseState, Processing, TypeOK, Image
  <1>1. CASE UNCHANGED vars
    BY <1>1 DEF vars, TypeOK
  <1>2. ASSUME NEW p \in Proc, NewRequest(p) PROVE TypeOK'
    <2>1. PICK label \in PCs, r \in Release : Reads(p, label, r)
      <3>1. CASE Discover(p)
        BY <1>0, <3>1, RecordType DEF Discover, NewRelease, PCs
      <3>2. CASE CloneRelease(p)
        BY <1>0, <3>2, RecordType DEF CloneRelease, NewRelease, PCs
      <3>3. CASE ResetState(p) \/ ReExtract(p)
        BY <1>0, <3>3 DEF ResetState, ReExtract, PCs
      <3>4. CASE ImportRelease(p)
        <4>1. PICK s \in PeerState, v \in BOOLEAN :
                 Reads(p, "import", [state |-> s, verified |-> v])
          BY <3>4 DEF ImportRelease
        <4> QED
          BY <1>0, <4>1, RecordType DEF PCs
      <3> QED
        BY <1>2, <3>1, <3>2, <3>3, <3>4 DEF NewRequest
    <2>2. job' \in [Proc -> Job]
      BY <1>0, <2>1, OtherJob DEF Reads
    <2>3. UNCHANGED <<release, unsaved, local, cancelled, lost, imported, crashes>>
      BY <1>2
        DEF NewRequest, Discover, CloneRelease, ResetState, ReExtract, ImportRelease
    <2> QED
      BY <2>2, <2>3 DEF TypeOK
  <1>3. ASSUME NEW p \in Proc, JobStep(p) PROVE TypeOK'
    <2>1. ASSUME NEW s \in ReleaseState, NEW label \in PCs,
                 SavesAndGoes(p, s, label) \/ PutsAndGoes(p, s, label)
          PROVE  release' \in Release /\ unsaved' \in BOOLEAN /\ job' \in [Proc -> Job]
      <3>1. job' \in [Proc -> Job]
        <4>1. job' = [job EXCEPT ![p].pc = label, ![p].rel.state = s]
          BY <2>1 DEF SavesAndGoes, PutsAndGoes
        <4> QED
          BY <1>0, <4>1, OtherJob
      <3>2. [job[p].rel EXCEPT !.state = s] \in Release
        BY Types, OtherState
      <3>3. release' \in Release /\ unsaved' \in BOOLEAN
        BY <1>0, <2>1, <3>2 DEF SavesAndGoes, PutsAndGoes, TypeOK
      <3> QED
        BY <3>1, <3>3
    <2>2. ASSUME NEW r \in Release, SavesAndEnds(p, r)
          PROVE  release' \in Release /\ unsaved' \in BOOLEAN /\ job' \in [Proc -> Job]
      BY <2>2, IdleType DEF SavesAndEnds, Ends, TypeOK
    <2>3. ASSUME NEW s \in ReleaseState, SavesAndEnds(p, [job[p].rel EXCEPT !.state = s])
          PROVE  release' \in Release /\ unsaved' \in BOOLEAN /\ job' \in [Proc -> Job]
      BY <2>2, <2>3, Types, OtherState
    <2>4. ASSUME Fails(p)
          PROVE  release' \in Release /\ unsaved' \in BOOLEAN /\ job' \in [Proc -> Job]
      BY <1>0, <2>3, <2>4 DEF Fails
    <2>5. ASSUME NEW label \in PCs, NEW todo \in SUBSET Image, Goes(p, label, todo)
          PROVE  job' \in [Proc -> Job]
      BY <1>0, <2>5, Types, OtherJob DEF Goes
    <2>6. Ends(p) => job' \in [Proc -> Job]
      BY IdleType DEF Ends, TypeOK
    <2>7. CASE Register(p) \/ Reset(p) \/ Import(p) \/ ReExtracted(p)
      BY <1>0, <2>2, <2>3, <2>7, Types DEF Register, Reset, Import, ReExtracted, TypeOK
    <2>8. CASE AutoRegister(p) \/ Accept(p) \/ BeginExtract(p) \/ BeginReExtract(p)
      <3>1. /\ {"accept", "clone", "extract", "extractOnly"} \subseteq PCs
            /\ UNCHANGED <<local, cancelled, lost, imported, crashes>>
        BY <2>8 DEF AutoRegister, Accept, BeginExtract, BeginReExtract, PCs
      <3>2. release' \in Release /\ unsaved' \in BOOLEAN /\ job' \in [Proc -> Job]
        BY <1>0, <2>1, <2>6, <2>8, <3>1
          DEF AutoRegister, Accept, BeginExtract, BeginReExtract, TypeOK
      <3> QED
        BY <3>1, <3>2 DEF TypeOK
    <2>9. CASE PullReleaseImage(p) \/ ReadRefs(p)
      BY <1>0, <2>4, <2>5, <2>9 DEF PullReleaseImage, ReadRefs, TypeOK, PCs
    <2>10. CASE MirrorOne(p)
      BY <1>0, <2>5, <2>10, Types DEF MirrorOne, TypeOK, PCs
    <2>11. CASE MirrorFails(p) \/ MirrorDone(p) \/ ExtractFails(p)
      BY <1>0, <2>1, <2>3, <2>4, <2>11
        DEF MirrorFails, MirrorDone, ExtractFails, TypeOK, PCs
    <2>12. CASE Extracted(p) \/ VerifyOne(p)
      <3>1. PICK todo \in SUBSET Image : Goes(p, "verify", todo)
        BY <1>0, <2>12, Types DEF Extracted, VerifyOne, ToVerify
      <3>2. UNCHANGED <<release, unsaved, local, cancelled, lost, imported, crashes>>
        BY <2>12 DEF Extracted, VerifyOne
      <3>3. job' \in [Proc -> Job]
        BY <2>5, <3>1 DEF PCs
      <3> QED
        BY <3>2, <3>3 DEF TypeOK
    <2>13. CASE VerifyFails(p)
      <3>1. PICK v \in BOOLEAN : SavesAndEnds(p, [state |-> "failed", verified |-> v])
        BY <2>13 DEF VerifyFails
      <3> QED
        BY <1>0, <2>2, <2>13, <3>1, RecordType DEF VerifyFails, TypeOK
    <2>14. CASE VerifyDone(p)
      BY <1>0, <2>2, <2>14, RecordType DEF VerifyDone, TypeOK
    <2> QED
      BY <1>3, <2>7, <2>8, <2>9, <2>10, <2>11, <2>12, <2>13, <2>14 DEF JobStep
  <1>4. CASE LoseImage \/ Stop
    BY <1>4 DEF LoseImage, Stop, TypeOK
  <1>5. CASE Crash
    <2>1. /\ job' \in [Proc -> Job]
          /\ UNCHANGED <<release, unsaved, local, lost, imported>>
          /\ cancelled' = FALSE
      BY <1>5, IdleType DEF Crash
    <2>2. crashes' \in 0 .. MaxCrashes
      BY <1>5 DEF Crash, TypeOK
    <2> QED
      BY <2>1, <2>2 DEF TypeOK
  <1> QED
    BY <1>1, <1>2, <1>3, <1>4, <1>5 DEF Next

\* No step makes a release incomplete that was complete.
LEMMA CompleteStays ==
    TypeOK /\ [Next]_vars => (local \cup lost) \subseteq (local' \cup lost')
  <1> SUFFICES ASSUME TypeOK, [Next]_vars
               PROVE  (local \cup lost) \subseteq (local' \cup lost')
    OBVIOUS
  <1>1. CASE UNCHANGED <<local, lost>>
    BY <1>1
  <1>2. ASSUME NEW p \in Proc, PullReleaseImage(p) \/ MirrorOne(p)
        PROVE  (local \cup lost) \subseteq (local' \cup lost')
    BY <1>2 DEF PullReleaseImage, MirrorOne
  <1>3. CASE LoseImage
    BY <1>3 DEF LoseImage
  <1> QED
    BY <1>1, <1>2, <1>3
      DEF Next, NewRequest, JobStep, vars, Discover, CloneRelease, ResetState,
          ReExtract, ImportRelease, Register, AutoRegister, Accept, ReadRefs,
          MirrorFails, MirrorDone, BeginExtract, Extracted, ExtractFails, VerifyOne,
          VerifyFails, VerifyDone, Reset, BeginReExtract, ReExtracted, Import, Stop,
          Crash

\* A goroutine that was at work has saved another state, or is still at work; and
\* who saves that somebody is at work goes on working.
LEMMA StateStep ==
    ASSUME IInv, [Next]_vars
    PROVE  StateOK'
  <1> SUFFICES ASSUME crashes' = 0, imported' = FALSE, unsaved' = FALSE,
                      release'.state \in Processing
               PROVE  \E p \in Proc : job'[p].pc \in Working
    BY TypeStep DEF StateOK, IInv, TypeOK
  <1> USE DEF Working
  <1>0. /\ TypeOK
        /\ job \in [Proc -> Job]
        /\ crashes \in Nat
        /\ release \in Release
    BY ConstantsAssumption DEF IInv, TypeOK
  <1>1. ASSUME release'.state = release.state, UNCHANGED <<unsaved, imported, crashes>>,
               NEW q \in Proc,
               \A p \in Proc \ {q} : job'[p] = job[p],
               job[q].pc \in Working => job'[q].pc \in Working
        PROVE  \E p \in Proc : job'[p].pc \in Working
    <2>1. PICK p \in Proc : job[p].pc \in Working
      BY <1>1 DEF IInv, StateOK
    <2> QED
      BY <1>1, <2>1
  <1>2. CASE UNCHANGED vars
    BY <1>2 DEF vars, IInv, StateOK
  <1>3. ASSUME NEW p \in Proc, NewRequest(p)
        PROVE  \E q \in Proc : job'[q].pc \in Working
    <2>1. /\ UNCHANGED <<release, unsaved, imported, crashes>>
          /\ job[p].pc = "idle"
          /\ \A q \in Proc \ {p} : job'[q] = job[q]
      BY <1>0, <1>3
        DEF NewRequest, Discover, CloneRelease, ResetState, ReExtract, ImportRelease, Reads
    <2> QED
      BY <1>1, <2>1
  <1>4. ASSUME NEW p \in Proc, JobStep(p)
        PROVE  \E q \in Proc : job'[q].pc \in Working
    <2>1. CASE Register(p)
      BY <1>0, <2>1 DEF Register, SavesAndEnds, IInv, CopyOK, Processing
    <2>2. CASE Import(p)
      BY <2>2 DEF Import
    <2>3. CASE Reset(p) \/ ReExtracted(p) \/ ExtractFails(p) \/ MirrorFails(p)
      <3>1. PICK s \in {"cloned", "ready", "failed"} : release' = [job[p].rel EXCEPT !.state = s]
        BY <2>3 DEF Reset, ReExtracted, ExtractFails, MirrorFails, Fails, SavesAndEnds
      <3> QED
        BY <1>0, <3>1, Types DEF Release, Processing
    <2>4. CASE VerifyFails(p) \/ VerifyDone(p)
      BY <2>4 DEF VerifyFails, VerifyDone, SavesAndEnds, Processing
    <2>5. CASE AutoRegister(p)
      <3>1. CASE PutsAndGoes(p, "available", "accept")
        BY <1>0, <3>1, Types DEF PutsAndGoes, Release, Processing
      <3>2. CASE Ends(p) /\ UNCHANGED <<release, unsaved>>
        BY <1>0, <1>1, <2>5, <3>2 DEF AutoRegister, Ends
      <3> QED
        BY <2>5, <3>1, <3>2 DEF AutoRegister
    <2>6. CASE Accept(p) \/ BeginExtract(p) \/ BeginReExtract(p) \/ MirrorDone(p)
      <3>1. CASE Ends(p) /\ Accept(p) /\ UNCHANGED <<release, unsaved>>
        BY <1>0, <1>1, <3>1 DEF Accept, Ends
      <3>2. CASE \E s \in ReleaseState, label \in {"clone", "extract", "extractOnly", "cloned"} :
                   SavesAndGoes(p, s, label) \/ PutsAndGoes(p, s, label)
        BY <1>0, <3>2, Types DEF SavesAndGoes, PutsAndGoes, Job
      <3>3. {"cloning", "extracting", "cloned"} \subseteq ReleaseState
        BY DEF ReleaseState, Processing
      <3> QED
        BY <2>6, <3>1, <3>2, <3>3 DEF Accept, BeginExtract, BeginReExtract, MirrorDone
    <2>7. CASE Extracted(p) \/ VerifyOne(p) \/ MirrorOne(p)
      BY <1>0, <2>7, Types DEF Extracted, VerifyOne, MirrorOne, Goes, Job
    <2>8. CASE PullReleaseImage(p) \/ ReadRefs(p)
      <3>1. CASE Fails(p)
        BY <1>0, <3>1, Types DEF Fails, SavesAndEnds, Release, Processing
      <3>2. CASE \E todo \in SUBSET Image : Goes(p, "refs", todo) \/ Goes(p, "mirror", todo)
        BY <1>0, <3>2, Types DEF Goes, Job
      <3> QED
        BY <2>8, <3>1, <3>2 DEF PullReleaseImage, ReadRefs, Image
    <2> QED
      BY <1>4, <2>1, <2>2, <2>3, <2>4, <2>5, <2>6, <2>7, <2>8 DEF JobStep
  <1>5. CASE LoseImage \/ Stop
    BY <1>5 DEF LoseImage, Stop, IInv, StateOK
  <1>6. CASE Crash
    BY <1>0, <1>6 DEF Crash
  <1> QED
    BY <1>2, <1>3, <1>4, <1>5, <1>6 DEF Next

\* The record and the copies of it say verified only of a release that is complete.
LEMMA CopyStep ==
    ASSUME IInv, [Next]_vars
    PROVE  VerifiedWasComplete' /\ \A q \in Proc : CopyOK(q)'
  <1> USE DEF Complete
  <1>0. /\ TypeOK
        /\ TypeOK'
        /\ job \in [Proc -> Job]
        /\ release \in Release
        /\ Complete => Complete'
        /\ (local \cup lost) \subseteq (local' \cup lost')
        /\ \A q \in Proc : CopyOK(q)
        /\ VerifiedWasComplete
    BY TypeStep, CompleteStays DEF IInv, TypeOK
  <1>1. ASSUME NEW p \in Proc, UNCHANGED imported,
               \A q \in Proc \ {p} : job'[q] = job[q],
               CopyOK(p)',
               release'.verified /\ ~imported => Complete'
        PROVE  VerifiedWasComplete' /\ \A q \in Proc : CopyOK(q)'
    BY <1>0, <1>1 DEF CopyOK, VerifiedWasComplete
  <1>2. CASE UNCHANGED vars
    BY <1>0, <1>2 DEF vars, CopyOK, VerifiedWasComplete
  <1>3. ASSUME NEW p \in Proc, NewRequest(p)
        PROVE  VerifiedWasComplete' /\ \A q \in Proc : CopyOK(q)'
    <2>1. UNCHANGED <<release, unsaved, local, cancelled, lost, imported, crashes>>
      BY <1>3
        DEF NewRequest, Discover, CloneRelease, ResetState, ReExtract, ImportRelease
    <2>2. \A q \in Proc \ {p} : job'[q] = job[q]
      BY <1>0, <1>3
        DEF NewRequest, Discover, CloneRelease, ResetState, ReExtract, ImportRelease, Reads
    <2>3. CopyOK(p)'
      BY <1>0, <1>3, <2>1
        DEF NewRequest, Discover, CloneRelease, ResetState, ReExtract, ImportRelease, Reads,
            NewRelease, CopyOK, VerifiedWasComplete
    <2> QED
      BY <1>0, <1>1, <2>1, <2>2, <2>3 DEF VerifiedWasComplete
  <1>4. ASSUME NEW p \in Proc, JobStep(p)
        PROVE  VerifiedWasComplete' /\ \A q \in Proc : CopyOK(q)'
    <2>0. job[p] \in Job /\ job[p].rel \in Release /\ CopyOK(p)
      BY <1>0, Types
    <2>1. \A q \in Proc \ {p} : job'[q] = job[q]
      BY <1>0, <1>4
        DEF JobStep, Register, AutoRegister, Accept, PullReleaseImage, ReadRefs, MirrorOne,
            MirrorFails, MirrorDone, BeginExtract, Extracted, ExtractFails, VerifyOne,
            VerifyFails, VerifyDone, Reset, BeginReExtract, ReExtracted, Import,
            SavesAndGoes, PutsAndGoes, SavesAndEnds, Goes, Ends, Fails
    <2>2. ASSUME Ends(p) PROVE CopyOK(p)'
      BY <1>0, <2>2 DEF Ends, Idle, NewRelease, CopyOK
    <2>3. ASSUME NEW s, SavesAndEnds(p, [job[p].rel EXCEPT !.state = s]),
                 job[p].pc # "import", UNCHANGED imported
          PROVE  VerifiedWasComplete' /\ \A q \in Proc : CopyOK(q)'
      <3>1. release'.verified \in {release.verified, job[p].rel.verified} /\ CopyOK(p)'
        BY <2>0, <2>2, <2>3 DEF SavesAndEnds, Release
      <3> QED
        BY <1>0, <1>1, <2>0, <2>1, <2>3, <3>1 DEF CopyOK, VerifiedWasComplete
    <2>4. ASSUME NEW s, NEW label, SavesAndGoes(p, s, label) \/ PutsAndGoes(p, s, label),
                 label # "verify", label # "register", job[p].pc # "import",
                 UNCHANGED imported
          PROVE  VerifiedWasComplete' /\ \A q \in Proc : CopyOK(q)'
      <3>1. /\ job'[p].rel.verified = job[p].rel.verified
            /\ release'.verified \in {release.verified, job[p].rel.verified}
            /\ job'[p].pc = label
        BY <1>0, <2>0, <2>4 DEF SavesAndGoes, PutsAndGoes, Release, Job
      <3> QED
        BY <1>0, <1>1, <2>0, <2>1, <2>4, <3>1 DEF CopyOK, VerifiedWasComplete
    <2>5. ASSUME NEW label, NEW todo, Goes(p, label, todo), label # "register",
                 label = "verify" => Image \subseteq local \cup lost \cup todo,
                 job[p].pc # "import", UNCHANGED <<release, unsaved, imported>>
          PROVE  VerifiedWasComplete' /\ \A q \in Proc : CopyOK(q)'
      <3>1. job'[p].rel = job[p].rel /\ job'[p].pc = label /\ job'[p].todo = todo
        BY <1>0, <2>0, <2>5 DEF Goes, Job
      <3> QED
        BY <1>0, <1>1, <2>0, <2>1, <2>5, <3>1 DEF CopyOK, VerifiedWasComplete
    <2>6. CASE Register(p)
      BY <1>0, <1>1, <2>0, <2>1, <2>2, <2>6
        DEF Register, SavesAndEnds, CopyOK, VerifiedWasComplete
    <2>7. CASE Import(p)
      <3>1. imported' = TRUE /\ UNCHANGED <<local, lost>> /\ CopyOK(p)'
        BY <2>2, <2>7 DEF Import, SavesAndEnds
      <3> QED
        BY <1>0, <2>1, <3>1 DEF CopyOK, VerifiedWasComplete
    <2>8. CASE Reset(p) \/ ReExtracted(p) \/ ExtractFails(p) \/ MirrorFails(p)
      BY <2>3, <2>8 DEF Reset, ReExtracted, ExtractFails, MirrorFails, Fails
    <2>9. CASE Accept(p) \/ BeginExtract(p) \/ BeginReExtract(p) \/ MirrorDone(p)
      <3>1. CASE Ends(p) /\ Accept(p) /\ UNCHANGED <<release, unsaved>>
        BY <1>0, <1>1, <2>1, <2>2, <3>1 DEF Accept, VerifiedWasComplete
      <3>2. CASE ~ (Ends(p) /\ Accept(p) /\ UNCHANGED <<release, unsaved>>)
        BY <2>4, <2>9, <3>2 DEF Accept, BeginExtract, BeginReExtract, MirrorDone
      <3> QED
        BY <3>1, <3>2
    <2>10. CASE AutoRegister(p)
      <3>1. CASE PutsAndGoes(p, "available", "accept")
        BY <2>4, <2>10, <3>1 DEF AutoRegister
      <3>2. CASE Ends(p) /\ UNCHANGED <<release, unsaved>>
        BY <1>0, <1>1, <2>1, <2>2, <2>10, <3>2 DEF AutoRegister, VerifiedWasComplete
      <3> QED
        BY <2>10, <3>1, <3>2 DEF AutoRegister
    <2>11. CASE PullReleaseImage(p) \/ ReadRefs(p)
      BY <2>3, <2>5, <2>11 DEF PullReleaseImage, ReadRefs, Fails
    <2>12. CASE MirrorOne(p)
      BY <2>5, <2>12 DEF MirrorOne
    <2>13. CASE Extracted(p)
      BY <2>5, <2>13 DEF Extracted, ToVerify
    <2>14. CASE VerifyOne(p)
      <3>1. PICK c \in job[p].todo \cap local : Goes(p, "verify", job[p].todo \ {c})
        BY <2>14 DEF VerifyOne
      <3>2. Image \subseteq local \cup lost \cup (job[p].todo \ {c})
        BY <2>0, <2>14, <3>1 DEF VerifyOne, CopyOK
      <3> QED
        BY <2>5, <2>14, <3>1, <3>2 DEF VerifyOne
    <2>15. CASE VerifyFails(p)
      <3>1. UNCHANGED imported /\ Ends(p)
            /\ (release'.verified => job[p].rel.verified \/ release.verified)
        BY <2>15 DEF VerifyFails, SavesAndEnds
      <3> QED
        BY <1>0, <1>1, <2>0, <2>1, <2>2, <2>15, <3>1
          DEF VerifyFails, CopyOK, VerifiedWasComplete
    <2>16. CASE VerifyDone(p)
      <3>1. Complete /\ UNCHANGED imported /\ Ends(p)
        BY <2>0, <2>16 DEF VerifyDone, SavesAndEnds, CopyOK
      <3> QED
        BY <1>0, <1>1, <2>1, <2>2, <3>1
    <2> QED
      BY <1>4, <2>6, <2>7, <2>8, <2>9, <2>10, <2>11, <2>12, <2>13, <2>14, <2>15, <2>16
        DEF JobStep
  <1>5. CASE LoseImage \/ Stop
    BY <1>0, <1>5 DEF LoseImage, Stop, CopyOK, VerifiedWasComplete
  <1>6. CASE Crash
    BY <1>0, <1>6 DEF Crash, Idle, NewRelease, CopyOK, VerifiedWasComplete
  <1> QED
    BY <1>2, <1>3, <1>4, <1>5, <1>6 DEF Next

\* The inductive invariant.
LEMMA Invariance == Spec => []IInv
  <1>1. Init => IInv
    <2> SUFFICES ASSUME Init PROVE IInv
      OBVIOUS
    <2>1. NewRelease("absent") \in Release
      BY RecordType DEF NewRelease
    <2>2. TypeOK
      <3>1. crashes \in 0 .. MaxCrashes
        BY ConstantsAssumption DEF Init
      <3>2. job \in [Proc -> Job]
        BY IdleType DEF Init
      <3> QED
        BY <2>1, <3>1, <3>2 DEF Init, TypeOK
    <2> QED
      BY <2>2
        DEF Init, IInv, VerifiedWasComplete, StateOK, CopyOK, Idle, NewRelease, Processing
  <1>2. IInv /\ [Next]_vars => IInv'
    BY TypeStep, StateStep, CopyStep DEF IInv
  <1> QED
    BY <1>1, <1>2, PTL DEF Spec

-----------------------------------------------------------------------------
\* The record, the copies of it and the history variables keep their types.
THEOREM TypeCorrect == Spec => []TypeOK
  <1>1. IInv => TypeOK
    BY DEF IInv
  <1> QED
    BY <1>1, Invariance, PTL

\* A record that says verified belongs to a release all of whose images were local,
\* although any number of handlers save old copies of it over each other.
THEOREM Verified == Spec => []VerifiedWasComplete
  <1>1. IInv => VerifiedWasComplete
    BY DEF IInv
  <1> QED
    BY <1>1, Invariance, PTL

\* Without a crash, an import or a failed last save, a release that nobody works on is
\* not left in cloning or extracting, where CloneRelease and ReExtract refuse it.
THEOREM Unstuck == Spec => []NotStuck
  <1>1. IInv => NotStuck
    BY DEF IInv, StateOK, NotStuck, Quiescent, Working
  <1> QED
    BY <1>1, Invariance, PTL
=============================================================================
