--------------------------- MODULE ReleasePipeline ---------------------------
(***************************************************************************)
(* The record of one OpenShift release and everything that writes it:      *)
(* internal/releases/manager.go (clone, mirror, extract, verify, reset,    *)
(* re-extract, discovery, import), with the phases of cloner.go and        *)
(* extractor.go that its goroutines run.                                   *)
(*                                                                         *)
(* The record is one key of the metadata store.  Every writer reads it     *)
(* once, keeps its own copy, and saves the whole copy at each change of    *)
(* state; nothing locks it in between.  Any save may fail, and only two    *)
(* callers look at the error.                                              *)
(*                                                                         *)
(* An Image is a manifest with all its blobs: the release image or one of  *)
(* the component images it names.  It is local when the last of its blobs  *)
(* has arrived.                                                            *)
(***************************************************************************)
EXTENDS Integers, FiniteSets

CONSTANTS
    Proc,          \* request handlers and the goroutines they start
    Component,     \* the images that image-references names
    ReleaseImage,
    PeerState,     \* states of the release at a peer we replicate from
    Requests,      \* bound: the kinds of requests that are made
    MaxCrashes     \* bound: crashes of the server

Image == Component \cup {ReleaseImage}

Processing == {"cloning", "extracting"}
ReleaseState == {"available", "cloned", "ready", "failed"} \cup Processing

ASSUME ConstantsAssumption ==
    /\ ReleaseImage \notin Component
    /\ IsFiniteSet(Component)
    /\ PeerState \subseteq ReleaseState
    /\ MaxCrashes \in Nat

VARIABLES
    release,    \* the record under rel:<tag>
    local,      \* the images whose blobs are all in the blob store
    job,        \* the handlers and goroutines at work
    cancelled,  \* Manager.ctx was cancelled by Stop
    \* history
    unsaved,    \* a writer's last save failed, and nothing was saved after it
    lost,       \* images that were local until a client deleted one of their blobs
    imported,   \* a record came from a peer
    crashes

vars == <<release, unsaved, local, job, cancelled, lost, imported, crashes>>

\* "absent" is a key that is not in the store.
Release == [state    : ReleaseState \cup {"absent"},
            verified : BOOLEAN]  \* Verify is there and Complete

NewRelease(s) == [state |-> s, verified |-> FALSE]

PCs == {"idle", "register", "autoRegister", "accept", "clone", "refs", "mirror",
        "cloned", "extract", "verify", "reset", "reExtract", "extractOnly", "import"}

Job == [pc   : PCs,
        rel  : Release,         \* the handler's copy of the record
        todo : SUBSET Image]    \* images still to mirror or to verify

Idle == [pc |-> "idle", rel |-> NewRelease("absent"), todo |-> {}]

TypeOK ==
    /\ release \in Release
    /\ unsaved \in BOOLEAN
    /\ local \subseteq Image
    /\ job \in [Proc -> Job]
    /\ cancelled \in BOOLEAN
    /\ lost \subseteq Image
    /\ imported \in BOOLEAN
    /\ crashes \in 0 .. MaxCrashes

Init ==
    /\ release = NewRelease("absent")
    /\ unsaved = FALSE
    /\ local = {}
    /\ job = [p \in Proc |-> Idle]
    /\ cancelled = FALSE
    /\ lost = {}
    /\ imported = FALSE
    /\ crashes = 0

-----------------------------------------------------------------------------
\* Reads the record and goes on with a copy of it.
Reads(p, label, rel) ==
    /\ job[p].pc = "idle"
    /\ job' = [job EXCEPT ![p] = [pc |-> label, rel |-> rel, todo |-> {}]]

Goes(p, label, todo) == job' = [job EXCEPT ![p].pc = label, ![p].todo = todo]
Ends(p) == job' = [job EXCEPT ![p] = Idle]

\* saveRelease succeeds, with p's copy in state s, and p goes on.
PutsAndGoes(p, s, label) ==
    /\ release' = [job[p].rel EXCEPT !.state = s]
    /\ unsaved' = FALSE
    /\ job' = [job EXCEPT ![p].pc = label, ![p].rel.state = s]

\* The same by a caller that does not look at the error: if the save fails, p goes on
\* with a copy that says what the record does not.
SavesAndGoes(p, s, label) ==
    \/ PutsAndGoes(p, s, label)
    \/ /\ job' = [job EXCEPT ![p].pc = label, ![p].rel.state = s]
       /\ UNCHANGED <<release, unsaved>>

\* saveRelease as the last thing p does.
SavesAndEnds(p, rel) ==
    /\ \/ release' = rel /\ unsaved' = FALSE
       \/ unsaved' = TRUE /\ UNCHANGED release
    /\ Ends(p)

Fails_Silently(p) == Ends(p) /\ UNCHANGED <<release, unsaved>>
Fails(p) == SavesAndEnds(p, [job[p].rel EXCEPT !.state = "failed"])

-----------------------------------------------------------------------------
(* Registering a release *)

\* DiscoverUpstream finds a tag that it does not know ...
Discover_NoState(p) ==
    /\ release.state = "absent"
    /\ Reads(p, "register", NewRelease(""))
    /\ UNCHANGED <<release, unsaved, local, cancelled, lost, imported, crashes>>
Discover(p) ==
    /\ release.state = "absent"
    /\ Reads(p, "register", NewRelease("available"))
    /\ UNCHANGED <<release, unsaved, local, cancelled, lost, imported, crashes>>

\* ... and saves it.
Register(p) ==
    /\ job[p].pc = "register"
    /\ SavesAndEnds(p, job[p].rel)
    /\ UNCHANGED <<local, cancelled, lost, imported, crashes>>

\* CloneRelease of a release that is not registered asks upstream for it first.
AutoRegister(p) ==
    /\ job[p].pc = "autoRegister"
    /\ \/ PutsAndGoes(p, "available", "accept")
       \/ Ends(p) /\ UNCHANGED <<release, unsaved>>
    /\ UNCHANGED <<local, cancelled, lost, imported, crashes>>

-----------------------------------------------------------------------------
(* CloneRelease and its goroutine *)

CloneRelease(p) ==
    /\ \/ release.state = "absent" /\ Reads(p, "autoRegister", NewRelease("absent"))
       \/ release.state \notin Processing \cup {"absent"} /\ Reads(p, "accept", release)
    /\ UNCHANGED <<release, unsaved, local, cancelled, lost, imported, crashes>>

\* The handler saves "cloning" and starts the goroutine, or returns the error.
Accept(p) ==
    /\ job[p].pc = "accept"
    /\ \/ PutsAndGoes(p, "cloning", "clone")
       \/ Ends(p) /\ UNCHANGED <<release, unsaved>>
    /\ UNCHANGED <<local, cancelled, lost, imported, crashes>>

\* Phase 1, Cloner.Clone: a cancelled context fails the requests to upstream.
PullReleaseImage(p) ==
    /\ job[p].pc = "clone"
    /\ \/ /\ ~cancelled
          /\ local' = local \cup {ReleaseImage}
          /\ lost' = lost \ {ReleaseImage}
          /\ Goes(p, "refs", {})
          /\ UNCHANGED <<release, unsaved>>
       \/ Fails(p) /\ UNCHANGED <<local, lost>>
    /\ UNCHANGED <<cancelled, imported, crashes>>

\* Phase 2 begins with FindReleaseComponents, which reads the release image.
ReadRefs(p) ==
    /\ job[p].pc = "refs"
    /\ \/ /\ ReleaseImage \in local
          /\ Goes(p, "mirror", Component)
          /\ UNCHANGED <<release, unsaved>>
       \/ Fails(p)
    /\ UNCHANGED <<local, cancelled, lost, imported, crashes>>

\* A worker of MirrorComponents has pulled an image.
MirrorOne(p) ==
    \E c \in job[p].todo :
        /\ job[p].pc = "mirror"
        /\ ~cancelled
        /\ local' = local \cup {c}
        /\ lost' = lost \ {c}
        /\ Goes(p, "mirror", job[p].todo \ {c})
        /\ UNCHANGED <<release, unsaved, cancelled, imported, crashes>>

MirrorFails(p) ==
    /\ job[p].pc = "mirror"
    /\ job[p].todo # {}
    /\ Fails(p)
    /\ UNCHANGED <<local, cancelled, lost, imported, crashes>>

\* MirrorComponents returns nil when no worker reported an error.  A worker that
\* finds the context cancelled between two images reports none.
MirrorReturns(p) == job[p].todo = {} \/ cancelled

MirrorDone(p) ==
    /\ job[p].pc = "mirror"
    /\ MirrorReturns(p)
    /\ SavesAndGoes(p, "cloned", "cloned")
    /\ UNCHANGED <<local, cancelled, lost, imported, crashes>>

\* Phase 3.
BeginExtract(p) ==
    /\ job[p].pc = "cloned"
    /\ SavesAndGoes(p, "extracting", "extract")
    /\ UNCHANGED <<local, cancelled, lost, imported, crashes>>

\* Extract needs the manifest of the release image; whatever else is missing costs
\* artifacts, not an error.  Then the gate: VerifyMirror looks at every image.
ToVerify_ImageOnly == {ReleaseImage}
ToVerify == Image

Extracted(p) ==
    /\ job[p].pc = "extract"
    /\ ReleaseImage \in local
    /\ Goes(p, "verify", ToVerify)
    /\ UNCHANGED <<release, unsaved, local, cancelled, lost, imported, crashes>>

\* A failed extraction leaves the release cloned.
ExtractFails(p) ==
    /\ job[p].pc \in {"extract", "extractOnly"}
    /\ SavesAndEnds(p, [job[p].rel EXCEPT !.state = "cloned"])
    /\ UNCHANGED <<local, cancelled, lost, imported, crashes>>

\* The release image comes first; the context is looked at before each component.
VerifyOne(p) ==
    \E c \in job[p].todo \cap local :
        /\ job[p].pc = "verify"
        /\ c = ReleaseImage \/ (ReleaseImage \notin job[p].todo /\ ~cancelled)
        /\ Goes(p, "verify", job[p].todo \ {c})
        /\ UNCHANGED <<release, unsaved, local, cancelled, lost, imported, crashes>>

\* An image is missing, or the context was cancelled.  There is a report, which
\* says that the release is not complete, unless the release image was missing.
VerifyFails_Waits(p) ==
    /\ job[p].pc = "verify"
    /\ job[p].todo \ local # {}
    /\ SavesAndEnds(p, [state |-> "failed", verified |-> FALSE])
    /\ UNCHANGED <<local, cancelled, lost, imported, crashes>>
VerifyFails(p) ==
    LET todo == job[p].todo IN
    /\ job[p].pc = "verify"
    /\ todo \ local # {} \/ (cancelled /\ todo \cap Component # {})
    /\ \E v \in BOOLEAN :
          /\ v => job[p].rel.verified /\ ReleaseImage \in todo \ local
          /\ SavesAndEnds(p, [state |-> "failed", verified |-> v])
    /\ UNCHANGED <<local, cancelled, lost, imported, crashes>>

VerifyDone(p) ==
    /\ job[p].pc = "verify"
    /\ job[p].todo = {}
    /\ SavesAndEnds(p, [state |-> "ready", verified |-> TRUE])
    /\ UNCHANGED <<local, cancelled, lost, imported, crashes>>

-----------------------------------------------------------------------------
(* The other writers of the record *)

\* ResetState, for a release that looks stuck ...
ResetState(p) ==
    /\ release.state \in Processing
    /\ Reads(p, "reset", release)
    /\ UNCHANGED <<release, unsaved, local, cancelled, lost, imported, crashes>>

\* ... saves it as cloned, whether or not its goroutine is still at work.
Reset(p) ==
    /\ job[p].pc = "reset"
    /\ SavesAndEnds(p, [job[p].rel EXCEPT !.state = "cloned"])
    /\ UNCHANGED <<local, cancelled, lost, imported, crashes>>

ReExtract(p) ==
    /\ release.state \notin Processing \cup {"absent"}
    /\ Reads(p, "reExtract", release)
    /\ UNCHANGED <<release, unsaved, local, cancelled, lost, imported, crashes>>

BeginReExtract(p) ==
    /\ job[p].pc = "reExtract"
    /\ SavesAndGoes(p, "extracting", "extractOnly")
    /\ UNCHANGED <<local, cancelled, lost, imported, crashes>>

ReExtracted(p) ==
    /\ job[p].pc = "extractOnly"
    /\ ReleaseImage \in local
    /\ SavesAndEnds(p, [job[p].rel EXCEPT !.state = "ready"])
    /\ UNCHANGED <<local, cancelled, lost, imported, crashes>>

\* stateOrder of ImportRelease; a release that is not there accepts everything.
Rank == [s \in ReleaseState \cup {"absent"} |->
            CASE s = "available"  -> 0
              [] s = "cloning"    -> 1
              [] s = "cloned"     -> 2
              [] s = "extracting" -> 3
              [] s = "ready"      -> 4
              [] s = "failed"     -> 5
              [] s = "absent"     -> -1]

\* ImportRelease compares the peer's record with ours ...
ImportRelease(p) ==
    /\ \E s \in PeerState, v \in BOOLEAN :
          /\ Rank[s] > Rank[release.state]
          /\ Reads(p, "import", [state |-> s, verified |-> v])
    /\ UNCHANGED <<release, unsaved, local, cancelled, lost, imported, crashes>>

\* ... and saves the more advanced one.
Import(p) ==
    /\ job[p].pc = "import"
    /\ SavesAndEnds(p, job[p].rel)
    /\ imported' = TRUE
    /\ UNCHANGED <<local, cancelled, lost, crashes>>

-----------------------------------------------------------------------------
(* The environment *)

\* A client deletes a blob of the release.
LoseImage ==
    \E c \in local :
        /\ local' = local \ {c}
        /\ lost' = lost \cup {c}
        /\ UNCHANGED <<release, unsaved, job, cancelled, imported, crashes>>

\* Manager.Stop, when the server shuts down; its goroutines run on until it exits.
Stop ==
    /\ ~cancelled
    /\ cancelled' = TRUE
    /\ UNCHANGED <<release, unsaved, local, job, lost, imported, crashes>>

\* The server exits and starts again.  NewManager looks at no record.
Crash ==
    /\ crashes < MaxCrashes
    /\ crashes' = crashes + 1
    /\ job' = [p \in Proc |-> Idle]
    /\ cancelled' = FALSE
    /\ UNCHANGED <<release, unsaved, local, lost, imported>>

NewRequest(p) ==
    \/ "Discover" \in Requests /\ Discover(p)
    \/ "CloneRelease" \in Requests /\ CloneRelease(p)
    \/ "ResetState" \in Requests /\ ResetState(p)
    \/ "ReExtract" \in Requests /\ ReExtract(p)
    \/ "ImportRelease" \in Requests /\ ImportRelease(p)

JobStep(p) ==
    \/ Register(p) \/ AutoRegister(p) \/ Accept(p)
    \/ PullReleaseImage(p) \/ ReadRefs(p)
    \/ MirrorOne(p) \/ MirrorFails(p) \/ MirrorDone(p)
    \/ BeginExtract(p) \/ Extracted(p) \/ ExtractFails(p)
    \/ VerifyOne(p) \/ VerifyFails(p) \/ VerifyDone(p)
    \/ Reset(p) \/ BeginReExtract(p) \/ ReExtracted(p) \/ Import(p)

Next ==
    \/ \E p \in Proc : NewRequest(p) \/ JobStep(p)
    \/ "LoseImage" \in Requests /\ LoseImage
    \/ "Stop" \in Requests /\ Stop
    \/ Crash

Spec == Init /\ [][Next]_vars

\* Handlers and goroutines run, and a request to upstream is answered or fails.
FairSpec == Spec /\ \A p \in Proc : WF_vars(JobStep(p))

-----------------------------------------------------------------------------
(* Properties *)

Quiescent == \A p \in Proc : job[p].pc = "idle"

\* A record that says it is verified belongs to a release whose images were all
\* local at some time, and only a DELETE took one away since: cancellation, two
\* pipelines at once, resets and re-extractions never make the badge a lie.
VerifiedWasComplete == release.verified /\ ~imported => Image \subseteq local \cup lost

\* When nobody is at work any more the record does not say that somebody is, in
\* which case CloneRelease and ReExtract would refuse the release for ever: every
\* path of every goroutine ends with a save, whatever others saved in between and
\* whichever of the saves before the last one failed.  If the last one fails, the
\* code ignores it and the release stays stuck, as it does after a crash.
NotStuck ==
    Quiescent /\ crashes = 0 /\ ~imported /\ ~unsaved => release.state \notin Processing

\* A release that is being processed stops being so, unless the server crashed, the
\* state is a peer's or a last save failed: the pipeline comes to an end whatever it
\* races with.
Settles ==
    release.state \in Processing
        ~> release.state \notin Processing \/ crashes > 0 \/ imported \/ unsaved
==============================================================================
