------------------------- MODULE MCReleasePipeline -------------------------
(* Instances of ReleasePipeline for TLC. *)
EXTENDS ReleasePipeline

AllRequests == {"Discover", "CloneRelease", "ResetState", "ReExtract",
                "ImportRelease", "LoseImage", "Stop"}
=============================================================================
