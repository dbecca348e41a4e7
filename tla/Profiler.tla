------------------------------ MODULE Profiler ------------------------------
(***************************************************************************)
(* The session's profiler, onnxruntime/core/common/profiler.cc, as far as  *)
(* it decides what a run does: whether it is on.  The flag is a plain      *)
(* member that any thread may flip while others run.  The events, and so   *)
(* whether they go to a file or a logger, are left out.                    *)
(***************************************************************************)
VARIABLE enabled   \* enabled_

StartProfiling == enabled' = TRUE

\* Writing the file ends it; with a logger only the logger is let go of and
\* the profiler stays enabled.
EndProfiling == enabled /\ enabled' \in BOOLEAN

ProfilerInit == enabled = FALSE
=============================================================================
