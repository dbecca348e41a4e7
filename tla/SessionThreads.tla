--------------------------- MODULE SessionThreads ---------------------------
(* The application's threads, which the parts of a session have in common. *)
EXTENDS FiniteSets

CONSTANT Threads   \* Threads that call InferenceSession::Run

ASSUME ThreadsFinite == IsFiniteSet(Threads)
=============================================================================
