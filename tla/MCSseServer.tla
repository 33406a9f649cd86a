----------------------------- MODULE MCSseServer ----------------------------
(* Instances of SseServer for TLC. *)
EXTENDS SseServer, TLC

\* Requests differ only in their identity, and no action compares them.
RequestSymmetry == Permutations(Requests)

=============================================================================
