------------------------ MODULE MCPullRequestMirror ------------------------
(* Small instances of PullRequestMirror for TLC. *)
EXTENDS PullRequestMirror

CONSTANT p1
=============================================================================
