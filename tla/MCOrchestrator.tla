--------------------------- MODULE MCOrchestrator ---------------------------
(***************************************************************************)
(* Instances of Orchestrator: one process that is started again and again  *)
(* over the files of its earlier runs, and two processes side by side.     *)
(***************************************************************************)
EXTENDS Orchestrator

\* Two seeds of one backend and one of another.
ThreeTests ==
  [p \in {"p1"} |-> {<<"cpp", 1, "random">>, <<"cpp", 2, "random">>, <<"zig", 1, "random">>}]

\* One seed of one backend.
OneTest == [p \in {"p1"} |-> {<<"cpp", 1, "random">>}]

\* The same seed and strategy in two backends.
TwoBackends ==
  [p \in {"p1", "p2"} |-> {<<IF p = "p1" THEN "cpp" ELSE "rust", 1, "random">>}]
=============================================================================
