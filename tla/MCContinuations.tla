--------------------------- MODULE MCContinuations ---------------------------
(* Two upstream kinds, a fan-in over both, a catch-all with a delay and a  *)
(* disabled item of the same name.                                         *)
EXTENDS Continuations

MCKinds == {"job", "task"}

Def(name, after, accepts, enabled, cap, delay) ==
    [name |-> name, after |-> after, accepts |-> accepts, enabled |-> enabled,
     cap |-> cap, delay |-> delay]

MCDefs ==
    { Def("both", {{"job"}, {"task"}}, {"ok"}, TRUE, 1, FALSE),
      Def("any", {{"job", "task"}}, {"ok", "error"}, TRUE, 2, TRUE),
      Def("any", {}, {"ok"}, FALSE, 1, FALSE) }
=============================================================================
