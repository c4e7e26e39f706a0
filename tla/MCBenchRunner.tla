--------------------------- MODULE MCBenchRunner ---------------------------
(***************************************************************************)
(* Two scenario directories: one that is complete or lacks one thing, and  *)
(* one that is complete, private, lacks the recording, or is no scenario;  *)
(* and three sites without a scenarios root, a baseline or a fixture root. *)
(***************************************************************************)
EXTENDS BenchRunner

Complete(name) == [name |-> name, contract |-> "valid", provenance |-> "canonical_fixture",
                   captured |-> TRUE, fits |-> TRUE, artifacts |-> TRUE, recording |-> TRUE]

First ==
    LET s == Complete("s1")
    IN  {s, [s EXCEPT !.contract = "invalid"], [s EXCEPT !.contract = "absent"],
         [s EXCEPT !.captured = FALSE], [s EXCEPT !.artifacts = FALSE],
         [s EXCEPT !.fits = FALSE], [s EXCEPT !.recording = FALSE]}
Second ==
    LET s == Complete("s2")
    IN  {s, [s EXCEPT !.provenance = "production_incident"],
         [s EXCEPT !.recording = FALSE], [s EXCEPT !.contract = "absent"]}

Whole(dirs) == [rootExists |-> TRUE, dirs |-> dirs,
                fixtureExists |-> TRUE, baseline |-> TRUE]

MCSites ==
    {Whole(<< >>), [Whole(<< >>) EXCEPT !.rootExists = FALSE],
     [Whole(<<Complete("s1")>>) EXCEPT !.baseline = FALSE],
     [Whole(<<Complete("s1")>>) EXCEPT !.baseline = FALSE, !.fixtureExists = FALSE]}
    \union {Whole(<<a, b>>) : a \in First, b \in Second}

MCInvocations ==
    [mode : Modes, strict : BOOLEAN, only : {{}, {"s2"}, {"s1", "s9"}},
     rootGiven : BOOLEAN, fixtureGiven : BOOLEAN,
     agent : {"default", "custom", "unresolved"}, apiKey : BOOLEAN]
=============================================================================
