------------------------------- MODULE Contract -----------------------------
(***************************************************************************)
(* eval.contract: from the document an author keeps as expected.yaml to    *)
(* the ExpectedOutcome that is graded against.  A document is what         *)
(* yaml.safe_load makes of it: nothing, a mapping, or something else at    *)
(* top level (top), and for a mapping its keys and their values (keys).    *)
(*                                                                         *)
(* Confidence is counted in steps of 1 / Certain, cost in a small unit of  *)
(* a dollar.                                                               *)
(***************************************************************************)
EXTENDS Naturals

CONSTANTS
    FailureClasses,    \* values of the FailureClass enumeration
    Certain,           \* a confidence of 1.0
    DefaultMaxCost     \* 0.20 dollars

ProvenanceTypes ==
    {"canonical_fixture", "public_incident_replay", "production_incident"}

RequiredFields == {"provenance", "expected_failure_class", "min_confidence"}

\* The fields an author may leave out, and what they are then.
FieldDefaults ==
    [min_evidence_calls |-> 1, at_least_one_of |-> {}, forbidden_tool_calls |-> {},
     max_iterations |-> 12, max_cost_usd |-> DefaultMaxCost,
     expected_files_touched |-> {}, forbidden_files_touched |-> {},
     fix_must_apply_cleanly |-> TRUE,
     must_mention_columns |-> {}, must_mention_models |-> {}]

OptionalFields == DOMAIN FieldDefaults
ExpectedFields == RequiredFields \union OptionalFields

-----------------------------------------------------------------------------
\* Where a public incident is found: a URL that parses, and a commit that is
\* there and is not the empty string.
LocatedByPresence(provenance) ==
    provenance.source_pr # "none" /\ provenance.source_commit # "none"
Located(provenance) ==
    provenance.source_pr # "none" /\ provenance.source_commit \notin {"none", "empty"}

\* extra: the block has a sub-key that is none of its fields, which fails.
ProvenanceValid(provenance) ==
    /\ ~provenance.extra
    /\ provenance.type \in ProvenanceTypes
    /\ provenance.source_pr # "not_a_url"
    /\ provenance.type = "public_incident_replay" => Located(provenance)

\* Provenance.counts_toward_public_benchmark
CountsTowardPublicBenchmark(provenance) == provenance.type # "production_incident"

\* A field left out passes through its default, which is not validated.
WithDefaults(keys) ==
    [f \in ExpectedFields |-> IF f \in DOMAIN keys THEN keys[f] ELSE FieldDefaults[f]]

InRange(fields) ==
    /\ fields.expected_failure_class \in FailureClasses
    /\ fields.min_confidence \in 0 .. Certain
    /\ fields.max_iterations \in 1 .. 30
    /\ fields.max_cost_usd > 0

\* extra="forbid": a key that is no field fails the load.
LoadsWithExtras(doc) ==
    /\ doc.top = "mapping"
    /\ RequiredFields \subseteq DOMAIN doc.keys
    /\ ProvenanceValid(doc.keys.provenance)
    /\ InRange(WithDefaults(doc.keys))
Loads(doc) ==
    /\ doc.top = "mapping"
    /\ RequiredFields \subseteq DOMAIN doc.keys
    /\ DOMAIN doc.keys \subseteq ExpectedFields
    /\ ProvenanceValid(doc.keys.provenance)
    /\ InRange(WithDefaults(doc.keys))

\* load_expected of a document that loads.
LoadExpected(doc) == WithDefaults(doc.keys)
=============================================================================
