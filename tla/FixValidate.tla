----------------------------- MODULE FixValidate ----------------------------
(***************************************************************************)
(* fix_validate.validate_fix: does a proposed diff apply to the staged     *)
(* tree?  git is asked about the diff as it is; if it says no, or does not *)
(* answer in time, the diff is rebuilt from its hunk bodies against the    *)
(* target file, and git is asked once more.                                *)
(*                                                                         *)
(* git is the environment: apply --check says ok or not whatever it is     *)
(* given (hunk headers and the last newline are not modelled), or times    *)
(* out.  A diff is the sequence of its raw lines, [tag, text]: the tag is  *)
(* what the line starts with, "other" for anything the rebuilding skips;   *)
(* the text of a "+++" line is the path.  << >> is a blank diff.           *)
(***************************************************************************)
EXTENDS Integers, Sequences, FiniteSets, SequencesExt

CONSTANTS
    Diffs,             \* the diffs a fix may propose
    Trees              \* path -> [inside, binary, lines], for the files there are

Raw == [tag : {"+++", "@@", " ", "-", "+", "other"}, text : STRING]
TargetFile == [inside : BOOLEAN, binary : BOOLEAN, lines : Seq(STRING)]

ASSUME FixAssumption ==
    /\ Diffs \subseteq Seq(Raw)
    /\ \A tree \in Trees : \A path \in DOMAIN tree : tree[path] \in TargetFile

VARIABLES
    diff, tree,        \* the arguments of validate_fix, fixed
    pc,                \* "start", "rebuild", "recheck", "done", "raised"
    checks,            \* what git answered so far, in order
    rebuilt,           \* << >>, or the one file the rebuilt diff leads to
    status,            \* FixValidationResult.status
    usedResynthesis    \* FixValidationResult.used_resynthesis

inputs == <<diff, tree>>
fixVars == <<inputs, pc, checks, rebuilt, status, usedResynthesis>>

Answers == {"ok", "reject", "timeout"}

-----------------------------------------------------------------------------
\* The texts of the lines that start with one of the tags, in their order.
TextsOf(raws, tags) ==
    LET texts[n \in 0 .. Len(raws)] ==
            IF n = 0 THEN << >>
            ELSE IF raws[n].tag \in tags THEN Append(texts[n - 1], raws[n].text)
            ELSE texts[n - 1]
    IN  texts[Len(raws)]

\* The hunk bodies, all in one: everything after the first @@.
HunkMarks(d) == {i \in DOMAIN d : d[i].tag = "@@"}
FirstMark(d) == CHOOSE i \in HunkMarks(d) : \A j \in HunkMarks(d) : i <= j
Body(d) == IF HunkMarks(d) = {} THEN << >> ELSE SubSeq(d, FirstMark(d) + 1, Len(d))

\* A header line counts as a header wherever it stands, and in a body as an
\* addition, too.
Headers(d) == TextsOf(d, {"+++"})
ChangesSomething(d) == TextsOf(Body(d), {"-", "+"}) # << >>
OldBlock(d) == TextsOf(Body(d), {" ", "-"})
AdditionsLast(d) == TextsOf(Body(d), {" "}) \o TextsOf(Body(d), {"+", "+++"})
NewBlock(d) == TextsOf(Body(d), {" ", "+", "+++"})

\* Where in the file the old block stands, as the number of lines before it.
Matches(old, lines) ==
    {p \in 0 .. (Len(lines) - Len(old)) : SubSeq(lines, p + 1, p + Len(old)) = old}

\* The returns of None before the target is read.
HasTarget ==
    /\ Len(Headers(diff)) = 1
    /\ ChangesSomething(diff)
    /\ Headers(diff)[1] \in DOMAIN tree
    /\ OldBlock(diff) # << >>

Target == tree[Headers(diff)[1]]

Anchors == IF HasTarget /\ ~Target.binary
           THEN Matches(OldBlock(diff), Target.lines) ELSE {}
Anchored == Cardinality(Anchors) = 1

\* The file with the new block in the place of the old one.
NewFile ==
    LET at == CHOOSE p \in Anchors : TRUE
    IN  SubSeq(Target.lines, 1, at) \o NewBlock(diff)
        \o SubSeq(Target.lines, at + Len(OldBlock(diff)) + 1, Len(Target.lines))

\* read_text raises on a file that is no text, relative_to on a path outside.
RebuildingRaises == HasTarget /\ (Target.binary \/ (Anchored /\ ~Target.inside))
Rebuildable == Anchored /\ Target.inside /\ NewFile # Target.lines

-----------------------------------------------------------------------------
Return(s, resynthesized) ==
    /\ pc' = "done"
    /\ status' = s
    /\ usedResynthesis' = resynthesized

Continue(to) == pc' = to /\ UNCHANGED <<status, usedResynthesis>>

Init ==
    /\ diff \in Diffs
    /\ tree \in Trees
    /\ pc = "start"
    /\ checks = << >>
    /\ rebuilt = << >>
    /\ status = "none"
    /\ usedResynthesis = FALSE

EmptyDiff ==
    /\ pc = "start"
    /\ diff = << >>
    /\ Return("empty_diff", FALSE)
    /\ UNCHANGED <<inputs, checks, rebuilt>>

\* The first pass.
CheckAsIs(answer) ==
    /\ pc = "start"
    /\ diff # << >>
    /\ checks' = Append(checks, answer)
    /\ IF answer = "ok" THEN Return("applies_cleanly", FALSE)
                        ELSE Continue("rebuild")
    /\ UNCHANGED <<inputs, rebuilt>>

\* _resynthesize_diff gives None, or the very text that git has refused.
RetrySameDiff ==
    /\ pc = "rebuild"
    /\ ~RebuildingRaises
    /\ Continue("start")
    /\ checks' = << >>
    /\ UNCHANGED <<inputs, rebuilt>>

GiveUpWithoutStatus ==
    /\ pc = "rebuild"
    /\ ~RebuildingRaises
    /\ pc' = "done"
    /\ UNCHANGED <<inputs, checks, rebuilt, status, usedResynthesis>>

GiveUp ==
    /\ pc = "rebuild"
    /\ ~RebuildingRaises
    /\ Return("apply_failed", FALSE)
    /\ UNCHANGED <<inputs, checks, rebuilt>>

Rebuild ==
    /\ pc = "rebuild"
    /\ Rebuildable
    /\ rebuilt' = <<NewFile>>
    /\ Continue("recheck")
    /\ UNCHANGED <<inputs, checks>>

RebuildRaises ==
    /\ pc = "rebuild"
    /\ RebuildingRaises
    /\ pc' = "raised"
    /\ UNCHANGED <<inputs, checks, rebuilt, status, usedResynthesis>>

\* The second pass, on the rebuilt diff.
RecheckTrusted(answer) ==
    /\ pc = "recheck"
    /\ checks' = Append(checks, answer)
    /\ IF answer # "reject" THEN Return("applies_cleanly", TRUE)
                            ELSE Return("apply_failed", FALSE)
    /\ UNCHANGED <<inputs, rebuilt>>

CheckRebuilt(answer) ==
    /\ pc = "recheck"
    /\ checks' = Append(checks, answer)
    /\ IF answer = "ok" THEN Return("applies_cleanly", TRUE)
                        ELSE Return("apply_failed", FALSE)
    /\ UNCHANGED <<inputs, rebuilt>>

Step ==
    \/ EmptyDiff
    \/ GiveUp
    \/ Rebuild
    \/ RebuildRaises
    \/ \E answer \in Answers : CheckAsIs(answer) \/ CheckRebuilt(answer)

Over == pc \in {"done", "raised"} /\ UNCHANGED fixVars

Next == Step \/ Over

\* Sequential code; git answers or is cut off.
Spec == Init /\ [][Next]_fixVars /\ WF_fixVars(Step)
-----------------------------------------------------------------------------
\* The type invariant.
TypeOK ==
    /\ diff \in Diffs /\ tree \in Trees
    /\ pc \in {"start", "rebuild", "recheck", "done", "raised"}
    /\ checks \in Seq(Answers)
    /\ rebuilt \in Seq(Seq(STRING))
    /\ IF pc = "done" THEN status \in {"empty_diff", "applies_cleanly", "apply_failed"}
       ELSE status = "none"
    /\ usedResynthesis \in BOOLEAN

\* How a reader takes a body: line by line from some place in the file, each
\* context line and deletion meeting its own line, each addition where it stands.
ReadLine(lines, reading, raw) ==
    CASE raw.tag \in {" ", "-"} ->
             [at  |-> reading.at + 1,
              out |-> IF raw.tag = " " THEN Append(reading.out, raw.text) ELSE reading.out,
              ok  |-> /\ reading.ok
                      /\ reading.at < Len(lines)
                      /\ lines[reading.at + 1] = raw.text]
      [] raw.tag \in {"+", "+++"} -> [reading EXCEPT !.out = Append(@, raw.text)]
      [] OTHER -> reading

ReadFrom(d, lines, p) ==
    LET body == Body(d)
        reading[n \in 0 .. Len(body)] ==
            IF n = 0 THEN [at |-> p, out |-> SubSeq(lines, 1, p), ok |-> TRUE]
            ELSE ReadLine(lines, reading[n - 1], body[n])
    IN  reading[Len(body)]

ResultFrom(d, lines, p) ==
    LET reading == ReadFrom(d, lines, p)
    IN  reading.out \o SubSeq(lines, reading.at + 1, Len(lines))

Readings(d, lines) == {p \in 0 .. Len(lines) : ReadFrom(d, lines, p).ok}

\* The rebuilt diff does what the agent's lines say, at the one place where
\* they fit: never a guess between two places, never beside the target, no
\* line out of order.
RebuildIsTheOnlyReading ==
    rebuilt # << >> =>
        \E p \in Readings(diff, Target.lines) :
            /\ Readings(diff, Target.lines) = {p}
            /\ rebuilt[1] = ResultFrom(diff, Target.lines, p)
            /\ Target.inside

\* A status vouches for what git said last: a fix applies only if git took it,
\* used_resynthesis says which of the two diffs that was, and a failure means
\* that git took neither.  git is asked twice at most.
VerdictIsGits ==
    /\ status = "applies_cleanly" <=> "ok" \in Range(checks)
    /\ usedResynthesis <=> status = "applies_cleanly" /\ Len(checks) = 2
    /\ usedResynthesis => rebuilt # << >>
    /\ status = "empty_diff" => checks = << >>
    /\ Len(checks) <= 2

\* The validator comes to an end.
Decided == <>(pc \in {"done", "raised"})

\* The module docstring: "multi-file diffs are refused rather than guessed
\* at".  A file section without hunks, such as a pure rename, has no +++ line.
MultiFileRefused ==
    rebuilt # << >> => \A i \in DOMAIN diff : diff[i].text # "rename"
=============================================================================
