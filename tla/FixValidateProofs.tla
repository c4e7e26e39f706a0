-------------------------- MODULE FixValidateProofs --------------------------
(***************************************************************************)
(* What a status of validate_fix vouches for, for every diff, every tree   *)
(* and everything git may answer.                                          *)
(***************************************************************************)
EXTENDS FixValidate, SequenceTheorems, FiniteSetTheorems, WellFoundedInduction, TLAPS

\* Where validate_fix stands follows from what git has answered: nothing yet
\* before the first pass, one refusal before the second, and a verdict that is
\* the last answer.
Stage ==
    /\ pc \in {"start", "rebuild", "recheck", "done", "raised"}
    /\ usedResynthesis \in BOOLEAN
    /\ pc = "start" => checks = << >>
    /\ pc \in {"rebuild", "recheck", "raised"} =>
          \E a \in Answers \ {"ok"} : checks = <<a>>
    /\ pc = "recheck" => rebuilt # << >>
    /\ pc # "done" => status = "none" /\ usedResynthesis = FALSE
    /\ pc = "done" => \/ /\ status = "empty_diff" /\ usedResynthesis = FALSE
                         /\ checks = << >>
                      \/ /\ status = "applies_cleanly" /\ usedResynthesis = FALSE
                         /\ checks = <<"ok">>
                      \/ /\ status = "applies_cleanly" /\ usedResynthesis = TRUE
                         /\ \E a \in Answers \ {"ok"} : checks = <<a, "ok">>
                         /\ rebuilt # << >>
                      \/ /\ status = "apply_failed" /\ usedResynthesis = FALSE
                         /\ \/ \E a \in Answers \ {"ok"} : checks = <<a>>
                            \/ \E a, b \in Answers \ {"ok"} : checks = <<a, b>>

\* Appending to what git has said.
LEMMA AppendAnswer ==
    ASSUME NEW a \in Answers, NEW b \in Answers
    PROVE  /\ Append(<< >>, a) = <<a>>
           /\ Append(<<a>>, b) = <<a, b>>
  <1>1. << >> \in Seq(Answers) /\ <<a>> \in Seq(Answers)
    OBVIOUS
  <1>2. Append(<< >>, a) = <<a>>
    <2>1. /\ Append(<< >>, a) \in Seq(Answers) /\ Len(Append(<< >>, a)) = 1
          /\ Append(<< >>, a)[1] = a
      BY <1>1, AppendProperties
    <2> QED
      BY <1>1, <2>1, SeqEqual
  <1>3. Append(<<a>>, b) = <<a, b>>
    <2>1. <<a, b>> \in Seq(Answers) /\ Len(<<a, b>>) = 2
      OBVIOUS
    <2>2. /\ Append(<<a>>, b) \in Seq(Answers) /\ Len(Append(<<a>>, b)) = 2
          /\ Append(<<a>>, b)[1] = a /\ Append(<<a>>, b)[2] = b
      BY <1>1, AppendProperties
    <2>3. \A i \in 1 .. 2 : Append(<<a>>, b)[i] = <<a, b>>[i]
      BY <2>2
    <2>4. Len(Append(<<a>>, b)) = Len(<<a, b>>)
      BY <2>1, <2>2
    <2> QED
      BY <2>1, <2>2, <2>3, <2>4, SeqEqual, Zenon
  <1> QED
    BY <1>2, <1>3

\* Nothing has been asked at the start.
LEMMA StageInit == Init => Stage
  BY DEF Init, Stage, Answers

\* The first pass, the second pass and the ways out in between.
LEMMA StageStep == Stage /\ [Next]_fixVars => Stage'
  <1> SUFFICES ASSUME Stage, [Next]_fixVars
               PROVE  Stage'
    OBVIOUS
  <1>1. CASE EmptyDiff
    BY <1>1 DEF EmptyDiff, Return, Stage, inputs
  <1>2. CASE GiveUp
    BY <1>2 DEF GiveUp, Return, Stage, inputs
  <1>3. CASE Rebuild
    <2>1. rebuilt' # << >>
      BY <1>3 DEF Rebuild
    <2> QED
      BY <1>3, <2>1 DEF Rebuild, Continue, Stage, inputs
  <1>4. CASE RebuildRaises
    BY <1>4 DEF RebuildRaises, Stage, inputs
  <1>5. ASSUME NEW answer \in Answers, CheckAsIs(answer)
        PROVE  Stage'
    <2>1. checks' = <<answer>>
      BY <1>5, AppendAnswer DEF CheckAsIs, Stage
    <2>2. CASE answer = "ok"
      BY <1>5, <2>1, <2>2 DEF CheckAsIs, Return, Stage, inputs
    <2>3. CASE answer # "ok"
      BY <1>5, <2>1, <2>3 DEF CheckAsIs, Continue, Stage, inputs
    <2> QED
      BY <2>2, <2>3
  <1>6. ASSUME NEW answer \in Answers, CheckRebuilt(answer)
        PROVE  Stage'
    <2>1. PICK a \in Answers \ {"ok"} : checks = <<a>>
      BY <1>6 DEF CheckRebuilt, Stage
    <2>2. checks' = <<a, answer>>
      BY <1>6, <2>1, AppendAnswer DEF CheckRebuilt
    <2>3. rebuilt' # << >>
      BY <1>6 DEF CheckRebuilt, Stage
    <2>4. CASE answer = "ok"
      BY <1>6, <2>2, <2>3, <2>4 DEF CheckRebuilt, Return, Stage, inputs
    <2>5. CASE answer # "ok"
      BY <1>6, <2>2, <2>5 DEF CheckRebuilt, Return, Stage, inputs
    <2> QED
      BY <2>4, <2>5
  <1>7. CASE UNCHANGED fixVars
    BY <1>7 DEF fixVars, inputs, Stage
  <1> QED
    BY <1>1, <1>2, <1>3, <1>4, <1>5, <1>6, <1>7 DEF Next, Step, Over

\* A fix is said to apply only if git took that very diff or its rebuilt form,
\* whatever the answers and time-outs before.
LEMMA StageGivesVerdict == Stage => VerdictIsGits
  <1> SUFFICES ASSUME Stage
               PROVE  VerdictIsGits
    OBVIOUS
  <1>1. CASE checks = << >>
    <2>1. Range(checks) = {} /\ Len(checks) = 0
      BY <1>1 DEF Range
    <2> QED
      BY <1>1, <2>1 DEF Stage, VerdictIsGits
  <1>2. ASSUME NEW a \in Answers, checks = <<a>>
        PROVE  VerdictIsGits
    <2>1. Range(checks) = {a} /\ Len(checks) = 1
      BY <1>2 DEF Range
    <2> QED
      BY <1>2, <2>1 DEF Stage, VerdictIsGits
  <1>3. ASSUME NEW a \in Answers \ {"ok"}, NEW b \in Answers, checks = <<a, b>>
        PROVE  VerdictIsGits
    <2>1. Range(checks) = {a, b} /\ Len(checks) = 2
      BY <1>3 DEF Range
    <2> QED
      BY <1>3, <2>1 DEF Stage, VerdictIsGits
  <1> QED
    BY <1>1, <1>2, <1>3 DEF Stage, Answers

\* validate_fix never vouches for a diff that git did not take.
THEOREM VerdictIsGitsHolds == Spec => []VerdictIsGits
  <1>1. Spec => []Stage
    BY StageInit, StageStep, PTL DEF Spec
  <1> QED
    BY <1>1, StageGivesVerdict, PTL

-----------------------------------------------------------------------------
(* Loops over the lines of a diff                                          *)

\* Induction, for a set of numbers.
LEMMA AllNumbers ==
    ASSUME NEW S, 0 \in S, \A n \in Nat : n \in S => n + 1 \in S
    PROVE  Nat \subseteq S
  <1> DEFINE Missing == Nat \ S
  <1> SUFFICES ASSUME Missing # {} PROVE FALSE
    OBVIOUS
  <1>1. PICK n \in Missing : \A k \in Missing : ~(<<k, n>> \in OpToRel(<, Nat))
    <2>1. Missing \subseteq Nat
      OBVIOUS
    <2> HIDE DEF Missing
    <2> QED
      BY <2>1, WFMin, NatLessThanWellFounded
  <1>2. n \in Nat /\ n \notin S /\ n # 0
    OBVIOUS
  <1>3. n - 1 \in Nat /\ n - 1 < n /\ (n - 1) + 1 = n
    BY <1>2
  <1>4. n - 1 \notin Missing
    BY <1>1, <1>2, <1>3 DEF OpToRel
  <1> QED
    BY <1>2, <1>3, <1>4

\* run holds what a loop of n rounds has computed after each of them.
Loop(step, start, n, run) ==
    /\ run[0] = start
    /\ \A i \in 1 .. n : run[i] = step[i][run[i - 1]]

LEMMA LoopsRun ==
    ASSUME NEW S, NEW N \in Nat, NEW start \in S, NEW step \in [1 .. N -> [S -> S]]
    PROVE  \E run \in [0 .. N -> S] : Loop(step, start, N, run)
  <1> DEFINE Reached == {n \in Nat : n <= N => \E run \in [0 .. n -> S] : Loop(step, start, n, run)}
  <1>1. 0 \in Reached
    <2> DEFINE run == [i \in 0 .. 0 |-> start]
    <2>1. run \in [0 .. 0 -> S] /\ Loop(step, start, 0, run)
      BY DEF Loop
    <2> QED
      BY <2>1
  <1>2. ASSUME NEW n \in Nat, n \in Reached PROVE n + 1 \in Reached
    <2> SUFFICES ASSUME n + 1 <= N
                 PROVE  \E run \in [0 .. n + 1 -> S] : Loop(step, start, n + 1, run)
      OBVIOUS
    <2>1. PICK run \in [0 .. n -> S] : Loop(step, start, n, run)
      BY <1>2
    <2> DEFINE last == step[n + 1][run[n]]
               longer == [i \in 0 .. n + 1 |-> IF i = n + 1 THEN last ELSE run[i]]
    <2>2. last \in S
      <3>1. run[n] \in S /\ step[n + 1] \in [S -> S]
        OBVIOUS
      <3> QED
        BY <3>1
    <2> HIDE DEF last
    <2>3. longer \in [0 .. n + 1 -> S] /\ longer[0] = start
      BY <2>1, <2>2 DEF Loop
    <2>4. ASSUME NEW i \in 1 .. n + 1 PROVE longer[i] = step[i][longer[i - 1]]
      <3>1. i - 1 \in 0 .. n /\ i - 1 # n + 1 /\ i \in 0 .. n + 1 /\ i - 1 \in 0 .. n + 1
        OBVIOUS
      <3>2. longer[i - 1] = run[i - 1]
        BY <3>1
      <3>3. CASE i = n + 1
        BY <3>1, <3>2, <3>3 DEF last
      <3>4. CASE i # n + 1
        BY <2>1, <3>1, <3>2, <3>4 DEF Loop
      <3> QED
        BY <3>3, <3>4
    <2> HIDE DEF longer
    <2> QED
      BY <2>3, <2>4 DEF Loop
  <1>3. Nat \subseteq Reached
    <2> HIDE DEF Reached
    <2> QED
      BY <1>1, <1>2, AllNumbers
  <1> QED
    BY <1>3

\* The texts of the lines that start with some tags, collected line by line.
CollectsTexts(raws, tags, texts) ==
    /\ texts \in [0 .. Len(raws) -> Seq(STRING)]
    /\ texts[0] = << >>
    /\ \A i \in 1 .. Len(raws) :
          texts[i] = IF raws[i].tag \in tags THEN Append(texts[i - 1], raws[i].text)
                                             ELSE texts[i - 1]

LEMMA RawLines ==
    ASSUME NEW raws \in Seq(Raw)
    PROVE  /\ Len(raws) \in Nat
           /\ \A i \in 1 .. Len(raws) : /\ raws[i].text \in STRING
                                        /\ raws[i].tag \in {"+++", "@@", " ", "-", "+", "other"}
  <1>1. Len(raws) \in Nat /\ \A i \in 1 .. Len(raws) : raws[i] \in Raw
    BY LenProperties, ElementOfSeq
  <1> QED
    BY <1>1 DEF Raw

LEMMA TextsAreCollected ==
    ASSUME NEW raws \in Seq(Raw), NEW tags
    PROVE  \E texts : CollectsTexts(raws, tags, texts) /\ TextsOf(raws, tags) = texts[Len(raws)]
  <1> DEFINE N == Len(raws)
             S == Seq(STRING)
             step == [i \in 1 .. N |-> [t \in S |->
                         IF raws[i].tag \in tags THEN Append(t, raws[i].text) ELSE t]]
             Follows(f) == f = [n \in 0 .. N |->
                                  IF n = 0 THEN << >>
                                  ELSE IF raws[n].tag \in tags THEN Append(f[n - 1], raws[n].text)
                                  ELSE f[n - 1]]
             chosen == CHOOSE f : Follows(f)
  <1>1. N \in Nat /\ << >> \in S /\ \A i \in 1 .. N : raws[i].text \in STRING
    BY RawLines, EmptySeq
  <1>2. TextsOf(raws, tags) = chosen[N]
    BY DEF TextsOf
  <1>3. ASSUME NEW i \in 1 .. N, NEW t \in S PROVE Append(t, raws[i].text) \in S
    BY <1>1, AppendProperties
  <1>4. PICK run \in [0 .. N -> S] : Loop(step, << >>, N, run)
    <2>1. step \in [1 .. N -> [S -> S]]
      BY <1>3
    <2> HIDE DEF step, S, N
    <2> QED
      BY <1>1, <2>1, LoopsRun
  <1>5. Follows(run)
    <2>1. \A n \in 0 .. N : n = 0 \/ (n \in 1 .. N /\ n - 1 \in 0 .. N)
      BY <1>1
    <2>2. \A n \in 1 .. N : run[n] = step[n][run[n - 1]] /\ run[n - 1] \in S
      <3> HIDE DEF step, S, N
      <3>1. \A n \in 1 .. N : n - 1 \in 0 .. N
        BY <1>1
      <3> QED
        BY <1>4, <3>1 DEF Loop
    <2>3. \A n \in 1 .. N : run[n] = IF raws[n].tag \in tags
                                       THEN Append(run[n - 1], raws[n].text) ELSE run[n - 1]
      BY <2>2
    <2>4. run[0] = << >>
      BY <1>4 DEF Loop
    <2> HIDE DEF step, S, N
    <2> QED
      BY <2>1, <2>3, <2>4
  <1>6. Follows(chosen)
    <2> HIDE DEF Follows
    <2> QED
      BY <1>5
  <1>7. /\ chosen = [n \in 0 .. N |-> chosen[n]]
        /\ chosen[0] = << >>
        /\ \A n \in 1 .. N : chosen[n] = IF raws[n].tag \in tags
                                           THEN Append(chosen[n - 1], raws[n].text) ELSE chosen[n - 1]
    <2>1. \A n \in 0 .. N : chosen[n] = IF n = 0 THEN << >>
                                        ELSE IF raws[n].tag \in tags
                                        THEN Append(chosen[n - 1], raws[n].text) ELSE chosen[n - 1]
      <3> HIDE DEF chosen, N
      <3> QED
        BY <1>6
    <2>2. chosen = [n \in 0 .. N |-> chosen[n]]
      <3> HIDE DEF chosen, N
      <3> QED
        BY <1>6
    <2>3. 0 \in 0 .. N /\ \A n \in 1 .. N : n \in 0 .. N /\ n # 0
      BY <1>1
    <2> HIDE DEF chosen, N
    <2> QED
      BY <2>1, <2>2, <2>3
  <1> DEFINE Fine == {n \in Nat : n <= N => chosen[n] \in S}
  <1> HIDE DEF chosen, Follows, N
  <1>8. 0 \in Fine
    BY <1>1, <1>7
  <1>9. ASSUME NEW n \in Nat, n \in Fine PROVE n + 1 \in Fine
    <2> SUFFICES ASSUME n + 1 <= N PROVE chosen[n + 1] \in S
      OBVIOUS
    <2>1. n + 1 \in 1 .. N /\ (n + 1) - 1 = n /\ n <= N
      BY <1>1
    <2>2. chosen[n] \in S
      BY <1>9, <2>1
    <2> HIDE DEF S
    <2> QED
      BY <1>3, <1>7, <2>1, <2>2
  <1>10. Nat \subseteq Fine
    <2> HIDE DEF Fine
    <2> QED
      BY <1>8, <1>9, AllNumbers
  <1>11. chosen \in [0 .. N -> S]
    <2>1. \A n \in 0 .. N : chosen[n] \in S
      BY <1>1, <1>10
    <2> HIDE DEF S, Fine
    <2> QED
      BY <1>7, <2>1
  <1>12. CollectsTexts(raws, tags, chosen)
    BY <1>7, <1>11 DEF CollectsTexts, N
  <1> QED
    BY <1>2, <1>12 DEF N

\* The hunk bodies of a diff are lines of it.
LEMMA BodyIsLines ==
    ASSUME NEW d \in Seq(Raw)
    PROVE  Body(d) \in Seq(Raw)
  <1> SUFFICES ASSUME HunkMarks(d) # {} PROVE Body(d) \in Seq(Raw)
    BY EmptySeq DEF Body
  <1>1. Len(d) \in Nat /\ DOMAIN d = 1 .. Len(d) /\ \A i \in 1 .. Len(d) : d[i] \in Raw
    BY LenProperties, ElementOfSeq
  <1>2. \E i \in HunkMarks(d) : \A j \in HunkMarks(d) : i <= j
    <2>1. HunkMarks(d) \subseteq Nat
      BY <1>1 DEF HunkMarks
    <2>2. PICK i \in HunkMarks(d) : \A j \in HunkMarks(d) : ~(<<j, i>> \in OpToRel(<, Nat))
      BY <2>1, WFMin, NatLessThanWellFounded
    <2>3. \A j \in HunkMarks(d) : ~(j < i)
      BY <2>1, <2>2 DEF OpToRel
    <2> QED
      BY <2>1, <2>3
  <1>3. FirstMark(d) \in 1 .. Len(d)
    BY <1>1, <1>2 DEF FirstMark, HunkMarks
  <1>4. FirstMark(d) + 1 \in Int /\ Len(d) \in Int
    BY <1>1, <1>3
  <1>5. \A i \in FirstMark(d) + 1 .. Len(d) : d[i] \in Raw
    BY <1>1, <1>3
  <1>6. SubSeq(d, FirstMark(d) + 1, Len(d)) \in Seq(Raw)
    BY <1>4, <1>5, SubSeqProperties
  <1> QED
    BY <1>6 DEF Body

-----------------------------------------------------------------------------
(* Reading a body line by line                                             *)

\* Some texts stand in a file after the first p lines.
StandsAt(texts, lines, p) ==
    /\ p + Len(texts) <= Len(lines)
    /\ \A j \in 1 .. Len(texts) : lines[p + j] = texts[j]

LEMMA StandsWithOneMore ==
    ASSUME NEW texts \in Seq(STRING), NEW lines \in Seq(STRING), NEW p \in Nat, NEW x \in STRING
    PROVE  StandsAt(Append(texts, x), lines, p)
              <=> /\ StandsAt(texts, lines, p)
                  /\ p + Len(texts) < Len(lines)
                  /\ lines[p + Len(texts) + 1] = x
  <1> DEFINE more == Append(texts, x)
  <1>1. /\ Len(texts) \in Nat /\ Len(lines) \in Nat /\ Len(more) = Len(texts) + 1
        /\ \A j \in 1 .. Len(texts) : more[j] = texts[j]
        /\ more[Len(texts) + 1] = x
    BY LenProperties, AppendProperties
  <1> HIDE DEF more
  <1>2. p + Len(more) <= Len(lines) <=> p + Len(texts) <= Len(lines) /\ p + Len(texts) < Len(lines)
    BY <1>1
  <1>3. /\ \A j \in 1 .. Len(more) : j \in 1 .. Len(texts) \/ j = Len(texts) + 1
        /\ \A j \in 1 .. Len(texts) : j \in 1 .. Len(more)
        /\ Len(texts) + 1 \in 1 .. Len(more)
        /\ p + (Len(texts) + 1) = p + Len(texts) + 1
    BY <1>1
  <1>4. (\A j \in 1 .. Len(more) : lines[p + j] = more[j])
           <=> (\A j \in 1 .. Len(texts) : lines[p + j] = texts[j]) /\ lines[p + Len(texts) + 1] = x
    <2>1. ASSUME \A j \in 1 .. Len(more) : lines[p + j] = more[j]
          PROVE  (\A j \in 1 .. Len(texts) : lines[p + j] = texts[j]) /\ lines[p + Len(texts) + 1] = x
      <3>1. lines[p + (Len(texts) + 1)] = more[Len(texts) + 1]
        BY <1>3, <2>1
      <3> QED
        BY <1>1, <1>3, <2>1, <3>1
    <2>2. ASSUME \A j \in 1 .. Len(texts) : lines[p + j] = texts[j], lines[p + Len(texts) + 1] = x
          PROVE  \A j \in 1 .. Len(more) : lines[p + j] = more[j]
      <3> SUFFICES ASSUME NEW j \in 1 .. Len(more) PROVE lines[p + j] = more[j]
        OBVIOUS
      <3>1. CASE j \in 1 .. Len(texts)
        BY <1>1, <2>2, <3>1
      <3>2. CASE j = Len(texts) + 1
        BY <1>1, <1>3, <2>2, <3>2
      <3> QED
        BY <1>3, <3>1, <3>2
    <2> QED
      BY <2>1, <2>2
  <1> QED
    BY <1>2, <1>4 DEF StandsAt, more

LEMMA AppendToConcat ==
    ASSUME NEW s \in Seq(STRING), NEW t \in Seq(STRING), NEW x \in STRING
    PROVE  s \o Append(t, x) = Append(s \o t, x)
  <1>1. <<x>> \in Seq(STRING) /\ s \o t \in Seq(STRING)
    BY ConcatProperties
  <1>2. Append(t, x) = t \o <<x>> /\ Append(s \o t, x) = (s \o t) \o <<x>>
    BY <1>1, AppendIsConcat
  <1>3. (s \o t) \o <<x>> = s \o (t \o <<x>>)
    BY <1>1, ConcatAssociative
  <1> QED
    BY <1>2, <1>3

\* Where a reader stands who began after p lines and has met some old lines and
\* put some new ones.
StandingAfter(old, new, lines, p) ==
    [at |-> p + Len(old), out |-> SubSeq(lines, 1, p) \o new, ok |-> StandsAt(old, lines, p)]

LEMMA ReaderMovesOn ==
    ASSUME NEW lines \in Seq(STRING), NEW p \in 0 .. Len(lines),
           NEW old \in Seq(STRING), NEW new \in Seq(STRING), NEW raw \in Raw
    PROVE  ReadLine(lines, StandingAfter(old, new, lines, p), raw)
              = StandingAfter(IF raw.tag \in {" ", "-"} THEN Append(old, raw.text) ELSE old,
                              IF raw.tag \in {" ", "+", "+++"} THEN Append(new, raw.text) ELSE new,
                              lines, p)
  <1> DEFINE here == StandingAfter(old, new, lines, p)
             prefix == SubSeq(lines, 1, p)
             x == raw.text
  <1>1. x \in STRING /\ raw.tag \in {"+++", "@@", " ", "-", "+", "other"}
    BY DEF Raw
  <1>2. Len(lines) \in Nat /\ p \in Nat /\ Len(old) \in Nat
    BY LenProperties
  <1>3. prefix \in Seq(STRING)
    <2>1. \A i \in 1 .. p : lines[i] \in STRING
      BY <1>2, ElementOfSeq
    <2> QED
      BY <1>2, <2>1, SubSeqProperties
  <1> HIDE DEF prefix, x
  <1>4. here = [at |-> p + Len(old), out |-> prefix \o new, ok |-> StandsAt(old, lines, p)]
    BY DEF StandingAfter, prefix
  <1>5. prefix \o Append(new, x) = Append(prefix \o new, x)
    BY <1>1, <1>3, AppendToConcat
  <1>6. CASE raw.tag \in {" ", "-"}
    <2> DEFINE stands == StandsAt(old, lines, p)
               next == here.at < Len(lines) /\ lines[here.at + 1] = x
               put == IF raw.tag = " " THEN Append(prefix \o new, x) ELSE prefix \o new
    <2>1. here.at = p + Len(old) /\ here.out = prefix \o new /\ (here.ok = stands)
      BY <1>4
    <2>2. ReadLine(lines, here, raw) = [at |-> here.at + 1, out |-> put, ok |-> stands /\ next]
      BY <1>6, <2>1 DEF ReadLine, x
    <2>3. (stands /\ next) = StandsAt(Append(old, x), lines, p)
      <3>1. stands /\ next <=> StandsAt(Append(old, x), lines, p)
        <4>1. next <=> p + Len(old) < Len(lines) /\ lines[p + Len(old) + 1] = x
          BY <2>1
        <4>2. StandsAt(Append(old, x), lines, p)
                 <=> stands /\ p + Len(old) < Len(lines) /\ lines[p + Len(old) + 1] = x
          BY <1>1, <1>2, StandsWithOneMore
        <4> HIDE DEF next, stands
        <4> QED
          BY <4>1, <4>2
      <3>2. stands \in BOOLEAN /\ StandsAt(Append(old, x), lines, p) \in BOOLEAN
        BY DEF StandsAt
      <3> QED
        BY <3>1, <3>2
    <2>4. Len(Append(old, x)) = Len(old) + 1
      BY <1>1, AppendProperties
    <2>5. here.at + 1 = p + Len(Append(old, x))
      BY <1>2, <2>1, <2>4
    <2>6. put = prefix \o (IF raw.tag \in {" ", "+", "+++"} THEN Append(new, x) ELSE new)
      BY <1>5, <1>6
    <2> HIDE DEF here, next, stands, put
    <2>7. ReadLine(lines, here, raw) = StandingAfter(Append(old, x),
             IF raw.tag \in {" ", "+", "+++"} THEN Append(new, x) ELSE new, lines, p)
      BY <2>2, <2>3, <2>5, <2>6 DEF StandingAfter, prefix
    <2> QED
      BY <1>6, <2>7 DEF here, x
  <1>7. CASE raw.tag \in {"+", "+++"}
    <2>1. ReadLine(lines, here, raw) = [here EXCEPT !.out = Append(prefix \o new, x)]
      BY <1>4, <1>7 DEF ReadLine, x
    <2>2. ReadLine(lines, here, raw)
             = [at |-> p + Len(old), out |-> prefix \o Append(new, x), ok |-> StandsAt(old, lines, p)]
      <3> DEFINE at == p + Len(old)
                 out == prefix \o new
                 stands == StandsAt(old, lines, p)
                 put == Append(out, x)
      <3> HIDE DEF at, out, stands, put, here
      <3>1. here = [at |-> at, out |-> out, ok |-> stands]
        BY <1>4 DEF at, out, stands
      <3>2. [here EXCEPT !.out = put] = [at |-> at, out |-> put, ok |-> stands]
        BY <3>1
      <3> QED
        BY <1>5, <2>1, <3>2 DEF at, out, stands, put
    <2>3. raw.tag \notin {" ", "-"} /\ raw.tag \in {" ", "+", "+++"}
      BY <1>7
    <2> HIDE DEF here
    <2> QED
      BY <2>2, <2>3 DEF StandingAfter, prefix, here, x
  <1>8. CASE raw.tag \in {"@@", "other"}
    <2>1. ReadLine(lines, here, raw) = here
      <3> HIDE DEF here
      <3> QED
        BY <1>8 DEF ReadLine
    <2>2. raw.tag \notin {" ", "-"} /\ raw.tag \notin {" ", "+", "+++"}
      BY <1>8
    <2> QED
      BY <2>1, <2>2
  <1> QED
    BY <1>1, <1>6, <1>7, <1>8

\* A reader who begins at a place ends after the old block with the new block in
\* its stead, and has met the lines of the file exactly if the old block is there.
LEMMA ReaderMeetsOldPutsNew ==
    ASSUME NEW d \in Seq(Raw), NEW lines \in Seq(STRING), NEW p \in 0 .. Len(lines)
    PROVE  ReadFrom(d, lines, p) = StandingAfter(OldBlock(d), NewBlock(d), lines, p)
  <1> DEFINE body == Body(d)
             N == Len(body)
  <1>1. body \in Seq(Raw) /\ N \in Nat /\ \A i \in 1 .. N : body[i] \in Raw
    BY BodyIsLines, LenProperties, ElementOfSeq
  <1>2. PICK old : CollectsTexts(body, {" ", "-"}, old) /\ OldBlock(d) = old[N]
    BY <1>1, TextsAreCollected DEF OldBlock
  <1>3. PICK new : CollectsTexts(body, {" ", "+", "+++"}, new) /\ NewBlock(d) = new[N]
    BY <1>1, TextsAreCollected DEF NewBlock
  <1> DEFINE start == [at |-> p, out |-> SubSeq(lines, 1, p), ok |-> TRUE]
             after == [n \in 0 .. N |-> StandingAfter(old[n], new[n], lines, p)]
             Follows(f) == f = [n \in 0 .. N |->
                                  IF n = 0 THEN start ELSE ReadLine(lines, f[n - 1], body[n])]
             chosen == CHOOSE f : Follows(f)
  <1>4. ReadFrom(d, lines, p) = chosen[N]
    BY DEF ReadFrom
  <1>5. Len(lines) \in Nat /\ p \in Nat
    BY LenProperties
  <1> HIDE DEF N, body
  <1>6. /\ old \in [0 .. N -> Seq(STRING)] /\ old[0] = << >>
        /\ new \in [0 .. N -> Seq(STRING)] /\ new[0] = << >>
        /\ \A i \in 1 .. N :
              /\ old[i] = IF body[i].tag \in {" ", "-"} THEN Append(old[i - 1], body[i].text)
                                                       ELSE old[i - 1]
              /\ new[i] = IF body[i].tag \in {" ", "+", "+++"} THEN Append(new[i - 1], body[i].text)
                                                              ELSE new[i - 1]
    BY <1>2, <1>3 DEF CollectsTexts, N
  <1>7. after[0] = start
    <2>1. \A i \in 1 .. p : lines[i] \in STRING
      BY <1>5, ElementOfSeq
    <2>2. SubSeq(lines, 1, p) \in Seq(STRING)
      BY <1>5, <2>1, SubSeqProperties
    <2>3. SubSeq(lines, 1, p) \o << >> = SubSeq(lines, 1, p)
      BY <2>2, ConcatEmptySeq
    <2>4. StandsAt(<< >>, lines, p) = TRUE
      <3>1. Len(<< >>) = 0
        BY EmptySeq
      <3> QED
        BY <1>5, <3>1 DEF StandsAt
    <2>5. p + Len(<< >>) = p
      BY <1>5, EmptySeq
    <2>6. StandingAfter(<< >>, << >>, lines, p) = start
      BY <2>3, <2>4, <2>5 DEF StandingAfter
    <2>7. 0 \in 0 .. N
      BY <1>1
    <2> HIDE DEF start
    <2> QED
      BY <1>6, <2>6, <2>7
  <1>8. ASSUME NEW i \in 1 .. N PROVE after[i] = ReadLine(lines, after[i - 1], body[i])
    <2>1. i \in 0 .. N /\ i - 1 \in 0 .. N
      BY <1>1
    <2>2. old[i - 1] \in Seq(STRING) /\ new[i - 1] \in Seq(STRING) /\ body[i] \in Raw
      BY <1>1, <1>6, <2>1
    <2>3. after[i] = StandingAfter(old[i], new[i], lines, p)
             /\ after[i - 1] = StandingAfter(old[i - 1], new[i - 1], lines, p)
      BY <2>1
    <2> HIDE DEF after
    <2>4. ReadLine(lines, StandingAfter(old[i - 1], new[i - 1], lines, p), body[i])
             = StandingAfter(old[i], new[i], lines, p)
      <3> DEFINE o == old[i - 1]  w == new[i - 1]  raw == body[i]
      <3>1. old[i] = (IF raw.tag \in {" ", "-"} THEN Append(o, raw.text) ELSE o)
              /\ new[i] = (IF raw.tag \in {" ", "+", "+++"} THEN Append(w, raw.text) ELSE w)
        BY <1>6
      <3>2. o \in Seq(STRING) /\ w \in Seq(STRING) /\ raw \in Raw
        BY <2>2
      <3> HIDE DEF o, w, raw
      <3>3. ReadLine(lines, StandingAfter(o, w, lines, p), raw)
               = StandingAfter(IF raw.tag \in {" ", "-"} THEN Append(o, raw.text) ELSE o,
                               IF raw.tag \in {" ", "+", "+++"} THEN Append(w, raw.text) ELSE w,
                               lines, p)
        BY <3>2, ReaderMovesOn
      <3>4. ReadLine(lines, StandingAfter(o, w, lines, p), raw)
               = StandingAfter(old[i], new[i], lines, p)
        BY <3>1, <3>3
      <3> QED
        BY <3>4 DEF o, w, raw
    <2> QED
      BY <2>3, <2>4
  <1>9. Follows(after)
    <2>1. \A n \in 0 .. N : n = 0 \/ n \in 1 .. N
      BY <1>1
    <2>2. after = [n \in 0 .. N |-> after[n]]
      OBVIOUS
    <2> HIDE DEF after, start
    <2>3. \A n \in 0 .. N : after[n] = IF n = 0 THEN start ELSE ReadLine(lines, after[n - 1], body[n])
      BY <1>7, <1>8, <2>1
    <2> QED
      BY <2>2, <2>3
  <1>10. Follows(chosen)
    <2> HIDE DEF Follows
    <2> QED
      BY <1>9
  <1>11. \A n \in 0 .. N : chosen[n] = IF n = 0 THEN start ELSE ReadLine(lines, chosen[n - 1], body[n])
    <2> HIDE DEF chosen, start
    <2> QED
      BY <1>10
  <1> DEFINE Same == {n \in Nat : n <= N => chosen[n] = after[n]}
  <1>12. after[N] = StandingAfter(old[N], new[N], lines, p)
    BY <1>1
  <1> HIDE DEF chosen, Follows, after, start
  <1>13. 0 \in Same
    BY <1>1, <1>7, <1>11
  <1>14. ASSUME NEW n \in Nat, n \in Same PROVE n + 1 \in Same
    <2> SUFFICES ASSUME n + 1 <= N PROVE chosen[n + 1] = after[n + 1]
      OBVIOUS
    <2>1. n + 1 \in 1 .. N /\ n + 1 \in 0 .. N /\ n + 1 # 0 /\ (n + 1) - 1 = n /\ n <= N
      BY <1>1
    <2>2. chosen[n] = after[n]
      BY <1>14, <2>1
    <2> QED
      BY <1>8, <1>11, <2>1, <2>2
  <1>15. Nat \subseteq Same
    <2> HIDE DEF Same
    <2> QED
      BY <1>13, <1>14, AllNumbers
  <1>16. chosen[N] = after[N]
    BY <1>1, <1>15
  <1> QED
    BY <1>2, <1>3, <1>4, <1>12, <1>16 DEF N

LEMMA BlocksAreTexts ==
    ASSUME NEW d \in Seq(Raw)
    PROVE  OldBlock(d) \in Seq(STRING) /\ NewBlock(d) \in Seq(STRING)
  <1>1. \A tags : TextsOf(Body(d), tags) \in Seq(STRING)
    <2> TAKE tags
    <2>1. Body(d) \in Seq(Raw) /\ Len(Body(d)) \in Nat
      BY BodyIsLines, RawLines
    <2>2. PICK texts : CollectsTexts(Body(d), tags, texts)
                         /\ TextsOf(Body(d), tags) = texts[Len(Body(d))]
      BY <2>1, TextsAreCollected
    <2>3. Len(Body(d)) \in 0 .. Len(Body(d))
      BY <2>1
    <2> QED
      BY <2>2, <2>3 DEF CollectsTexts
  <1> QED
    BY <1>1 DEF OldBlock, NewBlock

\* The places where the old block stands, found by comparing slices, are the
\* places from which the body reads.
LEMMA MatchesAreReadings ==
    ASSUME NEW d \in Seq(Raw), NEW lines \in Seq(STRING)
    PROVE  Matches(OldBlock(d), lines) = Readings(d, lines)
  <1> DEFINE old == OldBlock(d)
  <1>1. old \in Seq(STRING) /\ Len(old) \in Nat /\ Len(lines) \in Nat
    BY BlocksAreTexts, LenProperties
  <1>2. ASSUME NEW p \in 0 .. Len(lines)
        PROVE  ReadFrom(d, lines, p).ok <=> StandsAt(old, lines, p)
    BY ReaderMeetsOldPutsNew DEF StandingAfter
  <1> HIDE DEF old
  <1>3. ASSUME NEW p \in 0 .. (Len(lines) - Len(old))
        PROVE  SubSeq(lines, p + 1, p + Len(old)) = old <=> StandsAt(old, lines, p)
    <2> DEFINE slice == SubSeq(lines, p + 1, p + Len(old))
    <2>1. p \in Nat /\ p + 1 \in Int /\ p + Len(old) \in Int /\ p + Len(old) <= Len(lines)
      BY <1>1
    <2>2. \A i \in p + 1 .. p + Len(old) : lines[i] \in STRING
      BY <1>1, <2>1, ElementOfSeq
    <2>3. /\ slice \in Seq(STRING)
          /\ Len(slice) = IF p + 1 <= p + Len(old) THEN p + Len(old) - (p + 1) + 1 ELSE 0
          /\ \A i \in 1 .. p + Len(old) - (p + 1) + 1 : slice[i] = lines[p + 1 + i - 1]
      BY <2>1, <2>2, SubSeqProperties
    <2> HIDE DEF slice
    <2>4. Len(slice) = Len(old)
      BY <1>1, <2>1, <2>3
    <2>5. \A i \in 1 .. Len(old) : slice[i] = lines[p + i]
      <3>1. \A i \in 1 .. Len(old) : i \in 1 .. p + Len(old) - (p + 1) + 1 /\ p + 1 + i - 1 = p + i
        BY <1>1, <2>1
      <3> QED
        BY <2>3, <3>1
    <2>6. slice = old <=> \A i \in 1 .. Len(old) : lines[p + i] = old[i]
      BY <1>1, <2>3, <2>4, <2>5, SeqEqual
    <2> QED
      BY <2>1, <2>6 DEF StandsAt, slice
  <1>4. \A p \in 0 .. Len(lines) : StandsAt(old, lines, p) => p \in 0 .. (Len(lines) - Len(old))
    BY <1>1 DEF StandsAt
  <1>5. \A p \in 0 .. (Len(lines) - Len(old)) : p \in 0 .. Len(lines)
    BY <1>1
  <1>6. Matches(old, lines) = {p \in 0 .. (Len(lines) - Len(old)) : StandsAt(old, lines, p)}
    BY <1>3 DEF Matches
  <1>7. Readings(d, lines) = {p \in 0 .. Len(lines) : StandsAt(old, lines, p)}
    BY <1>2 DEF Readings
  <1>8. Matches(old, lines) = Readings(d, lines)
    BY <1>4, <1>5, <1>6, <1>7
  <1> QED
    BY <1>8 DEF old

-----------------------------------------------------------------------------
(* What a run of validate_fix has rebuilt                                  *)

\* The one rebuilt file is the target's, with the new block at the only place
\* of the old one.
Validated ==
    /\ diff \in Diffs /\ tree \in Trees
    /\ checks \in Seq(Answers)
    /\ rebuilt # << >> => Rebuildable /\ rebuilt = <<NewFile>>

FixInv == Stage /\ Validated

LEMMA FixInvHolds == Spec => []FixInv
  <1>1. Init => FixInv
    BY StageInit, EmptySeq DEF Init, FixInv, Validated
  <1>2. FixInv /\ [Next]_fixVars => FixInv'
    <2> SUFFICES ASSUME FixInv, [Next]_fixVars PROVE FixInv'
      OBVIOUS
    <2>1. Stage'
      BY StageStep DEF FixInv
    <2>2. diff' = diff /\ tree' = tree
      BY DEF Next, Step, Over, EmptyDiff, GiveUp, Rebuild, RebuildRaises, CheckAsIs, CheckRebuilt,
             fixVars, inputs
    <2>3. checks' \in Seq(Answers)
      <3>1. checks' = checks \/ \E answer \in Answers : checks' = Append(checks, answer)
        BY DEF Next, Step, Over, EmptyDiff, GiveUp, Rebuild, RebuildRaises, CheckAsIs,
               CheckRebuilt, fixVars
      <3> QED
        BY <3>1, AppendProperties DEF FixInv, Validated
    <2>4. rebuilt' = rebuilt \/ (Rebuildable /\ rebuilt' = <<NewFile>>)
      BY DEF Next, Step, Over, EmptyDiff, GiveUp, Rebuild, RebuildRaises, CheckAsIs, CheckRebuilt,
             fixVars
    <2>5. (Rebuildable <=> Rebuildable') /\ NewFile' = NewFile
      BY <2>2 DEF Rebuildable, NewFile, Anchored, Anchors, HasTarget, Target
    <2>6. rebuilt' # << >> => Rebuildable' /\ rebuilt' = <<NewFile'>>
      BY <2>4, <2>5 DEF FixInv, Validated
    <2> QED
      BY <2>1, <2>2, <2>3, <2>6 DEF FixInv, Validated
  <1> QED
    BY <1>1, <1>2, PTL DEF Spec

\* Where a diff can be rebuilt there is a target, and one place to put it.
LEMMA OnePlace ==
    ASSUME Validated, Rebuildable
    PROVE  /\ diff \in Seq(Raw) /\ Target \in TargetFile
           /\ \E p \in 0 .. Len(Target.lines) :
                 /\ Anchors = {p} /\ Readings(diff, Target.lines) = {p}
                 /\ NewFile = SubSeq(Target.lines, 1, p) \o NewBlock(diff)
                      \o SubSeq(Target.lines, p + Len(OldBlock(diff)) + 1, Len(Target.lines))
  <1>1. diff \in Seq(Raw) /\ \A path \in DOMAIN tree : tree[path] \in TargetFile
    BY FixAssumption DEF Validated
  <1>2. Cardinality(Anchors) = 1
    BY DEF Rebuildable, Anchored
  <1>3. Anchors # {}
    BY <1>2, FS_EmptySet
  <1>4. HasTarget /\ Anchors = Matches(OldBlock(diff), Target.lines)
    BY <1>3 DEF Anchors
  <1>5. Target \in TargetFile
    BY <1>1, <1>4 DEF HasTarget, Target
  <1>6. Target.lines \in Seq(STRING) /\ Len(Target.lines) \in Nat
    BY <1>5, LenProperties DEF TargetFile
  <1>7. Anchors = Readings(diff, Target.lines)
    BY <1>1, <1>4, <1>6, MatchesAreReadings
  <1>8. IsFiniteSet(Anchors)
    <2>1. IsFiniteSet(0 .. Len(Target.lines))
      BY <1>6, FS_Interval
    <2>2. Anchors \subseteq 0 .. Len(Target.lines)
      BY <1>7 DEF Readings
    <2> QED
      BY <2>1, <2>2, FS_Subset
  <1>9. PICK p : Anchors = {p}
    BY <1>2, <1>8, FS_Singleton
  <1>10. p \in 0 .. Len(Target.lines)
    BY <1>7, <1>9 DEF Readings
  <1>11. (CHOOSE q \in Anchors : TRUE) = p
    BY <1>9
  <1>12. NewFile = SubSeq(Target.lines, 1, p) \o NewBlock(diff)
            \o SubSeq(Target.lines, p + Len(OldBlock(diff)) + 1, Len(Target.lines))
    BY <1>11, Zenon DEF NewFile
  <1> QED
    BY <1>1, <1>5, <1>7, <1>9, <1>10, <1>12

\* What a diff rebuilt after git's refusal does is what its lines say, at the one
\* place of the target where they fit: for every diff and every tree.
THEOREM RebuildIsOnlyReading == Spec => []RebuildIsTheOnlyReading
  <1>1. FixInv => RebuildIsTheOnlyReading
    <2> SUFFICES ASSUME FixInv, rebuilt # << >>
                 PROVE  \E p \in Readings(diff, Target.lines) :
                           /\ Readings(diff, Target.lines) = {p}
                           /\ rebuilt[1] = ResultFrom(diff, Target.lines, p)
                           /\ Target.inside
      BY DEF RebuildIsTheOnlyReading
    <2>1. Validated /\ Rebuildable /\ rebuilt[1] = NewFile
      BY DEF FixInv, Validated
    <2>2. PICK p \in 0 .. Len(Target.lines) :
             /\ Readings(diff, Target.lines) = {p}
             /\ NewFile = SubSeq(Target.lines, 1, p) \o NewBlock(diff)
                  \o SubSeq(Target.lines, p + Len(OldBlock(diff)) + 1, Len(Target.lines))
      BY <2>1, OnePlace
    <2>3. diff \in Seq(Raw) /\ Target.lines \in Seq(STRING)
      BY <2>1, OnePlace DEF TargetFile
    <2>4. ReadFrom(diff, Target.lines, p)
             = StandingAfter(OldBlock(diff), NewBlock(diff), Target.lines, p)
      BY <2>3, ReaderMeetsOldPutsNew
    <2>5. NewFile = ResultFrom(diff, Target.lines, p)
      <3> DEFINE reading == ReadFrom(diff, Target.lines, p)
                 suffix(at) == SubSeq(Target.lines, at + 1, Len(Target.lines))
      <3>1. reading.at = p + Len(OldBlock(diff))
              /\ reading.out = SubSeq(Target.lines, 1, p) \o NewBlock(diff)
        BY <2>4 DEF StandingAfter
      <3>2. ResultFrom(diff, Target.lines, p) = reading.out \o suffix(reading.at)
        BY DEF ResultFrom
      <3> HIDE DEF reading, suffix
      <3>3. ResultFrom(diff, Target.lines, p)
               = SubSeq(Target.lines, 1, p) \o NewBlock(diff) \o suffix(p + Len(OldBlock(diff)))
        BY <3>1, <3>2, Zenon
      <3> QED
        BY <2>2, <3>3, Zenon DEF suffix
    <2> QED
      BY <2>1, <2>2, <2>5 DEF Rebuildable
  <1> QED
    BY <1>1, FixInvHolds, PTL

\* The validator's variables keep their types, and a status is there exactly when
\* it has returned.
THEOREM FixTypeCorrect == Spec => []TypeOK
  <1>1. FixInv => TypeOK
    <2> SUFFICES ASSUME FixInv PROVE TypeOK
      OBVIOUS
    <2>1. rebuilt \in Seq(Seq(STRING))
      <3>1. CASE rebuilt = << >>
        BY <3>1, EmptySeq
      <3>2. CASE rebuilt # << >>
        <4>1. Validated /\ Rebuildable /\ rebuilt = <<NewFile>>
          BY <3>2 DEF FixInv, Validated
        <4>2. PICK p \in 0 .. Len(Target.lines) :
                 NewFile = SubSeq(Target.lines, 1, p) \o NewBlock(diff)
                    \o SubSeq(Target.lines, p + Len(OldBlock(diff)) + 1, Len(Target.lines))
          BY <4>1, OnePlace
        <4>3. diff \in Seq(Raw) /\ Target.lines \in Seq(STRING)
          BY <4>1, OnePlace DEF TargetFile
        <4>4. NewBlock(diff) \in Seq(STRING) /\ Len(OldBlock(diff)) \in Nat
                /\ Len(Target.lines) \in Nat
          BY <4>3, BlocksAreTexts, LenProperties
        <4>5. SubSeq(Target.lines, 1, p) \in Seq(STRING)
          <5>1. \A i \in 1 .. p : Target.lines[i] \in STRING
            BY <4>3, <4>4, ElementOfSeq
          <5> QED
            BY <4>4, <5>1, SubSeqProperties
        <4>6. SubSeq(Target.lines, p + Len(OldBlock(diff)) + 1, Len(Target.lines)) \in Seq(STRING)
          <5> DEFINE from == p + Len(OldBlock(diff)) + 1
          <5>1. from \in Int /\ Len(Target.lines) \in Int /\ from >= 1
            BY <4>4
          <5>2. \A i \in from .. Len(Target.lines) : Target.lines[i] \in STRING
            BY <4>3, <4>4, <5>1, ElementOfSeq
          <5> HIDE DEF from
          <5>3. SubSeq(Target.lines, from, Len(Target.lines)) \in Seq(STRING)
            BY <5>1, <5>2, SubSeqProperties
          <5> QED
            BY <5>3 DEF from
        <4>7. NewFile \in Seq(STRING)
          BY <4>2, <4>4, <4>5, <4>6, ConcatProperties
        <4> QED
          BY <4>1, <4>7
      <3> QED
        BY <3>1, <3>2
    <2> QED
      BY <2>1 DEF FixInv, Validated, Stage, TypeOK
  <1> QED
    BY <1>1, FixInvHolds, PTL
=============================================================================
